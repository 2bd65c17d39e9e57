------------------------- MODULE MCLiveAcquisition --------------------------
(* TLC instances of LiveAcquisition: one company provider and one person   *)
(* provider (optimized), or two person providers (evaluation).             *)
EXTENDS LiveAcquisition, TLC

CONSTANTS abstract, hunter, apollo, firm, title, seniority

MCFields == abstract :> {firm} @@ hunter :> {title, seniority}
            @@ apollo :> {title, seniority}
MCCost == abstract :> 1 @@ hunter :> 2 @@ apollo :> 2
MCFieldTTL == firm :> 2 @@ title :> 2 @@ seniority :> 1

OnlyProvider(f, P) == [p \in P |-> f[p]]
MCFieldsHere == OnlyProvider(MCFields, Providers)
MCCostHere == OnlyProvider(MCCost, Providers)

CompanyOrder == <<abstract>>
OptimizedOrder == <<abstract, hunter>>
PersonOrder == <<hunter>>
ThreeProviders == <<abstract, hunter, apollo>>

Symmetry == Permutations(Workers) \cup Permutations(Leads)
=============================================================================
