------------------------- MODULE IntelligenceProofs -------------------------
(***************************************************************************)
(* Why a discovery run pays only for what it has earned, why research asks *)
(* only what is open, why calls of the model end within their budgets and  *)
(* their ledger adds up, and, from the machines of AcquisitionProofs, why  *)
(* acquisition stops for a reason and buys nothing twice: for any          *)
(* companies, requests, calls, leads, limits and crashes.                  *)
(***************************************************************************)
EXTENDS Intelligence, CustomerProofs, FiniteSetTheorems, SequenceTheorems,
        WellFoundedInduction, TLAPS

-----------------------------------------------------------------------------
(* Discovery: the runner.                                                  *)
EarlyStages == {"idle", "draft", "plan", "search", "found", "screen"}
PromotionStages == {"screened", "promote", "demote", "ingest", "link"}
LateStages == {"drive", "build", "ended"}

CandidateState ==
  [class : Classes \cup {"none", "unscreened"},
   site : {"none", "verified", "rejected", "unavailable"}, linked : BOOLEAN]
LeadState ==
  [job : {"none", "pending", "held", "done"}, by : {"none", "simulated", "live"},
   priority : Priorities("simulated")]

RunTypes ==
  /\ live \in LiveChoices
  /\ stage \in EarlyStages \cup PromotionStages \cup LateStages
  /\ runStatus \in {"none", "draft", "planning", "discovering", "screening",
                    "promoting", "researching", "complete", "failed"}
  /\ funnel \in [promoted : Nat, rejected : Nat]
  /\ toPromote \subseteq Domains
  /\ current = {} \/ \E d \in Domains : current = {d}
  /\ candidate \in [Domains -> CandidateState]
  /\ lead \in [Leads -> LeadState]

Liked(d) == candidate[d].class \in {"promising", "possible"}
NotRefuted(d) == candidate[d].site \in {"verified", "unavailable"}
IsLead(d) == lead[d].job # "none"

(* What is known of a candidate, and of the one the runner is at.          *)
CandidateSound(d) ==
  /\ d \in Junk => candidate[d].class = "none"
  /\ stage \in EarlyStages => candidate[d].site = "none" /\ ~IsLead(d)
  /\ d \in toPromote => Liked(d) /\ candidate[d].site = "none" /\ ~IsLead(d)
  /\ IsLead(d) => Liked(d) /\ NotRefuted(d)
  /\ candidate[d].linked => IsLead(d)
  /\ IsLead(d) /\ stage # "ended" =>
       candidate[d].linked \/ (d \in current /\ stage = "link")
CurrentSound(d) ==
  /\ Liked(d)
  /\ stage = "demote" => candidate[d].site = "rejected"
  /\ stage \in {"ingest", "link"} => NotRefuted(d)
  /\ stage = "link" <=> IsLead(d)

(* The stage tells what the run's row may say.                             *)
StageSound ==
  /\ stage \notin {"demote", "ingest", "link"} => current = {}
  /\ stage \in EarlyStages \cup LateStages => toPromote = {}
  /\ stage \in EarlyStages \cup PromotionStages => runStatus \notin {"researching", "complete"}
  /\ stage \in {"drive", "build"} => runStatus = "researching"

(* Of the survivors no merely possible one was taken in, or no promising   *)
(* one was left out.                                                       *)
StrongestSoFar ==
  (stage \in PromotionStages \/ runStatus \in {"researching", "complete"}) =>
    \/ \A d \in Domains : candidate[d].class = "promising" =>
         candidate[d].site # "none" \/ d \in toPromote
    \/ \A d \in Domains : candidate[d].class = "possible" =>
         ~IsLead(d) /\ d \notin toPromote \cup current

RunInv ==
  /\ RunTypes /\ StageSound
  /\ \A d \in Domains : CandidateSound(d)
  /\ \A d \in current : CurrentSound(d)
  /\ StrongestSoFar /\ FunnelIsTrue

-----------------------------------------------------------------------------
(* Discovery: the searches for buyers.                                     *)
RequestState ==
  [at : {"idle", "build", "search", "book", "name", "address"},
   todo : SUBSET Domains, for : SUBSET Domains, answer : {"none"} \cup Answers]

ShopTypes ==
  /\ request \in [Requests -> RequestState]
  /\ \A r \in Requests :
       /\ request[r].for \cup request[r].todo \subseteq Linked
       /\ \A d, e \in request[r].for : d = e
  /\ buyer \in [Domains -> {"none", "name", "address"}]
  /\ paid \in [Domains -> Nat]
  /\ booked \in [Domains -> {<< >>, <<0>>, <<1>>}]

(* The website was read and the lead decided; both are for good.           *)
Verified(d) ==
  /\ candidate[d].site = "verified" /\ candidate[d].linked
  /\ lead[d].job = "done" /\ lead[d].priority \in Eligible

(* A request that looks for a buyer was entitled to, and what it has still *)
(* to write was charged, and booked before it was kept.                    *)
SearchSound(r, d) ==
  /\ request[r].at \in {"search", "book", "name", "address"} => Verified(d)
  /\ request[r].at = "book" /\ request[r].answer \in {"named", "nameless"} => paid[d] > 0
  /\ request[r].at \in {"name", "address"} => booked[d] # << >> /\ paid[d] > 0

(* A search under way counts as if it had been charged.                    *)
SearchesFit ==
  \A d \in Domains :
    paid[d] + Cardinality(Searching(d)) <= MaxSearches + Cardinality(Requests)

ShopInv ==
  /\ ShopTypes
  /\ \A r \in Requests : \A d \in request[r].for : SearchSound(r, d)
  /\ \A d \in Domains : lead[d].job # "done" => lead[d].priority = "review"
  /\ BuyersOnlyForVerified /\ SearchLedgerIsSound /\ SearchesFit

DiscoveryInv == RunInv /\ ShopInv

-----------------------------------------------------------------------------
LEMMA DomainsAreLeads ==
  Stranger \notin Domains /\ Domains \subseteq Leads /\ Junk \subseteq Domains
BY DiscoveryAssumption DEF Leads

LEMMA RunBegins == DiscoveryInit => RunInv
<1> SUFFICES ASSUME DiscoveryInit PROVE RunInv
  OBVIOUS
<1>1. /\ live \in LiveChoices /\ runStatus = "none" /\ funnel = [promoted |-> 0, rejected |-> 0]
      /\ stage = "idle" /\ toPromote = {} /\ current = {}
      /\ candidate = [d \in Domains |-> NoCandidate]
      /\ lead = [l \in Leads |-> IF l = Stranger THEN Queued ELSE NoLead]
  BY DEF DiscoveryInit, EmptyFunnel
<1>2. \A d \in Domains : /\ candidate[d].class = "none" /\ candidate[d].site = "none"
                         /\ ~candidate[d].linked /\ lead[d].job = "none"
  BY <1>1, DomainsAreLeads DEF NoCandidate, NoLead
<1>3. candidate \in [Domains -> CandidateState]
  BY <1>1 DEF NoCandidate, CandidateState
<1>4. lead \in [Leads -> LeadState]
  BY <1>1 DEF NoLead, Queued, LeadState, Priorities
<1>5. RunTypes
  BY <1>1, <1>3, <1>4 DEF RunTypes, EarlyStages
<1>6. \A d \in Domains : CandidateSound(d)
  BY <1>1, <1>2 DEF CandidateSound, IsLead
<1>7. StageSound /\ StrongestSoFar /\ FunnelIsTrue
  BY <1>1 DEF StageSound, StrongestSoFar, FunnelIsTrue, PromotionStages, LateStages
<1> QED
  BY <1>1, <1>5, <1>6, <1>7 DEF RunInv

LEMMA ShopOpens == DiscoveryInit => ShopInv
<1> SUFFICES ASSUME DiscoveryInit PROVE ShopInv
  OBVIOUS
<1>1. /\ request = [r \in Requests |-> NoRequest]
      /\ buyer = [d \in Domains |-> "none"] /\ paid = [d \in Domains |-> 0]
      /\ booked = [d \in Domains |-> << >>]
      /\ lead = [l \in Leads |-> IF l = Stranger THEN Queued ELSE NoLead]
  BY DEF DiscoveryInit
<1>2. \A r \in Requests : /\ request[r].at = "idle" /\ request[r].for = {}
                          /\ request[r].todo = {}
  BY <1>1 DEF NoRequest
<1>3. ShopTypes
  <2>1. request \in [Requests -> RequestState]
    BY <1>1 DEF NoRequest, RequestState
  <2> QED
    BY <1>1, <1>2, <2>1 DEF ShopTypes
<1>4. \A d \in Domains : lead[d].priority = "review"
  BY <1>1, DomainsAreLeads DEF NoLead
<1>5. BuyersOnlyForVerified /\ SearchLedgerIsSound
  BY <1>1 DEF BuyersOnlyForVerified, SearchLedgerIsSound
<1>6. SearchesFit
  <2>1. IsFiniteSet(Requests) /\ Cardinality(Requests) \in Nat
    BY FinitelyManyAssumption, FS_AddElement, FS_CardinalityType DEF Requests
  <2>2. \A d \in Domains : Searching(d) = {}
    BY <1>2 DEF Searching
  <2>3. Cardinality({}) = 0
    BY FS_EmptySet
  <2>4. \A d \in Domains : paid[d] = 0
    BY <1>1
  <2>5. MaxSearches \in Nat
    BY DiscoveryAssumption
  <2>6. ASSUME NEW d \in Domains
        PROVE  paid[d] + Cardinality(Searching(d)) <= MaxSearches + Cardinality(Requests)
    <3>1. Cardinality(Searching(d)) = 0
      BY <2>2, <2>3
    <3> QED
      BY <2>1, <2>4, <2>5, <3>1
  <2> QED
    BY <2>6 DEF SearchesFit
<1> QED
  BY <1>2, <1>3, <1>4, <1>5, <1>6 DEF ShopInv

-----------------------------------------------------------------------------
(* The runner's own steps.                                                 *)
LEMMA RowsAreTyped ==
  ASSUME RunTypes
  PROVE  /\ \A d \in Domains : /\ candidate[d] \in CandidateState
                               /\ lead[d] \in LeadState
         /\ \A l \in Leads : lead[l] \in LeadState
         /\ \A d, e : d \in current /\ e \in current => d = e
BY DomainsAreLeads DEF RunTypes

LEMMA AdvanceKeepsRun ==
  ASSUME RunInv, AdvanceRun
  PROVE  RunInv'
<1>1. PICK a \in Advances : stage = a[1] /\ runStatus' = a[2] /\ stage' = a[3]
  BY DEF AdvanceRun
<1>2. UNCHANGED <<funnel, toPromote, current, candidate, live, lead>>
  BY DEF AdvanceRun, Outside
<1>3. \/ /\ stage \in EarlyStages /\ stage' \in EarlyStages
      \/ stage = "screened" /\ stage' = "promote"
  BY <1>1 DEF Advances, EarlyStages
<1>4. runStatus' \in {"draft", "planning", "discovering", "screening", "promoting"}
  BY <1>1 DEF Advances
<1>5. RunTypes' /\ StageSound'
  BY <1>2, <1>3, <1>4
     DEF RunInv, RunTypes, StageSound, EarlyStages, PromotionStages, LateStages
<1>6. \A d \in Domains : CandidateSound(d)'
  BY <1>2, <1>3 DEF RunInv, CandidateSound, Liked, NotRefuted, IsLead, EarlyStages
<1>7. current' = {}
  BY <1>2, <1>3 DEF RunInv, StageSound, EarlyStages
<1>8. StrongestSoFar' /\ FunnelIsTrue'
  BY <1>2, <1>3, <1>4
     DEF RunInv, StrongestSoFar, FunnelIsTrue, EarlyStages, PromotionStages, Liked, IsLead
<1> QED
  BY <1>5, <1>6, <1>7, <1>8 DEF RunInv

LEMMA SearchKeepsRun ==
  ASSUME RunInv, NEW found \in SUBSET Domains, SearchCompanies(found)
  PROVE  RunInv'
<1>1. /\ stage = "search" /\ stage' = "found"
      /\ UNCHANGED <<runStatus, funnel, toPromote, current, live, lead>>
      /\ candidate' = [d \in Domains |->
           IF d \in Unique(found) THEN [NoCandidate EXCEPT !.class = "unscreened"]
           ELSE candidate[d]]
  BY DEF SearchCompanies, Outside
<1>2. candidate' \in [Domains -> CandidateState]
  BY <1>1, RowsAreTyped DEF RunInv, CandidateState, NoCandidate
<1>3. RunTypes' /\ StageSound'
  BY <1>1, <1>2 DEF RunInv, RunTypes, StageSound, EarlyStages, PromotionStages, LateStages
<1>4. \A d \in Domains : /\ ~IsLead(d) /\ d \notin toPromote /\ ~candidate[d].linked
                         /\ candidate[d].site = "none"
  BY <1>1 DEF RunInv, StageSound, CandidateSound, EarlyStages
<1>5. \A d \in Domains :
        /\ candidate'[d].site = "none" /\ ~candidate'[d].linked
        /\ d \in Junk => candidate'[d].class = "none"
  BY <1>1, <1>4 DEF RunInv, CandidateSound, Unique, NoCandidate
<1>6. \A d \in Domains : CandidateSound(d)'
  BY <1>1, <1>4, <1>5 DEF CandidateSound, IsLead
<1>7. current' = {} /\ runStatus' \notin {"researching", "complete"}
  BY <1>1 DEF RunInv, StageSound, EarlyStages
<1>8. StrongestSoFar' /\ FunnelIsTrue'
  BY <1>1, <1>7 DEF StrongestSoFar, FunnelIsTrue, PromotionStages
<1> QED
  BY <1>3, <1>6, <1>7, <1>8 DEF RunInv

LEMMA ScreeningKeepsRun ==
  ASSUME RunInv, NEW verdict \in [Found -> Classes], NEW T \in SUBSET Domains,
         ScreenCandidates(verdict, T)
  PROVE  RunInv'
<1>1. /\ stage = "screen" /\ stage' = "screened"
      /\ UNCHANGED <<runStatus, funnel, current, live, lead>>
      /\ candidate' = [d \in Domains |->
           IF d \in Found THEN [candidate[d] EXCEPT !.class = verdict[d]] ELSE candidate[d]]
      /\ toPromote' = T
  BY DEF ScreenCandidates, Outside
<1>2. /\ T \subseteq Of(verdict, "promising") \cup Of(verdict, "possible")
      /\ T \cap Of(verdict, "possible") # {} => Of(verdict, "promising") \subseteq T
  BY DEF ScreenCandidates, Chosen, Chosen_AnyOrder
<1>3. Found \subseteq Domains /\ \A d \in Domains \ Found : candidate[d].class = "none"
  BY DEF Found
<1>4. \A d \in Domains : /\ candidate[d] \in CandidateState
                         /\ d \in Found => verdict[d] \in Classes
  BY RowsAreTyped DEF RunInv
<1>5. candidate' \in [Domains -> CandidateState]
  BY <1>1, <1>4 DEF CandidateState
<1>6. \A d \in Domains :
        /\ candidate'[d].site = candidate[d].site /\ candidate'[d].linked = candidate[d].linked
        /\ candidate'[d].class = IF d \in Found THEN verdict[d] ELSE "none"
  BY <1>1, <1>3, <1>4 DEF CandidateState
<1>7. RunTypes' /\ StageSound'
  BY <1>1, <1>5 DEF RunInv, RunTypes, StageSound, EarlyStages, PromotionStages, LateStages
<1>8. \A d \in Domains : /\ ~IsLead(d) /\ ~candidate[d].linked /\ candidate[d].site = "none"
                         /\ d \in Junk => d \notin Found
  BY <1>1 DEF RunInv, CandidateSound, EarlyStages, Found
<1>9. \A d \in T : candidate'[d].class \in {"promising", "possible"}
  BY <1>2, <1>3, <1>6 DEF Of
<1>10. \A d \in Domains : CandidateSound(d)'
  BY <1>1, <1>6, <1>8, <1>9 DEF CandidateSound, IsLead, Liked, NotRefuted, EarlyStages
<1>11. current' = {} /\ runStatus' \notin {"researching", "complete"}
  BY <1>1 DEF RunInv, StageSound, EarlyStages
<1>12. StrongestSoFar'
  <2>1. CASE T \cap Of(verdict, "possible") = {}
    <3>1. \A d \in Domains : candidate'[d].class = "possible" => d \notin T
      BY <2>1, <1>6 DEF Of
    <3> QED
      BY <3>1, <1>1, <1>8, <1>11 DEF StrongestSoFar, IsLead
  <2>2. CASE Of(verdict, "promising") \subseteq T
    <3>1. \A d \in Domains : candidate'[d].class = "promising" => d \in T
      BY <2>2, <1>6 DEF Of
    <3> QED
      BY <3>1, <1>1 DEF StrongestSoFar
  <2> QED
    BY <2>1, <2>2, <1>2
<1>13. FunnelIsTrue'
  BY <1>11 DEF FunnelIsTrue
<1> QED
  BY <1>7, <1>10, <1>11, <1>12, <1>13 DEF RunInv

LEMMA VerifyKeepsRun ==
  ASSUME RunInv, NEW d \in Domains, NEW site \in {"verified", "rejected", "unavailable"},
         VerifyWebsite(d, site)
  PROVE  RunInv'
<1>1. /\ stage = "promote" /\ d \in toPromote
      /\ toPromote' = toPromote \ {d} /\ current' = {d}
      /\ candidate' = [candidate EXCEPT ![d].site = site]
      /\ stage' = AfterSite(site)
      /\ UNCHANGED <<runStatus, funnel, live, lead>>
  BY DEF VerifyWebsite, Outside
<1>2. /\ stage' \in {"demote", "ingest"}
      /\ stage' = "demote" => site = "rejected"
      /\ stage' = "ingest" => site \in {"verified", "unavailable"}
  BY <1>1 DEF AfterSite
<1>3. candidate \in [Domains -> CandidateState]
  BY DEF RunInv, RunTypes
<1>4. candidate' \in [Domains -> CandidateState]
  BY <1>1, <1>3 DEF CandidateState
<1>5. /\ candidate'[d].site = site
      /\ \A e \in Domains : /\ candidate'[e].class = candidate[e].class
                            /\ candidate'[e].linked = candidate[e].linked
                            /\ e # d => candidate'[e] = candidate[e]
  BY <1>1, <1>3 DEF CandidateState
<1>6. RunTypes'
  BY <1>1, <1>2, <1>4 DEF RunInv, RunTypes, PromotionStages
<1>7. StageSound' /\ runStatus' \notin {"researching", "complete"}
  BY <1>1, <1>2 DEF RunInv, StageSound, EarlyStages, PromotionStages, LateStages
<1>8. Liked(d) /\ ~IsLead(d) /\ current = {}
  BY <1>1 DEF RunInv, CandidateSound, StageSound
<1>9. \A e \in Domains : CandidateSound(e)'
  <2> SUFFICES ASSUME NEW e \in Domains PROVE CandidateSound(e)'
    OBVIOUS
  <2>1. CandidateSound(e)
    BY DEF RunInv
  <2>2. CASE e = d
    BY <2>1, <2>2, <1>1, <1>2, <1>5, <1>8
       DEF CandidateSound, Liked, NotRefuted, IsLead, EarlyStages
  <2>3. CASE e # d
    BY <2>1, <2>3, <1>1, <1>2, <1>5, <1>8
       DEF CandidateSound, Liked, NotRefuted, IsLead, EarlyStages
  <2> QED
    BY <2>2, <2>3
<1>10. \A e \in current' : CurrentSound(e)'
  BY <1>1, <1>2, <1>5, <1>8 DEF CurrentSound, Liked, NotRefuted, IsLead
<1>11. StrongestSoFar'
  <2>1. StrongestSoFar /\ stage \in PromotionStages
    BY <1>1 DEF RunInv, PromotionStages
  <2> QED
    BY <2>1, <1>1, <1>5 DEF StrongestSoFar, IsLead
<1>12. FunnelIsTrue'
  BY <1>7 DEF FunnelIsTrue
<1> QED
  BY <1>6, <1>7, <1>9, <1>10, <1>11, <1>12 DEF RunInv

LEMMA DemoteKeepsRun ==
  ASSUME RunInv, NEW d \in Domains, DemoteCandidate(d)
  PROVE  RunInv'
<1>1. /\ stage = "demote" /\ d \in current
      /\ candidate' = [candidate EXCEPT ![d].class = "unlikely"]
      /\ stage' = "promote" /\ current' = {}
      /\ UNCHANGED <<runStatus, funnel, toPromote, live, lead>>
  BY DEF DemoteCandidate, Outside
<1>2. candidate \in [Domains -> CandidateState] /\ current = {d}
  BY <1>1 DEF RunInv, RunTypes
<1>3. candidate' \in [Domains -> CandidateState]
  BY <1>1, <1>2 DEF CandidateState, Classes
<1>4. /\ candidate'[d].class = "unlikely"
      /\ \A e \in Domains : /\ candidate'[e].site = candidate[e].site
                            /\ candidate'[e].linked = candidate[e].linked
                            /\ e # d => candidate'[e] = candidate[e]
  BY <1>1, <1>2 DEF CandidateState
<1>5. RunTypes'
  BY <1>1, <1>3 DEF RunInv, RunTypes, PromotionStages
<1>6. StageSound' /\ runStatus' \notin {"researching", "complete"}
  BY <1>1 DEF RunInv, StageSound, EarlyStages, PromotionStages, LateStages
<1>7. ~IsLead(d) /\ Liked(d) /\ candidate[d].site = "rejected" /\ ~candidate[d].linked
  BY <1>1 DEF RunInv, CurrentSound, CandidateSound
<1>8. d \notin toPromote /\ d \notin Junk
  <2>1. CandidateSound(d)
    BY DEF RunInv
  <2> QED
    BY <2>1, <1>7 DEF CandidateSound, Liked
<1>9. \A e \in Domains : CandidateSound(e)'
  <2> SUFFICES ASSUME NEW e \in Domains PROVE CandidateSound(e)'
    OBVIOUS
  <2>1. CandidateSound(e)
    BY DEF RunInv
  <2>2. CASE e = d
    BY <2>1, <2>2, <1>1, <1>4, <1>7, <1>8
       DEF CandidateSound, Liked, NotRefuted, IsLead, EarlyStages
  <2>3. CASE e # d
    BY <2>1, <2>3, <1>1, <1>2, <1>4
       DEF CandidateSound, Liked, NotRefuted, IsLead, EarlyStages
  <2> QED
    BY <2>2, <2>3
<1>10. StrongestSoFar'
  <2>1. StrongestSoFar /\ stage \in PromotionStages
    BY <1>1 DEF RunInv, PromotionStages
  <2> QED
    BY <2>1, <1>1, <1>4 DEF StrongestSoFar, IsLead
<1>11. FunnelIsTrue'
  BY <1>6 DEF FunnelIsTrue
<1> QED
  BY <1>1, <1>5, <1>6, <1>9, <1>10, <1>11 DEF RunInv

LEMMA PromoteKeepsRun ==
  ASSUME RunInv, NEW d \in Domains, PromoteCandidate(d)
  PROVE  RunInv'
<1>1. /\ stage = "ingest" /\ d \in current
      /\ lead' = [lead EXCEPT ![d] = Queued]
      /\ stage' = "link"
      /\ UNCHANGED <<runStatus, funnel, toPromote, current, candidate, live>>
  BY DEF PromoteCandidate
<1>2. /\ lead \in [Leads -> LeadState] /\ d \in Leads /\ Domains \subseteq Leads
      /\ current = {d}
  BY <1>1, DomainsAreLeads DEF RunInv, RunTypes
<1>3. Queued \in LeadState /\ Queued.job = "pending"
  BY DEF Queued, NoLead, LeadState, Priorities
<1>4. /\ lead' \in [Leads -> LeadState] /\ lead'[d].job = "pending"
      /\ \A e \in Domains : e # d => lead'[e] = lead[e]
  BY <1>1, <1>2, <1>3
<1>5. RunTypes'
  BY <1>1, <1>4 DEF RunInv, RunTypes, PromotionStages
<1>6. StageSound' /\ runStatus' \notin {"researching", "complete"}
  BY <1>1 DEF RunInv, StageSound, EarlyStages, PromotionStages, LateStages
<1>7. Liked(d) /\ NotRefuted(d)
  BY <1>1 DEF RunInv, CurrentSound
<1>8. d \notin toPromote
  <2>1. CandidateSound(d)
    BY DEF RunInv
  <2> QED
    BY <2>1, <1>7 DEF CandidateSound, NotRefuted
<1>9. \A e \in Domains : CandidateSound(e)'
  <2> SUFFICES ASSUME NEW e \in Domains PROVE CandidateSound(e)'
    OBVIOUS
  <2>1. CandidateSound(e)
    BY DEF RunInv
  <2>2. CASE e = d
    BY <2>1, <2>2, <1>1, <1>4, <1>7, <1>8
       DEF CandidateSound, Liked, NotRefuted, IsLead, EarlyStages
  <2>3. CASE e # d
    BY <2>1, <2>3, <1>1, <1>2, <1>4
       DEF CandidateSound, Liked, NotRefuted, IsLead, EarlyStages
  <2> QED
    BY <2>2, <2>3
<1>10. \A e \in current' : CurrentSound(e)'
  BY <1>1, <1>2, <1>4, <1>7 DEF CurrentSound, Liked, NotRefuted, IsLead
<1>11. StrongestSoFar'
  <2>1. StrongestSoFar /\ stage \in PromotionStages
    BY <1>1 DEF RunInv, PromotionStages
  <2> QED
    BY <2>1, <1>1, <1>2, <1>4 DEF StrongestSoFar, IsLead
<1>12. FunnelIsTrue'
  BY <1>6 DEF FunnelIsTrue
<1> QED
  BY <1>5, <1>6, <1>9, <1>10, <1>11, <1>12 DEF RunInv

LEMMA LinkKeepsRun ==
  ASSUME RunInv, NEW d \in Domains, LinkLead(d)
  PROVE  RunInv'
<1>1. /\ stage = "link" /\ d \in current
      /\ candidate' = [candidate EXCEPT ![d].linked = TRUE]
      /\ stage' = "promote" /\ current' = {}
      /\ UNCHANGED <<runStatus, funnel, toPromote, live, lead>>
  BY DEF LinkLead, Outside
<1>2. candidate \in [Domains -> CandidateState] /\ current = {d}
  BY <1>1 DEF RunInv, RunTypes
<1>3. candidate' \in [Domains -> CandidateState]
  BY <1>1, <1>2 DEF CandidateState
<1>4. /\ candidate'[d].linked
      /\ \A e \in Domains : /\ candidate'[e].site = candidate[e].site
                            /\ candidate'[e].class = candidate[e].class
                            /\ e # d => candidate'[e] = candidate[e]
  BY <1>1, <1>2 DEF CandidateState
<1>5. RunTypes'
  BY <1>1, <1>3 DEF RunInv, RunTypes, PromotionStages
<1>6. StageSound' /\ runStatus' \notin {"researching", "complete"}
  BY <1>1 DEF RunInv, StageSound, EarlyStages, PromotionStages, LateStages
<1>7. IsLead(d)
  BY <1>1 DEF RunInv, CurrentSound
<1>8. \A e \in Domains : CandidateSound(e)'
  <2> SUFFICES ASSUME NEW e \in Domains PROVE CandidateSound(e)'
    OBVIOUS
  <2>1. CandidateSound(e)
    BY DEF RunInv
  <2>2. CASE e = d
    BY <2>1, <2>2, <1>1, <1>4, <1>7
       DEF CandidateSound, Liked, NotRefuted, IsLead, EarlyStages
  <2>3. CASE e # d
    BY <2>1, <2>3, <1>1, <1>2, <1>4
       DEF CandidateSound, Liked, NotRefuted, IsLead, EarlyStages
  <2> QED
    BY <2>2, <2>3
<1>9. StrongestSoFar'
  <2>1. StrongestSoFar /\ stage \in PromotionStages
    BY <1>1 DEF RunInv, PromotionStages
  <2> QED
    BY <2>1, <1>1, <1>4 DEF StrongestSoFar, IsLead
<1>10. FunnelIsTrue'
  BY <1>6 DEF FunnelIsTrue
<1> QED
  BY <1>1, <1>5, <1>6, <1>8, <1>9, <1>10 DEF RunInv

(* The row is written when everything it counts is linked.                 *)
LEMMA FinishKeepsRun ==
  ASSUME RunInv, FinishPromotion
  PROVE  RunInv'
<1>1. /\ stage = "promote" /\ toPromote = {}
      /\ runStatus' = "researching" /\ stage' = "drive"
      /\ funnel' = Counted
      /\ UNCHANGED <<toPromote, current, candidate, live, lead>>
  BY DEF FinishPromotion, Outside
<1>2. Counted \in [promoted : Nat, rejected : Nat]
  <2>1. IsFiniteSet(Linked) /\ IsFiniteSet(Rejected)
    BY FinitelyManyAssumption, FS_Subset DEF Linked, Rejected
  <2>2. Cardinality(Linked) \in Nat /\ Cardinality(Rejected) \in Nat
    BY <2>1, FS_CardinalityType
  <2> QED
    BY <2>2 DEF Counted
<1>3. current = {}
  BY <1>1 DEF RunInv, StageSound
<1>4. RunTypes' /\ StageSound'
  BY <1>1, <1>2, <1>3 DEF RunInv, RunTypes, StageSound, EarlyStages, PromotionStages, LateStages
<1>5. \A d \in Domains : /\ IsLead(d) <=> candidate[d].linked
                         /\ IsLead(d) => candidate[d].site # "rejected"
  BY <1>1 DEF RunInv, CandidateSound, NotRefuted
<1>6. \A d \in Domains : CandidateSound(d)'
  BY <1>1, <1>5 DEF RunInv, CandidateSound, Liked, NotRefuted, IsLead, EarlyStages
<1>7. StrongestSoFar'
  BY <1>1 DEF RunInv, StrongestSoFar, IsLead, PromotionStages
<1>8. FunnelIsTrue'
  <2>1. Linked = Promoted
    BY <1>5 DEF Linked, Promoted, IsLead
  <2>2. Rejected = {d \in Domains : candidate[d].site = "rejected" /\ d \notin Promoted}
    BY <1>5 DEF Rejected, Promoted, IsLead
  <2>3. /\ funnel'.promoted = Cardinality(Linked) /\ funnel'.rejected = Cardinality(Rejected)
        /\ Linked' = Linked /\ Promoted' = Promoted /\ Rejected' = Rejected
    BY <1>1 DEF Counted, Linked, Promoted, Rejected
  <2>4. Rejected' = {d \in Domains : candidate'[d].site = "rejected" /\ d \notin Promoted'}
    BY <1>1, <2>2, <2>3
  <2>5. /\ Linked' = Promoted' /\ funnel'.promoted = Cardinality(Promoted')
        /\ funnel'.rejected = Cardinality(Rejected')
    BY <2>1, <2>3
  <2> QED
    BY <2>4, <2>5 DEF FunnelIsTrue
<1> QED
  BY <1>1, <1>3, <1>4, <1>6, <1>7, <1>8 DEF RunInv

LEMMA EndKeepsRun ==
  ASSUME RunInv, stage' = "ended", toPromote' = {}, current' = {},
         UNCHANGED <<candidate, live, lead>>,
         \/ runStatus' = "failed" /\ funnel' = EmptyFunnel
         \/ UNCHANGED <<runStatus, funnel>>
         \/ stage = "build" /\ runStatus' = "complete" /\ UNCHANGED funnel
  PROVE  RunInv'
<1>1. funnel' \in [promoted : Nat, rejected : Nat]
  BY DEF RunInv, RunTypes, EmptyFunnel
<1>2. RunTypes' /\ StageSound'
  BY <1>1 DEF RunInv, RunTypes, StageSound, EarlyStages, PromotionStages, LateStages
<1>3. \A d \in Domains : CandidateSound(d)'
  BY DEF RunInv, CandidateSound, Liked, NotRefuted, IsLead, EarlyStages
<1>4. runStatus' \in {"researching", "complete"} =>
        /\ runStatus \in {"researching", "complete"} /\ toPromote = {}
        /\ UNCHANGED funnel
  BY DEF RunInv, RunTypes, StageSound, PromotionStages, EarlyStages, LateStages
<1>5. StrongestSoFar'
  BY <1>4 DEF RunInv, StrongestSoFar, IsLead, PromotionStages
<1>6. FunnelIsTrue'
  BY <1>4 DEF RunInv, FunnelIsTrue, Linked, Promoted
<1> QED
  BY <1>2, <1>3, <1>5, <1>6 DEF RunInv

(* Whoever works on leads neither makes one nor unmakes one.               *)
LEMMA OthersKeepRun ==
  ASSUME RunInv, stage' = stage \/ (stage = "drive" /\ stage' = "build"),
         UNCHANGED <<live, runStatus, funnel, toPromote, current, candidate>>,
         lead' \in [Leads -> LeadState],
         \A d \in Domains : IsLead(d)' <=> IsLead(d)
  PROVE  RunInv'
<1>1. RunTypes' /\ StageSound'
  BY DEF RunInv, RunTypes, StageSound, EarlyStages, PromotionStages, LateStages
<1>2. \A d \in Domains : CandidateSound(d)'
  BY DEF RunInv, CandidateSound, Liked, NotRefuted, EarlyStages
<1>3. \A d \in current' : CurrentSound(d)'
  BY DEF RunInv, RunTypes, CurrentSound, Liked, NotRefuted
<1>4. StrongestSoFar'
  BY DEF RunInv, StrongestSoFar, PromotionStages
<1>5. Promoted' = Promoted /\ Linked' = Linked
  BY DEF Promoted, Linked, IsLead
<1>6. FunnelIsTrue'
  BY <1>5 DEF RunInv, FunnelIsTrue
<1> QED
  BY <1>1, <1>2, <1>3, <1>4, <1>6 DEF RunInv

-----------------------------------------------------------------------------
(* The searches: nothing that entitled one to search is taken back.        *)
LEMMA SearchesAreFinite ==
  /\ IsFiniteSet(Requests) /\ Cardinality(Requests) \in Nat
  /\ \A S \in SUBSET Requests :
       /\ IsFiniteSet(S) /\ Cardinality(S) \in Nat
       /\ Cardinality(S) <= Cardinality(Requests)
       /\ \A U \in SUBSET S : Cardinality(U) <= Cardinality(S)
       /\ \A r \in S : Cardinality(S \ {r}) = Cardinality(S) - 1
<1>1. IsFiniteSet(Requests)
  BY FinitelyManyAssumption, FS_AddElement DEF Requests
<1>2. \A S \in SUBSET Requests :
        /\ IsFiniteSet(S) /\ Cardinality(S) \in Nat
        /\ Cardinality(S) <= Cardinality(Requests)
  BY <1>1, FS_Subset, FS_CardinalityType
<1>3. \A S \in SUBSET Requests : \A U \in SUBSET S : Cardinality(U) <= Cardinality(S)
  BY <1>2, FS_Subset
<1>4. \A S \in SUBSET Requests : \A r \in S : Cardinality(S \ {r}) = Cardinality(S) - 1
  BY <1>2, FS_RemoveElement
<1> QED
  BY <1>1, <1>2, <1>3, <1>4

LEMMA SpentStays ==
  ASSUME SearchesFit, ShopTypes, UNCHANGED paid,
         \A d \in Domains : Searching(d)' \subseteq Searching(d)
  PROVE  SearchesFit'
<1> SUFFICES ASSUME NEW d \in Domains
             PROVE  (paid[d] + Cardinality(Searching(d)) <= MaxSearches + Cardinality(Requests))'
  BY DEF SearchesFit
<1>1. Searching(d)' \subseteq Searching(d) /\ Searching(d) \subseteq Requests
  BY DEF Searching
<1>2. /\ Cardinality(Searching(d)') <= Cardinality(Searching(d))
      /\ Cardinality(Searching(d)') \in Nat /\ Cardinality(Searching(d)) \in Nat
  BY <1>1, SearchesAreFinite
<1>3. paid[d] \in Nat /\ paid'[d] = paid[d] /\ MaxSearches \in Nat /\ Cardinality(Requests) \in Nat
  BY SearchesAreFinite, DiscoveryAssumption DEF ShopTypes
<1>4. paid[d] + Cardinality(Searching(d)) <= MaxSearches + Cardinality(Requests)
  BY DEF SearchesFit
<1> HIDE DEF Searching
<1> QED
  BY <1>2, <1>3, <1>4 DEF Requests

LEMMA ShopStays ==
  ASSUME ShopInv, UNCHANGED <<buyer, paid, booked>>,
         request' \in [Requests -> RequestState],
         \A r \in Requests :
           \/ request'[r] = request[r]
           \/ /\ request'[r].for = {} /\ request'[r].todo \subseteq Linked'
              /\ request'[r].at \in {"idle", "build"},
         Linked \subseteq Linked',
         \A d \in Domains : Verified(d) => Verified(d)',
         \A d \in Domains : lead'[d].job # "done" => lead'[d].priority = "review"
  PROVE  ShopInv'
<1>1. ShopTypes'
  <2>1. \A r \in Requests :
          /\ request'[r].for \cup request'[r].todo \subseteq Linked'
          /\ \A d, e \in request'[r].for : d = e
    BY DEF ShopInv, ShopTypes
  <2> QED
    BY <2>1 DEF ShopInv, ShopTypes
<1>2. \A r \in Requests : \A d \in request'[r].for : SearchSound(r, d)'
  <2> SUFFICES ASSUME NEW r \in Requests, NEW d \in request'[r].for
               PROVE  SearchSound(r, d)'
    OBVIOUS
  <2>1. request'[r] = request[r] /\ d \in Domains /\ SearchSound(r, d)
    BY DEF ShopInv, ShopTypes, Linked
  <2> QED
    BY <2>1 DEF SearchSound
<1>3. BuyersOnlyForVerified'
  BY DEF ShopInv, BuyersOnlyForVerified, Verified
<1>4. SearchLedgerIsSound'
  BY DEF ShopInv, SearchLedgerIsSound
<1>5. SearchesFit'
  <2>1. \A d \in Domains : Searching(d)' \subseteq Searching(d)
    BY DEF Searching
  <2> QED
    BY <2>1, SpentStays DEF ShopInv
<1> QED
  BY <1>1, <1>2, <1>3, <1>4, <1>5 DEF ShopInv

(* A step of the run's own rows: requests stay, and what is linked too.    *)
LEMMA RunnerKeepsShop ==
  ASSUME RunInv, ShopInv, UNCHANGED <<request, buyer, paid, booked>>,
         Linked \subseteq Linked',
         \A d \in Linked : candidate'[d].site = candidate[d].site /\ lead'[d] = lead[d],
         \A d \in Domains : lead'[d] = lead[d] \/ lead'[d] = Queued
  PROVE  ShopInv'
<1>1. \A d \in Domains : Verified(d) => Verified(d)'
  BY DEF Verified, Linked
<1>2. \A d \in Domains : lead'[d].job # "done" => lead'[d].priority = "review"
  BY DEF ShopInv, Queued, NoLead
<1>3. request' \in [Requests -> RequestState]
  BY DEF ShopInv, ShopTypes
<1>4. \A r \in Requests : request'[r] = request[r]
  OBVIOUS
<1> QED
  BY <1>1, <1>2, <1>3, <1>4, ShopStays

LEMMA NoRequestIsTyped ==
  /\ NoRequest \in RequestState /\ NoRequest.for = {} /\ NoRequest.todo = {}
  /\ NoRequest.at = "idle"
BY DEF NoRequest, RequestState

(* The steps of the runner.                                                *)
LEMMA RunnerStepInv ==
  ASSUME DiscoveryInv,
         \/ AdvanceRun \/ FinishPromotion \/ FailRun
         \/ \E found \in SUBSET Domains : SearchCompanies(found)
         \/ \E verdict \in [Found -> Classes], T \in SUBSET Domains :
              ScreenCandidates(verdict, T)
         \/ \E d \in Domains :
              \/ \E site \in {"verified", "rejected", "unavailable"} : VerifyWebsite(d, site)
              \/ DemoteCandidate(d) \/ PromoteCandidate(d) \/ LinkLead(d)
  PROVE  DiscoveryInv'
<1>0. RunInv /\ ShopInv /\ candidate \in [Domains -> CandidateState]
      /\ lead \in [Leads -> LeadState] /\ Domains \subseteq Leads
  BY DomainsAreLeads DEF DiscoveryInv, RunInv, RunTypes
<1>1. CASE AdvanceRun \/ FinishPromotion \/ FailRun
  <2>1. RunInv'
    <3>1. CASE FailRun
      <4>1. /\ stage' = "ended" /\ toPromote' = {} /\ current' = {}
            /\ UNCHANGED <<candidate, live, lead>>
            /\ runStatus' = "failed" /\ funnel' = EmptyFunnel
        BY <3>1 DEF FailRun, Outside
      <4> QED
        BY <1>0, <4>1, EndKeepsRun
    <3> QED
      BY <1>0, <1>1, <3>1, AdvanceKeepsRun, FinishKeepsRun
  <2>2. UNCHANGED <<request, buyer, paid, booked, lead, candidate>>
    BY <1>1 DEF AdvanceRun, FinishPromotion, FailRun, Outside
  <2>3. ShopInv'
    BY <1>0, <2>2, RunnerKeepsShop DEF Linked
  <2> QED
    BY <2>1, <2>3 DEF DiscoveryInv
<1>2. ASSUME NEW found \in SUBSET Domains, SearchCompanies(found)
      PROVE  DiscoveryInv'
  <2>1. RunInv'
    BY <1>0, <1>2, SearchKeepsRun
  <2>2. UNCHANGED <<request, buyer, paid, booked, lead>> /\ stage = "search"
    BY <1>2 DEF SearchCompanies, Outside
  <2>3. Linked = {}
    BY <1>0, <2>2 DEF RunInv, CandidateSound, EarlyStages, Linked
  <2>4. ShopInv'
    BY <1>0, <2>2, <2>3, RunnerKeepsShop
  <2> QED
    BY <2>1, <2>4 DEF DiscoveryInv
<1>3. ASSUME NEW verdict \in [Found -> Classes], NEW T \in SUBSET Domains,
             ScreenCandidates(verdict, T)
      PROVE  DiscoveryInv'
  <2>1. RunInv'
    BY <1>0, <1>3, ScreeningKeepsRun
  <2>2. UNCHANGED <<request, buyer, paid, booked, lead>> /\ stage = "screen"
    BY <1>3 DEF ScreenCandidates, Outside
  <2>3. Linked = {}
    BY <1>0, <2>2 DEF RunInv, CandidateSound, EarlyStages, Linked
  <2>4. ShopInv'
    BY <1>0, <2>2, <2>3, RunnerKeepsShop
  <2> QED
    BY <2>1, <2>4 DEF DiscoveryInv
<1>4. ASSUME NEW d \in Domains, NEW site \in {"verified", "rejected", "unavailable"},
             VerifyWebsite(d, site)
      PROVE  DiscoveryInv'
  <2>1. RunInv'
    BY <1>0, <1>4, VerifyKeepsRun
  <2>2. /\ UNCHANGED <<request, buyer, paid, booked, lead>> /\ d \in toPromote
        /\ candidate' = [candidate EXCEPT ![d].site = site]
    BY <1>4 DEF VerifyWebsite, Outside
  <2>3. ~candidate[d].linked
    BY <1>0, <2>2 DEF RunInv, CandidateSound
  <2>4. \A e \in Domains : /\ e # d => candidate'[e] = candidate[e]
                           /\ candidate'[e].linked = candidate[e].linked
    BY <1>0, <2>2 DEF CandidateState
  <2>5. ShopInv'
    BY <1>0, <2>2, <2>3, <2>4, RunnerKeepsShop DEF Linked
  <2> QED
    BY <2>1, <2>5 DEF DiscoveryInv
<1>5. ASSUME NEW d \in Domains, DemoteCandidate(d) \/ LinkLead(d)
      PROVE  DiscoveryInv'
  <2>1. RunInv'
    BY <1>0, <1>5, DemoteKeepsRun, LinkKeepsRun
  <2>2. /\ UNCHANGED <<request, buyer, paid, booked, lead>>
        /\ \/ candidate' = [candidate EXCEPT ![d].class = "unlikely"]
           \/ candidate' = [candidate EXCEPT ![d].linked = TRUE]
    BY <1>5 DEF DemoteCandidate, LinkLead, Outside
  <2>3. \A e \in Domains : /\ candidate'[e].site = candidate[e].site
                           /\ candidate[e].linked => candidate'[e].linked
    BY <1>0, <2>2 DEF CandidateState
  <2>4. ShopInv'
    BY <1>0, <2>2, <2>3, RunnerKeepsShop DEF Linked
  <2> QED
    BY <2>1, <2>4 DEF DiscoveryInv
<1>6. ASSUME NEW d \in Domains, PromoteCandidate(d)
      PROVE  DiscoveryInv'
  <2>1. RunInv'
    BY <1>0, <1>6, PromoteKeepsRun
  <2>2. /\ UNCHANGED <<request, buyer, paid, booked, candidate>>
        /\ lead' = [lead EXCEPT ![d] = Queued] /\ d \in current /\ stage = "ingest"
    BY <1>6 DEF PromoteCandidate
  <2>3. ~candidate[d].linked
    BY <1>0, <2>2 DEF RunInv, CandidateSound, CurrentSound
  <2>4. ShopInv'
    BY <1>0, <2>2, <2>3, RunnerKeepsShop DEF Linked
  <2> QED
    BY <2>1, <2>4 DEF DiscoveryInv
<1> QED
  BY <1>1, <1>2, <1>3, <1>4, <1>5, <1>6

(* The steps of the queue, and those by which requests begin and end.      *)
LEMMA QueueStepInv ==
  ASSUME DiscoveryInv, NEW l \in Leads,
         DriveCycle(l) \/ WorkerClaims(l) \/ WorkerDecides(l)
  PROVE  DiscoveryInv'
<1>0. RunInv /\ ShopInv /\ lead \in [Leads -> LeadState] /\ Domains \subseteq Leads
  BY DomainsAreLeads DEF DiscoveryInv, RunInv, RunTypes
<1>1. /\ UNCHANGED <<QueueOnly, stage, request>> /\ lead[l].job \in {"pending", "held"}
      /\ \/ lead' = [lead EXCEPT ![l].job = "held"]
         \/ \E by \in {"simulated", "live"} : \E p \in Priorities(by) :
              lead' = [lead EXCEPT ![l] = [job |-> "done", by |-> by, priority |-> p]]
  BY DEF DriveCycle, WorkerClaims, WorkerDecides, Decide, Claimable
<1>2. PICK v : /\ lead' = [lead EXCEPT ![l] = v] /\ v \in LeadState
               /\ v.job \in {"held", "done"}
               /\ v.job = "held" => v.priority = lead[l].priority
  <2>1. lead[l] \in LeadState
    BY <1>0
  <2>2. CASE lead' = [lead EXCEPT ![l].job = "held"]
    <3>1. lead' = [lead EXCEPT ![l] = [lead[l] EXCEPT !.job = "held"]]
      BY <2>2
    <3>2. /\ [lead[l] EXCEPT !.job = "held"] \in LeadState
          /\ [lead[l] EXCEPT !.job = "held"].job = "held"
          /\ [lead[l] EXCEPT !.job = "held"].priority = lead[l].priority
      BY <2>1 DEF LeadState
    <3> QED
      BY <3>1, <3>2
  <2>3. ASSUME NEW by \in {"simulated", "live"}, NEW p \in Priorities(by),
               lead' = [lead EXCEPT ![l] = [job |-> "done", by |-> by, priority |-> p]]
        PROVE  \E v : /\ lead' = [lead EXCEPT ![l] = v] /\ v \in LeadState
                      /\ v.job \in {"held", "done"}
                      /\ v.job = "held" => v.priority = lead[l].priority
    <3> DEFINE w == [job |-> "done", by |-> by, priority |-> p]
    <3>1. w \in LeadState /\ w.job = "done"
      BY <2>3 DEF LeadState, Priorities
    <3>2. lead' = [lead EXCEPT ![l] = w]
      BY <2>3
    <3> HIDE DEF w
    <3> QED
      BY <3>1, <3>2
  <2> QED
    BY <1>1, <2>2, <2>3
<1>3. /\ lead' \in [Leads -> LeadState]
      /\ \A d \in Domains : lead'[d] = IF d = l THEN v ELSE lead[d]
  BY <1>0, <1>2
<1>4. RunInv'
  <2>1. \A d \in Domains : IsLead(d)' <=> IsLead(d)
    BY <1>1, <1>2, <1>3 DEF IsLead
  <2>2. UNCHANGED <<live, runStatus, funnel, toPromote, current, candidate, stage>>
    BY <1>1 DEF QueueOnly
  <2> QED
    BY <1>0, <1>3, <2>1, <2>2, OthersKeepRun
<1>5. ShopInv'
  <2>1. UNCHANGED <<buyer, paid, booked, request, candidate>>
    BY <1>1 DEF QueueOnly
  <2>2. \A d \in Domains : Verified(d) => Verified(d)'
    BY <1>1, <1>3, <2>1 DEF Verified
  <2>3. \A d \in Domains : lead'[d].job # "done" => lead'[d].priority = "review"
    BY <1>0, <1>1, <1>2, <1>3 DEF ShopInv
  <2>4. Linked \subseteq Linked' /\ request' \in [Requests -> RequestState]
        /\ \A r \in Requests : request'[r] = request[r]
    BY <1>0, <2>1 DEF Linked, ShopInv, ShopTypes
  <2> QED
    BY <1>0, <2>1, <2>2, <2>3, <2>4, ShopStays
<1> QED
  BY <1>4, <1>5 DEF DiscoveryInv

LEMMA RequestComesAndGoes ==
  ASSUME DiscoveryInv,
         \/ EndDrive \/ CompleteRun \/ RunDies
         \/ \E r \in Readers : ListOpportunities(r) \/ FinishReading(r) \/ ReaderDies(r)
  PROVE  DiscoveryInv'
<1>0. /\ RunInv /\ ShopInv /\ lead \in [Leads -> LeadState]
      /\ request \in [Requests -> RequestState]
      /\ Readers \subseteq Requests /\ Runner \in Requests
  BY DEF DiscoveryInv, RunInv, RunTypes, ShopInv, ShopTypes, Requests
<1>1. UNCHANGED <<live, candidate, lead, buyer, paid, booked>>
  BY DEF EndDrive, CompleteRun, RunDies, ListOpportunities, FinishReading, ReaderDies,
         QueueOnly, RequestBecomes, BuildOnly, discoveryRun
<1>2. RunInv'
  <2>1. CASE EndDrive
    <3>1. /\ UNCHANGED <<runStatus, funnel, toPromote, current>>
          /\ stage = "drive" /\ stage' = "build"
      BY <2>1 DEF EndDrive, QueueOnly
    <3> QED
      BY <1>0, <1>1, <3>1, OthersKeepRun DEF IsLead
  <2>2. CASE CompleteRun
    <3>1. /\ stage = "build" /\ stage' = "ended" /\ runStatus' = "complete"
          /\ UNCHANGED <<funnel, toPromote, current>>
      BY <2>2 DEF CompleteRun
    <3>2. toPromote' = {} /\ current' = {}
      BY <1>0, <3>1 DEF RunInv, StageSound, LateStages
    <3> QED
      BY <1>0, <1>1, <3>1, <3>2, EndKeepsRun
  <2>3. CASE RunDies
    <3>1. /\ stage' = "ended" /\ toPromote' = {} /\ current' = {}
          /\ UNCHANGED <<runStatus, funnel>>
      BY <2>3 DEF RunDies
    <3> QED
      BY <1>0, <1>1, <3>1, EndKeepsRun
  <2>4. CASE \E r \in Readers : ListOpportunities(r) \/ FinishReading(r) \/ ReaderDies(r)
    <3>1. UNCHANGED <<runStatus, funnel, toPromote, current, stage>>
      BY <2>4 DEF ListOpportunities, FinishReading, ReaderDies, BuildOnly, discoveryRun, runnerVars
    <3> QED
      BY <1>0, <1>1, <3>1, OthersKeepRun DEF IsLead
  <2> QED
    BY <2>1, <2>2, <2>3, <2>4
<1>3. ShopInv'
  <2> DEFINE Beginning == [NoRequest EXCEPT !.at = "build", !.todo = Linked]
  <2>1. \E r \in Requests : \E q \in {NoRequest, Beginning} : request' = [request EXCEPT ![r] = q]
    BY <1>0 DEF EndDrive, CompleteRun, RunDies, ListOpportunities, FinishReading, ReaderDies,
                RequestBecomes
  <2>2. /\ Beginning \in RequestState /\ Beginning.for = {} /\ Beginning.todo = Linked
        /\ Beginning.at = "build"
    BY DEF NoRequest, RequestState, Linked
  <2> HIDE DEF Beginning
  <2>3. PICK r \in Requests, q \in {NoRequest, Beginning} : request' = [request EXCEPT ![r] = q]
    BY <2>1
  <2>4. /\ q \in RequestState /\ q.for = {} /\ q.todo \subseteq Linked
        /\ q.at \in {"idle", "build"}
    BY <2>2, NoRequestIsTyped
  <2>5. /\ request' \in [Requests -> RequestState]
        /\ \A s \in Requests : request'[s] = IF s = r THEN q ELSE request[s]
    BY <1>0, <2>3, <2>4
  <2>6. /\ Linked' = Linked /\ \A d \in Domains : Verified(d) => Verified(d)'
        /\ \A d \in Domains : lead'[d].job # "done" => lead'[d].priority = "review"
    BY <1>0, <1>1 DEF Linked, Verified, ShopInv
  <2> QED
    BY <1>0, <1>1, <2>4, <2>5, <2>6, ShopStays
<1> QED
  BY <1>2, <1>3 DEF DiscoveryInv

-----------------------------------------------------------------------------
(* A request at one opportunity.                                           *)
LEMMA BuildingKeepsRun ==
  ASSUME RunInv, BuildOnly' = BuildOnly
  PROVE  RunInv'
<1>1. /\ UNCHANGED <<live, lead, runStatus, funnel, stage, toPromote, current, candidate>>
      /\ lead \in [Leads -> LeadState]
  BY DEF BuildOnly, discoveryRun, runnerVars, RunInv, RunTypes
<1> QED
  BY <1>1, OthersKeepRun DEF IsLead

(* Only a company whose own website was read is worth a buyer.             *)
LEMMA WantedIsVerified ==
  ASSUME DiscoveryInv, NEW d \in Linked, NEW s \in Suitabilities(d), WantsBuyer(d, s)
  PROVE  Verified(d)
<1>1. d \in Domains /\ candidate[d].linked /\ lead[d] \in LeadState
  BY RowsAreTyped DEF DiscoveryInv, RunInv, Linked
<1>2. lead[d].priority \in {"contact_first", "worth_pursuing", "review", "skip"}
  BY <1>1 DEF LeadState, Priorities
<1>3. Ceiling(lead[d].priority, s) \in Eligible
  BY DEF WantsBuyer
<1>4. s \in {"supported", "uncertain", "contradicted"}
  BY DEF Suitabilities
<1>5. s = "supported" /\ lead[d].priority \in Eligible
  <2>1. CASE s = "supported"
    BY <2>1, <1>3 DEF Ceiling
  <2>2. CASE s = "uncertain"
    <3>1. Ceiling(lead[d].priority, s) = IF lead[d].priority = "skip" THEN "skip" ELSE "review"
      BY <2>2 DEF Ceiling
    <3> QED
      BY <3>1, <1>3 DEF Eligible
  <2>3. CASE s = "contradicted"
    BY <2>3, <1>3 DEF Ceiling, Eligible
  <2> QED
    BY <1>4, <2>1, <2>2, <2>3
<1>6. candidate[d].site = "verified"
  BY <1>5 DEF Suitabilities
<1>7. lead[d].job = "done"
  BY <1>1, <1>5 DEF DiscoveryInv, ShopInv, Eligible
<1> QED
  BY <1>1, <1>5, <1>6, <1>7 DEF Verified

(* A company's rows: none, or one with its charge.                        *)
SearchRows == {<< >>, <<0>>, <<1>>}

(* Only the verified are paid for; what was paid or booked stays so.       *)
LedgersGrow ==
  \A d \in Domains : /\ paid'[d] > 0 => paid[d] > 0 \/ Verified(d)
                     /\ paid[d] > 0 => paid'[d] > 0
                     /\ booked[d] # << >> => booked'[d] # << >>

(* One request moves on: what must hold of its new state.                  *)
LEMMA RequestMoves ==
  ASSUME DiscoveryInv, NEW r \in Requests, NEW q \in RequestState,
         RequestBecomes(r, q), BuildOnly' = BuildOnly,
         q.for \cup q.todo \subseteq Linked, \A d, e \in q.for : d = e,
         buyer' \in [Domains -> {"none", "name", "address"}],
         paid' \in [Domains -> Nat],
         booked' \in [Domains -> SearchRows],
         \A d \in q.for : SearchSound(r, d)',
         LedgersGrow, SearchLedgerIsSound', SearchesFit'
  PROVE  DiscoveryInv'
<1>0. /\ RunInv /\ ShopInv /\ RunInv'
      /\ UNCHANGED <<candidate, lead>>
  BY BuildingKeepsRun DEF DiscoveryInv, BuildOnly, discoveryRun
<1>1. /\ request' \in [Requests -> RequestState]
      /\ request'[r] = q /\ \A t \in Requests : t # r => request'[t] = request[t]
  BY <1>0 DEF ShopInv, ShopTypes, RequestBecomes
<1>2. Linked' = Linked /\ \A d \in Domains : Verified(d)' <=> Verified(d)
  BY <1>0 DEF Linked, Verified
<1>3. ShopTypes'
  <2>1. \A t \in Requests : /\ request'[t].for \cup request'[t].todo \subseteq Linked'
                            /\ \A d, e \in request'[t].for : d = e
    BY <1>0, <1>1, <1>2 DEF ShopInv, ShopTypes
  <2> QED
    BY <1>1, <2>1 DEF ShopTypes, SearchRows
<1>4. \A t \in Requests : \A d \in request'[t].for : SearchSound(t, d)'
  <2> SUFFICES ASSUME NEW t \in Requests, NEW d \in request'[t].for, t # r
               PROVE  SearchSound(t, d)'
    BY <1>1
  <2>1. request'[t] = request[t] /\ SearchSound(t, d)
    BY <1>0, <1>1 DEF ShopInv
  <2>2. d \in Domains
    BY <1>1, <1>2, <1>3 DEF ShopTypes, RequestState
  <2> QED
    BY <2>1, <2>2, <1>2 DEF SearchSound, LedgersGrow
<1>5. BuyersOnlyForVerified'
  <2>1. \A d \in Domains : paid'[d] > 0 => Verified(d)
    BY <1>0 DEF ShopInv, BuyersOnlyForVerified, Verified, LedgersGrow
  <2> QED
    BY <2>1, <1>2 DEF BuyersOnlyForVerified, Verified
<1>6. \A d \in Domains : lead'[d].job # "done" => lead'[d].priority = "review"
  BY <1>0 DEF ShopInv
<1> QED
  BY <1>0, <1>3, <1>4, <1>5, <1>6 DEF DiscoveryInv, ShopInv

LEMMA BuildInv ==
  ASSUME DiscoveryInv, NEW r \in Requests, NEW d \in Domains, NEW s \in Suitabilities(d),
         NEW allowance \in BOOLEAN, BuildOpportunity(r, d, s, allowance)
  PROVE  DiscoveryInv'
<1> DEFINE old == request[r]
           q == IF WantsBuyer(d, s) /\ allowance
                THEN [[old EXCEPT !.for = {d}] EXCEPT !.at = "search"]
                ELSE Proceed([old EXCEPT !.for = {d}])
<1>1. /\ ShopInv /\ old \in RequestState /\ d \in old.todo /\ old.at = "build"
      /\ RequestBecomes(r, q) /\ BuildOnly' = BuildOnly /\ UNCHANGED <<buyer, paid, booked>>
      /\ WantsBuyer(d, s) /\ allowance => paid[d] < MaxSearches
  BY DEF BuildOpportunity, DiscoveryInv, ShopInv, ShopTypes
<1>2. old.for \cup old.todo \subseteq Linked /\ Linked \subseteq Domains
  BY DEF DiscoveryInv, ShopInv, ShopTypes, Linked
<1>3. CASE WantsBuyer(d, s) /\ allowance
  <2>1. q = [[old EXCEPT !.for = {d}] EXCEPT !.at = "search"]
    BY <1>3
  <2>2. q \in RequestState /\ q.for = {d} /\ q.todo = old.todo /\ q.at = "search"
    <3> DEFINE p == [old EXCEPT !.for = {d}]
    <3>1. p \in RequestState /\ p.for = {d} /\ p.todo = old.todo
      BY <1>1 DEF RequestState
    <3>2. q = [p EXCEPT !.at = "search"]
      BY <2>1
    <3> HIDE DEF p, q
    <3> QED
      BY <3>1, <3>2 DEF RequestState
  <2> HIDE DEF q, old
  <2>3. Verified(d)
    BY <1>1, <1>2, <1>3, WantedIsVerified
  <2>4. request \in [Requests -> RequestState] /\ request' = [request EXCEPT ![r] = q]
    BY <1>1 DEF ShopInv, ShopTypes, RequestBecomes
  <2>5. request'[r] = q /\ \A t \in Requests : t # r => request'[t] = request[t]
    BY <2>4, <2>2
  <2>6. \A e \in q.for : SearchSound(r, e)'
    BY <1>1, <2>2, <2>3, <2>5 DEF SearchSound, Verified, BuildOnly, discoveryRun
  <2>7. SearchesFit'
    <3> SUFFICES ASSUME NEW e \in Domains
                 PROVE  (paid[e] + Cardinality(Searching(e)) <= MaxSearches + Cardinality(Requests))'
      BY DEF SearchesFit
    <3>1. /\ MaxSearches \in Nat /\ paid[e] \in Nat /\ paid'[e] = paid[e]
          /\ Cardinality(Requests) \in Nat
      BY <1>1, SearchesAreFinite, DiscoveryAssumption DEF ShopInv, ShopTypes
    <3>2. Searching(e) \subseteq Requests /\ Searching(e)' \subseteq Requests
      BY DEF Searching, Requests
    <3>3. CASE e = d
      <4>1. /\ Cardinality(Searching(e)') \in Nat
            /\ Cardinality(Searching(e)') <= Cardinality(Requests)
        BY <3>2, SearchesAreFinite
      <4>2. paid[e] < MaxSearches
        BY <1>1, <1>3, <3>3
      <4> HIDE DEF Searching
      <4> QED
        BY <3>1, <4>1, <4>2 DEF Requests
    <3>4. CASE e # d
      <4>1. Searching(e)' \subseteq Searching(e)
        BY <2>2, <2>5, <3>4 DEF Searching
      <4>2. /\ Cardinality(Searching(e)') <= Cardinality(Searching(e))
            /\ Cardinality(Searching(e)') \in Nat /\ Cardinality(Searching(e)) \in Nat
        BY <3>2, <4>1, SearchesAreFinite
      <4>3. paid[e] + Cardinality(Searching(e)) <= MaxSearches + Cardinality(Requests)
        BY <1>1 DEF ShopInv, SearchesFit
      <4> QED
        BY <3>1, <4>2, <4>3 DEF Requests
    <3> QED
      BY <3>3, <3>4
  <2>8. /\ q.for \cup q.todo \subseteq Linked /\ \A e, f \in q.for : e = f
    BY <1>1, <1>2, <2>2
  <2>9. /\ buyer' \in [Domains -> {"none", "name", "address"}] /\ paid' \in [Domains -> Nat]
        /\ booked' \in [Domains -> {<< >>, <<0>>, <<1>>}] /\ SearchLedgerIsSound'
    BY <1>1 DEF ShopInv, ShopTypes, SearchLedgerIsSound
  <2>10. LedgersGrow
    BY <1>1 DEF LedgersGrow
  <2> QED
    BY <1>1, <2>2, <2>6, <2>7, <2>8, <2>9, <2>10, RequestMoves DEF SearchRows
<1>4. CASE ~(WantsBuyer(d, s) /\ allowance)
  <2>1. q = Proceed([old EXCEPT !.for = {d}])
    BY <1>4
  <2>2. q \in RequestState /\ q.for = {} /\ q.todo \subseteq old.todo /\ q.at = "build"
    BY <1>1, <2>1 DEF RequestState, Proceed, NoRequest
  <2> HIDE DEF q, old
  <2>4. request \in [Requests -> RequestState] /\ request' = [request EXCEPT ![r] = q]
    BY <1>1 DEF ShopInv, ShopTypes, RequestBecomes
  <2>5. request'[r] = q /\ \A t \in Requests : t # r => request'[t] = request[t]
    BY <2>4, <2>2
  <2>7. SearchesFit'
    <3>1. \A e \in Domains : Searching(e)' \subseteq Searching(e)
      BY <2>2, <2>5 DEF Searching
    <3> QED
      BY <1>1, <3>1, SpentStays DEF ShopInv
  <2>8. /\ q.for \cup q.todo \subseteq Linked /\ \A e, f \in q.for : e = f
    BY <1>1, <1>2, <2>2
  <2>9. /\ buyer' \in [Domains -> {"none", "name", "address"}] /\ paid' \in [Domains -> Nat]
        /\ booked' \in [Domains -> {<< >>, <<0>>, <<1>>}] /\ SearchLedgerIsSound'
    BY <1>1 DEF ShopInv, ShopTypes, SearchLedgerIsSound
  <2>10. LedgersGrow
    BY <1>1 DEF LedgersGrow
  <2> QED
    BY <1>1, <2>2, <2>7, <2>8, <2>9, <2>10, RequestMoves DEF SearchRows
<1> QED
  BY <1>3, <1>4

LEMMA FindInv ==
  ASSUME DiscoveryInv, NEW r \in Requests, NEW d \in Domains, NEW answer \in Answers,
         FindBuyers(r, d, answer)
  PROVE  DiscoveryInv'
<1> DEFINE old == request[r]
           q == [old EXCEPT !.at = "book", !.answer = answer]
<1>1. /\ ShopInv /\ old \in RequestState /\ d \in old.for /\ old.at = "search"
      /\ RequestBecomes(r, q) /\ BuildOnly' = BuildOnly /\ UNCHANGED <<buyer, booked>>
      /\ paid' = [paid EXCEPT ![d] = @ + Charge(answer)]
  BY DEF FindBuyers, DiscoveryInv, ShopInv, ShopTypes
<1>2. /\ old.for \cup old.todo \subseteq Linked /\ \A e, f \in old.for : e = f
      /\ SearchSound(r, d)
  BY <1>1 DEF ShopInv, ShopTypes
<1>3. /\ q \in RequestState /\ q.for = old.for /\ q.todo = old.todo /\ q.at = "book"
      /\ q.answer = answer
  BY <1>1 DEF RequestState
<1>4. Verified(d)
  BY <1>1, <1>2 DEF SearchSound
<1> HIDE DEF q
<1>5. request \in [Requests -> RequestState] /\ request' = [request EXCEPT ![r] = q]
  BY <1>1 DEF ShopInv, ShopTypes, RequestBecomes
<1>6. request'[r] = q /\ \A t \in Requests : t # r => request'[t] = request[t]
  BY <1>3, <1>5
<1>7. /\ Charge(answer) \in {0, 1} /\ (answer \in {"named", "nameless"} => Charge(answer) = 1)
      /\ paid \in [Domains -> Nat]
  BY <1>1 DEF Charge, ShopInv, ShopTypes
<1>8. /\ paid' \in [Domains -> Nat] /\ paid'[d] = paid[d] + Charge(answer)
      /\ \A e \in Domains : e # d => paid'[e] = paid[e]
      /\ \A e \in Domains : paid[e] > 0 => paid'[e] > 0
  BY <1>1, <1>7
<1>9. \A e \in q.for : SearchSound(r, e)'
  <2> SUFFICES ASSUME NEW e \in q.for PROVE SearchSound(r, e)'
    OBVIOUS
  <2>1. e = d /\ request'[r].at = "book" /\ request'[r].answer = answer
    BY <1>1, <1>2, <1>3, <1>6
  <2>2. Verified(d)'
    BY <1>1, <1>4 DEF Verified, BuildOnly, discoveryRun
  <2>3. answer \in {"named", "nameless"} => paid'[d] > 0
    BY <1>7, <1>8
  <2> QED
    BY <2>1, <2>2, <2>3 DEF SearchSound
<1>10. SearchesFit'
  <2> SUFFICES ASSUME NEW e \in Domains
               PROVE  (paid[e] + Cardinality(Searching(e)) <= MaxSearches + Cardinality(Requests))'
    BY DEF SearchesFit
  <2>1. /\ MaxSearches \in Nat /\ paid[e] \in Nat /\ Cardinality(Requests) \in Nat
    BY <1>7, SearchesAreFinite, DiscoveryAssumption
  <2>2. /\ Searching(e) \subseteq Requests /\ Searching(e)' \subseteq Searching(e) \ {r}
        /\ e = d => r \in Searching(e)
    BY <1>1, <1>3, <1>6 DEF Searching
  <2>3. /\ Cardinality(Searching(e)) \in Nat /\ Cardinality(Searching(e)') \in Nat
        /\ Cardinality(Searching(e)') <= Cardinality(Searching(e))
    BY <2>2, SearchesAreFinite
  <2>4. e = d => Cardinality(Searching(e)') <= Cardinality(Searching(e)) - 1
    <3> SUFFICES ASSUME e = d
                 PROVE  Cardinality(Searching(e)') <= Cardinality(Searching(e)) - 1
      OBVIOUS
    <3>1. Cardinality(Searching(e) \ {r}) = Cardinality(Searching(e)) - 1
      BY <2>2, SearchesAreFinite
    <3>2. Searching(e) \ {r} \subseteq Requests /\ Searching(e)' \subseteq Searching(e) \ {r}
      BY <2>2
    <3>3. Cardinality(Searching(e)') <= Cardinality(Searching(e) \ {r})
      BY <3>2, SearchesAreFinite
    <3> QED
      BY <3>1, <3>3
  <2>5. paid[e] + Cardinality(Searching(e)) <= MaxSearches + Cardinality(Requests)
    BY <1>1 DEF ShopInv, SearchesFit
  <2> DEFINE was == Cardinality(Searching(e))
             is == Cardinality(Searching(e)')
             n == Cardinality(Requests)
  <2>6. was \in Nat /\ is \in Nat /\ n \in Nat /\ is <= was /\ (e = d => is <= was - 1)
        /\ paid[e] + was <= MaxSearches + n
    BY <2>1, <2>3, <2>4, <2>5
  <2> HIDE DEF was, is, n
  <2>7. paid'[e] + is <= MaxSearches + n
    BY <1>7, <1>8, <2>1, <2>6
  <2> QED
    BY <2>7 DEF is, n, Requests
<1>11. /\ q.for \cup q.todo \subseteq Linked /\ \A e, f \in q.for : e = f
  BY <1>2, <1>3
<1>12. /\ buyer' \in [Domains -> {"none", "name", "address"}]
       /\ booked' \in [Domains -> {<< >>, <<0>>, <<1>>}] /\ SearchLedgerIsSound'
  BY <1>1, <1>8 DEF ShopInv, ShopTypes, SearchLedgerIsSound
<1>13. LedgersGrow
  BY <1>1, <1>4, <1>8 DEF LedgersGrow
<1> QED
  BY <1>1, <1>3, <1>8, <1>9, <1>10, <1>11, <1>12, <1>13, RequestMoves DEF SearchRows

(* What a search that was charged leaves behind.                           *)
LEMMA WriteInv ==
  ASSUME DiscoveryInv, NEW r \in Requests, NEW d \in Domains,
         BookSearch(r, d) \/ KeepName(r, d) \/ KeepAddress(r, d)
  PROVE  DiscoveryInv'
<1> DEFINE old == request[r]
<1>1. /\ ShopInv /\ old \in RequestState /\ d \in old.for
      /\ old.at \in {"book", "name", "address"}
      /\ BuildOnly' = BuildOnly /\ UNCHANGED paid
  BY DEF BookSearch, KeepName, KeepAddress, DiscoveryInv, ShopInv, ShopTypes
<1>2. /\ old.for \cup old.todo \subseteq Linked /\ \A e, f \in old.for : e = f
      /\ SearchSound(r, d)
      /\ paid \in [Domains -> Nat] /\ booked \in [Domains -> {<< >>, <<0>>, <<1>>}]
      /\ buyer \in [Domains -> {"none", "name", "address"}]
      /\ request \in [Requests -> RequestState]
  BY <1>1 DEF ShopInv, ShopTypes
<1>3. Verified(d) /\ Verified(d)'
  BY <1>1, <1>2 DEF SearchSound, Verified, BuildOnly, discoveryRun
<1>4. PICK q \in RequestState :
        /\ RequestBecomes(r, q) /\ q.for \cup q.todo \subseteq old.for \cup old.todo
        /\ q.at \in {"build", "name", "address"}
        /\ q.at # "build" => q.for = old.for
        /\ q.at = "build" => q.for = {}
        /\ q.at = "name" => old.at = "book" /\ old.answer = "named"
        /\ q.at = "address" => old.at = "name"
  <2>1. /\ Proceed(old) \in RequestState /\ Proceed(old).for = {}
        /\ Proceed(old).todo \subseteq old.todo /\ Proceed(old).at = "build"
    BY <1>1 DEF Proceed, NoRequest, RequestState
  <2>2. ASSUME NEW at \in {"name", "address"}
        PROVE  LET q == [old EXCEPT !.at = at]
               IN  /\ q \in RequestState /\ q.for = old.for /\ q.todo = old.todo
                   /\ q.at = at
    BY <1>1 DEF RequestState
  <2>3. \/ RequestBecomes(r, Proceed(old))
        \/ /\ RequestBecomes(r, [old EXCEPT !.at = "name"])
           /\ old.at = "book" /\ old.answer = "named"
        \/ /\ RequestBecomes(r, [old EXCEPT !.at = "address"]) /\ old.at = "name"
    BY DEF BookSearch, KeepName, KeepAddress
  <2> HIDE DEF old
  <2>4. CASE RequestBecomes(r, Proceed(old))
    BY <2>1, <2>4
  <2>5. CASE /\ RequestBecomes(r, [old EXCEPT !.at = "name"])
             /\ old.at = "book" /\ old.answer = "named"
    <3> DEFINE q == [old EXCEPT !.at = "name"]
    <3>1. q \in RequestState /\ q.for = old.for /\ q.todo = old.todo /\ q.at = "name"
      BY <2>2
    <3>2. RequestBecomes(r, q)
      BY <2>5
    <3> HIDE DEF q
    <3> QED
      BY <2>5, <3>1, <3>2
  <2>6. CASE RequestBecomes(r, [old EXCEPT !.at = "address"]) /\ old.at = "name"
    <3> DEFINE q == [old EXCEPT !.at = "address"]
    <3>1. q \in RequestState /\ q.for = old.for /\ q.todo = old.todo /\ q.at = "address"
      BY <2>2
    <3>2. RequestBecomes(r, q)
      BY <2>6
    <3> HIDE DEF q
    <3> QED
      BY <2>6, <3>1, <3>2
  <2> QED
    BY <2>3, <2>4, <2>5, <2>6
<1>5. request' = [request EXCEPT ![r] = q]
  BY <1>4 DEF RequestBecomes
<1>6. request'[r] = q /\ \A t \in Requests : t # r => request'[t] = request[t]
  BY <1>2, <1>5
<1>7. SearchesFit'
  <2>1. \A e \in Domains : Searching(e)' \subseteq Searching(e)
    BY <1>4, <1>6 DEF Searching
  <2> QED
    BY <1>1, <2>1, SpentStays DEF ShopInv
(* What is written.                                                        *)
<1>8. /\ booked' \in [Domains -> {<< >>, <<0>>, <<1>>}]
      /\ \A e \in Domains : booked[e] # << >> => booked'[e] # << >>
      /\ \A e \in Domains : booked'[e] = <<1>> => paid[e] > 0
      /\ old.at = "book" => booked'[d] # << >>
  <2>1. CASE BookSearch(r, d)
    <3>1. booked' = [booked EXCEPT ![d] = Row(d, old.answer)] /\ old.at = "book"
      BY <2>1 DEF BookSearch
    <3>2. /\ Row(d, old.answer) \in {<<0>>, <<1>>}
          /\ booked[d] # << >> => Row(d, old.answer) = booked[d]
          /\ booked[d] = << >> /\ Row(d, old.answer) = <<1>> =>
               old.answer \in {"named", "nameless"}
      BY <1>2 DEF Row, Charge
    <3>3. old.answer \in {"named", "nameless"} => paid[d] > 0
      BY <1>2, <3>1 DEF SearchSound
    <3>4. \A e \in Domains : booked[e] = <<1>> => paid[e] > 0
      BY <1>1 DEF ShopInv, SearchLedgerIsSound
    <3> DEFINE v == Row(d, old.answer)
    <3>5. /\ booked' = [booked EXCEPT ![d] = v] /\ v \in {<<0>>, <<1>>}
          /\ booked \in [Domains -> {<< >>, <<0>>, <<1>>}]
          /\ booked[d] # << >> => v = booked[d]
          /\ booked[d] = << >> /\ v = <<1>> => paid[d] > 0
      BY <1>2, <1>1, <3>1, <3>2, <3>3 DEF ShopInv, ShopTypes
    <3> HIDE DEF old, v
    <3>6. <<0>> # << >> /\ <<1>> # << >>
      OBVIOUS
    <3>7. booked'[d] = v /\ \A e \in Domains : e # d => booked'[e] = booked[e]
      BY <1>2, <3>5
    <3>8. booked' \in [Domains -> {<< >>, <<0>>, <<1>>}]
      BY <3>5
    <3>9. v # << >>
      BY <3>5, <3>6
    <3>10. \A e \in Domains : booked[e] # << >> => booked'[e] # << >>
      BY <3>7, <3>9
    <3>11. v = <<1>> => paid[d] > 0
      <4>1. CASE booked[d] = << >>
        BY <3>5, <4>1
      <4>2. CASE booked[d] # << >>
        BY <1>2, <3>4, <3>5, <4>2
      <4> QED
        BY <4>1, <4>2
    <3>12. \A e \in Domains : booked'[e] = <<1>> => paid[e] > 0
      BY <3>4, <3>7, <3>11
    <3> QED
      BY <3>7, <3>8, <3>9, <3>10, <3>12
  <2>2. CASE KeepName(r, d) \/ KeepAddress(r, d)
    <3>1. UNCHANGED booked /\ old.at # "book"
      BY <2>2 DEF KeepName, KeepAddress
    <3> QED
      BY <1>1, <1>2, <3>1 DEF ShopInv, SearchLedgerIsSound
  <2> QED
    BY <2>1, <2>2
<1>9. /\ buyer' \in [Domains -> {"none", "name", "address"}]
      /\ \A e \in Domains : e # d => buyer'[e] = buyer[e]
      /\ old.at = "book" => buyer'[d] = buyer[d]
  BY <1>2 DEF BookSearch, KeepName, KeepAddress
<1>10. old.at \in {"name", "address"} => booked[d] # << >> /\ paid[d] > 0
  BY <1>2 DEF SearchSound
<1>11. SearchLedgerIsSound'
  <2>1. \A e \in Domains : buyer'[e] # "none" => booked'[e] # << >> /\ paid[e] > 0
    BY <1>1, <1>8, <1>9, <1>10 DEF ShopInv, SearchLedgerIsSound
  <2>2. \A e \in Domains : Len(booked'[e]) <= 1
    <3>1. Len(<< >>) <= 1 /\ Len(<<0>>) <= 1 /\ Len(<<1>>) <= 1
      OBVIOUS
    <3>2. \A e \in Domains : booked'[e] \in {<< >>, <<0>>, <<1>>}
      BY <1>8
    <3> QED
      BY <3>1, <3>2
  <2> QED
    BY <1>1, <1>8, <2>1, <2>2 DEF SearchLedgerIsSound
<1>12. \A e \in q.for : SearchSound(r, e)'
  <2> SUFFICES ASSUME NEW e \in q.for PROVE SearchSound(r, e)'
    OBVIOUS
  <2>1. e = d /\ q.at \in {"name", "address"}
    BY <1>1, <1>2, <1>4
  <2>2. paid'[d] > 0 /\ booked'[d] # << >>
    <3>1. CASE old.at = "book"
      <4>1. old.answer = "named"
        BY <1>4, <2>1, <3>1
      <4>2. paid[d] > 0
        BY <1>2, <3>1, <4>1 DEF SearchSound
      <4> QED
        BY <1>1, <1>8, <3>1, <4>2
    <3>2. CASE old.at \in {"name", "address"}
      BY <1>1, <1>8, <1>10, <3>2
    <3> QED
      BY <1>1, <3>1, <3>2
  <2> QED
    BY <1>3, <1>6, <2>1, <2>2 DEF SearchSound
<1>13. q.for \cup q.todo \subseteq Linked /\ \A e, f \in q.for : e = f
  BY <1>2, <1>4
<1>14. paid' \in [Domains -> Nat] /\ LedgersGrow
  BY <1>1, <1>2, <1>8 DEF LedgersGrow
<1> QED
  BY <1>1, <1>4, <1>7, <1>8, <1>9, <1>11, <1>12, <1>13, <1>14, RequestMoves DEF SearchRows

-----------------------------------------------------------------------------
LEMMA DiscoveryBegins == DiscoveryInit => DiscoveryInv
BY RunBegins, ShopOpens DEF DiscoveryInv

LEMMA DiscoveryStays == DiscoveryInv /\ DiscoveryNext => DiscoveryInv'
<1> SUFFICES ASSUME DiscoveryInv, DiscoveryNext PROVE DiscoveryInv'
  OBVIOUS
<1>1. CASE \E r \in Requests, d \in Domains : RequestStep(r, d)
  BY <1>1, BuildInv, FindInv, WriteInv DEF RequestStep
<1>2. CASE \E l \in Leads : DriveCycle(l) \/ WorkerClaims(l) \/ WorkerDecides(l)
  BY <1>2, QueueStepInv
<1>3. CASE \/ EndDrive \/ CompleteRun \/ RunDies
           \/ \E r \in Readers : ListOpportunities(r) \/ FinishReading(r) \/ ReaderDies(r)
  BY <1>3, RequestComesAndGoes
<1>4. CASE \/ AdvanceRun \/ FinishPromotion \/ FailRun
           \/ \E found \in SUBSET Domains : SearchCompanies(found)
           \/ \E verdict \in [Found -> Classes], T \in SUBSET Domains :
                ScreenCandidates(verdict, T)
           \/ \E d \in Domains :
                \/ \E site \in {"verified", "rejected", "unavailable"} : VerifyWebsite(d, site)
                \/ DemoteCandidate(d) \/ PromoteCandidate(d) \/ LinkLead(d)
  BY <1>4, RunnerStepInv
<1> QED
  BY <1>1, <1>2, <1>3, <1>4 DEF DiscoveryNext

LEMMA DiscoveryRests ==
  ASSUME DiscoveryInv, UNCHANGED discoveryVars
  PROVE  DiscoveryInv'
<1>1. UNCHANGED <<live, runStatus, funnel, stage, toPromote, current, candidate, lead,
                  request, buyer, paid, booked>>
  BY DEF discoveryVars, discoveryRun, runnerVars
<1>2. RunInv'
  BY <1>1, OthersKeepRun DEF DiscoveryInv, RunInv, RunTypes, IsLead
<1>3. ShopInv'
  BY <1>1, ShopStays DEF DiscoveryInv, ShopInv, ShopTypes, Linked, Verified
<1> QED
  BY <1>2, <1>3 DEF DiscoveryInv

LEMMA DiscoveryInvGives ==
  DiscoveryInv => /\ OnlyScreenedBecomeLeads /\ StrongestFirst /\ FunnelIsTrue
                  /\ BuyersOnlyForVerified /\ SearchLedgerIsSound /\ DiscoveryTypeOK
<1> SUFFICES ASSUME DiscoveryInv
             PROVE  /\ OnlyScreenedBecomeLeads /\ StrongestFirst /\ FunnelIsTrue
                    /\ BuyersOnlyForVerified /\ SearchLedgerIsSound /\ DiscoveryTypeOK
  OBVIOUS
<1>0. RunInv /\ ShopInv
  BY DEF DiscoveryInv
<1>1. OnlyScreenedBecomeLeads
  BY <1>0 DEF RunInv, CandidateSound, OnlyScreenedBecomeLeads, Promoted, IsLead, Liked, NotRefuted
<1>2. StrongestFirst
  <2> SUFFICES ASSUME runStatus \in {"researching", "complete"}
               PROVE  \/ \A d \in Domains : candidate[d].class = "promising" => candidate[d].site # "none"
                      \/ \A d \in Promoted : candidate[d].class # "possible"
    BY DEF StrongestFirst
  <2>1. toPromote = {}
    BY <1>0 DEF RunInv, RunTypes, StageSound
  <2> QED
    BY <1>0, <2>1 DEF RunInv, StrongestSoFar, Promoted, IsLead
<1>3. DiscoveryTypeOK
  <2>1. Cardinality(current) <= 1
    <3>1. current = {} \/ \E d : current = {d}
      BY <1>0 DEF RunInv, RunTypes
    <3>2. CASE current = {}
      BY <3>2, FS_EmptySet
    <3>3. CASE \E d : current = {d}
      <4> PICK d : current = {d}
        BY <3>3
      <4>1. Cardinality({d}) = 1
        BY FS_Singleton
      <4> QED
        BY <4>1
    <3> QED
      BY <3>1, <3>2, <3>3
  <2>2. paid \in [Domains -> 0 .. MaxSearches + Cardinality(Requests)]
    <3>1. ASSUME NEW d \in Domains
          PROVE  paid[d] \in 0 .. MaxSearches + Cardinality(Requests)
      <4>1. paid[d] + Cardinality(Searching(d)) <= MaxSearches + Cardinality(Requests)
        BY <1>0 DEF ShopInv, SearchesFit
      <4>2. Searching(d) \subseteq Requests
        BY DEF Searching
      <4>3. Cardinality(Searching(d)) \in Nat
        BY <4>2, SearchesAreFinite
      <4>4. paid[d] \in Nat /\ MaxSearches \in Nat /\ Cardinality(Requests) \in Nat
        BY <1>0, SearchesAreFinite, DiscoveryAssumption DEF ShopInv, ShopTypes
      <4> QED
        BY <4>1, <4>3, <4>4
    <3> QED
      BY <1>0, <3>1 DEF ShopInv, ShopTypes
  <2>3. \A r \in Requests : request[r].for \cup request[r].todo \subseteq Linked
    BY <1>0 DEF ShopInv, ShopTypes
  <2>4. current \subseteq Domains
    BY <1>0 DEF RunInv, RunTypes
  <2> QED
    BY <1>0, <2>1, <2>2, <2>3, <2>4
       DEF DiscoveryTypeOK, RunInv, RunTypes, ShopInv, ShopTypes, CandidateState, LeadState
<1> QED
  BY <1>0, <1>1, <1>2, <1>3 DEF RunInv, ShopInv

-----------------------------------------------------------------------------
(* Of the services only the one that was picked moves.                     *)
LEMMA OneServiceMoves ==
  [IntelligenceNext]_intelligenceVars =>
    /\ UNCHANGED discoveryVars \/ (service = "discovery" /\ DiscoveryNext)
    /\ UNCHANGED researchVars \/ (service = "research" /\ ResearchNext)
    /\ UNCHANGED llmVars \/ (service = "llm" /\ LlmNext)
<1> SUFFICES ASSUME [IntelligenceNext]_intelligenceVars
             PROVE  /\ UNCHANGED discoveryVars \/ (service = "discovery" /\ DiscoveryNext)
                    /\ UNCHANGED researchVars \/ (service = "research" /\ ResearchNext)
                    /\ UNCHANGED llmVars \/ (service = "llm" /\ LlmNext)
  OBVIOUS
<1>1. CASE DiscoveryStep
  BY <1>1 DEF DiscoveryStep
<1>2. CASE ResearchStep
  BY <1>2 DEF ResearchStep
<1>3. CASE LlmStep
  BY <1>3 DEF LlmStep
<1>4. CASE \/ ScoringStep \/ TargetingStep \/ PoliciesStep \/ AdaptersStep
           \/ SurfacesStep \/ ColumnsStep
  BY <1>4 DEF ScoringStep, TargetingStep, PoliciesStep, AdaptersStep, SurfacesStep, ColumnsStep
<1>5. CASE UNCHANGED intelligenceVars
  BY <1>5 DEF intelligenceVars
<1> QED
  BY <1>1, <1>2, <1>3, <1>4, <1>5 DEF IntelligenceNext

(* The stages of a run, its candidates, its leads and the searches of its  *)
(* requests stay consistent, whatever crashes between two transactions and *)
(* however many readers build the shortlist at the same time.              *)
THEOREM DiscoveryInvariant == IntelligenceSpec => []DiscoveryInv
<1>1. IntelligenceInit => DiscoveryInv
  BY DiscoveryBegins DEF IntelligenceInit
<1>2. DiscoveryInv /\ [IntelligenceNext]_intelligenceVars => DiscoveryInv'
  BY OneServiceMoves, DiscoveryStays, DiscoveryRests
<1> QED
  BY <1>1, <1>2, PTL DEF IntelligenceSpec

(* Only what screening liked and its site did not refute becomes a lead,   *)
(* the strongest first; a run past promoting reports what it left behind;  *)
(* contacts are paid for verified, decided companies only; the ledger has  *)
(* one row per search and no charge nobody made.                           *)
THEOREM DiscoveryIsAlwaysEarned == IntelligenceSpec => []DiscoveryIsEarned
<1>1. DiscoveryInv => DiscoveryIsEarned
  BY DiscoveryInvGives DEF DiscoveryIsEarned
<1> QED
  BY <1>1, DiscoveryInvariant, PTL

(* A company whose buyer is on file costs nothing any more, and is not     *)
(* even looked for, once the searches under way have been answered.        *)
LEMMA KnownBuyersStayFree == DiscoveryInv /\ DiscoveryNext => KnownBuyerIsFree
<1> SUFFICES ASSUME DiscoveryInv, DiscoveryNext,
                    NEW d \in Domains, buyer[d] # "none", Searching(d) = {}
             PROVE  /\ paid'[d] = paid[d]
                    /\ \A r \in Requests : ~(request'[r].at = "search" /\ d \in request'[r].for)
  BY DEF KnownBuyerIsFree, Searching
<1>0. ShopTypes
  BY DEF DiscoveryInv, ShopInv
<1>1. \A r \in Requests : ~(request[r].at = "search" /\ d \in request[r].for)
  BY DEF Searching
<1>2. ASSUME NEW r \in Requests, NEW q, RequestBecomes(r, q),
             ~(q.at = "search" /\ d \in q.for)
      PROVE  \A t \in Requests : ~(request'[t].at = "search" /\ d \in request'[t].for)
  <2>1. request' = [request EXCEPT ![r] = q] /\ request \in [Requests -> RequestState]
    BY <1>0, <1>2 DEF RequestBecomes, ShopTypes
  <2>2. request'[r] = q /\ \A t \in Requests : t # r => request'[t] = request[t]
    BY <2>1
  <2> QED
    BY <1>1, <1>2, <2>2
<1>3. ~(NoRequest.at = "search") /\ \A q : ~(Proceed(q).at = "search")
  BY DEF NoRequest, Proceed
<1>4. ASSUME NEW r \in Requests, NEW e \in Domains, RequestStep(r, e)
      PROVE  /\ paid'[d] = paid[d]
             /\ \A t \in Requests : ~(request'[t].at = "search" /\ d \in request'[t].for)
  <2> DEFINE old == request[r]
  <2>0. old \in RequestState /\ paid \in [Domains -> Nat]
    BY <1>0 DEF ShopTypes
  <2>1. ASSUME NEW s \in Suitabilities(e), NEW allowance \in BOOLEAN,
               BuildOpportunity(r, e, s, allowance)
        PROVE  /\ paid'[d] = paid[d]
               /\ \A t \in Requests : ~(request'[t].at = "search" /\ d \in request'[t].for)
    <3>1. UNCHANGED paid
      BY <2>1 DEF BuildOpportunity
    <3>2. CASE WantsBuyer(e, s) /\ allowance
      <4>1. RequestBecomes(r, [[old EXCEPT !.for = {e}] EXCEPT !.at = "search"])
        BY <2>1, <3>2 DEF BuildOpportunity
      <4>2. e # d
        BY <3>2 DEF WantsBuyer
      <4>3. [[old EXCEPT !.for = {e}] EXCEPT !.at = "search"].for = {e}
        BY <2>0 DEF RequestState
      <4> QED
        BY <1>2, <3>1, <4>1, <4>2, <4>3
    <3>3. CASE ~(WantsBuyer(e, s) /\ allowance)
      <4>1. RequestBecomes(r, Proceed([old EXCEPT !.for = {e}]))
        BY <2>1, <3>3 DEF BuildOpportunity
      <4> QED
        BY <1>2, <1>3, <3>1, <4>1
    <3> QED
      BY <3>2, <3>3
  <2>2. ASSUME NEW answer \in Answers, FindBuyers(r, e, answer)
        PROVE  /\ paid'[d] = paid[d]
               /\ \A t \in Requests : ~(request'[t].at = "search" /\ d \in request'[t].for)
    <3>1. /\ old.at = "search" /\ e \in old.for
          /\ paid' = [paid EXCEPT ![e] = @ + Charge(answer)]
          /\ RequestBecomes(r, [old EXCEPT !.at = "book", !.answer = answer])
      BY <2>2 DEF FindBuyers
    <3>2. e # d
      BY <1>1, <3>1
    <3>3. paid'[d] = paid[d]
      BY <2>0, <3>1, <3>2
    <3>4. [old EXCEPT !.at = "book", !.answer = answer].at = "book"
      BY <2>0 DEF RequestState
    <3> QED
      BY <1>2, <3>1, <3>3, <3>4
  <2>3. CASE BookSearch(r, e)
    <3>1. /\ UNCHANGED paid
          /\ \/ RequestBecomes(r, [old EXCEPT !.at = "name"])
             \/ RequestBecomes(r, Proceed(old))
      BY <2>3 DEF BookSearch
    <3>2. [old EXCEPT !.at = "name"].at = "name"
      BY <2>0 DEF RequestState
    <3> QED
      BY <1>2, <1>3, <3>1, <3>2
  <2>4. CASE KeepName(r, e) \/ KeepAddress(r, e)
    <3>1. /\ UNCHANGED paid
          /\ \/ RequestBecomes(r, [old EXCEPT !.at = "address"])
             \/ RequestBecomes(r, Proceed(old))
      BY <2>4 DEF KeepName, KeepAddress
    <3>2. [old EXCEPT !.at = "address"].at = "address"
      BY <2>0 DEF RequestState
    <3> QED
      BY <1>2, <1>3, <3>1, <3>2
  <2> QED
    BY <1>4, <2>1, <2>2, <2>3, <2>4 DEF RequestStep
<1>5. CASE UNCHANGED <<request, paid>>
  BY <1>1, <1>5
<1>6. ASSUME NEW r \in Requests, UNCHANGED paid,
             \/ RequestBecomes(r, NoRequest)
             \/ \E X : RequestBecomes(r, [NoRequest EXCEPT !.at = "build", !.todo = X])
      PROVE  \A t \in Requests : ~(request'[t].at = "search" /\ d \in request'[t].for)
  <2>1. \A X : [NoRequest EXCEPT !.at = "build", !.todo = X].at = "build"
    BY DEF NoRequest
  <2> QED
    BY <1>2, <1>3, <1>6, <2>1
<1>7. Runner \in Requests /\ Readers \subseteq Requests
  BY DEF Requests
<1>8. CASE EndDrive \/ CompleteRun \/ RunDies
  BY <1>6, <1>7, <1>8 DEF EndDrive, CompleteRun, RunDies, RequestBecomes, QueueOnly
<1>9. CASE \E r \in Readers : ListOpportunities(r) \/ FinishReading(r) \/ ReaderDies(r)
  BY <1>6, <1>7, <1>9 DEF ListOpportunities, FinishReading, ReaderDies
<1>10. CASE \E l \in Leads : DriveCycle(l) \/ WorkerClaims(l) \/ WorkerDecides(l)
  BY <1>5, <1>10 DEF DriveCycle, WorkerClaims, WorkerDecides, QueueOnly
<1>11. CASE \/ AdvanceRun \/ FinishPromotion \/ FailRun
            \/ \E found \in SUBSET Domains : SearchCompanies(found)
            \/ \E verdict \in [Found -> Classes], T \in SUBSET Domains :
                 ScreenCandidates(verdict, T)
            \/ \E e \in Domains :
                 \/ \E site \in {"verified", "rejected", "unavailable"} : VerifyWebsite(e, site)
                 \/ DemoteCandidate(e) \/ PromoteCandidate(e) \/ LinkLead(e)
  BY <1>5, <1>11 DEF AdvanceRun, FinishPromotion, FailRun, SearchCompanies, ScreenCandidates,
                     VerifyWebsite, DemoteCandidate, PromoteCandidate, LinkLead, Outside
<1> QED
  BY <1>4, <1>8, <1>9, <1>10, <1>11 DEF DiscoveryNext

(* No read of a shortlist pays for a buyer who is on file.                 *)
THEOREM KnownBuyersAreFree ==
  IntelligenceSpec => [][service = "discovery" => KnownBuyerIsFree]_intelligenceVars
<1>1. /\ DiscoveryInv /\ [IntelligenceNext]_intelligenceVars
      => [service = "discovery" => KnownBuyerIsFree]_intelligenceVars
  <2>1. UNCHANGED discoveryVars => KnownBuyerIsFree
    BY DEF discoveryVars, KnownBuyerIsFree, Searching
  <2> QED
    BY <2>1, OneServiceMoves, KnownBuyersStayFree
<1> QED
  BY <1>1, DiscoveryInvariant, PTL DEF IntelligenceSpec

-----------------------------------------------------------------------------
(* Research: what several requests that plan and pay at once keep true.    *)
Providers == DOMAIN Price
SourcesOf(f) == {Sources(f)[i] : i \in DOMAIN Sources(f)}

ResearcherState ==
  [at : {"idle", "fetch", "record", "put"}, field : Fields \cup {"none"},
   source : Providers \cup {"none"}, charge : Nat, found : BOOLEAN]

ResearchTypes ==
  /\ receipt \in Receipts /\ ceilings \in Ceilings
  /\ DOMAIN rows \subseteq (Fields \cup {"acquisition"}) \X Providers
  /\ \A k \in DOMAIN rows : rows[k] \in {0, Price[k[2]]}
  /\ evidence \in [Fields -> Providers \cup {"none"}]
  /\ \A f \in Fields : evidence[f] \in SourcesOf(f) \cup {"none"}
  /\ asked \in [Fields -> 0 .. MaxAsked]
  /\ researcher \in [Researchers -> ResearcherState]

(* Open: the receipt leaves the question open, whatever the profile says.  *)
Open(f) == f \notin receipt.known /\ ~Clear /\ ~Pinned

CheaperCalled(f, p) ==
  \A j \in DOMAIN Sources(f) : Sources(f)[j] = p =>
    \A i \in 1 .. j - 1 : Sources(f)[i] \in Called

(* What a request under way was authorized for.                            *)
CallSound(f, p) ==
  f \in Fields /\ p \in SourcesOf(f) /\ Open(f) /\ CheaperCalled(f, p)
ResearcherSound(r) ==
  LET q == researcher[r]
  IN  q.at # "idle" =>
        /\ CallSound(q.field, q.source)
        /\ q.charge \in {0, Price[q.source]}
        /\ q.at = "put" => <<q.field, q.source>> \in DOMAIN rows

ResearchInv ==
  /\ ResearchTypes
  /\ \A r \in Researchers : ResearcherSound(r)
  /\ \A f \in Fields : asked[f] > 0 => Open(f)
  /\ CheapestFirst /\ AnswerHasRow

-----------------------------------------------------------------------------
LEMMA ResearchFields ==
  /\ Fields \subseteq {"employee_count", "industry", "title_seniority", "title_function"}
  /\ "acquisition" \notin Fields /\ "none" \notin Fields /\ "none" \notin Providers
BY ResearchAssumption DEF Price, Providers

(* The list of a field names each of its sources once, at a known price.   *)
LEMMA SourcesAreListed ==
  ASSUME NEW f
  PROVE  \E n \in 1 .. 5 :
           /\ DOMAIN Sources(f) = 1 .. n
           /\ \A i \in 1 .. n : Sources(f)[i] \in Providers
           /\ \A i, j \in 1 .. n : Sources(f)[i] = Sources(f)[j] => i = j
<1>0. /\ {"internal_crm", "firmographics_basic", "firmographics_premium", "deep_research",
          "dns_web", "inbound_payload", "contact_enrich"} \subseteq Providers
  BY DEF Price, Providers
<1>1. CASE f = "employee_count"
  <2>1. Sources(f) = <<"internal_crm", "firmographics_basic", "firmographics_premium",
                       "deep_research">>
    BY <1>1 DEF Sources
  <2> WITNESS 4 \in 1 .. 5
  <2> QED
    BY <1>0, <2>1
<1>2. CASE f = "industry"
  <2>1. Sources(f) = <<"internal_crm", "dns_web", "firmographics_basic",
                       "firmographics_premium", "deep_research">>
    BY <1>2 DEF Sources
  <2> WITNESS 5 \in 1 .. 5
  <2> QED
    BY <1>0, <2>1
<1>3. CASE f # "employee_count" /\ f # "industry"
  <2>1. Sources(f) = <<"inbound_payload", "contact_enrich">>
    BY <1>3 DEF Sources
  <2> WITNESS 2 \in 1 .. 5
  <2> QED
    BY <1>0, <2>1
<1> QED
  BY <1>1, <1>2, <1>3

(* The source that is asked is on the list, after sources already called.  *)
LEMMA FirstCandidateIsCheapest ==
  ASSUME NEW f
  PROVE  /\ FirstCandidate(f) \in SourcesOf(f)
         /\ FirstCandidate(f) \in Providers
         /\ CheaperCalled(f, FirstCandidate(f))
<1>1. PICK n \in 1 .. 5 :
        /\ DOMAIN Sources(f) = 1 .. n
        /\ \A i \in 1 .. n : Sources(f)[i] \in Providers
        /\ \A i, j \in 1 .. n : Sources(f)[i] = Sources(f)[j] => i = j
  BY SourcesAreListed
<1> DEFINE k == CHOOSE i \in Candidates(f) : \A j \in Candidates(f) : i <= j
<1>2. Candidates(f) \subseteq 1 .. n /\ Candidates(f) # {}
  BY <1>1 DEF Candidates
<1>3. k \in Candidates(f) /\ \A j \in Candidates(f) : k <= j
  <2>1. \E i \in Candidates(f) : \A j \in Candidates(f) : i <= j
    BY <1>2, LeastOf
  <2> QED
    BY <2>1
<1>4. FirstCandidate(f) = Sources(f)[k]
  BY DEF FirstCandidate
<1> HIDE DEF k
<1>5. \A i \in 1 .. k - 1 : Sources(f)[i] \in Called
  <2> SUFFICES ASSUME NEW i \in 1 .. k - 1, Sources(f)[i] \notin Called PROVE FALSE
    OBVIOUS
  <2>1. k \in 1 .. n /\ i \in 1 .. n /\ i < k
    BY <1>2, <1>3
  <2>2. i \in Candidates(f)
    BY <1>1, <2>1 DEF Candidates
  <2> QED
    BY <1>3, <2>1, <2>2
<1>6. CheaperCalled(f, FirstCandidate(f))
  BY <1>1, <1>2, <1>3, <1>4, <1>5 DEF CheaperCalled
<1> QED
  BY <1>1, <1>2, <1>3, <1>4, <1>6 DEF SourcesOf

-----------------------------------------------------------------------------
LEMMA ListedAreProviders == \A f : SourcesOf(f) \subseteq Providers
BY SourcesAreListed DEF SourcesOf

LEMMA IdleIsTyped == Idle \in ResearcherState /\ Idle.at = "idle"
BY DEF Idle, ResearcherState

LEMMA ResearchBegins == ResearchInit => ResearchInv
<1> SUFFICES ASSUME ResearchInit PROVE ResearchInv
  OBVIOUS
<1>1. PICK S \in Acquired : rows = AcquiredRows(S)
  BY DEF ResearchInit
<1>2. /\ DOMAIN rows \subseteq {"acquisition"} \X Providers
      /\ \A k \in DOMAIN rows : rows[k] \in {0, Price[k[2]]}
  BY <1>1, ResearchAssumption DEF AcquiredRows, Providers
<1>3. ResearchTypes
  BY <1>2, ResearchAssumption
     DEF ResearchTypes, ResearchInit, Idle, ResearcherState
<1>4. CheapestFirst
  BY <1>2, ResearchFields DEF CheapestFirst
<1>5. /\ \A r \in Researchers : ResearcherSound(r)
      /\ \A f \in Fields : asked[f] > 0 => Open(f)
      /\ AnswerHasRow
  BY DEF ResearchInit, ResearcherSound, Idle, AnswerHasRow
<1> QED
  BY <1>3, <1>4, <1>5 DEF ResearchInv

(* The receipt is frozen, and what has been called stays called: a call    *)
(* that was justified stays so.                                            *)
LEMMA OpenStaysOpen ==
  ASSUME UNCHANGED receipt, NEW f
  PROVE  Open(f)' <=> Open(f)
BY DEF Open, Clear, Pinned

LEMMA CallStaysSound ==
  ASSUME UNCHANGED receipt, DOMAIN rows \subseteq DOMAIN rows', NEW f, NEW p, CallSound(f, p)
  PROVE  CallSound(f, p)'
<1>1. Called \subseteq Called'
  BY DEF Called
<1>2. CheaperCalled(f, p)'
  BY <1>1 DEF CheaperCalled, CallSound
<1> QED
  BY <1>2, OpenStaysOpen DEF CallSound

(* One request moves on, or all rest: what must hold of the new state.     *)
LEMMA ResearchMoves ==
  ASSUME ResearchInv, ResearchTypes', UNCHANGED receipt, DOMAIN rows \subseteq DOMAIN rows',
         \A r \in Researchers : researcher'[r] = researcher[r] \/ ResearcherSound(r)',
         \A f \in Fields : asked'[f] > 0 => asked[f] > 0 \/ Open(f),
         CheapestFirst', AnswerHasRow'
  PROVE  ResearchInv'
<1>1. ASSUME NEW r \in Researchers, researcher'[r] = researcher[r]
      PROVE  ResearcherSound(r)'
  <2>1. ResearcherSound(r)
    BY DEF ResearchInv
  <2>2. PICK q : q = researcher[r]
    OBVIOUS
  <2>3. q.at # "idle" => CallSound(q.field, q.source)'
    BY <2>1, <2>2, CallStaysSound DEF ResearcherSound
  <2> QED
    BY <1>1, <2>1, <2>2, <2>3 DEF ResearcherSound
<1>2. \A f \in Fields : asked'[f] > 0 => Open(f)'
  BY OpenStaysOpen DEF ResearchInv
<1>3. \A r \in Researchers : ResearcherSound(r)'
  BY <1>1
<1> QED
  BY <1>2, <1>3 DEF ResearchInv

LEMMA ExecuteKeeps ==
  ASSUME ResearchInv, NEW r \in Researchers, NEW f \in Fields, NEW allowance \in BOOLEAN,
         ExecuteResearch(r, f, allowance)
  PROVE  ResearchInv'
<1>1. PICK p : p = FirstCandidate(f)
  OBVIOUS
<1>2. PICK q : q = [Idle EXCEPT !.at = "fetch", !.field = f, !.source = p]
  OBVIOUS
<1>3. /\ researcher' = [researcher EXCEPT ![r] = q]
      /\ UNCHANGED <<receipt, ceilings, rows, evidence, asked>>
      /\ Materiality(f) = "material"
  BY <1>1, <1>2 DEF ExecuteResearch, ResearcherBecomes, Unread, Authorized
<1>4. CallSound(f, p) /\ p \in Providers
  <2>1. Open(f)
    BY <1>3 DEF Materiality, Open
  <2> QED
    BY <1>1, <2>1, FirstCandidateIsCheapest DEF CallSound
<1>5. q \in ResearcherState /\ q.at = "fetch" /\ q.field = f /\ q.source = p /\ q.charge = 0
  BY <1>2, <1>4 DEF Idle, ResearcherState
<1>6. ResearchTypes'
  BY <1>3, <1>5 DEF ResearchInv, ResearchTypes
<1>7. CheapestFirst' /\ AnswerHasRow'
  BY <1>3 DEF ResearchInv, CheapestFirst, AnswerHasRow, Called
<1>8. researcher'[r] = q /\ \A t \in Researchers : t # r => researcher'[t] = researcher[t]
  BY <1>3 DEF ResearchInv, ResearchTypes
<1>9. ResearcherSound(r)'
  <2>1. CallSound(f, p)'
    BY <1>3, <1>4, CallStaysSound
  <2> QED
    BY <1>5, <1>8, <2>1 DEF ResearcherSound
<1> QED
  BY <1>3, <1>6, <1>7, <1>8, <1>9, ResearchMoves

LEMMA FetchKeeps ==
  ASSUME ResearchInv, NEW r \in Researchers, NEW found \in BOOLEAN, NEW charge \in Nat,
         FetchResearch(r, found, charge)
  PROVE  ResearchInv'
<1>1. PICK old : old = researcher[r]
  OBVIOUS
<1>2. PICK q : q = [old EXCEPT !.at = "record", !.charge = charge, !.found = found]
  OBVIOUS
<1>3. /\ researcher' = [researcher EXCEPT ![r] = q]
      /\ asked' = [asked EXCEPT ![old.field] = @ + 1]
      /\ UNCHANGED <<receipt, ceilings, rows, evidence>>
      /\ old.at = "fetch" /\ asked[old.field] < MaxAsked /\ charge \in {0, Price[old.source]}
  BY <1>1, <1>2 DEF FetchResearch, ResearcherBecomes, Unread
<1>4. old \in ResearcherState /\ CallSound(old.field, old.source) /\ old.field \in Fields
  BY <1>1, <1>3 DEF ResearchInv, ResearchTypes, ResearcherSound, CallSound
<1>5. /\ q \in ResearcherState /\ q.at = "record" /\ q.field = old.field
      /\ q.source = old.source /\ q.charge = charge
  BY <1>2, <1>4 DEF ResearcherState
<1>6. /\ asked' \in [Fields -> 0 .. MaxAsked]
      /\ \A f \in Fields : f # old.field => asked'[f] = asked[f]
  <2>1. asked \in [Fields -> 0 .. MaxAsked] /\ MaxAsked \in Nat
    BY ResearchAssumption DEF ResearchInv, ResearchTypes
  <2>2. asked[old.field] \in 0 .. MaxAsked /\ asked[old.field] + 1 \in 0 .. MaxAsked
    BY <1>3, <1>4, <2>1
  <2> QED
    BY <1>3, <1>4, <2>1, <2>2
<1>7. ResearchTypes'
  BY <1>3, <1>5, <1>6 DEF ResearchInv, ResearchTypes
<1>8. CheapestFirst' /\ AnswerHasRow'
  BY <1>3 DEF ResearchInv, CheapestFirst, AnswerHasRow, Called
<1>9. researcher'[r] = q /\ \A t \in Researchers : t # r => researcher'[t] = researcher[t]
  BY <1>3 DEF ResearchInv, ResearchTypes
<1>10. ResearcherSound(r)'
  <2>1. CallSound(old.field, old.source)'
    BY <1>3, <1>4, CallStaysSound
  <2> QED
    BY <1>3, <1>5, <1>9, <2>1 DEF ResearcherSound
<1>11. \A f \in Fields : asked'[f] > 0 => asked[f] > 0 \/ Open(f)
  BY <1>4, <1>6 DEF CallSound
<1> QED
  BY <1>3, <1>7, <1>8, <1>9, <1>10, <1>11, ResearchMoves

LEMMA RecordKeeps ==
  ASSUME ResearchInv, NEW r \in Researchers, RecordResearch(r)
  PROVE  ResearchInv'
<1>1. PICK old : old = researcher[r]
  OBVIOUS
<1>2. PICK q : q = IF old.found THEN [old EXCEPT !.at = "put"] ELSE Idle
  OBVIOUS
<1>3. /\ researcher' = [researcher EXCEPT ![r] = q]
      /\ rows' = Recorded(old) /\ old.at = "record"
      /\ UNCHANGED <<receipt, ceilings, evidence, asked>>
  BY <1>1, <1>2 DEF RecordResearch, ResearcherBecomes, Unread
<1>4. /\ old \in ResearcherState /\ CallSound(old.field, old.source)
      /\ old.charge \in {0, Price[old.source]}
      /\ old.field \in Fields /\ old.source \in Providers
  <2>1. /\ old \in ResearcherState /\ CallSound(old.field, old.source)
        /\ old.charge \in {0, Price[old.source]}
    BY <1>1, <1>3 DEF ResearchInv, ResearchTypes, ResearcherSound
  <2> QED
    BY <2>1, ListedAreProviders DEF CallSound
<1>5. PICK key : key = <<old.field, old.source>>
  OBVIOUS
<1>6. /\ DOMAIN rows' = DOMAIN rows \cup {key}
      /\ \A k \in DOMAIN rows : rows'[k] = rows[k]
      /\ (rows'[key] = rows[key] /\ key \in DOMAIN rows) \/ rows'[key] = old.charge
  BY <1>3, <1>5 DEF Recorded
<1>7. /\ DOMAIN rows' \subseteq (Fields \cup {"acquisition"}) \X Providers
      /\ \A k \in DOMAIN rows' : rows'[k] \in {0, Price[k[2]]}
  <2>1. key \in (Fields \cup {"acquisition"}) \X Providers /\ key[2] = old.source
    BY <1>4, <1>5
  <2>2. rows'[key] \in {0, Price[key[2]]}
    BY <1>4, <1>6, <2>1 DEF ResearchInv, ResearchTypes
  <2> QED
    BY <1>6, <2>1, <2>2 DEF ResearchInv, ResearchTypes
<1>8. /\ q \in ResearcherState
      /\ q.at # "idle" => q.at = "put" /\ q.field = old.field /\ q.source = old.source
                          /\ q.charge = old.charge
  BY <1>2, <1>4 DEF Idle, ResearcherState
<1>9. ResearchTypes'
  BY <1>3, <1>7, <1>8 DEF ResearchInv, ResearchTypes
<1>10. CheapestFirst'
  <2> SUFFICES ASSUME NEW f \in Fields, NEW j \in DOMAIN Sources(f),
                      <<f, Sources(f)[j]>> \in DOMAIN rows', NEW i \in 1 .. j - 1
               PROVE  Sources(f)[i] \in Called'
    BY DEF CheapestFirst
  <2>1. Called \subseteq Called'
    BY <1>6 DEF Called
  <2>2. CASE <<f, Sources(f)[j]>> \in DOMAIN rows
    BY <2>1, <2>2 DEF ResearchInv, CheapestFirst
  <2>3. CASE <<f, Sources(f)[j]>> = key
    <3>1. f = old.field /\ Sources(f)[j] = old.source
      BY <1>5, <2>3
    <3> QED
      BY <1>4, <2>1, <3>1 DEF CallSound, CheaperCalled
  <2> QED
    BY <1>6, <2>2, <2>3
<1>11. AnswerHasRow'
  BY <1>3, <1>6 DEF ResearchInv, AnswerHasRow
<1>12. researcher'[r] = q /\ \A t \in Researchers : t # r => researcher'[t] = researcher[t]
  BY <1>3 DEF ResearchInv, ResearchTypes
<1>13. ResearcherSound(r)'
  <2>1. CallSound(old.field, old.source)'
    BY <1>3, <1>4, <1>6, CallStaysSound
  <2>2. key \in DOMAIN rows'
    BY <1>6
  <2> QED
    BY <1>4, <1>5, <1>8, <1>12, <2>1, <2>2 DEF ResearcherSound
<1> QED
  BY <1>3, <1>6, <1>9, <1>10, <1>11, <1>12, <1>13, ResearchMoves

LEMMA PutKeeps ==
  ASSUME ResearchInv, NEW r \in Researchers, PutResearch(r)
  PROVE  ResearchInv'
<1>1. PICK old : old = researcher[r]
  OBVIOUS
<1>2. /\ researcher' = [researcher EXCEPT ![r] = Idle]
      /\ evidence' = [evidence EXCEPT ![old.field] = old.source] /\ old.at = "put"
      /\ UNCHANGED <<receipt, ceilings, rows, asked>>
  BY <1>1 DEF PutResearch, ResearcherBecomes, Unread
<1>3. /\ CallSound(old.field, old.source) /\ <<old.field, old.source>> \in DOMAIN rows
      /\ old.field \in Fields /\ old.source \in SourcesOf(old.field)
      /\ old.source \in Providers
  <2>1. CallSound(old.field, old.source) /\ <<old.field, old.source>> \in DOMAIN rows
    BY <1>1, <1>2 DEF ResearchInv, ResearcherSound
  <2> QED
    BY <2>1, ListedAreProviders DEF CallSound
<1>4. /\ evidence' \in [Fields -> Providers \cup {"none"}]
      /\ evidence'[old.field] = old.source
      /\ \A f \in Fields : f # old.field => evidence'[f] = evidence[f]
  BY <1>2, <1>3 DEF ResearchInv, ResearchTypes
<1>5. ResearchTypes'
  BY <1>2, <1>3, <1>4, IdleIsTyped DEF ResearchInv, ResearchTypes
<1>6. CheapestFirst' /\ AnswerHasRow'
  BY <1>2, <1>3, <1>4 DEF ResearchInv, CheapestFirst, AnswerHasRow, Called
<1>7. /\ researcher'[r] = Idle
      /\ \A t \in Researchers : t # r => researcher'[t] = researcher[t]
  BY <1>2 DEF ResearchInv, ResearchTypes
<1>8. ResearcherSound(r)'
  BY <1>7, IdleIsTyped DEF ResearcherSound
<1> QED
  BY <1>2, <1>5, <1>6, <1>7, <1>8, ResearchMoves

LEMMA OthersKeepResearch ==
  ASSUME ResearchInv,
         \/ \E r \in Researchers : ResearcherDies(r)
         \/ NewProfile \/ ChangeMode \/ \E f \in Fields : ResearchExpires(f)
         \/ UNCHANGED researchVars
  PROVE  ResearchInv'
<1>1. /\ UNCHANGED <<receipt, rows, asked>> /\ ceilings' \in Ceilings
      /\ evidence' = evidence \/ \E f \in Fields : evidence' = [evidence EXCEPT ![f] = "none"]
      /\ \/ researcher' = researcher
         \/ \E r \in Researchers : researcher' = [researcher EXCEPT ![r] = Idle]
  BY DEF ResearcherDies, NewProfile, ChangeMode, ResearchExpires, researchVars, Unread,
         ResearcherBecomes, ResearchInv, ResearchTypes
<1>2. /\ evidence' \in [Fields -> Providers \cup {"none"}]
      /\ \A f \in Fields : evidence'[f] \in {evidence[f], "none"}
  BY <1>1 DEF ResearchInv, ResearchTypes
<1>3. /\ researcher' \in [Researchers -> ResearcherState]
      /\ \A t \in Researchers : researcher'[t] \in {researcher[t], Idle}
  BY <1>1, IdleIsTyped DEF ResearchInv, ResearchTypes
<1>4. ResearchTypes'
  BY <1>1, <1>2, <1>3 DEF ResearchInv, ResearchTypes
<1>5. CheapestFirst' /\ AnswerHasRow'
  BY <1>1, <1>2 DEF ResearchInv, CheapestFirst, AnswerHasRow, Called
<1>6. \A r \in Researchers : researcher'[r] = Idle => ResearcherSound(r)'
  BY IdleIsTyped DEF ResearcherSound
<1>7. DOMAIN rows \subseteq DOMAIN rows' /\ UNCHANGED receipt
  BY <1>1
<1> QED
  BY <1>1, <1>3, <1>4, <1>5, <1>6, <1>7, ResearchMoves

LEMMA ResearchStays == ResearchInv /\ ResearchNext => ResearchInv'
<1>1. \A p \in DOMAIN Price : Price[p] \in Nat
  BY DEF Price
<1> QED
  BY <1>1, ExecuteKeeps, FetchKeeps, RecordKeeps, PutKeeps, OthersKeepResearch DEF ResearchNext

-----------------------------------------------------------------------------
(* The target: the largest ceiling first, then the earlier field.          *)
Place(f) ==
  CASE f = "employee_count" -> 1 [] f = "industry" -> 2
    [] f = "title_seniority" -> 3 [] OTHER -> 4
Rank(f) == 5 * (100 - ceilings[f]) + Place(f)

LEMMA PlacesAreOrdered ==
  \A f, g \in Fields : /\ Place(f) \in 1 .. 4 /\ (Place(f) = Place(g) => f = g)
                       /\ Before(f, g) <=> Place(f) < Place(g)
<1> SUFFICES ASSUME NEW f \in Fields, NEW g \in Fields
             PROVE  /\ Place(f) \in 1 .. 4 /\ (Place(f) = Place(g) => f = g)
                    /\ Before(f, g) <=> Place(f) < Place(g)
  OBVIOUS
<1> DEFINE Names == {"employee_count", "industry", "title_seniority", "title_function"}
<1>1. f \in Names /\ g \in Names
  BY ResearchAssumption
<1>2. /\ DOMAIN FieldOrder = 1 .. 4
      /\ FieldOrder[1] = "employee_count" /\ FieldOrder[2] = "industry"
      /\ FieldOrder[3] = "title_seniority" /\ FieldOrder[4] = "title_function"
  BY DEF FieldOrder
<1>3. \A h \in Names : /\ Place(h) \in 1 .. 4 /\ FieldOrder[Place(h)] = h
                       /\ \A i \in 1 .. 4 : FieldOrder[i] = h => i = Place(h)
  BY <1>2 DEF Place
<1>4. Before(f, g) <=> Place(f) < Place(g)
  BY <1>1, <1>2, <1>3 DEF Before
<1>5. Place(f) = Place(g) => f = g
  BY <1>1, <1>3
<1> QED
  BY <1>1, <1>3, <1>4, <1>5

LEMMA RanksCompare ==
  ASSUME NEW a \in 0 .. 100, NEW b \in 0 .. 100, NEW p \in 1 .. 4, NEW q \in 1 .. 4
  PROVE  /\ 5 * (100 - a) + p \in Nat
         /\ 5 * (100 - a) + p = 5 * (100 - b) + q => p = q
         /\ 5 * (100 - a) + p < 5 * (100 - b) + q <=> b < a \/ (b = a /\ p < q)
<1>1. 5 * (100 - a) + p \in Nat
  OBVIOUS
<1>2. 5 * (100 - a) + p = 5 * (100 - b) + q => p = q
  OBVIOUS
<1>3. CASE b < a
  BY <1>1, <1>2, <1>3
<1>4. CASE b = a
  BY <1>1, <1>2, <1>4
<1>5. CASE a < b
  BY <1>1, <1>2, <1>5
<1> QED
  BY <1>3, <1>4, <1>5

LEMMA OneTarget == ResearchInv => PlanHasOneTarget
<1> SUFFICES ASSUME ResearchInv, MaterialFields # {}
             PROVE  Cardinality({f \in Fields : IsTarget(f)}) = 1
  BY DEF PlanHasOneTarget
<1>1. ceilings \in [Fields -> 0 .. 100] /\ MaterialFields \subseteq Fields
  BY ResearchAssumption DEF ResearchInv, ResearchTypes, MaterialFields
<1>2. \A f, g \in Fields :
        /\ Rank(f) \in Nat /\ (Rank(f) = Rank(g) => f = g)
        /\ Rank(f) < Rank(g) <=>
             ceilings[g] < ceilings[f] \/ (ceilings[g] = ceilings[f] /\ Before(f, g))
  <2> SUFFICES ASSUME NEW f \in Fields, NEW g \in Fields
               PROVE  /\ Rank(f) \in Nat /\ (Rank(f) = Rank(g) => f = g)
                      /\ Rank(f) < Rank(g) <=>
                           ceilings[g] < ceilings[f] \/ (ceilings[g] = ceilings[f] /\ Before(f, g))
    OBVIOUS
  <2>1. /\ Place(f) \in 1 .. 4 /\ Place(g) \in 1 .. 4 /\ (Place(f) = Place(g) => f = g)
        /\ Before(f, g) <=> Place(f) < Place(g)
    BY PlacesAreOrdered
  <2>2. ceilings[f] \in 0 .. 100 /\ ceilings[g] \in 0 .. 100
    BY <1>1
  <2>3. PICK a, b, p, q : a = ceilings[f] /\ b = ceilings[g] /\ p = Place(f) /\ q = Place(g)
    OBVIOUS
  <2>4. a \in 0 .. 100 /\ b \in 0 .. 100 /\ p \in 1 .. 4 /\ q \in 1 .. 4
    BY <2>1, <2>2, <2>3
  <2>5. Rank(f) = 5 * (100 - a) + p /\ Rank(g) = 5 * (100 - b) + q
    BY <2>3 DEF Rank
  <2>6. /\ Rank(f) \in Nat /\ (Rank(f) = Rank(g) => p = q)
        /\ Rank(f) < Rank(g) <=> b < a \/ (b = a /\ p < q)
    BY <2>4, <2>5, RanksCompare
  <2> QED
    BY <2>1, <2>3, <2>6
<1>3. PICK f \in MaterialFields : \A g \in MaterialFields : Rank(f) <= Rank(g)
  <2> DEFINE S == {Rank(f) : f \in MaterialFields}
  <2>1. S \in SUBSET Nat /\ S # {}
    BY <1>1, <1>2
  <2>2. \E n \in S : \A m \in S : n <= m
    <3> HIDE DEF S
    <3> QED
      BY <2>1, LeastOf
  <2>3. PICK n \in S : \A m \in S : n <= m
    BY <2>2
  <2>4. PICK f \in MaterialFields : n = Rank(f)
    OBVIOUS
  <2>5. \A g \in MaterialFields : Rank(g) \in S
    OBVIOUS
  <2> QED
    BY <2>3, <2>4, <2>5
<1>4. \A g \in MaterialFields \ {f} : Rank(f) < Rank(g)
  <2> SUFFICES ASSUME NEW g \in MaterialFields \ {f} PROVE Rank(f) < Rank(g)
    OBVIOUS
  <2>1. Rank(f) \in Nat /\ Rank(g) \in Nat /\ Rank(f) # Rank(g) /\ Rank(f) <= Rank(g)
    BY <1>1, <1>2, <1>3
  <2> QED
    BY <2>1
<1>5. IsTarget(f)
  BY <1>1, <1>2, <1>4 DEF IsTarget
<1>6. ASSUME NEW g \in Fields, IsTarget(g) PROVE g = f
  <2> SUFFICES ASSUME g # f PROVE FALSE
    OBVIOUS
  <2>1. g \in MaterialFields /\ Rank(g) < Rank(f) /\ Rank(f) < Rank(g)
    BY <1>1, <1>2, <1>4, <1>6 DEF IsTarget
  <2>2. Rank(g) \in Nat /\ Rank(f) \in Nat
    BY <1>1, <1>2
  <2> QED
    BY <2>1, <2>2
<1>7. {g \in Fields : IsTarget(g)} = {f}
  BY <1>1, <1>5, <1>6
<1>8. Cardinality({f}) = 1
  BY FS_Singleton
<1> QED
  BY <1>7, <1>8

LEMMA ResearchInvGives ==
  ResearchInv => /\ OnlyOpenQuestionsAsked /\ PlanHasOneTarget /\ CheapestFirst /\ AnswerHasRow
                 /\ ResearchTypeOK
<1> SUFFICES ASSUME ResearchInv
             PROVE  /\ OnlyOpenQuestionsAsked /\ PlanHasOneTarget /\ CheapestFirst
                    /\ AnswerHasRow /\ ResearchTypeOK
  OBVIOUS
<1>1. PlanHasOneTarget
  BY OneTarget
<1>2. OnlyOpenQuestionsAsked
  <2>1. receipt.lower \in 0 .. 100 /\ receipt.upper \in 0 .. 100 /\ receipt.score \in 0 .. 100
    BY ResearchAssumption DEF ResearchInv, ResearchTypes
  <2> QED
    BY <2>1 DEF ResearchInv, OnlyOpenQuestionsAsked, Open, Clear, Pinned, Qualify, Reject
<1>3. ResearchTypeOK
  BY DEF ResearchInv, ResearchTypes, ResearchTypeOK, ResearcherState, SourcesOf
<1> QED
  BY <1>1, <1>2, <1>3 DEF ResearchInv

(* A request that was authorized keeps what authorized it: its question is *)
(* open, every cheaper source had been called, its row is there before the *)
(* fact; whatever other requests, profiles and modes do meanwhile.         *)
THEOREM ResearchInvariant == IntelligenceSpec => []ResearchInv
<1>1. IntelligenceInit => ResearchInv
  BY ResearchBegins DEF IntelligenceInit
<1>2. ResearchInv /\ [IntelligenceNext]_intelligenceVars => ResearchInv'
  BY OneServiceMoves, ResearchStays, OthersKeepResearch
<1> QED
  BY <1>1, <1>2, PTL DEF IntelligenceSpec

(* Only questions the receipt left open are paid for, a plan has exactly   *)
(* one target, a dear source is asked after the cheaper ones, and evidence *)
(* has the row of its call.                                                *)
THEOREM ResearchIsAlwaysOrdered == IntelligenceSpec => []ResearchIsOrdered
<1>1. ResearchInv => ResearchIsOrdered
  BY ResearchInvGives DEF ResearchIsOrdered
<1> QED
  BY <1>1, ResearchInvariant, PTL

(* A call starts only on a question nobody answered and in simulated mode, *)
(* and is made only by a request that had started.                         *)
LEMMA CallsAreStarted ==
  ASSUME ResearchInv, ResearchNext
  PROVE  /\ \A r \in InFlight' :
              \/ r \in InFlight /\ researcher'[r].field = researcher[r].field
              \/ mode = "simulated" /\ evidence[researcher'[r].field] = "none"
         /\ \/ asked' = asked
            \/ \E r \in InFlight : \A f \in Fields :
                 f # researcher[r].field => asked'[f] = asked[f]
<1> DEFINE Busy == {"fetch", "record", "put"}
<1>0. researcher \in [Researchers -> ResearcherState] /\ asked \in [Fields -> 0 .. MaxAsked]
  BY DEF ResearchInv, ResearchTypes
<1>1. ASSUME NEW r \in Researchers, NEW q \in ResearcherState, ResearcherBecomes(r, q),
             \/ q = Idle
             \/ researcher[r].at \in Busy /\ q.field = researcher[r].field
             \/ mode = "simulated" /\ evidence[q.field] = "none"
      PROVE  \A t \in InFlight' :
               \/ t \in InFlight /\ researcher'[t].field = researcher[t].field
               \/ mode = "simulated" /\ evidence[researcher'[t].field] = "none"
  <2>1. researcher'[r] = q /\ \A t \in Researchers : t # r => researcher'[t] = researcher[t]
    BY <1>0, <1>1 DEF ResearcherBecomes
  <2> QED
    BY <1>1, <2>1, IdleIsTyped DEF InFlight
<1>2. ASSUME NEW r \in Researchers, NEW f \in Fields, NEW allowance \in BOOLEAN,
             ExecuteResearch(r, f, allowance)
      PROVE  /\ asked' = asked
             /\ \A t \in InFlight' :
               \/ t \in InFlight /\ researcher'[t].field = researcher[t].field
               \/ mode = "simulated" /\ evidence[researcher'[t].field] = "none"
  <2>1. PICK p : p = FirstCandidate(f)
    OBVIOUS
  <2>2. PICK q : q = [Idle EXCEPT !.at = "fetch", !.field = f, !.source = p]
    OBVIOUS
  <2>3. ResearcherBecomes(r, q) /\ asked' = asked /\ mode = "simulated" /\ evidence[f] = "none"
    BY <1>2, <2>1, <2>2 DEF ExecuteResearch, Authorized, ModePermits, Answered
  <2>4. q \in ResearcherState /\ q.field = f
    BY <2>1, <2>2, FirstCandidateIsCheapest DEF Idle, ResearcherState
  <2> QED
    BY <1>1, <2>3, <2>4
<1>3. ASSUME NEW r \in Researchers, NEW found \in BOOLEAN, NEW charge \in Nat,
             FetchResearch(r, found, charge)
      PROVE  /\ \E t \in InFlight : \A f \in Fields :
                  f # researcher[t].field => asked'[f] = asked[f]
             /\ \A t \in InFlight' :
               \/ t \in InFlight /\ researcher'[t].field = researcher[t].field
               \/ mode = "simulated" /\ evidence[researcher'[t].field] = "none"
  <2>1. PICK old : old = researcher[r]
    OBVIOUS
  <2>2. PICK q : q = [old EXCEPT !.at = "record", !.charge = charge, !.found = found]
    OBVIOUS
  <2>3. /\ ResearcherBecomes(r, q) /\ old.at = "fetch"
        /\ asked' = [asked EXCEPT ![old.field] = @ + 1]
    BY <1>3, <2>1, <2>2 DEF FetchResearch
  <2>4. q \in ResearcherState /\ q.field = old.field
    BY <1>0, <2>1, <2>2 DEF ResearcherState
  <2>5. r \in InFlight
    BY <2>1, <2>3 DEF InFlight
  <2>6. \A f \in Fields : f # researcher[r].field => asked'[f] = asked[f]
    BY <1>0, <2>1, <2>3
  <2> QED
    BY <1>1, <2>1, <2>3, <2>4, <2>5, <2>6
<1>4. ASSUME NEW r \in Researchers,
             RecordResearch(r) \/ PutResearch(r) \/ ResearcherDies(r)
      PROVE  /\ asked' = asked
             /\ \A t \in InFlight' :
               \/ t \in InFlight /\ researcher'[t].field = researcher[t].field
               \/ mode = "simulated" /\ evidence[researcher'[t].field] = "none"
  <2>1. PICK old : old = researcher[r]
    OBVIOUS
  <2>2. PICK q : q = [old EXCEPT !.at = "put"]
    OBVIOUS
  <2>3. /\ asked' = asked
        /\ \/ ResearcherBecomes(r, Idle)
           \/ ResearcherBecomes(r, q) /\ old.at \in Busy
    BY <1>4, <2>1, <2>2 DEF RecordResearch, PutResearch, ResearcherDies
  <2>4. q \in ResearcherState /\ q.field = old.field /\ Idle \in ResearcherState
    BY <1>0, <2>1, <2>2, IdleIsTyped DEF ResearcherState
  <2> HIDE DEF Busy
  <2>5. CASE ResearcherBecomes(r, Idle)
    BY <1>1, <2>3, <2>4, <2>5
  <2>6. CASE ResearcherBecomes(r, q) /\ old.at \in Busy
    BY <1>1, <2>1, <2>3, <2>4, <2>6
  <2> QED
    BY <2>3, <2>5, <2>6
<1>5. CASE NewProfile \/ ChangeMode \/ \E f \in Fields : ResearchExpires(f)
  BY <1>5 DEF NewProfile, ChangeMode, ResearchExpires, Unread, InFlight
<1>6. \A p \in DOMAIN Price : Price[p] \in Nat
  BY DEF Price
<1> QED
  BY <1>2, <1>3, <1>4, <1>5, <1>6 DEF ResearchNext

(* Fresh evidence ends the spending on its field but for calls under way;  *)
(* a live organization starts no research call.                            *)
THEOREM AnsweredResearchIsFree ==
  IntelligenceSpec =>
    [][service = "research" => FreshAnswerIsFree /\ LiveNeverResearches]_intelligenceVars
<1>1. ResearchInv /\ ResearchNext => FreshAnswerIsFree /\ LiveNeverResearches
  <2> SUFFICES ASSUME ResearchInv, ResearchNext
               PROVE  FreshAnswerIsFree /\ LiveNeverResearches
    OBVIOUS
  <2>1. /\ asked \in [Fields -> 0 .. MaxAsked] /\ asked' \in [Fields -> 0 .. MaxAsked]
    BY ResearchStays DEF ResearchInv, ResearchTypes
  <2>2. FreshAnswerIsFree
    BY <2>1, CallsAreStarted DEF FreshAnswerIsFree, InFlightFor
  <2>3. LiveNeverResearches
    BY <2>1, CallsAreStarted DEF LiveNeverResearches
  <2> QED
    BY <2>2, <2>3
<1>2. UNCHANGED researchVars => FreshAnswerIsFree /\ LiveNeverResearches
  BY DEF researchVars, FreshAnswerIsFree, LiveNeverResearches, InFlight, InFlightFor
<1>3. ResearchInv /\ [IntelligenceNext]_intelligenceVars
        => [service = "research" => FreshAnswerIsFree /\ LiveNeverResearches]_intelligenceVars
  BY <1>1, <1>2, OneServiceMoves
<1> QED
  BY <1>3, ResearchInvariant, PTL DEF IntelligenceSpec

-----------------------------------------------------------------------------
(* The model's budget: every row that a call may still write counts as if  *)
(* it had been written, at the price of a completion and its screen.       *)
Costs == {0, 1, 2}
LlmCallState ==
  {NoLlmCall}
    \cup [at : {"calling"}, batch : LlmBatches \cup {NoLlmBatch},
          tries : 0 .. MaxAttempts - 1, due : Seq(Costs)]
    \cup [at : {"recording"}, batch : LlmBatches \cup {NoLlmBatch}, due : Seq(Costs)]

(* The rows a call may still write.                                        *)
RowsDue(q) ==
  IF q.at = "idle" THEN 0
  ELSE IF q.at = "calling" THEN Len(q.due) + (MaxAttempts - q.tries)
  ELSE Len(q.due)

LlmCallSound(q) ==
  /\ q \in LlmCallState
  /\ q.at = "calling" => Len(q.due) <= q.tries
  /\ q.at = "recording" => Len(q.due) \in 1 .. MaxAttempts

DueSlots == LlmCalls \X (1 .. MaxAttempts)
Due == {s \in DueSlots : s[2] <= RowsDue(llmCall[s[1]])}
DueFor(b) == {s \in Due : llmCall[s[1]].at # "idle" /\ llmCall[s[1]].batch = b}

LlmTypes ==
  /\ vendor \in Vendors /\ limit \in Limits /\ spent \in Nat
  /\ batchSpend \in [LlmBatches -> [calls : Nat, cost : Nat]]
  /\ DOMAIN llmCall = LlmCalls
  /\ \A c \in LlmCalls : LlmCallSound(llmCall[c])
  /\ DOMAIN peak = {"calls", "batchCost", "monthCost"}
  /\ \A f \in DOMAIN peak : peak[f] \in Nat /\ limit[f] <= peak[f]

Slots == Cardinality(DueSlots)
MonthFits == spent + 2 * Cardinality(Due) <= Larger(0, peak.monthCost - Estimate) + 2 * Slots
BatchFits(b) ==
  /\ batchSpend[b].calls + Cardinality(DueFor(b)) <= peak.calls - 1 + Slots
  /\ batchSpend[b].cost + 2 * Cardinality(DueFor(b))
       <= Larger(0, peak.batchCost - Estimate) + 2 * Slots

LlmInv ==
  /\ LlmTypes /\ MonthFits
  /\ \A b \in LlmBatches : BatchFits(b)

-----------------------------------------------------------------------------
LEMMA LlmNumbers ==
  /\ MaxAttempts \in Nat \ {0} /\ IsFiniteSet(LlmCalls)
  /\ Cardinality(LlmCalls) \in Nat \ {0}
  /\ IsFiniteSet(DueSlots) /\ Slots \in Nat /\ Slots >= 1
  /\ Slots = Cardinality(LlmCalls) * MaxAttempts
<1>1. MaxAttempts \in Nat \ {0} /\ IsFiniteSet(LlmCalls) /\ LlmCalls # {}
  BY LlmAssumption, SomeCallsAssumption
<1>2. Cardinality(LlmCalls) \in Nat /\ Cardinality(LlmCalls) # 0
  BY <1>1, FS_CardinalityType, FS_EmptySet
<1>3. IsFiniteSet(1 .. MaxAttempts) /\ Cardinality(1 .. MaxAttempts) = MaxAttempts
  <2>1. MaxAttempts \in Int /\ 1 \in Int
    BY <1>1
  <2>2. /\ IsFiniteSet(1 .. MaxAttempts)
        /\ Cardinality(1 .. MaxAttempts) = IF 1 > MaxAttempts THEN 0 ELSE MaxAttempts - 1 + 1
    BY <2>1, FS_Interval
  <2> QED
    BY <1>1, <2>2
<1>4. IsFiniteSet(DueSlots) /\ Slots = Cardinality(LlmCalls) * MaxAttempts
  BY <1>1, <1>3, FS_Product DEF DueSlots, Slots
<1>5. \E c \in LlmCalls : <<c, 1>> \in DueSlots
  BY <1>1 DEF DueSlots
<1>6. Slots \in Nat /\ Slots # 0
  BY <1>4, <1>5, FS_CardinalityType, FS_EmptySet DEF Slots
<1> QED
  BY <1>1, <1>2, <1>4, <1>6

LEMMA SomeSlots ==
  /\ \A S \in SUBSET DueSlots :
       /\ IsFiniteSet(S) /\ Cardinality(S) \in 0 .. Slots
       /\ \A U \in SUBSET S : Cardinality(U) <= Cardinality(S)
       /\ \A s \in S : Cardinality(S \ {s}) = Cardinality(S) - 1
  /\ Cardinality({}) = 0
<1>1. ASSUME NEW S \in SUBSET DueSlots
      PROVE  IsFiniteSet(S) /\ Cardinality(S) \in Nat /\ Cardinality(S) <= Slots
  BY <1>1, LlmNumbers, FS_Subset, FS_CardinalityType DEF Slots
<1>2. \A S \in SUBSET DueSlots : \A U \in SUBSET S : Cardinality(U) <= Cardinality(S)
  BY <1>1, FS_Subset
<1>3. \A S \in SUBSET DueSlots : \A s \in S : Cardinality(S \ {s}) = Cardinality(S) - 1
  BY <1>1, FS_RemoveElement
<1>4. Cardinality({}) = 0
  BY FS_EmptySet
<1> QED
  BY <1>1, <1>2, <1>3, <1>4, LlmNumbers

LEMMA DueIsDue == Due \subseteq DueSlots /\ \A b : DueFor(b) \subseteq Due
BY DEF Due, DueFor

LEMMA CallsAreTyped ==
  /\ NoLlmCall \in LlmCallState /\ NoLlmCall.at = "idle" /\ LlmCallSound(NoLlmCall)
  /\ RowsDue(NoLlmCall) = 0
  /\ \A q \in LlmCallState : q = NoLlmCall <=> q.at = "idle"
BY DEF LlmCallState, NoLlmCall, LlmCallSound, RowsDue

LEMMA RowsAreCounted ==
  ASSUME NEW q, LlmCallSound(q)
  PROVE  RowsDue(q) \in 0 .. MaxAttempts
<1>1. MaxAttempts \in Nat \ {0}
  BY LlmNumbers
<1>2. CASE q.at = "idle"
  BY <1>1, <1>2 DEF RowsDue
<1>3. CASE q.at = "calling"
  <2>1. q.tries \in 0 .. MaxAttempts - 1 /\ q.due \in Seq(Costs) /\ Len(q.due) <= q.tries
    BY <1>3 DEF LlmCallSound, LlmCallState, NoLlmCall
  <2>2. Len(q.due) \in Nat
    BY <2>1
  <2> QED
    BY <1>1, <1>3, <2>1, <2>2 DEF RowsDue
<1>4. CASE q.at = "recording"
  BY <1>1, <1>4 DEF RowsDue, LlmCallSound
<1>5. q.at \in {"idle", "calling", "recording"}
  <2>1. q \in LlmCallState
    BY DEF LlmCallSound
  <2> QED
    BY <2>1 DEF LlmCallState, NoLlmCall
<1> QED
  BY <1>2, <1>3, <1>4, <1>5

LEMMA EstimateIsNatural == Estimate \in Nat
BY LlmNumbers DEF Estimate, CompletionPrice, GuardrailEstimate, ScreenPrice

(* What an attempt leaves behind: no row, or one at a known price.         *)
LEMMA OutcomesHaveRows ==
  ASSUME vendor \in Vendors, NEW o \in Outcomes
  PROVE  o.rows \in Seq(Costs) /\ Len(o.rows) <= 1
<1> DEFINE Fine(x) == x.rows \in Seq(Costs) /\ Len(x.rows) <= 1
<1>0. /\ << >> \in Seq(Costs) /\ Len(<< >>) = 0
      /\ \A n \in Costs : <<n>> \in Seq(Costs) /\ Len(<<n>>) = 1
  OBVIOUS
<1>1. ASSUME NEW screen \in {0, ScreenPrice}, NEW x \in Completions(screen) PROVE Fine(x)
  <2>1. PICK k \in {"valid", "invalid"}, u \in {0, CompletionPrice} :
          x = [kind |-> k, rows |-> <<u + screen>>, lost |-> FALSE]
    BY DEF Completions
  <2>2. x.rows = <<u + screen>> /\ u + screen \in Costs
    BY <2>1 DEF CompletionPrice, ScreenPrice, Costs
  <2> QED
    BY <1>0, <2>2
<1>2. Fine(Failed(TRUE)) /\ Fine(Failed(FALSE)) /\ Fine(Blocked)
  <2>1. ScreenPrice \in Costs
    BY DEF ScreenPrice, Costs
  <2> QED
    BY <1>0, <2>1 DEF Failed, Blocked, NoRows
<1> HIDE DEF Fine
<1>3. vendor \in {"deepseek", "bedrock", "agentcore"}
  BY LlmAssumption
<1>4. Fine(o)
  BY <1>1, <1>2, <1>3 DEF Outcomes, DeepSeekOutcomes, BedrockOutcomes, AgentCoreOutcomes
<1> QED
  BY <1>4 DEF Fine

LEMMA LlmBegins == LlmInit => LlmInv
<1> SUFFICES ASSUME LlmInit PROVE LlmInv
  OBVIOUS
<1>1. /\ limit \in Limits /\ limit.calls \in Nat /\ limit.batchCost \in Nat
      /\ limit.monthCost \in Nat /\ DOMAIN limit = {"calls", "batchCost", "monthCost"}
      /\ peak = limit
  BY LlmAssumption DEF LlmInit
<1>2. \A c \in LlmCalls : llmCall[c] = NoLlmCall
  BY DEF LlmInit
<1>3. LlmTypes
  BY <1>1, <1>2, CallsAreTyped DEF LlmInit, LlmTypes
<1>4. Due = {} /\ \A b : DueFor(b) = {}
  BY <1>2, CallsAreTyped DEF Due, DueFor, DueSlots
<1>5. Cardinality({}) = 0
  BY SomeSlots
<1>6. MonthFits
  BY <1>1, <1>4, <1>5, LlmNumbers, EstimateIsNatural DEF MonthFits, LlmInit, Larger
<1>7. ASSUME NEW b \in LlmBatches PROVE BatchFits(b)
  <2>1. batchSpend[b].calls = 0 /\ batchSpend[b].cost = 0
    BY <1>7 DEF LlmInit
  <2> QED
    BY <1>1, <1>4, <1>5, <2>1, LlmNumbers, EstimateIsNatural DEF BatchFits, Larger
<1> QED
  BY <1>3, <1>6, <1>7 DEF LlmInv

(* A call goes from one state to another: what it may still write changes  *)
(* only in its own slots.                                                  *)
LEMMA OthersKeepTheirSlots ==
  ASSUME LlmTypes, NEW c \in LlmCalls, NEW q, LlmCallSound(q),
         LlmCallBecomes(c, q)
  PROVE  /\ llmCall'[c] = q /\ DOMAIN llmCall' = LlmCalls
         /\ \A d \in LlmCalls : d # c => llmCall'[d] = llmCall[d]
         /\ \A d \in LlmCalls : LlmCallSound(llmCall'[d])
         /\ \A s \in DueSlots : s[1] # c =>
              /\ s \in Due' <=> s \in Due
              /\ \A b : s \in DueFor(b)' <=> s \in DueFor(b)
<1>1. llmCall' = [llmCall EXCEPT ![c] = q] /\ DOMAIN llmCall = LlmCalls
  BY DEF LlmCallBecomes, LlmTypes
<1>2. /\ llmCall'[c] = q /\ DOMAIN llmCall' = LlmCalls
      /\ \A d \in LlmCalls : d # c => llmCall'[d] = llmCall[d]
  BY <1>1
<1>3. \A d \in LlmCalls : LlmCallSound(llmCall'[d])
  BY <1>2 DEF LlmTypes
<1>4. ASSUME NEW s \in DueSlots, s[1] # c
      PROVE  /\ s \in Due' <=> s \in Due
             /\ \A b : s \in DueFor(b)' <=> s \in DueFor(b)
  <2>1. llmCall'[s[1]] = llmCall[s[1]]
    BY <1>2, <1>4 DEF DueSlots
  <2> QED
    BY <2>1 DEF Due, DueFor
<1> QED
  BY <1>2, <1>3, <1>4

(* A call that is given up, or goes on, owes no more than before.          *)
LEMMA LessIsDue ==
  ASSUME LlmTypes, NEW c \in LlmCalls, NEW q, LlmCallSound(q), LlmCallBecomes(c, q),
         RowsDue(q) <= RowsDue(llmCall[c]),
         q.at # "idle" => llmCall[c].at # "idle" /\ q.batch = llmCall[c].batch
  PROVE  Due' \subseteq Due /\ \A b : DueFor(b)' \subseteq DueFor(b)
<1>1. /\ llmCall'[c] = q
      /\ \A s \in DueSlots : s[1] # c => /\ s \in Due' <=> s \in Due
                                        /\ \A b : s \in DueFor(b)' <=> s \in DueFor(b)
  BY OthersKeepTheirSlots
<1>2. /\ RowsDue(q) \in Nat /\ RowsDue(llmCall[c]) \in Nat
  BY RowsAreCounted DEF LlmTypes
<1>3. ASSUME NEW s \in DueSlots, s[1] = c, s[2] <= RowsDue(q) PROVE s[2] <= RowsDue(llmCall[c])
  BY <1>2, <1>3 DEF DueSlots
<1>4. ASSUME NEW s \in Due' PROVE s \in Due
  <2>1. s \in DueSlots /\ (s[1] = c => s[2] <= RowsDue(q))
    BY <1>1, <1>4 DEF Due
  <2> QED
    BY <1>1, <1>3, <1>4, <2>1 DEF Due
<1>5. ASSUME NEW b, NEW s \in DueFor(b)' PROVE s \in DueFor(b)
  <2>1. /\ s \in Due /\ s \in DueSlots
        /\ s[1] = c => q.at # "idle" /\ q.batch = b
    BY <1>1, <1>4, <1>5 DEF Due, DueFor
  <2> QED
    BY <1>1, <1>5, <2>1 DEF DueFor
<1> QED
  BY <1>4, <1>5

LEMMA PeaksAreNatural ==
  LlmTypes =>
    /\ peak.calls \in Nat /\ peak.batchCost \in Nat /\ peak.monthCost \in Nat
    /\ limit.calls \in Nat /\ limit.batchCost \in Nat /\ limit.monthCost \in Nat
    /\ limit.calls <= peak.calls /\ limit.batchCost <= peak.batchCost
    /\ limit.monthCost <= peak.monthCost
BY LlmAssumption DEF LlmTypes

(* With no more due, no more spent and no ceiling lowered, all still fits. *)
LEMMA LessFits ==
  ASSUME LlmInv, LlmTypes', UNCHANGED <<vendor, batchSpend>>, spent' <= spent,
         Due' \subseteq Due, \A b : DueFor(b)' \subseteq DueFor(b),
         \A f \in DOMAIN peak : peak[f] <= peak'[f]
  PROVE  LlmInv'
<1>1. /\ spent \in Nat /\ spent' \in Nat /\ Slots \in Nat /\ Estimate \in Nat /\ Estimate' = Estimate
      /\ LlmTypes /\ DOMAIN peak = {"calls", "batchCost", "monthCost"}
  BY LlmNumbers, EstimateIsNatural DEF LlmInv, LlmTypes, Estimate, GuardrailEstimate
<1>2. /\ peak.calls \in Nat /\ peak.batchCost \in Nat /\ peak.monthCost \in Nat
      /\ peak'.calls \in Nat /\ peak'.batchCost \in Nat /\ peak'.monthCost \in Nat
      /\ peak.calls <= peak'.calls /\ peak.batchCost <= peak'.batchCost
      /\ peak.monthCost <= peak'.monthCost
  BY <1>1, PeaksAreNatural DEF LlmTypes
<1>3. MonthFits'
  <2> DEFINE n == Cardinality(Due)
             m == Cardinality(Due')
  <2>1. n \in Nat /\ m \in Nat /\ m <= n
    BY SomeSlots, DueIsDue
  <2>2. /\ Larger(0, peak.monthCost - Estimate) <= Larger(0, peak'.monthCost - Estimate)
        /\ Larger(0, peak.monthCost - Estimate) \in Nat
        /\ Larger(0, peak'.monthCost - Estimate) \in Nat
    BY <1>1, <1>2 DEF Larger
  <2>3. spent + 2 * n <= Larger(0, peak.monthCost - Estimate) + 2 * Slots
    BY DEF LlmInv, MonthFits
  <2>4. MonthFits' <=> spent' + 2 * m <= Larger(0, peak'.monthCost - Estimate) + 2 * Slots
    BY <1>1 DEF MonthFits, Slots, DueSlots
  <2> HIDE DEF n, m
  <2> QED
    BY <1>1, <2>1, <2>2, <2>3, <2>4
<1>4. ASSUME NEW b \in LlmBatches PROVE BatchFits(b)'
  <2> DEFINE n == Cardinality(DueFor(b))
             m == Cardinality(DueFor(b)')
             calls == batchSpend[b].calls
             cost == batchSpend[b].cost
  <2>1. n \in Nat /\ m \in Nat /\ m <= n
    <3>1. DueFor(b)' \subseteq DueFor(b) /\ DueFor(b) \subseteq DueSlots
      BY DueIsDue
    <3> QED
      BY <3>1, SomeSlots
  <2>2. /\ Larger(0, peak.batchCost - Estimate) <= Larger(0, peak'.batchCost - Estimate)
        /\ Larger(0, peak.batchCost - Estimate) \in Nat
        /\ Larger(0, peak'.batchCost - Estimate) \in Nat
    BY <1>1, <1>2 DEF Larger
  <2>3. /\ calls + n <= peak.calls - 1 + Slots
        /\ cost + 2 * n <= Larger(0, peak.batchCost - Estimate) + 2 * Slots
    BY DEF LlmInv, BatchFits
  <2>4. calls \in Nat /\ cost \in Nat
    BY <1>1, <1>4 DEF LlmTypes
  <2>5. BatchFits(b)' <=>
          /\ calls + m <= peak'.calls - 1 + Slots
          /\ cost + 2 * m <= Larger(0, peak'.batchCost - Estimate) + 2 * Slots
    BY <1>1 DEF BatchFits, Slots, DueSlots
  <2> HIDE DEF n, m, calls, cost
  <2>6. calls + m <= peak'.calls - 1 + Slots
    BY <1>1, <1>2, <2>1, <2>3, <2>4
  <2>7. cost + 2 * m <= Larger(0, peak'.batchCost - Estimate) + 2 * Slots
    BY <1>1, <2>1, <2>2, <2>3, <2>4
  <2> QED
    BY <2>5, <2>6, <2>7
<1> QED
  BY <1>3, <1>4 DEF LlmInv

LEMMA FitsAfterLess ==
  ASSUME LlmInv, NEW c \in LlmCalls, NEW q, LlmCallSound(q), LlmCallBecomes(c, q),
         RowsDue(q) <= RowsDue(llmCall[c]),
         q.at # "idle" => llmCall[c].at # "idle" /\ q.batch = llmCall[c].batch,
         UNCHANGED <<vendor, limit, spent, batchSpend, peak>>
  PROVE  LlmInv'
<1>1. LlmTypes
  BY DEF LlmInv
<1>2. DOMAIN llmCall' = LlmCalls /\ \A d \in LlmCalls : LlmCallSound(llmCall'[d])
  BY <1>1, OthersKeepTheirSlots
<1>3. LlmTypes'
  BY <1>1, <1>2 DEF LlmTypes
<1>4. Due' \subseteq Due /\ \A b : DueFor(b)' \subseteq DueFor(b)
  BY <1>1, LessIsDue
<1>5. spent' <= spent /\ \A f \in DOMAIN peak : peak[f] <= peak'[f]
  BY <1>1 DEF LlmTypes
<1> QED
  BY <1>3, <1>4, <1>5, LessFits

LEMMA AuthorizeKeeps ==
  ASSUME LlmInv, NEW c \in LlmCalls, NEW b \in LlmBatches \cup {NoLlmBatch}, Authorize(c, b)
  PROVE  LlmInv'
<1>1. PICK q : q = Calling(b, 0, NoRows)
  OBVIOUS
<1>2. /\ LlmCallBecomes(c, q) /\ llmCall[c] = NoLlmCall
      /\ BatchAllows(b) /\ MonthAllows
      /\ UNCHANGED <<vendor, limit, spent, batchSpend, peak, payable, lostScreen>>
  BY <1>1 DEF Authorize, llmTables, llmHistory
<1>3. LlmCallSound(q) /\ q.at = "calling" /\ q.batch = b
  <2>1. << >> \in Seq(Costs) /\ Len(<< >>) = 0 /\ 0 \in 0 .. MaxAttempts - 1
    BY LlmNumbers
  <2> QED
    BY <1>1, <2>1 DEF Calling, NoRows, LlmCallSound, LlmCallState
<1>4. /\ llmCall'[c] = q /\ DOMAIN llmCall' = LlmCalls
      /\ \A d \in LlmCalls : LlmCallSound(llmCall'[d])
      /\ \A s \in DueSlots : s[1] # c => \A x : s \in DueFor(x)' <=> s \in DueFor(x)
  BY <1>2, <1>3, OthersKeepTheirSlots DEF LlmInv
<1>5. LlmTypes'
  BY <1>2, <1>4 DEF LlmInv, LlmTypes
<1>6. /\ spent \in Nat /\ Slots \in Nat /\ Estimate \in Nat /\ Estimate' = Estimate
      /\ peak.calls \in Nat /\ peak.batchCost \in Nat /\ peak.monthCost \in Nat
      /\ limit.calls \in Nat /\ limit.batchCost \in Nat /\ limit.monthCost \in Nat
      /\ limit.calls <= peak.calls /\ limit.batchCost <= peak.batchCost
      /\ limit.monthCost <= peak.monthCost
  BY <1>2, LlmNumbers, EstimateIsNatural, PeaksAreNatural
     DEF LlmInv, LlmTypes, Estimate, GuardrailEstimate
<1>7. MonthFits'
  <2> DEFINE m == Cardinality(Due')
  <2>0. Due' \subseteq DueSlots
    BY DEF Due, DueSlots
  <2>1. m \in Nat /\ m <= Slots
    BY <2>0, SomeSlots
  <2>2. spent + Estimate <= limit.monthCost
    BY <1>2 DEF MonthAllows
  <2>3. MonthFits' <=> spent + 2 * m <= Larger(0, peak.monthCost - Estimate) + 2 * Slots
    BY <1>2, <1>6 DEF MonthFits, Slots, DueSlots
  <2> HIDE DEF m
  <2>4. spent <= Larger(0, peak.monthCost - Estimate) /\ Larger(0, peak.monthCost - Estimate) \in Nat
    BY <1>6, <2>2 DEF Larger
  <2> QED
    BY <1>6, <2>1, <2>3, <2>4
<1>8. ASSUME NEW x \in LlmBatches PROVE BatchFits(x)'
  <2> DEFINE n == Cardinality(DueFor(x))
             m == Cardinality(DueFor(x)')
             calls == batchSpend[x].calls
             cost == batchSpend[x].cost
  <2>1. DueFor(x) \subseteq DueSlots /\ DueFor(x)' \subseteq DueSlots
    BY DueIsDue DEF DueFor, Due, DueSlots
  <2>2. n \in Nat /\ m \in Nat /\ m <= Slots /\ calls \in Nat /\ cost \in Nat
    BY <1>8, <2>1, SomeSlots DEF LlmInv, LlmTypes
  <2>3. BatchFits(x)' <=>
          /\ calls + m <= peak.calls - 1 + Slots
          /\ cost + 2 * m <= Larger(0, peak.batchCost - Estimate) + 2 * Slots
    BY <1>2, <1>6 DEF BatchFits, Slots, DueSlots
  <2>4. /\ calls + n <= peak.calls - 1 + Slots
        /\ cost + 2 * n <= Larger(0, peak.batchCost - Estimate) + 2 * Slots
    BY <1>8 DEF LlmInv, BatchFits
  <2>5. Larger(0, peak.batchCost - Estimate) \in Nat
    BY <1>6 DEF Larger
  <2>6. CASE x = b
    <3>1. calls + 1 <= limit.calls /\ cost + Estimate <= limit.batchCost
      BY <1>2, <1>8, <2>6, LlmAssumption DEF BatchAllows
    <3> HIDE DEF n, m, calls, cost
    <3>2. cost <= Larger(0, peak.batchCost - Estimate)
      BY <1>6, <2>2, <3>1 DEF Larger
    <3> QED
      BY <1>6, <2>2, <2>3, <2>5, <3>1, <3>2
  <2>7. CASE x # b
    <3>1. DueFor(x)' \subseteq DueFor(x)
      BY <1>3, <1>4, <2>1, <2>7 DEF DueFor
    <3>2. m <= n
      BY <2>1, <3>1, SomeSlots
    <3> HIDE DEF n, m, calls, cost
    <3> QED
      BY <1>6, <2>2, <2>3, <2>4, <2>5, <3>2
  <2> QED
    BY <2>6, <2>7
<1> QED
  BY <1>5, <1>7, <1>8 DEF LlmInv

(* An attempt adds at most the row that was allowed for it.                *)
LEMMA AttemptKeeps ==
  ASSUME LlmInv, NEW c \in LlmCalls, NEW o \in Outcomes, AttemptCall(c, o)
  PROVE  LlmInv'
<1>1. PICK old : old = llmCall[c]
  OBVIOUS
<1>2. PICK due : due = old.due \o o.rows
  OBVIOUS
<1>3. PICK q : q = IF ~Ends(o, old.tries + 1) THEN Calling(old.batch, old.tries + 1, due)
                   ELSE IF due = NoRows THEN NoLlmCall
                   ELSE Ledgering(old.batch, due)
  OBVIOUS
<1>4. /\ LlmCallBecomes(c, q) /\ old.at = "calling"
      /\ UNCHANGED <<vendor, limit, spent, batchSpend, peak>>
  BY <1>1, <1>2, <1>3 DEF AttemptCall, llmTables
<1>5. MaxAttempts \in Nat \ {0}
  BY LlmNumbers
<1>6. LlmCallSound(old) /\ LlmTypes
  BY <1>1 DEF LlmInv, LlmTypes
<1>7. /\ old.batch \in LlmBatches \cup {NoLlmBatch} /\ old.tries \in 0 .. MaxAttempts - 1
      /\ old.due \in Seq(Costs) /\ Len(old.due) <= old.tries /\ Len(old.due) \in Nat
  BY <1>4, <1>6 DEF LlmCallSound, LlmCallState, NoLlmCall
<1>8. o.rows \in Seq(Costs) /\ Len(o.rows) <= 1 /\ Len(o.rows) \in Nat
  BY <1>6, OutcomesHaveRows DEF LlmTypes
<1>9. /\ due \in Seq(Costs) /\ Len(due) \in Nat
      /\ Len(due) <= Len(old.due) + 1 /\ Len(due) <= old.tries + 1
  <2>1. due \in Seq(Costs) /\ Len(due) = Len(old.due) + Len(o.rows)
    BY <1>2, <1>7, <1>8, ConcatProperties
  <2> DEFINE before == Len(old.due)
             added == Len(o.rows)
             after == Len(due)
  <2>2. before \in Nat /\ added \in Nat /\ before <= old.tries /\ added <= 1
    BY <1>7, <1>8
  <2>3. after = before + added
    BY <2>1
  <2>4. old.tries \in Nat
    BY <1>5, <1>7
  <2>5. after \in Nat /\ after <= before + 1 /\ after <= old.tries + 1
    <3> HIDE DEF before, added, after
    <3> QED
      BY <2>2, <2>3, <2>4
  <2> QED
    BY <2>1, <2>5
<1>10. RowsDue(old) = Len(old.due) + (MaxAttempts - old.tries)
  BY <1>4 DEF RowsDue
<1>11. CASE ~Ends(o, old.tries + 1)
  <2>1. q = Calling(old.batch, old.tries + 1, due)
    BY <1>3, <1>11
  <2>2. old.tries + 1 \in 0 .. MaxAttempts - 1
    BY <1>5, <1>7, <1>11 DEF Ends
  <2>3. LlmCallSound(q)
    BY <1>7, <1>9, <2>1, <2>2 DEF Calling, LlmCallSound, LlmCallState
  <2>4. RowsDue(q) <= RowsDue(old)
    <3>1. RowsDue(q) = Len(due) + (MaxAttempts - (old.tries + 1))
      BY <2>1 DEF RowsDue, Calling
    <3> QED
      BY <1>5, <1>7, <1>9, <1>10, <3>1
  <2> QED
    BY <1>1, <1>4, <1>6, <2>1, <2>3, <2>4, FitsAfterLess DEF Calling
<1>12. CASE Ends(o, old.tries + 1) /\ due = NoRows
  <2>1. q = NoLlmCall
    BY <1>3, <1>12
  <2>2. RowsDue(q) <= RowsDue(old) /\ LlmCallSound(q) /\ q.at = "idle"
    BY <1>6, <2>1, CallsAreTyped, RowsAreCounted
  <2> QED
    BY <1>1, <1>4, <1>6, <2>2, FitsAfterLess
<1>13. CASE Ends(o, old.tries + 1) /\ due # NoRows
  <2>1. q = Ledgering(old.batch, due)
    BY <1>3, <1>13
  <2>2. Len(due) \in 1 .. MaxAttempts
    BY <1>5, <1>7, <1>9, <1>13 DEF NoRows
  <2>3. LlmCallSound(q)
    BY <1>7, <1>9, <2>1, <2>2 DEF Ledgering, LlmCallSound, LlmCallState
  <2>4. RowsDue(q) <= RowsDue(old)
    <3>1. RowsDue(q) = Len(due)
      BY <2>1 DEF RowsDue, Ledgering
    <3> QED
      BY <1>5, <1>7, <1>9, <1>10, <3>1
  <2> QED
    BY <1>1, <1>4, <1>6, <2>1, <2>3, <2>4, FitsAfterLess DEF Ledgering
<1> QED
  BY <1>11, <1>12, <1>13

LEMMA AbandonKeeps ==
  ASSUME LlmInv, NEW c \in LlmCalls, AbandonCall(c)
  PROVE  LlmInv'
<1>1. PICK q : q = NoLlmCall
  OBVIOUS
<1>2. LlmCallBecomes(c, q) /\ UNCHANGED <<vendor, limit, spent, batchSpend, peak>>
  BY <1>1 DEF AbandonCall, llmTables
<1>3. LlmCallSound(q) /\ q.at = "idle" /\ RowsDue(q) = 0
  BY <1>1, CallsAreTyped
<1>4. RowsDue(q) <= RowsDue(llmCall[c])
  BY <1>3, RowsAreCounted DEF LlmInv, LlmTypes
<1> QED
  BY <1>2, <1>3, <1>4, FitsAfterLess

LEMMA LimitsKeep ==
  ASSUME LlmInv, NEW l \in Limits, SetLlmLimits(l)
  PROVE  LlmInv'
<1>1. /\ l.calls \in Nat /\ l.batchCost \in Nat /\ l.monthCost \in Nat
      /\ limit' = l /\ peak' = [f \in DOMAIN peak |-> Larger(peak[f], l[f])]
      /\ UNCHANGED <<vendor, spent, batchSpend, llmCall>>
      /\ DOMAIN peak = {"calls", "batchCost", "monthCost"}
  BY LlmAssumption DEF SetLlmLimits, LlmInv, LlmTypes
<1>2. \A f \in DOMAIN peak : l[f] \in Nat /\ peak[f] \in Nat
  BY <1>1 DEF LlmInv, LlmTypes
<1>3. \A f \in DOMAIN peak : peak'[f] \in Nat /\ l[f] <= peak'[f] /\ peak[f] <= peak'[f]
  BY <1>1, <1>2 DEF Larger
<1>4. LlmTypes'
  BY <1>1, <1>3 DEF LlmInv, LlmTypes
<1>5. Due' = Due /\ \A b : DueFor(b)' = DueFor(b)
  BY <1>1 DEF Due, DueFor
<1>6. spent' <= spent
  BY <1>1 DEF LlmInv, LlmTypes
<1> QED
  BY <1>1, <1>3, <1>4, <1>5, <1>6, LessFits

LEMMA MonthEndKeeps == LlmInv /\ MonthEnds => LlmInv'
<1> SUFFICES ASSUME LlmInv, MonthEnds PROVE LlmInv'
  OBVIOUS
<1>1. spent' = 0 /\ spent \in Nat /\ UNCHANGED <<vendor, limit, batchSpend, llmCall, peak>>
  BY DEF MonthEnds, LlmInv, LlmTypes
<1>2. LlmTypes'
  BY <1>1 DEF LlmInv, LlmTypes
<1>3. Due' = Due /\ \A b : DueFor(b)' = DueFor(b)
  BY <1>1 DEF Due, DueFor
<1>4. \A f \in DOMAIN peak : peak[f] <= peak'[f]
  BY <1>1 DEF LlmInv, LlmTypes
<1> QED
  BY <1>1, <1>2, <1>3, <1>4, LessFits

(* One row is written and no longer due; it is charged where it was due.   *)
LEMMA RowIsWritten ==
  ASSUME LlmInv, NEW c \in LlmCalls, RecordModelCall(c)
  PROVE  /\ LlmTypes'
         /\ Cardinality(Due') = Cardinality(Due) - 1
         /\ spent' <= spent + 2
         /\ \A b \in LlmBatches :
              \/ /\ batchSpend'[b] = batchSpend[b]
                 /\ DueFor(b)' \subseteq DueFor(b)
              \/ /\ batchSpend'[b].calls = batchSpend[b].calls + 1
                 /\ batchSpend'[b].cost <= batchSpend[b].cost + 2
                 /\ Cardinality(DueFor(b)') = Cardinality(DueFor(b)) - 1
<1>1. PICK old : old = llmCall[c]
  OBVIOUS
<1>2. PICK q : q = AfterRow(old)
  OBVIOUS
<1>3. PICK cost : cost = Head(old.due)
  OBVIOUS
<1>4. PICK n : n = Len(old.due)
  OBVIOUS
<1>5. /\ LlmCallBecomes(c, q) /\ old.at = "recording" /\ spent' = spent + cost
      /\ UNCHANGED <<vendor, limit, peak>>
      /\ batchSpend' = IF old.batch = NoLlmBatch THEN batchSpend
                       ELSE [batchSpend EXCEPT ![old.batch] =
                               [calls |-> @.calls + 1, cost |-> @.cost + cost]]
  BY <1>1, <1>2, <1>3 DEF RecordModelCall, llmHistory
<1>6. LlmTypes /\ LlmCallSound(old) /\ MaxAttempts \in Nat \ {0}
  BY <1>1, LlmNumbers DEF LlmInv, LlmTypes
<1>7. /\ old.batch \in LlmBatches \cup {NoLlmBatch} /\ old.due \in Seq(Costs)
      /\ n \in 1 .. MaxAttempts
  BY <1>4, <1>5, <1>6 DEF LlmCallSound, LlmCallState, NoLlmCall
<1>8. n \in Nat /\ n >= 1 /\ old.due # << >> /\ n - 1 \in Nat
  BY <1>4, <1>6, <1>7
<1>9. cost \in Costs /\ Tail(old.due) \in Seq(Costs) /\ Len(Tail(old.due)) = n - 1
  BY <1>3, <1>4, <1>7, <1>8, HeadTailProperties
<1>10. /\ LlmCallSound(q) /\ RowsDue(q) = n - 1
       /\ q.at = IF n = 1 THEN "idle" ELSE "recording"
       /\ q.at # "idle" => q.batch = old.batch
  <2>1. CASE n = 1
    <3>1. q = NoLlmCall
      BY <1>2, <1>4, <2>1 DEF AfterRow
    <3> QED
      BY <2>1, <3>1, CallsAreTyped
  <2>2. CASE n # 1
    <3>1. q = Ledgering(old.batch, Tail(old.due))
      BY <1>2, <1>4, <2>2 DEF AfterRow
    <3>2. n - 1 \in 1 .. MaxAttempts
      BY <1>6, <1>7, <2>2
    <3>3. q.at = "recording" /\ q.batch = old.batch /\ q.due = Tail(old.due)
      BY <3>1 DEF Ledgering
    <3>4. LlmCallSound(q)
      BY <1>7, <1>9, <3>1, <3>2, <3>3 DEF Ledgering, LlmCallSound, LlmCallState
    <3>5. RowsDue(q) = n - 1
      BY <1>9, <3>3 DEF RowsDue
    <3> QED
      BY <2>2, <3>3, <3>4, <3>5
  <2> QED
    BY <2>1, <2>2
<1>11. RowsDue(old) = n
  BY <1>4, <1>5 DEF RowsDue
<1>12. /\ llmCall'[c] = q /\ DOMAIN llmCall' = LlmCalls
       /\ \A d \in LlmCalls : LlmCallSound(llmCall'[d])
       /\ \A s \in DueSlots : s[1] # c => /\ s \in Due' <=> s \in Due
                                         /\ \A b : s \in DueFor(b)' <=> s \in DueFor(b)
  BY <1>5, <1>6, <1>10, OthersKeepTheirSlots
<1>13. PICK slot : slot = <<c, n>>
  OBVIOUS
<1>14. slot \in DueSlots /\ slot[1] = c /\ slot[2] = n
  BY <1>7, <1>13 DEF DueSlots
<1>15. slot \in Due /\ slot \in DueFor(old.batch)
  BY <1>1, <1>5, <1>8, <1>11, <1>14 DEF Due, DueFor
<1>16. ASSUME NEW s \in DueSlots, s[1] = c
       PROVE  /\ s \in Due' <=> s \in Due /\ s # slot
              /\ s \in Due' => n # 1
  <2>1. s = <<c, s[2]>> /\ s[2] \in Nat /\ s[2] >= 1
    BY <1>6, <1>16 DEF DueSlots
  <2>2. s = slot <=> s[2] = n
    BY <1>13, <1>14, <2>1
  <2>3. s \in Due <=> s[2] <= n
    BY <1>1, <1>11, <1>16 DEF Due
  <2>4. s \in Due' <=> s[2] <= n - 1
    BY <1>10, <1>12, <1>16 DEF Due
  <2> QED
    BY <1>8, <2>1, <2>2, <2>3, <2>4
<1>17. Due' = Due \ {slot}
  <2>1. Due' \subseteq DueSlots /\ Due \subseteq DueSlots
    BY DEF Due, DueSlots
  <2>2. \A s \in DueSlots : s[1] # c => s # slot
    BY <1>14
  <2> QED
    BY <1>12, <1>16, <2>1, <2>2
<1>18. DueFor(old.batch)' = DueFor(old.batch) \ {slot}
  <2>1. DueFor(old.batch)' \subseteq DueSlots /\ DueFor(old.batch) \subseteq DueSlots
    BY DEF DueFor, Due, DueSlots
  <2>2. \A s \in DueSlots : s[1] # c => s # slot
    BY <1>14
  <2>3. ASSUME NEW s \in DueSlots, s[1] = c
        PROVE  s \in DueFor(old.batch)' <=> s \in DueFor(old.batch) /\ s # slot
    <3>1. s \in DueFor(old.batch) <=> s \in Due
      BY <1>1, <1>5, <2>3 DEF DueFor
    <3>2. s \in DueFor(old.batch)' <=> s \in Due'
      BY <1>10, <1>12, <1>16, <2>3 DEF DueFor
    <3> QED
      BY <1>16, <2>3, <3>1, <3>2
  <2> QED
    BY <1>12, <2>1, <2>2, <2>3
<1>19. ASSUME NEW b, b # old.batch PROVE DueFor(b)' \subseteq DueFor(b)
  <2>1. \A s \in DueFor(b)' : s \in DueSlots
    BY DEF DueFor, Due, DueSlots
  <2>2. \A s \in DueFor(b)' : s[1] # c
    BY <1>10, <1>12, <1>19 DEF DueFor
  <2> QED
    BY <1>12, <2>1, <2>2
<1>20. cost \in Int /\ 0 <= cost /\ cost <= 2
  BY <1>9 DEF Costs
<1>21. ASSUME NEW b \in LlmBatches
       PROVE  batchSpend[b].calls \in Nat /\ batchSpend[b].cost \in Nat
  BY <1>6, <1>21 DEF LlmTypes
<1>22. ASSUME NEW b \in LlmBatches
       PROVE  /\ b # old.batch => batchSpend'[b] = batchSpend[b]
              /\ b = old.batch => /\ batchSpend'[b].calls = batchSpend[b].calls + 1
                                  /\ batchSpend'[b].cost = batchSpend[b].cost + cost
              /\ batchSpend'[b] \in [calls : Nat, cost : Nat]
  <2>1. CASE b = old.batch
    <3>1. batchSpend'[b] = [calls |-> batchSpend[b].calls + 1,
                            cost |-> batchSpend[b].cost + cost]
      BY <1>5, <1>6, <1>22, <2>1, LlmAssumption DEF LlmTypes
    <3>2. PICK calls, charged : calls = batchSpend[b].calls + 1 /\ charged = batchSpend[b].cost + cost
      OBVIOUS
    <3>3. batchSpend[b].calls \in Nat /\ batchSpend[b].cost \in Nat
      BY <1>21, <1>22
    <3>4. calls \in Nat /\ charged \in Nat
      BY <1>20, <3>2, <3>3
    <3>5. batchSpend'[b] = [calls |-> calls, cost |-> charged]
      BY <3>1, <3>2
    <3> QED
      BY <2>1, <3>2, <3>4, <3>5
  <2>2. CASE b # old.batch
    BY <1>5, <1>6, <1>22, <2>2 DEF LlmTypes
  <2> QED
    BY <2>1, <2>2
<1>23. LlmTypes'
  <2>1. batchSpend' = [b \in LlmBatches |-> batchSpend'[b]]
    BY <1>5, <1>6 DEF LlmTypes
  <2>2. batchSpend' \in [LlmBatches -> [calls : Nat, cost : Nat]]
    BY <1>22, <2>1
  <2> QED
    BY <1>5, <1>6, <1>12, <1>20, <2>2 DEF LlmTypes
<1>24. Cardinality(Due') = Cardinality(Due) - 1
  BY <1>15, <1>17, SomeSlots, DueIsDue
<1>25. Cardinality(DueFor(old.batch)') = Cardinality(DueFor(old.batch)) - 1
  <2>1. DueFor(old.batch) \subseteq DueSlots
    BY DueIsDue
  <2> QED
    BY <1>15, <1>18, <2>1, SomeSlots
<1>26. spent' <= spent + 2
  BY <1>5, <1>6, <1>20 DEF LlmTypes
<1>27. ASSUME NEW b \in LlmBatches, b = old.batch
       PROVE  /\ batchSpend'[b].calls = batchSpend[b].calls + 1
              /\ batchSpend'[b].cost <= batchSpend[b].cost + 2
              /\ Cardinality(DueFor(b)') = Cardinality(DueFor(b)) - 1
  <2>1. /\ batchSpend'[b].calls = batchSpend[b].calls + 1
        /\ batchSpend'[b].cost = batchSpend[b].cost + cost
    BY <1>22, <1>27
  <2>2. batchSpend[b].cost \in Nat
    BY <1>21
  <2>3. batchSpend'[b].cost <= batchSpend[b].cost + 2
    BY <1>20, <2>1, <2>2
  <2>4. Cardinality(DueFor(b)') = Cardinality(DueFor(b)) - 1
    BY <1>25, <1>27
  <2> QED
    BY <2>1, <2>3, <2>4
<1> QED
  BY <1>19, <1>22, <1>23, <1>24, <1>26, <1>27

LEMMA OneRowLess ==
  ASSUME NEW old \in Int, NEW now \in Int, NEW n \in Int, NEW m \in Int, NEW most \in Int,
         now <= old + 2, m = n - 1, old + 2 * n <= most
  PROVE  now + 2 * m <= most
OBVIOUS

LEMMA ModelCallKeeps ==
  ASSUME LlmInv, NEW c \in LlmCalls, RecordModelCall(c)
  PROVE  LlmInv'
<1>1. /\ LlmTypes /\ LlmTypes' /\ Slots \in Nat /\ Estimate \in Nat /\ Estimate' = Estimate
      /\ peak' = peak
  BY RowIsWritten, LlmNumbers, EstimateIsNatural
     DEF LlmInv, Estimate, GuardrailEstimate, RecordModelCall, llmHistory
<1>2. peak.calls \in Nat /\ peak.batchCost \in Nat /\ peak.monthCost \in Nat
  BY <1>1, PeaksAreNatural
<1>3. MonthFits'
  <2> DEFINE n == Cardinality(Due)
             m == Cardinality(Due')
             most == Larger(0, peak.monthCost - Estimate)
  <2>1. n \in Nat /\ m = n - 1 /\ most \in Nat /\ spent \in Nat /\ spent' \in Nat
    BY <1>1, <1>2, SomeSlots, DueIsDue, RowIsWritten DEF Larger, LlmTypes
  <2>2. spent' <= spent + 2 /\ spent + 2 * n <= most + 2 * Slots
    BY RowIsWritten DEF LlmInv, MonthFits
  <2>3. MonthFits' <=> spent' + 2 * m <= most + 2 * Slots
    BY <1>1 DEF MonthFits, Slots, DueSlots
  <2> HIDE DEF n, m, most
  <2>4. n \in Int /\ m \in Int /\ most + 2 * Slots \in Int /\ spent \in Int /\ spent' \in Int
    BY <1>1, <2>1
  <2>5. spent' + 2 * m <= most + 2 * Slots
    BY <2>1, <2>2, <2>4, OneRowLess
  <2> QED
    BY <2>3, <2>5
<1>4. ASSUME NEW b \in LlmBatches PROVE BatchFits(b)'
  <2> DEFINE n == Cardinality(DueFor(b))
             m == Cardinality(DueFor(b)')
             most == Larger(0, peak.batchCost - Estimate)
             calls == batchSpend[b].calls
             cost == batchSpend[b].cost
             callsNow == batchSpend'[b].calls
             costNow == batchSpend'[b].cost
  <2>1. /\ \/ callsNow = calls /\ costNow = cost /\ m <= n
           \/ callsNow = calls + 1 /\ costNow <= cost + 2 /\ m = n - 1
        /\ n \in Nat /\ m \in Nat
    <3>1. DueFor(b) \subseteq DueSlots /\ DueFor(b)' \subseteq DueSlots
      BY DueIsDue DEF DueFor, Due, DueSlots
    <3>2. n \in Nat /\ m \in Nat /\ (DueFor(b)' \subseteq DueFor(b) => m <= n)
      BY <3>1, SomeSlots
    <3> QED
      BY <1>4, <3>2, RowIsWritten
  <2>2. calls \in Nat /\ cost \in Nat /\ callsNow \in Nat /\ costNow \in Nat /\ most \in Nat
    BY <1>1, <1>2, <1>4 DEF LlmTypes, Larger
  <2>3. /\ calls + n <= peak.calls - 1 + Slots
        /\ cost + 2 * n <= most + 2 * Slots
    BY DEF LlmInv, BatchFits
  <2>4. BatchFits(b)' <=>
          /\ callsNow + m <= peak.calls - 1 + Slots
          /\ costNow + 2 * m <= most + 2 * Slots
    BY <1>1 DEF BatchFits, Slots, DueSlots
  <2> HIDE DEF n, m, most, calls, cost, callsNow, costNow
  <2>5. callsNow + m <= peak.calls - 1 + Slots
    BY <1>1, <1>2, <2>1, <2>2, <2>3
  <2>6. costNow + 2 * m <= most + 2 * Slots
    BY <1>1, <2>1, <2>2, <2>3
  <2> QED
    BY <2>4, <2>5, <2>6
<1> QED
  BY <1>1, <1>3, <1>4 DEF LlmInv

LEMMA LlmStays == LlmInv /\ (LlmNext \/ UNCHANGED llmVars) => LlmInv'
<1> SUFFICES ASSUME LlmInv, LlmNext \/ UNCHANGED llmVars PROVE LlmInv'
  OBVIOUS
<1>1. CASE UNCHANGED llmVars
  BY <1>1 DEF llmVars, llmTables, llmHistory, LlmInv, LlmTypes, MonthFits, BatchFits,
     Slots, DueSlots, Due, DueFor, Estimate, GuardrailEstimate
<1>2. CASE LlmNext
  BY <1>2, AuthorizeKeeps, AttemptKeeps, AbandonKeeps, ModelCallKeeps, LimitsKeep, MonthEndKeeps
     DEF LlmNext
<1> QED
  BY <1>1, <1>2

(* All that may still be written fits, so all that was written does.       *)
LEMMA LlmInvGives ==
  ASSUME LlmInv
  PROVE  LlmTypeOK /\ MonthBudgetIsSoft /\ BatchBudgetIsSoft
<1>1. LlmTypes /\ MaxAttempts \in Nat \ {0} /\ Cardinality(LlmCalls) \in Nat
  BY LlmNumbers DEF LlmInv
<1>2. /\ Slots = Cardinality(LlmCalls) * MaxAttempts /\ Slots \in Nat
      /\ InFlightMost = 2 * Slots
  <2>1. InFlightMost = Cardinality(LlmCalls) * (MaxAttempts * 2)
    BY DEF InFlightMost, WorstCall, CompletionPrice, ScreenPrice
  <2> DEFINE n == Cardinality(LlmCalls)
  <2> HIDE DEF n
  <2>2. ASSUME NEW i \in Nat, NEW j \in Nat PROVE i * (j * 2) = 2 * (i * j)
    BY <2>2
  <2> QED
    BY <1>1, <2>1, <2>2, LlmNumbers
<1>3. /\ Estimate \in Nat /\ peak.calls \in Nat /\ peak.batchCost \in Nat
      /\ peak.monthCost \in Nat
  BY <1>1, EstimateIsNatural, PeaksAreNatural
<1>4. MonthBudgetIsSoft
  <2> DEFINE n == Cardinality(Due)
             most == Larger(0, peak.monthCost - Estimate)
  <2>1. n \in Nat /\ most \in Nat /\ spent \in Nat
    BY <1>1, <1>3, SomeSlots, DueIsDue DEF Larger, LlmTypes
  <2>2. spent + 2 * n <= most + 2 * Slots
    BY DEF LlmInv, MonthFits
  <2>3. MonthBudgetIsSoft <=> spent <= most + 2 * Slots
    BY <1>2 DEF MonthBudgetIsSoft
  <2> HIDE DEF n, most
  <2> QED
    BY <1>2, <2>1, <2>2, <2>3
<1>5. ASSUME NEW b \in LlmBatches
      PROVE  /\ batchSpend[b].calls <= peak.calls - 1 + Slots
             /\ batchSpend[b].cost <= Larger(0, peak.batchCost - Estimate) + 2 * Slots
  <2> DEFINE n == Cardinality(DueFor(b))
             most == Larger(0, peak.batchCost - Estimate)
             calls == batchSpend[b].calls
             cost == batchSpend[b].cost
  <2>1. DueFor(b) \subseteq DueSlots
    BY DueIsDue
  <2>2. n \in Nat /\ most \in Nat /\ calls \in Nat /\ cost \in Nat
    BY <1>1, <1>3, <1>5, <2>1, SomeSlots DEF Larger, LlmTypes
  <2>3. /\ calls + n <= peak.calls - 1 + Slots
        /\ cost + 2 * n <= most + 2 * Slots
    BY <1>5 DEF LlmInv, BatchFits
  <2> HIDE DEF n, most, calls, cost
  <2>4. calls <= peak.calls - 1 + Slots /\ cost <= most + 2 * Slots
    BY <1>2, <1>3, <2>2, <2>3
  <2> QED
    BY <2>4 DEF most, calls, cost
<1>6. BatchBudgetIsSoft
  BY <1>2, <1>5 DEF BatchBudgetIsSoft
<1>7. ASSUME NEW c \in LlmCalls, llmCall[c] # NoLlmCall
      PROVE  /\ llmCall[c].at \in {"calling", "recording"}
             /\ llmCall[c].batch \in LlmBatches \cup {NoLlmBatch}
             /\ Len(llmCall[c].due) <= MaxAttempts
             /\ llmCall[c].at = "calling" =>
                  llmCall[c].tries < MaxAttempts /\ Len(llmCall[c].due) <= llmCall[c].tries
  <2>1. PICK q : q = llmCall[c]
    OBVIOUS
  <2>2. LlmCallSound(q) /\ q # NoLlmCall
    BY <1>1, <1>7, <2>1 DEF LlmTypes
  <2>3. q.at \in {"calling", "recording"} /\ q.batch \in LlmBatches \cup {NoLlmBatch}
    BY <2>2 DEF LlmCallSound, LlmCallState
  <2>4. CASE q.at = "calling"
    <3>1. q.tries \in 0 .. MaxAttempts - 1 /\ q.due \in Seq(Costs) /\ Len(q.due) <= q.tries
      BY <2>2, <2>4 DEF LlmCallSound, LlmCallState
    <3>2. Len(q.due) \in Nat
      BY <3>1
    <3> QED
      BY <1>1, <2>1, <2>3, <2>4, <3>1, <3>2
  <2>5. CASE q.at = "recording"
    BY <1>1, <2>1, <2>2, <2>3, <2>5 DEF LlmCallSound
  <2> QED
    BY <2>3, <2>4, <2>5
<1>8. LlmTypeOK
  BY <1>1, <1>7 DEF LlmTypes, LlmTypeOK
<1> QED
  BY <1>4, <1>6, <1>8

(* Every row a call may still write is counted as if it had been written,  *)
(* at full price: counted so, spending stays within what the budget's      *)
(* check and the calls in flight allow, across months and changed limits.  *)
THEOREM LlmInvariant == IntelligenceSpec => []LlmInv
<1>1. IntelligenceInit => LlmInv
  BY LlmBegins DEF IntelligenceInit
<1>2. LlmInv /\ [IntelligenceNext]_intelligenceVars => LlmInv'
  BY OneServiceMoves, LlmStays
<1> QED
  BY <1>1, <1>2, PTL DEF IntelligenceSpec

(* A month and a batch end within their ceilings but for the calls in      *)
(* flight, however many read the budget before each other's rows.          *)
THEOREM ModelBudgetsStaySoft == IntelligenceSpec => []ModelBudgetsAreSoft
<1>1. LlmInv => ModelBudgetsAreSoft
  BY LlmInvGives DEF ModelBudgetsAreSoft
<1> QED
  BY <1>1, LlmInvariant, PTL

(* The ledger of the model, the runs and candidates of discovery and the   *)
(* requests of research hold what the code can put there.                  *)
THEOREM IntelligenceTypeCorrect == IntelligenceSpec => []IntelligenceTypeOK
<1>1. LlmInv /\ DiscoveryInv /\ ResearchInv => IntelligenceTypeOK
  BY LlmInvGives, DiscoveryInvGives, ResearchInvGives DEF IntelligenceTypeOK
<1> QED
  BY <1>1, LlmInvariant, DiscoveryInvariant, ResearchInvariant, PTL

-----------------------------------------------------------------------------
(* The ledger of the model: what a call owes.                              *)
DueCost(q) == IF q = NoLlmCall THEN 0 ELSE Total(q.due)

LedgerInv == LlmTypes /\ LedgerIsComplete

LEMMA RowsHaveTotals ==
  /\ \A s \in Seq(Costs) : s \in Seq(Int) /\ Total(s) \in Int
  /\ \A s \in Seq(Costs) : \A u \in Seq(Costs) :
       Len(u) <= 1 => Total(s \o u) = Total(s) + Total(u)
  /\ \A s \in Seq(Costs) : Len(s) >= 1 =>
       Total(s) = Head(s) + Total(Tail(s)) /\ Tail(s) \in Seq(Costs) /\ Head(s) \in Costs
  /\ Total(<< >>) = 0
<1>1. ASSUME NEW s \in Seq(Costs) PROVE s \in Seq(Int)
  BY DEF Costs
<1>2. ASSUME NEW s \in Seq(Costs) PROVE Total(s) \in Int
  BY <1>1, <1>2, SequenceSumType DEF Total
<1>3. Total(<< >>) = 0
  BY SumOfNothing DEF Total
<1>4. ASSUME NEW s \in Seq(Costs), NEW u \in Seq(Costs), Len(u) <= 1
      PROVE  Total(s \o u) = Total(s) + Total(u)
  <2>1. CASE u = << >>
    <3>1. s \o u = s
      BY <2>1
    <3> QED
      BY <1>2, <1>3, <2>1, <3>1
  <2>2. CASE u # << >>
    <3>1. PICK r \in Int : u = <<r>>
      <4>0. Len(u) \in Nat /\ Len(u) # 0
        BY <2>2, EmptySeq
      <4>3. Len(u) = 1
        <5>1. PICK n : n = Len(u)
          OBVIOUS
        <5>2. n \in Nat /\ n # 0 /\ n <= 1
          BY <1>4, <4>0, <5>1
        <5>3. n = 1
          BY <5>2
        <5> QED
          BY <5>1, <5>3
      <4>4. u \in [1 .. 1 -> Costs]
        BY <4>3
      <4>1. Len(u) = 1 /\ u[1] \in Costs /\ u = <<u[1]>>
        BY <4>3, <4>4
      <4>2. u[1] \in Int
        BY <4>1 DEF Costs
      <4> QED
        BY <4>1, <4>2
    <3>2. Total(s \o <<r>>) = Total(s) + r
      BY <1>1, SumAppended DEF Total
    <3>3. << >> \in Seq(Int) /\ << >> \o <<r>> = <<r>>
      OBVIOUS
    <3>4. Total(<< >> \o <<r>>) = Total(<< >>) + r
      BY <3>3, SumAppended DEF Total
    <3> QED
      BY <1>3, <3>1, <3>2, <3>3, <3>4
  <2> QED
    BY <2>1, <2>2
<1>5. ASSUME NEW s \in Seq(Costs), Len(s) >= 1
      PROVE  Total(s) = Head(s) + Total(Tail(s)) /\ Tail(s) \in Seq(Costs) /\ Head(s) \in Costs
  <2>1. s # << >> /\ Tail(s) \in Seq(Costs) /\ Head(s) \in Costs
    BY <1>5
  <2>2. s \in Seq(Int)
    BY <1>1
  <2> QED
    BY <2>1, <2>2, SumOfTail DEF Total
<1> QED
  BY <1>1, <1>2, <1>3, <1>4, <1>5

LEMMA DueCostIsTyped == \A q : LlmCallSound(q) => DueCost(q) \in Int
<1> SUFFICES ASSUME NEW q, LlmCallSound(q) PROVE DueCost(q) \in Int
  OBVIOUS
<1>1. q = NoLlmCall \/ q.due \in Seq(Costs)
  BY DEF LlmCallSound, LlmCallState
<1> QED
  BY <1>1, RowsHaveTotals DEF DueCost

(* What is unwritten moves by what the one call owes more or less.         *)
LEMMA OneCallOwes ==
  ASSUME LlmTypes, NEW c \in LlmCalls, NEW q, LlmCallSound(q), LlmCallBecomes(c, q)
  PROVE  /\ Unwritten \in Int
         /\ Unwritten' = Unwritten - DueCost(llmCall[c]) + DueCost(q)
<1>1. /\ llmCall'[c] = q
      /\ \A d \in LlmCalls : d # c => llmCall'[d] = llmCall[d]
      /\ \A d \in LlmCalls : LlmCallSound(llmCall'[d]) /\ LlmCallSound(llmCall[d])
  BY OthersKeepTheirSlots DEF LlmTypes
<1>2. PICK f : f = [d \in LlmCalls |-> DueCost(llmCall[d])]
  OBVIOUS
<1>3. PICK g : g = [d \in LlmCalls |-> DueCost(llmCall'[d])]
  OBVIOUS
<1>4. Unwritten = SumFunctionOnSet(f, LlmCalls)
  BY <1>2 DEF Unwritten, DueCost, SumFunction
<1>5. Unwritten' = SumFunctionOnSet(g, LlmCalls)
  BY <1>3 DEF Unwritten, DueCost, SumFunction
<1>6. IsFiniteSet(LlmCalls)
  BY LlmNumbers
<1>7. \A d \in LlmCalls : f[d] \in Int /\ g[d] \in Int
  BY <1>1, <1>2, <1>3, DueCostIsTyped
<1>8. \A d \in LlmCalls \ {c} : f[d] = g[d]
  BY <1>1, <1>2, <1>3
<1>9. f[c] = DueCost(llmCall[c]) /\ g[c] = DueCost(q)
  BY <1>1, <1>2, <1>3
<1>10. SumFunctionOnSet(g, LlmCalls) = SumFunctionOnSet(f, LlmCalls) - f[c] + g[c]
  BY <1>6, <1>7, <1>8, SumOneChanged
<1>11. SumFunctionOnSet(f, LlmCalls) \in Int
  BY <1>6, <1>7, SumType
<1> QED
  BY <1>4, <1>5, <1>9, <1>10, <1>11

LEMMA UnwrittenIsTyped == LlmTypes => Unwritten \in Int
<1> SUFFICES ASSUME LlmTypes PROVE Unwritten \in Int
  OBVIOUS
<1>2. PICK f : f = [d \in LlmCalls |-> DueCost(llmCall[d])]
  OBVIOUS
<1>4. Unwritten = SumFunctionOnSet(f, LlmCalls)
  BY <1>2 DEF Unwritten, DueCost, SumFunction
<1>7. \A d \in LlmCalls : f[d] \in Int
  BY <1>2, DueCostIsTyped DEF LlmTypes
<1> QED
  BY <1>4, <1>7, LlmNumbers, SumType

LEMMA LedgerBegins == LlmInit => LedgerIsComplete
<1> SUFFICES ASSUME LlmInit PROVE LedgerIsComplete
  OBVIOUS
<1>1. PICK f : f = [d \in LlmCalls |-> DueCost(llmCall[d])]
  OBVIOUS
<1>2. PICK g : g = [d \in LlmCalls |-> 0]
  OBVIOUS
<1>3. Unwritten = SumFunctionOnSet(f, LlmCalls)
  BY <1>1 DEF Unwritten, DueCost, SumFunction
<1>4. \A d \in LlmCalls : f[d] = 0
  BY <1>1 DEF LlmInit, DueCost
<1>5. SumFunctionOnSet(f, LlmCalls) = 0
  BY <1>4, LlmNumbers, SumOfZeros
<1> QED
  BY <1>3, <1>5 DEF LlmInit, LedgerIsComplete

(* Of a call, AttemptCall moves what the vendor reported from the bill to  *)
(* what is owed, and RecordModelCall from there to the ledger.             *)
LEMMA LedgerStays ==
  ASSUME LlmTypes, LedgerIsComplete, LlmNext
  PROVE  LedgerIsComplete'
<1>0. spent \in Nat /\ Unwritten \in Int /\ spent + Unwritten = payable
  BY UnwrittenIsTyped DEF LlmTypes, LedgerIsComplete
<1>1. \A c \in LlmCalls : DueCost(llmCall[c]) \in Int /\ LlmCallSound(llmCall[c])
  BY DueCostIsTyped DEF LlmTypes
<1>2. DueCost(NoLlmCall) = 0
  BY DEF DueCost
<1>3. ASSUME NEW c \in LlmCalls, NEW b \in LlmBatches \cup {NoLlmBatch}, Authorize(c, b)
      PROVE  LedgerIsComplete'
  <2>1. PICK q : q = Calling(b, 0, NoRows)
    OBVIOUS
  <2>2. LlmCallBecomes(c, q) /\ llmCall[c] = NoLlmCall /\ UNCHANGED <<spent, payable>>
    BY <1>3, <2>1 DEF Authorize, llmTables, llmHistory
  <2>3. LlmCallSound(q) /\ DueCost(q) = 0
    <3>1. << >> \in Seq(Costs) /\ Len(<< >>) = 0 /\ 0 \in 0 .. MaxAttempts - 1
      BY LlmNumbers
    <3> QED
      BY <2>1, <3>1, RowsHaveTotals DEF Calling, NoRows, LlmCallSound, LlmCallState, DueCost, NoLlmCall
  <2>4. Unwritten' = Unwritten
    BY <1>0, <1>2, <2>2, <2>3, OneCallOwes
  <2> QED
    BY <1>0, <2>2, <2>4 DEF LedgerIsComplete
<1>4. ASSUME NEW c \in LlmCalls, NEW o \in Outcomes, AttemptCall(c, o)
      PROVE  LedgerIsComplete'
  <2>1. PICK old : old = llmCall[c]
    OBVIOUS
  <2>2. PICK due : due = old.due \o o.rows
    OBVIOUS
  <2>3. PICK q : q = IF ~Ends(o, old.tries + 1) THEN Calling(old.batch, old.tries + 1, due)
                     ELSE IF due = NoRows THEN NoLlmCall
                     ELSE Ledgering(old.batch, due)
    OBVIOUS
  <2>4. LlmCallBecomes(c, q) /\ old.at = "calling" /\ payable' = payable + Total(o.rows) /\ UNCHANGED spent
    BY <1>4, <2>1, <2>2, <2>3 DEF AttemptCall, llmTables
  <2>5. /\ LlmCallSound(old) /\ old.batch \in LlmBatches \cup {NoLlmBatch}
        /\ old.tries \in 0 .. MaxAttempts - 1 /\ old.due \in Seq(Costs) /\ Len(old.due) <= old.tries
        /\ old # NoLlmCall
    BY <2>1, <2>4 DEF LlmTypes, LlmCallSound, LlmCallState, NoLlmCall
  <2>6. o.rows \in Seq(Costs) /\ Len(o.rows) <= 1
    BY OutcomesHaveRows DEF LlmTypes
  <2>7. Total(due) = Total(old.due) + Total(o.rows) /\ Total(old.due) \in Int /\ Total(o.rows) \in Int
    BY <2>2, <2>5, <2>6, RowsHaveTotals
  <2>8. /\ due \in Seq(Costs) /\ Len(due) \in Nat /\ Len(due) <= old.tries + 1
        /\ (due # << >> => Len(due) >= 1)
    <3>1. due \in Seq(Costs) /\ Len(due) = Len(old.due) + Len(o.rows)
      BY <2>2, <2>5, <2>6
    <3>2. Len(due) \in Nat /\ Len(old.due) \in Nat /\ Len(o.rows) \in Nat /\ old.tries \in Nat
      <4>1. old.tries \in Nat
        BY <2>5, LlmNumbers
      <4> QED
        BY <2>5, <2>6, <3>1, <4>1, LenProperties
    <3>3. due # << >> => Len(due) # 0
      BY <3>1, EmptySeq
    <3>4. Len(due) <= old.tries + 1
      <4> DEFINE k == Len(due)
                 l == Len(old.due)
                 m == Len(o.rows)
                 n == old.tries
      <4>1. k = l + m /\ k \in Nat /\ l \in Nat /\ m \in Nat /\ n \in Nat /\ l <= n /\ m <= 1
        BY <2>5, <2>6, <3>1, <3>2
      <4> HIDE DEF k, l, m, n
      <4>2. k <= n + 1
        BY <4>1
      <4> QED
        BY <4>2 DEF k, n
    <3>5. due # << >> => Len(due) >= 1
      <4>1. PICK n : n = Len(due)
        OBVIOUS
      <4>2. n \in Nat /\ (due # << >> => n # 0)
        BY <3>2, <3>3, <4>1
      <4>3. due # << >> => n >= 1
        BY <4>2
      <4> QED
        BY <4>1, <4>3
    <3> QED
      BY <3>1, <3>2, <3>4, <3>5
  <2>9. LlmCallSound(q)
    <3>1. MaxAttempts \in Nat \ {0}
      BY LlmNumbers
    <3>2. CASE ~Ends(o, old.tries + 1)
      <4>1. old.tries + 1 # MaxAttempts
        BY <3>2 DEF Ends
      <4>2. old.tries + 1 \in 0 .. MaxAttempts - 1
        BY <2>5, <3>1, <4>1
      <4>3. q = Calling(old.batch, old.tries + 1, due)
        BY <2>3, <3>2
      <4> QED
        BY <2>5, <2>8, <4>2, <4>3 DEF Calling, LlmCallSound, LlmCallState
    <3>3. CASE q = NoLlmCall
      BY <3>3, CallsAreTyped
    <3>4. CASE q = Ledgering(old.batch, due) /\ due # NoRows
      <4>1. Len(due) \in 1 .. MaxAttempts
        BY <2>5, <2>8, <3>1, <3>4 DEF NoRows
      <4> QED
        BY <2>5, <2>8, <3>4, <4>1 DEF Ledgering, LlmCallSound, LlmCallState
    <3> QED
      BY <2>3, <3>2, <3>3, <3>4
  <2>10. DueCost(q) = Total(due)
    <3>1. CASE q = NoLlmCall
      <4>1. due = << >>
        BY <2>3, <3>1 DEF Calling, Ledgering, NoLlmCall, NoRows
      <4> QED
        BY <3>1, <4>1, RowsHaveTotals DEF DueCost
    <3>2. CASE q # NoLlmCall
      <4>1. q.due = due
        BY <2>3, <3>2 DEF Calling, Ledgering
      <4> QED
        BY <3>2, <4>1 DEF DueCost
    <3> QED
      BY <3>1, <3>2
  <2>11. DueCost(llmCall[c]) = Total(old.due)
    BY <2>1, <2>5 DEF DueCost
  <2>12. Unwritten' = Unwritten - DueCost(llmCall[c]) + DueCost(q)
    BY <2>4, <2>9, OneCallOwes
  <2> DEFINE x == Total(old.due)
             y == Total(o.rows)
  <2>13. /\ Unwritten' = Unwritten - x + (x + y) /\ x \in Int /\ y \in Int
         /\ payable' = payable + y /\ spent' = spent
    BY <2>4, <2>7, <2>10, <2>11, <2>12
  <2> HIDE DEF x, y
  <2> QED
    BY <1>0, <2>13 DEF LedgerIsComplete
<1>5. ASSUME NEW c \in LlmCalls, RecordModelCall(c)
      PROVE  LedgerIsComplete'
  <2>1. PICK old : old = llmCall[c]
    OBVIOUS
  <2>2. PICK q : q = AfterRow(old)
    OBVIOUS
  <2>3. LlmCallBecomes(c, q) /\ old.at = "recording" /\ spent' = spent + Head(old.due) /\ UNCHANGED payable
    BY <1>5, <2>1, <2>2 DEF RecordModelCall, llmHistory
  <2>4. /\ old # NoLlmCall /\ old.batch \in LlmBatches \cup {NoLlmBatch}
        /\ old.due \in Seq(Costs) /\ Len(old.due) \in 1 .. MaxAttempts
    BY <2>1, <2>3 DEF LlmTypes, LlmCallSound, LlmCallState, NoLlmCall
  <2>5. /\ Total(old.due) = Head(old.due) + Total(Tail(old.due))
        /\ Tail(old.due) \in Seq(Costs) /\ Head(old.due) \in Costs
        /\ Total(Tail(old.due)) \in Int
    <3>1. Len(old.due) >= 1
      BY <2>4
    <3>2. /\ Total(old.due) = Head(old.due) + Total(Tail(old.due))
          /\ Tail(old.due) \in Seq(Costs) /\ Head(old.due) \in Costs
      BY <2>4, <3>1, RowsHaveTotals
    <3> QED
      BY <3>2, RowsHaveTotals
  <2>6. Len(Tail(old.due)) = Len(old.due) - 1
    BY <2>4
  <2>7. LlmCallSound(q)
    <3>1. CASE Len(old.due) = 1
      BY <2>2, <3>1, CallsAreTyped DEF AfterRow
    <3>2. CASE Len(old.due) # 1
      <4>1. q = Ledgering(old.batch, Tail(old.due))
        BY <2>2, <3>2 DEF AfterRow
      <4>2. Len(Tail(old.due)) \in 1 .. MaxAttempts
        <5>1. PICK n : n = Len(old.due)
          OBVIOUS
        <5>2. n \in 1 .. MaxAttempts /\ n # 1 /\ Len(Tail(old.due)) = n - 1 /\ MaxAttempts \in Nat
          BY <2>4, <2>6, <3>2, <5>1, LlmNumbers
        <5>3. n - 1 \in 1 .. MaxAttempts
          BY <5>2
        <5> QED
          BY <5>2, <5>3
      <4> QED
        BY <2>4, <2>5, <4>1, <4>2 DEF Ledgering, LlmCallSound, LlmCallState
    <3> QED
      BY <3>1, <3>2
  <2>8. DueCost(q) = Total(Tail(old.due))
    <3>1. CASE Len(old.due) = 1
      <4>1. Len(Tail(old.due)) = 0
        BY <2>6, <3>1
      <4>2. Tail(old.due) = << >>
        BY <2>5, <4>1, EmptySeq
      <4> QED
        BY <2>2, <3>1, <4>2, RowsHaveTotals DEF AfterRow, DueCost
    <3>2. CASE Len(old.due) # 1
      BY <2>2, <3>2 DEF AfterRow, DueCost, Ledgering, NoLlmCall
    <3> QED
      BY <3>1, <3>2
  <2>9. DueCost(llmCall[c]) = Total(old.due)
    BY <2>1, <2>4 DEF DueCost
  <2>10. Unwritten' = Unwritten - DueCost(llmCall[c]) + DueCost(q)
    BY <2>3, <2>7, OneCallOwes
  <2>11. Head(old.due) \in Int
    BY <2>5 DEF Costs
  <2> DEFINE x == Head(old.due)
             y == Total(Tail(old.due))
  <2>12. /\ Unwritten' = Unwritten - (x + y) + y /\ x \in Int /\ y \in Int
         /\ spent' = spent + x /\ payable' = payable
    BY <2>3, <2>5, <2>8, <2>9, <2>10, <2>11
  <2> HIDE DEF x, y
  <2> QED
    BY <1>0, <2>12 DEF LedgerIsComplete
<1>6. ASSUME NEW c \in LlmCalls, AbandonCall(c)
      PROVE  LedgerIsComplete'
  <2>1. /\ llmCall[c] # NoLlmCall /\ LlmCallBecomes(c, NoLlmCall)
        /\ payable' = payable - Total(llmCall[c].due) /\ UNCHANGED spent
    BY <1>6 DEF AbandonCall, llmTables
  <2>2. DueCost(llmCall[c]) = Total(llmCall[c].due)
    BY <2>1 DEF DueCost
  <2>3. LlmCallSound(NoLlmCall)
    BY CallsAreTyped
  <2>4. Unwritten' = Unwritten - DueCost(llmCall[c]) + DueCost(NoLlmCall)
    BY <2>1, <2>3, OneCallOwes
  <2> DEFINE x == DueCost(llmCall[c])
  <2>5. Unwritten' = Unwritten - x + 0 /\ x \in Int /\ payable' = payable - x /\ spent' = spent
    BY <1>1, <1>2, <2>1, <2>2, <2>4
  <2> HIDE DEF x
  <2> QED
    BY <1>0, <2>5 DEF LedgerIsComplete
<1>7. ASSUME NEW l \in Limits, SetLlmLimits(l) PROVE LedgerIsComplete'
  <2>1. UNCHANGED <<spent, payable, llmCall>>
    BY <1>7 DEF SetLlmLimits
  <2> QED
    BY <2>1 DEF LedgerIsComplete, Unwritten
<1>8. CASE MonthEnds
  <2>1. spent' = 0 /\ payable' = payable - spent /\ UNCHANGED llmCall
    BY <1>8 DEF MonthEnds
  <2>2. Unwritten' = Unwritten
    BY <2>1 DEF Unwritten
  <2> QED
    BY <1>0, <2>1, <2>2 DEF LedgerIsComplete
<1> QED
  BY <1>3, <1>4, <1>5, <1>6, <1>7, <1>8 DEF LlmNext

(* Every cost a vendor reported is in the ledger, once, or owed by a call  *)
(* that is still writing.                                                  *)
THEOREM LedgerIsAlwaysComplete == IntelligenceSpec => [](service = "llm" => LedgerIsComplete)
<1>1. IntelligenceInit => LedgerIsComplete
  BY LedgerBegins DEF IntelligenceInit
<1>2. LlmInv /\ LedgerIsComplete /\ [IntelligenceNext]_intelligenceVars => LedgerIsComplete'
  <2> SUFFICES ASSUME LlmInv, LedgerIsComplete, [IntelligenceNext]_intelligenceVars
               PROVE  LedgerIsComplete'
    OBVIOUS
  <2>1. LlmTypes
    BY DEF LlmInv
  <2>2. CASE UNCHANGED llmVars
    BY <2>2 DEF llmVars, llmTables, llmHistory, LedgerIsComplete, Unwritten
  <2> QED
    BY <2>1, <2>2, OneServiceMoves, LedgerStays
<1>3. LedgerIsComplete => (service = "llm" => LedgerIsComplete)
  OBVIOUS
<1> QED
  BY <1>1, <1>2, <1>3, LlmInvariant, PTL DEF IntelligenceSpec

-----------------------------------------------------------------------------
(* The budget of a lead: a call that was authorized and is not yet in the  *)
(* ledger counts at its price, and is affordable alone.                    *)
Costly(q) == q.at \in {"fetch", "record"}
PendingCost(q) == IF Costly(q) THEN Price[q.source] ELSE 0
Pending == SumFunction([r \in Researchers |-> PendingCost(researcher[r])])

Affordables == {c \in {Price[p] : p \in Providers} : c <= LeadBudget}
Dearest == CHOOSE c \in Affordables : \A d \in Affordables : d <= c
Slack == (Cardinality(Researchers) - 1) * Dearest

LeadBudgetFits ==
  /\ \A r \in Researchers : Costly(researcher[r]) => Price[researcher[r].source] <= LeadBudget
  /\ AcquisitionSpent <= LeadBudget => Spent + Pending <= LeadBudget + Slack
  /\ LeadBudget < AcquisitionSpent =>
       /\ \A r \in Researchers : researcher[r] = Idle
       /\ \A k \in DOMAIN rows : k[1] = "acquisition"

LEMMA PricesAreNatural == \A p \in Providers : Price[p] \in Nat
BY DEF Providers, Price

LEMMA ResearchNumbers ==
  /\ LeadBudget \in Nat /\ IsFiniteSet(Researchers)
  /\ Cardinality(Researchers) \in Nat /\ Cardinality(Researchers) # 0
  /\ IsFiniteSet((Fields \cup {"acquisition"}) \X Providers)
<1>1. LeadBudget \in Nat /\ IsFiniteSet(Researchers) /\ Researchers # {}
  BY ResearchAssumption
<1>2. Cardinality(Researchers) \in Nat /\ Cardinality(Researchers) # 0
  BY <1>1, FS_CardinalityType, FS_EmptySet
<1> DEFINE Names == {"acquisition", "employee_count", "industry", "title_seniority", "title_function"}
<1>3. IsFiniteSet(Names)
  <2>1. /\ IsFiniteSet({"acquisition"}) /\ IsFiniteSet({"employee_count"})
        /\ IsFiniteSet({"industry"}) /\ IsFiniteSet({"title_seniority"})
        /\ IsFiniteSet({"title_function"})
    BY FS_Singleton
  <2>2. IsFiniteSet({"acquisition"} \cup {"employee_count"})
    BY <2>1, FS_Union
  <2>3. IsFiniteSet({"acquisition"} \cup {"employee_count"} \cup {"industry"})
    BY <2>1, <2>2, FS_Union
  <2>4. IsFiniteSet({"acquisition"} \cup {"employee_count"} \cup {"industry"} \cup {"title_seniority"})
    BY <2>1, <2>3, FS_Union
  <2>5. IsFiniteSet({"acquisition"} \cup {"employee_count"} \cup {"industry"} \cup {"title_seniority"}
                      \cup {"title_function"})
    BY <2>1, <2>4, FS_Union
  <2>6. Names = {"acquisition"} \cup {"employee_count"} \cup {"industry"} \cup {"title_seniority"}
                  \cup {"title_function"}
    OBVIOUS
  <2> QED
    BY <2>5, <2>6
<1>4. IsFiniteSet(Fields \cup {"acquisition"})
  <2>1. Fields \cup {"acquisition"} \in SUBSET Names
    BY ResearchAssumption
  <2> HIDE DEF Names
  <2> QED
    BY <1>3, <2>1, FS_Subset
<1>5. IsFiniteSet(Providers)
  <2> DEFINE A == {"inbound_payload", "internal_crm", "dns_web"}
             B == {"firmographics_basic", "contact_enrich", "firmographics_premium"}
             C == {"deep_research"}
  <2>1. Providers = A \cup B \cup C
    BY DEF Providers, Price
  <2>2. IsFiniteSet(A) /\ IsFiniteSet(B) /\ IsFiniteSet(C)
    <3>1. \A x, y, z : IsFiniteSet({x} \cup {y} \cup {z})
      <4> SUFFICES ASSUME NEW x, NEW y, NEW z PROVE IsFiniteSet({x} \cup {y} \cup {z})
        OBVIOUS
      <4>1. IsFiniteSet({x}) /\ IsFiniteSet({y}) /\ IsFiniteSet({z})
        BY FS_Singleton
      <4>2. IsFiniteSet({x} \cup {y})
        BY <4>1, FS_Union
      <4> QED
        BY <4>1, <4>2, FS_Union
    <3>2. /\ A = {"inbound_payload"} \cup {"internal_crm"} \cup {"dns_web"}
          /\ B = {"firmographics_basic"} \cup {"contact_enrich"} \cup {"firmographics_premium"}
      OBVIOUS
    <3> HIDE DEF A, B
    <3> QED
      BY <3>1, <3>2, FS_Singleton
  <2> HIDE DEF A, B, C
  <2>3. IsFiniteSet(A \cup B)
    BY <2>2, FS_Union
  <2>4. IsFiniteSet(A \cup B \cup C)
    BY <2>2, <2>3, FS_Union
  <2> QED
    BY <2>1, <2>4
<1> QED
  BY <1>1, <1>2, <1>4, <1>5, FS_Product

(* Some price is the dearest that the cap allows: the payload costs nothing.*)
LEMMA DearestIsAffordable ==
  /\ Dearest \in Nat /\ \A c \in Affordables : c <= Dearest
  /\ \E p \in Providers : Price[p] = Dearest /\ Dearest <= LeadBudget
<1>1. LeadBudget \in Nat
  BY ResearchNumbers
<1>2. 0 \in Affordables
  <2>1. "inbound_payload" \in Providers /\ Price["inbound_payload"] = 0
    BY DEF Providers, Price
  <2> QED
    BY <1>1, <2>1 DEF Affordables
<1>3. Affordables \subseteq Nat /\ \A c \in Affordables : LeadBudget - c \in Nat
  BY <1>1, PricesAreNatural DEF Affordables
<1> DEFINE Left == {LeadBudget - c : c \in Affordables}
<1>4. PICK l \in Left : \A m \in Left : l <= m
  <2>1. Left \in SUBSET Nat /\ Left # {}
    BY <1>2, <1>3
  <2> HIDE DEF Left
  <2> QED
    BY <2>1, LeastOf
<1>5. PICK c \in Affordables : l = LeadBudget - c
  OBVIOUS
<1>6. ASSUME NEW d \in Affordables PROVE d <= c
  <2>1. LeadBudget - c <= LeadBudget - d
    BY <1>4, <1>5
  <2>2. c \in Nat /\ d \in Nat
    BY <1>3
  <2> QED
    BY <1>1, <2>1, <2>2
<1>7. Dearest \in Affordables /\ \A d \in Affordables : d <= Dearest
  BY <1>6 DEF Dearest
<1> QED
  BY <1>3, <1>7 DEF Affordables

LEMMA PendingIsTyped ==
  ASSUME ResearchInv
  PROVE  \A r \in Researchers : PendingCost(researcher[r]) \in Nat
<1> SUFFICES ASSUME NEW r \in Researchers PROVE PendingCost(researcher[r]) \in Nat
  OBVIOUS
<1>1. PICK q : q = researcher[r]
  OBVIOUS
<1>2. Costly(q) => q.source \in Providers
  BY <1>1, ListedAreProviders DEF ResearchInv, ResearcherSound, CallSound, Costly
<1> QED
  BY <1>1, <1>2, PricesAreNatural DEF PendingCost

LEMMA RowsAreFinite ==
  ASSUME ResearchInv
  PROVE  /\ IsFiniteSet(DOMAIN rows) /\ \A k \in DOMAIN rows : rows[k] \in Nat
         /\ Spent \in Int /\ AcquisitionSpent \in Int /\ Pending \in Int
<1>1. /\ DOMAIN rows \in SUBSET ((Fields \cup {"acquisition"}) \X Providers)
      /\ \A k \in DOMAIN rows : rows[k] \in {0, Price[k[2]]}
  BY DEF ResearchInv, ResearchTypes
<1>2. IsFiniteSet(DOMAIN rows)
  BY <1>1, ResearchNumbers, FS_Subset
<1>3. \A k \in DOMAIN rows : rows[k] \in Nat
  BY <1>1, PricesAreNatural
<1>4. Spent \in Int
  BY <1>2, <1>3, SumType DEF Spent, SumFunction
<1>5. AcquisitionSpent \in Int
  <2> DEFINE S == {k \in DOMAIN rows : k[1] = "acquisition"}
  <2>1. S \in SUBSET DOMAIN rows /\ \A k \in S : rows[k] \in Int
    BY <1>3
  <2> HIDE DEF S
  <2>2. IsFiniteSet(S)
    BY <1>2, <2>1, FS_Subset
  <2>3. SumFunctionOnSet(rows, S) \in Int
    BY <2>1, <2>2, SumType
  <2> QED
    BY <2>3 DEF AcquisitionSpent, S
<1>6. Pending \in Int
  <2>1. PICK f : f = [r \in Researchers |-> PendingCost(researcher[r])]
    OBVIOUS
  <2>2. \A r \in Researchers : f[r] \in Int
    BY <2>1, PendingIsTyped
  <2>3. Pending = SumFunctionOnSet(f, Researchers)
    BY <2>1 DEF Pending, SumFunction
  <2> QED
    BY <2>2, <2>3, ResearchNumbers, SumType
<1> QED
  BY <1>2, <1>3, <1>4, <1>5, <1>6

(* One request moves: what is pending moves by its own cost.               *)
LEMMA OneRequestPays ==
  ASSUME ResearchInv, ResearchInv', NEW r \in Researchers, NEW q,
         ResearcherBecomes(r, q)
  PROVE  /\ Pending' = Pending - PendingCost(researcher[r]) + PendingCost(q)
         /\ PendingCost(researcher[r]) \in Nat /\ PendingCost(q) \in Nat
         /\ researcher'[r] = q /\ \A t \in Researchers : t # r => researcher'[t] = researcher[t]
<1>1. researcher'[r] = q /\ \A t \in Researchers : t # r => researcher'[t] = researcher[t]
  BY DEF ResearcherBecomes, ResearchInv, ResearchTypes
<1>2. PICK f : f = [t \in Researchers |-> PendingCost(researcher[t])]
  OBVIOUS
<1>3. PICK g : g = [t \in Researchers |-> PendingCost(researcher'[t])]
  OBVIOUS
<1>4. Pending = SumFunctionOnSet(f, Researchers)
  BY <1>2 DEF Pending, SumFunction
<1>5. Pending' = SumFunctionOnSet(g, Researchers)
  BY <1>3 DEF Pending, PendingCost, Costly, SumFunction
<1>6. \A t \in Researchers : PendingCost(researcher[t]) \in Nat
  BY PendingIsTyped
<1>7. \A t \in Researchers : PendingCost(researcher'[t]) \in Nat
  <2> SUFFICES ASSUME NEW t \in Researchers PROVE PendingCost(researcher'[t]) \in Nat
    OBVIOUS
  <2>1. PICK p : p = researcher'[t]
    OBVIOUS
  <2>2. Costly(p) => p.source \in SourcesOf(p.field)
    BY <2>1 DEF ResearchInv, ResearcherSound, CallSound, Costly
  <2>3. Costly(p) => p.source \in Providers
    BY <2>2, ListedAreProviders
  <2> QED
    BY <2>1, <2>3, PricesAreNatural DEF PendingCost
<1>8. \A t \in Researchers : f[t] \in Int /\ g[t] \in Int
  BY <1>2, <1>3, <1>6, <1>7
<1>9. \A t \in Researchers \ {r} : f[t] = g[t]
  BY <1>1, <1>2, <1>3
<1>10. SumFunctionOnSet(g, Researchers) = SumFunctionOnSet(f, Researchers) - f[r] + g[r]
  BY <1>8, <1>9, ResearchNumbers, SumOneChanged
<1>11. f[r] = PendingCost(researcher[r]) /\ g[r] = PendingCost(q)
  BY <1>1, <1>2, <1>3
<1> QED
  BY <1>1, <1>4, <1>5, <1>6, <1>7, <1>10, <1>11

LEMMA NaturalProduct == ASSUME NEW a \in Nat, NEW b \in Nat PROVE a * b \in Nat
OBVIOUS

LEMMA SlackIsNatural == Slack \in Nat
<1>1. PICK n : n = Cardinality(Researchers)
  OBVIOUS
<1>2. n \in Nat /\ n # 0 /\ Dearest \in Nat
  BY <1>1, ResearchNumbers, DearestIsAffordable
<1>3. n - 1 \in Nat
  BY <1>2
<1>4. (n - 1) * Dearest \in Nat
  BY <1>2, <1>3, NaturalProduct
<1> QED
  BY <1>1, <1>4 DEF Slack

LEMMA OnlyAcquisitionSpent ==
  (\A k \in DOMAIN rows : k[1] = "acquisition") => Spent = AcquisitionSpent
<1> SUFFICES ASSUME \A k \in DOMAIN rows : k[1] = "acquisition" PROVE Spent = AcquisitionSpent
  OBVIOUS
<1>1. {k \in DOMAIN rows : k[1] = "acquisition"} = DOMAIN rows
  OBVIOUS
<1> QED
  BY <1>1 DEF Spent, AcquisitionSpent, SumFunction

LEMMA LeadBudgetBegins == ResearchInit => LeadBudgetFits
<1> SUFFICES ASSUME ResearchInit PROVE LeadBudgetFits
  OBVIOUS
<1>1. PICK S \in Acquired : rows = AcquiredRows(S)
  BY DEF ResearchInit
<1>2. \A k \in DOMAIN rows : k[1] = "acquisition"
  BY <1>1 DEF AcquiredRows
<1>3. \A r \in Researchers : researcher[r] = Idle /\ ~Costly(researcher[r])
  BY DEF ResearchInit, Idle, Costly
<1>4. ResearchInv
  BY ResearchBegins
<1>5. Pending = 0
  <2>1. PICK f : f = [r \in Researchers |-> PendingCost(researcher[r])]
    OBVIOUS
  <2>2. \A r \in Researchers : f[r] = 0
    BY <1>3, <2>1 DEF PendingCost
  <2>3. Pending = SumFunctionOnSet(f, Researchers)
    BY <2>1 DEF Pending, SumFunction
  <2> QED
    BY <2>2, <2>3, ResearchNumbers, SumOfZeros
<1>6. Spent = AcquisitionSpent
  BY <1>2, OnlyAcquisitionSpent
<1>7. Spent \in Int
  BY <1>4, RowsAreFinite
<1>8. AcquisitionSpent <= LeadBudget => Spent + Pending <= LeadBudget + Slack
  <2>1. LeadBudget \in Nat /\ Slack \in Nat
    BY ResearchNumbers, SlackIsNatural
  <2> QED
    BY <1>5, <1>6, <1>7, <2>1
<1> QED
  BY <1>2, <1>3, <1>8 DEF LeadBudgetFits

(* A call is authorized when all that is in the ledger and its own price   *)
(* fit; the others under way cost at most the dearest each.                *)
LEMMA ExecuteFits ==
  ASSUME ResearchInv, ResearchInv', LeadBudgetFits, NEW r \in Researchers, NEW f \in Fields,
         NEW allowance \in BOOLEAN, ExecuteResearch(r, f, allowance)
  PROVE  LeadBudgetFits'
<1>1. PICK p : p = FirstCandidate(f)
  OBVIOUS
<1>2. PICK q : q = [Idle EXCEPT !.at = "fetch", !.field = f, !.source = p]
  OBVIOUS
<1>3. /\ ResearcherBecomes(r, q) /\ researcher[r] = Idle /\ UNCHANGED rows
      /\ Spent + Price[p] <= LeadBudget /\ p \in Providers
  BY <1>1, <1>2, FirstCandidateIsCheapest DEF ExecuteResearch, Authorized, WithinLeadBudget
<1>4. q.at = "fetch" /\ q.source = p /\ Costly(q) /\ PendingCost(q) = Price[p]
  BY <1>2 DEF Idle, Costly, PendingCost
<1>5. researcher'[r] = q /\ \A t \in Researchers : t # r => researcher'[t] = researcher[t]
  BY <1>3, OneRequestPays
<1>6. Spent' = Spent /\ AcquisitionSpent' = AcquisitionSpent
  BY <1>3 DEF Spent, AcquisitionSpent
<1>7. Spent \in Int /\ AcquisitionSpent \in Int /\ Price[p] \in Nat /\ LeadBudget \in Nat
      /\ Slack \in Nat /\ Dearest \in Nat
  BY <1>3, RowsAreFinite, PricesAreNatural, ResearchNumbers, SlackIsNatural, DearestIsAffordable
<1>8. ~(LeadBudget < AcquisitionSpent)
  <2> SUFFICES ASSUME LeadBudget < AcquisitionSpent PROVE FALSE
    OBVIOUS
  <2>1. Spent = AcquisitionSpent
    BY OnlyAcquisitionSpent DEF LeadBudgetFits
  <2> QED
    BY <1>3, <1>7, <2>1
<1>80. Spent >= 0
  <2>1. PICK z : z = [k \in DOMAIN rows |-> 0]
    OBVIOUS
  <2>2. IsFiniteSet(DOMAIN rows) /\ \A k \in DOMAIN rows : z[k] = 0 /\ rows[k] \in Nat
    BY <2>1, RowsAreFinite
  <2>3. SumFunctionOnSet(z, DOMAIN rows) = 0
    BY <2>2, SumOfZeros
  <2>4. \A k \in DOMAIN rows : z[k] \in Int /\ rows[k] \in Int /\ z[k] <= rows[k]
    BY <2>2
  <2>5. SumFunctionOnSet(z, DOMAIN rows) <= SumFunctionOnSet(rows, DOMAIN rows)
    BY <2>2, <2>4, SumMonotone
  <2> QED
    BY <1>7, <2>3, <2>5 DEF Spent, SumFunction
<1>9. \A t \in Researchers : Costly(researcher'[t]) => Price[researcher'[t].source] <= LeadBudget
  <2>1. Price[p] <= LeadBudget
    BY <1>3, <1>7, <1>80
  <2> QED
    BY <1>4, <1>5, <2>1 DEF LeadBudgetFits
<1>10. PICK g : g = [t \in Researchers |-> PendingCost(researcher'[t])]
  OBVIOUS
<1>11. Pending' = SumFunctionOnSet(g, Researchers)
  BY <1>10 DEF Pending, PendingCost, Costly, SumFunction
<1>12. \A t \in Researchers : g[t] \in Int /\ g[t] <= Dearest
  <2> SUFFICES ASSUME NEW t \in Researchers PROVE g[t] \in Int /\ g[t] <= Dearest
    OBVIOUS
  <2>1. PICK u : u = researcher'[t]
    OBVIOUS
  <2>2. Costly(u) => u.source \in SourcesOf(u.field)
    BY <2>1 DEF ResearchInv, ResearcherSound, CallSound, Costly
  <2>3. Costly(u) => u.source \in Providers /\ Price[u.source] \in Nat /\ Price[u.source] <= LeadBudget
    BY <1>9, <2>1, <2>2, ListedAreProviders, PricesAreNatural
  <2>4. Costly(u) => Price[u.source] <= Dearest
    BY <2>3, DearestIsAffordable DEF Affordables
  <2>5. PendingCost(u) \in Nat /\ PendingCost(u) <= Dearest
    BY <1>7, <2>3, <2>4 DEF PendingCost
  <2> QED
    BY <1>10, <2>1, <2>5
<1> DEFINE Others == Researchers \ {r}
<1>13. SumFunctionOnSet(g, Researchers) = g[r] + SumFunctionOnSet(g, Others)
  BY <1>12, ResearchNumbers, SumOneOut
<1>14. /\ IsFiniteSet(Others) /\ Cardinality(Others) = Cardinality(Researchers) - 1
       /\ \A t \in Others : g[t] \in Int /\ g[t] <= Dearest
  BY <1>12, ResearchNumbers, FS_RemoveElement, FS_Subset
<1> HIDE DEF Others
<1>15. SumFunctionOnSet(g, Others) <= Cardinality(Others) * Dearest /\ SumFunctionOnSet(g, Others) \in Int
  BY <1>7, <1>14, SumBounded, SumType
<1>16. g[r] = Price[p]
  BY <1>4, <1>5, <1>10
<1>17. Cardinality(Others) * Dearest = Slack
  BY <1>14 DEF Slack
<1>18. Spent' + Pending' <= LeadBudget + Slack
  <2> DEFINE a == SumFunctionOnSet(g, Others)
  <2>1. Pending' = Price[p] + a /\ a <= Slack /\ a \in Int /\ Spent' = Spent
    BY <1>6, <1>11, <1>13, <1>15, <1>16, <1>17
  <2> HIDE DEF a
  <2> QED
    BY <1>3, <1>7, <2>1
<1> QED
  BY <1>6, <1>8, <1>9, <1>18 DEF LeadBudgetFits, Slack, Dearest, Affordables, Costly

(* A row costs at most what was pending for it.                            *)
LEMMA RecordFits ==
  ASSUME ResearchInv, ResearchInv', LeadBudgetFits, NEW r \in Researchers, RecordResearch(r)
  PROVE  LeadBudgetFits'
<1>1. PICK old : old = researcher[r]
  OBVIOUS
<1>2. PICK q : q = IF old.found THEN [old EXCEPT !.at = "put"] ELSE Idle
  OBVIOUS
<1>3. ResearcherBecomes(r, q) /\ rows' = Recorded(old) /\ old.at = "record"
  BY <1>1, <1>2 DEF RecordResearch
<1>4. /\ old \in ResearcherState /\ old.charge \in {0, Price[old.source]}
      /\ old.field \in Fields /\ old.source \in Providers /\ Price[old.source] \in Nat
  <2>1. /\ old \in ResearcherState /\ CallSound(old.field, old.source)
        /\ old.charge \in {0, Price[old.source]}
    BY <1>1, <1>3 DEF ResearchInv, ResearchTypes, ResearcherSound
  <2> QED
    BY <2>1, ListedAreProviders, PricesAreNatural DEF CallSound
<1>5. PICK key : key = <<old.field, old.source>>
  OBVIOUS
<1>6. ~Costly(q) /\ PendingCost(q) = 0
  BY <1>2, <1>4 DEF Costly, PendingCost, Idle, ResearcherState
<1>7. PendingCost(researcher[r]) = Price[old.source] /\ old # Idle
  BY <1>1, <1>3 DEF PendingCost, Costly, Idle
<1>8. /\ Pending' = Pending - Price[old.source]
      /\ researcher'[r] = q /\ \A t \in Researchers : t # r => researcher'[t] = researcher[t]
  <2>1. /\ Pending' = Pending - PendingCost(researcher[r]) + PendingCost(q)
        /\ researcher'[r] = q /\ \A t \in Researchers : t # r => researcher'[t] = researcher[t]
    BY <1>3, OneRequestPays
  <2>2. Pending \in Int
    BY RowsAreFinite
  <2> QED
    BY <1>4, <1>6, <1>7, <2>1, <2>2
<1>9. ~(LeadBudget < AcquisitionSpent)
  BY <1>1, <1>7 DEF LeadBudgetFits
<1>10. /\ IsFiniteSet(DOMAIN rows) /\ \A k \in DOMAIN rows : rows[k] \in Nat
       /\ Spent \in Int /\ AcquisitionSpent \in Int /\ Pending \in Int
  BY RowsAreFinite
<1>11. key[1] # "acquisition"
  BY <1>4, <1>5, ResearchFields
<1>12. AcquisitionSpent' = AcquisitionSpent
  <2> DEFINE S == {k \in DOMAIN rows : k[1] = "acquisition"}
  <2>1. {k \in DOMAIN rows' : k[1] = "acquisition"} = S /\ \A k \in S : rows'[k] = rows[k]
    BY <1>3, <1>5, <1>11 DEF Recorded
  <2>2. S \in SUBSET DOMAIN rows
    OBVIOUS
  <2>3. AcquisitionSpent' = SumFunctionOnSet(rows', S)
    BY <2>1 DEF AcquisitionSpent
  <2>4. AcquisitionSpent = SumFunctionOnSet(rows, S)
    BY DEF AcquisitionSpent
  <2> HIDE DEF S
  <2>5. IsFiniteSet(S)
    BY <1>10, <2>2, FS_Subset
  <2>6. SumFunctionOnSet(rows', S) = SumFunctionOnSet(rows, S)
    BY <2>1, <2>5, SumSameTerms
  <2> QED
    BY <2>3, <2>4, <2>6
<1>13. Spent' \in Int /\ Spent' <= Spent + Price[old.source]
  <2>1. CASE key \in DOMAIN rows
    <3>1. rows' = rows
      BY <1>3, <1>5, <2>1 DEF Recorded
    <3>2. Spent' = Spent
      BY <3>1 DEF Spent
    <3> QED
      BY <1>4, <1>10, <3>2
  <2>2. CASE key \notin DOMAIN rows
    <3>1. PICK g : g = rows'
      OBVIOUS
    <3> DEFINE D == DOMAIN rows
               E == D \cup {key}
    <3>2. /\ DOMAIN g = E /\ g[key] = old.charge /\ \A k \in D : g[k] = rows[k]
      BY <1>3, <1>5, <2>2, <3>1 DEF Recorded
    <3>3. E \ {key} = D /\ key \in E
      BY <2>2
    <3>4. IsFiniteSet(D) /\ IsFiniteSet(E)
      BY <1>10, FS_AddElement
    <3>5. old.charge \in Int /\ old.charge <= Price[old.source]
      BY <1>4
    <3>6. \A k \in E : g[k] \in Int
      BY <1>10, <3>2, <3>5
    <3>7. Spent' = SumFunctionOnSet(g, E)
      BY <3>1, <3>2 DEF Spent, SumFunction
    <3>8. Spent = SumFunctionOnSet(rows, D)
      BY DEF Spent, SumFunction
    <3> HIDE DEF D, E
    <3>9. SumFunctionOnSet(g, E) = g[key] + SumFunctionOnSet(g, E \ {key})
      BY <3>3, <3>4, <3>6, SumOneOut
    <3>10. SumFunctionOnSet(g, D) = SumFunctionOnSet(rows, D)
      BY <3>2, <3>4, SumSameTerms
    <3>11. Spent' = old.charge + Spent
      BY <3>2, <3>3, <3>7, <3>8, <3>9, <3>10
    <3> QED
      BY <1>4, <1>10, <3>5, <3>11
  <2> QED
    BY <2>1, <2>2
<1>14. \A t \in Researchers : Costly(researcher'[t]) => Price[researcher'[t].source] <= LeadBudget
  BY <1>6, <1>8 DEF LeadBudgetFits
<1>15. AcquisitionSpent <= LeadBudget => Spent' + Pending' <= LeadBudget + Slack
  <2>1. AcquisitionSpent <= LeadBudget => Spent + Pending <= LeadBudget + Slack
    BY DEF LeadBudgetFits
  <2>2. LeadBudget \in Nat /\ Slack \in Nat
    BY ResearchNumbers, SlackIsNatural
  <2> QED
    BY <1>4, <1>8, <1>10, <1>13, <2>1, <2>2
<1> QED
  BY <1>9, <1>12, <1>14, <1>15 DEF LeadBudgetFits, Slack, Dearest, Affordables, Costly

(* Whatever else a request does, no more is pending than before.           *)
LEMMA MovesFit ==
  ASSUME ResearchInv, ResearchInv', LeadBudgetFits, NEW r \in Researchers, NEW q,
         ResearcherBecomes(r, q), UNCHANGED rows,
         Costly(q) => Costly(researcher[r]) /\ q.source = researcher[r].source,
         researcher[r] = Idle => q = Idle
  PROVE  LeadBudgetFits'
<1>1. /\ Pending' = Pending - PendingCost(researcher[r]) + PendingCost(q)
      /\ PendingCost(researcher[r]) \in Nat /\ PendingCost(q) \in Nat
      /\ researcher'[r] = q /\ \A t \in Researchers : t # r => researcher'[t] = researcher[t]
  BY OneRequestPays
<1>2. PendingCost(q) <= PendingCost(researcher[r])
  BY <1>1 DEF PendingCost
<1>3. Spent' = Spent /\ AcquisitionSpent' = AcquisitionSpent
  BY DEF Spent, AcquisitionSpent
<1>4. Spent \in Int /\ Pending \in Int /\ LeadBudget \in Nat /\ Slack \in Nat
  BY RowsAreFinite, ResearchNumbers, SlackIsNatural
<1>5. AcquisitionSpent <= LeadBudget => Spent' + Pending' <= LeadBudget + Slack
  <2>1. AcquisitionSpent <= LeadBudget => Spent + Pending <= LeadBudget + Slack
    BY DEF LeadBudgetFits
  <2> QED
    BY <1>1, <1>2, <1>3, <1>4, <2>1
<1>6. \A t \in Researchers : Costly(researcher'[t]) => Price[researcher'[t].source] <= LeadBudget
  BY <1>1 DEF LeadBudgetFits
<1>7. LeadBudget < AcquisitionSpent =>
       /\ \A t \in Researchers : researcher'[t] = Idle
       /\ \A k \in DOMAIN rows' : k[1] = "acquisition"
  BY <1>1 DEF LeadBudgetFits
<1> QED
  BY <1>3, <1>5, <1>6, <1>7 DEF LeadBudgetFits, Slack, Dearest, Affordables, Costly

LEMMA LeadBudgetStays ==
  ASSUME ResearchInv, ResearchInv', LeadBudgetFits, ResearchNext
  PROVE  LeadBudgetFits'
<1>1. ASSUME NEW r \in Researchers, NEW f \in Fields, NEW allowance \in BOOLEAN,
             ExecuteResearch(r, f, allowance)
      PROVE  LeadBudgetFits'
  BY <1>1, ExecuteFits
<1>2. ASSUME NEW r \in Researchers, NEW found, NEW charge, FetchResearch(r, found, charge)
      PROVE  LeadBudgetFits'
  <2>1. PICK old : old = researcher[r]
    OBVIOUS
  <2>2. PICK q : q = [old EXCEPT !.at = "record", !.charge = charge, !.found = found]
    OBVIOUS
  <2>3. ResearcherBecomes(r, q) /\ UNCHANGED rows /\ old.at = "fetch" /\ old \in ResearcherState
    BY <1>2, <2>1, <2>2 DEF FetchResearch, ResearchInv, ResearchTypes
  <2>4. q.source = old.source /\ Costly(old) /\ old # Idle
    BY <2>2, <2>3 DEF Costly, Idle, ResearcherState
  <2> QED
    BY <2>1, <2>3, <2>4, MovesFit
<1>3. ASSUME NEW r \in Researchers, RecordResearch(r) PROVE LeadBudgetFits'
  BY <1>3, RecordFits
<1>4. ASSUME NEW r \in Researchers, PutResearch(r) \/ ResearcherDies(r) PROVE LeadBudgetFits'
  <2>1. ResearcherBecomes(r, Idle) /\ UNCHANGED rows
    BY <1>4 DEF PutResearch, ResearcherDies
  <2>2. ~Costly(Idle)
    BY DEF Costly, Idle
  <2> QED
    BY <2>1, <2>2, MovesFit
<1>5. ASSUME UNCHANGED <<rows, researcher>> PROVE LeadBudgetFits'
  BY <1>5 DEF LeadBudgetFits, Spent, AcquisitionSpent, Pending, PendingCost, Costly,
              Slack, Dearest, Affordables
<1>6. NewProfile \/ ChangeMode \/ (\E f \in Fields : ResearchExpires(f)) => UNCHANGED <<rows, researcher>>
  BY DEF NewProfile, ChangeMode, ResearchExpires
<1> QED
  BY <1>1, <1>2, <1>3, <1>4, <1>5, <1>6 DEF ResearchNext

LEMMA LeadBudgetHolds == ResearchInv /\ LeadBudgetFits => LeadBudgetIsSoft
<1> SUFFICES ASSUME ResearchInv, LeadBudgetFits PROVE LeadBudgetIsSoft
  OBVIOUS
<1>1. PICK p \in Providers : Price[p] = Dearest /\ Dearest <= LeadBudget
  BY DearestIsAffordable
<1>2. Spent \in Int /\ AcquisitionSpent \in Int /\ Pending \in Int /\ LeadBudget \in Nat /\ Slack \in Nat
  BY RowsAreFinite, ResearchNumbers, SlackIsNatural
<1>3. Pending >= 0
  <2>1. PICK f : f = [r \in Researchers |-> PendingCost(researcher[r])]
    OBVIOUS
  <2>2. PICK z : z = [r \in Researchers |-> 0]
    OBVIOUS
  <2>3. \A r \in Researchers : f[r] \in Int /\ z[r] \in Int /\ z[r] <= f[r] /\ z[r] = 0
    BY <2>1, <2>2, PendingIsTyped
  <2>4. SumFunctionOnSet(z, Researchers) <= SumFunctionOnSet(f, Researchers)
    BY <2>3, ResearchNumbers, SumMonotone
  <2>5. SumFunctionOnSet(z, Researchers) = 0
    BY <2>3, ResearchNumbers, SumOfZeros
  <2>6. Pending = SumFunctionOnSet(f, Researchers)
    BY <2>1 DEF Pending, SumFunction
  <2> QED
    BY <1>2, <2>4, <2>5, <2>6
<1>4. (Cardinality(Researchers) - 1) * Price[p] = Slack
  BY <1>1 DEF Slack
<1>5. CASE AcquisitionSpent <= LeadBudget
  <2>1. Spent <= LeadBudget + Slack
    BY <1>2, <1>3, <1>5 DEF LeadBudgetFits
  <2>2. ~(LeadBudget < AcquisitionSpent)
    BY <1>2, <1>5
  <2> QED
    BY <1>1, <1>4, <2>1, <2>2 DEF LeadBudgetIsSoft, Providers
<1>6. CASE LeadBudget < AcquisitionSpent
  <2>1. Spent = AcquisitionSpent
    BY <1>6, OnlyAcquisitionSpent DEF LeadBudgetFits
  <2>2. Spent <= AcquisitionSpent + Slack
    BY <1>2, <2>1
  <2> QED
    BY <1>1, <1>4, <2>1, <2>2 DEF LeadBudgetIsSoft, Providers
<1> QED
  BY <1>2, <1>5, <1>6

(* What research adds to the cost of a lead ends within the cap of the     *)
(* lead but for one affordable call of every other request; a lead on      *)
(* which acquisition spent more gets no research at all.                   *)
THEOREM LeadBudgetIsAlwaysSoft ==
  IntelligenceSpec => [](service = "research" => LeadBudgetIsSoft)
<1>1. IntelligenceInit => LeadBudgetFits
  BY LeadBudgetBegins DEF IntelligenceInit
<1>2. ResearchInv /\ ResearchInv' /\ LeadBudgetFits /\ [IntelligenceNext]_intelligenceVars
        => LeadBudgetFits'
  <2> SUFFICES ASSUME ResearchInv, ResearchInv', LeadBudgetFits, [IntelligenceNext]_intelligenceVars
               PROVE  LeadBudgetFits'
    OBVIOUS
  <2>1. CASE UNCHANGED researchVars
    BY <2>1 DEF researchVars, LeadBudgetFits, Spent, AcquisitionSpent, Pending, PendingCost, Costly,
                Slack, Dearest, Affordables
  <2> QED
    BY <2>1, OneServiceMoves, LeadBudgetStays
<1>3. ResearchInv /\ LeadBudgetFits => (service = "research" => LeadBudgetIsSoft)
  BY LeadBudgetHolds
<1> QED
  BY <1>1, <1>2, <1>3, ResearchInvariant, PTL DEF IntelligenceSpec

-----------------------------------------------------------------------------
(* Simulated acquisition and its benchmark.                                 *)
LEMMA AcquisitionMoves ==
  [IntelligenceNext]_intelligenceVars =>
    /\ UNCHANGED simVars \/ (service = "scoring" /\ SimNext)
    /\ UNCHANGED policyVars \/ (service = "policies" /\ PoliciesNext)
<1> SUFFICES ASSUME [IntelligenceNext]_intelligenceVars
             PROVE  /\ UNCHANGED simVars \/ (service = "scoring" /\ SimNext)
                    /\ UNCHANGED policyVars \/ (service = "policies" /\ PoliciesNext)
  OBVIOUS
<1>1. CASE ScoringStep
  BY <1>1 DEF ScoringStep
<1>2. CASE PoliciesStep
  BY <1>2 DEF PoliciesStep
<1>3. CASE \/ LlmStep \/ DiscoveryStep \/ ResearchStep \/ TargetingStep \/ AdaptersStep
           \/ SurfacesStep \/ ColumnsStep
  BY <1>3 DEF LlmStep, DiscoveryStep, ResearchStep, TargetingStep, AdaptersStep, SurfacesStep,
              ColumnsStep
<1>4. CASE UNCHANGED intelligenceVars
  BY <1>4 DEF intelligenceVars
<1> QED
  BY <1>1, <1>2, <1>3, <1>4 DEF IntelligenceNext

SimInv == SimTypes /\ CallsAreCovered /\ ReceiptIsReplayable

LEMMA SimRests ==
  ASSUME SimInv, UNCHANGED simVars PROVE SimInv'
<1>1. UNCHANGED <<world, activeProfile, shared, callRow, bought, run, decided>>
  BY DEF simVars
<1>2. SimTypes'
  BY <1>1, WalksRest DEF SimInv, SimTypes
<1>3. ReceiptIsReplayable'
  BY <1>1, ReceiptsRest DEF SimInv
<1>4. CallsAreCovered'
  BY <1>1, CoveredIfFewer DEF SimInv, RowsOf, Unrecorded
<1> QED
  BY <1>2, <1>3, <1>4 DEF SimInv

PoliciesInv ==
  /\ PolicyTypes /\ CacheIsCalls /\ CapHolds
  /\ PoliciesStopRightly /\ SampleIsSorted /\ TauIsLowest

LEMMA PoliciesRest ==
  ASSUME PoliciesInv, UNCHANGED policyVars PROVE PoliciesInv'
<1>1. /\ bench' = bench /\ seen' = seen /\ tau' = tau /\ strategy' = strategy /\ corpus' = corpus
      /\ place' = place /\ fetched' = fetched /\ expended' = expended /\ kept' = kept
      /\ invoiced' = invoiced /\ outcomes' = outcomes /\ tried' = tried
  BY DEF policyVars
<1>2. PolicyTypes'
  <2>1. StrategyIsKnown => StrategyIsKnown'
    BY <1>1 DEF StrategyIsKnown, Weighing
  <2>2. Rungs' = Rungs
    BY <1>1 DEF Rungs, Ladder
  <2> QED
    BY <1>1, <2>1, <2>2 DEF PolicyTypes, PoliciesInv
<1>3. CacheIsCalls' /\ CapHolds'
  BY <1>1 DEF CacheIsCalls, CapHolds, PoliciesInv
<1>4. PoliciesStopRightly'
  BY <1>1 DEF PoliciesStopRightly, PoliciesInv
<1>5. SampleIsSorted' /\ TauIsLowest'
  BY <1>1 DEF SampleIsSorted, MostConfidentFirst, TauIsLowest, PoliciesInv
<1> QED
  BY <1>2, <1>3, <1>4, <1>5 DEF PoliciesInv

(* Walks stop only past open decisions and leave their rows, receipts say  *)
(* what one uninterrupted walk decides, and rows and calls under way are   *)
(* covered by calls that were made, through deaths, expiries and changes   *)
(* of profile.                                                             *)
THEOREM SimulatedAcquisitionInvariant == IntelligenceSpec => []SimInv
<1>1. IntelligenceInit => SimInv
  BY SimBegins, CallsBegin DEF IntelligenceInit, SimInv
<1>2. SimInv /\ [IntelligenceNext]_intelligenceVars => SimInv'
  BY AcquisitionMoves, SimRests, SimTypesStay, CallsStayCovered, ReceiptsStay DEF SimInv
<1> QED
  BY <1>1, <1>2, PTL DEF IntelligenceSpec

(* The benchmark: leads in order, purchases within the rungs or the        *)
(* candidates of a policy, a cache that is exactly what was called, a      *)
(* threshold from a sorted sample.                                         *)
THEOREM BenchmarkInvariant == IntelligenceSpec => []PoliciesInv
<1>1. IntelligenceInit => PoliciesInv
  BY PoliciesBegin, CacheBegins, CapBegins, StopsBegin, SampleBegins DEF IntelligenceInit, PoliciesInv
<1>2. PoliciesInv /\ [IntelligenceNext]_intelligenceVars => PoliciesInv'
  BY AcquisitionMoves, PoliciesRest, PolicyTypesStay, CacheStays, CapStays, StopsStay, SampleStays
     DEF PoliciesInv
<1> QED
  BY <1>1, <1>2, PTL DEF IntelligenceSpec

(* Sums of money: the ledger of the model owes nothing but what a call is  *)
(* still writing, research ends within the cap of a lead but for calls     *)
(* under way, and a policy of the benchmark within it to the cent.         *)
THEOREM SpendingAlwaysAddsUp == IntelligenceSpec => []SpendingAddsUp
<1>1. PoliciesInv => CapHolds
  BY DEF PoliciesInv
<1>2. /\ service = "llm" => LedgerIsComplete
      /\ service = "research" => LeadBudgetIsSoft
      /\ PoliciesInv
      => SpendingAddsUp
  BY <1>1 DEF SpendingAddsUp
<1> QED
  BY <1>2, LedgerIsAlwaysComplete, LeadBudgetIsAlwaysSoft, BenchmarkInvariant, PTL

(* Acquisition stops for a reason that holds: a settled decision is one    *)
(* that no missing answer can change and an open one can change, a gate    *)
(* abandons only what nothing could route, a budget ends what nothing      *)
(* affordable is left for, a threshold is the lowest its sample defends,   *)
(* and the tuned baseline is the best of its grid.                         *)
THEOREM StopsAreAlwaysJustified == IntelligenceSpec => []StopsAreJustified
<1>1. SimInv => SettledIsExact
  BY SettledStaysExact DEF SimInv
<1>2. PoliciesInv => PoliciesStopRightly /\ TauIsLowest /\ TunedIsBest
  BY TunedStaysBest DEF PoliciesInv
<1>3. SimInv /\ PoliciesInv => StopsAreJustified
  BY <1>1, <1>2 DEF StopsAreJustified
<1> QED
  BY <1>3, SimulatedAcquisitionInvariant, BenchmarkInvariant, PTL

(* However evidence is shared, expires and is bought again, a receipt is   *)
(* what its version makes of what it stands on, and the ledger shows no    *)
(* call that was not made.                                                 *)
LEMMA ReceiptsAreReplayable ==
  SimInv => (service = "scoring" => ReceiptIsReplayable /\ LedgerNeverInvents)
BY CoveredMeansNoInventions DEF SimInv

(* No service buys twice what it has: a buyer on file, a fresh answer, an  *)
(* answer shared by leads of a company, a source in a policy's cache.      *)
THEOREM NothingIsBoughtTwice == IntelligenceSpec => NothingBoughtTwice
<1>1. SimInv /\ [IntelligenceNext]_intelligenceVars
        => [service = "scoring" => SharedAnswerIsFree]_intelligenceVars
  <2>1. UNCHANGED simVars => SharedAnswerIsFree
    BY DEF simVars, SharedAnswerIsFree
  <2> QED
    BY <2>1, AcquisitionMoves, SharedAnswersStayFree DEF SimInv
<1>2. PoliciesInv /\ [IntelligenceNext]_intelligenceVars
        => [service = "policies" => BuysOnlyNews]_intelligenceVars
  <2> SUFFICES ASSUME PoliciesInv, [IntelligenceNext]_intelligenceVars PROVE BuysOnlyNews
    OBVIOUS
  <2>1. CASE UNCHANGED policyVars
    <3>1. fetched' = fetched /\ CacheIsCalls'
      BY <2>1, PoliciesRest DEF policyVars, PoliciesInv
    <3>2. CacheIsCalls' => PaidOnce'
      BY CacheMeansPaidOnce, PTL
    <3> QED
      BY <3>1, <3>2 DEF BuysOnlyNews
  <2> QED
    BY <2>1, AcquisitionMoves, PoliciesBuyNews DEF PoliciesInv
<1>3. IntelligenceSpec => [][service = "scoring" => SharedAnswerIsFree]_intelligenceVars
  BY <1>1, SimulatedAcquisitionInvariant, PTL DEF IntelligenceSpec
<1>4. IntelligenceSpec => [][service = "policies" => BuysOnlyNews]_intelligenceVars
  BY <1>2, BenchmarkInvariant, PTL DEF IntelligenceSpec
<1> QED
  BY <1>3, <1>4, KnownBuyersAreFree, AnsweredResearchIsFree, PTL DEF NothingBoughtTwice

-----------------------------------------------------------------------------
(* What a customer asks for and what vendors answer.                       *)
LEMMA CustomersMove ==
  [IntelligenceNext]_intelligenceVars =>
    /\ TargetingNext \/ UNCHANGED targetingVars
    /\ AdaptersNext \/ UNCHANGED adapterVars
    /\ CsvNext \/ UNCHANGED csv
    /\ SurfacesNext \/ UNCHANGED surfaceVars
<1> SUFFICES ASSUME [IntelligenceNext]_intelligenceVars
             PROVE  /\ TargetingNext \/ UNCHANGED targetingVars
                    /\ AdaptersNext \/ UNCHANGED adapterVars
                    /\ CsvNext \/ UNCHANGED csv
                    /\ SurfacesNext \/ UNCHANGED surfaceVars
  OBVIOUS
<1>1. CASE TargetingStep
  BY <1>1 DEF TargetingStep
<1>2. CASE AdaptersStep
  BY <1>2 DEF AdaptersStep
<1>3. CASE ColumnsStep
  BY <1>3 DEF ColumnsStep
<1>4. CASE SurfacesStep
  BY <1>4 DEF SurfacesStep
<1>5. CASE LlmStep \/ DiscoveryStep \/ ResearchStep \/ ScoringStep \/ PoliciesStep
  BY <1>5 DEF LlmStep, DiscoveryStep, ResearchStep, ScoringStep, PoliciesStep
<1>6. CASE UNCHANGED intelligenceVars
  BY <1>6 DEF intelligenceVars
<1> QED
  BY <1>1, <1>2, <1>3, <1>4, <1>5, <1>6 DEF IntelligenceNext

(* Whatever ceilings, bands, answers and outcomes a customer gives, and in *)
(* whatever order proposals are drafted, confirmed and refused, the        *)
(* profile a decision uses is one the validator grants.                    *)
THEOREM TargetingIsAlwaysSound == IntelligenceSpec => []TargetingIsSound
<1>1. IntelligenceInit => TargetingInv
  BY TargetingBegins DEF IntelligenceInit
<1>2. TargetingInv /\ [IntelligenceNext]_intelligenceVars => TargetingInv'
  BY CustomersMove, TargetingStays
<1>3. TargetingInv => TargetingIsSound
  BY ProfileStaysSound DEF TargetingIsSound
<1> QED
  BY <1>1, <1>2, <1>3, PTL DEF IntelligenceSpec

(* Every answer of a vendor is paid iff delivered, keeps what it says in   *)
(* our vocabulary, and counts only if it is about the person asked for;    *)
(* a lookup is skipped only if no answer could change the decision; calls  *)
(* keep their distance; and a file is read as its mapping was confirmed.   *)
THEOREM AnswersAreAlwaysTrusted == IntelligenceSpec => []AnswersAreTrusted
<1>1. IntelligenceInit => AdaptersInv /\ CsvInv
  BY AdaptersBegin, CsvBegins DEF IntelligenceInit
<1>2. AdaptersInv /\ CsvInv /\ [IntelligenceNext]_intelligenceVars => AdaptersInv' /\ CsvInv'
  BY CustomersMove, AdaptersStay, CsvStays
<1>3. AdaptersInv /\ CsvInv => AnswersAreTrusted
  BY UploadStaysAsConfirmed, PaymentIsRight, WhatIsSaidIsKept, EvidenceIsRight, TradesAreRead,
     SkipsAreRight, CallsKeepTheirDistance DEF AnswersAreTrusted
<1> QED
  BY <1>1, <1>2, <1>3, PTL DEF IntelligenceSpec

(* Whatever is decided, answered and activated while a customer looks, what *)
(* is on file of a lead and what an answer says is true of one state.      *)
THEOREM SurfacesInvariant == IntelligenceSpec => []SurfacesInv
<1>1. IntelligenceInit => SurfacesInv
  BY SurfacesBegin DEF IntelligenceInit
<1>2. SurfacesInv /\ [IntelligenceNext]_intelligenceVars => SurfacesInv'
  BY CustomersMove, SurfacesStay
<1> QED
  BY <1>1, <1>2, PTL DEF IntelligenceSpec

(* A receipt is what its version makes of its evidence, the ledger shows   *)
(* no call that was not made, and what pages, batches, lists and           *)
(* comparisons tell of a lead is what its receipt says.                    *)
THEOREM DecisionsAreAlwaysReplayable == IntelligenceSpec => []DecisionsAreReplayable
<1>1. SimInv /\ SurfacesInv => DecisionsAreReplayable
  BY ReceiptsAreReplayable, ToldStaysTrue DEF DecisionsAreReplayable
<1> QED
  BY <1>1, SimulatedAcquisitionInvariant, SurfacesInvariant, PTL

=============================================================================
