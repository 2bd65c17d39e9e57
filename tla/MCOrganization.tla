--------------------------- MODULE MCOrganization ---------------------------
(* Two calls at a time; three people and invitations, two credentials of    *)
(* which one is valid, two versions, three suggestions, two references of two *)
(* companies, one of which is known by its name only.                       *)
EXTENDS Organization, TLC
MCCompanyOf == "ann" :> "acme.com" @@ "bob" :> "globex"
\* As documented; only the pooled connection of production, in a test variable
\* too; and production under a second name.
Env(td, tp, d, p) == [testDirect |-> td, testPooled |-> tp, direct |-> d, pooled |-> p]
MCEnvironments ==
  LET scratch == Connection("scratch", "local")
      live == Connection("live", "db")
      pooler == Connection("live", "pooler")
  IN  { Env(scratch, Unset, Unset, pooler), Env(Unset, pooler, live, pooler),
        Env(Unset, Connection("live", "alias"), Unset, pooler) }
Symmetry == Permutations(People) \cup Permutations(MemberCalls)
=============================================================================
