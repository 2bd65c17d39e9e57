---------------------------- MODULE LeadLifecycle ---------------------------
(***************************************************************************)
(* What the pipeline promises about one lead, without queue, leases,       *)
(* versions or workers: it arrives, and is then settled once, directly or  *)
(* by one human answer, or given up on.  Nothing leaves a final phase.     *)
(***************************************************************************)
CONSTANTS
  Leads,
  Verdicts       \* business outcomes

VARIABLE life    \* the phase of every lead, and its verdict once settled

Unsettled(phase) == [phase |-> phase, verdict |-> "none"]
Settled(verdict) == [phase |-> "settled", verdict |-> verdict]

Init == life = [l \in Leads |-> Unsettled("unknown")]

Move(l, from, to) ==
  /\ life[l].phase = from
  /\ life' = [life EXCEPT ![l] = to]

Arrive(l) == Move(l, "unknown", Unsettled("open"))
Escalate(l) == Move(l, "open", Unsettled("review"))
Evaluate(l) == Move(l, "open", Unsettled("shadow"))
GiveUp(l) == Move(l, "open", Unsettled("failed"))
Decide(l, v) == Move(l, "open", Settled(v))
Answer(l, v) == Move(l, "review", Settled(v))

Next ==
  \E l \in Leads :
    \/ Arrive(l)
    \/ Escalate(l)
    \/ Evaluate(l)
    \/ GiveUp(l)
    \/ \E v \in Verdicts : Decide(l, v) \/ Answer(l, v)

Spec == Init /\ [][Next]_life
=============================================================================
