--------------------------- MODULE MCLeadPipeline ---------------------------
(* TLC instances of LeadPipeline.  Workers are interchangeable, and so are *)
(* reviewers.                                                              *)
EXTENDS LeadPipeline, TLC

Symmetry == Permutations(Workers) \cup Permutations(Reviewers)
=============================================================================
