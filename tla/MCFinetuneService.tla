------------------------- MODULE MCFinetuneService -------------------------
(* Small instances of FinetuneService for TLC. *)
EXTENDS FinetuneService, TLC

JobSymmetry == Permutations(Jobs) \cup Permutations(Requests)
=============================================================================
