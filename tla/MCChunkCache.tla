---------------------------- MODULE MCChunkCache ----------------------------
(* Small instances of ChunkCache for TLC. *)
EXTENDS ChunkCache, TLC

(* Sound for the invariants, not for Served: a run of the invariants alone *)
(* on a larger instance may use it.                                        *)
ChunkSymmetry == Permutations(Tasks) \cup Permutations(Paths) \cup Permutations(Callers)
=============================================================================
