-------------------------- MODULE MCThreadStorage --------------------------
(* ThreadStorage on small sets of threads and stacks, all interchangeable. *)
EXTENDS ThreadStorage, TLC

Interchangeable == Permutations(Tasks) \cup Permutations(Bases)

\* The reply says what the last step was; no step reads it.
Owned == <<heap, threads, pool>>

============================================================================
