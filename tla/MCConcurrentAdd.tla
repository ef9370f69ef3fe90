--------------------------- MODULE MCConcurrentAdd ---------------------------
(***************************************************************************)
(* Model-checking instances of ConcurrentAdd.  Threads are interchangeable *)
(* and so are vectors: no action and no property tells two of them apart.  *)
(***************************************************************************)
EXTENDS ConcurrentAdd, TLC

ThreadsAndVectors == Permutations(Thread) \union Permutations(Vector)

=============================================================================
