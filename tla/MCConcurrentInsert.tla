------------------------- MODULE MCConcurrentInsert -------------------------
(***************************************************************************)
(* Model-checking instances of ConcurrentInsert.  Threads are              *)
(* interchangeable: no action and no property tells two of them apart.     *)
(***************************************************************************)
EXTENDS ConcurrentInsert

Threads == Permutations(Thread)

=============================================================================
