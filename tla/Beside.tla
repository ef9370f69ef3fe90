------------------------------- MODULE Beside -------------------------------
(***************************************************************************)
(* What is used beside the graph: the pool of visited marks, the searches  *)
(* with a stop condition and the brute force index.                        *)
(*                                                                         *)
(* The three models share nothing.  Each behaviour is one of one model,    *)
(* chosen at the start, while the others stay as they begin.               *)
(***************************************************************************)
EXTENDS VisitedListPool

CONSTANTS
  Node, Graphs, Dists, Doc, Owners, Conditions, MaxRefused,   \* StopSearch
  Label, Vector, Threads, maxelements_, MaxLoads              \* Bruteforce

VARIABLES
  part,                                            \* the model that runs
  links, dist, doc, refused, ep, condition, at,    \* StopSearch
  top, cand, lower, met, row, curr, counter, results,
  data_, cur_element_count, dict, adding, file, loads, stored, slips  \* Bruteforce

Stop == INSTANCE StopSearch WITH Element <- Node, pc <- at, visited <- met
Flat == INSTANCE Bruteforce

ASSUME PartsAssumption == Stop!StopAssumption /\ Flat!BruteforceAssumption

BesideInit == part \in {"pool", "stop", "flat"} /\ Init /\ Stop!Init /\ Flat!Init

stop_ == <<links, dist, doc, refused, ep, condition, at, top, cand, lower, met, row,
           curr, counter, results>>
flat_ == <<data_, cur_element_count, dict, adding, file, loads, stored, slips>>

BesideNext ==
  \/ part = "pool" /\ Next /\ UNCHANGED <<part, stop_, flat_>>
  \/ part = "stop" /\ Stop!Next /\ UNCHANGED <<part, vars, flat_>>
  \/ part = "flat" /\ Flat!Next /\ UNCHANGED <<part, vars, stop_>>

BesideSpec == BesideInit /\ [][BesideNext]_<<part, vars, stop_, flat_>>

(* A stop condition's account is that of the search's own heap.            *)
AccountExact == Stop!TypeOK /\ Stop!AccountExact

(* A search with a stop condition returns the internal ids of what it was  *)
(* asked for.                                                              *)
SearchExact == Stop!SearchExact

(* The brute force index finds what was put in, nearest first.             *)
KnnNearest == Flat!TypeOK /\ Flat!DictExact /\ Flat!KnnNearest

=============================================================================
