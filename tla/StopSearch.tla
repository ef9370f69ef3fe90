----------------------------- MODULE StopSearch -----------------------------
(***************************************************************************)
(* searchStopConditionClosest of hnswlib/hnswalg.h: the search of the base *)
(* layer that a stop condition of hnswlib/stop_condition.h steers, one     *)
(* popped candidate, neighbour or removed point at a time, and the filter  *)
(* the condition passes over the result.                                   *)
(*                                                                         *)
(* A condition sees points being added to the result and removed from it   *)
(* and keeps its own account of them; the search's heap and that account   *)
(* have to agree.  The graph is arbitrary, the order of a link list is     *)
(* left open, no two distances are equal, and the descent through the      *)
(* upper levels is only the element it ends at.  An element stands for its *)
(* internal id, which is what the search returns, though its result is     *)
(* declared to hold labels: unlike searchKnn it does not convert them.     *)
(***************************************************************************)
EXTENDS Integers, BagsExt, Bags, FiniteSets

CONSTANTS
  Element,    \* 1 .. n: the elements of the index, closest to the query first
  Graphs,     \* their link lists
  Dists,      \* their distances to the query
  Doc,        \* document ids, ordered
  Owners,     \* which document each element belongs to
  Conditions, \* the stop conditions searched with
  MaxRefused  \* bound: elements marked deleted or refused by the filter

Far == 1000  \* numeric_limits<dist_t>::max()

StopAssumption ==
  /\ Element \subseteq Nat \ {0} /\ IsFiniteSet(Element)
  /\ Doc \subseteq Nat /\ IsFiniteSet(Doc)
  /\ Graphs \subseteq [Element -> SUBSET Element]
  /\ Owners \subseteq [Element -> Doc]
  /\ Dists \subseteq Nat \ {0} /\ \A d \in Dists : d < Far
  /\ Conditions \subseteq [kind : {"docs"}, least : Nat, most : Nat]
                     \cup [kind : {"epsilon"}, epsilon : Nat, least : Nat, most : Nat]
  /\ \A c \in Conditions : c.least <= c.most
  /\ MaxRefused \in Nat

VARIABLES
  links, dist, doc, refused, ep,  \* the index, and where the descent ended
  condition,  \* the stop condition
  pc,         \* begin, pop, look, trim, filter, done
  top, cand,  \* top_candidates and candidate_set
  lower,      \* lowerBound
  visited,    \* the visited list
  row,        \* neighbours still to look at
  curr,       \* curr_num_docs_ or curr_num_items_
  counter,    \* doc_counter_
  results     \* search_results_

index == <<links, dist, doc, refused, ep, condition>>
account == <<curr, counter, results>>
vars == <<index, pc, top, cand, lower, visited, row, account>>

Init ==
  /\ links \in Graphs
  /\ dist \in [Element -> Dists]
  /\ \A e, f \in Element : e < f => dist[e] < dist[f]
  /\ doc \in Owners
  /\ refused \in {R \in SUBSET Element : Cardinality(R) <= MaxRefused}
  /\ ep \in Element /\ condition \in Conditions
  /\ pc = "begin" /\ top = {} /\ cand = {} /\ lower = Far /\ visited = {} /\ row = {}
  /\ curr = 0 /\ counter = [d \in Doc |-> 0] /\ results = EmptyBag

CandDist(e) == IF e = ep /\ ep \in refused THEN Far ELSE dist[e]
Nearest(S)  == {e \in S : \A f \in S : CandDist(e) <= CandDist(f)}
Farthest(S) == {e \in S : \A f \in S : dist[f] <= dist[e]}

-----------------------------------------------------------------------------
(* The stop conditions.                                                    *)

Docs == condition.kind = "docs"
Before(p, q) == p[1] < q[1] \/ (p[1] = q[1] /\ p[2] <= q[2])
TopResult == CHOOSE p \in BagToSet(results) : \A q \in BagToSet(results) : Before(q, p)

add_point_to_result(e) ==
  IF Docs
  THEN /\ curr' = IF counter[doc[e]] = 0 THEN curr + 1 ELSE curr
       /\ counter' = [counter EXCEPT ![doc[e]] = @ + 1]
       /\ results' = BagAdd(results, <<dist[e], doc[e]>>)
  ELSE curr' = curr + 1 /\ UNCHANGED <<counter, results>>

(* Document d loses a point, and the account its farthest entry.           *)
Forget(d) ==
  /\ counter' = [counter EXCEPT ![d] = @ - 1]
  /\ curr' = IF counter[d] = 1 THEN curr - 1 ELSE curr
  /\ results' = BagRemove(results, TopResult)

(* Bug: the count of documents goes down with every point.                 *)
remove_point_from_resultEach(e) ==
  IF Docs THEN /\ curr' = curr - 1 /\ counter' = [counter EXCEPT ![doc[e]] = @ - 1]
               /\ results' = BagRemove(results, TopResult)
  ELSE curr' = curr - 1 /\ UNCHANGED <<counter, results>>

remove_point_from_result(e) ==
  IF Docs THEN Forget(doc[e])
  ELSE curr' = curr - 1 /\ UNCHANGED <<counter, results>>

(* Bug: the epsilon region is left before enough candidates were seen.     *)
should_stop_searchEarly(d) ==
  \/ d > lower /\ curr = condition.most
  \/ ~Docs /\ d > condition.epsilon

should_stop_search(d) ==
  \/ d > lower /\ curr = condition.most
  \/ ~Docs /\ d > condition.epsilon /\ curr >= condition.least

should_consider_candidate(d) == curr < condition.most \/ lower > d

should_remove_extra(c) == c > condition.most

-----------------------------------------------------------------------------
(* searchBaseLayerST<false>.                                               *)

(* The entry point found by the descent.                                   *)
Begin ==
  /\ pc = "begin" /\ pc' = "pop"
  /\ cand' = {ep} /\ visited' = {ep}
  /\ IF ep \in refused
     THEN lower' = Far /\ UNCHANGED <<top, account>>
     ELSE top' = {ep} /\ lower' = dist[ep] /\ add_point_to_result(ep)
  /\ UNCHANGED <<index, row>>

(* The closest candidate is popped, or ends the search.                    *)
Pop ==
  /\ pc = "pop" /\ cand # {}
  /\ \E e \in Nearest(cand) :
       IF should_stop_search(CandDist(e))
       THEN pc' = "filter" /\ UNCHANGED <<cand, row>>
       ELSE pc' = "look" /\ cand' = cand \ {e} /\ row' = links[e]
  /\ UNCHANGED <<index, top, lower, visited, account>>

(* A neighbour: seen, not worth a thought, or a candidate, and a result    *)
(* unless it is refused.                                                   *)
Look ==
  /\ pc = "look"
  /\ \E e \in row :
       /\ row' = row \ {e} /\ visited' = visited \cup {e}
       /\ IF e \notin visited /\ should_consider_candidate(dist[e])
          THEN /\ cand' = cand \cup {e} /\ pc' = "trim"
               /\ IF e \in refused THEN UNCHANGED <<top, account>>
                  ELSE top' = top \cup {e} /\ add_point_to_result(e)
          ELSE UNCHANGED <<cand, top, account, pc>>
  /\ UNCHANGED <<index, lower>>

(* The farthest point leaves the result while there are too many.          *)
Trim ==
  /\ pc = "trim"
  /\ IF should_remove_extra(curr)
     THEN /\ \E e \in Farthest(top) : top' = top \ {e} /\ remove_point_from_result(e)
          /\ UNCHANGED <<pc, lower>>
     ELSE /\ lower' = IF top = {} THEN lower ELSE dist[CHOOSE e \in Farthest(top) : TRUE]
          /\ pc' = "look" /\ UNCHANGED <<top, account>>
  /\ UNCHANGED <<index, cand, visited, row>>

(* The list is through, or no candidate is left.                           *)
NextCandidate ==
  /\ \/ pc = "look" /\ row = {} /\ pc' = "pop"
     \/ pc = "pop" /\ cand = {} /\ pc' = "filter"
  /\ UNCHANGED <<index, top, cand, lower, visited, row, account>>

-----------------------------------------------------------------------------
(* filter_results, over the result in the order of its distances.          *)

TooMany == IF Docs THEN curr > condition.least
           ELSE \E e \in top : dist[e] > condition.epsilon \/ Cardinality(top) > condition.most

(* The farthest result goes; the documents forget the farthest of theirs.  *)
filter_results ==
  /\ pc = "filter" /\ TooMany /\ top # {} /\ (Docs => results # EmptyBag)
  /\ \E e \in Farthest(top) : top' = top \ {e}
  /\ IF Docs THEN Forget(TopResult[2]) ELSE UNCHANGED account
  /\ UNCHANGED <<index, pc, cand, lower, visited, row>>

(* The internal ids in top are returned.                                   *)
Return ==
  /\ pc = "filter" /\ ~TooMany /\ pc' = "done"
  /\ UNCHANGED <<index, top, cand, lower, visited, row, account>>

Done == pc = "done" /\ UNCHANGED vars

Next == Begin \/ Pop \/ Look \/ Trim \/ NextCandidate \/ filter_results \/ Return \/ Done
Spec == Init /\ [][Next]_vars

-----------------------------------------------------------------------------
(* Properties.                                                             *)

(* The search's state is in range, its heap holds visited elements that    *)
(* are not refused, and between two neighbours no more than asked for, but *)
(* for the entry point, which is taken even if nothing was asked for.      *)
TypeOK ==
  /\ pc \in {"begin", "pop", "look", "trim", "filter", "done"}
  /\ top \subseteq visited \ refused /\ cand \subseteq visited /\ visited \subseteq Element
  /\ curr \in 0 .. (IF condition.most = 0 THEN 1 ELSE condition.most)
                     + (IF pc = "trim" THEN 1 ELSE 0)
  /\ lower \in Dists \cup {Far}

PointsOf(d) == {e \in top : doc[e] = d}
Found(S) == {doc[e] : e \in S}

(* What a condition believes of the result is what the search's heap       *)
(* holds, after every point added, removed and filtered: the points of     *)
(* each document, the number of documents, and the entries sorted by       *)
(* distance.  The two are kept by different code and never compared.       *)
AccountExact ==
  IF Docs
  THEN /\ \A d \in Doc : counter[d] = Cardinality(PointsOf(d))
       /\ curr = Cardinality(Found(top))
       /\ results = SetToBag({<<dist[e], doc[e]>> : e \in top})
  ELSE pc \notin {"filter", "done"} => curr = Cardinality(top)

Reached == LET step[n \in 0 .. Cardinality(Element)] ==
                 IF n = 0 THEN {ep} ELSE step[n - 1] \cup UNION {links[e] : e \in step[n - 1]}
           IN  step[Cardinality(Element)]
Live == Reached \ refused
OneHop == Reached = {ep} \cup links[ep]
UpTo(e) == {f \in Live : dist[f] <= dist[e]}

(* A search for documents that sees all it can reach (a collection larger  *)
(* than the documents there are, or all elements linked to the entry point *)
(* and nothing stopped it before) returns the closest documents: as many   *)
(* as asked for, or all, and none that is farther than one it leaves out.  *)
BestDocs ==
  pc = "done" /\ Docs /\ (condition.most > Cardinality(Doc) \/ OneHop) =>
    \A d \in Found(Live) :
      d \in Found(top) <=>
        \E e \in Live : doc[e] = d /\ Cardinality(Found(UpTo(e))) <= condition.least

(* A search of the epsilon region that is told to see at least as many     *)
(* candidates as there are elements, and that sees all of them, returns    *)
(* the closest points of the region, as many as it may.                    *)
RegionExact ==
  pc = "done" /\ ~Docs /\ condition.least >= Cardinality(Element) =>
    top = {e \in Live : dist[e] <= condition.epsilon}

(* Whatever the bounds are, nothing outside the region is returned, no     *)
(* more than allowed, and when the entry point is within the region and    *)
(* linked to every element the closest ones are all there.                 *)
RegionKept ==
  pc = "done" /\ ~Docs =>
    /\ \A e \in top : dist[e] <= condition.epsilon
    /\ Cardinality(top) <= condition.most
    /\ OneHop /\ ep \notin refused /\ dist[ep] <= condition.epsilon =>
         top = {e \in Live : dist[e] <= condition.epsilon /\ Cardinality(UpTo(e)) <= condition.most}

(* The elements whose internal ids a search with a stop condition returns  *)
(* are those it was asked for.                                             *)
SearchExact == BestDocs /\ RegionExact /\ RegionKept

=============================================================================
