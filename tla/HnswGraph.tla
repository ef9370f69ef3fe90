----------------------------- MODULE HnswGraph -----------------------------
(***************************************************************************)
(* The graph of hnswlib/hnswalg.h, one call at a time and with concrete    *)
(* distances: inserting, updating, marking and searching.                  *)
(*                                                                         *)
(* Vectors are points of the plane under the squared Euclidean distance.   *)
(* The indexes are built of points no two of which are equally far from a  *)
(* third: how the heaps of the searches break a tie is left out, the order *)
(* of a link list does not matter then, and a list is a set.  The          *)
(* neighbour heuristic orders its candidates itself, ties included, and is *)
(* modelled and checked for any vectors.                                   *)
(***************************************************************************)
EXTENDS Integers, FiniteSets, Sequences

CONSTANTS
  Point,            \* the vectors
  Query,            \* the vectors searched for
  MaxElements,      \* bound: elements inserted
  MaxLevel,         \* bound: the highest level getRandomLevel draws
  M,                \* maxM_
  EfConstruction,   \* ef_construction_
  Ef,               \* ef_
  MaxUpdates,       \* bound: updates of an element
  MaxMarks          \* bound: MarkDeleted and UnmarkDeleted calls

(* fstdistfunc_ of L2Space.                                                *)
Dist(p, q) == (p[1] - q[1]) * (p[1] - q[1]) + (p[2] - q[2]) * (p[2] - q[2])

ASSUME GraphAssumption ==
  /\ Point \subseteq Int \X Int /\ Query \subseteq Int \X Int
  /\ MaxElements \in Nat \ {0} /\ MaxLevel \in Nat
  /\ M \in Nat \ {0} /\ EfConstruction \in Nat /\ EfConstruction >= M
  /\ Ef \in Nat \ {0} /\ MaxUpdates \in Nat /\ MaxMarks \in Nat

(* Of the points an index is built of no two are equally far from a third. *)
ASSUME GeneralPosition ==
  \A q \in Point \union Query : \A a, b \in Point : Dist(a, q) = Dist(b, q) => a = b

VARIABLES
  vec,        \* the vectors of the elements, in the order of their ids
  links,      \* element -> its lists: a set of elements for each of its levels
  deleted,    \* the elements marked deleted
  enterpoint_node_, maxlevel_,
  emptyback,  \* has back() been taken of an empty selectedNeighbors?
  updates, marks  \* updates and marks so far

graph == <<vec, links, deleted, enterpoint_node_, maxlevel_, emptyback>>
vars  == <<graph, updates, marks>>

Elements == 1 .. Len(vec)
None == 0                       \* enterpoint_node_ = -1
LevelOf(e) == Len(links[e]) - 1
ListAt(g, e, l) == g[e][l + 1]  \* get_linklist_at_level in the lists g
Mcurmax(l) == IF l > 0 THEN M ELSE 2 * M

Init ==
  /\ vec = <<>> /\ links = <<>> /\ deleted = {}
  /\ enterpoint_node_ = None /\ maxlevel_ = -1
  /\ emptyback = FALSE /\ updates = 0 /\ marks = 0

(* Of the elements S of the vectors v, the one closest to q; the k closest *)
(* of them.                                                                *)
Closest(v, S, q)  == CHOOSE e \in S : \A f \in S : Dist(v[e], q) <= Dist(v[f], q)
Farther(v, S, e, q) == {f \in S : Dist(v[f], q) < Dist(v[e], q)}
KClosest(v, S, q, k) == {e \in S : Cardinality(Farther(v, S, e, q)) < k}

(* A loop: the step, a function, taken n times from x.  A loop that ends   *)
(* earlier stays where it is, and each is given steps enough to end.       *)
Repeated(step, x, n) ==
  LET after[i \in 0 .. n] == IF i = 0 THEN x ELSE step[after[i - 1]] IN after[n]

-----------------------------------------------------------------------------
(* Searching                                                               *)

(* Greedy descent on one level, each step closer to q than the one before. *)
GreedyAt(v, g, q, e, l) ==
  Repeated([x \in DOMAIN v |-> Closest(v, {x} \union ListAt(g, x, l), q)], e, Len(v))

(* From level `from' down to the level above `to'.                         *)
Descend(v, g, q, e, from, to) ==
  LET down == [s \in (DOMAIN v) \X (0 .. from) |->
                IF s[2] > to THEN <<GreedyAt(v, g, q, s[1], s[2]), s[2] - 1>> ELSE s]
  IN  Repeated(down, <<e, from>>, from)[1]

(* The loop of searchBaseLayer and searchBaseLayerST: the closest          *)
(* candidate is expanded until it is farther than all of a full result.    *)
(* Marked elements lead on but are no results.                             *)
SearchStates(v) ==
  [top : SUBSET DOMAIN v, candidates : SUBSET DOMAIN v, visited : SUBSET DOMAIN v]
SearchLoop(v, g, del, q, l, ef, s) ==
  LET c == Closest(v, s.candidates, q)
      new == ListAt(g, c, l) \ s.visited
  IN  IF \/ s.candidates = {}
         \/ Cardinality(s.top) = ef /\ \A t \in s.top : Dist(v[t], q) < Dist(v[c], q)
      THEN s
      ELSE [top |-> KClosest(v, s.top \union (new \ del), q, ef),
            candidates |-> (s.candidates \ {c}) \union new,
            visited |-> s.visited \union new]

SearchBaseLayer(v, g, del, ep, q, l, ef) ==
  Repeated([s \in SearchStates(v) |-> SearchLoop(v, g, del, q, l, ef, s)],
           [top |-> {ep} \ del, candidates |-> {ep}, visited |-> {ep}], Len(v)).top

(* Bug: the search is no wider than ef_, whatever k is.                    *)
SearchKnnNarrow(q, k) ==
  IF vec = <<>> THEN {}
  ELSE LET start == Descend(vec, links, q, enterpoint_node_, maxlevel_, 0)
       IN  KClosest(vec, SearchBaseLayer(vec, links, deleted, start, q, 0, Ef), q, k)

(* searchKnn: the k closest of what the search with max(ef_, k) finds.     *)
SearchKnn(q, k) ==
  IF vec = <<>> THEN {}
  ELSE LET start == Descend(vec, links, q, enterpoint_node_, maxlevel_, 0)
           ef == IF Ef > k THEN Ef ELSE k
       IN  KClosest(vec, SearchBaseLayer(vec, links, deleted, start, q, 0, ef), q, k)

-----------------------------------------------------------------------------
(* Linking                                                                 *)

(* The order of queue_closest, whose elements are pairs (-distance, id):   *)
(* e comes before f, and the first of S.                                   *)
Ahead(v, q, e, f) == \/ Dist(v[e], q) < Dist(v[f], q)
                     \/ Dist(v[e], q) = Dist(v[f], q) /\ e > f
First(v, S, q) == CHOOSE e \in S : \A f \in S \ {e} : Ahead(v, q, e, f)

(* The loop of getNeighborsByHeuristic2: the first candidate is kept       *)
(* unless an element kept before is closer to it than q is.                *)
DiverseStep(v, q, m, rest, kept) ==
  LET c == First(v, rest, q)
      good == \A k \in kept : Dist(v[k], v[c]) >= Dist(v[c], q)
  IN  IF rest = {} \/ Cardinality(kept) >= m THEN <<rest, kept>>
      ELSE <<rest \ {c}, IF good THEN kept \union {c} ELSE kept>>
Diverse(v, C, q, m) ==
  Repeated([s \in (SUBSET C) \X (SUBSET C) |-> DiverseStep(v, q, m, s[1], s[2])],
           <<C, {}>>, Cardinality(C))[2]

(* Bug: the closest candidates, however close to each other.               *)
HeuristicClosest(v, C, q, m) == IF Cardinality(C) < m THEN C ELSE KClosest(v, C, q, m)

Heuristic(v, C, q, m) == IF Cardinality(C) < m THEN C ELSE Diverse(v, C, q, m)

(* A neighbour n takes c into its list, which is thinned when it is full.  *)
WithBackLink(v, list, n, c, l) ==
  IF c \in list \/ Cardinality(list) < Mcurmax(l)
  THEN list \union {c}
  ELSE Heuristic(v, list \union {c}, v[n], Mcurmax(l))

(* mutuallyConnectNewElement: the lists after c is linked at level l to    *)
(* what the heuristic selects of its candidates C.                         *)
Selected(v, C, c) == Heuristic(v, C, v[c], M)
Connected(v, g, c, C, l) ==
  LET sel == Selected(v, C, c) IN
  [e \in DOMAIN g |->
    IF e = c THEN [g[e] EXCEPT ![l + 1] = sel]
    ELSE IF e \in sel THEN [g[e] EXCEPT ![l + 1] = WithBackLink(v, @, e, c, l)]
    ELSE g[e]]

(* The candidates of c at level l, searched from e: with the entry point   *)
(* if it is marked, and for an update without c itself, which is left as   *)
(* it is when there is no other.                                           *)
CandidatesOf(v, g, del, c, e, l, isUpdate) ==
  LET found == SearchBaseLayer(v, g, del, e, v[c], l, EfConstruction)
      others == IF isUpdate THEN found \ {c} ELSE found
  IN  IF enterpoint_node_ \in del /\ ~(isUpdate /\ others = {})
      THEN KClosest(v, others \union {enterpoint_node_}, v[c], EfConstruction)
      ELSE others

(* The levels of c from l down to 0: the lists that result, and whether    *)
(* back() was taken of an empty vector; nothing is said of what follows.   *)
Lists(v) == Seq(Seq(SUBSET DOMAIN v))
LinkStates(v) == [lists : Lists(v), e : DOMAIN v, l : Int, empty : BOOLEAN]
LinkLevel(v, del, c, isUpdate, s) ==
  LET C == CandidatesOf(v, s.lists, del, c, s.e, s.l, isUpdate) IN
  IF s.l < 0 \/ s.empty THEN s
  ELSE IF C # {} THEN [lists |-> Connected(v, s.lists, c, C, s.l), empty |-> FALSE,
                       e |-> Closest(v, Selected(v, C, c), v[c]), l |-> s.l - 1]
  ELSE IF isUpdate THEN [s EXCEPT !.l = @ - 1]
  ELSE [s EXCEPT !.empty = TRUE]
LinkLevels(v, g, del, c, e, l, isUpdate) ==
  Repeated([s \in LinkStates(v) |-> LinkLevel(v, del, c, isUpdate, s)],
           [lists |-> g, e |-> e, l |-> l, empty |-> FALSE], l + 1)

(* addPoint of a new element of level `level'.                             *)
AddPoint(p, level) ==
  LET c == Len(vec) + 1
      v == Append(vec, p)
      g == Append(links, [l \in 1 .. level + 1 |-> {}])
      start == Descend(v, g, p, enterpoint_node_, maxlevel_, level)
      top == IF level < maxlevel_ THEN level ELSE maxlevel_
      linked == IF vec = <<>> THEN [lists |-> g, empty |-> FALSE]
                ELSE LinkLevels(v, g, deleted, c, start, top, FALSE)
  IN
  /\ Len(vec) < MaxElements
  /\ vec' = v
  /\ links' = linked.lists
  /\ emptyback' = linked.empty
  /\ enterpoint_node_' = IF level > maxlevel_ THEN c ELSE enterpoint_node_
  /\ maxlevel_' = IF level > maxlevel_ THEN level ELSE maxlevel_
  /\ UNCHANGED <<deleted, updates, marks>>

-----------------------------------------------------------------------------
(* Updating                                                                *)

(* Bug: a neighbour is a candidate for its own list.                       *)
RelinkedAtWithSelf(v, g, c, l) ==
  LET hop == ListAt(g, c, l)
      sCand == {c} \union hop \union UNION {ListAt(g, n, l) : n \in hop}
      Relinked(n) == Heuristic(v, KClosest(v, sCand, v[n], EfConstruction),
                               v[n], Mcurmax(l))
  IN  [e \in DOMAIN g |-> IF e \in hop THEN [g[e] EXCEPT ![l + 1] = Relinked(e)] ELSE g[e]]

(* The neighbours of c at level l are linked anew among themselves, their  *)
(* neighbours and c.                                                       *)
RelinkedAt(v, g, c, l) ==
  LET hop == ListAt(g, c, l)
      sCand == {c} \union hop \union UNION {ListAt(g, n, l) : n \in hop}
      Relinked(n) == Heuristic(v, KClosest(v, sCand \ {n}, v[n], EfConstruction),
                               v[n], Mcurmax(l))
  IN  [e \in DOMAIN g |-> IF e \in hop THEN [g[e] EXCEPT ![l + 1] = Relinked(e)] ELSE g[e]]

RelinkLevels(v, g, c) ==
  LET relink == [s \in Lists(v) \X Nat |->
                  IF s[2] < Len(g[c]) THEN <<RelinkedAt(v, s[1], c, s[2]), s[2] + 1>> ELSE s]
  IN  Repeated(relink, <<g, 0>>, Len(g[c]))[1]

(* updatePoint and repairConnectionsForUpdate; a marked element is revived *)
(* first.                                                                  *)
UpdatePoint(c, p) ==
  LET v == [vec EXCEPT ![c] = p]
      del == deleted \ {c}
      g == RelinkLevels(v, links, c)
      start == Descend(v, g, p, enterpoint_node_, maxlevel_, LevelOf(c))
  IN
  /\ updates < MaxUpdates
  /\ vec' = v
  /\ deleted' = del
  /\ links' = IF Len(vec) = 1 THEN links
              ELSE LinkLevels(v, g, del, c, start, LevelOf(c), TRUE).lists
  /\ updates' = updates + 1
  /\ UNCHANGED <<enterpoint_node_, maxlevel_, emptyback, marks>>

(* markDelete and unmarkDelete                                             *)
Mark(e) ==
  /\ marks < MaxMarks
  /\ marks' = marks + 1
  /\ deleted' = IF e \in deleted THEN deleted \ {e} ELSE deleted \union {e}
  /\ UNCHANGED <<vec, links, enterpoint_node_, maxlevel_, emptyback, updates>>

(* Two elements never have the same vector.                                *)
Fresh == {p \in Point : \A e \in Elements : vec[e] # p}

Next ==
  /\ ~emptyback
  /\ \/ \E p \in Fresh, level \in 0 .. MaxLevel : AddPoint(p, level)
     \/ \E e \in Elements, p \in Fresh : UpdatePoint(e, p)
     \/ \E e \in Elements : Mark(e)

Spec == Init /\ [][Next]_vars

-----------------------------------------------------------------------------
(* Properties.                                                             *)

(* Type correctness: lists within the room laid out for them, and an entry *)
(* point whenever there is an element.                                     *)
TypeOK ==
  /\ Len(vec) <= MaxElements /\ Len(links) = Len(vec)
  /\ deleted \subseteq Elements
  /\ \A e \in Elements : /\ vec[e] \in Point
                         /\ LevelOf(e) \in 0 .. MaxLevel
                         /\ \A l \in 0 .. LevelOf(e) :
                              Cardinality(ListAt(links, e, l)) <= Mcurmax(l)
  /\ IF vec = <<>> THEN enterpoint_node_ = None /\ maxlevel_ = -1
     ELSE enterpoint_node_ \in Elements /\ maxlevel_ \in 0 .. MaxLevel
  /\ emptyback \in BOOLEAN /\ updates \in 0 .. MaxUpdates /\ marks \in 0 .. MaxMarks

(* checkIntegrity: lists fit their room and lead to other elements, of at  *)
(* least their level.  The entry point has the highest level of all.       *)
GraphSound ==
  /\ TypeOK
  /\ \A e \in Elements : \A l \in 0 .. LevelOf(e) :
       \A n \in ListAt(links, e, l) : n \in Elements \ {e} /\ LevelOf(n) >= l
  /\ vec # <<>> => /\ LevelOf(enterpoint_node_) = maxlevel_
                   /\ \A e \in Elements : LevelOf(e) <= maxlevel_

(* What a search from element e can reach at level 0.                      *)
ReachFrom(e) ==
  Repeated([S \in SUBSET Elements |-> S \union UNION {ListAt(links, x, 0) : x \in S}],
           {e}, Len(vec))

(* A search wide enough never to drop a candidate finds exactly the k      *)
(* closest of the live elements that its starting point leads to.          *)
WideExact(q, start) ==
  SearchKnn(q, Len(vec)) = KClosest(vec, ReachFrom(start) \ deleted, q, Len(vec))

(* A narrow search answers with live elements, and with a local optimum:   *)
(* every live neighbour of an element it found is either found as well or  *)
(* farther than all of a full result; and no live neighbour of the one     *)
(* element a search for one answers with is closer than that element.      *)
NarrowOptimal(q, start) ==
  LET found == SearchBaseLayer(vec, links, deleted, start, q, 0, Ef)
  IN  /\ found \subseteq Elements \ deleted
      /\ \A t \in found : \A n \in ListAt(links, t, 0) \ (deleted \union found) :
           /\ Cardinality(found) = Ef
           /\ \A u \in found : Dist(vec[u], q) < Dist(vec[n], q)
      /\ \A t \in SearchKnn(q, 1) : \A n \in ListAt(links, t, 0) \ deleted :
           Dist(vec[t], q) <= Dist(vec[n], q)

(* Whatever was inserted, updated and marked, a search finds what it can   *)
(* find from where the descent ends.                                       *)
KnnExact ==
  vec # <<>> => \A q \in Query :
    LET start == Descend(vec, links, q, enterpoint_node_, maxlevel_, 0)
    IN  WideExact(q, start) /\ NarrowOptimal(q, start)

(* The heuristic's answer, without its loop: a candidate is kept exactly   *)
(* when fewer than m kept ones come before it and none of those is closer  *)
(* to it than q is.  It depends on the vectors alone, so it is said once,  *)
(* of every sequence of vectors: equal vectors, equal distances and        *)
(* candidates equal to q are among them.                                   *)
HeuristicExact ==
  vec = <<>> =>
    \A n \in 1 .. MaxElements : \A v \in [1 .. n -> Point \union Query] :
    \A q \in Point \union Query, C \in SUBSET (1 .. n), m \in 1 .. M :
      Cardinality(C) >= m =>
        LET H == Heuristic(v, C, q, m)
            Before(c) == {h \in H : Ahead(v, q, h, c)}
        IN  /\ H \subseteq C
            /\ \A c \in C :
                 c \in H <=> /\ Cardinality(Before(c)) < m
                             /\ \A h \in Before(c) : Dist(v[h], v[c]) >= Dist(v[c], q)

=============================================================================
