-------------------------- MODULE ConcurrentInsert --------------------------
(***************************************************************************)
(* The graph work of the rows of AddPoints batches in hnswlib/hnswalg.h:   *)
(* worker threads insert new elements and update old ones while they share *)
(* the link lists, the entry point and maxlevel_.                          *)
(*                                                                         *)
(* A list is read or written in one step, under the lock of its element.   *)
(* An insert holds the lock of its own element from start to end, and      *)
(* `global' too when it will become the entry point; every other list lock *)
(* is released within the step that takes it.  What an update reads        *)
(* without a lock (maxlevel_, the entry point, delete marks) is read in    *)
(* steps of its own.                                                       *)
(*                                                                         *)
(* Distances are left open: wherever the code compares two of them either  *)
(* outcome is possible, also that of a vector read while it is written.    *)
(* A link list is a bag: its order is left out, repeated entries are not.  *)
(***************************************************************************)
EXTENDS Integers, FiniteSets, Bags

Bag == INSTANCE BagsExt

CONSTANTS
  Thread,           \* the worker threads
  MaxElements,      \* max_elements_
  MaxLevel,         \* bound: the highest level getRandomLevel draws
  M,                \* maxM_: links per list above level 0
  EfConstruction,   \* ef_construction_
  MaxRows,          \* bound: rows that insert or update
  MaxUpdates,       \* bound: rows that update an element
  MaxMarks,         \* bound: MarkDeleted calls between batches
  Reordered         \* may the build store maxlevel_ before enterpoint_node_?

ASSUME GraphAssumption ==
  /\ MaxElements \in Nat \ {0} /\ MaxLevel \in Nat
  /\ M \in Nat \ {0} /\ EfConstruction \in Nat /\ EfConstruction >= M
  /\ MaxRows \in Nat /\ MaxUpdates \in Nat /\ MaxMarks \in Nat /\ Reordered \in BOOLEAN

VARIABLES
  count,       \* cur_element_count
  level,       \* element_levels_
  links,       \* element -> level -> its link list
  deleted,     \* the elements marked deleted
  enterpoint_node_, maxlevel_,
  global,      \* the thread that holds `global', or Nobody
  wild,        \* has a list been read that does not exist?
  updates,     \* rows so far that update
  marks,       \* MarkDeleted calls so far
  pc, op,      \* thread -> where it is, and what its row does
  elem,        \* thread -> the element it inserts or updates
  maxcopy, epcopy, epdel,  \* thread -> maxlevelcopy, enterpoint_copy, epDeleted
  layer,       \* thread -> the level it works on
  cur,         \* thread -> currObj
  seen,        \* thread -> the elements its search has met
  frontier,    \* thread -> candidateSet of the search
  found,       \* thread -> top_candidates of the search; sCand of an update
  todo         \* thread -> the neighbours still to be visited, a bag

graph  == <<count, level, links, deleted, enterpoint_node_, maxlevel_>>
bounds == <<updates, marks>>
row    == <<op, elem, maxcopy, epcopy>>
walk   == <<layer, cur, seen, frontier, found, todo>>
vars   == <<graph, global, wild, bounds, pc, row, epdel, walk>>

Elem   == 1 .. MaxElements     \* element e has internal id e - 1
Levels == 0 .. MaxLevel
None   == 0                    \* enterpoint_node_ = -1
Nobody == "nobody"

ASSUME NobodyAssumption == Nobody \notin Thread

Min2(a, b) == IF a < b THEN a ELSE b

Init ==
  /\ count = 0
  /\ level = [e \in Elem |-> 0]
  /\ links = [e \in Elem |-> [l \in Levels |-> EmptyBag]]
  /\ deleted = {} /\ enterpoint_node_ = None /\ maxlevel_ = -1
  /\ global = Nobody /\ wild = FALSE /\ updates = 0 /\ marks = 0
  /\ pc = [t \in Thread |-> "idle"]
  /\ op = [t \in Thread |-> "insert"]
  /\ elem = [t \in Thread |-> None]
  /\ maxcopy = [t \in Thread |-> -1]
  /\ epcopy = [t \in Thread |-> None]
  /\ epdel = [t \in Thread |-> FALSE]
  /\ layer = [t \in Thread |-> 0]
  /\ cur = [t \in Thread |-> None]
  /\ seen = [t \in Thread |-> {}]
  /\ frontier = [t \in Thread |-> {}]
  /\ found = [t \in Thread |-> {}]
  /\ todo = [t \in Thread |-> EmptyBag]

Goto(t, place)  == pc' = [pc EXCEPT ![t] = place]
AtLayer(t, l)   == layer' = [layer EXCEPT ![t] = l]
Inserting(t)    == pc[t] # "idle" /\ op[t] = "insert"

(* link_list_locks_[e] can be taken: no thread is inserting e.  The thread *)
(* that inserts e cannot take it again either.                             *)
LockFree(e) == \A t \in Thread : Inserting(t) => elem[t] # e

(* Mcurmax: the entries a list of level l has room for.                    *)
Mcurmax(l) == IF l > 0 THEN M ELSE 2 * M

(* The list of e at level l, and whether there is one.                     *)
ListAt(e, l)  == links[e][l]
HasList(e, l) == level[e] >= l

(* The entries of a list one by one, and getListCount of it.               *)
Copies(b) == UNION {{e} \X (1 .. b[e]) : e \in BagToSet(b)}
Size(b)   == Cardinality(Copies(b))

(* getNeighborsByHeuristic2: fewer than m candidates are all kept, and     *)
(* otherwise some are, the closest among them.                             *)
Heuristic(b, m) ==
  IF Size(b) < m
  THEN {b}
  ELSE {h \in UNION {[S -> 1 .. m] : S \in (SUBSET BagToSet(b)) \ {{}}} :
          h \sqsubseteq b /\ Size(h) <= m}

(* A list that does not exist is read: what follows is not the program's.  *)
ReadWild == wild' = TRUE /\ UNCHANGED <<graph, global, bounds, pc, row, epdel, walk>>

(* The row is done; an insert gives its locks back.                        *)
Finish(t) ==
  /\ Goto(t, "idle")
  /\ global' = IF global = t THEN Nobody ELSE global

-----------------------------------------------------------------------------
(* Insert: addPoint, up to the search of the levels.                       *)

StartInsert(t) ==
  /\ pc[t] = "idle" /\ count < MaxElements /\ count + updates < MaxRows
  /\ count' = count + 1
  /\ \E l \in Levels : level' = [level EXCEPT ![count + 1] = l]
  /\ op' = [op EXCEPT ![t] = "insert"]
  /\ elem' = [elem EXCEPT ![t] = count + 1]
  /\ Goto(t, "global")
  /\ UNCHANGED <<links, deleted, enterpoint_node_, maxlevel_, global, wild, bounds,
                 maxcopy, epcopy, epdel, walk>>

(* Bug: `global' is given back by every element.                           *)
TakeGlobalDropsIt(t) ==
  /\ pc[t] = "global" /\ global = Nobody
  /\ maxcopy' = [maxcopy EXCEPT ![t] = maxlevel_]
  /\ Goto(t, "entry")
  /\ UNCHANGED <<graph, global, wild, bounds, op, elem, epcopy, epdel, walk>>

(* `global' is kept by an element that rises above all others.             *)
TakeGlobal(t) ==
  /\ pc[t] = "global" /\ global = Nobody
  /\ maxcopy' = [maxcopy EXCEPT ![t] = maxlevel_]
  /\ global' = IF level[elem[t]] > maxlevel_ THEN t ELSE Nobody
  /\ Goto(t, "entry")
  /\ UNCHANGED <<graph, wild, bounds, op, elem, epcopy, epdel, walk>>

(* The walk starts from element e with nothing else met.                   *)
StartFrom(t, e) ==
  /\ cur' = [cur EXCEPT ![t] = e]
  /\ seen' = [seen EXCEPT ![t] = {e}]

(* The entry point is read after `global' may have been given back.  The   *)
(* first element finds none and has nothing to link to.                    *)
ReadEntry(t) ==
  /\ pc[t] = "entry"
  /\ epcopy' = [epcopy EXCEPT ![t] = enterpoint_node_]
  /\ IF enterpoint_node_ = None
     THEN /\ enterpoint_node_' = 1
          /\ maxlevel_' = level[elem[t]]
          /\ Goto(t, "publish")
          /\ UNCHANGED <<layer, cur, seen>>
     ELSE /\ StartFrom(t, enterpoint_node_)
          /\ AtLayer(t, maxcopy[t])
          /\ Goto(t, IF level[elem[t]] < maxcopy[t] THEN "descend" ELSE "mark")
          /\ UNCHANGED <<enterpoint_node_, maxlevel_>>
  /\ UNCHANGED <<count, level, links, deleted, global, wild, bounds, op, elem,
                 maxcopy, epdel, frontier, found, todo>>

(* Greedy descent, for inserts and updates: the walk moves within the list *)
(* it reads to an element not met before, or goes on one level lower.      *)
Descend(t) ==
  LET bottom == layer[t] - 1 = level[elem[t]] IN
  /\ pc[t] = "descend" /\ LockFree(cur[t])
  /\ IF ~HasList(cur[t], layer[t])
     THEN ReadWild
     ELSE /\ \/ \E n \in BagToSet(ListAt(cur[t], layer[t])) \ seen[t] :
                  /\ cur' = [cur EXCEPT ![t] = n]
                  /\ seen' = [seen EXCEPT ![t] = @ \union {n}]
                  /\ UNCHANGED <<pc, layer>>
             \/ /\ AtLayer(t, layer[t] - 1)
                /\ StartFrom(t, cur[t])
                /\ Goto(t, IF ~bottom THEN "descend"
                           ELSE IF op[t] = "insert" THEN "mark" ELSE "search")
          /\ UNCHANGED <<graph, global, wild, bounds, row, epdel,
                         frontier, found, todo>>

(* Bug: the search starts at the element's own level, even above maxlevel_. *)
ReadEntryMarkUncapped(t) ==
  /\ pc[t] = "mark"
  /\ epdel' = [epdel EXCEPT ![t] = epcopy[t] \in deleted]
  /\ AtLayer(t, level[elem[t]])
  /\ Goto(t, "search")
  /\ UNCHANGED <<graph, global, wild, bounds, row, cur, seen, frontier, found, todo>>

(* epDeleted of an insert is read once, before the levels are searched.    *)
ReadEntryMark(t) ==
  /\ pc[t] = "mark"
  /\ epdel' = [epdel EXCEPT ![t] = epcopy[t] \in deleted]
  /\ AtLayer(t, Min2(level[elem[t]], maxcopy[t]))
  /\ Goto(t, "search")
  /\ UNCHANGED <<graph, global, wild, bounds, row, cur, seen, frontier, found, todo>>

-----------------------------------------------------------------------------
(* searchBaseLayer                                                         *)

BeginSearch(t) ==
  /\ pc[t] = "search"
  /\ StartFrom(t, cur[t])
  /\ frontier' = [frontier EXCEPT ![t] = {cur[t]}]
  /\ found' = [found EXCEPT ![t] = {cur[t]} \ deleted]
  /\ Goto(t, "expand")
  /\ UNCHANGED <<graph, global, wild, bounds, row, epdel, layer, todo>>

(* Bug: the visited marks are not looked at.                               *)
ExpandForgetsSeen(t) ==
  /\ pc[t] = "expand"
  /\ \E c \in frontier[t] :
       LET new == BagToSet(ListAt(c, layer[t]))
           all == found[t] \union (new \ deleted)
       IN
       /\ LockFree(c)
       /\ \E best \in SUBSET all :
            /\ Cardinality(best) = Min2(EfConstruction, Cardinality(all))
            /\ found' = [found EXCEPT ![t] = best]
       /\ frontier' = [frontier EXCEPT ![t] = (@ \ {c}) \union new]
       /\ seen' = [seen EXCEPT ![t] = @ \union new]
       /\ UNCHANGED <<graph, global, wild, bounds, pc, row, epdel, layer, cur, todo>>

(* The list of a candidate is read.  Its new members enter top_candidates  *)
(* and candidateSet; when there are more than EfConstruction the farthest  *)
(* are dropped.  A marked member leads on but is not a candidate.          *)
Expand(t) ==
  /\ pc[t] = "expand"
  /\ \E c \in frontier[t] :
       /\ LockFree(c)
       /\ IF ~HasList(c, layer[t])
          THEN ReadWild
          ELSE LET new == BagToSet(ListAt(c, layer[t])) \ seen[t]
                   all == found[t] \union (new \ deleted)
               IN
               /\ seen' = [seen EXCEPT ![t] = @ \union new]
               /\ \E best \in SUBSET all, near \in SUBSET new :
                    /\ Cardinality(best) = Min2(EfConstruction, Cardinality(all))
                    /\ best \ found[t] \subseteq near
                    /\ Cardinality(all) < EfConstruction => near = new
                    /\ found' = [found EXCEPT ![t] = best]
                    /\ frontier' = [frontier EXCEPT ![t] = (@ \ {c}) \union near]
               /\ UNCHANGED <<graph, global, wild, bounds, pc, row, epdel,
                              layer, cur, todo>>

(* The search may end: nothing is left, or what is left is too far away.   *)
(* The element it began with is as near as the bound and gets expanded.    *)
SearchOver(t) ==
  /\ pc[t] = "expand"
  /\ \/ frontier[t] = {}
     \/ cur[t] \notin frontier[t] /\ Cardinality(found[t]) = EfConstruction

-----------------------------------------------------------------------------
(* mutuallyConnectNewElement                                               *)

(* On to the next lower level; at level 0 the insert publishes and the     *)
(* update is done.                                                         *)
NextLevel(t) ==
  IF layer[t] > 0
  THEN Goto(t, "search") /\ AtLayer(t, layer[t] - 1) /\ UNCHANGED global
  ELSE IF op[t] = "insert"
       THEN Goto(t, "publish") /\ UNCHANGED <<layer, global>>
       ELSE Finish(t) /\ UNCHANGED layer

(* Bug: the entry point is added to the candidates in any case.            *)
CandidatesAlwaysWithEntry(t, result, withEntry) ==
  LET b == Bag!BagAdd(SetToBag(result), epcopy[t])
  IN  IF Size(b) > EfConstruction
      THEN {Bag!BagRemove(b, x) : x \in BagToSet(b)}
      ELSE {b}

(* The candidates, with the entry point if it was seen deleted; one of too *)
(* many is dropped.                                                        *)
Candidates(t, result, withEntry) ==
  LET b == IF withEntry THEN Bag!BagAdd(SetToBag(result), epcopy[t]) ELSE SetToBag(result)
  IN  IF Size(b) > EfConstruction
      THEN {Bag!BagRemove(b, x) : x \in BagToSet(b)}
      ELSE {b}

ForgetSearch(t) ==
  /\ seen' = [seen EXCEPT ![t] = {}]
  /\ frontier' = [frontier EXCEPT ![t] = {}]
  /\ found' = [found EXCEPT ![t] = {}]

(* The element's own list becomes the selected neighbours.  Of an insert   *)
(* without candidates, level 0 is left unlinked; above it the search goes  *)
(* on from back() of an empty vector.                                      *)
ConnectTo(t, candidates) ==
  \E b \in candidates : \E sel \in Heuristic(b, M) :
    IF sel = EmptyBag /\ layer[t] > 0
    THEN ReadWild
    ELSE /\ links' = [links EXCEPT ![elem[t]][layer[t]] = sel]
         /\ todo' = [todo EXCEPT ![t] = sel]
         /\ IF sel = EmptyBag
            THEN NextLevel(t)
            ELSE Goto(t, "link") /\ UNCHANGED <<layer, global>>
         /\ ForgetSearch(t)
         /\ UNCHANGED <<count, level, deleted, enterpoint_node_, maxlevel_,
                        wild, bounds, row, epdel, cur>>

Connect(t) ==
  /\ SearchOver(t) /\ op[t] = "insert"
  /\ ConnectTo(t, Candidates(t, found[t], epdel[t]))

(* A neighbour takes the element into its list; a full list is thinned by  *)
(* the heuristic.  Only an update looks whether it is there already.  The  *)
(* neighbour linked last, the closest, is where the next search starts.    *)
LinkBack(t) ==
  /\ pc[t] = "link"
  /\ \E n \in BagToSet(todo[t]) :
       LET list == ListAt(n, layer[t])
           present == op[t] = "update" /\ BagIn(elem[t], list)
           longer == Bag!BagAdd(list, elem[t])
       IN
       /\ LockFree(n)
       /\ \E new \in IF present THEN {list}
                     ELSE IF Size(list) < Mcurmax(layer[t]) THEN {longer}
                     ELSE Heuristic(longer, Mcurmax(layer[t])) :
            links' = [links EXCEPT ![n][layer[t]] = new]
       /\ cur' = [cur EXCEPT ![t] = n]
       /\ todo' = [todo EXCEPT ![t] = Bag!BagRemove(@, n)]
       /\ IF Size(todo[t]) = 1
          THEN NextLevel(t)
          ELSE UNCHANGED <<pc, layer, global>>
  /\ UNCHANGED <<count, level, deleted, enterpoint_node_, maxlevel_, wild, bounds,
                 row, epdel, seen, frontier, found>>

-----------------------------------------------------------------------------
(* The end of an insert: a new top element becomes the entry point.        *)

PublishEntry(t) ==
  /\ enterpoint_node_' = elem[t]
  /\ UNCHANGED maxlevel_
PublishLevel(t) ==
  /\ maxlevel_' = level[elem[t]]
  /\ UNCHANGED enterpoint_node_

(* Two plain stores, in the order the build gives them.                    *)
Publish(t) ==
  /\ \/ /\ pc[t] = "publish" /\ level[elem[t]] <= maxcopy[t]
        /\ Finish(t) /\ UNCHANGED <<enterpoint_node_, maxlevel_>>
     \/ /\ pc[t] = "publish" /\ level[elem[t]] > maxcopy[t]
        /\ \/ PublishEntry(t) /\ Goto(t, "publishlevel")
           \/ Reordered /\ PublishLevel(t) /\ Goto(t, "publishentry")
        /\ UNCHANGED global
     \/ pc[t] = "publishlevel" /\ PublishLevel(t) /\ Finish(t)
     \/ pc[t] = "publishentry" /\ PublishEntry(t) /\ Finish(t)
  /\ UNCHANGED <<count, level, links, deleted, wild, bounds, row, epdel, walk>>

-----------------------------------------------------------------------------
(* Update: updatePoint and repairConnectionsForUpdate.                     *)

(* The label's lock keeps other rows from e.  A deleted e is revived.      *)
StartUpdate(t) ==
  /\ pc[t] = "idle" /\ updates < MaxUpdates /\ count + updates < MaxRows
  /\ \E e \in 1 .. count :
       /\ \A u \in Thread : pc[u] # "idle" => elem[u] # e
       /\ elem' = [elem EXCEPT ![t] = e]
       /\ deleted' = deleted \ {e}
  /\ op' = [op EXCEPT ![t] = "update"]
  /\ updates' = updates + 1
  /\ Goto(t, "readmax")
  /\ UNCHANGED <<count, level, links, enterpoint_node_, maxlevel_, global, wild,
                 marks, maxcopy, epcopy, epdel, walk>>

(* maxlevel_ and the entry point are read one after the other, unlocked.   *)
ReadMax(t) ==
  /\ pc[t] = "readmax"
  /\ maxcopy' = [maxcopy EXCEPT ![t] = maxlevel_]
  /\ Goto(t, "readep")
  /\ UNCHANGED <<graph, global, wild, bounds, op, elem, epcopy, epdel, walk>>

ReadEp(t) ==
  /\ pc[t] = "readep"
  /\ epcopy' = [epcopy EXCEPT ![t] = enterpoint_node_]
  /\ IF enterpoint_node_ = elem[t] /\ count = 1
     THEN Finish(t)
     ELSE Goto(t, "onehop") /\ UNCHANGED global
  /\ AtLayer(t, 0)
  /\ UNCHANGED <<graph, wild, bounds, op, elem, maxcopy, epdel,
                 cur, seen, frontier, found, todo>>

(* After the element's highest level, the repair starts from the entry     *)
(* point.                                                                  *)
NextHigherLevel(t) ==
  IF layer[t] < level[elem[t]]
  THEN Goto(t, "onehop") /\ AtLayer(t, layer[t] + 1) /\ UNCHANGED <<cur, seen>>
  ELSE /\ StartFrom(t, epcopy[t])
       /\ IF level[elem[t]] < maxcopy[t]
          THEN Goto(t, "descend") /\ AtLayer(t, maxcopy[t])
          ELSE Goto(t, "search") /\ AtLayer(t, level[elem[t]])

(* getConnectionsWithLock of the element itself: todo is sNeigh, found is  *)
(* sCand, frontier the neighbours whose lists have not been read yet.      *)
OneHop(t) ==
  LET hop == BagToSet(ListAt(elem[t], layer[t])) IN
  /\ pc[t] = "onehop" /\ LockFree(elem[t])
  /\ IF hop = {}
     THEN NextHigherLevel(t) /\ UNCHANGED <<found, frontier, todo>>
     ELSE /\ found' = [found EXCEPT ![t] = {elem[t]} \union hop]
          /\ frontier' = [frontier EXCEPT ![t] = hop]
          /\ todo' = [todo EXCEPT ![t] = SetToBag(hop)]
          /\ Goto(t, "twohop")
          /\ UNCHANGED <<layer, cur, seen>>
  /\ UNCHANGED <<graph, global, wild, bounds, row, epdel>>

TwoHop(t) ==
  /\ pc[t] = "twohop"
  /\ \E n \in frontier[t] :
       /\ LockFree(n)
       /\ found' = [found EXCEPT ![t] = @ \union BagToSet(ListAt(n, layer[t]))]
       /\ frontier' = [frontier EXCEPT ![t] = @ \ {n}]
       /\ IF frontier[t] = {n} THEN Goto(t, "relink") ELSE UNCHANGED pc
  /\ UNCHANGED <<graph, global, wild, bounds, row, epdel, layer, cur, seen, todo>>

(* A neighbour's list becomes what the heuristic leaves of the             *)
(* EfConstruction closest of the other members of sCand.                   *)
Relink(t) ==
  /\ pc[t] = "relink"
  /\ \E n \in BagToSet(todo[t]) :
       LET others == found[t] \ {n} IN
       /\ LockFree(n)
       /\ \E near \in SUBSET others :
            /\ Cardinality(near) = Min2(EfConstruction, Cardinality(others))
            /\ \E new \in Heuristic(SetToBag(near), Mcurmax(layer[t])) :
                 links' = [links EXCEPT ![n][layer[t]] = new]
       /\ todo' = [todo EXCEPT ![t] = Bag!BagRemove(@, n)]
       /\ IF Size(todo[t]) = 1
          THEN NextHigherLevel(t)
          ELSE UNCHANGED <<pc, layer, cur, seen>>
  /\ UNCHANGED <<count, level, deleted, enterpoint_node_, maxlevel_, global, wild,
                 bounds, row, epdel, frontier, found>>

(* Bug: the element itself stays among its own candidates.                 *)
FilterKeepsSelf(t) ==
  /\ SearchOver(t) /\ op[t] = "update"
  /\ epdel' = [epdel EXCEPT ![t] = epcopy[t] \in deleted]
  /\ Goto(t, "reconnect")
  /\ UNCHANGED <<graph, global, wild, bounds, row, walk>>

(* The repair's search leaves out the element itself.  A level where       *)
(* nothing else is found keeps its links; otherwise the entry point's mark *)
(* is read, once per level.                                                *)
Filter(t) ==
  LET others == found[t] \ {elem[t]} IN
  /\ SearchOver(t) /\ op[t] = "update"
  /\ found' = [found EXCEPT ![t] = others]
  /\ IF others = {}
     THEN NextLevel(t) /\ UNCHANGED epdel
     ELSE /\ epdel' = [epdel EXCEPT ![t] = epcopy[t] \in deleted]
          /\ Goto(t, "reconnect")
          /\ UNCHANGED <<layer, global>>
  /\ UNCHANGED <<graph, wild, bounds, row, cur, seen, frontier, todo>>

Reconnect(t) ==
  /\ pc[t] = "reconnect" /\ LockFree(elem[t])
  /\ ConnectTo(t, Candidates(t, found[t], epdel[t]))

-----------------------------------------------------------------------------
(* MarkDeleted, between the batches.                                       *)
MarkDelete ==
  /\ \A t \in Thread : pc[t] = "idle"
  /\ marks < MaxMarks /\ count + updates < MaxRows
  /\ \E e \in (1 .. count) \ deleted : deleted' = deleted \union {e}
  /\ marks' = marks + 1
  /\ UNCHANGED <<count, level, links, enterpoint_node_, maxlevel_, global, wild,
                 updates, pc, row, epdel, walk>>

(* The bounds are used up and every row is done.                           *)
Done ==
  /\ \A t \in Thread : pc[t] = "idle"
  /\ count + updates = MaxRows \/ (count = MaxElements /\ updates = MaxUpdates)
  /\ UNCHANGED vars

Insert(t) == \/ StartInsert(t) \/ TakeGlobal(t) \/ ReadEntry(t) \/ ReadEntryMark(t)
             \/ Connect(t) \/ Publish(t)
Update(t) == \/ StartUpdate(t) \/ ReadMax(t) \/ ReadEp(t) \/ OneHop(t) \/ TwoHop(t)
             \/ Relink(t) \/ Filter(t) \/ Reconnect(t)
Shared(t) == Descend(t) \/ BeginSearch(t) \/ Expand(t) \/ LinkBack(t)

Next ==
  \/ ~wild /\ \/ \E t \in Thread : Insert(t) \/ Update(t) \/ Shared(t)
              \/ MarkDelete
              \/ Done
  \/ wild /\ UNCHANGED vars

Spec == Init /\ [][Next]_vars

(* Every thread runs, and gets a lock it waits for.                        *)
ThreadStep(t) == ~wild /\ pc[t] # "idle" /\ (Insert(t) \/ Update(t) \/ Shared(t))
FairSpec == Spec /\ \A t \in Thread : WF_vars(ThreadStep(t))

-----------------------------------------------------------------------------
(* Properties.                                                             *)

(* Type correctness: counts within their limits, lists of elements, and    *)
(* every thread at a place of the code.                                    *)
TypeOK ==
  /\ count \in 0 .. MaxElements
  /\ level \in [Elem -> Levels]
  /\ deleted \subseteq 1 .. count
  /\ enterpoint_node_ \in 0 .. count /\ maxlevel_ \in -1 .. MaxLevel
  /\ \A t \in Thread :
       /\ elem[t] \in 0 .. count /\ epcopy[t] \in 0 .. count /\ cur[t] \in 0 .. count
       /\ layer[t] \in Levels \cup {-1} /\ maxcopy[t] \in Levels \cup {-1}

(* The insert of thread t has come to link its element at level l.         *)
HasReached(t, l) ==
  \/ pc[t] \in {"publish", "publishlevel", "publishentry"}
  \/ pc[t] = "link" /\ layer[t] <= l
  \/ pc[t] \in {"search", "expand"} /\ layer[t] < l

(* The elements that may be linked to at level l.                          *)
Joined(l) ==
  {e \in 1 .. count : /\ level[e] >= l
                      /\ \A t \in Thread : Inserting(t) /\ elem[t] = e => HasReached(t, l)}

(* checkIntegrity: a list fits its memory and leads to other elements      *)
(* only, which have a list at that level themselves; never to an element   *)
(* whose insert has not come to that level yet, so that no insert waits    *)
(* for its own lock.                                                       *)
ListsSound ==
  \A e \in 1 .. count, l \in Levels :
    /\ BagToSet(links[e][l]) \subseteq Joined(l) \ {e}
    /\ Size(links[e][l]) <= IF l > level[e] THEN 0 ELSE Mcurmax(l)

(* The conditions under which mutuallyConnectNewElement and                *)
(* repairConnectionsForUpdate throw do not come up.                        *)
ChecksNeverFire ==
  \A t \in Thread :
    /\ pc[t] = "link" => /\ elem[t] \notin BagToSet(todo[t])
                         /\ \A n \in BagToSet(todo[t]) : HasList(n, layer[t])
                         /\ Size(todo[t]) <= M
    /\ Inserting(t) /\ pc[t] \in {"search", "expand"} =>
         ListAt(elem[t], layer[t]) = EmptyBag
    /\ pc[t] = "onehop" => level[elem[t]] <= maxcopy[t]

(* The link lists are sound after every step of inserts and updates, and   *)
(* the code's own checks of them never throw.                              *)
LinksSound == TypeOK /\ ListsSound /\ ChecksNeverFire

(* When no insert is about to change it, the entry point is an element of  *)
(* the highest level, and its level is the one the descents start from.    *)
EntryAtTop ==
  global = Nobody /\ enterpoint_node_ # None =>
    /\ level[enterpoint_node_] = maxlevel_
    /\ \A l \in Levels : Joined(l) # {} => l <= maxlevel_

(* No search reads a list at a level its element does not have, and no     *)
(* insert goes on from the back of an empty vector.                        *)
NeverWild == ~wild

(* So it is as long as rows only insert and nothing is deleted.            *)
InsertsNeverWild == updates = 0 /\ marks = 0 => NeverWild

(* checkIntegrity: no element occurs twice in a list, as long as no row    *)
(* updates.                                                                *)
NoDuplicateLinks ==
  updates = 0 =>
    \A e \in Elem, l \in Levels : links[e][l] = SetToBag(BagToSet(links[e][l]))

(* Every row comes to its end.                                             *)
RowsFinish == \A t \in Thread : (pc[t] # "idle") ~> (pc[t] = "idle" \/ wild)

=============================================================================
