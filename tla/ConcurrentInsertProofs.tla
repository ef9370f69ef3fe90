----------------------- MODULE ConcurrentInsertProofs -----------------------
(***************************************************************************)
(* Proofs, for every number of threads, elements and levels and all list   *)
(* and candidate sizes, of the invariants of ConcurrentInsert.  A thread   *)
(* holds no lock of the elements it has found: the invariant says what it  *)
(* may still rely on when it comes back to them, and what an entry point   *)
(* is worth that was read some time ago.                                   *)
(***************************************************************************)
EXTENDS ConcurrentInsert, FiniteSetTheorems, TLAPS

-----------------------------------------------------------------------------
(* The invariant.                                                          *)

Lists == {b \in UNION {[S -> {n \in Nat : n > 0}] : S \in SUBSET Elem} : IsFiniteSet(Copies(b))}

Publishing == {"publish", "publishlevel", "publishentry"}
Searching  == {"search", "expand"}
Linking    == {"link", "reconnect"}
Hopping    == {"onehop", "twohop", "relink"}
Walking    == {"descend", "mark"} \union Searching
InsertPlace == {"global", "entry", "link"} \union Walking \union Publishing
UpdatePlace == {"readmax", "readep", "descend"} \union Hopping \union Searching \union Linking

Updating(t) == pc[t] # "idle" /\ op[t] = "update"

(* An insert that has read maxlevel_.                                      *)
Past(t) == Inserting(t) /\ pc[t] # "global"

(* An element that is linked at all of its levels.                         *)
Full(e) ==
  /\ e \in 1 .. count
  /\ \A t \in Thread : Inserting(t) /\ elem[t] = e => pc[t] \in Publishing

(* The highest level before the insert that holds `global' adds its own.   *)
Base == IF global = Nobody THEN maxlevel_ ELSE maxcopy[global]

(* The first element of all is becoming the entry point.                   *)
First == global # Nobody /\ maxcopy[global] = -1 /\ pc[global] # "entry"

Types ==
  /\ count \in 0 .. MaxElements
  /\ level \in [Elem -> Levels]
  /\ links \in [Elem -> [Levels -> Lists]]
  /\ deleted \subseteq 1 .. count
  /\ enterpoint_node_ \in 0 .. count
  /\ maxlevel_ \in Levels \union {-1}
  /\ global \in Thread \union {Nobody}
  /\ wild \in BOOLEAN /\ updates \in Nat /\ marks \in Nat

ThreadTypes ==
  /\ pc \in [Thread -> {"idle"} \union InsertPlace \union UpdatePlace]
  /\ op \in [Thread -> {"insert", "update"}]
  /\ elem \in [Thread -> 0 .. MaxElements]
  /\ maxcopy \in [Thread -> Levels \union {-1}]
  /\ epcopy \in [Thread -> 0 .. MaxElements]
  /\ epdel \in [Thread -> BOOLEAN]
  /\ layer \in [Thread -> Levels]
  /\ cur \in [Thread -> 0 .. MaxElements]
  /\ frontier \in [Thread -> SUBSET Elem]
  /\ found \in [Thread -> SUBSET Elem]
  /\ todo \in [Thread -> Lists]

(* No two rows work on one element.                                        *)
Apart ==
  \A t, u \in Thread :
    t # u /\ pc[t] # "idle" /\ pc[u] # "idle" => elem[t] # elem[u]

(* Where a row can be.  An update has revived its element.                 *)
PlaceKept(t) ==
  /\ Inserting(t) => pc[t] \in InsertPlace
  /\ Updating(t) => pc[t] \in UpdatePlace /\ elem[t] \notin deleted /\ updates > 0
  /\ pc[t] # "idle" => elem[t] # None
  /\ elem[t] <= count /\ epcopy[t] <= count /\ cur[t] <= count

(* What a row's copies of maxlevel_ and the entry point are worth.         *)
CopiesKept(t) ==
  /\ Past(t) /\ pc[t] # "entry" =>
       IF epcopy[t] = None
       THEN pc[t] \in Publishing
       ELSE Full(epcopy[t]) /\ maxcopy[t] \in 0 .. level[epcopy[t]]
  /\ Updating(t) /\ pc[t] # "readmax" => level[elem[t]] <= maxcopy[t]
  /\ Updating(t) /\ pc[t] \notin {"readmax", "readep"} => Full(epcopy[t])

(* The level a row works on.  A row that publishes rises above maxlevel_.  *)
LayerKept(t) ==
  /\ pc[t] = "descend" => level[elem[t]] < layer[t] /\ layer[t] <= maxcopy[t]
  /\ pc[t] = "mark" => layer[t] = Min2(level[elem[t]], maxcopy[t])
  /\ pc[t] \in Searching \union Linking =>
       layer[t] <= level[elem[t]] /\ layer[t] <= maxcopy[t]
  /\ pc[t] \in Hopping => layer[t] <= level[elem[t]]
  /\ pc[t] \in {"publishlevel", "publishentry"} => level[elem[t]] > maxcopy[t]

(* The element a walk stands on.  An update's entry point may be too low   *)
(* for its level, but then nothing has been read yet.                      *)
AtStart(t) ==
  /\ Updating(t) /\ cur[t] = epcopy[t]
  /\ \/ pc[t] \in {"descend", "search"}
     \/ pc[t] = "expand" /\ cur[t] \in frontier[t]

CurKept(t) ==
  /\ pc[t] \in Walking => cur[t] # None
  /\ pc[t] \in Walking /\ Inserting(t) => level[cur[t]] >= layer[t]
  /\ pc[t] \in Walking \union Linking => level[epcopy[t]] >= layer[t] \/ AtStart(t)

(* What a search, an update's hops and a linking row have collected.       *)
SetsKept(t) ==
  /\ pc[t] = "expand" =>
       /\ frontier[t] \union found[t] \subseteq Joined(layer[t]) \union {cur[t]}
       /\ cur[t] \in frontier[t] \union Joined(layer[t])
  /\ pc[t] \in {"twohop", "relink"} =>
       frontier[t] \union found[t] \subseteq Joined(layer[t])
  /\ pc[t] = "reconnect" =>
       /\ found[t] \subseteq Joined(layer[t]) \ {elem[t]}
       /\ epdel[t] => epcopy[t] # elem[t]
  /\ pc[t] \in {"twohop", "relink", "link"} =>
       BagToSet(todo[t]) \subseteq Joined(layer[t]) \ {elem[t]}
  /\ pc[t] = "link" => Size(todo[t]) <= M

RowKept(t) == PlaceKept(t) /\ CopiesKept(t) /\ LayerKept(t) /\ CurKept(t) /\ SetsKept(t)

(* `global' is held by the insert that rises above Base, and no other      *)
(* element is higher.                                                      *)
Ranks ==
  /\ \A t \in Thread :
       Past(t) => maxcopy[t] <= Base /\ (global = t <=> level[elem[t]] > maxcopy[t])
  /\ global # Nobody => Past(global)
  /\ \A e \in 1 .. count : LockFree(e) => level[e] <= Base
  /\ Base <= maxlevel_

(* The entry point is an element of level Base, or the one that rises.     *)
EntryKept ==
  /\ maxlevel_ = IF First \/ (global # Nobody /\ pc[global] = "publishentry")
                 THEN level[elem[global]]
                 ELSE Base
  /\ IF global # Nobody /\ pc[global] = "publishlevel"
     THEN enterpoint_node_ = elem[global]
     ELSE IF Base = -1
          THEN enterpoint_node_ = IF First THEN 1 ELSE None
          ELSE Full(enterpoint_node_) /\ level[enterpoint_node_] = Base
  /\ First => pc[global] \in Publishing

(* An element is in no list and has no links before it is linked.          *)
ListsKept ==
  \A e \in Elem, l \in Levels :
    /\ BagToSet(links[e][l]) \subseteq Joined(l) \ {e}
    /\ Size(links[e][l]) <= Mcurmax(l)
    /\ e \notin Joined(l) => links[e][l] = EmptyBag

Kept == /\ Types /\ ThreadTypes /\ Apart /\ \A t \in Thread : RowKept(t)
        /\ Ranks /\ EntryKept /\ ListsKept

Single(b) == \A x \in BagToSet(b) : b[x] = 1

-----------------------------------------------------------------------------
(* Lists: bags with finitely many entries.                                 *)

LEMMA ElemFinite == ASSUME GraphAssumption PROVE \A S \in SUBSET Elem : IsFiniteSet(S)
<1>1. IsFiniteSet(Elem)
  BY FS_Interval DEF Elem, GraphAssumption
<1> QED
  BY <1>1, FS_Subset

LEMMA ListForm ==
  ASSUME NEW b
  PROVE  b \in Lists <=> /\ DOMAIN b \in SUBSET Elem
                         /\ b \in [DOMAIN b -> {n \in Nat : n > 0}]
                         /\ IsFiniteSet(Copies(b))
BY DEF Lists

LEMMA CopyIn ==
  ASSUME NEW b, NEW x
  PROVE  x \in Copies(b) <=> \E e \in DOMAIN b : \E i \in 1 .. b[e] : x = <<e, i>>
BY DEF Copies, BagToSet

LEMMA CopyOf ==
  ASSUME NEW b, NEW e, NEW i
  PROVE  <<e, i>> \in Copies(b) <=> e \in DOMAIN b /\ i \in 1 .. b[e]
BY CopyIn

LEMMA SizeOfEmpty ==
  EmptyBag \in Lists /\ Size(EmptyBag) = 0 /\ BagToSet(EmptyBag) = {}
<1>1. DOMAIN EmptyBag = {}
  BY DEF EmptyBag, SetToBag
<1>2. EmptyBag \in [DOMAIN EmptyBag -> {n \in Nat : n > 0}]
  BY DEF EmptyBag, SetToBag
<1> DEFINE c == Copies(EmptyBag)
<1>3. c = {}
  BY <1>1, CopyIn
<1> HIDE DEF c
<1>4. IsFiniteSet(c) /\ Cardinality(c) = 0
  BY <1>3, FS_EmptySet
<1>5. DOMAIN EmptyBag \in SUBSET Elem
  BY <1>1
<1> QED
  BY <1>1, <1>2, <1>4, <1>5, ListForm DEF Size, BagToSet, c

LEMMA SizeZero ==
  ASSUME NEW b \in Lists
  PROVE  /\ Size(b) \in Nat
         /\ Size(b) = 0 <=> b = EmptyBag
         /\ BagToSet(b) = {} <=> b = EmptyBag
<1>1. IsFiniteSet(Copies(b)) /\ b \in [DOMAIN b -> {n \in Nat : n > 0}]
  BY ListForm
<1>2. Size(b) \in Nat
  BY <1>1, FS_CardinalityType DEF Size
<1>3. Size(b) = 0 <=> Copies(b) = {}
  BY <1>1, FS_EmptySet DEF Size
<1>4. ASSUME Copies(b) = {} PROVE DOMAIN b = {}
  <2> SUFFICES ASSUME NEW e \in DOMAIN b PROVE FALSE
    OBVIOUS
  <2>1. 1 \in 1 .. b[e]
    BY <1>1
  <2> QED
    BY <1>4, <2>1, CopyOf
<1>5. ASSUME DOMAIN b = {} PROVE b = EmptyBag
  BY <1>1, <1>5 DEF EmptyBag, SetToBag
<1> QED
  BY <1>2, <1>3, <1>4, <1>5, SizeOfEmpty DEF BagToSet

LEMMA AddOne ==
  ASSUME NEW b \in Lists, NEW x \in Elem
  PROVE  /\ Bag!BagAdd(b, x) \in Lists
         /\ BagToSet(Bag!BagAdd(b, x)) = BagToSet(b) \union {x}
         /\ Size(Bag!BagAdd(b, x)) = Size(b) + 1
         /\ Single(b) /\ x \notin BagToSet(b) => Single(Bag!BagAdd(b, x))
<1> DEFINE c == Bag!BagAdd(b, x)
<1> DEFINE n == IF x \in DOMAIN b THEN b[x] + 1 ELSE 1
<1>0. /\ DOMAIN b \in SUBSET Elem /\ IsFiniteSet(Copies(b))
      /\ b \in [DOMAIN b -> {i \in Nat : i > 0}]
  BY ListForm
<1>1. /\ DOMAIN c = DOMAIN b \union {x} /\ c[x] = n
      /\ \A e \in DOMAIN b : e # x => c[e] = b[e]
      /\ c \in [DOMAIN c -> {i \in Nat : i > 0}]
      /\ n \in Nat /\ n > 0
  <2>1. CASE x \in DOMAIN b
    <3>1. c = [e \in DOMAIN b |-> IF e = x THEN b[e] + 1 ELSE b[e]]
      BY <2>1 DEF Bag!BagAdd
    <3>2. n = b[x] + 1 /\ DOMAIN b \union {x} = DOMAIN b
      BY <2>1
    <3>3. \A e \in DOMAIN b : b[e] \in Nat /\ b[e] > 0
      BY <1>0
    <3> HIDE DEF n, c
    <3>4. DOMAIN c = DOMAIN b /\ c[x] = b[x] + 1
          /\ \A e \in DOMAIN b : e # x => c[e] = b[e]
      BY <2>1, <3>1
    <3>5. c \in [DOMAIN c -> {i \in Nat : i > 0}]
      BY <3>1, <3>3
    <3> QED
      BY <2>1, <3>2, <3>3, <3>4, <3>5
  <2>2. CASE x \notin DOMAIN b
    BY <1>0, <2>2 DEF Bag!BagAdd
  <2> QED
    BY <2>1, <2>2
<1> HIDE DEF c
<1>2. \A i : i \in 1 .. n <=> i = n \/ (x \in DOMAIN b /\ i \in 1 .. b[x])
  BY <1>0
<1>3. ~(x \in DOMAIN b /\ n \in 1 .. b[x])
  BY <1>0
<1>4. x \notin DOMAIN b => n = 1
  OBVIOUS
<1> HIDE DEF n
<1>5. Copies(c) = Copies(b) \union {<<x, n>>}
  <2>1. ASSUME NEW p \in Copies(c) PROVE p \in Copies(b) \union {<<x, n>>}
    BY <1>1, <1>2, CopyIn, CopyOf
  <2>2. ASSUME NEW p \in Copies(b) PROVE p \in Copies(c)
    BY <1>1, <1>2, CopyIn, CopyOf
  <2>3. <<x, n>> \in Copies(c)
    BY <1>1, <1>2, CopyOf
  <2> QED
    BY <2>1, <2>2, <2>3
<1>6. <<x, n>> \notin Copies(b)
  BY <1>3, CopyOf
<1>7. IsFiniteSet(Copies(c)) /\ Cardinality(Copies(c)) = Cardinality(Copies(b)) + 1
  <2> DEFINE old == Copies(b)
             top == <<x, n>>
  <2>1. IsFiniteSet(old) /\ top \notin old
    BY <1>0, <1>6
  <2> HIDE DEF old, top
  <2>2. IsFiniteSet(old \union {top}) /\ Cardinality(old \union {top}) = Cardinality(old) + 1
    BY <2>1, FS_AddElement
  <2> QED
    BY <1>5, <2>2 DEF old, top
<1>8. c \in Lists
  <2>1. DOMAIN c \in SUBSET Elem
    BY <1>0, <1>1
  <2> QED
    BY <1>1, <1>7, <2>1, ListForm
<1>9. Single(b) /\ x \notin BagToSet(b) => Single(c)
  BY <1>1, <1>4 DEF Single, BagToSet
<1> QED
  BY <1>1, <1>7, <1>8, <1>9 DEF c, Size, BagToSet

LEMMA RemoveOne ==
  ASSUME NEW b \in Lists, NEW x \in BagToSet(b)
  PROVE  /\ Bag!BagRemove(b, x) \in Lists
         /\ BagToSet(Bag!BagRemove(b, x)) \subseteq BagToSet(b)
         /\ Size(Bag!BagRemove(b, x)) = Size(b) - 1
         /\ Single(b) => /\ Single(Bag!BagRemove(b, x))
                         /\ x \notin BagToSet(Bag!BagRemove(b, x))
<1> DEFINE c == Bag!BagRemove(b, x)
<1>0. /\ DOMAIN b \in SUBSET Elem /\ IsFiniteSet(Copies(b)) /\ x \in DOMAIN b
      /\ b \in [DOMAIN b -> {i \in Nat : i > 0}]
  BY ListForm DEF BagToSet
<1>1. /\ DOMAIN c = IF b[x] = 1 THEN DOMAIN b \ {x} ELSE DOMAIN b
      /\ \A e \in DOMAIN c : c[e] = IF e = x THEN b[e] - 1 ELSE b[e]
      /\ c \in [DOMAIN c -> {i \in Nat : i > 0}]
  <2>1. CASE b[x] = 1
    BY <1>0, <2>1 DEF Bag!BagRemove
  <2>2. CASE b[x] # 1
    BY <1>0, <2>2 DEF Bag!BagRemove
  <2> QED
    BY <2>1, <2>2
<1> HIDE DEF c
<1>2. Copies(c) = Copies(b) \ {<<x, b[x]>>}
  <2>1. ASSUME NEW p \in Copies(c) PROVE p \in Copies(b) /\ p # <<x, b[x]>>
    <3>0. PICK e \in DOMAIN c : \E i \in 1 .. c[e] : p = <<e, i>>
      BY CopyIn
    <3>1. PICK i \in 1 .. c[e] : p = <<e, i>>
      BY <3>0
    <3>2. e \in DOMAIN b /\ i \in 1 .. b[e] /\ ~(e = x /\ i = b[x])
      BY <1>0, <1>1
    <3> QED
      BY <3>1, <3>2, CopyOf
  <2>2. ASSUME NEW p \in Copies(b), p # <<x, b[x]>> PROVE p \in Copies(c)
    <3>1. PICK e \in DOMAIN b : \E i \in 1 .. b[e] : p = <<e, i>>
      BY CopyIn
    <3>2. PICK i \in 1 .. b[e] : p = <<e, i>>
      BY <3>1
    <3>3. e \in DOMAIN c /\ i \in 1 .. c[e]
      <4>1. CASE e = x
        <5>1. i # b[x]
          BY <2>2, <3>2, <4>1
        <5> QED
          BY <1>0, <1>1, <4>1, <5>1
      <4>2. CASE e # x
        BY <1>0, <1>1, <4>2
      <4> QED
        BY <4>1, <4>2
    <3> QED
      BY <3>2, <3>3, CopyOf
  <2> QED
    BY <2>1, <2>2
<1>3. <<x, b[x]>> \in Copies(b)
  BY <1>0, CopyOf
<1>4. IsFiniteSet(Copies(c)) /\ Cardinality(Copies(c)) = Cardinality(Copies(b)) - 1
  <2> DEFINE old == Copies(b)
             top == <<x, b[x]>>
  <2>1. IsFiniteSet(old) /\ top \in old
    BY <1>0, <1>3
  <2> HIDE DEF old, top
  <2>2. IsFiniteSet(old \ {top}) /\ Cardinality(old \ {top}) = Cardinality(old) - 1
    BY <2>1, FS_RemoveElement
  <2> QED
    BY <1>2, <2>2 DEF old, top
<1>5. c \in Lists
  <2>1. DOMAIN c \in SUBSET Elem
    BY <1>0, <1>1
  <2> QED
    BY <1>1, <1>4, <2>1, ListForm
<1>6. Single(b) => Single(c) /\ x \notin DOMAIN c
  BY <1>0, <1>1 DEF Single, BagToSet
<1>7. DOMAIN c \subseteq DOMAIN b
  BY <1>1
<1> QED
  BY <1>4, <1>5, <1>6, <1>7 DEF c, Size, BagToSet

LEMMA PartOf ==
  ASSUME NEW b \in Lists, NEW h, DOMAIN h \subseteq DOMAIN b,
         h \in [DOMAIN h -> {i \in Nat : i > 0}], \A e \in DOMAIN h : h[e] <= b[e]
  PROVE  h \in Lists
<1>1. /\ DOMAIN b \in SUBSET Elem /\ IsFiniteSet(Copies(b))
      /\ b \in [DOMAIN b -> {i \in Nat : i > 0}]
  BY ListForm
<1>2. ASSUME NEW p \in Copies(h) PROVE p \in Copies(b)
  <2>1. PICK e \in DOMAIN h : \E i \in 1 .. h[e] : p = <<e, i>>
    BY CopyIn
  <2>2. PICK i \in 1 .. h[e] : p = <<e, i>>
    BY <2>1
  <2>3. e \in DOMAIN b /\ i \in 1 .. b[e]
    <3>1. h[e] \in Nat /\ b[e] \in Nat /\ h[e] <= b[e]
      BY <1>1
    <3> QED
      BY <3>1
  <2> QED
    BY <2>2, <2>3, CopyOf
<1>3. IsFiniteSet(Copies(h))
  BY <1>1, <1>2, FS_Subset
<1> QED
  BY <1>1, <1>3, ListForm

LEMMA SetAsList ==
  ASSUME GraphAssumption, NEW S \in SUBSET Elem
  PROVE  /\ SetToBag(S) \in Lists /\ BagToSet(SetToBag(S)) = S
         /\ Single(SetToBag(S))
<1> DEFINE b == SetToBag(S)
<1>1. DOMAIN b = S /\ \A e \in S : b[e] = 1
  BY DEF SetToBag
<1>2. b \in [DOMAIN b -> {i \in Nat : i > 0}]
  BY DEF SetToBag
<1> HIDE DEF b
<1>3. Copies(b) = S \X {1}
  <2>1. ASSUME NEW p \in Copies(b) PROVE p \in S \X {1}
    BY <1>1, CopyIn
  <2>2. ASSUME NEW e \in S PROVE <<e, 1>> \in Copies(b)
    BY <1>1, CopyOf
  <2> QED
    BY <2>1, <2>2
<1>4. IsFiniteSet(S) /\ IsFiniteSet({1})
  BY ElemFinite, FS_Singleton
<1>5. IsFiniteSet(S \X {1})
  BY <1>4, FS_Product
<1>6. b \in Lists
  BY <1>1, <1>2, <1>3, <1>5, ListForm
<1> QED
  BY <1>1, <1>6 DEF b, BagToSet, Single

LEMMA HeuristicKeeps ==
  ASSUME NEW b \in Lists, NEW m \in Nat, m > 0, NEW h \in Heuristic(b, m)
  PROVE  /\ h \in Lists /\ BagToSet(h) \subseteq BagToSet(b)
         /\ Size(h) <= m
         /\ b # EmptyBag => h # EmptyBag
         /\ Single(b) => Single(h)
<1>1. CASE Size(b) < m
  <2>1. h = b
    BY <1>1 DEF Heuristic
  <2> QED
    BY <1>1, <2>1, SizeZero
<1>2. CASE ~(Size(b) < m)
  <2>1. /\ h \in UNION {[S -> 1 .. m] : S \in (SUBSET BagToSet(b)) \ {{}}}
        /\ h \sqsubseteq b /\ Size(h) <= m
    BY <1>2 DEF Heuristic
  <2>2. PICK S \in SUBSET BagToSet(b) : S # {} /\ h \in [S -> 1 .. m]
    BY <2>1
  <2>3. DOMAIN h = S /\ \A e \in S : h[e] <= b[e]
    BY <2>1, <2>2 DEF \sqsubseteq
  <2>4. h \in [DOMAIN h -> {i \in Nat : i > 0}]
    BY <2>2, <2>3
  <2>5. h \in Lists
    BY <2>2, <2>3, <2>4, PartOf DEF BagToSet
  <2>6. h # EmptyBag
    BY <2>2, <2>3, SizeOfEmpty DEF BagToSet
  <2>7. Single(b) => Single(h)
    <3> SUFFICES ASSUME Single(b), NEW e \in S PROVE h[e] = 1
      BY <2>3 DEF Single, BagToSet
    <3>1. b[e] = 1 /\ h[e] <= b[e] /\ h[e] \in 1 .. m
      BY <2>2, <2>3 DEF Single
    <3> QED
      BY <3>1
  <2> QED
    BY <2>1, <2>2, <2>3, <2>5, <2>6, <2>7 DEF BagToSet
<1> QED
  BY <1>1, <1>2

LEMMA CandidatesKeep ==
  ASSUME GraphAssumption, NEW t, NEW result \in SUBSET Elem, NEW withEntry,
         withEntry => epcopy[t] \in Elem,
         NEW b \in Candidates(t, result, withEntry)
  PROVE  /\ b \in Lists
         /\ BagToSet(b) \subseteq result \union (IF withEntry THEN {epcopy[t]} ELSE {})
         /\ result # {} => b # EmptyBag
         /\ (withEntry => epcopy[t] \notin result) => Single(b)
<1> DEFINE r == SetToBag(result)
           a == IF withEntry THEN Bag!BagAdd(r, epcopy[t]) ELSE r
<1>1. r \in Lists /\ BagToSet(r) = result /\ Single(r)
  BY SetAsList
<1>2. /\ a \in Lists
      /\ BagToSet(a) = result \union (IF withEntry THEN {epcopy[t]} ELSE {})
      /\ (withEntry => epcopy[t] \notin result) => Single(a)
  <2> HIDE DEF r
  <2>1. CASE withEntry
    BY <1>1, <2>1, AddOne
  <2>2. CASE ~withEntry
    BY <1>1, <2>2
  <2> QED
    BY <2>1, <2>2
<1>3. b \in IF Size(a) > EfConstruction THEN {Bag!BagRemove(a, x) : x \in BagToSet(a)} ELSE {a}
  BY DEF Candidates
<1> HIDE DEF a
<1>4. CASE b = a
  <2>1. result # {} => b # EmptyBag
    BY <1>2, <1>4, SizeOfEmpty
  <2> QED
    BY <1>2, <1>4, <2>1
<1>5. CASE b # a
  <2>1. Size(a) > EfConstruction
    BY <1>3, <1>5
  <2>2. PICK x \in BagToSet(a) : b = Bag!BagRemove(a, x)
    BY <1>3, <2>1
  <2>3. /\ b \in Lists /\ BagToSet(b) \subseteq BagToSet(a) /\ Size(b) = Size(a) - 1
        /\ Single(a) => Single(b)
    BY <1>2, <2>2, RemoveOne
  <2>4. Size(b) # 0
    <3>1. EfConstruction \in Nat /\ EfConstruction > 0
      BY DEF GraphAssumption
    <3>2. Size(a) \in Nat
      BY <1>2, SizeZero
    <3> QED
      BY <2>1, <2>3, <3>1, <3>2
  <2>5. b # EmptyBag
    BY <2>4, SizeOfEmpty
  <2> QED
    BY <1>2, <2>3, <2>5
<1> QED
  BY <1>4, <1>5

-----------------------------------------------------------------------------
(* Steps.  A thread changes nothing of the other threads; elements keep    *)
(* their level, and what is linked stays linked.                           *)

Stays(u) ==
  /\ pc'[u] = pc[u] /\ op'[u] = op[u] /\ elem'[u] = elem[u]
  /\ maxcopy'[u] = maxcopy[u] /\ epcopy'[u] = epcopy[u] /\ epdel'[u] = epdel[u]
  /\ layer'[u] = layer[u] /\ cur'[u] = cur[u] /\ frontier'[u] = frontier[u]
  /\ found'[u] = found[u] /\ todo'[u] = todo[u]

OthersStay(t) == \A u \in Thread \ {t} : Stays(u)

RowStays(t) ==
  op'[t] = op[t] /\ elem'[t] = elem[t] /\ maxcopy'[t] = maxcopy[t]

Grows ==
  /\ count <= count' /\ \A e \in 1 .. count : level'[e] = level[e]
  /\ \A l \in Levels : Joined(l) \subseteq Joined(l)'
  /\ \A e : Full(e) => Full(e)'
  /\ deleted' \subseteq deleted /\ updates <= updates'

(* A thread that goes on inserting does not fall back.                     *)
Advances(t) ==
  Inserting(t)' /\ elem'[t] <= count =>
    /\ Inserting(t) /\ elem'[t] = elem[t]
    /\ pc[t] \in Publishing => pc'[t] \in Publishing
    /\ \A l \in Levels : HasReached(t, l) => HasReached(t, l)'

LEMMA Constants ==
  ASSUME GraphAssumption
  PROVE  /\ MaxElements \in Nat /\ MaxElements > 0 /\ MaxLevel \in Nat
         /\ M \in Nat /\ M > 0 /\ EfConstruction \in Nat /\ EfConstruction > 0
         /\ \A l \in Levels : l \in Nat /\ Mcurmax(l) \in Nat /\ Mcurmax(l) >= M
BY DEF GraphAssumption, Levels, Mcurmax

LEMMA JoinedIn ==
  ASSUME NEW e, NEW l
  PROVE  e \in Joined(l) <=>
           /\ e \in 1 .. count /\ level[e] >= l
           /\ \A t \in Thread : Inserting(t) /\ elem[t] = e => HasReached(t, l)
BY DEF Joined

LEMMA Growing ==
  ASSUME Types, NEW t \in Thread, OthersStay(t), Advances(t),
         count' \in Nat, count <= count', \A e \in 1 .. count : level'[e] = level[e],
         deleted' \subseteq deleted, updates <= updates'
  PROVE  Grows
<1>0. count \in Nat /\ 1 .. count \subseteq 1 .. count'
  BY DEF Types
<1>1. ASSUME NEW u \in Thread, u # t
      PROVE  /\ Inserting(u)' <=> Inserting(u)
             /\ elem'[u] = elem[u] /\ pc'[u] = pc[u]
             /\ \A l : HasReached(u, l)' <=> HasReached(u, l)
  BY <1>1 DEF OthersStay, Stays, Inserting, HasReached
<1>2. ASSUME NEW l \in Levels, NEW e \in Joined(l) PROVE e \in Joined(l)'
  <2>1. e \in 1 .. count' /\ level'[e] >= l
    BY <1>0 DEF Joined
  <2>2. ASSUME NEW u \in Thread, Inserting(u)', elem'[u] = e PROVE HasReached(u, l)'
    <3>1. CASE u = t
      <4>1. elem'[u] <= count
        BY <1>0, <2>2 DEF Joined
      <4>2. Inserting(t) /\ elem[t] = e
        BY <2>2, <3>1, <4>1 DEF Advances
      <4>3. HasReached(t, l)
        BY <4>2, JoinedIn
      <4> QED
        BY <2>2, <3>1, <4>1, <4>3 DEF Advances
    <3>2. CASE u # t
      BY <1>1, <2>2, <3>2, JoinedIn
    <3> QED
      BY <3>1, <3>2
  <2> QED
    BY <2>1, <2>2 DEF Joined
<1>3. ASSUME NEW e, Full(e) PROVE Full(e)'
  <2>1. e \in 1 .. count /\ e \in 1 .. count'
    BY <1>0, <1>3 DEF Full
  <2>2. ASSUME NEW u \in Thread, Inserting(u)', elem'[u] = e PROVE pc'[u] \in Publishing
    <3>1. CASE u = t
      <4>1. elem'[u] <= count
        BY <1>0, <2>1, <2>2
      <4>2. Inserting(t) /\ elem[t] = e
        BY <2>2, <3>1, <4>1 DEF Advances
      <4>3. pc[t] \in Publishing
        BY <1>3, <4>2 DEF Full
      <4> QED
        BY <2>2, <3>1, <4>1, <4>3 DEF Advances
    <3>2. CASE u # t
      BY <1>1, <1>3, <2>2, <3>2 DEF Full
    <3> QED
      BY <3>1, <3>2
  <2> QED
    BY <2>1, <2>2 DEF Full
<1> QED
  BY <1>2, <1>3 DEF Grows

LEMMA FullJoins ==
  ASSUME NEW e, Full(e), NEW l, level[e] >= l
  PROVE  e \in Joined(l)
<1>1. ASSUME NEW t \in Thread, Inserting(t), elem[t] = e PROVE HasReached(t, l)
  BY <1>1 DEF Full, HasReached, Publishing
<1> QED
  BY <1>1 DEF Full, Joined

(* The elements a row knows exist.                                         *)
LEMMA RowElems ==
  ASSUME Types, ThreadTypes, NEW t \in Thread, RowKept(t)
  PROVE  /\ count \in Nat /\ 1 .. count \subseteq Elem
         /\ pc[t] # "idle" => elem[t] \in 1 .. count
         /\ pc[t] \in Walking => cur[t] \in 1 .. count
         /\ pc[t] \in Walking \union Linking \union Hopping =>
              Full(epcopy[t]) /\ epcopy[t] \in 1 .. count
<1>1. count \in Nat /\ count <= MaxElements
  BY DEF Types
<1>2. /\ elem[t] \in 0 .. MaxElements /\ cur[t] \in 0 .. MaxElements
      /\ op[t] \in {"insert", "update"} /\ MaxElements \in Nat
  BY GraphAssumption DEF ThreadTypes, GraphAssumption
<1>3. /\ pc[t] # "idle" => elem[t] \in 1 .. count
      /\ pc[t] \in Walking => cur[t] \in 1 .. count
  BY <1>1, <1>2 DEF RowKept, PlaceKept, CurKept, None
<1>4. ASSUME pc[t] \in Walking \union Linking \union Hopping PROVE Full(epcopy[t])
  <2>1. Inserting(t) \/ Updating(t)
    BY <1>2, <1>4 DEF Inserting, Updating, Walking, Linking, Hopping, Searching
  <2>2. CASE Inserting(t)
    BY <1>4, <2>2
    DEF RowKept, CopiesKept, Past, Walking, Linking, Hopping, Searching, Publishing
  <2>3. CASE Updating(t)
    BY <1>4, <2>3
    DEF RowKept, CopiesKept, Walking, Linking, Hopping, Searching
  <2> QED
    BY <2>1, <2>2, <2>3
<1>5. 1 .. count \subseteq Elem
  BY <1>1, <1>2 DEF Elem
<1> QED
  BY <1>1, <1>3, <1>4, <1>5 DEF Full

LEMMA RowStill ==
  ASSUME Types, ThreadTypes, count' \in Nat, updates' \in Nat, Grows,
         NEW u \in Thread, Stays(u), RowKept(u)
  PROVE  RowKept(u)'
<1>0. /\ pc'[u] = pc[u] /\ op'[u] = op[u] /\ elem'[u] = elem[u]
      /\ maxcopy'[u] = maxcopy[u] /\ epcopy'[u] = epcopy[u] /\ epdel'[u] = epdel[u]
      /\ layer'[u] = layer[u] /\ cur'[u] = cur[u] /\ frontier'[u] = frontier[u]
      /\ found'[u] = found[u] /\ todo'[u] = todo[u]
  BY DEF Stays
<1>1. Inserting(u)' = Inserting(u) /\ Updating(u)' = Updating(u) /\ Past(u)' = Past(u)
      /\ AtStart(u)' = AtStart(u)
  BY <1>0 DEF Inserting, Updating, Past, AtStart
<1>2. /\ pc[u] # "idle" => elem[u] \in 1 .. count
      /\ pc[u] \in Walking => cur[u] \in 1 .. count
      /\ pc[u] \in Walking \union Linking \union Hopping => epcopy[u] \in 1 .. count
  BY RowElems
<1>3. \A e \in 1 .. count : level'[e] = level[e]
  BY DEF Grows
<1>4. PlaceKept(u)'
  <2>1. /\ elem[u] \in Nat /\ epcopy[u] \in Nat /\ cur[u] \in Nat
        /\ count \in Nat /\ updates \in Nat
    BY Constants, GraphAssumption DEF ThreadTypes, Types
  <2>2. PlaceKept(u) /\ count <= count' /\ deleted' \subseteq deleted /\ updates <= updates'
    BY DEF RowKept, Grows
  <2> QED
    BY <1>0, <1>1, <2>1, <2>2 DEF PlaceKept
<1>5. CopiesKept(u)'
  <2>1. CopiesKept(u) /\ \A e : Full(e) => Full(e)'
    BY DEF RowKept, Grows
  <2>2. \A e : Full(e) => level'[e] = level[e]
    BY <1>3 DEF Full
  <2>3. Updating(u) => level'[elem[u]] = level[elem[u]]
    BY <1>2, <1>3 DEF Updating
  <2> QED
    BY <1>0, <1>1, <2>1, <2>2, <2>3 DEF CopiesKept
<1>6. LayerKept(u)'
  <2>1. LayerKept(u) /\ (pc[u] # "idle" => level'[elem[u]] = level[elem[u]])
    BY <1>2, <1>3 DEF RowKept
  <2> QED
    BY <1>0, <2>1 DEF LayerKept, Searching, Linking, Hopping
<1>7. CurKept(u)'
  <2>1. /\ CurKept(u) /\ (pc[u] \in Walking => level'[cur[u]] = level[cur[u]])
        /\ pc[u] \in Walking \union Linking => level'[epcopy[u]] = level[epcopy[u]]
    BY <1>2, <1>3 DEF RowKept
  <2> QED
    BY <1>0, <1>1, <2>1 DEF CurKept
<1>8. SetsKept(u)'
  <2>1. SetsKept(u) /\ layer[u] \in Levels /\ \A l \in Levels : Joined(l) \subseteq Joined(l)'
    BY DEF RowKept, Grows, ThreadTypes
  <2> QED
    BY <1>0, <2>1 DEF SetsKept
<1> QED
  BY <1>4, <1>5, <1>6, <1>7, <1>8 DEF RowKept

(* Rows stay apart when none begins.                                       *)
LEMMA ApartStays ==
  ASSUME Apart, NEW t \in Thread, OthersStay(t),
         pc'[t] # "idle" => pc[t] # "idle" /\ elem'[t] = elem[t]
  PROVE  Apart'
<1> SUFFICES ASSUME NEW u \in Thread, NEW v \in Thread, u # v,
                    pc'[u] # "idle", pc'[v] # "idle"
             PROVE  elem'[u] # elem'[v]
  BY DEF Apart
<1>1. pc[u] # "idle" /\ elem'[u] = elem[u]
  BY DEF OthersStay, Stays
<1>2. pc[v] # "idle" /\ elem'[v] = elem[v]
  BY DEF OthersStay, Stays
<1> QED
  BY <1>1, <1>2 DEF Apart

(* The invariant is kept when its parts are.                               *)
LEMMA Assemble ==
  ASSUME Kept, NEW t \in Thread, OthersStay(t), Grows, Types', ThreadTypes', Apart',
         RowKept(t)', Ranks', EntryKept', ListsKept'
  PROVE  Kept'
<1>1. ASSUME NEW u \in Thread PROVE RowKept(u)'
  <2>1. count' \in Nat /\ updates' \in Nat
    BY DEF Types
  <2>2. CASE u # t
    BY <2>1, <2>2, RowStill DEF Kept, OthersStay
  <2> QED
    BY <2>2
<1> QED
  BY <1>1 DEF Kept

(* A step between reading the entry point and publishing a new one leaves  *)
(* the top as it is, and so does any step of an update.                    *)
LEMMA TopOfInsert ==
  ASSUME Types, ThreadTypes, Ranks, EntryKept, NEW t \in Thread, OthersStay(t), Grows,
         UNCHANGED <<count, level, enterpoint_node_, maxlevel_, global>>,
         RowStays(t), Inserting(t),
         pc[t] \notin {"global"} \union Publishing,
         pc[t] = "entry" => maxcopy[t] # -1,
         pc'[t] \notin {"idle", "global", "entry", "publishlevel", "publishentry"}
  PROVE  Ranks' /\ EntryKept'
<1>1. ASSUME NEW u \in Thread
      PROVE  /\ Inserting(u)' = Inserting(u) /\ Past(u)' = Past(u)
             /\ elem'[u] = elem[u] /\ maxcopy'[u] = maxcopy[u]
             /\ u # t => pc'[u] = pc[u]
  BY DEF OthersStay, Stays, RowStays, Inserting, Past
<1>2. Base' = Base
  BY <1>1 DEF Base, Types
<1>3. \A e : LockFree(e)' = LockFree(e)
  BY <1>1 DEF LockFree
<1>4. Ranks'
  BY <1>1, <1>2, <1>3 DEF Ranks, Types
<1>5. global # Nobody => global \in Thread
  BY DEF Types
<1>6. First' = First /\ ~(First /\ global = t)
  BY <1>1, <1>5 DEF First, EntryKept
<1>7. global # Nobody =>
        /\ pc'[global] = "publishentry" <=> pc[global] = "publishentry"
        /\ pc'[global] = "publishlevel" <=> pc[global] = "publishlevel"
        /\ elem'[global] = elem[global]
  BY <1>1, <1>5 DEF Publishing
<1>8. Full(enterpoint_node_) => Full(enterpoint_node_)'
  BY DEF Grows
<1>9. First' => pc'[global] \in Publishing
  BY <1>1, <1>5, <1>6 DEF EntryKept, First
<1>10. /\ enterpoint_node_' = enterpoint_node_ /\ maxlevel_' = maxlevel_
       /\ global' = global /\ level' = level
  OBVIOUS
<1>11. maxlevel_' = IF First' \/ (global' # Nobody /\ pc'[global'] = "publishentry")
                    THEN level'[elem'[global']]
                    ELSE Base'
  BY <1>2, <1>6, <1>7, <1>10 DEF EntryKept, First
<1>12. IF global' # Nobody /\ pc'[global'] = "publishlevel"
       THEN enterpoint_node_' = elem'[global']
       ELSE IF Base' = -1
            THEN enterpoint_node_' = IF First' THEN 1 ELSE None
            ELSE Full(enterpoint_node_)' /\ level'[enterpoint_node_'] = Base'
  BY <1>2, <1>6, <1>7, <1>8, <1>10 DEF EntryKept
<1> QED
  BY <1>4, <1>9, <1>10, <1>11, <1>12 DEF EntryKept

LEMMA TopOfUpdate ==
  ASSUME Types, ThreadTypes, Ranks, EntryKept, NEW t \in Thread, OthersStay(t), Grows,
         UNCHANGED <<count, level, enterpoint_node_, maxlevel_, global>>,
         ~Inserting(t), ~Inserting(t)'
  PROVE  Ranks' /\ EntryKept'
<1>0. global # t
  BY NobodyAssumption DEF Ranks, Past
<1>1. ASSUME NEW u \in Thread
      PROVE  /\ Inserting(u)' = Inserting(u) /\ Past(u)' = Past(u)
             /\ u # t => /\ pc'[u] = pc[u] /\ elem'[u] = elem[u]
                         /\ maxcopy'[u] = maxcopy[u]
  BY DEF OthersStay, Stays, Inserting, Past
<1>2. Base' = Base
  BY <1>0, <1>1 DEF Base, Types
<1>3. \A e : LockFree(e)' = LockFree(e)
  BY <1>1 DEF LockFree
<1>4. Ranks'
  <2>1. \A u \in Thread : Past(u) => u # t
    BY DEF Past
  <2> QED
    BY <1>1, <1>2, <1>3, <2>1 DEF Ranks, Types
<1>5. global # Nobody =>
        pc'[global] = pc[global] /\ elem'[global] = elem[global]
        /\ maxcopy'[global] = maxcopy[global]
  BY <1>0, <1>1 DEF Types
<1>6. First' = First
  BY <1>5 DEF First
<1>7. Full(enterpoint_node_) => Full(enterpoint_node_)'
  BY DEF Grows
<1>8. /\ enterpoint_node_' = enterpoint_node_ /\ maxlevel_' = maxlevel_
      /\ global' = global /\ level' = level
  OBVIOUS
<1>9. maxlevel_' = IF First' \/ (global' # Nobody /\ pc'[global'] = "publishentry")
                   THEN level'[elem'[global']]
                   ELSE Base'
  BY <1>2, <1>5, <1>6, <1>8 DEF EntryKept, First
<1>10. IF global' # Nobody /\ pc'[global'] = "publishlevel"
       THEN enterpoint_node_' = elem'[global']
       ELSE IF Base' = -1
            THEN enterpoint_node_' = IF First' THEN 1 ELSE None
            ELSE Full(enterpoint_node_)' /\ level'[enterpoint_node_'] = Base'
  BY <1>2, <1>5, <1>6, <1>7, <1>8 DEF EntryKept
<1>11. First' => pc'[global'] \in Publishing
  BY <1>5, <1>6, <1>8 DEF EntryKept, First
<1> QED
  BY <1>4, <1>8, <1>9, <1>10, <1>11 DEF EntryKept

(* What the entry point is worth when it is read.                          *)
LEMMA EntryReady ==
  ASSUME Kept, Base # -1
  PROVE  /\ Full(enterpoint_node_) /\ enterpoint_node_ # None
         /\ level[enterpoint_node_] >= Base
<1>0. Types /\ ThreadTypes /\ Ranks /\ EntryKept /\ Apart
  BY DEF Kept
<1>1. Base \in Levels \union {-1}
  BY <1>0 DEF Base, Types, ThreadTypes
<1>2. CASE global # Nobody /\ pc[global] = "publishlevel"
  <2>1. /\ global \in Thread /\ enterpoint_node_ = elem[global] /\ Past(global)
        /\ Base = maxcopy[global] /\ level[elem[global]] > maxcopy[global]
    BY <1>0, <1>2 DEF EntryKept, Ranks, Types, Base
  <2>2. elem[global] \in 1 .. count
    BY <1>0, <1>2, <2>1, RowElems DEF Kept
  <2>3. Full(elem[global])
    BY <1>0, <1>2, <2>1, <2>2 DEF Full, Inserting, Apart, Publishing
  <2>4. level[elem[global]] >= Base
    <3>1. elem[global] \in Elem
      BY <1>0, <2>2, RowElems, <2>1 DEF Kept
    <3>2. level[elem[global]] \in Nat
      BY <1>0, <3>1, GraphAssumption, Constants DEF Types
    <3>3. Base \in Int
      BY <1>1, GraphAssumption, Constants
    <3> QED
      BY <2>1, <3>2, <3>3
  <2> QED
    BY <2>1, <2>2, <2>3, <2>4 DEF None
<1>3. CASE ~(global # Nobody /\ pc[global] = "publishlevel")
  <2>1. Full(enterpoint_node_) /\ level[enterpoint_node_] = Base
    BY <1>0, <1>3 DEF EntryKept
  <2> QED
    BY <1>1, <2>1, GraphAssumption, Constants DEF Full, None, Levels
<1> QED
  BY <1>2, <1>3

LEMMA EntryOfInsert ==
  ASSUME Kept, NEW t \in Thread, Inserting(t), pc[t] = "entry"
  PROVE  /\ enterpoint_node_ = None => Base = -1 /\ maxcopy[t] = -1 /\ global = t
         /\ enterpoint_node_ # None =>
              /\ Full(enterpoint_node_)
              /\ maxcopy[t] \in 0 .. level[enterpoint_node_]
<1>0. Types /\ ThreadTypes /\ Ranks /\ EntryKept /\ RowKept(t)
  BY DEF Kept
<1>1. Base \in Levels \union {-1} /\ maxcopy[t] \in Levels \union {-1}
  BY <1>0 DEF Base, Types, ThreadTypes
<1>2. /\ maxcopy[t] <= Base
      /\ global = t <=> level[elem[t]] > maxcopy[t]
  BY <1>0 DEF Ranks, Past
<1>3. elem[t] \in Elem
  BY <1>0, RowElems
<1>4. level[elem[t]] \in Levels
  BY <1>0, <1>3 DEF Types
<1>5. maxcopy[t] = -1 => global = t /\ Base = -1
  BY <1>1, <1>2, <1>4, NobodyAssumption, Constants, GraphAssumption DEF Base, Levels
<1>6. Base = -1 => maxcopy[t] = -1
  BY <1>1, <1>2, Constants, GraphAssumption DEF Levels
<1>7. Base = -1 => enterpoint_node_ = None
  BY <1>0, <1>5, <1>6 DEF EntryKept, First
<1>8. ASSUME Base # -1
      PROVE  /\ Full(enterpoint_node_) /\ enterpoint_node_ # None
             /\ maxcopy[t] \in 0 .. level[enterpoint_node_]
  <2>1. /\ Full(enterpoint_node_) /\ enterpoint_node_ # None
        /\ level[enterpoint_node_] >= Base
    BY <1>8, EntryReady
  <2>2. enterpoint_node_ \in Elem
    BY <1>0, <2>1, RowElems DEF Full
  <2>3. level[enterpoint_node_] \in Levels
    BY <1>0, <2>2 DEF Types
  <2> QED
    BY <1>1, <1>2, <1>5, <1>8, <2>1, <2>3, Constants, GraphAssumption DEF Levels
<1> QED
  BY <1>5, <1>6, <1>7, <1>8

(* A step after which only the row and the lists have to be looked at.     *)
Quiet(t) ==
  \/ /\ Inserting(t) /\ RowStays(t)
     /\ pc[t] \notin {"global"} \union Publishing
     /\ pc[t] = "entry" => maxcopy[t] # -1
     /\ pc'[t] \notin {"idle", "global", "entry", "publishlevel", "publishentry"}
  \/ ~Inserting(t) /\ ~Inserting(t)'

LEMMA StepKeeps ==
  ASSUME Kept, NEW t \in Thread, OthersStay(t), Advances(t), Quiet(t),
         UNCHANGED <<count, level, enterpoint_node_, maxlevel_, global>>,
         deleted' \subseteq deleted, updates <= updates',
         Types', ThreadTypes', Apart',
         Grows => RowKept(t)', Grows => ListsKept'
  PROVE  Kept'
<1>0. Types /\ ThreadTypes /\ Ranks /\ EntryKept
  BY DEF Kept
<1>1. count \in Nat /\ count' = count /\ level' = level
  BY <1>0 DEF Types
<1>2. Grows
  BY <1>0, <1>1, Growing
<1>3. Ranks' /\ EntryKept'
  BY <1>0, <1>2, TopOfInsert, TopOfUpdate DEF Quiet
<1> QED
  BY <1>2, <1>3, Assemble

-----------------------------------------------------------------------------
(* Writing lists.                                                          *)

LEMMA ListsStay ==
  ASSUME Types, ListsKept, Grows, links' = links
  PROVE  ListsKept'
BY DEF ListsKept, Grows

LEMMA OneListChanges ==
  ASSUME Types, NEW x \in Elem, NEW k \in Levels, NEW new \in Lists,
         links' = [links EXCEPT ![x][k] = new]
  PROVE  /\ links' \in [Elem -> [Levels -> Lists]]
         /\ links'[x][k] = new
         /\ \A e \in Elem, l \in Levels : e # x \/ l # k => links'[e][l] = links[e][l]
BY DEF Types

LEMMA ListsAfterWrite ==
  ASSUME Types, ListsKept, Grows, NEW x \in Elem, NEW k \in Levels, NEW new \in Lists,
         links' = [links EXCEPT ![x][k] = new],
         x \in Joined(k)', BagToSet(new) \subseteq Joined(k)' \ {x},
         Size(new) <= Mcurmax(k)
  PROVE  ListsKept'
<1>1. /\ links'[x][k] = new
      /\ \A e \in Elem, l \in Levels : e # x \/ l # k => links'[e][l] = links[e][l]
  BY DEF Types
<1> SUFFICES ASSUME NEW e \in Elem, NEW l \in Levels
             PROVE  /\ BagToSet(links'[e][l]) \subseteq Joined(l)' \ {e}
                    /\ Size(links'[e][l]) <= Mcurmax(l)
                    /\ e \notin Joined(l)' => links'[e][l] = EmptyBag
  BY DEF ListsKept
<1>2. CASE e = x /\ l = k
  BY <1>1, <1>2
<1>3. CASE e # x \/ l # k
  BY <1>1, <1>3 DEF ListsKept, Grows
<1> QED
  BY <1>2, <1>3

(* A list that can be read under its lock belongs to an element that is    *)
(* linked, if it exists.                                                   *)
LEMMA FreeJoins ==
  ASSUME NEW e \in 1 .. count, LockFree(e), NEW l, HasList(e, l)
  PROVE  e \in Joined(l)
BY DEF LockFree, HasList, Joined

(* An insert is not linked yet where it still searches, ...                *)
LEMMA NotJoined ==
  ASSUME ThreadTypes, NEW t \in Thread, Inserting(t), pc[t] \in Searching
  PROVE  elem[t] \notin Joined(layer[t])
<1>1. ~HasReached(t, layer[t])
  BY Constants, GraphAssumption DEF HasReached, Searching, ThreadTypes
<1> QED
  BY <1>1, JoinedIn

(* ... and an update's element was linked before.                          *)
LEMMA UpdateJoined ==
  ASSUME Types, ThreadTypes, Apart, NEW t \in Thread, Updating(t), RowKept(t),
         NEW l, level[elem[t]] >= l
  PROVE  elem[t] \in Joined(l)
<1>1. elem[t] \in 1 .. count
  BY RowElems DEF Updating
<1>2. \A u \in Thread : Inserting(u) => elem[u] # elem[t]
  BY DEF Apart, Inserting, Updating
<1> QED
  BY <1>1, <1>2, JoinedIn

-----------------------------------------------------------------------------
(* Inserts, up to the search of the levels.                                *)

LEMMA StartInsertKeeps ==
  ASSUME Kept, NEW t \in Thread, StartInsert(t)
  PROVE  Kept'
<1>0. Types /\ ThreadTypes /\ Apart /\ Ranks /\ EntryKept /\ ListsKept /\ RowKept(t)
  BY DEF Kept
<1>1. PICK k \in Levels : level' = [level EXCEPT ![count + 1] = k]
  BY DEF StartInsert
<1>2. /\ pc[t] = "idle" /\ pc'[t] = "global" /\ op'[t] = "insert"
      /\ elem'[t] = count + 1 /\ maxcopy'[t] = maxcopy[t] /\ epcopy'[t] = epcopy[t]
      /\ cur'[t] = cur[t]
  BY <1>0 DEF StartInsert, Goto, ThreadTypes, walk
<1>3. /\ count' = count + 1 /\ count \in Nat /\ count < MaxElements /\ MaxElements \in Nat
      /\ UNCHANGED <<links, deleted, enterpoint_node_, maxlevel_, global, wild,
                     updates, marks>>
  BY <1>0, Constants, GraphAssumption DEF StartInsert, Types, bounds
<1>4. OthersStay(t)
  BY <1>0 DEF StartInsert, Goto, ThreadTypes, OthersStay, Stays, walk
<1>5. Types'
  <2>1. level' \in [Elem -> Levels]
    BY <1>0, <1>1 DEF Types
  <2> QED
    BY <1>0, <1>3, <2>1 DEF Types
<1>6. ThreadTypes'
  <2>1. count + 1 \in 0 .. MaxElements
    BY <1>3
  <2>2. elem' \in [Thread -> 0 .. MaxElements]
    BY <1>0, <2>1 DEF StartInsert, ThreadTypes
  <2>3. /\ pc' \in [Thread -> {"idle"} \union InsertPlace \union UpdatePlace]
        /\ op' \in [Thread -> {"insert", "update"}]
    BY <1>0 DEF StartInsert, Goto, ThreadTypes, InsertPlace
  <2> QED
    BY <1>0, <2>2, <2>3 DEF StartInsert, ThreadTypes, walk
<1>7. \A e \in 1 .. count : level'[e] = level[e]
  BY <1>0, <1>1, <1>3 DEF Types, Elem
<1>8. Grows
  <2>1. Advances(t)
    BY <1>2, <1>3 DEF Advances
  <2> QED
    BY <1>0, <1>3, <1>4, <1>7, <2>1, Growing DEF Types
<1>9. RowKept(t)'
  <2>1. PlaceKept(t)'
    BY <1>0, <1>2, <1>3
    DEF RowKept, PlaceKept, Inserting, Updating, InsertPlace, None, ThreadTypes
  <2> QED
    BY <1>2, <2>1
    DEF RowKept, CopiesKept, LayerKept, CurKept, SetsKept, Inserting, Updating, Past,
        Walking, Searching, Linking, Hopping
<1>10. \A u \in Thread : u # t => /\ pc'[u] = pc[u] /\ elem'[u] = elem[u]
                                  /\ maxcopy'[u] = maxcopy[u]
                                  /\ Inserting(u)' = Inserting(u) /\ Past(u)' = Past(u)
  BY <1>4 DEF OthersStay, Stays, Inserting, Past
<1>11. \A u \in Thread : pc[u] # "idle" => elem[u] \in 1 .. count
  BY <1>0, RowElems DEF Kept
<1>12. ~Past(t) /\ ~Past(t)' /\ global # t
  BY <1>0, <1>2, NobodyAssumption DEF Past, Ranks, Inserting
<1>13. Apart'
  <2> SUFFICES ASSUME NEW u \in Thread, NEW v \in Thread, u # v,
                      pc'[u] # "idle", pc'[v] # "idle"
               PROVE  elem'[u] # elem'[v]
    BY DEF Apart
  <2>1. CASE u # t /\ v # t
    BY <1>0, <1>10, <2>1 DEF Apart
  <2>2. CASE u = t
    BY <1>2, <1>3, <1>10, <1>11, <2>2
  <2>3. CASE v = t
    BY <1>2, <1>3, <1>10, <1>11, <2>3
  <2> QED
    BY <2>1, <2>2, <2>3
<1>14. Base' = Base
  BY <1>0, <1>3, <1>10, <1>12 DEF Base, Types
<1>15. Ranks'
  <2>1. ASSUME NEW u \in Thread, Past(u)'
        PROVE  maxcopy'[u] <= Base' /\ (global' = u <=> level'[elem'[u]] > maxcopy'[u])
    <3>1. u # t /\ Past(u) /\ elem[u] \in 1 .. count
      BY <1>10, <1>11, <1>12, <2>1 DEF Past, Inserting
    <3> QED
      BY <1>0, <1>3, <1>7, <1>10, <1>14, <3>1 DEF Ranks
  <2>2. global' # Nobody => Past(global)'
    BY <1>0, <1>3, <1>10, <1>12 DEF Ranks, Types, Past, Inserting
  <2>3. ASSUME NEW e \in 1 .. count', LockFree(e)' PROVE level'[e] <= Base'
    <3>1. e # count + 1
      BY <1>2, <2>3 DEF LockFree, Inserting
    <3>2. e \in 1 .. count
      BY <1>3, <3>1
    <3>3. LockFree(e)
      BY <1>2, <1>10, <2>3 DEF LockFree, Inserting
    <3> QED
      BY <1>0, <1>7, <1>14, <3>2, <3>3 DEF Ranks
  <2>4. Base' <= maxlevel_'
    BY <1>0, <1>3, <1>14 DEF Ranks
  <2> QED
    BY <2>1, <2>2, <2>3, <2>4 DEF Ranks
<1>16. EntryKept'
  <2>1. global # Nobody => /\ pc'[global] = pc[global] /\ elem'[global] = elem[global]
                           /\ maxcopy'[global] = maxcopy[global]
                           /\ level'[elem[global]] = level[elem[global]]
    <3> SUFFICES ASSUME global # Nobody
                 PROVE  /\ pc'[global] = pc[global] /\ elem'[global] = elem[global]
                        /\ maxcopy'[global] = maxcopy[global]
                        /\ level'[elem[global]] = level[elem[global]]
      OBVIOUS
    <3>1. global \in Thread /\ global # t /\ pc[global] # "idle"
      BY <1>0, <1>12 DEF Types, Ranks, Past, Inserting
    <3> QED
      BY <1>7, <1>10, <1>11, <3>1
  <2>2. First' = First
    BY <1>3, <2>1 DEF First
  <2>3. Full(enterpoint_node_) =>
          Full(enterpoint_node_)' /\ level'[enterpoint_node_] = level[enterpoint_node_]
    BY <1>3, <1>7, <1>8 DEF Grows, Full
  <2>4. maxlevel_' = IF First' \/ (global' # Nobody /\ pc'[global'] = "publishentry")
                     THEN level'[elem'[global']]
                     ELSE Base'
    BY <1>0, <1>3, <1>14, <2>1, <2>2 DEF EntryKept, First
  <2>5. IF global' # Nobody /\ pc'[global'] = "publishlevel"
        THEN enterpoint_node_' = elem'[global']
        ELSE IF Base' = -1
             THEN enterpoint_node_' = IF First' THEN 1 ELSE None
             ELSE Full(enterpoint_node_)' /\ level'[enterpoint_node_'] = Base'
    BY <1>0, <1>3, <1>14, <2>1, <2>2, <2>3 DEF EntryKept
  <2>6. First' => pc'[global'] \in Publishing
    BY <1>0, <1>3, <2>1, <2>2 DEF EntryKept, First
  <2> QED
    BY <2>4, <2>5, <2>6 DEF EntryKept
<1>17. ListsKept'
  BY <1>0, <1>3, <1>8, ListsStay
<1> QED
  BY <1>4, <1>5, <1>6, <1>8, <1>9, <1>13, <1>15, <1>16, <1>17, Assemble

LEMMA TakeGlobalKeeps ==
  ASSUME Kept, NEW t \in Thread, TakeGlobal(t)
  PROVE  Kept'
<1>0. Types /\ ThreadTypes /\ Apart /\ Ranks /\ EntryKept /\ ListsKept /\ RowKept(t)
  BY DEF Kept
<1>1. /\ pc[t] = "global" /\ global = Nobody /\ pc'[t] = "entry"
      /\ op'[t] = op[t] /\ elem'[t] = elem[t] /\ epcopy'[t] = epcopy[t]
      /\ cur'[t] = cur[t] /\ maxcopy'[t] = maxlevel_
      /\ global' = IF level[elem[t]] > maxlevel_ THEN t ELSE Nobody
      /\ UNCHANGED <<count, level, links, deleted, enterpoint_node_, maxlevel_, wild,
                     updates, marks>>
  BY <1>0 DEF TakeGlobal, Goto, ThreadTypes, walk, graph, bounds
<1>2. op[t] = "insert"
  BY <1>0, <1>1
  DEF RowKept, PlaceKept, Updating, UpdatePlace, ThreadTypes, Hopping, Searching, Linking
<1>3. OthersStay(t)
  BY <1>0 DEF TakeGlobal, Goto, ThreadTypes, OthersStay, Stays, walk
<1>4. Types'
  BY <1>0, <1>1 DEF Types
<1>5. ThreadTypes'
  <2>1. /\ pc' \in [Thread -> {"idle"} \union InsertPlace \union UpdatePlace]
        /\ maxcopy' \in [Thread -> Levels \union {-1}]
    BY <1>0 DEF TakeGlobal, Goto, ThreadTypes, InsertPlace, Types
  <2> QED
    BY <1>0, <2>1 DEF TakeGlobal, ThreadTypes, walk
<1>6. Grows
  <2>1. Advances(t)
    BY <1>1, <1>2 DEF Advances, Inserting, Publishing, HasReached
  <2> QED
    BY <1>0, <1>1, <1>3, <2>1, Growing DEF Types
<1>7. RowKept(t)'
  <2>1. PlaceKept(t)'
    BY <1>0, <1>1, <1>2
    DEF RowKept, PlaceKept, Inserting, Updating, InsertPlace
  <2> QED
    BY <1>1, <1>2, <2>1
    DEF RowKept, CopiesKept, LayerKept, CurKept, SetsKept, Inserting, Updating, Past,
        Walking, Searching, Linking, Hopping
<1>8. Apart'
  BY <1>0, <1>1, <1>3, ApartStays
<1>9. \A u \in Thread : /\ elem'[u] = elem[u] /\ Inserting(u)' = Inserting(u)
                        /\ u # t => /\ pc'[u] = pc[u] /\ maxcopy'[u] = maxcopy[u]
                                    /\ Past(u)' = Past(u)
  BY <1>1, <1>3 DEF OthersStay, Stays, Inserting, Past
<1>10. Base = maxlevel_ /\ Base' = maxlevel_ /\ maxlevel_ \in Int
  BY <1>0, <1>1, Constants, GraphAssumption DEF Base, Types
<1>11. Ranks'
  <2>1. ASSUME NEW u \in Thread, Past(u)'
        PROVE  maxcopy'[u] <= Base' /\ (global' = u <=> level'[elem'[u]] > maxcopy'[u])
    <3>1. CASE u = t
      BY <1>1, <1>10, <3>1, NobodyAssumption
    <3>2. CASE u # t
      <4>1. Past(u) /\ maxcopy[u] <= Base /\ ~(level[elem[u]] > maxcopy[u])
        BY <1>0, <1>1, <1>9, <2>1, <3>2, NobodyAssumption DEF Ranks
      <4>2. global' # u
        BY <1>1, <3>2, NobodyAssumption
      <4> QED
        BY <1>1, <1>9, <1>10, <3>2, <4>1, <4>2
    <3> QED
      BY <3>1, <3>2
  <2>2. global' # Nobody => Past(global)'
    BY <1>1, <1>2 DEF Past, Inserting
  <2>3. ASSUME NEW e \in 1 .. count', LockFree(e)' PROVE level'[e] <= Base'
    BY <1>0, <1>1, <1>9, <1>10, <2>3 DEF Ranks, LockFree
  <2> QED
    BY <1>1, <1>10, <2>1, <2>2, <2>3 DEF Ranks
<1>12. EntryKept'
  <2>1. ~First /\ ~First'
    BY <1>1 DEF First
  <2>2. Full(enterpoint_node_) => Full(enterpoint_node_)'
    BY <1>1, <1>6 DEF Grows
  <2>3. IF Base = -1 THEN enterpoint_node_ = None
        ELSE Full(enterpoint_node_) /\ level[enterpoint_node_] = Base
    BY <1>0, <1>1, <2>1 DEF EntryKept
  <2>4. global' # Nobody => pc'[global'] = "entry"
    BY <1>1
  <2> QED
    BY <1>1, <1>10, <2>1, <2>2, <2>3, <2>4 DEF EntryKept
<1>13. ListsKept'
  BY <1>0, <1>1, <1>6, ListsStay
<1> QED
  BY <1>3, <1>4, <1>5, <1>6, <1>7, <1>8, <1>11, <1>12, <1>13, Assemble

(* The walk of an insert begins at an element that is high enough.         *)
LEMMA ReadEntryKeeps ==
  ASSUME Kept, NEW t \in Thread, ReadEntry(t)
  PROVE  Kept'
<1>0. Types /\ ThreadTypes /\ Apart /\ Ranks /\ EntryKept /\ ListsKept /\ RowKept(t)
  BY DEF Kept
<1>1. /\ pc[t] = "entry" /\ op'[t] = op[t] /\ elem'[t] = elem[t]
      /\ maxcopy'[t] = maxcopy[t] /\ epcopy'[t] = enterpoint_node_
      /\ UNCHANGED <<count, level, links, deleted, global, wild, updates, marks>>
  BY <1>0 DEF ReadEntry, ThreadTypes, bounds
<1>2. op[t] = "insert" /\ Inserting(t)
  BY <1>0, <1>1 DEF RowKept, PlaceKept, Inserting, Updating, UpdatePlace, ThreadTypes,
                    Hopping, Searching, Linking
<1>3. OthersStay(t)
  BY <1>0 DEF ReadEntry, Goto, AtLayer, StartFrom, ThreadTypes, OthersStay, Stays
<1>4. elem[t] \in 1 .. count /\ elem[t] \in Elem /\ level[elem[t]] \in Levels
  BY <1>0, <1>1, RowElems DEF Types
<1>5. /\ enterpoint_node_ = None => Base = -1 /\ maxcopy[t] = -1 /\ global = t
      /\ enterpoint_node_ # None =>
           /\ Full(enterpoint_node_)
           /\ maxcopy[t] \in 0 .. level[enterpoint_node_]
  BY <1>1, <1>2, EntryOfInsert
<1>6. enterpoint_node_ \in 0 .. MaxElements
  BY <1>0, Constants, GraphAssumption DEF Types
<1>7. CASE enterpoint_node_ = None
  <2>1. /\ enterpoint_node_' = 1 /\ maxlevel_' = level[elem[t]] /\ pc'[t] = "publish"
        /\ cur'[t] = cur[t]
    BY <1>0, <1>7 DEF ReadEntry, Goto, ThreadTypes
  <2>2. Types'
    BY <1>0, <1>1, <1>4, <2>1 DEF Types
  <2>3. ThreadTypes'
    <3>1. /\ pc' \in [Thread -> {"idle"} \union InsertPlace \union UpdatePlace]
          /\ epcopy' \in [Thread -> 0 .. MaxElements]
      BY <1>0, <1>6, <1>7 DEF ReadEntry, Goto, ThreadTypes, InsertPlace, Publishing
    <3> QED
      BY <1>0, <1>7, <3>1 DEF ReadEntry, ThreadTypes
  <2>4. Grows
    <3>1. Advances(t)
      BY <1>1, <1>2, <2>1 DEF Advances, Publishing, HasReached
    <3> QED
      BY <1>0, <1>1, <1>3, <3>1, Growing DEF Types
  <2>5. RowKept(t)'
    <3>1. PlaceKept(t)'
      BY <1>0, <1>1, <1>2, <1>7, <2>1, <1>4
      DEF RowKept, PlaceKept, Inserting, Updating, InsertPlace, Publishing, None, Types
    <3>2. CopiesKept(t)'
      BY <1>1, <1>2, <1>7, <2>1
      DEF CopiesKept, Past, Inserting, Updating, Publishing
    <3> QED
      BY <2>1, <3>1, <3>2
      DEF RowKept, LayerKept, CurKept, SetsKept, Walking, Searching, Linking, Hopping
  <2>6. Apart'
    BY <1>0, <1>1, <1>3, ApartStays
  <2>7. \A u \in Thread : /\ elem'[u] = elem[u] /\ Inserting(u)' = Inserting(u)
                          /\ maxcopy'[u] = maxcopy[u] /\ Past(u)' = Past(u)
    BY <1>1, <1>3, <2>1 DEF OthersStay, Stays, Inserting, Past
  <2>8. Base' = -1 /\ Base = -1 /\ global = t /\ global # Nobody
    BY <1>1, <1>5, <1>7, NobodyAssumption DEF Base
  <2>9. Ranks'
    <3>1. \A e : LockFree(e)' = LockFree(e)
      BY <2>7 DEF LockFree
    <3>2. Base' <= maxlevel_'
      BY <1>4, <2>1, <2>8, Constants, GraphAssumption
    <3> QED
      BY <1>0, <1>1, <2>7, <2>8, <3>1, <3>2 DEF Ranks, Past, Inserting
  <2>10. EntryKept'
    <3>1. First'
      BY <1>1, <1>5, <1>7, <2>1, <2>8 DEF First
    <3> QED
      BY <1>1, <2>1, <2>7, <2>8, <3>1 DEF EntryKept, Publishing
  <2>11. ListsKept'
    BY <1>0, <1>1, <2>4, ListsStay
  <2> QED
    BY <1>3, <2>2, <2>3, <2>4, <2>5, <2>6, <2>9, <2>10, <2>11, Assemble
<1>8. CASE enterpoint_node_ # None
  <2>1. /\ enterpoint_node_' = enterpoint_node_ /\ maxlevel_' = maxlevel_
        /\ cur'[t] = enterpoint_node_ /\ layer'[t] = maxcopy[t]
        /\ pc'[t] = IF level[elem[t]] < maxcopy[t] THEN "descend" ELSE "mark"
    BY <1>0, <1>8 DEF ReadEntry, Goto, AtLayer, StartFrom, ThreadTypes
  <2>2. Types'
    BY <1>0, <1>1, <2>1 DEF Types
  <2>3. /\ Full(enterpoint_node_) /\ enterpoint_node_ \in 1 .. count
        /\ maxcopy[t] \in 0 .. level[enterpoint_node_] /\ maxcopy[t] \in Levels
        /\ level[enterpoint_node_] \in Levels
    <3>1. Full(enterpoint_node_) /\ enterpoint_node_ \in 1 .. count
          /\ maxcopy[t] \in 0 .. level[enterpoint_node_]
      BY <1>5, <1>8 DEF Full
    <3>2. enterpoint_node_ \in Elem
      BY <1>0, <3>1, RowElems
    <3>3. level[enterpoint_node_] \in Levels /\ maxcopy[t] \in Levels \union {-1}
      BY <1>0, <3>2 DEF Types, ThreadTypes
    <3> QED
      BY <3>1, <3>3, Constants, GraphAssumption
  <2>4. ThreadTypes'
    <3>1. /\ pc' \in [Thread -> {"idle"} \union InsertPlace \union UpdatePlace]
          /\ epcopy' \in [Thread -> 0 .. MaxElements]
          /\ cur' \in [Thread -> 0 .. MaxElements]
      BY <1>0, <1>6, <1>8
      DEF ReadEntry, Goto, StartFrom, ThreadTypes, InsertPlace, Walking
    <3>2. layer' \in [Thread -> Levels]
      BY <1>0, <1>8, <2>3 DEF ReadEntry, AtLayer, ThreadTypes
    <3> QED
      BY <1>0, <1>8, <3>1, <3>2 DEF ReadEntry, ThreadTypes
  <2>5. Advances(t)
    BY <1>1, <1>2 DEF Advances, Publishing, HasReached
  <2>6. Quiet(t)
    <3>1. maxcopy[t] # -1
      BY <2>3, Constants, GraphAssumption
    <3> QED
      BY <1>1, <1>2, <2>1, <3>1 DEF Quiet, RowStays, Publishing
  <2>7. ASSUME Grows PROVE RowKept(t)'
    <3>1. PlaceKept(t)'
      BY <1>0, <1>1, <1>2, <2>1, <2>3
      DEF RowKept, PlaceKept, Inserting, Updating, InsertPlace, Walking, Types
    <3>2. CopiesKept(t)'
      BY <1>1, <1>2, <1>8, <2>1, <2>3, <2>7 DEF CopiesKept, Past, Inserting, Updating, Grows
    <3>3. LayerKept(t)'
      <4>1. Min2(level[elem[t]], maxcopy[t]) = maxcopy[t] \/ level[elem[t]] < maxcopy[t]
        BY <1>4, <2>3, Constants, GraphAssumption DEF Min2
      <4>2. level'[elem'[t]] = level[elem[t]] /\ maxcopy[t] <= maxcopy[t]
        BY <1>1, <2>3, Constants, GraphAssumption
      <4> QED
        BY <1>1, <2>1, <4>1, <4>2 DEF LayerKept, Searching, Linking, Hopping
    <3>4. CurKept(t)'
      <4>1. level[enterpoint_node_] >= maxcopy[t]
        BY <2>3, Constants, GraphAssumption
      <4> QED
        BY <1>1, <1>8, <2>1, <4>1 DEF CurKept
    <3> QED
      BY <2>1, <3>1, <3>2, <3>3, <3>4 DEF RowKept, SetsKept
  <2>8. Apart'
    BY <1>0, <1>1, <1>3, ApartStays
  <2>9. Grows => ListsKept'
    BY <1>0, <1>1, ListsStay
  <2>10. count \in Nat /\ updates \in Nat
    BY <1>0 DEF Types
  <2> QED
    BY <1>1, <1>3, <2>1, <2>2, <2>4, <2>5, <2>6, <2>7, <2>8, <2>9, <2>10, StepKeeps
<1> QED
  BY <1>7, <1>8

-----------------------------------------------------------------------------
(* Walks and searches.                                                     *)

Busy == Walking \union Linking \union Hopping

LEMMA RowBasics ==
  ASSUME Types, ThreadTypes, Grows, NEW t \in Thread, RowKept(t), RowStays(t),
         count' \in Nat, epcopy'[t] = epcopy[t], pc[t] \in Busy, cur'[t] <= count',
         op[t] = "insert" => pc'[t] \in Walking \union {"link", "publish", "idle"},
         op[t] = "update" => pc'[t] \in (Busy \ {"mark"}) \union {"idle"},
         updates' \in Nat
  PROVE  PlaceKept(t)' /\ CopiesKept(t)'
<1>1. /\ op[t] \in {"insert", "update"} /\ epcopy[t] \in Nat /\ elem[t] \in Nat
      /\ count \in Nat /\ count <= count' /\ updates \in Nat /\ updates <= updates'
      /\ op'[t] = op[t] /\ elem'[t] = elem[t] /\ maxcopy'[t] = maxcopy[t]
  BY Constants, GraphAssumption DEF ThreadTypes, Types, Grows, RowStays
<1>2. /\ elem[t] \in 1 .. count /\ Full(epcopy[t]) /\ epcopy[t] \in 1 .. count
      /\ pc[t] # "idle" /\ pc[t] \notin {"entry", "global", "readmax", "readep"}
      /\ pc[t] \notin Publishing
  BY RowElems DEF Busy, Walking, Linking, Hopping, Searching, Publishing
<1>3. /\ Full(epcopy[t])' /\ level'[epcopy[t]] = level[epcopy[t]]
      /\ level'[elem[t]] = level[elem[t]] /\ deleted' \subseteq deleted
  BY <1>2 DEF Grows
<1>4. CASE op[t] = "insert"
  <2>1. Past(t) /\ Inserting(t) /\ ~Updating(t) /\ ~Updating(t)'
    BY <1>1, <1>2, <1>4 DEF Past, Inserting, Updating
  <2>2. maxcopy[t] \in 0 .. level[epcopy[t]] /\ epcopy[t] # None
    BY <1>2, <2>1 DEF RowKept, CopiesKept, None
  <2>3. PlaceKept(t)'
    BY <1>1, <1>2, <1>4, <2>1
    DEF PlaceKept, Inserting, InsertPlace, Walking, Publishing, None
  <2>4. CopiesKept(t)'
    BY <1>1, <1>3, <2>1, <2>2 DEF CopiesKept
  <2> QED
    BY <2>3, <2>4
<1>5. CASE op[t] = "update"
  <2>1. Updating(t) /\ ~Inserting(t)' /\ ~Past(t)'
    BY <1>1, <1>2, <1>5 DEF Past, Inserting, Updating
  <2>2. elem[t] \notin deleted /\ updates > 0 /\ level[elem[t]] <= maxcopy[t]
    BY <1>2, <2>1 DEF RowKept, PlaceKept, CopiesKept
  <2>3. PlaceKept(t)'
    BY <1>1, <1>2, <1>3, <1>5, <2>1, <2>2
    DEF PlaceKept, Updating, UpdatePlace, Busy, Walking, Linking, None
  <2>4. CopiesKept(t)'
    BY <1>1, <1>3, <2>1, <2>2 DEF CopiesKept
  <2> QED
    BY <2>3, <2>4
<1> QED
  BY <1>1, <1>4, <1>5

(* A row that walks changes nothing but itself.                            *)
LEMMA WalkKeeps ==
  ASSUME Kept, NEW t \in Thread, pc[t] \in Walking, pc'[t] \in Walking,
         op[t] = "update" => pc'[t] # "mark",
         OthersStay(t), RowStays(t), epcopy'[t] = epcopy[t], cur'[t] <= count,
         UNCHANGED <<count, level, links, deleted, enterpoint_node_, maxlevel_,
                     global, updates, marks>>,
         wild' \in BOOLEAN, ThreadTypes', Advances(t),
         Grows => LayerKept(t)' /\ CurKept(t)' /\ SetsKept(t)'
  PROVE  Kept'
<1>0. Types /\ ThreadTypes /\ Apart /\ Ranks /\ EntryKept /\ ListsKept /\ RowKept(t)
  BY DEF Kept
<1>1. Types'
  BY <1>0 DEF Types
<1>2. op[t] \in {"insert", "update"} /\ count \in Nat /\ updates \in Nat
  BY <1>0 DEF ThreadTypes, Types
<1>3. Quiet(t)
  <2>1. op'[t] = op[t] /\ pc[t] # "idle" /\ pc'[t] # "idle"
    BY DEF RowStays, Walking, Searching
  <2>2. pc[t] \notin {"global", "entry"} \union Publishing
        /\ pc'[t] \notin {"idle", "global", "entry", "publishlevel", "publishentry"}
    BY DEF Walking, Searching, Publishing
  <2> QED
    BY <1>2, <2>1, <2>2 DEF Quiet, Inserting
<1>4. ASSUME Grows PROVE RowKept(t)'
  <2>1. pc[t] \in Busy
    BY DEF Busy
  <2>2. /\ op[t] = "insert" => pc'[t] \in Walking \union {"link", "publish", "idle"}
        /\ op[t] = "update" => pc'[t] \in (Busy \ {"mark"}) \union {"idle"}
    BY DEF Busy
  <2>3. PlaceKept(t)' /\ CopiesKept(t)'
    BY <1>0, <1>2, <1>4, <2>1, <2>2, RowBasics
  <2> QED
    BY <1>4, <2>3 DEF RowKept
<1>5. Apart'
  BY <1>0, ApartStays DEF RowStays, Walking, Searching
<1>6. Grows => ListsKept'
  BY <1>0, ListsStay
<1> QED
  BY <1>1, <1>2, <1>3, <1>4, <1>5, <1>6, StepKeeps

(* Steps that move no row and change no list.                              *)
LEMMA BesideKeeps ==
  ASSUME Kept,
         UNCHANGED <<count, level, links, enterpoint_node_, maxlevel_, global, updates,
                     pc, op, elem, maxcopy, epcopy, epdel, layer, cur, frontier, found,
                     todo>>,
         wild' \in BOOLEAN, marks' \in Nat, deleted' \subseteq 1 .. count,
         \A t \in Thread : Updating(t) => elem[t] \notin deleted'
  PROVE  Kept'
<1>1. Types' /\ ThreadTypes' /\ Apart'
  BY DEF Kept, Types, ThreadTypes, Apart
<1>2. \A u \in Thread : Inserting(u)' = Inserting(u) /\ Past(u)' = Past(u)
                        /\ Updating(u)' = Updating(u) /\ AtStart(u)' = AtStart(u)
  BY DEF Inserting, Past, Updating, AtStart
<1>3. \A l : Joined(l)' = Joined(l)
  BY DEF Joined, Inserting, HasReached
<1>4. \A e : (Full(e)' <=> Full(e)) /\ (LockFree(e)' <=> LockFree(e))
  BY <1>2 DEF Full, LockFree
<1>5. Base' = Base /\ First' = First
  BY DEF Base, First
<1>6. Ranks'
  <2>1. Past(global)' <=> Past(global)
    BY DEF Past, Inserting
  <2>2. \A t \in Thread :
          Past(t)' => maxcopy'[t] <= Base' /\ (global' = t <=> level'[elem'[t]] > maxcopy'[t])
    BY <1>2, <1>5 DEF Kept, Ranks
  <2>3. \A e \in 1 .. count' : LockFree(e)' => level'[e] <= Base'
    BY <1>4, <1>5 DEF Kept, Ranks
  <2> QED
    BY <1>5, <2>1, <2>2, <2>3 DEF Kept, Ranks
<1>7. EntryKept'
  <2>1. Full(enterpoint_node_) => Full(enterpoint_node_)'
    BY <1>4
  <2> QED
    BY <1>5, <2>1 DEF Kept, EntryKept
<1>8. ListsKept'
  BY <1>3 DEF Kept, ListsKept
<1>9. ASSUME NEW u \in Thread PROVE RowKept(u)'
  <2>1. RowKept(u)
    BY DEF Kept
  <2>2. PlaceKept(u)'
    BY <1>2, <2>1 DEF RowKept, PlaceKept
  <2>3. CopiesKept(u)'
    <3>1. CopiesKept(u) /\ (Full(epcopy[u])' <=> Full(epcopy[u]))
      BY <1>4, <2>1 DEF RowKept
    <3> QED
      BY <1>2, <3>1 DEF CopiesKept
  <2>4. LayerKept(u)' /\ CurKept(u)'
    BY <1>2, <2>1 DEF RowKept, LayerKept, CurKept
  <2>5. SetsKept(u)'
    <3>1. SetsKept(u) /\ Joined(layer[u])' = Joined(layer[u])
      BY <1>3, <2>1 DEF RowKept
    <3> QED
      BY <3>1 DEF SetsKept
  <2> QED
    BY <2>2, <2>3, <2>4, <2>5 DEF RowKept
<1> QED
  BY <1>1, <1>6, <1>7, <1>8, <1>9 DEF Kept

LEMMA WildKeeps ==
  ASSUME Kept, ReadWild
  PROVE  Kept'
<1>1. /\ UNCHANGED <<count, level, links, enterpoint_node_, maxlevel_, global, updates,
                     pc, op, elem, maxcopy, epcopy, epdel, layer, cur, frontier, found,
                     todo>>
      /\ deleted' = deleted /\ marks' = marks /\ wild' \in BOOLEAN
  BY DEF ReadWild, graph, bounds, row, walk
<1>2. /\ marks \in Nat /\ deleted \subseteq 1 .. count
      /\ \A t \in Thread : Updating(t) => elem[t] \notin deleted
  BY DEF Kept, Types, RowKept, PlaceKept
<1> QED
  BY <1>1, <1>2, BesideKeeps

(* Links of an element that exists at a level lead to linked elements.     *)
LEMMA LinkedJoins ==
  ASSUME Types, ListsKept, NEW e \in Elem, NEW l \in Levels, NEW n \in BagToSet(links[e][l])
  PROVE  n \in Joined(l) /\ n \in 1 .. count /\ n # e /\ level[n] >= l
BY DEF ListsKept, Joined

LEMMA DescendKeeps ==
  ASSUME Kept, NEW t \in Thread, Descend(t)
  PROVE  Kept'
<1>0. Types /\ ThreadTypes /\ Apart /\ ListsKept /\ RowKept(t)
  BY DEF Kept
<1>1. CASE ~HasList(cur[t], layer[t])
  BY <1>1, WildKeeps DEF Descend
<1>2. CASE HasList(cur[t], layer[t])
  <2>1. /\ pc[t] = "descend"
        /\ \/ \E n \in BagToSet(ListAt(cur[t], layer[t])) \ seen[t] :
                /\ cur' = [cur EXCEPT ![t] = n]
                /\ UNCHANGED <<pc, layer>>
           \/ /\ AtLayer(t, layer[t] - 1)
              /\ cur' = [cur EXCEPT ![t] = cur[t]]
              /\ Goto(t, IF ~(layer[t] - 1 = level[elem[t]]) THEN "descend"
                         ELSE IF op[t] = "insert" THEN "mark" ELSE "search")
        /\ UNCHANGED <<graph, global, wild, bounds, row, epdel, frontier, found, todo>>
    BY <1>2 DEF Descend, StartFrom
  <2>2. /\ elem[t] \in 1 .. count /\ cur[t] \in 1 .. count /\ epcopy[t] \in 1 .. count
        /\ 1 .. count \subseteq Elem /\ layer[t] \in Levels
        /\ pc[t] \in Walking
    BY <1>0, <2>1, RowElems DEF Walking, ThreadTypes
  <2>3. /\ level[elem[t]] \in Levels /\ level[cur[t]] \in Levels /\ level[epcopy[t]] \in Levels
        /\ maxcopy[t] \in Levels \union {-1}
    BY <1>0, <2>2 DEF Types, ThreadTypes
  <2>4. level[elem[t]] < layer[t] /\ layer[t] <= maxcopy[t]
    BY <1>0, <2>1 DEF RowKept, LayerKept
  <2>5. /\ Inserting(t) => level[cur[t]] >= layer[t]
        /\ level[epcopy[t]] >= layer[t]
    <3>1. level[cur[t]] >= layer[t]
      BY <1>2 DEF HasList
    <3>2. level[epcopy[t]] >= layer[t] \/ cur[t] = epcopy[t]
      BY <1>0, <2>2 DEF RowKept, CurKept, AtStart
    <3> QED
      BY <3>1, <3>2
  <2>6. /\ OthersStay(t) /\ RowStays(t) /\ epcopy'[t] = epcopy[t]
        /\ UNCHANGED <<count, level, links, deleted, enterpoint_node_, maxlevel_,
                       global, updates, marks, wild>>
    BY <1>0, <2>1 DEF OthersStay, Stays, RowStays, graph, bounds, row, Goto, AtLayer, ThreadTypes
  <2>7. /\ frontier' = frontier /\ found' = found /\ todo' = todo /\ op' = op /\ elem' = elem
        /\ maxcopy' = maxcopy /\ epcopy' = epcopy /\ epdel' = epdel /\ wild' \in BOOLEAN
    BY <1>0, <2>1 DEF row, Types
  <2>8. CASE /\ \E n \in BagToSet(ListAt(cur[t], layer[t])) \ seen[t] :
                   cur' = [cur EXCEPT ![t] = n]
             /\ UNCHANGED <<pc, layer>>
    <3>1. PICK n \in BagToSet(links[cur[t]][layer[t]]) : cur' = [cur EXCEPT ![t] = n]
      BY <2>8 DEF ListAt
    <3>2. n \in 1 .. count /\ level[n] >= layer[t]
      BY <1>0, <2>2, <3>1, LinkedJoins
    <3>3. /\ cur'[t] = n /\ pc'[t] = "descend" /\ layer'[t] = layer[t]
          /\ n <= count /\ n \in 0 .. MaxElements
      BY <1>0, <2>1, <2>2, <2>8, <3>1, <3>2 DEF ThreadTypes, Elem
    <3>4. ThreadTypes'
      BY <1>0, <2>7, <2>8, <3>1, <3>3 DEF ThreadTypes
    <3>5. Advances(t)
      BY <2>1, <2>6, <3>3 DEF Advances, Inserting, HasReached, Publishing, RowStays
    <3>6. LayerKept(t)' /\ CurKept(t)' /\ SetsKept(t)'
      BY <2>4, <2>5, <2>6, <3>2, <3>3
      DEF LayerKept, CurKept, SetsKept, RowStays, Searching, Linking, Hopping, Walking, None
    <3> QED
      BY <2>2, <2>6, <2>7, <3>3, <3>4, <3>5, <3>6, WalkKeeps DEF Walking
  <2>9. CASE /\ AtLayer(t, layer[t] - 1)
             /\ cur' = [cur EXCEPT ![t] = cur[t]]
             /\ Goto(t, IF ~(layer[t] - 1 = level[elem[t]]) THEN "descend"
                        ELSE IF op[t] = "insert" THEN "mark" ELSE "search")
    <3>1. /\ cur'[t] = cur[t] /\ layer'[t] = layer[t] - 1
          /\ pc'[t] = IF ~(layer[t] - 1 = level[elem[t]]) THEN "descend"
                      ELSE IF op[t] = "insert" THEN "mark" ELSE "search"
      BY <1>0, <2>9 DEF AtLayer, Goto, ThreadTypes
    <3>2. layer[t] - 1 \in Levels /\ layer[t] - 1 >= level[elem[t]]
          /\ layer[t] - 1 <= maxcopy[t]
      BY <2>2, <2>3, <2>4, Constants, GraphAssumption DEF Levels
    <3>3. ThreadTypes'
      <4>1. /\ pc' \in [Thread -> {"idle"} \union InsertPlace \union UpdatePlace]
            /\ layer' \in [Thread -> Levels]
            /\ cur' \in [Thread -> 0 .. MaxElements]
        BY <1>0, <2>9, <3>2 DEF AtLayer, Goto, ThreadTypes, InsertPlace, Walking, Searching
      <4> QED
        BY <1>0, <2>7, <4>1 DEF ThreadTypes
    <3>4. Advances(t)
      BY <1>0, <2>1, <2>6, <3>1
      DEF Advances, Inserting, HasReached, Publishing, RowStays, ThreadTypes
    <3>5. LayerKept(t)'
      <4>1. layer[t] - 1 = level[elem[t]] =>
              layer[t] - 1 = Min2(level[elem[t]], maxcopy[t])
        BY <2>2, <2>3, <2>4, Constants, GraphAssumption DEF Min2
      <4>2. layer[t] - 1 # level[elem[t]] => level[elem[t]] < layer[t] - 1
        BY <2>2, <2>3, <3>2, Constants, GraphAssumption
      <4>3. level[elem[t]] \in Nat
        BY <2>3, Constants, GraphAssumption
      <4> QED
        BY <2>6, <3>1, <3>2, <4>1, <4>2, <4>3
        DEF LayerKept, RowStays, Searching, Linking, Hopping
    <3>6. CurKept(t)' /\ SetsKept(t)'
      <4>1. /\ level[epcopy[t]] >= layer[t] - 1
            /\ Inserting(t) => level[cur[t]] >= layer[t] - 1
        BY <2>2, <2>3, <2>5, Constants, GraphAssumption
      <4>2. Inserting(t)' => Inserting(t)
        BY <2>1, <2>7 DEF Inserting
      <4>3. cur[t] # None
        BY <2>2 DEF None
      <4> QED
        BY <2>6, <3>1, <4>1, <4>2, <4>3
        DEF CurKept, SetsKept, RowStays, Searching, Linking, Walking
    <3>7. cur'[t] <= count
      BY <2>2, <3>1
    <3> QED
      BY <2>2, <2>6, <2>7, <3>1, <3>3, <3>4, <3>5, <3>6, <3>7, WalkKeeps
      DEF Walking, Searching
  <2> QED
    BY <2>1, <2>8, <2>9
<1> QED
  BY <1>1, <1>2

LEMMA ReadEntryMarkKeeps ==
  ASSUME Kept, NEW t \in Thread, ReadEntryMark(t)
  PROVE  Kept'
<1>0. Types /\ ThreadTypes /\ RowKept(t)
  BY DEF Kept
<1>1. /\ pc[t] = "mark" /\ pc'[t] = "search" /\ layer'[t] = Min2(level[elem[t]], maxcopy[t])
      /\ UNCHANGED <<count, level, links, deleted, enterpoint_node_, maxlevel_, global, wild,
                     updates, marks, op, elem, maxcopy, epcopy, cur, frontier, found, todo>>
      /\ OthersStay(t) /\ RowStays(t)
  BY <1>0 DEF ReadEntryMark, Goto, AtLayer, ThreadTypes, graph, bounds, row, OthersStay, Stays,
              RowStays
<1>2. layer'[t] = layer[t] /\ layer[t] \in Levels
  BY <1>0, <1>1 DEF RowKept, LayerKept, ThreadTypes
<1>3. op[t] = "insert"
  BY <1>0, <1>1
  DEF RowKept, PlaceKept, Updating, UpdatePlace, ThreadTypes, Hopping, Searching, Linking
<1>4. /\ elem[t] \in 1 .. count /\ cur[t] \in 1 .. count /\ level[elem[t]] \in Levels
      /\ maxcopy[t] \in Levels \union {-1} /\ pc[t] \in Walking /\ pc'[t] \in Walking
  BY <1>0, <1>1, RowElems DEF Types, ThreadTypes, Walking, Searching
<1>5. ThreadTypes'
  <2>1. pc' \in [Thread -> {"idle"} \union InsertPlace \union UpdatePlace]
    BY <1>0 DEF ReadEntryMark, Goto, ThreadTypes, InsertPlace, Walking, Searching
  <2>2. layer' \in [Thread -> Levels]
    BY <1>0, <1>1, <1>2 DEF ReadEntryMark, AtLayer, ThreadTypes
  <2>3. epdel' \in [Thread -> BOOLEAN]
    <3>1. epdel' = [epdel EXCEPT ![t] = epcopy[t] \in deleted]
      BY DEF ReadEntryMark
    <3>2. epdel \in [Thread -> BOOLEAN] /\ (epcopy[t] \in deleted) \in BOOLEAN
      BY <1>0 DEF ThreadTypes
    <3> QED
      BY <3>1, <3>2
  <2> QED
    BY <1>0, <1>1, <2>1, <2>2, <2>3 DEF ThreadTypes
<1>6. Advances(t)
  BY <1>1, <1>3 DEF Advances, Inserting, HasReached, Publishing
<1>7. LayerKept(t)' /\ CurKept(t)' /\ SetsKept(t)'
  <2>1. layer[t] <= level[elem[t]] /\ layer[t] <= maxcopy[t]
    BY <1>1, <1>2, <1>4, Constants, GraphAssumption DEF Min2
  <2>2. LayerKept(t)'
    BY <1>1, <1>2, <2>1 DEF LayerKept, Hopping
  <2>3. /\ cur[t] # None /\ level[cur[t]] >= layer[t]
        /\ level[epcopy[t]] >= layer[t] \/ AtStart(t)
    BY <1>0, <1>1, <1>3, <1>4 DEF RowKept, CurKept, Inserting
  <2>4. ~AtStart(t)
    BY <1>3 DEF AtStart, Updating
  <2>5. CurKept(t)'
    BY <1>1, <1>2, <2>3, <2>4 DEF CurKept
  <2>6. SetsKept(t)'
    BY <1>1 DEF SetsKept
  <2> QED
    BY <2>2, <2>5, <2>6
<1>8. cur'[t] <= count /\ wild' \in BOOLEAN /\ epcopy'[t] = epcopy[t]
  BY <1>0, <1>1, <1>4 DEF Types
<1> QED
  BY <1>1, <1>3, <1>4, <1>5, <1>6, <1>7, <1>8, WalkKeeps

LEMMA BeginSearchKeeps ==
  ASSUME Kept, NEW t \in Thread, BeginSearch(t)
  PROVE  Kept'
<1>0. Types /\ ThreadTypes /\ RowKept(t)
  BY DEF Kept
<1>1. /\ pc[t] = "search" /\ pc'[t] = "expand" /\ cur'[t] = cur[t]
      /\ frontier'[t] = {cur[t]} /\ found'[t] = {cur[t]} \ deleted
      /\ UNCHANGED <<count, level, links, deleted, enterpoint_node_, maxlevel_, global, wild,
                     updates, marks, op, elem, maxcopy, epcopy, epdel, layer, todo>>
      /\ OthersStay(t) /\ RowStays(t)
  BY <1>0 DEF BeginSearch, Goto, StartFrom, ThreadTypes, graph, bounds, row, OthersStay, Stays,
              RowStays
<1>2. /\ cur[t] \in 1 .. count /\ cur[t] \in Elem /\ pc[t] \in Walking /\ pc'[t] \in Walking
      /\ op[t] \in {"insert", "update"}
  BY <1>0, <1>1, RowElems DEF ThreadTypes, Walking, Searching
<1>3. ThreadTypes'
  <2>1. /\ pc' \in [Thread -> {"idle"} \union InsertPlace \union UpdatePlace]
        /\ cur' \in [Thread -> 0 .. MaxElements]
    BY <1>0 DEF BeginSearch, Goto, StartFrom, ThreadTypes, InsertPlace, Walking, Searching
  <2>2. /\ frontier' \in [Thread -> SUBSET Elem]
        /\ found' \in [Thread -> SUBSET Elem]
    BY <1>0, <1>2 DEF BeginSearch, ThreadTypes
  <2> QED
    BY <1>0, <1>1, <2>1, <2>2 DEF ThreadTypes
<1>4. Advances(t)
  BY <1>0, <1>1 DEF Advances, Inserting, HasReached, Publishing, ThreadTypes
<1>5. ASSUME Grows PROVE LayerKept(t)' /\ CurKept(t)' /\ SetsKept(t)'
  <2>1. LayerKept(t)'
    BY <1>0, <1>1 DEF RowKept, LayerKept, Searching, Linking, Hopping
  <2>2. AtStart(t) => AtStart(t)'
    BY <1>1 DEF AtStart, Updating
  <2>3. CurKept(t)'
    BY <1>0, <1>1, <1>2, <2>2 DEF RowKept, CurKept, Inserting, Walking, Searching
  <2>4. SetsKept(t)'
    BY <1>1 DEF SetsKept
  <2> QED
    BY <2>1, <2>3, <2>4
<1>6. cur'[t] <= count /\ wild' \in BOOLEAN /\ epcopy'[t] = epcopy[t]
  BY <1>0, <1>1, <1>2 DEF Types
<1> QED
  BY <1>1, <1>2, <1>3, <1>4, <1>5, <1>6, WalkKeeps

LEMMA ExpandKeeps ==
  ASSUME Kept, NEW t \in Thread, Expand(t)
  PROVE  Kept'
<1>0. Types /\ ThreadTypes /\ ListsKept /\ RowKept(t)
  BY DEF Kept
<1>1. PICK c \in frontier[t] :
        /\ LockFree(c)
        /\ IF ~HasList(c, layer[t])
           THEN ReadWild
           ELSE LET new == BagToSet(ListAt(c, layer[t])) \ seen[t]
                    all == found[t] \union (new \ deleted)
                IN
                /\ \E best \in SUBSET all, near \in SUBSET new :
                     /\ found' = [found EXCEPT ![t] = best]
                     /\ frontier' = [frontier EXCEPT ![t] = (frontier[t] \ {c}) \union near]
                /\ UNCHANGED <<graph, global, wild, bounds, pc, row, epdel,
                               layer, cur, todo>>
  BY DEF Expand
<1>2. CASE ~HasList(c, layer[t])
  BY <1>1, <1>2, WildKeeps
<1>3. CASE HasList(c, layer[t])
  <2> DEFINE near == BagToSet(links[c][layer[t]])
  <2>1. /\ UNCHANGED <<count, level, links, deleted, enterpoint_node_, maxlevel_, global, wild,
                       updates, marks, pc, op, elem, maxcopy, epcopy, epdel, layer, cur,
                       todo>>
        /\ \E best \in SUBSET (found[t] \union near), far \in SUBSET near :
             /\ found' = [found EXCEPT ![t] = best]
             /\ frontier' = [frontier EXCEPT ![t] = (frontier[t] \ {c}) \union far]
    BY <1>1, <1>3 DEF graph, bounds, row, ListAt
  <2>2. /\ pc[t] = "expand" /\ pc[t] \in Walking /\ cur[t] \in 1 .. count
        /\ layer[t] \in Levels /\ op[t] \in {"insert", "update"} /\ 1 .. count \subseteq Elem
    BY <1>0, RowElems DEF Expand, Walking, Searching, ThreadTypes
  <2>3. /\ frontier[t] \union found[t] \subseteq Joined(layer[t]) \union {cur[t]}
        /\ cur[t] \in frontier[t] \union Joined(layer[t])
    BY <1>0, <2>2 DEF RowKept, SetsKept
  <2>4. c \in 1 .. count
    BY <2>2, <2>3, JoinedIn
  <2>5. c \in Joined(layer[t])
    BY <1>1, <1>3, <2>4, FreeJoins
  <2>6. near \subseteq Joined(layer[t])
    BY <1>0, <2>2, <2>4, LinkedJoins
  <2>7. Joined(layer[t]) \subseteq Elem
    BY <2>2, JoinedIn
  <2> HIDE DEF near
  <2>8. PICK best \in SUBSET (found[t] \union near), far \in SUBSET near :
             /\ found' = [found EXCEPT ![t] = best]
             /\ frontier' = [frontier EXCEPT ![t] = (frontier[t] \ {c}) \union far]
    BY <2>1
  <2>9. found[t] \subseteq Elem /\ frontier[t] \subseteq Elem
    BY <1>0 DEF ThreadTypes
  <2>10. found'[t] = best /\ frontier'[t] = (frontier[t] \ {c}) \union far
    BY <1>0, <2>8 DEF ThreadTypes
  <2>11. ThreadTypes'
    <3>1. best \in SUBSET Elem /\ (frontier[t] \ {c}) \union far \in SUBSET Elem
      BY <2>6, <2>7, <2>9
    <3>2. found' \in [Thread -> SUBSET Elem] /\ frontier' \in [Thread -> SUBSET Elem]
      BY <1>0, <2>8, <3>1 DEF ThreadTypes
    <3> QED
      BY <1>0, <2>1, <3>2 DEF ThreadTypes
  <2>12. OthersStay(t) /\ RowStays(t)
    BY <1>0, <2>1, <2>8 DEF OthersStay, Stays, RowStays, ThreadTypes
  <2>13. Advances(t)
    BY <1>0, <2>1, <2>2 DEF Advances, Inserting, HasReached, Publishing, ThreadTypes
  <2>14. ASSUME Grows PROVE LayerKept(t)' /\ CurKept(t)' /\ SetsKept(t)'
    <3>1. LayerKept(t)'
      BY <1>0, <2>1 DEF RowKept, LayerKept
    <3>2. AtStart(t) => level[epcopy[t]] >= layer[t] \/ AtStart(t)'
      <4> SUFFICES ASSUME AtStart(t) PROVE level[epcopy[t]] >= layer[t] \/ AtStart(t)'
        OBVIOUS
      <4>1. Updating(t)' /\ cur'[t] = epcopy'[t] /\ cur[t] \in frontier[t]
        BY <2>1, <2>2 DEF AtStart, Updating
      <4>2. CASE c = cur[t]
        BY <1>3, <2>1, <4>1, <4>2 DEF HasList
      <4>3. CASE c # cur[t]
        BY <2>1, <2>2, <2>10, <4>1, <4>3 DEF AtStart
      <4> QED
        BY <4>2, <4>3
    <3>3. CurKept(t)'
      BY <1>0, <2>1, <3>2 DEF RowKept, CurKept, Inserting
    <3>4. Joined(layer[t]) \subseteq Joined(layer[t])'
      BY <2>1, <2>2, <2>14 DEF Grows
    <3>5. SetsKept(t)'
      <4>1. frontier'[t] \union found'[t] \subseteq Joined(layer[t])' \union {cur'[t]}
        BY <2>1, <2>3, <2>6, <2>10, <3>4
      <4>2. cur'[t] \in frontier'[t] \union Joined(layer[t])'
        BY <2>1, <2>3, <2>5, <2>10, <3>4
      <4> QED
        BY <2>1, <2>2, <4>1, <4>2 DEF SetsKept
    <3> QED
      BY <3>1, <3>3, <3>5
  <2>15. cur'[t] <= count /\ wild' \in BOOLEAN /\ epcopy'[t] = epcopy[t] /\ pc'[t] = pc[t]
    BY <1>0, <2>1, <2>2 DEF Types
  <2> QED
    BY <2>1, <2>2, <2>11, <2>12, <2>13, <2>14, <2>15, WalkKeeps
<1> QED
  BY <1>2, <1>3

-----------------------------------------------------------------------------
(* Linking.                                                                *)

(* A busy row changes a list and itself.                                   *)
LEMMA BusyKeeps ==
  ASSUME Kept, NEW t \in Thread, pc[t] \in Busy,
         op[t] = "insert" => pc'[t] \in Walking \union {"link", "publish"},
         op[t] = "update" => pc'[t] \in (Busy \ {"mark"}) \union {"idle"},
         OthersStay(t), RowStays(t), epcopy'[t] = epcopy[t], cur'[t] <= count,
         UNCHANGED <<count, level, deleted, enterpoint_node_, maxlevel_,
                     global, wild, updates, marks>>,
         links' \in [Elem -> [Levels -> Lists]],
         ThreadTypes', Advances(t), Grows => ListsKept',
         Grows => LayerKept(t)' /\ CurKept(t)' /\ SetsKept(t)'
  PROVE  Kept'
<1>0. Types /\ ThreadTypes /\ Apart /\ Ranks /\ EntryKept /\ ListsKept /\ RowKept(t)
  BY DEF Kept
<1>1. Types'
  BY <1>0 DEF Types
<1>2. op[t] \in {"insert", "update"} /\ count \in Nat /\ updates \in Nat
  BY <1>0 DEF ThreadTypes, Types
<1>3. /\ pc[t] \notin {"idle", "global", "entry"} \union Publishing
      /\ op'[t] = op[t] /\ elem'[t] = elem[t]
  BY DEF Busy, Walking, Linking, Hopping, Searching, Publishing, RowStays
<1>4. Quiet(t)
  <2>1. op[t] = "insert" =>
          pc'[t] \notin {"idle", "global", "entry", "publishlevel", "publishentry"}
    BY DEF Walking, Searching
  <2> QED
    BY <1>2, <1>3, <2>1 DEF Quiet, Inserting
<1>5. ASSUME Grows PROVE RowKept(t)'
  <2>1. op[t] = "insert" => pc'[t] \in Walking \union {"link", "publish", "idle"}
    OBVIOUS
  <2>2. PlaceKept(t)' /\ CopiesKept(t)'
    BY <1>0, <1>2, <1>5, <2>1, RowBasics
  <2> QED
    BY <1>5, <2>2 DEF RowKept
<1>6. Apart'
  BY <1>0, <1>3, ApartStays
<1> QED
  BY <1>0, <1>1, <1>2, <1>4, <1>5, <1>6, StepKeeps

(* A level is done: the search of the next starts from cur'.               *)
LEMMA NextLevelKeeps ==
  ASSUME Kept, NEW t \in Thread, NextLevel(t), RowStays(t), UNCHANGED <<count, level>>,
         epcopy'[t] = epcopy[t], pc[t] \in {"expand"} \union Linking,
         op[t] = "update" \/ pc[t] = "link" \/ layer[t] = 0,
         layer[t] > 0 => /\ level[epcopy[t]] >= layer[t] /\ cur'[t] \in 1 .. count
                         /\ Inserting(t) => level[cur'[t]] >= layer[t]
  PROVE  /\ UNCHANGED global /\ Advances(t)
         /\ pc' \in [Thread -> {"idle"} \union InsertPlace \union UpdatePlace]
         /\ layer' \in [Thread -> Levels]
         /\ op[t] = "insert" => pc'[t] \in Walking \union {"link", "publish"}
         /\ op[t] = "update" => pc'[t] \in (Busy \ {"mark"}) \union {"idle"}
         /\ \A u \in Thread \ {t} : pc'[u] = pc[u] /\ layer'[u] = layer[u]
         /\ LayerKept(t)' /\ CurKept(t)' /\ SetsKept(t)'
<1>0. Types /\ ThreadTypes /\ Ranks /\ RowKept(t)
  BY DEF Kept
<1>1. /\ layer[t] \in Levels /\ op[t] \in {"insert", "update"} /\ count \in Nat
      /\ op'[t] = op[t] /\ elem'[t] = elem[t] /\ maxcopy'[t] = maxcopy[t]
      /\ pc[t] # "idle" /\ pc[t] \notin Publishing
      /\ maxcopy[t] \in Levels \union {-1}
      /\ elem[t] \in 1 .. count /\ 1 .. count \subseteq Elem /\ epcopy[t] \in 1 .. count
  BY <1>0, RowElems DEF ThreadTypes, Types, RowStays, Linking, Publishing, Walking, Searching
<1>2. /\ layer[t] <= level[elem[t]] /\ layer[t] <= maxcopy[t]
      /\ level[elem[t]] \in Levels /\ level[epcopy[t]] \in Levels
      /\ cur'[t] \in 1 .. count => level[cur'[t]] \in Levels
  BY <1>0, <1>1 DEF RowKept, LayerKept, Linking, Searching, Types
<1>3. CASE layer[t] > 0
  <2>1. /\ pc'[t] = "search" /\ layer'[t] = layer[t] - 1 /\ global' = global
        /\ pc' = [pc EXCEPT ![t] = "search"] /\ layer' = [layer EXCEPT ![t] = layer[t] - 1]
        /\ \A u \in Thread \ {t} : pc'[u] = pc[u] /\ layer'[u] = layer[u]
    BY <1>0, <1>3 DEF NextLevel, Goto, AtLayer, ThreadTypes
  <2>2. /\ layer[t] - 1 \in Levels /\ layer[t] - 1 <= level[elem[t]]
        /\ layer[t] - 1 <= maxcopy[t] /\ level[epcopy[t]] >= layer[t] - 1
        /\ Inserting(t) => level[cur'[t]] >= layer[t] - 1
    BY <1>1, <1>2, <1>3, Constants, GraphAssumption DEF Levels
  <2>3. /\ pc' \in [Thread -> {"idle"} \union InsertPlace \union UpdatePlace]
        /\ layer' \in [Thread -> Levels]
    BY <1>0, <2>1, <2>2 DEF ThreadTypes, InsertPlace, Walking, Searching
  <2>4. Advances(t)
    <3>1. layer[t] \in Int
      BY <1>1, Constants, GraphAssumption
    <3>2. ASSUME Inserting(t), NEW l \in Levels, HasReached(t, l) PROVE HasReached(t, l)'
      <4>1. op[t] = "insert" /\ pc[t] = "link"
        BY <1>3, <3>2 DEF Inserting
      <4>2. layer[t] <= l /\ l \in Int
        BY <3>2, <4>1, Constants, GraphAssumption DEF HasReached
      <4> QED
        BY <2>1, <3>1, <4>2 DEF HasReached
    <3>3. Inserting(t)' => Inserting(t)
      BY <1>1 DEF Inserting
    <3> QED
      BY <1>1, <3>2, <3>3 DEF Advances
  <2>5. LayerKept(t)'
    BY <1>1, <2>1, <2>2 DEF LayerKept, Hopping
  <2>6. CurKept(t)'
    <3>1. cur'[t] # None /\ (Inserting(t)' => Inserting(t))
      BY <1>1, <1>3 DEF None, Inserting
    <3> QED
      BY <2>1, <2>2, <3>1 DEF CurKept
  <2>7. SetsKept(t)'
    BY <2>1 DEF SetsKept
  <2> QED
    BY <2>1, <2>3, <2>4, <2>5, <2>6, <2>7 DEF Walking, Busy, Searching
<1>4. CASE layer[t] = 0 /\ op[t] = "insert"
  <2>1. /\ pc'[t] = "publish" /\ layer' = layer /\ global' = global
        /\ pc' = [pc EXCEPT ![t] = "publish"]
        /\ \A u \in Thread \ {t} : pc'[u] = pc[u] /\ layer'[u] = layer[u]
    BY <1>0, <1>4 DEF NextLevel, Goto, ThreadTypes
  <2>2. pc' \in [Thread -> {"idle"} \union InsertPlace \union UpdatePlace]
    BY <1>0, <2>1 DEF ThreadTypes, InsertPlace, Publishing
  <2>3. Advances(t)
    BY <1>1, <1>4, <2>1 DEF Advances, Inserting, HasReached
  <2>4. LayerKept(t)' /\ CurKept(t)' /\ SetsKept(t)'
    BY <2>1 DEF LayerKept, CurKept, SetsKept, Searching, Linking, Hopping, Walking
  <2> QED
    BY <1>0, <1>4, <2>1, <2>2, <2>3, <2>4 DEF ThreadTypes
<1>5. CASE layer[t] = 0 /\ op[t] = "update"
  <2>0. global # t
    BY <1>0, <1>5, NobodyAssumption DEF Ranks, Past, Inserting
  <2>1. /\ pc'[t] = "idle" /\ layer' = layer /\ global' = global
        /\ pc' = [pc EXCEPT ![t] = "idle"]
        /\ \A u \in Thread \ {t} : pc'[u] = pc[u] /\ layer'[u] = layer[u]
    BY <1>0, <1>5, <2>0 DEF NextLevel, Finish, Goto, ThreadTypes
  <2>2. pc' \in [Thread -> {"idle"} \union InsertPlace \union UpdatePlace]
    BY <1>0, <2>1 DEF ThreadTypes
  <2>3. Advances(t)
    BY <1>1, <2>1 DEF Advances, Inserting
  <2>4. LayerKept(t)' /\ CurKept(t)' /\ SetsKept(t)'
    BY <2>1 DEF LayerKept, CurKept, SetsKept, Searching, Linking, Hopping, Walking
  <2> QED
    BY <1>0, <1>5, <2>1, <2>2, <2>3, <2>4 DEF ThreadTypes
<1> QED
  BY <1>1, <1>3, <1>4, <1>5, Constants, GraphAssumption

(* The element's own list: neighbours that are linked at the level.        *)
LEMMA ConnectToKeeps ==
  ASSUME Kept, NEW t \in Thread, NEW result \in SUBSET Elem, NEW withEntry,
         ConnectTo(t, Candidates(t, result, withEntry)),
         \/ Inserting(t) /\ pc[t] = "expand"
         \/ Updating(t) /\ pc[t] = "reconnect",
         result \subseteq Joined(layer[t]) \ {elem[t]},
         withEntry => epcopy[t] # elem[t],
         level[epcopy[t]] >= layer[t]
  PROVE  Kept'
<1>0. Types /\ ThreadTypes /\ Apart /\ ListsKept /\ RowKept(t)
  BY DEF Kept
<1>1. /\ pc[t] \in Busy /\ pc[t] \in {"expand"} \union Linking /\ op[t] \in {"insert", "update"}
      /\ layer[t] \in Levels /\ elem[t] \in Elem /\ elem[t] \in 1 .. count
      /\ cur[t] <= count /\ Full(epcopy[t])
      /\ 1 .. count \subseteq Elem /\ pc[t] # "idle"
  BY <1>0, RowElems
  DEF ThreadTypes, Busy, Walking, Searching, Linking, RowKept, PlaceKept
<1>2. epcopy[t] \in Joined(layer[t]) /\ Joined(layer[t]) \subseteq Elem
  BY <1>1, FullJoins, JoinedIn
<1>k. PICK k \in Levels : k = layer[t]
  BY <1>1
<1>3. PICK b \in Candidates(t, result, withEntry) : \E sel \in Heuristic(b, M) :
        IF sel = EmptyBag /\ layer[t] > 0
        THEN ReadWild
        ELSE /\ links' = [links EXCEPT ![elem[t]][layer[t]] = sel]
             /\ todo' = [todo EXCEPT ![t] = sel]
             /\ IF sel = EmptyBag
                THEN NextLevel(t)
                ELSE Goto(t, "link") /\ UNCHANGED <<layer, global>>
             /\ ForgetSearch(t)
             /\ UNCHANGED <<count, level, deleted, enterpoint_node_, maxlevel_,
                            wild, bounds, row, epdel, cur>>
  BY DEF ConnectTo
<1>4. b \in Lists /\ BagToSet(b) \subseteq Joined(layer[t]) \ {elem[t]}
  <2>1. withEntry => epcopy[t] \in Elem
    BY <1>2
  <2>2. /\ b \in Lists
        /\ BagToSet(b) \subseteq result \union (IF withEntry THEN {epcopy[t]} ELSE {})
    BY <1>3, <2>1, CandidatesKeep, GraphAssumption
  <2> QED
    BY <1>2, <2>2
<1>5. PICK sel \in Heuristic(b, M) :
        IF sel = EmptyBag /\ layer[t] > 0
        THEN ReadWild
        ELSE /\ links' = [links EXCEPT ![elem[t]][layer[t]] = sel]
             /\ todo' = [todo EXCEPT ![t] = sel]
             /\ IF sel = EmptyBag
                THEN NextLevel(t)
                ELSE Goto(t, "link") /\ UNCHANGED <<layer, global>>
             /\ ForgetSearch(t)
             /\ UNCHANGED <<count, level, deleted, enterpoint_node_, maxlevel_,
                            wild, bounds, row, epdel, cur>>
  BY <1>3
<1>6. /\ sel \in Lists /\ BagToSet(sel) \subseteq Joined(layer[t]) \ {elem[t]}
      /\ Size(sel) <= M /\ Size(sel) <= Mcurmax(layer[t])
  <2>1. /\ sel \in Lists /\ BagToSet(sel) \subseteq BagToSet(b) /\ Size(sel) <= M
    BY <1>4, HeuristicKeeps, Constants, GraphAssumption
  <2>2. Size(sel) \in Nat
    BY <2>1, SizeZero
  <2> QED
    BY <1>1, <1>4, <2>1, <2>2, Constants, GraphAssumption
<1>7. CASE sel = EmptyBag /\ layer[t] > 0
  BY <1>5, <1>7, WildKeeps
<1>8. CASE ~(sel = EmptyBag /\ layer[t] > 0)
  <2>1. /\ links' = [links EXCEPT ![elem[t]][layer[t]] = sel]
        /\ todo' = [todo EXCEPT ![t] = sel]
        /\ frontier' = [frontier EXCEPT ![t] = {}] /\ found' = [found EXCEPT ![t] = {}]
        /\ IF sel = EmptyBag
           THEN NextLevel(t)
           ELSE Goto(t, "link") /\ UNCHANGED <<layer, global>>
        /\ UNCHANGED <<count, level, deleted, enterpoint_node_, maxlevel_,
                       wild, updates, marks, op, elem, maxcopy, epcopy, epdel, cur>>
        /\ RowStays(t)
    BY <1>5, <1>8 DEF ForgetSearch, bounds, row, RowStays
  <2>2. /\ UNCHANGED global /\ Advances(t)
        /\ pc' \in [Thread -> {"idle"} \union InsertPlace \union UpdatePlace]
        /\ layer' \in [Thread -> Levels]
        /\ op[t] = "insert" => pc'[t] \in Walking \union {"link", "publish"}
        /\ op[t] = "update" => pc'[t] \in (Busy \ {"mark"}) \union {"idle"}
        /\ \A u \in Thread \ {t} : pc'[u] = pc[u] /\ layer'[u] = layer[u]
        /\ Grows => LayerKept(t)' /\ CurKept(t)' /\ SetsKept(t)'
        /\ Inserting(t)' => HasReached(t, k)'
    <3>1. CASE sel = EmptyBag
      <4>1. NextLevel(t) /\ layer[t] = 0
        BY <1>1, <1>8, <2>1, <3>1, Constants, GraphAssumption
      <4>2. op[t] = "insert" => pc'[t] = "publish"
        BY <1>0, <4>1 DEF NextLevel, Goto, ThreadTypes
      <4>3. op[t] = "update" => pc'[t] = "idle"
        BY <1>0, <4>1 DEF NextLevel, Finish, Goto, ThreadTypes
      <4>4. Inserting(t)' => HasReached(t, k)'
        BY <1>1, <2>1, <4>2, <4>3 DEF HasReached, Inserting
      <4> QED
        BY <1>1, <2>1, <4>1, <4>4, NextLevelKeeps
    <3>2. CASE sel # EmptyBag
      <4>1. /\ pc' = [pc EXCEPT ![t] = "link"] /\ layer' = layer /\ global' = global
            /\ pc'[t] = "link" /\ todo'[t] = sel
        BY <1>0, <2>1, <3>2 DEF Goto, ThreadTypes
      <4>2. /\ pc' \in [Thread -> {"idle"} \union InsertPlace \union UpdatePlace]
            /\ layer' \in [Thread -> Levels]
            /\ \A u \in Thread \ {t} : pc'[u] = pc[u] /\ layer'[u] = layer[u]
        BY <1>0, <4>1 DEF ThreadTypes, InsertPlace
      <4>3. /\ op[t] = "insert" => pc'[t] \in Walking \union {"link", "publish"}
            /\ op[t] = "update" => pc'[t] \in (Busy \ {"mark"}) \union {"idle"}
        BY <4>1 DEF Busy, Linking
      <4>4. Advances(t)
        BY <1>0, <1>1, <2>1, <4>1, Constants, GraphAssumption
        DEF Advances, Inserting, HasReached, Publishing, ThreadTypes, Linking, Updating
      <4>5. ASSUME Grows PROVE LayerKept(t)' /\ CurKept(t)' /\ SetsKept(t)'
        <5>1. LayerKept(t)'
          BY <1>0, <1>1, <2>1, <4>1
          DEF RowKept, LayerKept, Searching, Linking, Hopping
        <5>2. CurKept(t)'
          BY <2>1, <4>1 DEF CurKept, Walking, Searching
        <5>3. BagToSet(sel) \subseteq Joined(k)' \ {elem[t]}
          BY <1>k, <1>6, <4>5 DEF Grows
        <5>4. SetsKept(t)'
          BY <1>k, <1>6, <2>1, <4>1, <5>3 DEF SetsKept
        <5> QED
          BY <5>1, <5>2, <5>4
      <4>6. HasReached(t, k)'
        BY <1>k, <4>1, Constants, GraphAssumption DEF HasReached
      <4> QED
        BY <4>1, <4>2, <4>3, <4>4, <4>5, <4>6
    <3> QED
      BY <3>1, <3>2
  <2>3. ThreadTypes'
    <3>1. /\ todo' \in [Thread -> Lists] /\ frontier' \in [Thread -> SUBSET Elem]
          /\ found' \in [Thread -> SUBSET Elem]
      BY <1>0, <1>6, <2>1 DEF ThreadTypes
    <3> QED
      BY <1>0, <2>1, <2>2, <3>1 DEF ThreadTypes
  <2>4. OthersStay(t)
    BY <1>0, <2>1, <2>2 DEF OthersStay, Stays, ThreadTypes
  <2>5. ASSUME Grows PROVE ListsKept'
    <3>1. elem[t] \in Joined(k)'
      <4>1. CASE Updating(t)
        <5>1. level[elem[t]] >= layer[t]
          BY <1>0, <1>1 DEF RowKept, LayerKept, Linking, Searching, Types
        <5>2. elem[t] \in Joined(layer[t])
          BY <1>0, <4>1, <5>1, UpdateJoined
        <5> QED
          BY <1>k, <2>5, <5>2 DEF Grows
      <4>2. CASE Inserting(t)
        <5>1. elem[t] \in 1 .. count' /\ level'[elem[t]] >= k
          BY <1>0, <1>k, <1>1, <2>1 DEF RowKept, LayerKept, Linking, Searching, Types
        <5>2. ASSUME NEW u \in Thread, Inserting(u)', elem'[u] = elem[t] PROVE u = t
          BY <1>0, <1>1, <2>1, <2>4, <5>2 DEF Apart, OthersStay, Stays, Inserting
        <5>3. \A u \in Thread : Inserting(u)' /\ elem'[u] = elem[t] => HasReached(u, k)'
          BY <2>2, <5>2
        <5> QED
          BY <5>1, <5>3 DEF Joined
      <4> QED
        BY <4>1, <4>2
    <3>2. BagToSet(sel) \subseteq Joined(k)' \ {elem[t]}
      BY <1>k, <1>6, <2>5 DEF Grows
    <3> QED
      BY <1>0, <1>k, <1>1, <1>6, <2>1, <2>5, <3>1, <3>2, ListsAfterWrite
  <2>6. links' \in [Elem -> [Levels -> Lists]]
    BY <1>0, <1>1, <1>6, <2>1, OneListChanges
  <2>7. cur'[t] <= count /\ epcopy'[t] = epcopy[t]
    BY <1>1, <2>1
  <2> QED
    BY <1>1, <2>1, <2>2, <2>3, <2>4, <2>5, <2>6, <2>7, BusyKeeps
<1> QED
  BY <1>7, <1>8

LEMMA ConnectKeeps ==
  ASSUME Kept, NEW t \in Thread, Connect(t)
  PROVE  Kept'
<1>0. Types /\ ThreadTypes /\ RowKept(t)
  BY DEF Kept
<1>1. /\ pc[t] = "expand" /\ op[t] = "insert" /\ Inserting(t)
      /\ frontier[t] = {} \/ cur[t] \notin frontier[t]
      /\ ConnectTo(t, Candidates(t, found[t], epdel[t]))
  BY DEF Connect, SearchOver, Inserting
<1>2. /\ found[t] \in SUBSET Elem /\ found[t] \subseteq Joined(layer[t])
  BY <1>0, <1>1 DEF ThreadTypes, RowKept, SetsKept
<1>3. elem[t] \notin Joined(layer[t])
  BY <1>0, <1>1, NotJoined DEF Searching
<1>4. epcopy[t] # elem[t]
  BY <1>0, <1>1, RowElems DEF Walking, Searching, Full, Publishing
<1>5. level[epcopy[t]] >= layer[t]
  BY <1>0, <1>1 DEF RowKept, CurKept, AtStart, Updating, Walking, Searching
<1> QED
  BY <1>1, <1>2, <1>3, <1>4, <1>5, ConnectToKeeps

LEMMA ReconnectKeeps ==
  ASSUME Kept, NEW t \in Thread, Reconnect(t)
  PROVE  Kept'
<1>0. Types /\ ThreadTypes /\ RowKept(t)
  BY DEF Kept
<1>1. pc[t] = "reconnect" /\ ConnectTo(t, Candidates(t, found[t], epdel[t]))
  BY DEF Reconnect
<1>2. Updating(t)
  <2>1. op[t] \in {"insert", "update"}
    BY <1>0 DEF ThreadTypes
  <2>2. ~Inserting(t)
    BY <1>0, <1>1 DEF RowKept, PlaceKept, InsertPlace, Walking, Searching, Publishing
  <2> QED
    BY <1>1, <2>1, <2>2 DEF Inserting, Updating
<1>3. /\ found[t] \in SUBSET Elem /\ found[t] \subseteq Joined(layer[t]) \ {elem[t]}
      /\ epdel[t] => epcopy[t] # elem[t]
  BY <1>0, <1>1 DEF ThreadTypes, RowKept, SetsKept
<1>4. level[epcopy[t]] >= layer[t]
  BY <1>0, <1>1 DEF RowKept, CurKept, AtStart, Linking
<1> QED
  BY <1>1, <1>2, <1>3, <1>4, ConnectToKeeps

(* Where a row links, its own element is linked already.                   *)
LEMMA LinkingJoined ==
  ASSUME Kept, NEW t \in Thread, pc[t] = "link"
  PROVE  elem[t] \in Joined(layer[t])
<1>0. Types /\ ThreadTypes /\ Apart /\ RowKept(t)
  BY DEF Kept
<1>1. /\ elem[t] \in 1 .. count /\ level[elem[t]] >= layer[t] /\ layer[t] \in Int
      /\ Inserting(t) \/ Updating(t)
  <2>1. elem[t] \in 1 .. count /\ elem[t] \in Elem
    BY <1>0, RowElems
  <2>2. level[elem[t]] \in Levels /\ layer[t] \in Levels /\ layer[t] <= level[elem[t]]
    BY <1>0, <2>1 DEF Types, ThreadTypes, RowKept, LayerKept, Linking
  <2> QED
    BY <1>0, <2>1, <2>2, Constants, GraphAssumption DEF ThreadTypes, Inserting, Updating
<1>2. CASE Updating(t)
  BY <1>0, <1>1, <1>2, UpdateJoined
<1>3. CASE Inserting(t)
  <2>1. \A u \in Thread : Inserting(u) /\ elem[u] = elem[t] => HasReached(u, layer[t])
    BY <1>0, <1>1, <1>3 DEF Apart, Inserting, HasReached
  <2> QED
    BY <1>1, <2>1, JoinedIn
<1> QED
  BY <1>1, <1>2, <1>3

LEMMA LinkBackKeeps ==
  ASSUME Kept, NEW t \in Thread, LinkBack(t)
  PROVE  Kept'
<1>0. Types /\ ThreadTypes /\ ListsKept /\ RowKept(t)
  BY DEF Kept
<1>1. /\ pc[t] = "link" /\ pc[t] \in Busy /\ op[t] \in {"insert", "update"}
      /\ elem[t] \in Elem /\ 1 .. count \subseteq Elem /\ count \in Nat
  BY <1>0, RowElems DEF LinkBack, ThreadTypes, Busy, Linking
<1>k. PICK k \in Levels : k = layer[t]
  BY <1>0 DEF ThreadTypes
<1>2. /\ todo[t] \in Lists /\ BagToSet(todo[t]) \subseteq Joined(k) \ {elem[t]}
      /\ Size(todo[t]) <= M /\ Size(todo[t]) \in Nat
      /\ level[epcopy[t]] >= k
  <2>1. todo[t] \in Lists
    BY <1>0 DEF ThreadTypes
  <2> QED
    BY <1>0, <1>k, <1>1, <2>1, SizeZero
    DEF RowKept, SetsKept, CurKept, AtStart, Linking
<1>3. elem[t] \in Joined(k)
  BY <1>k, <1>1, LinkingJoined
<1>4. PICK n \in BagToSet(todo[t]) :
        /\ \E new \in IF op[t] = "update" /\ BagIn(elem[t], links[n][k]) THEN {links[n][k]}
                      ELSE IF Size(links[n][k]) < Mcurmax(k)
                      THEN {Bag!BagAdd(links[n][k], elem[t])}
                      ELSE Heuristic(Bag!BagAdd(links[n][k], elem[t]), Mcurmax(k)) :
             links' = [links EXCEPT ![n][k] = new]
        /\ cur' = [cur EXCEPT ![t] = n]
        /\ todo' = [todo EXCEPT ![t] = Bag!BagRemove(todo[t], n)]
        /\ IF Size(todo[t]) = 1
           THEN NextLevel(t)
           ELSE UNCHANGED <<pc, layer, global>>
  BY <1>k DEF LinkBack, ListAt
<1>5. UNCHANGED <<count, level, deleted, enterpoint_node_, maxlevel_, wild, updates, marks,
                  op, elem, maxcopy, epcopy, epdel, frontier, found>>
  BY DEF LinkBack, bounds, row
<1>6. /\ n \in Joined(k) /\ n \in 1 .. count /\ n \in Elem /\ n # elem[t] /\ level[n] >= k
      /\ links[n][k] \in Lists /\ Size(links[n][k]) <= Mcurmax(k)
      /\ BagToSet(links[n][k]) \subseteq Joined(k) \ {n}
  BY <1>0, <1>k, <1>1, <1>2, <1>4, JoinedIn DEF Types, ListsKept
<1>7. PICK new \in IF op[t] = "update" /\ BagIn(elem[t], links[n][k]) THEN {links[n][k]}
                   ELSE IF Size(links[n][k]) < Mcurmax(k)
                   THEN {Bag!BagAdd(links[n][k], elem[t])}
                   ELSE Heuristic(Bag!BagAdd(links[n][k], elem[t]), Mcurmax(k)) :
             links' = [links EXCEPT ![n][k] = new]
  BY <1>4
<1>8. new \in Lists /\ BagToSet(new) \subseteq Joined(k) \ {n} /\ Size(new) <= Mcurmax(k)
  <2> DEFINE longer == Bag!BagAdd(links[n][k], elem[t])
  <2>1. /\ longer \in Lists /\ BagToSet(longer) = BagToSet(links[n][k]) \union {elem[t]}
        /\ Size(longer) = Size(links[n][k]) + 1
    BY <1>1, <1>6, AddOne
  <2>2. Size(links[n][k]) \in Nat /\ Mcurmax(k) \in Nat /\ Mcurmax(k) > 0
    BY <1>6, SizeZero, Constants, GraphAssumption
  <2> HIDE DEF longer
  <2>3. CASE new = links[n][k]
    BY <1>6, <2>3
  <2>4. CASE new = longer /\ Size(links[n][k]) < Mcurmax(k)
    BY <1>3, <1>6, <2>1, <2>2, <2>4
  <2>5. CASE new \in Heuristic(longer, Mcurmax(k))
    <3>1. /\ new \in Lists /\ BagToSet(new) \subseteq BagToSet(longer)
          /\ Size(new) <= Mcurmax(k)
      BY <2>1, <2>2, <2>5, HeuristicKeeps
    <3> QED
      BY <1>3, <1>6, <2>1, <3>1
  <2> QED
    BY <1>7, <2>3, <2>4, <2>5 DEF longer
<1> DEFINE rest == Bag!BagRemove(todo[t], n)
<1>9. /\ rest \in Lists /\ BagToSet(rest) \subseteq BagToSet(todo[t])
      /\ Size(rest) = Size(todo[t]) - 1
  BY <1>2, <1>4, RemoveOne
<1> HIDE DEF rest
<1>10. todo' = [todo EXCEPT ![t] = rest] /\ todo'[t] = rest /\ cur'[t] = n
  BY <1>0, <1>4 DEF rest, ThreadTypes
<1>11. RowStays(t) /\ epcopy'[t] = epcopy[t]
  BY <1>5 DEF RowStays
<1>12. /\ UNCHANGED global /\ Advances(t)
       /\ pc' \in [Thread -> {"idle"} \union InsertPlace \union UpdatePlace]
       /\ layer' \in [Thread -> Levels]
       /\ op[t] = "insert" => pc'[t] \in Walking \union {"link", "publish"}
       /\ op[t] = "update" => pc'[t] \in (Busy \ {"mark"}) \union {"idle"}
       /\ \A u \in Thread \ {t} : pc'[u] = pc[u] /\ layer'[u] = layer[u]
       /\ Grows => LayerKept(t)' /\ CurKept(t)' /\ SetsKept(t)'
  <2>1. CASE Size(todo[t]) = 1
    <3>1. NextLevel(t)
      BY <1>4, <2>1
    <3> QED
      BY <1>k, <1>1, <1>2, <1>5, <1>6, <1>10, <1>11, <3>1, NextLevelKeeps DEF Linking
  <2>2. CASE Size(todo[t]) # 1
    <3>1. UNCHANGED <<pc, layer, global>>
      BY <1>4, <2>2
    <3>2. Advances(t)
      BY <1>1, <1>5, <3>1 DEF Advances, Inserting, HasReached
    <3>3. ASSUME Grows PROVE LayerKept(t)' /\ CurKept(t)' /\ SetsKept(t)'
      <4>1. LayerKept(t)'
        BY <1>0, <1>5, <3>1 DEF RowKept, LayerKept
      <4>2. CurKept(t)'
        BY <1>k, <1>1, <1>2, <1>5, <3>1 DEF CurKept, Walking, Searching
      <4>3. BagToSet(rest) \subseteq Joined(k)' \ {elem[t]}
        BY <1>2, <1>9, <3>3 DEF Grows
      <4>4. Size(rest) <= M
        BY <1>2, <1>9, Constants, GraphAssumption
      <4>5. SetsKept(t)'
        BY <1>k, <1>1, <1>5, <1>10, <3>1, <4>3, <4>4 DEF SetsKept
      <4> QED
        BY <4>1, <4>2, <4>5
    <3>4. /\ op[t] = "insert" => pc'[t] \in Walking \union {"link", "publish"}
          /\ op[t] = "update" => pc'[t] \in (Busy \ {"mark"}) \union {"idle"}
      BY <1>1, <3>1 DEF Busy, Linking
    <3> QED
      BY <1>0, <3>1, <3>2, <3>3, <3>4 DEF ThreadTypes
  <2> QED
    BY <2>1, <2>2
<1>13. ThreadTypes'
  <2>1. todo' \in [Thread -> Lists] /\ cur' \in [Thread -> 0 .. MaxElements]
    <3>1. n \in 0 .. MaxElements
      BY <1>6 DEF Elem
    <3> QED
      BY <1>0, <1>4, <1>9, <1>10, <3>1 DEF ThreadTypes
  <2> QED
    BY <1>0, <1>5, <1>12, <2>1 DEF ThreadTypes
<1>14. OthersStay(t)
  BY <1>0, <1>4, <1>5, <1>12 DEF OthersStay, Stays, ThreadTypes
<1>15. Grows => ListsKept'
  <2> SUFFICES ASSUME Grows PROVE ListsKept'
    OBVIOUS
  <2>1. n \in Joined(k)' /\ BagToSet(new) \subseteq Joined(k)' \ {n}
    BY <1>6, <1>8 DEF Grows
  <2> QED
    BY <1>0, <1>6, <1>7, <1>8, <2>1, ListsAfterWrite
<1>16. links' \in [Elem -> [Levels -> Lists]]
  BY <1>0, <1>6, <1>7, <1>8, OneListChanges
<1>17. cur'[t] <= count
  BY <1>1, <1>6, <1>10
<1> QED
  BY <1>1, <1>5, <1>11, <1>12, <1>13, <1>14, <1>15, <1>16,
     <1>17, BusyKeeps

-----------------------------------------------------------------------------
(* Updates.                                                                *)

(* An update's first steps: it finds its element linked at all levels.     *)
LEMMA StartUpdateKeeps ==
  ASSUME Kept, NEW t \in Thread, StartUpdate(t)
  PROVE  Kept'
<1>0. Types /\ ThreadTypes /\ Apart /\ RowKept(t) /\ ListsKept
  BY DEF Kept
<1>1. PICK e \in 1 .. count :
        /\ \A u \in Thread : pc[u] # "idle" => elem[u] # e
        /\ elem' = [elem EXCEPT ![t] = e]
        /\ deleted' = deleted \ {e}
  BY DEF StartUpdate
<1>2. /\ pc[t] = "idle" /\ pc' = [pc EXCEPT ![t] = "readmax"]
      /\ op' = [op EXCEPT ![t] = "update"] /\ updates' = updates + 1
      /\ UNCHANGED <<count, level, links, enterpoint_node_, maxlevel_, global, wild, marks,
                     maxcopy, epcopy, epdel, layer, cur, seen, frontier, found, todo>>
  BY DEF StartUpdate, Goto, walk
<1>3. pc'[t] = "readmax" /\ op'[t] = "update" /\ elem'[t] = e
  BY <1>0, <1>1, <1>2 DEF ThreadTypes
<1>4. count \in Nat /\ updates \in Nat /\ e \in 0 .. MaxElements /\ e <= count
  BY <1>0, RowElems DEF Types, Elem
<1>5. Types'
  BY <1>0, <1>1, <1>2, <1>4 DEF Types
<1>6. ThreadTypes'
  <2>1. /\ pc' \in [Thread -> {"idle"} \union InsertPlace \union UpdatePlace]
        /\ op' \in [Thread -> {"insert", "update"}]
        /\ elem' \in [Thread -> 0 .. MaxElements]
    BY <1>0, <1>1, <1>2, <1>4 DEF ThreadTypes, UpdatePlace
  <2> QED
    BY <1>0, <1>2, <2>1 DEF ThreadTypes
<1>7. OthersStay(t)
  BY <1>0, <1>1, <1>2 DEF OthersStay, Stays, ThreadTypes
<1>8. Apart'
  BY <1>0, <1>1, <1>2, <1>3, <1>7 DEF Apart, OthersStay, Stays
<1>9. ~Inserting(t) /\ ~Inserting(t)'
  BY <1>2, <1>3 DEF Inserting
<1>10. RowKept(t)'
  <2>1. PlaceKept(t)'
    <3>1. epcopy[t] <= count /\ cur[t] <= count
      BY <1>0 DEF RowKept, PlaceKept
    <3> QED
      BY <1>1, <1>2, <1>3, <1>4, <1>9, <3>1 DEF PlaceKept, UpdatePlace, None
  <2>2. CopiesKept(t)'
    BY <1>3, <1>9 DEF CopiesKept, Past
  <2>3. LayerKept(t)' /\ CurKept(t)' /\ SetsKept(t)'
    BY <1>3 DEF LayerKept, CurKept, SetsKept, Searching, Linking, Hopping, Walking
  <2> QED
    BY <2>1, <2>2, <2>3 DEF RowKept
<1>11. Advances(t) /\ Quiet(t)
  BY <1>9 DEF Advances, Quiet
<1>12. Grows => ListsKept'
  BY <1>0, <1>2, ListsStay
<1>13. deleted' \subseteq deleted /\ updates <= updates'
  BY <1>1, <1>2, <1>4
<1> QED
  BY <1>2, <1>5, <1>6, <1>7, <1>8, <1>10, <1>11, <1>12, <1>13, StepKeeps

(* What every other step of an update leaves alone.                        *)
LEMMA UpdateStepKeeps ==
  ASSUME Kept, NEW t \in Thread, Updating(t), Updating(t)' \/ pc'[t] = "idle",
         OthersStay(t), op'[t] = op[t], elem'[t] = elem[t],
         UNCHANGED <<count, level, deleted, enterpoint_node_, maxlevel_,
                     global, wild, updates, marks>>,
         links' \in [Elem -> [Levels -> Lists]],
         ThreadTypes', Grows => ListsKept', Grows => RowKept(t)'
  PROVE  Kept'
<1>0. Types /\ Apart
  BY DEF Kept
<1>1. ~Inserting(t) /\ ~Inserting(t)' /\ pc[t] # "idle"
  BY DEF Updating, Inserting
<1>2. Types' /\ updates <= updates'
  BY <1>0 DEF Types
<1>3. Apart'
  BY <1>0, <1>1, ApartStays
<1>4. Advances(t) /\ Quiet(t)
  BY <1>1 DEF Advances, Quiet
<1> QED
  BY <1>2, <1>3, <1>4, StepKeeps

(* A finished element is not above maxlevel_.                              *)
LEMMA UpdateBelow ==
  ASSUME Kept, NEW t \in Thread, Updating(t)
  PROVE  /\ level[elem[t]] <= Base /\ level[elem[t]] <= maxlevel_
         /\ Base # -1
<1>0. Types /\ ThreadTypes /\ Apart /\ Ranks /\ RowKept(t)
  BY DEF Kept
<1>1. elem[t] \in 1 .. count /\ elem[t] \in Elem /\ level[elem[t]] \in Levels
  BY <1>0, RowElems DEF Updating, Types
<1>2. LockFree(elem[t])
  BY <1>0 DEF LockFree, Apart, Updating, Inserting
<1>3. level[elem[t]] <= Base /\ Base <= maxlevel_
  BY <1>0, <1>1, <1>2 DEF Ranks
<1>4. Base \in Levels \union {-1} /\ maxlevel_ \in Levels \union {-1}
  BY <1>0 DEF Base, Types, ThreadTypes
<1> QED
  BY <1>1, <1>3, <1>4, Constants, GraphAssumption

LEMMA ReadMaxKeeps ==
  ASSUME Kept, NEW t \in Thread, ReadMax(t)
  PROVE  Kept'
<1>0. Types /\ ThreadTypes /\ ListsKept /\ RowKept(t)
  BY DEF Kept
<1>1. /\ pc[t] = "readmax" /\ pc'[t] = "readep" /\ maxcopy'[t] = maxlevel_
      /\ UNCHANGED <<count, level, links, deleted, enterpoint_node_, maxlevel_, global, wild,
                     updates, marks, op, elem, epcopy, epdel, layer, cur, frontier, found,
                     todo>>
      /\ OthersStay(t)
  BY <1>0 DEF ReadMax, Goto, ThreadTypes, graph, bounds, walk, OthersStay, Stays
<1>2. Updating(t) /\ Updating(t)' /\ ~Inserting(t)'
  BY <1>0, <1>1 DEF ThreadTypes, Inserting, Updating, RowKept, PlaceKept, InsertPlace, Walking,
                   Searching, Publishing
<1>3. ThreadTypes'
  <2>1. /\ pc' \in [Thread -> {"idle"} \union InsertPlace \union UpdatePlace]
        /\ maxcopy' \in [Thread -> Levels \union {-1}]
    BY <1>0 DEF ReadMax, Goto, ThreadTypes, UpdatePlace, Types
  <2> QED
    BY <1>0, <1>1, <2>1 DEF ThreadTypes
<1>4. RowKept(t)'
  <2>1. PlaceKept(t)'
    BY <1>0, <1>1, <1>2 DEF RowKept, PlaceKept, UpdatePlace, Updating
  <2>2. CopiesKept(t)'
    BY <1>1, <1>2, UpdateBelow DEF CopiesKept, Past
  <2>3. LayerKept(t)' /\ CurKept(t)' /\ SetsKept(t)'
    BY <1>1 DEF LayerKept, CurKept, SetsKept, Searching, Linking, Hopping, Walking
  <2> QED
    BY <2>1, <2>2, <2>3 DEF RowKept
<1>5. Grows => ListsKept'
  BY <1>0, <1>1, ListsStay
<1>6. links' \in [Elem -> [Levels -> Lists]] /\ op'[t] = op[t] /\ elem'[t] = elem[t]
  BY <1>0, <1>1 DEF Types
<1> QED
  BY <1>1, <1>2, <1>3, <1>4, <1>5, <1>6, UpdateStepKeeps

LEMMA ReadEpKeeps ==
  ASSUME Kept, NEW t \in Thread, ReadEp(t)
  PROVE  Kept'
<1>0. Types /\ ThreadTypes /\ Ranks /\ ListsKept /\ RowKept(t)
  BY DEF Kept
<1>1. /\ pc[t] = "readep" /\ epcopy' = [epcopy EXCEPT ![t] = enterpoint_node_]
      /\ layer' = [layer EXCEPT ![t] = 0]
      /\ IF enterpoint_node_ = elem[t] /\ count = 1
         THEN Finish(t)
         ELSE Goto(t, "onehop") /\ UNCHANGED global
      /\ UNCHANGED <<count, level, links, deleted, enterpoint_node_, maxlevel_, wild,
                     updates, marks, op, elem, maxcopy, epdel, cur, frontier, found,
                     todo>>
  BY DEF ReadEp, AtLayer, graph, bounds
<1>2. Updating(t) /\ ~Inserting(t)
  BY <1>0, <1>1 DEF ThreadTypes, Inserting, Updating, RowKept, PlaceKept, InsertPlace, Walking,
                   Searching, Publishing
<1>3. global # t
  BY <1>0, <1>2, NobodyAssumption DEF Ranks, Past
<1>4. /\ pc'[t] \in {"idle", "onehop"} /\ global' = global
      /\ pc' = [pc EXCEPT ![t] = pc'[t]]
      /\ epcopy'[t] = enterpoint_node_ /\ layer'[t] = 0
  BY <1>0, <1>1, <1>3 DEF Finish, Goto, ThreadTypes
<1>5. /\ (Updating(t)' \/ pc'[t] = "idle") /\ ~Inserting(t)' /\ (Updating(t)' => Updating(t))
      /\ op'[t] = op[t] /\ elem'[t] = elem[t]
  BY <1>1, <1>2 DEF Inserting, Updating
<1>6. OthersStay(t)
  BY <1>0, <1>1, <1>4 DEF OthersStay, Stays, ThreadTypes
<1>7. ThreadTypes'
  <2>1. enterpoint_node_ \in 0 .. MaxElements /\ 0 \in Levels
    BY <1>0, Constants, GraphAssumption DEF Types, Levels
  <2>2. /\ pc' \in [Thread -> {"idle"} \union InsertPlace \union UpdatePlace]
        /\ epcopy' \in [Thread -> 0 .. MaxElements]
        /\ layer' \in [Thread -> Levels]
    BY <1>0, <1>1, <1>4, <2>1 DEF ThreadTypes, UpdatePlace, Hopping
  <2> QED
    BY <1>0, <1>1, <2>2 DEF ThreadTypes
<1>8. ASSUME Grows PROVE RowKept(t)'
  <2>1. Full(enterpoint_node_)'
    BY <1>1, <1>2, <1>8, EntryReady, UpdateBelow DEF Grows
  <2>2. enterpoint_node_ <= count /\ elem[t] \in 1 .. count /\ 1 .. count \subseteq Elem
    BY <1>0, <1>2, RowElems DEF Types, Updating
  <2>3. PlaceKept(t)'
    BY <1>0, <1>1, <1>2, <1>4, <1>5, <2>2
    DEF RowKept, PlaceKept, UpdatePlace, Hopping, Updating
  <2>4. CopiesKept(t)'
    <3>1. level[elem[t]] <= maxcopy[t]
      BY <1>0, <1>1, <1>2 DEF RowKept, CopiesKept
    <3>2. Full(epcopy[t])'
      BY <1>1, <1>4, <2>1
    <3> QED
      BY <1>1, <1>5, <3>1, <3>2 DEF CopiesKept, Past
  <2>5. LayerKept(t)'
    <3>1. level[elem[t]] \in Levels
      BY <1>0, <2>2 DEF Types
    <3>2. 0 <= level[elem[t]]
      BY <3>1, Constants, GraphAssumption DEF Levels
    <3> QED
      BY <1>1, <1>4, <3>2 DEF LayerKept, Searching, Linking
  <2>6. CurKept(t)' /\ SetsKept(t)'
    BY <1>4 DEF CurKept, SetsKept, Searching, Linking, Walking
  <2> QED
    BY <2>3, <2>4, <2>5, <2>6 DEF RowKept
<1>9. Grows => ListsKept'
  BY <1>0, <1>1, ListsStay
<1>10. links' \in [Elem -> [Levels -> Lists]]
  BY <1>0, <1>1 DEF Types
<1> QED
  BY <1>1, <1>2, <1>4, <1>5, <1>6, <1>7, <1>8, <1>9, <1>10, UpdateStepKeeps

LEMMA HoppingUpdates ==
  ASSUME Kept, NEW t \in Thread, pc[t] \in Hopping
  PROVE  /\ Updating(t) /\ ~Inserting(t) /\ op[t] = "update" /\ pc[t] \in Busy
         /\ elem[t] \in 1 .. count /\ elem[t] \in Elem /\ 1 .. count \subseteq Elem
         /\ Full(epcopy[t]) /\ epcopy[t] \in 1 .. count
         /\ layer[t] \in Levels /\ level[elem[t]] \in Levels
         /\ layer[t] <= level[elem[t]] /\ level[elem[t]] <= maxcopy[t]
         /\ maxcopy[t] \in Levels \union {-1} /\ count \in Nat /\ cur[t] <= count
         /\ elem[t] \in Joined(layer[t])
<1>0. Types /\ ThreadTypes /\ Apart /\ RowKept(t)
  BY DEF Kept
<1>1. Updating(t) /\ ~Inserting(t) /\ op[t] = "update" /\ pc[t] \in Busy
  BY <1>0 DEF ThreadTypes, Inserting, Updating, RowKept, PlaceKept, InsertPlace, Walking,
              Searching, Publishing, Hopping, Busy
<1>2. /\ elem[t] \in 1 .. count /\ 1 .. count \subseteq Elem /\ count \in Nat
      /\ Full(epcopy[t]) /\ epcopy[t] \in 1 .. count
  BY <1>0, <1>1, RowElems DEF Updating
<1>3. /\ layer[t] \in Levels /\ level[elem[t]] \in Levels
      /\ layer[t] <= level[elem[t]] /\ level[elem[t]] <= maxcopy[t]
      /\ maxcopy[t] \in Levels \union {-1} /\ cur[t] <= count
  BY <1>0, <1>1, <1>2
  DEF Types, ThreadTypes, RowKept, PlaceKept, LayerKept, CopiesKept, Hopping
<1>4. level[elem[t]] >= layer[t]
  BY <1>3, Constants, GraphAssumption
<1> QED
  BY <1>0, <1>1, <1>2, <1>3, <1>4, UpdateJoined

(* The lists around the element are relinked level by level, and then the  *)
(* element is searched for again, from an entry point that may be too low. *)
LEMMA NextHigherLevelKeeps ==
  ASSUME Kept, NEW t \in Thread, pc[t] \in Hopping, NextHigherLevel(t), RowStays(t),
         UNCHANGED <<count, level>>, epcopy'[t] = epcopy[t]
  PROVE  /\ pc' \in [Thread -> {"idle"} \union InsertPlace \union UpdatePlace]
         /\ layer' \in [Thread -> Levels] /\ cur' \in [Thread -> 0 .. MaxElements]
         /\ cur'[t] <= count
         /\ pc'[t] \in Busy \ {"mark"}
         /\ \A u \in Thread \ {t} : pc'[u] = pc[u] /\ layer'[u] = layer[u] /\ cur'[u] = cur[u]
         /\ LayerKept(t)' /\ CurKept(t)' /\ SetsKept(t)'
<1>0. Types /\ ThreadTypes /\ RowKept(t)
  BY DEF Kept
<1>1. /\ Updating(t) /\ op[t] = "update"
      /\ elem[t] \in 1 .. count /\ epcopy[t] \in 1 .. count /\ 1 .. count \subseteq Elem
      /\ layer[t] \in Levels /\ level[elem[t]] \in Levels
      /\ layer[t] <= level[elem[t]] /\ level[elem[t]] <= maxcopy[t]
      /\ maxcopy[t] \in Levels \union {-1} /\ cur[t] <= count /\ count \in Nat
  BY HoppingUpdates
<1>2. op'[t] = op[t] /\ elem'[t] = elem[t] /\ maxcopy'[t] = maxcopy[t]
  BY DEF RowStays
<1>3. CASE layer[t] < level[elem[t]]
  <2>1. /\ pc' = [pc EXCEPT ![t] = "onehop"] /\ pc'[t] = "onehop"
        /\ layer' = [layer EXCEPT ![t] = layer[t] + 1] /\ layer'[t] = layer[t] + 1
        /\ cur' = cur
    BY <1>0, <1>3 DEF NextHigherLevel, Goto, AtLayer, ThreadTypes
  <2>2. layer[t] + 1 \in Levels /\ layer[t] + 1 <= level[elem[t]]
    BY <1>1, <1>3, Constants, GraphAssumption DEF Levels
  <2>3. /\ pc' \in [Thread -> {"idle"} \union InsertPlace \union UpdatePlace]
        /\ layer' \in [Thread -> Levels] /\ cur' \in [Thread -> 0 .. MaxElements]
        /\ \A u \in Thread \ {t} : pc'[u] = pc[u] /\ layer'[u] = layer[u] /\ cur'[u] = cur[u]
    BY <1>0, <2>1, <2>2 DEF ThreadTypes, UpdatePlace, Hopping
  <2>4. LayerKept(t)' /\ CurKept(t)' /\ SetsKept(t)'
    BY <1>2, <2>1, <2>2
    DEF LayerKept, CurKept, SetsKept, Searching, Linking, Hopping, Walking
  <2> QED
    BY <1>1, <2>1, <2>3, <2>4 DEF Busy, Hopping
<1>4. CASE ~(layer[t] < level[elem[t]])
  <2>1. /\ cur' = [cur EXCEPT ![t] = epcopy[t]] /\ cur'[t] = epcopy[t]
        /\ IF level[elem[t]] < maxcopy[t]
           THEN /\ pc' = [pc EXCEPT ![t] = "descend"]
                /\ layer' = [layer EXCEPT ![t] = maxcopy[t]]
           ELSE /\ pc' = [pc EXCEPT ![t] = "search"]
                /\ layer' = [layer EXCEPT ![t] = level[elem[t]]]
    BY <1>0, <1>4 DEF NextHigherLevel, StartFrom, Goto, AtLayer, ThreadTypes
  <2>2. cur' \in [Thread -> 0 .. MaxElements] /\ cur'[t] # None /\ cur'[t] <= count
    <3>1. epcopy[t] \in 0 .. MaxElements /\ epcopy[t] # None /\ epcopy[t] <= count
      BY <1>1 DEF Elem, None
    <3> QED
      BY <1>0, <2>1, <3>1 DEF ThreadTypes
  <2>3. pc'[t] \in {"descend", "search"} => AtStart(t)'
    <3>1. op'[t] = "update" /\ cur'[t] = epcopy'[t]
      BY <1>1, <1>2, <2>1
    <3> QED
      BY <3>1 DEF AtStart, Updating
  <2>4. ~Inserting(t)'
    BY <1>1, <1>2 DEF Inserting
  <2>5. CASE level[elem[t]] < maxcopy[t]
    <3>1. /\ pc' = [pc EXCEPT ![t] = "descend"] /\ pc'[t] = "descend"
          /\ layer' = [layer EXCEPT ![t] = maxcopy[t]] /\ layer'[t] = maxcopy[t]
      BY <1>0, <2>1, <2>5 DEF ThreadTypes
    <3>2. maxcopy[t] \in Levels /\ maxcopy[t] <= maxcopy[t]
      BY <1>1, <2>5, Constants, GraphAssumption DEF Levels
    <3>3. /\ pc' \in [Thread -> {"idle"} \union InsertPlace \union UpdatePlace]
          /\ layer' \in [Thread -> Levels]
          /\ \A u \in Thread \ {t} : pc'[u] = pc[u] /\ layer'[u] = layer[u] /\ cur'[u] = cur[u]
      BY <1>0, <2>1, <3>1, <3>2 DEF ThreadTypes, UpdatePlace
    <3>4. LayerKept(t)' /\ SetsKept(t)'
      BY <1>2, <2>5, <3>1, <3>2 DEF LayerKept, SetsKept, Searching, Linking, Hopping
    <3>5. CurKept(t)'
      BY <2>2, <2>3, <2>4, <3>1 DEF CurKept
    <3> QED
      BY <2>2, <3>1, <3>3, <3>4, <3>5 DEF Busy, Walking
  <2>6. CASE ~(level[elem[t]] < maxcopy[t])
    <3>1. /\ pc' = [pc EXCEPT ![t] = "search"] /\ pc'[t] = "search"
          /\ layer' = [layer EXCEPT ![t] = level[elem[t]]] /\ layer'[t] = level[elem[t]]
      BY <1>0, <2>1, <2>6 DEF ThreadTypes
    <3>2. level[elem[t]] <= level[elem[t]]
      BY <1>1, Constants, GraphAssumption
    <3>3. /\ pc' \in [Thread -> {"idle"} \union InsertPlace \union UpdatePlace]
          /\ layer' \in [Thread -> Levels]
          /\ \A u \in Thread \ {t} : pc'[u] = pc[u] /\ layer'[u] = layer[u] /\ cur'[u] = cur[u]
      BY <1>0, <1>1, <2>1, <3>1 DEF ThreadTypes, UpdatePlace, Searching
    <3>4. LayerKept(t)' /\ SetsKept(t)'
      BY <1>1, <1>2, <3>1, <3>2 DEF LayerKept, SetsKept, Searching, Linking, Hopping
    <3>5. CurKept(t)'
      BY <2>2, <2>3, <2>4, <3>1 DEF CurKept
    <3> QED
      BY <2>2, <3>1, <3>3, <3>4, <3>5 DEF Busy, Walking, Searching
  <2> QED
    BY <2>5, <2>6
<1> QED
  BY <1>3, <1>4

LEMMA OneHopKeeps ==
  ASSUME Kept, NEW t \in Thread, OneHop(t)
  PROVE  Kept'
<1>0. Types /\ ThreadTypes /\ ListsKept /\ RowKept(t)
  BY DEF Kept
<1>1. pc[t] = "onehop" /\ pc[t] \in Hopping
  BY DEF OneHop, Hopping
<1>2. /\ Updating(t) /\ ~Inserting(t) /\ op[t] = "update" /\ pc[t] \in Busy
      /\ elem[t] \in 1 .. count /\ elem[t] \in Elem /\ 1 .. count \subseteq Elem
      /\ cur[t] <= count /\ elem[t] \in Joined(layer[t]) /\ layer[t] \in Levels
      /\ layer[t] <= level[elem[t]]
  BY <1>1, HoppingUpdates
<1> DEFINE hop == BagToSet(links[elem[t]][layer[t]])
<1>3. /\ IF hop = {}
         THEN NextHigherLevel(t) /\ UNCHANGED <<found, frontier, todo>>
         ELSE /\ found' = [found EXCEPT ![t] = {elem[t]} \union hop]
              /\ frontier' = [frontier EXCEPT ![t] = hop]
              /\ todo' = [todo EXCEPT ![t] = SetToBag(hop)]
              /\ pc' = [pc EXCEPT ![t] = "twohop"]
              /\ UNCHANGED <<layer, cur>>
      /\ UNCHANGED <<count, level, links, deleted, enterpoint_node_, maxlevel_, global, wild,
                     updates, marks, op, elem, maxcopy, epcopy, epdel>>
  BY DEF OneHop, ListAt, graph, bounds, row, Goto
<1>4. hop \subseteq Joined(layer[t]) \ {elem[t]} /\ hop \in SUBSET Elem
  BY <1>0, <1>2, LinkedJoins
<1> HIDE DEF hop
<1>5. RowStays(t) /\ epcopy'[t] = epcopy[t]
  BY <1>3 DEF RowStays
<1>6. /\ OthersStay(t) /\ ThreadTypes' /\ cur'[t] <= count /\ pc'[t] \in Busy \ {"mark"}
      /\ Grows => LayerKept(t)' /\ CurKept(t)' /\ SetsKept(t)'
  <2>1. CASE hop = {}
    <3>1. NextHigherLevel(t) /\ UNCHANGED <<found, frontier, todo>>
      BY <1>3, <2>1
    <3>2. /\ pc' \in [Thread -> {"idle"} \union InsertPlace \union UpdatePlace]
          /\ layer' \in [Thread -> Levels] /\ cur' \in [Thread -> 0 .. MaxElements]
          /\ cur'[t] <= count
          /\ pc'[t] \in Busy \ {"mark"}
          /\ \A u \in Thread \ {t} : pc'[u] = pc[u] /\ layer'[u] = layer[u] /\ cur'[u] = cur[u]
          /\ LayerKept(t)' /\ CurKept(t)' /\ SetsKept(t)'
      BY <1>1, <1>3, <1>5, <3>1, NextHigherLevelKeeps
    <3>3. OthersStay(t)
      BY <1>3, <3>1, <3>2 DEF OthersStay, Stays
    <3>4. ThreadTypes'
      BY <1>0, <1>3, <3>1, <3>2 DEF ThreadTypes
    <3> QED
      BY <3>2, <3>3, <3>4
  <2>2. CASE hop # {}
    <3>1. /\ found' = [found EXCEPT ![t] = {elem[t]} \union hop]
          /\ frontier' = [frontier EXCEPT ![t] = hop]
          /\ todo' = [todo EXCEPT ![t] = SetToBag(hop)]
          /\ pc' = [pc EXCEPT ![t] = "twohop"]
          /\ UNCHANGED <<layer, cur>>
      BY <1>3, <2>2
    <3>2. SetToBag(hop) \in Lists /\ BagToSet(SetToBag(hop)) = hop
      BY <1>4, SetAsList, GraphAssumption
    <3>3. /\ pc'[t] = "twohop" /\ found'[t] = {elem[t]} \union hop /\ frontier'[t] = hop
          /\ BagToSet(todo'[t]) = hop
      BY <1>0, <3>1, <3>2 DEF ThreadTypes
    <3>4. ThreadTypes'
      <4>1. /\ pc' \in [Thread -> {"idle"} \union InsertPlace \union UpdatePlace]
            /\ found' \in [Thread -> SUBSET Elem] /\ frontier' \in [Thread -> SUBSET Elem]
        BY <1>0, <1>2, <1>4, <3>1 DEF ThreadTypes, UpdatePlace, Hopping
      <4>2. todo' \in [Thread -> Lists]
        BY <1>0, <3>1, <3>2 DEF ThreadTypes
      <4> QED
        BY <1>0, <1>3, <3>1, <4>1, <4>2 DEF ThreadTypes
    <3>5. OthersStay(t)
      BY <1>0, <1>3, <3>1 DEF OthersStay, Stays, ThreadTypes
    <3>6. ASSUME Grows PROVE LayerKept(t)' /\ CurKept(t)' /\ SetsKept(t)'
      <4>1. LayerKept(t)' /\ CurKept(t)'
        BY <1>2, <1>3, <3>1, <3>3 DEF LayerKept, CurKept, Searching, Linking, Walking
      <4>2. Joined(layer[t]) \subseteq Joined(layer[t])'
        BY <1>2, <3>1, <3>6 DEF Grows
      <4>3. SetsKept(t)'
        BY <1>2, <1>3, <1>4, <3>1, <3>3, <4>2 DEF SetsKept
      <4> QED
        BY <4>1, <4>3
    <3> QED
      BY <1>2, <3>1, <3>3, <3>4, <3>5, <3>6 DEF Busy, Hopping
  <2> QED
    BY <2>1, <2>2
<1>7. Advances(t)
  BY <1>2, <1>3 DEF Advances, Inserting
<1>8. Grows => ListsKept'
  BY <1>0, <1>3, ListsStay
<1>9. links' \in [Elem -> [Levels -> Lists]]
  BY <1>0, <1>3 DEF Types
<1> QED
  BY <1>2, <1>3, <1>5, <1>6, <1>7, <1>8, <1>9, BusyKeeps

LEMMA TwoHopKeeps ==
  ASSUME Kept, NEW t \in Thread, TwoHop(t)
  PROVE  Kept'
<1>0. Types /\ ThreadTypes /\ ListsKept /\ RowKept(t)
  BY DEF Kept
<1>1. pc[t] = "twohop" /\ pc[t] \in Hopping
  BY DEF TwoHop, Hopping
<1>2. /\ Updating(t) /\ ~Inserting(t) /\ op[t] = "update" /\ pc[t] \in Busy
      /\ 1 .. count \subseteq Elem /\ cur[t] <= count /\ layer[t] \in Levels
      /\ layer[t] <= level[elem[t]]
  BY <1>1, HoppingUpdates
<1>3. PICK n \in frontier[t] :
        /\ found' = [found EXCEPT ![t] = found[t] \union BagToSet(links[n][layer[t]])]
        /\ frontier' = [frontier EXCEPT ![t] = frontier[t] \ {n}]
        /\ IF frontier[t] = {n} THEN Goto(t, "relink") ELSE UNCHANGED pc
  BY DEF TwoHop, ListAt
<1>4. UNCHANGED <<count, level, links, deleted, enterpoint_node_, maxlevel_, global, wild,
                  updates, marks, op, elem, maxcopy, epcopy, epdel, layer, cur, todo>>
  BY DEF TwoHop, graph, bounds, row
<1>5. /\ frontier[t] \union found[t] \subseteq Joined(layer[t])
      /\ BagToSet(todo[t]) \subseteq Joined(layer[t]) \ {elem[t]}
  BY <1>0, <1>1 DEF RowKept, SetsKept
<1>6. Joined(layer[t]) \subseteq 1 .. count /\ n \in Elem
  BY <1>2, <1>3, <1>5, JoinedIn
<1> DEFINE near == BagToSet(links[n][layer[t]])
<1>7. near \subseteq Joined(layer[t])
  BY <1>0, <1>2, <1>6, LinkedJoins
<1> HIDE DEF near
<1>8. /\ found' = [found EXCEPT ![t] = found[t] \union near]
      /\ found'[t] = found[t] \union near /\ frontier'[t] = frontier[t] \ {n}
      /\ pc'[t] \in {"twohop", "relink"} /\ pc' = [pc EXCEPT ![t] = pc'[t]]
  BY <1>0, <1>1, <1>3 DEF near, Goto, ThreadTypes
<1>9. ThreadTypes'
  <2>1. found[t] \union near \in SUBSET Elem /\ frontier[t] \ {n} \in SUBSET Elem
    BY <1>2, <1>5, <1>6, <1>7
  <2>2. /\ pc' \in [Thread -> {"idle"} \union InsertPlace \union UpdatePlace]
        /\ found' \in [Thread -> SUBSET Elem] /\ frontier' \in [Thread -> SUBSET Elem]
    BY <1>0, <1>3, <1>8, <2>1 DEF ThreadTypes, UpdatePlace, Hopping
  <2> QED
    BY <1>0, <1>4, <2>2 DEF ThreadTypes
<1>10. OthersStay(t) /\ RowStays(t) /\ epcopy'[t] = epcopy[t] /\ cur'[t] <= count
  BY <1>0, <1>2, <1>3, <1>4, <1>8 DEF OthersStay, Stays, RowStays, ThreadTypes
<1>11. ASSUME Grows PROVE LayerKept(t)' /\ CurKept(t)' /\ SetsKept(t)'
  <2>1. LayerKept(t)' /\ CurKept(t)'
    BY <1>2, <1>4, <1>8 DEF LayerKept, CurKept, Searching, Linking, Walking
  <2>2. Joined(layer[t]) \subseteq Joined(layer[t])'
    BY <1>2, <1>4, <1>11 DEF Grows
  <2>3. SetsKept(t)'
    BY <1>4, <1>5, <1>7, <1>8, <2>2 DEF SetsKept
  <2> QED
    BY <2>1, <2>3
<1>12. Advances(t) /\ pc'[t] \in Busy \ {"mark"}
  BY <1>2, <1>4, <1>8 DEF Advances, Inserting, Busy, Hopping
<1>13. Grows => ListsKept'
  BY <1>0, <1>4, ListsStay
<1>14. links' \in [Elem -> [Levels -> Lists]]
  BY <1>0, <1>4 DEF Types
<1> QED
  BY <1>2, <1>4, <1>9, <1>10, <1>11, <1>12, <1>13, <1>14, BusyKeeps

LEMMA RelinkKeeps ==
  ASSUME Kept, NEW t \in Thread, Relink(t)
  PROVE  Kept'
<1>0. Types /\ ThreadTypes /\ ListsKept /\ RowKept(t)
  BY DEF Kept
<1>1. pc[t] = "relink" /\ pc[t] \in Hopping
  BY DEF Relink, Hopping
<1>k. PICK k \in Levels : k = layer[t]
  BY <1>0 DEF ThreadTypes
<1>2. /\ Updating(t) /\ ~Inserting(t) /\ op[t] = "update" /\ pc[t] \in Busy
      /\ 1 .. count \subseteq Elem /\ cur[t] <= count
      /\ layer[t] <= level[elem[t]]
  BY <1>1, HoppingUpdates
<1>3. PICK n \in BagToSet(todo[t]) :
        /\ \E near \in SUBSET (found[t] \ {n}) :
             \E new \in Heuristic(SetToBag(near), Mcurmax(k)) :
               links' = [links EXCEPT ![n][k] = new]
        /\ todo' = [todo EXCEPT ![t] = Bag!BagRemove(todo[t], n)]
        /\ IF Size(todo[t]) = 1
           THEN NextHigherLevel(t)
           ELSE UNCHANGED <<pc, layer, cur>>
  BY <1>k DEF Relink
<1>4. UNCHANGED <<count, level, deleted, enterpoint_node_, maxlevel_, global, wild,
                  updates, marks, op, elem, maxcopy, epcopy, epdel, frontier, found>>
  BY DEF Relink, bounds, row
<1>5. /\ frontier[t] \union found[t] \subseteq Joined(k)
      /\ BagToSet(todo[t]) \subseteq Joined(k) \ {elem[t]} /\ todo[t] \in Lists
      /\ Joined(k) \subseteq Elem
  BY <1>0, <1>k, <1>1, <1>2, JoinedIn DEF RowKept, SetsKept, ThreadTypes
<1>6. PICK near \in SUBSET (found[t] \ {n}) :
        \E new \in Heuristic(SetToBag(near), Mcurmax(k)) :
          links' = [links EXCEPT ![n][k] = new]
  BY <1>3
<1>7. PICK new \in Heuristic(SetToBag(near), Mcurmax(k)) :
        links' = [links EXCEPT ![n][k] = new]
  BY <1>6
<1>8. n \in Elem /\ n \in Joined(k) /\ near \subseteq Joined(k) \ {n}
  BY <1>3, <1>5, <1>6
<1>9. new \in Lists /\ BagToSet(new) \subseteq Joined(k) \ {n} /\ Size(new) <= Mcurmax(k)
  <2>1. SetToBag(near) \in Lists /\ BagToSet(SetToBag(near)) = near
    BY <1>5, <1>8, SetAsList, GraphAssumption
  <2>2. Mcurmax(k) \in Nat /\ Mcurmax(k) > 0
    BY Constants, GraphAssumption
  <2> QED
    BY <1>7, <1>8, <2>1, <2>2, HeuristicKeeps
<1> DEFINE rest == Bag!BagRemove(todo[t], n)
<1>10. rest \in Lists /\ BagToSet(rest) \subseteq BagToSet(todo[t])
  BY <1>3, <1>5, RemoveOne
<1> HIDE DEF rest
<1>11. todo' = [todo EXCEPT ![t] = rest] /\ todo'[t] = rest
  BY <1>0, <1>3 DEF rest, ThreadTypes
<1>12. RowStays(t) /\ epcopy'[t] = epcopy[t]
  BY <1>4 DEF RowStays
<1>13. /\ pc' \in [Thread -> {"idle"} \union InsertPlace \union UpdatePlace]
       /\ layer' \in [Thread -> Levels] /\ cur' \in [Thread -> 0 .. MaxElements]
       /\ cur'[t] <= count
       /\ pc'[t] \in Busy \ {"mark"}
       /\ \A u \in Thread \ {t} : pc'[u] = pc[u] /\ layer'[u] = layer[u] /\ cur'[u] = cur[u]
       /\ Grows => LayerKept(t)' /\ CurKept(t)' /\ SetsKept(t)'
  <2>1. CASE Size(todo[t]) = 1
    <3>1. NextHigherLevel(t)
      BY <1>3, <2>1
    <3> QED
      BY <1>1, <1>4, <1>12, <3>1, NextHigherLevelKeeps
  <2>2. CASE Size(todo[t]) # 1
    <3>1. UNCHANGED <<pc, layer, cur>>
      BY <1>3, <2>2
    <3>2. ASSUME Grows PROVE LayerKept(t)' /\ CurKept(t)' /\ SetsKept(t)'
      <4>1. LayerKept(t)' /\ CurKept(t)'
        BY <1>1, <1>2, <1>4, <3>1 DEF LayerKept, CurKept, Searching, Linking, Walking
      <4>2. Joined(k) \subseteq Joined(k)'
        BY <3>2 DEF Grows
      <4>3. SetsKept(t)'
        BY <1>k, <1>1, <1>4, <1>5, <1>10, <1>11, <3>1, <4>2 DEF SetsKept
      <4> QED
        BY <4>1, <4>3
    <3>3. pc'[t] \in Busy \ {"mark"}
      BY <1>1, <1>2, <3>1
    <3> QED
      BY <1>0, <1>2, <3>1, <3>2, <3>3 DEF ThreadTypes
  <2> QED
    BY <2>1, <2>2
<1>14. ThreadTypes'
  <2>1. todo' \in [Thread -> Lists]
    BY <1>0, <1>10, <1>11 DEF ThreadTypes
  <2> QED
    BY <1>0, <1>4, <1>13, <2>1 DEF ThreadTypes
<1>15. OthersStay(t)
  BY <1>0, <1>4, <1>11, <1>13 DEF OthersStay, Stays, ThreadTypes
<1>16. Grows => ListsKept'
  <2> SUFFICES ASSUME Grows PROVE ListsKept'
    OBVIOUS
  <2>1. n \in Joined(k)' /\ BagToSet(new) \subseteq Joined(k)' \ {n}
    BY <1>8, <1>9 DEF Grows
  <2> QED
    BY <1>0, <1>7, <1>8, <1>9, <2>1, ListsAfterWrite
<1>17. links' \in [Elem -> [Levels -> Lists]]
  BY <1>0, <1>7, <1>8, <1>9, OneListChanges
<1>18. Advances(t)
  BY <1>2, <1>4 DEF Advances, Inserting
<1> QED
  BY <1>2, <1>4, <1>12, <1>13, <1>14, <1>15, <1>16, <1>17, <1>18, BusyKeeps

LEMMA FilterKeeps ==
  ASSUME Kept, NEW t \in Thread, Filter(t)
  PROVE  Kept'
<1>0. Types /\ ThreadTypes /\ ListsKept /\ RowKept(t)
  BY DEF Kept
<1>1. /\ pc[t] = "expand" /\ pc[t] \in Busy /\ op[t] = "update"
      /\ Updating(t) /\ ~Inserting(t)
      /\ frontier[t] = {} \/ cur[t] \notin frontier[t]
  BY DEF Filter, SearchOver, Updating, Inserting, Busy, Walking, Searching
<1>k. PICK k \in Levels : k = layer[t]
  BY <1>0 DEF ThreadTypes
<1>2. /\ cur[t] \in 1 .. count /\ 1 .. count \subseteq Elem /\ cur[t] <= count
      /\ elem[t] \in 1 .. count /\ elem[t] \notin deleted
  BY <1>0, <1>1, RowElems DEF Walking, Searching, RowKept, PlaceKept
<1> DEFINE others == found[t] \ {elem[t]}
<1>3. /\ found' = [found EXCEPT ![t] = others]
      /\ IF others = {}
         THEN NextLevel(t) /\ UNCHANGED epdel
         ELSE /\ epdel' = [epdel EXCEPT ![t] = epcopy[t] \in deleted]
              /\ pc' = [pc EXCEPT ![t] = "reconnect"]
              /\ UNCHANGED <<layer, global>>
      /\ UNCHANGED <<count, level, links, deleted, enterpoint_node_, maxlevel_, wild,
                     updates, marks, op, elem, maxcopy, epcopy, cur, frontier, todo>>
  BY DEF Filter, graph, bounds, row, Goto
<1>4. /\ others \in SUBSET Elem /\ others \subseteq Joined(k) \ {elem[t]}
      /\ level[epcopy[t]] >= k
  BY <1>0, <1>k, <1>1
  DEF RowKept, SetsKept, CurKept, AtStart, Walking, Searching, ThreadTypes
<1> HIDE DEF others
<1>5. found'[t] = others /\ RowStays(t) /\ epcopy'[t] = epcopy[t] /\ cur'[t] = cur[t]
  BY <1>0, <1>3 DEF RowStays, ThreadTypes
<1>6. /\ UNCHANGED global
      /\ pc' \in [Thread -> {"idle"} \union InsertPlace \union UpdatePlace]
      /\ layer' \in [Thread -> Levels]
      /\ epdel' \in [Thread -> BOOLEAN]
      /\ pc'[t] \in (Busy \ {"mark"}) \union {"idle"}
      /\ \A u \in Thread \ {t} : pc'[u] = pc[u] /\ layer'[u] = layer[u] /\ epdel'[u] = epdel[u]
      /\ Grows => LayerKept(t)' /\ CurKept(t)' /\ SetsKept(t)'
  <2>1. CASE others = {}
    <3>1. NextLevel(t) /\ UNCHANGED epdel
      BY <1>3, <2>1
    <3>2. /\ level[epcopy[t]] >= layer[t] /\ cur'[t] \in 1 .. count
          /\ Inserting(t) => level[cur'[t]] >= layer[t]
      BY <1>k, <1>1, <1>2, <1>4, <1>5
    <3>3. epdel' \in [Thread -> BOOLEAN]
      BY <1>0, <3>1 DEF ThreadTypes
    <3> QED
      BY <1>1, <1>3, <1>5, <3>1, <3>2, <3>3, NextLevelKeeps
  <2>2. CASE others # {}
    <3>1. /\ epdel' = [epdel EXCEPT ![t] = epcopy[t] \in deleted]
          /\ pc' = [pc EXCEPT ![t] = "reconnect"] /\ UNCHANGED <<layer, global>>
      BY <1>3, <2>2
    <3>2. pc'[t] = "reconnect" /\ epdel'[t] = (epcopy[t] \in deleted)
      BY <1>0, <3>1 DEF ThreadTypes
    <3>3. epdel' \in [Thread -> BOOLEAN]
      <4>1. epdel \in [Thread -> BOOLEAN] /\ (epcopy[t] \in deleted) \in BOOLEAN
        BY <1>0 DEF ThreadTypes
      <4> QED
        BY <3>1, <4>1
    <3>4. /\ pc' \in [Thread -> {"idle"} \union InsertPlace \union UpdatePlace]
          /\ layer' \in [Thread -> Levels]
          /\ \A u \in Thread \ {t} : pc'[u] = pc[u] /\ layer'[u] = layer[u]
      BY <1>0, <3>1 DEF ThreadTypes, UpdatePlace, Linking
    <3>5. \A u \in Thread \ {t} : epdel'[u] = epdel[u]
      <4>1. epdel \in [Thread -> BOOLEAN]
        BY <1>0 DEF ThreadTypes
      <4> QED
        BY <3>1, <4>1
    <3>6. ASSUME Grows PROVE LayerKept(t)' /\ CurKept(t)' /\ SetsKept(t)'
      <4>1. LayerKept(t)'
        BY <1>0, <1>1, <1>3, <3>1, <3>2 DEF RowKept, LayerKept, Searching, Linking, Hopping
      <4>2. CurKept(t)'
        BY <1>k, <1>3, <1>4, <3>1, <3>2 DEF CurKept, Walking, Searching
      <4>3. others \subseteq Joined(k)' \ {elem[t]}
        BY <1>4, <3>6 DEF Grows
      <4>4. epdel'[t] => epcopy'[t] # elem'[t]
        BY <1>2, <1>3, <3>2
      <4>5. SetsKept(t)'
        BY <1>k, <1>3, <1>5, <3>1, <3>2, <4>3, <4>4 DEF SetsKept
      <4> QED
        BY <4>1, <4>2, <4>5
    <3> QED
      BY <3>1, <3>2, <3>3, <3>4, <3>5, <3>6 DEF Busy, Linking
  <2> QED
    BY <2>1, <2>2
<1>7. ThreadTypes'
  <2>1. found' \in [Thread -> SUBSET Elem]
    BY <1>0, <1>3, <1>4 DEF ThreadTypes
  <2> QED
    BY <1>0, <1>3, <1>6, <2>1 DEF ThreadTypes
<1>8. OthersStay(t)
  BY <1>0, <1>3, <1>6 DEF OthersStay, Stays, ThreadTypes
<1>9. Advances(t) /\ cur'[t] <= count
  BY <1>1, <1>2, <1>3, <1>5 DEF Advances, Inserting
<1>10. Grows => ListsKept'
  BY <1>0, <1>3, ListsStay
<1>11. links' \in [Elem -> [Levels -> Lists]]
  BY <1>0, <1>3 DEF Types
<1> QED
  BY <1>1, <1>3, <1>5, <1>6, <1>7, <1>8, <1>9, <1>10, <1>11, BusyKeeps

-----------------------------------------------------------------------------
(* The end of an insert.                                                   *)

(* A row that stores in step by step.                                      *)
LEMMA PublishRow ==
  ASSUME Kept, NEW t \in Thread, Publish(t)
  PROVE  /\ Past(t) /\ Inserting(t) /\ pc[t] \in Publishing
         /\ elem[t] \in 1 .. count /\ count \in Nat
         /\ level[elem[t]] \in Nat /\ level[elem[t]] \in Levels
         /\ maxcopy[t] \in Int /\ Base \in Int /\ maxcopy[t] <= Base
         /\ global = t <=> level[elem[t]] > maxcopy[t]
         /\ pc[t] # "publish" => global = t
         /\ UNCHANGED <<count, level, links, deleted, wild, updates, marks, op, elem, maxcopy,
                        epcopy, epdel, layer, cur, frontier, found, todo>>
<1>0. Types /\ ThreadTypes /\ RowKept(t) /\ Ranks
  BY DEF Kept
<1>1. pc[t] \in Publishing
  BY DEF Publish, Publishing
<1>2. Inserting(t) /\ Past(t)
  BY <1>0, <1>1 DEF ThreadTypes, RowKept, PlaceKept, UpdatePlace, Publishing, Hopping, Searching,
                    Linking, Inserting, Updating, Past
<1>3. elem[t] \in 1 .. count /\ count \in Nat /\ elem[t] \in Elem
  BY <1>0, <1>1, RowElems DEF Publishing
<1>4. /\ level[elem[t]] \in Levels /\ maxcopy[t] \in Levels \union {-1}
      /\ Base \in Levels \union {-1}
  BY <1>0, <1>3 DEF Types, ThreadTypes, Base
<1>5. level[elem[t]] \in Nat /\ maxcopy[t] \in Int /\ Base \in Int
  BY <1>4, Constants, GraphAssumption
<1>6. maxcopy[t] <= Base /\ (global = t <=> level[elem[t]] > maxcopy[t])
  BY <1>0, <1>2 DEF Ranks
<1>7. pc[t] # "publish" => level[elem[t]] > maxcopy[t]
  BY <1>0, <1>1 DEF RowKept, LayerKept, Publishing
<1>8. UNCHANGED <<count, level, links, deleted, wild, updates, marks, op, elem, maxcopy,
                  epcopy, epdel, layer, cur, frontier, found, todo>>
  BY DEF Publish, bounds, row, walk
<1> QED
  BY <1>1, <1>2, <1>3, <1>4, <1>5, <1>6, <1>7, <1>8

(* Whatever it stores, only the top has to be looked at.                   *)
LEMMA PublishStep ==
  ASSUME Kept, NEW t \in Thread, Publish(t), pc' = [pc EXCEPT ![t] = pc'[t]],
         pc'[t] \in {"idle", "publishlevel", "publishentry"},
         pc'[t] # "idle" => level[elem[t]] > maxcopy[t],
         enterpoint_node_' \in 0 .. count, maxlevel_' \in Levels \union {-1},
         global' \in Thread \union {Nobody},
         Grows => Ranks' /\ EntryKept'
  PROVE  Kept'
<1>0. Types /\ ThreadTypes /\ Apart /\ RowKept(t) /\ ListsKept
  BY DEF Kept
<1>1. /\ Past(t) /\ Inserting(t) /\ pc[t] \in Publishing /\ count \in Nat
      /\ UNCHANGED <<count, level, links, deleted, wild, updates, marks, op, elem, maxcopy,
                     epcopy, epdel, layer, cur, frontier, found, todo>>
  BY PublishRow
<1>2. Types' /\ updates \in Nat
  BY <1>0, <1>1 DEF Types
<1>3. ThreadTypes'
  <2>1. pc' \in [Thread -> {"idle"} \union InsertPlace \union UpdatePlace]
    BY <1>0 DEF ThreadTypes, InsertPlace, Publishing
  <2> QED
    BY <1>0, <1>1, <2>1 DEF ThreadTypes
<1>4. OthersStay(t)
  BY <1>0, <1>1 DEF OthersStay, Stays, ThreadTypes
<1>5. Apart'
  BY <1>0, <1>1, <1>4, ApartStays DEF Inserting
<1>6. Advances(t)
  BY <1>1 DEF Advances, Inserting, HasReached, Publishing
<1>7. Grows
  BY <1>0, <1>1, <1>2, <1>4, <1>6, Growing
<1>8. RowKept(t)'
  <2>1. PlaceKept(t)'
    BY <1>0, <1>1 DEF RowKept, PlaceKept, Inserting, Updating, InsertPlace, Publishing
  <2>2. CopiesKept(t)'
    <3>1. ~Updating(t)' /\ pc[t] # "entry"
      BY <1>1 DEF Updating, Inserting, Publishing
    <3>2. /\ pc'[t] # "idle" => pc'[t] \in Publishing
          /\ \/ epcopy[t] = None
             \/ Full(epcopy[t]) /\ maxcopy[t] \in 0 .. level[epcopy[t]]
      BY <1>0, <1>1, <3>1 DEF RowKept, CopiesKept, Publishing
    <3>3. Full(epcopy[t]) => Full(epcopy[t])'
      BY <1>1, <1>7 DEF Grows
    <3> QED
      BY <1>1, <3>1, <3>2, <3>3 DEF CopiesKept, Past, Inserting
  <2>3. LayerKept(t)' /\ CurKept(t)' /\ SetsKept(t)'
    BY <1>1 DEF LayerKept, CurKept, SetsKept, Searching, Linking, Hopping, Walking
  <2> QED
    BY <2>1, <2>2, <2>3 DEF RowKept
<1>9. ListsKept'
  BY <1>0, <1>1, <1>7, ListsStay
<1> QED
  BY <1>2, <1>3, <1>4, <1>5, <1>7, <1>8, <1>9, Assemble

LEMMA PublishKeeps ==
  ASSUME Kept, NEW t \in Thread, Publish(t)
  PROVE  Kept'
<1>0. Types /\ ThreadTypes /\ Apart /\ Ranks /\ EntryKept
  BY DEF Kept
<1>1. /\ Past(t) /\ Inserting(t) /\ pc[t] \in Publishing
      /\ elem[t] \in 1 .. count /\ count \in Nat
      /\ level[elem[t]] \in Nat /\ level[elem[t]] \in Levels
      /\ maxcopy[t] \in Int /\ Base \in Int /\ maxcopy[t] <= Base
      /\ global = t <=> level[elem[t]] > maxcopy[t]
      /\ pc[t] # "publish" => global = t
      /\ UNCHANGED <<count, level, links, deleted, wild, updates, marks, op, elem, maxcopy,
                     epcopy, epdel, layer, cur, frontier, found, todo>>
  BY PublishRow
<1>2. t # Nobody /\ pc[t] # "idle"
  BY <1>1, NobodyAssumption DEF Inserting
<1>3. ASSUME NEW u \in Thread, u # t, pc' = [pc EXCEPT ![t] = pc'[t]]
      PROVE  /\ pc'[u] = pc[u] /\ (Inserting(u)' <=> Inserting(u)) /\ (Past(u)' <=> Past(u))
  BY <1>0, <1>1, <1>3 DEF Inserting, Past, ThreadTypes
<1>4. CASE ~(level[elem[t]] > maxcopy[t])
  <2>1. /\ global # t /\ pc[t] = "publish" /\ Base >= level[elem[t]]
    BY <1>1, <1>4
  <2>2. /\ pc' = [pc EXCEPT ![t] = "idle"] /\ pc'[t] = "idle" /\ global' = global
        /\ enterpoint_node_' = enterpoint_node_ /\ maxlevel_' = maxlevel_
    BY <1>0, <1>1, <1>4, <2>1 DEF Publish, Finish, Goto, ThreadTypes
  <2>3. Base' = Base
    BY <1>1, <2>2 DEF Base
  <2>4. global # Nobody => global \in Thread /\ pc'[global] = pc[global]
    BY <1>0, <1>3, <2>1, <2>2 DEF Types
  <2>5. ~Inserting(t)' /\ ~Past(t)'
    BY <2>2 DEF Inserting, Past
  <2>6. Ranks'
    <3>1. \A u \in Thread :
            Past(u)' => maxcopy'[u] <= Base' /\ (global' = u <=> level'[elem'[u]] > maxcopy'[u])
      BY <1>0, <1>1, <1>3, <2>2, <2>3, <2>5 DEF Ranks
    <3>2. global' # Nobody => Past(global)'
      BY <1>0, <1>1, <2>2, <2>4 DEF Ranks, Past, Inserting
    <3>3. ASSUME NEW e \in 1 .. count, LockFree(e)' PROVE level[e] <= Base
      <4>1. CASE e = elem[t]
        BY <2>1, <1>1, <4>1
      <4>2. CASE e # elem[t]
        <5>1. LockFree(e)
          BY <1>1, <1>3, <2>2, <3>3, <4>2 DEF LockFree
        <5> QED
          BY <1>0, <5>1 DEF Ranks
      <4> QED
        BY <4>1, <4>2
    <3> QED
      BY <1>0, <1>1, <2>2, <2>3, <3>1, <3>2, <3>3 DEF Ranks
  <2>7. ASSUME Grows PROVE EntryKept'
    <3>1. First' = First
      BY <1>1, <2>2, <2>4 DEF First
    <3>2. Full(enterpoint_node_) => Full(enterpoint_node_)'
      BY <2>2, <2>7 DEF Grows
    <3> QED
      BY <1>0, <1>1, <2>2, <2>3, <2>4, <3>1, <3>2 DEF EntryKept, First
  <2> QED
    BY <1>0, <2>2, <2>6, <2>7, PublishStep DEF Types
<1>5. CASE level[elem[t]] > maxcopy[t] /\ pc[t] = "publish"
  <2>1. global = t /\ global' = global /\ Base = maxcopy[t] /\ Base' = Base
    BY <1>1, <1>2, <1>5 DEF Publish, Base
  <2>2. /\ pc' = [pc EXCEPT ![t] = pc'[t]]
        /\ \/ /\ pc'[t] = "publishlevel" /\ enterpoint_node_' = elem[t]
              /\ maxlevel_' = maxlevel_
           \/ /\ pc'[t] = "publishentry" /\ maxlevel_' = level[elem[t]]
              /\ enterpoint_node_' = enterpoint_node_
    BY <1>0, <1>1, <1>5 DEF Publish, PublishEntry, PublishLevel, Goto, ThreadTypes
  <2>3. \A u \in Thread : /\ Inserting(u)' <=> Inserting(u)
                          /\ Past(u)' <=> Past(u)
    <3>1. Inserting(t)' /\ Past(t)'
      BY <1>1, <2>2 DEF Inserting, Past
    <3> QED
      BY <1>1, <1>3, <2>2, <3>1
  <2>4. Ranks'
    <3>1. \A e \in 1 .. count : LockFree(e)' => LockFree(e)
      BY <1>1, <2>3 DEF LockFree
    <3>2. Base <= maxlevel_'
      BY <1>0, <1>1, <1>5, <2>1, <2>2 DEF Ranks
    <3>3. \A u \in Thread :
            Past(u)' => maxcopy'[u] <= Base' /\ (global' = u <=> level'[elem'[u]] > maxcopy'[u])
      BY <1>0, <1>1, <2>1, <2>3 DEF Ranks
    <3>4. Past(global)'
      BY <1>1, <2>1, <2>3
    <3> QED
      BY <1>0, <1>1, <2>1, <3>1, <3>2, <3>3, <3>4 DEF Ranks
  <2>5. ASSUME Grows PROVE EntryKept'
    <3>1. (First <=> maxcopy[t] = -1) /\ (First' <=> maxcopy[t] = -1)
      BY <1>1, <1>2, <1>5, <2>1, <2>2 DEF First
    <3>2. Full(enterpoint_node_)' \/ ~Full(enterpoint_node_)
          \/ enterpoint_node_' # enterpoint_node_
      BY <2>5 DEF Grows
    <3>3. First' => pc'[global'] \in Publishing
      BY <2>1, <2>2 DEF Publishing
    <3>4. maxlevel_' = IF First' \/ (global' # Nobody /\ pc'[global'] = "publishentry")
                       THEN level'[elem'[global']]
                       ELSE Base'
      BY <1>0, <1>1, <1>2, <1>5, <2>1, <2>2, <3>1 DEF EntryKept
    <3>5. IF global' # Nobody /\ pc'[global'] = "publishlevel"
          THEN enterpoint_node_' = elem'[global']
          ELSE IF Base' = -1
               THEN enterpoint_node_' = IF First' THEN 1 ELSE None
               ELSE Full(enterpoint_node_)' /\ level'[enterpoint_node_'] = Base'
      BY <1>0, <1>1, <1>2, <1>5, <2>1, <2>2, <3>1, <3>2 DEF EntryKept
    <3> QED
      BY <3>3, <3>4, <3>5 DEF EntryKept
  <2>6. enterpoint_node_' \in 0 .. count /\ maxlevel_' \in Levels \union {-1}
    BY <1>0, <1>1, <2>2 DEF Types
  <2> QED
    BY <1>0, <1>5, <2>1, <2>2, <2>4, <2>5, <2>6, PublishStep DEF Types
<1>6. CASE pc[t] # "publish"
  <2>1. global = t /\ global' = Nobody /\ Base = maxcopy[t] /\ maxcopy[t] < level[elem[t]]
    BY <1>1, <1>2, <1>6 DEF Publish, Finish, Base, Publishing
  <2>2. /\ pc' = [pc EXCEPT ![t] = "idle"] /\ pc'[t] = "idle"
        /\ enterpoint_node_' = elem[t] /\ maxlevel_' = level[elem[t]]
    <3>1. CASE pc[t] = "publishlevel"
      <4>1. enterpoint_node_ = elem[t]
        BY <1>0, <1>2, <2>1, <3>1 DEF EntryKept
      <4> QED
        BY <1>0, <3>1, <4>1 DEF Publish, PublishLevel, Finish, Goto, ThreadTypes
    <3>2. CASE pc[t] = "publishentry"
      <4>1. maxlevel_ = level[elem[t]]
        BY <1>0, <1>2, <2>1, <3>2 DEF EntryKept
      <4> QED
        BY <1>0, <3>2, <4>1 DEF Publish, PublishEntry, Finish, Goto, ThreadTypes
    <3> QED
      BY <1>1, <1>6, <3>1, <3>2 DEF Publishing
  <2>3. Base' = level[elem[t]]
    BY <2>1, <2>2 DEF Base
  <2>4. ~Inserting(t)' /\ ~Past(t)'
    BY <2>2 DEF Inserting, Past
  <2>5. Ranks'
    <3>1. ASSUME NEW u \in Thread, Past(u)'
          PROVE  maxcopy[u] <= level[elem[t]] /\ ~(level[elem[u]] > maxcopy[u]) /\ u # Nobody
      <4>1. u # t /\ Past(u)
        BY <1>3, <2>2, <2>4, <3>1
      <4>2. maxcopy[u] <= Base /\ ~(level[elem[u]] > maxcopy[u])
        BY <1>0, <2>1, <4>1 DEF Ranks
      <4>3. maxcopy[u] \in Int
        BY <1>0, Constants, GraphAssumption DEF ThreadTypes
      <4> QED
        BY <1>1, <2>1, <4>2, <4>3, NobodyAssumption
    <3>2. ASSUME NEW e \in 1 .. count, LockFree(e)' PROVE level[e] <= level[elem[t]]
      <4>1. CASE e = elem[t]
        BY <1>1, <4>1
      <4>2. CASE e # elem[t]
        <5>1. LockFree(e)
          BY <1>1, <1>3, <2>2, <3>2, <4>2 DEF LockFree
        <5>2. level[e] <= Base /\ level[e] \in Levels
          BY <1>0, <5>1, RowElems DEF Ranks, Types, Kept
        <5>3. level[e] \in Int
          BY <5>2, Constants, GraphAssumption
        <5> QED
          BY <1>1, <2>1, <5>2, <5>3
      <4> QED
        BY <4>1, <4>2
    <3>3. \A u \in Thread :
            Past(u)' => maxcopy'[u] <= Base' /\ (global' = u <=> level'[elem'[u]] > maxcopy'[u])
      BY <1>1, <2>1, <2>3, <3>1
    <3>4. Base' <= maxlevel_'
      BY <1>1, <2>2, <2>3
    <3> QED
      BY <1>1, <2>1, <2>3, <3>2, <3>3, <3>4 DEF Ranks
  <2>6. EntryKept'
    <3>1. ~First'
      BY <2>1 DEF First
    <3>2. Base' # -1
      BY <1>1, <2>3
    <3>3. Full(elem[t])'
      <4>1. ASSUME NEW u \in Thread, Inserting(u)', elem'[u] = elem[t] PROVE FALSE
        <5>1. u # t /\ Inserting(u) /\ elem[u] = elem[t]
          BY <1>1, <1>3, <2>2, <2>4, <4>1
        <5> QED
          BY <1>0, <1>2, <5>1 DEF Apart, Inserting
      <4> QED
        BY <1>1, <4>1 DEF Full
    <3>4. Full(enterpoint_node_)'
      BY <1>1, <2>2, <3>3
    <3> QED
      BY <1>1, <2>1, <2>2, <2>3, <3>1, <3>2, <3>4 DEF EntryKept
  <2>7. enterpoint_node_' \in 0 .. count /\ maxlevel_' \in Levels \union {-1}
    BY <1>1, <2>2
  <2> QED
    BY <2>1, <2>2, <2>5, <2>6, <2>7, PublishStep
<1> QED
  BY <1>4, <1>5, <1>6

-----------------------------------------------------------------------------
(* The invariant holds.                                                    *)

LEMMA MarkDeleteKeeps ==
  ASSUME Kept, MarkDelete
  PROVE  Kept'
<1>1. /\ \A t \in Thread : pc[t] = "idle"
      /\ deleted' \subseteq deleted \union 1 .. count /\ marks' = marks + 1
      /\ UNCHANGED <<count, level, links, enterpoint_node_, maxlevel_, global, wild, updates,
                     pc, op, elem, maxcopy, epcopy, epdel, layer, cur, frontier, found,
                     todo>>
  BY DEF MarkDelete, row, walk
<1>2. /\ deleted' \subseteq 1 .. count /\ wild' \in BOOLEAN /\ marks' \in Nat
      /\ \A t \in Thread : ~Updating(t)
  BY <1>1 DEF Kept, Types, Updating
<1> QED
  BY <1>1, <1>2, BesideKeeps

LEMMA StutterKeeps ==
  ASSUME Kept, UNCHANGED vars
  PROVE  Kept'
<1>1. /\ UNCHANGED <<count, level, links, enterpoint_node_, maxlevel_, global, updates,
                     pc, op, elem, maxcopy, epcopy, epdel, layer, cur, frontier, found,
                     todo>>
      /\ deleted' = deleted /\ marks' = marks /\ wild' = wild
  BY DEF vars, graph, bounds, row, walk
<1>2. /\ marks \in Nat /\ wild \in BOOLEAN /\ deleted \subseteq 1 .. count
      /\ \A t \in Thread : Updating(t) => elem[t] \notin deleted
  BY DEF Kept, Types, RowKept, PlaceKept
<1> QED
  BY <1>1, <1>2, BesideKeeps

LEMMA InitKept == Init => Kept
<1> SUFFICES ASSUME Init PROVE Kept
  OBVIOUS
<1>1. EmptyBag \in Lists /\ BagToSet(EmptyBag) = {} /\ Size(EmptyBag) = 0
  BY SizeOfEmpty
<1>2. 0 \in Levels /\ MaxElements \in Nat
  BY Constants, GraphAssumption DEF Levels
<1>3. 1 .. count = {}
  BY DEF Init
<1>4. Types
  <2>1. level \in [Elem -> Levels] /\ links \in [Elem -> [Levels -> Lists]]
    BY <1>1, <1>2 DEF Init
  <2>2. /\ count \in 0 .. MaxElements /\ enterpoint_node_ \in 0 .. count
        /\ maxlevel_ \in Levels \union {-1} /\ updates \in Nat /\ marks \in Nat
    BY <1>2 DEF Init, None
  <2>3. /\ deleted \subseteq 1 .. count /\ wild \in BOOLEAN
        /\ global \in Thread \union {Nobody}
    BY DEF Init
  <2> QED
    BY <2>1, <2>2, <2>3 DEF Types
<1>5. ThreadTypes
  BY <1>1, <1>2 DEF Init, ThreadTypes, None
<1>6. \A t \in Thread : pc[t] = "idle" /\ ~Inserting(t) /\ ~Updating(t) /\ ~Past(t)
  BY DEF Init, Inserting, Updating, Past
<1>7. Apart
  BY <1>6 DEF Apart
<1>8. ASSUME NEW t \in Thread PROVE RowKept(t)
  <2>1. PlaceKept(t) /\ CopiesKept(t)
    BY <1>6 DEF Init, PlaceKept, CopiesKept, None
  <2>2. LayerKept(t) /\ CurKept(t) /\ SetsKept(t)
    BY <1>6 DEF LayerKept, CurKept, SetsKept, Searching, Linking, Hopping, Walking
  <2> QED
    BY <2>1, <2>2 DEF RowKept
<1>9. Base = -1 /\ ~First
  BY DEF Init, Base, First
<1>10. Ranks
  BY <1>3, <1>6, <1>9 DEF Init, Ranks
<1>11. EntryKept
  BY <1>9 DEF Init, EntryKept
<1>12. ListsKept
  <2> SUFFICES ASSUME NEW e \in Elem, NEW l \in Levels
               PROVE  /\ BagToSet(links[e][l]) \subseteq Joined(l) \ {e}
                      /\ Size(links[e][l]) <= Mcurmax(l)
                      /\ e \notin Joined(l) => links[e][l] = EmptyBag
    BY DEF ListsKept
  <2>1. links[e][l] = EmptyBag
    BY DEF Init
  <2>2. Mcurmax(l) \in Nat
    BY Constants, GraphAssumption
  <2> QED
    BY <1>1, <2>1, <2>2
<1> QED
  BY <1>4, <1>5, <1>7, <1>8, <1>10, <1>11, <1>12 DEF Kept

LEMMA NextKeeps ==
  ASSUME Kept, [Next]_vars
  PROVE  Kept'
<1>1. CASE UNCHANGED vars
  BY <1>1, StutterKeeps
<1>2. CASE MarkDelete
  BY <1>2, MarkDeleteKeeps
<1>3. ASSUME NEW t \in Thread, Insert(t) PROVE Kept'
  BY <1>3, StartInsertKeeps, TakeGlobalKeeps, ReadEntryKeeps, ReadEntryMarkKeeps, ConnectKeeps,
     PublishKeeps DEF Insert
<1>4. ASSUME NEW t \in Thread, Update(t) PROVE Kept'
  BY <1>4, StartUpdateKeeps, ReadMaxKeeps, ReadEpKeeps, OneHopKeeps, TwoHopKeeps, RelinkKeeps,
     FilterKeeps, ReconnectKeeps DEF Update
<1>5. ASSUME NEW t \in Thread, Shared(t) PROVE Kept'
  BY <1>5, DescendKeeps, BeginSearchKeeps, ExpandKeeps, LinkBackKeeps DEF Shared
<1> QED
  BY <1>1, <1>2, <1>3, <1>4, <1>5 DEF Next, Done

(* The invariant is inductive: it holds in every state of every batch.     *)
THEOREM KeptAlways == Spec => []Kept
<1>1. Kept /\ [Next]_vars => Kept'
  BY NextKeeps
<1> QED
  BY InitKept, <1>1, PTL DEF Spec

(* checkIntegrity and the checks that throw: in every state of a batch of  *)
(* inserts and updates, on any number of threads, the lists of the graph   *)
(* fit their memory, lead to other elements that exist at the level and    *)
(* whose insert has come to it, and no check of the code throws.           *)
THEOREM LinksSoundAlways == Spec => []LinksSound
<1>1. ASSUME Kept PROVE LinksSound
  <2>0. Types /\ ThreadTypes /\ ListsKept /\ count \in Nat /\ 1 .. count \subseteq Elem
        /\ \A t \in Thread : RowKept(t)
    <3>1. Types /\ ThreadTypes /\ ListsKept /\ \A t \in Thread : RowKept(t)
      BY <1>1 DEF Kept
    <3>2. MaxElements \in Nat
      BY Constants, GraphAssumption
    <3> QED
      BY <3>1, <3>2 DEF Types, Elem
  <2>1. TypeOK
    <3>1. ASSUME NEW t \in Thread
          PROVE  /\ elem[t] \in 0 .. count /\ epcopy[t] \in 0 .. count /\ cur[t] \in 0 .. count
                 /\ layer[t] \in Levels \cup {-1} /\ maxcopy[t] \in Levels \cup {-1}
      <4>1. elem[t] <= count /\ epcopy[t] <= count /\ cur[t] <= count
        BY <2>0 DEF RowKept, PlaceKept
      <4> QED
        BY <2>0, <4>1 DEF ThreadTypes
    <3>2. maxlevel_ \in -1 .. MaxLevel
      BY <2>0, Constants, GraphAssumption DEF Types, Levels
    <3> QED
      BY <2>0, <3>1, <3>2 DEF TypeOK, Types
  <2>2. ListsSound
    <3> SUFFICES ASSUME NEW e \in 1 .. count, NEW l \in Levels
                 PROVE  /\ BagToSet(links[e][l]) \subseteq Joined(l) \ {e}
                        /\ Size(links[e][l]) <= IF l > level[e] THEN 0 ELSE Mcurmax(l)
      BY DEF ListsSound
    <3>1. /\ BagToSet(links[e][l]) \subseteq Joined(l) \ {e}
          /\ Size(links[e][l]) <= Mcurmax(l)
          /\ e \notin Joined(l) => links[e][l] = EmptyBag
      BY <2>0 DEF ListsKept
    <3>2. CASE l > level[e]
      <4>1. level[e] \in Int /\ l \in Int
        BY <2>0, Constants, GraphAssumption DEF Types
      <4>2. e \notin Joined(l)
        BY <3>2, <4>1 DEF Joined
      <4>3. Size(links[e][l]) = 0
        BY <3>1, <4>2, SizeOfEmpty
      <4> QED
        BY <3>1, <3>2, <4>3
    <3> QED
      BY <3>1, <3>2
  <2>3. ChecksNeverFire
    <3> SUFFICES ASSUME NEW t \in Thread
                 PROVE  /\ pc[t] = "link" => /\ elem[t] \notin BagToSet(todo[t])
                                             /\ \A n \in BagToSet(todo[t]) : HasList(n, layer[t])
                                             /\ Size(todo[t]) <= M
                        /\ Inserting(t) /\ pc[t] \in {"search", "expand"} =>
                             ListAt(elem[t], layer[t]) = EmptyBag
                        /\ pc[t] = "onehop" => level[elem[t]] <= maxcopy[t]
      BY DEF ChecksNeverFire
    <3>1. pc[t] = "link" => /\ BagToSet(todo[t]) \subseteq Joined(layer[t]) \ {elem[t]}
                            /\ Size(todo[t]) <= M
      BY <2>0 DEF RowKept, SetsKept
    <3>2. \A n \in Joined(layer[t]) : HasList(n, layer[t])
      BY JoinedIn DEF HasList
    <3>3. ASSUME Inserting(t), pc[t] \in {"search", "expand"}
          PROVE  ListAt(elem[t], layer[t]) = EmptyBag
      <4>1. elem[t] \notin Joined(layer[t])
        BY <2>0, <3>3, NotJoined DEF Searching
      <4>2. elem[t] \in Elem /\ layer[t] \in Levels
        BY <2>0, <3>3, RowElems DEF Inserting, ThreadTypes
      <4> QED
        BY <2>0, <4>1, <4>2 DEF ListsKept, ListAt
    <3>4. pc[t] = "onehop" => level[elem[t]] <= maxcopy[t]
      BY <1>1, HoppingUpdates DEF Hopping
    <3> QED
      BY <3>1, <3>2, <3>3, <3>4
  <2> QED
    BY <2>1, <2>2, <2>3 DEF LinksSound
<1> QED
  BY KeptAlways, <1>1, PTL

(* When nobody holds `global', the entry point is an element of the        *)
(* highest level, which is maxlevel_: no element that is linked at a level *)
(* lies above the level the descents start from.                           *)
THEOREM EntryStaysAtTop == Spec => []EntryAtTop
<1>1. ASSUME Kept PROVE EntryAtTop
  <2> SUFFICES ASSUME global = Nobody, enterpoint_node_ # None
               PROVE  /\ level[enterpoint_node_] = maxlevel_
                      /\ \A l \in Levels : Joined(l) # {} => l <= maxlevel_
    BY DEF EntryAtTop
  <2>0. Types /\ ThreadTypes /\ Ranks /\ EntryKept
    BY <1>1 DEF Kept
  <2>1. Base = maxlevel_ /\ ~First /\ maxlevel_ \in Int
    BY <2>0, Constants, GraphAssumption DEF Base, First, Types
  <2>2. level[enterpoint_node_] = maxlevel_
    BY <2>0, <2>1 DEF EntryKept
  <2>3. ASSUME NEW l \in Levels, NEW e \in Joined(l) PROVE l <= maxlevel_
    <3>1. e \in 1 .. count /\ e \in Elem /\ level[e] >= l
      <4>1. e \in 1 .. count /\ level[e] >= l
        BY JoinedIn
      <4>2. MaxElements \in Nat
        BY Constants, GraphAssumption
      <4> QED
        BY <2>0, <4>1, <4>2 DEF Types, Elem
    <3>2. level[e] \in Int /\ l \in Int
      BY <2>0, <3>1, Constants, GraphAssumption DEF Types
    <3>3. CASE LockFree(e)
      <4>1. level[e] <= Base
        BY <2>0, <3>1, <3>3 DEF Ranks
      <4> QED
        BY <2>1, <3>1, <3>2, <4>1
    <3>4. CASE ~LockFree(e)
      <4>1. PICK t \in Thread : Inserting(t) /\ elem[t] = e
        BY <3>4 DEF LockFree
      <4>2. HasReached(t, l)
        BY <4>1, JoinedIn
      <4>3. Past(t)
        BY <4>1, <4>2 DEF Past, HasReached
      <4>4. maxcopy[t] <= Base /\ ~(level[e] > maxcopy[t]) /\ maxcopy[t] \in Int
        BY <2>0, <4>1, <4>3, NobodyAssumption, Constants, GraphAssumption DEF Ranks, ThreadTypes
      <4> QED
        BY <2>1, <3>1, <3>2, <4>4
    <3> QED
      BY <3>3, <3>4
  <2> QED
    BY <2>2, <2>3
<1> QED
  BY KeptAlways, <1>1, PTL

-----------------------------------------------------------------------------
(* Batches that only insert.                                               *)

(* A search has no deleted candidates, and the entry point's mark is the   *)
(* one that was read.                                                      *)
MarksKept(t) ==
  /\ pc[t] = "expand" => found[t] \intersect deleted = {}
  /\ pc[t] \in Searching \union {"link"} => (epdel[t] <=> epcopy[t] \in deleted)
  /\ marks = 0 /\ pc[t] = "expand" => found[t] # {}

(* A new element is not in the lists it is still to be taken into.         *)
NewTo(t) ==
  pc[t] = "link" =>
    /\ Single(todo[t])
    /\ \A n \in BagToSet(todo[t]) : elem[t] \notin BagToSet(links[n][layer[t]])

(* What holds besides as long as no row updates: marks are read right, new *)
(* elements are new to the lists that take them, and lists are sets.       *)
InsertsOnly ==
  updates = 0 =>
    /\ \A t \in Thread : MarksKept(t) /\ NewTo(t)
    /\ \A e \in Elem, l \in Levels : Single(links[e][l])
    /\ marks = 0 => deleted = {} /\ ~wild

LEMMA OnlyInserts ==
  ASSUME Kept, updates = 0, NEW t \in Thread, pc[t] # "idle"
  PROVE  Inserting(t) /\ ~Updating(t) /\ op[t] = "insert" /\ pc[t] \in InsertPlace
<1>1. RowKept(t) /\ op[t] \in {"insert", "update"}
  BY DEF Kept, ThreadTypes
<1>2. ~Updating(t)
  BY <1>1 DEF RowKept, PlaceKept
<1> QED
  BY <1>1, <1>2 DEF RowKept, PlaceKept, Inserting, Updating

LEMMA UpdatesCount ==
  ASSUME Kept, NEW t \in Thread, Update(t)
  PROVE  updates' # 0
<1>1. updates \in Nat
  BY DEF Kept, Types
<1>2. CASE StartUpdate(t)
  BY <1>1, <1>2 DEF StartUpdate
<1>3. CASE ~StartUpdate(t)
  <2>1. /\ updates' = updates
        /\ \/ pc[t] \in {"readmax", "readep", "onehop", "twohop", "relink", "reconnect"}
           \/ pc[t] = "expand" /\ op[t] = "update"
    BY <1>3 DEF Update, ReadMax, ReadEp, OneHop, TwoHop, Relink, Filter, SearchOver, Reconnect,
                ConnectTo, ReadWild, bounds
  <2>2. updates # 0
    BY <2>1, OnlyInserts DEF InsertPlace, Walking, Searching, Publishing
  <2> QED
    BY <2>1, <2>2
<1> QED
  BY <1>2, <1>3

(* Steps that write no list.                                               *)
LEMMA InsertsOnlyStays ==
  ASSUME Kept, InsertsOnly, updates = 0, NEW t \in Thread, OthersStay(t),
         UNCHANGED <<links, deleted, wild, marks>>, MarksKept(t)', NewTo(t)'
  PROVE  InsertsOnly'
<1>1. ASSUME NEW u \in Thread, u # t PROVE MarksKept(u)' /\ NewTo(u)'
  <2>1. MarksKept(u) /\ NewTo(u)
    BY DEF InsertsOnly
  <2>2. /\ pc'[u] = pc[u] /\ elem'[u] = elem[u] /\ epcopy'[u] = epcopy[u]
        /\ epdel'[u] = epdel[u] /\ layer'[u] = layer[u] /\ found'[u] = found[u]
        /\ todo'[u] = todo[u]
    BY <1>1 DEF OthersStay, Stays
  <2>3. MarksKept(u)'
    BY <2>1, <2>2 DEF MarksKept
  <2>4. NewTo(u)'
    BY <2>1, <2>2 DEF NewTo
  <2> QED
    BY <2>3, <2>4
<1> QED
  BY <1>1 DEF InsertsOnly

LEMMA OtherPlaces ==
  ASSUME NEW t \in Thread, pc'[t] \notin Searching \union {"link"}
  PROVE  MarksKept(t)' /\ NewTo(t)'
BY DEF MarksKept, NewTo, Searching

LEMMA BeginningInserts ==
  ASSUME Kept, InsertsOnly, updates = 0, NEW t \in Thread,
         StartInsert(t) \/ TakeGlobal(t) \/ ReadEntry(t) \/ Publish(t)
  PROVE  InsertsOnly'
<1>0. ThreadTypes
  BY DEF Kept
<1>1. CASE StartInsert(t)
  <2>1. /\ pc'[t] = "global" /\ OthersStay(t) /\ UNCHANGED <<links, deleted, wild, marks>>
    BY <1>0, <1>1 DEF StartInsert, Goto, ThreadTypes, OthersStay, Stays, bounds, walk
  <2> QED
    BY <2>1, OtherPlaces, InsertsOnlyStays DEF Searching
<1>2. CASE TakeGlobal(t)
  <2>1. /\ pc'[t] = "entry" /\ OthersStay(t) /\ UNCHANGED <<links, deleted, wild, marks>>
    BY <1>0, <1>2 DEF TakeGlobal, Goto, ThreadTypes, OthersStay, Stays, graph, bounds, walk
  <2> QED
    BY <2>1, OtherPlaces, InsertsOnlyStays DEF Searching
<1>3. CASE ReadEntry(t)
  <2>1. /\ pc'[t] \in {"publish", "descend", "mark"} /\ OthersStay(t)
        /\ UNCHANGED <<links, deleted, wild, marks>>
    <3>1. CASE enterpoint_node_ = None
      BY <1>0, <1>3, <3>1
      DEF ReadEntry, Goto, ThreadTypes, OthersStay, Stays, bounds
    <3>2. CASE enterpoint_node_ # None
      BY <1>0, <1>3, <3>2
      DEF ReadEntry, StartFrom, AtLayer, Goto, ThreadTypes, OthersStay, Stays, bounds
    <3> QED
      BY <3>1, <3>2
  <2> QED
    BY <2>1, OtherPlaces, InsertsOnlyStays DEF Searching
<1>4. CASE Publish(t)
  <2>1. /\ pc'[t] \in {"idle", "publishlevel", "publishentry"}
        /\ pc' = [pc EXCEPT ![t] = pc'[t]]
        /\ UNCHANGED <<links, deleted, wild, marks, row, epdel, walk>>
    BY <1>0, <1>4 DEF Publish, Finish, Goto, ThreadTypes, bounds
  <2>2. OthersStay(t)
    BY <1>0, <2>1 DEF OthersStay, Stays, ThreadTypes, row, walk
  <2> QED
    BY <2>1, <2>2, OtherPlaces, InsertsOnlyStays DEF Searching
<1> QED
  BY <1>1, <1>2, <1>3, <1>4

(* An insert reads only lists that exist.                                  *)
LEMMA DescendingInserts ==
  ASSUME Kept, InsertsOnly, updates = 0, NEW t \in Thread, Descend(t)
  PROVE  InsertsOnly'
<1>0. ThreadTypes /\ RowKept(t)
  BY DEF Kept
<1>1. pc[t] = "descend" /\ Inserting(t) /\ op[t] = "insert"
  BY OnlyInserts DEF Descend
<1>2. HasList(cur[t], layer[t])
  BY <1>0, <1>1 DEF RowKept, CurKept, HasList, Walking
<1>3. /\ pc'[t] \in {"descend", "mark"} /\ pc' = [pc EXCEPT ![t] = pc'[t]]
      /\ cur' = [cur EXCEPT ![t] = cur'[t]] /\ layer' = [layer EXCEPT ![t] = layer'[t]]
      /\ UNCHANGED <<graph, global, wild, bounds, row, epdel, frontier, found, todo>>
  BY <1>0, <1>1, <1>2 DEF Descend, Goto, AtLayer, StartFrom, ThreadTypes
<1>4. OthersStay(t) /\ UNCHANGED <<links, deleted, wild, marks>>
  BY <1>0, <1>3 DEF OthersStay, Stays, ThreadTypes, graph, bounds, row
<1> QED
  BY <1>3, <1>4, OtherPlaces, InsertsOnlyStays DEF Searching

LEMMA SearchingInserts ==
  ASSUME Kept, InsertsOnly, updates = 0, NEW t \in Thread,
         ReadEntryMark(t) \/ BeginSearch(t)
  PROVE  InsertsOnly'
<1>0. ThreadTypes /\ MarksKept(t)
  BY DEF Kept, InsertsOnly
<1>1. CASE ReadEntryMark(t)
  <2>1. /\ pc'[t] = "search" /\ OthersStay(t) /\ UNCHANGED <<links, deleted, wild, marks>>
        /\ epcopy' = epcopy
    BY <1>0, <1>1
    DEF ReadEntryMark, Goto, AtLayer, ThreadTypes, OthersStay, Stays, graph, bounds, row
  <2>2. epdel'[t] <=> epcopy[t] \in deleted
    <3>1. epdel \in [Thread -> BOOLEAN] /\ epdel' = [epdel EXCEPT ![t] = epcopy[t] \in deleted]
      BY <1>0, <1>1 DEF ThreadTypes, ReadEntryMark
    <3> QED
      BY <3>1
  <2>3. MarksKept(t)' /\ NewTo(t)'
    BY <2>1, <2>2 DEF MarksKept, NewTo
  <2> QED
    BY <2>1, <2>3, InsertsOnlyStays
<1>2. CASE BeginSearch(t)
  <2>1. /\ pc[t] = "search" /\ pc'[t] = "expand" /\ found'[t] = {cur[t]} \ deleted
        /\ OthersStay(t) /\ UNCHANGED <<links, deleted, wild, marks>>
        /\ epcopy' = epcopy /\ epdel' = epdel
    BY <1>0, <1>2
    DEF BeginSearch, Goto, StartFrom, ThreadTypes, OthersStay, Stays, graph, bounds, row
  <2>2. marks = 0 => deleted = {}
    BY DEF InsertsOnly
  <2>3. MarksKept(t)' /\ NewTo(t)'
    BY <1>0, <2>1, <2>2 DEF MarksKept, NewTo, Searching
  <2> QED
    BY <2>1, <2>3, InsertsOnlyStays
<1> QED
  BY <1>1, <1>2

LEMMA ExpandingInserts ==
  ASSUME Kept, InsertsOnly, updates = 0, NEW t \in Thread, Expand(t)
  PROVE  InsertsOnly'
<1>0. Types /\ ThreadTypes /\ RowKept(t) /\ MarksKept(t)
  BY DEF Kept, InsertsOnly
<1>1. pc[t] = "expand" /\ Inserting(t)
  BY OnlyInserts DEF Expand
<1>2. PICK c \in frontier[t] :
        IF ~HasList(c, layer[t])
        THEN ReadWild
        ELSE LET new == BagToSet(ListAt(c, layer[t])) \ seen[t]
                 all == found[t] \union (new \ deleted)
             IN
             /\ \E best \in SUBSET all, near \in SUBSET new :
                  /\ Cardinality(best) = Min2(EfConstruction, Cardinality(all))
                  /\ found' = [found EXCEPT ![t] = best]
                  /\ frontier' = [frontier EXCEPT ![t] = (frontier[t] \ {c}) \union near]
             /\ UNCHANGED <<graph, global, wild, bounds, pc, row, epdel,
                            layer, cur, todo>>
  BY DEF Expand
<1>3. /\ frontier[t] \union found[t] \subseteq Joined(layer[t]) \union {cur[t]}
      /\ level[cur[t]] >= layer[t] /\ cur[t] \in 1 .. count /\ 1 .. count \subseteq Elem
      /\ layer[t] \in Levels
  BY <1>0, <1>1, RowElems DEF RowKept, SetsKept, CurKept, Walking, Searching, ThreadTypes
<1>4. HasList(c, layer[t]) /\ c \in 1 .. count
  BY <1>3, JoinedIn DEF HasList
<1> DEFINE all == found[t] \union ((BagToSet(links[c][layer[t]]) \ seen[t]) \ deleted)
<1>5. /\ \E best \in SUBSET all : \E near :
           /\ Cardinality(best) = Min2(EfConstruction, Cardinality(all))
           /\ found' = [found EXCEPT ![t] = best]
           /\ frontier' = [frontier EXCEPT ![t] = near]
      /\ UNCHANGED <<graph, global, wild, bounds, pc, row, epdel, layer, cur, todo>>
  BY <1>2, <1>4 DEF ListAt
<1>6. found[t] \subseteq all /\ (found[t] \intersect deleted = {} => all \intersect deleted = {})
  OBVIOUS
<1>7. IsFiniteSet(all)
  <2>1. BagToSet(links[c][layer[t]]) \subseteq Elem
    <3>1. links[c][layer[t]] \in Lists
      BY <1>0, <1>3, <1>4 DEF Types
    <3> QED
      BY <3>1, ListForm DEF BagToSet
  <2>2. all \in SUBSET Elem
    BY <1>0, <2>1 DEF ThreadTypes
  <2> QED
    BY <2>2, ElemFinite, GraphAssumption
<1> HIDE DEF all
<1>8. PICK best \in SUBSET all :
        /\ Cardinality(best) = Min2(EfConstruction, Cardinality(all))
        /\ found' = [found EXCEPT ![t] = best]
        /\ \E near : frontier' = [frontier EXCEPT ![t] = near]
  BY <1>5
<1>9. found[t] # {} => best # {}
  <2> SUFFICES ASSUME found[t] # {} PROVE best # {}
    OBVIOUS
  <2>1. Cardinality(all) \in Nat /\ Cardinality(all) # 0
    BY <1>6, <1>7, FS_EmptySet, FS_CardinalityType
  <2>2. Cardinality(best) # 0
    BY <1>8, <2>1, Constants, GraphAssumption DEF Min2
  <2> QED
    BY <2>2, FS_EmptySet
<1>10. OthersStay(t) /\ UNCHANGED <<links, deleted, wild, marks>>
  BY <1>0, <1>5, <1>8 DEF OthersStay, Stays, ThreadTypes, graph, bounds, row
<1>11. /\ found'[t] = best /\ pc'[t] = "expand" /\ epcopy' = epcopy /\ epdel' = epdel
  BY <1>0, <1>1, <1>5, <1>8 DEF ThreadTypes, row
<1>12. MarksKept(t)' /\ NewTo(t)'
  BY <1>0, <1>1, <1>6, <1>8, <1>9, <1>10, <1>11 DEF MarksKept, NewTo, Searching
<1> QED
  BY <1>10, <1>12, InsertsOnlyStays

(* Steps that write a list.                                                *)
LEMMA InsertsOnlyAfterWrite ==
  ASSUME Kept, InsertsOnly, updates = 0, NEW t \in Thread, OthersStay(t),
         UNCHANGED <<deleted, wild, marks>>, MarksKept(t)', NewTo(t)',
         NEW x \in Elem, NEW k \in Levels, NEW new \in Lists, Single(new),
         links' = [links EXCEPT ![x][k] = new],
         \A u \in Thread \ {t} : pc[u] = "link" /\ x \in BagToSet(todo[u]) /\ layer[u] = k =>
           \A e \in BagToSet(new) : e = elem[u] => e \in BagToSet(links[x][k])
  PROVE  InsertsOnly'
<1>0. Types /\ ThreadTypes
  BY DEF Kept
<1>1. /\ links'[x][k] = new
      /\ \A e \in Elem, l \in Levels : e # x \/ l # k => links'[e][l] = links[e][l]
  BY <1>0 DEF Types
<1>2. ASSUME NEW u \in Thread, u # t PROVE MarksKept(u)' /\ NewTo(u)'
  <2>1. MarksKept(u) /\ NewTo(u)
    BY DEF InsertsOnly
  <2>2. /\ pc'[u] = pc[u] /\ elem'[u] = elem[u] /\ epcopy'[u] = epcopy[u]
        /\ epdel'[u] = epdel[u] /\ layer'[u] = layer[u] /\ found'[u] = found[u]
        /\ todo'[u] = todo[u]
    BY <1>2 DEF OthersStay, Stays
  <2>3. MarksKept(u)'
    BY <2>1, <2>2 DEF MarksKept
  <2>4. NewTo(u)'
    <3> SUFFICES ASSUME pc[u] = "link", NEW n \in BagToSet(todo[u])
                 PROVE  elem[u] \notin BagToSet(links'[n][layer[u]])
      BY <2>1, <2>2 DEF NewTo
    <3>1. elem[u] \notin BagToSet(links[n][layer[u]])
      BY <2>1 DEF NewTo
    <3>2. n \in Elem /\ layer[u] \in Levels
      <4>1. todo[u] \in Lists /\ layer[u] \in Levels
        BY <1>0 DEF ThreadTypes
      <4> QED
        BY <4>1, ListForm DEF BagToSet
    <3>3. CASE n = x /\ layer[u] = k
      BY <1>1, <1>2, <3>1, <3>3
    <3>4. CASE n # x \/ layer[u] # k
      BY <1>1, <3>1, <3>2, <3>4
    <3> QED
      BY <3>3, <3>4
  <2> QED
    BY <2>3, <2>4
<1>3. ASSUME NEW e \in Elem, NEW l \in Levels PROVE Single(links'[e][l])
  <2>1. CASE e = x /\ l = k
    BY <1>1, <2>1
  <2>2. CASE e # x \/ l # k
    BY <1>1, <2>2 DEF InsertsOnly
  <2> QED
    BY <2>1, <2>2
<1> QED
  BY <1>2, <1>3 DEF InsertsOnly

LEMMA ConnectingInserts ==
  ASSUME Kept, InsertsOnly, updates = 0, NEW t \in Thread, Connect(t)
  PROVE  InsertsOnly'
<1>0. Types /\ ThreadTypes /\ ListsKept /\ RowKept(t) /\ MarksKept(t)
  BY DEF Kept, InsertsOnly
<1>1. /\ pc[t] = "expand" /\ op[t] = "insert" /\ Inserting(t)
      /\ ConnectTo(t, Candidates(t, found[t], epdel[t]))
      /\ frontier[t] = {} \/ cur[t] \notin frontier[t]
  BY DEF Connect, SearchOver, Inserting
<1>k. PICK k \in Levels : k = layer[t]
  BY <1>0 DEF ThreadTypes
<1>2. /\ elem[t] \in 1 .. count /\ elem[t] \in Elem /\ 1 .. count \subseteq Elem
      /\ epcopy[t] \in Elem
  BY <1>0, <1>1, RowElems DEF Walking, Searching
<1>3. /\ found[t] \in SUBSET Elem /\ found[t] \subseteq Joined(k) /\ elem[t] \notin Joined(k)
      /\ Joined(k) \subseteq Elem
  <2>1. found[t] \subseteq Joined(k) /\ found[t] \in SUBSET Elem
    BY <1>0, <1>k, <1>1 DEF RowKept, SetsKept, ThreadTypes
  <2>2. elem[t] \notin Joined(k)
    BY <1>0, <1>k, <1>1, NotJoined DEF Searching
  <2> QED
    BY <1>2, <2>1, <2>2, JoinedIn
<1>4. epcopy[t] # elem[t] /\ level[epcopy[t]] >= k /\ epcopy[t] \in Joined(k)
  <2>1. Full(epcopy[t])
    BY <1>0, <1>1, RowElems DEF Walking, Searching
  <2>2. epcopy[t] # elem[t]
    BY <1>1, <2>1 DEF Full, Publishing
  <2>3. level[epcopy[t]] >= k
    BY <1>0, <1>k, <1>1 DEF RowKept, CurKept, AtStart, Updating, Walking, Searching
  <2> QED
    BY <2>1, <2>2, <2>3, FullJoins
<1>5. PICK b \in Candidates(t, found[t], epdel[t]) : \E sel \in Heuristic(b, M) :
        IF sel = EmptyBag /\ k > 0
        THEN ReadWild
        ELSE /\ links' = [links EXCEPT ![elem[t]][k] = sel]
             /\ todo' = [todo EXCEPT ![t] = sel]
             /\ IF sel = EmptyBag
                THEN NextLevel(t)
                ELSE Goto(t, "link") /\ UNCHANGED <<layer, global>>
             /\ ForgetSearch(t)
             /\ UNCHANGED <<count, level, deleted, enterpoint_node_, maxlevel_,
                            wild, bounds, row, epdel, cur>>
  BY <1>k, <1>1 DEF ConnectTo
<1>6. PICK sel \in Heuristic(b, M) :
        IF sel = EmptyBag /\ k > 0
        THEN ReadWild
        ELSE /\ links' = [links EXCEPT ![elem[t]][k] = sel]
             /\ todo' = [todo EXCEPT ![t] = sel]
             /\ IF sel = EmptyBag
                THEN NextLevel(t)
                ELSE Goto(t, "link") /\ UNCHANGED <<layer, global>>
             /\ ForgetSearch(t)
             /\ UNCHANGED <<count, level, deleted, enterpoint_node_, maxlevel_,
                            wild, bounds, row, epdel, cur>>
  BY <1>5
<1>7. /\ sel \in Lists /\ Single(sel) /\ BagToSet(sel) \subseteq Joined(k)
      /\ marks = 0 => sel # EmptyBag
  <2>1. epdel[t] => epcopy[t] \notin found[t]
    BY <1>0, <1>1 DEF MarksKept, Searching
  <2>2. /\ b \in Lists /\ Single(b) /\ (found[t] # {} => b # EmptyBag)
        /\ BagToSet(b) \subseteq found[t] \union (IF epdel[t] THEN {epcopy[t]} ELSE {})
    BY <1>2, <1>3, <1>5, <2>1, CandidatesKeep, GraphAssumption
  <2>3. /\ sel \in Lists /\ BagToSet(sel) \subseteq BagToSet(b) /\ Single(sel)
        /\ b # EmptyBag => sel # EmptyBag
    BY <1>6, <2>2, HeuristicKeeps, Constants, GraphAssumption
  <2>4. marks = 0 => found[t] # {}
    BY <1>0, <1>1 DEF MarksKept
  <2> QED
    BY <1>3, <1>4, <2>2, <2>3, <2>4
<1>8. CASE sel = EmptyBag /\ k > 0
  <2>1. marks # 0 /\ ReadWild
    BY <1>6, <1>7, <1>8
  <2>2. UNCHANGED <<updates, marks, links, deleted, pc, elem, epcopy, epdel, layer, found,
                    todo>>
    BY <2>1 DEF ReadWild, graph, bounds, row, walk
  <2>3. \A u \in Thread : MarksKept(u)' /\ NewTo(u)'
    BY <2>2 DEF InsertsOnly, MarksKept, NewTo
  <2> QED
    BY <2>1, <2>2, <2>3 DEF InsertsOnly
<1>9. CASE ~(sel = EmptyBag /\ k > 0)
  <2>1. /\ links' = [links EXCEPT ![elem[t]][k] = sel]
        /\ todo' = [todo EXCEPT ![t] = sel]
        /\ IF sel = EmptyBag
           THEN NextLevel(t)
           ELSE Goto(t, "link") /\ UNCHANGED <<layer, global>>
        /\ frontier' = [frontier EXCEPT ![t] = {}] /\ found' = [found EXCEPT ![t] = {}]
        /\ UNCHANGED <<deleted, wild, marks, op, elem, maxcopy, epcopy, epdel, cur>>
    BY <1>6, <1>9 DEF ForgetSearch, bounds, row
  <2>2. /\ pc' = [pc EXCEPT ![t] = pc'[t]] /\ layer' = layer
        /\ pc'[t] \in {"publish", "link"}
    <3>1. CASE sel = EmptyBag
      <4>1. ~(layer[t] > 0) /\ NextLevel(t)
        BY <1>k, <1>9, <2>1, <3>1
      <4> QED
        BY <1>0, <1>1, <4>1 DEF NextLevel, Goto, ThreadTypes
    <3>2. CASE sel # EmptyBag
      BY <1>0, <2>1, <3>2 DEF Goto, ThreadTypes
    <3> QED
      BY <3>1, <3>2
  <2>3. OthersStay(t) /\ todo'[t] = sel
    BY <1>0, <2>1, <2>2 DEF OthersStay, Stays, ThreadTypes
  <2>4. MarksKept(t)'
    BY <1>0, <1>1, <2>1, <2>2 DEF MarksKept, Searching
  <2>5. NewTo(t)'
    <3> SUFFICES ASSUME NEW n \in BagToSet(sel) PROVE elem[t] \notin BagToSet(links'[n][k])
      BY <1>k, <1>7, <2>1, <2>2, <2>3 DEF NewTo
    <3>1. n \in Elem /\ n # elem[t]
      BY <1>3, <1>7
    <3>2. links'[n][k] = links[n][k]
      BY <1>0, <1>2, <1>7, <2>1, <3>1, OneListChanges
    <3>3. BagToSet(links[n][k]) \subseteq Joined(k)
      BY <1>0, <3>1 DEF ListsKept
    <3> QED
      BY <1>3, <3>2, <3>3
  <2>6. ASSUME NEW u \in Thread \ {t}, pc[u] = "link", layer[u] = k
        PROVE  elem[t] \notin BagToSet(todo[u])
    BY <1>3, <2>6 DEF Kept, RowKept, SetsKept
  <2>7. \A u \in Thread \ {t} : pc[u] = "link" /\ elem[t] \in BagToSet(todo[u]) /\ layer[u] = k =>
          \A e \in BagToSet(sel) : e = elem[u] => e \in BagToSet(links[elem[t]][k])
    BY <2>6
  <2>8. UNCHANGED <<deleted, wild, marks>>
    BY <2>1
  <2> QED
    BY <1>2, <1>7, <2>1, <2>3, <2>4, <2>5, <2>7, <2>8, InsertsOnlyAfterWrite
<1> QED
  BY <1>8, <1>9

LEMMA LinkingInserts ==
  ASSUME Kept, InsertsOnly, updates = 0, NEW t \in Thread, LinkBack(t)
  PROVE  InsertsOnly'
<1>0. Types /\ ThreadTypes /\ Apart /\ RowKept(t) /\ MarksKept(t) /\ NewTo(t)
  BY DEF Kept, InsertsOnly
<1>1. pc[t] = "link" /\ op[t] = "insert" /\ pc[t] # "idle"
  BY OnlyInserts DEF LinkBack
<1>k. PICK k \in Levels : k = layer[t]
  BY <1>0 DEF ThreadTypes
<1>2. /\ elem[t] \in Elem /\ Single(todo[t]) /\ todo[t] \in Lists
  BY <1>0, <1>1, RowElems DEF NewTo, ThreadTypes
<1>3. PICK n \in BagToSet(todo[t]) :
        /\ \E new \in IF Size(links[n][k]) < Mcurmax(k)
                      THEN {Bag!BagAdd(links[n][k], elem[t])}
                      ELSE Heuristic(Bag!BagAdd(links[n][k], elem[t]), Mcurmax(k)) :
             links' = [links EXCEPT ![n][k] = new]
        /\ cur' = [cur EXCEPT ![t] = n]
        /\ todo' = [todo EXCEPT ![t] = Bag!BagRemove(todo[t], n)]
        /\ IF Size(todo[t]) = 1
           THEN NextLevel(t)
           ELSE UNCHANGED <<pc, layer, global>>
  BY <1>k, <1>1 DEF LinkBack, ListAt
<1>4. UNCHANGED <<deleted, wild, marks, op, elem, maxcopy, epcopy, epdel, frontier, found>>
  BY DEF LinkBack, bounds, row
<1>5. /\ n \in Elem /\ links[n][k] \in Lists /\ Single(links[n][k])
      /\ elem[t] \notin BagToSet(links[n][k])
  <2>1. n \in Elem /\ elem[t] \notin BagToSet(links[n][k])
    BY <1>0, <1>k, <1>1, <1>2, <1>3, ListForm DEF NewTo, BagToSet
  <2> QED
    BY <1>0, <2>1 DEF Types, InsertsOnly
<1>6. PICK new \in IF Size(links[n][k]) < Mcurmax(k)
                   THEN {Bag!BagAdd(links[n][k], elem[t])}
                   ELSE Heuristic(Bag!BagAdd(links[n][k], elem[t]), Mcurmax(k)) :
             links' = [links EXCEPT ![n][k] = new]
  BY <1>3
<1>7. /\ new \in Lists /\ Single(new)
      /\ BagToSet(new) \subseteq BagToSet(links[n][k]) \union {elem[t]}
  <2> DEFINE longer == Bag!BagAdd(links[n][k], elem[t])
  <2>1. /\ longer \in Lists /\ BagToSet(longer) = BagToSet(links[n][k]) \union {elem[t]}
        /\ Single(longer)
    BY <1>2, <1>5, AddOne
  <2>2. Mcurmax(k) \in Nat /\ Mcurmax(k) > 0
    BY Constants, GraphAssumption
  <2> HIDE DEF longer
  <2>3. CASE new = longer
    BY <2>1, <2>3
  <2>4. CASE new \in Heuristic(longer, Mcurmax(k))
    BY <2>1, <2>2, <2>4, HeuristicKeeps
  <2> QED
    BY <1>6, <2>3, <2>4 DEF longer
<1> DEFINE rest == Bag!BagRemove(todo[t], n)
<1>8. /\ rest \in Lists /\ BagToSet(rest) \subseteq BagToSet(todo[t]) \ {n} /\ Single(rest)
  BY <1>2, <1>3, RemoveOne
<1> HIDE DEF rest
<1>9. todo' = [todo EXCEPT ![t] = rest] /\ todo'[t] = rest
  BY <1>0, <1>3 DEF rest, ThreadTypes
<1>10. /\ pc' = [pc EXCEPT ![t] = pc'[t]] /\ layer' = [layer EXCEPT ![t] = layer'[t]]
       /\ \/ pc'[t] \in {"search", "publish"}
          \/ pc'[t] = "link" /\ layer'[t] = k
  <2>1. CASE Size(todo[t]) = 1
    BY <1>0, <1>1, <1>3, <2>1 DEF NextLevel, Goto, AtLayer, ThreadTypes
  <2>2. CASE Size(todo[t]) # 1
    BY <1>0, <1>k, <1>1, <1>3, <2>2 DEF ThreadTypes
  <2> QED
    BY <2>1, <2>2
<1>11. OthersStay(t)
  BY <1>0, <1>3, <1>4, <1>9, <1>10 DEF OthersStay, Stays, ThreadTypes
<1>12. MarksKept(t)'
  BY <1>0, <1>1, <1>4, <1>10 DEF MarksKept, Searching
<1>13. NewTo(t)'
  <2> SUFFICES ASSUME NEW m \in BagToSet(rest) PROVE elem[t] \notin BagToSet(links'[m][k])
    BY <1>4, <1>8, <1>9, <1>10 DEF NewTo
  <2>1. m # n /\ m \in BagToSet(todo[t]) /\ m \in Elem
    BY <1>2, <1>8, ListForm DEF BagToSet
  <2>2. links'[m][k] = links[m][k]
    BY <1>0, <1>5, <1>6, <1>7, <2>1, OneListChanges
  <2> QED
    BY <1>0, <1>k, <1>1, <2>1, <2>2 DEF NewTo
<1>14. ASSUME NEW u \in Thread \ {t}, pc[u] = "link" PROVE elem[u] # elem[t]
  BY <1>0, <1>1, <1>14 DEF Apart
<1>15. \A u \in Thread \ {t} : pc[u] = "link" /\ n \in BagToSet(todo[u]) /\ layer[u] = k =>
         \A e \in BagToSet(new) : e = elem[u] => e \in BagToSet(links[n][k])
  BY <1>7, <1>14
<1>16. UNCHANGED <<deleted, wild, marks>>
  BY <1>4
<1> QED
  BY <1>5, <1>6, <1>7, <1>11, <1>12, <1>13, <1>15, <1>16, InsertsOnlyAfterWrite

LEMMA InsertsOnlyNext ==
  ASSUME Kept, InsertsOnly, [Next]_vars
  PROVE  InsertsOnly'
<1>0. updates \in Nat /\ marks \in Nat
  BY DEF Kept, Types
<1>1. CASE updates = 0
  <2>1. CASE UNCHANGED vars
    <3>1. UNCHANGED <<updates, marks, wild, links, deleted, pc, elem, epcopy, epdel, layer,
                      found, todo>>
      BY <2>1 DEF vars, graph, bounds, row, walk
    <3>2. \A u \in Thread : MarksKept(u)' /\ NewTo(u)'
      BY <1>1, <3>1 DEF InsertsOnly, MarksKept, NewTo
    <3> QED
      BY <1>1, <3>1, <3>2 DEF InsertsOnly
  <2>2. CASE MarkDelete
    <3>1. /\ marks' # 0 /\ UNCHANGED <<links, pc>> /\ \A u \in Thread : pc[u] = "idle"
      BY <1>0, <2>2 DEF MarkDelete
    <3>2. \A u \in Thread : MarksKept(u)' /\ NewTo(u)'
      BY <3>1 DEF MarksKept, NewTo, Searching
    <3> QED
      BY <1>1, <3>1, <3>2 DEF InsertsOnly
  <2>3. ASSUME NEW t \in Thread, Insert(t) PROVE InsertsOnly'
    BY <1>1, <2>3, BeginningInserts, SearchingInserts, ConnectingInserts DEF Insert
  <2>4. ASSUME NEW t \in Thread, Update(t) PROVE InsertsOnly'
    BY <2>4, UpdatesCount DEF InsertsOnly
  <2>5. ASSUME NEW t \in Thread, Shared(t) PROVE InsertsOnly'
    BY <1>1, <2>5, DescendingInserts, SearchingInserts, ExpandingInserts, LinkingInserts
    DEF Shared
  <2> QED
    BY <2>1, <2>2, <2>3, <2>4, <2>5 DEF Next, Done
<1>2. CASE updates # 0
  <2>1. updates' # 0
    <3>1. CASE UNCHANGED vars \/ MarkDelete
      BY <1>2, <3>1 DEF vars, bounds, MarkDelete
    <3>2. ASSUME NEW t \in Thread, Insert(t) PROVE updates' = updates
      <4>1. StartInsert(t) \/ TakeGlobal(t) \/ ReadEntry(t) \/ ReadEntryMark(t) \/ Publish(t) =>
              updates' = updates
        BY DEF StartInsert, TakeGlobal, ReadEntry, ReadEntryMark, Publish, bounds
      <4>2. Connect(t) => updates' = updates
        BY DEF Connect, ConnectTo, ReadWild, bounds
      <4> QED
        BY <3>2, <4>1, <4>2 DEF Insert
    <3>3. ASSUME NEW t \in Thread, Update(t) PROVE updates' # 0
      BY <3>3, UpdatesCount
    <3>4. ASSUME NEW t \in Thread, Shared(t) PROVE updates' = updates
      BY <3>4 DEF Shared, Descend, BeginSearch, Expand, LinkBack, ReadWild, bounds
    <3> QED
      BY <1>2, <3>1, <3>2, <3>3, <3>4 DEF Next, Done
  <2> QED
    BY <2>1 DEF InsertsOnly
<1> QED
  BY <1>1, <1>2

(* The invariant of batches that only insert: a search of such a batch has *)
(* found live elements only, unless some are deleted, a new element is in  *)
(* no list it is still to be taken into, and no list repeats an element    *)
(* (hnswalg.h, searchBaseLayer, mutuallyConnectNewElement).                *)
THEOREM InsertsOnlyAlways == Spec => []InsertsOnly
<1>1. Init => InsertsOnly
  <2> SUFFICES ASSUME Init PROVE InsertsOnly
    OBVIOUS
  <2>1. \A t \in Thread : MarksKept(t) /\ NewTo(t)
    BY DEF Init, MarksKept, NewTo, Searching
  <2>2. \A e \in Elem, l \in Levels : Single(links[e][l])
    BY SizeOfEmpty DEF Init, Single
  <2> QED
    BY <2>1, <2>2 DEF Init, InsertsOnly
<1>2. Kept /\ InsertsOnly /\ [Next]_vars => InsertsOnly'
  BY InsertsOnlyNext
<1> QED
  BY KeptAlways, <1>1, <1>2, PTL DEF Spec

(* As long as rows only insert and nothing is deleted, no search reads a   *)
(* list at a level its element does not have, and no insert goes on from   *)
(* the back of an empty vector.                                            *)
THEOREM InsertsStayTame == Spec => []InsertsNeverWild
<1>1. InsertsOnly => InsertsNeverWild
  BY DEF InsertsOnly, InsertsNeverWild, NeverWild
<1> QED
  BY InsertsOnlyAlways, <1>1, PTL

(* As long as rows only insert, no element occurs twice in a list, however *)
(* the inserts interleave and whatever is deleted between the batches.     *)
THEOREM LinksStaySingle == Spec => []NoDuplicateLinks
<1>1. ASSUME Kept, InsertsOnly PROVE NoDuplicateLinks
  <2> SUFFICES ASSUME updates = 0, NEW e \in Elem, NEW l \in Levels
               PROVE  links[e][l] = SetToBag(BagToSet(links[e][l]))
    BY DEF NoDuplicateLinks
  <2> DEFINE b == links[e][l]
  <2>1. b \in Lists /\ Single(b)
    BY <1>1 DEF Kept, Types, InsertsOnly
  <2> HIDE DEF b
  <2>2. b \in [DOMAIN b -> {n \in Nat : n > 0}] /\ \A x \in DOMAIN b : b[x] = 1
    BY <2>1, ListForm DEF Single, BagToSet
  <2>3. b = [x \in DOMAIN b |-> 1]
    BY <2>2
  <2>4. b = SetToBag(BagToSet(b))
    BY <2>3 DEF SetToBag, BagToSet
  <2> QED
    BY <2>4 DEF b
<1> QED
  BY KeptAlways, InsertsOnlyAlways, <1>1, PTL

=============================================================================
