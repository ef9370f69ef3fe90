--------------------------- MODULE BoundaryProofs ---------------------------
(***************************************************************************)
(* Proofs about the four parts of Boundary.                                *)
(*                                                                         *)
(* The distance functions add up each coordinate once and load nothing     *)
(* past the end of the vectors.  Every function a space picks is a chain   *)
(* of loops, each of which covers a multiple of its step from where the    *)
(* one before stopped, the last up to the dimension (Chain).  So between   *)
(* two turns the pointer is a multiple of the step before the loop's end,  *)
(* and exactly the coordinates behind it have been added (KernelInv).      *)
(*                                                                         *)
(* The memory behind a handle: of every kind of block the heap holds what  *)
(* its owners have to free and what failed constructors lost (Balanced),   *)
(* and unless a failed call left the index unsound, every list and array   *)
(* is there and large enough (Whole).                                      *)
(*                                                                         *)
(* The file: what is not written is still to be written by a stream that   *)
(* can write, and with one save at a time the file has no holes            *)
(* (FileKept).  In such a file the corruption check reads back exactly the *)
(* levels that were saved, block by block (ReadSoFar), so it comes to the  *)
(* end of the file if and only if the writer did (LoadsExact).             *)
(*                                                                         *)
(* A batch: the rows the threads have taken, and what they wrote, are      *)
(* those counted (BatchKept), and when all vectors have the index's        *)
(* dimension the part of a row starts where that row's vector does         *)
(* (ContentsKept).  Both need that no product of a call's sizes wraps.     *)
(***************************************************************************)
EXTENDS Boundary, SequenceTheorems, FiniteSetTheorems, WellFoundedInduction, TLAPS

Step(l) == l.loads * l.width
LoopType == [loads : Nat, width : Nat, until : Nat]
From(k, i) == IF i = 1 THEN 0 ELSE k[i - 1].until

(* Loop l starts at coordinate `from' and ends exactly at its end.         *)
Covers(l, from) ==
  /\ l \in LoopType
  /\ Step(l) \in {1, 4, 16, 64}
  /\ from <= l.until
  /\ (l.until - from) % Step(l) = 0

Chain(k, d) ==
  /\ k \in Seq(LoopType) /\ Len(k) >= 1
  /\ \A i \in 1 .. Len(k) : Covers(k[i], From(k, i)) /\ k[i].until <= d
  /\ k[Len(k)].until = d

-----------------------------------------------------------------------------
(* Chains of one, two and three loops.                                     *)

LEMMA OneLoop ==
  ASSUME NEW a, Covers(a, 0)
  PROVE  Chain(<<a>>, a.until)
BY DEF Chain, Covers, From, LoopType

LEMMA TwoLoops ==
  ASSUME NEW a, NEW b, Covers(a, 0), Covers(b, a.until)
  PROVE  Chain(<<a, b>>, b.until)
<1> DEFINE k == <<a, b>>
<1>1. k \in Seq(LoopType) /\ Len(k) = 2 /\ k[1] = a /\ k[2] = b
  BY DEF Covers
<1>2. ASSUME NEW i \in 1 .. Len(k) PROVE Covers(k[i], From(k, i)) /\ k[i].until <= b.until
  <2>1. CASE i = 1
    BY <1>1, <2>1 DEF From, Covers, LoopType
  <2>2. CASE i = 2
    BY <1>1, <2>2 DEF From, Covers, LoopType
  <2>3. QED
    BY <1>1, <2>1, <2>2
<1>3. QED
  BY <1>1, <1>2 DEF Chain

LEMMA ThreeLoops ==
  ASSUME NEW a, NEW b, NEW c, Covers(a, 0), Covers(b, a.until), Covers(c, b.until)
  PROVE  Chain(<<a, b, c>>, c.until)
<1> DEFINE k == <<a, b, c>>
<1>1. k \in Seq(LoopType) /\ Len(k) = 3 /\ k[1] = a /\ k[2] = b /\ k[3] = c
  BY DEF Covers
<1>2. ASSUME NEW i \in 1 .. Len(k) PROVE Covers(k[i], From(k, i)) /\ k[i].until <= c.until
  <2>1. CASE i = 1
    BY <1>1, <2>1 DEF From, Covers, LoopType
  <2>2. CASE i = 2
    BY <1>1, <2>2 DEF From, Covers, LoopType
  <2>3. CASE i = 3
    BY <1>1, <2>3 DEF From, Covers, LoopType
  <2>4. QED
    BY <1>1, <2>1, <2>2, <2>3
<1>3. QED
  BY <1>1, <1>2 DEF Chain

(* What the residual functions are made of.                                *)
LEMMA Joined ==
  ASSUME NEW a \in LoopType, NEW b \in LoopType, NEW c \in LoopType
  PROVE  <<a>> \o <<b>> = <<a, b>> /\ <<a, b>> \o <<c>> = <<a, b, c>>
<1>1. <<a>> \in Seq(LoopType) /\ <<b>> \in Seq(LoopType) /\ <<c>> \in Seq(LoopType)
      /\ <<a, b>> \in Seq(LoopType) /\ <<a, b, c>> \in Seq(LoopType)
  OBVIOUS
<1>2. <<a>> \o <<b>> \in Seq(LoopType) /\ <<a, b>> \o <<c>> \in Seq(LoopType)
  BY <1>1
<1>3. /\ Len(<<a>> \o <<b>>) = 2 /\ Len(<<a, b>> \o <<c>>) = 3
      /\ \A i \in 1 .. 2 : (<<a>> \o <<b>>)[i] = <<a, b>>[i]
      /\ \A i \in 1 .. 3 : (<<a, b>> \o <<c>>)[i] = <<a, b, c>>[i]
  BY <1>1
<1>4. ASSUME NEW s \in Seq(LoopType), NEW t \in Seq(LoopType), Len(s) = Len(t),
             \A i \in 1 .. Len(s) : s[i] = t[i]
      PROVE  s = t
  BY <1>4, SeqEqual
<1>5. <<a>> \o <<b>> = <<a, b>>
  BY <1>1, <1>2, <1>3, <1>4
<1>6. <<a, b>> \o <<c>> = <<a, b, c>>
  BY <1>1, <1>2, <1>3, <1>4
<1>7. QED
  BY <1>5, <1>6

(* Rounding down to a multiple of 4, 16 or 64.                             *)
LEMMA DownFacts ==
  ASSUME NEW q \in Nat
  PROVE  /\ Down(q, 4) \in Nat /\ Down(q, 16) \in Nat /\ Down(q, 64) \in Nat
         /\ Down(q, 4) <= q /\ Down(q, 16) <= Down(q, 4) /\ Down(q, 64) <= Down(q, 16)
         /\ Down(q, 4) % 4 = 0 /\ Down(q, 16) % 16 = 0 /\ Down(q, 64) % 64 = 0
         /\ (Down(q, 4) - Down(q, 16)) % 4 = 0 /\ (Down(q, 16) - Down(q, 64)) % 16 = 0
         /\ Down(Down(q, 16), 16) = Down(q, 16) /\ Down(Down(q, 4), 4) = Down(q, 4)
         /\ Down(Down(q, 4), 16) = Down(q, 16) /\ Down(Down(q, 16), 64) = Down(q, 64)
         /\ (q % 4 = 0 => Down(q, 4) = q) /\ (q % 16 = 0 => Down(q, 16) = q)
BY SMT DEF Down

(* A loop of the module covers what lies between two such numbers.         *)
LEMMA LoopCovers ==
  ASSUME NEW loads \in Nat, NEW width \in Nat, NEW until \in Nat, NEW from \in Nat,
         loads * width \in {1, 4, 16, 64}, from <= until,
         (until - from) % (loads * width) = 0
  PROVE  Covers(Loop(loads, width, until), from) /\ Loop(loads, width, until).until = until
BY DEF Covers, Step, Loop, LoopType

(* The loops of the functions: after 0, or after what a loop before took.   *)
LEMMA Loops ==
  ASSUME NEW q \in Nat, NEW loads \in Nat, NEW width \in Nat
  PROVE  /\ loads * width = 16 => Covers(Loop(loads, width, Down(q, 16)), 0)
                                 /\ Covers(Loop(loads, width, Down(q, 16)), Down(q, 64))
         /\ loads * width = 64 => Covers(Loop(loads, width, Down(q, 64)), 0)
         /\ loads * width = 4 => Covers(Loop(loads, width, Down(q, 4)), 0)
                                /\ Covers(Loop(loads, width, Down(q, 4)), Down(q, 16))
         /\ loads * width = 1 => Covers(Loop(loads, width, q), 0)
                                /\ Covers(Loop(loads, width, q), Down(q, 16))
                                /\ Covers(Loop(loads, width, q), Down(q, 4))
<1> DEFINE a == Down(q, 4)
           b == Down(q, 16)
           c == Down(q, 64)
<1>1. /\ a \in Nat /\ b \in Nat /\ c \in Nat /\ a <= q /\ b <= a /\ c <= b
      /\ a % 4 = 0 /\ b % 16 = 0 /\ c % 64 = 0 /\ (a - b) % 4 = 0 /\ (b - c) % 16 = 0
  BY DownFacts
<1> HIDE DEF a, b, c
<1>2. ASSUME loads * width = 16
      PROVE  Covers(Loop(loads, width, b), 0) /\ Covers(Loop(loads, width, b), c)
  BY <1>1, <1>2, LoopCovers
<1>3. ASSUME loads * width = 64 PROVE Covers(Loop(loads, width, c), 0)
  BY <1>1, <1>3, LoopCovers
<1>4. ASSUME loads * width = 4
      PROVE  Covers(Loop(loads, width, a), 0) /\ Covers(Loop(loads, width, a), b)
  BY <1>1, <1>4, LoopCovers
<1>5. ASSUME loads * width = 1
      PROVE  /\ Covers(Loop(loads, width, q), 0) /\ Covers(Loop(loads, width, q), a)
             /\ Covers(Loop(loads, width, q), b)
  <2>1. q % 1 = 0 /\ (q - a) % 1 = 0 /\ (q - b) % 1 = 0 /\ b <= q
    BY <1>1
  <2>2. QED
    BY <1>1, <1>5, <2>1, LoopCovers
<1>6. QED
  BY <1>2, <1>3, <1>4, <1>5 DEF a, b, c

(* Where a loop ends is what it was made with.                             *)
LEMMA Ends ==
  ASSUME NEW loads, NEW width, NEW until
  PROVE  Loop(loads, width, until).until = until
BY DEF Loop

-----------------------------------------------------------------------------
(* The functions, for registers of 4, 8 or 16 lanes.                       *)

LEMMA L2Chains ==
  ASSUME NEW q \in Nat, NEW lanes \in {4, 8, 16}
  PROVE  /\ Chain(L2Sqr(q), q)
         /\ q % 16 = 0 => Chain(L2SqrSIMD16Ext(q, lanes), q)
         /\ q % 4 = 0 => Chain(L2SqrSIMD4Ext(q), q)
         /\ Chain(L2SqrSIMD16ExtResiduals(q, lanes), q)
         /\ Chain(L2SqrSIMD4ExtResiduals(q), q)
         /\ q % 4 = 0 => Chain(L2SqrI4x(q), q)
<1> DEFINE wide == Loop(16 \div lanes, lanes, Down(q, 16))
           quad == Loop(1, 4, Down(q, 4))
           four == Loop(4, 1, Down(q, 4))
           tail == Loop(1, 1, q)
<1>1. (16 \div lanes) * lanes = 16 /\ 16 \div lanes \in Nat
  <2>1. CASE lanes = 4  BY <2>1
  <2>2. CASE lanes = 8  BY <2>2
  <2>3. CASE lanes = 16  BY <2>3
  <2>4. QED  BY <2>1, <2>2, <2>3
<1>2. Covers(wide, 0) /\ wide.until = Down(q, 16)
  BY <1>1, Loops, Ends
<1>3. Covers(quad, 0) /\ quad.until = Down(q, 4) /\ Covers(four, 0) /\ four.until = Down(q, 4)
  BY Loops, Ends
<1>4. Covers(tail, 0) /\ Covers(tail, Down(q, 16)) /\ Covers(tail, Down(q, 4)) /\ tail.until = q
  BY Loops, Ends
<1> HIDE DEF wide, quad, four, tail
<1>5. wide \in LoopType /\ quad \in LoopType /\ tail \in LoopType
  BY <1>2, <1>3, <1>4 DEF Covers
<1>6. Chain(<<tail>>, q) /\ (q % 16 = 0 => Chain(<<wide>>, q))
      /\ (q % 4 = 0 => Chain(<<quad>>, q) /\ Chain(<<four>>, q))
  <2>1. (q % 16 = 0 => Down(q, 16) = q) /\ (q % 4 = 0 => Down(q, 4) = q)
    BY DownFacts
  <2>2. QED
    BY <1>2, <1>3, <1>4, <2>1, OneLoop
<1>7. Chain(<<wide>> \o <<tail>>, q) /\ Chain(<<quad>> \o <<tail>>, q)
  BY <1>2, <1>3, <1>4, <1>5, TwoLoops, Joined
<1>8. QED
  BY <1>6, <1>7, DownFacts DEF L2Sqr, L2SqrSIMD16Ext, L2SqrSIMD4Ext, L2SqrSIMD16ExtResiduals,
     L2SqrSIMD4ExtResiduals, L2SqrI4x, wide, quad, four, tail

LEMMA InnerProductChains ==
  ASSUME NEW q \in Nat, NEW lanes \in {4, 8, 16}
  PROVE  /\ Chain(InnerProduct(q), q)
         /\ q % 16 = 0 => Chain(InnerProductSIMD16Ext(q, lanes), q)
         /\ q % 4 = 0 => Chain(InnerProductSIMD4Ext(q, lanes), q)
         /\ Chain(InnerProductDistanceSIMD16ExtResiduals(q, lanes), q)
         /\ Chain(InnerProductDistanceSIMD4ExtResiduals(q, lanes), q)
<1> DEFINE long == Loop(4, 16, Down(q, 64))
           last == Loop(1, 16, Down(q, 16))
           wide == Loop(16 \div lanes, lanes, Down(q, 16))
           first == IF lanes = 4 THEN Loop(4, 4, Down(q, 16)) ELSE Loop(2, 8, Down(q, 16))
           quad == Loop(1, 4, Down(q, 4))
           tail == Loop(1, 1, q)
<1>1. (16 \div lanes) * lanes = 16 /\ 16 \div lanes \in Nat
  <2>1. CASE lanes = 4  BY <2>1
  <2>2. CASE lanes = 8  BY <2>2
  <2>3. CASE lanes = 16  BY <2>3
  <2>4. QED  BY <2>1, <2>2, <2>3
<1>2. Covers(wide, 0) /\ wide.until = Down(q, 16)
  BY <1>1, Loops, Ends
<1>3. Covers(long, 0) /\ long.until = Down(q, 64) /\ Covers(last, Down(q, 64)) /\ last.until = Down(q, 16)
  BY Loops, Ends
<1>4. Covers(first, 0) /\ first.until = Down(q, 16) /\ Covers(quad, Down(q, 16)) /\ quad.until = Down(q, 4)
  <2>1. Covers(Loop(4, 4, Down(q, 16)), 0) /\ Loop(4, 4, Down(q, 16)).until = Down(q, 16)
    BY Loops, Ends
  <2>2. Covers(Loop(2, 8, Down(q, 16)), 0) /\ Loop(2, 8, Down(q, 16)).until = Down(q, 16)
    BY Loops, Ends
  <2>3. Covers(quad, Down(q, 16)) /\ quad.until = Down(q, 4)
    BY Loops, Ends
  <2>4. QED
    BY <2>1, <2>2, <2>3
<1>5. Covers(tail, 0) /\ Covers(tail, Down(q, 16)) /\ Covers(tail, Down(q, 4)) /\ tail.until = q
  BY Loops, Ends
<1> HIDE DEF long, last, wide, first, quad, tail
<1>6. /\ long \in LoopType /\ last \in LoopType /\ wide \in LoopType
      /\ first \in LoopType /\ quad \in LoopType /\ tail \in LoopType
  BY <1>2, <1>3, <1>4, <1>5 DEF Covers
<1>7. Chain(<<tail>>, q)
  BY <1>5, OneLoop
<1>. (q % 16 = 0 => Down(q, 16) = q) /\ (q % 4 = 0 => Down(q, 4) = q)
  BY DownFacts
<1>8. q % 16 = 0 => Chain(<<wide>>, q) /\ Chain(<<long, last>>, q)
  BY <1>2, <1>3, OneLoop, TwoLoops
<1>9. q % 4 = 0 => Chain(<<first, quad>>, q)
  BY <1>4, TwoLoops
<1>10. Chain(<<wide>> \o <<tail>>, q) /\ Chain(<<long, last>> \o <<tail>>, q)
       /\ Chain(<<first, quad>> \o <<tail>>, q)
  <2>1. Chain(<<wide, tail>>, q)
    BY <1>2, <1>5, TwoLoops
  <2>2. Chain(<<long, last, tail>>, q)
    BY <1>3, <1>5, ThreeLoops
  <2>3. Chain(<<first, quad, tail>>, q)
    BY <1>4, <1>5, ThreeLoops
  <2>4. <<wide>> \o <<tail>> = <<wide, tail>>
    BY <1>6, Joined
  <2>5. <<long, last>> \o <<tail>> = <<long, last, tail>>
    BY <1>6, Joined
  <2>6. <<first, quad>> \o <<tail>> = <<first, quad, tail>>
    BY <1>6, Joined
  <2>7. QED
    BY <2>1, <2>2, <2>3, <2>4, <2>5, <2>6
<1>11. InnerProductSIMD16Ext(q, lanes) = (IF lanes = 16 THEN <<long, last>> ELSE <<wide>>)
       /\ InnerProductSIMD4Ext(q, lanes) = <<first, quad>>
       /\ InnerProduct(q) = <<tail>>
  BY DEF InnerProductSIMD16Ext, InnerProductSIMD4Ext, InnerProduct, long, last, wide, first, quad, tail
<1>12. InnerProductSIMD16Ext(Down(q, 16), lanes) = InnerProductSIMD16Ext(q, lanes)
       /\ InnerProductSIMD4Ext(Down(q, 4), lanes) = InnerProductSIMD4Ext(q, lanes)
  BY DownFacts DEF InnerProductSIMD16Ext, InnerProductSIMD4Ext
<1>13. QED
  BY <1>7, <1>8, <1>9, <1>10, <1>11, <1>12
     DEF InnerProductDistanceSIMD16ExtResiduals, InnerProductDistanceSIMD4ExtResiduals

(* Whatever a space picks is a chain up to its dimension.                  *)
LEMMA PickedChains ==
  ASSUME NEW d \in Nat, NEW build, NEW cpu
  PROVE  /\ Chain(L2Space(d, build, cpu), d) /\ Chain(MultiVectorL2Space(d, build, cpu), d)
         /\ Chain(InnerProductSpace(d, build, cpu), d) /\ Chain(L2SpaceI(d), d)
<1> DEFINE lanes == Lanes(build, cpu)
<1>1. lanes \in {4, 8, 16}
  BY DEF Lanes
<1>2. d % 16 = 0 \/ d % 16 # 0
  OBVIOUS
<1> HIDE DEF lanes
<1>3. Chain(L2Space(d, build, cpu), d)
  BY <1>1, L2Chains DEF L2Space, lanes
<1>4. Chain(InnerProductSpace(d, build, cpu), d)
  BY <1>1, InnerProductChains DEF InnerProductSpace, lanes
<1>5. Chain(L2SpaceI(d), d)
  BY <1>1, L2Chains DEF L2SpaceI, L2SqrI, L2Sqr
<1>6. QED
  BY <1>3, <1>4, <1>5 DEF MultiVectorL2Space

-----------------------------------------------------------------------------
(* The run of a function.                                                  *)

KernelInv ==
  /\ dim \in Dims
  /\ Chain(kernel, dim)
  /\ loop \in 1 .. Len(kernel) + 1
  /\ p \in Nat
  /\ loop <= Len(kernel) =>
       /\ From(kernel, loop) <= p /\ p <= kernel[loop].until
       /\ (kernel[loop].until - p) % Step(kernel[loop]) = 0
  /\ loop = Len(kernel) + 1 => p = dim
  /\ added = [c \in Coordinate |-> IF c < p THEN 1 ELSE 0]

(* The ends of the loops of a chain do not lie past the dimension.         *)
LEMMA EndsWithin ==
  ASSUME NEW d \in Nat, NEW k, Chain(k, d), NEW i \in 1 .. Len(k)
  PROVE  /\ Covers(k[i], From(k, i)) /\ k[i].until \in Nat /\ From(k, i) \in Nat
         /\ i < Len(k) => Covers(k[i + 1], k[i].until)
         /\ i = Len(k) => k[i].until = d
         /\ k[i].until <= d
<1>1. Len(k) \in Nat /\ \A j \in 1 .. Len(k) : Covers(k[j], From(k, j))
  BY DEF Chain
<1>2. \A j \in 1 .. Len(k) : k[j].until \in Nat
  BY <1>1 DEF Covers, LoopType
<1>3. From(k, i) \in Nat
  BY <1>1, <1>2 DEF From
<1>4. ASSUME i < Len(k) PROVE Covers(k[i + 1], k[i].until)
  <2>1. i + 1 \in 1 .. Len(k) /\ From(k, i + 1) = k[i].until
    BY <1>1, <1>4 DEF From
  <2>2. QED
    BY <1>1, <2>1
<1>5. QED
  BY <1>1, <1>2, <1>3, <1>4 DEF Chain

(* A turn keeps the distance to the loop's end a multiple of the step.     *)
LEMMA OneStep ==
  ASSUME NEW s \in {1, 4, 16, 64}, NEW u \in Nat, NEW x \in Nat, x < u, (u - x) % s = 0
  PROVE  x + s <= u /\ (u - (x + s)) % s = 0
<1>1. CASE s = 1  BY <1>1
<1>2. CASE s = 4  BY <1>2
<1>3. CASE s = 16  BY <1>3
<1>4. CASE s = 64  BY <1>4
<1>5. QED  BY <1>1, <1>2, <1>3, <1>4

LEMMA KernelInit == Init => KernelInv
<1> SUFFICES ASSUME Init PROVE KernelInv
  OBVIOUS
<1>1. dim \in Dims /\ dim \in Nat /\ loop = 1 /\ p = 0 /\ added = [c \in Coordinate |-> 0]
  BY KernelAssumption DEF Init
<1>2. Chain(kernel, dim)
  BY <1>1, PickedChains DEF Init
<1>3. Len(kernel) \in Nat /\ Len(kernel) >= 1
  BY <1>2 DEF Chain
<1>4. Covers(kernel[1], 0) /\ From(kernel, 1) = 0
  BY <1>2, <1>3 DEF Chain, From
<1>5. added = [c \in Coordinate |-> IF c < p THEN 1 ELSE 0]
  BY <1>1 DEF Coordinate
<1>6. QED
  BY <1>1, <1>2, <1>3, <1>4, <1>5 DEF KernelInv, Covers

LEMMA KernelStep == KernelInv /\ [Next]_vars => KernelInv'
<1> SUFFICES ASSUME KernelInv, [Next]_vars PROVE KernelInv'
  OBVIOUS
<1>1. dim \in Nat /\ Len(kernel) \in Nat /\ Chain(kernel, dim)
  <2>1. dim \in Nat /\ Chain(kernel, dim)
    BY KernelAssumption DEF KernelInv
  <2>2. Len(kernel) \in Nat
    BY <2>1 DEF Chain
  <2>3. QED
    BY <2>1, <2>2
<1>2. CASE Turn
  <2>1. loop \in 1 .. Len(kernel) /\ p \in Nat /\ p < kernel[loop].until
    BY <1>1, <1>2 DEF Turn, Here, KernelInv
  <2>2. /\ kernel[loop].until \in Nat /\ Step(kernel[loop]) \in {1, 4, 16, 64}
        /\ From(kernel, loop) \in Nat /\ From(kernel, loop) <= p
        /\ (kernel[loop].until - p) % Step(kernel[loop]) = 0
    <3>1. kernel[loop].until \in Nat /\ From(kernel, loop) \in Nat
          /\ Covers(kernel[loop], From(kernel, loop))
      BY <1>1, <2>1, EndsWithin
    <3>2. From(kernel, loop) <= p /\ (kernel[loop].until - p) % Step(kernel[loop]) = 0
      BY <1>1, <2>1 DEF KernelInv
    <3>3. Step(kernel[loop]) \in {1, 4, 16, 64}
      BY <3>1 DEF Covers
    <3>4. QED
      BY <3>1, <3>2, <3>3
  <2>3. /\ p' = p + Step(kernel[loop])
        /\ added' = [c \in Coordinate |-> IF p <= c /\ c < p' THEN added[c] + 1 ELSE added[c]]
        /\ dim' = dim /\ kernel' = kernel /\ loop' = loop
    BY <1>2 DEF Turn, Here, Step
  <2>4. p' \in Nat /\ p' > p /\ p' <= kernel[loop].until
        /\ (kernel[loop].until - p') % Step(kernel[loop]) = 0
    BY <2>1, <2>2, <2>3, OneStep
  <2>5. added' = [c \in Coordinate |-> IF c < p' THEN 1 ELSE 0]
    <3>1. \A c \in Coordinate : c \in Int /\ added[c] = IF c < p THEN 1 ELSE 0
      BY DEF KernelInv, Coordinate
    <3>2. QED
      BY <2>1, <2>3, <2>4, <3>1
  <2>6. Coordinate' = Coordinate
    BY <2>3 DEF Coordinate
  <2>7. From(kernel, loop) <= p'
    BY <2>1, <2>2, <2>4
  <2>8. QED
    BY <1>1, <2>1, <2>3, <2>4, <2>5, <2>6, <2>7 DEF KernelInv
<1>3. CASE NextLoop
  <2>1. loop \in 1 .. Len(kernel) /\ p \in Nat /\ p = kernel[loop].until
    <3>1. loop \in 1 .. Len(kernel) /\ p \in Nat
      BY <1>1, <1>3 DEF NextLoop, KernelInv
    <3>2. kernel[loop].until \in Nat /\ p <= kernel[loop].until /\ p >= kernel[loop].until
      BY <1>1, <1>3, <3>1, EndsWithin DEF NextLoop, Here, KernelInv
    <3>3. QED
      BY <3>1, <3>2
  <2>2. loop' = loop + 1 /\ dim' = dim /\ kernel' = kernel /\ p' = p /\ added' = added
    BY <1>3 DEF NextLoop
  <2>3. CASE loop = Len(kernel)
    <3>1. p = dim
      BY <1>1, <2>1, <2>3, EndsWithin
    <3>2. QED
      BY <1>1, <2>1, <2>2, <2>3, <3>1 DEF KernelInv, Coordinate
  <2>4. CASE loop < Len(kernel)
    <3>1. Covers(kernel[loop + 1], p) /\ From(kernel, loop + 1) = p
      <4>1. Covers(kernel[loop + 1], kernel[loop].until)
        BY <1>1, <2>1, <2>4, EndsWithin
      <4>2. From(kernel, loop + 1) = kernel[loop].until
        BY <1>1, <2>1, <2>4 DEF From
      <4>3. QED
        BY <2>1, <4>1, <4>2
    <3>2. QED
      BY <1>1, <2>1, <2>2, <2>4, <3>1 DEF KernelInv, Coordinate, Covers
  <2>5. QED
    BY <1>1, <2>1, <2>3, <2>4
<1>4. CASE UNCHANGED vars
  BY <1>4 DEF vars, KernelInv, Coordinate
<1>5. QED
  BY <1>2, <1>3, <1>4 DEF Next

LEMMA KernelAlways == Spec => []KernelInv
BY KernelInit, KernelStep, PTL DEF Spec

(* Behind the current loop's end the pointer cannot be past the dimension. *)
LEMMA PointerWithin == KernelInv => p <= dim
<1> SUFFICES ASSUME KernelInv PROVE p <= dim
  OBVIOUS
<1>1. dim \in Nat /\ Chain(kernel, dim) /\ Len(kernel) \in Nat /\ p \in Nat
  <2>1. dim \in Nat /\ Chain(kernel, dim) /\ p \in Nat
    BY KernelAssumption DEF KernelInv
  <2>2. Len(kernel) \in Nat
    BY <2>1 DEF Chain
  <2>3. QED
    BY <2>1, <2>2
<1>2. CASE loop \in 1 .. Len(kernel)
  <2>1. kernel[loop].until \in Nat /\ kernel[loop].until <= dim
    BY <1>1, <1>2, EndsWithin
  <2>2. p <= kernel[loop].until
    BY <1>2 DEF KernelInv
  <2>3. QED
    BY <1>1, <2>1, <2>2
<1>3. CASE loop = Len(kernel) + 1
  BY <1>1, <1>3 DEF KernelInv
<1>4. QED
  BY <1>1, <1>2, <1>3 DEF KernelInv

-----------------------------------------------------------------------------
(* For every set of dimensions, builds and processors, the pointer, the    *)
(* loop and the counts of a distance function stay in range.               *)
THEOREM KernelTypeCorrect == Spec => []TypeOK
<1>1. KernelInv => TypeOK
  BY DEF KernelInv, TypeOK, Coordinate
<1>2. QED
  BY <1>1, KernelAlways, PTL

(* For every dimension, build and processor, no distance function of       *)
(* space_l2.h or space_ip.h loads a coordinate past the end of a vector.   *)
THEOREM KernelsReadInside == Spec => []ReadsInside
<1>1. KernelInv => ReadsInside
  BY PointerWithin DEF ReadsInside
<1>2. QED
  BY <1>1, KernelAlways, PTL

(* For every dimension, build and processor, a distance function that is   *)
(* done has added up every coordinate exactly once: the unrolled loops and *)
(* their tails leave nothing out and take nothing twice.                   *)
THEOREM KernelsAddEachOnce == Spec => []EachCoordinateOnce
<1>1. KernelInv => EachCoordinateOnce
  <2> SUFFICES ASSUME KernelInv, Done, NEW c \in Coordinate PROVE added[c] = 1
    BY DEF EachCoordinateOnce
  <2>1. Len(kernel) \in Nat /\ loop \in 1 .. Len(kernel) + 1 /\ loop > Len(kernel)
    BY DEF KernelInv, Chain, Done
  <2>2. p = dim /\ dim \in Nat
    BY <2>1, KernelAssumption DEF KernelInv
  <2>3. c < p
    BY <2>2 DEF Coordinate
  <2>4. QED
    BY <2>3 DEF KernelInv
<1>2. QED
  BY <1>1, KernelAlways, PTL

-----------------------------------------------------------------------------
(* Each part of Boundary behaves as its own specification says.            *)

LEMMA PartsBehave == BoundarySpec => File!Spec /\ Memory!Spec /\ Batch!Spec
<1>1. BoundaryInit => File!Init /\ Memory!Init /\ Batch!Init
  BY DEF BoundaryInit
<1>2. [BoundaryNext]_<<part, vars, file_, memory_, batch_>> =>
        [File!Next]_File!vars /\ [Memory!Next]_Memory!vars /\ [Batch!Next]_Batch!vars
  BY DEF BoundaryNext, file_, memory_, batch_, File!vars, Memory!vars, Batch!vars
<1> QED
  BY <1>1, <1>2, PTL DEF BoundarySpec, File!Spec, Memory!Spec, Batch!Spec

-----------------------------------------------------------------------------
(* The memory behind a handle, for any number of goroutines and failures   *)
(* and any sizes: counting owners.                                         *)

LEMMA MemoryCounts ==
  \A S : Memory!Cardinality(S) = Cardinality(S) /\ (Memory!IsFiniteSet(S) <=> IsFiniteSet(S))
BY DEF Memory!Cardinality, Cardinality, Memory!IsFiniteSet, IsFiniteSet

HeldIn(h, k) == Cardinality({g \in Goroutine : k \in h[g]})

Written(h, g, blocks) == [h EXCEPT ![g] = blocks]

Calls == {Memory!Idle, Memory!Result, {"error"}, {}}

One(b) == IF b THEN 1 ELSE 0

LEMMA HeldChanges ==
  ASSUME Memory!MemoryAssumption, NEW h \in [Goroutine -> Calls], NEW g \in Goroutine,
         NEW blocks, NEW k
  PROVE  /\ HeldIn(h, k) \in Nat
         /\ HeldIn(Written(h, g, blocks), k) =
              HeldIn(h, k) - One(k \in h[g]) + One(k \in blocks)
<1> DEFINE before == {f \in Goroutine : k \in h[f]}
           after  == {f \in Goroutine : k \in Written(h, g, blocks)[f]}
           others == before \ {g}
<1>1. IsFiniteSet(Goroutine) /\ before \in SUBSET Goroutine
  BY MemoryCounts DEF Memory!MemoryAssumption
<1>2. IsFiniteSet(before)
  BY <1>1, FS_Subset
<1>3. Cardinality(before) \in Nat
  BY <1>2, FS_CardinalityType
<1>4. /\ IsFiniteSet(others)
      /\ Cardinality(others) = IF g \in before THEN Cardinality(before) - 1
                               ELSE Cardinality(before)
  BY <1>2, FS_RemoveElement
<1>5. g \in before <=> k \in h[g]
  OBVIOUS
<1>6. after = IF k \in blocks THEN others \union {g} ELSE others
  BY DEF Written
<1>7. Cardinality(others \union {g}) = Cardinality(others) + 1
  BY <1>4, FS_AddElement
<1>8. /\ HeldIn(h, k) = Cardinality(before)
      /\ HeldIn(Written(h, g, blocks), k) = Cardinality(after)
  BY DEF HeldIn
<1> HIDE DEF before, after, others
<1> QED
  BY <1>3, <1>4, <1>5, <1>6, <1>7, <1>8 DEF One

LEMMA ListsOfEmpty == Memory!ListsOf(<<>>) = 0
<1>1. {i \in DOMAIN <<>> : <<>>[i] = "list"} = {}
  OBVIOUS
<1> QED
  BY <1>1, FS_EmptySet, MemoryCounts DEF Memory!ListsOf

LEMMA ListsOfGrows ==
  ASSUME NEW e \in Seq(Memory!Entries), NEW entry \in Memory!Entries
  PROVE  /\ Memory!ListsOf(e) \in Nat
         /\ Append(e, entry) \in Seq(Memory!Entries)
         /\ Memory!ListsOf(Append(e, entry)) = Memory!ListsOf(e) + One(entry = "list")
<1> DEFINE before == {i \in DOMAIN e : e[i] = "list"}
           after  == {i \in DOMAIN Append(e, entry) : Append(e, entry)[i] = "list"}
           n == Len(e) + 1
<1>1. Len(e) \in Nat /\ before \in SUBSET (1 .. Len(e))
  OBVIOUS
<1>2. IsFiniteSet(1 .. Len(e))
  BY <1>1, FS_Interval
<1>3. IsFiniteSet(before)
  BY <1>1, <1>2, FS_Subset
<1>4. Cardinality(before) \in Nat
  BY <1>3, FS_CardinalityType
<1>5. n \notin before
  BY <1>1
<1>6. Cardinality(before \union {n}) = Cardinality(before) + 1
  BY <1>3, <1>5, FS_AddElement
<1>7. after = IF entry = "list" THEN before \union {n} ELSE before
  OBVIOUS
<1>8. Memory!ListsOf(e) = Cardinality(before) /\ Memory!ListsOf(Append(e, entry)) = Cardinality(after)
  BY MemoryCounts DEF Memory!ListsOf
<1> HIDE DEF before, after
<1> QED
  BY <1>4, <1>6, <1>7, <1>8 DEF One

LEMMA ListsOfNat ==
  ASSUME NEW e \in Seq(Memory!Entries)
  PROVE  Memory!ListsOf(e) \in Nat
BY ListsOfGrows DEF Memory!Entries

(* resizeIndex makes the pool, the levels, the locks, the base layer and   *)
(* the link lists, and writes max_elements_ last.                          *)
LEMMA Order ==
  /\ Memory!Array = {"pool", "levels", "locks", "base", "links"}
  /\ \A w \in Memory!Array : /\ Memory!Place(w) \in Nat /\ Memory!Place("max") \in Nat
                      /\ Memory!Place(w) < Memory!Place("max")
<1>1. Memory!Array = {"pool", "levels", "locks", "base", "links"}
  BY DEF Memory!Array, Memory!Parts
<1>2. \A i \in 1 .. 6 : Memory!Place(Memory!Parts[i]) = i
  <2> SUFFICES ASSUME NEW i \in 1 .. 6 PROVE Memory!Place(Memory!Parts[i]) = i
    OBVIOUS
  <2>1. DOMAIN Memory!Parts = 1 .. 6
    BY DEF Memory!Parts
  <2>2. \A j \in 1 .. 6 : Memory!Parts[j] = Memory!Parts[i] => j = i
    BY DEF Memory!Parts
  <2>3. Memory!Place(Memory!Parts[i]) \in DOMAIN Memory!Parts /\ Memory!Parts[Memory!Place(Memory!Parts[i])] = Memory!Parts[i]
    BY <2>1 DEF Memory!Place
  <2> QED
    BY <2>1, <2>2, <2>3
<1>3. Memory!Parts[6] = "max"
  BY DEF Memory!Parts
<1>4. ASSUME NEW w \in Memory!Array
      PROVE  Memory!Place(w) \in 1 .. 5 /\ Memory!Place("max") = 6
  <2>1. PICK i \in 1 .. 5 : w = Memory!Parts[i]
    BY DEF Memory!Array
  <2> QED
    BY <1>2, <1>3, <2>1
<1> QED
  BY <1>1, <1>4

-----------------------------------------------------------------------------
(* The inductive invariant.                                                *)

Types ==
  /\ heap \in [Memory!Kinds -> Nat]
  /\ open \in BOOLEAN /\ dangling \in BOOLEAN
  /\ room \in [Memory!Array \union {"max"} -> Sizes \union {0}]
  /\ lists \in Seq(Memory!Entries)
  /\ holds \in [Goroutine -> Calls]
  /\ failed \in 0 .. MaxFailures
  /\ lost \in [Memory!Kinds -> Nat]

(* What the index owns.                                                    *)
Share(k) ==
  IF ~open THEN 0
  ELSE IF k = "list" THEN Memory!ListsOf(lists)
  ELSE One(k \in Memory!Fixed /\ ~(k = "base" /\ dangling))

Balanced ==
  \A k \in Memory!Kinds : heap[k] = Share(k) + HeldIn(holds, k) + lost[k]

(* What constructors that threw have lost: a list only beside linkLists_,  *)
(* linkLists_ only beside a base layer.                                    *)
Largest(n) == n \in Sizes /\ \A m \in Sizes : m <= n

LostKept ==
  /\ \A k \in Memory!Kinds \ {"base", "links", "list"} : lost[k] = 0
  /\ lost["links"] <= lost["base"] /\ lost["base"] <= failed
  /\ \A n \in Sizes : Largest(n) => lost["list"] <= lost["links"] * n

(* An index whose calls did not fail in a bad place has all its memory.    *)
Whole ==
  /\ ~dangling
  /\ \A i \in DOMAIN lists : lists[i] # "null"
  /\ Len(lists) <= room["max"]
  /\ \A a \in Memory!Array : room[a] >= room["max"]
  /\ wrong = {}

Kept == Types /\ Balanced /\ LostKept /\ (slips = {} => Whole)

LEMMA HeldNat ==
  ASSUME Memory!MemoryAssumption, NEW h \in [Goroutine -> Calls], NEW k
  PROVE  HeldIn(h, k) \in Nat
<1>1. CASE Goroutine = {}
  <2>1. {g \in Goroutine : k \in h[g]} = {}
    BY <1>1
  <2> QED
    BY <2>1, FS_EmptySet DEF HeldIn
<1>2. CASE Goroutine # {}
  BY <1>2, HeldChanges
<1> QED
  BY <1>1, <1>2

LEMMA Numbers ==
  ASSUME Memory!MemoryAssumption, Types, NEW k \in Memory!Kinds
  PROVE  Share(k) \in Nat /\ HeldIn(holds, k) \in Nat /\ lost[k] \in Nat /\ heap[k] \in Nat
<1>1. Memory!ListsOf(lists) \in Nat
  BY ListsOfNat DEF Types
<1>2. HeldIn(holds, k) \in Nat
  BY HeldNat DEF Types
<1> QED
  BY <1>1, <1>2 DEF Share, One, Types, Memory!MemoryAssumption

LEMMA NumbersNext ==
  ASSUME Memory!MemoryAssumption, Types', NEW k \in Memory!Kinds
  PROVE  Share(k)' \in Nat /\ HeldIn(holds, k)' \in Nat /\ lost[k]' \in Nat /\ heap[k]' \in Nat
<1>1. Memory!ListsOf(lists') \in Nat
  BY ListsOfNat DEF Types
<1>2. HeldIn(holds', k) \in Nat
  BY HeldNat DEF Types
<1>3. HeldIn(holds, k)' \in Nat
  BY <1>2 DEF HeldIn
<1> QED
  BY <1>1, <1>3 DEF Share, One, Types, Memory!MemoryAssumption

LEMMA OwnedIs ==
  ASSUME NEW k \in Memory!Kinds
  PROVE  Memory!Owned(k) = Share(k) + HeldIn(holds, k)
BY MemoryCounts DEF Memory!Owned, Share, HeldIn, One

(* A step that allocates and frees what its index and its calls come to    *)
(* own and give up keeps the balance.                                      *)
LEMMA Balance ==
  ASSUME Memory!MemoryAssumption, Types, Balanced, Types',
         \A k \in Memory!Kinds :
           heap[k]' - Share(k)' - HeldIn(holds, k)' - lost[k]'
             = heap[k] - Share(k) - HeldIn(holds, k) - lost[k]
  PROVE  Balanced'
<1> SUFFICES ASSUME NEW k \in Memory!Kinds
             PROVE  heap[k]' = Share(k)' + HeldIn(holds, k)' + lost[k]'
  BY DEF Balanced
<1>1. Share(k) \in Nat /\ HeldIn(holds, k) \in Nat /\ lost[k] \in Nat /\ heap[k] \in Nat
  BY Numbers
<1>2. Share(k)' \in Nat /\ HeldIn(holds, k)' \in Nat /\ lost[k]' \in Nat /\ heap[k]' \in Nat
  BY NumbersNext
<1>3. heap[k] = Share(k) + HeldIn(holds, k) + lost[k]
  BY DEF Balanced
<1> QED
  BY <1>1, <1>2, <1>3

LEMMA LostStays ==
  ASSUME LostKept, UNCHANGED <<failed, lost>>
  PROVE  LostKept'
BY DEF LostKept, Largest

LEMMA InitKept ==
  ASSUME Memory!MemoryAssumption, Memory!Init
  PROVE  Kept
<1>1. Types
  <2>1. lists \in Seq(Memory!Entries)
    BY DEF Memory!Init
  <2>2. holds \in [Goroutine -> Calls]
    BY DEF Memory!Init, Calls
  <2>3. failed \in 0 .. MaxFailures
    BY DEF Memory!Init, Memory!MemoryAssumption
  <2>4. /\ heap \in [Memory!Kinds -> Nat] /\ lost \in [Memory!Kinds -> Nat]
        /\ open \in BOOLEAN /\ dangling \in BOOLEAN
    BY DEF Memory!Init
  <2>5. room \in [Memory!Array \union {"max"} -> Sizes \union {0}]
    BY DEF Memory!Init
  <2> QED
    BY <2>1, <2>2, <2>3, <2>4, <2>5 DEF Types
<1>2. Balanced
  <2> SUFFICES ASSUME NEW k \in Memory!Kinds
               PROVE  heap[k] = Share(k) + HeldIn(holds, k) + lost[k]
    BY DEF Balanced
  <2>1. Share(k) = 0 /\ heap[k] = 0 /\ lost[k] = 0
    BY DEF Share, Memory!Init
  <2>2. {g \in Goroutine : k \in holds[g]} = {}
    BY DEF Memory!Init, Memory!Idle, Memory!Kinds, Memory!Fixed, Memory!Result
  <2>3. HeldIn(holds, k) = 0
    BY <2>2, FS_EmptySet DEF HeldIn
  <2> QED
    BY <2>1, <2>3
<1>3. Whole
  BY Order DEF Whole, Memory!Init
<1>4. LostKept
  <2>1. failed = 0 /\ \A k \in Memory!Kinds : lost[k] = 0
    BY DEF Memory!Init
  <2>2. {"base", "links", "list"} \subseteq Memory!Kinds
    BY DEF Memory!Kinds, Memory!Fixed
  <2>3. Sizes \subseteq Nat
    BY DEF Memory!MemoryAssumption
  <2> QED
    BY <2>1, <2>2, <2>3 DEF LostKept, Largest
<1> QED
  BY <1>1, <1>2, <1>3, <1>4 DEF Kept

-----------------------------------------------------------------------------
(* What a step does to the balance, part by part.                          *)

LEMMA HeapMore ==
  ASSUME NEW h \in [Memory!Kinds -> Nat], NEW K
  PROVE  /\ Memory!More(h, K) \in [Memory!Kinds -> Nat]
         /\ \A k \in Memory!Kinds : Memory!More(h, K)[k] = h[k] + One(k \in K)
BY DEF Memory!More, One

LEMMA HeapLess ==
  ASSUME NEW h \in [Memory!Kinds -> Nat], NEW K, \A k \in Memory!Kinds : k \in K => h[k] > 0
  PROVE  /\ Memory!Less(h, K) \in [Memory!Kinds -> Nat]
         /\ \A k \in Memory!Kinds : Memory!Less(h, K)[k] = h[k] - One(k \in K)
BY DEF Memory!Less, One

(* A call gives up what it holds for other blocks, and the index changes.  *)
LEMMA CallBalance ==
  ASSUME Memory!MemoryAssumption, Types, Balanced, Types', NEW g \in Goroutine, NEW blocks,
         holds' = Written(holds, g, blocks), UNCHANGED lost,
         \A k \in Memory!Kinds :
           heap[k]' = heap[k] + One(k \in blocks) - One(k \in holds[g]) + (Share(k)' - Share(k))
  PROVE  Balanced'
<1>1. ASSUME NEW k \in Memory!Kinds
      PROVE  heap[k]' - Share(k)' - HeldIn(holds, k)' - lost[k]'
               = heap[k] - Share(k) - HeldIn(holds, k) - lost[k]
  <2>1. lost[k]' = lost[k]
    OBVIOUS
  <2>2. HeldIn(holds, k)' = HeldIn(holds, k) - One(k \in holds[g]) + One(k \in blocks)
    <3>1. holds \in [Goroutine -> Calls]
      BY DEF Types
    <3>2. HeldIn(Written(holds, g, blocks), k) =
            HeldIn(holds, k) - One(k \in holds[g]) + One(k \in blocks)
      BY <3>1, HeldChanges
    <3>3. HeldIn(holds, k)' = HeldIn(Written(holds, g, blocks), k)
      BY DEF HeldIn
    <3> QED
      BY <3>2, <3>3
  <2>3. Share(k) \in Nat /\ HeldIn(holds, k) \in Nat /\ lost[k] \in Nat /\ heap[k] \in Nat
    BY Numbers
  <2>4. Share(k)' \in Nat
    BY NumbersNext
  <2>5. One(k \in holds[g]) \in Nat /\ One(k \in blocks) \in Nat
    BY DEF One
  <2>6. heap[k]' = heap[k] + One(k \in blocks) - One(k \in holds[g]) + (Share(k)' - Share(k))
    OBVIOUS
  <2> HIDE DEF One
  <2> QED
    BY <2>1, <2>2, <2>3, <2>4, <2>5, <2>6
<1> QED
  BY <1>1, Balance

(* The index changes; no call does.                                        *)
LEMMA IndexBalance ==
  ASSUME Memory!MemoryAssumption, Types, Balanced, Types', UNCHANGED <<holds, lost>>,
         \A k \in Memory!Kinds : heap[k]' - heap[k] = Share(k)' - Share(k)
  PROVE  Balanced'
<1>1. ASSUME NEW k \in Memory!Kinds
      PROVE  heap[k]' - Share(k)' - HeldIn(holds, k)' - lost[k]'
               = heap[k] - Share(k) - HeldIn(holds, k) - lost[k]
  <2>1. HeldIn(holds, k)' = HeldIn(holds, k) /\ lost[k]' = lost[k]
    BY DEF HeldIn
  <2>2. Share(k) \in Nat /\ HeldIn(holds, k) \in Nat /\ lost[k] \in Nat /\ heap[k] \in Nat
    BY Numbers
  <2>3. Share(k)' \in Nat /\ heap[k]' \in Nat
    BY NumbersNext
  <2>4. heap[k]' - heap[k] = Share(k)' - Share(k)
    BY <1>1
  <2> QED
    BY <2>1, <2>2, <2>3, <2>4
<1> QED
  BY <1>1, Balance

(* An owned block is there to be freed.                                    *)
LEMMA OwnedIsThere ==
  ASSUME Memory!MemoryAssumption, Types, Balanced, NEW k \in Memory!Kinds
  PROVE  /\ heap[k] >= Share(k)
         /\ \A g \in Goroutine : k \in holds[g] => heap[k] > 0
<1>1. Share(k) \in Nat /\ HeldIn(holds, k) \in Nat /\ heap[k] \in Nat
  BY Numbers
<1>2. ASSUME NEW g \in Goroutine, k \in holds[g] PROVE HeldIn(holds, k) > 0
  <2>1. HeldIn(Written(holds, g, {}), k) = HeldIn(holds, k) - 1
    <3>1. holds \in [Goroutine -> Calls]
      BY DEF Types
    <3> QED
      BY <1>1, <1>2, <3>1, HeldChanges DEF One
  <2>2. Written(holds, g, {}) \in [Goroutine -> Calls]
    BY DEF Written, Types, Calls
  <2>3. HeldIn(Written(holds, g, {}), k) \in Nat
    BY <2>2, HeldChanges
  <2> QED
    BY <1>1, <2>1, <2>3
<1>3. heap[k] = Share(k) + HeldIn(holds, k) + lost[k] /\ lost[k] \in Nat
  BY Numbers DEF Balanced
<1> QED
  BY <1>1, <1>2, <1>3

-----------------------------------------------------------------------------
(* The steps that leave the index as it is.                                *)

LEMMA IdleHoldsNothing == \A k \in Memory!Kinds : k \notin Memory!Idle
BY DEF Memory!Idle, Memory!Kinds, Memory!Fixed, Memory!Result

(* A call of goroutine g that allocates and frees on its own account.      *)
LEMMA OwnAccount ==
  ASSUME Memory!MemoryAssumption, Kept, NEW g \in Goroutine, NEW blocks \in Calls,
         heap' \in [Memory!Kinds -> Nat],
         \A k \in Memory!Kinds : heap'[k] = heap[k] + One(k \in blocks) - One(k \in holds[g]),
         holds' = [holds EXCEPT ![g] = blocks],
         UNCHANGED <<open, room, dangling, lists, failed, lost, slips>>,
         Whole => wrong' = {}
  PROVE  Kept'
<1>1. Types'
  BY DEF Kept, Types
<1>2. Balanced'
  <2>1. holds' = Written(holds, g, blocks) /\ UNCHANGED lost
    BY DEF Written
  <2>2. ASSUME NEW k \in Memory!Kinds
        PROVE  heap[k]' = heap[k] + One(k \in blocks) - One(k \in holds[g]) + (Share(k)' - Share(k))
    <3>1. Share(k)' = Share(k) /\ Share(k) \in Nat /\ heap[k] \in Nat
      BY Numbers DEF Kept, Share
    <3>2. One(k \in blocks) \in Nat /\ One(k \in holds[g]) \in Nat
      BY DEF One
    <3>3. heap[k]' = heap[k] + One(k \in blocks) - One(k \in holds[g])
      OBVIOUS
    <3> HIDE DEF One
    <3> QED
      BY <3>1, <3>2, <3>3
  <2> QED
    BY <1>1, <2>1, <2>2, CallBalance DEF Kept
<1>3. slips' = {} => Whole'
  BY DEF Kept, Whole
<1> QED
  BY <1>1, <1>2, <1>3, LostStays DEF Kept

LEMMA WholeSearches ==
  ASSUME Types, Whole
  PROVE  ~(lists # <<>> /\ \A i \in DOMAIN lists : lists[i] = "null")
<1> SUFFICES ASSUME lists # <<>> PROVE 1 \in DOMAIN lists
  BY DEF Whole
<1> QED
  BY DEF Types

LEMMA SearchKept ==
  ASSUME Memory!MemoryAssumption, Kept, NEW g \in Goroutine, Memory!Search(g)
  PROVE  Kept'
<1>1. /\ holds[g] = Memory!Idle
      /\ heap' = Memory!More(heap, Memory!Result)
      /\ holds' = [holds EXCEPT ![g] = Memory!Result]
      /\ UNCHANGED <<open, room, dangling, lists, failed, lost, slips>>
      /\ wrong' = IF lists # <<>> /\ \A i \in DOMAIN lists : lists[i] = "null" THEN {"base"} ELSE {}
  BY DEF Memory!Search
<1>2. heap \in [Memory!Kinds -> Nat]
  BY DEF Kept, Types
<1>3. heap' \in [Memory!Kinds -> Nat] /\ \A k \in Memory!Kinds : heap'[k] = heap[k] + One(k \in Memory!Result)
  BY <1>1, <1>2, HeapMore
<1>4. ASSUME NEW k \in Memory!Kinds
      PROVE  heap'[k] = heap[k] + One(k \in Memory!Result) - One(k \in holds[g])
  BY <1>1, <1>2, <1>3, IdleHoldsNothing DEF One
<1>5. Whole => wrong' = {}
  BY <1>1, WholeSearches DEF Kept
<1>6. Memory!Result \in Calls
  BY DEF Calls
<1> QED
  BY <1>1, <1>3, <1>4, <1>5, <1>6, OwnAccount

LEMMA SearchFailsKept ==
  ASSUME Memory!MemoryAssumption, Kept, NEW g \in Goroutine, Memory!SearchFails(g)
  PROVE  Kept'
<1>1. PICK got \in {{}, {"result"}, {"result", "labels"}, Memory!Result}, msg \in Memory!Errors :
        /\ heap' = Memory!More(Memory!Less(Memory!More(heap, got), got), msg)
        /\ holds' = [holds EXCEPT ![g] = msg]
  BY DEF Memory!SearchFails
<1>2. /\ holds[g] = Memory!Idle
      /\ UNCHANGED <<open, room, dangling, lists, failed, lost, slips, wrong>>
  BY DEF Memory!SearchFails
<1>3. heap \in [Memory!Kinds -> Nat]
  BY DEF Kept, Types
<1> DEFINE more == Memory!More(heap, got)
           less == Memory!Less(more, got)
<1>4. more \in [Memory!Kinds -> Nat] /\ \A k \in Memory!Kinds : more[k] = heap[k] + One(k \in got)
  BY <1>3, HeapMore
<1> HIDE DEF more
<1>5. \A k \in Memory!Kinds : k \in got => more[k] > 0
  BY <1>3, <1>4 DEF One
<1>6. less \in [Memory!Kinds -> Nat] /\ \A k \in Memory!Kinds : less[k] = more[k] - One(k \in got)
  BY <1>4, <1>5, HeapLess
<1>7. heap' = Memory!More(less, msg)
  BY <1>1 DEF more
<1> HIDE DEF less
<1>8. heap' \in [Memory!Kinds -> Nat] /\ \A k \in Memory!Kinds : heap'[k] = less[k] + One(k \in msg)
  BY <1>6, <1>7, HeapMore
<1>9. ASSUME NEW k \in Memory!Kinds
      PROVE  heap'[k] = heap[k] + One(k \in msg) - One(k \in holds[g])
  <2>1. One(k \in holds[g]) = 0
    BY <1>2, IdleHoldsNothing DEF One
  <2>2. One(k \in msg) \in Nat /\ One(k \in got) \in Nat
    BY DEF One
  <2> HIDE DEF One
  <2> QED
    BY <1>3, <1>4, <1>6, <1>8, <2>1, <2>2
<1>10. msg \in Calls
  BY DEF Memory!Errors, Calls
<1>11. Whole => wrong' = {}
  BY <1>2 DEF Whole
<1> QED
  BY <1>1, <1>2, <1>8, <1>9, <1>10, <1>11, OwnAccount

LEMMA RefusedKept ==
  ASSUME Memory!MemoryAssumption, Kept, NEW g \in Goroutine, Memory!Refused(g)
  PROVE  Kept'
<1>1. PICK msg \in Memory!Errors : heap' = Memory!More(heap, msg) /\ holds' = [holds EXCEPT ![g] = msg]
  BY DEF Memory!Refused
<1>2. /\ holds[g] = Memory!Idle
      /\ UNCHANGED <<open, room, dangling, lists, failed, lost, slips, wrong>>
  BY DEF Memory!Refused, Memory!Alone
<1>3. heap \in [Memory!Kinds -> Nat]
  BY DEF Kept, Types
<1>4. heap' \in [Memory!Kinds -> Nat] /\ \A k \in Memory!Kinds : heap'[k] = heap[k] + One(k \in msg)
  BY <1>1, <1>3, HeapMore
<1>5. ASSUME NEW k \in Memory!Kinds
      PROVE  heap'[k] = heap[k] + One(k \in msg) - One(k \in holds[g])
  BY <1>2, <1>3, <1>4, IdleHoldsNothing DEF One
<1>6. msg \in Calls
  BY DEF Memory!Errors, Calls
<1>7. Whole => wrong' = {}
  BY <1>2 DEF Whole
<1> QED
  BY <1>1, <1>2, <1>4, <1>5, <1>6, <1>7, OwnAccount

LEMMA ReturnKept ==
  ASSUME Memory!MemoryAssumption, Kept, NEW g \in Goroutine, Memory!Return(g)
  PROVE  Kept'
<1>1. /\ heap' = Memory!Less(heap, holds[g])
      /\ holds' = [holds EXCEPT ![g] = Memory!Idle]
      /\ UNCHANGED <<open, room, dangling, lists, failed, lost, slips, wrong>>
  BY DEF Memory!Return
<1>2. heap \in [Memory!Kinds -> Nat]
  BY DEF Kept, Types
<1>3. \A k \in Memory!Kinds : k \in holds[g] => heap[k] > 0
  BY OwnedIsThere DEF Kept
<1>4. heap' \in [Memory!Kinds -> Nat] /\ \A k \in Memory!Kinds : heap'[k] = heap[k] - One(k \in holds[g])
  BY <1>1, <1>2, <1>3, HeapLess
<1>5. ASSUME NEW k \in Memory!Kinds
      PROVE  heap'[k] = heap[k] + One(k \in Memory!Idle) - One(k \in holds[g])
  BY <1>2, <1>4, IdleHoldsNothing DEF One
<1>6. Memory!Idle \in Calls
  BY DEF Calls
<1>7. Whole => wrong' = {}
  BY <1>1 DEF Whole
<1> QED
  BY <1>1, <1>4, <1>5, <1>6, <1>7, OwnAccount

(* Save and updatePoint read; what they would read is there.               *)
LEMMA ReadKept ==
  ASSUME Kept, UNCHANGED <<heap, open, room, dangling, lists, holds, failed, lost, slips>>,
         Whole => wrong' = {}
  PROVE  Kept'
<1>1. Types'
  BY DEF Kept, Types
<1>2. \A k \in Memory!Kinds : Share(k)' = Share(k) /\ HeldIn(holds, k)' = HeldIn(holds, k)
  BY DEF Share, HeldIn
<1>3. Balanced'
  BY <1>2 DEF Kept, Balanced
<1>4. slips' = {} => Whole'
  BY DEF Kept, Whole
<1> QED
  BY <1>1, <1>3, <1>4, LostStays DEF Kept

LEMMA UpdateKept ==
  ASSUME Kept, NEW g \in Goroutine, Memory!Update(g) \/ Memory!Save(g)
  PROVE  Kept'
<1>1. UNCHANGED <<heap, open, room, dangling, lists, holds, failed, lost, slips>>
  BY DEF Memory!Update, Memory!Save
<1>2. Whole => wrong' = {}
  BY DEF Memory!Update, Memory!Save, Whole
<1> QED
  BY <1>1, <1>2, ReadKept

-----------------------------------------------------------------------------
(* The steps that change the index.                                        *)

(* A failed constructor loses a base layer and a linkLists_ at most, and   *)
(* of a load as many lists as the new index has room for.                  *)
LEMMA ConstructFailsKept ==
  ASSUME Memory!MemoryAssumption, Kept, NEW g \in Goroutine, NEW n \in Sizes, Memory!ConstructFails(g, n)
  PROVE  Kept'
<1>1. PICK left \in Memory!Stages, made \in 0 .. n, msg \in Memory!Errors :
        /\ made > 0 => "links" \in left
        /\ lost' = Memory!WithLists(Memory!More(lost, left), made)
        /\ heap' = Memory!WithLists(Memory!More(heap, left \union msg), made)
        /\ holds' = [holds EXCEPT ![g] = msg]
  BY DEF Memory!ConstructFails
<1>2. /\ holds[g] = Memory!Idle
      /\ failed < MaxFailures /\ failed' = failed + 1
      /\ UNCHANGED <<open, room, dangling, lists, slips, wrong>>
  BY DEF Memory!ConstructFails, Memory!Alone
<1>3. /\ heap \in [Memory!Kinds -> Nat] /\ holds \in [Goroutine -> Calls]
      /\ lost \in [Memory!Kinds -> Nat] /\ failed \in Nat
  BY DEF Kept, Types
<1>4. n \in Nat /\ made \in Nat /\ made <= n
  BY DEF Memory!MemoryAssumption
<1>5. msg \in Calls
  BY DEF Memory!Errors, Calls
<1>6. left \in {{}, {"base"}, {"base", "links"}} /\ msg \in {{}, {"error"}}
  BY DEF Memory!Stages, Memory!Errors
<1> DEFINE More(k) == IF k = "list" THEN made ELSE 0
<1>7. ASSUME NEW h \in [Memory!Kinds -> Nat], NEW K, "list" \notin K
      PROVE  /\ Memory!WithLists(Memory!More(h, K), made) \in [Memory!Kinds -> Nat]
             /\ \A k \in Memory!Kinds :
                  Memory!WithLists(Memory!More(h, K), made)[k] = h[k] + One(k \in K) + More(k)
  <2> DEFINE more == Memory!More(h, K)
  <2>1. more \in [Memory!Kinds -> Nat] /\ \A k \in Memory!Kinds : more[k] = h[k] + One(k \in K)
    BY HeapMore
  <2> HIDE DEF more
  <2>2. Memory!WithLists(more, made) = [more EXCEPT !["list"] = @ + made]
    BY DEF Memory!WithLists
  <2>3. "list" \in Memory!Kinds
    BY DEF Memory!Kinds
  <2>4. Memory!WithLists(more, made) \in [Memory!Kinds -> Nat]
    BY <1>4, <2>1, <2>2, <2>3
  <2>5. ASSUME NEW k \in Memory!Kinds
        PROVE  Memory!WithLists(more, made)[k] = h[k] + One(k \in K) + More(k)
    <3>1. Memory!WithLists(more, made)[k] = IF k = "list" THEN more[k] + made ELSE more[k]
      BY <2>1, <2>2
    <3>2. One(k \in K) \in Nat
      BY DEF One
    <3> QED
      BY <1>4, <2>1, <3>1, <3>2
  <2> QED
    BY <2>4, <2>5 DEF more
<1>8. /\ heap' \in [Memory!Kinds -> Nat]
      /\ \A k \in Memory!Kinds : heap'[k] = heap[k] + One(k \in left \union msg) + More(k)
  BY <1>1, <1>3, <1>6, <1>7
<1>9. /\ lost' \in [Memory!Kinds -> Nat]
      /\ \A k \in Memory!Kinds : lost'[k] = lost[k] + One(k \in left) + More(k)
  BY <1>1, <1>3, <1>6, <1>7
<1> HIDE DEF More
<1>10. Types'
  <2>1. failed' \in 0 .. MaxFailures
    BY <1>2 DEF Kept, Types, Memory!MemoryAssumption
  <2> QED
    BY <1>1, <1>2, <1>5, <1>8, <1>9, <2>1 DEF Kept, Types
<1>11. ASSUME NEW k \in Memory!Kinds
       PROVE  heap[k]' - Share(k)' - HeldIn(holds, k)' - lost[k]'
                = heap[k] - Share(k) - HeldIn(holds, k) - lost[k]
  <2>1. Share(k)' = Share(k)
    BY <1>2 DEF Share
  <2>2. HeldIn(holds, k)' = HeldIn(holds, k) + One(k \in msg)
    <3>1. HeldIn(Written(holds, g, msg), k) =
            HeldIn(holds, k) - One(k \in holds[g]) + One(k \in msg)
      BY <1>3, HeldChanges
    <3>2. HeldIn(holds, k)' = HeldIn(Written(holds, g, msg), k)
      BY <1>1 DEF HeldIn, Written
    <3>3. One(k \in holds[g]) = 0
      BY <1>2, IdleHoldsNothing DEF One
    <3>4. HeldIn(holds, k) \in Nat /\ One(k \in msg) \in Nat
      BY Numbers DEF Kept, One
    <3> QED
      BY <3>1, <3>2, <3>3, <3>4
  <2>3. Share(k) \in Nat /\ HeldIn(holds, k) \in Nat /\ lost[k] \in Nat /\ heap[k] \in Nat
    BY Numbers DEF Kept
  <2>4. /\ One(k \in left \union msg) = One(k \in left) + One(k \in msg)
        /\ One(k \in left) \in {0, 1} /\ One(k \in msg) \in {0, 1}
    BY <1>6 DEF One
  <2>5. More(k) \in Nat
    BY <1>4 DEF More
  <2>6. /\ heap[k]' = heap[k] + One(k \in left \union msg) + More(k)
        /\ lost[k]' = lost[k] + One(k \in left) + More(k)
    BY <1>8, <1>9
  <2> QED
    BY <2>1, <2>2, <2>3, <2>4, <2>5, <2>6
<1>12. Balanced'
  BY <1>10, <1>11, Balance DEF Kept
<1>13. LostKept'
  <2>1. {"base", "links", "list"} \subseteq Memory!Kinds
    BY DEF Memory!Kinds, Memory!Fixed
  <2>2. /\ lost["base"] \in Nat /\ lost["links"] \in Nat /\ lost["list"] \in Nat
        /\ lost["links"] <= lost["base"] /\ lost["base"] <= failed
    BY <1>3, <2>1 DEF Kept, LostKept
  <2>3. /\ lost'["base"] = lost["base"] + One("base" \in left)
        /\ lost'["links"] = lost["links"] + One("links" \in left)
        /\ lost'["list"] = lost["list"] + made
    <3>1. "list" \notin left
      BY <1>6
    <3> QED
      BY <1>3, <1>4, <1>9, <2>1, <3>1 DEF One, More
  <2>4. One("links" \in left) <= One("base" \in left) /\ One("base" \in left) \in {0, 1}
        /\ One("links" \in left) \in {0, 1}
    BY <1>6 DEF One
  <2>5. \A k \in Memory!Kinds \ {"base", "links", "list"} : lost'[k] = 0
    <3> SUFFICES ASSUME NEW k \in Memory!Kinds \ {"base", "links", "list"} PROVE lost'[k] = 0
      OBVIOUS
    <3>1. lost[k] = 0 /\ k \notin left
      BY <1>6 DEF Kept, LostKept
    <3> QED
      BY <1>9, <3>1 DEF One, More
  <2>6. lost'["links"] <= lost'["base"] /\ lost'["base"] <= failed'
    BY <1>2, <1>3, <2>2, <2>3, <2>4
  <2>7. ASSUME NEW m \in Sizes, Largest(m)
        PROVE  lost'["list"] <= lost'["links"] * m
    <3>1. m \in Nat /\ made <= m
      BY <1>4, <2>7 DEF Largest, Memory!MemoryAssumption
    <3>2. lost["list"] <= lost["links"] * m
      BY <2>7 DEF Kept, LostKept
    <3>3. CASE made = 0
      <4>1. lost["links"] * m <= (lost["links"] + One("links" \in left)) * m
        <5>1. CASE One("links" \in left) = 0
          BY <2>2, <3>1, <5>1
        <5>2. CASE One("links" \in left) = 1
          <6>1. (lost["links"] + 1) * m = lost["links"] * m + m /\ lost["links"] * m \in Nat
            BY <2>2, <3>1
          <6> QED
            BY <3>1, <5>2, <6>1
        <5> QED
          BY <2>4, <5>1, <5>2
      <4>2. lost["links"] * m \in Nat /\ (lost["links"] + One("links" \in left)) * m \in Nat
        BY <2>2, <2>4, <3>1
      <4>3. lost'["list"] = lost["list"]
        BY <2>2, <2>3, <3>3
      <4>4. lost'["links"] * m = (lost["links"] + One("links" \in left)) * m
        BY <2>3
      <4> QED
        BY <2>2, <3>2, <4>1, <4>2, <4>3, <4>4
    <3>4. CASE made # 0
      <4>1. "links" \in left
        BY <1>1, <1>4, <3>4
      <4>2. lost'["links"] = lost["links"] + 1
        BY <2>3, <4>1 DEF One
      <4>3. (lost["links"] + 1) * m = lost["links"] * m + m /\ lost["links"] * m \in Nat
        BY <2>2, <3>1
      <4> QED
        BY <1>4, <2>2, <2>3, <3>1, <3>2, <4>2, <4>3
    <3> QED
      BY <3>3, <3>4
  <2> QED
    BY <2>5, <2>6, <2>7 DEF LostKept, Largest
<1>14. slips' = {} => Whole'
  BY <1>2 DEF Kept, Whole
<1> QED
  BY <1>10, <1>12, <1>13, <1>14 DEF Kept

LEMMA ConstructKept ==
  ASSUME Memory!MemoryAssumption, Kept, NEW g \in Goroutine, NEW n \in Sizes, Memory!Construct(g, n)
  PROVE  Kept'
<1>1. PICK e \in UNION {[1 .. m -> {"none", "list"}] : m \in 0 .. n} :
        /\ open' = TRUE /\ dangling' = FALSE /\ slips' = {}
        /\ room' = [w \in DOMAIN room |-> n]
        /\ lists' = e
        /\ heap' = [Memory!More(heap, Memory!Fixed) EXCEPT !["list"] = @ + Memory!ListsOf(e)]
  BY DEF Memory!Construct
<1>2. wrong = {} /\ ~open /\ UNCHANGED <<holds, failed, lost, wrong>>
  BY DEF Memory!Construct, Memory!Running
<1>3. n \in Nat
  BY DEF Memory!MemoryAssumption
<1>4. PICK m \in 0 .. n : e \in [1 .. m -> {"none", "list"}]
  OBVIOUS
<1>5. m \in Nat /\ m <= n
  BY <1>3
<1>6. /\ e \in Seq(Memory!Entries) /\ Len(e) <= n /\ DOMAIN e = 1 .. m
      /\ \A i \in DOMAIN e : e[i] # "null"
  BY <1>3, <1>4, <1>5 DEF Memory!Entries
<1>7. Memory!ListsOf(e) \in Nat
  BY <1>6, ListsOfNat
<1>8. heap \in [Memory!Kinds -> Nat]
  BY DEF Kept, Types
<1>9. /\ Memory!More(heap, Memory!Fixed) \in [Memory!Kinds -> Nat]
      /\ \A k \in Memory!Kinds : Memory!More(heap, Memory!Fixed)[k] = heap[k] + One(k \in Memory!Fixed)
  BY <1>8, HeapMore
<1>10. "list" \in Memory!Kinds /\ "list" \notin Memory!Fixed
  BY DEF Memory!Kinds, Memory!Fixed
<1>11. /\ heap' \in [Memory!Kinds -> Nat]
       /\ \A k \in Memory!Kinds : heap'[k] = heap[k] + (IF k = "list" THEN Memory!ListsOf(e) ELSE One(k \in Memory!Fixed))
  <2> DEFINE more == Memory!More(heap, Memory!Fixed)
  <2>1. heap' = [more EXCEPT !["list"] = @ + Memory!ListsOf(e)]
    BY <1>1
  <2>2. more["list"] = heap["list"]
    BY <1>8, <1>9, <1>10 DEF One
  <2> HIDE DEF more
  <2> QED
    BY <1>7, <1>8, <1>9, <1>10, <2>1, <2>2 DEF more
<1>12. room' \in [Memory!Array \union {"max"} -> Sizes \union {0}]
  BY <1>1 DEF Kept, Types
<1>13. Types'
  BY <1>1, <1>2, <1>6, <1>11, <1>12 DEF Kept, Types
<1>14. ASSUME NEW k \in Memory!Kinds
       PROVE  heap[k]' - heap[k] = Share(k)' - Share(k)
  <2>1. Share(k) = 0 /\ Share(k)' = IF k = "list" THEN Memory!ListsOf(e) ELSE One(k \in Memory!Fixed)
    BY <1>1, <1>2 DEF Share, One
  <2>2. One(k \in Memory!Fixed) \in Nat /\ heap[k] \in Nat
    BY <1>8 DEF One
  <2> QED
    BY <1>7, <1>11, <2>1, <2>2
<1>15. Balanced'
  BY <1>2, <1>13, <1>14, IndexBalance DEF Kept
<1>16. Whole'
  <2>1. \A w \in Memory!Array \union {"max"} : room'[w] = n
    BY <1>1 DEF Kept, Types
  <2> QED
    BY <1>1, <1>2, <1>3, <1>6, <2>1 DEF Whole
<1> QED
  BY <1>2, <1>13, <1>15, <1>16, LostStays DEF Kept

LEMMA RoomNat ==
  ASSUME Memory!MemoryAssumption, Types
  PROVE  \A q \in Memory!Array \union {"max"} : room[q] \in Nat
<1>1. Sizes \union {0} \subseteq Nat
  BY DEF Memory!MemoryAssumption
<1>2. room \in [Memory!Array \union {"max"} -> Sizes \union {0}]
  BY DEF Types
<1> QED
  BY <1>1, <1>2

(* The element is counted before its list is there: when the list cannot   *)
(* be had, the call slips, and only then.                                  *)
LEMMA AddKept ==
  ASSUME Memory!MemoryAssumption, Kept, NEW g \in Goroutine, Memory!Add(g)
  PROVE  Kept'
<1>1. PICK entry \in {"none", "list", "null"} :
        /\ lists' = Append(lists, entry)
        /\ \/ entry = "none" /\ UNCHANGED <<heap, holds>>
           \/ entry = "list" /\ heap' = Memory!More(heap, {"list"}) /\ UNCHANGED holds
           \/ entry = "null" /\ \E msg \in Memory!Errors : Memory!Report(g, heap, msg)
        /\ slips' = slips \union IF entry = "null" THEN {"list"} ELSE {}
  BY DEF Memory!Add, Memory!AddAt
<1>2. /\ holds[g] = Memory!Idle /\ open
      /\ Len(lists) < room["max"]
      /\ wrong' = {a \in Memory!Array : Len(lists) >= room[a]} \union IF dangling THEN {"base"} ELSE {}
      /\ UNCHANGED <<open, room, dangling, failed, lost>>
  BY DEF Memory!Add, Memory!AddAt, Memory!Alone
<1>3. heap \in [Memory!Kinds -> Nat] /\ holds \in [Goroutine -> Calls] /\ lists \in Seq(Memory!Entries)
  BY DEF Kept, Types
<1>4. entry \in Memory!Entries
  BY DEF Memory!Entries
<1>5. /\ Memory!ListsOf(lists) \in Nat
      /\ lists' \in Seq(Memory!Entries)
      /\ Memory!ListsOf(lists') = Memory!ListsOf(lists) + One(entry = "list")
  BY <1>1, <1>3, <1>4, ListsOfGrows
<1>6. PICK blocks \in Calls :
         /\ holds' = Written(holds, g, blocks)
         /\ heap' \in [Memory!Kinds -> Nat]
         /\ \A k \in Memory!Kinds :
              heap'[k] = heap[k] + One(k \in blocks) + One(k = "list" /\ entry = "list")
  <2>1. CASE entry # "null"
    <3>1. holds' = Written(holds, g, Memory!Idle) /\ Memory!Idle \in Calls
      BY <1>1, <1>2, <1>3, <2>1 DEF Written, Calls
    <3>2. /\ heap' \in [Memory!Kinds -> Nat]
          /\ \A k \in Memory!Kinds : heap'[k] = heap[k] + One(k = "list" /\ entry = "list")
      <4>1. CASE entry = "list"
        <5>1. heap' = Memory!More(heap, {"list"})
          BY <1>1, <4>1
        <5> QED
          BY <1>3, <4>1, <5>1, HeapMore DEF One
      <4>2. CASE entry = "none"
        BY <1>1, <1>3, <4>2 DEF One
      <4> QED
        BY <1>1, <2>1, <4>1, <4>2
    <3>3. \A k \in Memory!Kinds : One(k \in Memory!Idle) = 0
      BY IdleHoldsNothing DEF One
    <3>4. \A k \in Memory!Kinds :
            heap'[k] = heap[k] + One(k \in Memory!Idle) + One(k = "list" /\ entry = "list")
      BY <1>3, <3>2, <3>3
    <3> QED
      BY <3>1, <3>2, <3>4
  <2>2. CASE entry = "null"
    <3>1. PICK msg \in Memory!Errors : Memory!Report(g, heap, msg)
      BY <1>1, <2>2
    <3>2. msg \in Calls
      BY DEF Memory!Errors, Calls
    <3>3. holds' = Written(holds, g, msg) /\ heap' = Memory!More(heap, msg)
      BY <3>1 DEF Memory!Report, Written
    <3>4. heap' \in [Memory!Kinds -> Nat] /\ \A k \in Memory!Kinds : heap'[k] = heap[k] + One(k \in msg)
      BY <1>3, <3>3, HeapMore
    <3>5. \A k \in Memory!Kinds :
            heap'[k] = heap[k] + One(k \in msg) + One(k = "list" /\ entry = "list")
      BY <1>3, <2>2, <3>4 DEF One
    <3> QED
      BY <3>2, <3>3, <3>4, <3>5
  <2> QED
    BY <2>1, <2>2
<1>7. holds' \in [Goroutine -> Calls]
  BY <1>3, <1>6 DEF Written
<1>8. Types'
  BY <1>2, <1>5, <1>6, <1>7 DEF Kept, Types
<1>9. ASSUME NEW k \in Memory!Kinds
      PROVE  heap[k]' = heap[k] + One(k \in blocks) - One(k \in holds[g]) + (Share(k)' - Share(k))
  <2>1. Share(k)' - Share(k) = One(k = "list" /\ entry = "list")
    <3>1. CASE k = "list"
      <4>1. Share(k) = Memory!ListsOf(lists) /\ Share(k)' = Memory!ListsOf(lists')
        BY <1>2, <3>1 DEF Share
      <4>2. One(entry = "list") \in Nat
        BY DEF One
      <4> QED
        BY <1>5, <3>1, <4>1, <4>2 DEF One
    <3>2. CASE k # "list"
      <4>1. Share(k) \in Nat
        BY Numbers DEF Kept
      <4>2. Share(k)' = Share(k)
        BY <1>2, <3>2 DEF Share
      <4> QED
        BY <3>2, <4>1, <4>2 DEF One
    <3> QED
      BY <3>1, <3>2
  <2>2. One(k \in holds[g]) = 0
    BY <1>2, IdleHoldsNothing DEF One
  <2>3. One(k \in blocks) \in Nat /\ One(k = "list" /\ entry = "list") \in Nat /\ heap[k] \in Nat
    BY <1>3 DEF One
  <2>4. heap[k]' = heap[k] + One(k \in blocks) + One(k = "list" /\ entry = "list")
    BY <1>6
  <2> HIDE DEF One
  <2> QED
    BY <2>1, <2>2, <2>3, <2>4
<1>10. Balanced'
  BY <1>2, <1>6, <1>8, <1>9, CallBalance DEF Kept
<1>11. ASSUME slips' = {} PROVE Whole'
  <2>1. slips = {} /\ entry # "null"
    BY <1>1, <1>11
  <2>2. Whole
    BY <2>1 DEF Kept
  <2>3. Len(lists') <= room["max"]
    <3>1. Len(lists') = Len(lists) + 1 /\ Len(lists) \in Nat
      BY <1>1, <1>3
    <3>2. room["max"] \in Nat
      BY RoomNat DEF Kept
    <3> QED
      BY <1>2, <3>1, <3>2
  <2>4. \A i \in DOMAIN lists' : lists'[i] # "null"
    BY <1>1, <1>3, <2>1, <2>2 DEF Whole
  <2>5. wrong' = {}
    <3>1. \A a \in Memory!Array : room[a] \in Nat /\ room["max"] \in Nat /\ Len(lists) \in Nat
      BY <1>3, RoomNat DEF Kept
    <3> QED
      BY <1>2, <2>2, <3>1 DEF Whole
  <2> QED
    BY <1>2, <2>2, <2>3, <2>4, <2>5 DEF Whole
<1> QED
  BY <1>2, <1>8, <1>10, <1>11, LostStays DEF Kept

LEMMA ResizeKept ==
  ASSUME Memory!MemoryAssumption, Kept, NEW g \in Goroutine, NEW n \in Sizes, Memory!ResizeIndex(g, n)
  PROVE  Kept'
<1>1. /\ n >= Len(lists)
      /\ room' = [w \in DOMAIN room |-> n]
      /\ wrong' = IF dangling THEN {"base"} ELSE {}
      /\ UNCHANGED <<heap, open, dangling, lists, holds, failed, lost, slips>>
  BY DEF Memory!ResizeIndex
<1>2. n \in Nat /\ Len(lists) \in Nat
  BY DEF Memory!MemoryAssumption, Kept, Types
<1>3. /\ room' \in [Memory!Array \union {"max"} -> Sizes \union {0}]
      /\ \A w \in Memory!Array \union {"max"} : room'[w] = n
  BY <1>1 DEF Kept, Types
<1>4. Types'
  BY <1>1, <1>3 DEF Kept, Types
<1>5. \A k \in Memory!Kinds : Share(k)' = Share(k) /\ HeldIn(holds, k)' = HeldIn(holds, k)
  BY <1>1 DEF Share, HeldIn
<1>6. Balanced'
  BY <1>1, <1>5 DEF Kept, Balanced
<1>7. slips' = {} => Whole'
  BY <1>1, <1>2, <1>3 DEF Kept, Whole
<1> QED
  BY <1>1, <1>4, <1>6, <1>7, LostStays DEF Kept

(* A resize that fails while it grows leaves arrays that are longer than   *)
(* max_elements_ says, never shorter ones.                                 *)
LEMMA ResizeFailsKept ==
  ASSUME Memory!MemoryAssumption, Kept, NEW g \in Goroutine, NEW n \in Sizes, Memory!ResizeFails(g, n)
  PROVE  Kept'
<1>1. PICK w \in Memory!Array, msg \in Memory!Errors :
        /\ Memory!MayFail(w, n)
        /\ room' = [q \in DOMAIN room |-> IF Memory!Place(q) < Memory!Place(w) THEN n ELSE room[q]]
        /\ dangling' = (dangling \/ (w = "base" /\ n = 0))
        /\ slips' = slips \union
             IF w = "base" /\ n = 0 THEN {"zero"} ELSE IF n <= room[w] THEN {"shrink"} ELSE {}
        /\ heap' = IF dangling' /\ ~dangling THEN Memory!Less(Memory!More(heap, msg), {"base"}) ELSE Memory!More(heap, msg)
        /\ wrong' = IF dangling /\ Memory!Place(w) >= Memory!Place("base") THEN {"base"} ELSE {}
        /\ holds' = [holds EXCEPT ![g] = msg]
  BY DEF Memory!ResizeFails
<1>2. holds[g] = Memory!Idle /\ open /\ UNCHANGED <<open, lists, failed, lost>>
  BY DEF Memory!ResizeFails, Memory!Alone
<1>3. /\ heap \in [Memory!Kinds -> Nat] /\ holds \in [Goroutine -> Calls]
      /\ dangling \in BOOLEAN /\ room \in [Memory!Array \union {"max"} -> Sizes \union {0}]
  BY DEF Kept, Types
<1>4. msg \in Calls
  BY DEF Memory!Errors, Calls
<1> DEFINE freed == dangling' /\ ~dangling
           more == Memory!More(heap, msg)
<1>5. more \in [Memory!Kinds -> Nat] /\ \A k \in Memory!Kinds : more[k] = heap[k] + One(k \in msg)
  BY <1>3, HeapMore
<1>6. "base" \in Memory!Kinds /\ "base" \in Memory!Fixed /\ "base" # "list"
  BY DEF Memory!Kinds, Memory!Fixed
<1>7. ASSUME freed PROVE heap["base"] > 0
  <2>1. Share("base") = 1
    BY <1>2, <1>6, <1>7 DEF Share, One
  <2>2. heap["base"] >= Share("base") /\ heap["base"] \in Nat
    BY <1>3, <1>6, OwnedIsThere DEF Kept
  <2> QED
    BY <2>1, <2>2
<1>8. /\ heap' \in [Memory!Kinds -> Nat]
      /\ \A k \in Memory!Kinds : heap'[k] = heap[k] + One(k \in msg) - One(k = "base" /\ freed)
  <2>1. CASE freed
    <3>1. heap' = Memory!Less(more, {"base"})
      BY <1>1, <2>1
    <3> HIDE DEF more
    <3>2. \A k \in Memory!Kinds : k \in {"base"} => more[k] > 0
      BY <1>3, <1>5, <1>7, <2>1 DEF One
    <3>3. heap' \in [Memory!Kinds -> Nat] /\ \A k \in Memory!Kinds : heap'[k] = more[k] - One(k \in {"base"})
      BY <1>5, <3>1, <3>2, HeapLess
    <3>4. ASSUME NEW k \in Memory!Kinds
          PROVE  heap'[k] = heap[k] + One(k \in msg) - One(k = "base" /\ freed)
      <4>1. One(k \in {"base"}) = One(k = "base" /\ freed)
        BY <2>1 DEF One
      <4>2. One(k \in {"base"}) \in Nat /\ One(k \in msg) \in Nat /\ heap[k] \in Nat
        BY <1>3 DEF One
      <4> QED
        BY <1>5, <3>3, <4>1, <4>2
    <3> QED
      BY <3>3, <3>4
  <2>2. CASE ~freed
    <3>1. heap' = more
      BY <1>1, <2>2
    <3> HIDE DEF more
    <3>2. \A k \in Memory!Kinds : One(k = "base" /\ freed) = 0 /\ One(k \in msg) \in Nat
      BY <2>2 DEF One
    <3> QED
      BY <1>3, <1>5, <3>1, <3>2
  <2> QED
    BY <2>1, <2>2
<1>9. /\ room' \in [Memory!Array \union {"max"} -> Sizes \union {0}]
      /\ \A q \in Memory!Array \union {"max"} :
           room'[q] = IF Memory!Place(q) < Memory!Place(w) THEN n ELSE room[q]
  BY <1>1, <1>3
<1>10. Types'
  <2>1. dangling' \in BOOLEAN
    BY <1>1
  <2> QED
    BY <1>1, <1>2, <1>4, <1>8, <1>9, <2>1 DEF Kept, Types
<1>11. ASSUME NEW k \in Memory!Kinds
       PROVE  heap[k]' = heap[k] + One(k \in msg) - One(k \in holds[g]) + (Share(k)' - Share(k))
  <2>1. Share(k)' - Share(k) = 0 - One(k = "base" /\ freed)
    <3>1. CASE k = "base"
      <4>1. Share(k) = One(~dangling) /\ Share(k)' = One(~dangling')
        BY <1>2, <1>6, <3>1 DEF Share, One
      <4>2. dangling => dangling'
        BY <1>1
      <4> QED
        BY <3>1, <4>1, <4>2 DEF One
    <3>2. CASE k # "base"
      <4>1. Share(k) \in Nat
        BY Numbers DEF Kept
      <4>2. Share(k)' = Share(k)
        BY <1>2, <3>2 DEF Share, One
      <4> QED
        BY <3>2, <4>1, <4>2 DEF One
    <3> QED
      BY <3>1, <3>2
  <2>2. One(k \in holds[g]) = 0
    BY <1>2, IdleHoldsNothing DEF One
  <2>3. One(k \in msg) \in Nat /\ One(k = "base" /\ freed) \in Nat /\ heap[k] \in Nat
    BY <1>3 DEF One
  <2>4. heap[k]' = heap[k] + One(k \in msg) - One(k = "base" /\ freed)
    BY <1>8
  <2> HIDE DEF freed
  <2> QED
    BY <2>1, <2>2, <2>3, <2>4
<1>12. Balanced'
  <2>1. holds' = Written(holds, g, msg) /\ UNCHANGED lost
    BY <1>1, <1>2 DEF Written
  <2> QED
    BY <1>10, <1>11, <2>1, CallBalance DEF Kept
<1>13. ASSUME slips' = {} PROVE Whole'
  <2>1. slips = {} /\ ~(w = "base" /\ n = 0) /\ ~(n <= room[w])
    BY <1>1, <1>13
  <2>2. Whole
    BY <2>1 DEF Kept
  <2>3. ~dangling' /\ wrong' = {}
    BY <1>1, <2>1, <2>2 DEF Whole
  <2>4. n \in Nat /\ \A q \in Memory!Array \union {"max"} : room[q] \in Nat
    BY RoomNat DEF Kept, Memory!MemoryAssumption
  <2>5. n >= room["max"]
    BY <2>1, <2>2, <2>4 DEF Whole
  <2>6. room'["max"] = room["max"]
    <3>1. Memory!Place(w) < Memory!Place("max")
      BY Order
    <3>2. Memory!Place(w) \in Nat /\ Memory!Place("max") \in Nat
      BY Order
    <3> QED
      BY <1>9, <3>1, <3>2
  <2>7. \A a \in Memory!Array : room'[a] >= room'["max"]
    BY <1>9, <2>2, <2>4, <2>5, <2>6 DEF Whole
  <2> QED
    BY <1>2, <2>2, <2>3, <2>6, <2>7 DEF Whole
<1> QED
  BY <1>2, <1>10, <1>12, <1>13, LostStays DEF Kept

(* Free gives back what the index owns and nothing else.                   *)
LEMMA FreeKept ==
  ASSUME Memory!MemoryAssumption, Kept, NEW g \in Goroutine, Memory!Free(g)
  PROVE  Kept'
<1> DEFINE freed == IF dangling THEN Memory!Fixed \ {"base"} ELSE Memory!Fixed
           less == Memory!Less(heap, freed)
           n == Memory!ListsOf(lists)
<1>1. /\ open /\ open' = FALSE
      /\ heap' = [less EXCEPT !["list"] = @ - n]
      /\ wrong' = IF dangling THEN {"base"} ELSE {}
      /\ lists' = <<>> /\ dangling' = FALSE
      /\ room' = [w \in DOMAIN room |-> 0]
      /\ UNCHANGED <<holds, failed, lost, slips>>
  BY DEF Memory!Free
<1>2. heap \in [Memory!Kinds -> Nat] /\ n \in Nat
  BY ListsOfNat DEF Kept, Types
<1>3. "list" \in Memory!Kinds /\ "list" \notin Memory!Fixed /\ "list" # "base"
  BY DEF Memory!Kinds, Memory!Fixed
<1>4. \A k \in Memory!Kinds : Share(k) = IF k = "list" THEN n ELSE One(k \in freed)
  BY <1>1 DEF Share, One
<1>5. \A k \in Memory!Kinds : k \in freed => heap[k] > 0
  <2> SUFFICES ASSUME NEW k \in Memory!Kinds, k \in freed PROVE heap[k] > 0
    OBVIOUS
  <2>1. Share(k) = 1
    BY <1>3, <1>4 DEF One
  <2>2. heap[k] >= Share(k) /\ heap[k] \in Nat
    BY <1>2, OwnedIsThere DEF Kept
  <2> QED
    BY <2>1, <2>2
<1>6. "list" \notin freed
  BY <1>3
<1> HIDE DEF freed
<1>7. less \in [Memory!Kinds -> Nat] /\ \A k \in Memory!Kinds : less[k] = heap[k] - One(k \in freed)
  BY <1>2, <1>5, HeapLess
<1> HIDE DEF less, n
<1>8. less["list"] = heap["list"] /\ heap["list"] >= n
  <2>1. heap["list"] >= Share("list")
    BY <1>3, OwnedIsThere DEF Kept
  <2> QED
    BY <1>2, <1>3, <1>4, <1>6, <1>7, <2>1 DEF One
<1>9. /\ heap' \in [Memory!Kinds -> Nat]
      /\ \A k \in Memory!Kinds : heap'[k] = heap[k] - (IF k = "list" THEN n ELSE One(k \in freed))
  BY <1>1, <1>2, <1>3, <1>7, <1>8
<1>10. /\ room' \in [Memory!Array \union {"max"} -> Sizes \union {0}]
       /\ \A w \in Memory!Array \union {"max"} : room'[w] = 0
  BY <1>1 DEF Kept, Types
<1>11. lists' \in Seq(Memory!Entries)
  BY <1>1
<1>12. Types'
  BY <1>1, <1>9, <1>10, <1>11 DEF Kept, Types
<1>13. \A k \in Memory!Kinds : heap[k]' - heap[k] = Share(k)' - Share(k)
  <2> SUFFICES ASSUME NEW k \in Memory!Kinds PROVE heap[k]' - heap[k] = Share(k)' - Share(k)
    OBVIOUS
  <2>1. Share(k)' = 0
    BY <1>1 DEF Share
  <2>2. Share(k) \in Nat /\ heap[k] \in Nat
    BY Numbers DEF Kept
  <2>3. heap[k]' = heap[k] - Share(k)
    BY <1>4, <1>9
  <2> QED
    BY <2>1, <2>2, <2>3
<1>14. Balanced'
  BY <1>1, <1>12, <1>13, IndexBalance DEF Kept
<1>15. slips' = {} => Whole'
  BY <1>1, <1>10 DEF Kept, Whole
<1> QED
  BY <1>1, <1>12, <1>14, <1>15, LostStays DEF Kept

LEMMA NextKept ==
  ASSUME Memory!MemoryAssumption, Kept, [Memory!Next]_Memory!vars
  PROVE  Kept'
<1>1. CASE UNCHANGED Memory!vars
  <2>1. UNCHANGED <<heap, open, room, dangling, lists, holds, failed, lost, slips, wrong>>
    BY <1>1 DEF Memory!vars
  <2> QED
    BY <2>1, ReadKept DEF Whole
<1>2. ASSUME NEW g \in Goroutine, NEW n \in Sizes,
             \/ Memory!Construct(g, n) \/ Memory!ConstructFails(g, n)
             \/ Memory!ResizeIndex(g, n) \/ Memory!ResizeFails(g, n)
      PROVE  Kept'
  BY <1>2, ConstructKept, ConstructFailsKept, ResizeKept, ResizeFailsKept
<1>3. ASSUME NEW g \in Goroutine,
             \/ Memory!Add(g) \/ Memory!Update(g) \/ Memory!Save(g) \/ Memory!Search(g)
             \/ Memory!SearchFails(g) \/ Memory!Refused(g) \/ Memory!Return(g) \/ Memory!Free(g)
      PROVE  Kept'
  BY <1>3, AddKept, UpdateKept, SearchKept, SearchFailsKept, RefusedKept, ReturnKept, FreeKept
<1> QED
  BY <1>1, <1>2, <1>3 DEF Memory!Next

(* The inductive invariant of a handle's memory, for any number of         *)
(* goroutines and whichever allocations fail (hnsw_wrapper.cc, newIndex,   *)
(* loadIndex, searchKnn, freeHNSW; hnswalg.h, addPoint, resizeIndex,       *)
(* clear).                                                                 *)
THEOREM MemoryInvariant ==
  ASSUME Memory!MemoryAssumption
  PROVE  Memory!Spec => []Kept
<1>1. Memory!Init => Kept
  BY InitKept
<1>2. Kept /\ [Memory!Next]_Memory!vars => Kept'
  BY NextKept
<1> QED
  BY <1>1, <1>2, PTL DEF Memory!Spec

(* The types of the heap and its owners hold; no block is freed more often *)
(* than it was allocated.                                                  *)
THEOREM MemoryTypeCorrect ==
  ASSUME Memory!MemoryAssumption
  PROVE  Memory!Spec => []Memory!TypeOK
<1>1. Kept => Memory!TypeOK
  BY DEF Kept, Types, Memory!TypeOK, Calls
<1> QED
  BY <1>1, MemoryInvariant, PTL

(* Whichever allocations fail, every block has an owner that will free it: *)
(* the index, or a call that is still to return.  What is lost is what     *)
(* failed constructors leave: a base layer and a linkLists_ each at most,  *)
(* and of a load every list it had made, as many as there is room for      *)
(* elements (hnsw_wrapper.cc, newIndex, loadIndex, searchKnn, freeHNSW;    *)
(* hnswalg.h, loadIndex).                                                  *)
THEOREM NothingLeaksHolds == BoundarySpec => []NothingLeaks
<1>1. Kept => NothingLeaks
  <2> SUFFICES ASSUME Kept PROVE NothingLeaks
    OBVIOUS
  <2>1. ASSUME NEW k \in Memory!Kinds
        PROVE  heap[k] = Memory!Owned(k) + lost[k]
    BY OwnedIs DEF Kept, Balanced
  <2>2. /\ \A k \in Memory!Kinds \ {"base", "links", "list"} : lost[k] = 0
        /\ lost["links"] <= lost["base"] /\ lost["base"] <= failed
        /\ \A n \in Sizes : (\A m \in Sizes : m <= n) => lost["list"] <= lost["links"] * n
    BY DEF Kept, LostKept, Largest
  <2> QED
    BY <2>1, <2>2 DEF NothingLeaks, Memory!NothingLeaks
<1>2. Memory!Spec => []Kept
  BY MemoryInvariant, PartsAssumption
<1> QED
  BY <1>1, <1>2, PartsBehave, PTL

(* Unless a list allocation, a shrinking resize or a resize to 0 failed on *)
(* the index, no call touches memory that is not there, and each array has *)
(* room for max_elements_ elements, also after a growing resize that ended *)
(* half way (hnswalg.h, resizeIndex, addPoint, saveIndex).                 *)
THEOREM NoMemoryErrorsHolds == BoundarySpec => []NoMemoryErrors
<1>1. Kept => Memory!NoMemoryErrors
  BY DEF Kept, Whole, Memory!NoMemoryErrors
<1>2. Memory!Spec => []Kept /\ []Memory!TypeOK
  BY MemoryInvariant, MemoryTypeCorrect, PartsAssumption
<1>3. Memory!NoMemoryErrors /\ Memory!TypeOK => NoMemoryErrors
  BY DEF NoMemoryErrors
<1> QED
  BY <1>1, <1>2, <1>3, PartsBehave, PTL

-----------------------------------------------------------------------------
(* Recursion over a length.                                                *)

(* What holds at 0, and at n when it holds at n - 1, holds up to N.        *)
LEMMA UpTo ==
  ASSUME NEW N \in Nat, NEW S, 0 \in S, \A n \in 1 .. N : n - 1 \in S => n \in S
  PROVE  0 .. N \subseteq S
<1> DEFINE bad == (0 .. N) \ S
           R == OpToRel(<, Nat)
<1> SUFFICES ASSUME bad # {} PROVE FALSE
  OBVIOUS
<1>1. IsWellFoundedOn(R, Nat)
  BY NatLessThanWellFounded
<1>2. \A x, y \in Nat : <<y, x>> \in R <=> y < x
  BY DEF OpToRel
<1>3. bad \subseteq Nat
  OBVIOUS
<1>4. \E x \in bad : \A y \in bad : ~(<<y, x>> \in R)
  <2> HIDE DEF bad, R
  <2> QED
    BY <1>1, <1>3, WFMin
<1>5. PICK x \in bad : \A y \in bad : ~(<<y, x>> \in R)
  BY <1>4
<1>6. x \in 1 .. N /\ x - 1 \in Nat /\ x \in Nat
  OBVIOUS
<1>7. x - 1 \in bad
  BY <1>6
<1>8. ~(x - 1 < x)
  <2> HIDE DEF R
  <2> QED
    BY <1>2, <1>5, <1>6, <1>7
<1> QED
  BY <1>6, <1>8

Steps(step, N, V) == \A n \in 1 .. N, v \in V : step[n][v] \in V

(* There is a function that begins with a value and goes on by a step.     *)
LEMMA Recursion ==
  ASSUME NEW N \in Nat, NEW V, NEW start \in V, NEW step, Steps(step, N, V)
  PROVE  \E f \in [0 .. N -> V] :
           f[0] = start /\ \A n \in 1 .. N : f[n] = step[n][f[n - 1]]
<1> DEFINE Good(k, f) == /\ f[0] = start
                         /\ \A n \in 1 .. k : f[n] = step[n][f[n - 1]]
           S == {k \in 0 .. N : \E f \in [0 .. k -> V] : Good(k, f)}
<1>1. 0 \in S
  <2>1. [n \in 0 .. 0 |-> start] \in [0 .. 0 -> V] /\ Good(0, [n \in 0 .. 0 |-> start])
    OBVIOUS
  <2> HIDE DEF Good
  <2> QED
    BY <2>1
<1>2. ASSUME NEW k \in 1 .. N, k - 1 \in S PROVE k \in S
  <2>1. PICK f \in [0 .. k - 1 -> V] : Good(k - 1, f)
    BY <1>2
  <2> DEFINE g == [n \in 0 .. k |-> IF n = k THEN step[k][f[k - 1]] ELSE f[n]]
  <2>2. f[k - 1] \in V /\ k \in 1 .. N
    OBVIOUS
  <2>3. step[k][f[k - 1]] \in V
    BY <2>2 DEF Steps
  <2>4. g \in [0 .. k -> V]
    BY <2>3
  <2>5. g[0] = start
    BY <2>1
  <2>6. ASSUME NEW n \in 1 .. k PROVE g[n] = step[n][g[n - 1]]
    <3>1. n - 1 \in 0 .. k - 1 /\ g[n - 1] = f[n - 1]
      OBVIOUS
    <3>2. CASE n = k
      <4>1. g[k] = step[k][f[k - 1]] /\ g[k - 1] = f[k - 1]
        BY <3>1, <3>2
      <4> HIDE DEF g
      <4> QED
        BY <3>2, <4>1
    <3>3. CASE n # k
      BY <2>1, <3>1, <3>3
    <3> QED
      BY <3>2, <3>3
  <2>7. Good(k, g)
    BY <2>5, <2>6
  <2> HIDE DEF Good, g
  <2> QED
    BY <2>4, <2>7
<1>3. N \in S
  <2> HIDE DEF S
  <2> QED
    BY <1>1, <1>2, UpTo
<1> QED
  BY <1>3

-----------------------------------------------------------------------------
(* The layout of a file.                                                   *)

Levels == UNION {[1 .. n -> 0 .. MaxLevel] : n \in 0 .. MaxElements}

LEMMA Sizes5 ==
  /\ MaxElements \in Nat \ {0} /\ MaxLevel \in Nat
  /\ File!Header = 5 /\ File!Entry = 2 /\ File!Field = 2 /\ \A l : File!ListsOf(l) = l
  /\ File!MaxAt = 0 /\ File!CountAt = 2
BY PartsAssumption DEF File!PersistenceAssumption, File!Header, File!Entry, File!Field,
   File!ListsOf, File!MaxAt, File!CountAt

LEMMA LevelsFacts ==
  ASSUME NEW lv \in Levels
  PROVE  /\ Len(lv) \in 0 .. MaxElements /\ Len(lv) \in Nat /\ DOMAIN lv = 1 .. Len(lv)
         /\ lv \in Seq(0 .. MaxLevel)
         /\ \A i \in 1 .. Len(lv) : lv[i] \in 0 .. MaxLevel /\ lv[i] \in Nat
<1>1. PICK n \in 0 .. MaxElements : lv \in [1 .. n -> 0 .. MaxLevel]
  BY DEF Levels
<1>2. n \in Nat
  BY Sizes5
<1>3. lv \in Seq(0 .. MaxLevel) /\ Len(lv) = n
  <2> DEFINE T == 0 .. MaxLevel
  <2>1. lv \in [1 .. n -> T]
    BY <1>1
  <2> HIDE DEF T
  <2>2. lv \in Seq(T) /\ Len(lv) = n
    BY <1>2, <2>1
  <2> QED
    BY <2>2 DEF T
<1> QED
  BY <1>1, <1>2, <1>3, Sizes5

(* The block of element i + 1 begins where that of element i ends.         *)
LEMMA BlockFacts ==
  ASSUME NEW lv \in Levels
  PROVE  /\ \A i \in 1 .. Len(lv) + 1 : File!BlockAt(lv, i) \in Nat
         /\ File!BlockAt(lv, 1) = 5 + 2 * Len(lv)
         /\ \A i \in 1 .. Len(lv) : File!BlockAt(lv, i + 1) = File!BlockAt(lv, i) + 2 + lv[i]
<1> DEFINE N == Len(lv)
           Is(P) == P = [j \in 1 .. N + 1 |-> IF j = 1 THEN File!Header + File!Entry * N
                                              ELSE P[j - 1] + File!Field + File!ListsOf(lv[j - 1])]
           step == [n \in 1 .. N |-> [v \in Nat |-> v + 2 + lv[n]]]
<1>1. N \in Nat /\ \A i \in 1 .. N : lv[i] \in Nat
  BY LevelsFacts
<1> HIDE DEF N
<1>2. Steps(step, N, Nat)
  BY <1>1 DEF Steps
<1>3. 5 + 2 * N \in Nat
  BY <1>1
<1>4. PICK f \in [0 .. N -> Nat] :
        f[0] = 5 + 2 * N /\ \A n \in 1 .. N : f[n] = step[n][f[n - 1]]
  <2> DEFINE start == 5 + 2 * N
             V == Nat
  <2>1. start \in V /\ Steps(step, N, V)
    BY <1>2, <1>3
  <2> HIDE DEF step, start, V
  <2>2. \E f \in [0 .. N -> V] :
          f[0] = start /\ \A n \in 1 .. N : f[n] = step[n][f[n - 1]]
    BY <1>1, <2>1, Recursion
  <2> QED
    BY <2>2 DEF start, V
<1>5. ASSUME NEW n \in 1 .. N PROVE f[n] = f[n - 1] + 2 + lv[n]
  <2>1. n - 1 \in 0 .. N /\ f[n - 1] \in Nat
    BY <1>1
  <2>2. step[n][f[n - 1]] = f[n - 1] + 2 + lv[n]
    BY <2>1
  <2> HIDE DEF step
  <2>3. f[n] = step[n][f[n - 1]]
    BY <1>1, <1>4
  <2> QED
    BY <2>2, <2>3
<1> DEFINE Q == [j \in 1 .. N + 1 |-> f[j - 1]]
<1>6. Is(Q)
  <2>1. ASSUME NEW j \in 1 .. N + 1
        PROVE  Q[j] = IF j = 1 THEN 5 + 2 * N ELSE Q[j - 1] + 2 + lv[j - 1]
    <3>1. CASE j = 1
      BY <1>1, <1>4, <3>1
    <3>2. CASE j # 1
      <4>1. j - 1 \in 1 .. N /\ j - 1 \in 1 .. N + 1
        BY <1>1, <3>2
      <4> QED
        BY <1>1, <1>5, <3>2, <4>1
    <3> QED
      BY <3>1, <3>2
  <2> QED
    BY <2>1, Sizes5
<1>7. Is(CHOOSE P : Is(P))
  <2> HIDE DEF Is, Q
  <2> QED
    BY <1>6
<1> DEFINE P == CHOOSE P : Is(P)
<1>8. \A i : File!BlockAt(lv, i) = P[i]
  BY DEF File!BlockAt, N
<1> HIDE DEF P
<1>9. P = [j \in 1 .. N + 1 |-> IF j = 1 THEN 5 + 2 * N ELSE P[j - 1] + 2 + lv[j - 1]]
  BY <1>7, Sizes5 DEF P
<1>10. P[1] = 5 + 2 * N
  BY <1>1, <1>9
<1>11. ASSUME NEW i \in 1 .. N PROVE P[i + 1] = P[i] + 2 + lv[i]
  <2>1. i + 1 \in 1 .. N + 1 /\ i + 1 # 1 /\ (i + 1) - 1 = i
    BY <1>1
  <2> QED
    BY <1>9, <2>1
<1> DEFINE S == {k \in 0 .. N : P[k + 1] \in Nat}
<1>12. 0 \in S
  BY <1>1, <1>10
<1>13. ASSUME NEW n \in 1 .. N, n - 1 \in S PROVE n \in S
  <2>1. (n - 1) + 1 = n /\ lv[n] \in Nat
    BY <1>1
  <2>2. P[n] \in Nat
    BY <1>13, <2>1
  <2>3. P[n + 1] \in Nat
    BY <1>11, <2>1, <2>2
  <2> QED
    BY <2>3
<1>14. 0 .. N \subseteq S
  <2> HIDE DEF S
  <2> QED
    BY <1>1, <1>12, <1>13, UpTo
<1>15. ASSUME NEW i \in 1 .. N + 1 PROVE P[i] \in Nat
  <2>1. i - 1 \in 0 .. N /\ (i - 1) + 1 = i
    BY <1>1
  <2> QED
    BY <1>14, <2>1
<1> QED
  BY <1>8, <1>10, <1>11, <1>15 DEF N

(* A later block lies behind, by the size of the fields at least.          *)
LEMMA BlocksApart ==
  ASSUME NEW lv \in Levels, NEW i \in 1 .. Len(lv) + 1, NEW j \in 1 .. Len(lv) + 1, i < j
  PROVE  File!BlockAt(lv, i) + 2 <= File!BlockAt(lv, j)
<1> DEFINE B(k) == File!BlockAt(lv, k)
           N == Len(lv) + 1 - i
           S == {k \in 0 .. N : k = 0 \/ B(i) + 2 <= B(i + k)}
<1>1. Len(lv) \in Nat /\ N \in Nat /\ \A k \in 1 .. Len(lv) : lv[k] \in Nat
  BY LevelsFacts
<1>2. /\ \A k \in 1 .. Len(lv) + 1 : B(k) \in Nat
      /\ \A k \in 1 .. Len(lv) : B(k + 1) = B(k) + 2 + lv[k]
  BY BlockFacts
<1> HIDE DEF B
<1>3. 0 \in S
  BY <1>1
<1>4. ASSUME NEW k \in 1 .. N, k - 1 \in S PROVE k \in S
  <2>1. i + k - 1 \in 1 .. Len(lv) /\ i + k = (i + k - 1) + 1 /\ i + (k - 1) = i + k - 1
    BY <1>1
  <2>2. B(i + k) = B(i + k - 1) + 2 + lv[i + k - 1]
    BY <1>2, <2>1
  <2>3. B(i + k - 1) \in Nat /\ lv[i + k - 1] \in Nat /\ B(i) \in Nat
    BY <1>1, <1>2, <2>1
  <2>4. CASE k = 1
    BY <2>2, <2>3, <2>4
  <2>5. CASE k # 1
    <3>1. B(i) + 2 <= B(i + (k - 1))
      BY <1>4, <2>5
    <3>2. B(i) + 2 <= B(i + k - 1)
      BY <3>1, <2>1
    <3> QED
      BY <2>2, <2>3, <3>2
  <2> QED
    BY <2>4, <2>5
<1>5. 0 .. N \subseteq S
  <2> HIDE DEF S, N
  <2> QED
    BY <1>1, <1>3, <1>4, UpTo
<1>6. j - i \in 0 .. N /\ j - i # 0 /\ i + (j - i) = j
  BY <1>1
<1> QED
  BY <1>5, <1>6 DEF B

LEMMA SizeFacts ==
  ASSUME NEW ix \in File!Indexes
  PROVE  /\ ix.levels \in Levels /\ ix.max \in Capacities
         /\ File!IndexFileSize(ix) = File!BlockAt(ix.levels, Len(ix.levels) + 1)
         /\ File!IndexFileSize(ix) \in Nat
         /\ File!IndexFileSize(ix) >= 5 + 2 * Len(ix.levels)
<1>1. ix.levels \in Levels /\ ix.max \in Capacities
  BY DEF File!Indexes, Levels
<1>2. Len(ix.levels) \in Nat
  BY <1>1, LevelsFacts
<1>3. Len(ix.levels) + 1 \in 1 .. Len(ix.levels) + 1 /\ 1 \in 1 .. Len(ix.levels) + 1
  BY <1>2
<1>4. File!BlockAt(ix.levels, Len(ix.levels) + 1) \in Nat
  BY <1>1, <1>3, BlockFacts
<1>5. File!BlockAt(ix.levels, 1) = 5 + 2 * Len(ix.levels)
  BY <1>1, BlockFacts
<1>6. CASE Len(ix.levels) = 0
  BY <1>1, <1>4, <1>5, <1>6 DEF File!IndexFileSize
<1>7. CASE Len(ix.levels) # 0
  <2>1. 1 < Len(ix.levels) + 1
    BY <1>2, <1>7
  <2>2. File!BlockAt(ix.levels, 1) + 2 <= File!BlockAt(ix.levels, Len(ix.levels) + 1)
    BY <1>1, <1>3, <2>1, BlocksApart
  <2>3. File!BlockAt(ix.levels, Len(ix.levels) + 1) >= 5 + 2 * Len(ix.levels)
    BY <1>2, <1>4, <1>5, <2>2
  <2> QED
    BY <1>1, <1>4, <2>3 DEF File!IndexFileSize
<1> QED
  BY <1>6, <1>7

-----------------------------------------------------------------------------
(* What holds while files are written.                                     *)

Files == [of : File!Indexes, cells : Seq(BOOLEAN)]
Saving(s) == pos[s] # File!Idle
Size == File!IndexFileSize(file.of)
Cell(i) == i <= Len(file.cells) /\ file.cells[i]

FileTypes ==
  /\ index \in File!Indexes
  /\ file = File!Missing \/ (file # File!Missing /\ file \in Files)
  /\ pos \in [Saver -> Nat \union {File!Idle}]
  /\ good \in [Saver -> BOOLEAN]
  /\ saves \in 0 .. MaxSaves

(* A stream that can still write writes the index, which cannot change     *)
(* meanwhile, into a file made for it.                                     *)
StreamsKept ==
  /\ \A s \in Saver : Saving(s) => pos[s] <= File!IndexFileSize(index)
  /\ \A s \in Saver : Saving(s) /\ good[s] => file # File!Missing /\ file.of = index
  /\ "fault" \notin mishaps => \A s \in Saver : good[s]
  /\ file # File!Missing => Len(file.cells) <= Size

(* Without faults, what is not written is still to be written by somebody. *)
Covered ==
  "fault" \notin mishaps /\ file # File!Missing =>
    \A i \in 1 .. Size : Cell(i) \/ \E s \in Saver : Saving(s) /\ pos[s] < i

(* As long as no two saves overlap, a file has no holes.                   *)
NoHoles ==
  "overlap" \notin mishaps =>
    /\ \A s, t \in Saver : Saving(s) /\ Saving(t) => s = t
    /\ file # File!Missing => \A i \in 1 .. Len(file.cells) : file.cells[i]
    /\ \A s \in Saver : Saving(s) /\ good[s] => pos[s] = Len(file.cells)

FileKept == FileTypes /\ StreamsKept /\ Covered /\ NoHoles

LEMMA NotMissing == \A f \in Files : f # File!Missing
<1> SUFFICES ASSUME NEW f \in Files, f = File!Missing PROVE FALSE
  OBVIOUS
<1>1. DOMAIN f = {"of", "cells"}
  BY DEF Files
<1>2. DOMAIN f = {"of"}
  BY DEF File!Missing
<1> QED
  BY <1>1, <1>2

LEMMA IdleIs == File!Idle = -1 /\ File!Idle \notin Nat
BY DEF File!Idle

LEMMA FileInit == File!Init => FileKept
<1> SUFFICES ASSUME File!Init PROVE FileKept
  OBVIOUS
<1>2. PICK c \in Capacities : index = [max |-> c, levels |-> <<>>]
  BY DEF File!Init
<1>3. <<>> \in [1 .. 0 -> 0 .. MaxLevel] /\ 0 \in 0 .. MaxElements
  BY Sizes5
<1>4. index \in File!Indexes
  BY <1>2, <1>3 DEF File!Indexes
<1>5. 0 \in 0 .. MaxSaves
  BY PartsAssumption DEF File!PersistenceAssumption
<1>6. FileTypes
  BY <1>4, <1>5 DEF File!Init, FileTypes
<1>7. \A s \in Saver : ~Saving(s) /\ good[s]
  BY DEF File!Init, Saving
<1> QED
  BY <1>6, <1>7 DEF File!Init, FileKept, StreamsKept, Covered, NoHoles

LEMMA ChangeKeeps == ASSUME FileKept, File!Change PROVE FileKept'
<1>1. \A s \in Saver : ~Saving(s)
  BY DEF File!Change, Saving
<1>2. UNCHANGED <<file, pos, good, saves, mishaps, loaded>>
  BY DEF File!Change
<1>3. index' \in File!Indexes
  <2>1. index \in File!Indexes /\ index.levels \in Levels
    BY SizeFacts DEF FileKept, FileTypes
  <2>2. CASE \E c \in Capacities : index' = [max |-> c, levels |-> <<>>]
    <3>1. <<>> \in [1 .. 0 -> 0 .. MaxLevel] /\ 0 \in 0 .. MaxElements
      BY Sizes5
    <3> QED
      BY <2>2, <3>1 DEF File!Indexes
  <2>3. CASE /\ Len(index.levels) < MaxElements
             /\ \E l \in 0 .. MaxLevel : index' = [index EXCEPT !.levels = Append(@, l)]
    <3>1. PICK l \in 0 .. MaxLevel : index' = [index EXCEPT !.levels = Append(@, l)]
      BY <2>3
    <3> DEFINE lv == index.levels
               n == Len(lv) + 1
               T == 0 .. MaxLevel
    <3>2. lv \in Seq(T) /\ Len(lv) \in Nat /\ l \in T
      BY <2>1, LevelsFacts
    <3>3. n \in 0 .. MaxElements
      BY <2>3, <3>2, Sizes5
    <3> HIDE DEF T
    <3>4. Append(lv, l) \in [1 .. n -> T]
      <4>1. Append(lv, l) \in Seq(T) /\ Len(Append(lv, l)) = n
        BY <3>2
      <4> HIDE DEF n
      <4> QED
        BY <4>1, LenProperties
    <3>5. Append(lv, l) \in Levels
      BY <3>3, <3>4 DEF Levels, T
    <3>6. index' = [max |-> index.max, levels |-> Append(lv, l)]
      BY <2>1, <3>1 DEF File!Indexes
    <3> QED
      BY <2>1, <3>5, <3>6 DEF File!Indexes, Levels
  <2> QED
    BY <2>2, <2>3 DEF File!Change
<1>4. FileTypes'
  BY <1>2, <1>3 DEF FileKept, FileTypes
<1>5. \A s \in Saver : ~Saving(s)' /\ Saving(s)' = Saving(s)
  BY <1>1, <1>2 DEF Saving
<1>6. StreamsKept'
  BY <1>2, <1>5 DEF FileKept, StreamsKept, Size
<1>7. Covered'
  BY <1>2 DEF FileKept, Covered, Size, Cell, Saving
<1>8. NoHoles'
  BY <1>2, <1>5 DEF FileKept, NoHoles
<1> QED
  BY <1>4, <1>6, <1>7, <1>8 DEF FileKept

LEMMA OpenKeeps ==
  ASSUME FileKept, NEW s \in Saver, File!Open(s)
  PROVE  FileKept'
<1>1. /\ pos[s] = File!Idle /\ saves < MaxSaves /\ saves' = saves + 1
      /\ pos' = [pos EXCEPT ![s] = 0] /\ UNCHANGED <<index, loaded>>
      /\ \/ file' = [of |-> index, cells |-> <<>>] /\ good' = [good EXCEPT ![s] = TRUE]
         \/ UNCHANGED file /\ good' = [good EXCEPT ![s] = FALSE]
      /\ mishaps' = (mishaps \union (IF \E t \in Saver : pos[t] # File!Idle THEN {"overlap"} ELSE {}))
                      \union (IF good'[s] THEN {} ELSE {"fault"})
  BY DEF File!Open
<1>2. FileTypes /\ StreamsKept /\ Covered /\ NoHoles
  BY DEF FileKept
<1>3. /\ pos'[s] = 0 /\ \A t \in Saver : t # s => pos'[t] = pos[t] /\ good'[t] = good[t]
      /\ Saving(s)' /\ ~Saving(s) /\ \A t \in Saver : t # s => Saving(t)' = Saving(t)
  BY <1>1, <1>2, IdleIs DEF FileTypes, Saving
<1>4. File!IndexFileSize(index) \in Nat
  BY <1>2, SizeFacts DEF FileTypes
<1>5. saves' \in 0 .. MaxSaves
  BY <1>1, <1>2, PartsAssumption DEF FileTypes, File!PersistenceAssumption
<1>6. pos' \in [Saver -> Nat \union {File!Idle}]
  BY <1>1, <1>2 DEF FileTypes
<1>7. CASE file' = [of |-> index, cells |-> <<>>] /\ good' = [good EXCEPT ![s] = TRUE]
  <2>1. file' \in Files /\ file' # File!Missing /\ file'.of = index /\ Len(file'.cells) = 0
    <3>1. <<>> \in Seq(BOOLEAN) /\ Len(<<>>) = 0
      BY EmptySeq
    <3>2. index \in File!Indexes
      BY <1>2 DEF FileTypes
    <3>3. [of |-> index, cells |-> <<>>] \in Files
      BY <3>1, <3>2 DEF Files
    <3> QED
      BY <1>7, <3>1, <3>3, NotMissing
  <2>2. good' \in [Saver -> BOOLEAN] /\ good'[s]
    BY <1>2, <1>7 DEF FileTypes
  <2>3. FileTypes'
    BY <1>1, <1>2, <1>5, <1>6, <2>1, <2>2 DEF FileTypes
  <2>4. Size' = File!IndexFileSize(index)
    BY <2>1 DEF Size
  <2>5. StreamsKept'
    <3>1. \A t \in Saver : Saving(t)' => pos'[t] <= File!IndexFileSize(index)
      BY <1>2, <1>3, <1>4 DEF StreamsKept
    <3>2. "fault" \notin mishaps' => \A t \in Saver : good'[t]
      BY <1>1, <1>2, <1>3, <2>2 DEF StreamsKept
    <3> QED
      BY <1>1, <1>4, <2>1, <2>4, <3>1, <3>2 DEF StreamsKept
  <2>6. Covered'
    <3>1. \A i \in 1 .. Size' : Saving(s)' /\ pos'[s] < i
      BY <1>3, <1>4, <2>4
    <3> QED
      BY <3>1 DEF Covered
  <2>7. NoHoles'
    <3>1. "overlap" \notin mishaps' => \A t \in Saver : ~Saving(t)
      BY <1>1 DEF Saving
    <3>2. "overlap" \notin mishaps' => \A t \in Saver : Saving(t)' => t = s
      BY <1>3, <3>1
    <3> QED
      BY <1>3, <2>1, <3>2 DEF NoHoles
  <2> QED
    BY <2>3, <2>5, <2>6, <2>7 DEF FileKept
<1>8. CASE UNCHANGED file /\ good' = [good EXCEPT ![s] = FALSE]
  <2>1. good' \in [Saver -> BOOLEAN] /\ ~good'[s] /\ "fault" \in mishaps'
    BY <1>1, <1>2, <1>8 DEF FileTypes
  <2>2. FileTypes'
    BY <1>1, <1>2, <1>5, <1>6, <1>8, <2>1 DEF FileTypes
  <2>3. StreamsKept'
    BY <1>1, <1>2, <1>3, <1>4, <1>8, <2>1 DEF StreamsKept, Size
  <2>4. Covered'
    BY <2>1 DEF Covered
  <2>5. NoHoles'
    <3>1. "overlap" \notin mishaps' => "overlap" \notin mishaps /\ \A t \in Saver : ~Saving(t)
      BY <1>1 DEF Saving
    <3>2. "overlap" \notin mishaps' => \A t \in Saver : Saving(t)' => t = s
      BY <1>3, <3>1
    <3> QED
      BY <1>2, <1>8, <2>1, <3>1, <3>2 DEF NoHoles
  <2> QED
    BY <2>2, <2>3, <2>4, <2>5 DEF FileKept
<1> QED
  BY <1>1, <1>7, <1>8

LEMMA PutFacts ==
  ASSUME NEW f \in Files, NEW from \in Nat, NEW to \in Nat
  PROVE  LET g == File!Put(f, from, to)
             n == IF to > Len(f.cells) THEN to ELSE Len(f.cells)
         IN  /\ g \in Files /\ g.of = f.of /\ Len(g.cells) = n
             /\ \A i \in 1 .. n :
                  g.cells[i] <=> i \in from + 1 .. to \/ (i <= Len(f.cells) /\ f.cells[i])
<1> DEFINE n == IF to > Len(f.cells) THEN to ELSE Len(f.cells)
           c == [i \in 1 .. n |-> i \in from + 1 .. to \/ (i <= Len(f.cells) /\ f.cells[i])]
<1>1. f.of \in File!Indexes /\ f.cells \in Seq(BOOLEAN) /\ Len(f.cells) \in Nat
      /\ f = [of |-> f.of, cells |-> f.cells]
  BY DEF Files
<1>2. n \in Nat
  BY <1>1
<1>3. File!Put(f, from, to) = [of |-> f.of, cells |-> c]
  BY <1>1 DEF File!Put
<1>4. c \in [1 .. n -> BOOLEAN]
  BY Zenon
<1>5. \A i \in 1 .. n : c[i] <=> i \in from + 1 .. to \/ (i <= Len(f.cells) /\ f.cells[i])
  BY Zenon
<1>6. c \in Seq(BOOLEAN) /\ Len(c) = n
  <2> HIDE DEF c, n
  <2> QED
    BY <1>2, <1>4
<1> HIDE DEF c
<1>7. [of |-> f.of, cells |-> c] \in Files
  BY <1>1, <1>6 DEF Files
<1> QED
  BY <1>3, <1>5, <1>6, <1>7

LEMMA WriteKeeps ==
  ASSUME FileKept, NEW s \in Saver, File!Write(s)
  PROVE  FileKept'
<1> DEFINE n == File!IndexFileSize(index)
<1>1. PICK to \in pos[s] .. n :
        /\ file' = File!Put(file, pos[s], to)
        /\ pos' = [pos EXCEPT ![s] = to]
        /\ \/ to > pos[s] /\ UNCHANGED <<good, mishaps>>
           \/ /\ Faults /\ to < n
              /\ good' = [good EXCEPT ![s] = FALSE]
              /\ mishaps' = mishaps \union {"fault"}
  BY DEF File!Write
<1>2. Saving(s) /\ good[s] /\ UNCHANGED <<index, saves, loaded>>
  BY DEF File!Write, Saving
<1>3. FileTypes /\ StreamsKept /\ Covered /\ NoHoles
  BY DEF FileKept
<1>4. /\ file # File!Missing /\ file.of = index /\ file \in Files
      /\ pos[s] \in Nat /\ n \in Nat /\ to \in Nat /\ pos[s] <= to /\ to <= n
      /\ Len(file.cells) \in Nat /\ Len(file.cells) <= n /\ Size = n
  <2>1. file # File!Missing /\ file.of = index /\ file \in Files
    BY <1>2, <1>3 DEF FileTypes, StreamsKept
  <2>2. pos[s] \in Nat /\ n \in Nat
    BY <1>2, <1>3, SizeFacts DEF FileTypes, Saving
  <2>3. Size = n /\ Len(file.cells) <= n
    BY <1>3, <2>1 DEF StreamsKept, Size
  <2>4. Len(file.cells) \in Nat
    BY <2>1 DEF Files
  <2> QED
    BY <2>1, <2>2, <2>3, <2>4
<1>5. /\ file' \in Files /\ file'.of = index
      /\ Len(file'.cells) = IF to > Len(file.cells) THEN to ELSE Len(file.cells)
      /\ \A i \in 1 .. Len(file'.cells) :
           file'.cells[i] <=> i \in pos[s] + 1 .. to \/ Cell(i)
  <2>1. LET g == File!Put(file, pos[s], to)
            m == IF to > Len(file.cells) THEN to ELSE Len(file.cells)
        IN  /\ g \in Files /\ g.of = file.of /\ Len(g.cells) = m
            /\ \A i \in 1 .. m :
                 g.cells[i] <=> i \in pos[s] + 1 .. to \/ (i <= Len(file.cells) /\ file.cells[i])
    BY <1>4, PutFacts
  <2> QED
    BY <1>1, <1>4, <2>1 DEF Cell
<1> HIDE DEF n
<1>6. /\ pos'[s] = to /\ Saving(s)'
      /\ \A t \in Saver : t # s => pos'[t] = pos[t] /\ Saving(t)' = Saving(t) /\ good'[t] = good[t]
      /\ \A t \in Saver : Saving(t)' = Saving(t)
  BY <1>1, <1>2, <1>3, <1>4, IdleIs DEF FileTypes, Saving
<1>7. FileTypes'
  <2>1. pos' \in [Saver -> Nat \union {File!Idle}] /\ good' \in [Saver -> BOOLEAN]
    BY <1>1, <1>3, <1>4 DEF FileTypes
  <2> QED
    BY <1>2, <1>3, <1>5, <2>1, NotMissing DEF FileTypes
<1>8. Size' = n /\ file' # File!Missing
  BY <1>2, <1>5, NotMissing DEF Size, n
<1>9. StreamsKept'
  <2>1. \A t \in Saver : Saving(t)' => pos'[t] <= File!IndexFileSize(index)'
    BY <1>2, <1>3, <1>4, <1>6 DEF StreamsKept, n
  <2>2. "fault" \notin mishaps' => UNCHANGED good /\ "fault" \notin mishaps
    BY <1>1
  <2>3. "fault" \notin mishaps' => \A t \in Saver : good'[t]
    BY <1>3, <2>2 DEF StreamsKept
  <2>4. Len(file'.cells) <= n
    BY <1>4, <1>5
  <2> QED
    BY <1>2, <1>5, <1>8, <2>1, <2>3, <2>4 DEF StreamsKept
<1>10. Covered'
  <2> SUFFICES ASSUME "fault" \notin mishaps', NEW i \in 1 .. n
               PROVE  Cell(i)' \/ \E t \in Saver : Saving(t)' /\ pos'[t] < i
    BY <1>8 DEF Covered
  <2>1. "fault" \notin mishaps
    BY <1>1
  <2>2. Cell(i) \/ \E t \in Saver : Saving(t) /\ pos[t] < i
    BY <1>3, <1>4, <2>1 DEF Covered
  <2>3. ASSUME Cell(i) PROVE Cell(i)'
    <3>1. i \in 1 .. Len(file'.cells)
      BY <1>4, <1>5, <2>3 DEF Cell
    <3> QED
      BY <1>5, <2>3, <3>1 DEF Cell
  <2>4. ASSUME i \in pos[s] + 1 .. to PROVE Cell(i)'
    <3>1. i \in 1 .. Len(file'.cells)
      BY <1>4, <1>5, <2>4
    <3> QED
      BY <1>5, <2>4, <3>1 DEF Cell
  <2>5. i \in Nat /\ (i > to => pos'[s] < i)
    BY <1>4, <1>6
  <2> QED
    BY <1>4, <1>6, <2>2, <2>3, <2>4, <2>5
<1>11. NoHoles'
  <2> SUFFICES ASSUME "overlap" \notin mishaps'
               PROVE  /\ \A t, u \in Saver : Saving(t)' /\ Saving(u)' => t = u
                      /\ \A i \in 1 .. Len(file'.cells) : file'.cells[i]
                      /\ \A t \in Saver : Saving(t)' /\ good'[t] => pos'[t] = Len(file'.cells)
    BY DEF NoHoles
  <2>1. /\ \A t, u \in Saver : Saving(t) /\ Saving(u) => t = u
        /\ \A i \in 1 .. Len(file.cells) : file.cells[i]
        /\ pos[s] = Len(file.cells)
    BY <1>1, <1>2, <1>3, <1>4 DEF NoHoles
  <2>2. Len(file'.cells) = to
    BY <1>4, <1>5, <2>1
  <2>3. ASSUME NEW i \in 1 .. Len(file'.cells) PROVE file'.cells[i]
    <3>1. i \in pos[s] + 1 .. to \/ i \in 1 .. Len(file.cells)
      BY <1>4, <2>1, <2>2
    <3>2. i \in 1 .. Len(file.cells) => Cell(i)
      BY <1>4, <2>1 DEF Cell
    <3> QED
      BY <1>5, <3>1, <3>2
  <2>4. \A t \in Saver : Saving(t) => t = s
    BY <1>2, <2>1
  <2> QED
    BY <1>6, <2>1, <2>2, <2>3, <2>4
<1> QED
  BY <1>7, <1>9, <1>10, <1>11 DEF FileKept

LEMMA CloseKeeps ==
  ASSUME FileKept, NEW s \in Saver, File!Close(s)
  PROVE  FileKept'
<1>1. /\ Saving(s) /\ (good[s] => pos[s] = File!IndexFileSize(index))
      /\ pos' = [pos EXCEPT ![s] = File!Idle] /\ good' = [good EXCEPT ![s] = TRUE]
      /\ UNCHANGED <<index, file, saves, mishaps, loaded>>
  BY DEF File!Close, Saving
<1>2. FileTypes /\ StreamsKept /\ Covered /\ NoHoles
  BY DEF FileKept
<1>3. /\ ~Saving(s)' /\ good'[s]
      /\ \A t \in Saver : t # s => pos'[t] = pos[t] /\ Saving(t)' = Saving(t) /\ good'[t] = good[t]
      /\ \A t \in Saver : Saving(t)' => t # s /\ Saving(t)
  BY <1>1, <1>2 DEF FileTypes, Saving
<1>4. FileTypes'
  BY <1>1, <1>2 DEF FileTypes
<1>5. StreamsKept'
  BY <1>1, <1>2, <1>3 DEF StreamsKept, Size
<1>6. Covered'
  <2> SUFFICES ASSUME "fault" \notin mishaps, file # File!Missing, NEW i \in 1 .. Size
               PROVE  Cell(i) \/ \E t \in Saver : Saving(t)' /\ pos'[t] < i
    BY <1>1 DEF Covered, Cell, Size
  <2>1. Cell(i) \/ \E t \in Saver : Saving(t) /\ pos[t] < i
    BY <1>2 DEF Covered
  <2>2. good[s] /\ pos[s] = Size
    BY <1>1, <1>2 DEF StreamsKept, Size
  <2>3. Size \in Nat /\ ~(pos[s] < i)
    <3>1. file.of \in File!Indexes
      BY <1>2 DEF FileTypes, Files
    <3>2. Size \in Nat
      BY <3>1, SizeFacts DEF Size
    <3> QED
      BY <2>2, <3>2
  <2> QED
    BY <1>3, <2>1, <2>3
<1>7. NoHoles'
  BY <1>1, <1>2, <1>3 DEF NoHoles
<1> QED
  BY <1>4, <1>5, <1>6, <1>7 DEF FileKept

LEMMA CrashKeeps == ASSUME FileKept, File!Crash PROVE FileKept'
<1>1. /\ pos' = [s \in Saver |-> File!Idle] /\ good' = [s \in Saver |-> TRUE]
      /\ index' = [index EXCEPT !.levels = <<>>]
      /\ mishaps' = mishaps \union {"fault"}
      /\ UNCHANGED <<file, saves, loaded>>
  BY DEF File!Crash
<1>2. FileTypes /\ StreamsKept /\ Covered /\ NoHoles
  BY DEF FileKept
<1>3. \A s \in Saver : ~Saving(s)' /\ good'[s]
  BY <1>1 DEF Saving
<1>4. index' \in File!Indexes
  <2>1. <<>> \in [1 .. 0 -> 0 .. MaxLevel] /\ 0 \in 0 .. MaxElements
    BY Sizes5
  <2>2. index \in File!Indexes
    BY <1>2 DEF FileTypes
  <2>3. index' = [max |-> index.max, levels |-> <<>>]
    BY <1>1, <2>2 DEF File!Indexes
  <2> QED
    BY <2>1, <2>2, <2>3 DEF File!Indexes
<1>5. FileTypes'
  BY <1>1, <1>2, <1>4 DEF FileTypes
<1>6. StreamsKept' /\ Covered'
  BY <1>1, <1>2, <1>3 DEF StreamsKept, Covered, Size
<1>7. NoHoles'
  BY <1>1, <1>2, <1>3 DEF NoHoles
<1> QED
  BY <1>5, <1>6, <1>7 DEF FileKept

LEMMA RestKeeps ==
  ASSUME FileKept, UNCHANGED <<index, file, pos, good, saves, mishaps>>
  PROVE  FileKept'
BY DEF FileKept, FileTypes, StreamsKept, Covered, NoHoles, Size, Cell, Saving

LEMMA FileAlways == File!Spec => []FileKept
<1>1. File!Init => FileKept
  BY FileInit
<1>2. FileKept /\ [File!Next]_File!vars => FileKept'
  BY ChangeKeeps, OpenKeeps, WriteKeeps, CloseKeeps, CrashKeeps, RestKeeps
     DEF File!Next, File!Load, File!vars
<1> QED
  BY <1>1, <1>2, PTL DEF File!Spec

(* However many goroutines save to one file at a time, as Save takes the   *)
(* lock shared, the file is whole when they are done, unless a write or a  *)
(* call of open failed or the process died (hnswalg.h, saveIndex).         *)
THEOREM QuietFileCompleteHolds == BoundarySpec => []QuietFileComplete
<1>1. FileKept => QuietFileComplete
  <2> SUFFICES ASSUME FileKept, "fault" \notin mishaps, file # File!Missing,
                      \A s \in Saver : pos[s] = File!Idle
               PROVE  File!Complete(file)
    BY DEF QuietFileComplete, File!QuietFileComplete
  <2>1. file \in Files /\ file.of \in File!Indexes /\ Len(file.cells) \in Nat
    BY DEF FileKept, FileTypes, Files
  <2>2. Size \in Nat /\ Len(file.cells) <= Size
    BY <2>1, SizeFacts DEF FileKept, StreamsKept, Size
  <2>3. \A i \in 1 .. Size : i <= Len(file.cells) /\ file.cells[i]
    BY DEF FileKept, Covered, Saving, Cell
  <2>4. Len(file.cells) = Size
    <3>1. CASE Size = 0
      BY <2>1, <2>2, <3>1
    <3>2. CASE Size # 0
      <4>1. Size \in 1 .. Size
        BY <2>2, <3>2
      <4> QED
        BY <2>1, <2>2, <2>3, <4>1
    <3> QED
      BY <3>1, <3>2
  <2>5. \A i \in 0 + 1 .. 0 + Len(file.cells) : file.cells[i]
    BY <2>1, <2>3, <2>4
  <2> QED
    BY <2>4, <2>5 DEF File!Complete, File!Written, Size
<1> QED
  BY <1>1, FileAlways, PartsBehave, PTL

-----------------------------------------------------------------------------
(* What a load makes of a file without holes.                              *)

Prefix(lv, n) == [i \in 1 .. n |-> lv[i]]
BlockAfter(lv, n) == [levels |-> Prefix(lv, n), at |-> File!BlockAt(lv, n + 1)]

(* What one step of the corruption check makes of what it has read so far. *)
CheckTurn(f, S) ==
  UNION {{[levels |-> Append(b.levels, l), at |-> b.at + File!Field + File!ListsOf(l)] :
            l \in UNION {File!Reads(f, b.at, v, 0 .. MaxLevel) : v \in File!LevelAt(f, b.at)}} :
          b \in {c \in S : c.at < Len(f.cells)}}

(* After n turns it has read the levels of n elements, if they are there.  *)
ReadSoFar(f, n) ==
  IF n = 0 \/ File!BlockAt(f.of.levels, n) + 2 <= Len(f.cells)
  THEN {BlockAfter(f.of.levels, n)} ELSE {}

Sound(f) ==
  /\ f \in Files /\ \A i \in 1 .. Len(f.cells) : f.cells[i]
  /\ Len(f.cells) <= File!IndexFileSize(f.of)

LEMMA SoundFacts ==
  ASSUME NEW f, Sound(f)
  PROVE  /\ f.of \in File!Indexes /\ f.of.levels \in Levels /\ Len(f.cells) \in Nat
         /\ Len(f.of.levels) \in Nat /\ Len(f.of.levels) \in 0 .. MaxElements
         /\ \A i \in 1 .. Len(f.of.levels) + 1 : File!BlockAt(f.of.levels, i) \in Nat
         /\ \A i \in 1 .. Len(f.of.levels) :
              /\ f.of.levels[i] \in 0 .. MaxLevel /\ f.of.levels[i] \in Nat
              /\ File!BlockAt(f.of.levels, i + 1) =
                   File!BlockAt(f.of.levels, i) + 2 + f.of.levels[i]
<1>1. f.of \in File!Indexes /\ Len(f.cells) \in Nat
  BY DEF Sound, Files
<1>2. f.of.levels \in Levels
  BY <1>1, SizeFacts
<1> QED
  BY <1>1, <1>2, LevelsFacts, BlockFacts

LEMMA ReadsExact ==
  ASSUME NEW f, Sound(f), NEW at \in Nat, NEW v, NEW all
  PROVE  File!Reads(f, at, v, all) = IF at + 2 > Len(f.cells) THEN {} ELSE {v}
<1>1. Len(f.cells) \in Nat /\ \A i \in 1 .. Len(f.cells) : f.cells[i]
  BY SoundFacts DEF Sound
<1>2. at + 2 <= Len(f.cells) => File!Written(f, at, 2)
  BY <1>1 DEF File!Written
<1> QED
  BY <1>1, <1>2, Sizes5 DEF File!Reads

LEMMA LevelAtExact ==
  ASSUME NEW f, Sound(f), NEW n \in 1 .. Len(f.of.levels)
  PROVE  File!LevelAt(f, File!BlockAt(f.of.levels, n)) = {f.of.levels[n]}
<1> DEFINE lv == f.of.levels
           here == {i \in DOMAIN lv : File!BlockAt(lv, i) = File!BlockAt(lv, n)}
<1>1. lv \in Levels /\ Len(lv) \in Nat /\ DOMAIN lv = 1 .. Len(lv)
  BY SoundFacts, LevelsFacts
<1>2. \A i \in 1 .. Len(lv) + 1 : File!BlockAt(lv, i) \in Nat
  BY <1>1, BlockFacts
<1>3. ASSUME NEW i \in 1 .. Len(lv), File!BlockAt(lv, i) = File!BlockAt(lv, n) PROVE i = n
  <2>1. i \in 1 .. Len(lv) + 1 /\ n \in 1 .. Len(lv) + 1
    BY <1>1
  <2>2. ASSUME i < n PROVE FALSE
    <3>1. File!BlockAt(lv, i) + 2 <= File!BlockAt(lv, n)
      BY <1>1, <2>1, <2>2, BlocksApart
    <3> QED
      BY <1>2, <1>3, <2>1, <3>1
  <2>3. ASSUME n < i PROVE FALSE
    <3>1. File!BlockAt(lv, n) + 2 <= File!BlockAt(lv, i)
      BY <1>1, <2>1, <2>3, BlocksApart
    <3> QED
      BY <1>2, <1>3, <2>1, <3>1
  <2> QED
    BY <1>1, <2>2, <2>3
<1>4. here = {n}
  BY <1>1, <1>3
<1>5. File!LevelAt(f, File!BlockAt(lv, n)) =
        IF here = {} THEN 0 .. MaxLevel ELSE {lv[i] : i \in here}
  BY DEF File!LevelAt
<1> QED
  BY <1>4, <1>5

LEMMA PrefixGrows ==
  ASSUME NEW lv \in Levels, NEW n \in 1 .. Len(lv)
  PROVE  Append(Prefix(lv, n - 1), lv[n]) = Prefix(lv, n)
<1> DEFINE T == 0 .. MaxLevel
<1>1. Len(lv) \in Nat /\ \A i \in 1 .. Len(lv) : lv[i] \in T
  BY LevelsFacts
<1> HIDE DEF T
<1>2. n - 1 \in Nat /\ n \in Nat /\ lv[n] \in T
  BY <1>1
<1>3. Prefix(lv, n - 1) \in [1 .. n - 1 -> T] /\ Prefix(lv, n) \in [1 .. n -> T]
  BY <1>1, <1>2 DEF Prefix
<1>4. /\ Prefix(lv, n - 1) \in Seq(T) /\ Len(Prefix(lv, n - 1)) = n - 1
      /\ Prefix(lv, n) \in Seq(T) /\ Len(Prefix(lv, n)) = n
  BY <1>2, <1>3
<1> DEFINE more == Append(Prefix(lv, n - 1), lv[n])
<1>5. more \in Seq(T) /\ Len(more) = n
  BY <1>2, <1>4
<1>6. ASSUME NEW i \in 1 .. n PROVE more[i] = Prefix(lv, n)[i]
  <2>1. CASE i = n
    BY <1>2, <1>4, <2>1 DEF Prefix
  <2>2. CASE i # n
    <3>1. i \in 1 .. n - 1
      BY <1>2, <2>2
    <3>2. more[i] = Prefix(lv, n - 1)[i]
      BY <1>2, <1>4, <3>1
    <3> QED
      BY <3>1, <3>2 DEF Prefix
  <2> QED
    BY <2>1, <2>2
<1> HIDE DEF more
<1>7. more = Prefix(lv, n)
  BY <1>4, <1>5, <1>6, SeqEqual
<1> QED
  BY <1>7 DEF more

LEMMA TurnExact ==
  ASSUME NEW f, Sound(f), NEW n \in 1 .. Len(f.of.levels)
  PROVE  CheckTurn(f, ReadSoFar(f, n - 1)) = ReadSoFar(f, n)
<1> DEFINE lv == f.of.levels
           B(i) == File!BlockAt(lv, i)
           N == Len(f.cells)
<1>1. /\ lv \in Levels /\ N \in Nat /\ Len(lv) \in Nat /\ n \in Nat /\ n # 0
      /\ n \in 1 .. Len(lv) + 1 /\ n + 1 \in 1 .. Len(lv) + 1 /\ (n - 1) + 1 = n
      /\ B(n) \in Nat /\ lv[n] \in Nat /\ B(n + 1) = B(n) + 2 + lv[n]
  BY SoundFacts
<1>2. CASE n - 1 # 0 /\ ~(B(n - 1) + 2 <= N)
  <2>1. n - 1 \in 1 .. Len(lv) + 1 /\ n - 1 < n /\ B(n - 1) \in Nat
    BY <1>1, <1>2, SoundFacts
  <2>2. B(n - 1) + 2 <= B(n)
    BY <1>1, <2>1, BlocksApart
  <2>3. ~(B(n) + 2 <= N)
    BY <1>1, <1>2, <2>1, <2>2
  <2>4. ReadSoFar(f, n - 1) = {} /\ ReadSoFar(f, n) = {}
    BY <1>1, <1>2, <2>3 DEF ReadSoFar
  <2> QED
    BY <2>4 DEF CheckTurn
<1>3. CASE n - 1 = 0 \/ B(n - 1) + 2 <= N
  <2> DEFINE b == BlockAfter(lv, n - 1)
  <2>1. ReadSoFar(f, n - 1) = {b}
    BY <1>3 DEF ReadSoFar
  <2>2. b.at = B(n) /\ b.levels = Prefix(lv, n - 1)
    BY <1>1 DEF BlockAfter
  <2> DEFINE read == UNION {File!Reads(f, B(n), v, 0 .. MaxLevel) : v \in File!LevelAt(f, B(n))}
             next(l) == [levels |-> Append(Prefix(lv, n - 1), l),
                         at |-> B(n) + File!Field + File!ListsOf(l)]
  <2>3. File!LevelAt(f, B(n)) = {lv[n]}
    BY LevelAtExact
  <2>4. read = File!Reads(f, B(n), lv[n], 0 .. MaxLevel)
    BY <2>3
  <2>5. read = IF B(n) + 2 > N THEN {} ELSE {lv[n]}
    <3> DEFINE A == 0 .. MaxLevel
               at == B(n)
               v == lv[n]
    <3>1. at \in Nat
      BY <1>1
    <3> HIDE DEF A, at, v
    <3>2. File!Reads(f, at, v, A) = IF at + 2 > Len(f.cells) THEN {} ELSE {v}
      BY <3>1, ReadsExact
    <3> QED
      BY <2>4, <3>2 DEF A, at, v
  <2> HIDE DEF read, b
  <2>6. CASE B(n) + 2 > N
    <3>1. read = {}
      BY <2>5, <2>6
    <3>2. CheckTurn(f, {b}) = {}
      <4>1. CheckTurn(f, {b}) = UNION {{next(l) : l \in read} : c \in {c \in {b} : c.at < N}}
        BY <2>2 DEF CheckTurn, read
      <4> HIDE DEF next
      <4>2. {next(l) : l \in read} = {}
        BY <3>1
      <4> QED
        BY <4>1, <4>2
    <3>3. ReadSoFar(f, n) = {}
      BY <1>1, <2>6 DEF ReadSoFar
    <3> QED
      BY <2>1, <3>2, <3>3
  <2>7. CASE ~(B(n) + 2 > N)
    <3>1. read = {lv[n]} /\ {c \in {b} : c.at < N} = {b}
      BY <1>1, <2>2, <2>5, <2>7
    <3>2. CheckTurn(f, {b}) = {next(lv[n])}
      <4>1. CheckTurn(f, {b}) = UNION {{next(l) : l \in read} : c \in {c \in {b} : c.at < N}}
        BY <2>2 DEF CheckTurn, read
      <4> HIDE DEF next
      <4>2. {next(l) : l \in read} = {next(lv[n])}
        BY <3>1
      <4>3. CheckTurn(f, {b}) = UNION {{next(l) : l \in read} : c \in {b}}
        BY <3>1, <4>1, Zenon
      <4>4. CheckTurn(f, {b}) = {next(l) : l \in read}
        BY <4>3
      <4> QED
        BY <4>2, <4>4
    <3>3. next(lv[n]) = BlockAfter(lv, n)
      BY <1>1, Sizes5, PrefixGrows DEF BlockAfter
    <3>4. ReadSoFar(f, n) = {BlockAfter(lv, n)}
      BY <1>1, <2>7 DEF ReadSoFar
    <3> QED
      BY <2>1, <3>2, <3>3, <3>4
  <2> QED
    BY <2>6, <2>7
<1> QED
  BY <1>2, <1>3

LEMMA BlocksExact ==
  ASSUME NEW f, Sound(f), Len(f.cells) >= 5
  PROVE  File!Blocks(f, File!BlockAt(f.of.levels, 1), Len(f.of.levels)) =
           ReadSoFar(f, Len(f.of.levels))
<1> DEFINE lv == f.of.levels
           N == Len(lv)
           start == File!BlockAt(lv, 1)
           Is(P) == P = [n \in 0 .. N |->
                           IF n = 0 THEN {[levels |-> <<>>, at |-> start]} ELSE CheckTurn(f, P[n - 1])]
           Q == [n \in 0 .. N |-> ReadSoFar(f, n)]
           P == CHOOSE P : Is(P)
<1>1. lv \in Levels /\ N \in Nat
  BY SoundFacts
<1>2. ReadSoFar(f, 0) = {[levels |-> <<>>, at |-> start]}
  <2>1. Prefix(lv, 0) = <<>>
    BY DEF Prefix
  <2> QED
    BY <2>1 DEF ReadSoFar, BlockAfter
<1>3. \A n \in 1 .. N : CheckTurn(f, ReadSoFar(f, n - 1)) = ReadSoFar(f, n)
  BY TurnExact
<1>4. Is(Q)
  <2>1. ASSUME NEW n \in 0 .. N
        PROVE  Q[n] = IF n = 0 THEN {[levels |-> <<>>, at |-> start]} ELSE CheckTurn(f, Q[n - 1])
    <3>1. CASE n = 0
      BY <1>2, <3>1
    <3>2. CASE n # 0
      <4>1. n \in 1 .. N /\ n - 1 \in 0 .. N
        BY <1>1, <3>2
      <4>2. Q[n] = ReadSoFar(f, n) /\ Q[n - 1] = ReadSoFar(f, n - 1)
        BY <4>1
      <4> QED
        BY <1>3, <3>2, <4>1, <4>2
    <3> QED
      BY <3>1, <3>2
  <2> QED
    BY <2>1
<1>5. Is(P)
  <2> HIDE DEF Is, Q
  <2> QED
    BY <1>4
<1>6. File!Blocks(f, start, N) = P[N]
  BY DEF File!Blocks, CheckTurn
<1> HIDE DEF P
<1> DEFINE S == {n \in 0 .. N : P[n] = ReadSoFar(f, n)}
<1>7. 0 \in S
  BY <1>1, <1>2, <1>5
<1>8. ASSUME NEW n \in 1 .. N, n - 1 \in S PROVE n \in S
  <2>1. n # 0 /\ n \in 0 .. N
    BY <1>1
  <2>2. P[n] = CheckTurn(f, P[n - 1])
    BY <1>5, <2>1
  <2>3. P[n - 1] = ReadSoFar(f, n - 1)
    BY <1>8
  <2> QED
    BY <1>3, <2>1, <2>2, <2>3
<1>9. 0 .. N \subseteq S
  <2> HIDE DEF S, N
  <2> QED
    BY <1>1, <1>7, <1>8, UpTo
<1>10. N \in 0 .. N
  BY <1>1
<1> QED
  BY <1>6, <1>9, <1>10

(* The check comes to the end of the file if the writer did.               *)
LEMMA LevelsReadExact ==
  ASSUME NEW f, Sound(f), Len(f.cells) >= 5
  PROVE  File!LevelsRead(f, Len(f.of.levels)) =
           IF Len(f.cells) = File!IndexFileSize(f.of) THEN {f.of.levels} ELSE {}
<1> DEFINE lv == f.of.levels
           c == Len(lv)
           end == File!IndexFileSize(f.of)
           N == Len(f.cells)
           S == ReadSoFar(f, c)
           b == BlockAfter(lv, c)
<1>1. /\ f.of \in File!Indexes /\ lv \in Levels /\ N \in Nat /\ c \in Nat
      /\ c + 1 \in 1 .. c + 1 /\ 5 \in 1 .. N
  BY SoundFacts
<1>2. File!BlockAt(lv, 1) = 5 + 2 * c /\ end = File!BlockAt(lv, c + 1) /\ end \in Nat
  BY <1>1, BlockFacts, SizeFacts
<1>3. File!FirstBlock(f, c) = File!BlockAt(lv, 1)
  <2>1. f.cells[5]
    BY <1>1 DEF Sound
  <2> QED
    BY <1>1, <1>2, <2>1, Sizes5 DEF File!FirstBlock
<1>4. File!LevelsRead(f, c) = {x.levels : x \in {y \in S : y.at = N}}
  BY <1>3, BlocksExact DEF File!LevelsRead
<1>5. b.at = end /\ b.levels = lv
  <2>1. Prefix(lv, c) = [i \in DOMAIN lv |-> lv[i]] /\ lv = [i \in DOMAIN lv |-> lv[i]]
    BY <1>1, LevelsFacts DEF Prefix, Levels
  <2> QED
    BY <1>2, <2>1 DEF BlockAfter
<1>6. S = {b} \/ S = {}
  BY DEF ReadSoFar
<1>7. ASSUME N = end PROVE S = {b}
  <2>1. CASE c = 0
    BY <2>1 DEF ReadSoFar
  <2>2. CASE c # 0
    <3>1. c \in 1 .. c + 1 /\ c < c + 1 /\ c \in 1 .. c
      BY <1>1, <2>2
    <3>2. File!BlockAt(lv, c) + 2 <= end
      BY <1>1, <1>2, <3>1, BlocksApart
    <3> QED
      BY <1>7, <3>2 DEF ReadSoFar
  <2> QED
    BY <2>1, <2>2
<1> HIDE DEF S, b, end
<1>8. CASE N = end
  <2>1. {y \in S : y.at = N} = {b}
    BY <1>5, <1>7, <1>8
  <2> QED
    BY <1>4, <1>5, <1>8, <2>1 DEF end
<1>9. CASE N # end
  <2>1. {y \in S : y.at = N} = {}
    BY <1>5, <1>6, <1>9
  <2> QED
    BY <1>4, <1>9, <2>1 DEF end
<1> QED
  BY <1>8, <1>9

(* A load yields the saved levels, or nothing if the file was cut short.   *)
LEMMA LoadsExact ==
  ASSUME NEW f, Sound(f), NEW max
  PROVE  File!Loads(f, max) =
           IF Len(f.cells) = File!IndexFileSize(f.of)
           THEN {[max |-> IF max < Len(f.of.levels) THEN f.of.max ELSE max,
                  levels |-> f.of.levels]}
           ELSE {}
<1> DEFINE lv == f.of.levels
           c == Len(lv)
           N == Len(f.cells)
           end == File!IndexFileSize(f.of)
           found(m, ls, n) == [max |-> IF max < n THEN m ELSE max, levels |-> ls]
<1>1. /\ f.of \in File!Indexes /\ N \in Nat /\ c \in Nat /\ f # File!Missing
      /\ end \in Nat /\ end >= 5 + 2 * c
  BY SoundFacts, SizeFacts, NotMissing DEF Sound
<1>2. CASE N < 5
  <2>1. File!Loads(f, max) = {} /\ N # end
    BY <1>1, <1>2, Sizes5 DEF File!Loads
  <2> QED
    BY <2>1
<1>3. CASE ~(N < 5)
  <2>1. File!Reads(f, 2, c, 0 .. MaxElements) = {c}
    <3> DEFINE A == 0 .. MaxElements
               at == 2
    <3>1. at \in Nat /\ ~(at + 2 > N)
      BY <1>1, <1>3
    <3> HIDE DEF A, at
    <3>2. File!Reads(f, at, c, A) = {c}
      BY <3>1, ReadsExact
    <3> QED
      BY <3>2 DEF A, at
  <2>2. File!Reads(f, 0, f.of.max, Capacities) = {f.of.max}
    <3> DEFINE at == 0
    <3>1. at \in Nat /\ ~(at + 2 > N)
      BY <1>1, <1>3
    <3> HIDE DEF at
    <3>2. File!Reads(f, at, f.of.max, Capacities) = {f.of.max}
      BY <3>1, ReadsExact
    <3> QED
      BY <3>2 DEF at
  <2>3. File!Loads(f, max) =
          UNION {{found(m, ls, n) : m \in File!Reads(f, 0, f.of.max, Capacities),
                                    ls \in File!LevelsRead(f, n)} :
                   n \in File!Reads(f, 2, c, 0 .. MaxElements)}
    BY <1>1, <1>3, Sizes5 DEF File!Loads
  <2>4. File!LevelsRead(f, c) = IF N = end THEN {lv} ELSE {}
    <3>1. Len(f.cells) >= 5
      BY <1>1, <1>3
    <3> QED
      BY <3>1, LevelsReadExact
  <2> DEFINE made(n) == {found(m, ls, n) : m \in File!Reads(f, 0, f.of.max, Capacities),
                                           ls \in File!LevelsRead(f, n)}
  <2>5. File!Loads(f, max) = made(c)
    <3> HIDE DEF made, c
    <3>1. File!Loads(f, max) = UNION {made(n) : n \in {c}}
      BY <2>1, <2>3 DEF made, c
    <3> QED
      BY <3>1
  <2> HIDE DEF found, c
  <2>6. File!Loads(f, max) = {found(m, ls, c) : m \in {f.of.max}, ls \in File!LevelsRead(f, c)}
    BY <2>2, <2>5
  <2>7. CASE N = end
    <3>1. File!Loads(f, max) = {found(f.of.max, lv, c)}
      BY <2>6, <2>4, <2>7
    <3> QED
      BY <2>7, <3>1 DEF found, c
  <2>8. CASE N # end
    <3>1. File!Loads(f, max) = {}
      BY <2>6, <2>4, <2>8
    <3> QED
      BY <2>8, <3>1
  <2> QED
    BY <2>7, <2>8
<1> QED
  BY <1>2, <1>3

(* The levels of the saved index, and room for it.                         *)
LEMMA LoadsFits ==
  ASSUME NEW f, Sound(f), NEW max \in Capacities \union {0}, NEW ix \in File!Loads(f, max)
  PROVE  /\ Len(f.cells) = File!IndexFileSize(f.of)
         /\ ix.levels = f.of.levels /\ ix.max >= Len(ix.levels)
<1> DEFINE c == Len(f.of.levels)
<1>1. /\ Len(f.cells) = File!IndexFileSize(f.of)
      /\ ix = [max |-> IF max < c THEN f.of.max ELSE max, levels |-> f.of.levels]
  BY LoadsExact
<1>2. c \in 0 .. MaxElements /\ f.of.max \in Capacities /\ max \in Nat
  BY SoundFacts, SizeFacts, PartsAssumption DEF File!PersistenceAssumption
<1>3. f.of.max \in Nat /\ f.of.max >= MaxElements /\ MaxElements \in Nat
  BY <1>2, PartsAssumption DEF File!PersistenceAssumption
<1>4. ix.levels = f.of.levels /\ ix.max = IF max < c THEN f.of.max ELSE max
  BY <1>1
<1> HIDE DEF c
<1>5. ix.max >= c
  BY <1>2, <1>3, <1>4
<1> QED
  BY <1>1, <1>4, <1>5 DEF c

-----------------------------------------------------------------------------
(* What a load has returned.                                               *)

LoadedWhole ==
  "overlap" \notin mishaps /\ loaded \notin {File!Nothing, File!Rejected} =>
    /\ loaded.whole
    /\ loaded.index.levels = loaded.of.levels
    /\ loaded.index.max >= Len(loaded.index.levels)

LEMMA LoadKeepsWhole ==
  ASSUME FileKept, LoadedWhole, NEW max \in Capacities \union {0}, File!Load(max)
  PROVE  LoadedWhole'
<1> SUFFICES ASSUME "overlap" \notin mishaps', loaded' \notin {File!Nothing, File!Rejected}
             PROVE  /\ loaded'.whole
                    /\ loaded'.index.levels = loaded'.of.levels
                    /\ loaded'.index.max >= Len(loaded'.index.levels)
  BY DEF LoadedWhole
<1>1. "overlap" \notin mishaps
  BY DEF File!Load
<1>2. File!Loads(file, max) # {}
  BY DEF File!Load
<1>3. PICK ix \in File!Loads(file, max) :
        loaded' = [index |-> ix, of |-> file.of, whole |-> File!Complete(file)]
  BY <1>2, Zenon DEF File!Load
<1>4. file # File!Missing
  BY <1>2 DEF File!Loads
<1>5. Sound(file) /\ Len(file.cells) \in Nat
  BY <1>1, <1>4, SoundFacts DEF FileKept, FileTypes, StreamsKept, NoHoles, Sound, Size
<1>6. /\ Len(file.cells) = File!IndexFileSize(file.of)
      /\ ix.levels = file.of.levels /\ ix.max >= Len(ix.levels)
  BY <1>5, LoadsFits
<1>7. File!Complete(file)
  BY <1>5, <1>6 DEF File!Complete, File!Written, Sound
<1> QED
  BY <1>3, <1>6, <1>7

LEMMA LoadedAlways == File!Spec => [](FileKept /\ LoadedWhole)
<1>1. File!Init => LoadedWhole
  BY DEF File!Init, LoadedWhole
<1>2. ASSUME FileKept, LoadedWhole, [File!Next]_File!vars PROVE LoadedWhole'
  <2>1. ASSUME UNCHANGED loaded, mishaps \subseteq mishaps' PROVE LoadedWhole'
    BY <1>2, <2>1 DEF LoadedWhole
  <2>2. CASE File!Change
    BY <2>1, <2>2 DEF File!Change
  <2>3. CASE File!Crash
    BY <2>1, <2>3 DEF File!Crash
  <2>4. ASSUME NEW s \in Saver, File!Open(s) PROVE LoadedWhole'
    BY <2>1, <2>4 DEF File!Open
  <2>5. ASSUME NEW s \in Saver, File!Write(s) PROVE LoadedWhole'
    BY <2>1, <2>5 DEF File!Write
  <2>6. ASSUME NEW s \in Saver, File!Close(s) PROVE LoadedWhole'
    BY <2>1, <2>6 DEF File!Close
  <2>7. ASSUME NEW max \in Capacities \union {0}, File!Load(max) PROVE LoadedWhole'
    BY <1>2, <2>7, LoadKeepsWhole
  <2>8. CASE UNCHANGED File!vars
    BY <2>1, <2>8 DEF File!vars
  <2> QED
    BY <1>2, <2>2, <2>3, <2>4, <2>5, <2>6, <2>7, <2>8 DEF File!Next
<1> QED
  BY <1>1, <1>2, FileAlways, PTL DEF File!Spec

(* As long as no two saves have overlapped, what loadIndex accepts is a    *)
(* file that was written to its end, and it makes the index that was saved *)
(* with room for its elements; and a file that was written whole is loaded *)
(* every time, whatever capacity Load asks for (hnswalg.h, loadIndex).     *)
THEOREM LoadExactHolds == BoundarySpec => []LoadExact
<1>1. FileKept => File!TypeOK
  <2> SUFFICES ASSUME FileKept PROVE File!TypeOK
    OBVIOUS
  <2>1. File!IndexFileSize(index) \in Nat /\ index \in File!Indexes
    BY SizeFacts DEF FileKept, FileTypes
  <2>2. \A s \in Saver : pos[s] \in File!Idle .. File!IndexFileSize(index)
    <3> SUFFICES ASSUME NEW s \in Saver PROVE pos[s] \in File!Idle .. File!IndexFileSize(index)
      OBVIOUS
    <3>1. pos[s] \in Nat \union {File!Idle}
      BY DEF FileKept, FileTypes
    <3>2. pos[s] # File!Idle => pos[s] <= File!IndexFileSize(index)
      BY DEF FileKept, StreamsKept, Saving
    <3> QED
      BY <2>1, <3>1, <3>2, IdleIs
  <2>3. file # File!Missing => file.of \in File!Indexes /\ file.cells \in Seq(BOOLEAN)
    BY DEF FileKept, FileTypes, Files
  <2> QED
    BY <2>1, <2>2, <2>3 DEF FileKept, FileTypes, StreamsKept, Size, File!TypeOK
<1>2. FileKept /\ LoadedWhole => File!LoadExact
  <2> SUFFICES ASSUME FileKept, LoadedWhole, file # File!Missing, File!Complete(file),
                      NEW max \in Capacities \union {0}
               PROVE  LET found == File!Loads(file, max)
                      IN  found # {} /\ \A ix \in found :
                            ix.levels = file.of.levels /\ ix.max >= Len(ix.levels)
    BY DEF File!LoadExact, LoadedWhole
  <2>1. file \in Files /\ Len(file.cells) \in Nat /\ Len(file.cells) = File!IndexFileSize(file.of)
    BY DEF FileKept, FileTypes, Files, File!Complete
  <2>2. \A i \in 1 .. Len(file.cells) : file.cells[i]
    BY <2>1 DEF File!Complete, File!Written
  <2>3. Sound(file)
    BY <2>1, <2>2 DEF Sound
  <2>4. File!Loads(file, max) # {}
    BY <2>1, <2>3, LoadsExact
  <2>5. \A ix \in File!Loads(file, max) : ix.levels = file.of.levels /\ ix.max >= Len(ix.levels)
    BY <2>3, LoadsFits
  <2> QED
    BY <2>4, <2>5
<1> QED
  BY <1>1, <1>2, LoadedAlways, PartsBehave, PTL DEF LoadExact

-----------------------------------------------------------------------------
(* The data of a batch.                                                    *)

(* No product of the sizes of a call is too large for a C int.             *)
ProductsFit ==
  /\ \A n \in 0 .. MaxRows, k \in 0 .. MaxTopK : n * k < Overflow
  /\ \A c \in Concurrency \union {1} : c < Overflow /\ c * Dim < Overflow

LEMMA BatchFacts ==
  /\ Dim \in Nat /\ Dim # 0 /\ Lengths \subseteq Nat /\ MaxRows \in Nat /\ MaxTopK \in Nat
  /\ Overflow \in Nat /\ Overflow # 0 /\ Concurrency \subseteq Nat \ {0}
BY PartsAssumption DEF Batch!FlatBatchAssumption

LEMMA IntExact == \A n \in Nat : n < Overflow => Batch!Int_(n) = n
<1> SUFFICES ASSUME NEW n \in Nat, n < Overflow PROVE Batch!Int_(n) = n
  OBVIOUS
<1>1. Overflow \in Nat
  BY BatchFacts
<1>2. n % (2 * Overflow) = n
  BY <1>1
<1> QED
  BY <1>2 DEF Batch!Int_

LEMMA Times ==
  ASSUME NEW k \in Nat, NEW a \in Nat, NEW b \in Nat, a <= b
  PROVE  /\ a * k \in Nat /\ b * k \in Nat /\ a * k <= b * k
         /\ (a + 1) * k = a * k + k
<1>1. b * k = a * k + (b - a) * k
  OBVIOUS
<1>2. b - a \in Nat /\ (b - a) * k \in Nat
  OBVIOUS
<1> QED
  BY <1>1, <1>2

LEMMA LensFacts ==
  ASSUME NEW lens \in Batch!Batches
  PROVE  /\ Len(lens) \in 0 .. MaxRows /\ Len(lens) \in Nat /\ DOMAIN lens = 1 .. Len(lens)
         /\ \A r \in 1 .. Len(lens) : lens[r] \in Lengths
<1>1. PICK n \in 0 .. MaxRows : lens \in [1 .. n -> Lengths]
  BY DEF Batch!Batches
<1>2. n \in Nat
  BY BatchFacts
<1> QED
  BY <1>1, <1>2

(* The parts of the result that two rows write do not meet, and none lies  *)
(* outside of it.                                                          *)
PartOf(r, k) == (r - 1) * k .. r * k - 1

LEMMA PartsApart ==
  ASSUME NEW k \in Nat, NEW r \in Nat \ {0}, NEW q \in Nat \ {0},
         NEW o \in PartOf(r, k), o \in PartOf(q, k)
  PROVE  r = q
<1>1. ASSUME NEW a \in Nat \ {0}, NEW b \in Nat \ {0}, o \in PartOf(a, k), o \in PartOf(b, k), a < b
      PROVE  FALSE
  <2>1. a <= b - 1 /\ b - 1 \in Nat /\ a - 1 \in Nat
    BY <1>1
  <2>2. a * k \in Nat /\ (b - 1) * k \in Nat /\ a * k <= (b - 1) * k
    BY <1>1, <2>1, Times
  <2>3. (a - 1) * k \in Nat /\ b * k \in Nat
    BY <1>1, <2>1, Times
  <2>4. o \in Int /\ o <= a * k - 1 /\ (b - 1) * k <= o
    BY <1>1, <2>2, <2>3 DEF PartOf
  <2> QED
    BY <2>2, <2>4
<1> QED
  BY <1>1

LEMMA PartFacts ==
  ASSUME NEW k \in Nat, NEW n \in Nat, NEW r \in 1 .. n
  PROVE  /\ (r - 1) * k \in Nat /\ r * k = (r - 1) * k + k /\ r * k <= n * k
         /\ PartOf(r, k) \subseteq 0 .. n * k - 1
         /\ \A j \in 0 .. k - 1 : (r - 1) * k + j \in PartOf(r, k)
         /\ \A o \in PartOf(r, k) : o - (r - 1) * k \in 0 .. k - 1
         /\ IsFiniteSet(PartOf(r, k)) /\ Cardinality(PartOf(r, k)) = k
<1>1. r - 1 \in Nat /\ (r - 1) + 1 = r /\ r \in Nat /\ r <= n /\ r - 1 <= r
  OBVIOUS
<1>2. (r - 1) * k \in Nat /\ r * k \in Nat /\ ((r - 1) + 1) * k = (r - 1) * k + k
  BY <1>1, Times
<1>3. r * k = (r - 1) * k + k
  BY <1>1, <1>2
<1>4. r * k <= n * k /\ n * k \in Nat
  BY <1>1, Times
<1> DEFINE a == (r - 1) * k
           b == r * k
           c == n * k
<1>5. a \in Nat /\ b = a + k /\ b <= c /\ c \in Nat
  BY <1>2, <1>3, <1>4
<1>6. PartOf(r, k) = a .. b - 1
  BY DEF PartOf
<1> HIDE DEF a, b, c
<1>7. IsFiniteSet(a .. b - 1) /\ Cardinality(a .. b - 1) = k
  <2>1. a \in Int /\ b - 1 \in Int
    BY <1>5
  <2>2. Cardinality(a .. b - 1) = IF a > b - 1 THEN 0 ELSE (b - 1) - a + 1
    BY <2>1, FS_Interval
  <2>3. IsFiniteSet(a .. b - 1)
    BY <2>1, FS_Interval
  <2> QED
    BY <1>5, <2>2, <2>3
<1>8. PartOf(r, k) \subseteq 0 .. c - 1
  BY <1>5, <1>6
<1>9. \A j \in 0 .. k - 1 : a + j \in PartOf(r, k)
  BY <1>5, <1>6
<1>10. \A o \in PartOf(r, k) : o - a \in 0 .. k - 1
  BY <1>5, <1>6
<1> QED
  BY <1>5, <1>6, <1>7, <1>8, <1>9, <1>10 DEF a, b, c

-----------------------------------------------------------------------------
(* The flattened vectors.                                                  *)

(* The first k vectors, one after the other.                               *)
FlatTo(f, k, S) ==
  /\ f \in Seq(S) /\ Len(f) = k * Dim
  /\ \A r \in 1 .. k, j \in 1 .. Dim : f[(r - 1) * Dim + j] = <<r, j>>

Coordinates(r) == [j \in 1 .. Dim |-> <<r, j>>]

LEMMA CoordinatesFlat ==
  ASSUME NEW S, NEW r, \A j \in 1 .. Dim : <<r, j>> \in S
  PROVE  Coordinates(r) \in Seq(S) /\ Len(Coordinates(r)) = Dim
<1>1. Coordinates(r) \in [1 .. Dim -> S]
  BY DEF Coordinates
<1> QED
  BY <1>1, BatchFacts

LEMMA FlatGrows ==
  ASSUME NEW S, NEW k \in Nat, NEW f, FlatTo(f, k, S), \A j \in 1 .. Dim : <<k + 1, j>> \in S
  PROVE  FlatTo(f \o Coordinates(k + 1), k + 1, S)
<1> DEFINE g == Coordinates(k + 1)
           e == f \o g
<1>1. Dim \in Nat /\ k * Dim \in Nat /\ (k + 1) * Dim = k * Dim + Dim
  BY BatchFacts, Times
<1>2. f \in Seq(S) /\ Len(f) = k * Dim /\ g \in Seq(S) /\ Len(g) = Dim
  BY CoordinatesFlat DEF FlatTo
<1>3. /\ e \in Seq(S) /\ Len(e) = (k + 1) * Dim
      /\ \A i \in 1 .. Len(f) + Len(g) : e[i] = IF i <= Len(f) THEN f[i] ELSE g[i - Len(f)]
  BY <1>1, <1>2, ConcatProperties
<1>4. ASSUME NEW r \in 1 .. k + 1, NEW j \in 1 .. Dim
      PROVE  e[(r - 1) * Dim + j] = <<r, j>>
  <2>1. CASE r = k + 1
    <3> DEFINE i == k * Dim + j
    <3>1. i \in 1 .. Len(f) + Len(g) /\ ~(i <= Len(f)) /\ i - Len(f) = j
      BY <1>1, <1>2
    <3>2. e[i] = g[j]
      <4> HIDE DEF i, e, g
      <4> QED
        BY <1>3, <3>1
    <3>3. (r - 1) * Dim + j = i
      BY <2>1
    <3>4. g[j] = <<r, j>>
      BY <2>1 DEF Coordinates
    <3> QED
      BY <3>2, <3>3, <3>4
  <2>2. CASE r # k + 1
    <3>1. r \in 1 .. k
      BY <2>2
    <3>2. (r - 1) * Dim \in Nat /\ r * Dim = (r - 1) * Dim + Dim /\ r * Dim <= k * Dim
      BY <1>1, <3>1, PartFacts
    <3> DEFINE i == (r - 1) * Dim + j
    <3>3. i \in 1 .. Len(f) + Len(g) /\ i <= Len(f)
      BY <1>1, <1>2, <3>2
    <3>4. e[i] = f[i]
      <4> HIDE DEF i, e, g
      <4> QED
        BY <1>3, <3>3
    <3>5. f[i] = <<r, j>>
      BY <3>1 DEF FlatTo
    <3> QED
      BY <3>4, <3>5
  <2> QED
    BY <2>1, <2>2
<1> HIDE DEF e
<1>5. FlatTo(e, k + 1, S)
  BY <1>3, <1>4 DEF FlatTo
<1> QED
  BY <1>5 DEF e

LEMMA Flattened ==
  ASSUME Lengths = {Dim}, NEW lens \in Batch!Batches
  PROVE  FlatTo(Batch!flatten2DArray(lens), Len(lens), (1 .. Len(lens)) \X Nat)
<1> DEFINE n == Len(lens)
           S == (1 .. n) \X Nat
           seqs == [r \in 1 .. n |-> Coordinates(r)]
           flattened == Batch!flatten2DArray(lens)
<1>1. n \in Nat /\ DOMAIN lens = 1 .. n /\ \A r \in 1 .. n : lens[r] = Dim
  BY LensFacts
<1>2. flattened = Batch!FlattenSeq(seqs)
  <2>1. \A r \in 1 .. n : Batch!Vector(lens, r) = Coordinates(r)
    BY <1>1 DEF Batch!Vector, Coordinates
  <2>2. [r \in DOMAIN lens |-> Batch!Vector(lens, r)] = seqs
    BY <1>1, <2>1
  <2> QED
    BY <2>2 DEF Batch!flatten2DArray
<1>3. \A r \in 1 .. n : Coordinates(r) \in Seq(S) /\ \A j \in 1 .. Dim : <<r, j>> \in S
  <2>1. \A r \in 1 .. n, j \in 1 .. Dim : <<r, j>> \in S
    BY BatchFacts
  <2> HIDE DEF S, n
  <2> QED
    BY <2>1, CoordinatesFlat
<1>4. Len(seqs) = n
  BY <1>1
<1> HIDE DEF S, n
<1>5. CASE n = 0
  <2>1. flattened = seqs
    BY <1>2, <1>4, <1>5 DEF Batch!FlattenSeq
  <2>2. seqs \in Seq(S) /\ n * Dim = 0
    <3>1. seqs = <<>>
      BY <1>5
    <3> QED
      BY <1>5, <3>1, BatchFacts
  <2>3. FlatTo(seqs, n, S)
    BY <1>4, <1>5, <2>2 DEF FlatTo
  <2> QED
    BY <2>1, <2>3 DEF S, n
<1>6. CASE n # 0
  <2> DEFINE N == n - 1
             V == Seq(S)
             step == [m \in 1 .. N |-> [v \in V |-> v \o seqs[m + 1]]]
             Is(P) == P = [i \in 1 .. n |-> IF i = 1 THEN seqs[i] ELSE P[i - 1] \o seqs[i]]
             P == CHOOSE P : Is(P)
  <2>1. N \in Nat /\ n \in 1 .. n /\ 1 \in 1 .. n
    BY <1>1, <1>6
  <2>2. ASSUME NEW m \in 1 .. N PROVE m + 1 \in 1 .. n
    BY <1>1
  <2>3. Steps(step, N, V)
    <3>1. \A m \in 1 .. N, v \in V : v \o seqs[m + 1] \in V
      BY <1>3, <2>2
    <3> HIDE DEF V, N
    <3> QED
      BY <3>1 DEF Steps
  <2>4. seqs[1] \in V
    BY <1>3, <2>1
  <2>5. \E f \in [0 .. N -> V] : f[0] = seqs[1] /\ \A m \in 1 .. N : f[m] = step[m][f[m - 1]]
    <3> DEFINE start == seqs[1]
    <3>1. start \in V
      BY <2>4
    <3> HIDE DEF start, V, N, step
    <3>2. \E f \in [0 .. N -> V] : f[0] = start /\ \A m \in 1 .. N : f[m] = step[m][f[m - 1]]
      BY <2>1, <2>3, <3>1, Recursion
    <3> QED
      BY <3>2 DEF start
  <2>6. PICK f \in [0 .. N -> V] : f[0] = seqs[1] /\ \A m \in 1 .. N : f[m] = step[m][f[m - 1]]
    BY <2>5
  <2>7. ASSUME NEW m \in 1 .. N PROVE f[m] = f[m - 1] \o seqs[m + 1]
    <3>1. m - 1 \in 0 .. N /\ f[m - 1] \in V
      BY <2>1
    <3>2. step[m][f[m - 1]] = f[m - 1] \o seqs[m + 1]
      <4> HIDE DEF V, N, seqs
      <4> QED
        BY <3>1
    <3> HIDE DEF step
    <3> QED
      BY <2>6, <3>2
  <2> DEFINE Q == [i \in 1 .. n |-> f[i - 1]]
  <2>8. Is(Q)
    <3>1. ASSUME NEW i \in 1 .. n PROVE Q[i] = IF i = 1 THEN seqs[i] ELSE Q[i - 1] \o seqs[i]
      <4>1. CASE i = 1
        BY <2>6, <4>1
      <4>2. CASE i # 1
        <5>1. i - 1 \in 1 .. N /\ i - 1 \in 1 .. n /\ (i - 1) + 1 = i
          BY <1>1, <4>2
        <5>2. Q[i] = f[i - 1] /\ Q[i - 1] = f[(i - 1) - 1]
          BY <5>1
        <5> HIDE DEF Q, seqs
        <5>3. f[i - 1] = f[(i - 1) - 1] \o seqs[(i - 1) + 1]
          BY <2>7, <5>1
        <5> QED
          BY <4>2, <5>1, <5>2, <5>3
      <4> QED
        BY <4>1, <4>2
    <3> HIDE DEF seqs
    <3> QED
      BY <3>1
  <2>9. Is(P)
    <3> HIDE DEF Is, Q
    <3> QED
      BY <2>8
  <2>10. flattened = P[n]
    BY <1>2, <1>4, <1>6 DEF Batch!FlattenSeq
  <2> HIDE DEF P
  <2>11. P[1] = Coordinates(1)
    BY <2>1, <2>9
  <2>12. ASSUME NEW m \in 1 .. N PROVE P[m + 1] = P[m] \o Coordinates(m + 1)
    <3>1. m + 1 \in 1 .. n /\ m + 1 # 1 /\ (m + 1) - 1 = m
      BY <1>1
    <3>2. P[m + 1] = P[(m + 1) - 1] \o seqs[m + 1]
      BY <2>9, <3>1
    <3> QED
      BY <3>1, <3>2
  <2> DEFINE T == {m \in 0 .. N : FlatTo(P[m + 1], m + 1, S)}
  <2>13. 0 \in T
    <3>1. FlatTo(Coordinates(1), 1, S)
      <4>1. Coordinates(1) \in Seq(S) /\ Len(Coordinates(1)) = Dim /\ 1 * Dim = Dim
        BY <1>3, <2>1, CoordinatesFlat, BatchFacts
      <4>2. ASSUME NEW r \in 1 .. 1, NEW j \in 1 .. Dim
            PROVE  Coordinates(1)[(r - 1) * Dim + j] = <<r, j>>
        <5>1. r = 1 /\ (r - 1) * Dim + j = j
          BY BatchFacts
        <5> QED
          BY <5>1 DEF Coordinates
      <4> QED
        BY <4>1, <4>2 DEF FlatTo
    <3> QED
      BY <2>1, <2>11, <3>1
  <2>14. ASSUME NEW m \in 1 .. N, m - 1 \in T PROVE m \in T
    <3>1. m \in Nat /\ (m - 1) + 1 = m /\ m + 1 \in 1 .. n
      BY <1>1
    <3>2. FlatTo(P[m], m, S)
      BY <2>14, <3>1
    <3>3. FlatTo(P[m] \o Coordinates(m + 1), m + 1, S)
      BY <1>3, <3>1, <3>2, FlatGrows
    <3>4. P[m + 1] = P[m] \o Coordinates(m + 1)
      BY <2>12
    <3>5. FlatTo(P[m + 1], m + 1, S)
      BY <3>3, <3>4
    <3> QED
      BY <3>5
  <2>15. 0 .. N \subseteq T
    <3> HIDE DEF T, N
    <3> QED
      BY <2>1, <2>13, <2>14, UpTo
  <2>16. N \in 0 .. N /\ N + 1 = n
    BY <1>1, <2>1
  <2>17. FlatTo(P[n], n, S)
    BY <2>15, <2>16
  <2> QED
    BY <2>10, <2>17 DEF S, n
<1> QED
  BY <1>5, <1>6

-----------------------------------------------------------------------------
(* What holds while a batch runs.                                          *)

CallType ==
  [op : {"none", "add", "search"}, lens : Batch!Batches, topK : Nat, concurrency : Nat,
   normalize : BOOLEAN]
RowCount == Len(call.lens)

CallKept ==
  /\ call \in CallType /\ status \in {"running", "ok", "error"}
  /\ call.op = "none" => RowCount = 0
  /\ call.op = "add" => call.topK = 1
  /\ done \subseteq 1 .. RowCount

(* The arrays are as large as was meant, and the rows done have written    *)
(* their parts of the result and nothing else.                             *)
ArraysKept ==
  /\ places = RowCount * call.topK
  /\ threads \in 0 .. Overflow - 1
  /\ status = "running" /\ call.normalize => norm = threads * Dim
  /\ DOMAIN out = UNION {PartOf(r, call.topK) : r \in done}

PartsCounted ==
  /\ IsFiniteSet(DOMAIN out) /\ IsFiniteSet(done)
  /\ Cardinality(DOMAIN out) = Cardinality(done) * call.topK

BatchKept == CallKept /\ ArraysKept /\ PartsCounted

LEMMA RowsAre == ASSUME CallKept PROVE Batch!Rows = 1 .. RowCount /\ RowCount \in Nat
BY LensFacts DEF CallKept, CallType, Batch!Rows, RowCount

LEMMA NoPart ==
  ASSUME NEW k \in Nat, NEW D, D = {}
  PROVE  /\ IsFiniteSet(D) /\ Cardinality(D) = 0 /\ Cardinality(D) * k = 0
         /\ UNION {PartOf(r, k) : r \in D} = {}
BY FS_EmptySet

LEMMA BatchInit == Batch!Init => BatchKept
<1> SUFFICES ASSUME Batch!Init PROVE BatchKept
  OBVIOUS
<1>1. /\ call = [op |-> "none", lens |-> <<>>, topK |-> 0, concurrency |-> 1, normalize |-> FALSE]
      /\ status = "ok" /\ threads = 0 /\ places = 0 /\ done = {} /\ DOMAIN out = {}
  BY DEF Batch!Init, Batch!Nothing
<1>2. <<>> \in Batch!Batches
  <2>1. <<>> \in [1 .. 0 -> Lengths] /\ 0 \in 0 .. MaxRows
    BY BatchFacts
  <2> QED
    BY <2>1 DEF Batch!Batches
<1>3. CallKept /\ RowCount = 0
  BY <1>1, <1>2 DEF CallKept, CallType, RowCount
<1>4. ArraysKept
  BY <1>1, <1>3, BatchFacts, NoPart DEF ArraysKept
<1>5. PartsCounted
  <2>1. call.topK \in Nat
    BY <1>3 DEF CallKept, CallType
  <2> QED
    BY <1>1, <2>1, NoPart DEF PartsCounted
<1> QED
  BY <1>3, <1>4, <1>5 DEF BatchKept

LEMMA BeginKeeps ==
  ASSUME ProductsFit, NEW op \in {"add", "search"}, NEW lens \in Batch!Batches, NEW topK \in Nat,
         NEW concurrency \in Concurrency, NEW normalize \in BOOLEAN, op = "add" => topK = 1,
         Batch!Begin([op |-> op, lens |-> lens, topK |-> topK, concurrency |-> concurrency,
                      normalize |-> normalize]),
         places' = Len(lens) * topK
  PROVE  BatchKept'
<1>1. /\ call' = [op |-> op, lens |-> lens, topK |-> topK, concurrency |-> concurrency,
                  normalize |-> normalize]
      /\ status' = "running" /\ done' = {} /\ DOMAIN out' = {}
      /\ threads' = Batch!ThreadsFor(Batch!Int_(Len(lens)), concurrency)
      /\ norm' = IF normalize THEN Batch!Int_(threads' * Dim) ELSE 0
  BY DEF Batch!Begin, Batch!Nothing
<1>2. CallKept' /\ RowCount' = Len(lens)
  BY <1>1, BatchFacts DEF CallKept, CallType, RowCount
<1>3. threads' \in Concurrency \union {1}
  BY <1>1 DEF Batch!ThreadsFor
<1>4. threads' \in Nat /\ threads' < Overflow /\ threads' * Dim \in Nat /\ threads' * Dim < Overflow
  <2>1. PICK c \in Concurrency \union {1} : threads' = c
    BY <1>3
  <2>2. c \in Nat /\ Dim \in Nat /\ c < Overflow /\ c * Dim < Overflow
    BY BatchFacts DEF ProductsFit
  <2>3. c * Dim \in Nat
    BY <2>2, Times
  <2> QED
    BY <2>1, <2>2, <2>3
<1>5. call'.normalize => norm' = threads' * Dim
  BY <1>1, <1>4, IntExact
<1>6. ArraysKept'
  <2>1. call'.topK = topK /\ UNION {PartOf(r, topK) : r \in done'} = {}
    BY <1>1, NoPart
  <2>2. (UNION {PartOf(r, call.topK) : r \in done})' = {}
    BY <1>1, <2>1
  <2>3. threads' \in 0 .. Overflow - 1
    BY <1>4, BatchFacts
  <2> QED
    BY <1>1, <1>2, <1>5, <2>1, <2>2, <2>3 DEF ArraysKept
<1>7. PartsCounted'
  <2>1. call'.topK = topK
    BY <1>1
  <2> QED
    BY <1>1, <2>1, NoPart DEF PartsCounted
<1> QED
  BY <1>2, <1>6, <1>7 DEF BatchKept

LEMMA AddKeeps ==
  ASSUME ProductsFit, NEW lens \in Batch!Batches, NEW concurrency \in Concurrency,
         NEW normalize \in BOOLEAN, Batch!AddPoints(lens, concurrency, normalize)
  PROVE  BatchKept'
<1>1. places' = Len(lens) * 1
  BY LensFacts DEF Batch!AddPoints
<1>2. Batch!Begin([op |-> "add", lens |-> lens, topK |-> 1, concurrency |-> concurrency,
                   normalize |-> normalize])
  BY DEF Batch!AddPoints
<1> QED
  BY <1>1, <1>2, BeginKeeps

LEMMA SearchKeeps ==
  ASSUME ProductsFit, NEW lens \in Batch!Batches, NEW topK \in 0 .. MaxTopK,
         NEW concurrency \in Concurrency, NEW normalize \in BOOLEAN,
         Batch!SearchKNN(lens, topK, concurrency, normalize)
  PROVE  BatchKept'
<1>1. Len(lens) \in 0 .. MaxRows /\ Len(lens) * topK \in Nat /\ topK \in Nat
  BY LensFacts, BatchFacts
<1>2. places' = Len(lens) * topK
  BY <1>1, IntExact DEF Batch!SearchKNN, ProductsFit
<1>3. Batch!Begin([op |-> "search", lens |-> lens, topK |-> topK, concurrency |-> concurrency,
                   normalize |-> normalize])
  BY DEF Batch!SearchKNN
<1> QED
  BY <1>1, <1>2, <1>3, BeginKeeps

(* A row writes its part.                                                  *)
LEMMA WritesFacts ==
  ASSUME CallKept, NEW r \in 1 .. RowCount
  PROVE  /\ DOMAIN Batch!Writes(r) = PartOf(r, call.topK)
         /\ call.op = "add" => \A o \in PartOf(r, call.topK) :
              o = r - 1 /\ Batch!Writes(r)[o] = Batch!Read(r)
         /\ call.op # "add" => \A o \in PartOf(r, call.topK) :
              Batch!Writes(r)[o] = <<Batch!Read(r), o - (r - 1) * call.topK>>
<1>1. CASE call.op = "add"
  <2>1. call.topK = 1
    BY <1>1 DEF CallKept
  <2>2. r \in Nat
    BY RowsAre
  <2>3. (r - 1) * 1 = r - 1 /\ r * 1 = r
    BY <2>2
  <2>4. PartOf(r, call.topK) = {r - 1}
    BY <2>1, <2>2, <2>3 DEF PartOf
  <2> QED
    BY <1>1, <2>4 DEF Batch!Writes
<1>2. CASE call.op # "add"
  BY <1>2 DEF Batch!Writes, PartOf
<1> QED
  BY <1>1, <1>2

LEMMA DoRowKeeps ==
  ASSUME BatchKept, NEW r \in Batch!Rows, Batch!DoRow(r)
  PROVE  BatchKept'
<1> DEFINE k == call.topK
           own == PartOf(r, k)
<1>1. /\ r \notin done /\ done' = done \union {r}
      /\ out' = [o \in DOMAIN out \union DOMAIN Batch!Writes(r) |->
                   IF o \in DOMAIN Batch!Writes(r) THEN Batch!Writes(r)[o] ELSE out[o]]
      /\ UNCHANGED <<call, status, flat, threads, places, norm, answer>>
  BY DEF Batch!DoRow, Batch!Turn
<1>2. CallKept /\ ArraysKept /\ PartsCounted
  BY DEF BatchKept
<1>3. r \in 1 .. RowCount /\ RowCount \in Nat /\ k \in Nat /\ RowCount' = RowCount
  BY <1>1, <1>2, RowsAre DEF CallKept, CallType, RowCount
<1>4. DOMAIN out' = DOMAIN out \union own
  BY <1>1, <1>2, <1>3, WritesFacts
<1>5. CallKept'
  BY <1>1, <1>2, <1>3 DEF CallKept
<1>6. ArraysKept'
  <2>1. UNION {PartOf(q, k) : q \in done \union {r}} = (UNION {PartOf(q, k) : q \in done}) \union own
    <3> HIDE DEF k
    <3>1. {PartOf(q, k) : q \in done \union {r}} = {PartOf(q, k) : q \in done} \union {own}
      BY Zenon
    <3> DEFINE parts == {PartOf(q, k) : q \in done}
    <3> HIDE DEF own, parts
    <3>2. UNION (parts \union {own}) = (UNION parts) \union own
      OBVIOUS
    <3> QED
      BY <3>1, <3>2 DEF parts
  <2>2. DOMAIN out = UNION {PartOf(q, k) : q \in done}
    BY <1>2 DEF ArraysKept
  <2>3. DOMAIN out' = UNION {PartOf(q, k) : q \in done'}
    BY <1>1, <1>4, <2>1, <2>2
  <2>4. (UNION {PartOf(q, call.topK) : q \in done})' = UNION {PartOf(q, k) : q \in done'}
    BY <1>1
  <2> QED
    BY <1>1, <1>2, <1>3, <2>3, <2>4 DEF ArraysKept
<1>7. PartsCounted'
  <2>1. IsFiniteSet(own) /\ Cardinality(own) = k
    BY <1>3, PartFacts
  <2>2. DOMAIN out \intersect own = {}
    <3> SUFFICES ASSUME NEW o \in own, o \in DOMAIN out PROVE FALSE
      OBVIOUS
    <3>1. PICK q \in done : o \in PartOf(q, k)
      BY <1>2 DEF ArraysKept
    <3>2. q \in Nat \ {0} /\ r \in Nat \ {0}
      BY <1>2, <1>3, <3>1 DEF CallKept
    <3>3. r = q
      BY <1>3, <3>1, <3>2, PartsApart
    <3> QED
      BY <1>1, <3>1, <3>3
  <2>3. /\ IsFiniteSet(DOMAIN out') /\ Cardinality(DOMAIN out') = Cardinality(DOMAIN out) + k
    <3> HIDE DEF own, k
    <3>1. IsFiniteSet(DOMAIN out) /\ Cardinality(DOMAIN out) \in Nat
      BY <1>2, FS_CardinalityType DEF PartsCounted
    <3>2. Cardinality(DOMAIN out \intersect own) = 0
      BY <2>2, FS_EmptySet
    <3> QED
      <4>1. /\ IsFiniteSet(DOMAIN out \union own)
            /\ Cardinality(DOMAIN out \union own) =
                 Cardinality(DOMAIN out) + Cardinality(own) - Cardinality(DOMAIN out \intersect own)
        BY <2>1, <3>1, FS_Union
      <4>2. Cardinality(DOMAIN out \union own) = Cardinality(DOMAIN out) + k
        BY <1>3, <2>1, <3>1, <3>2, <4>1
      <4> QED
        BY <1>4, <4>1, <4>2
  <2>4. IsFiniteSet(done') /\ Cardinality(done') = Cardinality(done) + 1 /\ Cardinality(done) \in Nat
    BY <1>1, <1>2, FS_AddElement, FS_CardinalityType DEF PartsCounted
  <2>5. Cardinality(done') * k = Cardinality(done) * k + k
    BY <1>3, <2>4, Times
  <2>6. Cardinality(DOMAIN out) = Cardinality(done) * k
    BY <1>2 DEF PartsCounted
  <2>7. call'.topK = k
    BY <1>1
  <2> QED
    BY <2>3, <2>4, <2>5, <2>6, <2>7 DEF PartsCounted
<1> QED
  BY <1>5, <1>6, <1>7 DEF BatchKept

LEMMA ThrowsKeeps ==
  ASSUME BatchKept, status' \in {"ok", "error"},
         UNCHANGED <<call, threads, places, norm, done, out>>
  PROVE  BatchKept'
BY DEF BatchKept, CallKept, ArraysKept, PartsCounted, RowCount

LEMMA BatchAlways == ASSUME ProductsFit PROVE Batch!Spec => []BatchKept
<1>1. ASSUME BatchKept, [Batch!Next]_Batch!vars PROVE BatchKept'
  <2>1. ASSUME NEW lens \in Batch!Batches, NEW concurrency \in Concurrency, NEW normalize \in BOOLEAN,
               Batch!AddPoints(lens, concurrency, normalize)
        PROVE  BatchKept'
    BY <2>1, AddKeeps
  <2>2. ASSUME NEW lens \in Batch!Batches, NEW concurrency \in Concurrency, NEW normalize \in BOOLEAN,
               NEW topK \in 0 .. MaxTopK, Batch!SearchKNN(lens, topK, concurrency, normalize)
        PROVE  BatchKept'
    BY <2>2, SearchKeeps
  <2>3. ASSUME NEW r \in Batch!Rows, Batch!DoRow(r) PROVE BatchKept'
    BY <1>1, <2>3, DoRowKeeps
  <2>4. ASSUME NEW r \in Batch!Rows, Batch!RowThrows(r) PROVE BatchKept'
    BY <1>1, <2>4, ThrowsKeeps DEF Batch!RowThrows
  <2>5. CASE Batch!Finish
    BY <1>1, <2>5, ThrowsKeeps DEF Batch!Finish
  <2>6. CASE UNCHANGED Batch!vars
    BY <1>1, <2>6 DEF Batch!vars, BatchKept, CallKept, ArraysKept, PartsCounted, RowCount
  <2> QED
    BY <1>1, <2>1, <2>2, <2>3, <2>4, <2>5, <2>6 DEF Batch!Next
<1> QED
  BY <1>1, BatchInit, PTL DEF Batch!Spec

(* If no product of a call's sizes is too large for an int, results are    *)
(* written inside of the arrays made for them, and each thread has a whole *)
(* segment of norm_array (hnsw_wrapper.cc, addPoints and searchKnn).       *)
THEOREM ArraysFitHolds == ASSUME ProductsFit PROVE BoundarySpec => []ArraysFit
<1>1. BatchKept => Batch!ArraysFit
  <2> SUFFICES ASSUME BatchKept PROVE Batch!ArraysFit
    OBVIOUS
  <2>1. CallKept /\ ArraysKept
    BY DEF BatchKept
  <2>2. RowCount \in Nat /\ call.topK \in Nat
    BY <2>1, RowsAre DEF CallKept, CallType
  <2>3. DOMAIN out \subseteq 0 .. places - 1
    <3>1. \A r \in 1 .. RowCount : PartOf(r, call.topK) \subseteq 0 .. RowCount * call.topK - 1
      BY <2>2, PartFacts
    <3> QED
      BY <2>1, <3>1 DEF CallKept, ArraysKept
  <2>4. ASSUME status = "running", call.normalize, NEW t \in 0 .. threads - 1
        PROVE  (t + 1) * Dim <= norm
    <3>1. threads \in Nat /\ t + 1 \in Nat /\ t + 1 <= threads /\ norm = threads * Dim
      BY <2>1, <2>4, BatchFacts DEF ArraysKept
    <3> QED
      BY <3>1, BatchFacts, Times
  <2> QED
    BY <2>3, <2>4 DEF Batch!ArraysFit
<1> QED
  BY <1>1, BatchAlways, PartsBehave, PTL DEF ArraysFit

-----------------------------------------------------------------------------
(* What the rows wrote.                                                    *)

Result(r, o) == IF call.op = "add" THEN Batch!Own(r) ELSE <<Batch!Own(r), o - (r - 1) * call.topK>>

ContentsKept ==
  /\ FlatTo(flat, RowCount, (1 .. RowCount) \X Nat)
  /\ \A r \in done : \A o \in PartOf(r, call.topK) : out[o] = Result(r, o)
  /\ Batch!RowsMatch

LEMMA ContentsInit == Batch!Init => ContentsKept
<1> SUFFICES ASSUME Batch!Init PROVE ContentsKept
  OBVIOUS
<1>1. flat = <<>> /\ call.lens = <<>> /\ done = {}
  BY DEF Batch!Init
<1>2. RowCount = 0 /\ Batch!Rows = {} /\ 0 * Dim = 0
  BY <1>1, BatchFacts DEF RowCount, Batch!Rows
<1>3. FlatTo(flat, RowCount, (1 .. RowCount) \X Nat)
  BY <1>1, <1>2 DEF FlatTo
<1>4. Batch!RowsMatch
  BY <1>2 DEF Batch!RowsMatch
<1> QED
  BY <1>1, <1>3, <1>4 DEF ContentsKept

LEMMA BeginContents ==
  ASSUME Lengths = {Dim}, NEW c, c.lens \in Batch!Batches, Batch!Begin(c)
  PROVE  ContentsKept'
<1>1. /\ call' = c /\ status' = "running" /\ done' = {}
      /\ flat' = Batch!flatten2DArray(c.lens)
  BY DEF Batch!Begin
<1>2. FlatTo(flat', Len(c.lens), (1 .. Len(c.lens)) \X Nat)
  BY <1>1, Flattened
<1>3. RowCount' = Len(c.lens)
  BY <1>1 DEF RowCount
<1>4. FlatTo(flat, RowCount, (1 .. RowCount) \X Nat)'
  BY <1>2, <1>3 DEF FlatTo
<1>5. Batch!RowsMatch'
  BY <1>1 DEF Batch!RowsMatch
<1> QED
  BY <1>1, <1>4, <1>5 DEF ContentsKept

(* A thread reads its own vector out of the flat array.                    *)
LEMMA ReadsOwn ==
  ASSUME CallKept, ContentsKept, NEW r \in 1 .. RowCount
  PROVE  Batch!Read(r) = Batch!Own(r)
<1>1. RowCount \in Nat /\ Dim \in Nat
  BY RowsAre, BatchFacts
<1>2. (r - 1) * Dim \in Nat /\ r * Dim = (r - 1) * Dim + Dim /\ r * Dim <= RowCount * Dim
      /\ RowCount * Dim \in Nat
  BY <1>1, PartFacts, Times
<1>3. Len(flat) = RowCount * Dim /\ \A j \in 1 .. Dim : flat[(r - 1) * Dim + j] = <<r, j>>
  BY DEF ContentsKept, FlatTo
<1>4. \A j \in 1 .. Dim : (r - 1) * Dim + j <= Len(flat)
  BY <1>1, <1>2, <1>3
<1> QED
  BY <1>3, <1>4 DEF Batch!Read, Batch!Own

LEMMA DoRowContents ==
  ASSUME BatchKept, ContentsKept, NEW r \in Batch!Rows, Batch!DoRow(r)
  PROVE  ContentsKept'
<1> DEFINE k == call.topK
           own == PartOf(r, k)
           w == Batch!Writes(r)
<1>1. /\ status = "running" /\ done' = done \union {r} /\ r \notin done
      /\ out' = [o \in DOMAIN out \union DOMAIN w |-> IF o \in DOMAIN w THEN w[o] ELSE out[o]]
      /\ UNCHANGED <<call, status, flat, threads, places, norm, answer>>
  BY DEF Batch!DoRow, Batch!Turn
<1>2. CallKept /\ ArraysKept
  BY DEF BatchKept
<1>3. r \in 1 .. RowCount /\ RowCount \in Nat /\ k \in Nat /\ RowCount' = RowCount
  BY <1>1, <1>2, RowsAre DEF CallKept, CallType, RowCount
<1>4. DOMAIN w = own
  BY <1>2, <1>3, WritesFacts
<1>5. \A o \in own : w[o] = Result(r, o)
  BY <1>2, <1>3, WritesFacts, ReadsOwn DEF Result
<1>6. ASSUME NEW q \in done, NEW o \in PartOf(q, k) PROVE o \notin own /\ o \in DOMAIN out
  <2>1. q \in Nat \ {0} /\ r \in Nat \ {0}
    BY <1>2, <1>3 DEF CallKept
  <2>2. o \notin own
    BY <1>1, <1>3, <2>1, PartsApart
  <2> QED
    BY <1>2, <2>2 DEF ArraysKept
<1> HIDE DEF own, w
<1>7. ASSUME NEW q \in done', NEW o \in PartOf(q, k) PROVE out'[o] = Result(q, o)
  <2>1. CASE q = r
    BY <1>1, <1>4, <1>5, <2>1 DEF own
  <2>2. CASE q # r
    <3>1. q \in done
      BY <1>1, <2>2
    <3>2. out'[o] = out[o]
      BY <1>1, <1>4, <1>6, <3>1
    <3> QED
      BY <3>1, <3>2 DEF ContentsKept
  <2> QED
    BY <2>1, <2>2
<1>8. \A q, o : Result(q, o)' = Result(q, o)
  BY <1>1 DEF Result, Batch!Own
<1>9. FlatTo(flat, RowCount, (1 .. RowCount) \X Nat)'
  BY <1>1, <1>3 DEF ContentsKept, FlatTo
<1>10. Batch!RowsMatch'
  BY <1>1 DEF Batch!RowsMatch
<1> QED
  BY <1>1, <1>7, <1>8, <1>9, <1>10 DEF ContentsKept

LEMMA FinishContents ==
  ASSUME BatchKept, ContentsKept, Batch!Finish
  PROVE  ContentsKept'
<1> DEFINE k == call.topK
<1>1. /\ status = "running" /\ done = Batch!Rows /\ UNCHANGED <<call, flat, done, out>>
      /\ answer' = IF call.op = "add" THEN out
                   ELSE [r \in Batch!Rows |-> [j \in 0 .. k - 1 |-> out[(r - 1) * k + j]]]
  BY DEF Batch!Finish
<1>2. Batch!Rows = 1 .. RowCount /\ RowCount \in Nat /\ k \in Nat /\ (call.op = "add" => k = 1)
  BY RowsAre DEF BatchKept, CallKept, CallType
<1>3. ASSUME NEW r \in Batch!Rows, NEW j \in 0 .. k - 1
      PROVE  out[(r - 1) * k + j] = Result(r, (r - 1) * k + j)
  <2>1. (r - 1) * k + j \in PartOf(r, k)
    BY <1>2, PartFacts
  <2> QED
    BY <1>1, <2>1 DEF ContentsKept
<1>4. ASSUME NEW r \in Batch!Rows, call.op = "add" PROVE answer'[r - 1] = Batch!Own(r)
  <2>1. r \in Nat /\ 0 \in 0 .. k - 1
    BY <1>2, <1>4
  <2>2. (r - 1) * k + 0 = r - 1
    BY <1>2, <1>4, <2>1
  <2>3. out[(r - 1) * k + 0] = Result(r, (r - 1) * k + 0)
    BY <1>3, <2>1
  <2> QED
    BY <1>1, <1>4, <2>2, <2>3 DEF Result
<1>5. ASSUME NEW r \in Batch!Rows, call.op # "add"
      PROVE  answer'[r] = [j \in 0 .. k - 1 |-> <<Batch!Own(r), j>>]
  <2>1. answer'[r] = [j \in 0 .. k - 1 |-> out[(r - 1) * k + j]]
    BY <1>1, <1>5
  <2>2. ASSUME NEW j \in 0 .. k - 1 PROVE out[(r - 1) * k + j] = <<Batch!Own(r), j>>
    <3>1. (r - 1) * k \in Nat
      BY <1>2, PartFacts
    <3>2. ((r - 1) * k + j) - (r - 1) * k = j
      BY <3>1
    <3> QED
      BY <1>3, <1>5, <3>2 DEF Result
  <2> QED
    BY <2>1, <2>2
<1>6. Batch!RowsMatch'
  <2>1. Batch!Rows' = Batch!Rows /\ \A r : Batch!Own(r)' = Batch!Own(r)
    BY <1>1 DEF Batch!Rows, Batch!Own
  <2> QED
    BY <1>1, <1>4, <1>5, <2>1 DEF Batch!RowsMatch
<1>7. \A r, o : Result(r, o)' = Result(r, o)
  BY <1>1 DEF Result, Batch!Own
<1>8. FlatTo(flat, RowCount, (1 .. RowCount) \X Nat)'
  BY <1>1 DEF ContentsKept, FlatTo, RowCount
<1> QED
  BY <1>1, <1>6, <1>7, <1>8 DEF ContentsKept

LEMMA RestContents ==
  ASSUME ContentsKept, status' = "error" \/ UNCHANGED <<status, answer>>,
         UNCHANGED <<call, flat, done, out>>
  PROVE  ContentsKept'
<1>1. Batch!RowsMatch'
  BY DEF ContentsKept, Batch!RowsMatch, Batch!Rows, Batch!Own
<1>2. \A r, o : Result(r, o)' = Result(r, o)
  BY DEF Result, Batch!Own
<1>3. FlatTo(flat, RowCount, (1 .. RowCount) \X Nat)'
  BY DEF ContentsKept, FlatTo, RowCount
<1> QED
  BY <1>1, <1>2, <1>3 DEF ContentsKept

LEMMA ContentsAlways ==
  ASSUME ProductsFit, Lengths = {Dim}
  PROVE  Batch!Spec => [](BatchKept /\ ContentsKept)
<1>1. ASSUME BatchKept, ContentsKept, [Batch!Next]_Batch!vars PROVE ContentsKept'
  <2>1. ASSUME NEW lens \in Batch!Batches, NEW concurrency \in Concurrency, NEW normalize \in BOOLEAN,
               Batch!AddPoints(lens, concurrency, normalize)
        PROVE  ContentsKept'
    BY <2>1, BeginContents DEF Batch!AddPoints
  <2>2. ASSUME NEW lens \in Batch!Batches, NEW concurrency \in Concurrency, NEW normalize \in BOOLEAN,
               NEW topK \in 0 .. MaxTopK, Batch!SearchKNN(lens, topK, concurrency, normalize)
        PROVE  ContentsKept'
    BY <2>2, BeginContents DEF Batch!SearchKNN
  <2>3. ASSUME NEW r \in Batch!Rows, Batch!DoRow(r) PROVE ContentsKept'
    BY <1>1, <2>3, DoRowContents
  <2>4. ASSUME NEW r \in Batch!Rows, Batch!RowThrows(r) PROVE ContentsKept'
    BY <1>1, <2>4, RestContents DEF Batch!RowThrows
  <2>5. CASE Batch!Finish
    BY <1>1, <2>5, FinishContents
  <2>6. CASE UNCHANGED Batch!vars
    BY <1>1, <2>6, RestContents DEF Batch!vars
  <2> QED
    BY <1>1, <2>1, <2>2, <2>3, <2>4, <2>5, <2>6 DEF Batch!Next
<1> QED
  BY <1>1, BatchAlways, ContentsInit, PTL DEF Batch!Spec

(* If all vectors have the index's dimension and no product of a call's    *)
(* sizes is too large for an int: whatever order the threads take the rows *)
(* in, AddPoints stores under each label the vector that came with it, and *)
(* row i of SearchKNN has the results of query i, nearest first (hnsw.go   *)
(* and hnsw_wrapper.cc, addPoints and searchKnn).                          *)
THEOREM RowsMatchHolds ==
  ASSUME ProductsFit, Lengths = {Dim} PROVE BoundarySpec => []RowsMatch
<1>1. BatchKept /\ ContentsKept => Batch!TypeOK /\ Batch!RowsMatch
  <2> SUFFICES ASSUME BatchKept, ContentsKept PROVE Batch!TypeOK /\ Batch!RowsMatch
    OBVIOUS
  <2>1. CallKept /\ ArraysKept /\ PartsCounted
    BY DEF BatchKept
  <2>2. \A D : Batch!Cardinality(D) = Cardinality(D)
    BY Zenon DEF Batch!Cardinality, Cardinality, Batch!IsFiniteSet, IsFiniteSet
  <2>3. Batch!Rows = 1 .. RowCount
    BY <2>1, RowsAre
  <2>4. flat \in Seq(Batch!Rows \X Nat)
    BY <2>3 DEF ContentsKept, FlatTo
  <2>5. Batch!Cardinality(DOMAIN out) = Batch!Cardinality(done) * call.topK
    BY <2>1, <2>2 DEF PartsCounted
  <2> QED
    BY <2>1, <2>3, <2>4, <2>5
       DEF CallKept, CallType, ArraysKept, ContentsKept, Batch!TypeOK
<1> QED
  BY <1>1, ContentsAlways, PartsBehave, PTL DEF RowsMatch

=============================================================================
