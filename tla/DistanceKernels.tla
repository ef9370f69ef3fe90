-------------------------- MODULE DistanceKernels --------------------------
(***************************************************************************)
(* The distance functions of hnswlib/space_l2.h and space_ip.h: which one  *)
(* a space picks for a dimension, an instruction set and a processor, and  *)
(* which coordinates its loops add up.                                     *)
(*                                                                         *)
(* A function is the list of its loops.  A turn of a loop makes `loads'    *)
(* loads of `width' coordinates, and the loop goes on while the pointer is *)
(* before `until'; the loads of one turn are not compared with the end.    *)
(* The value of a coordinate is abstract: what counts is how often it is   *)
(* added up, and whether a load leaves the vector.                         *)
(***************************************************************************)
EXTENDS Integers, Sequences

CONSTANTS
  Dims,     \* dimensions
  Builds,   \* what the build enables: none, sse, avx, avx512 (each with the ones before)
  Cpus      \* what the processor can run: sse, avx, avx512

ASSUME KernelAssumption ==
  /\ Dims \subseteq Nat
  /\ Builds \subseteq {"none", "sse", "avx", "avx512"}
  /\ Cpus \subseteq {"sse", "avx", "avx512"}

VARIABLES
  dim,      \* the dimension
  kernel,   \* the function the space picked
  loop,     \* the loop it is in
  p,        \* the pointer: coordinates behind it
  added     \* coordinate -> times it was added up

vars == <<dim, kernel, loop, p, added>>

-----------------------------------------------------------------------------
(* The functions.                                                          *)

(* AVX512Capable, AVXCapable and the choice of the 16-float kernel: lanes  *)
(* of a register.                                                          *)
Lanes(build, cpu) ==
  CASE build = "avx512" /\ cpu = "avx512" -> 16
    [] build \in {"avx", "avx512"} /\ cpu \in {"avx", "avx512"} -> 8
    [] OTHER -> 4

Loop(loads, width, until) == [loads |-> loads, width |-> width, until |-> until]
Down(q, n) == q - (q % n)

(* space_l2.h, for q coordinates.                                          *)
L2Sqr(q) == <<Loop(1, 1, q)>>
L2SqrSIMD16ExtFourLoads(q, lanes) == <<Loop(4, lanes, Down(q, 16))>>   \* bug: copied from SSE
L2SqrSIMD16Ext(q, lanes) == <<Loop(16 \div lanes, lanes, Down(q, 16))>>
L2SqrSIMD16ExtResiduals(q, lanes) == L2SqrSIMD16Ext(Down(q, 16), lanes) \o L2Sqr(q)
L2SqrSIMD4Ext(q) == <<Loop(1, 4, Down(q, 4))>>
L2SqrSIMD4ExtResiduals(q) == L2SqrSIMD4Ext(Down(q, 4)) \o L2Sqr(q)
L2SqrI(q) == <<Loop(1, 1, q)>>
L2SqrI4x(q) == <<Loop(4, 1, Down(q, 4))>>

(* Bug: the tail is forgotten for dimensions above 16.                     *)
L2SpaceNoTail(d, build, cpu) ==
  IF build = "none" THEN L2Sqr(d) ELSE L2SqrSIMD16Ext(d, Lanes(build, cpu))

(* The choice of L2Space, and of MultiVectorL2Space, which repeats it.     *)
L2Space(d, build, cpu) ==
  CASE build # "none" /\ d % 16 = 0 -> L2SqrSIMD16Ext(d, Lanes(build, cpu))
    [] build # "none" /\ d % 16 # 0 /\ d % 4 = 0 -> L2SqrSIMD4Ext(d)
    [] build # "none" /\ d % 4 # 0 /\ d > 16 -> L2SqrSIMD16ExtResiduals(d, Lanes(build, cpu))
    [] build # "none" /\ d % 4 # 0 /\ 4 < d /\ d < 16 -> L2SqrSIMD4ExtResiduals(d)
    [] OTHER -> L2Sqr(d)
MultiVectorL2Space(d, build, cpu) == L2Space(d, build, cpu)
L2SpaceI(d) == IF d % 4 = 0 THEN L2SqrI4x(d) ELSE L2SqrI(d)

(* space_ip.h: the sums of products; the distance functions of this space  *)
(* take them from 1.  With AVX the 4-float kernel has wide registers in    *)
(* its first loop.                                                         *)
InnerProduct(q) == <<Loop(1, 1, q)>>
InnerProductSIMD16Ext(q, lanes) ==
  IF lanes = 16 THEN <<Loop(4, 16, Down(q, 64)), Loop(1, 16, Down(q, 16))>>
  ELSE <<Loop(16 \div lanes, lanes, Down(q, 16))>>
InnerProductSIMD4Ext(q, lanes) ==
  <<IF lanes = 4 THEN Loop(4, 4, Down(q, 16)) ELSE Loop(2, 8, Down(q, 16)),
    Loop(1, 4, Down(q, 4))>>
InnerProductDistanceSIMD16ExtResiduals(q, lanes) ==
  InnerProductSIMD16Ext(Down(q, 16), lanes) \o InnerProduct(q)
InnerProductDistanceSIMD4ExtResiduals(q, lanes) ==
  InnerProductSIMD4Ext(Down(q, 4), lanes) \o InnerProduct(q)

(* The choice of InnerProductSpace. MultiVectorInnerProductSpace chooses    *)
(* alike but never sets the dim_ its functions are given; it is left out.  *)
InnerProductSpace(d, build, cpu) ==
  LET lanes == Lanes(build, cpu)
  IN  CASE build # "none" /\ d % 16 = 0 -> InnerProductSIMD16Ext(d, lanes)
        [] build # "none" /\ d % 16 # 0 /\ d % 4 = 0 -> InnerProductSIMD4Ext(d, lanes)
        [] build # "none" /\ d % 4 # 0 /\ d > 16 -> InnerProductDistanceSIMD16ExtResiduals(d, lanes)
        [] build # "none" /\ d % 4 # 0 /\ 4 < d /\ d < 16 -> InnerProductDistanceSIMD4ExtResiduals(d, lanes)
        [] OTHER -> InnerProduct(d)

-----------------------------------------------------------------------------
Coordinate == 0 .. dim - 1

(* A space is made, and its function called.                               *)
Init ==
  /\ dim \in Dims
  /\ \E build \in Builds, cpu \in Cpus :
       kernel \in {L2Space(dim, build, cpu), MultiVectorL2Space(dim, build, cpu),
                  InnerProductSpace(dim, build, cpu), L2SpaceI(dim)}
  /\ loop = 1 /\ p = 0
  /\ added = [c \in Coordinate |-> 0]

Here == kernel[loop]

(* One turn of a loop.                                                     *)
Turn ==
  /\ loop <= Len(kernel) /\ p < Here.until
  /\ p' = p + Here.loads * Here.width
  /\ added' = [c \in Coordinate |-> IF p <= c /\ c < p' THEN added[c] + 1 ELSE added[c]]
  /\ UNCHANGED <<dim, kernel, loop>>

NextLoop ==
  /\ loop <= Len(kernel) /\ p >= Here.until
  /\ loop' = loop + 1
  /\ UNCHANGED <<dim, kernel, p, added>>

Next == Turn \/ NextLoop
Spec == Init /\ [][Next]_vars

-----------------------------------------------------------------------------
(* Properties.                                                             *)

Done == loop > Len(kernel)

(* No load reaches past the end of the vectors, unrolled or not.           *)
ReadsInside == p <= dim

(* Whatever the dimension, the build and the processor, the distance is a  *)
(* sum over all coordinates, each taken once: no tail is left out, and no  *)
(* coordinate is added up by two loops.                                    *)
EachCoordinateOnce == Done => \A c \in Coordinate : added[c] = 1

(* The pointer, the loop and the counts are in range.                      *)
TypeOK ==
  /\ dim \in Dims /\ p \in Nat
  /\ loop \in 1 .. Len(kernel) + 1
  /\ added \in [Coordinate -> 0 .. 1]

=============================================================================
