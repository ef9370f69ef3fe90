-------------------------- MODULE HnswGraphProofs --------------------------
(***************************************************************************)
(* Proofs about HnswGraph, for any points, levels and bounds.              *)
(*                                                                         *)
(* The loops of the code are functions repeated on a state.  Whatever set  *)
(* a turn stays in, the loop stays in (RepeatedKeeps), and a loop each of  *)
(* whose turns makes a number smaller has ended (RepeatedEnds).            *)
(*                                                                         *)
(* Links: there are levels, one for each element, that the lists agree     *)
(* with (Leveled).  A search never leaves a set of elements that no list   *)
(* leads out of, so the candidates of a level are elements of that level;  *)
(* a new element is not among them, for no list of a lower level leads to  *)
(* it before that level is linked (LinkLevelsFit).                         *)
(*                                                                         *)
(* Searches: what has been visited and is no result is farther than all of *)
(* a full result (Dropped), and what is no candidate any more has been     *)
(* expanded (Expanded).                                                    *)
(***************************************************************************)
EXTENDS HnswGraph, FiniteSetTheorems, WellFoundedInduction, TLAPS

-----------------------------------------------------------------------------
(* Loops.                                                                  *)

(* Of the numbers of a function one is the smallest.                       *)
LEMMA SmallestOf ==
  ASSUME NEW T, T # {}, NEW f \in [T -> Nat]
  PROVE  \E e \in T : \A x \in T : f[e] <= f[x]
<1> DEFINE L == {f[e] : e \in T}
           R == OpToRel(<, Nat)
<1>1. L \subseteq Nat /\ L # {}
  OBVIOUS
<1>2. \A x, y \in Nat : <<y, x>> \in R <=> y < x
  BY DEF OpToRel
<1>3. IsWellFoundedOn(R, Nat)
  BY NatLessThanWellFounded
<1> HIDE DEF R
<1>4. \E x \in L : \A y \in L : ~(<<y, x>> \in R)
  <2> HIDE DEF L
  <2> QED
    BY <1>1, <1>3, WFMin
<1>5. PICK e \in T : \A y \in L : ~(<<y, f[e]>> \in R)
  BY <1>4
<1>6. ASSUME NEW x \in T PROVE f[e] <= f[x]
  <2>1. ~(<<f[x], f[e]>> \in R) /\ f[x] \in Nat /\ f[e] \in Nat
    BY <1>5
  <2> QED
    BY <1>2, <2>1
<1> QED
  BY <1>6

(* What holds at 0, and at n when it holds at n - 1, holds up to N.        *)
LEMMA UpTo ==
  ASSUME NEW N \in Nat, NEW S, 0 \in S, \A n \in 1 .. N : n - 1 \in S => n \in S
  PROVE  0 .. N \subseteq S
<1> DEFINE bad == (0 .. N) \ S
           f == [n \in bad |-> n]
<1> SUFFICES ASSUME bad # {} PROVE FALSE
  OBVIOUS
<1>1. f \in [bad -> Nat]
  OBVIOUS
<1>2. PICK x \in bad : \A y \in bad : f[x] <= f[y]
  <2> HIDE DEF bad, f
  <2> QED
    BY <1>1, SmallestOf
<1>3. x \in 1 .. N /\ x - 1 \in Nat /\ x \in Nat
  OBVIOUS
<1>4. x - 1 \in bad
  BY <1>3
<1>5. f[x] = x /\ f[x - 1] = x - 1
  BY <1>4
<1> QED
  BY <1>2, <1>3, <1>4, <1>5

Within(step, S) == \A s \in S : step[s] \in S

Turns(f, step, x, N) ==
  /\ f[0] = x /\ \A n \in 1 .. N : f[n] = step[f[n - 1]]
  /\ Repeated(step, x, N) = f[N]

(* The function of a loop exists, if its step stays within a set.          *)
LEMMA Repeats ==
  ASSUME NEW N \in Nat, NEW S, NEW x \in S, NEW step, Within(step, S)
  PROVE  \E f \in [0 .. N -> S] : Turns(f, step, x, N)
<1> DEFINE Good(k, f) == f[0] = x /\ \A n \in 1 .. k : f[n] = step[f[n - 1]]
           K == {k \in 0 .. N : \E f \in [0 .. k -> S] : Good(k, f)}
           Is(f) == f = [n \in 0 .. N |-> IF n = 0 THEN x ELSE step[f[n - 1]]]
<1>1. 0 \in K
  <2>1. [n \in 0 .. 0 |-> x] \in [0 .. 0 -> S] /\ Good(0, [n \in 0 .. 0 |-> x])
    OBVIOUS
  <2> HIDE DEF Good
  <2> QED
    BY <2>1
<1>2. ASSUME NEW k \in 1 .. N, k - 1 \in K PROVE k \in K
  <2>1. PICK f \in [0 .. k - 1 -> S] : Good(k - 1, f)
    BY <1>2
  <2> DEFINE g == [n \in 0 .. k |-> IF n = k THEN step[f[k - 1]] ELSE f[n]]
  <2>2. f[k - 1] \in S
    OBVIOUS
  <2>3. step[f[k - 1]] \in S
    BY <2>2 DEF Within
  <2>4. g \in [0 .. k -> S]
    BY <2>3
  <2>5. g[0] = x
    BY <2>1
  <2>6. ASSUME NEW n \in 1 .. k PROVE g[n] = step[g[n - 1]]
    <3>1. n - 1 \in 0 .. k - 1 /\ g[n - 1] = f[n - 1]
      OBVIOUS
    <3>2. CASE n = k
      <4>1. g[k] = step[f[k - 1]] /\ g[k - 1] = f[k - 1]
        BY <3>1, <3>2
      <4> HIDE DEF g
      <4> QED
        BY <3>2, <4>1
    <3>3. CASE n # k
      BY <2>1, <3>1, <3>3
    <3> QED
      BY <3>2, <3>3
  <2>7. Good(k, g)
    BY <2>5, <2>6
  <2> HIDE DEF Good, g
  <2> QED
    BY <2>4, <2>7
<1>3. N \in K
  <2> HIDE DEF K
  <2>1. 0 .. N \subseteq K
    BY <1>1, <1>2, UpTo
  <2> QED
    BY <2>1
<1>4. PICK f \in [0 .. N -> S] : Good(N, f)
  BY <1>3
<1>5. Is(f)
  <2>1. \A n \in 0 .. N : n = 0 \/ n \in 1 .. N
    OBVIOUS
  <2>2. \A n \in 0 .. N : f[n] = IF n = 0 THEN x ELSE step[f[n - 1]]
    BY <1>4, <2>1
  <2> QED
    BY <2>2
<1> DEFINE g == CHOOSE h : Is(h)
<1>6. Is(g)
  <2> HIDE DEF Is
  <2> QED
    BY <1>5
<1>7. Repeated(step, x, N) = g[N]
  BY DEF Repeated
<1> HIDE DEF g
<1>8. g[0] = x /\ \A n \in 1 .. N : g[n] = step[g[n - 1]]
  <2>1. 0 \in 0 .. N /\ \A n \in 1 .. N : n \in 0 .. N /\ n # 0
    OBVIOUS
  <2> QED
    BY <1>6, <2>1
<1>9. g[N] = f[N]
  <2> DEFINE L == {n \in 0 .. N : g[n] = f[n]}
  <2>1. 0 \in L
    BY <1>4, <1>8
  <2>2. ASSUME NEW n \in 1 .. N, n - 1 \in L PROVE n \in L
    BY <1>4, <1>8, <2>2
  <2>3. 0 .. N \subseteq L
    <3> HIDE DEF L
    <3> QED
      BY <2>1, <2>2, UpTo
  <2> QED
    BY <2>3
<1> QED
  BY <1>4, <1>7, <1>9 DEF Turns

LEMMA RepeatedKeeps ==
  ASSUME NEW N \in Nat, NEW S, NEW x \in S, NEW step, Within(step, S)
  PROVE  Repeated(step, x, N) \in S
<1>1. PICK f \in [0 .. N -> S] : Turns(f, step, x, N)
  BY Repeats, Zenon
<1> QED
  BY <1>1 DEF Turns

Descends(step, S, m) == \A s \in S : step[s] = s \/ m[step[s]] < m[s]

(* A loop each of whose turns makes a number smaller ends in time.         *)
LEMMA RepeatedEnds ==
  ASSUME NEW N \in Nat, NEW S, NEW x \in S, NEW step, Within(step, S),
         NEW m \in [S -> Nat], Descends(step, S, m), m[x] <= N
  PROVE  step[Repeated(step, x, N)] = Repeated(step, x, N)
<1>1. PICK f \in [0 .. N -> S] :
        f[0] = x /\ (\A n \in 1 .. N : f[n] = step[f[n - 1]]) /\ Repeated(step, x, N) = f[N]
  <2>1. \E f \in [0 .. N -> S] : Turns(f, step, x, N)
    BY Repeats, Zenon
  <2> QED
    BY <2>1 DEF Turns
<1> DEFINE L == {n \in 0 .. N : step[f[n]] = f[n] \/ m[f[n]] + n <= N}
<1>2. 0 \in L
  BY <1>1
<1>3. ASSUME NEW n \in 1 .. N, n - 1 \in L PROVE n \in L
  <2>1. f[n - 1] \in S /\ f[n] \in S /\ f[n] = step[f[n - 1]]
    BY <1>1
  <2>2. m[f[n]] \in Nat /\ m[f[n - 1]] \in Nat
    BY <2>1
  <2>3. CASE step[f[n - 1]] = f[n - 1]
    BY <2>1, <2>3
  <2>4. CASE step[f[n - 1]] # f[n - 1]
    <3>1. m[f[n]] < m[f[n - 1]]
      BY <2>1, <2>4 DEF Descends
    <3>2. m[f[n - 1]] + (n - 1) <= N
      BY <1>3, <2>4
    <3> QED
      BY <2>2, <3>1, <3>2
  <2> QED
    BY <2>3, <2>4
<1>4. N \in L
  <2> HIDE DEF L
  <2>1. 0 .. N \subseteq L
    BY <1>2, <1>3, UpTo
  <2> QED
    BY <2>1
<1>5. CASE m[f[N]] + N <= N
  <2>1. m[f[N]] \in Nat /\ f[N] \in S /\ step[f[N]] \in S
    BY DEF Within
  <2>2. m[step[f[N]]] \in Nat
    BY <2>1
  <2>3. ~(m[step[f[N]]] < m[f[N]])
    BY <1>5, <2>1, <2>2
  <2> QED
    BY <1>1, <2>1, <2>3 DEF Descends
<1> QED
  BY <1>1, <1>4, <1>5

-----------------------------------------------------------------------------
(* Distances and the heuristic.                                            *)

Places == Point \union Query
Placed == Seq(Places)
Vectors == Seq(Point)

LEMMA Squares == \A x \in Int : x * x \in Nat
<1> SUFFICES ASSUME NEW x \in Int PROVE x * x \in Nat
  OBVIOUS
<1>1. x * x \in Int
  OBVIOUS
<1>2. x * x >= 0
  <2>1. CASE x >= 0
    BY <2>1
  <2>2. CASE x < 0
    BY <2>2
  <2> QED
    BY <2>1, <2>2
<1> QED
  BY <1>1, <1>2

LEMMA DistNat == \A p, q \in Places : Dist(p, q) \in Nat
<1> SUFFICES ASSUME NEW p \in Places, NEW q \in Places PROVE Dist(p, q) \in Nat
  OBVIOUS
<1>1. p[1] - q[1] \in Int /\ p[2] - q[2] \in Int
  BY GraphAssumption DEF Places
<1> DEFINE a == (p[1] - q[1]) * (p[1] - q[1])
           b == (p[2] - q[2]) * (p[2] - q[2])
<1>2. a \in Nat /\ b \in Nat
  BY <1>1, Squares
<1>3. Dist(p, q) = a + b
  BY DEF Dist
<1> HIDE DEF a, b
<1> QED
  BY <1>2, <1>3

LEMMA PlacedFacts ==
  ASSUME NEW v \in Placed
  PROVE  /\ Len(v) \in Nat /\ DOMAIN v = 1 .. Len(v) /\ IsFiniteSet(DOMAIN v)
         /\ Cardinality(DOMAIN v) = Len(v)
         /\ \A e \in DOMAIN v : v[e] \in Places
         /\ \A e \in DOMAIN v, q \in Places : Dist(v[e], q) \in Nat
<1>1. Len(v) \in Nat /\ DOMAIN v = 1 .. Len(v) /\ \A e \in DOMAIN v : v[e] \in Places
  BY DEF Placed
<1>2. IsFiniteSet(1 .. Len(v)) /\ Cardinality(1 .. Len(v)) = Len(v)
  <2> DEFINE n == Len(v)
             one == 1
  <2>1. n \in Int /\ one \in Int /\ n \in Nat /\ one = 1
    BY <1>1
  <2> HIDE DEF n, one
  <2>2. /\ IsFiniteSet(one .. n)
        /\ Cardinality(one .. n) = IF one > n THEN 0 ELSE n - one + 1
    BY <2>1, FS_Interval
  <2>3. Cardinality(one .. n) = n
    BY <2>1, <2>2
  <2> QED
    BY <2>2, <2>3 DEF n, one
<1>3. \A e \in DOMAIN v, q \in Places : Dist(v[e], q) \in Nat
  BY <1>1, DistNat
<1> QED
  BY <1>1, <1>2, <1>3

LEMMA VectorFacts ==
  ASSUME NEW v \in Vectors
  PROVE  /\ Len(v) \in Nat /\ DOMAIN v = 1 .. Len(v) /\ IsFiniteSet(DOMAIN v)
         /\ Cardinality(DOMAIN v) = Len(v)
         /\ \A e \in DOMAIN v : v[e] \in Point
         /\ \A e \in DOMAIN v, q \in Places : Dist(v[e], q) \in Nat
         /\ v \in Placed
<1>1. v \in Placed /\ \A e \in DOMAIN v : v[e] \in Point
  BY DEF Vectors, Placed, Places
<1> QED
  BY <1>1, PlacedFacts

LEMMA ClosestIs ==
  ASSUME NEW v \in Vectors, NEW q \in Places, NEW S \in SUBSET DOMAIN v, S # {}
  PROVE  Closest(v, S, q) \in S /\ \A f \in S : Dist(v[Closest(v, S, q)], q) <= Dist(v[f], q)
<1> DEFINE f == [e \in S |-> Dist(v[e], q)]
           Least(e) == \A x \in S : Dist(v[e], q) <= Dist(v[x], q)
<1>1. f \in [S -> Nat]
  BY VectorFacts
<1>2. PICK e \in S : \A x \in S : f[e] <= f[x]
  <2> HIDE DEF f
  <2> QED
    BY <1>1, SmallestOf
<1>3. Least(e)
  BY <1>2
<1>4. Closest(v, S, q) = CHOOSE x \in S : Least(x)
  BY DEF Closest
<1> HIDE DEF Least
<1>5. Closest(v, S, q) \in S /\ Least(Closest(v, S, q))
  BY <1>3, <1>4
<1> QED
  BY <1>5 DEF Least

(* Of any elements one comes before all others.                            *)
LEMMA FirstIs ==
  ASSUME NEW v \in Placed, NEW q \in Places, NEW S \in SUBSET DOMAIN v, S # {}
  PROVE  First(v, S, q) \in S /\ \A f \in S \ {First(v, S, q)} : Ahead(v, q, First(v, S, q), f)
<1> DEFINE D(x) == Dist(v[x], q)
           dist == [x \in S |-> D(x)]
           Leads(e) == \A f \in S \ {e} : Ahead(v, q, e, f)
<1>1. Len(v) \in Nat /\ S \subseteq 1 .. Len(v) /\ \A x \in S : D(x) \in Nat
  BY PlacedFacts
<1>2. \A e, f \in S : Ahead(v, q, e, f) <=> D(e) < D(f) \/ (D(e) = D(f) /\ e > f)
  BY DEF Ahead
<1> HIDE DEF D
<1>3. dist \in [S -> Nat]
  BY <1>1
<1>4. PICK d \in S : \A x \in S : dist[d] <= dist[x]
  <2> HIDE DEF dist
  <2> QED
    BY <1>3, SmallestOf
<1> DEFINE T == {x \in S : D(x) = D(d)}
           back == [x \in T |-> Len(v) - x]
<1>5. T # {} /\ back \in [T -> Nat]
  BY <1>1
<1>6. PICK e \in T : \A x \in T : back[e] <= back[x]
  <2> HIDE DEF T, back
  <2> QED
    BY <1>5, SmallestOf
<1>7. e \in S /\ D(e) = D(d) /\ \A x \in S : D(x) = D(d) => x <= e
  <2> SUFFICES ASSUME NEW x \in T PROVE x <= e
    OBVIOUS
  <2>1. Len(v) - e <= Len(v) - x
    BY <1>6
  <2>2. e \in Int /\ x \in Int /\ Len(v) \in Int
    BY <1>1
  <2> HIDE DEF T
  <2> QED
    BY <2>1, <2>2
<1>8. \A x \in S : D(d) <= D(x)
  BY <1>4
<1>9. Leads(e)
  <2> SUFFICES ASSUME NEW f \in S, f # e PROVE Ahead(v, q, e, f)
    OBVIOUS
  <2>1. D(e) \in Nat /\ D(f) \in Nat /\ D(e) <= D(f) /\ e \in Int /\ f \in Int
    BY <1>1, <1>7, <1>8
  <2>2. D(f) = D(e) => f <= e
    BY <1>7
  <2> QED
    BY <1>2, <1>7, <2>1, <2>2
<1>10. First(v, S, q) = CHOOSE x \in S : Leads(x)
  BY DEF First
<1> HIDE DEF Leads
<1>11. First(v, S, q) \in S /\ Leads(First(v, S, q))
  BY <1>7, <1>9, <1>10
<1> QED
  BY <1>11 DEF Leads

(* What the heuristic keeps of its candidates.                             *)
LEMMA DiverseKeeps ==
  ASSUME NEW v \in Vectors, NEW q \in Places, NEW C \in SUBSET DOMAIN v, C # {}, NEW m \in Nat \ {0}
  PROVE  LET H == Diverse(v, C, q, m) IN H \subseteq C /\ Cardinality(H) <= m /\ H # {}
<1> DEFINE D == (SUBSET C) \X (SUBSET C)
           step == [s \in D |-> DiverseStep(v, q, m, s[1], s[2])]
           few(s) == Cardinality(s[2]) <= m /\ (s[2] = {} => s[1] = C)
           S == {s \in D : few(s)}
           n == Cardinality(C)
           last == Repeated(step, <<C, {}>>, n)
<1>1. IsFiniteSet(C) /\ n \in Nat /\ n # 0
  BY VectorFacts, FS_Subset, FS_CardinalityType, FS_EmptySet
<1>2. <<C, {}>> \in S
  BY FS_EmptySet
<1>3. ASSUME NEW s \in S
      PROVE  /\ step[s] \in S
             /\ step[s] = s \/ Cardinality(step[s][1]) < Cardinality(s[1])
             /\ step[s] = s => s[2] # {}
  <2> DEFINE rest == s[1]
             kept == s[2]
             c == First(v, rest, q)
             good == \A k \in kept : Dist(v[k], v[c]) >= Dist(v[c], q)
  <2>1. /\ s = <<rest, kept>> /\ rest \in SUBSET C /\ kept \in SUBSET C /\ Cardinality(kept) <= m
        /\ (kept = {} => rest = C) /\ IsFiniteSet(kept) /\ IsFiniteSet(rest) /\ Cardinality(kept) \in Nat
        /\ Cardinality(rest) \in Nat
    BY <1>1, FS_Subset, FS_CardinalityType
  <2>2. step[s] = DiverseStep(v, q, m, rest, kept)
    OBVIOUS
  <2>3. CASE rest = {} \/ Cardinality(kept) >= m
    <3>1. step[s] = s
      BY <2>1, <2>2, <2>3 DEF DiverseStep
    <3>2. kept # {}
      <4>1. Cardinality({}) = 0
        BY FS_EmptySet
      <4> QED
        BY <2>1, <2>3, <4>1
    <3> QED
      BY <3>1, <3>2
  <2>4. CASE ~(rest = {} \/ Cardinality(kept) >= m)
    <3>1. c \in rest
      BY <2>1, <2>4, FirstIs, VectorFacts
    <3>2. step[s] = <<rest \ {c}, IF good THEN kept \union {c} ELSE kept>>
      BY <2>2, <2>4 DEF DiverseStep
    <3>3. kept = {} => good
      OBVIOUS
    <3>4. /\ rest \in SUBSET C /\ kept \in SUBSET C /\ Cardinality(kept) < m
          /\ IsFiniteSet(kept) /\ IsFiniteSet(rest) /\ Cardinality(kept) \in Nat
          /\ Cardinality(rest) \in Nat
      BY <2>1, <2>4
    <3> HIDE DEF good, c, rest, kept, step
    <3>5. Cardinality(rest \ {c}) = Cardinality(rest) - 1
      BY <3>1, <3>4, FS_RemoveElement
    <3>6. /\ Cardinality(kept \union {c}) <= Cardinality(kept) + 1
          /\ Cardinality(kept \union {c}) \in Nat
      <4>1. IsFiniteSet(kept \union {c}) /\ Cardinality(kept \union {c}) =
              IF c \in kept THEN Cardinality(kept) ELSE Cardinality(kept) + 1
        BY <3>4, FS_AddElement
      <4> QED
        BY <3>4, <4>1
    <3>7. Cardinality(kept \union {c}) <= m
      BY <3>4, <3>6
    <3> DEFINE r == rest \ {c}
               k == IF good THEN kept \union {c} ELSE kept
    <3>8. k # {} /\ r \in SUBSET C /\ k \in SUBSET C /\ Cardinality(k) <= m
      BY <3>1, <3>3, <3>4, <3>7
    <3>9. Cardinality(r) < Cardinality(rest)
      BY <3>4, <3>5
    <3>10. step[s] = <<r, k>>
      BY <3>2
    <3> HIDE DEF r, k
    <3>11. <<r, k>> \in D /\ <<r, k>>[1] = r /\ <<r, k>>[2] = k
      BY <3>8
    <3>12. step[s] \in S
      BY <3>8, <3>10, <3>11
    <3>13. Cardinality(step[s][1]) < Cardinality(s[1])
      BY <3>9, <3>10, <3>11 DEF rest
    <3>14. step[s] # s
      BY <3>13, <3>4 DEF rest
    <3> QED
      BY <3>12, <3>13, <3>14
  <2> QED
    BY <2>3, <2>4
<1> DEFINE size == [s \in S |-> Cardinality(s[1])]
<1>4. size \in [S -> Nat] /\ size[<<C, {}>>] <= n
  <2>1. \A s \in S : Cardinality(s[1]) \in Nat
    BY <1>1, FS_Subset, FS_CardinalityType
  <2> QED
    BY <1>1, <1>2, <2>1
<1>5. Within(step, S)
  BY <1>3 DEF Within
<1>6. Descends(step, S, size)
  BY <1>3 DEF Descends
<1>7. last \in S /\ step[last] = last
  <2> DEFINE x == <<C, {}>>
  <2>1. x \in S /\ size[x] <= n
    BY <1>2, <1>4
  <2> HIDE DEF x, S, step, size, n
  <2>2. Repeated(step, x, n) \in S /\ step[Repeated(step, x, n)] = Repeated(step, x, n)
    BY <1>1, <1>4, <1>5, <1>6, <2>1, RepeatedKeeps, RepeatedEnds
  <2> QED
    BY <2>2 DEF x
<1>8. Diverse(v, C, q, m) = last[2]
  BY DEF Diverse
<1>9. last[2] # {}
  BY <1>3, <1>7
<1>10. last[2] \subseteq C /\ Cardinality(last[2]) <= m
  <2> HIDE DEF last
  <2> QED
    BY <1>7
<1> HIDE DEF last
<1> QED
  BY <1>8, <1>9, <1>10

LEMMA HeuristicKeeps ==
  ASSUME NEW v \in Vectors, NEW q \in Places, NEW C \in SUBSET DOMAIN v, NEW m \in Nat \ {0}
  PROVE  /\ Heuristic(v, C, q, m) \subseteq C /\ Cardinality(Heuristic(v, C, q, m)) <= m
         /\ C # {} => Heuristic(v, C, q, m) # {}
<1>1. IsFiniteSet(C) /\ Cardinality(C) \in Nat
  BY VectorFacts, FS_Subset, FS_CardinalityType
<1>2. CASE Cardinality(C) < m
  BY <1>1, <1>2 DEF Heuristic
<1>3. CASE ~(Cardinality(C) < m)
  <2>1. C # {}
    BY <1>3, FS_EmptySet
  <2> QED
    BY <1>3, <2>1, DiverseKeeps DEF Heuristic
<1> QED
  BY <1>2, <1>3

-----------------------------------------------------------------------------
(* Graphs of given levels, and what the searches keep to.                  *)

Levels(v) == [DOMAIN v -> 0 .. MaxLevel]
High(lev, l) == {e \in DOMAIN lev : lev[e] >= l}

Fits(g, lev, e, l) ==
  /\ ListAt(g, e, l) \subseteq High(lev, l) \ {e}
  /\ Cardinality(ListAt(g, e, l)) <= Mcurmax(l)

Graphs(v, lev) ==
  {g \in Lists(v) : /\ Len(g) = Len(v)
                    /\ \A e \in DOMAIN v : /\ Len(g[e]) = lev[e] + 1
                                           /\ \A l \in 0 .. lev[e] : Fits(g, lev, e, l)}

Closed(g, S, l) == \A x \in S : ListAt(g, x, l) \subseteq S

LEMMA SearchStays ==
  ASSUME NEW v \in Vectors, NEW q \in Places, NEW g, NEW del, NEW l, NEW ef,
         NEW S \in SUBSET DOMAIN v, Closed(g, S, l), NEW ep \in S
  PROVE  SearchBaseLayer(v, g, del, ep, q, l, ef) \subseteq S \ del
<1> DEFINE T == [top : SUBSET (S \ del), candidates : SUBSET S, visited : SUBSET S]
           step == [s \in SearchStates(v) |-> SearchLoop(v, g, del, q, l, ef, s)]
           first == [top |-> {ep} \ del, candidates |-> {ep}, visited |-> {ep}]
<1>1. T \subseteq SearchStates(v) /\ first \in T /\ Len(v) \in Nat
  BY VectorFacts DEF SearchStates
<1>2. ASSUME NEW s \in T PROVE step[s] \in T
  <2> DEFINE c == Closest(v, s.candidates, q)
             new == ListAt(g, c, l) \ s.visited
             kept == KClosest(v, s.top \union (new \ del), q, ef)
             stop == \/ s.candidates = {}
                     \/ Cardinality(s.top) = ef /\ \A t \in s.top : Dist(v[t], q) < Dist(v[c], q)
  <2>1. step[s] = SearchLoop(v, g, del, q, l, ef, s)
    BY <1>1
  <2>2. SearchLoop(v, g, del, q, l, ef, s) =
          IF stop THEN s
          ELSE [top |-> kept, candidates |-> (s.candidates \ {c}) \union new,
                visited |-> s.visited \union new]
    BY DEF SearchLoop
  <2>3. ASSUME ~stop PROVE step[s] \in T
    <3>1. s.candidates # {} /\ s.candidates \in SUBSET DOMAIN v
      BY <2>3
    <3>2. c \in s.candidates
      BY <3>1, ClosestIs
    <3>3. new \subseteq S
      BY <3>2 DEF Closed
    <3>4. kept \subseteq s.top \union (new \ del)
      BY DEF KClosest
    <3> HIDE DEF c, new, kept, stop, step
    <3> QED
      BY <2>1, <2>2, <2>3, <3>3, <3>4
  <2> HIDE DEF stop, step, T
  <2> QED
    BY <2>1, <2>2, <2>3
<1>3. Within(step, T)
  BY <1>2 DEF Within
<1>4. Repeated(step, first, Len(v)) \in T
  <2> HIDE DEF T, step, first
  <2> QED
    BY <1>1, <1>3, RepeatedKeeps
<1> QED
  BY <1>4 DEF SearchBaseLayer

LEMMA GreedyStays ==
  ASSUME NEW v \in Vectors, NEW q \in Places, NEW g, NEW l,
         NEW S \in SUBSET DOMAIN v, Closed(g, S, l), NEW e \in S
  PROVE  GreedyAt(v, g, q, e, l) \in S
<1> DEFINE step == [x \in DOMAIN v |-> Closest(v, {x} \union ListAt(g, x, l), q)]
<1>1. Within(step, S)
  <2> SUFFICES ASSUME NEW x \in S PROVE step[x] \in S
    BY DEF Within
  <2> DEFINE N == {x} \union ListAt(g, x, l)
  <2>1. N \subseteq S /\ N # {} /\ N \in SUBSET DOMAIN v
    BY DEF Closed
  <2>2. step[x] = Closest(v, N, q)
    OBVIOUS
  <2> HIDE DEF N, step
  <2> QED
    BY <2>1, <2>2, ClosestIs
<1>2. Len(v) \in Nat
  BY VectorFacts
<1>3. Repeated(step, e, Len(v)) \in S
  <2> HIDE DEF step
  <2> QED
    BY <1>1, <1>2, RepeatedKeeps
<1> QED
  BY <1>3 DEF GreedyAt

(* Within W, where no list leads out of W on any level from l on down.     *)
Inside(g, lev, W, l) ==
  \A k \in 0 .. l : Closed(g, High(lev, k) \intersect W, k)

LEMMA DescendStays ==
  ASSUME NEW v \in Vectors, NEW q \in Places, NEW lev \in Levels(v), NEW g,
         NEW W, NEW from \in 0 .. MaxLevel, NEW to \in Nat, Inside(g, lev, W, from),
         NEW e \in High(lev, from) \intersect W
  PROVE  Descend(v, g, q, e, from, to) \in High(lev, IF to < from THEN to ELSE from) \intersect W
<1> DEFINE T == {s \in (DOMAIN v) \X (0 .. from) :
                   s[1] \in High(lev, s[2]) \intersect W /\ (s[2] >= to \/ s[2] = from)}
           down == [s \in (DOMAIN v) \X (0 .. from) |->
                     IF s[2] > to THEN <<GreedyAt(v, g, q, s[1], s[2]), s[2] - 1>> ELSE s]
           first == <<e, from>>
<1>1. first \in T /\ from \in Nat
  BY DEF Levels, High
<1>2. ASSUME NEW s \in T PROVE down[s] \in T
  <2> DEFINE x == s[1]
             k == s[2]
             y == GreedyAt(v, g, q, x, k)
             S == High(lev, k) \intersect W
  <2>1. /\ s \in (DOMAIN v) \X (0 .. from) /\ k \in 0 .. from /\ x \in S
        /\ (k >= to \/ k = from)
    OBVIOUS
  <2>2. down[s] = IF k > to THEN <<y, k - 1>> ELSE s
    BY <2>1
  <2>3. ASSUME k > to PROVE <<y, k - 1>> \in T
    <3>1. S \in SUBSET DOMAIN v
      BY DEF Levels, High
    <3>2. Closed(g, S, k)
      BY <2>1 DEF Inside
    <3>3. y \in S
      <4> HIDE DEF S, k, x
      <4> QED
        BY <2>1, <3>1, <3>2, GreedyStays
    <3>4. k - 1 \in 0 .. from /\ k - 1 >= to
      BY <2>1, <2>3
    <3>5. y \in High(lev, k - 1)
      <4> HIDE DEF y, k
      <4>1. y \in DOMAIN lev /\ lev[y] >= k /\ lev[y] \in Int /\ k \in Int
        BY <2>1, <3>3 DEF Levels, High
      <4> QED
        BY <4>1 DEF High
    <3> HIDE DEF y, k
    <3>6. <<y, k - 1>> \in (DOMAIN v) \X (0 .. from)
      BY <3>1, <3>3, <3>4
    <3>7. <<y, k - 1>>[1] = y /\ <<y, k - 1>>[2] = k - 1
      OBVIOUS
    <3>8. y \in W
      BY <3>3
    <3> QED
      BY <3>4, <3>5, <3>6, <3>7, <3>8
  <2> HIDE DEF T, down, k, y
  <2> QED
    BY <2>2, <2>3
<1>3. Within(down, T)
  BY <1>2 DEF Within
<1>4. Repeated(down, first, from) \in T
  <2> HIDE DEF T, down, first
  <2> QED
    BY <1>1, <1>3, RepeatedKeeps
<1> DEFINE r == Repeated(down, first, from)
<1>5. Descend(v, g, q, e, from, to) = r[1]
  BY DEF Descend
<1> HIDE DEF r, down, first
<1>6. r[1] \in High(lev, r[2]) /\ r[1] \in W /\ (r[2] >= to \/ r[2] = from) /\ r[2] \in 0 .. from
  BY <1>4 DEF r
<1>7. r[1] \in DOMAIN lev /\ lev[r[1]] >= r[2] /\ lev[r[1]] \in Int /\ r[2] \in Int
  BY <1>6 DEF High, Levels
<1>8. r[1] \in High(lev, IF to < from THEN to ELSE from)
  BY <1>6, <1>7 DEF High
<1> QED
  BY <1>5, <1>6, <1>8

-----------------------------------------------------------------------------
(* Linking keeps the lists of a graph within their levels and their room.  *)

LEMMA RoomFacts == \A l \in Nat : Mcurmax(l) \in Nat \ {0} /\ M <= Mcurmax(l) /\ M \in Nat \ {0}
BY GraphAssumption DEF Mcurmax

LEMMA SequenceOf ==
  ASSUME NEW T, NEW n \in Nat, NEW f \in [1 .. n -> T]
  PROVE  f \in Seq(T) /\ Len(f) = n
OBVIOUS

LEMMA ExceptSequence ==
  ASSUME NEW T, NEW s \in Seq(T), NEW i \in 1 .. Len(s), NEW x \in T
  PROVE  [s EXCEPT ![i] = x] \in Seq(T) /\ Len([s EXCEPT ![i] = x]) = Len(s)
<1> DEFINE f == [s EXCEPT ![i] = x]
<1>1. Len(s) \in Nat /\ s \in [1 .. Len(s) -> T]
  OBVIOUS
<1>2. f \in [1 .. Len(s) -> T]
  BY <1>1
<1> HIDE DEF f
<1>3. f \in Seq(T) /\ Len(f) = Len(s)
  BY <1>1, <1>2, SequenceOf
<1> QED
  BY <1>3 DEF f

(* The lists of S at level l, replaced by f.                               *)
Replaced(g, S, f, l) ==
  [e \in DOMAIN g |-> IF e \in S THEN [g[e] EXCEPT ![l + 1] = f[e]] ELSE g[e]]

Suits(f, S, lev, l) ==
  \A e \in S : f[e] \subseteq High(lev, l) \ {e} /\ Cardinality(f[e]) <= Mcurmax(l)

SameElsewhere(h, g, lev, l) ==
  \A k \in Nat \ {l} : \A e \in High(lev, k) : ListAt(h, e, k) = ListAt(g, e, k)

(* Lists replaced by lists that fit.                                       *)
LEMMA ReplacedFits ==
  ASSUME NEW v \in Vectors, NEW lev \in Levels(v), NEW g \in Graphs(v, lev),
         NEW l \in Nat, NEW S \in SUBSET High(lev, l), NEW f \in [S -> SUBSET DOMAIN v],
         Suits(f, S, lev, l)
  PROVE  /\ Replaced(g, S, f, l) \in Graphs(v, lev)
         /\ SameElsewhere(Replaced(g, S, f, l), g, lev, l)
<1> DEFINE h == Replaced(g, S, f, l)
<1>0. h = [e \in DOMAIN g |-> IF e \in S THEN [g[e] EXCEPT ![l + 1] = f[e]] ELSE g[e]]
  BY DEF Replaced
<1> HIDE DEF h
<1>1. /\ g \in Lists(v) /\ Len(g) = Len(v) /\ Len(v) \in Nat /\ DOMAIN v = 1 .. Len(v)
      /\ DOMAIN g = DOMAIN v
      /\ \A e \in DOMAIN v : /\ g[e] \in Seq(SUBSET DOMAIN v) /\ Len(g[e]) = lev[e] + 1
                             /\ lev[e] \in Nat
  BY VectorFacts DEF Graphs, Lists, Levels
<1>2. \A e \in S : e \in DOMAIN v /\ lev[e] >= l
  BY DEF High, Levels
<1>3. ASSUME NEW e \in DOMAIN v
      PROVE  h[e] \in Seq(SUBSET DOMAIN v) /\ Len(h[e]) = lev[e] + 1
  <2>1. CASE e \in S
    <3>1. h[e] = [g[e] EXCEPT ![l + 1] = f[e]]
      BY <1>0, <1>1, <2>1
    <3>2. f[e] \in SUBSET DOMAIN v
      BY <2>1
    <3>3. l + 1 \in 1 .. Len(g[e])
      BY <1>1, <1>2, <2>1
    <3> DEFINE s == g[e]
               x == f[e]
               i == l + 1
               T == SUBSET DOMAIN v
    <3>4. s \in Seq(T) /\ i \in 1 .. Len(s) /\ x \in T
      BY <1>1, <3>2, <3>3
    <3> HIDE DEF s, x, i, T
    <3>5. [s EXCEPT ![i] = x] \in Seq(T) /\ Len([s EXCEPT ![i] = x]) = Len(s)
      BY <3>4, ExceptSequence
    <3> QED
      BY <1>1, <3>1, <3>5 DEF s, x, i, T
  <2>2. CASE e \notin S
    BY <1>0, <1>1, <2>2
  <2> QED
    BY <2>1, <2>2
<1>4. h \in Lists(v) /\ Len(h) = Len(v)
  <2>1. DOMAIN h = 1 .. Len(v)
    BY <1>0, <1>1
  <2>2. \A e \in 1 .. Len(v) : h[e] \in Seq(SUBSET DOMAIN v)
    BY <1>1, <1>3
  <2>3. h \in [1 .. Len(v) -> Seq(SUBSET DOMAIN v)]
    <3>1. h = [e \in 1 .. Len(v) |-> h[e]]
      BY <1>0, <1>1
    <3> QED
      BY <2>2, <3>1
  <2> QED
    <3> DEFINE n == Len(v)
               T == Seq(SUBSET DOMAIN v)
    <3>1. n \in Nat /\ h \in [1 .. n -> T]
      BY <1>1, <2>3
    <3> HIDE DEF n, T
    <3>2. h \in Seq(T) /\ Len(h) = n
      BY <3>1, SequenceOf
    <3> QED
      BY <3>2 DEF n, T, Lists
<1>5. ASSUME NEW k \in Nat, NEW e \in High(lev, k)
      PROVE  ListAt(h, e, k) = IF e \in S /\ k = l THEN f[e] ELSE ListAt(g, e, k)
  <2>1. e \in DOMAIN v /\ e \in DOMAIN g /\ k + 1 \in 1 .. Len(g[e])
    BY <1>1 DEF High, Levels
  <2>2. CASE e \in S
    <3>1. h[e] = [g[e] EXCEPT ![l + 1] = f[e]]
      BY <1>0, <2>1, <2>2
    <3>2. h[e][k + 1] = IF k + 1 = l + 1 THEN f[e] ELSE g[e][k + 1]
      BY <1>1, <2>1, <3>1
    <3> QED
      BY <2>2, <3>2 DEF ListAt
  <2>3. CASE e \notin S
    BY <1>0, <2>1, <2>3 DEF ListAt
  <2> QED
    BY <2>2, <2>3
<1>6. ASSUME NEW e \in DOMAIN v, NEW k \in 0 .. lev[e] PROVE Fits(h, lev, e, k)
  <2>1. k \in Nat /\ e \in High(lev, k)
    BY <1>1 DEF High, Levels
  <2>2. Fits(g, lev, e, k)
    BY DEF Graphs
  <2>3. CASE e \in S /\ k = l
    BY <1>5, <2>1, <2>3 DEF Fits, Suits
  <2>4. CASE ~(e \in S /\ k = l)
    BY <1>5, <2>1, <2>2, <2>4 DEF Fits
  <2> QED
    BY <2>3, <2>4
<1>7. h \in Graphs(v, lev)
  BY <1>3, <1>4, <1>6 DEF Graphs
<1>8. SameElsewhere(h, g, lev, l)
  BY <1>5 DEF SameElsewhere
<1> QED
  BY <1>7, <1>8 DEF h

LEMMA GraphFits ==
  ASSUME NEW v \in Vectors, NEW lev \in Levels(v), NEW g \in Graphs(v, lev),
         NEW l \in Nat, NEW e \in High(lev, l)
  PROVE  /\ ListAt(g, e, l) \subseteq High(lev, l) \ {e}
         /\ Cardinality(ListAt(g, e, l)) <= Mcurmax(l)
         /\ ListAt(g, e, l) \in SUBSET DOMAIN v
         /\ IsFiniteSet(ListAt(g, e, l)) /\ Cardinality(ListAt(g, e, l)) \in Nat
<1>1. e \in DOMAIN v /\ l \in 0 .. lev[e]
  BY DEF High, Levels
<1>2. Fits(g, lev, e, l)
  BY <1>1 DEF Graphs
<1>3. ListAt(g, e, l) \in SUBSET DOMAIN v
  BY <1>2 DEF Fits, High, Levels
<1> QED
  BY <1>2, <1>3, VectorFacts, FS_Subset, FS_CardinalityType DEF Fits

(* A neighbour takes c into its list.                                      *)
LEMMA BackLinkFits ==
  ASSUME NEW v \in Vectors, NEW lev \in Levels(v), NEW g \in Graphs(v, lev),
         NEW l \in Nat, NEW c \in High(lev, l), NEW n \in High(lev, l) \ {c}
  PROVE  LET list == WithBackLink(v, ListAt(g, n, l), n, c, l)
         IN  list \subseteq High(lev, l) \ {n} /\ Cardinality(list) <= Mcurmax(l)
<1> DEFINE list == ListAt(g, n, l)
           m == Mcurmax(l)
           q == v[n]
           C == list \union {c}
           back == WithBackLink(v, list, n, c, l)
<1> SUFFICES back \subseteq High(lev, l) \ {n} /\ Cardinality(back) <= m
  OBVIOUS
<1>1. /\ list \subseteq High(lev, l) \ {n} /\ Cardinality(list) <= m
      /\ IsFiniteSet(list) /\ Cardinality(list) \in Nat
  BY GraphFits
<1>2. m \in Nat \ {0}
  BY RoomFacts
<1>3. C \subseteq High(lev, l) \ {n} /\ C \in SUBSET DOMAIN v
  BY <1>1 DEF High, Levels
<1>4. q \in Places
  BY VectorFacts DEF Places, High, Levels
<1>5. back = IF c \in list \/ Cardinality(list) < m THEN C
                                       ELSE Heuristic(v, C, q, m)
  BY DEF WithBackLink
<1> HIDE DEF m, q, back
<1>6. CASE c \in list
  <2>1. C = list
    BY <1>6
  <2> HIDE DEF list, C
  <2> QED
    BY <1>1, <1>5, <1>6, <2>1
<1>7. CASE c \notin list /\ Cardinality(list) < m
  <2>1. Cardinality(C) = Cardinality(list) + 1
    <3> HIDE DEF list
    <3> QED
      BY <1>1, <1>7, FS_AddElement
  <2> QED
    BY <1>1, <1>2, <1>3, <1>5, <1>7, <2>1
<1>8. CASE ~(c \in list \/ Cardinality(list) < m)
  <2>1. Heuristic(v, C, q, m) \subseteq C /\ Cardinality(Heuristic(v, C, q, m)) <= m
    <3> HIDE DEF C
    <3> QED
      BY <1>2, <1>3, <1>4, HeuristicKeeps
  <2> QED
    BY <1>3, <1>5, <1>8, <2>1
<1> QED
  BY <1>6, <1>7, <1>8

LEMMA SelectedFits ==
  ASSUME NEW v \in Vectors, NEW c \in DOMAIN v, NEW C \in SUBSET DOMAIN v
  PROVE  /\ Selected(v, C, c) \subseteq C /\ Cardinality(Selected(v, C, c)) <= M
         /\ C # {} => Selected(v, C, c) # {}
<1>1. v[c] \in Places /\ M \in Nat \ {0}
  BY VectorFacts, GraphAssumption DEF Places
<1> QED
  BY <1>1, HeuristicKeeps DEF Selected

(* mutuallyConnectNewElement                                               *)
LEMMA ConnectedFits ==
  ASSUME NEW v \in Vectors, NEW lev \in Levels(v), NEW g \in Graphs(v, lev),
         NEW l \in Nat, NEW c \in High(lev, l), NEW C \in SUBSET (High(lev, l) \ {c})
  PROVE  /\ Connected(v, g, c, C, l) \in Graphs(v, lev)
         /\ SameElsewhere(Connected(v, g, c, C, l), g, lev, l)
<1> DEFINE sel == Selected(v, C, c)
           S == sel \union {c}
           f == [e \in S |-> IF e = c THEN sel ELSE WithBackLink(v, ListAt(g, e, l), e, c, l)]
           h == Connected(v, g, c, C, l)
<1>1. sel \subseteq High(lev, l) \ {c} /\ Cardinality(sel) <= Mcurmax(l)
  <2>1. c \in DOMAIN v /\ C \in SUBSET DOMAIN v
    BY DEF High, Levels
  <2>2. sel \subseteq C /\ Cardinality(sel) <= M
    BY <2>1, SelectedFits
  <2>3. Cardinality(sel) \in Nat
    <3>1. sel \in SUBSET DOMAIN v
      BY <2>1, <2>2
    <3> HIDE DEF sel
    <3> QED
      BY <3>1, VectorFacts, FS_Subset, FS_CardinalityType
  <2> HIDE DEF sel
  <2> QED
    BY <2>2, <2>3, RoomFacts
<1>2. Suits(f, S, lev, l)
  <2> SUFFICES ASSUME NEW e \in S
               PROVE  f[e] \subseteq High(lev, l) \ {e} /\ Cardinality(f[e]) <= Mcurmax(l)
    BY DEF Suits
  <2>1. CASE e = c
    <3>1. f[e] = sel
      BY <2>1
    <3> HIDE DEF f, sel
    <3> QED
      BY <1>1, <2>1, <3>1
  <2>2. CASE e # c
    <3>1. f[e] = WithBackLink(v, ListAt(g, e, l), e, c, l)
      BY <2>2
    <3>2. e \in High(lev, l) \ {c}
      <4> HIDE DEF sel
      <4> QED
        BY <1>1, <2>2
    <3> HIDE DEF f, S
    <3> QED
      BY <3>1, <3>2, BackLinkFits
  <2> QED
    BY <2>1, <2>2
<1>3. S \in SUBSET High(lev, l) /\ f \in [S -> SUBSET DOMAIN v]
  <2>1. S \in SUBSET High(lev, l)
    <3> HIDE DEF sel
    <3> QED
      BY <1>1
  <2>2. High(lev, l) \subseteq DOMAIN v
    BY DEF High, Levels
  <2>3. \A e \in S : f[e] \in SUBSET DOMAIN v
    <3> HIDE DEF f, S
    <3> QED
      BY <1>2, <2>2 DEF Suits
  <2>4. f = [e \in S |-> f[e]]
    OBVIOUS
  <2> HIDE DEF f, S
  <2> QED
    BY <2>1, <2>3, <2>4
<1>4. h = Replaced(g, S, f, l)
  <2>1. h = [e \in DOMAIN g |->
              IF e = c THEN [g[e] EXCEPT ![l + 1] = sel]
              ELSE IF e \in sel THEN [g[e] EXCEPT ![l + 1] = WithBackLink(v, g[e][l + 1], e, c, l)]
              ELSE g[e]]
    BY DEF Connected
  <2>2. ASSUME NEW e \in DOMAIN g
        PROVE  (IF e = c THEN [g[e] EXCEPT ![l + 1] = sel]
                ELSE IF e \in sel THEN [g[e] EXCEPT ![l + 1] = WithBackLink(v, g[e][l + 1], e, c, l)]
                ELSE g[e])
               = IF e \in S THEN [g[e] EXCEPT ![l + 1] = f[e]] ELSE g[e]
    <3>1. CASE e = c
      <4>1. e \in S /\ f[e] = sel
        BY <3>1
      <4> HIDE DEF f, S, sel
      <4> QED
        BY <3>1, <4>1
    <3>2. CASE e # c /\ e \in sel
      <4>1. e \in S /\ f[e] = WithBackLink(v, g[e][l + 1], e, c, l)
        BY <3>2 DEF ListAt
      <4> HIDE DEF f, S, sel
      <4> QED
        BY <3>2, <4>1
    <3>3. CASE e # c /\ e \notin sel
      <4>1. e \notin S
        BY <3>3
      <4> HIDE DEF f, S, sel
      <4> QED
        BY <3>3, <4>1
    <3> QED
      BY <3>1, <3>2, <3>3
  <2> HIDE DEF f, S, sel, h
  <2> QED
    BY <2>1, <2>2, Zenon DEF Replaced
<1> HIDE DEF h, S, f
<1>5. h \in Graphs(v, lev) /\ SameElsewhere(h, g, lev, l)
  BY <1>2, <1>3, <1>4, ReplacedFits
<1> QED
  BY <1>5 DEF h

(* The candidates of c, searched from within W.                            *)
EntryWithin(del, S) == enterpoint_node_ \in del => enterpoint_node_ \in S

LEMMA CandidatesFit ==
  ASSUME NEW v \in Vectors, NEW c \in DOMAIN v, NEW g, NEW del, NEW l,
         NEW isUpdate \in BOOLEAN, NEW S \in SUBSET DOMAIN v, Closed(g, S, l),
         isUpdate \/ c \notin S, EntryWithin(del, S \ {c}), NEW e \in S
  PROVE  CandidatesOf(v, g, del, c, e, l, isUpdate) \subseteq S \ {c}
<1> DEFINE q == v[c]
           found == SearchBaseLayer(v, g, del, e, q, l, EfConstruction)
           others == IF isUpdate THEN found \ {c} ELSE found
           both == others \union {enterpoint_node_}
<1>1. q \in Places
  BY VectorFacts DEF Places
<1>2. found \subseteq S
  <2> HIDE DEF q
  <2> QED
    BY <1>1, SearchStays
<1>3. others \subseteq S \ {c}
  <2> HIDE DEF found
  <2>1. CASE isUpdate
    BY <1>2, <2>1
  <2>2. CASE ~isUpdate
    BY <1>2, <2>2
  <2> QED
    BY <2>1, <2>2
<1>4. CandidatesOf(v, g, del, c, e, l, isUpdate) =
        IF enterpoint_node_ \in del /\ ~(isUpdate /\ others = {})
        THEN KClosest(v, both, q, EfConstruction) ELSE others
  BY DEF CandidatesOf
<1>5. KClosest(v, both, q, EfConstruction) \subseteq both
  BY DEF KClosest
<1> HIDE DEF q, others
<1>6. CASE enterpoint_node_ \in del /\ ~(isUpdate /\ others = {})
  <2>1. both \subseteq S \ {c}
    BY <1>3, <1>6 DEF EntryWithin
  <2> HIDE DEF both
  <2> QED
    BY <1>4, <1>5, <1>6, <2>1
<1>7. CASE ~(enterpoint_node_ \in del /\ ~(isUpdate /\ others = {}))
  <2> HIDE DEF both
  <2> QED
    BY <1>3, <1>4, <1>7
<1> QED
  BY <1>6, <1>7

LEMMA HighFacts ==
  ASSUME NEW v \in Vectors, NEW lev \in Levels(v), NEW l \in Int
  PROVE  High(lev, l) \in SUBSET DOMAIN v /\ High(lev, l) \subseteq High(lev, l - 1)
<1>1. DOMAIN lev = DOMAIN v /\ \A e \in DOMAIN v : lev[e] \in Int
  BY GraphAssumption DEF Levels
<1>2. \A e \in DOMAIN v : lev[e] >= l => lev[e] >= l - 1
  BY <1>1
<1> QED
  BY <1>1, <1>2 DEF High

(* All levels of c are linked.                                             *)
LEMMA LinkLevelsFit ==
  ASSUME NEW v \in Vectors, NEW lev \in Levels(v), NEW g \in Graphs(v, lev),
         NEW c \in DOMAIN v, NEW l \in 0 .. lev[c], NEW del, NEW isUpdate \in BOOLEAN,
         NEW W, isUpdate \/ c \notin W, Inside(g, lev, W, l),
         EntryWithin(del, (High(lev, l) \intersect W) \ {c}),
         NEW e \in High(lev, l) \intersect W
  PROVE  /\ LinkLevels(v, g, del, c, e, l, isUpdate).lists \in Graphs(v, lev)
         /\ LinkLevels(v, g, del, c, e, l, isUpdate).empty \in BOOLEAN
<1> DEFINE T == {s \in LinkStates(v) :
                   /\ s.lists \in Graphs(v, lev) /\ s.l \in -1 .. l
                   /\ s.e \in High(lev, s.l) \intersect W /\ Inside(s.lists, lev, W, s.l)}
           step == [s \in LinkStates(v) |-> LinkLevel(v, del, c, isUpdate, s)]
           first == [lists |-> g, e |-> e, l |-> l, empty |-> FALSE]
<1>1. l \in Nat /\ lev[c] \in Nat /\ l <= lev[c]
  BY DEF Levels
<1>2. first \in T /\ l + 1 \in Nat
  <2>1. first \in LinkStates(v)
    BY <1>1, HighFacts DEF LinkStates, Graphs
  <2> QED
    BY <1>1, <2>1
<1>3. ASSUME NEW s \in T PROVE step[s] \in T
  <2> DEFINE h == s.lists
             k == s.l
             S == High(lev, k) \intersect W
             C == CandidatesOf(v, h, del, c, s.e, k, isUpdate)
             sel == Selected(v, C, c)
             next == Closest(v, sel, v[c])
             stop == k < 0 \/ s.empty
  <2>1. /\ s \in LinkStates(v) /\ h \in Graphs(v, lev) /\ k \in -1 .. l /\ k \in Int
        /\ s.e \in S /\ Inside(h, lev, W, k)
    OBVIOUS
  <2>2. step[s] = IF stop THEN s
                  ELSE IF C # {} THEN [lists |-> Connected(v, h, c, C, k), empty |-> FALSE,
                                       e |-> next, l |-> k - 1]
                  ELSE IF isUpdate THEN [s EXCEPT !.l = k - 1]
                  ELSE [s EXCEPT !.empty = TRUE]
    BY <2>1 DEF LinkLevel
  <2>3. ASSUME ~stop
        PROVE  /\ k \in Nat /\ k - 1 \in -1 .. l /\ S \subseteq High(lev, k - 1)
               /\ S \in SUBSET DOMAIN v /\ Closed(h, S, k) /\ c \in High(lev, k)
               /\ Inside(h, lev, W, k - 1) /\ EntryWithin(del, S \ {c})
    <3>1. k \in Nat /\ k - 1 \in -1 .. l /\ k \in 0 .. k /\ k <= l
      BY <1>1, <2>1, <2>3
    <3>2. S \subseteq High(lev, k - 1) /\ S \in SUBSET DOMAIN v
      BY <2>1, HighFacts
    <3>3. Closed(h, S, k)
      BY <2>1, <3>1 DEF Inside
    <3>4. c \in High(lev, k)
      <4>1. lev[c] >= k /\ c \in DOMAIN lev
        BY <1>1, <3>1 DEF Levels
      <4> QED
        BY <4>1 DEF High
    <3>5. Inside(h, lev, W, k - 1)
      BY <2>1, <3>1 DEF Inside
    <3>6. High(lev, l) \subseteq High(lev, k)
      <4>1. \A x \in DOMAIN lev : lev[x] \in Nat
        BY DEF Levels
      <4> QED
        BY <1>1, <3>1, <4>1 DEF High
    <3>7. EntryWithin(del, S \ {c})
      BY <3>6 DEF EntryWithin
    <3> QED
      BY <3>1, <3>2, <3>3, <3>4, <3>5, <3>7
  <2>4. ASSUME ~stop, C # {}
        PROVE  [lists |-> Connected(v, h, c, C, k), empty |-> FALSE, e |-> next, l |-> k - 1] \in T
    <3>1. C \subseteq S \ {c}
      <4> DEFINE x == s.e
      <4>1. x \in S /\ (isUpdate \/ c \notin S)
        BY <2>1
      <4> HIDE DEF S, h, k, x
      <4>2. CandidatesOf(v, h, del, c, x, k, isUpdate) \subseteq S \ {c}
        BY <2>3, <2>4, <4>1, CandidatesFit
      <4> QED
        BY <4>2 DEF x
    <3>2. C \in SUBSET (High(lev, k) \ {c}) /\ C \in SUBSET DOMAIN v
      BY <2>3, <2>4, <3>1
    <3> DEFINE d == Connected(v, h, c, C, k)
    <3>3. d \in Graphs(v, lev) /\ SameElsewhere(d, h, lev, k)
      <4> HIDE DEF C, h, k
      <4> QED
        BY <2>1, <2>3, <2>4, <3>2, ConnectedFits
    <3>4. Inside(d, lev, W, k - 1)
      <4>1. ASSUME NEW j \in 0 .. k - 1, NEW x \in High(lev, j) \intersect W
            PROVE  ListAt(d, x, j) \subseteq High(lev, j) \intersect W
        <5>1. j \in Nat \ {k}
          BY <2>1
        <5>2. ListAt(d, x, j) = ListAt(h, x, j)
          BY <3>3, <5>1 DEF SameElsewhere
        <5>3. ListAt(h, x, j) \subseteq High(lev, j) \intersect W
          BY <2>3, <2>4 DEF Inside, Closed
        <5> QED
          BY <5>2, <5>3
      <4> HIDE DEF d, k
      <4> QED
        BY <4>1 DEF Inside, Closed
    <3>5. sel # {} /\ sel \subseteq C /\ sel \in SUBSET DOMAIN v
      <4> HIDE DEF C
      <4> QED
        BY <2>4, <3>2, SelectedFits
    <3>6. next \in sel
      <4> DEFINE q == v[c]
      <4>1. q \in Places
        BY VectorFacts DEF Places
      <4> HIDE DEF q, sel
      <4>2. Closest(v, sel, q) \in sel
        BY <3>5, <4>1, ClosestIs
      <4> QED
        BY <4>2 DEF q
    <3>7. next \in High(lev, k - 1) /\ next \in W /\ next \in DOMAIN v
      <4> HIDE DEF sel, next, C
      <4> QED
        BY <2>3, <2>4, <3>1, <3>5, <3>6
    <3> DEFINE r == [lists |-> d, empty |-> FALSE, e |-> next, l |-> k - 1]
    <3>8. r.lists = d /\ r.e = next /\ r.l = k - 1
      OBVIOUS
    <3>9. r \in LinkStates(v)
      <4>1. d \in Lists(v) /\ k - 1 \in Int
        BY <2>1, <3>3 DEF Graphs
      <4> HIDE DEF d, next, k
      <4> QED
        BY <3>7, <4>1 DEF LinkStates
    <3> HIDE DEF r, d, next, k
    <3>10. r \in T
      BY <2>3, <2>4, <3>3, <3>4, <3>7, <3>8, <3>9
    <3> QED
      BY <3>10 DEF r, d
  <2>5. ASSUME ~stop PROVE [s EXCEPT !.l = k - 1] \in T
    <3> DEFINE r == [s EXCEPT !.l = k - 1]
    <3>1. r \in LinkStates(v) /\ r.lists = h /\ r.e = s.e /\ r.l = k - 1
      BY <2>1 DEF LinkStates
    <3> HIDE DEF r, k, h
    <3> QED
      BY <2>1, <2>3, <2>5, <3>1 DEF r
  <2>6. [s EXCEPT !.empty = TRUE] \in T
    <3> DEFINE r == [s EXCEPT !.empty = TRUE]
    <3>1. r \in LinkStates(v) /\ r.lists = h /\ r.e = s.e /\ r.l = k
      BY <2>1 DEF LinkStates
    <3> HIDE DEF r, k, h
    <3> QED
      BY <2>1, <3>1 DEF r, k
  <2> HIDE DEF step, T, stop, C, next, k, h
  <2>7. CASE stop
    BY <2>2, <2>7
  <2>8. CASE ~stop /\ C # {}
    BY <2>2, <2>4, <2>8
  <2>9. CASE ~stop /\ C = {} /\ isUpdate
    BY <2>2, <2>5, <2>9
  <2>10. CASE ~stop /\ C = {} /\ ~isUpdate
    BY <2>2, <2>6, <2>10
  <2> QED
    BY <2>7, <2>8, <2>9, <2>10
<1>4. Within(step, T)
  BY <1>3 DEF Within
<1> DEFINE r == Repeated(step, first, l + 1)
<1>5. r \in T
  <2> DEFINE n == l + 1
  <2> HIDE DEF T, step, first, n
  <2>1. Repeated(step, first, n) \in T
    BY <1>2, <1>4, RepeatedKeeps DEF n
  <2> QED
    BY <2>1 DEF n
<1>6. LinkLevels(v, g, del, c, e, l, isUpdate) = r
  BY DEF LinkLevels
<1> HIDE DEF r
<1> QED
  BY <1>5, <1>6 DEF LinkStates

-----------------------------------------------------------------------------
(* Updates link the neighbours anew.                                       *)

LEMMA RelinkedAtFits ==
  ASSUME NEW v \in Vectors, NEW lev \in Levels(v), NEW g \in Graphs(v, lev),
         NEW l \in Nat, NEW c \in High(lev, l)
  PROVE  RelinkedAt(v, g, c, l) \in Graphs(v, lev)
<1> DEFINE hop == ListAt(g, c, l)
           sCand == {c} \union hop \union UNION {ListAt(g, n, l) : n \in hop}
           Relinked(n) == Heuristic(v, KClosest(v, sCand \ {n}, v[n], EfConstruction),
                                    v[n], Mcurmax(l))
           f == [n \in hop |-> Relinked(n)]
<1>1. hop \subseteq High(lev, l) \ {c}
  BY GraphFits
<1>2. High(lev, l) \in SUBSET DOMAIN v
  BY DEF High, Levels
<1>3. sCand \subseteq High(lev, l)
  <2>1. \A n \in hop : ListAt(g, n, l) \subseteq High(lev, l)
    <3> HIDE DEF hop
    <3> QED
      BY <1>1, GraphFits
  <2> HIDE DEF hop
  <2> QED
    BY <1>1, <2>1
<1>4. ASSUME NEW n \in hop
      PROVE  Relinked(n) \subseteq High(lev, l) \ {n} /\ Cardinality(Relinked(n)) <= Mcurmax(l)
  <2> DEFINE q == v[n]
             m == Mcurmax(l)
             C == KClosest(v, sCand \ {n}, q, EfConstruction)
  <2>1. C \subseteq sCand \ {n}
    BY DEF KClosest
  <2>2. q \in Places /\ m \in Nat \ {0}
    <3>1. n \in DOMAIN v
      <4> HIDE DEF hop
      <4> QED
        BY <1>1, <1>2
    <3> QED
      BY <3>1, VectorFacts, RoomFacts DEF Places
  <2>3. C \subseteq High(lev, l) \ {n} /\ C \in SUBSET DOMAIN v
    <3> HIDE DEF C, sCand
    <3> QED
      BY <1>2, <1>3, <2>1
  <2>4. Relinked(n) = Heuristic(v, C, q, m)
    OBVIOUS
  <2> HIDE DEF C, q, m, Relinked
  <2>5. Heuristic(v, C, q, m) \subseteq C /\ Cardinality(Heuristic(v, C, q, m)) <= m
    BY <2>2, <2>3, HeuristicKeeps
  <2> QED
    BY <2>3, <2>4, <2>5 DEF m
<1>5. hop \in SUBSET High(lev, l) /\ f \in [hop -> SUBSET DOMAIN v] /\ Suits(f, hop, lev, l)
  <2> HIDE DEF hop, Relinked
  <2> QED
    BY <1>1, <1>2, <1>4 DEF Suits
<1>6. RelinkedAt(v, g, c, l) = Replaced(g, hop, f, l)
  <2>1. RelinkedAt(v, g, c, l) =
          [e \in DOMAIN g |-> IF e \in hop THEN [g[e] EXCEPT ![l + 1] = Relinked(e)] ELSE g[e]]
    BY DEF RelinkedAt
  <2> HIDE DEF hop, Relinked
  <2>2. \A e \in DOMAIN g :
          (IF e \in hop THEN [g[e] EXCEPT ![l + 1] = Relinked(e)] ELSE g[e])
          = IF e \in hop THEN [g[e] EXCEPT ![l + 1] = f[e]] ELSE g[e]
    OBVIOUS
  <2> HIDE DEF f
  <2> QED
    BY <2>1, <2>2, Zenon DEF Replaced
<1> HIDE DEF hop, f
<1> QED
  BY <1>5, <1>6, ReplacedFits

LEMMA RelinkLevelsFit ==
  ASSUME NEW v \in Vectors, NEW lev \in Levels(v), NEW g \in Graphs(v, lev), NEW c \in DOMAIN v
  PROVE  RelinkLevels(v, g, c) \in Graphs(v, lev)
<1> DEFINE n == Len(g[c])
           T == Graphs(v, lev) \X Nat
           step == [s \in Lists(v) \X Nat |->
                     IF s[2] < n THEN <<RelinkedAt(v, s[1], c, s[2]), s[2] + 1>> ELSE s]
           first == <<g, 0>>
           r == Repeated(step, first, n)
<1>1. n = lev[c] + 1 /\ lev[c] \in Nat /\ n \in Nat /\ DOMAIN lev = DOMAIN v
  BY DEF Graphs, Levels
<1>2. first \in T
  OBVIOUS
<1>3. ASSUME NEW s \in T PROVE step[s] \in T
  <2> DEFINE h == s[1]
             k == s[2]
             d == RelinkedAt(v, h, c, k)
  <2>1. s \in Lists(v) \X Nat /\ h \in Graphs(v, lev) /\ k \in Nat /\ s = <<h, k>>
    BY DEF Graphs
  <2>2. step[s] = IF k < n THEN <<d, k + 1>> ELSE s
    BY <2>1
  <2>3. ASSUME k < n PROVE <<d, k + 1>> \in T
    <3>1. c \in High(lev, k)
      BY <1>1, <2>1, <2>3 DEF High
    <3>2. d \in Graphs(v, lev)
      <4> HIDE DEF h, k
      <4> QED
        BY <2>1, <3>1, RelinkedAtFits
    <3> HIDE DEF d, k
    <3> QED
      BY <2>1, <3>2
  <2> HIDE DEF d, k, T, step
  <2> QED
    BY <2>2, <2>3
<1>4. Within(step, T)
  BY <1>3 DEF Within
<1>5. r \in T
  <2> HIDE DEF T, step, first, n
  <2> QED
    BY <1>1, <1>2, <1>4, RepeatedKeeps
<1>6. RelinkLevels(v, g, c) = r[1]
  BY DEF RelinkLevels
<1> HIDE DEF r
<1> QED
  BY <1>5, <1>6

-----------------------------------------------------------------------------
(* The inductive invariant.                                                *)

(* The lists are a graph of the levels lev, the entry point on the highest *)
(* of them.                                                                *)
Leveled(lev) ==
  /\ vec \in Vectors /\ Len(vec) <= MaxElements
  /\ lev \in Levels(vec) /\ links \in Graphs(vec, lev)
  /\ deleted \subseteq DOMAIN vec
  /\ IF vec = <<>> THEN enterpoint_node_ = None /\ maxlevel_ = -1
     ELSE /\ enterpoint_node_ \in DOMAIN vec /\ maxlevel_ \in 0 .. MaxLevel
          /\ lev[enterpoint_node_] = maxlevel_ /\ \A e \in DOMAIN vec : lev[e] <= maxlevel_
  /\ emptyback \in BOOLEAN /\ updates \in 0 .. MaxUpdates /\ marks \in 0 .. MaxMarks

IndInv == \E lev \in Levels(vec) : Leveled(lev)

LEMMA LeveledSound == ASSUME NEW lev, Leveled(lev) PROVE GraphSound
<1>1. /\ vec \in Vectors /\ Len(vec) <= MaxElements /\ lev \in Levels(vec)
      /\ links \in Graphs(vec, lev) /\ deleted \subseteq DOMAIN vec
      /\ emptyback \in BOOLEAN /\ updates \in 0 .. MaxUpdates /\ marks \in 0 .. MaxMarks
      /\ IF vec = <<>> THEN enterpoint_node_ = None /\ maxlevel_ = -1
         ELSE /\ enterpoint_node_ \in DOMAIN vec /\ maxlevel_ \in 0 .. MaxLevel
              /\ lev[enterpoint_node_] = maxlevel_ /\ \A e \in DOMAIN vec : lev[e] <= maxlevel_
  BY DEF Leveled
<1>2. Elements = DOMAIN vec /\ Len(links) = Len(vec) /\ Len(vec) \in Nat
  BY <1>1, VectorFacts DEF Elements, Graphs
<1>3. \A e \in Elements : LevelOf(e) = lev[e] /\ LevelOf(e) \in 0 .. MaxLevel /\ vec[e] \in Point
  <2> SUFFICES ASSUME NEW e \in Elements
               PROVE  LevelOf(e) = lev[e] /\ LevelOf(e) \in 0 .. MaxLevel /\ vec[e] \in Point
    OBVIOUS
  <2>1. lev[e] \in 0 .. MaxLevel /\ Len(links[e]) = lev[e] + 1
    BY <1>1, <1>2 DEF Graphs, Levels
  <2>2. LevelOf(e) = lev[e]
    <3>1. lev[e] \in Int
      BY <2>1
    <3> QED
      BY <2>1, <3>1 DEF LevelOf
  <2> QED
    BY <1>1, <1>2, <2>1, <2>2, VectorFacts
<1>4. ASSUME NEW e \in Elements, NEW l \in 0 .. LevelOf(e)
      PROVE  /\ Cardinality(ListAt(links, e, l)) <= Mcurmax(l)
             /\ \A n \in ListAt(links, e, l) : n \in Elements \ {e} /\ LevelOf(n) >= l
  <2>1. l \in 0 .. lev[e]
    BY <1>3
  <2>2. Fits(links, lev, e, l)
    BY <1>1, <1>2, <2>1 DEF Graphs
  <2>3. High(lev, l) \subseteq Elements /\ \A n \in High(lev, l) : lev[n] >= l
    BY <1>1, <1>2 DEF High, Levels
  <2> QED
    BY <1>3, <2>2, <2>3 DEF Fits
<1>5. TypeOK
  BY <1>1, <1>2, <1>3, <1>4 DEF TypeOK
<1>6. vec # <<>> => /\ LevelOf(enterpoint_node_) = maxlevel_
                    /\ \A e \in Elements : LevelOf(e) <= maxlevel_
  BY <1>1, <1>2, <1>3
<1> QED
  BY <1>4, <1>5, <1>6 DEF GraphSound

LEMMA InitInv == Init => IndInv
<1> SUFFICES ASSUME Init PROVE IndInv
  OBVIOUS
<1> DEFINE lev == [e \in DOMAIN vec |-> 0]
<1>1. vec = <<>> /\ links = <<>> /\ Len(vec) = 0 /\ DOMAIN vec = {}
  BY DEF Init
<1>2. vec \in Vectors /\ lev \in Levels(vec)
  BY <1>1, GraphAssumption DEF Vectors, Levels
<1>3. links \in Graphs(vec, lev)
  BY <1>1 DEF Graphs, Lists
<1> HIDE DEF lev
<1>4. Leveled(lev)
  <2>1. 0 \in 0 .. MaxMarks /\ 0 \in 0 .. MaxUpdates /\ Len(vec) <= MaxElements
    BY <1>1, GraphAssumption
  <2>2. /\ deleted = {} /\ enterpoint_node_ = None /\ maxlevel_ = -1 /\ emptyback = FALSE
        /\ updates = 0 /\ marks = 0
    BY DEF Init
  <2> QED
    BY <1>1, <1>2, <1>3, <2>1, <2>2 DEF Leveled
<1> QED
  BY <1>2, <1>4 DEF IndInv

LEMMA MarkInv ==
  ASSUME NEW lev, Leveled(lev), NEW e \in Elements, Mark(e)
  PROVE  Leveled(lev)'
<1>1. vec' = vec /\ links' = links /\ enterpoint_node_' = enterpoint_node_
      /\ maxlevel_' = maxlevel_ /\ emptyback' = emptyback /\ updates' = updates
  BY DEF Mark
<1>2. Elements = DOMAIN vec
  BY VectorFacts DEF Leveled, Elements
<1>3. deleted' \subseteq DOMAIN vec
  BY <1>2 DEF Mark, Leveled
<1>4. marks' \in 0 .. MaxMarks
  BY GraphAssumption DEF Mark, Leveled
<1> QED
  BY <1>1, <1>3, <1>4 DEF Leveled

(* An update keeps the levels of all elements.                             *)
LEMMA UpdateInv ==
  ASSUME NEW lev, Leveled(lev), NEW c \in Elements, NEW p \in Point, UpdatePoint(c, p)
  PROVE  Leveled(lev)'
<1> DEFINE v == [vec EXCEPT ![c] = p]
           del == deleted \ {c}
           g == RelinkLevels(v, links, c)
           start == Descend(v, g, p, enterpoint_node_, maxlevel_, LevelOf(c))
           linked == LinkLevels(v, g, del, c, start, LevelOf(c), TRUE)
           W == DOMAIN vec
           l == LevelOf(c)
           entry == enterpoint_node_
           b == TRUE
<1>1. /\ vec \in Vectors /\ Len(vec) <= MaxElements /\ lev \in Levels(vec)
      /\ links \in Graphs(vec, lev) /\ deleted \subseteq W
      /\ Len(vec) \in Nat /\ W = 1 .. Len(vec) /\ c \in W
  BY VectorFacts DEF Leveled, Elements
<1>2. vec # <<>>
  BY <1>1
<1>3. entry \in W /\ maxlevel_ \in 0 .. MaxLevel /\ lev[entry] = maxlevel_
      /\ \A e \in W : lev[e] <= maxlevel_
  BY <1>2 DEF Leveled
<1>4. v \in Vectors /\ Len(v) = Len(vec) /\ DOMAIN v = W
  <2>1. v \in Vectors /\ Len(v) = Len(vec)
    BY <1>1, ExceptSequence DEF Vectors
  <2> QED
    BY <2>1
<1>5. Levels(v) = Levels(vec) /\ Graphs(v, lev) = Graphs(vec, lev)
  <2> HIDE DEF v
  <2> QED
    BY <1>4 DEF Levels, Graphs, Lists
<1>6. lev \in Levels(v) /\ links \in Graphs(v, lev) /\ c \in DOMAIN v
  BY <1>1, <1>4, <1>5
<1> HIDE DEF v
<1>7. l = lev[c] /\ l \in 0 .. MaxLevel /\ l <= maxlevel_ /\ l \in Nat
  <2>1. lev[c] \in 0 .. MaxLevel /\ Len(links[c]) = lev[c] + 1 /\ lev[c] \in Int
    BY <1>1 DEF Graphs, Levels
  <2>2. l = lev[c]
    BY <2>1 DEF LevelOf
  <2> QED
    BY <1>1, <1>3, <2>1, <2>2
<1>8. g \in Graphs(v, lev)
  BY <1>4, <1>6, RelinkLevelsFit
<1> HIDE DEF g
<1>9. \A k \in Nat : Inside(g, lev, W, k)
  <2> SUFFICES ASSUME NEW k \in Nat, NEW j \in 0 .. k, NEW x \in High(lev, j) \intersect W
               PROVE  ListAt(g, x, j) \subseteq High(lev, j) \intersect W
    BY DEF Inside, Closed
  <2>1. ListAt(g, x, j) \subseteq High(lev, j)
    BY <1>4, <1>6, <1>8, GraphFits
  <2>2. High(lev, j) \subseteq W
    BY <1>1 DEF High, Levels
  <2> QED
    BY <2>1, <2>2
<1>10. entry \in High(lev, maxlevel_) /\ entry \in High(lev, l)
  <2>1. DOMAIN lev = W /\ lev[entry] \in Int /\ lev[entry] >= l /\ lev[entry] >= maxlevel_
    BY <1>1, <1>3, <1>7 DEF Levels
  <2> QED
    BY <1>3, <2>1 DEF High
<1> HIDE DEF l
<1>11. start \in High(lev, l) \intersect W
  <2>1. p \in Places /\ maxlevel_ \in Nat
    BY <1>3 DEF Places
  <2>2. Descend(v, g, p, entry, maxlevel_, l)
          \in High(lev, IF l < maxlevel_ THEN l ELSE maxlevel_) \intersect W
    <3> HIDE DEF W, entry
    <3> QED
      BY <1>3, <1>4, <1>6, <1>7, <1>9, <1>10, <2>1, DescendStays
  <2>3. (IF l < maxlevel_ THEN l ELSE maxlevel_) = l
    BY <1>7, <2>1
  <2> QED
    BY <2>2, <2>3 DEF l
<1>12. EntryWithin(del, (High(lev, l) \intersect W) \ {c})
  BY <1>3, <1>10 DEF EntryWithin
<1> HIDE DEF start, del
<1>13. linked.lists \in Graphs(v, lev)
  <2>1. b \in BOOLEAN /\ (b \/ c \notin W)
    OBVIOUS
  <2>2. l \in 0 .. lev[c]
    BY <1>7
  <2> HIDE DEF b, W
  <2>3. LinkLevels(v, g, del, c, start, l, b).lists \in Graphs(v, lev)
    BY <1>4, <1>6, <1>7, <1>8, <1>9, <1>11, <1>12, <2>1, <2>2, LinkLevelsFit
  <2> QED
    BY <2>3 DEF b, l
<1> HIDE DEF linked
<1>14. /\ vec' = v /\ deleted' = del /\ updates' = updates + 1 /\ updates < MaxUpdates
       /\ links' = IF Len(vec) = 1 THEN links ELSE linked.lists
       /\ enterpoint_node_' = enterpoint_node_ /\ maxlevel_' = maxlevel_
       /\ emptyback' = emptyback /\ marks' = marks
  BY DEF UpdatePoint, v, del, g, start, linked
<1>15. links' \in Graphs(v, lev)
  BY <1>6, <1>13, <1>14
<1>16. deleted' \subseteq DOMAIN v /\ v # <<>>
  BY <1>1, <1>4, <1>14 DEF del
<1>17. updates' \in 0 .. MaxUpdates
  BY <1>14, GraphAssumption DEF Leveled
<1> QED
  BY <1>1, <1>3, <1>4, <1>6, <1>14, <1>15, <1>16, <1>17 DEF Leveled

(* A new element, linked to those there are, has the level drawn for it.   *)
LEMMA AddInv ==
  ASSUME NEW lev, Leveled(lev), NEW p \in Point, NEW level \in 0 .. MaxLevel,
         AddPoint(p, level)
  PROVE  IndInv'
<1> DEFINE W == DOMAIN vec
           c == Len(vec) + 1
           v == Append(vec, p)
           empty == [k \in 1 .. level + 1 |-> {}]
           g == Append(links, empty)
           new == [e \in DOMAIN v |-> IF e = c THEN level ELSE lev[e]]
           entry == enterpoint_node_
           start == Descend(v, g, p, enterpoint_node_, maxlevel_, level)
           top == IF level < maxlevel_ THEN level ELSE maxlevel_
           linked == LinkLevels(v, g, deleted, c, start, top, FALSE)
           b == FALSE
<1>1. /\ vec \in Vectors /\ lev \in Levels(vec)
      /\ links \in Graphs(vec, lev) /\ deleted \subseteq W
      /\ Len(vec) \in Nat /\ W = 1 .. Len(vec) /\ DOMAIN lev = W
      /\ level \in Nat
  BY VectorFacts DEF Leveled, Levels
<1>2. /\ v \in Vectors /\ Len(v) = Len(vec) + 1 /\ DOMAIN v = W \union {c} /\ c \notin W
      /\ \A e \in W : v[e] = vec[e]
  BY <1>1 DEF Vectors
<1>3. /\ links \in Seq(Seq(SUBSET W)) /\ Len(links) = Len(vec)
      /\ \A e \in W : links[e] \in Seq(SUBSET W) /\ Len(links[e]) = lev[e] + 1 /\ lev[e] \in 0 .. MaxLevel
  BY <1>1 DEF Graphs, Lists, Levels
<1>4. empty \in Seq(SUBSET DOMAIN v) /\ Len(empty) = level + 1
  <2> DEFINE n == level + 1
             T == SUBSET DOMAIN v
  <2>1. n \in Nat /\ empty \in [1 .. n -> T]
    BY <1>1
  <2> HIDE DEF n, T, empty
  <2>2. empty \in Seq(T) /\ Len(empty) = n
    BY <2>1, SequenceOf
  <2> QED
    BY <2>2 DEF n, T
<1>5. \A k \in 0 .. level : empty[k + 1] = {}
  BY <1>1
<1> HIDE DEF empty
<1>6. new \in Levels(v) /\ new[c] = level /\ \A e \in W : new[e] = lev[e]
  BY <1>2, <1>3 DEF Levels
<1> HIDE DEF v, new
<1>7. /\ g \in Lists(v) /\ Len(g) = Len(v) /\ g[c] = empty /\ \A e \in W : g[e] = links[e]
  <2>1. Seq(SUBSET W) \subseteq Seq(SUBSET DOMAIN v)
    <3> DEFINE A == SUBSET W
               B == SUBSET DOMAIN v
    <3>1. A \subseteq B
      BY <1>2
    <3> HIDE DEF A, B
    <3>2. Seq(A) \subseteq Seq(B)
      BY <3>1
    <3> QED
      BY <3>2 DEF A, B
  <2> DEFINE A == Seq(SUBSET W)
             B == Seq(SUBSET DOMAIN v)
  <2>2. A \subseteq B /\ empty \in B /\ links \in Seq(A) /\ Len(links) = Len(vec)
    BY <1>3, <1>4, <2>1
  <2> HIDE DEF A, B
  <2>3. /\ g \in Seq(B) /\ Len(g) = Len(vec) + 1 /\ g[c] = empty
        /\ \A e \in 1 .. Len(vec) : g[e] = links[e]
    BY <1>1, <2>2
  <2> QED
    BY <1>1, <1>2, <2>3 DEF B, Lists
<1> HIDE DEF g
<1>8. \A k \in Nat : High(lev, k) \subseteq High(new, k) \intersect W
  <2>1. DOMAIN new = DOMAIN v
    BY <1>6 DEF Levels
  <2> QED
    BY <1>1, <1>2, <1>6, <2>1 DEF High
<1>9. \A k \in Nat : High(new, k) \intersect W \subseteq High(lev, k)
  BY <1>1, <1>6 DEF High
<1>10. g \in Graphs(v, new)
  <2>1. ASSUME NEW e \in DOMAIN v
        PROVE  Len(g[e]) = new[e] + 1 /\ \A k \in 0 .. new[e] : Fits(g, new, e, k)
    <3>1. CASE e = c
      <4>1. Len(g[e]) = new[e] + 1
        BY <1>4, <1>6, <1>7, <3>1
      <4>2. ASSUME NEW k \in 0 .. new[e] PROVE Fits(g, new, e, k)
        <5>1. ListAt(g, e, k) = {} /\ k \in Nat
          BY <1>1, <1>5, <1>6, <1>7, <3>1 DEF ListAt
        <5>2. Cardinality({}) <= Mcurmax(k)
          <6>1. Mcurmax(k) \in Nat
            BY <5>1, RoomFacts
          <6> QED
            BY <6>1, FS_EmptySet
        <5> QED
          BY <5>1, <5>2 DEF Fits
      <4> QED
        BY <4>1, <4>2
    <3>2. CASE e \in W
      <4>1. Len(g[e]) = new[e] + 1
        BY <1>3, <1>6, <1>7, <3>2
      <4>2. ASSUME NEW k \in 0 .. new[e] PROVE Fits(g, new, e, k)
        <5>1. k \in 0 .. lev[e] /\ k \in Nat
          BY <1>6, <3>2
        <5>2. Fits(links, lev, e, k)
          BY <1>1, <3>2, <5>1 DEF Graphs
        <5>3. ListAt(g, e, k) = ListAt(links, e, k)
          BY <1>7, <3>2 DEF ListAt
        <5> QED
          BY <1>8, <5>1, <5>2, <5>3 DEF Fits
      <4> QED
        BY <4>1, <4>2
    <3> QED
      BY <1>2, <3>1, <3>2
  <2> QED
    BY <1>7, <2>1 DEF Graphs
<1>11. \A k \in Nat : Inside(g, new, W, k)
  <2> SUFFICES ASSUME NEW k \in Nat, NEW j \in 0 .. k, NEW x \in High(new, j) \intersect W
               PROVE  ListAt(g, x, j) \subseteq High(new, j) \intersect W
    BY DEF Inside, Closed
  <2>1. x \in High(lev, j) /\ j \in Nat
    BY <1>9
  <2>2. ListAt(links, x, j) \subseteq High(lev, j)
    BY <1>1, <2>1, GraphFits
  <2>3. ListAt(g, x, j) = ListAt(links, x, j)
    BY <1>7 DEF ListAt
  <2> QED
    BY <1>8, <2>1, <2>2, <2>3
<1>12. ASSUME vec # <<>>
       PROVE  linked.lists \in Graphs(v, new) /\ linked.empty \in BOOLEAN
  <2>1. entry \in W /\ maxlevel_ \in 0 .. MaxLevel /\ lev[entry] = maxlevel_
    BY <1>12 DEF Leveled
  <2>2. maxlevel_ \in Nat /\ top \in Nat /\ top <= maxlevel_ /\ top <= level
    BY <1>1, <2>1
  <2> HIDE DEF top
  <2>3. entry \in High(new, maxlevel_) /\ entry \in High(new, top)
    <3>1. DOMAIN new = DOMAIN v /\ new[entry] = maxlevel_ /\ entry \in DOMAIN v
      BY <1>2, <1>6, <2>1 DEF Levels
    <3> QED
      BY <2>2, <3>1 DEF High
  <2>4. start \in High(new, top) \intersect W
    <3>1. p \in Places
      BY DEF Places
    <3>2. Descend(v, g, p, entry, maxlevel_, level)
            \in High(new, IF level < maxlevel_ THEN level ELSE maxlevel_) \intersect W
      <4> HIDE DEF W, entry
      <4> QED
        BY <1>1, <1>2, <1>6, <1>11, <2>1, <2>2, <2>3, <3>1, DescendStays
    <3> QED
      BY <3>2 DEF top
  <2>5. EntryWithin(deleted, (High(new, top) \intersect W) \ {c})
    BY <1>2, <2>1, <2>3 DEF EntryWithin
  <2> HIDE DEF start
  <2>6. b \in BOOLEAN /\ (b \/ c \notin W) /\ c \in DOMAIN v /\ top \in 0 .. new[c]
    BY <1>1, <1>2, <1>6, <2>2
  <2> HIDE DEF b, W, c
  <2>7. /\ LinkLevels(v, g, deleted, c, start, top, b).lists \in Graphs(v, new)
        /\ LinkLevels(v, g, deleted, c, start, top, b).empty \in BOOLEAN
    BY <1>2, <1>6, <1>10, <1>11, <2>2, <2>4, <2>5, <2>6, LinkLevelsFit
  <2> QED
    BY <2>7 DEF b, top
<1> HIDE DEF linked
<1> DEFINE l == IF vec = <<>> THEN [lists |-> g, empty |-> FALSE] ELSE linked
<1>13. l.lists \in Graphs(v, new) /\ l.empty \in BOOLEAN
  BY <1>10, <1>12
<1> HIDE DEF l
<1>14. /\ Len(vec) < MaxElements /\ vec' = v /\ links' = l.lists /\ emptyback' = l.empty
       /\ enterpoint_node_' = (IF level > maxlevel_ THEN c ELSE enterpoint_node_)
       /\ maxlevel_' = (IF level > maxlevel_ THEN level ELSE maxlevel_)
       /\ deleted' = deleted /\ updates' = updates /\ marks' = marks
  BY DEF AddPoint, l, v, g, empty, start, linked
<1>15. Len(v) <= MaxElements /\ v # <<>>
  BY <1>1, <1>2, <1>14, GraphAssumption
<1>16. /\ enterpoint_node_' \in DOMAIN v /\ maxlevel_' \in 0 .. MaxLevel
       /\ new[enterpoint_node_'] = maxlevel_' /\ \A e \in DOMAIN v : new[e] <= maxlevel_'
  <2>1. CASE vec = <<>>
    <3>1. maxlevel_ = -1 /\ W = {}
      BY <1>1, <2>1 DEF Leveled
    <3>2. level > maxlevel_
      BY <1>1, <3>1
    <3> QED
      BY <1>1, <1>2, <1>6, <1>14, <3>1, <3>2
  <2>2. CASE vec # <<>>
    <3>1. entry \in W /\ maxlevel_ \in 0 .. MaxLevel /\ lev[entry] = maxlevel_
          /\ \A e \in W : lev[e] <= maxlevel_ /\ lev[e] \in Nat
      BY <1>3, <2>2 DEF Leveled
    <3>2. CASE level > maxlevel_
      <4>1. \A e \in W : new[e] <= level
        BY <1>1, <1>6, <3>1, <3>2
      <4> QED
        BY <1>1, <1>2, <1>6, <1>14, <3>2, <4>1
    <3>3. CASE ~(level > maxlevel_)
      <4>1. \A e \in W : new[e] <= maxlevel_
        BY <1>6, <3>1
      <4>2. new[c] <= maxlevel_
        BY <1>1, <1>6, <3>1, <3>3
      <4> QED
        BY <1>2, <1>6, <1>14, <3>1, <3>3, <4>1, <4>2
    <3> QED
      BY <3>2, <3>3
  <2> QED
    BY <2>1, <2>2
<1>17. deleted' \subseteq DOMAIN v /\ updates' \in 0 .. MaxUpdates /\ marks' \in 0 .. MaxMarks
  BY <1>1, <1>2, <1>14 DEF Leveled
<1>18. PICK m : m = new
  OBVIOUS
<1>19. m \in Levels(v) /\ l.lists \in Graphs(v, m)
       /\ m[enterpoint_node_'] = maxlevel_' /\ \A e \in DOMAIN v : m[e] <= maxlevel_'
  BY <1>6, <1>13, <1>16, <1>18
<1>20. Leveled(m)' /\ (m \in Levels(vec))'
  <2>1. m \in Levels(vec') /\ links' \in Graphs(vec', m)
    BY <1>14, <1>19
  <2> HIDE DEF W
  <2> QED
    BY <1>2, <1>13, <1>14, <1>15, <1>16, <1>17, <1>19, <2>1 DEF Leveled, Levels
<1> QED
  BY <1>20 DEF IndInv

LEMMA NextInv == IndInv /\ [Next]_vars => IndInv'
<1> SUFFICES ASSUME IndInv, [Next]_vars PROVE IndInv'
  OBVIOUS
<1>1. PICK lev \in Levels(vec) : Leveled(lev)
  BY DEF IndInv
<1>2. ASSUME Leveled(lev)', vec' = vec \/ \E e \in Elements, p \in Point : vec' = [vec EXCEPT ![e] = p]
      PROVE  IndInv'
  <2>1. Levels(vec)' = Levels(vec)
    BY <1>2 DEF Levels
  <2> QED
    BY <1>2, <2>1 DEF IndInv
<1>3. ASSUME NEW p \in Fresh, NEW level \in 0 .. MaxLevel, AddPoint(p, level) PROVE IndInv'
  BY <1>1, <1>3, AddInv DEF Fresh
<1>4. ASSUME NEW e \in Elements, NEW p \in Fresh, UpdatePoint(e, p) PROVE IndInv'
  <2>1. p \in Point
    BY DEF Fresh
  <2>2. Leveled(lev)'
    BY <1>1, <1>4, <2>1, UpdateInv
  <2>3. vec' = [vec EXCEPT ![e] = p]
    BY <1>4 DEF UpdatePoint
  <2> QED
    BY <1>2, <2>1, <2>2, <2>3
<1>5. ASSUME NEW e \in Elements, Mark(e) PROVE IndInv'
  <2>1. Leveled(lev)'
    BY <1>1, <1>5, MarkInv
  <2>2. vec' = vec
    BY <1>5 DEF Mark
  <2> QED
    BY <1>2, <2>1, <2>2
<1>6. ASSUME UNCHANGED vars PROVE IndInv'
  BY <1>1, <1>6 DEF vars, graph, IndInv, Leveled, Levels
<1> QED
  BY <1>3, <1>4, <1>5, <1>6 DEF Next

(* Links fit their room and lead to other elements of at least their level *)
(* (checkIntegrity), and the entry point has the highest level, after any  *)
(* sequence of addPoint, updatePoint, markDelete and unmarkDelete.         *)
THEOREM GraphSoundHolds == Spec => []GraphSound
<1>1. Init => IndInv
  BY InitInv
<1>2. IndInv /\ [Next]_vars => IndInv'
  BY NextInv
<1>3. IndInv => GraphSound
  BY LeveledSound DEF IndInv
<1> QED
  BY <1>1, <1>2, <1>3, PTL DEF Spec

-----------------------------------------------------------------------------
(* The k closest.                                                          *)

(* No two elements have the same vector.                                   *)
Apart(v) == \A e, f \in DOMAIN v : v[e] = v[f] => e = f

LEMMA DistancesDiffer ==
  ASSUME NEW v \in Vectors, Apart(v), NEW q \in Places,
         NEW e \in DOMAIN v, NEW f \in DOMAIN v, Dist(v[e], q) = Dist(v[f], q)
  PROVE  e = f
<1>1. v[e] \in Point /\ v[f] \in Point
  BY VectorFacts
<1>2. v[e] = v[f]
  BY <1>1, GeneralPosition DEF Places
<1> QED
  BY <1>2 DEF Apart

LEMMA SubsetFinite ==
  ASSUME NEW v \in Vectors, NEW S \in SUBSET DOMAIN v
  PROVE  IsFiniteSet(S) /\ Cardinality(S) \in Nat /\ Cardinality(S) <= Len(v) /\ Len(v) \in Nat
BY VectorFacts, FS_Subset, FS_CardinalityType

LEMMA PlacedSubset ==
  ASSUME NEW v \in Placed, NEW S \in SUBSET DOMAIN v
  PROVE  IsFiniteSet(S) /\ Cardinality(S) \in Nat
BY PlacedFacts, FS_Subset, FS_CardinalityType

LEMMA FewerOf ==
  ASSUME NEW v \in Vectors, NEW S \in SUBSET DOMAIN v, NEW T \in SUBSET S
  PROVE  Cardinality(T) <= Cardinality(S) /\ (Cardinality(T) = Cardinality(S) => T = S)
<1>1. IsFiniteSet(S)
  BY SubsetFinite
<1> QED
  BY <1>1, FS_Subset

(* Who is closer than one of the k closest is one of them.                 *)
LEMMA KClosestFirst ==
  ASSUME NEW v \in Vectors, NEW q \in Places, NEW S \in SUBSET DOMAIN v, NEW k \in Nat,
         NEW e \in KClosest(v, S, q, k), NEW f \in S \ KClosest(v, S, q, k)
  PROVE  Dist(v[e], q) < Dist(v[f], q)
<1>1. e \in S /\ e \in DOMAIN v /\ f \in DOMAIN v
  BY DEF KClosest
<1>2. Dist(v[e], q) \in Nat /\ Dist(v[f], q) \in Nat
  BY <1>1, VectorFacts
<1> SUFFICES ASSUME Dist(v[f], q) <= Dist(v[e], q) PROVE FALSE
  BY <1>2
<1>3. Farther(v, S, f, q) \subseteq Farther(v, S, e, q)
  <2> SUFFICES ASSUME NEW x \in S, Dist(v[x], q) < Dist(v[f], q) PROVE Dist(v[x], q) < Dist(v[e], q)
    BY DEF Farther
  <2>1. Dist(v[x], q) \in Nat
    BY VectorFacts
  <2> QED
    BY <1>2, <2>1
<1>4. Farther(v, S, e, q) \in SUBSET DOMAIN v /\ Farther(v, S, f, q) \in SUBSET DOMAIN v
  BY DEF Farther
<1> DEFINE A == Farther(v, S, e, q)
           B == Farther(v, S, f, q)
<1>5. Cardinality(A) < k /\ ~(Cardinality(B) < k)
  BY <1>1 DEF KClosest
<1> HIDE DEF A, B
<1>6. Cardinality(A) \in Nat /\ Cardinality(B) \in Nat /\ Cardinality(B) <= Cardinality(A)
  BY <1>3, <1>4, SubsetFinite, FewerOf DEF A, B
<1> QED
  BY <1>5, <1>6

(* Of a set with k elements or more there are k closest.                   *)
LEMMA KClosestCount ==
  ASSUME NEW v \in Vectors, Apart(v), NEW q \in Places, NEW S \in SUBSET DOMAIN v
  PROVE  \A k \in 0 .. Cardinality(S) : Cardinality(KClosest(v, S, q, k)) = k
<1> DEFINE n == Cardinality(S)
           K(k) == KClosest(v, S, q, k)
           L == {k \in 0 .. n : Cardinality(K(k)) = k}
<1>1. n \in Nat /\ IsFiniteSet(S)
  BY SubsetFinite
<1>2. \A k \in Nat : K(k) \in SUBSET S /\ K(k) \in SUBSET DOMAIN v
  BY DEF KClosest
<1>3. \A e \in S : Farther(v, S, e, q) \in SUBSET DOMAIN v /\ Cardinality(Farther(v, S, e, q)) \in Nat
  <2> SUFFICES ASSUME NEW e \in S
               PROVE  Farther(v, S, e, q) \in SUBSET DOMAIN v /\ Cardinality(Farther(v, S, e, q)) \in Nat
    OBVIOUS
  <2>1. Farther(v, S, e, q) \in SUBSET DOMAIN v
    BY DEF Farther
  <2> QED
    BY <2>1, SubsetFinite
<1>4. 0 \in L
  <2>1. K(0) = {}
    BY <1>3 DEF KClosest
  <2> HIDE DEF K
  <2> QED
    BY <1>1, <2>1, FS_EmptySet
<1>5. ASSUME NEW k \in 1 .. n, k - 1 \in L PROVE k \in L
  <2> DEFINE j == k - 1
             A == K(j)
             R == S \ A
             e == Closest(v, R, q)
  <2>1. j \in Nat /\ j < n /\ Cardinality(A) = j /\ k = j + 1 /\ k \in Nat /\ j \in Int
    BY <1>1, <1>5
  <2>2. A \in SUBSET S /\ A \in SUBSET DOMAIN v /\ IsFiniteSet(A)
    <3>1. A \in SUBSET S /\ A \in SUBSET DOMAIN v
      BY <1>2, <2>1
    <3> QED
      BY <3>1, SubsetFinite
  <2>3. R # {} /\ R \in SUBSET DOMAIN v
    <3>1. A # S
      <4> HIDE DEF A, j
      <4> QED
        BY <1>1, <2>1
    <3> QED
      BY <2>2, <3>1
  <2>4. e \in R /\ \A f \in R : Dist(v[e], q) <= Dist(v[f], q)
    <3> HIDE DEF R
    <3> QED
      BY <2>3, ClosestIs
  <2> HIDE DEF e
  <2>5. \A a \in A : Dist(v[a], q) < Dist(v[e], q)
    <3> HIDE DEF j
    <3> QED
      BY <2>1, <2>4, KClosestFirst
  <2>6. \A f \in S : Dist(v[f], q) \in Nat
    BY VectorFacts
  <2> DEFINE D(f) == Dist(v[f], q)
  <2> HIDE DEF A, D
  <2>7. Farther(v, S, e, q) = A
    <3>1. Farther(v, S, e, q) = {f \in S : D(f) < D(e)}
      BY DEF Farther, D
    <3>2. \A f \in S : D(f) \in Nat
      BY <2>6 DEF D
    <3>3. \A f \in R : D(e) <= D(f)
      BY <2>4 DEF D
    <3>4. \A a \in A : D(a) < D(e)
      BY <2>5 DEF D
    <3>5. \A f \in S : D(f) < D(e) => f \in A
      BY <2>4, <3>2, <3>3
    <3> QED
      BY <2>2, <3>1, <3>4, <3>5
  <2>8. e \in K(k)
    BY <2>1, <2>4, <2>7 DEF KClosest
  <2>9. \A a \in A : a \in K(k)
    <3> SUFFICES ASSUME NEW a \in A PROVE a \in K(k)
      OBVIOUS
    <3>1. a \in S /\ Cardinality(Farther(v, S, a, q)) < j
      BY DEF A, KClosest
    <3>2. Cardinality(Farther(v, S, a, q)) < k
      BY <1>3, <2>1, <3>1
    <3> QED
      BY <3>1, <3>2 DEF KClosest
  <2>10. \A f \in R : f # e => f \notin K(k)
    <3> SUFFICES ASSUME NEW f \in R, f # e PROVE f \notin K(k)
      OBVIOUS
    <3>1. D(f) # D(e)
      BY <2>3, <2>4, DistancesDiffer DEF D
    <3>2. D(f) \in Nat /\ D(e) \in Nat /\ D(e) <= D(f)
      BY <2>4, <2>6 DEF D
    <3>3. D(e) < D(f)
      BY <3>1, <3>2
    <3> DEFINE F == Farther(v, S, f, q)
               B == A \union {e}
    <3>4. B \subseteq F
      <4>1. \A a \in A : D(a) \in Nat /\ D(a) < D(e)
        BY <2>2, <2>5, <2>6 DEF D
      <4>2. \A a \in A : D(a) < D(f)
        BY <3>2, <3>3, <4>1
      <4>3. F = {x \in S : D(x) < D(f)}
        BY DEF Farther, D
      <4> HIDE DEF F
      <4> QED
        BY <2>2, <2>4, <3>3, <4>2, <4>3
    <3>5. Cardinality(B) = k
      <4>1. e \notin A
        BY <2>4
      <4>2. Cardinality(B) = Cardinality(A) + 1
        BY <2>2, <4>1, FS_AddElement
      <4> QED
        BY <2>1, <4>2
    <3>6. F \in SUBSET DOMAIN v /\ Cardinality(F) \in Nat
      BY <1>3
    <3> HIDE DEF F, B
    <3>7. Cardinality(B) <= Cardinality(F)
      BY <3>4, <3>6, FewerOf
    <3>8. ~(Cardinality(F) < k)
      BY <2>1, <3>5, <3>6, <3>7
    <3> QED
      BY <3>8 DEF F, KClosest
  <2>11. K(k) = A \union {e}
    <3>1. K(k) \subseteq S
      BY <1>2, <2>1
    <3> HIDE DEF K
    <3> QED
      BY <2>4, <2>8, <2>9, <2>10, <3>1
  <2>12. Cardinality(A \union {e}) = Cardinality(A) + 1
    <3>1. e \notin A
      BY <2>4
    <3> QED
      BY <2>2, <3>1, FS_AddElement
  <2>13. Cardinality(K(k)) = k
    <3> HIDE DEF K, j
    <3> QED
      BY <2>1, <2>11, <2>12
  <2> QED
    BY <1>5, <2>13
<1>6. 0 .. n \subseteq L
  <2> HIDE DEF L, n
  <2> QED
    BY <1>1, <1>4, <1>5, UpTo
<1> HIDE DEF K
<1>7. \A k \in 0 .. n : Cardinality(K(k)) = k
  BY <1>6
<1> QED
  BY <1>7 DEF K, n

(* All of a set that has no more.                                          *)
LEMMA KClosestAll ==
  ASSUME NEW v \in Vectors, NEW q \in Places, NEW S \in SUBSET DOMAIN v,
         NEW k \in Nat, Cardinality(S) <= k
  PROVE  KClosest(v, S, q, k) = S
<1> SUFFICES ASSUME NEW e \in S PROVE Cardinality(Farther(v, S, e, q)) < k
  BY DEF KClosest
<1> DEFINE F == Farther(v, S, e, q)
<1>1. F \in SUBSET S /\ e \notin F
  BY VectorFacts DEF Farther
<1> HIDE DEF F
<1>2. Cardinality(F) <= Cardinality(S) /\ Cardinality(F) # Cardinality(S)
  BY <1>1, FewerOf
<1>3. Cardinality(F) \in Nat /\ Cardinality(S) \in Nat
  BY <1>1, SubsetFinite
<1>4. Cardinality(F) < k
  BY <1>2, <1>3
<1> QED
  BY <1>4 DEF F

-----------------------------------------------------------------------------
(* What a search ends with.                                                *)

Expanded(g, l, s) == \A x \in s.visited \ s.candidates : ListAt(g, x, l) \subseteq s.visited

Nearer(v, q, S, x) == \A u \in S : Dist(v[u], q) < Dist(v[x], q)

Dropped(v, del, q, ef, s) ==
  \A x \in (s.visited \ del) \ s.top : Cardinality(s.top) = ef /\ Nearer(v, q, s.top, x)

(* The states of a search from ep within R.                                *)
Searches(v, g, del, ep, q, l, ef, R) ==
  {s \in SearchStates(v) :
     /\ s.top \subseteq s.visited \ del /\ s.candidates \subseteq s.visited
     /\ s.visited \subseteq R /\ ep \in s.visited
     /\ Expanded(g, l, s) /\ Dropped(v, del, q, ef, s)}

Full(v, q, ef, s) ==
  Cardinality(s.top) = ef /\ Nearer(v, q, s.top, Closest(v, s.candidates, q))

(* Elements not visited yet or to be expanded.                             *)
Left(v, s) == Cardinality((DOMAIN v) \ s.visited) + Cardinality(s.candidates)

(* One turn: what is dropped is farther than all of a full result.         *)
LEMMA SearchTurn ==
  ASSUME NEW v \in Vectors, Apart(v), NEW q \in Places, NEW g, NEW del, NEW l,
         NEW ef \in Nat, NEW R \in SUBSET DOMAIN v, Closed(g, R, l), NEW ep \in R,
         NEW s \in Searches(v, g, del, ep, q, l, ef, R),
         s.candidates # {}, ~Full(v, q, ef, s)
  PROVE  LET t == SearchLoop(v, g, del, q, l, ef, s)
         IN  t \in Searches(v, g, del, ep, q, l, ef, R) /\ Left(v, t) < Left(v, s)
<1> DEFINE c == Closest(v, s.candidates, q)
           new == ListAt(g, c, l) \ s.visited
           S == s.top \union (new \ del)
           top == KClosest(v, S, q, ef)
           cand == (s.candidates \ {c}) \union new
           vis == s.visited \union new
           t == [top |-> top, candidates |-> cand, visited |-> vis]
<1>1. /\ s \in SearchStates(v) /\ s.top \subseteq s.visited \ del /\ s.candidates \subseteq s.visited
      /\ s.visited \subseteq R /\ ep \in s.visited
      /\ Expanded(g, l, s) /\ Dropped(v, del, q, ef, s)
      /\ s.visited \in SUBSET DOMAIN v /\ s.candidates \in SUBSET DOMAIN v /\ s.top \in SUBSET DOMAIN v
  BY DEF Searches, SearchStates
<1>2. SearchLoop(v, g, del, q, l, ef, s) = t
  <2>1. ~(s.candidates = {} \/ (Cardinality(s.top) = ef /\ \A u \in s.top : Dist(v[u], q) < Dist(v[c], q)))
    BY DEF Full, Nearer
  <2> QED
    BY <2>1 DEF SearchLoop
<1> SUFFICES t \in Searches(v, g, del, ep, q, l, ef, R) /\ Left(v, t) < Left(v, s)
  BY <1>2
<1>3. c \in s.candidates
  BY <1>1, ClosestIs
<1>4. new \subseteq R /\ new \in SUBSET DOMAIN v
  BY <1>1, <1>3 DEF Closed
<1> HIDE DEF c, new
<1>5. S \in SUBSET DOMAIN v /\ top \subseteq S /\ top \in SUBSET DOMAIN v
      /\ cand \in SUBSET DOMAIN v /\ vis \in SUBSET DOMAIN v
  BY <1>1, <1>4 DEF KClosest
<1>6. top \subseteq vis \ del /\ cand \subseteq vis /\ vis \subseteq R /\ ep \in vis
  <2>1. S \subseteq vis \ del
    BY <1>1, <1>4 DEF new
  <2> HIDE DEF top, S
  <2> QED
    BY <1>1, <1>4, <1>5, <2>1
<1>7. t \in SearchStates(v) /\ t.top = top /\ t.candidates = cand /\ t.visited = vis
  <2> HIDE DEF top, cand, vis
  <2> QED
    BY <1>5 DEF SearchStates
<1> HIDE DEF t
<1>8. Expanded(g, l, t)
  <2> SUFFICES ASSUME NEW x \in vis \ cand PROVE ListAt(g, x, l) \subseteq vis
    BY <1>7 DEF Expanded
  <2>1. CASE x = c
    BY <2>1 DEF new
  <2>2. CASE x # c
    <3>1. x \in s.visited \ s.candidates
      BY <2>2
    <3> QED
      BY <1>1, <3>1 DEF Expanded
  <2> QED
    BY <2>1, <2>2
<1>9. Dropped(v, del, q, ef, t)
  <2> SUFFICES ASSUME NEW x \in (vis \ del) \ top
               PROVE  Cardinality(top) = ef /\ Nearer(v, q, top, x)
    BY <1>7 DEF Dropped
  <2>1. x \in DOMAIN v /\ Dist(v[x], q) \in Nat
    BY <1>5, VectorFacts
  <2>2. IsFiniteSet(S) /\ Cardinality(S) \in Nat
    BY <1>5, SubsetFinite
  <2>3. CASE x \in S
    <3>1. Cardinality(S) > ef
      <4>1. ~(Cardinality(S) <= ef)
        <5> HIDE DEF S
        <5> QED
          BY <1>5, <2>3, KClosestAll
      <4> QED
        BY <2>2, <4>1
    <3>2. Cardinality(top) = ef
      <4>1. ef \in 0 .. Cardinality(S)
        BY <2>2, <3>1
      <4> HIDE DEF S
      <4> QED
        BY <1>5, <4>1, KClosestCount
    <3>3. Nearer(v, q, top, x)
      <4> SUFFICES ASSUME NEW u \in top PROVE Dist(v[u], q) < Dist(v[x], q)
        BY DEF Nearer
      <4> HIDE DEF S
      <4> QED
        BY <1>5, <2>3, KClosestFirst
    <3> QED
      BY <3>2, <3>3
  <2>4. CASE x \notin S
    <3>1. x \in (s.visited \ del) \ s.top
      BY <2>4
    <3>2. Cardinality(s.top) = ef /\ Nearer(v, q, s.top, x)
      BY <1>1, <3>1 DEF Dropped
    <3>3. ef \in 0 .. Cardinality(S)
      <4>1. s.top \in SUBSET S
        OBVIOUS
      <4> HIDE DEF S
      <4>2. Cardinality(s.top) <= Cardinality(S)
        BY <1>5, <4>1, FewerOf
      <4> QED
        BY <2>2, <3>2, <4>2
    <3>4. Cardinality(top) = ef
      <4> HIDE DEF S
      <4> QED
        BY <1>5, <3>3, KClosestCount
    <3>5. Nearer(v, q, top, x)
      <4> SUFFICES ASSUME NEW u \in top, ~(Dist(v[u], q) < Dist(v[x], q)) PROVE FALSE
        BY DEF Nearer
      <4>1. u \in S /\ u \in DOMAIN v /\ Dist(v[u], q) \in Nat
        BY <1>5, VectorFacts
      <4>2. s.top \subseteq Farther(v, S, u, q)
        <5> SUFFICES ASSUME NEW y \in s.top PROVE y \in S /\ Dist(v[y], q) < Dist(v[u], q)
          BY DEF Farther
        <5>1. y \in S
          OBVIOUS
        <5>2. Dist(v[y], q) < Dist(v[x], q)
          BY <3>2 DEF Nearer
        <5>3. Dist(v[y], q) \in Nat
          BY <1>1, VectorFacts
        <5> QED
          BY <2>1, <4>1, <5>1, <5>2, <5>3
      <4> DEFINE F == Farther(v, S, u, q)
      <4>3. F \in SUBSET DOMAIN v
        BY <1>5 DEF Farther
      <4>4. Cardinality(F) < ef
        BY DEF KClosest
      <4> HIDE DEF F
      <4>5. Cardinality(s.top) <= Cardinality(F) /\ Cardinality(F) \in Nat
        BY <4>2, <4>3, FewerOf, SubsetFinite DEF F
      <4> QED
        BY <3>2, <4>4, <4>5
    <3> QED
      BY <3>4, <3>5
  <2> QED
    BY <2>3, <2>4
<1>10. Left(v, t) < Left(v, s)
  <2> DEFINE U == (DOMAIN v) \ s.visited
             X == (DOMAIN v) \ vis
             Y == s.candidates \ {c}
  <2>1. /\ IsFiniteSet(U) /\ IsFiniteSet(X) /\ IsFiniteSet(new) /\ IsFiniteSet(Y) /\ IsFiniteSet(s.candidates)
        /\ Cardinality(U) \in Nat /\ Cardinality(X) \in Nat /\ Cardinality(new) \in Nat
        /\ Cardinality(Y) \in Nat /\ Cardinality(s.candidates) \in Nat
        /\ Cardinality(cand) \in Nat
    <3>1. U \in SUBSET DOMAIN v /\ X \in SUBSET DOMAIN v /\ Y \in SUBSET DOMAIN v
      BY <1>1
    <3> HIDE DEF U, X, Y, cand
    <3> QED
      BY <1>1, <1>4, <1>5, <3>1, SubsetFinite
  <2>2. Cardinality(Y) = Cardinality(s.candidates) - 1
    BY <1>3, <2>1, FS_RemoveElement
  <2>3. Cardinality(cand) <= Cardinality(Y) + Cardinality(new)
    <3>1. cand = Y \union new /\ Y \intersect new = {}
      BY <1>1 DEF new
    <3> HIDE DEF cand, Y
    <3>2. Cardinality(Y \union new) = Cardinality(Y) + Cardinality(new) - Cardinality(Y \intersect new)
      BY <2>1, FS_Union
    <3>3. Cardinality(Y \intersect new) = 0
      BY <3>1, FS_EmptySet
    <3>4. Cardinality(Y \union new) = Cardinality(Y) + Cardinality(new)
      BY <2>1, <3>2, <3>3
    <3> QED
      BY <2>1, <3>1, <3>4
  <2>4. Cardinality(U) = Cardinality(X) + Cardinality(new)
    <3>1. U = X \union new /\ X \intersect new = {}
      BY <1>4 DEF new
    <3> HIDE DEF X, U
    <3>2. Cardinality(X \union new) = Cardinality(X) + Cardinality(new) - Cardinality(X \intersect new)
      BY <2>1, FS_Union
    <3>3. Cardinality(X \intersect new) = 0
      BY <3>1, FS_EmptySet
    <3>4. Cardinality(X \union new) = Cardinality(X) + Cardinality(new)
      BY <2>1, <3>2, <3>3
    <3> QED
      BY <2>1, <3>1, <3>4
  <2>5. Left(v, t) = Cardinality(X) + Cardinality(cand) /\ Left(v, s) = Cardinality(U) + Cardinality(s.candidates)
    BY <1>7 DEF Left
  <2> HIDE DEF U, X, Y, cand
  <2> QED
    BY <2>1, <2>2, <2>3, <2>4, <2>5
<1> HIDE DEF top, cand, vis
<1> QED
  BY <1>6, <1>7, <1>8, <1>9, <1>10 DEF Searches

(* The state a search ends in: nothing is left to expand, or the closest   *)
(* candidate is farther than all of a full result.                         *)
LEMMA SearchEnds ==
  ASSUME NEW v \in Vectors, Apart(v), NEW q \in Places, NEW g, NEW del, NEW l,
         NEW ef \in Nat \ {0}, NEW R \in SUBSET DOMAIN v, Closed(g, R, l), NEW ep \in R
  PROVE  \E s \in Searches(v, g, del, ep, q, l, ef, R) :
           /\ SearchBaseLayer(v, g, del, ep, q, l, ef) = s.top
           /\ s.candidates = {} \/ Full(v, q, ef, s)
<1> DEFINE T == Searches(v, g, del, ep, q, l, ef, R)
           step == [s \in SearchStates(v) |-> SearchLoop(v, g, del, q, l, ef, s)]
           first == [top |-> {ep} \ del, candidates |-> {ep}, visited |-> {ep}]
           size == [s \in T |-> Left(v, s)]
           n == Len(v)
           last == Repeated(step, first, n)
<1>1. n \in Nat /\ ep \in DOMAIN v /\ T \subseteq SearchStates(v)
  BY VectorFacts DEF Searches
<1>2. first \in T
  <2>1. first \in SearchStates(v)
    BY <1>1 DEF SearchStates
  <2>2. Expanded(g, l, first) /\ Dropped(v, del, q, ef, first)
    BY DEF Expanded, Dropped
  <2>3. /\ first.top \subseteq first.visited \ del /\ first.candidates \subseteq first.visited
        /\ first.visited \subseteq R /\ ep \in first.visited
    OBVIOUS
  <2> HIDE DEF first
  <2> QED
    BY <2>1, <2>2, <2>3 DEF Searches
<1>3. ASSUME NEW s \in T
      PROVE  /\ step[s] \in T
             /\ step[s] = s \/ Left(v, step[s]) < Left(v, s)
             /\ step[s] = s => s.candidates = {} \/ Full(v, q, ef, s)
             /\ Left(v, s) \in Nat
  <2>1. step[s] = SearchLoop(v, g, del, q, l, ef, s)
    BY <1>1
  <2>2. Left(v, s) \in Nat
    <3> DEFINE U == (DOMAIN v) \ s.visited
               C == s.candidates
    <3>1. U \in SUBSET DOMAIN v /\ C \in SUBSET DOMAIN v
      BY <1>1 DEF SearchStates
    <3> HIDE DEF U, C
    <3>2. Cardinality(U) \in Nat /\ Cardinality(C) \in Nat
      BY <3>1, SubsetFinite
    <3> QED
      BY <3>2 DEF U, C, Left
  <2>3. CASE s.candidates = {} \/ Full(v, q, ef, s)
    <3>1. SearchLoop(v, g, del, q, l, ef, s) = s
      BY <2>3 DEF SearchLoop, Full, Nearer
    <3> QED
      BY <2>1, <2>2, <2>3, <3>1
  <2>4. CASE ~(s.candidates = {} \/ Full(v, q, ef, s))
    <3> DEFINE t == SearchLoop(v, g, del, q, l, ef, s)
    <3>1. t \in T /\ Left(v, t) < Left(v, s)
      BY <2>4, SearchTurn
    <3> HIDE DEF t, T, step
    <3>2. step[s] = t
      BY <2>1 DEF t
    <3>3. t # s
      BY <2>2, <3>1
    <3> QED
      BY <2>2, <3>1, <3>2, <3>3
  <2> QED
    BY <2>3, <2>4
<1>4. size \in [T -> Nat]
  BY <1>3
<1>5. size[first] <= n
  <2> DEFINE U == (DOMAIN v) \ {ep}
  <2>1. size[first] = Cardinality(U) + Cardinality({ep})
    BY <1>2 DEF Left
  <2>2. Cardinality(U) = n - 1
    BY <1>1, VectorFacts, FS_RemoveElement
  <2>3. Cardinality({ep}) = 1
    BY FS_Singleton
  <2> HIDE DEF size, U
  <2> QED
    BY <1>1, <2>1, <2>2, <2>3
<1>6. Within(step, T)
  BY <1>3 DEF Within
<1>7. Descends(step, T, size)
  <2> SUFFICES ASSUME NEW s \in T PROVE step[s] = s \/ size[step[s]] < size[s]
    BY DEF Descends
  <2>1. size[s] = Left(v, s) /\ size[step[s]] = Left(v, step[s])
    BY <1>3
  <2> QED
    BY <1>3, <2>1
<1>8. last \in T /\ step[last] = last
  <2> HIDE DEF T, step, first, size, n
  <2> QED
    BY <1>1, <1>2, <1>4, <1>5, <1>6, <1>7, RepeatedKeeps, RepeatedEnds
<1>9. SearchBaseLayer(v, g, del, ep, q, l, ef) = last.top
  BY DEF SearchBaseLayer
<1> HIDE DEF last
<1>10. last.candidates = {} \/ Full(v, q, ef, last)
  BY <1>3, <1>8
<1> QED
  BY <1>8, <1>9, <1>10

(* Of what a full search ends with, nothing is left to be expanded.        *)
LEMMA FoundExpanded ==
  ASSUME NEW v \in Vectors, NEW q \in Places, NEW ef \in Nat,
         NEW s \in SearchStates(v), s.candidates = {} \/ Full(v, q, ef, s)
  PROVE  s.top \intersect s.candidates = {}
<1> SUFFICES ASSUME NEW t \in s.top, t \in s.candidates PROVE FALSE
  OBVIOUS
<1> DEFINE c == Closest(v, s.candidates, q)
<1>1. s.candidates \in SUBSET DOMAIN v /\ s.candidates # {}
  BY DEF SearchStates
<1>2. c \in s.candidates /\ Dist(v[c], q) <= Dist(v[t], q)
  BY <1>1, ClosestIs
<1>3. Dist(v[t], q) < Dist(v[c], q)
  BY <1>1 DEF Full, Nearer
<1>4. Dist(v[c], q) \in Nat /\ Dist(v[t], q) \in Nat
  BY <1>1, <1>2, VectorFacts
<1> HIDE DEF c
<1> QED
  BY <1>2, <1>3, <1>4

(* What can be reached is the least set that holds e and that no list      *)
(* leads out of.                                                           *)
LEMMA Reached ==
  ASSUME vec \in Vectors, Closed(links, Elements, 0), NEW e \in Elements
  PROVE  /\ e \in ReachFrom(e) /\ ReachFrom(e) \subseteq Elements /\ Closed(links, ReachFrom(e), 0)
         /\ \A X \in SUBSET Elements : e \in X /\ Closed(links, X, 0) => ReachFrom(e) \subseteq X
<1> DEFINE next(S) == S \union UNION {ListAt(links, x, 0) : x \in S}
           step == [S \in SUBSET Elements |-> next(S)]
           T == {S \in SUBSET Elements : e \in S}
           size == [S \in T |-> Cardinality(Elements \ S)]
           first == {e}
           n == Len(vec)
           R == Repeated(step, first, n)
<1>1. /\ n \in Nat /\ Elements = DOMAIN vec /\ IsFiniteSet(Elements) /\ Cardinality(Elements) = n
  BY VectorFacts DEF Elements
<1>2. first \in T
  OBVIOUS
<1>3. ASSUME NEW S \in SUBSET Elements PROVE next(S) \in SUBSET Elements /\ S \subseteq next(S)
  BY DEF Closed
<1>4. \A S \in SUBSET Elements : step[S] = next(S)
  OBVIOUS
<1>5. Within(step, T)
  <2> HIDE DEF next, step
  <2> QED
    BY <1>3, <1>4 DEF Within
<1>6. \A S \in SUBSET Elements : IsFiniteSet(S) /\ Cardinality(S) \in Nat
  BY <1>1, SubsetFinite
<1>7. size \in [T -> Nat]
  <2>1. \A S \in T : Elements \ S \in SUBSET Elements
    OBVIOUS
  <2> QED
    BY <1>6, <2>1
<1>8. Descends(step, T, size)
  <2> SUFFICES ASSUME NEW S \in T, step[S] # S PROVE size[step[S]] < size[S]
    BY DEF Descends
  <2> DEFINE A == Elements \ step[S]
             B == Elements \ S
  <2> HIDE DEF next
  <2>1. step[S] \in T /\ S \subseteq step[S]
    BY <1>3, <1>4
  <2> HIDE DEF step
  <2>2. A \in SUBSET B /\ A # B /\ A \in SUBSET Elements /\ B \in SUBSET Elements
    BY <2>1
  <2>3. size[step[S]] = Cardinality(A) /\ size[S] = Cardinality(B)
    BY <2>1
  <2> HIDE DEF A, B
  <2>4. Cardinality(A) <= Cardinality(B) /\ Cardinality(A) # Cardinality(B)
    BY <1>1, <2>2, FewerOf
  <2>5. Cardinality(A) \in Nat /\ Cardinality(B) \in Nat
    BY <1>6, <2>2
  <2> QED
    BY <2>3, <2>4, <2>5
<1>9. size[first] <= n
  <2> DEFINE U == Elements \ {e}
  <2>1. size[first] = Cardinality(U) /\ U \in SUBSET Elements
    BY <1>2
  <2> HIDE DEF U, size
  <2> QED
    BY <1>1, <2>1, FewerOf
<1>10. R \in T /\ step[R] = R
  <2> HIDE DEF T, step, first, size, n
  <2> QED
    BY <1>1, <1>2, <1>5, <1>7, <1>8, <1>9, RepeatedKeeps, RepeatedEnds
<1>11. ReachFrom(e) = R
  BY DEF ReachFrom
<1>12. ASSUME NEW X \in SUBSET Elements, e \in X, Closed(links, X, 0) PROVE R \subseteq X
  <2> DEFINE Y == SUBSET X
  <2>1. first \in Y
    BY <1>12
  <2>2. Within(step, Y)
    <3> SUFFICES ASSUME NEW S \in Y PROVE step[S] \in Y
      BY DEF Within
    <3>1. step[S] = next(S)
      BY <1>4, <1>12
    <3>2. next(S) \subseteq X
      BY <1>12 DEF Closed
    <3> HIDE DEF next, step
    <3> QED
      BY <3>1, <3>2
  <2>3. R \in Y
    <3> HIDE DEF Y, step, first, n
    <3> QED
      BY <1>1, <2>1, <2>2, RepeatedKeeps
  <2> HIDE DEF R
  <2> QED
    BY <2>3
<1> HIDE DEF R
<1>13. Closed(links, R, 0)
  <2>1. next(R) = R
    BY <1>4, <1>10
  <2> QED
    BY <2>1 DEF Closed
<1> QED
  BY <1>10, <1>11, <1>12, <1>13

(* Once visited, what a search of the graph from ep cannot have dropped.   *)
LEMMA WideTop ==
  ASSUME NEW v \in Vectors, NEW q \in Places, NEW g, NEW del, NEW l, NEW ep,
         NEW ef \in Nat, Len(v) <= ef, NEW R \in SUBSET DOMAIN v,
         NEW s \in Searches(v, g, del, ep, q, l, ef, R), s.candidates = {} \/ Full(v, q, ef, s)
  PROVE  s.top = s.visited \ del /\ s.candidates = {}
<1>1. /\ s.top \in SUBSET DOMAIN v /\ s.visited \in SUBSET DOMAIN v /\ s.candidates \in SUBSET DOMAIN v
      /\ s.top \subseteq s.visited \ del /\ Dropped(v, del, q, ef, s)
  BY DEF Searches, SearchStates
<1>2. ASSUME Cardinality(s.top) = ef PROVE s.top = DOMAIN v
  <2> DEFINE A == s.top
             B == DOMAIN v
  <2>1. A \in SUBSET B /\ B \in SUBSET DOMAIN v /\ Cardinality(B) = Len(v) /\ Len(v) \in Nat
    BY <1>1, VectorFacts
  <2>2. Cardinality(A) = ef
    BY <1>2
  <2> HIDE DEF A, B
  <2>3. Cardinality(A) <= Cardinality(B) /\ (Cardinality(A) = Cardinality(B) => A = B)
    BY <2>1, FewerOf
  <2>4. Cardinality(A) = Cardinality(B)
    BY <2>1, <2>2, <2>3
  <2> QED
    BY <2>3, <2>4 DEF A, B
<1>3. s.top = s.visited \ del
  <2> SUFFICES ASSUME NEW x \in (s.visited \ del) \ s.top PROVE FALSE
    BY <1>1
  <2>1. Cardinality(s.top) = ef
    BY <1>1 DEF Dropped
  <2> QED
    BY <1>1, <1>2, <2>1
<1>4. s.candidates = {}
  <2> SUFFICES ASSUME s.candidates # {} PROVE FALSE
    OBVIOUS
  <2> DEFINE c == Closest(v, s.candidates, q)
  <2>1. Cardinality(s.top) = ef /\ \A u \in s.top : Dist(v[u], q) < Dist(v[c], q)
    BY DEF Full, Nearer
  <2>2. c \in DOMAIN v
    BY <1>1, ClosestIs
  <2>3. Dist(v[c], q) < Dist(v[c], q) /\ Dist(v[c], q) \in Nat
    BY <1>2, <2>1, <2>2, VectorFacts
  <2> HIDE DEF c
  <2> QED
    BY <2>3
<1> QED
  BY <1>3, <1>4

LEMMA WideSearch ==
  ASSUME vec \in Vectors, Apart(vec), Closed(links, Elements, 0), NEW q \in Places,
         NEW e \in Elements, NEW ef \in Nat \ {0}, Len(vec) <= ef
  PROVE  SearchBaseLayer(vec, links, deleted, e, q, 0, ef) = ReachFrom(e) \ deleted
<1> DEFINE R == ReachFrom(e)
           g == links
           v == vec
           zero == 0
           del == deleted
<1>1. /\ e \in R /\ R \in SUBSET Elements /\ Closed(g, R, zero) /\ Elements = DOMAIN v
      /\ \A X \in SUBSET Elements : e \in X /\ Closed(g, X, zero) => R \subseteq X
  <2>1. Elements = DOMAIN v
    BY VectorFacts DEF Elements
  <2> QED
    BY <2>1, Reached
<1>2. v \in Vectors /\ Apart(v) /\ Len(v) <= ef
  OBVIOUS
<1> HIDE DEF R, g, v, zero, del
<1>3. PICK s \in Searches(v, g, del, e, q, zero, ef, R) :
        /\ SearchBaseLayer(v, g, del, e, q, zero, ef) = s.top
        /\ s.candidates = {} \/ Full(v, q, ef, s)
  <2>1. R \in SUBSET DOMAIN v
    BY <1>1
  <2> QED
    BY <1>1, <1>2, <2>1, SearchEnds
<1>4. s.top = s.visited \ del /\ s.candidates = {}
  <2>1. R \in SUBSET DOMAIN v
    BY <1>1
  <2> QED
    BY <1>2, <1>3, <2>1, WideTop
<1>5. s.visited = R
  <2>1. s.visited \subseteq R /\ e \in s.visited /\ Expanded(g, zero, s)
    BY DEF Searches
  <2>2. Closed(g, s.visited, zero)
    BY <1>4, <2>1 DEF Expanded, Closed
  <2> QED
    BY <1>1, <2>1, <2>2
<1> QED
  BY <1>3, <1>4, <1>5 DEF R, g, v, zero, del

LEMMA NarrowSearch ==
  ASSUME vec \in Vectors, Apart(vec), Closed(links, Elements, 0), NEW q \in Places,
         NEW e \in Elements, NEW ef \in Nat \ {0}
  PROVE  LET found == SearchBaseLayer(vec, links, deleted, e, q, 0, ef)
         IN  /\ found \subseteq Elements \ deleted
             /\ \A t \in found : \A n \in ListAt(links, t, 0) \ (deleted \union found) :
                  /\ Cardinality(found) = ef
                  /\ \A u \in found : Dist(vec[u], q) < Dist(vec[n], q)
<1> DEFINE zero == 0
           R == Elements
           found == SearchBaseLayer(vec, links, deleted, e, q, zero, ef)
<1>1. Elements = DOMAIN vec /\ R \in SUBSET DOMAIN vec /\ Closed(links, R, zero) /\ e \in R
  BY VectorFacts DEF Elements
<1> HIDE DEF zero, R
<1>2. PICK s \in Searches(vec, links, deleted, e, q, zero, ef, R) :
        /\ SearchBaseLayer(vec, links, deleted, e, q, zero, ef) = s.top
        /\ s.candidates = {} \/ Full(vec, q, ef, s)
  BY <1>1, SearchEnds
<1>3. /\ s \in SearchStates(vec) /\ s.top \subseteq s.visited \ deleted /\ s.visited \subseteq R
      /\ Expanded(links, zero, s) /\ Dropped(vec, deleted, q, ef, s)
  BY DEF Searches
<1>4. s.top \intersect s.candidates = {}
  BY <1>2, <1>3, FoundExpanded
<1>5. ASSUME NEW t \in s.top, NEW n \in ListAt(links, t, zero), n \notin deleted, n \notin s.top
      PROVE  Cardinality(s.top) = ef /\ \A u \in s.top : Dist(vec[u], q) < Dist(vec[n], q)
  <2>1. t \in s.visited \ s.candidates
    BY <1>3, <1>4
  <2>2. n \in (s.visited \ deleted) \ s.top
    BY <1>3, <1>5, <2>1 DEF Expanded
  <2> QED
    BY <1>3, <2>2 DEF Dropped, Nearer
<1>6. found = s.top
  BY <1>2
<1> HIDE DEF found
<1>7. found \subseteq Elements \ deleted
  BY <1>3, <1>6 DEF R
<1>8. \A t \in found : \A n \in ListAt(links, t, zero) \ (deleted \union found) :
        Cardinality(found) = ef /\ \A u \in found : Dist(vec[u], q) < Dist(vec[n], q)
  BY <1>5, <1>6
<1> QED
  BY <1>7, <1>8 DEF found, zero

(* Two elements never have the same vector.                                *)
Distinct == vec \in Vectors /\ Apart(vec)

LEMMA KnnOf ==
  ASSUME NEW lev, Leveled(lev), Apart(vec)
  PROVE  KnnExact
<1> SUFFICES ASSUME vec # <<>>, NEW q \in Query
             PROVE  LET start == Descend(vec, links, q, enterpoint_node_, maxlevel_, 0)
                    IN  WideExact(q, start) /\ NarrowOptimal(q, start)
  BY DEF KnnExact
<1> DEFINE start == Descend(vec, links, q, enterpoint_node_, maxlevel_, 0)
           W == DOMAIN vec
           zero == 0
           k == Len(vec)
<1>1. /\ vec \in Vectors /\ lev \in Levels(vec) /\ links \in Graphs(vec, lev) /\ q \in Places
      /\ enterpoint_node_ \in W /\ maxlevel_ \in 0 .. MaxLevel /\ lev[enterpoint_node_] = maxlevel_
      /\ Elements = W /\ k \in Nat \ {0} /\ zero \in Nat
  <2>1. vec \in Vectors
    BY DEF Leveled
  <2>2. k \in Nat \ {0} /\ Elements = W
    BY <2>1, VectorFacts DEF Vectors, Elements
  <2> QED
    BY <2>1, <2>2 DEF Leveled, Places
<1>2. \A j \in Nat : Inside(links, lev, W, j)
  <2> SUFFICES ASSUME NEW j \in Nat, NEW i \in 0 .. j, NEW x \in High(lev, i) \intersect W
               PROVE  ListAt(links, x, i) \subseteq High(lev, i) \intersect W
    BY DEF Inside, Closed
  <2>1. ListAt(links, x, i) \subseteq High(lev, i)
    BY <1>1, GraphFits
  <2>2. High(lev, i) \subseteq W
    BY <1>1 DEF High, Levels
  <2> QED
    BY <2>1, <2>2
<1>3. High(lev, zero) = W
  <2>1. DOMAIN lev = W /\ \A x \in W : lev[x] \in 0 .. MaxLevel
    BY <1>1 DEF Levels
  <2>2. \A x \in W : lev[x] >= zero
    BY <2>1
  <2> HIDE DEF zero
  <2> QED
    BY <2>1, <2>2 DEF High
<1>4. Closed(links, Elements, 0)
  <2>1. Closed(links, High(lev, zero) \intersect W, zero)
    BY <1>1, <1>2 DEF Inside
  <2> QED
    BY <1>1, <1>3, <2>1
<1>5. start \in Elements
  <2>1. enterpoint_node_ \in High(lev, maxlevel_) \intersect W
    BY <1>1 DEF High, Levels
  <2>2. maxlevel_ \in Nat /\ maxlevel_ >= zero
    BY <1>1
  <2> HIDE DEF W, zero
  <2>3. Descend(vec, links, q, enterpoint_node_, maxlevel_, zero)
          \in High(lev, IF zero < maxlevel_ THEN zero ELSE maxlevel_) \intersect W
    BY <1>1, <1>2, <2>1, <2>2, DescendStays
  <2> QED
    BY <1>1, <2>3 DEF zero
<1> DEFINE Found(ef) == SearchBaseLayer(vec, links, deleted, start, q, 0, ef)
           knn(j) == KClosest(vec, Found(IF Ef > j THEN Ef ELSE j), q, j)
<1>6. \A j : SearchKnn(q, j) = knn(j)
  BY DEF SearchKnn
<1>7. WideExact(q, start)
  <2> DEFINE wide == IF Ef > k THEN Ef ELSE k
  <2>1. wide \in Nat \ {0} /\ k <= wide
    BY <1>1, GraphAssumption
  <2> HIDE DEF wide, start
  <2>2. Found(wide) = ReachFrom(start) \ deleted
    BY <1>1, <1>4, <1>5, <2>1, WideSearch
  <2>3. SearchKnn(q, k) = KClosest(vec, Found(wide), q, k)
    BY <1>6 DEF wide
  <2> HIDE DEF Found
  <2> QED
    BY <2>2, <2>3 DEF WideExact
<1>8. NarrowOptimal(q, start)
  <2>1. Ef \in Nat \ {0} /\ (IF Ef > 1 THEN Ef ELSE 1) = Ef
    BY GraphAssumption
  <2>2. SearchKnn(q, 1) = KClosest(vec, Found(Ef), q, 1)
    <3>1. knn(1) = KClosest(vec, Found(IF Ef > 1 THEN Ef ELSE 1), q, 1)
      OBVIOUS
    <3> HIDE DEF Found, knn
    <3> QED
      BY <1>6, <2>1, <3>1
  <2> HIDE DEF start, k
  <2>3. /\ Found(Ef) \subseteq Elements \ deleted
        /\ \A t \in Found(Ef) : \A n \in ListAt(links, t, 0) \ (deleted \union Found(Ef)) :
             /\ Cardinality(Found(Ef)) = Ef
             /\ \A u \in Found(Ef) : Dist(vec[u], q) < Dist(vec[n], q)
    BY <1>1, <1>4, <1>5, <2>1, NarrowSearch
  <2>4. ASSUME NEW t \in SearchKnn(q, 1), NEW n \in ListAt(links, t, 0) \ deleted
        PROVE  Dist(vec[t], q) <= Dist(vec[n], q)
    <3>1. t \in Found(Ef) /\ Cardinality(Farther(vec, Found(Ef), t, q)) < 1
      BY <2>2, <2>4 DEF KClosest
    <3>2. t \in W /\ n \in W /\ Found(Ef) \in SUBSET W
      BY <1>1, <1>4, <2>3, <3>1 DEF Closed
    <3>3. Farther(vec, Found(Ef), t, q) = {}
      <4>1. Farther(vec, Found(Ef), t, q) \in SUBSET DOMAIN vec
        BY <3>2 DEF Farther
      <4> QED
        BY <1>1, <3>1, <4>1, SubsetFinite, FS_EmptySet
    <3>4. Dist(vec[t], q) \in Nat /\ Dist(vec[n], q) \in Nat
      BY <1>1, <3>2, VectorFacts
    <3>5. CASE n \in Found(Ef)
      BY <3>3, <3>4, <3>5 DEF Farther
    <3>6. CASE n \notin Found(Ef)
      BY <2>3, <2>4, <3>1, <3>4, <3>6
    <3> QED
      BY <3>5, <3>6
  <2> HIDE DEF Found
  <2> QED
    BY <2>3, <2>4 DEF NarrowOptimal, Found
<1> QED
  BY <1>7, <1>8

LEMMA NextDistinct == Distinct /\ [Next]_vars => Distinct'
<1> SUFFICES ASSUME vec \in Vectors, Apart(vec), [Next]_vars PROVE Distinct'
  BY DEF Distinct
<1>1. Len(vec) \in Nat /\ Elements = DOMAIN vec /\ DOMAIN vec = 1 .. Len(vec)
  BY VectorFacts DEF Elements
<1>2. ASSUME NEW p \in Fresh, NEW level \in 0 .. MaxLevel, AddPoint(p, level) PROVE Distinct'
  <2>1. vec' = Append(vec, p) /\ p \in Point /\ \A e \in DOMAIN vec : vec[e] # p
    BY <1>1, <1>2 DEF AddPoint, Fresh
  <2>2. /\ vec' \in Vectors /\ DOMAIN vec' = (DOMAIN vec) \union {Len(vec) + 1}
        /\ vec'[Len(vec) + 1] = p /\ \A e \in DOMAIN vec : vec'[e] = vec[e]
    BY <1>1, <2>1 DEF Vectors
  <2>3. Apart(vec')
    BY <2>1, <2>2 DEF Apart
  <2> QED
    BY <2>2, <2>3 DEF Distinct, Apart
<1>3. ASSUME NEW c \in Elements, NEW p \in Fresh, UpdatePoint(c, p) PROVE Distinct'
  <2>1. vec' = [vec EXCEPT ![c] = p] /\ p \in Point /\ \A e \in DOMAIN vec : vec[e] # p
    BY <1>1, <1>3 DEF UpdatePoint, Fresh
  <2>2. vec' \in Vectors
    BY <1>1, <2>1, ExceptSequence DEF Vectors
  <2>3. DOMAIN vec' = DOMAIN vec /\ \A e \in DOMAIN vec : vec'[e] = IF e = c THEN p ELSE vec[e]
    BY <1>1, <2>1
  <2>4. Apart(vec')
    BY <2>1, <2>3 DEF Apart
  <2> QED
    BY <2>2, <2>4 DEF Distinct, Apart
<1>4. ASSUME vec' = vec PROVE Distinct'
  BY <1>4 DEF Distinct, Apart
<1> QED
  BY <1>2, <1>3, <1>4 DEF Next, Mark, vars, graph

(* A search whose width is that of the index finds exactly the closest of  *)
(* the live elements that its starting point leads to; a narrow one ends   *)
(* in a local optimum.  So after any inserts, updates and marks.           *)
THEOREM KnnExactHolds == Spec => []KnnExact
<1>1. Init => IndInv /\ Distinct
  <2>1. Init => Distinct
    BY DEF Init, Distinct, Apart, Vectors
  <2> QED
    BY <2>1, InitInv
<1>2. IndInv /\ Distinct /\ [Next]_vars => IndInv' /\ Distinct'
  BY NextInv, NextDistinct
<1>3. IndInv /\ Distinct => KnnExact
  BY KnnOf DEF IndInv, Distinct
<1> QED
  BY <1>1, <1>2, <1>3, PTL DEF Spec

-----------------------------------------------------------------------------
(* What the heuristic answers.                                             *)

NearOf(v, q, K, c) == {h \in K : Ahead(v, q, h, c)}

(* Not m kept elements come before c, and none of them is closer to it     *)
(* than q is.                                                              *)
Keeps(v, q, m, K, c) ==
  /\ Cardinality(NearOf(v, q, K, c)) < m
  /\ \A h \in NearOf(v, q, K, c) : Dist(v[h], v[c]) >= Dist(v[c], q)

(* The turns of the heuristic: what is done comes first, and what is kept  *)
(* of it is what the answer keeps.                                         *)
Sifted(v, q, m, C, rest, kept) ==
  /\ rest \subseteq C /\ kept \subseteq C \ rest /\ Cardinality(kept) <= m
  /\ \A d \in C \ rest, r \in rest : Ahead(v, q, d, r)
  /\ \A d \in C \ rest : d \in kept <=> Keeps(v, q, m, kept, d)

LEMMA SiftTurn ==
  ASSUME NEW v \in Placed, NEW q \in Places, NEW C \in SUBSET DOMAIN v,
         NEW m \in Nat \ {0}, NEW rest, NEW kept, Sifted(v, q, m, C, rest, kept),
         rest # {}, Cardinality(kept) < m
  PROVE  LET c == First(v, rest, q)
             good == \A h \in kept : Dist(v[h], v[c]) >= Dist(v[c], q)
         IN  /\ c \in rest
             /\ Sifted(v, q, m, C, rest \ {c}, IF good THEN kept \union {c} ELSE kept)
<1> DEFINE c == First(v, rest, q)
           good == \A h \in kept : Dist(v[h], v[c]) >= Dist(v[c], q)
           K == IF good THEN kept \union {c} ELSE kept
           r == rest \ {c}
           A(x, y) == Ahead(v, q, x, y)
<1>1. /\ rest \subseteq C /\ kept \subseteq C \ rest /\ Cardinality(kept) <= m
      /\ \A d \in C \ rest, x \in rest : A(d, x)
      /\ \A d \in C \ rest : d \in kept <=> Keeps(v, q, m, kept, d)
  BY DEF Sifted
<1>2. c \in rest
  BY <1>1, FirstIs
<1>3. \A x, y \in C : A(x, y) => ~A(y, x)
  BY PlacedFacts DEF Ahead
<1>4. \A x \in rest : x # c => A(c, x)
  BY <1>1, FirstIs
<1>5. /\ \A x, y \in C : Dist(v[x], v[y]) \in Nat
      /\ IsFiniteSet(kept) /\ Cardinality(kept) \in Nat
  <2>1. kept \in SUBSET DOMAIN v
    BY <1>1
  <2> QED
    BY <2>1, PlacedFacts, PlacedSubset
<1>6. good <=> \A h \in kept : Dist(v[h], v[c]) >= Dist(v[c], q)
  OBVIOUS
<1>7. \A x, S : NearOf(v, q, S, x) = {h \in S : A(h, x)}
  BY DEF NearOf
<1> HIDE DEF c, good, A
<1>8. r \subseteq C /\ K \subseteq C \ r
  BY <1>1, <1>2
<1>9. Cardinality(K) <= m
  <2>1. Cardinality(kept \union {c}) = Cardinality(kept) + 1
    <3>1. c \notin kept
      BY <1>1, <1>2
    <3> QED
      BY <1>5, <3>1, FS_AddElement
  <2> QED
    BY <1>1, <1>5, <2>1
<1>10. ASSUME NEW d \in C \ r, NEW x \in r PROVE A(d, x)
  <2>1. CASE d = c
    BY <1>4, <2>1
  <2>2. CASE d # c
    BY <1>1, <2>2
  <2> QED
    BY <2>1, <2>2
<1>11. ASSUME NEW d \in C \ r PROVE d \in K <=> Keeps(v, q, m, K, d)
  <2>1. CASE d = c
    <3>1. NearOf(v, q, K, c) = kept
      <4>1. ~A(c, c)
        BY <1>1, <1>2, <1>3
      <4>2. \A h \in kept : A(h, c)
        BY <1>1, <1>2
      <4>3. NearOf(v, q, K, c) = {h \in K : A(h, c)}
        BY <1>7
      <4> QED
        BY <4>1, <4>2, <4>3
    <3>2. c \in K <=> good
      BY <1>1, <1>2
    <3>3. Keeps(v, q, m, K, c) <=> good
      BY <1>1, <1>5, <1>6, <3>1 DEF Keeps
    <3> QED
      BY <2>1, <3>2, <3>3
  <2>2. CASE d # c
    <3>1. d \in C \ rest
      BY <2>2
    <3>2. NearOf(v, q, K, d) = NearOf(v, q, kept, d)
      <4>1. ~A(c, d)
        BY <1>1, <1>2, <1>3, <3>1
      <4>2. NearOf(v, q, K, d) = {h \in K : A(h, d)}
            /\ NearOf(v, q, kept, d) = {h \in kept : A(h, d)}
        BY <1>7
      <4> QED
        BY <4>1, <4>2
    <3>3. d \in K <=> d \in kept
      BY <2>2
    <3> QED
      BY <1>1, <3>1, <3>2, <3>3 DEF Keeps
  <2> QED
    BY <2>1, <2>2
<1>12. Sifted(v, q, m, C, r, K)
  BY <1>8, <1>9, <1>10, <1>11 DEF Sifted, A
<1> HIDE DEF r, K
<1> QED
  BY <1>2, <1>12 DEF r, K, c, good

(* An element is kept exactly when not m kept ones come before it and none *)
(* of those is closer to it than q is.                                     *)
LEMMA DiverseIs ==
  ASSUME NEW v \in Placed, NEW q \in Places, NEW C \in SUBSET DOMAIN v,
         NEW m \in Nat \ {0}
  PROVE  LET H == Diverse(v, C, q, m)
         IN  /\ H \subseteq C /\ Cardinality(H) <= m
             /\ \A c \in C : c \in H <=> Keeps(v, q, m, H, c)
<1> DEFINE D == (SUBSET C) \X (SUBSET C)
           step == [s \in D |-> DiverseStep(v, q, m, s[1], s[2])]
           S == {s \in D : Sifted(v, q, m, C, s[1], s[2])}
           size == [s \in S |-> Cardinality(s[1])]
           n == Cardinality(C)
           first == <<C, {}>>
           last == Repeated(step, first, n)
<1>1. n \in Nat /\ \A R \in SUBSET C : IsFiniteSet(R) /\ Cardinality(R) \in Nat
  BY PlacedSubset
<1>2. first \in S
  <2>1. Cardinality({}) = 0
    BY FS_EmptySet
  <2>2. Sifted(v, q, m, C, C, {})
    BY <2>1 DEF Sifted
  <2> QED
    BY <2>2
<1>3. ASSUME NEW s \in S
      PROVE  /\ step[s] \in S
             /\ step[s] = s \/ Cardinality(step[s][1]) < Cardinality(s[1])
             /\ step[s] = s => s[1] = {} \/ Cardinality(s[2]) >= m
  <2> DEFINE rest == s[1]
             kept == s[2]
             c == First(v, rest, q)
             good == \A h \in kept : Dist(v[h], v[c]) >= Dist(v[c], q)
             K == IF good THEN kept \union {c} ELSE kept
             r == rest \ {c}
  <2>1. /\ s = <<rest, kept>> /\ rest \in SUBSET C /\ kept \in SUBSET C
        /\ Sifted(v, q, m, C, rest, kept)
    OBVIOUS
  <2>2. step[s] = DiverseStep(v, q, m, rest, kept)
    OBVIOUS
  <2>3. CASE rest = {} \/ Cardinality(kept) >= m
    <3>1. step[s] = s
      BY <2>1, <2>2, <2>3 DEF DiverseStep
    <3> HIDE DEF step
    <3> QED
      BY <2>3, <3>1
  <2>4. CASE ~(rest = {} \/ Cardinality(kept) >= m)
    <3>1. Cardinality(kept) < m
      BY <1>1, <2>1, <2>4
    <3>2. c \in rest /\ Sifted(v, q, m, C, r, K)
      <4> HIDE DEF rest, kept
      <4> QED
        BY <2>1, <2>4, <3>1, SiftTurn DEF c, good, K, r
    <3>3. step[s] = <<r, K>>
      BY <2>2, <2>4 DEF DiverseStep
    <3>4. r \in SUBSET C /\ K \in SUBSET C
      BY <3>2 DEF Sifted
    <3>5. Cardinality(r) < Cardinality(rest)
      <4>1. IsFiniteSet(rest) /\ Cardinality(rest) \in Nat
        BY <1>1, <2>1
      <4> HIDE DEF rest, c
      <4>2. Cardinality(r) = Cardinality(rest) - 1
        BY <3>2, <4>1, FS_RemoveElement
      <4> QED
        BY <4>1, <4>2
    <3> HIDE DEF r, K, step, c, good
    <3>6. <<r, K>> \in S /\ step[s][1] = r
      BY <3>2, <3>3, <3>4
    <3>7. Cardinality(step[s][1]) < Cardinality(s[1])
      BY <3>5, <3>6 DEF rest
    <3>8. step[s] # s
      <4>1. Cardinality(rest) \in Nat
        BY <1>1, <2>1
      <4> QED
        BY <3>7, <4>1 DEF rest
    <3> QED
      BY <3>3, <3>6, <3>7, <3>8
  <2> QED
    BY <2>3, <2>4
<1>4. size \in [S -> Nat] /\ size[first] <= n
  BY <1>1, <1>2
<1>5. Within(step, S)
  BY <1>3 DEF Within
<1>6. Descends(step, S, size)
  BY <1>3 DEF Descends
<1>7. last \in S /\ step[last] = last
  <2> HIDE DEF S, step, size, first, n
  <2> QED
    BY <1>1, <1>2, <1>4, <1>5, <1>6, RepeatedKeeps, RepeatedEnds
<1>8. Diverse(v, C, q, m) = last[2]
  BY DEF Diverse
<1> DEFINE H == last[2]
           rest == last[1]
<1>9. rest = {} \/ Cardinality(H) >= m
  BY <1>3, <1>7
<1>10. Sifted(v, q, m, C, rest, H)
  <2> HIDE DEF last
  <2> QED
    BY <1>7
<1> HIDE DEF H, rest, last
<1>11. /\ rest \subseteq C /\ H \subseteq C \ rest /\ Cardinality(H) <= m
       /\ \A d \in C \ rest, r \in rest : Ahead(v, q, d, r)
       /\ \A d \in C \ rest : d \in H <=> Keeps(v, q, m, H, d)
  BY <1>10 DEF Sifted
<1>12. ASSUME NEW c \in rest PROVE c \notin H /\ ~Keeps(v, q, m, H, c)
  <2>1. NearOf(v, q, H, c) = H
    BY <1>11 DEF NearOf
  <2>2. Cardinality(H) \in Nat /\ Cardinality(H) >= m
    <3>1. H \in SUBSET C
      BY <1>11
    <3> QED
      BY <1>1, <1>9, <3>1
  <2> QED
    BY <1>11, <2>1, <2>2 DEF Keeps
<1>13. \A c \in C : c \in H <=> Keeps(v, q, m, H, c)
  BY <1>11, <1>12
<1> QED
  BY <1>8, <1>11, <1>13 DEF H

(* getNeighborsByHeuristic2 keeps a candidate exactly when fewer than m    *)
(* kept ones come before it and none of those is closer to it than q is,   *)
(* for any vectors: equal ones and equal distances are among them, and     *)
(* GeneralPosition is not used.                                            *)
THEOREM HeuristicExactHolds == Spec => []HeuristicExact
<1>1. HeuristicExact
  <2> SUFFICES ASSUME NEW n \in 1 .. MaxElements, NEW v \in [1 .. n -> Places], NEW q \in Places,
                      NEW C \in SUBSET (1 .. n), NEW m \in 1 .. M, Cardinality(C) >= m
               PROVE  LET H == Heuristic(v, C, q, m)
                          Before(c) == {h \in H : Ahead(v, q, h, c)}
                      IN  /\ H \subseteq C
                          /\ \A c \in C :
                               c \in H <=> /\ Cardinality(Before(c)) < m
                                           /\ \A h \in Before(c) : Dist(v[h], v[c]) >= Dist(v[c], q)
    BY DEF HeuristicExact, Places
  <2> DEFINE H == Diverse(v, C, q, m)
  <2>1. v \in Placed /\ C \in SUBSET DOMAIN v /\ m \in Nat \ {0}
    <3>1. n \in Nat
      BY GraphAssumption
    <3> QED
      BY <3>1, GraphAssumption DEF Placed
  <2>2. Heuristic(v, C, q, m) = H
    <3>1. Cardinality(C) \in Nat
      BY <2>1, PlacedSubset
    <3>2. ~(Cardinality(C) < m)
      BY <2>1, <3>1
    <3> QED
      BY <3>2 DEF Heuristic
  <2>3. /\ H \subseteq C /\ Cardinality(H) <= m
        /\ \A c \in C : c \in H <=> Keeps(v, q, m, H, c)
    BY <2>1, DiverseIs
  <2> HIDE DEF H
  <2> QED
    BY <2>2, <2>3 DEF Keeps, NearOf
<1> QED
  BY <1>1, PTL

=============================================================================
