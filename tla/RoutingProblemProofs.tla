------------------------ MODULE RoutingProblemProofs ------------------------
(***************************************************************************)
(* Facts about the shortest distances of RoutingProblem, for every graph   *)
(* and query: they exist and are unique, and synchronous_bellman_ford      *)
(* finds them in one round less than there are vertices.                   *)
(*                                                                         *)
(* No path is ever mentioned.  The shortest distances are the greatest     *)
(* potential, and a round of Bellman-Ford settles at least one further     *)
(* vertex, in the order in which Dijkstra's algorithm would.               *)
(***************************************************************************)
EXTENDS RoutingProblem, FiniteSetTheorems, WellFoundedInduction, TLAPS

-----------------------------------------------------------------------------
(***************************************************************************)
(* Induction on numbers, of sets instead of predicates                     *)
(***************************************************************************)
LEMMA LessThanPairs == OpToRel(<, Nat) = {ss \in Nat \X Nat : ss[1] < ss[2]}
BY DEF OpToRel

LEMMA LeastNumber ==
  ASSUME NEW T \in SUBSET Nat, T # {}
  PROVE  \E x \in T : \A y \in T : x <= y
<1> DEFINE R == OpToRel(<, Nat)
<1>1. IsWellFoundedOn(R, Nat)
  BY NatLessThanWellFounded
<1>2. ASSUME NEW x \in Nat, NEW y \in Nat, x < y PROVE <<x, y>> \in R
  <2>1. <<x, y>> \in Nat \X Nat /\ <<x, y>>[1] < <<x, y>>[2]
    BY <1>2
  <2>2. QED
    BY <2>1, LessThanPairs, Zenon
<1> HIDE DEF R
<1>3. PICK x \in T : \A y \in T : <<y, x>> \notin R
  BY <1>1, WFMin
<1>4. \A y \in T : ~(y < x)
  BY <1>2, <1>3
<1>5. QED
  BY <1>4

LEMMA GreatestNumber ==
  ASSUME NEW n \in Nat, NEW T \in SUBSET (0 .. n), T # {}
  PROVE  \E x \in T : \A y \in T : y <= x
<1> DEFINE Gaps == {n - x : x \in T}
<1>1. Gaps \in SUBSET Nat /\ Gaps # {}
  <2>1. ASSUME NEW x \in T PROVE n - x \in Nat
    OBVIOUS
  <2>2. QED
    BY <2>1
<1>2. PICK g \in Gaps : \A h \in Gaps : g <= h
  BY <1>1, LeastNumber
<1>3. PICK x \in T : g = n - x
  OBVIOUS
<1>4. ASSUME NEW y \in T PROVE y <= x
  <2>1. n - y \in Gaps
    OBVIOUS
  <2>2. n - x <= n - y
    BY <1>2, <1>3, <2>1
  <2>3. x \in Int /\ y \in Int
    OBVIOUS
  <2>4. QED
    BY <2>2, <2>3
<1>5. QED
  BY <1>4

LEMMA InductionOnSet ==
  ASSUME NEW S, 0 \in S, \A n \in Nat : n \in S => n + 1 \in S
  PROVE  Nat \subseteq S
<1> SUFFICES ASSUME Nat \ S # {} PROVE FALSE
  OBVIOUS
<1>1. PICK x \in Nat \ S : \A y \in Nat \ S : x <= y
  BY LeastNumber
<1>2. x # 0 /\ x - 1 \in Nat /\ x - 1 \notin S
  BY <1>1
<1>3. QED
  BY <1>1, <1>2

\* A sequence of states is determined by its first and by the function from
\* each to the next.
Iterates(S, first, F, g) ==
  /\ g \in [Nat -> S]
  /\ g = [k \in Nat |-> IF k = 0 THEN first ELSE F[g[k - 1]]]

LEMMA IterationExists ==
  ASSUME NEW S, NEW first \in S, NEW F \in [S -> S]
  PROVE  \E g : Iterates(S, first, F, g)
\* g up to n, for every n; the last elements make up the sequence.
<1> DEFINE Upto(n, h) == /\ h \in [0 .. n -> S]
                         /\ h[0] = first
                         /\ \A k \in 1 .. n : h[k] = F[h[k - 1]]
           Good == {n \in Nat : \E h : Upto(n, h)}
<1>1. 0 \in Good
  <2>1. Upto(0, [k \in 0 .. 0 |-> first])
    OBVIOUS
  <2>2. QED
    BY <2>1
<1>2. ASSUME NEW n \in Nat, n \in Good PROVE n + 1 \in Good
  <2>1. PICK h : Upto(n, h)
    BY <1>2
  <2> DEFINE longer == [k \in 0 .. n + 1 |-> IF k = n + 1 THEN F[h[n]] ELSE h[k]]
  <2>2. h[n] \in S /\ F[h[n]] \in S
    BY <2>1
  <2>3. longer \in [0 .. n + 1 -> S]
    BY <2>1, <2>2
  <2>4. longer[0] = first
    BY <2>1
  <2>5. ASSUME NEW k \in 1 .. n + 1 PROVE longer[k] = F[longer[k - 1]]
    <3>1. CASE k = n + 1
      BY <3>1
    <3>2. CASE k # n + 1
      <4>1. k \in 1 .. n /\ k - 1 \in 0 .. n
        BY <3>2
      <4>2. longer[k] = h[k] /\ longer[k - 1] = h[k - 1]
        BY <4>1
      <4>3. QED
        BY <2>1, <4>1, <4>2
    <3>3. QED
      BY <3>1, <3>2
  <2>6. Upto(n + 1, longer)
    BY <2>3, <2>4, <2>5
  <2>7. QED
    BY <2>6
<1>3. Nat \subseteq Good
  <2> HIDE DEF Good
  <2>1. QED
    BY <1>1, <1>2, InductionOnSet
\* Two of them agree where both are defined.
<1>4. ASSUME NEW m \in Nat, NEW n \in Nat, m <= n, NEW h, NEW i,
             Upto(m, h), Upto(n, i)
      PROVE  h[m] = i[m]
  <2> DEFINE Same == {k \in Nat : k <= m => h[k] = i[k]}
  <2>1. 0 \in Same
    BY <1>4
  <2>2. ASSUME NEW k \in Nat, k \in Same PROVE k + 1 \in Same
    <3> SUFFICES ASSUME k + 1 <= m PROVE h[k + 1] = i[k + 1]
      OBVIOUS
    <3>1. k + 1 \in 1 .. m /\ k + 1 \in 1 .. n /\ (k + 1) - 1 = k
      BY <1>4
    <3>2. h[k + 1] = F[h[k]] /\ i[k + 1] = F[i[k]]
      BY <1>4, <3>1
    <3>3. h[k] = i[k]
      BY <2>2
    <3>4. QED
      BY <3>2, <3>3
  <2>3. Nat \subseteq Same
    <3> HIDE DEF Same
    <3>1. QED
      BY <2>1, <2>2, InductionOnSet
  <2>4. QED
    BY <2>3
<1> DEFINE part == [n \in Nat |-> CHOOSE h : Upto(n, h)]
           g    == [n \in Nat |-> part[n][n]]
<1>5. ASSUME NEW n \in Nat PROVE Upto(n, part[n])
  BY <1>3
<1> HIDE DEF part
<1>6. g \in [Nat -> S]
  BY <1>5
<1>7. g[0] = first
  BY <1>5
<1>8. ASSUME NEW k \in Nat, k # 0 PROVE g[k] = F[g[k - 1]]
  <2>1. k - 1 \in Nat /\ k - 1 <= k /\ k \in 1 .. k
    BY <1>8
  <2>2. part[k][k] = F[part[k][k - 1]]
    BY <1>5, <2>1
  <2>3. Upto(k, part[k]) /\ Upto(k - 1, part[k - 1])
    BY <1>5, <2>1
  <2>4. part[k - 1][k - 1] = part[k][k - 1]
    <3> HIDE DEF Upto
    <3>1. QED
      BY <1>4, <2>1, <2>3
  <2>5. QED
    BY <2>1, <2>2, <2>4
<1>9. g = [k \in Nat |-> IF k = 0 THEN first ELSE F[g[k - 1]]]
  BY <1>7, <1>8
<1> HIDE DEF g
<1>10. QED
  BY <1>6, <1>9 DEF Iterates

-----------------------------------------------------------------------------
(***************************************************************************)
(* Shares: a thread of a grid of N takes every N-th entry of an array.     *)
(***************************************************************************)
LEMMA Division ==
  ASSUME NEW N \in Nat \ {0}, NEW i \in Nat
  PROVE  /\ i \div N \in Nat
         /\ i % N \in 0 .. N - 1
         /\ i = N * (i \div N) + (i % N)
<1>1. i % N \in 0 .. N - 1
  OBVIOUS
<1>2. i = N * (i \div N) + (i % N)
  OBVIOUS
<1>3. i \div N \in Nat
  OBVIOUS
<1>4. QED
  BY <1>1, <1>2, <1>3

LEMMA TimesPositive ==
  ASSUME NEW N \in Nat \ {0}, NEW a \in Int, a >= 1
  PROVE  N * a >= N /\ N * a \in Int
OBVIOUS

LEMMA TimesDifference ==
  ASSUME NEW N \in Nat \ {0}, NEW a \in Int, NEW b \in Int
  PROVE  N * (a - b) = N * a - N * b /\ N * a \in Int /\ N * b \in Int
OBVIOUS

LEMMA DivisionUnique ==
  ASSUME NEW N \in Nat \ {0}, NEW a \in Int, NEW b \in Int,
         NEW r \in 0 .. N - 1, NEW s \in 0 .. N - 1,
         N * a + r = N * b + s
  PROVE  a = b /\ r = s
<1>1. /\ N * (a - b) = N * a - N * b
      /\ N * (b - a) = N * b - N * a
      /\ N * a \in Int /\ N * b \in Int
  BY TimesDifference
<1>2. CASE a > b
  <2>1. N * (a - b) >= N
    BY <1>2, TimesPositive
  <2>2. QED
    BY <1>1, <2>1
<1>3. CASE b > a
  <2>1. N * (b - a) >= N
    BY <1>3, TimesPositive
  <2>2. QED
    BY <1>1, <2>1
<1>4. QED
  BY <1>1, <1>2, <1>3

LEMMA ShareStarts ==
  ASSUME NEW N \in Nat \ {0}, NEW t \in 0 .. N - 1
  PROVE  t % N = t /\ \A i \in Nat : i % N = t => t <= i
OBVIOUS

LEMMA ShareSteps ==
  ASSUME NEW N \in Nat \ {0}, NEW i \in Nat
  PROVE  (i + N) % N = i % N
<1> DEFINE j == i + N
           a == i \div N
           b == j \div N
           r == i % N
           s == j % N
<1>1. i = N * a + r /\ a \in Nat /\ r \in 0 .. N - 1
  BY Division
<1>2. j = N * b + s /\ b \in Nat /\ s \in 0 .. N - 1
  <2>1. j \in Nat
    OBVIOUS
  <2> HIDE DEF j
  <2>2. QED
    BY <2>1, Division
<1>3. N * (a + 1) = N * a + N
  <2>1. N * (a - (-1)) = N * a - N * (-1)
    BY <1>1, TimesDifference
  <2>2. QED
    BY <1>1, <2>1
<1>4. N * (a + 1) + r = N * b + s
  BY <1>1, <1>2, <1>3
<1> DEFINE c == a + 1
<1>5. N * c + r = N * b + s /\ c \in Int /\ b \in Int
        /\ r \in 0 .. N - 1 /\ s \in 0 .. N - 1
  BY <1>1, <1>2, <1>4
<1> HIDE DEF a, b, c, r, s
<1>6. r = s
  BY <1>5, DivisionUnique
<1>7. QED
  BY <1>6 DEF r, s

LEMMA ShareHasGaps ==
  ASSUME NEW N \in Nat \ {0}, NEW i \in Nat, NEW j \in Nat,
         i % N = j % N, i < j
  PROVE  i + N <= j
<1> DEFINE a == i \div N
           b == j \div N
           r == i % N
<1>1. /\ i = N * a + r /\ a \in Nat /\ r \in 0 .. N - 1
      /\ j = N * b + r /\ b \in Nat
  BY Division
<1> HIDE DEF a, b, r
<1>2. /\ N * (b - a) = N * b - N * a
      /\ N * (a - b) = N * a - N * b
      /\ N * a \in Int /\ N * b \in Int
  BY <1>1, TimesDifference
<1>3. CASE a >= b
  <2>1. N * (a - b) >= 0
    BY <1>1, <1>3
  <2>2. QED
    BY <1>1, <1>2, <2>1
<1>4. CASE b > a
  <2>1. N * (b - a) >= N
    BY <1>1, <1>4, TimesPositive
  <2>2. QED
    BY <1>1, <1>2, <2>1
<1>5. QED
  BY <1>1, <1>3, <1>4

-----------------------------------------------------------------------------
(***************************************************************************)
(* Sums and edges                                                          *)
(***************************************************************************)
Assignments == [Vertices -> Distances]

\* Saturating addition does not leave the distances.
LEMMA PlusType ==
  ASSUME NEW a \in Distances, NEW w \in 0 .. Infinity - 1
  PROVE  Plus(a, w) \in Distances
BY GraphAssumption DEF Plus, Distances

\* Saturating addition is monotone, as binary32 addition is, and an edge never
\* makes a route cheaper.
LEMMA PlusMonotone ==
  ASSUME NEW a \in Distances, NEW b \in Distances,
         NEW w \in 0 .. Infinity - 1, a <= b
  PROVE  Plus(a, w) <= Plus(b, w) /\ a <= Plus(a, w)
BY GraphAssumption DEF Plus, Distances

\* The fields of an edge.
LEMMA EdgeType ==
  ASSUME NEW e \in Edges
  PROVE  /\ Source[e] \in Vertices
         /\ Destination[e] \in Vertices
         /\ Weight[e] \in 0 .. Infinity - 1
         /\ e \in Int
BY GraphAssumption DEF Edges

LEMMA AdmittedEdge ==
  ASSUME NEW e \in Admitted
  PROVE  /\ e \in Edges
         /\ Source[e] \in Vertices
         /\ Destination[e] \in Vertices
         /\ Weight[e] \in 0 .. Infinity - 1
BY GraphAssumption DEF Admitted

LEMMA SourcesAreVertices == Sources \subseteq Vertices /\ Sources # {}
BY QueryAssumption DEF Sources

LEMMA InitialDistanceType == InitialDistance \in [Vertices -> Distances]
BY GraphAssumption DEF InitialDistance, Distances

\* The initial distances are above every potential.
LEMMA InitialDistanceAbove ==
  \A p \in Potentials : \A v \in Vertices : p[v] <= InitialDistance[v]
BY GraphAssumption DEF Potentials, InitialDistance, Distances

-----------------------------------------------------------------------------
(***************************************************************************)
(* Rounds                                                                  *)
(***************************************************************************)
LEMMA LowestIsLeast ==
  ASSUME NEW S \in SUBSET Distances, S # {}
  PROVE  Lowest(S) \in S /\ \A y \in S : Lowest(S) <= y
<1>1. S \in SUBSET Nat
  BY GraphAssumption DEF Distances
<1>2. \E x \in S : \A y \in S : x <= y
  BY <1>1, LeastNumber
<1>3. QED
  BY <1>2 DEF Lowest

\* What a round of relaxations offers a vertex.
Offers(d, v) == {Plus(d[Source[e]], Weight[e]) :
                   e \in {f \in Admitted : Destination[f] = v}}

LEMMA RoundFacts ==
  ASSUME NEW d \in Assignments, NEW v \in Vertices
  PROVE  LET new == BellmanFordRound(d)[v]
         IN /\ new \in Distances
            /\ new <= d[v]
            /\ \A e \in Admitted :
                 Destination[e] = v => new <= Plus(d[Source[e]], Weight[e])
            /\ \/ new = d[v]
               \/ \E e \in Admitted : /\ Destination[e] = v
                                      /\ new = Plus(d[Source[e]], Weight[e])
<1> DEFINE S == {d[v]} \union Offers(d, v)
<1>1. \A e \in Admitted : Plus(d[Source[e]], Weight[e]) \in Distances
  BY AdmittedEdge, PlusType DEF Assignments
<1>2. S \in SUBSET Distances /\ S # {}
  BY <1>1 DEF Assignments, Offers
<1>3. Lowest(S) \in S /\ \A y \in S : Lowest(S) <= y
  <2> HIDE DEF S
  <2>1. QED
    BY <1>2, LowestIsLeast
<1>4. BellmanFordRound(d)[v] = Lowest(S)
  BY DEF BellmanFordRound, Offers
<1> DEFINE new == Lowest(S)
<1>5. new \in S /\ new \in Distances
  BY <1>2, <1>3
<1>6. new <= d[v]
  BY <1>3
<1>7. ASSUME NEW e \in Admitted, Destination[e] = v
      PROVE  new <= Plus(d[Source[e]], Weight[e])
  <2>1. Plus(d[Source[e]], Weight[e]) \in S
    BY <1>7 DEF Offers
  <2>2. QED
    BY <1>3, <2>1
<1>8. new = d[v] \/ \E e \in Admitted : /\ Destination[e] = v
                                        /\ new = Plus(d[Source[e]], Weight[e])
  BY <1>5 DEF Offers
<1> HIDE DEF new
<1>9. QED
  BY <1>4, <1>5, <1>6, <1>7, <1>8 DEF new

LEMMA RoundType ==
  ASSUME NEW d \in Assignments PROVE BellmanFordRound(d) \in Assignments
<1>1. \A v \in Vertices : BellmanFordRound(d)[v] \in Distances
  BY RoundFacts
<1>2. BellmanFordRound(d) = [v \in Vertices |-> BellmanFordRound(d)[v]]
  BY DEF BellmanFordRound
<1>3. QED
  BY <1>1, <1>2 DEF Assignments

\* The recursive definition defines what it says.
THEOREM BellmanFordRounds ==
  /\ BellmanFord \in [Nat -> Assignments]
  /\ BellmanFord[0] = InitialDistance
  /\ \A k \in Nat : BellmanFord[k + 1] = BellmanFordRound(BellmanFord[k])
<1> DEFINE F     == [d \in Assignments |-> BellmanFordRound(d)]
           Is(g) == g = [k \in Nat |-> IF k = 0 THEN InitialDistance
                                       ELSE BellmanFordRound(g[k - 1])]
<1>1. F \in [Assignments -> Assignments] /\ InitialDistance \in Assignments
  BY RoundType, InitialDistanceType DEF Assignments
<1>2. PICK g : Iterates(Assignments, InitialDistance, F, g)
  <2> HIDE DEF F
  <2>1. QED
    BY <1>1, IterationExists
<1>3. \A k \in Nat \ {0} : F[g[k - 1]] = BellmanFordRound(g[k - 1])
  BY <1>2 DEF Iterates
<1>4. Is(g)
  <2> HIDE DEF F
  <2>1. QED
    BY <1>2, <1>3 DEF Iterates
<1>5. BellmanFord = CHOOSE h : Is(h)
  BY DEF BellmanFord
<1>6. Is(BellmanFord)
  <2> HIDE DEF Is
  <2>1. QED
    BY <1>4, <1>5
<1>7. BellmanFord[0] = InitialDistance
  BY <1>6
<1>8. ASSUME NEW k \in Nat PROVE BellmanFord[k + 1] = BellmanFordRound(BellmanFord[k])
  <2>1. k + 1 \in Nat /\ k + 1 # 0 /\ (k + 1) - 1 = k
    OBVIOUS
  <2>2. QED
    BY <1>6, <2>1
<1>9. \A k \in Nat : BellmanFord[k] \in Assignments
  <2> DEFINE Typed == {k \in Nat : BellmanFord[k] \in Assignments}
  <2>1. 0 \in Typed
    BY <1>1, <1>7
  <2>2. ASSUME NEW k \in Nat, k \in Typed PROVE k + 1 \in Typed
    BY <1>8, <2>2, RoundType
  <2>3. Nat \subseteq Typed
    <3> HIDE DEF Typed
    <3>1. QED
      BY <2>1, <2>2, InductionOnSet
  <2>4. QED
    BY <2>3
<1>10. BellmanFord = [k \in Nat |-> BellmanFord[k]]
  <2>1. DOMAIN BellmanFord = Nat
    BY <1>6
  <2>2. QED
    BY <1>6, <2>1
<1>11. QED
  BY <1>7, <1>8, <1>9, <1>10

-----------------------------------------------------------------------------
(***************************************************************************)
(* The shortest distances                                                  *)
(***************************************************************************)
\* The distances of a round are above every potential.
LEMMA RoundAbove ==
  ASSUME NEW p \in Potentials, NEW d \in Assignments,
         \A v \in Vertices : p[v] <= d[v]
  PROVE  \A v \in Vertices : p[v] <= BellmanFordRound(d)[v]
<1> SUFFICES ASSUME NEW v \in Vertices PROVE p[v] <= BellmanFordRound(d)[v]
  OBVIOUS
<1> DEFINE new == BellmanFordRound(d)[v]
<1>1. \/ new = d[v]
      \/ \E e \in Admitted : /\ Destination[e] = v
                             /\ new = Plus(d[Source[e]], Weight[e])
  BY RoundFacts
<1>2. ASSUME NEW e \in Admitted, Destination[e] = v
      PROVE  p[v] <= Plus(d[Source[e]], Weight[e])
  <2> DEFINE u == Source[e]
             w == Weight[e]
  <2>1. u \in Vertices /\ w \in 0 .. Infinity - 1
    BY AdmittedEdge
  <2>2. p[u] \in Distances /\ d[u] \in Distances /\ p[v] \in Distances /\ p[u] <= d[u]
    BY <2>1 DEF Potentials, Assignments
  <2>3. Plus(p[u], w) <= Plus(d[u], w)
    BY <2>1, <2>2, PlusMonotone
  <2>4. p[v] <= Plus(p[u], w)
    BY <1>2 DEF Potentials, Relaxed
  <2>5. Plus(p[u], w) \in Int /\ Plus(d[u], w) \in Int /\ p[v] \in Int
    BY <2>1, <2>2, PlusType, GraphAssumption DEF Distances
  <2> HIDE DEF u, w
  <2>6. p[v] <= Plus(d[u], w)
    BY <2>3, <2>4, <2>5
  <2>7. QED
    BY <2>6 DEF u, w
<1>3. QED
  BY <1>1, <1>2

LEMMA BellmanFordAbove ==
  ASSUME NEW p \in Potentials
  PROVE  \A k \in Nat : \A v \in Vertices : p[v] <= BellmanFord[k][v]
<1> DEFINE Above == {k \in Nat : \A v \in Vertices : p[v] <= BellmanFord[k][v]}
<1>1. 0 \in Above
  BY InitialDistanceAbove, BellmanFordRounds
<1>2. ASSUME NEW k \in Nat, k \in Above PROVE k + 1 \in Above
  <2>1. BellmanFord[k] \in Assignments
        /\ BellmanFord[k + 1] = BellmanFordRound(BellmanFord[k])
    BY BellmanFordRounds
  <2>2. QED
    BY <1>2, <2>1, RoundAbove
<1>3. Nat \subseteq Above
  <2> HIDE DEF Above
  <2>1. QED
    BY <1>1, <1>2, InductionOnSet
<1>4. QED
  BY <1>3

\* Rounds only lower distances.
LEMMA BellmanFordFalls ==
  \A k \in Nat : \A v \in Vertices : BellmanFord[k][v] <= InitialDistance[v]
<1> DEFINE Below == {k \in Nat : \A v \in Vertices :
                       BellmanFord[k][v] <= InitialDistance[v]}
<1>1. 0 \in Below
  BY BellmanFordRounds, InitialDistanceType DEF Distances
<1>2. ASSUME NEW k \in Nat, k \in Below PROVE k + 1 \in Below
  <2>1. BellmanFord[k] \in Assignments /\ BellmanFord[k + 1] \in Assignments
        /\ BellmanFord[k + 1] = BellmanFordRound(BellmanFord[k])
    BY BellmanFordRounds
  <2>2. ASSUME NEW v \in Vertices PROVE BellmanFord[k + 1][v] <= InitialDistance[v]
    <3>1. BellmanFord[k + 1][v] <= BellmanFord[k][v]
      BY <2>1, RoundFacts
    <3>2. BellmanFord[k][v] <= InitialDistance[v]
      BY <1>2
    <3>3. /\ BellmanFord[k][v] \in Int /\ BellmanFord[k + 1][v] \in Int
          /\ InitialDistance[v] \in Int
      BY <2>1, InitialDistanceType DEF Assignments, Distances
    <3>4. QED
      BY <3>1, <3>2, <3>3
  <2>3. QED
    BY <2>2
<1>3. Nat \subseteq Below
  <2> HIDE DEF Below
  <2>1. QED
    BY <1>1, <1>2, InductionOnSet
<1>4. QED
  BY <1>3

\* The greatest value a potential gives each vertex.
LEMMA GreatestPotential ==
  \E d \in Assignments :
    \A v \in Vertices : /\ \E p \in Potentials : d[v] = p[v]
                        /\ \A p \in Potentials : p[v] <= d[v]
<1> DEFINE zero      == [v \in Vertices |-> 0]
           Values(v) == {p[v] : p \in Potentials}
           d         == [v \in Vertices |-> CHOOSE x \in Values(v) :
                                              \A y \in Values(v) : y <= x]
<1>1. zero \in Potentials
  <2>1. zero \in [Vertices -> Distances]
    BY GraphAssumption DEF Distances
  <2>2. \A v \in Sources : zero[v] = 0
    BY SourcesAreVertices
  <2>3. ASSUME NEW e \in Admitted PROVE Relaxed(zero, e)
    <3>1. zero[Destination[e]] = 0 /\ zero[Source[e]] = 0
          /\ Weight[e] \in 0 .. Infinity - 1
      BY AdmittedEdge
    <3>2. 0 <= Plus(0, Weight[e])
      BY <3>1, GraphAssumption DEF Plus
    <3> HIDE DEF zero
    <3>3. QED
      BY <3>1, <3>2 DEF Relaxed
  <2>4. QED
    BY <2>1, <2>2, <2>3 DEF Potentials
<1>2. ASSUME NEW v \in Vertices
      PROVE  d[v] \in Values(v) /\ \A y \in Values(v) : y <= d[v]
  <2>1. Values(v) \in SUBSET (0 .. Infinity)
    BY DEF Potentials, Distances
  <2>2. Values(v) # {}
    BY <1>1
  <2> HIDE DEF Values
  <2>3. \E x \in Values(v) : \A y \in Values(v) : y <= x
    BY <2>1, <2>2, GraphAssumption, GreatestNumber
  <2>4. QED
    BY <2>3
<1>3. d \in Assignments
  <2>1. \A v \in Vertices : Values(v) \subseteq Distances
    BY DEF Potentials
  <2>2. QED
    BY <1>2, <2>1 DEF Assignments
<1> HIDE DEF d
<1>4. QED
  BY <1>2, <1>3

\* There are shortest distances, and only one assignment of them.
THEOREM ShortestExists == \E d : IsShortest(d)
<1>1. PICK d \in Assignments :
        \A v \in Vertices : /\ \E p \in Potentials : d[v] = p[v]
                            /\ \A p \in Potentials : p[v] <= d[v]
  BY GreatestPotential
<1>2. ASSUME NEW v \in Sources PROVE d[v] = 0
  BY <1>1, SourcesAreVertices DEF Potentials
<1>3. ASSUME NEW e \in Admitted PROVE Relaxed(d, e)
  <2> DEFINE u == Source[e]
             v == Destination[e]
             w == Weight[e]
  <2>1. u \in Vertices /\ v \in Vertices /\ w \in 0 .. Infinity - 1
    BY AdmittedEdge
  <2>2. PICK p \in Potentials : d[v] = p[v]
    BY <1>1, <2>1
  <2>3. p[u] \in Distances /\ d[u] \in Distances /\ d[v] \in Distances
    BY <2>1 DEF Potentials, Assignments
  <2>4. p[u] <= d[u]
    BY <1>1, <2>1
  <2>5. Plus(p[u], w) <= Plus(d[u], w)
    BY <2>1, <2>3, <2>4, PlusMonotone
  <2>6. d[v] <= Plus(p[u], w)
    BY <2>2 DEF Potentials, Relaxed
  <2>7. Plus(p[u], w) \in Int /\ Plus(d[u], w) \in Int /\ d[v] \in Int
    BY <2>1, <2>3, PlusType, GraphAssumption DEF Distances
  <2> HIDE DEF u, v, w
  <2>8. d[v] <= Plus(d[u], w)
    BY <2>5, <2>6, <2>7
  <2>9. QED
    BY <2>8 DEF Relaxed, u, v, w
<1>4. d \in Potentials
  BY <1>2, <1>3 DEF Potentials, Assignments
<1>5. QED
  BY <1>1, <1>4 DEF IsShortest

LEMMA ShortestUnique ==
  ASSUME NEW c, NEW d, IsShortest(c), IsShortest(d)
  PROVE  c = d
<1>1. c \in [Vertices -> Distances] /\ d \in [Vertices -> Distances]
  BY DEF IsShortest, Potentials
<1>2. ASSUME NEW v \in Vertices PROVE c[v] = d[v]
  <2>1. c[v] <= d[v] /\ d[v] <= c[v]
    BY DEF IsShortest
  <2>2. c[v] \in Int /\ d[v] \in Int
    BY <1>1, GraphAssumption DEF Distances
  <2>3. QED
    BY <2>1, <2>2
<1>3. QED
  BY <1>1, <1>2

\* Among the vertices beyond a set that holds the sources and the nearest
\* vertices, one of the nearest is reached from the set by a tight edge:
\* otherwise all of them could be lifted, and a greater potential found.
LEMMA TightEdge ==
  ASSUME NEW d, IsShortest(d), NEW A \in SUBSET Vertices, Sources \subseteq A,
         NEW m \in Distances, m # Infinity,
         \A v \in Vertices \ A : m <= d[v],
         \E v \in Vertices \ A : d[v] = m
  PROVE  \E e \in Admitted : /\ Source[e] \in A
                             /\ Destination[e] \notin A
                             /\ d[Destination[e]] = m
                             /\ Plus(d[Source[e]], Weight[e]) <= m
<1> SUFFICES ASSUME \A e \in Admitted :
                      Source[e] \in A /\ Destination[e] \notin A
                        /\ d[Destination[e]] = m
                      => ~(Plus(d[Source[e]], Weight[e]) <= m)
             PROVE  FALSE
  OBVIOUS
<1> DEFINE Lifted(v) == v \notin A /\ d[v] = m
           p == [v \in Vertices |-> IF Lifted(v) THEN m + 1 ELSE d[v]]
<1>1. d \in [Vertices -> Distances]
  BY DEF IsShortest, Potentials
<1>2. m + 1 \in Distances /\ m \in Int
  BY GraphAssumption DEF Distances
<1>3. p \in [Vertices -> Distances]
  BY <1>1, <1>2
<1>4. \A v \in Vertices : /\ d[v] <= p[v]
                          /\ Lifted(v) => p[v] = m + 1
                          /\ ~Lifted(v) => p[v] = d[v]
  BY <1>1, <1>2, GraphAssumption DEF Distances
<1>5. \A v \in Sources : p[v] = 0
  BY <1>4, SourcesAreVertices DEF IsShortest, Potentials
<1> HIDE DEF p
<1>6. ASSUME NEW e \in Admitted PROVE Relaxed(p, e)
  <2> DEFINE u == Source[e]
             v == Destination[e]
             w == Weight[e]
  <2>1. u \in Vertices /\ v \in Vertices /\ w \in 0 .. Infinity - 1
    BY AdmittedEdge
  <2>2. d[u] \in Distances /\ d[v] \in Distances /\ p[u] \in Distances
        /\ p[v] \in Distances
    BY <1>1, <1>3, <2>1
  <2>3. d[v] <= Plus(d[u], w)
    BY DEF IsShortest, Potentials, Relaxed
  <2>4. Plus(d[u], w) \in Distances /\ Plus(p[u], w) \in Distances
    BY <2>1, <2>2, PlusType
  <2>5. Plus(d[u], w) <= Plus(p[u], w) /\ p[u] <= Plus(p[u], w)
    <3> HIDE DEF u, v, w
    <3>1. d[u] <= p[u] /\ p[u] <= p[u]
      BY <1>4, <2>1, <2>2, GraphAssumption DEF Distances
    <3>2. QED
      BY <2>1, <2>2, <3>1, PlusMonotone
  <2>6. u \in A /\ Lifted(v) => ~(Plus(d[u], w) <= m)
    OBVIOUS
  <2> HIDE DEF u, v, w
  <2>7. /\ d[u] \in Int /\ d[v] \in Int /\ p[u] \in Int /\ p[v] \in Int
        /\ Plus(d[u], w) \in Int /\ Plus(p[u], w) \in Int
    BY <2>2, <2>4, GraphAssumption DEF Distances
  <2>8. CASE ~Lifted(v)
    <3>1. p[v] = d[v]
      BY <1>4, <2>1, <2>8
    <3>2. p[v] <= Plus(p[u], w)
      BY <2>2, <2>3, <2>4, <2>5, <2>7, <3>1
    <3>3. QED
      BY <3>2 DEF Relaxed, u, v, w
  <2>9. CASE Lifted(v) /\ u \in A
    <3>1. p[v] = m + 1 /\ ~Lifted(u)
      BY <1>4, <2>1, <2>9
    <3>2. Plus(d[u], w) >= m + 1
      BY <1>2, <2>4, <2>6, <2>7, <2>9
    <3>3. p[v] <= Plus(p[u], w)
      BY <1>2, <2>2, <2>4, <2>5, <2>7, <3>1, <3>2
    <3>4. QED
      BY <3>3 DEF Relaxed, u, v, w
  <2>10. CASE Lifted(v) /\ u \notin A
    <3>1. p[v] = m + 1
      BY <1>4, <2>1, <2>10
    <3>2. m <= d[u]
      BY <2>1, <2>10
    <3>3. p[u] >= m + 1
      <4>1. CASE Lifted(u)
        BY <1>2, <1>4, <2>1, <4>1
      <4>2. CASE ~Lifted(u)
        <5>1. d[u] # m /\ p[u] = d[u]
          BY <1>4, <2>1, <2>10, <4>2
        <5>2. QED
          BY <1>2, <2>2, <2>7, <3>2, <5>1
      <4>3. QED
        BY <4>1, <4>2
    <3>4. p[v] <= Plus(p[u], w)
      BY <1>2, <2>2, <2>4, <2>5, <2>7, <3>1, <3>3
    <3>5. QED
      BY <3>4 DEF Relaxed, u, v, w
  <2>11. QED
    BY <2>8, <2>9, <2>10
<1>7. p \in Potentials
  BY <1>3, <1>5, <1>6 DEF Potentials
<1>8. PICK v \in Vertices \ A : d[v] = m
  OBVIOUS
<1>9. p[v] = m + 1 /\ p[v] <= d[v]
  BY <1>4, <1>7, <1>8 DEF IsShortest
<1>10. QED
  BY <1>2, <1>8, <1>9

-----------------------------------------------------------------------------
(***************************************************************************)
(* The reference                                                           *)
(***************************************************************************)
SelectedVertices == {v \in Vertices : InSelectedTile(v)}

\* The vertices of A have their shortest distance after k rounds, and are the
\* nearest ones; they are all that can be reached, or more than k.
SettledAfter(k, d, A) ==
  /\ Sources \subseteq A /\ A \subseteq SelectedVertices
  /\ \A a \in A : BellmanFord[k][a] = d[a]
  /\ \A a \in A : \A v \in Vertices \ A : d[a] <= d[v]
  /\ \/ \A v \in Vertices \ A : d[v] = Infinity
     \/ Cardinality(A) >= k + 1

LEMMA FiniteSets ==
  /\ IsFiniteSet(Vertices) /\ Cardinality(Vertices) = VertexCount
  /\ \A A \in SUBSET Vertices : IsFiniteSet(A) /\ Cardinality(A) \in Nat
<1>1. IsFiniteSet(Vertices) /\ Cardinality(Vertices) = VertexCount
  BY FS_Interval, GraphAssumption DEF Vertices
<1>2. QED
  BY <1>1, FS_Subset, FS_CardinalityType

LEMMA SourcesAreSelected == Sources \subseteq SelectedVertices
BY QueryAssumption DEF Sources, SelectedVertices

LEMMA SettledAtFirst ==
  ASSUME NEW d, IsShortest(d) PROVE SettledAfter(0, d, Sources)
<1>1. \A v \in Sources : d[v] = 0 /\ InitialDistance[v] = 0
  BY SourcesAreVertices DEF IsShortest, Potentials, InitialDistance
<1>2. d \in [Vertices -> 0 .. Infinity]
  BY DEF IsShortest, Potentials, Distances
<1>3. Cardinality(Sources) >= 1
  <2>1. IsFiniteSet(Sources) /\ Cardinality(Sources) \in Nat
    BY SourcesAreVertices, FiniteSets
  <2>2. Cardinality(Sources) # 0
    BY <2>1, SourcesAreVertices, FS_EmptySet
  <2>3. QED
    BY <2>1, <2>2
<1>4. QED
  BY <1>1, <1>2, <1>3, SourcesAreVertices, SourcesAreSelected, BellmanFordRounds
  DEF SettledAfter

\* While something is left to be reached, an edge leads to the nearest of it.
LEMMA NextSettled ==
  ASSUME NEW d, IsShortest(d), NEW k \in Nat, NEW A, SettledAfter(k, d, A),
         ~ \A v \in Vertices \ A : d[v] = Infinity
  PROVE  \E e \in Admitted :
           /\ Source[e] \in A /\ Destination[e] \notin A
           /\ \A v \in Vertices \ A : d[Destination[e]] <= d[v]
           /\ Plus(d[Source[e]], Weight[e]) <= d[Destination[e]]
<1>1. /\ Sources \subseteq A /\ A \in SUBSET Vertices
      /\ \A a \in A : \A v \in Vertices \ A : d[a] <= d[v]
  BY DEF SettledAfter, SelectedVertices
<1>2. d \in [Vertices -> Distances]
  BY DEF IsShortest, Potentials
<1> DEFINE left == {d[v] : v \in Vertices \ A}
<1>3. left \in SUBSET Nat /\ left # {}
  BY <1>1, <1>2 DEF Distances
<1>4. PICK m \in left : \A x \in left : m <= x
  BY <1>3, LeastNumber
<1>5. /\ m \in Distances /\ \A v \in Vertices \ A : m <= d[v]
      /\ \E v \in Vertices \ A : d[v] = m
  BY <1>2, <1>4
<1>6. m # Infinity
  BY <1>2, <1>5, GraphAssumption DEF Distances
<1>7. PICK e \in Admitted : /\ Source[e] \in A
                            /\ Destination[e] \notin A
                            /\ d[Destination[e]] = m
                            /\ Plus(d[Source[e]], Weight[e]) <= m
  BY <1>1, <1>5, <1>6, TightEdge
<1>8. QED
  BY <1>5, <1>7

\* Every round settles one more of the nearest vertices that are left.
LEMMA SettleOneMore ==
  ASSUME NEW d, IsShortest(d), NEW k \in Nat, NEW A, SettledAfter(k, d, A)
  PROVE  \E B : SettledAfter(k + 1, d, B)
<1> DEFINE old == BellmanFord[k]
           new == BellmanFord[k + 1]
<1>1. /\ Sources \subseteq A /\ A \in SUBSET Vertices
      /\ A \subseteq SelectedVertices
      /\ \A a \in A : old[a] = d[a]
      /\ \A a \in A : \A v \in Vertices \ A : d[a] <= d[v]
      /\ \/ \A v \in Vertices \ A : d[v] = Infinity
         \/ Cardinality(A) >= k + 1
  BY DEF SettledAfter, SelectedVertices
<1>2. /\ d \in Potentials /\ d \in [Vertices -> Distances]
      /\ old \in Assignments /\ new \in Assignments
      /\ new = BellmanFordRound(old)
  BY BellmanFordRounds DEF IsShortest, Potentials
<1>3. \A v \in Vertices : /\ d[v] \in Int /\ old[v] \in Int /\ new[v] \in Int
                          /\ new[v] <= Infinity
  BY <1>2, GraphAssumption DEF Assignments, Distances
<1>4. \A v \in Vertices : d[v] <= new[v] /\ new[v] <= old[v]
  <2>1. \A v \in Vertices : d[v] <= new[v]
    BY <1>2, BellmanFordAbove
  <2>2. \A v \in Vertices : new[v] <= old[v]
    BY <1>2, RoundFacts
  <2>3. QED
    BY <2>1, <2>2
<1> HIDE DEF old, new
<1>5. \A a \in A : new[a] = d[a]
  BY <1>1, <1>3, <1>4
<1>6. CASE \A v \in Vertices \ A : d[v] = Infinity
  <2>1. SettledAfter(k + 1, d, A)
    BY <1>1, <1>5, <1>6 DEF SettledAfter, new
  <2>2. QED
    BY <2>1
<1>7. CASE ~ \A v \in Vertices \ A : d[v] = Infinity
  <2>1. PICK e \in Admitted :
          /\ Source[e] \in A /\ Destination[e] \notin A
          /\ \A v \in Vertices \ A : d[Destination[e]] <= d[v]
          /\ Plus(d[Source[e]], Weight[e]) <= d[Destination[e]]
    BY <1>7, NextSettled
  <2> DEFINE v == Destination[e]
             B == A \union {v}
  <2>2. v \in Vertices /\ v \notin A /\ v \in SelectedVertices
    BY <2>1, AdmittedEdge DEF Admitted, SelectedVertices
  <2>3. new[v] <= Plus(old[Source[e]], Weight[e])
    BY <1>2, <2>2, RoundFacts
  <2>4. new[v] <= d[v]
    <3>1. old[Source[e]] = d[Source[e]]
      BY <1>1, <2>1
    <3>2. Plus(d[Source[e]], Weight[e]) \in Int
      BY <1>2, AdmittedEdge, PlusType, GraphAssumption DEF Distances
    <3>3. d[v] \in Int /\ new[v] \in Int
      BY <1>3, <2>2
    <3>4. QED
      BY <2>1, <2>3, <3>1, <3>2, <3>3
  <2>5. new[v] = d[v]
    BY <1>3, <1>4, <2>2, <2>4
  <2>6. \A w \in Vertices \ A : d[v] <= d[w]
    BY <2>1
  <2> HIDE DEF v
  <2>7. \A a \in B : new[a] = d[a]
    BY <1>5, <2>5
  <2>8. \A a \in B : \A w \in Vertices \ B : d[a] <= d[w]
    BY <1>1, <2>2, <2>6
  <2>9. B \in SUBSET SelectedVertices /\ Sources \subseteq B
    BY <1>1, <2>2
  <2>10. Cardinality(B) >= (k + 1) + 1
    <3>1. IsFiniteSet(A) /\ Cardinality(A) \in Nat
      BY <1>1, FiniteSets
    <3>2. Cardinality(B) = Cardinality(A) + 1
      BY <2>2, <3>1, FS_AddElement
    <3>3. QED
      BY <1>1, <1>7, <3>1, <3>2
  <2>11. SettledAfter(k + 1, d, B)
    BY <2>7, <2>8, <2>9, <2>10 DEF SettledAfter, new
  <2>12. QED
    BY <2>11
<1>8. QED
  BY <1>6, <1>7

LEMMA SelectedCountFacts ==
  /\ SelectedVertexCount \in Nat \ {0}
  /\ SelectedVertexCount <= VertexCount
  /\ \A A \in SUBSET SelectedVertices :
       Cardinality(A) >= SelectedVertexCount => A = SelectedVertices
<1>1. /\ SelectedVertices \in SUBSET Vertices
      /\ SelectedVertexCount = Cardinality(SelectedVertices)
  BY DEF SelectedVertices, SelectedVertexCount
<1>2. /\ IsFiniteSet(SelectedVertices) /\ SelectedVertexCount \in Nat
      /\ SelectedVertexCount <= VertexCount
  BY <1>1, FiniteSets, FS_Subset
<1>3. SelectedVertexCount # 0
  BY <1>1, <1>2, SourcesAreSelected, SourcesAreVertices, FS_EmptySet
<1>4. ASSUME NEW A \in SUBSET SelectedVertices,
             Cardinality(A) >= SelectedVertexCount
      PROVE  A = SelectedVertices
  <2>1. /\ Cardinality(A) <= Cardinality(SelectedVertices)
        /\ Cardinality(SelectedVertices) = Cardinality(A) => SelectedVertices = A
    BY <1>2, FS_Subset
  <2>2. Cardinality(A) \in Nat
    BY <1>1, FiniteSets
  <2>3. QED
    BY <1>1, <1>2, <1>4, <2>1, <2>2
<1>5. QED
  BY <1>2, <1>3, <1>4

\* One round of Bellman-Ford less than the bounding box has vertices is always
\* enough, and further rounds change nothing: as many rounds as the box has
\* vertices find them and a round that changes nothing (jacobi_pull.hpp, on the
\* round limit of a chain).
THEOREM SelectedRoundsSuffice ==
  ASSUME NEW d, IsShortest(d), NEW k \in Nat, k >= SelectedVertexCount - 1
  PROVE  BellmanFord[k] = d
<1> DEFINE Good == {n \in Nat : \E A : SettledAfter(n, d, A)}
<1>1. 0 \in Good
  BY SettledAtFirst
<1>2. ASSUME NEW n \in Nat, n \in Good PROVE n + 1 \in Good
  BY <1>2, SettleOneMore
<1>3. Nat \subseteq Good
  <2> HIDE DEF Good
  <2>1. QED
    BY <1>1, <1>2, InductionOnSet
<1>4. PICK A : SettledAfter(k, d, A)
  BY <1>3
<1>5. /\ d \in Potentials /\ d \in [Vertices -> Distances]
      /\ BellmanFord[k] \in [Vertices -> Distances]
  BY BellmanFordRounds DEF IsShortest, Potentials, Assignments
<1>6. \A v \in Vertices \ A : d[v] = Infinity
  <2> SUFFICES ASSUME ~ \A v \in Vertices \ A : d[v] = Infinity PROVE FALSE
    OBVIOUS
  <2>1. A \in SUBSET SelectedVertices /\ Cardinality(A) >= k + 1
    BY <1>4 DEF SettledAfter
  <2>2. A \in SUBSET Vertices /\ Cardinality(A) \in Nat
    BY <2>1, FiniteSets DEF SelectedVertices
  <2>3. A = SelectedVertices
    BY <2>1, <2>2, SelectedCountFacts
  <2>4. PICK e \in Admitted : Destination[e] \notin A
    BY <1>4, NextSettled
  <2>5. QED
    BY <2>3, <2>4, AdmittedEdge DEF Admitted, SelectedVertices
<1>7. ASSUME NEW v \in Vertices PROVE BellmanFord[k][v] = d[v]
  <2>1. CASE v \in A
    BY <1>4, <2>1 DEF SettledAfter
  <2>2. CASE v \notin A
    <3>1. d[v] = Infinity /\ d[v] <= BellmanFord[k][v]
      BY <1>5, <1>6, <2>2, BellmanFordAbove
    <3>2. BellmanFord[k][v] \in 0 .. Infinity
      BY <1>5 DEF Distances
    <3>3. QED
      BY <3>1, <3>2, GraphAssumption
  <2>3. QED
    BY <2>1, <2>2
<1>8. QED
  BY <1>5, <1>7

\* synchronous_bellman_ford of the induced graph, stopped after one round less
\* than there are vertices, has found the shortest distances: the reference
\* the engines are compared with is right.
THEOREM ReferenceIsShortest == IsShortest(ReferenceDistance)
<1>1. PICK d : IsShortest(d)
  BY ShortestExists
<1>2. VertexCount - 1 \in Nat /\ VertexCount - 1 >= SelectedVertexCount - 1
  BY SelectedCountFacts, GraphAssumption
<1>3. BellmanFord[VertexCount - 1] = d
  BY <1>1, <1>2, SelectedRoundsSuffice
<1>4. QED
  BY <1>1, <1>3 DEF ReferenceDistance

\* The shortest distances are those of the reference.
THEOREM ShortestIsReference ==
  ASSUME NEW d, IsShortest(d) PROVE d = ReferenceDistance
BY ReferenceIsShortest, ShortestUnique
=============================================================================
