-------------------------- MODULE ThresholdProofs --------------------------
(***************************************************************************)
(* Proofs about what is found by walking the tree of organizations.        *)
(* Thresholds and status rules: for any tree and moves in it, any keys and *)
(* levels and any number of PATCH, DELETE and PUT requests at once, the    *)
(* levels stored are in order and whole and the engine, the panel and the  *)
(* lists resolve the same, nearest one.  Recipients: for any tree, people, *)
(* routes and order of the routes, exactly those are told who are routed   *)
(* and see the host.                                                       *)
(***************************************************************************)
EXTENDS Thresholds, Recipients, FiniteSetTheorems, WellFoundedInduction, TLAPS

-----------------------------------------------------------------------------
(* Numbers                                                                 *)

LEMMA LeastOf ==
    ASSUME NEW S \in SUBSET Nat, S # {}
    PROVE  \E m \in S : \A n \in S : m <= n
  <1> DEFINE R == {p \in Nat \X Nat : p[1] < p[2]}
  <1>1. IsWellFoundedOn(R, Nat)
    BY NatLessThanWellFounded DEF OpToRel
  <1>2. PICK m \in S : \A n \in S : ~(<<n, m>> \in R)
    BY <1>1, WFMin
  <1>3. ASSUME NEW n \in S PROVE m <= n
    <2>1. m \in Nat /\ n \in Nat /\ <<n, m>> \in Nat \X Nat
      OBVIOUS
    <2>2. n < m => <<n, m>> \in R
      BY <2>1
    <2> QED
      BY <1>2, <2>1, <2>2
  <1> QED
    BY <1>3

LEMMA GreatestOf ==
    ASSUME NEW S \in SUBSET Nat, S # {}, NEW limit \in Nat, \A n \in S : n <= limit
    PROVE  \E m \in S : \A n \in S : n <= m
  <1> DEFINE T == {limit - n : n \in S}
  <1>1. T \in SUBSET Nat /\ T # {}
    <2>1. \A n \in S : limit - n \in Nat
      OBVIOUS
    <2> QED
      BY <2>1
  <1>2. PICK t \in T : \A n \in T : t <= n
    <2> HIDE DEF T
    <2> QED
      BY <1>1, LeastOf
  <1>3. PICK m \in S : t = limit - m
    BY <1>2
  <1>4. ASSUME NEW n \in S PROVE n <= m
    <2>1. limit - n \in T /\ n \in Nat /\ m \in Nat
      OBVIOUS
    <2>2. t <= limit - n
      BY <1>2, <2>1
    <2> QED
      BY <1>3, <2>1, <2>2
  <1> QED
    BY <1>4

\* Starting at a and taking the same step again and again: a path.
IsPath(P, A, g, a) == P \in [Nat -> A] /\ P[0] = a /\ \A n \in Nat : P[n + 1] = g[P[n]]

LEMMA PathExists ==
    ASSUME NEW A, NEW g \in [A -> A], NEW a \in A
    PROVE  \E P : IsPath(P, A, g, a)
  <1> DEFINE Good(n, P) == P \in [0..n -> A] /\ P[0] = a /\ \A k \in 0..n : k # 0 => P[k] = g[P[k - 1]]
             Bad == {n \in Nat : ~(\E P : Good(n, P))}
  <1>1. Bad = {}
    <2>1. SUFFICES ASSUME Bad # {} PROVE FALSE
      OBVIOUS
    <2>2. PICK n \in Bad : \A m \in Bad : n <= m
      <3>1. Bad \in SUBSET Nat
        OBVIOUS
      <3> HIDE DEF Bad
      <3> QED
        BY <2>1, <3>1, LeastOf
    <2>3. n \in Nat /\ ~(\E P : Good(n, P))
      BY <2>2
    <2>4. n # 0
      <3> DEFINE P == [k \in 0..0 |-> a]
      <3>1. P \in [0..0 -> A] /\ P[0] = a /\ \A k \in 0..0 : k = 0
        OBVIOUS
      <3>2. Good(0, P)
        BY <3>1
      <3> QED
        BY <2>3, <3>2
    <2>5. n - 1 \in Nat /\ \E P : Good(n - 1, P)
      <3>1. n - 1 \in Nat /\ ~(n <= n - 1)
        BY <2>3, <2>4
      <3> QED
        BY <2>2, <3>1
    <2>6. PICK P : Good(n - 1, P)
      BY <2>5
    <2> DEFINE Q == [k \in 0..n |-> IF k = n THEN g[P[n - 1]] ELSE P[k]]
    <2>7. P[n - 1] \in A /\ g[P[n - 1]] \in A
      <3>1. n - 1 \in 0..(n - 1)
        BY <2>5
      <3>2. P[n - 1] \in A
        BY <2>6, <3>1
      <3> QED
        BY <3>2
    <2>8. Q \in [0..n -> A] /\ Q[0] = a
      <3>1. \A k \in 0..n : k # n => k \in 0..(n - 1)
        BY <2>3
      <3>2. 0 \in 0..n /\ 0 # n
        BY <2>3, <2>4
      <3> QED
        BY <2>6, <2>7, <3>1, <3>2
    <2>9. ASSUME NEW k \in 0..n, k # 0 PROVE Q[k] = g[Q[k - 1]]
      <3>1. k - 1 \in 0..n /\ k - 1 # n /\ k - 1 \in 0..(n - 1)
        BY <2>3, <2>9
      <3>2. Q[k - 1] = P[k - 1]
        BY <3>1
      <3>3. CASE k = n
        BY <3>2, <3>3
      <3>4. CASE k # n
        <4>1. k \in 0..(n - 1)
          BY <2>3, <3>4
        <4>2. P[k] = g[P[k - 1]]
          BY <2>6, <2>9, <4>1
        <4> QED
          BY <3>2, <3>4, <4>2
      <3> QED
        BY <3>3, <3>4
    <2>10. Good(n, Q)
      <3> HIDE DEF Q
      <3> QED
        BY <2>8, <2>9
    <2> QED
      BY <2>3, <2>10
  <1>2. ASSUME NEW n \in Nat, NEW P, NEW Q, Good(n, P), Good(n + 1, Q)
        PROVE  Q[n] = P[n]
    <2> DEFINE Differs == {k \in 0..n : Q[k] # P[k]}
    <2>1. Differs = {}
      <3>1. SUFFICES ASSUME Differs # {} PROVE FALSE
        OBVIOUS
      <3>2. PICK k \in Differs : \A m \in Differs : k <= m
        <4>1. Differs \in SUBSET Nat
          OBVIOUS
        <4> HIDE DEF Differs
        <4> QED
          BY <3>1, <4>1, LeastOf
      <3>3. k \in 0..n /\ Q[k] # P[k]
        BY <3>2
      <3>4. k # 0
        BY <1>2, <3>3
      <3>5. k - 1 \in 0..n /\ ~(k <= k - 1) /\ k \in 0..(n + 1)
        BY <3>3, <3>4
      <3>6. Q[k - 1] = P[k - 1]
        BY <3>2, <3>5
      <3>7. P[k] = g[P[k - 1]] /\ Q[k] = g[Q[k - 1]]
        BY <1>2, <3>3, <3>4, <3>5
      <3> QED
        BY <3>3, <3>6, <3>7
    <2>2. n \in 0..n
      OBVIOUS
    <2> QED
      BY <2>1, <2>2
  <1> DEFINE Some(n) == CHOOSE P : Good(n, P)
             path == [n \in Nat |-> Some(n)[n]]
  <1>3. \A n \in Nat : Good(n, Some(n))
    BY <1>1
  <1> HIDE DEF Some, Good
  <1>4. ASSUME NEW n \in Nat PROVE Some(n)[n] \in A
    <2>1. n \in 0..n
      OBVIOUS
    <2> QED
      BY <1>3, <2>1 DEF Good
  <1>5. path \in [Nat -> A]
    BY <1>4
  <1>6. path[0] = a
    <2>1. Some(0)[0] = a
      BY <1>3 DEF Good
    <2> QED
      BY <2>1
  <1>7. ASSUME NEW n \in Nat PROVE path[n + 1] = g[path[n]]
    <2>1. n + 1 \in Nat /\ n + 1 \in 0..(n + 1) /\ n + 1 # 0 /\ (n + 1) - 1 = n
      OBVIOUS
    <2>2. Some(n + 1)[n + 1] = g[Some(n + 1)[n]]
      BY <1>3, <2>1 DEF Good
    <2>3. Some(n + 1)[n] = Some(n)[n]
      BY <1>2, <1>3, <2>1
    <2> QED
      BY <2>1, <2>2, <2>3
  <1> HIDE DEF path
  <1> QED
    BY <1>5, <1>6, <1>7 DEF IsPath

\* Taking step after step, each its own: a fold.
IsFold(f, A, N, step, a) == f \in [0..N -> A] /\ f[0] = a /\ \A n \in 1..N : f[n] = step[n][f[n - 1]]

LEMMA FoldExists ==
    ASSUME NEW A, NEW N \in Nat, NEW step \in [1..N -> [A -> A]], NEW a \in A
    PROVE  \E f : IsFold(f, A, N, step, a)
  <1> DEFINE Good(n, f) == f \in [0..n -> A] /\ f[0] = a /\ \A k \in 1..n : f[k] = step[k][f[k - 1]]
             Bad == {n \in 0..N : ~(\E f : Good(n, f))}
  <1>1. Bad = {}
    <2>1. SUFFICES ASSUME Bad # {} PROVE FALSE
      OBVIOUS
    <2>2. PICK n \in Bad : \A m \in Bad : n <= m
      <3>1. Bad \in SUBSET Nat
        OBVIOUS
      <3> HIDE DEF Bad
      <3> QED
        BY <2>1, <3>1, LeastOf
    <2>3. n \in 0..N /\ ~(\E f : Good(n, f))
      BY <2>2
    <2>4. n # 0
      <3> DEFINE f == [k \in 0..0 |-> a]
      <3>1. f \in [0..0 -> A] /\ f[0] = a /\ 1..0 = {}
        OBVIOUS
      <3>2. Good(0, f)
        BY <3>1
      <3> QED
        BY <2>3, <3>2
    <2>5. n - 1 \in 0..N /\ n \in 1..N /\ \E f : Good(n - 1, f)
      <3>1. n - 1 \in 0..N /\ n \in 1..N /\ ~(n <= n - 1)
        BY <2>3, <2>4
      <3> QED
        BY <2>2, <3>1
    <2>6. PICK f : Good(n - 1, f)
      BY <2>5
    <2> DEFINE new == step[n][f[n - 1]]
               h == [k \in 0..n |-> IF k = n THEN new ELSE f[k]]
    <2>7. f[n - 1] \in A /\ new \in A
      <3>1. n - 1 \in 0..(n - 1)
        BY <2>5
      <3>2. f[n - 1] \in A
        BY <2>6, <3>1
      <3>3. step[n] \in [A -> A]
        BY <2>5
      <3> QED
        BY <3>2, <3>3
    <2> HIDE DEF new
    <2>8. h \in [0..n -> A] /\ h[0] = a
      <3>1. \A k \in 0..n : k # n => k \in 0..(n - 1)
        BY <2>5
      <3>2. 0 \in 0..n /\ 0 # n
        BY <2>5
      <3> QED
        BY <2>6, <2>7, <3>1, <3>2
    <2>9. ASSUME NEW k \in 1..n PROVE h[k] = step[k][h[k - 1]]
      <3>1. k - 1 \in 0..n /\ k - 1 # n /\ k - 1 \in 0..(n - 1) /\ k \in 0..n
        BY <2>5
      <3>2. h[k - 1] = f[k - 1]
        BY <3>1
      <3>3. CASE k = n
        BY <3>1, <3>2, <3>3 DEF new
      <3>4. CASE k # n
        <4>1. k \in 1..(n - 1)
          BY <2>5, <3>4
        <4>2. f[k] = step[k][f[k - 1]]
          BY <2>6, <4>1
        <4> QED
          BY <3>1, <3>2, <3>4, <4>2
      <3> QED
        BY <3>3, <3>4
    <2>10. Good(n, h)
      <3> HIDE DEF h
      <3> QED
        BY <2>8, <2>9
    <2> QED
      BY <2>3, <2>10
  <1>2. N \in 0..N
    OBVIOUS
  <1>3. \E f : Good(N, f)
    BY <1>1, <1>2
  <1> QED
    BY <1>3 DEF IsFold

-----------------------------------------------------------------------------
(* The tree                                                                *)

Nodes == TOrgs \cup {Top}
Trees == [TOrgs -> Nodes]

\* One level up in the tree u; above the roots is Top.
Over(u) == [x \in Nodes |-> IF x = Top THEN Top ELSE u[x]]

\* Climb(u)[x][n]: what is n levels above x.
IsClimb(u, c) == \A x \in Nodes : IsPath(c[x], Nodes, Over(u), x)
Climb(u) == CHOOSE c : IsClimb(u, c)

LEMMA ClimbIs ==
    ASSUME NEW u \in Trees
    PROVE  /\ \A x \in Nodes, n \in Nat : Climb(u)[x][n] \in Nodes
           /\ \A x \in Nodes : Climb(u)[x][0] = x
           /\ \A x \in Nodes, n \in Nat :
                 Climb(u)[x][n + 1] = IF Climb(u)[x][n] = Top THEN Top ELSE u[Climb(u)[x][n]]
  <1>1. Over(u) \in [Nodes -> Nodes]
    BY DEF Over, Trees, Nodes
  <1>2. IsClimb(u, Climb(u))
    <2> DEFINE c == [x \in Nodes |-> CHOOSE P : IsPath(P, Nodes, Over(u), x)]
    <2>1. \A x \in Nodes : IsPath(c[x], Nodes, Over(u), x)
      BY <1>1, PathExists
    <2>2. IsClimb(u, c)
      BY <2>1 DEF IsClimb
    <2> QED
      BY <2>2 DEF Climb
  <1>3. \A x \in Nodes : IsPath(Climb(u)[x], Nodes, Over(u), x)
    BY <1>2 DEF IsClimb
  <1>4. \A x \in Nodes, n \in Nat : Climb(u)[x][n] \in Nodes
    BY <1>3 DEF IsPath
  <1>5. \A x \in Nodes : Climb(u)[x][0] = x
    BY <1>3 DEF IsPath
  <1>6. ASSUME NEW x \in Nodes, NEW n \in Nat
        PROVE  Climb(u)[x][n + 1] = IF Climb(u)[x][n] = Top THEN Top ELSE u[Climb(u)[x][n]]
    <2>1. Climb(u)[x][n + 1] = Over(u)[Climb(u)[x][n]]
      BY <1>3 DEF IsPath
    <2> QED
      BY <1>4, <2>1 DEF Over
  <1> QED
    BY <1>4, <1>5, <1>6

\* Climbing on from where one has come to.
LEMMA ClimbOn ==
    ASSUME NEW u \in Trees, NEW x \in Nodes, NEW i \in Nat, NEW j \in Nat
    PROVE  Climb(u)[Climb(u)[x][i]][j] = Climb(u)[x][i + j]
  <1> DEFINE c == Climb(u)
             y == c[x][i]
             Bad == {n \in Nat : c[y][n] # c[x][i + n]}
  <1>1. /\ \A z \in Nodes, n \in Nat : c[z][n] \in Nodes
        /\ \A z \in Nodes : c[z][0] = z
        /\ \A z \in Nodes, n \in Nat : c[z][n + 1] = IF c[z][n] = Top THEN Top ELSE u[c[z][n]]
    BY ClimbIs
  <1> HIDE DEF c
  <1>2. y \in Nodes
    BY <1>1
  <1> HIDE DEF y
  <1>3. SUFFICES ASSUME Bad # {} PROVE FALSE
    BY DEF c, y
  <1>4. PICK n \in Bad : \A m \in Bad : n <= m
    <2>1. Bad \in SUBSET Nat
      OBVIOUS
    <2> HIDE DEF Bad
    <2> QED
      BY <1>3, <2>1, LeastOf
  <1>5. n \in Nat /\ c[y][n] # c[x][i + n]
    BY <1>4
  <1>6. n # 0
    <2>1. c[y][0] = y /\ i + 0 = i
      BY <1>1, <1>2
    <2> QED
      BY <1>5, <2>1 DEF y
  <1>7. PICK k \in Nat : k + 1 = n
    <2>1. n - 1 \in Nat /\ (n - 1) + 1 = n
      BY <1>5, <1>6
    <2> QED
      BY <2>1
  <1>8. c[y][k] = c[x][i + k]
    <2>1. ~(n <= k)
      BY <1>7
    <2> QED
      BY <1>4, <2>1
  <1>9. c[y][k + 1] = c[x][(i + k) + 1]
    <2>1. i + k \in Nat
      OBVIOUS
    <2> QED
      BY SMTT(30), <1>1, <1>2, <1>8, <2>1
  <1>10. (i + k) + 1 = i + n
    BY <1>7
  <1> QED
    BY <1>5, <1>7, <1>9, <1>10

LEMMA TopStays ==
    ASSUME NEW u \in Trees, NEW x \in Nodes, NEW i \in Nat, NEW j \in Nat, i <= j, Climb(u)[x][i] = Top
    PROVE  Climb(u)[x][j] = Top
  <1> DEFINE c == Climb(u)
             Bad == {n \in Nat : i <= n /\ c[x][n] # Top}
  <1>1. SUFFICES ASSUME Bad # {} PROVE FALSE
    OBVIOUS
  <1>2. PICK n \in Bad : \A m \in Bad : n <= m
    <2>1. Bad \in SUBSET Nat
      OBVIOUS
    <2> HIDE DEF Bad
    <2> QED
      BY <1>1, <2>1, LeastOf
  <1>3. n \in Nat /\ i <= n /\ n # i /\ c[x][n] # Top
    BY <1>2
  <1>4. PICK k \in Nat : k + 1 = n
    <2>1. n - 1 \in Nat /\ (n - 1) + 1 = n
      BY <1>3
    <2> QED
      BY <2>1
  <1>5. c[x][k] = Top
    <2>1. ~(n <= k) /\ i <= k
      BY <1>3, <1>4
    <2> QED
      BY <1>2, <2>1
  <1>6. c[x][k + 1] = Top
    BY <1>5, ClimbIs
  <1> QED
    BY <1>3, <1>4, <1>6

\* Every way up ends: there is no cycle.
Rooted(u) == \A x \in TOrgs : \E n \in Nat : Climb(u)[x][n] = Top

LEMMA NoReturn ==
    ASSUME NEW u \in Trees, Rooted(u), NEW x \in TOrgs, NEW i \in Nat, NEW j \in Nat, i < j, Climb(u)[x][i] # Top
    PROVE  Climb(u)[x][i] # Climb(u)[x][j]
  <1> DEFINE c == Climb(u)
             y == c[x][i]
             Ends == {n \in Nat : c[y][n] = Top}
  <1>1. SUFFICES ASSUME c[x][j] = y PROVE FALSE
    OBVIOUS
  <1>2. y \in TOrgs
    BY ClimbIs DEF Nodes
  <1>3. PICK n \in Ends : \A m \in Ends : n <= m
    <2>1. Ends \in SUBSET Nat /\ Ends # {}
      BY <1>2 DEF Rooted
    <2> HIDE DEF Ends
    <2> QED
      BY <2>1, LeastOf
  <1>4. n \in Nat /\ c[y][n] = Top
    BY <1>3
  <1>5. PICK d \in Nat : i + d = j /\ d > 0
    <2>1. j - i \in Nat /\ i + (j - i) = j /\ j - i > 0
      OBVIOUS
    <2> QED
      BY <2>1
  <1>6. y \in Nodes /\ x \in Nodes
    BY <1>2 DEF Nodes
  <1>7. c[y][d] = y
    BY <1>1, <1>5, <1>6, ClimbOn
  <1>8. CASE n < d
    <2>1. c[y][d] = Top
      BY <1>4, <1>6, <1>8, TopStays
    <2> QED
      BY <1>7, <2>1
  <1>9. CASE d <= n
    <2>1. PICK k \in Nat : d + k = n
      <3>1. n - d \in Nat /\ d + (n - d) = n
        BY <1>4, <1>9
      <3> QED
        BY <3>1
    <2>2. c[c[y][d]][k] = c[y][d + k]
      BY <1>6, ClimbOn
    <2>3. c[y][k] = Top
      BY <1>4, <1>7, <2>1, <2>2
    <2>4. ~(n <= k)
      BY <1>5, <2>1
    <2> QED
      BY <1>3, <2>3, <2>4
  <1> QED
    BY <1>4, <1>5, <1>8, <1>9

\* The way up is shorter than the number of organizations.
LEMMA WayIsShort ==
    ASSUME NEW u \in Trees, Rooted(u), NEW x \in TOrgs, NEW i \in Nat, Climb(u)[x][i] # Top
    PROVE  i < Cardinality(TOrgs)
  <1> DEFINE c == Climb(u)
             f == [k \in 0..i |-> c[x][k]]
  <1>1. IsFiniteSet(TOrgs) /\ Cardinality(TOrgs) \in Nat
    BY ThresholdsAssumption, FS_CardinalityType
  <1>2. SUFFICES ASSUME Cardinality(TOrgs) < i + 1 PROVE FALSE
    BY <1>1
  <1>3. ASSUME NEW k \in 0..i PROVE c[x][k] \in TOrgs /\ c[x][k] # Top
    <2>1. x \in Nodes /\ k \in Nat /\ k <= i
      BY DEF Nodes
    <2>2. c[x][k] # Top
      BY <2>1, TopStays
    <2>3. c[x][k] \in Nodes
      BY <2>1, ClimbIs
    <2> QED
      BY <2>2, <2>3 DEF Nodes
  <1>4. f \in [0..i -> TOrgs]
    BY <1>3
  <1>5. IsFiniteSet(0..i) /\ Cardinality(0..i) = i + 1
    BY FS_Interval
  <1>6. PICK a, b \in 0..i : a # b /\ f[a] = f[b]
    <2> HIDE DEF f
    <2> QED
      BY <1>1, <1>2, <1>4, <1>5, FS_PigeonHole
  <1>7. a \in Nat /\ b \in Nat /\ c[x][a] = c[x][b] /\ c[x][a] # Top /\ c[x][b] # Top
    BY <1>3, <1>6
  <1>8. CASE a < b
    BY <1>7, <1>8, NoReturn
  <1>9. CASE b < a
    BY <1>7, <1>9, NoReturn
  <1> QED
    BY <1>6, <1>7, <1>8, <1>9

\* An organization that is not on the way up from p can be put under p.
LEMMA MoveKeepsRoots ==
    ASSUME NEW u \in Trees, Rooted(u), NEW o \in TOrgs, NEW p \in Nodes, \A i \in Nat : Climb(u)[p][i] # o
    PROVE  Rooted([u EXCEPT ![o] = p])
  <1> DEFINE v == [u EXCEPT ![o] = p]
             c == Climb(u)
             d == Climb(v)
  <1>1. v \in Trees /\ v[o] = p /\ \A x \in TOrgs : x # o => v[x] = u[x]
    BY DEF Trees
  <1>2. o # Top /\ TOrgs \subseteq Nodes /\ Top \in Nodes /\ o \in Nodes
    BY ThresholdsAssumption DEF Nodes
  <1>3. /\ \A z \in Nodes, n \in Nat : c[z][n] \in Nodes
        /\ \A z \in Nodes : c[z][0] = z
        /\ \A z \in Nodes, n \in Nat : c[z][n + 1] = IF c[z][n] = Top THEN Top ELSE u[c[z][n]]
    BY ClimbIs
  <1> HIDE DEF v
  <1>4. /\ \A z \in Nodes, n \in Nat : d[z][n] \in Nodes
        /\ \A z \in Nodes : d[z][0] = z
        /\ \A z \in Nodes, n \in Nat : d[z][n + 1] = IF d[z][n] = Top THEN Top ELSE v[d[z][n]]
    BY <1>1, ClimbIs
  <1>5. \A z \in Nodes, i, j \in Nat : d[d[z][i]][j] = d[z][i + j]
    BY <1>1, ClimbOn
  <1> HIDE DEF c, d
  <1>6. ASSUME NEW x \in Nodes, NEW n \in Nat, \A i \in Nat : i < n => c[x][i] # o
        PROVE  d[x][n] = c[x][n]
    <2> DEFINE Bad == {k \in Nat : k <= n /\ d[x][k] # c[x][k]}
    <2>1. SUFFICES ASSUME Bad # {} PROVE FALSE
      OBVIOUS
    <2>2. PICK k \in Bad : \A m \in Bad : k <= m
      <3>1. Bad \in SUBSET Nat
        OBVIOUS
      <3> HIDE DEF Bad
      <3> QED
        BY <2>1, <3>1, LeastOf
    <2>3. k \in Nat /\ k <= n /\ d[x][k] # c[x][k]
      BY <2>2
    <2>4. k # 0
      BY <1>3, <1>4, <2>3
    <2>5. PICK m \in Nat : m + 1 = k
      <3>1. k - 1 \in Nat /\ (k - 1) + 1 = k
        BY <2>3, <2>4
      <3> QED
        BY <3>1
    <2>6. ~(k <= m) /\ m <= n /\ m < n
      BY <2>3, <2>5
    <2>7. d[x][m] = c[x][m]
      BY <2>2, <2>6
    <2>8. c[x][m] \in Nodes /\ c[x][m] # o
      BY <1>3, <1>6, <2>6
    <2>9. d[x][m + 1] = c[x][m + 1]
      <3>1. c[x][m] # Top => v[c[x][m]] = u[c[x][m]]
        BY <1>1, <2>8 DEF Nodes
      <3>2. c[x][m + 1] = IF c[x][m] = Top THEN Top ELSE u[c[x][m]]
        BY <1>3
      <3>3. d[x][m + 1] = IF d[x][m] = Top THEN Top ELSE v[d[x][m]]
        BY <1>4
      <3> QED
        BY <2>7, <3>1, <3>2, <3>3
    <2> QED
      BY <2>3, <2>5, <2>9
  <1>7. \E n \in Nat : d[p][n] = Top
    <2>1. CASE p = Top
      BY <1>2, <1>4, <2>1
    <2>2. CASE p # Top
      <3>1. PICK n \in Nat : c[p][n] = Top
        BY <2>2 DEF Rooted, Nodes, c
      <3>2. \A i \in Nat : i < n => c[p][i] # o
        BY DEF c
      <3> QED
        BY <1>6, <3>1, <3>2
    <2> QED
      BY <2>1, <2>2
  <1>8. ASSUME NEW x \in TOrgs PROVE \E n \in Nat : d[x][n] = Top
    <2> DEFINE Meets == {i \in Nat : c[x][i] = o}
    <2>1. CASE Meets = {}
      <3>1. PICK n \in Nat : c[x][n] = Top
        BY DEF Rooted, c
      <3>2. \A i \in Nat : i < n => c[x][i] # o
        BY <2>1
      <3> QED
        BY <1>2, <1>6, <3>1, <3>2
    <2>2. CASE Meets # {}
      <3>1. PICK i \in Meets : \A m \in Meets : i <= m
        <4>1. Meets \in SUBSET Nat
          OBVIOUS
        <4> HIDE DEF Meets
        <4> QED
          BY <2>2, <4>1, LeastOf
      <3>2. i \in Nat /\ c[x][i] = o /\ \A k \in Nat : k < i => c[x][k] # o
        BY <3>1
      <3>3. d[x][i] = o
        BY <1>2, <1>6, <3>2
      <3>4. d[x][i + 1] = p
        BY <1>1, <1>2, <1>4, <3>2, <3>3
      <3>5. PICK n \in Nat : d[p][n] = Top
        BY <1>7
      <3>6. i + 1 \in Nat /\ (i + 1) + n \in Nat
        BY <3>2
      <3>7. d[x][(i + 1) + n] = Top
        BY <1>2, <1>5, <3>4, <3>5, <3>6
      <3> QED
        BY <3>6, <3>7
    <2> QED
      BY <2>1, <2>2
  <1> QED
    BY <1>8 DEF Rooted, d, v

\* The recursive query walks up the path: the organization n levels up has
\* depth n.
LEMMA ChainIs ==
    ASSUME up \in Trees, NEW o \in TOrgs
    PROVE  OrgChain(o) = {<<Climb(up)[o][i], i>> : i \in {j \in 0..Cardinality(TOrgs) : Climb(up)[o][j] # Top}}
  <1> DEFINE N == Cardinality(TOrgs)
             P == Climb(up)[o]
             More(S, n) == {<<up[p[1]], n>> : p \in {q \in S : q[2] = n - 1 /\ up[q[1]] # Top}}
             IsRound(h) == h = [n \in 0..N |-> IF n = 0 THEN {<<o, 0>>} ELSE h[n - 1] \cup More(h[n - 1], n)]
             g == CHOOSE h : IsRound(h)
             At(n) == {<<P[i], i>> : i \in {j \in 0..n : P[j] # Top}}
             f == [n \in 0..N |-> At(n)]
  <1>1. N \in Nat
    BY ThresholdsAssumption, FS_CardinalityType
  <1>2. OrgChain(o) = g[N]
    BY DEF OrgChain
  <1> HIDE DEF N
  <1>3. /\ \A n \in Nat : P[n] \in Nodes
        /\ P[0] = o /\ o # Top
        /\ \A n \in Nat : P[n + 1] = IF P[n] = Top THEN Top ELSE up[P[n]]
    <2>1. o \in Nodes /\ o # Top
      BY ThresholdsAssumption DEF Nodes
    <2> QED
      BY <2>1, ClimbIs
  <1> HIDE DEF P
  <1>4. At(0) = {<<o, 0>>}
    <2>1. {j \in 0..0 : P[j] # Top} = {0}
      BY <1>3
    <2> QED
      BY <1>3, <2>1
  <1>5. ASSUME NEW n \in 1..N PROVE At(n) = At(n - 1) \cup More(At(n - 1), n)
    <2>1. n \in Nat /\ n - 1 \in Nat /\ (n - 1) + 1 = n /\ n - 1 \in 0..(n - 1)
      BY <1>1
    <2>2. P[n] = IF P[n - 1] = Top THEN Top ELSE up[P[n - 1]]
      BY <1>3, <2>1
    <2>3. ASSUME NEW p \in At(n) PROVE p \in At(n - 1) \cup More(At(n - 1), n)
      <3>1. PICK i \in 0..n : P[i] # Top /\ p = <<P[i], i>>
        OBVIOUS
      <3>2. CASE i = n
        <4> DEFINE q == <<P[n - 1], n - 1>>
        <4>1. P[n - 1] # Top /\ up[P[n - 1]] = P[n]
          BY <2>2, <3>1, <3>2
        <4>2. q \in At(n - 1)
          BY <2>1, <4>1
        <4>3. q[1] = P[n - 1] /\ q[2] = n - 1
          OBVIOUS
        <4> HIDE DEF q, At
        <4>4. <<up[q[1]], n>> \in More(At(n - 1), n)
          BY <3>1, <3>2, <4>1, <4>2, <4>3
        <4> QED
          BY <3>1, <3>2, <4>1, <4>3, <4>4
      <3>3. CASE i # n
        <4>1. i \in 0..(n - 1)
          BY <2>1, <3>3
        <4> QED
          BY <3>1, <4>1
      <3> QED
        BY <3>2, <3>3
    <2>4. ASSUME NEW p \in At(n - 1) PROVE p \in At(n)
      <3>1. PICK i \in 0..(n - 1) : P[i] # Top /\ p = <<P[i], i>>
        OBVIOUS
      <3>2. i \in 0..n
        BY <2>1
      <3> QED
        BY <3>1, <3>2
    <2>5. ASSUME NEW p \in More(At(n - 1), n) PROVE p \in At(n)
      <3>1. PICK q \in At(n - 1) : q[2] = n - 1 /\ up[q[1]] # Top /\ p = <<up[q[1]], n>>
        <4> HIDE DEF At
        <4> QED
          OBVIOUS
      <3>2. PICK i \in 0..(n - 1) : P[i] # Top /\ q = <<P[i], i>>
        OBVIOUS
      <3>3. i = n - 1 /\ q[1] = P[n - 1]
        BY <3>1, <3>2
      <3>4. P[n] # Top /\ p = <<P[n], n>> /\ n \in 0..n
        BY <2>1, <2>2, <3>1, <3>2, <3>3
      <3> QED
        BY <3>4
    <2> HIDE DEF At, More
    <2> QED
      BY <2>3, <2>4, <2>5
  <1> HIDE DEF At, More
  <1>6. \E h : IsRound(h)
    <2>1. ASSUME NEW n \in 0..N PROVE f[n] = IF n = 0 THEN {<<o, 0>>} ELSE f[n - 1] \cup More(f[n - 1], n)
      <3>1. CASE n = 0
        BY <1>4, <3>1
      <3>2. CASE n # 0
        <4>1. n \in 1..N /\ n - 1 \in 0..N
          BY <1>1, <3>2
        <4> QED
          BY <1>5, <3>2, <4>1
      <3> QED
        BY <3>1, <3>2
    <2>2. f = [n \in 0..N |-> f[n]]
      OBVIOUS
    <2> HIDE DEF f
    <2>3. IsRound(f)
      BY <2>1, <2>2
    <2> QED
      BY <2>3
  <1>7. IsRound(g)
    BY <1>6
  <1> HIDE DEF g
  <1>8. \A n \in 0..N : g[n] = IF n = 0 THEN {<<o, 0>>} ELSE g[n - 1] \cup More(g[n - 1], n)
    BY <1>7
  <1> DEFINE Bad == {n \in 0..N : g[n] # At(n)}
  <1>9. Bad = {}
    <2>1. SUFFICES ASSUME Bad # {} PROVE FALSE
      OBVIOUS
    <2>2. PICK n \in Bad : \A m \in Bad : n <= m
      <3>1. Bad \in SUBSET Nat
        OBVIOUS
      <3> HIDE DEF Bad
      <3> QED
        BY <2>1, <3>1, LeastOf
    <2>3. n \in 0..N /\ g[n] # At(n)
      BY <2>2
    <2>4. n # 0
      BY <1>4, <1>8, <2>3
    <2>5. n \in 1..N /\ n - 1 \in 0..N /\ ~(n <= n - 1)
      BY <1>1, <2>3, <2>4
    <2>6. g[n - 1] = At(n - 1)
      BY <2>2, <2>5
    <2> QED
      BY <1>5, <1>8, <2>3, <2>4, <2>5, <2>6
  <1>10. g[N] = At(N)
    <2>1. N \in 0..N
      BY <1>1
    <2> QED
      BY <1>9, <2>1
  <1> QED
    BY <1>2, <1>10 DEF At, P, N

\* Hence who is at or above an organization, and at what depth.
LEMMA AboveIs ==
    ASSUME up \in Trees, Rooted(up), NEW o \in TOrgs
    PROVE  /\ AtOrAbove(o) = {Climb(up)[o][i] : i \in {j \in Nat : Climb(up)[o][j] # Top}}
           /\ \A i \in Nat : Climb(up)[o][i] # Top =>
                 DepthOf(o, Climb(up)[o][i]) = i /\ i < Cardinality(TOrgs)
  <1> DEFINE P == Climb(up)[o]
             N == Cardinality(TOrgs)
  <1>1. OrgChain(o) = {<<P[i], i>> : i \in {j \in 0..N : P[j] # Top}}
    BY ChainIs
  <1>2. N \in Nat
    BY ThresholdsAssumption, FS_CardinalityType
  <1>3. \A i \in Nat : P[i] # Top => i < N
    BY WayIsShort
  <1>4. \A i, j \in Nat : i < j /\ P[i] # Top => P[i] # P[j]
    BY NoReturn
  <1> HIDE DEF P, N
  <1>5. {j \in 0..N : P[j] # Top} = {j \in Nat : P[j] # Top}
    BY <1>2, <1>3
  <1>6. OrgChain(o) = {<<P[i], i>> : i \in {j \in Nat : P[j] # Top}}
    BY <1>1, <1>5
  <1>7. AtOrAbove(o) = {P[i] : i \in {j \in Nat : P[j] # Top}}
    <2>1. ASSUME NEW x \in AtOrAbove(o) PROVE \E i \in Nat : P[i] # Top /\ x = P[i]
      <3>1. PICK p \in OrgChain(o) : x = p[1]
        BY DEF AtOrAbove
      <3>2. PICK i \in Nat : P[i] # Top /\ p = <<P[i], i>>
        BY <1>6
      <3> QED
        BY <3>1, <3>2
    <2>2. ASSUME NEW i \in Nat, P[i] # Top PROVE P[i] \in AtOrAbove(o)
      <3>1. <<P[i], i>> \in OrgChain(o) /\ <<P[i], i>>[1] = P[i]
        BY <1>6, <2>2
      <3> QED
        BY <3>1 DEF AtOrAbove
    <2> QED
      BY <2>1, <2>2
  <1>8. ASSUME NEW i \in Nat, P[i] # Top PROVE DepthOf(o, P[i]) = i
    <2> DEFINE p0 == CHOOSE p \in OrgChain(o) : p[1] = P[i]
    <2>1. <<P[i], i>> \in OrgChain(o) /\ <<P[i], i>>[1] = P[i]
      BY <1>6, <1>8
    <2>2. p0 \in OrgChain(o) /\ p0[1] = P[i]
      <3>1. \E p \in OrgChain(o) : p[1] = P[i]
        BY <2>1
      <3> QED
        BY <3>1
    <2> HIDE DEF p0
    <2>3. PICK j \in Nat : P[j] # Top /\ p0 = <<P[j], j>>
      BY <1>6, <2>2
    <2>4. P[j] = P[i] /\ p0[2] = j
      BY <2>2, <2>3
    <2>5. j = i
      BY <1>4, <1>8, <2>3, <2>4
    <2> QED
      BY <2>4, <2>5 DEF DepthOf, p0
  <1> QED
    BY <1>3, <1>7, <1>8 DEF P, N

-----------------------------------------------------------------------------
(* What is resolved                                                        *)

LEMMA FirstIs ==
    ASSUME NEW K, NEW key \in [K -> Int], K # {}, NEW low \in Int, \A s \in K : low <= key[s]
    PROVE  FirstBy(key) \in K /\ \A s \in K : key[FirstBy(key)] <= key[s]
  <1> DEFINE Keys == {key[s] - low : s \in K}
  <1>1. Keys \in SUBSET Nat /\ Keys # {}
    <2>1. \A s \in K : key[s] - low \in Nat
      OBVIOUS
    <2> QED
      BY <2>1
  <1>2. PICK n \in Keys : \A m \in Keys : n <= m
    <2> HIDE DEF Keys
    <2> QED
      BY <1>1, LeastOf
  <1>3. PICK s \in K : n = key[s] - low
    BY <1>2
  <1>4. \A x \in K : key[s] <= key[x]
    <2> SUFFICES ASSUME NEW x \in K PROVE key[s] <= key[x]
      OBVIOUS
    <2>1. key[x] - low \in Keys /\ key[x] \in Int /\ key[s] \in Int
      OBVIOUS
    <2>2. n <= key[x] - low
      BY <1>2, <2>1
    <2> QED
      BY <1>3, <2>1, <2>2
  <1>5. DOMAIN key = K
    OBVIOUS
  <1>6. \E z \in DOMAIN key : \A x \in DOMAIN key : key[z] <= key[x]
    BY <1>4, <1>5
  <1> QED
    BY <1>5, <1>6 DEF FirstBy

\* Ranks are numbers; only the general row has the last one.
LEMMA RankIs ==
    ASSUME up \in Trees, Rooted(up), NEW o \in TOrgs, NEW s \in Scopes2, InChain(o, s)
    PROVE  /\ Rank(o, s) \in Nat
           /\ s # General => Rank(o, s) = DepthOf(o, s) /\ Rank(o, s) < Cardinality(TOrgs)
           /\ s = General => Rank(o, s) = Cardinality(TOrgs)
  <1>1. CASE s = General
    BY <1>1, ThresholdsAssumption, FS_CardinalityType DEF Rank
  <1>2. CASE s # General
    <2>1. s \in AtOrAbove(o)
      BY <1>2 DEF InChain
    <2>2. PICK i \in Nat : Climb(up)[o][i] # Top /\ s = Climb(up)[o][i]
      BY <2>1, AboveIs
    <2>3. DepthOf(o, s) = i /\ i < Cardinality(TOrgs)
      BY <2>2, AboveIs
    <2> QED
      BY <1>2, <2>3 DEF Rank
  <1> QED
    BY <1>1, <1>2

\* Two organizations above a third are one above the other.
LEMMA OneLine ==
    ASSUME up \in Trees, Rooted(up), NEW o \in TOrgs, NEW s \in AtOrAbove(o), NEW t \in AtOrAbove(o),
           DepthOf(o, s) <= DepthOf(o, t)
    PROVE  t \in AtOrAbove(s) /\ (DepthOf(o, s) = DepthOf(o, t) => s = t)
  <1> DEFINE P == Climb(up)[o]
  <1>1. PICK i \in Nat : P[i] # Top /\ s = P[i]
    BY AboveIs
  <1>2. PICK j \in Nat : P[j] # Top /\ t = P[j]
    BY AboveIs
  <1>3. i <= j /\ (DepthOf(o, s) = DepthOf(o, t) => i = j)
    BY <1>1, <1>2, AboveIs
  <1>4. PICK d \in Nat : i + d = j
    <2>1. j - i \in Nat /\ i + (j - i) = j
      BY <1>3
    <2> QED
      BY <2>1
  <1>5. o \in Nodes /\ s \in TOrgs
    BY <1>1, ClimbIs DEF Nodes
  <1>6. Climb(up)[s][d] = t
    BY <1>1, <1>2, <1>4, <1>5, ClimbOn
  <1>7. t \in AtOrAbove(s)
    BY <1>2, <1>5, <1>6, AboveIs
  <1> QED
    BY <1>1, <1>2, <1>3, <1>7

\* The row the queries return first.
LEMMA DefaultIs ==
    ASSUME up \in Trees, Rooted(up), NEW o \in TOrgs, DefaultScopes(o) # {}
    PROVE  LET m == FirstBy([s \in DefaultScopes(o) |-> Rank(o, s)])
           IN  m \in DefaultScopes(o) /\ \A s \in DefaultScopes(o) : Rank(o, m) <= Rank(o, s)
  <1> DEFINE K == DefaultScopes(o)
             key == [s \in K |-> Rank(o, s)]
  <1>1. \A s \in K : Rank(o, s) \in Nat
    BY RankIs DEF DefaultScopes
  <1>2. key \in [K -> Int] /\ \A s \in K : 0 <= key[s]
    BY <1>1
  <1>3. FirstBy(key) \in K /\ \A s \in K : key[FirstBy(key)] <= key[s]
    <2> HIDE DEF key, K
    <2>1. K # {} /\ 0 \in Int
      BY DEF K
    <2> QED
      BY <1>2, <2>1, FirstIs
  <1> QED
    BY <1>3

LEMMA NearestIs ==
    ASSUME up \in Trees, Rooted(up)
    PROVE  NearestWins
  <1> SUFFICES ASSUME NEW s \in DefaultScopes(Home),
                      \A x \in (IF s = General THEN AtOrAbove(Home) ELSE AtOrAbove(Home) \ AtOrAbove(s)) : defs[x] = NoLevels
               PROVE  DefaultsFor(Home) = defs[s].lv
    BY DEF NearestWins
  <1> DEFINE m == FirstBy([x \in DefaultScopes(Home) |-> Rank(Home, x)])
  <1>1. Home \in TOrgs
    BY ThresholdsAssumption
  <1>2. m \in DefaultScopes(Home) /\ \A x \in DefaultScopes(Home) : Rank(Home, m) <= Rank(Home, x)
    BY <1>1, DefaultIs
  <1>3. DefaultsFor(Home) = defs[m].lv
    BY DEF DefaultsFor
  <1> HIDE DEF m
  <1>4. /\ m \in Scopes2 /\ InChain(Home, m) /\ defs[m] # NoLevels
        /\ s \in Scopes2 /\ InChain(Home, s) /\ defs[s] # NoLevels
    BY <1>2 DEF DefaultScopes
  <1>5. m = s
    <2>1. CASE s = General
      BY <1>4, <2>1 DEF InChain
    <2>2. CASE s # General
      <3>1. m # General
        <4>1. Cardinality(TOrgs) \in Nat
          BY ThresholdsAssumption, FS_CardinalityType
        <4>2. Rank(Home, s) < Cardinality(TOrgs) /\ Rank(Home, s) \in Nat
          BY <1>1, <1>4, <2>2, RankIs
        <4>3. Rank(Home, m) <= Rank(Home, s)
          BY <1>2
        <4>4. m = General => Rank(Home, m) = Cardinality(TOrgs)
          BY <1>1, <1>4, RankIs
        <4> QED
          BY <4>1, <4>2, <4>3, <4>4
      <3>2. m \in AtOrAbove(Home) /\ s \in AtOrAbove(Home)
        BY <1>4, <2>2, <3>1 DEF InChain
      <3>3. m \in AtOrAbove(s)
        BY <1>4, <2>2, <3>2
      <3>4. /\ Rank(Home, m) = DepthOf(Home, m) /\ Rank(Home, s) = DepthOf(Home, s)
            /\ Rank(Home, m) \in Nat /\ Rank(Home, s) \in Nat
        BY <1>1, <1>4, <2>2, <3>1, RankIs
      <3>5. DepthOf(Home, m) <= DepthOf(Home, s)
        BY <1>2, <3>4
      <3>6. DepthOf(Home, s) <= DepthOf(Home, m)
        <4> DEFINE P == Climb(up)[Home]
        <4>1. PICK i \in Nat : P[i] # Top /\ s = P[i]
          BY <1>1, <3>2, AboveIs
        <4>2. s \in TOrgs /\ Home \in Nodes
          BY <1>1, <4>1, ClimbIs DEF Nodes
        <4>3. PICK d \in Nat : Climb(up)[s][d] # Top /\ m = Climb(up)[s][d]
          BY <3>3, <4>2, AboveIs
        <4>4. m = P[i + d] /\ i + d \in Nat
          <5>1. Climb(up)[Climb(up)[Home][i]][d] = Climb(up)[Home][i + d]
            BY <4>2, ClimbOn
          <5> QED
            BY <4>1, <4>3, <5>1
        <4>5. DepthOf(Home, s) = i /\ DepthOf(Home, m) = i + d
          BY <1>1, <4>1, <4>3, <4>4, AboveIs
        <4> QED
          BY <4>5
      <3> QED
        BY <1>1, <3>2, <3>4, <3>5, <3>6, OneLine
    <2> QED
      BY <2>1, <2>2
  <1> QED
    BY <1>3, <1>5

LEMMA ListIs ==
    ASSUME up \in Trees, Rooted(up)
    PROVE  ListExplains
  <1> SUFFICES ASSUME NEW caller \in TOrgs, NEW o \in Managed(caller), NEW s \in DefaultScopes(o)
               PROVE  s \in ListForOrganizations(caller)
    BY DEF ListExplains
  <1>1. caller # Super /\ o \in TOrgs /\ caller \in AtOrAbove(o)
    BY ThresholdsAssumption DEF Super, Managed
  <1>2. s \in Scopes2 /\ (s = General \/ s \in AtOrAbove(o))
    BY DEF DefaultScopes, InChain
  <1>3. CASE s = General
    BY <1>2, <1>3 DEF ListForOrganizations
  <1>4. CASE s # General
    <2>1. s \in AtOrAbove(o) /\ s \in TOrgs
      BY <1>2, <1>4 DEF Scopes2
    <2>2. DepthOf(o, s) \in Nat /\ DepthOf(o, caller) \in Nat
      <3>1. \A x \in AtOrAbove(o) : DepthOf(o, x) \in Nat
        BY <1>1, AboveIs
      <3> QED
        BY <1>1, <2>1, <3>1
    <2>3. s \in AtOrAbove(caller) \/ caller \in AtOrAbove(s)
      BY <1>1, <2>1, <2>2, OneLine
    <2>4. s \in Managed(caller) \cup Context(caller)
      BY <1>1, <2>1, <2>3 DEF Managed, Context
    <2> QED
      BY <1>2, <2>4 DEF ListForOrganizations
  <1> QED
    BY <1>3, <1>4

LEMMA PanelIs ==
    ASSUME up \in Trees, Rooted(up)
    PROVE  PanelAgrees
  <1>1. ASSUME NEW k \in KeySet PROVE ForSubject(k) = Shown(k)
    <2>1. ResolveBase = IF own[Head(TKeys)] # NoLevels THEN own[Head(TKeys)] ELSE DefaultsFor(Home)
      BY DEF ResolveBase, DefaultsFor
    <2> QED
      BY <2>1 DEF ForSubject, Shown, Override
  <1> DEFINE K == RuleScopes(Home, TRUE)
             key == [s \in K |-> RuleRank(s)]
  <1>2. CASE ruleRows[OfHost] # NoLevels
    <2>1. OfHost \in K
      BY <1>2 DEF RuleScopes
    <2>2. ASSUME NEW s \in K PROVE RuleRank(s) \in Int /\ -1 <= RuleRank(s) /\ (s # OfHost => 0 <= RuleRank(s))
      <3>1. CASE s = OfHost
        BY <3>1 DEF RuleRank
      <3>2. CASE s # OfHost
        <4>1. Home \in TOrgs /\ s \in Scopes2 /\ InChain(Home, s)
          BY <3>2, ThresholdsAssumption DEF RuleScopes
        <4>2. Rank(Home, s) \in Nat
          BY <4>1, RankIs
        <4> QED
          BY <3>2, <4>2 DEF RuleRank
      <3> QED
        BY <3>1, <3>2
    <2>3. key \in [K -> Int] /\ (\A s \in K : -1 <= key[s]) /\ K # {} /\ -1 \in Int
      <3>1. \A s \in K : RuleRank(s) \in Int /\ -1 <= RuleRank(s)
        BY <2>2
      <3>2. K # {}
        BY <2>1
      <3>3. -1 \in Int
        OBVIOUS
      <3> HIDE DEF K
      <3> QED
        BY <3>1, <3>2, <3>3
    <2>4. FirstBy(key) \in K /\ \A s \in K : key[FirstBy(key)] <= key[s]
      <3> HIDE DEF key, K
      <3> QED
        BY <2>3, FirstIs
    <2>5. FirstBy(key) = OfHost
      <3>1. key[OfHost] = -1
        BY <2>1 DEF RuleRank
      <3>2. key[FirstBy(key)] <= -1
        BY <2>1, <2>4, <3>1
      <3> HIDE DEF K
      <3>3. key[FirstBy(key)] = RuleRank(FirstBy(key))
        BY <2>4
      <3> HIDE DEF key
      <3> QED
        BY <2>2, <2>4, <3>2, <3>3
    <2> QED
      BY <1>1, <1>2, <2>1, <2>5 DEF PanelAgrees, ResolveStatusRules
  <1>3. CASE ruleRows[OfHost] = NoLevels
    <2>1. K = RuleScopes(Home, FALSE) /\ \A s \in K : s # OfHost
      BY <1>3, ThresholdsAssumption DEF RuleScopes
    <2>2. key = [s \in RuleScopes(Home, FALSE) |-> Rank(Home, s)]
      BY <2>1 DEF RuleRank
    <2>3. ResolveStatusRules = StatusRuleDefaultsFor(Home)
      BY <2>1, <2>2 DEF ResolveStatusRules, StatusRuleDefaultsFor
    <2> QED
      BY <1>1, <1>3, <2>3 DEF PanelAgrees
  <1> QED
    BY <1>2, <1>3

-----------------------------------------------------------------------------
(* The inductive invariant                                                 *)

Row == [lv: Levels, dur: Durations]

\* What a PATCH is about to write has been validated, level by level.
PatchState ==
    [op: {"update"}, row: Scopes2 \cup {NoLevels}, w: {Same} \cup 0..MaxLevel, c: {Same} \cup 0..MaxLevel,
     d: {Same} \cup Durations]
        \cup [op: {"delete"}, row: Scopes2 \cup {NoLevels}]

StateTyped ==
    /\ up \in Trees
    /\ defs \in [Scopes2 -> Row \cup {NoLevels}]
    /\ own \in [KeySet -> Levels \cup {NoLevels}]
    /\ locks \in [KeySet -> TReqs \cup {Free}]
    /\ patch \in [TReqs -> PatchState \cup {Free}]
    /\ put \in [TReqs -> PutStates \cup {Free}]

\* A request that has read a row finds that row, or none.
RowsKnown == \A q \in TReqs : patch[q] # Free => patch[q].row = NoLevels \/ defs[patch[q].row] # NoLevels

\* A transaction has written, and locked, what it was asked to of the keys
\* that come before those it has left.
PutSound(q) ==
    /\ put[q].left \subseteq DOMAIN put[q].ch
    /\ \A k \in DOMAIN put[q].buf :
          /\ k \in DOMAIN put[q].ch /\ put[q].buf[k] = put[q].ch[k] /\ locks[k] = q
          /\ \A x \in put[q].left : Place(k) < Place(x)
    /\ \A k \in DOMAIN put[q].ch \ put[q].left : put[q].ch[k] # NoLevels => k \in DOMAIN put[q].buf
PutsSound == \A q \in TReqs : put[q] # Free => PutSound(q)

\* Who holds a lock is a transaction that has written the row.
LocksHeld == \A k \in KeySet : locks[k] # Free => put[locks[k]] # Free /\ k \in DOMAIN put[locks[k]].buf

ThresholdsInv == StateTyped /\ Rooted(up) /\ RowsKnown /\ PutsSound /\ LocksHeld /\ PutsWhole

-----------------------------------------------------------------------------
(* Levels and keys                                                         *)

LEMMA LevelsAre ==
    /\ \A lv \in Levels : lv[1] \in 0..MaxLevel /\ lv[2] \in 0..MaxLevel
    /\ \A w, c \in 0..MaxLevel : w <= c => <<w, c>> \in Levels
  <1>1. ASSUME NEW w \in 0..MaxLevel, NEW c \in 0..MaxLevel, w <= c PROVE <<w, c>> \in Levels
    <2>1. <<w, c>> \in (0..MaxLevel) \X (0..MaxLevel) /\ <<w, c>>[1] = w /\ <<w, c>>[2] = c
      OBVIOUS
    <2> QED
      BY <1>1, <2>1 DEF Levels
  <1> QED
    BY <1>1 DEF Levels

LEMMA Validated ==
    ASSUME NEW w \in Int, NEW c \in Int, ValidateThresholdLevels(w, c)
    PROVE  w \in 0..MaxLevel /\ c \in 0..MaxLevel /\ <<w, c>> \in Levels
  <1>1. w \in 0..MaxLevel /\ c \in 0..MaxLevel /\ w <= c
    BY ThresholdsAssumption DEF ValidateThresholdLevels
  <1> QED
    BY <1>1, LevelsAre

LEMMA PlaceIs ==
    /\ \A k \in KeySet : Place(k) \in Nat /\ Place(k) <= Len(TKeys)
    /\ \A k, x \in KeySet : Place(k) = Place(x) => k = x
  <1>1. DOMAIN TKeys = 1..Len(TKeys) /\ Len(TKeys) \in Nat
    BY ThresholdsAssumption
  <1>2. \A k \in KeySet : Place(k) \in DOMAIN TKeys /\ TKeys[Place(k)] = k
    BY DEF Place, KeySet
  <1> QED
    BY <1>1, <1>2

LEMMA NextKeyIs ==
    ASSUME NEW q \in TReqs, put[q].left \in SUBSET KeySet, put[q].left # {}
    PROVE  NextKeys(q) # {}
  <1> DEFINE L == put[q].left
             S == {Place(k) : k \in L}
  <1>1. S \in SUBSET Nat /\ S # {}
    BY PlaceIs
  <1>2. PICK n \in S : \A m \in S : n <= m
    <2> HIDE DEF S
    <2> QED
      BY <1>1, LeastOf
  <1>3. PICK k \in L : Place(k) = n
    BY <1>2
  <1>4. \A x \in L : Place(k) <= Place(x)
    BY <1>2, <1>3
  <1> QED
    BY <1>3, <1>4 DEF NextKeys

-----------------------------------------------------------------------------
(* Steps                                                                   *)

LEMMA ThresholdsInitInv == ThresholdsInit => ThresholdsInv
  <1> SUFFICES ASSUME ThresholdsInit PROVE ThresholdsInv
    OBVIOUS
  <1>1. StateTyped
    BY DEF ThresholdsInit, StateTyped, Trees, Nodes
  <1>2. Rooted(up)
    <2>1. ASSUME NEW x \in TOrgs PROVE Climb(up)[x][0 + 1] = Top
      <3>1. x \in Nodes /\ x # Top /\ up[x] = Top
        BY ThresholdsAssumption DEF Nodes, ThresholdsInit
      <3>2. Climb(up)[x][0] = x /\ 0 \in Nat
        BY <1>1, <3>1, ClimbIs DEF StateTyped
      <3> QED
        BY <1>1, <3>1, <3>2, ClimbIs DEF StateTyped
    <2> QED
      BY <2>1 DEF Rooted
  <1>3. RowsKnown /\ PutsSound /\ LocksHeld /\ PutsWhole
    BY DEF ThresholdsInit, RowsKnown, PutsSound, LocksHeld, PutsWhole
  <1> QED
    BY <1>1, <1>2, <1>3 DEF ThresholdsInv

LEMMA MoveInv ==
    ASSUME ThresholdsInv, NEW o \in TOrgs, NEW p \in Nodes, MoveOrg(o, p)
    PROVE  ThresholdsInv'
  <1>1. up \in Trees /\ Rooted(up)
    BY DEF ThresholdsInv, StateTyped
  <1>2. up' = [up EXCEPT ![o] = p] /\ up' \in Trees
    BY <1>1 DEF MoveOrg, Trees
  <1>3. \A i \in Nat : Climb(up)[p][i] # o
    <2>1. CASE p = Top
      <3>1. p \in Nodes /\ Climb(up)[p][0] = Top
        BY <1>1, <2>1, ClimbIs
      <3>2. \A i \in Nat : Climb(up)[p][i] = Top
        BY <1>1, <3>1, TopStays
      <3> QED
        BY <3>2, ThresholdsAssumption
    <2>2. CASE p # Top
      <3>1. p \in TOrgs /\ o \notin AtOrAbove(p) /\ o # Top
        BY <2>2, ThresholdsAssumption DEF MoveOrg, Nodes
      <3> QED
        BY <1>1, <3>1, AboveIs
    <2> QED
      BY <2>1, <2>2
  <1>4. Rooted(up')
    BY <1>1, <1>2, <1>3, MoveKeepsRoots
  <1>5. UNCHANGED <<defs, ruleRows, own, locks, patch, put, lastPut>>
    BY DEF MoveOrg
  <1>6. StateTyped'
    BY <1>2, <1>5 DEF ThresholdsInv, StateTyped
  <1>7. RowsKnown' /\ PutsSound' /\ LocksHeld' /\ PutsWhole'
    BY <1>5 DEF ThresholdsInv, RowsKnown, PutsSound, PutSound, LocksHeld, PutsWhole
  <1> QED
    BY <1>4, <1>6, <1>7 DEF ThresholdsInv

\* A step of the defaults: the rest stands still.
LEMMA DefaultsStep ==
    ASSUME ThresholdsInv, UNCHANGED <<up, own, locks, put, lastPut>>,
           defs' \in [Scopes2 -> Row \cup {NoLevels}], patch' \in [TReqs -> PatchState \cup {Free}], RowsKnown'
    PROVE  ThresholdsInv'
  <1>1. StateTyped' /\ Rooted(up)'
    BY DEF ThresholdsInv, StateTyped
  <1>2. PutsSound' /\ LocksHeld' /\ PutsWhole'
    BY DEF ThresholdsInv, PutsSound, PutSound, LocksHeld, PutsWhole
  <1> QED
    BY <1>1, <1>2 DEF ThresholdsInv

LEMMA CreateInv ==
    ASSUME ThresholdsInv, NEW caller, NEW s \in Scopes2, NEW w \in Int, NEW c \in Int,
           NEW d \in {NoDuration} \cup 0..(MaxDuration + 1), Create(caller, s, w, c, d)
    PROVE  ThresholdsInv'
  <1>1. <<w, c>> \in Levels
    BY Validated DEF Create
  <1>2. d \in Durations
    <2>1. d # Same \/ d = NoDuration
      BY ThresholdsAssumption
    <2> QED
      BY <2>1 DEF Create, ValidateThresholdDuration, Durations
  <1>3. [lv |-> <<w, c>>, dur |-> d] \in Row
    BY <1>1, <1>2 DEF Row
  <1>4. /\ defs' = [defs EXCEPT ![s] = [lv |-> <<w, c>>, dur |-> d]]
        /\ UNCHANGED <<up, ruleRows, own, locks, patch, put, lastPut>>
    BY DEF Create
  <1>5. defs' \in [Scopes2 -> Row \cup {NoLevels}] /\ patch' \in [TReqs -> PatchState \cup {Free}]
    BY <1>3, <1>4 DEF ThresholdsInv, StateTyped
  <1>6. \A x \in Scopes2 : defs[x] # NoLevels => defs'[x] # NoLevels
    BY <1>3, <1>4, ThresholdsAssumption DEF Row, ThresholdsInv, StateTyped
  <1>7. RowsKnown'
    <2> SUFFICES ASSUME NEW q \in TReqs, patch[q] # Free, patch[q].row # NoLevels PROVE defs'[patch[q].row] # NoLevels
      BY <1>4 DEF RowsKnown
    <2>1. patch[q] \in PatchState
      BY DEF ThresholdsInv, StateTyped
    <2>2. patch[q].row \in Scopes2
      BY <2>1 DEF PatchState
    <2> QED
      BY <1>6, <2>2 DEF ThresholdsInv, RowsKnown
  <1> QED
    BY <1>4, <1>5, <1>7, DefaultsStep

LEMMA PatchReadInv ==
    ASSUME ThresholdsInv, NEW q \in TReqs, NEW caller, NEW s \in Scopes2,
           NEW w \in {Same} \cup -1..(MaxLevel + 1), NEW c \in {Same} \cup -1..(MaxLevel + 1),
           NEW d \in {Same, NoDuration} \cup 0..(MaxDuration + 1), PatchRead(q, caller, s, w, c, d)
    PROVE  ThresholdsInv'
  <1>1. defs[s] \in Row /\ defs[s].lv \in Levels
    BY DEF PatchRead, ThresholdsInv, StateTyped, Row
  <1>2. defs[s].lv[1] \in 0..MaxLevel /\ defs[s].lv[2] \in 0..MaxLevel
    BY <1>1, LevelsAre
  <1>3. w \in {Same} \cup 0..MaxLevel /\ c \in {Same} \cup 0..MaxLevel
    <2>1. CASE w = Same /\ c = Same
      BY <2>1
    <2>2. CASE w # Same \/ c # Same
      <3>1. Given(w, defs[s].lv[1]) \in Int /\ Given(c, defs[s].lv[2]) \in Int
        BY <1>2 DEF Given
      <3>2. ValidateThresholdLevels(Given(w, defs[s].lv[1]), Given(c, defs[s].lv[2]))
        BY <2>2 DEF PatchRead, ValidPatch
      <3>3. Given(w, defs[s].lv[1]) \in 0..MaxLevel /\ Given(c, defs[s].lv[2]) \in 0..MaxLevel
        BY <3>1, <3>2, Validated
      <3> QED
        BY <3>3 DEF Given
    <2> QED
      BY <2>1, <2>2
  <1>4. d \in {Same} \cup Durations
    BY DEF PatchRead, ValidPatch, ValidateThresholdDuration, Durations
  <1> DEFINE new == [op |-> "update", row |-> s, w |-> w, c |-> c, d |-> d]
  <1>5. new \in PatchState /\ new.row = s
    BY <1>3, <1>4 DEF PatchState
  <1>6. patch' = [patch EXCEPT ![q] = new] /\ UNCHANGED <<up, defs, ruleRows, own, locks, put, lastPut>>
    BY DEF PatchRead
  <1> HIDE DEF new
  <1>7. defs' \in [Scopes2 -> Row \cup {NoLevels}] /\ patch' \in [TReqs -> PatchState \cup {Free}]
    BY <1>5, <1>6 DEF ThresholdsInv, StateTyped
  <1>8. RowsKnown'
    BY <1>5, <1>6 DEF PatchRead, ThresholdsInv, StateTyped, RowsKnown
  <1> QED
    BY <1>6, <1>7, <1>8, DefaultsStep

LEMMA DeleteReadInv ==
    ASSUME ThresholdsInv, NEW q \in TReqs, NEW caller, NEW s \in Scopes2, DeleteRead(q, caller, s)
    PROVE  ThresholdsInv'
  <1> DEFINE new == [op |-> "delete", row |-> s]
  <1>1. new \in PatchState /\ new.row = s
    BY DEF PatchState
  <1>2. patch' = [patch EXCEPT ![q] = new] /\ UNCHANGED <<up, defs, ruleRows, own, locks, put, lastPut>>
    BY DEF DeleteRead
  <1> HIDE DEF new
  <1>3. defs' \in [Scopes2 -> Row \cup {NoLevels}] /\ patch' \in [TReqs -> PatchState \cup {Free}]
    BY <1>1, <1>2 DEF ThresholdsInv, StateTyped
  <1>4. RowsKnown'
    BY <1>1, <1>2 DEF DeleteRead, ThresholdsInv, StateTyped, RowsKnown
  <1> QED
    BY <1>2, <1>3, <1>4, DefaultsStep

LEMMA PatchWriteInv ==
    ASSUME ThresholdsInv, NEW q \in TReqs, PatchWrite(q)
    PROVE  ThresholdsInv'
  <1> DEFINE s == patch[q].row
             lv == <<Given(patch[q].w, defs[s].lv[1]), Given(patch[q].c, defs[s].lv[2])>>
             new == [lv |-> lv, dur |-> Given(patch[q].d, defs[s].dur)]
  <1>1. patch[q] \in PatchState /\ patch[q] # Free /\ patch[q].op = "update"
    BY DEF PatchWrite, ThresholdsInv, StateTyped
  <1>2. /\ patch[q].w \in {Same} \cup 0..MaxLevel /\ patch[q].c \in {Same} \cup 0..MaxLevel
        /\ patch[q].d \in {Same} \cup Durations /\ s \in Scopes2 \cup {NoLevels}
    BY <1>1 DEF PatchState
  <1>3. s # NoLevels /\ LevelsCheck(new.lv) => s \in Scopes2 /\ new \in Row
    <2> SUFFICES ASSUME s # NoLevels, LevelsCheck(lv) PROVE s \in Scopes2 /\ new \in Row
      OBVIOUS
    <2>1. s \in Scopes2 /\ defs[s] \in Row
      BY <1>1, <1>2 DEF ThresholdsInv, StateTyped, RowsKnown
    <2>2. defs[s].lv \in Levels /\ defs[s].dur \in Durations
      BY <2>1 DEF Row
    <2>3. defs[s].lv[1] \in 0..MaxLevel /\ defs[s].lv[2] \in 0..MaxLevel
      BY <2>2, LevelsAre
    <2>4. Given(patch[q].w, defs[s].lv[1]) \in 0..MaxLevel /\ Given(patch[q].c, defs[s].lv[2]) \in 0..MaxLevel
      BY <1>2, <2>3 DEF Given
    <2>5. lv \in Levels
      BY <2>4, LevelsAre DEF LevelsCheck
    <2>6. Given(patch[q].d, defs[s].dur) \in Durations
      BY <1>2, <2>2 DEF Given
    <2> HIDE DEF lv, s
    <2> QED
      BY <2>1, <2>5, <2>6 DEF Row
  <1>4. /\ defs' = IF s # NoLevels /\ LevelsCheck(new.lv) THEN [defs EXCEPT ![s] = new] ELSE defs
        /\ patch' = [patch EXCEPT ![q] = Free]
        /\ UNCHANGED <<up, ruleRows, own, locks, put, lastPut>>
    BY DEF PatchWrite
  <1> HIDE DEF new, lv, s
  <1>5. defs' \in [Scopes2 -> Row \cup {NoLevels}] /\ patch' \in [TReqs -> PatchState \cup {Free}]
    BY <1>3, <1>4 DEF ThresholdsInv, StateTyped
  <1>6. \A x \in Scopes2 : defs[x] # NoLevels => defs'[x] # NoLevels
    BY <1>3, <1>4, ThresholdsAssumption DEF Row, ThresholdsInv, StateTyped
  <1>7. RowsKnown'
    <2> SUFFICES ASSUME NEW r \in TReqs, patch'[r] # Free, patch'[r].row # NoLevels PROVE defs'[patch'[r].row] # NoLevels
      BY DEF RowsKnown
    <2>1. patch[r] \in PatchState /\ patch[r] # Free /\ patch'[r] = patch[r]
      BY <1>4 DEF ThresholdsInv, StateTyped
    <2>2. patch[r].row \in Scopes2
      BY <2>1 DEF PatchState
    <2> QED
      BY <1>6, <2>1, <2>2 DEF ThresholdsInv, RowsKnown
  <1> QED
    BY <1>4, <1>5, <1>7, DefaultsStep

LEMMA DeleteWriteInv ==
    ASSUME ThresholdsInv, NEW q \in TReqs, DeleteWrite(q)
    PROVE  ThresholdsInv'
  <1> DEFINE s == patch[q].row
  <1>1. /\ defs' = IF s = NoLevels THEN defs ELSE [defs EXCEPT ![s] = NoLevels]
        /\ patch' = [r \in TReqs |-> CASE r = q -> Free
                                       [] r # q /\ patch[r] # Free ->
                                             IF patch[r].row = s THEN [patch[r] EXCEPT !.row = NoLevels] ELSE patch[r]
                                       [] OTHER -> patch[r]]
        /\ UNCHANGED <<up, ruleRows, own, locks, put, lastPut>>
    BY DEF DeleteWrite
  <1>2. s \in Scopes2 \cup {NoLevels}
    BY DEF DeleteWrite, ThresholdsInv, StateTyped, PatchState
  <1> HIDE DEF s
  <1>3. ASSUME NEW r \in TReqs
        PROVE  /\ patch'[r] \in PatchState \cup {Free}
               /\ patch'[r] # Free => \/ patch'[r].row = NoLevels
                                      \/ patch[r] # Free /\ patch'[r] = patch[r] /\ patch[r].row # s
    <2>1. patch'[r] = IF r = q THEN Free
                      ELSE IF patch[r] # Free /\ patch[r].row = s THEN [patch[r] EXCEPT !.row = NoLevels]
                      ELSE patch[r]
      BY <1>1
    <2>2. patch[r] \in PatchState \cup {Free}
      BY DEF ThresholdsInv, StateTyped
    <2>3. \A z \in PatchState : [z EXCEPT !.row = NoLevels] \in PatchState /\ [z EXCEPT !.row = NoLevels].row = NoLevels
      BY DEF PatchState
    <2> QED
      BY <2>1, <2>2, <2>3
  <1>4. patch' \in [TReqs -> PatchState \cup {Free}]
    <2>1. patch' = [r \in TReqs |-> patch'[r]]
      BY <1>1
    <2> QED
      BY <1>3, <2>1
  <1>5. defs' \in [Scopes2 -> Row \cup {NoLevels}]
    BY <1>1, <1>2 DEF ThresholdsInv, StateTyped
  <1>6. RowsKnown'
    <2> SUFFICES ASSUME NEW r \in TReqs, patch'[r] # Free, patch'[r].row # NoLevels PROVE defs'[patch'[r].row] # NoLevels
      BY DEF RowsKnown
    <2>1. patch[r] # Free /\ patch'[r] = patch[r] /\ patch[r].row # s
      BY <1>3
    <2>2. defs[patch[r].row] # NoLevels
      BY <2>1 DEF ThresholdsInv, RowsKnown
    <2>3. patch[r] \in PatchState
      BY <2>1 DEF ThresholdsInv, StateTyped
    <2>4. patch[r].row \in Scopes2
      BY <2>1, <2>3 DEF PatchState
    <2> QED
      BY <1>1, <2>1, <2>2, <2>4 DEF ThresholdsInv, StateTyped
  <1> QED
    BY <1>1, <1>4, <1>5, <1>6, DefaultsStep

\* A step of the PUT requests: the rest stands still.
LEMMA PutStep ==
    ASSUME ThresholdsInv, UNCHANGED <<up, defs, patch>>,
           own' \in [KeySet -> Levels \cup {NoLevels}], locks' \in [KeySet -> TReqs \cup {Free}],
           put' \in [TReqs -> PutStates \cup {Free}], PutsSound', LocksHeld', PutsWhole'
    PROVE  ThresholdsInv'
  <1>1. StateTyped' /\ Rooted(up)' /\ RowsKnown'
    BY DEF ThresholdsInv, StateTyped, RowsKnown
  <1> QED
    BY <1>1 DEF ThresholdsInv

LEMMA PutBeginInv ==
    ASSUME ThresholdsInv, NEW q \in TReqs, NEW changes \in Changes, PutBegin(q, changes)
    PROVE  ThresholdsInv'
  <1>1. PICK none : none = [k \in {} |-> NoLevels]
    OBVIOUS
  <1>2. none \in Changes /\ DOMAIN none = {}
    <2>1. {} \in SUBSET KeySet /\ none \in [{} -> Levels \cup {NoLevels}] /\ DOMAIN none = {}
      BY <1>1
    <2> QED
      BY <2>1 DEF Changes
  <1>3. DOMAIN changes \in SUBSET KeySet
    BY DEF Changes
  <1> DEFINE new == [ch |-> changes, left |-> DOMAIN changes, buf |-> none]
  <1>4. put' = [put EXCEPT ![q] = new] /\ put[q] = Free /\ UNCHANGED <<up, defs, ruleRows, own, locks, patch, lastPut>>
    BY <1>1 DEF PutBegin
  <1>5. new \in PutStates /\ new.ch = changes /\ new.left = DOMAIN changes /\ new.buf = none
    BY <1>2, <1>3 DEF PutStates
  <1> HIDE DEF new
  <1>6. /\ put' \in [TReqs -> PutStates \cup {Free}] /\ put'[q] = new
        /\ \A r \in TReqs : r # q => put'[r] = put[r]
    BY <1>4, <1>5 DEF ThresholdsInv, StateTyped
  <1>7. PutsSound'
    <2> SUFFICES ASSUME NEW r \in TReqs, put'[r] # Free PROVE PutSound(r)'
      BY DEF PutsSound
    <2>1. CASE r = q
      BY <1>2, <1>5, <1>6, <2>1 DEF PutSound
    <2>2. CASE r # q
      BY <1>4, <1>6, <2>2 DEF ThresholdsInv, PutsSound, PutSound
    <2> QED
      BY <2>1, <2>2
  <1>8. LocksHeld'
    <2> SUFFICES ASSUME NEW k \in KeySet, locks[k] # Free PROVE put'[locks[k]] # Free /\ k \in DOMAIN put'[locks[k]].buf
      BY <1>4 DEF LocksHeld
    <2>1. locks[k] \in TReqs /\ put[locks[k]] # Free /\ k \in DOMAIN put[locks[k]].buf
      BY DEF ThresholdsInv, StateTyped, LocksHeld
    <2> QED
      BY <1>4, <1>6, <2>1
  <1>9. PutsWhole'
    BY <1>4 DEF ThresholdsInv, PutsWhole
  <1> QED
    BY <1>4, <1>6, <1>7, <1>8, <1>9, PutStep DEF ThresholdsInv, StateTyped

LEMMA ApplyInv ==
    ASSUME ThresholdsInv, NEW q \in TReqs, NEW k \in KeySet, ApplyOne(q, k)
    PROVE  ThresholdsInv'
  <1> DEFINE old == put[q]
             buf2 == IF Locking(q, k) THEN Extended(old.buf, k, old.ch[k]) ELSE old.buf
             new == [ch |-> old.ch, left |-> old.left \ {k}, buf |-> buf2]
  <1>1. old \in PutStates /\ put[q] # Free /\ PutSound(q)
    BY DEF ApplyOne, ThresholdsInv, StateTyped, PutsSound
  <1>2. /\ old.ch \in Changes /\ old.left \in SUBSET KeySet /\ old.buf \in Changes
        /\ k \in old.left /\ k \in DOMAIN old.ch
        /\ \A x \in old.left : Place(k) <= Place(x)
    BY <1>1 DEF PutStates, ApplyOne, NextKeys, PutSound
  <1>3. /\ put' = [put EXCEPT ![q] = new]
        /\ locks' = IF Locking(q, k) THEN [locks EXCEPT ![k] = q] ELSE locks
        /\ UNCHANGED <<up, defs, ruleRows, own, patch, lastPut>>
    <2>1. put' = [put EXCEPT ![q].left = @ \ {k}, ![q].buf = IF Locking(q, k) THEN Extended(@, k, put[q].ch[k]) ELSE @]
      BY DEF ApplyOne
    <2>2. put' = [put EXCEPT ![q] = [[old EXCEPT !.left = @ \ {k}] EXCEPT
                                        !.buf = IF Locking(q, k) THEN Extended(@, k, put[q].ch[k]) ELSE @]]
      BY <2>1 DEF ThresholdsInv, StateTyped
    <2>3. [[old EXCEPT !.left = @ \ {k}] EXCEPT !.buf = IF Locking(q, k) THEN Extended(@, k, put[q].ch[k]) ELSE @] = new
      <3>1. old = [ch |-> old.ch, left |-> old.left, buf |-> old.buf]
        BY <1>1 DEF PutStates
      <3>2. [old EXCEPT !.left = @ \ {k}] = [ch |-> old.ch, left |-> old.left \ {k}, buf |-> old.buf]
        BY <3>1
      <3> HIDE DEF old, buf2
      <3>3. [[ch |-> old.ch, left |-> old.left \ {k}, buf |-> old.buf] EXCEPT !.buf = buf2] = new
        OBVIOUS
      <3>4. buf2 = IF Locking(q, k) THEN Extended(old.buf, k, put[q].ch[k]) ELSE old.buf
        BY DEF buf2, old
      <3> QED
        BY <3>2, <3>3, <3>4
    <2>4. put' = [put EXCEPT ![q] = new]
      BY <2>2, <2>3
    <2> QED
      BY <2>4 DEF ApplyOne
  <1>4. /\ DOMAIN buf2 = IF Locking(q, k) THEN DOMAIN old.buf \cup {k} ELSE DOMAIN old.buf
        /\ \A x \in DOMAIN buf2 : buf2[x] = IF x = k /\ Locking(q, k) THEN old.ch[k] ELSE old.buf[x]
    BY DEF Extended
  <1>5. buf2 \in Changes
    <2>1. CASE Locking(q, k)
      <3>1. old.ch[k] \in Levels \cup {NoLevels}
        BY <1>2 DEF Changes
      <3>2. PICK ks \in SUBSET KeySet : old.buf \in [ks -> Levels \cup {NoLevels}]
        BY <1>2 DEF Changes
      <3>3. buf2 \in [ks \cup {k} -> Levels \cup {NoLevels}]
        BY <2>1, <3>1, <3>2 DEF Extended
      <3>4. ks \cup {k} \in SUBSET KeySet
        OBVIOUS
      <3> HIDE DEF buf2
      <3> QED
        BY <3>3, <3>4 DEF Changes
    <2>2. CASE ~Locking(q, k)
      BY <1>2, <2>2
    <2> QED
      BY <2>1, <2>2
  <1> HIDE DEF buf2
  <1>6. new \in PutStates /\ new.ch = old.ch /\ new.left = old.left \ {k} /\ new.buf = buf2
    BY <1>2, <1>5 DEF PutStates
  <1> HIDE DEF new
  <1>7. /\ put' \in [TReqs -> PutStates \cup {Free}] /\ put'[q] = new /\ put'[q] # Free
        /\ \A r \in TReqs : r # q => put'[r] = put[r]
    BY <1>3, <1>6, ThresholdsAssumption DEF ThresholdsInv, StateTyped
  <1>8. /\ locks' \in [KeySet -> TReqs \cup {Free}]
        /\ Locking(q, k) => locks'[k] = q /\ locks[k] \in {Free, q}
        /\ \A x \in KeySet : locks'[x] # locks[x] => x = k /\ Locking(q, k)
    BY <1>3 DEF ApplyOne, ThresholdsInv, StateTyped
  <1>9. \A x \in old.left \ {k} : Place(k) < Place(x)
    <2> SUFFICES ASSUME NEW x \in old.left, x # k PROVE Place(k) < Place(x)
      OBVIOUS
    <2>1. x \in KeySet /\ Place(k) <= Place(x)
      BY <1>2
    <2> QED
      BY <2>1, PlaceIs
  <1>10. PutSound(q)'
    <2>1. new.left \subseteq DOMAIN new.ch
      BY <1>1, <1>6 DEF PutSound
    <2>2. ASSUME NEW x \in DOMAIN buf2
          PROVE  /\ x \in DOMAIN old.ch /\ buf2[x] = old.ch[x] /\ locks'[x] = q
                 /\ \A y \in old.left \ {k} : Place(x) < Place(y)
      <3>1. CASE x = k /\ Locking(q, k)
        BY <1>2, <1>4, <1>8, <1>9, <3>1
      <3>2. CASE ~(x = k /\ Locking(q, k))
        <4>1. x \in DOMAIN old.buf /\ buf2[x] = old.buf[x]
          BY <1>4, <3>2
        <4>2. x \in DOMAIN old.ch /\ old.buf[x] = old.ch[x] /\ locks[x] = q /\ \A y \in old.left : Place(x) < Place(y)
          BY <1>1, <4>1 DEF PutSound
        <4>3. x \in KeySet
          BY <1>2, <4>2 DEF Changes
        <4> QED
          BY <1>8, <3>2, <4>1, <4>2, <4>3
      <3> QED
        BY <3>1, <3>2
    <2>3. ASSUME NEW x \in DOMAIN old.ch \ (old.left \ {k}), old.ch[x] # NoLevels PROVE x \in DOMAIN buf2
      <3>1. CASE x = k
        BY <1>4, <2>3, <3>1 DEF Locking
      <3>2. CASE x # k
        BY <1>1, <1>4, <2>3, <3>2 DEF PutSound
      <3> QED
        BY <3>1, <3>2
    <2> HIDE DEF old
    <2> QED
      BY <1>6, <1>7, <2>1, <2>2, <2>3 DEF PutSound
  <1>11. PutsSound'
    <2> SUFFICES ASSUME NEW r \in TReqs, put'[r] # Free, r # q PROVE PutSound(r)'
      BY <1>10 DEF PutsSound
    <2>1. put'[r] = put[r] /\ PutSound(r) /\ put[r] \in PutStates
      BY <1>7 DEF ThresholdsInv, StateTyped, PutsSound
    <2>2. \A x \in DOMAIN put[r].buf : locks'[x] = r
      <3> SUFFICES ASSUME NEW x \in DOMAIN put[r].buf PROVE locks'[x] = r
        OBVIOUS
      <3>1. locks[x] = r /\ x \in KeySet
        BY <2>1 DEF PutSound, PutStates, Changes
      <3>2. x = k => ~Locking(q, k)
        BY <1>8, <3>1, ThresholdsAssumption
      <3> QED
        BY <1>8, <3>1, <3>2
    <2> QED
      BY <2>1, <2>2 DEF PutSound
  <1>12. LocksHeld'
    <2> SUFFICES ASSUME NEW x \in KeySet, locks'[x] # Free PROVE put'[locks'[x]] # Free /\ x \in DOMAIN put'[locks'[x]].buf
      BY DEF LocksHeld
    <2>1. CASE x = k /\ Locking(q, k)
      BY <1>4, <1>6, <1>7, <1>8, <2>1
    <2>2. CASE ~(x = k /\ Locking(q, k))
      <3>1. locks'[x] = locks[x] /\ locks[x] # Free
        BY <1>8, <2>2
      <3>2. locks[x] \in TReqs /\ put[locks[x]] # Free /\ x \in DOMAIN put[locks[x]].buf
        BY <3>1 DEF ThresholdsInv, StateTyped, LocksHeld
      <3>3. CASE locks[x] = q
        BY <1>4, <1>6, <1>7, <3>1, <3>2, <3>3
      <3>4. CASE locks[x] # q
        BY <1>7, <3>1, <3>2, <3>4
      <3> QED
        BY <3>3, <3>4
    <2> QED
      BY <2>1, <2>2
  <1>13. PutsWhole' /\ own' \in [KeySet -> Levels \cup {NoLevels}]
    BY <1>3 DEF ThresholdsInv, StateTyped, PutsWhole
  <1> QED
    BY <1>3, <1>7, <1>8, <1>11, <1>12, <1>13, PutStep

\* The end of a transaction releases its locks, and nobody else's.
LEMMA ReleaseStep ==
    ASSUME ThresholdsInv, NEW q \in TReqs, locks' = Released(q), put' = [put EXCEPT ![q] = Free]
    PROVE  /\ locks' \in [KeySet -> TReqs \cup {Free}]
           /\ put' \in [TReqs -> PutStates \cup {Free}]
           /\ PutsSound' /\ LocksHeld'
  <1>1. /\ put' \in [TReqs -> PutStates \cup {Free}] /\ put'[q] = Free
        /\ \A r \in TReqs : r # q => put'[r] = put[r]
    BY DEF ThresholdsInv, StateTyped
  <1>2. /\ locks' \in [KeySet -> TReqs \cup {Free}]
        /\ \A k \in KeySet : locks'[k] = IF locks[k] = q THEN Free ELSE locks[k]
    BY DEF Released, ThresholdsInv, StateTyped
  <1>3. PutsSound'
    <2> SUFFICES ASSUME NEW r \in TReqs, put'[r] # Free PROVE PutSound(r)'
      BY DEF PutsSound
    <2>1. r # q /\ put'[r] = put[r] /\ PutSound(r) /\ put[r] \in PutStates
      BY <1>1 DEF ThresholdsInv, StateTyped, PutsSound
    <2>2. \A x \in DOMAIN put[r].buf : locks'[x] = r
      <3> SUFFICES ASSUME NEW x \in DOMAIN put[r].buf PROVE locks'[x] = r
        OBVIOUS
      <3>1. locks[x] = r /\ x \in KeySet
        BY <2>1 DEF PutSound, PutStates, Changes
      <3> QED
        BY <1>2, <2>1, <3>1
    <2> QED
      BY <2>1, <2>2 DEF PutSound
  <1>4. LocksHeld'
    <2> SUFFICES ASSUME NEW x \in KeySet, locks'[x] # Free PROVE put'[locks'[x]] # Free /\ x \in DOMAIN put'[locks'[x]].buf
      BY DEF LocksHeld
    <2>1. locks'[x] = locks[x] /\ locks[x] # Free /\ locks[x] # q
      BY <1>2
    <2>2. locks[x] \in TReqs /\ put[locks[x]] # Free /\ x \in DOMAIN put[locks[x]].buf
      BY <2>1 DEF ThresholdsInv, StateTyped, LocksHeld
    <2> QED
      BY <1>1, <2>1, <2>2
  <1> QED
    BY <1>1, <1>2, <1>3, <1>4

LEMMA PutCommitInv ==
    ASSUME ThresholdsInv, NEW q \in TReqs, PutCommit(q)
    PROVE  ThresholdsInv'
  <1> DEFINE old == put[q]
  <1>1. old \in PutStates /\ old.left = {} /\ PutSound(q)
    BY DEF PutCommit, ThresholdsInv, StateTyped, PutsSound
  <1>2. own' = [k \in KeySet |-> IF k \in DOMAIN old.buf THEN old.buf[k] ELSE own[k]]
    BY DEF PutCommit, Applied
  <1>3. own' \in [KeySet -> Levels \cup {NoLevels}]
    <2>1. \A k \in DOMAIN old.buf : old.buf[k] \in Levels \cup {NoLevels}
      BY <1>1 DEF PutStates, Changes
    <2> HIDE DEF old
    <2> QED
      BY <1>2, <2>1 DEF ThresholdsInv, StateTyped
  <1>4. PutsWhole'
    <2> SUFFICES ASSUME lastPut' # NoLevels PROVE own' = lastPut'
      BY DEF PutsWhole
    <2>1. DOMAIN old.ch = KeySet /\ (\A k \in KeySet : old.ch[k] # NoLevels) /\ lastPut' = old.ch
      BY DEF PutCommit
    <2>2. \A k \in KeySet : k \in DOMAIN old.buf /\ old.buf[k] = old.ch[k]
      BY <1>1, <2>1 DEF PutSound
    <2>3. old.ch = [k \in KeySet |-> old.ch[k]]
      BY <1>1, <2>1 DEF PutStates, Changes
    <2> HIDE DEF old
    <2> QED
      BY <1>2, <2>1, <2>2, <2>3
  <1>5. locks' = Released(q) /\ put' = [put EXCEPT ![q] = Free] /\ UNCHANGED <<up, defs, ruleRows, patch>>
    BY DEF PutCommit
  <1> QED
    BY <1>3, <1>4, <1>5, ReleaseStep, PutStep

LEMMA PutAbortInv ==
    ASSUME ThresholdsInv, NEW q \in TReqs, PutAbort(q)
    PROVE  ThresholdsInv'
  <1>1. /\ locks' = Released(q) /\ put' = [put EXCEPT ![q] = Free]
        /\ UNCHANGED <<up, defs, ruleRows, own, patch, lastPut>>
    BY DEF PutAbort
  <1>2. PutsWhole' /\ own' \in [KeySet -> Levels \cup {NoLevels}]
    BY <1>1 DEF ThresholdsInv, StateTyped, PutsWhole
  <1> QED
    BY <1>1, <1>2, ReleaseStep, PutStep

LEMMA RuleInv ==
    ASSUME ThresholdsInv, UNCHANGED <<up, defs, own, locks, patch, put, lastPut>>
    PROVE  ThresholdsInv'
  BY DEF ThresholdsInv, StateTyped, RowsKnown, PutsSound, PutSound, LocksHeld, PutsWhole

LEMMA ThresholdsSteps == ThresholdsInv /\ [ThresholdsNext]_tvars => ThresholdsInv'
  <1> SUFFICES ASSUME ThresholdsInv, [ThresholdsNext]_tvars PROVE ThresholdsInv'
    OBVIOUS
  <1>1. CASE PatchNext(Scopes2)
    <2>1. MaxLevel + 1 \in Nat /\ MaxDuration + 1 \in Nat /\ -1..(MaxLevel + 1) \subseteq Int
      BY ThresholdsAssumption
    <2>2. CASE \E caller \in Callers, s \in Scopes2, w, c \in -1..(MaxLevel + 1), d \in {NoDuration} \cup 0..(MaxDuration + 1) :
                  Create(caller, s, w, c, d)
      BY <2>1, <2>2, CreateInv
    <2>3. CASE \E q \in TReqs, caller \in Callers, s \in Scopes2 :
                  \E w, c \in {Same} \cup -1..(MaxLevel + 1), d \in {Same, NoDuration} \cup 0..(MaxDuration + 1) :
                     PatchRead(q, caller, s, w, c, d)
      BY <2>3, PatchReadInv
    <2>4. CASE \E q \in TReqs, caller \in Callers, s \in Scopes2 : DeleteRead(q, caller, s)
      BY <2>4, DeleteReadInv
    <2>5. CASE \E q \in TReqs : PatchWrite(q) \/ DeleteWrite(q)
      BY <2>5, PatchWriteInv, DeleteWriteInv
    <2> QED
      BY <1>1, <2>2, <2>3, <2>4, <2>5 DEF PatchNext
  <1>2. CASE PutNext
    BY <1>2, PutBeginInv, ApplyInv, PutCommitInv, PutAbortInv DEF PutNext
  <1>3. CASE ScopeNext
    BY <1>3, MoveInv, RuleInv DEF ScopeNext, SetStatusRule, Nodes
  <1>4. CASE UNCHANGED tvars
    BY <1>4, RuleInv DEF tvars
  <1> QED
    BY <1>1, <1>2, <1>3, <1>4 DEF ThresholdsNext

-----------------------------------------------------------------------------
(* The theorem                                                             *)

\* Transactions lock in the order of the keys: of those under way, the one
\* whose next key comes last waits for none.
LEMMA NoCircle == ThresholdsInv => NoPutDeadlock
  <1> SUFFICES ASSUME ThresholdsInv, NEW q \in TReqs, put[q] # Free,
                      \A r \in TReqs : put[r] # Free => Waiting(r)
               PROVE  FALSE
    BY DEF NoPutDeadlock
  <1> DEFINE Active == {r \in TReqs : put[r] # Free}
             Wanted(k) == \E r \in Active : k \in NextKeys(r)
             S == {Place(k) : k \in {x \in KeySet : Wanted(x)}}
  <1>1. \A r \in Active : /\ put[r] \in PutStates /\ put[r].left \in SUBSET KeySet
                          /\ NextKeys(r) # {} /\ NextKeys(r) \subseteq put[r].left
    <2> SUFFICES ASSUME NEW r \in Active
                 PROVE  /\ put[r] \in PutStates /\ put[r].left \in SUBSET KeySet
                        /\ NextKeys(r) # {} /\ NextKeys(r) \subseteq put[r].left
      OBVIOUS
    <2>1. put[r] \in PutStates /\ put[r].left \in SUBSET KeySet /\ put[r].left # {}
      BY DEF Waiting, ThresholdsInv, StateTyped, PutStates
    <2> QED
      BY <2>1, NextKeyIs DEF NextKeys
  <1>2. PICK limit \in Nat : limit = Len(TKeys)
    BY ThresholdsAssumption
  <1>3. S \in SUBSET Nat /\ S # {} /\ \A n \in S : n <= limit
    <2>1. \A k \in KeySet : Place(k) \in Nat /\ Place(k) <= limit
      BY <1>2, PlaceIs
    <2>2. PICK k \in NextKeys(q) : TRUE
      BY <1>1
    <2>3. k \in KeySet /\ Wanted(k)
      BY <1>1, <2>2
    <2> HIDE DEF Wanted
    <2> QED
      BY <2>1, <2>3
  <1>4. PICK n \in S : \A m \in S : m <= n
    <2> HIDE DEF S
    <2> QED
      BY <1>3, GreatestOf
  <1>5. PICK k \in KeySet : Wanted(k) /\ Place(k) = n
    BY <1>4
  <1>6. PICK r \in Active : k \in NextKeys(r)
    BY <1>5
  <1>7. locks[k] \notin {Free, r}
    BY <1>6 DEF Waiting
  <1>8. PICK h \in TReqs : h = locks[k] /\ put[h] # Free /\ k \in DOMAIN put[h].buf
    BY <1>7 DEF ThresholdsInv, StateTyped, LocksHeld
  <1>9. PICK x \in NextKeys(h) : x \in put[h].left /\ x \in KeySet
    BY <1>1, <1>8
  <1>10. Place(k) < Place(x)
    BY <1>8, <1>9 DEF ThresholdsInv, PutsSound, PutSound
  <1>11. Place(x) \in S
    BY <1>8, <1>9
  <1>12. Place(x) <= Place(k)
    BY <1>4, <1>5, <1>11
  <1> QED
    BY <1>10, <1>12, PlaceIs, <1>9

LEMMA ThresholdsNow == ThresholdsInv => ThresholdsHold
  <1> SUFFICES ASSUME ThresholdsInv PROVE ThresholdsHold
    OBVIOUS
  <1>1. up \in Trees /\ Rooted(up)
    BY DEF ThresholdsInv, StateTyped
  <1>2. PanelAgrees /\ NearestWins /\ ListExplains
    BY <1>1, PanelIs, NearestIs, ListIs
  <1>3. \A s \in Scopes2 : defs[s] # NoLevels => defs[s].lv \in Levels /\ defs[s].dur \in Durations
    BY DEF ThresholdsInv, StateTyped, Row
  <1>4. ThresholdsTypeOK /\ LevelsOrdered
    BY <1>3 DEF ThresholdsInv, StateTyped, Trees, Nodes, ThresholdsTypeOK, LevelsOrdered
  <1>5. PutsWhole /\ NoPutDeadlock
    BY NoCircle DEF ThresholdsInv
  <1> QED
    BY <1>2, <1>4, <1>5 DEF ThresholdsHold

\* For any organizations and moves, keys, levels and requests, what concurrent
\* writes leave is in order and whole, no two of them wait for each other, and
\* the engine, the panel and the lists resolve the same, nearest threshold
\* (thresholds.go, threshold_handlers.go, status_rules.go).
THEOREM ThresholdsStand == ThresholdsSpec => []ThresholdsHold
  <1> QED
    BY ThresholdsInitInv, ThresholdsSteps, ThresholdsNow, PTL DEF ThresholdsSpec

-----------------------------------------------------------------------------
(* Recipients: the tree, walked upwards from the host's organization and   *)
(* downwards from the assignments                                          *)

ONodes == ROrgs \cup {NoOrg}
ParentOrNone == [x \in ONodes |-> IF x = NoOrg THEN NoOrg ELSE ParentOf[x]]

\* Way[x][n]: what is n levels above x.
Way == [x \in ONodes |-> CHOOSE P : IsPath(P, ONodes, ParentOrNone, x)]

LEMMA WayIs ==
    /\ \A x \in ONodes, n \in Nat : Way[x][n] \in ONodes
    /\ \A x \in ONodes : Way[x][0] = x
    /\ \A x \in ONodes, n \in Nat : Way[x][n + 1] = ParentOrNone[Way[x][n]]
  <1>1. ParentOrNone \in [ONodes -> ONodes]
    BY RecipientsAssumption DEF ParentOrNone, ONodes
  <1>2. \A x \in ONodes : IsPath(Way[x], ONodes, ParentOrNone, x)
    BY <1>1, PathExists DEF Way
  <1> QED
    BY <1>2 DEF IsPath

LEMMA WayOn ==
    ASSUME NEW x \in ONodes, NEW i \in Nat, NEW j \in Nat
    PROVE  Way[Way[x][i]][j] = Way[x][i + j]
  <1> DEFINE y == Way[x][i]
             Bad == {n \in Nat : Way[y][n] # Way[x][i + n]}
  <1>1. y \in ONodes
    BY WayIs
  <1> HIDE DEF y
  <1>2. SUFFICES ASSUME Bad # {} PROVE FALSE
    BY DEF y
  <1>3. PICK n \in Bad : \A m \in Bad : n <= m
    <2>1. Bad \in SUBSET Nat
      OBVIOUS
    <2> HIDE DEF Bad
    <2> QED
      BY <1>2, <2>1, LeastOf
  <1>4. n \in Nat /\ Way[y][n] # Way[x][i + n]
    BY <1>3
  <1>5. n # 0
    <2>1. Way[y][0] = y /\ i + 0 = i
      BY <1>1, WayIs
    <2> QED
      BY <1>4, <2>1 DEF y
  <1>6. PICK k \in Nat : k + 1 = n
    <2>1. n - 1 \in Nat /\ (n - 1) + 1 = n
      BY <1>4, <1>5
    <2> QED
      BY <2>1
  <1>7. Way[y][k] = Way[x][i + k]
    <2>1. ~(n <= k)
      BY <1>6
    <2> QED
      BY <1>3, <2>1
  <1>8. Way[y][k + 1] = Way[x][(i + k) + 1]
    <2>1. i + k \in Nat
      OBVIOUS
    <2> QED
      BY <1>1, <1>7, <2>1, WayIs
  <1>9. (i + k) + 1 = i + n
    BY <1>6
  <1> QED
    BY <1>4, <1>6, <1>8, <1>9

\* The way of an organization begins anew at its parent.
LEMMA WayFromParent ==
    ASSUME NEW x \in ROrgs, NEW n \in Nat
    PROVE  ParentOf[x] \in ONodes /\ Way[x][n + 1] = Way[ParentOf[x]][n]
  <1>1. x \in ONodes /\ x # NoOrg /\ ParentOf[x] \in ONodes
    BY RecipientsAssumption DEF ONodes
  <1>2. Way[x][1] = ParentOf[x]
    <2>1. Way[x][0 + 1] = ParentOrNone[x]
      BY <1>1, WayIs
    <2> QED
      BY <1>1, <2>1 DEF ParentOrNone
  <1>3. Way[Way[x][1]][n] = Way[x][1 + n]
    BY <1>1, WayOn
  <1>4. 1 + n = n + 1
    OBVIOUS
  <1> QED
    BY <1>1, <1>2, <1>3, <1>4

\* Above nothing there is nothing.
LEMMA NoneAboveNone ==
    ASSUME NEW n \in Nat
    PROVE  Way[NoOrg][n] = NoOrg
  <1> DEFINE Bad == {k \in Nat : Way[NoOrg][k] # NoOrg}
  <1>1. SUFFICES ASSUME Bad # {} PROVE FALSE
    OBVIOUS
  <1>2. PICK k \in Bad : \A m \in Bad : k <= m
    <2>1. Bad \in SUBSET Nat
      OBVIOUS
    <2> HIDE DEF Bad
    <2> QED
      BY <1>1, <2>1, LeastOf
  <1>3. k \in Nat /\ Way[NoOrg][k] # NoOrg /\ NoOrg \in ONodes
    BY <1>2 DEF ONodes
  <1>4. k # 0
    BY <1>3, WayIs
  <1>5. PICK j \in Nat : j + 1 = k
    <2>1. k - 1 \in Nat /\ (k - 1) + 1 = k
      BY <1>3, <1>4
    <2> QED
      BY <2>1
  <1>6. Way[NoOrg][j] = NoOrg
    <2>1. ~(k <= j)
      BY <1>5
    <2> QED
      BY <1>2, <2>1
  <1>7. Way[NoOrg][j + 1] = ParentOrNone[NoOrg]
    BY <1>3, <1>6, WayIs
  <1> QED
    BY <1>3, <1>5, <1>7 DEF ParentOrNone

RLimit == Cardinality(ROrgs)

LEMMA RLimitIs == RLimit \in Nat
  BY RecipientsAssumption, FS_CardinalityType DEF RLimit

\* Whatever is above an organization is so at most RLimit levels up, be there
\* a cycle or not.
LEMMA WayShortened ==
    ASSUME NEW x \in ONodes, NEW n \in Nat
    PROVE  \E m \in 0..RLimit : Way[x][m] = Way[x][n]
  <1> DEFINE Ways == {m \in Nat : Way[x][m] = Way[x][n]}
  <1>1. PICK m \in Ways : \A k \in Ways : m <= k
    <2>1. Ways \in SUBSET Nat /\ Ways # {}
      OBVIOUS
    <2> HIDE DEF Ways
    <2> QED
      BY <2>1, LeastOf
  <1>2. m \in Nat /\ Way[x][m] = Way[x][n]
    BY <1>1
  <1>3. RLimit \in Nat
    BY RLimitIs
  <1>4. SUFFICES ASSUME RLimit < m PROVE FALSE
    BY <1>2, <1>3
  <1> DEFINE f == [k \in 0..(RLimit + 1) |-> Way[x][k]]
  <1>5. f \in [0..(RLimit + 1) -> ONodes]
    BY WayIs
  <1>6. IsFiniteSet(ONodes) /\ Cardinality(ONodes) = RLimit + 1
    BY RecipientsAssumption, FS_AddElement DEF ONodes, RLimit
  <1>7. IsFiniteSet(0..(RLimit + 1)) /\ Cardinality(0..(RLimit + 1)) = RLimit + 2
    BY <1>3, FS_Interval
  <1>8. PICK a, b \in 0..(RLimit + 1) : a # b /\ f[a] = f[b]
    <2>1. Cardinality(ONodes) < Cardinality(0..(RLimit + 1))
      BY <1>3, <1>6, <1>7
    <2>2. IsFiniteSet(ONodes) /\ IsFiniteSet(0..(RLimit + 1))
      BY <1>6, <1>7
    <2> DEFINE D == 0..(RLimit + 1)
    <2>3. IsFiniteSet(ONodes) /\ IsFiniteSet(D) /\ f \in [D -> ONodes] /\ Cardinality(ONodes) < Cardinality(D)
      BY <1>5, <2>1, <2>2
    <2> HIDE DEF f, D
    <2>4. \E a, b \in D : a # b /\ f[a] = f[b]
      BY <2>3, FS_PigeonHole
    <2> QED
      BY <2>4 DEF D
  <1>9. \E c, d \in 0..(RLimit + 1) : c < d /\ Way[x][c] = Way[x][d]
    <2>1. a < b \/ b < a
      BY <1>8
    <2>2. Way[x][a] = Way[x][b]
      BY <1>8
    <2> QED
      BY <2>1, <2>2
  <1>10. PICK c, d \in 0..(RLimit + 1) : c < d /\ Way[x][c] = Way[x][d]
    BY <1>9
  <1>11. PICK j \in Nat : m = d + j
    <2>1. m - d \in Nat /\ m = d + (m - d)
      BY <1>2, <1>3, <1>4
    <2> QED
      BY <2>1
  <1>12. Way[x][c + j] = Way[x][d + j]
    <2>1. c \in Nat /\ d \in Nat
      OBVIOUS
    <2>2. Way[Way[x][c]][j] = Way[x][c + j]
      BY <2>1, WayOn
    <2>3. Way[Way[x][d]][j] = Way[x][d + j]
      BY <2>1, WayOn
    <2> QED
      BY <1>10, <2>2, <2>3
  <1>13. c + j \in Nat /\ ~(m <= c + j)
    BY <1>10, <1>11
  <1> QED
    BY <1>1, <1>2, <1>11, <1>12, <1>13

\* orgChainCTE: the organization and those above it.
LEMMA ChainOfIs ==
    ASSUME NEW o \in ROrgs
    PROVE  ChainOf(o) = {Way[o][k] : k \in 0..RLimit} \ {NoOrg}
  <1> DEFINE More(S) == {ParentOf[x] : x \in S} \ {NoOrg}
             IsRound(h) == h = [n \in 0..RLimit |-> IF n = 0 THEN {o} ELSE h[n - 1] \cup More(h[n - 1])]
             g == CHOOSE h : IsRound(h)
             At(n) == {Way[o][k] : k \in 0..n} \ {NoOrg}
             f == [n \in 0..RLimit |-> At(n)]
  <1>1. RLimit \in Nat /\ o \in ONodes /\ o # NoOrg
    BY RLimitIs, RecipientsAssumption DEF ONodes
  <1>2. ChainOf(o) = g[RLimit]
    BY DEF ChainOf, RLimit
  <1>3. At(0) = {o}
    <2>1. 0..0 = {0} /\ Way[o][0] = o
      BY <1>1, WayIs
    <2>2. {Way[o][k] : k \in 0..0} = {o}
      BY <2>1
    <2> QED
      BY <1>1, <2>2
  <1>4. ASSUME NEW n \in 1..RLimit PROVE At(n) = At(n - 1) \cup More(At(n - 1))
    <2>1. n \in Nat /\ n - 1 \in Nat /\ (n - 1) + 1 = n
      BY <1>1
    <2>2. ASSUME NEW x \in At(n) PROVE x \in At(n - 1) \cup More(At(n - 1))
      <3>1. PICK k \in 0..n : x = Way[o][k] /\ x # NoOrg
        OBVIOUS
      <3>2. CASE k \in 0..(n - 1)
        BY <3>1, <3>2
      <3>3. CASE k = n
        <4>1. Way[o][n] = ParentOrNone[Way[o][n - 1]] /\ Way[o][n - 1] \in ONodes
          BY <1>1, <2>1, WayIs
        <4>2. Way[o][n - 1] # NoOrg /\ x = ParentOf[Way[o][n - 1]]
          BY <3>1, <3>3, <4>1 DEF ParentOrNone
        <4>3. n - 1 \in 0..(n - 1)
          BY <2>1
        <4>4. Way[o][n - 1] \in At(n - 1)
          BY <4>2, <4>3
        <4> HIDE DEF At
        <4>5. x \in More(At(n - 1))
          BY <3>1, <4>2, <4>4
        <4> QED
          BY <4>5
      <3> QED
        BY <2>1, <3>2, <3>3
    <2>3. ASSUME NEW x \in At(n - 1) PROVE x \in At(n)
      <3>1. 0..(n - 1) \subseteq 0..n
        BY <2>1
      <3> QED
        BY <3>1
    <2>4. ASSUME NEW x \in More(At(n - 1)) PROVE x \in At(n)
      <3>1. PICK y \in At(n - 1) : x = ParentOf[y] /\ x # NoOrg
        <4> HIDE DEF At
        <4> QED
          OBVIOUS
      <3>2. PICK k \in 0..(n - 1) : y = Way[o][k] /\ y # NoOrg
        OBVIOUS
      <3>3. k \in Nat /\ k + 1 \in 0..n
        BY <2>1
      <3>4. Way[o][k + 1] = ParentOrNone[y] /\ y \in ONodes
        BY <1>1, <3>2, <3>3, WayIs
      <3>5. Way[o][k + 1] = x
        BY <3>1, <3>2, <3>4 DEF ParentOrNone
      <3> QED
        BY <3>1, <3>3, <3>5
    <2> HIDE DEF At, More
    <2> QED
      BY <2>2, <2>3, <2>4
  <1> HIDE DEF At, More
  <1>5. \E h : IsRound(h)
    <2>1. ASSUME NEW n \in 0..RLimit PROVE f[n] = IF n = 0 THEN {o} ELSE f[n - 1] \cup More(f[n - 1])
      <3>1. CASE n = 0
        BY <1>3, <3>1
      <3>2. CASE n # 0
        <4>1. n \in 1..RLimit /\ n - 1 \in 0..RLimit
          BY <1>1, <3>2
        <4> QED
          BY <1>4, <3>2, <4>1
      <3> QED
        BY <3>1, <3>2
    <2>2. f = [n \in 0..RLimit |-> f[n]]
      OBVIOUS
    <2> HIDE DEF f
    <2>3. IsRound(f)
      BY <2>1, <2>2
    <2> QED
      BY <2>3
  <1>6. IsRound(g)
    BY <1>5
  <1> HIDE DEF g
  <1>7. \A n \in 0..RLimit : g[n] = IF n = 0 THEN {o} ELSE g[n - 1] \cup More(g[n - 1])
    BY <1>6
  <1> DEFINE Bad == {n \in 0..RLimit : g[n] # At(n)}
  <1>8. Bad = {}
    <2>1. SUFFICES ASSUME Bad # {} PROVE FALSE
      OBVIOUS
    <2>2. PICK n \in Bad : \A m \in Bad : n <= m
      <3>1. Bad \in SUBSET Nat
        OBVIOUS
      <3> HIDE DEF Bad
      <3> QED
        BY <2>1, <3>1, LeastOf
    <2>3. n \in 0..RLimit /\ g[n] # At(n)
      BY <2>2
    <2>4. n # 0
      BY <1>3, <1>7, <2>3
    <2>5. n \in 1..RLimit /\ n - 1 \in 0..RLimit /\ ~(n <= n - 1)
      BY <1>1, <2>3, <2>4
    <2>6. g[n - 1] = At(n - 1)
      BY <2>2, <2>5
    <2> QED
      BY <1>4, <1>7, <2>3, <2>4, <2>5, <2>6
  <1>9. g[RLimit] = At(RLimit)
    <2>1. RLimit \in 0..RLimit
      BY <1>1
    <2> QED
      BY <1>8, <2>1
  <1> QED
    BY <1>2, <1>9 DEF At

\* user_organizations: those at or below some organizations.
LEMMA BranchIs ==
    ASSUME NEW orgs \in SUBSET ROrgs
    PROVE  Branch2(orgs) = {x \in ROrgs : \E k \in 0..RLimit : Way[x][k] \in orgs}
  <1> DEFINE More(S) == {x \in ROrgs : ParentOf[x] \in S}
             IsRound(h) == h = [n \in 0..RLimit |-> IF n = 0 THEN orgs ELSE h[n - 1] \cup More(h[n - 1])]
             g == CHOOSE h : IsRound(h)
             At(n) == {x \in ROrgs : \E k \in 0..n : Way[x][k] \in orgs}
             f == [n \in 0..RLimit |-> At(n)]
  <1>1. RLimit \in Nat /\ ROrgs \subseteq ONodes /\ NoOrg \notin ROrgs
    BY RLimitIs, RecipientsAssumption DEF ONodes
  <1>2. Branch2(orgs) = g[RLimit]
    BY DEF Branch2, RLimit
  <1>3. At(0) = orgs
    <2>1. \A x \in ROrgs : Way[x][0] = x
      BY <1>1, WayIs
    <2>2. 0..0 = {0}
      OBVIOUS
    <2> QED
      BY <2>1, <2>2
  <1>4. ASSUME NEW n \in 1..RLimit PROVE At(n) = At(n - 1) \cup More(At(n - 1))
    <2>1. n \in Nat /\ n - 1 \in Nat /\ (n - 1) + 1 = n
      BY <1>1
    <2>2. ASSUME NEW x \in At(n) PROVE x \in At(n - 1) \cup More(At(n - 1))
      <3>1. PICK k \in 0..n : x \in ROrgs /\ Way[x][k] \in orgs
        OBVIOUS
      <3>2. CASE k \in 0..(n - 1)
        BY <3>1, <3>2
      <3>3. CASE k = n
        <4>1. Way[ParentOf[x]][n - 1] \in orgs /\ ParentOf[x] \in ONodes
          BY <2>1, <3>1, <3>3, WayFromParent
        <4>2. CASE ParentOf[x] = NoOrg
          <5>1. Way[NoOrg][n - 1] = NoOrg
            BY <2>1, NoneAboveNone
          <5> QED
            BY <1>1, <4>1, <4>2, <5>1
        <4>3. CASE ParentOf[x] # NoOrg
          <5>1. ParentOf[x] \in ROrgs /\ n - 1 \in 0..(n - 1)
            BY <2>1, <4>1, <4>3 DEF ONodes
          <5>2. ParentOf[x] \in At(n - 1)
            BY <4>1, <5>1
          <5> HIDE DEF At
          <5>3. x \in More(At(n - 1))
            BY <3>1, <5>2
          <5> QED
            BY <5>3
        <4> QED
          BY <4>2, <4>3
      <3> QED
        BY <2>1, <3>2, <3>3
    <2>3. ASSUME NEW x \in At(n - 1) PROVE x \in At(n)
      <3>1. 0..(n - 1) \subseteq 0..n
        BY <2>1
      <3> QED
        BY <3>1
    <2>4. ASSUME NEW x \in More(At(n - 1)) PROVE x \in At(n)
      <3>1. x \in ROrgs /\ ParentOf[x] \in At(n - 1)
        <4> HIDE DEF At
        <4> QED
          OBVIOUS
      <3>2. PICK k \in 0..(n - 1) : Way[ParentOf[x]][k] \in orgs
        BY <3>1
      <3>3. k \in Nat /\ k + 1 \in 0..n
        BY <2>1
      <3>4. Way[x][k + 1] \in orgs
        BY <3>1, <3>2, <3>3, WayFromParent
      <3> QED
        BY <3>1, <3>3, <3>4
    <2> HIDE DEF At, More
    <2> QED
      BY <2>2, <2>3, <2>4
  <1> HIDE DEF At, More
  <1>5. \E h : IsRound(h)
    <2>1. ASSUME NEW n \in 0..RLimit PROVE f[n] = IF n = 0 THEN orgs ELSE f[n - 1] \cup More(f[n - 1])
      <3>1. CASE n = 0
        BY <1>3, <3>1
      <3>2. CASE n # 0
        <4>1. n \in 1..RLimit /\ n - 1 \in 0..RLimit
          BY <1>1, <3>2
        <4> QED
          BY <1>4, <3>2, <4>1
      <3> QED
        BY <3>1, <3>2
    <2>2. f = [n \in 0..RLimit |-> f[n]]
      OBVIOUS
    <2> HIDE DEF f
    <2>3. IsRound(f)
      BY <2>1, <2>2
    <2> QED
      BY <2>3
  <1>6. IsRound(g)
    BY <1>5
  <1> HIDE DEF g
  <1>7. \A n \in 0..RLimit : g[n] = IF n = 0 THEN orgs ELSE g[n - 1] \cup More(g[n - 1])
    BY <1>6
  <1> DEFINE Bad == {n \in 0..RLimit : g[n] # At(n)}
  <1>8. Bad = {}
    <2>1. SUFFICES ASSUME Bad # {} PROVE FALSE
      OBVIOUS
    <2>2. PICK n \in Bad : \A m \in Bad : n <= m
      <3>1. Bad \in SUBSET Nat
        OBVIOUS
      <3> HIDE DEF Bad
      <3> QED
        BY <2>1, <3>1, LeastOf
    <2>3. n \in 0..RLimit /\ g[n] # At(n)
      BY <2>2
    <2>4. n # 0
      BY <1>3, <1>7, <2>3
    <2>5. n \in 1..RLimit /\ n - 1 \in 0..RLimit /\ ~(n <= n - 1)
      BY <1>1, <2>3, <2>4
    <2>6. g[n - 1] = At(n - 1)
      BY <2>2, <2>5
    <2> QED
      BY <1>4, <1>7, <2>3, <2>4, <2>5, <2>6
  <1>9. g[RLimit] = At(RLimit)
    <2>1. RLimit \in 0..RLimit
      BY <1>1
    <2> QED
      BY <1>8, <2>1
  <1> QED
    BY <1>2, <1>9 DEF At

\* Walking down from the assignments and up from the organization agree.
LEMMA DownIsUp ==
    ASSUME NEW orgs \in SUBSET ROrgs, NEW o \in ROrgs
    PROVE  o \in Branch2(orgs) <=> orgs \cap ChainOf(o) # {}
  <1>1. Branch2(orgs) = {x \in ROrgs : \E k \in 0..RLimit : Way[x][k] \in orgs}
    BY BranchIs
  <1>2. ChainOf(o) = {Way[o][k] : k \in 0..RLimit} \ {NoOrg}
    BY ChainOfIs
  <1>3. NoOrg \notin orgs
    BY RecipientsAssumption
  <1> QED
    BY <1>1, <1>2, <1>3

\* Who is above one above is above.
LEMMA ChainWithin ==
    ASSUME NEW o \in ROrgs, NEW s \in ChainOf(o)
    PROVE  s \in ROrgs /\ ChainOf(s) \subseteq ChainOf(o)
  <1>1. PICK k \in 0..RLimit : s = Way[o][k] /\ s # NoOrg
    BY ChainOfIs
  <1>2. o \in ONodes /\ k \in Nat
    BY RLimitIs DEF ONodes
  <1>3. s \in ROrgs
    BY <1>1, <1>2, WayIs DEF ONodes
  <1>4. ASSUME NEW x \in ChainOf(s) PROVE x \in ChainOf(o)
    <2>1. PICK j \in 0..RLimit : x = Way[s][j] /\ x # NoOrg
      BY <1>3, ChainOfIs
    <2>2. j \in Nat /\ k + j \in Nat
      BY <1>2
    <2>3. x = Way[o][k + j]
      BY <1>1, <1>2, <2>1, <2>2, WayOn
    <2>4. PICK m \in 0..RLimit : Way[o][m] = Way[o][k + j]
      BY <1>2, <2>2, WayShortened
    <2> QED
      BY <2>1, <2>3, <2>4, ChainOfIs
  <1> QED
    BY <1>3, <1>4

-----------------------------------------------------------------------------
(* Recipients: who has access                                              *)

LEMMA AccessIs ==
    ASSUME RecipientsTypeOK, NEW u \in RUsers
    PROVE  NoAccess(u) \in BOOLEAN /\ (NoAccess(u) <=> ~CanViewHost(u))
  <1>1. assigned[u] \in SUBSET ROrgs /\ onHost[u] \in BOOLEAN /\ HostOrg2 \in ROrgs /\ u \notin RContacts
    BY RecipientsAssumption DEF RecipientsTypeOK
  <1>2. CASE role[u] = "super_admin"
    BY <1>1, <1>2 DEF NoAccess, CanViewHost
  <1>3. CASE role[u] = "org_admin"
    <2>1. HostOrg2 \in Branch2(assigned[u]) <=> assigned[u] \cap ChainOf(HostOrg2) # {}
      BY <1>1, DownIsUp
    <2>2. NoAccess(u) = (assigned[u] \cap ChainOf(HostOrg2) = {})
      BY <1>1, <1>3 DEF NoAccess
    <2>3. CanViewHost(u) = (HostOrg2 \in Branch2(assigned[u]))
      BY <1>3 DEF CanViewHost
    <2> QED
      BY <2>1, <2>2, <2>3
  <1>4. CASE role[u] = "operator"
    BY <1>1, <1>4 DEF NoAccess, CanViewHost
  <1>5. CASE role[u] \notin {"super_admin", "org_admin", "operator"}
    BY <1>1, <1>5 DEF NoAccess, CanViewHost
  <1> QED
    BY <1>2, <1>3, <1>4, <1>5

LEMMA ContactHasAccess ==
    ASSUME NEW k \in RContacts
    PROVE  NoAccess(k) = FALSE
  <1>1. k \notin RUsers
    BY RecipientsAssumption
  <1> QED
    BY <1>1 DEF NoAccess

LEMMA CandidatesAre == RecipientsTypeOK => CandidatesSee
  <1> SUFFICES ASSUME RecipientsTypeOK, NEW s \in RScopes, NEW u \in Candidates(s) \cap RUsers,
                      s \in {System, TheHost} \/ s \in ChainOf(HostOrg2)
               PROVE  CanViewHost(u)
    BY DEF CandidatesSee
  <1>1. assigned[u] \in SUBSET ROrgs /\ HostOrg2 \in ROrgs /\ u \notin RContacts
    BY RecipientsAssumption DEF RecipientsTypeOK
  <1>2. CASE role[u] = "super_admin"
    BY <1>2 DEF CanViewHost
  <1>3. CASE s = System
    BY <1>1, <1>2, <1>3 DEF Candidates
  <1>4. CASE s # System /\ role[u] # "super_admin"
    <2> DEFINE o == IF s = TheHost THEN HostOrg2 ELSE s
    <2>1. \/ role[u] = "org_admin" /\ assigned[u] \cap ChainOf(o) # {}
          \/ role[u] = "operator" /\ onHost[u]
      BY <1>1, <1>4 DEF Candidates
    <2>2. ChainOf(o) \subseteq ChainOf(HostOrg2)
      BY <1>1, <1>4, ChainWithin
    <2>3. CASE role[u] = "org_admin" /\ assigned[u] \cap ChainOf(o) # {}
      <3>1. assigned[u] \cap ChainOf(HostOrg2) # {}
        BY <2>2, <2>3
      <3>2. HostOrg2 \in Branch2(assigned[u])
        BY <1>1, <3>1, DownIsUp
      <3> QED
        BY <2>3, <3>2 DEF CanViewHost
    <2>4. CASE role[u] = "operator" /\ onHost[u]
      BY <2>4 DEF CanViewHost
    <2> QED
      BY <2>1, <2>3, <2>4
  <1> QED
    BY <1>2, <1>3, <1>4

-----------------------------------------------------------------------------
(* Recipients: one entry for an address                                    *)

Entries == [address: Addresses, off: BOOLEAN, noAccess: BOOLEAN, source: RScopes, also: Seq(RScopes)]
Sources(e) == {e.source} \cup ToSet(e.also)

LEMMA ListingIs ==
    ASSUME NEW S, NEW seq \in Seq(S), NEW x \in S
    PROVE  Listing(seq, x) \in Seq(S) /\ ToSet(Listing(seq, x)) = ToSet(seq) \cup {x}
  <1>1. CASE \E i \in DOMAIN seq : seq[i] = x
    BY <1>1 DEF Listing, ToSet
  <1>2. CASE ~\E i \in DOMAIN seq : seq[i] = x
    <2> DEFINE t == Append(seq, x)
    <2>1. Listing(seq, x) = t
      BY <1>2 DEF Listing
    <2>2. t \in Seq(S) /\ Len(t) = Len(seq) + 1 /\ t[Len(seq) + 1] = x /\ \A i \in 1..Len(seq) : t[i] = seq[i]
      OBVIOUS
    <2>3. DOMAIN seq = 1..Len(seq) /\ DOMAIN t = 1..(Len(seq) + 1) /\ Len(seq) \in Nat
      BY <2>2
    <2> HIDE DEF t
    <2>4. ASSUME NEW y \in ToSet(t) PROVE y \in ToSet(seq) \cup {x}
      <3>1. PICK i \in DOMAIN t : y = t[i]
        BY DEF ToSet
      <3>2. i \in DOMAIN seq \/ i = Len(seq) + 1
        BY <2>3
      <3> QED
        BY <2>2, <2>3, <3>1, <3>2 DEF ToSet
    <2>5. ASSUME NEW y \in ToSet(seq) \cup {x} PROVE y \in ToSet(t)
      <3>1. CASE y = x
        <4>1. Len(seq) + 1 \in DOMAIN t
          BY <2>3
        <4> QED
          BY <2>2, <3>1, <4>1 DEF ToSet
      <3>2. CASE y \in ToSet(seq)
        <4>1. PICK i \in DOMAIN seq : y = seq[i]
          BY <3>2 DEF ToSet
        <4>2. i \in DOMAIN t /\ t[i] = y
          BY <2>2, <2>3, <4>1
        <4> QED
          BY <4>2 DEF ToSet
      <3> QED
        BY <3>1, <3>2
    <2> QED
      BY <2>1, <2>2, <2>4, <2>5
  <1> QED
    BY <1>1, <1>2

LEMMA MergedIs ==
    ASSUME NEW first \in Entries, NEW r \in Entries, r.also = <<>>
    PROVE  LET m == Merged(first, r) IN
           /\ m \in Entries
           /\ m.address \in {first.address, r.address} /\ m.off \in {first.off, r.off}
           /\ m.noAccess <=> first.noAccess /\ r.noAccess
           /\ Sources(m) = Sources(first) \cup {r.source}
  <1> DEFINE m == Merged(first, r)
  <1>1. first.source \in RScopes /\ r.source \in RScopes /\ first.also \in Seq(RScopes)
    BY DEF Entries
  <1>2. CASE first.noAccess /\ ~r.noAccess
    <2> DEFINE l == Listing(first.also, first.source)
    <2>1. l \in Seq(RScopes) /\ ToSet(l) = ToSet(first.also) \cup {first.source}
      <3> DEFINE seq == first.also
                 x == first.source
      <3>1. seq \in Seq(RScopes) /\ x \in RScopes
        BY <1>1
      <3> HIDE DEF seq, x
      <3>2. Listing(seq, x) \in Seq(RScopes) /\ ToSet(Listing(seq, x)) = ToSet(seq) \cup {x}
        BY <3>1, ListingIs
      <3> QED
        BY <3>2 DEF seq, x
    <2>2. m = [r EXCEPT !.also = l]
      BY <1>2 DEF Merged
    <2> HIDE DEF l
    <2>3. /\ m \in Entries /\ m.address = r.address /\ m.off = r.off /\ m.noAccess = r.noAccess
          /\ m.source = r.source /\ m.also = l
      BY <2>1, <2>2 DEF Entries
    <2> HIDE DEF m
    <2>4. Sources(m) = Sources(first) \cup {r.source}
      BY <2>1, <2>3 DEF Sources
    <2> QED
      BY <1>2, <2>3, <2>4 DEF m
  <1>3. CASE ~(first.noAccess /\ ~r.noAccess) /\ first.source # r.source
    <2> DEFINE l == Listing(first.also, r.source)
    <2>1. l \in Seq(RScopes) /\ ToSet(l) = ToSet(first.also) \cup {r.source}
      <3> DEFINE seq == first.also
                 x == r.source
      <3>1. seq \in Seq(RScopes) /\ x \in RScopes
        BY <1>1
      <3> HIDE DEF seq, x
      <3>2. Listing(seq, x) \in Seq(RScopes) /\ ToSet(Listing(seq, x)) = ToSet(seq) \cup {x}
        BY <3>1, ListingIs
      <3> QED
        BY <3>2 DEF seq, x
    <2>2. m = [first EXCEPT !.also = l]
      BY <1>3 DEF Merged
    <2> HIDE DEF l
    <2>3. /\ m \in Entries /\ m.address = first.address /\ m.off = first.off /\ m.noAccess = first.noAccess
          /\ m.source = first.source /\ m.also = l
      BY <2>1, <2>2 DEF Entries
    <2>4. first.noAccess \in BOOLEAN /\ r.noAccess \in BOOLEAN
      BY DEF Entries
    <2> HIDE DEF m
    <2>5. Sources(m) = Sources(first) \cup {r.source}
      BY <2>1, <2>3 DEF Sources
    <2> QED
      BY <1>3, <2>3, <2>4, <2>5 DEF m
  <1>4. CASE ~(first.noAccess /\ ~r.noAccess) /\ first.source = r.source
    <2>1. m = first
      BY <1>4 DEF Merged
    <2>2. first.noAccess \in BOOLEAN /\ r.noAccess \in BOOLEAN
      BY DEF Entries
    <2>3. Sources(first) = Sources(first) \cup {r.source}
      BY <1>4 DEF Sources
    <2> HIDE DEF m
    <2> QED
      BY <1>4, <2>1, <2>2, <2>3 DEF m
  <1> QED
    BY <1>2, <1>3, <1>4

\* The rows of one address among the first n, and an entry that stands for
\* them.
Group(rows, n, a) == {k \in 1..n : SameAddress(rows[k].address, a)}
Fits(rows, n, e) ==
    LET group == Group(rows, n, e.address) IN
    /\ e.noAccess <=> \A k \in group : rows[k].noAccess
    /\ \E k \in group : e.off = rows[k].off
    /\ Sources(e) = {rows[k].source : k \in group}
Tells(rows, n, out) ==
    /\ out \in Seq(Entries)
    /\ \A i, j \in DOMAIN out : SameAddress(out[i].address, out[j].address) => i = j
    /\ \A k \in 1..n : \E i \in DOMAIN out : SameAddress(out[i].address, rows[k].address)
    /\ \A i \in DOMAIN out : Fits(rows, n, out[i])

LEMMA GroupGrows ==
    ASSUME NEW N \in Nat, NEW rows, NEW n \in 1..N, NEW a
    PROVE  Group(rows, n, a) = Group(rows, n - 1, a) \cup (IF SameAddress(rows[n].address, a) THEN {n} ELSE {})
  <1>1. \A k \in 1..n : k \in 1..(n - 1) \/ k = n
    OBVIOUS
  <1>2. n \in 1..n /\ 1..(n - 1) \subseteq 1..n
    OBVIOUS
  <1> QED
    BY <1>1, <1>2 DEF Group

LEMMA GroupSame ==
    ASSUME NEW rows, NEW n, NEW a, NEW b, SameAddress(a, b)
    PROVE  Group(rows, n, a) = Group(rows, n, b)
  BY DEF Group, SameAddress

LEMMA FitsOther ==
    ASSUME NEW N \in Nat, NEW rows, NEW n \in 1..N, NEW e, Fits(rows, n - 1, e),
           ~SameAddress(rows[n].address, e.address)
    PROVE  Fits(rows, n, e)
  <1>1. Group(rows, n, e.address) = Group(rows, n - 1, e.address)
    <2> DEFINE a == e.address
    <2>1. ~SameAddress(rows[n].address, a)
      OBVIOUS
    <2> HIDE DEF a
    <2>2. Group(rows, n, a) = Group(rows, n - 1, a) \cup {}
      BY <2>1, GroupGrows
    <2> QED
      BY <2>2 DEF a
  <1> QED
    BY <1>1 DEF Fits

LEMMA FitsNew ==
    ASSUME NEW N \in Nat, NEW rows \in [1..N -> Entries], NEW n \in 1..N, rows[n].also = <<>>,
           Group(rows, n - 1, rows[n].address) = {}
    PROVE  Fits(rows, n, rows[n])
  <1>1. Group(rows, n, rows[n].address) = {n}
    <2>1. SameAddress(rows[n].address, rows[n].address)
      BY DEF SameAddress
    <2> QED
      BY <2>1, GroupGrows
  <1>2. ToSet(rows[n].also) = {}
    BY DEF ToSet
  <1>3. Sources(rows[n]) = {rows[n].source}
    BY <1>2 DEF Sources
  <1>4. rows[n].noAccess \in BOOLEAN
    BY DEF Entries
  <1> QED
    BY <1>1, <1>3, <1>4 DEF Fits

LEMMA FitsMerged ==
    ASSUME NEW N \in Nat, NEW rows \in [1..N -> Entries], NEW n \in 1..N, rows[n].also = <<>>,
           NEW e \in Entries, Fits(rows, n - 1, e), SameAddress(rows[n].address, e.address)
    PROVE  /\ Merged(e, rows[n]) \in Entries
           /\ SameAddress(Merged(e, rows[n]).address, e.address)
           /\ Fits(rows, n, Merged(e, rows[n]))
  <1> DEFINE m == Merged(e, rows[n])
             old == Group(rows, n - 1, e.address)
             group == Group(rows, n, e.address)
  <1>1. /\ m \in Entries
        /\ m.address \in {e.address, rows[n].address} /\ m.off \in {e.off, rows[n].off}
        /\ m.noAccess <=> e.noAccess /\ rows[n].noAccess
        /\ Sources(m) = Sources(e) \cup {rows[n].source}
    <2> DEFINE r == rows[n]
    <2>1. r \in Entries /\ r.also = <<>>
      OBVIOUS
    <2> HIDE DEF r
    <2>2. LET mm == Merged(e, r) IN
           /\ mm \in Entries
           /\ mm.address \in {e.address, r.address} /\ mm.off \in {e.off, r.off}
           /\ mm.noAccess <=> e.noAccess /\ r.noAccess
           /\ Sources(mm) = Sources(e) \cup {r.source}
      BY <2>1, MergedIs
    <2> QED
      BY <2>2 DEF r
  <1>2. group = old \cup {n}
    BY GroupGrows
  <1>3. /\ e.noAccess <=> \A k \in old : rows[k].noAccess
        /\ \E k \in old : e.off = rows[k].off
        /\ Sources(e) = {rows[k].source : k \in old}
    BY DEF Fits
  <1> HIDE DEF m, old, group
  <1>4. SameAddress(m.address, e.address)
    BY <1>1 DEF SameAddress
  <1>5. Group(rows, n, m.address) = group
    BY <1>4, GroupSame DEF group
  <1>6. m.noAccess <=> \A k \in group : rows[k].noAccess
    BY <1>1, <1>2, <1>3
  <1>7. \E k \in group : m.off = rows[k].off
    BY <1>1, <1>2, <1>3
  <1>8. Sources(m) = {rows[k].source : k \in group}
    BY <1>1, <1>2, <1>3
  <1>9. Fits(rows, n, m)
    BY <1>5, <1>6, <1>7, <1>8 DEF Fits
  <1> QED
    BY <1>1, <1>4, <1>9 DEF m

\* One row more is joined to what has been told of those before.
LEMMA JoinedTells ==
    ASSUME NEW N \in Nat, NEW rows \in [1..N -> Entries], NEW n \in 1..N, rows[n].also = <<>>,
           NEW out, Tells(rows, n - 1, out)
    PROVE  Tells(rows, n, Joined(out, rows[n]))
  <1> DEFINE r == rows[n]
             at == {i \in DOMAIN out : SameAddress(out[i].address, r.address)}
             new == Joined(out, r)
             L == Len(out)
  <1>1. /\ out \in Seq(Entries) /\ L \in Nat /\ DOMAIN out = 1..L /\ r \in Entries
        /\ \A i \in 1..L : out[i] \in Entries
        /\ \A k \in 1..n : k \in 1..(n - 1) \/ k = n
    BY DEF Tells
  <1>2. /\ \A i, j \in 1..L : SameAddress(out[i].address, out[j].address) => i = j
        /\ \A k \in 1..(n - 1) : \E i \in 1..L : SameAddress(out[i].address, rows[k].address)
        /\ \A i \in 1..L : Fits(rows, n - 1, out[i])
    BY <1>1 DEF Tells
  <1>3. CASE at = {}
    <2>1. new = Append(out, r)
      BY <1>3 DEF Joined
    <2>2. /\ new \in Seq(Entries) /\ Len(new) = L + 1 /\ DOMAIN new = 1..(L + 1)
          /\ new[L + 1] = r /\ \A i \in 1..L : new[i] = out[i]
      BY <1>1, <2>1
    <2>3. \A i \in 1..L : ~SameAddress(out[i].address, r.address)
      BY <1>1, <1>3
    <2> HIDE DEF new, L, at
    <2>4. \A i \in 1..(L + 1) : i \in 1..L \/ i = L + 1
      BY <1>1
    <2>5. Group(rows, n - 1, r.address) = {}
      <3>1. SUFFICES ASSUME NEW k \in 1..(n - 1), SameAddress(rows[k].address, r.address) PROVE FALSE
        BY DEF Group
      <3>2. PICK i \in 1..L : SameAddress(out[i].address, rows[k].address)
        BY <1>2
      <3>3. SameAddress(out[i].address, r.address)
        BY <3>1, <3>2 DEF SameAddress
      <3> QED
        BY <2>3, <3>3
    <2>6. Fits(rows, n, r)
      BY <2>5, FitsNew
    <2>7. ASSUME NEW i \in 1..L PROVE Fits(rows, n, out[i])
      <3>1. ~SameAddress(rows[n].address, out[i].address)
        BY <2>3 DEF SameAddress
      <3> QED
        BY <1>2, <3>1, FitsOther
    <2>8. \A i \in DOMAIN new : Fits(rows, n, new[i])
      <3>1. ASSUME NEW i \in 1..(L + 1) PROVE Fits(rows, n, new[i])
        <4>1. CASE i \in 1..L
          BY <2>2, <2>7, <4>1
        <4>2. CASE i = L + 1
          BY <2>2, <2>6, <4>2
        <4> QED
          BY <2>4, <4>1, <4>2
      <3> QED
        BY <2>2, <3>1
    <2>9. ASSUME NEW i \in DOMAIN new, NEW j \in DOMAIN new, SameAddress(new[i].address, new[j].address) PROVE i = j
      <3>1. i \in 1..L \/ i = L + 1
        BY <2>2, <2>4
      <3>2. j \in 1..L \/ j = L + 1
        BY <2>2, <2>4
      <3>3. CASE i \in 1..L /\ j \in 1..L
        BY <1>2, <2>2, <2>9, <3>3
      <3>4. CASE i \in 1..L /\ j = L + 1
        BY <2>2, <2>3, <2>9, <3>4
      <3>5. CASE i = L + 1 /\ j \in 1..L
        <4>1. SameAddress(out[j].address, r.address)
          BY <2>2, <2>9, <3>5 DEF SameAddress
        <4> QED
          BY <2>3, <3>5, <4>1
      <3> QED
        BY <3>1, <3>2, <3>3, <3>4, <3>5
    <2>10. ASSUME NEW k \in 1..n PROVE \E i \in DOMAIN new : SameAddress(new[i].address, rows[k].address)
      <3>1. CASE k \in 1..(n - 1)
        <4>1. PICK i \in 1..L : SameAddress(out[i].address, rows[k].address)
          BY <1>2, <3>1
        <4>2. i \in DOMAIN new /\ new[i] = out[i]
          BY <1>1, <2>2
        <4> QED
          BY <4>1, <4>2
      <3>2. CASE k = n
        <4>1. L + 1 \in DOMAIN new /\ new[L + 1] = rows[k]
          BY <1>1, <2>2, <3>2
        <4>2. SameAddress(new[L + 1].address, rows[k].address)
          BY <4>1 DEF SameAddress
        <4> QED
          BY <4>1, <4>2
      <3> QED
        BY <1>1, <3>1, <3>2
    <2>11. Tells(rows, n, new)
      BY <2>2, <2>8, <2>9, <2>10 DEF Tells
    <2> QED
      BY <2>11 DEF new
  <1>4. CASE at # {}
    <2> DEFINE c == CHOOSE i \in at : TRUE
    <2>1. c \in at
      BY <1>4
    <2>2. c \in 1..L /\ SameAddress(out[c].address, r.address)
      BY <1>1, <2>1
    <2>3. new = [out EXCEPT ![c] = Merged(out[c], r)]
      BY <1>4 DEF Joined
    <2> HIDE DEF c
    <2>4. /\ Merged(out[c], r) \in Entries
          /\ SameAddress(Merged(out[c], r).address, out[c].address)
          /\ Fits(rows, n, Merged(out[c], r))
      <3>1. SameAddress(rows[n].address, out[c].address)
        BY <2>2 DEF SameAddress
      <3>2. out[c] \in Entries /\ Fits(rows, n - 1, out[c])
        BY <1>1, <1>2, <2>2
      <3> QED
        BY <3>1, <3>2, FitsMerged
    <2>5. /\ new \in Seq(Entries) /\ DOMAIN new = 1..L
          /\ new[c] = Merged(out[c], r) /\ \A i \in 1..L : i # c => new[i] = out[i]
      BY <1>1, <2>2, <2>3, <2>4
    <2> HIDE DEF new, L, at
    <2>6. \A i \in 1..L : SameAddress(new[i].address, out[i].address)
      BY <2>4, <2>5 DEF SameAddress
    <2>7. \A i \in DOMAIN new : Fits(rows, n, new[i])
      <3>1. ASSUME NEW i \in 1..L PROVE Fits(rows, n, new[i])
        <4>1. CASE i = c
          BY <2>4, <2>5, <4>1
        <4>2. CASE i # c
          <5>1. ~SameAddress(rows[n].address, out[i].address)
            <6>1. SUFFICES ASSUME SameAddress(rows[n].address, out[i].address) PROVE FALSE
              OBVIOUS
            <6>2. SameAddress(out[i].address, out[c].address)
              BY <2>2, <6>1 DEF SameAddress
            <6> QED
              BY <1>2, <2>2, <4>2, <6>2
          <5>2. Fits(rows, n, out[i])
            BY <1>2, <5>1, FitsOther
          <5> QED
            BY <2>5, <4>2, <5>2
        <4> QED
          BY <4>1, <4>2
      <3> QED
        BY <2>5, <3>1
    <2>8. ASSUME NEW i \in DOMAIN new, NEW j \in DOMAIN new, SameAddress(new[i].address, new[j].address) PROVE i = j
      <3>1. i \in 1..L /\ j \in 1..L
        BY <2>5
      <3>2. SameAddress(out[i].address, out[j].address)
        BY <2>6, <2>8, <3>1 DEF SameAddress
      <3> QED
        BY <1>2, <3>1, <3>2
    <2>9. ASSUME NEW k \in 1..n PROVE \E i \in DOMAIN new : SameAddress(new[i].address, rows[k].address)
      <3>1. PICK i \in 1..L : SameAddress(out[i].address, rows[k].address)
        <4>1. CASE k \in 1..(n - 1)
          BY <1>2, <4>1
        <4>2. CASE k = n
          BY <2>2, <4>2
        <4> QED
          BY <1>1, <4>1, <4>2
      <3>2. i \in DOMAIN new /\ SameAddress(new[i].address, rows[k].address)
        BY <2>5, <2>6, <3>1 DEF SameAddress
      <3> QED
        BY <3>2
    <2>10. Tells(rows, n, new)
      BY <2>5, <2>7, <2>8, <2>9 DEF Tells
    <2> QED
      BY <2>10 DEF new
  <1> QED
    BY <1>3, <1>4

\* Hence the whole list tells of every row.
LEMMA DeduplicatedTells ==
    ASSUME NEW N \in Nat, NEW rows \in [1..N -> Entries], \A k \in 1..N : rows[k].also = <<>>
    PROVE  Tells(rows, N, Deduplicated(rows))
  <1> DEFINE IsRound(h) == h = [n \in 0..N |-> IF n = 0 THEN <<>> ELSE Joined(h[n - 1], rows[n])]
             g == CHOOSE h : IsRound(h)
             Bad(h) == {n \in 0..N : ~Tells(rows, n, h[n])}
             step == [n \in 1..N |-> [out \in Seq(Entries) |-> IF Tells(rows, n - 1, out) THEN Joined(out, rows[n]) ELSE <<>>]]
  <1>1. Deduplicated(rows) = g[N]
    <2>1. Len(rows) = N
      OBVIOUS
    <2> QED
      BY <2>1 DEF Deduplicated
  <1>2. PICK none \in Seq(Entries) : none = <<>>
    <2>1. <<>> \in Seq(Entries)
      OBVIOUS
    <2> QED
      BY <2>1
  <1>3. Tells(rows, 0, none)
    <2>1. DOMAIN none = {} /\ 1..0 = {}
      BY <1>2
    <2> QED
      BY <1>2, <2>1 DEF Tells
  <1>4. step \in [1..N -> [Seq(Entries) -> Seq(Entries)]]
    <2>1. ASSUME NEW n \in 1..N, NEW out \in Seq(Entries), Tells(rows, n - 1, out)
          PROVE  Joined(out, rows[n]) \in Seq(Entries)
      <3>1. Tells(rows, n, Joined(out, rows[n]))
        BY <2>1, JoinedTells
      <3> QED
        BY <3>1 DEF Tells
    <2> QED
      BY <1>2, <2>1
  <1>5. PICK f : IsFold(f, Seq(Entries), N, step, none)
    <2> HIDE DEF step
    <2> QED
      BY <1>4, FoldExists
  <1>6. f \in [0..N -> Seq(Entries)] /\ f[0] = none /\ \A n \in 1..N : f[n] = step[n][f[n - 1]]
    <2> HIDE DEF step
    <2> QED
      BY <1>5 DEF IsFold
  <1>7. ASSUME NEW h, h[0] = none, \A n \in 1..N : Tells(rows, n - 1, h[n - 1]) => h[n] = Joined(h[n - 1], rows[n])
        PROVE  \A n \in 0..N : Tells(rows, n, h[n])
    <2>1. SUFFICES ASSUME Bad(h) # {} PROVE FALSE
      OBVIOUS
    <2>2. PICK n \in Bad(h) : \A m \in Bad(h) : n <= m
      <3> DEFINE B == Bad(h)
      <3>1. B \in SUBSET Nat /\ B # {}
        BY <2>1
      <3> HIDE DEF B
      <3>2. \E n \in B : \A m \in B : n <= m
        BY <3>1, LeastOf
      <3> QED
        BY <3>2 DEF B
    <2>3. n \in 0..N /\ ~Tells(rows, n, h[n])
      BY <2>2
    <2>4. n # 0
      BY <1>3, <1>7, <2>3
    <2>5. n \in 1..N /\ n - 1 \in 0..N /\ ~(n <= n - 1)
      BY <2>3, <2>4
    <2>6. Tells(rows, n - 1, h[n - 1])
      BY <2>2, <2>5
    <2>7. h[n] = Joined(h[n - 1], rows[n])
      BY <1>7, <2>5, <2>6
    <2>8. Tells(rows, n, Joined(h[n - 1], rows[n]))
      BY <2>5, <2>6, JoinedTells
    <2> QED
      BY <2>3, <2>7, <2>8
  <1>8. IsRound(f)
    <2>1. ASSUME NEW n \in 1..N, Tells(rows, n - 1, f[n - 1]) PROVE f[n] = Joined(f[n - 1], rows[n])
      <3>1. n - 1 \in 0..N
        OBVIOUS
      <3>2. f[n - 1] \in Seq(Entries)
        BY <1>6, <3>1
      <3>3. step[n][f[n - 1]] = Joined(f[n - 1], rows[n])
        BY <2>1, <3>2
      <3> HIDE DEF step
      <3> QED
        BY <1>6, <3>3
    <2> HIDE DEF step
    <2>2. \A n \in 0..N : Tells(rows, n, f[n])
      <3> HIDE DEF Bad
      <3> QED
        BY <1>6, <1>7, <2>1
    <2>3. ASSUME NEW n \in 0..N PROVE f[n] = IF n = 0 THEN <<>> ELSE Joined(f[n - 1], rows[n])
      <3>1. CASE n = 0
        BY <1>2, <1>6, <3>1
      <3>2. CASE n # 0
        <4>1. n \in 1..N /\ n - 1 \in 0..N
          BY <3>2
        <4> QED
          BY <2>1, <2>2, <3>2, <4>1
      <3> QED
        BY <3>1, <3>2
    <2>4. f = [n \in 0..N |-> f[n]]
      BY <1>6
    <2> QED
      BY <2>3, <2>4
  <1> HIDE DEF step
  <1>9. IsRound(g)
    BY <1>8
  <1> HIDE DEF g
  <1>10. g[0] = none /\ \A n \in 1..N : g[n] = Joined(g[n - 1], rows[n])
    <2>1. \A n \in 0..N : g[n] = IF n = 0 THEN <<>> ELSE Joined(g[n - 1], rows[n])
      BY <1>9
    <2>2. 0 \in 0..N /\ \A n \in 1..N : n \in 0..N /\ n # 0
      OBVIOUS
    <2> QED
      BY <1>2, <2>1, <2>2
  <1>11. \A n \in 0..N : Tells(rows, n, g[n])
    <2> HIDE DEF Bad
    <2> QED
      BY <1>7, <1>10
  <1>12. N \in 0..N
    OBVIOUS
  <1> QED
    BY <1>1, <1>11, <1>12

-----------------------------------------------------------------------------
(* Recipients: what the query gives                                        *)

\* A finite set of routes has an order: the least first, then the others.
LEMMA OrdersExist ==
    ASSUME NEW S, IsFiniteSet(S)
    PROVE  Orders(S) # {}
  <1> DEFINE Bad == {n \in Nat : \E T \in SUBSET S : Cardinality(T) = n /\ Orders(T) = {}}
  <1>1. \A T \in SUBSET S : IsFiniteSet(T) /\ Cardinality(T) \in Nat
    BY FS_Subset, FS_CardinalityType
  <1>2. SUFFICES ASSUME Bad # {} PROVE FALSE
    BY <1>1
  <1>3. PICK n \in Bad : \A m \in Bad : n <= m
    <2>1. Bad \in SUBSET Nat
      OBVIOUS
    <2> HIDE DEF Bad
    <2> QED
      BY <1>2, <2>1, LeastOf
  <1>4. PICK T \in SUBSET S : Cardinality(T) = n /\ Orders(T) = {}
    BY <1>3
  <1>5. n \in Nat /\ IsFiniteSet(T)
    BY <1>1, <1>3
  <1>6. n # 0
    <2>1. SUFFICES ASSUME n = 0 PROVE FALSE
      OBVIOUS
    <2>2. T = {}
      BY <1>4, <1>5, <2>1, FS_EmptySet
    <2> DEFINE q == [i \in 1..0 |-> n]
    <2>3. 1..0 = {}
      OBVIOUS
    <2>4. q \in [1..0 -> T] /\ DOMAIN q = {}
      BY <2>3
    <2> HIDE DEF q
    <2>5. q \in Orders(T)
      BY <1>4, <2>1, <2>2, <2>4 DEF Orders
    <2> QED
      BY <1>4, <2>5
  <1> DEFINE Key1(x) == IF x.scope = System THEN 0 ELSE 1
             Key2(x) == IF x.who = namedFirst THEN 0 ELSE 1
             Weight(x) == 2 * Key1(x) + Key2(x)
  <1>7. \A x, y : RouteOrder(x, y) <=> Weight(x) < Weight(y)
    BY DEF RouteOrder
  <1>8. \A x : Weight(x) \in Nat
    OBVIOUS
  <1> HIDE DEF Weight
  <1>9. PICK r \in T : \A t \in T : ~RouteOrder(t, r)
    <2> DEFINE Weights == {Weight(t) : t \in T}
    <2>1. T # {}
      BY <1>4, <1>6, FS_EmptySet
    <2>2. Weights \in SUBSET Nat /\ Weights # {}
      BY <1>8, <2>1
    <2>3. PICK k \in Weights : \A m \in Weights : k <= m
      <3> HIDE DEF Weights
      <3> QED
        BY <2>2, LeastOf
    <2>4. PICK r \in T : k = Weight(r)
      BY <2>3
    <2>5. \A t \in T : Weight(r) <= Weight(t) /\ Weight(r) \in Nat /\ Weight(t) \in Nat
      BY <1>8, <2>3, <2>4
    <2>6. \A t \in T : ~(Weight(t) < Weight(r))
      BY <2>5
    <2> QED
      BY <1>7, <2>6
  <1> DEFINE U == T \ {r}
  <1>10. U \in SUBSET S /\ Cardinality(U) = n - 1 /\ n - 1 \in Nat
    <2>1. Cardinality(T \ {r}) = Cardinality(T) - 1
      BY <1>5, <1>9, FS_RemoveElement
    <2>2. n - 1 \in Nat
      BY <1>5, <1>6
    <2> QED
      BY <1>4, <2>1, <2>2
  <1>11. Orders(U) # {}
    <2>1. ~(n <= n - 1)
      BY <1>5
    <2>2. n - 1 \notin Bad
      BY <1>3, <2>1
    <2> QED
      BY <1>10, <2>2
  <1>12. PICK q \in Orders(U) : TRUE
    BY <1>11
  <1>13. /\ q \in [1..(n - 1) -> U] /\ \A u \in U : \E i \in 1..(n - 1) : q[i] = u
         /\ \A i, j \in 1..(n - 1) : i < j => ~RouteOrder(q[j], q[i])
    BY <1>10, <1>12 DEF Orders
  <1> DEFINE p == [i \in 1..n |-> IF i = 1 THEN r ELSE q[i - 1]]
  <1>14. ASSUME NEW i \in 1..n, i # 1 PROVE i - 1 \in 1..(n - 1) /\ p[i] = q[i - 1] /\ q[i - 1] \in T
    <2>1. i - 1 \in 1..(n - 1)
      BY <1>5, <1>14
    <2> QED
      BY <1>13, <1>14, <2>1
  <1>15. p \in [1..n -> T] /\ p[1] = r /\ 1 \in 1..n
    BY <1>5, <1>6, <1>9, <1>14
  <1>16. ASSUME NEW t \in T PROVE \E i \in 1..n : p[i] = t
    <2>1. CASE t = r
      BY <1>15, <2>1
    <2>2. CASE t # r
      <3>1. PICK i \in 1..(n - 1) : q[i] = t
        BY <1>13, <2>2
      <3>2. i + 1 \in 1..n /\ i + 1 # 1 /\ (i + 1) - 1 = i
        BY <1>5
      <3>3. p[i + 1] = t
        BY <3>1, <3>2
      <3> QED
        BY <3>2, <3>3
    <2> QED
      BY <2>1, <2>2
  <1>17. ASSUME NEW i \in 1..n, NEW j \in 1..n, i < j PROVE ~RouteOrder(p[j], p[i])
    <2>1. j # 1 /\ j - 1 \in 1..(n - 1) /\ p[j] = q[j - 1] /\ q[j - 1] \in T
      <3>1. j # 1
        BY <1>17
      <3> QED
        BY <1>14, <3>1
    <2>2. CASE i = 1
      BY <1>9, <1>15, <2>1, <2>2
    <2>3. CASE i # 1
      <3>1. i - 1 \in 1..(n - 1) /\ p[i] = q[i - 1] /\ i - 1 < j - 1
        BY <1>14, <1>17, <2>3
      <3> HIDE DEF p
      <3> QED
        BY <1>13, <2>1, <3>1
    <2> QED
      BY <2>2, <2>3
  <1> HIDE DEF p
  <1>18. p \in Orders(T)
    BY <1>4, <1>15, <1>16, <1>17 DEF Orders
  <1> QED
    BY <1>4, <1>18

LEMMA MatchingIs ==
    ASSUME RecipientsTypeOK, NEW level \in RLevels
    PROVE  /\ IsFiniteSet(Matching(level))
           /\ \A r \in Matching(level) : r.who \in Who /\ RowOf(r) \in Entries
  <1>1. Matching(level) \subseteq routes
    BY DEF Matching
  <1>2. IsFiniteSet(Matching(level))
    BY <1>1, FS_Subset DEF RecipientsTypeOK
  <1>3. ASSUME NEW r \in Matching(level) PROVE r.who \in Who /\ RowOf(r) \in Entries
    <2>1. r.who \in Who /\ r.scope \in RScopes
      BY <1>1 DEF RecipientsTypeOK
    <2>2. addr[r.who] \in Addresses
      BY <2>1 DEF RecipientsTypeOK, Matching
    <2>3. NoAccess(r.who) \in BOOLEAN
      <3>1. CASE r.who \in RContacts
        BY <3>1, ContactHasAccess
      <3>2. CASE r.who \in RUsers
        BY <3>2, AccessIs
      <3> QED
        BY <2>1, <3>1, <3>2 DEF Who
    <2>4. <<>> \in Seq(RScopes) /\ (channel = "off") \in BOOLEAN
      OBVIOUS
    <2> QED
      BY <2>1, <2>2, <2>3, <2>4 DEF RowOf, Entries
  <1> QED
    BY <1>2, <1>3

\* What the list says of the routes, whatever order they came in.
LEMMA ResolvedIs ==
    ASSUME RecipientsTypeOK, NEW level \in RLevels, NEW all \in ResolveRecipients(level)
    PROVE  /\ \A i, j \in DOMAIN all : SameAddress(all[i].address, all[j].address) => i = j
           /\ \A r \in Matching(level) : \E i \in DOMAIN all : SameAddress(all[i].address, addr[r.who])
           /\ \A i \in DOMAIN all :
                 LET given == {r \in Matching(level) : SameAddress(addr[r.who], all[i].address)} IN
                 /\ all[i].noAccess <=> \A r \in given : NoAccess(r.who)
                 /\ all[i].off <=> channel = "off"
                 /\ Sources(all[i]) = {r.scope : r \in given}
  <1> DEFINE M == Matching(level)
             N == Cardinality(M)
  <1>1. IsFiniteSet(M) /\ N \in Nat /\ \A r \in M : RowOf(r) \in Entries
    BY MatchingIs, FS_CardinalityType
  <1>2. PICK seq \in Orders(M) : all = Deduplicated([i \in 1..N |-> RowOf(seq[i])])
    BY DEF ResolveRecipients
  <1>3. seq \in [1..N -> M] /\ \A r \in M : \E i \in 1..N : seq[i] = r
    BY <1>2 DEF Orders
  <1> DEFINE rows == [i \in 1..N |-> RowOf(seq[i])]
  <1> HIDE DEF M, N
  <1>4. rows \in [1..N -> Entries]
    BY <1>1, <1>3
  <1>5. \A k \in 1..N : /\ rows[k].also = <<>> /\ rows[k].address = addr[seq[k].who] /\ rows[k].noAccess = NoAccess(seq[k].who)
                        /\ rows[k].off = (channel = "off") /\ rows[k].source = seq[k].scope
    BY DEF RowOf
  <1>6. all = Deduplicated(rows)
    BY <1>2
  <1> HIDE DEF rows
  <1>7. Tells(rows, N, all)
    BY <1>1, <1>4, <1>5, <1>6, DeduplicatedTells
  <1>8. \A i, j \in DOMAIN all : SameAddress(all[i].address, all[j].address) => i = j
    BY <1>7 DEF Tells
  <1>9. ASSUME NEW r \in M PROVE \E i \in DOMAIN all : SameAddress(all[i].address, addr[r.who])
    <2>1. PICK k \in 1..N : seq[k] = r
      BY <1>3
    <2>2. rows[k].address = addr[r.who]
      BY <1>5, <2>1
    <2> QED
      BY <1>7, <2>2 DEF Tells
  <1>10. ASSUME NEW i \in DOMAIN all
         PROVE  LET given == {r \in M : SameAddress(addr[r.who], all[i].address)} IN
                /\ all[i].noAccess <=> \A r \in given : NoAccess(r.who)
                /\ all[i].off <=> channel = "off"
                /\ Sources(all[i]) = {r.scope : r \in given}
    <2> DEFINE a == all[i].address
               given == {r \in M : SameAddress(addr[r.who], a)}
               group == Group(rows, N, a)
    <2>1. Fits(rows, N, all[i])
      BY <1>7 DEF Tells
    <2>2. /\ all[i].noAccess <=> \A k \in group : rows[k].noAccess
          /\ \E k \in group : all[i].off = rows[k].off
          /\ Sources(all[i]) = {rows[k].source : k \in group}
      BY <2>1 DEF Fits
    <2>3. ASSUME NEW k \in group PROVE k \in 1..N /\ seq[k] \in given
      <3>1. k \in 1..N /\ SameAddress(rows[k].address, a)
        BY DEF Group
      <3>2. seq[k] \in M /\ rows[k].address = addr[seq[k].who]
        BY <1>3, <1>5, <3>1
      <3> QED
        BY <3>1, <3>2
    <2>4. ASSUME NEW r \in given PROVE \E k \in group : seq[k] = r
      <3>1. PICK k \in 1..N : seq[k] = r
        BY <1>3
      <3>2. rows[k].address = addr[r.who] /\ SameAddress(addr[r.who], a)
        BY <1>5, <3>1
      <3>3. k \in group
        BY <3>2 DEF Group
      <3> QED
        BY <3>1, <3>3
    <2> HIDE DEF given, group
    <2>5. all[i].noAccess <=> \A r \in given : NoAccess(r.who)
      <3>1. ASSUME all[i].noAccess, NEW r \in given PROVE NoAccess(r.who)
        <4>1. PICK k \in group : seq[k] = r
          BY <2>4
        <4>2. rows[k].noAccess /\ rows[k].noAccess = NoAccess(r.who)
          BY <1>5, <2>2, <2>3, <3>1, <4>1
        <4> QED
          BY <4>2
      <3>2. ASSUME \A r \in given : NoAccess(r.who), NEW k \in group PROVE rows[k].noAccess
        <4>1. seq[k] \in given /\ rows[k].noAccess = NoAccess(seq[k].who)
          BY <1>5, <2>3
        <4> QED
          BY <3>2, <4>1
      <3>3. (\A k \in group : rows[k].noAccess) => all[i].noAccess
        BY <2>2
      <3> QED
        BY <3>1, <3>2, <3>3
    <2>6. all[i].off <=> channel = "off"
      BY <1>5, <2>2, <2>3
    <2>7. Sources(all[i]) = {r.scope : r \in given}
      <3>1. ASSUME NEW k \in group PROVE \E r \in given : rows[k].source = r.scope
        BY <1>5, <2>3
      <3>2. ASSUME NEW r \in given PROVE \E k \in group : rows[k].source = r.scope
        <4>1. PICK k \in group : seq[k] = r
          BY <2>4
        <4> QED
          BY <1>5, <2>3, <4>1
      <3> QED
        BY <2>2, <3>1, <3>2
    <2> QED
      BY <2>5, <2>6, <2>7 DEF given, a
  <1> QED
    BY <1>8, <1>9, <1>10 DEF M

LEMMA ReachedAre == RecipientsTypeOK => ReachedExactly
  <1> SUFFICES ASSUME RecipientsTypeOK, NEW level \in RLevels
               PROVE  /\ ResolveRecipients(level) # {}
                      /\ \A all \in ResolveRecipients(level) :
                            LET sent == Deliverable(all)
                                due == {Lower[addr[r.who]] : r \in {x \in Matching(level) : x.who \in RContacts \/ CanViewHost(x.who)}}
                            IN  /\ {Lower[all[i].address] : i \in sent} = IF channel = "on" THEN due ELSE {}
                                /\ \A i, j \in sent : Lower[all[i].address] = Lower[all[j].address] => i = j
    BY DEF ReachedExactly
  <1>1. ResolveRecipients(level) # {}
    <2>1. Orders(Matching(level)) # {}
      BY MatchingIs, OrdersExist
    <2> QED
      BY <2>1 DEF ResolveRecipients
  <1>2. ASSUME NEW all \in ResolveRecipients(level)
        PROVE  LET sent == Deliverable(all)
                   due == {Lower[addr[r.who]] : r \in {x \in Matching(level) : x.who \in RContacts \/ CanViewHost(x.who)}}
               IN  /\ {Lower[all[i].address] : i \in sent} = IF channel = "on" THEN due ELSE {}
                   /\ \A i, j \in sent : Lower[all[i].address] = Lower[all[j].address] => i = j
    <2> DEFINE sent == Deliverable(all)
               seen == {x \in Matching(level) : x.who \in RContacts \/ CanViewHost(x.who)}
               due == {Lower[addr[r.who]] : r \in seen}
    <2>1. sent = {i \in DOMAIN all : ~all[i].noAccess /\ ~all[i].off /\ channel # "unsupported"}
      BY DEF Deliverable
    <2>2. /\ \A i, j \in DOMAIN all : Lower[all[i].address] = Lower[all[j].address] => i = j
          /\ \A r \in Matching(level) : \E i \in DOMAIN all : Lower[all[i].address] = Lower[addr[r.who]]
          /\ \A i \in DOMAIN all :
                /\ all[i].noAccess <=> \A r \in Matching(level) : Lower[addr[r.who]] = Lower[all[i].address] => NoAccess(r.who)
                /\ all[i].off <=> channel = "off"
      BY ResolvedIs DEF SameAddress
    <2>3. \A r \in Matching(level) : (~NoAccess(r.who)) <=> r.who \in RContacts \/ CanViewHost(r.who)
      <3>1. ASSUME NEW r \in Matching(level) PROVE (~NoAccess(r.who)) <=> r.who \in RContacts \/ CanViewHost(r.who)
        <4>1. r.who \in RUsers \cup RContacts
          BY MatchingIs DEF Who
        <4>2. CASE r.who \in RContacts
          BY <4>2, ContactHasAccess
        <4>3. CASE r.who \in RUsers
          <5>1. r.who \notin RContacts
            BY <4>3, RecipientsAssumption
          <5> QED
            BY <4>3, <5>1, AccessIs
        <4> QED
          BY <4>1, <4>2, <4>3
      <3> QED
        BY <3>1
    <2> HIDE DEF sent, due
    <2>4. CASE channel = "on"
      <3>1. ASSUME NEW i \in sent PROVE Lower[all[i].address] \in due
        <4>1. i \in DOMAIN all /\ ~all[i].noAccess
          BY <2>1
        <4>2. PICK r \in Matching(level) : Lower[addr[r.who]] = Lower[all[i].address] /\ ~NoAccess(r.who)
          BY <2>2, <4>1
        <4>3. r \in seen
          BY <2>3, <4>2
        <4> HIDE DEF seen
        <4> QED
          BY <4>2, <4>3 DEF due
      <3>2. ASSUME NEW a \in due PROVE \E i \in sent : a = Lower[all[i].address]
        <4>1. PICK r \in seen : a = Lower[addr[r.who]]
          <5> HIDE DEF seen
          <5> QED
            BY DEF due
        <4>2. r \in Matching(level) /\ ~NoAccess(r.who)
          BY <2>3
        <4>3. PICK i \in DOMAIN all : Lower[all[i].address] = Lower[addr[r.who]]
          BY <2>2, <4>2
        <4>4. ~all[i].noAccess /\ ~all[i].off
          BY <2>2, <2>4, <4>2, <4>3
        <4>5. i \in sent
          BY <2>1, <2>4, <4>4
        <4> QED
          BY <4>1, <4>3, <4>5
      <3>3. {Lower[all[i].address] : i \in sent} = due
        BY <3>1, <3>2
      <3>4. \A i, j \in sent : i \in DOMAIN all /\ j \in DOMAIN all
        BY <2>1
      <3> QED
        BY <2>2, <2>4, <3>3, <3>4 DEF sent, due
    <2>5. CASE channel # "on"
      <3>1. channel \in {"off", "unsupported"}
        BY <2>5 DEF RecipientsTypeOK
      <3>2. sent = {}
        BY <2>1, <2>2, <3>1
      <3> QED
        BY <2>5, <3>2 DEF sent, due
    <2> QED
      BY <2>4, <2>5
  <1> QED
    BY <1>1, <1>2

LEMMA SourcesAre == RecipientsTypeOK => SourcesNamed
  <1> SUFFICES ASSUME RecipientsTypeOK, NEW level \in RLevels, NEW all \in ResolveRecipients(level), NEW i \in DOMAIN all
               PROVE  {all[i].source} \cup ToSet(all[i].also)
                          = {r.scope : r \in {x \in Matching(level) : SameAddress(addr[x.who], all[i].address)}}
    BY DEF SourcesNamed
  <1>1. Sources(all[i]) = {r.scope : r \in {x \in Matching(level) : SameAddress(addr[x.who], all[i].address)}}
    BY ResolvedIs
  <1> QED
    BY <1>1 DEF Sources

LEMMA RecipientsNow == RecipientsTypeOK => RecipientsExact
  <1> SUFFICES ASSUME RecipientsTypeOK PROVE RecipientsExact
    OBVIOUS
  <1>1. AccessAgrees
    BY AccessIs DEF AccessAgrees
  <1> QED
    BY <1>1, ReachedAre, CandidatesAre, SourcesAre DEF RecipientsExact

-----------------------------------------------------------------------------
(* Recipients: the steps                                                   *)

LEMMA RecipientsInitType == RecipientsInit => RecipientsTypeOK
  <1> SUFFICES ASSUME RecipientsInit PROVE RecipientsTypeOK
    OBVIOUS
  <1>1. IsFiniteSet({})
    BY FS_EmptySet
  <1> QED
    BY <1>1 DEF RecipientsInit, RecipientsTypeOK, Roles

LEMMA CreateRouteType ==
    ASSUME RecipientsTypeOK, NEW s \in RScopes, NEW w \in Who, NEW min \in RLevels, CreateRoute(s, w, min)
    PROVE  RecipientsTypeOK'
  <1>1. IsFiniteSet(routes')
    BY FS_AddElement DEF RecipientsTypeOK, CreateRoute
  <1>2. routes' \subseteq [scope: RScopes, who: Who, min: RLevels]
    BY DEF RecipientsTypeOK, CreateRoute
  <1> QED
    BY <1>1, <1>2 DEF RecipientsTypeOK, CreateRoute

LEMMA UpdateRouteType ==
    ASSUME RecipientsTypeOK, NEW r \in routes, NEW min \in RLevels, UpdateRoute(r, min)
    PROVE  RecipientsTypeOK'
  <1> DEFINE new == [r EXCEPT !.min = min]
  <1>1. r \in [scope: RScopes, who: Who, min: RLevels] /\ new \in [scope: RScopes, who: Who, min: RLevels]
    BY DEF RecipientsTypeOK
  <1>2. routes' = (routes \ {r}) \cup {new}
    BY DEF UpdateRoute
  <1> HIDE DEF new
  <1>3. IsFiniteSet(routes \ {r})
    BY FS_Subset DEF RecipientsTypeOK
  <1>4. IsFiniteSet(routes')
    BY <1>2, <1>3, FS_AddElement
  <1>5. routes' \subseteq [scope: RScopes, who: Who, min: RLevels]
    BY <1>1, <1>2 DEF RecipientsTypeOK
  <1> QED
    BY <1>4, <1>5 DEF RecipientsTypeOK, UpdateRoute

\* Routes go and nothing else of the routes changes.
LEMMA FewerRoutes ==
    ASSUME RecipientsTypeOK, routes' \subseteq routes
    PROVE  routes' \subseteq [scope: RScopes, who: Who, min: RLevels] /\ IsFiniteSet(routes')
  BY FS_Subset DEF RecipientsTypeOK

LEMMA PeopleType ==
    ASSUME RecipientsTypeOK, NEW k \in RContacts,
           \/ \E org \in ROrgs \cup {System}, a \in Addresses : CreateContact(k, org, a)
           \/ DeleteContact(k)
           \/ \E a \in Addresses \cup {NoAddress} : UpdateContact(k, a)
    PROVE  RecipientsTypeOK'
  <1>1. CASE \E org \in ROrgs \cup {System}, a \in Addresses : CreateContact(k, org, a)
    BY <1>1 DEF CreateContact, RecipientsTypeOK, Who
  <1>2. CASE DeleteContact(k)
    <2>1. routes' \subseteq routes
      BY <1>2 DEF DeleteContact, Without
    <2>2. routes' \subseteq [scope: RScopes, who: Who, min: RLevels] /\ IsFiniteSet(routes')
      BY <2>1, FewerRoutes
    <2> QED
      BY <1>2, <2>2 DEF DeleteContact, RecipientsTypeOK, Who
  <1>3. CASE \E a \in Addresses \cup {NoAddress} : UpdateContact(k, a)
    BY <1>3 DEF UpdateContact, RecipientsTypeOK, Who
  <1> QED
    BY <1>1, <1>2, <1>3

LEMMA UserType ==
    ASSUME RecipientsTypeOK, NEW u \in RUsers,
           \/ \E newRole \in Roles : ChangeUserRole(u, newRole)
           \/ \E orgs \in SUBSET ROrgs : AssignOrganizations(u, orgs)
           \/ \E host \in BOOLEAN : AssignHost(u, host)
           \/ RemoveUser(u)
    PROVE  RecipientsTypeOK'
  <1>1. CASE \E newRole \in Roles : ChangeUserRole(u, newRole)
    BY <1>1 DEF ChangeUserRole, RecipientsTypeOK
  <1>2. CASE \E orgs \in SUBSET ROrgs : AssignOrganizations(u, orgs)
    BY <1>2 DEF AssignOrganizations, RecipientsTypeOK
  <1>3. CASE \E host \in BOOLEAN : AssignHost(u, host)
    BY <1>3 DEF AssignHost, RecipientsTypeOK
  <1>4. CASE RemoveUser(u)
    <2>1. routes' \subseteq routes
      BY <1>4 DEF RemoveUser, Without
    <2>2. routes' \subseteq [scope: RScopes, who: Who, min: RLevels] /\ IsFiniteSet(routes')
      BY <2>1, FewerRoutes
    <2> QED
      BY <1>4, <2>2 DEF RemoveUser, RecipientsTypeOK, Who
  <1> QED
    BY <1>1, <1>2, <1>3, <1>4

LEMMA RecipientsSteps == RecipientsTypeOK /\ [RecipientsNext]_nvars => RecipientsTypeOK'
  <1> SUFFICES ASSUME RecipientsTypeOK, [RecipientsNext]_nvars PROVE RecipientsTypeOK'
    OBVIOUS
  <1>1. CASE \E s \in RScopes, w \in Who, min \in RLevels : CreateRoute(s, w, min)
    BY <1>1, CreateRouteType
  <1>2. CASE \E r \in routes : \E min \in RLevels : UpdateRoute(r, min)
    BY <1>2, UpdateRouteType
  <1>3. CASE \E r \in routes : DeleteRoute(r)
    <2>1. routes' \subseteq routes
      BY <1>3 DEF DeleteRoute
    <2>2. routes' \subseteq [scope: RScopes, who: Who, min: RLevels] /\ IsFiniteSet(routes')
      BY <2>1, FewerRoutes
    <2> QED
      BY <1>3, <2>2 DEF DeleteRoute, RecipientsTypeOK
  <1>4. CASE \E k \in RContacts : \/ \E org \in ROrgs \cup {System}, a \in Addresses : CreateContact(k, org, a)
                                  \/ DeleteContact(k)
                                  \/ \E a \in Addresses \cup {NoAddress} : UpdateContact(k, a)
    BY <1>4, PeopleType
  <1>5. CASE \E u \in RUsers : \/ \E newRole \in Roles : ChangeUserRole(u, newRole)
                               \/ \E orgs \in SUBSET ROrgs : AssignOrganizations(u, orgs)
                               \/ \E host \in BOOLEAN : AssignHost(u, host)
                               \/ RemoveUser(u)
    BY <1>5, UserType
  <1>6. CASE SwitchChannel
    BY <1>6 DEF SwitchChannel, RecipientsTypeOK
  <1>7. CASE UNCHANGED nvars
    BY <1>7 DEF nvars, RecipientsTypeOK
  <1> QED
    BY <1>1, <1>2, <1>3, <1>4, <1>5, <1>6, <1>7 DEF RecipientsNext

\* Whatever routes, contacts and users come, change and go, and in whatever
\* order the rows come: an alert is sent to exactly the addresses routed for a
\* contact or for a user who can see the host now, once each, the query and
\* the panel agree on who sees the host, nobody is offered as recipient who
\* does not, and the preview names every source (notifications.go,
\* dispatch.go, access.go).
THEOREM RecipientsStand == RecipientsSpec => []RecipientsExact
  <1>1. RecipientsInit => RecipientsTypeOK
    BY RecipientsInitType
  <1>2. RecipientsTypeOK /\ [RecipientsNext]_nvars => RecipientsTypeOK'
    BY RecipientsSteps
  <1>3. RecipientsTypeOK => RecipientsExact
    BY RecipientsNow
  <1> QED
    BY <1>1, <1>2, <1>3, PTL DEF RecipientsSpec
=============================================================================
