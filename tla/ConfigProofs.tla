---------------------------- MODULE ConfigProofs ----------------------------
(***************************************************************************)
(* Proofs about what an operator configures and what follows from it: a    *)
(* recurring window starts on the days its rule names, for any calendar,   *)
(* maintenance that was stopped stays stopped, for any windows, zones and  *)
(* requests, and the open alerts are those the reports and the rules call  *)
(* for, for any mounts and any number of reports.                          *)
(***************************************************************************)
EXTENDS MaintenanceWindows, AlertRules, SequenceTheorems, FiniteSetTheorems, WellFoundedInduction, TLAPS

-----------------------------------------------------------------------------
(* Numbers                                                                 *)

LEMMA LeastOf ==
    ASSUME NEW S \in SUBSET Nat, S # {}
    PROVE  \E m \in S : \A n \in S : m <= n
  <1> DEFINE R == {p \in Nat \X Nat : p[1] < p[2]}
  <1>1. IsWellFoundedOn(R, Nat)
    BY NatLessThanWellFounded DEF OpToRel
  <1>2. PICK m \in S : \A n \in S : ~(<<n, m>> \in R)
    BY <1>1, WFMin
  <1>3. ASSUME NEW n \in S PROVE m <= n
    <2>1. m \in Nat /\ n \in Nat /\ <<n, m>> \in Nat \X Nat
      OBVIOUS
    <2>2. n < m => <<n, m>> \in R
      BY <2>1
    <2> QED
      BY <1>2, <2>1, <2>2
  <1> QED
    BY <1>3

LEMMA GreatestOf ==
    ASSUME NEW S \in SUBSET Nat, S # {}, NEW limit \in Nat, \A n \in S : n <= limit
    PROVE  \E m \in S : \A n \in S : n <= m
  <1> DEFINE T == {limit - n : n \in S}
  <1>1. T \in SUBSET Nat /\ T # {}
    <2>1. \A n \in S : limit - n \in Nat
      OBVIOUS
    <2> QED
      BY <2>1
  <1>2. PICK t \in T : \A n \in T : t <= n
    <2> HIDE DEF T
    <2> QED
      BY <1>1, LeastOf
  <1>3. PICK m \in S : t = limit - m
    BY <1>2
  <1>4. ASSUME NEW n \in S PROVE n <= m
    <2>1. limit - n \in T /\ n \in Nat /\ m \in Nat
      OBVIOUS
    <2>2. t <= limit - n
      BY <1>2, <2>1
    <2> QED
      BY <1>3, <2>1, <2>2
  <1> QED
    BY <1>4

\* Starting at a and taking the same step again and again: a path.
IsPath(P, A, g, a) == P \in [Nat -> A] /\ P[0] = a /\ \A n \in Nat : P[n + 1] = g[P[n]]

LEMMA PathExists ==
    ASSUME NEW A, NEW g \in [A -> A], NEW a \in A
    PROVE  \E P : IsPath(P, A, g, a)
  <1> DEFINE Good(n, P) == P \in [0..n -> A] /\ P[0] = a /\ \A k \in 0..n : k # 0 => P[k] = g[P[k - 1]]
             Bad == {n \in Nat : ~(\E P : Good(n, P))}
  <1>1. Bad = {}
    <2>1. SUFFICES ASSUME Bad # {} PROVE FALSE
      OBVIOUS
    <2>2. PICK n \in Bad : \A m \in Bad : n <= m
      <3>1. Bad \in SUBSET Nat
        OBVIOUS
      <3> HIDE DEF Bad
      <3> QED
        BY <2>1, <3>1, LeastOf
    <2>3. n \in Nat /\ ~(\E P : Good(n, P))
      BY <2>2
    <2>4. n # 0
      <3> DEFINE P == [k \in 0..0 |-> a]
      <3>1. P \in [0..0 -> A] /\ P[0] = a /\ \A k \in 0..0 : k = 0
        OBVIOUS
      <3>2. Good(0, P)
        BY <3>1
      <3> QED
        BY <2>3, <3>2
    <2>5. n - 1 \in Nat /\ \E P : Good(n - 1, P)
      <3>1. n - 1 \in Nat /\ ~(n <= n - 1)
        BY <2>3, <2>4
      <3> QED
        BY <2>2, <3>1
    <2>6. PICK P : Good(n - 1, P)
      BY <2>5
    <2> DEFINE Q == [k \in 0..n |-> IF k = n THEN g[P[n - 1]] ELSE P[k]]
    <2>7. P[n - 1] \in A /\ g[P[n - 1]] \in A
      <3>1. n - 1 \in 0..(n - 1)
        BY <2>5
      <3>2. P[n - 1] \in A
        BY <2>6, <3>1
      <3> QED
        BY <3>2
    <2>8. Q \in [0..n -> A] /\ Q[0] = a
      <3>1. \A k \in 0..n : k # n => k \in 0..(n - 1)
        BY <2>3
      <3>2. 0 \in 0..n /\ 0 # n
        BY <2>3, <2>4
      <3> QED
        BY <2>6, <2>7, <3>1, <3>2
    <2>9. ASSUME NEW k \in 0..n, k # 0 PROVE Q[k] = g[Q[k - 1]]
      <3>1. k - 1 \in 0..n /\ k - 1 # n /\ k - 1 \in 0..(n - 1)
        BY <2>3, <2>9
      <3>2. Q[k - 1] = P[k - 1]
        BY <3>1
      <3>3. CASE k = n
        BY <3>2, <3>3
      <3>4. CASE k # n
        <4>1. k \in 0..(n - 1)
          BY <2>3, <3>4
        <4>2. P[k] = g[P[k - 1]]
          BY <2>6, <2>9, <4>1
        <4> QED
          BY <3>2, <3>4, <4>2
      <3> QED
        BY <3>3, <3>4
    <2>10. Good(n, Q)
      <3> HIDE DEF Q
      <3> QED
        BY <2>8, <2>9
    <2> QED
      BY <2>3, <2>10
  <1>2. ASSUME NEW n \in Nat, NEW P, NEW Q, Good(n, P), Good(n + 1, Q)
        PROVE  Q[n] = P[n]
    <2> DEFINE Differs == {k \in 0..n : Q[k] # P[k]}
    <2>1. Differs = {}
      <3>1. SUFFICES ASSUME Differs # {} PROVE FALSE
        OBVIOUS
      <3>2. PICK k \in Differs : \A m \in Differs : k <= m
        <4>1. Differs \in SUBSET Nat
          OBVIOUS
        <4> HIDE DEF Differs
        <4> QED
          BY <3>1, <4>1, LeastOf
      <3>3. k \in 0..n /\ Q[k] # P[k]
        BY <3>2
      <3>4. k # 0
        BY <1>2, <3>3
      <3>5. k - 1 \in 0..n /\ ~(k <= k - 1) /\ k \in 0..(n + 1)
        BY <3>3, <3>4
      <3>6. Q[k - 1] = P[k - 1]
        BY <3>2, <3>5
      <3>7. P[k] = g[P[k - 1]] /\ Q[k] = g[Q[k - 1]]
        BY <1>2, <3>3, <3>4, <3>5
      <3> QED
        BY <3>3, <3>6, <3>7
    <2>2. n \in 0..n
      OBVIOUS
    <2> QED
      BY <2>1, <2>2
  <1> DEFINE Some(n) == CHOOSE P : Good(n, P)
             path == [n \in Nat |-> Some(n)[n]]
  <1>3. \A n \in Nat : Good(n, Some(n))
    BY <1>1
  <1> HIDE DEF Some, Good
  <1>4. ASSUME NEW n \in Nat PROVE Some(n)[n] \in A
    <2>1. n \in 0..n
      OBVIOUS
    <2> QED
      BY <1>3, <2>1 DEF Good
  <1>5. path \in [Nat -> A]
    BY <1>4
  <1>6. path[0] = a
    <2>1. Some(0)[0] = a
      BY <1>3 DEF Good
    <2> QED
      BY <2>1
  <1>7. ASSUME NEW n \in Nat PROVE path[n + 1] = g[path[n]]
    <2>1. n + 1 \in Nat /\ n + 1 \in 0..(n + 1) /\ n + 1 # 0 /\ (n + 1) - 1 = n
      OBVIOUS
    <2>2. Some(n + 1)[n + 1] = g[Some(n + 1)[n]]
      BY <1>3, <2>1 DEF Good
    <2>3. Some(n + 1)[n] = Some(n)[n]
      BY <1>2, <1>3, <2>1
    <2> QED
      BY <2>1, <2>2, <2>3
  <1> HIDE DEF path
  <1> QED
    BY <1>5, <1>6, <1>7 DEF IsPath

-----------------------------------------------------------------------------
(* Division                                                                *)

LEMMA Mul ==
    ASSUME NEW n \in Nat \ {0}, NEW p \in Int, NEW q \in Int, p < q
    PROVE  n * p + n <= n * q /\ n * p \in Int /\ n * q \in Int
  <1>1. PICK k \in Nat : q = p + 1 + k
    <2>1. q - p - 1 \in Nat /\ q = p + 1 + (q - p - 1)
      OBVIOUS
    <2> QED
      BY <2>1
  <1>2. n * q = n * p + n + n * k /\ n * k \in Nat
    BY <1>1
  <1> QED
    BY <1>2

LEMMA DivMod ==
    ASSUME NEW n \in Nat \ {0}, NEW a \in Int
    PROVE  a \div n \in Int /\ a % n \in 0..(n - 1) /\ n * (a \div n) \in Int /\ a = n * (a \div n) + (a % n)
  OBVIOUS

LEMMA DivIs ==
    ASSUME NEW n \in Nat \ {0}, NEW a \in Int, NEW q \in Int, NEW r \in 0..(n - 1), a = n * q + r
    PROVE  a \div n = q /\ a % n = r
  <1>1. a \div n \in Int /\ a % n \in 0..(n - 1) /\ a = n * (a \div n) + (a % n)
    BY DivMod
  <1>2. ~(a \div n < q)
    BY <1>1, Mul
  <1>3. ~(q < a \div n)
    BY <1>1, Mul
  <1> QED
    BY <1>1, <1>2, <1>3

\* Close together and at the same distance from a multiple: the same.
LEMMA SameRest ==
    ASSUME NEW n \in Nat \ {0}, NEW a \in Int, NEW b \in Int, a % n = b % n, a - b < n, b - a < n
    PROVE  a = b
  <1>1. /\ a \div n \in Int /\ n * (a \div n) \in Int /\ a = n * (a \div n) + (a % n)
        /\ b \div n \in Int /\ n * (b \div n) \in Int /\ b = n * (b \div n) + (b % n)
        /\ a % n \in Int
    BY DivMod
  <1>2. ~(a \div n < b \div n)
    <2>1. SUFFICES ASSUME a \div n < b \div n PROVE FALSE
      OBVIOUS
    <2>2. n * (a \div n) + n <= n * (b \div n)
      BY <1>1, <2>1, Mul
    <2> QED
      BY <1>1, <2>2
  <1>3. ~(b \div n < a \div n)
    <2>1. SUFFICES ASSUME b \div n < a \div n PROVE FALSE
      OBVIOUS
    <2>2. n * (b \div n) + n <= n * (a \div n)
      BY <1>1, <2>1, Mul
    <2> QED
      BY <1>1, <2>2
  <1>4. a \div n = b \div n
    BY <1>1, <1>2, <1>3
  <1> QED
    BY <1>1, <1>4

\* How far it is to the next number with the rest t, and to the last.
LEMMA RestAhead ==
    ASSUME NEW n \in Nat \ {0}, NEW a \in Int, NEW t \in 0..(n - 1)
    PROVE  /\ (t - (a % n) + n) % n \in 0..(n - 1)
           /\ (a + ((t - (a % n) + n) % n)) % n = t
  <1> DEFINE r == a % n
             q == a \div n
             s == (t - r + n) % n
  <1>1. q \in Int /\ r \in 0..(n - 1) /\ n * q \in Int /\ a = n * q + r
    BY DivMod
  <1> HIDE DEF r, q
  <1>2. CASE t >= r
    <2>1. t - r \in 0..(n - 1) /\ t - r + n = n * 1 + (t - r)
      BY <1>1, <1>2
    <2>2. s = t - r
      <3> DEFINE b == t - r + n
                 u == t - r
      <3>1. b \in Int /\ u \in 0..(n - 1) /\ b = n * 1 + u
        BY <2>1, <1>1
      <3> HIDE DEF b, u
      <3>2. b % n = u
        BY <3>1, DivIs
      <3> QED
        BY <3>2 DEF b, u
    <2>3. a + s = n * q + t
      BY <1>1, <2>2
    <2>4. (a + s) % n = t
      <3>1. a + s \in Int
        BY <1>1, <2>2
      <3> HIDE DEF s
      <3> QED
        BY <1>1, <2>3, <3>1, DivIs
    <2> QED
      BY <2>1, <2>2, <2>4 DEF r
  <1>3. CASE t < r
    <2>1. t - r + n \in 0..(n - 1) /\ t - r + n = n * 0 + (t - r + n)
      BY <1>1, <1>3
    <2>2. s = t - r + n
      BY <2>1, DivIs
    <2>3. a + s = n * (q + 1) + t
      BY <1>1, <2>2
    <2>4. (a + s) % n = t
      <3>1. a + s \in Int /\ q + 1 \in Int
        BY <1>1, <2>2
      <3> HIDE DEF s
      <3> QED
        BY <1>1, <2>3, <3>1, DivIs
    <2> QED
      BY <2>1, <2>2, <2>4 DEF r
  <1> QED
    BY <1>1, <1>2, <1>3

LEMMA RestBehind ==
    ASSUME NEW n \in Nat \ {0}, NEW a \in Int, NEW t \in 0..(n - 1)
    PROVE  /\ ((a % n) - t + n) % n \in 0..(n - 1)
           /\ (a - (((a % n) - t + n) % n)) % n = t
  <1> DEFINE r == a % n
             q == a \div n
             s == (r - t + n) % n
  <1>1. q \in Int /\ r \in 0..(n - 1) /\ n * q \in Int /\ a = n * q + r
    BY DivMod
  <1> HIDE DEF r, q
  <1>2. CASE r >= t
    <2>1. r - t \in 0..(n - 1) /\ r - t + n = n * 1 + (r - t)
      BY <1>1, <1>2
    <2>2. s = r - t
      <3> DEFINE b == r - t + n
                 u == r - t
      <3>1. b \in Int /\ u \in 0..(n - 1) /\ b = n * 1 + u
        BY <2>1, <1>1
      <3> HIDE DEF b, u
      <3>2. b % n = u
        BY <3>1, DivIs
      <3> QED
        BY <3>2 DEF b, u
    <2>3. a - s = n * q + t
      BY <1>1, <2>2
    <2>4. (a - s) % n = t
      <3>1. a - s \in Int
        BY <1>1, <2>2
      <3> HIDE DEF s
      <3> QED
        BY <1>1, <2>3, <3>1, DivIs
    <2> QED
      BY <2>1, <2>2, <2>4 DEF r
  <1>3. CASE r < t
    <2>1. r - t + n \in 0..(n - 1) /\ r - t + n = n * 0 + (r - t + n)
      BY <1>1, <1>3
    <2>2. s = r - t + n
      BY <2>1, DivIs
    <2>3. a - s = n * (q - 1) + t
      BY <1>1, <2>2
    <2>4. (a - s) % n = t
      <3>1. a - s \in Int /\ q - 1 \in Int
        BY <1>1, <2>2
      <3> HIDE DEF s
      <3> QED
        BY <1>1, <2>3, <3>1, DivIs
    <2> QED
      BY <2>1, <2>2, <2>4 DEF r
  <1> QED
    BY <1>1, <1>2, <1>3

\* A search that always ends finds what it was told to: s calls itself at
\* go[x] until stop[x], each time nearer by mu.
IsSearch(X, h, mu, go, stop, s) ==
    /\ mu \in [X -> Nat] /\ go \in [X -> X] /\ stop \in [X -> BOOLEAN]
    /\ \A x \in X : ~stop[x] => mu[go[x]] < mu[x] /\ h[go[x]] = h[x]
    /\ \A x \in X : s[x] = IF stop[x] THEN h[x] ELSE s[go[x]]

LEMMA SearchIs ==
    ASSUME NEW X, NEW h, NEW mu, NEW go, NEW stop, NEW s, IsSearch(X, h, mu, go, stop, s)
    PROVE  \A x \in X : s[x] = h[x]
  <1>0. /\ mu \in [X -> Nat] /\ go \in [X -> X] /\ stop \in [X -> BOOLEAN]
        /\ \A x \in X : ~stop[x] => mu[go[x]] < mu[x] /\ h[go[x]] = h[x]
        /\ \A x \in X : s[x] = IF stop[x] THEN h[x] ELSE s[go[x]]
    BY DEF IsSearch
  <1> DEFINE Bad == {mu[x] : x \in {y \in X : s[y] # h[y]}}
  <1>1. SUFFICES ASSUME Bad # {} PROVE FALSE
    OBVIOUS
  <1>2. PICK n \in Bad : \A m \in Bad : n <= m
    <2>1. Bad \in SUBSET Nat
      BY <1>0
    <2> HIDE DEF Bad
    <2> QED
      BY <1>1, <2>1, LeastOf
  <1>3. PICK x \in X : s[x] # h[x] /\ n = mu[x]
    BY <1>2
  <1>4. ~stop[x]
    BY <1>0, <1>3
  <1>5. mu[go[x]] < mu[x] /\ s[go[x]] # h[go[x]] /\ go[x] \in X
    BY <1>0, <1>3, <1>4
  <1>6. mu[go[x]] \in Bad /\ mu[go[x]] \in Nat /\ mu[x] \in Nat
    BY <1>0, <1>5
  <1> HIDE DEF Bad
  <1> QED
    BY <1>2, <1>3, <1>5, <1>6


-----------------------------------------------------------------------------
(* Months                                                                  *)

MonthCount == Len(MonthLens)

LEMMA CalendarNumbers ==
    /\ DayTicks \in Nat \ {0} /\ WeekLen \in Nat \ {0} /\ MaxSpan \in Nat \ {0} /\ MaxEvery \in Nat \ {0}
    /\ CalendarDays \in Nat \ {0}
    /\ MonthCount \in Nat \ {0} /\ DOMAIN MonthLens = 1..MonthCount
    /\ \A i \in 1..MonthCount : MonthLens[i] \in Nat /\ MonthLens[i] >= WeekLen
    /\ NoField \notin Int /\ NoDay \notin Int
  BY CalendarAssumption, EmptySeq DEF MonthCount

LEMMA MonthLenIs ==
    ASSUME NEW m \in Nat
    PROVE  MonthLen(m) \in Nat /\ MonthLen(m) >= WeekLen /\ \E i \in 1..MonthCount : MonthLen(m) = MonthLens[i]
  <1>1. MonthCount \in Nat \ {0} /\ m \in Int
    BY CalendarNumbers
  <1> DEFINE i == (m % MonthCount) + 1
  <1>2. i \in 1..MonthCount
    BY <1>1, DivMod
  <1>3. MonthLen(m) = MonthLens[i]
    BY DEF MonthLen, MonthCount
  <1> HIDE DEF i
  <1> QED
    BY <1>2, <1>3, CalendarNumbers

LEMMA ShortestIs ==
    /\ ShortestMonth \in Nat /\ ShortestMonth >= WeekLen
    /\ \A m \in Nat : ShortestMonth <= MonthLen(m)
  <1> DEFINE S == {MonthLens[i] : i \in 1..MonthCount}
  <1>1. S \in SUBSET Nat /\ \A x \in S : x >= WeekLen
    BY CalendarNumbers
  <1>2. S # {}
    <2>1. 1 \in 1..MonthCount
      BY CalendarNumbers
    <2> QED
      BY <2>1
  <1>3. \A m \in Nat : MonthLen(m) \in S
    BY MonthLenIs
  <1>4. ShortestMonth = Min(S)
    BY CalendarNumbers DEF ShortestMonth
  <1> HIDE DEF S
  <1>5. \E x \in S : \A y \in S : x <= y
    BY <1>1, <1>2, LeastOf
  <1>6. Min(S) \in S /\ \A y \in S : Min(S) <= y
    BY <1>5 DEF Min
  <1> QED
    BY <1>1, <1>3, <1>4, <1>6

LEMMA FirstOfIs ==
    /\ FirstOf \in [Nat -> Nat]
    /\ FirstOf[0] = 0
    /\ \A m \in Nat : FirstOf[m + 1] = FirstOf[m] + MonthLen(m)
  <1> DEFINE A == Nat \X Nat
             g == [p \in A |-> <<p[1] + 1, p[2] + MonthLen(p[1])>>]
             a == <<0, 0>>
  <1>1. g \in [A -> A] /\ a \in A
    BY MonthLenIs
  <1>2. \A p \in A : g[p][1] = p[1] + 1 /\ g[p][2] = p[2] + MonthLen(p[1]) /\ p[1] \in Nat /\ p[2] \in Nat
    OBVIOUS
  <1>3. a[1] = 0 /\ a[2] = 0
    OBVIOUS
  <1> HIDE DEF A, g, a
  <1>4. PICK P : IsPath(P, A, g, a)
    BY <1>1, PathExists
  <1>5. P \in [Nat -> A] /\ P[0] = a /\ \A n \in Nat : P[n + 1] = g[P[n]]
    BY <1>4 DEF IsPath
  <1> DEFINE Bad == {n \in Nat : P[n][1] # n}
  <1>6. Bad = {}
    <2>1. SUFFICES ASSUME Bad # {} PROVE FALSE
      OBVIOUS
    <2>2. PICK n \in Bad : \A m \in Bad : n <= m
      <3>1. Bad \in SUBSET Nat
        OBVIOUS
      <3> HIDE DEF Bad
      <3> QED
        BY <2>1, <3>1, LeastOf
    <2>3. n \in Nat /\ P[n][1] # n
      BY <2>2
    <2>4. n # 0
      BY <1>3, <1>5, <2>3
    <2>5. PICK k \in Nat : n = k + 1
      <3>1. n - 1 \in Nat /\ n = (n - 1) + 1
        BY <2>3, <2>4
      <3> QED
        BY <3>1
    <2>6. P[k][1] = k
      <3>1. ~(n <= k)
        BY <2>5
      <3> QED
        BY <2>2, <3>1
    <2>7. P[k + 1][1] = P[k][1] + 1
      BY <1>2, <1>5
    <2> QED
      BY <2>3, <2>5, <2>6, <2>7
  <1> DEFINE F == [m \in Nat |-> P[m][2]]
  <1>7. ASSUME NEW m \in Nat PROVE F[m + 1] = F[m] + MonthLen(m) /\ F[m] \in Nat
    <2>1. P[m] \in A /\ P[m][1] = m /\ m + 1 \in Nat
      BY <1>5, <1>6
    <2>2. P[m + 1][2] = P[m][2] + MonthLen(m)
      BY <1>2, <1>5, <2>1
    <2> QED
      BY <1>2, <2>1, <2>2
  <1>8. F[0] = 0 /\ F \in [Nat -> Nat]
    BY <1>3, <1>5, <1>7
  <1> DEFINE Solves(f) == f = [m \in Nat |-> IF m = 0 THEN 0 ELSE f[m - 1] + MonthLen(m - 1)]
  <1>9. Solves(F)
    <2>1. ASSUME NEW m \in Nat PROVE F[m] = IF m = 0 THEN 0 ELSE F[m - 1] + MonthLen(m - 1)
      <3>1. CASE m = 0
        BY <1>8, <3>1
      <3>2. CASE m # 0
        <4>1. PICK k \in Nat : k = m - 1 /\ m = k + 1
          <5>1. m - 1 \in Nat /\ m = (m - 1) + 1
            BY <3>2
          <5> QED
            BY <5>1
        <4>2. F[k + 1] = F[k] + MonthLen(k)
          BY <1>7
        <4> HIDE DEF F
        <4> QED
          BY <3>2, <4>1, <4>2
      <3> QED
        BY <3>1, <3>2
    <2> QED
      BY <2>1
  <1>10. FirstOf = CHOOSE f : Solves(f)
    BY DEF FirstOf
  <1> HIDE DEF F
  <1>11. Solves(FirstOf)
    <2> HIDE DEF Solves
    <2> QED
      BY <1>9, <1>10
  <1>12. FirstOf = [m \in Nat |-> IF m = 0 THEN 0 ELSE FirstOf[m - 1] + MonthLen(m - 1)]
    BY <1>11
  <1>13. FirstOf[0] = 0 /\ DOMAIN FirstOf = Nat
    BY <1>12
  <1>14. ASSUME NEW m \in Nat PROVE FirstOf[m + 1] = FirstOf[m] + MonthLen(m)
    <2>1. m + 1 \in Nat /\ m + 1 # 0 /\ (m + 1) - 1 = m
      OBVIOUS
    <2>2. FirstOf[m + 1] = FirstOf[(m + 1) - 1] + MonthLen((m + 1) - 1)
      BY <1>12, <2>1
    <2> QED
      BY <2>1, <2>2
  <1> DEFINE Odd == {n \in Nat : FirstOf[n] \notin Nat}
  <1>15. Odd = {}
    <2>1. SUFFICES ASSUME Odd # {} PROVE FALSE
      OBVIOUS
    <2>2. PICK n \in Odd : \A m \in Odd : n <= m
      <3>1. Odd \in SUBSET Nat
        OBVIOUS
      <3> HIDE DEF Odd
      <3> QED
        BY <2>1, <3>1, LeastOf
    <2>3. n \in Nat /\ FirstOf[n] \notin Nat
      BY <2>2
    <2>4. n # 0
      BY <1>13, <2>3
    <2>5. PICK k \in Nat : n = k + 1
      <3>1. n - 1 \in Nat /\ n = (n - 1) + 1
        BY <2>3, <2>4
      <3> QED
        BY <3>1
    <2>6. FirstOf[k] \in Nat
      <3>1. ~(n <= k)
        BY <2>5
      <3> QED
        BY <2>2, <3>1
    <2> QED
      BY SMTT(30), <1>14, <2>3, <2>5, <2>6, MonthLenIs
  <1>16. FirstOf \in [Nat -> Nat]
    BY <1>12, <1>13, <1>15
  <1> QED
    BY <1>13, <1>14, <1>16

LEMMA MonthBounds ==
    ASSUME NEW m \in Nat
    PROVE  /\ FirstOf[m] \in Nat /\ MonthLen(m) \in Nat /\ MonthLen(m) >= 1
           /\ LastOf(m) \in Nat /\ LastOf(m) = FirstOf[m] + MonthLen(m) - 1
  <1>1. FirstOf[m] \in Nat
    BY FirstOfIs
  <1>2. MonthLen(m) \in Nat /\ MonthLen(m) >= WeekLen /\ WeekLen \in Nat \ {0}
    BY MonthLenIs, CalendarNumbers
  <1> DEFINE k == MonthLen(m)
             f == FirstOf[m]
  <1>3. LastOf(m) = f + k - 1
    BY DEF LastOf
  <1>4. k \in Nat /\ k >= 1 /\ f \in Nat
    BY <1>1, <1>2
  <1> HIDE DEF k, f
  <1>5. f + k - 1 \in Nat
    BY <1>4
  <1> QED
    BY <1>3, <1>4, <1>5 DEF k, f

\* A later month begins after the last day of an earlier one.
LEMMA MonthsApart ==
    ASSUME NEW m \in Nat, NEW n \in Nat, m < n
    PROVE  LastOf(m) < FirstOf[n] /\ FirstOf[n] >= n
  <1> DEFINE Bad == {k \in Nat : ~(LastOf(m) < FirstOf[m + 1 + k])}
             Low == {k \in Nat : ~(FirstOf[k] >= k)}
  <1>1. \A k \in Nat : FirstOf[k] \in Nat /\ MonthLen(k) \in Nat /\ MonthLen(k) >= 1
    BY MonthBounds
  <1>2. Bad = {}
    <2>1. SUFFICES ASSUME Bad # {} PROVE FALSE
      OBVIOUS
    <2>2. PICK k \in Bad : \A j \in Bad : k <= j
      <3>1. Bad \in SUBSET Nat
        OBVIOUS
      <3> HIDE DEF Bad
      <3> QED
        BY <2>1, <3>1, LeastOf
    <2>3. k \in Nat /\ ~(LastOf(m) < FirstOf[m + 1 + k])
      BY <2>2
    <2>4. k # 0
      BY <1>1, <2>3, FirstOfIs DEF LastOf
    <2>5. PICK j \in Nat : k = j + 1
      <3>1. k - 1 \in Nat /\ k = (k - 1) + 1
        BY <2>3, <2>4
      <3> QED
        BY <3>1
    <2>6. LastOf(m) < FirstOf[m + 1 + j]
      <3>1. ~(k <= j)
        BY <2>5
      <3> QED
        BY <2>2, <3>1
    <2>7. m + 1 + j \in Nat /\ m + 1 + k = (m + 1 + j) + 1
      BY <2>5
    <2>8. FirstOf[m + 1 + k] = FirstOf[m + 1 + j] + MonthLen(m + 1 + j)
      BY <2>7, FirstOfIs
    <2> QED
      BY <1>1, <2>3, <2>6, <2>7, <2>8 DEF LastOf
  <1>3. Low = {}
    <2>1. SUFFICES ASSUME Low # {} PROVE FALSE
      OBVIOUS
    <2>2. PICK k \in Low : \A j \in Low : k <= j
      <3>1. Low \in SUBSET Nat
        OBVIOUS
      <3> HIDE DEF Low
      <3> QED
        BY <2>1, <3>1, LeastOf
    <2>3. k \in Nat /\ ~(FirstOf[k] >= k)
      BY <2>2
    <2>4. k # 0
      BY <1>1, <2>3, FirstOfIs
    <2>5. PICK j \in Nat : k = j + 1
      <3>1. k - 1 \in Nat /\ k = (k - 1) + 1
        BY <2>3, <2>4
      <3> QED
        BY <3>1
    <2>6. FirstOf[j] >= j
      <3>1. ~(k <= j)
        BY <2>5
      <3> QED
        BY <2>2, <3>1
    <2> QED
      BY <1>1, <2>3, <2>5, <2>6, FirstOfIs
  <1>4. n - (m + 1) \in Nat /\ m + 1 + (n - (m + 1)) = n
    OBVIOUS
  <1> QED
    BY <1>2, <1>3, <1>4

InMonth(m, d) == FirstOf[m] <= d /\ d <= LastOf(m)

LEMMA OneMonth ==
    ASSUME NEW m \in Nat, NEW n \in Nat, NEW d \in Nat, InMonth(m, d), InMonth(n, d)
    PROVE  m = n
  <1>1. FirstOf[m] \in Nat /\ FirstOf[n] \in Nat /\ LastOf(m) \in Int /\ LastOf(n) \in Int
    BY MonthBounds
  <1> QED
    BY <1>1, MonthsApart DEF InMonth

LEMMA MonthOfIs ==
    ASSUME NEW d \in Nat
    PROVE  MonthOf(d) \in Nat /\ InMonth(MonthOf(d), d)
  <1> DEFINE S == {m \in Nat : FirstOf[m] <= d}
  <1>1. S \in SUBSET Nat /\ S # {}
    BY FirstOfIs
  <1>2. ASSUME NEW m \in S PROVE m <= d
    <2>1. m = 0 \/ FirstOf[m] >= m
      BY MonthsApart
    <2> QED
      BY <2>1, FirstOfIs
  <1>3. PICK m \in S : \A n \in S : n <= m
    <2> HIDE DEF S
    <2> QED
      BY <1>1, <1>2, GreatestOf
  <1>4. m \in Nat /\ m + 1 \in Nat /\ FirstOf[m] <= d
    BY <1>3
  <1>5. ~(FirstOf[m + 1] <= d)
    <2>1. m + 1 \notin S
      BY <1>3, <1>4
    <2> QED
      BY <1>4, <2>1
  <1>6. m \in 0..d /\ InMonth(m, d)
    BY <1>2, <1>3, <1>4, <1>5, FirstOfIs, MonthLenIs DEF InMonth, LastOf
  <1> QED
    BY <1>6 DEF MonthOf, InMonth

\* The month of a day is the one it lies in.
LEMMA MonthOfDay ==
    ASSUME NEW m \in Nat, NEW d \in Nat, InMonth(m, d)
    PROVE  MonthOf(d) = m
  BY MonthOfIs, OneMonth

LEMMA MonthsFollow ==
    ASSUME NEW d \in Nat, NEW e \in Nat, d <= e
    PROVE  MonthOf(d) <= MonthOf(e)
  <1> DEFINE m == MonthOf(d)
             n == MonthOf(e)
  <1>1. m \in Nat /\ n \in Nat /\ InMonth(m, d) /\ InMonth(n, e)
    BY MonthOfIs
  <1>2. FirstOf[m] \in Nat /\ LastOf(n) \in Int
    BY <1>1, MonthBounds
  <1> HIDE DEF m, n
  <1>3. SUFFICES ASSUME n < m PROVE FALSE
    BY <1>1 DEF m, n
  <1>4. LastOf(n) < FirstOf[m]
    BY <1>1, <1>3, MonthsApart
  <1> QED
    BY <1>1, <1>2, <1>4 DEF InMonth

LEMMA Shift ==
    ASSUME NEW n \in Nat \ {0}, NEW a \in Int, NEW j \in Int
    PROVE  n * j \in Int /\ (a + n * j) % n = a % n /\ (a + n * j) \div n = (a \div n) + j
  <1> DEFINE q == a \div n
             r == a % n
             b == a + n * j
             p == q + j
  <1>1. q \in Int /\ r \in 0..(n - 1) /\ n * q \in Int /\ a = n * q + r
    BY DivMod
  <1> HIDE DEF q, r
  <1>2. n * j \in Int /\ b \in Int /\ p \in Int
    BY <1>1
  <1>3. b = n * p + r
    BY <1>1
  <1> HIDE DEF b, p
  <1>4. b \div n = p /\ b % n = r
    BY <1>1, <1>2, <1>3, DivIs
  <1> QED
    BY <1>2, <1>4 DEF b, p, q, r

-----------------------------------------------------------------------------
(* The day of a month a window names                                       *)

IsWindow(w) == w \in RecurringWindows(1..(MaxSpan * DayTicks), Nat, Nat) /\ Validate(w)

LEMMA WindowIs ==
    ASSUME NEW w, IsWindow(w)
    PROVE  /\ w.kind \in {"daily", "weekly", "monthly"}
           /\ w.minute \in 0..(DayTicks - 1) /\ w.minute \in Nat
           /\ w.every \in Nat \ {0} /\ w.from \in Nat
           /\ w.until = NoField \/ w.until \in Nat
           /\ w.dur \in Nat \ {0} /\ w.dur <= MaxSpan * DayTicks
           /\ w.kind = "weekly" => w.days \subseteq 1..WeekLen /\ w.days # {}
           /\ w.kind = "monthly" => ValidMonth(w)
  <1>1. /\ w.kind \in {"daily", "weekly", "monthly"} /\ w.minute \in 0..(DayTicks - 1)
        /\ w.every \in 1..MaxEvery /\ w.from \in Nat /\ w.until \in {NoField} \cup Nat
        /\ w.days \in {NoField} \cup SUBSET (1..WeekLen) /\ w.dur \in 1..(MaxSpan * DayTicks)
    BY DEF IsWindow, RecurringWindows
  <1>2. ValidRecurring(w)
    BY <1>1 DEF IsWindow, Validate
  <1>3. /\ w.kind = "weekly" => w.days # NoField /\ w.days # {}
        /\ w.kind = "monthly" => ValidMonth(w)
    BY <1>2 DEF ValidRecurring
  <1>4. w.every \in Nat \ {0} /\ w.minute \in Nat
    BY <1>1, CalendarNumbers
  <1>5. w.dur \in Nat \ {0} /\ w.dur <= MaxSpan * DayTicks
    <2>1. MaxSpan * DayTicks \in Int
      BY CalendarNumbers
    <2> QED
      BY <1>1, <2>1
  <1> QED
    BY <1>1, <1>3, <1>4, <1>5

OnlyDay(w, m, c) == InMonth(m, c) /\ \A d \in Nat : InMonth(m, d) => (MonthRule(w, m, d) <=> d = c)

LEMMA DayOfMonth ==
    ASSUME NEW w, ValidMonth(w), w.mday # NoField, NEW m \in Nat
    PROVE  MonthDay(w, m) \in Nat /\ OnlyDay(w, m, MonthDay(w, m))
  <1> DEFINE f == FirstOf[m]
             k == MonthLen(m)
             l == LastOf(m)
  <1>1. f \in Nat /\ k \in Nat /\ k >= 1 /\ l \in Nat /\ l = f + k - 1 /\ ShortestMonth \in Nat /\ ShortestMonth <= k
    BY MonthBounds, ShortestIs
  <1>2. w.mday \in {MonthLast} \cup 1..ShortestMonth /\ MonthLast = -1
    BY DEF ValidMonth, MonthLast
  <1>3. \A d : InMonth(m, d) <=> f <= d /\ d <= l
    BY DEF InMonth
  <1>4. \A d : MonthRule(w, m, d) <=> d - f + 1 = IF w.mday = MonthLast THEN k ELSE w.mday
    BY DEF MonthRule
  <1>5. MonthDay(w, m) = IF w.mday = MonthLast THEN l ELSE f + w.mday - 1
    BY DEF MonthDay
  <1> HIDE DEF f, k, l
  <1>6. CASE w.mday = MonthLast
    <2>1. MonthDay(w, m) = l
      BY <1>5, <1>6
    <2>2. \A d \in Nat : MonthRule(w, m, d) <=> d = l
      BY <1>1, <1>4, <1>6
    <2> QED
      BY <1>1, <1>3, <2>1, <2>2 DEF OnlyDay
  <1>7. CASE w.mday # MonthLast
    <2> DEFINE c == f + w.mday - 1
    <2>1. MonthDay(w, m) = c
      BY <1>5, <1>7
    <2>2. w.mday \in 1..ShortestMonth
      BY <1>2, <1>7
    <2>3. c \in Nat /\ f <= c /\ c <= l
      BY <1>1, <2>2
    <2>4. \A d \in Nat : MonthRule(w, m, d) <=> d = c
      BY <1>1, <1>4, <1>7, <2>2
    <2> HIDE DEF c
    <2> QED
      BY <1>3, <2>1, <2>3, <2>4 DEF OnlyDay
  <1> QED
    BY <1>6, <1>7

LEMMA LastWeekday ==
    ASSUME NEW w, ValidMonth(w), w.mday = NoField, w.mweek = MonthLast, NEW m \in Nat
    PROVE  MonthDay(w, m) \in Nat /\ OnlyDay(w, m, MonthDay(w, m))
  <1> DEFINE f == FirstOf[m]
             k == MonthLen(m)
             l == LastOf(m)
             t == w.mwd - 1
             s == ((l % WeekLen) - t + WeekLen) % WeekLen
             c == l - s
  <1>1. f \in Nat /\ k \in Nat /\ l \in Nat /\ l = f + k - 1 /\ k >= WeekLen /\ WeekLen \in Nat \ {0}
    BY MonthBounds, MonthLenIs, CalendarNumbers
  <1>2. w.mwd \in 1..WeekLen /\ MonthLast = -1 /\ NoField \notin Int
    BY CalendarNumbers DEF ValidMonth, MonthLast
  <1>3. t \in 0..(WeekLen - 1) /\ t \in Int /\ w.mwd = t + 1
    BY <1>1, <1>2
  <1>4. \A d : InMonth(m, d) <=> f <= d /\ d <= l
    BY DEF InMonth
  <1>5. \A d \in Nat : MonthRule(w, m, d) <=> (d % WeekLen) + 1 = w.mwd /\ d + WeekLen > l
    BY DEF MonthRule, IsoWeekday
  <1>6. MonthDay(w, m) = l - ((((l % WeekLen) + 1) - w.mwd + WeekLen) % WeekLen)
    BY <1>2 DEF MonthDay, IsoWeekday
  <1>7. ((l % WeekLen) + 1) - w.mwd + WeekLen = (l % WeekLen) - t + WeekLen
    <2>1. l % WeekLen \in Int
      BY <1>1, DivMod
    <2> HIDE DEF t
    <2> QED
      BY <1>1, <1>3, <2>1
  <1>8. MonthDay(w, m) = c
    BY <1>6, <1>7
  <1> HIDE DEF f, k, l, t
  <1>9. s \in 0..(WeekLen - 1) /\ (l - s) % WeekLen = t
    <2>1. l \in Int
      BY <1>1
    <2> QED
      BY <1>1, <1>3, <2>1, RestBehind, Zenon
  <1> HIDE DEF s
  <1>10. c \in Nat /\ f <= c /\ c <= l /\ c + WeekLen > l /\ c % WeekLen = t
    BY <1>1, <1>9
  <1> HIDE DEF c
  <1>11. ASSUME NEW d \in Nat, f <= d, d <= l
         PROVE  MonthRule(w, m, d) <=> d = c
    <2>1. d % WeekLen \in Int
      BY <1>1, DivMod
    <2>2. ASSUME d = c PROVE MonthRule(w, m, d)
      BY <1>3, <1>5, <1>10, <2>2
    <2>3. ASSUME MonthRule(w, m, d) PROVE d = c
      <3>1. d % WeekLen = c % WeekLen /\ d + WeekLen > l
        BY <1>3, <1>5, <1>10, <2>1, <2>3
      <3>2. d - c < WeekLen /\ c - d < WeekLen
        BY <1>1, <1>10, <1>11, <3>1
      <3>3. d \in Int /\ c \in Int
        BY <1>10
      <3> QED
        BY <1>1, <3>1, <3>2, <3>3, SameRest
    <2> QED
      BY <2>2, <2>3
  <1> QED
    BY <1>4, <1>8, <1>10, <1>11 DEF OnlyDay

LEMMA NthWeekday ==
    ASSUME NEW w, ValidMonth(w), w.mday = NoField, w.mweek # MonthLast, NEW m \in Nat
    PROVE  MonthDay(w, m) \in Nat /\ OnlyDay(w, m, MonthDay(w, m))
  <1> DEFINE f == FirstOf[m]
             k == MonthLen(m)
             l == LastOf(m)
             t == w.mwd - 1
             j == w.mweek - 1
             s == (t - (f % WeekLen) + WeekLen) % WeekLen
             c == f + s + WeekLen * j
  <1>1. /\ f \in Nat /\ k \in Nat /\ l \in Nat /\ l = f + k - 1 /\ k >= ShortestMonth
        /\ ShortestMonth \in Nat /\ WeekLen \in Nat \ {0}
    BY MonthBounds, ShortestIs, CalendarNumbers
  <1>2. w.mwd \in 1..WeekLen /\ w.mweek \in 1..(ShortestMonth \div WeekLen) /\ MonthLast = -1 /\ NoField \notin Int
    BY CalendarNumbers DEF ValidMonth, MonthLast
  <1>3. t \in 0..(WeekLen - 1) /\ t \in Int /\ w.mwd = t + 1
    BY <1>1, <1>2
  <1>4. j \in Nat /\ WeekLen * j \in Nat /\ WeekLen * j + WeekLen <= ShortestMonth /\ w.mweek = j + 1
    <2> DEFINE e == ShortestMonth \div WeekLen
    <2>1. e \in Int /\ WeekLen * e \in Int /\ WeekLen * e <= ShortestMonth
      BY <1>1, DivMod
    <2>2. j \in Nat /\ j < e
      BY <1>2, <2>1
    <2> HIDE DEF e, j
    <2>3. WeekLen * j + WeekLen <= WeekLen * e /\ WeekLen * j \in Nat
      BY <1>1, <2>1, <2>2, Mul
    <2> QED
      BY <1>1, <1>2, <2>1, <2>2, <2>3 DEF j
  <1>5. \A d : InMonth(m, d) <=> f <= d /\ d <= l
    BY DEF InMonth
  <1>6. \A d \in Nat : MonthRule(w, m, d) <=> (d % WeekLen) + 1 = w.mwd /\ d - f + 1 \in (WeekLen * (w.mweek - 1) + 1)..(WeekLen * w.mweek)
    BY DEF MonthRule, IsoWeekday, f
  <1>7. MonthDay(w, m) = f + ((w.mwd - ((f % WeekLen) + 1) + WeekLen) % WeekLen) + (w.mweek - 1) * WeekLen
    BY <1>2 DEF MonthDay, IsoWeekday
  <1>8. w.mwd - ((f % WeekLen) + 1) + WeekLen = t - (f % WeekLen) + WeekLen
    <2>1. f % WeekLen \in Int
      BY <1>1, DivMod
    <2> HIDE DEF t
    <2> QED
      BY <1>1, <1>3, <2>1
  <1>9. (w.mweek - 1) * WeekLen = WeekLen * j
    BY <1>1, <1>4
  <1>10. MonthDay(w, m) = c
    BY <1>7, <1>8, <1>9
  <1> HIDE DEF f, k, l, t, j
  <1>11. s \in 0..(WeekLen - 1) /\ (f + s) % WeekLen = t
    <2>1. f \in Int
      BY <1>1
    <2> QED
      BY <1>1, <1>3, <2>1, RestAhead, Zenon
  <1> HIDE DEF s
  <1>12. c \in Nat /\ f <= c /\ c <= l
    BY <1>1, <1>4, <1>11
  <1>13. c % WeekLen = t
    <2>1. f + s \in Int /\ j \in Int
      BY <1>1, <1>4, <1>11
    <2> QED
      BY <1>1, <1>11, <2>1, Shift
  <1>14. WeekLen * (w.mweek - 1) = WeekLen * j /\ WeekLen * w.mweek = WeekLen * j + WeekLen
    BY <1>1, <1>4
  <1>15. c - f < WeekLen * j + WeekLen /\ c - f >= WeekLen * j
    BY <1>1, <1>4, <1>11
  <1> HIDE DEF c
  <1>16. ASSUME NEW d \in Nat, f <= d, d <= l
         PROVE  MonthRule(w, m, d) <=> d = c
    <2> DEFINE e == WeekLen * j
    <2>1. e \in Nat /\ e + WeekLen \in Nat /\ d % WeekLen \in Int /\ c - f < e + WeekLen /\ c - f >= e
      BY <1>1, <1>4, <1>15, DivMod
    <2>2. MonthRule(w, m, d) <=> (d % WeekLen) + 1 = w.mwd /\ d - f + 1 \in (e + 1)..(e + WeekLen)
      BY <1>6, <1>14
    <2> HIDE DEF e
    <2>3. ASSUME d = c PROVE MonthRule(w, m, d)
      BY <1>1, <1>3, <1>12, <1>13, <2>1, <2>2, <2>3
    <2>4. ASSUME MonthRule(w, m, d) PROVE d = c
      <3>1. d % WeekLen = c % WeekLen /\ d - f + 1 \in (e + 1)..(e + WeekLen)
        BY <1>3, <1>13, <2>1, <2>2, <2>4
      <3>2. d - c < WeekLen /\ c - d < WeekLen
        BY <1>1, <1>12, <2>1, <3>1
      <3>3. d \in Int /\ c \in Int
        BY <1>12
      <3> QED
        BY <1>1, <3>1, <3>2, <3>3, SameRest
    <2> QED
      BY <2>3, <2>4
  <1> QED
    BY <1>5, <1>10, <1>12, <1>16 DEF OnlyDay

\* The code's day of a month is the only one of that month the rule names.
LEMMA MonthDayIs ==
    ASSUME NEW w, ValidMonth(w), NEW m \in Nat
    PROVE  MonthDay(w, m) \in Nat /\ OnlyDay(w, m, MonthDay(w, m))
  BY DayOfMonth, LastWeekday, NthWeekday

-----------------------------------------------------------------------------
(* The first day a window names                                            *)

NextMultiple(n, k) == IF k % n = 0 THEN k ELSE k + n - (k % n)

LEMMA NextMultipleIs ==
    ASSUME NEW n \in Nat \ {0}, NEW k \in Int
    PROVE  /\ NextMultiple(n, k) \in Int /\ NextMultiple(n, k) >= k
           /\ NextMultiple(n, k) % n = 0
           /\ \A e \in Int : k <= e /\ e < NextMultiple(n, k) => e % n # 0
  <1> DEFINE q == k \div n
             r == k % n
             u == NextMultiple(n, k)
  <1>1. q \in Int /\ r \in 0..(n - 1) /\ n * q \in Int /\ k = n * q + r
    BY DivMod
  <1>2. u = IF r = 0 THEN k ELSE k + n - r
    BY DEF NextMultiple
  <1> HIDE DEF q, r, u
  <1>3. CASE r = 0
    <2>1. u = k /\ k % n = 0
      BY <1>2, <1>3 DEF r
    <2> QED
      BY <2>1 DEF u
  <1>4. CASE r # 0
    <2>1. u = n * q + n /\ u \in Int /\ u = n * (q + 1) + 0 /\ u >= k /\ 0 \in 0..(n - 1) /\ q + 1 \in Int
      BY <1>1, <1>2, <1>4
    <2>2. u % n = 0
      BY <2>1, DivIs
    <2>3. ASSUME NEW e \in Int, k <= e, e < u PROVE e % n # 0
      <3> DEFINE t == e - n * q
      <3>1. t \in 0..(n - 1) /\ t # 0 /\ e = n * q + t
        BY <1>1, <1>4, <2>1, <2>3
      <3> HIDE DEF t
      <3>2. e % n = t
        BY <1>1, <3>1, DivIs
      <3> QED
        BY <3>1, <3>2
    <2> QED
      BY <2>1, <2>2, <2>3 DEF u
  <1> QED
    BY <1>3, <1>4

\* c is the first day from d on that the window names.
FirstFrom(w, d, c) ==
    /\ c \in Nat /\ c >= d /\ Names(w, c)
    /\ \A e \in Nat : d <= e /\ e < c => ~Names(w, e)

LEMMA DailyIs ==
    ASSUME NEW w, IsWindow(w), w.kind = "daily", NEW d \in Nat, d >= w.from
    PROVE  FirstFrom(w, d, Daily(w, d))
  <1> DEFINE k == d - w.from
             u == NextMultiple(w.every, k)
             c == w.from + u
  <1>1. w.every \in Nat \ {0} /\ w.from \in Nat /\ k \in Int
    BY WindowIs
  <1>2. Daily(w, d) = c
    BY DEF Daily, NextMultiple
  <1>3. \A e : Names(w, e) <=> (e - w.from) % w.every = 0
    BY DEF Names
  <1>4. u \in Int /\ u >= k /\ u % w.every = 0 /\ \A e \in Int : k <= e /\ e < u => e % w.every # 0
    <2> HIDE DEF k
    <2> QED
      BY <1>1, NextMultipleIs
  <1> HIDE DEF u
  <1>5. c \in Nat /\ c >= d /\ c - w.from = u
    BY <1>1, <1>4
  <1>6. ASSUME NEW e \in Nat, d <= e, e < c PROVE (e - w.from) % w.every # 0
    <2>1. e - w.from \in Int /\ k <= e - w.from /\ e - w.from < u
      BY <1>1, <1>4, <1>6
    <2> QED
      BY <1>4, <2>1
  <1> HIDE DEF c
  <1> QED
    BY <1>2, <1>3, <1>4, <1>5, <1>6 DEF FirstFrom

-----------------------------------------------------------------------------
(* Months that are every so many                                           *)

LEMMA MulGrows ==
    ASSUME NEW n \in Nat \ {0}, NEW q \in Nat
    PROVE  n * q \in Nat /\ n * q >= q
  <1>1. PICK k \in Nat : n = k + 1
    <2>1. n - 1 \in Nat /\ n = (n - 1) + 1
      OBVIOUS
    <2> QED
      BY <2>1
  <1>2. n * q = q + k * q /\ k * q \in Nat
    BY <1>1
  <1> QED
    BY <1>2

\* Going up by n from k, the first place where c has reached d.
IsReached(c, n, d, k, j) == j \in Nat /\ c[k + n * j] >= d /\ \A i \in Nat : i < j => ~(c[k + n * i] >= d)

IsSkip(s, c, n, d) == s = [k \in Nat |-> IF c[k] >= d THEN c[k] ELSE s[k + n]]

LEMMA SkipIs ==
    ASSUME NEW c \in [Nat -> Nat], \A k \in Nat : c[k] >= k, NEW n \in Nat \ {0}, NEW d \in Nat
    PROVE  /\ \E s : IsSkip(s, c, n, d)
           /\ \A s : IsSkip(s, c, n, d) =>
                  \A k \in Nat : \E j \in Nat : IsReached(c, n, d, k, j) /\ s[k] = c[k + n * j]
  <1> DEFINE S(k) == {j \in Nat : c[k + n * j] >= d}
             steps == [k \in Nat |-> CHOOSE j \in Nat : IsReached(c, n, d, k, j)]
             h == [k \in Nat |-> c[k + n * steps[k]]]
             go == [k \in Nat |-> k + n]
             stop == [k \in Nat |-> c[k] >= d]
  <1>1. ASSUME NEW k \in Nat PROVE steps[k] \in Nat /\ IsReached(c, n, d, k, steps[k])
    <2>1. n * d \in Nat /\ n * d >= d /\ k + n * d \in Nat
      BY MulGrows
    <2>2. d \in S(k)
      <3>1. c[k + n * d] >= k + n * d /\ c[k + n * d] \in Nat
        BY <2>1
      <3> QED
        BY <2>1, <3>1
    <2>3. PICK j \in S(k) : \A i \in S(k) : j <= i
      <3>1. S(k) \in SUBSET Nat /\ S(k) # {}
        BY <2>2
      <3> HIDE DEF S
      <3> QED
        BY <3>1, LeastOf
    <2>4. IsReached(c, n, d, k, j) /\ j \in Nat
      <3>1. j \in Nat /\ c[k + n * j] >= d
        BY <2>3
      <3>2. ASSUME NEW i \in Nat, i < j PROVE ~(c[k + n * i] >= d)
        <4>1. i \notin S(k)
          <5> HIDE DEF S
          <5> QED
            BY <2>3, <3>1, <3>2
        <4> QED
          BY <4>1
      <3> QED
        BY <3>1, <3>2 DEF IsReached
    <2> QED
      BY <2>4
  <1> HIDE DEF S, steps
  <1>2. ASSUME NEW k \in Nat, stop[k] PROVE h[k] = c[k]
    <2>1. n * 0 = 0 /\ k + n * 0 = k
      OBVIOUS
    <2>2. steps[k] = 0
      <3>1. c[k + n * 0] >= d
        BY <1>2, <2>1
      <3>2. ~(0 < steps[k])
        BY <1>1, <3>1 DEF IsReached
      <3> QED
        BY <1>1, <3>2
    <2> QED
      BY <2>1, <2>2
  <1>3. ASSUME NEW k \in Nat, ~stop[k] PROVE steps[go[k]] < steps[k] /\ h[go[k]] = h[k] /\ go[k] \in Nat
    <2> DEFINE a == steps[k]
               b == steps[go[k]]
    <2>1. go[k] \in Nat /\ go[k] = k + n
      OBVIOUS
    <2>2. IsReached(c, n, d, k, a) /\ IsReached(c, n, d, k + n, b) /\ a \in Nat /\ b \in Nat
      BY <1>1, <2>1
    <2>3. \A i \in Nat : (k + n) + n * i = k + n * (i + 1)
      OBVIOUS
    <2> HIDE DEF a, b
    <2>4. a # 0
      <3>1. k + n * 0 = k
        OBVIOUS
      <3> QED
        BY <1>3, <2>2, <3>1 DEF IsReached
    <2>5. PICK i \in Nat : a = i + 1
      <3>1. a - 1 \in Nat /\ a = (a - 1) + 1
        BY <2>2, <2>4
      <3> QED
        BY <3>1
    <2>6. c[(k + n) + n * i] >= d /\ c[k + n * (b + 1)] >= d
      BY <2>2, <2>3, <2>5 DEF IsReached
    <2>7. ~(i < b) /\ ~(b + 1 < a)
      <3>1. b + 1 \in Nat
        BY <2>2
      <3> QED
        BY <2>2, <2>6, <3>1 DEF IsReached
    <2>8. b = i
      BY <2>2, <2>5, <2>7
    <2>9. h[go[k]] = c[(k + n) + n * b] /\ h[k] = c[k + n * a]
      BY <2>1 DEF a, b
    <2>10. h[go[k]] = h[k] /\ b < a
      BY <2>2, <2>3, <2>5, <2>8, <2>9
    <2> QED
      BY <2>1, <2>10 DEF a, b
  <1> HIDE DEF h
  <1>4. IsSkip(h, c, n, d)
    <2>1. DOMAIN h = Nat /\ h = [k \in Nat |-> h[k]]
      BY DEF h
    <2>2. ASSUME NEW k \in Nat PROVE h[k] = IF c[k] >= d THEN c[k] ELSE h[k + n]
      BY <1>2, <1>3
    <2> QED
      BY <2>1, <2>2 DEF IsSkip
  <1>5. ASSUME NEW s, IsSkip(s, c, n, d)
        PROVE  \A k \in Nat : \E j \in Nat : IsReached(c, n, d, k, j) /\ s[k] = c[k + n * j]
    <2>1. \A k \in Nat : s[k] = IF stop[k] THEN h[k] ELSE s[go[k]]
      <3>1. \A k \in Nat : s[k] = IF c[k] >= d THEN c[k] ELSE s[k + n]
        BY <1>5 DEF IsSkip
      <3> QED
        BY <1>2, <3>1
    <2>2. steps \in [Nat -> Nat]
      BY <1>1 DEF steps
    <2>3. go \in [Nat -> Nat] /\ stop \in [Nat -> BOOLEAN]
      OBVIOUS
    <2> HIDE DEF go, stop
    <2>4. IsSearch(Nat, h, steps, go, stop, s)
      <3>1. \A k \in Nat : ~stop[k] => steps[go[k]] < steps[k] /\ h[go[k]] = h[k]
        BY <1>3
      <3> QED
        BY <2>1, <2>2, <2>3, <3>1 DEF IsSearch
    <2>5. \A k \in Nat : s[k] = h[k]
      BY <2>4, SearchIs
    <2> QED
      BY <1>1, <2>5 DEF h
  <1> QED
    BY <1>4, <1>5

LEMMA MonthlyIs ==
    ASSUME NEW w, IsWindow(w), w.kind = "monthly", NEW d \in Nat, d >= w.from
    PROVE  FirstFrom(w, d, Monthly(w, d))
  <1> DEFINE anchor == MonthOf(w.from)
             n == w.every
             k == MonthOf(d) - anchor
             u == NextMultiple(n, k)
             c == [i \in Nat |-> MonthDay(w, anchor + i)]
             s == CHOOSE f : IsSkip(f, c, n, d)
  <1>1. n \in Nat \ {0} /\ w.from \in Nat /\ ValidMonth(w)
    BY WindowIs
  <1>2. anchor \in Nat /\ MonthOf(d) \in Nat /\ k \in Nat
    <2>1. anchor <= MonthOf(d)
      BY <1>1, MonthsFollow
    <2> QED
      BY <1>1, <2>1, MonthOfIs
  <1>3. u \in Nat /\ u >= k /\ u % n = 0 /\ \A e \in Int : k <= e /\ e < u => e % n # 0
    <2> HIDE DEF k
    <2>1. k \in Int
      BY <1>2
    <2>2. u \in Int /\ u >= k /\ u % n = 0 /\ \A e \in Int : k <= e /\ e < u => e % n # 0
      BY <1>1, <2>1, NextMultipleIs
    <2> HIDE DEF u
    <2> QED
      BY <1>2, <2>2
  <1>4. Monthly(w, d) = s[u]
    <2>1. u = IF k % n = 0 THEN k ELSE k + n - (k % n)
      BY DEF NextMultiple
    <2>2. Monthly(w, d) = (CHOOSE f : f = [i \in Nat |-> IF MonthDay(w, anchor + i) >= d THEN MonthDay(w, anchor + i) ELSE f[i + n]])[u]
      BY <2>1, Zenon DEF Monthly
    <2> QED
      BY <2>2 DEF IsSkip
  <1> HIDE DEF u
  <1>5. \A m \in Nat : MonthDay(w, m) \in Nat /\ OnlyDay(w, m, MonthDay(w, m))
    BY <1>1, MonthDayIs
  <1>6. \A m \in Nat : FirstOf[m] \in Nat /\ FirstOf[m] >= m
    <2> TAKE m \in Nat
    <2>1. FirstOf[m] \in Nat
      BY FirstOfIs
    <2>2. m = 0 \/ FirstOf[m] >= m
      BY MonthsApart
    <2> QED
      BY <2>1, <2>2
  <1>7. c \in [Nat -> Nat] /\ \A i \in Nat : c[i] >= i /\ c[i] = MonthDay(w, anchor + i)
    <2>1. ASSUME NEW i \in Nat PROVE MonthDay(w, anchor + i) \in Nat /\ MonthDay(w, anchor + i) >= i
      <3>1. anchor + i \in Nat /\ anchor + i >= i
        BY <1>2
      <3> DEFINE m == anchor + i
      <3> HIDE DEF m
      <3>2. m \in Nat /\ m >= i
        BY <3>1 DEF m
      <3>3. MonthDay(w, m) \in Nat /\ MonthDay(w, m) >= FirstOf[m] /\ FirstOf[m] >= m /\ FirstOf[m] \in Nat
        BY <1>5, <1>6, <3>2 DEF OnlyDay, InMonth
      <3>4. MonthDay(w, m) >= i
        BY <3>2, <3>3
      <3> QED
        BY <3>3, <3>4 DEF m
    <2> QED
      BY <2>1
  <1> HIDE DEF c, k, anchor
  <1>8. PICK j \in Nat : IsReached(c, n, d, u, j) /\ s[u] = c[u + n * j]
    <2>1. /\ \E f : IsSkip(f, c, n, d)
          /\ \A f : IsSkip(f, c, n, d) =>
                 \A i \in Nat : \E j \in Nat : IsReached(c, n, d, i, j) /\ f[i] = c[i + n * j]
      BY <1>1, <1>7, SkipIs
    <2>2. IsSkip(s, c, n, d)
      BY <2>1
    <2> HIDE DEF s
    <2> QED
      BY <1>3, <2>1, <2>2
  <1> HIDE DEF s
  <1> DEFINE m == anchor + (u + n * j)
             out == MonthDay(w, m)
  <1>9. n * j \in Nat /\ u + n * j \in Nat /\ m \in Nat
    BY <1>1, <1>2, <1>3, MulGrows
  <1>10. Monthly(w, d) = out /\ out >= d
    BY <1>4, <1>7, <1>8, <1>9 DEF IsReached
  <1>11. out \in Nat /\ OnlyDay(w, m, out)
    BY <1>5, <1>9
  <1>12. MonthOf(out) = m
    <2> HIDE DEF m, out
    <2> QED
      BY <1>9, <1>11, MonthOfDay DEF OnlyDay
  <1>13. \A e \in Nat : Names(w, e) <=> (MonthOf(e) - anchor) % n = 0 /\ MonthRule(w, MonthOf(e), e)
    BY DEF Names, anchor
  <1>14. Names(w, out)
    <2>1. m - anchor = u + n * j
      <3>1. \A v \in Nat : (anchor + v) - anchor = v
        BY <1>2
      <3> QED
        BY <1>9, <3>1
    <2>2. (u + n * j) % n = 0
      BY <1>1, <1>3, Shift
    <2>3. MonthRule(w, m, out)
      <3> HIDE DEF m, out
      <3> QED
        BY <1>11 DEF OnlyDay
    <2> QED
      BY <1>11, <1>12, <1>13, <2>1, <2>2, <2>3
  <1>15. ASSUME NEW e \in Nat, d <= e, e < out, Names(w, e) PROVE FALSE
    <2> DEFINE p == MonthOf(e)
               i == p - anchor
               q == (i - u) \div n
    <2>1. p \in Nat /\ InMonth(p, e) /\ i % n = 0 /\ MonthRule(w, p, e)
      BY <1>13, <1>15, MonthOfIs
    <2>2. e = MonthDay(w, p)
      BY <1>5, <2>1 DEF OnlyDay
    <2>3. MonthOf(d) <= p /\ p <= m
      <3>1. e <= out
        BY <1>11, <1>15
      <3> QED
        BY <1>11, <1>12, <1>15, <3>1, MonthsFollow
    <2> HIDE DEF p, m, out
    <2>4. i \in Nat /\ k <= i
      BY <1>2, <2>1, <2>3 DEF k
    <2>5. i >= u
      <3>1. i \in Int /\ u \in Int
        BY <1>3, <2>4
      <3> HIDE DEF i
      <3> QED
        BY <1>3, <2>1, <2>4, <3>1
    <2>6. q \in Nat /\ i = u + n * q
      <3> DEFINE a == i \div n
                 b == u \div n
                 na == n * a
                 nb == n * b
      <3>1. a \in Int /\ b \in Int /\ i = n * a + 0 /\ u = n * b + 0 /\ n * a \in Int /\ n * b \in Int
        <4>1. i \in Int /\ u \in Int
          BY <1>3, <2>4
        <4> HIDE DEF i
        <4> QED
          BY <1>1, <1>3, <2>1, <4>1, DivMod
      <3> HIDE DEF a, b, i
      <3>2. i - u = n * (a - b) /\ a - b \in Int
        BY <1>1, <3>1
      <3>3. ~(a < b)
        <4>1. SUFFICES ASSUME a < b PROVE FALSE
          OBVIOUS
        <4>2. na + n <= nb
          BY <1>1, <3>1, <4>1, Mul
        <4>3. i = na /\ u = nb /\ na \in Int /\ nb \in Int
          BY <3>1
        <4> HIDE DEF na, nb
        <4> QED
          BY <1>1, <2>5, <4>2, <4>3
      <3>4. (i - u) \div n = a - b
        <4> DEFINE x == i - u
                   y == a - b
        <4>1. x \in Int /\ y \in Int /\ x = n * y
          BY <1>3, <2>4, <3>2
        <4> HIDE DEF x, y
        <4>2. x = n * y + 0 /\ 0 \in 0..(n - 1)
          BY <1>1, <4>1
        <4>3. x \div n = y
          BY <1>1, <4>1, <4>2, DivIs
        <4> QED
          BY <4>3 DEF x, y
      <3>5. a - b \in Nat /\ i = u + n * (a - b)
        <4>1. a - b \in Nat
          BY <3>1, <3>3
        <4> DEFINE y == n * (a - b)
        <4>2. i \in Int /\ u \in Int /\ i - u = y
          BY <1>3, <2>4, <3>2
        <4>3. y \in Int
          BY <1>1, <4>1
        <4> HIDE DEF y, i
        <4>4. i = u + y
          BY <4>2, <4>3
        <4> QED
          BY <4>1, <4>4 DEF y
      <3> QED
        BY <3>4, <3>5
    <2> HIDE DEF q
    <2>7. c[u + n * q] = e
      <3>1. u + n * q \in Nat /\ c[u + n * q] = MonthDay(w, anchor + (u + n * q))
        BY <1>7, <2>4, <2>6
      <3>2. anchor + i = p
        BY <1>2, <2>1
      <3> QED
        BY <2>2, <2>6, <3>1, <3>2
    <2>8. ~(q < j)
      BY <1>8, <1>15, <2>6, <2>7 DEF IsReached
    <2>9. ~(j < q)
      <3>1. SUFFICES ASSUME j < q PROVE FALSE
        OBVIOUS
      <3>2. n * j + n <= n * q /\ n * q \in Int
        BY <1>1, <2>6, <3>1, Mul
      <3>3. anchor + (u + n * j) < p
        BY <1>1, <1>2, <1>3, <1>9, <2>1, <2>4, <2>6, <3>2
      <3> QED
        BY <1>2, <1>9, <2>1, <2>3, <3>3 DEF m
    <2>10. q = j
      BY <2>6, <2>8, <2>9
    <2> QED
      BY <1>4, <1>8, <1>10, <1>11, <1>15, <2>7, <2>10
  <1> HIDE DEF out
  <1> QED
    BY <1>10, <1>11, <1>14, <1>15 DEF FirstFrom

-----------------------------------------------------------------------------
(* Weeks that are every so many                                            *)

Monday(w) == w.from + 1 - IsoWeekday(w.from)
Week(w, x) == (x - Monday(w)) \div WeekLen
Sunday(w, x) == Monday(w) + Week(w, x) * WeekLen + WeekLen - 1
Hits(w, x) == {y \in x..Sunday(w, x) : IsoWeekday(y) \in w.days}
Resting(w, x) == Week(w, x) % w.every
Ahead(w, x) ==
    IF Resting(w, x) # 0 THEN Monday(w) + (Week(w, x) + w.every - Resting(w, x)) * WeekLen ELSE Sunday(w, x) + 1

\* The rule of a weekly window, before its anchor too.
On(w, x) == Resting(w, x) = 0 /\ IsoWeekday(x) \in w.days

IsWeekSearch(s, w) ==
    s = [x \in Int |-> IF Resting(w, x) # 0 THEN s[Ahead(w, x)]
                       ELSE IF Hits(w, x) # {} THEN Min(Hits(w, x))
                       ELSE s[Ahead(w, x)]]

LEMMA MondayIs ==
    ASSUME NEW w, IsWindow(w)
    PROVE  /\ Monday(w) \in Int /\ Monday(w) = WeekLen * (w.from \div WeekLen)
           /\ w.from \div WeekLen \in Int
  <1> DEFINE n == WeekLen
             f == w.from
             q == f \div n
             r == f % n
             e == n * q
  <1>1. n \in Nat \ {0} /\ f \in Int
    BY WindowIs, CalendarNumbers
  <1>2. q \in Int /\ r \in Int /\ e \in Int /\ f = e + r
    <2> HIDE DEF n, f
    <2> QED
      BY <1>1, DivMod
  <1>3. Monday(w) = f + 1 - (r + 1)
    BY DEF Monday, IsoWeekday
  <1> HIDE DEF q, r, e, n, f
  <1>4. Monday(w) = e
    BY <1>1, <1>2, <1>3
  <1> QED
    BY <1>2, <1>4 DEF e, q, n, f

LEMMA WeekIs ==
    ASSUME NEW w, IsWindow(w), NEW x \in Int
    PROVE  /\ Week(w, x) \in Int /\ WeekLen * Week(w, x) \in Int
           /\ Sunday(w, x) = Monday(w) + WeekLen * Week(w, x) + WeekLen - 1
           /\ Sunday(w, x) \in Int /\ x <= Sunday(w, x)
           /\ Monday(w) + WeekLen * Week(w, x) <= x
           /\ Week(w, x) = (x \div WeekLen) - (w.from \div WeekLen)
  <1> DEFINE n == WeekLen
             m == Monday(w)
             q == Week(w, x)
             y == x - m
             r == y % n
             e == n * q
             a == w.from \div n
  <1>1. n \in Nat \ {0} /\ m \in Int /\ y \in Int /\ a \in Int /\ m = n * a
    BY MondayIs, CalendarNumbers
  <1>2. q = y \div n
    BY DEF Week
  <1>3. q \in Int /\ r \in 0..(n - 1) /\ e \in Int /\ y = e + r
    <2> HIDE DEF y
    <2> QED
      BY <1>1, <1>2, DivMod
  <1>4. Sunday(w, x) = m + q * n + n - 1
    BY DEF Sunday
  <1>5. q * n = e
    <2> HIDE DEF q, n
    <2> QED
      BY <1>1, <1>3
  <1>6. q = (x \div n) - a
    <2> DEFINE b == 0 - a
    <2>1. b \in Int
      BY <1>1
    <2>2. x - m = x + n * b
      BY <1>1
    <2> HIDE DEF b
    <2>3. (x + n * b) \div n = (x \div n) + b
      BY <1>1, <2>1, Shift
    <2>4. q = (x \div n) + b /\ x \div n \in Int
      BY <1>1, <1>2, <2>2, <2>3, DivMod
    <2> HIDE DEF q, a
    <2> QED
      BY <1>1, <2>4 DEF b
  <1> HIDE DEF n, m, q, r, e, a
  <1>7. m + e <= x /\ x <= m + e + n - 1 /\ m + e + n - 1 \in Int
    BY <1>1, <1>3
  <1>8. Sunday(w, x) = m + e + n - 1
    BY <1>4, <1>5
  <1> QED
    BY <1>3, <1>6, <1>7, <1>8 DEF n, m, q, e, a

\* The days from the j-th Monday after the anchor's to its Sunday.
LEMMA WeekOfDay ==
    ASSUME NEW w, IsWindow(w), NEW x \in Int, NEW j \in Int,
           Monday(w) + WeekLen * j <= x, x < Monday(w) + WeekLen * j + WeekLen
    PROVE  Week(w, x) = j
  <1> DEFINE n == WeekLen
             m == Monday(w)
             y == x - m
             r == y - n * j
  <1>1. n \in Nat \ {0} /\ m \in Int /\ y \in Int /\ n * j \in Int
    BY MondayIs, CalendarNumbers
  <1>2. r \in 0..(n - 1) /\ y = n * j + r
    BY <1>1
  <1> HIDE DEF r, y
  <1>3. y \div n = j
    BY <1>1, <1>2, DivIs
  <1> QED
    BY <1>3 DEF Week, y

LEMMA NamesWeek ==
    ASSUME NEW w, IsWindow(w), w.kind = "weekly", NEW x \in Int
    PROVE  Names(w, x) <=> On(w, x)
  <1>1. Week(w, x) = (x \div WeekLen) - (w.from \div WeekLen)
    BY WeekIs
  <1> QED
    BY <1>1 DEF Names, On, Resting

LEMMA SomeWeek ==
    ASSUME NEW w, IsWindow(w), w.kind = "weekly", NEW x \in Int
    PROVE  \E y \in Int : y >= x /\ On(w, y)
  <1>1. /\ w.every \in Nat \ {0} /\ WeekLen \in Nat \ {0} /\ Monday(w) \in Int
        /\ w.days \subseteq 1..WeekLen /\ w.days # {}
    BY WindowIs, CalendarNumbers, MondayIs
  <1>2. PICK t \in w.days : t \in 1..WeekLen
    BY <1>1
  <1>3. PICK k \in Nat : Monday(w) + k >= x
    <2>1. IF x <= Monday(w) THEN Monday(w) + 0 >= x ELSE x - Monday(w) \in Nat /\ Monday(w) + (x - Monday(w)) >= x
      BY <1>1
    <2> QED
      BY <2>1
  <1> DEFINE j == w.every * k
             m == Monday(w)
             y == m + WeekLen * j + (t - 1)
  <1>4. j \in Nat /\ j >= k
    BY <1>1, MulGrows
  <1>5. j % w.every = 0
    <2>1. j = w.every * k + 0 /\ 0 \in 0..(w.every - 1) /\ j \in Int /\ k \in Int
      BY <1>1, <1>4
    <2> HIDE DEF j
    <2> QED
      BY <1>1, <2>1, DivIs
  <1> HIDE DEF j
  <1>6. WeekLen * j \in Nat /\ WeekLen * j >= j
    BY <1>1, <1>4, MulGrows
  <1>7. y \in Int /\ m + WeekLen * j <= y /\ y < m + WeekLen * j + WeekLen /\ y >= x
    BY <1>1, <1>2, <1>3, <1>4, <1>6
  <1>8. y % WeekLen = t - 1
    <2> DEFINE a == w.from \div WeekLen
               b == a + j
               u == t - 1
    <2>1. m = WeekLen * a /\ a \in Int /\ j \in Int
      BY <1>4, MondayIs
    <2>2. y = WeekLen * b + u
      <3> HIDE DEF a
      <3> QED
        BY <1>1, <2>1
    <2>3. b \in Int /\ u \in 0..(WeekLen - 1)
      <3> HIDE DEF a
      <3> QED
        BY <1>1, <1>2, <2>1
    <2> HIDE DEF b, u, y
    <2>4. y % WeekLen = u
      BY <1>1, <1>7, <2>2, <2>3, DivIs
    <2> QED
      BY <2>4 DEF u
  <1> HIDE DEF y
  <1>9. Week(w, y) = j
    <2>1. j \in Int
      BY <1>4
    <2> QED
      BY <1>7, <2>1, WeekOfDay
  <1>10. IsoWeekday(y) = t
    BY <1>1, <1>2, <1>8 DEF IsoWeekday
  <1>11. On(w, y)
    BY <1>2, <1>5, <1>9, <1>10 DEF On, Resting
  <1> QED
    BY <1>7, <1>11

IsNextOn(w, x, y) == y \in Int /\ y >= x /\ On(w, y) /\ \A e \in Int : x <= e /\ e < y => ~On(w, e)

LEMMA NextOnExists ==
    ASSUME NEW w, IsWindow(w), w.kind = "weekly", NEW x \in Int
    PROVE  \E y : IsNextOn(w, x, y)
  <1> DEFINE S == {k \in Nat : On(w, x + k)}
  <1>1. S # {}
    <2>1. PICK y \in Int : y >= x /\ On(w, y)
      BY SomeWeek
    <2>2. y - x \in Nat /\ x + (y - x) = y
      BY <2>1
    <2> QED
      BY <2>1, <2>2
  <1>2. PICK k \in S : \A i \in S : k <= i
    <2>1. S \in SUBSET Nat
      OBVIOUS
    <2> HIDE DEF S
    <2> QED
      BY <1>1, <2>1, LeastOf
  <1>3. k \in Nat /\ On(w, x + k)
    BY <1>2
  <1>4. ASSUME NEW e \in Int, x <= e, e < x + k PROVE ~On(w, e)
    <2>1. e - x \in Nat /\ x + (e - x) = e /\ ~(k <= e - x)
      BY <1>3, <1>4
    <2>2. e - x \notin S
      BY <1>2, <2>1
    <2> QED
      BY <2>1, <2>2
  <1>5. IsNextOn(w, x, x + k)
    BY <1>3, <1>4 DEF IsNextOn
  <1> QED
    BY <1>5

\* A search that goes on misses no day.
LEMMA NothingSkipped ==
    ASSUME NEW w, IsWindow(w), w.kind = "weekly", NEW x \in Int, Resting(w, x) # 0 \/ Hits(w, x) = {}
    PROVE  /\ Ahead(w, x) \in Int /\ Ahead(w, x) > x
           /\ \A e \in Int : x <= e /\ e < Ahead(w, x) => ~On(w, e)
  <1> DEFINE n == w.every
             k == WeekLen
             m == Monday(w)
             q == Week(w, x)
             r == Resting(w, x)
  <1>1. n \in Nat \ {0} /\ k \in Nat \ {0} /\ m \in Int
    BY WindowIs, CalendarNumbers, MondayIs
  <1>2. /\ q \in Int /\ k * q \in Int /\ Sunday(w, x) = m + k * q + k - 1
        /\ Sunday(w, x) \in Int /\ x <= Sunday(w, x) /\ m + k * q <= x
    BY WeekIs
  <1>3. r = q % n /\ r \in 0..(n - 1)
    BY <1>1, <1>2, DivMod DEF Resting
  <1> HIDE DEF n, k, m, q, r
  <1>4. CASE r # 0
    <2> DEFINE j == q + n - r
    <2>1. Ahead(w, x) = m + j * k
      BY <1>4 DEF Ahead, n, k, m, q, r
    <2>2. j \in Int /\ j > q
      BY <1>1, <1>2, <1>3
    <2>3. j = NextMultiple(n, q)
      BY <1>3, <1>4 DEF NextMultiple
    <2>4. \A e \in Int : q <= e /\ e < j => e % n # 0
      BY <1>1, <1>2, <2>3, NextMultipleIs
    <2> HIDE DEF j
    <2>5. k * q + k <= k * j /\ k * j \in Int /\ j * k = k * j
      BY <1>1, <1>2, <2>2, Mul
    <2>6. Ahead(w, x) = m + k * j
      BY <2>1, <2>5
    <2>7. Ahead(w, x) \in Int /\ Ahead(w, x) > x
      <3> DEFINE a == k * q
                 b == k * j
      <3>1. a \in Int /\ b \in Int /\ a + k <= b /\ Ahead(w, x) = m + b /\ Sunday(w, x) = m + a + k - 1
        BY <1>2, <2>5, <2>6
      <3> HIDE DEF a, b
      <3> QED
        BY <1>1, <1>2, <3>1
    <2>8. ASSUME NEW e \in Int, x <= e, e < Ahead(w, x) PROVE ~On(w, e)
      <3> DEFINE p == Week(w, e)
      <3>1. p \in Int /\ k * p \in Int /\ e <= m + k * p + k - 1 /\ m + k * p <= e
        BY WeekIs DEF k, m
      <3> HIDE DEF p
      <3>2. ~(p < q)
        <4>1. SUFFICES ASSUME p < q PROVE FALSE
          OBVIOUS
        <4>2. k * p + k <= k * q
          BY <1>1, <1>2, <3>1, <4>1, Mul
        <4> DEFINE a == k * p
                   b == k * q
        <4>3. a \in Int /\ b \in Int /\ a + k <= b /\ e <= m + a + k - 1 /\ m + b <= x
          BY <1>2, <3>1, <4>2
        <4> HIDE DEF a, b
        <4> QED
          BY <1>1, <2>8, <4>3
      <3>3. ~(j <= p)
        <4>1. SUFFICES ASSUME j <= p PROVE FALSE
          OBVIOUS
        <4>2. k * j <= k * p
          <5>1. CASE j = p
            BY <2>5, <5>1
          <5>2. CASE j < p
            <6>1. k * j + k <= k * p
              BY <1>1, <2>2, <3>1, <5>2, Mul
            <6> DEFINE a == k * p
                       b == k * j
            <6>2. a \in Int /\ b \in Int /\ b + k <= a
              BY <2>5, <3>1, <6>1
            <6> HIDE DEF a, b
            <6>3. b <= a
              BY <1>1, <6>2
            <6> QED
              BY <6>3 DEF a, b
          <5> QED
            BY <2>2, <3>1, <4>1, <5>1, <5>2
        <4> DEFINE a == k * p
                   b == k * j
        <4>3. a \in Int /\ b \in Int /\ b <= a /\ m + a <= e /\ Ahead(w, x) = m + b
          BY <2>5, <2>6, <3>1, <4>2
        <4> HIDE DEF a, b
        <4> QED
          BY <1>1, <2>7, <2>8, <4>3
      <3>4. q <= p /\ p < j
        BY <1>2, <2>2, <3>1, <3>2, <3>3
      <3>5. p % n # 0
        BY <2>4, <3>1, <3>4
      <3> QED
        BY <3>5 DEF On, Resting, p, n
    <2> QED
      BY <2>7, <2>8
  <1>5. CASE r = 0
    <2>1. Ahead(w, x) = Sunday(w, x) + 1 /\ Hits(w, x) = {}
      BY <1>5 DEF Ahead, r
    <2>2. Ahead(w, x) \in Int /\ Ahead(w, x) > x
      BY <1>2, <2>1
    <2>3. ASSUME NEW e \in Int, x <= e, e < Ahead(w, x) PROVE ~On(w, e)
      <3>1. e \in x..Sunday(w, x)
        BY <1>2, <2>1, <2>3
      <3>2. e \notin Hits(w, x)
        BY <2>1
      <3> QED
        BY <3>1, <3>2 DEF Hits, On
    <2> QED
      BY <2>2, <2>3
  <1> QED
    BY <1>4, <1>5

\* A search that ends has found the day.
LEMMA HitIsNext ==
    ASSUME NEW w, IsWindow(w), w.kind = "weekly", NEW x \in Int, Resting(w, x) = 0, Hits(w, x) # {}
    PROVE  IsNextOn(w, x, Min(Hits(w, x)))
  <1> DEFINE H == Hits(w, x)
             sun == Sunday(w, x)
             q == Week(w, x)
             S == {k \in Nat : x + k \in H}
  <1>1. /\ q \in Int /\ WeekLen * q \in Int /\ sun = Monday(w) + WeekLen * q + WeekLen - 1
        /\ sun \in Int /\ x <= sun /\ Monday(w) + WeekLen * q <= x /\ Monday(w) \in Int /\ WeekLen \in Nat
    BY WeekIs, MondayIs, CalendarNumbers
  <1>2. \A y : y \in H <=> y \in x..sun /\ IsoWeekday(y) \in w.days
    BY DEF Hits
  <1> HIDE DEF H, sun, q
  <1>3. S \in SUBSET Nat /\ S # {}
    <2>1. PICK y : y \in H
      BY DEF H
    <2>2. y - x \in Nat /\ x + (y - x) = y
      BY <1>1, <1>2, <2>1
    <2> QED
      BY <2>1, <2>2
  <1>4. PICK k \in S : \A i \in S : k <= i
    <2> HIDE DEF S
    <2> QED
      BY <1>3, LeastOf
  <1>5. k \in Nat /\ x + k \in H
    BY <1>4
  <1>6. ASSUME NEW y \in H PROVE x + k <= y /\ y \in Int
    <2>1. y \in Int /\ y - x \in Nat /\ x + (y - x) = y
      BY <1>1, <1>2
    <2>2. y - x \in S
      BY <2>1
    <2>3. k <= y - x
      BY <1>4, <2>2
    <2> QED
      BY <1>5, <2>1, <2>3
  <1>7. Min(H) = x + k
    <2>1. x + k \in H /\ \A y \in H : x + k <= y
      BY <1>5, <1>6
    <2>2. \A z \in H : (\A y \in H : z <= y) => z = x + k
      BY <1>5, <1>6
    <2>3. Min(H) \in H /\ \A y \in H : Min(H) <= y
      <3>1. \E z \in H : \A y \in H : z <= y
        BY <2>1
      <3> QED
        BY <3>1 DEF Min
    <2> QED
      BY <2>2, <2>3
  <1>8. ASSUME NEW y \in Int, x <= y, y <= sun PROVE Resting(w, y) = 0
    <2>1. Week(w, y) = q
      BY <1>1, <1>8, WeekOfDay
    <2> QED
      BY <2>1 DEF Resting, q
  <1>9. On(w, x + k)
    BY <1>1, <1>2, <1>5, <1>8 DEF On
  <1>10. ASSUME NEW e \in Int, x <= e, e < x + k PROVE ~On(w, e)
    <2>1. e \in x..sun
      BY <1>1, <1>2, <1>5, <1>10
    <2>2. e \notin H
      BY <1>5, <1>6, <1>10
    <2> QED
      BY <1>2, <2>1, <2>2 DEF On
  <1> QED
    BY <1>5, <1>7, <1>9, <1>10 DEF IsNextOn, H

LEMMA WeekSearchIs ==
    ASSUME NEW w, IsWindow(w), w.kind = "weekly"
    PROVE  /\ \E s : IsWeekSearch(s, w)
           /\ \A s : IsWeekSearch(s, w) => \A x \in Int : IsNextOn(w, x, s[x])
  <1> DEFINE h == [x \in Int |-> CHOOSE y : IsNextOn(w, x, y)]
             mu == [x \in Int |-> h[x] - x]
             stop == [x \in Int |-> Resting(w, x) = 0 /\ Hits(w, x) # {}]
             go == [x \in Int |-> IF stop[x] THEN x ELSE Ahead(w, x)]
  <1>1. \A x \in Int : IsNextOn(w, x, h[x])
    BY NextOnExists
  <1>2. \A x \in Int : \A y, z : IsNextOn(w, x, y) /\ IsNextOn(w, x, z) => y = z
    BY DEF IsNextOn
  <1>3. ASSUME NEW x \in Int, stop[x] PROVE Min(Hits(w, x)) = h[x]
    <2>1. Resting(w, x) = 0 /\ Hits(w, x) # {}
      BY <1>3
    <2>2. IsNextOn(w, x, Min(Hits(w, x)))
      BY <2>1, HitIsNext
    <2> HIDE DEF h
    <2> QED
      BY <1>1, <1>2, <2>2
  <1>4. \A x \in Int : h[x] \in Int /\ h[x] >= x
    BY <1>1 DEF IsNextOn
  <1>5. ASSUME NEW x \in Int, ~stop[x]
        PROVE  go[x] = Ahead(w, x) /\ go[x] \in Int /\ go[x] > x /\ h[go[x]] = h[x] /\ mu[go[x]] < mu[x]
    <2>1. go[x] = Ahead(w, x) /\ (Resting(w, x) # 0 \/ Hits(w, x) = {})
      BY <1>5
    <2>2. go[x] \in Int /\ go[x] > x /\ \A e \in Int : x <= e /\ e < go[x] => ~On(w, e)
      BY <2>1, NothingSkipped
    <2> DEFINE g == go[x]
    <2> HIDE DEF g, h
    <2>3. g \in Int /\ g > x /\ (\A e \in Int : x <= e /\ e < g => ~On(w, e)) /\ IsNextOn(w, g, h[g])
      BY <1>1, <2>2 DEF g
    <2>4. IsNextOn(w, x, h[g])
      BY <2>3 DEF IsNextOn
    <2>5. h[g] = h[x]
      BY <1>1, <1>2, <2>4
    <2>6. h[g] - g < h[x] - x
      BY <1>4, <2>3, <2>5
    <2>7. mu[g] = h[g] - g /\ mu[x] = h[x] - x
      BY <2>3
    <2> QED
      BY <2>1, <2>3, <2>5, <2>6, <2>7 DEF g
  <1>6. mu \in [Int -> Nat] /\ stop \in [Int -> BOOLEAN] /\ go \in [Int -> Int]
    <2>1. mu \in [Int -> Nat]
      <3> HIDE DEF h
      <3> QED
        BY <1>4
    <2>2. stop \in [Int -> BOOLEAN]
      OBVIOUS
    <2>3. \A x \in Int : go[x] \in Int
      BY <1>5
    <2> QED
      BY <2>1, <2>2, <2>3
  <1>7. \A x \in Int : stop[x] <=> Resting(w, x) = 0 /\ Hits(w, x) # {}
    OBVIOUS
  <1>8. h = [x \in Int |-> h[x]]
    OBVIOUS
  <1> HIDE DEF h, mu, stop, go
  <1>9. IsWeekSearch(h, w)
    <2>1. ASSUME NEW x \in Int
          PROVE  h[x] = IF Resting(w, x) # 0 THEN h[Ahead(w, x)] ELSE IF Hits(w, x) # {} THEN Min(Hits(w, x)) ELSE h[Ahead(w, x)]
      BY <1>3, <1>5, <1>7
    <2> QED
      BY <1>8, <2>1 DEF IsWeekSearch
  <1>10. ASSUME NEW s, IsWeekSearch(s, w) PROVE \A x \in Int : s[x] = h[x]
    <2>1. ASSUME NEW x \in Int PROVE s[x] = IF stop[x] THEN h[x] ELSE s[go[x]]
      <3>1. s[x] = IF Resting(w, x) # 0 THEN s[Ahead(w, x)] ELSE IF Hits(w, x) # {} THEN Min(Hits(w, x)) ELSE s[Ahead(w, x)]
        BY <1>10 DEF IsWeekSearch
      <3> QED
        BY <1>3, <1>5, <1>7, <3>1
    <2>2. \A x \in Int : ~stop[x] => mu[go[x]] < mu[x] /\ h[go[x]] = h[x]
      BY <1>5
    <2>3. IsSearch(Int, h, mu, go, stop, s)
      BY <1>6, <2>1, <2>2 DEF IsSearch
    <2> QED
      BY <2>3, SearchIs
  <1> QED
    BY <1>1, <1>9, <1>10

LEMMA WeeklyIs ==
    ASSUME NEW w, IsWindow(w), w.kind = "weekly", NEW d \in Nat, d >= w.from
    PROVE  FirstFrom(w, d, Weekly(w, d))
  <1> DEFINE s == CHOOSE f : IsWeekSearch(f, w)
  <1>1. Weekly(w, d) = s[d]
    BY Zenon DEF Weekly, IsWeekSearch, Resting, Ahead, Hits, Sunday, Week, Monday
  <1>2. IsWeekSearch(s, w)
    BY WeekSearchIs
  <1> HIDE DEF s
  <1>3. d \in Int /\ w.from \in Nat
    BY WindowIs
  <1>4. IsNextOn(w, d, s[d])
    BY <1>2, <1>3, WeekSearchIs
  <1> DEFINE c == s[d]
  <1>5. c \in Int /\ c >= d /\ On(w, c) /\ \A e \in Int : d <= e /\ e < c => ~On(w, e)
    BY <1>4 DEF IsNextOn
  <1> HIDE DEF c
  <1>6. c \in Nat /\ Names(w, c)
    BY <1>3, <1>5, NamesWeek
  <1>7. \A e \in Nat : d <= e /\ e < c => ~Names(w, e)
    BY <1>5, NamesWeek
  <1>8. FirstFrom(w, d, c)
    BY <1>5, <1>6, <1>7 DEF FirstFrom
  <1> QED
    BY <1>1, <1>8 DEF c

-----------------------------------------------------------------------------
(* What a behaviour asks                                                   *)

LEMMA NextIs ==
    ASSUME NEW w, IsWindow(w), NEW day \in Int
    PROVE  \E c : /\ FirstFrom(w, IF day < w.from THEN w.from ELSE day, c)
                  /\ NextStartDate(w, day) = IF w.until # NoField /\ c > w.until THEN NoDay ELSE c
  <1> DEFINE d == IF day < w.from THEN w.from ELSE day
             out == CASE w.kind = "daily" -> Daily(w, d)
                      [] w.kind = "weekly" -> Weekly(w, d)
                      [] w.kind = "monthly" -> Monthly(w, d)
  <1>1. w.from \in Nat /\ w.kind \in {"daily", "weekly", "monthly"}
    BY WindowIs
  <1>2. d \in Nat /\ d >= w.from
    BY <1>1
  <1>3. NextStartDate(w, day) = IF w.until # NoField /\ out > w.until THEN NoDay ELSE out
    BY DEF NextStartDate
  <1> HIDE DEF d
  <1>4. FirstFrom(w, d, out)
    <2>1. CASE w.kind = "daily"
      <3>1. out = Daily(w, d)
        BY <2>1
      <3> HIDE DEF out
      <3> QED
        BY <1>2, <2>1, <3>1, DailyIs
    <2>2. CASE w.kind = "weekly"
      <3>1. out = Weekly(w, d)
        BY <2>2
      <3> HIDE DEF out
      <3> QED
        BY <1>2, <2>2, <3>1, WeeklyIs
    <2>3. CASE w.kind = "monthly"
      <3>1. out = Monthly(w, d)
        BY <2>3
      <3> HIDE DEF out
      <3> QED
        BY <1>2, <2>3, <3>1, MonthlyIs
    <2> QED
      BY <1>1, <2>1, <2>2, <2>3
  <1> HIDE DEF out
  <1> QED
    BY <1>3, <1>4 DEF d

\* What nextStartDate returns, for a window and a day.
NextRight(w, day) ==
    LET out == NextStartDate(w, day)
    IN  IF out = NoDay THEN w.until # NoField /\ \A d \in day..w.until : ~StartsOn(w, d)
        ELSE out >= day /\ StartsOn(w, out) /\ \A d \in day..(out - 1) : ~StartsOn(w, d)

LEMMA NextStartIsRight ==
    ASSUME NEW w, IsWindow(w), NEW day \in Int
    PROVE  NextRight(w, day)
  <1> DEFINE from == IF day < w.from THEN w.from ELSE day
             out == NextStartDate(w, day)
  <1>1. w.from \in Nat /\ (w.until = NoField \/ w.until \in Nat) /\ NoField \notin Int /\ NoDay \notin Int
    BY WindowIs, CalendarNumbers
  <1>2. from \in Nat /\ from >= day /\ from >= w.from /\ \A e \in Int : day <= e /\ e < from => e < w.from
    BY <1>1
  <1>3. PICK c : FirstFrom(w, from, c) /\ out = IF w.until # NoField /\ c > w.until THEN NoDay ELSE c
    BY NextIs
  <1>4. NextRight(w, day) <=> IF out = NoDay THEN w.until # NoField /\ \A d \in day..w.until : ~StartsOn(w, d)
                              ELSE out >= day /\ StartsOn(w, out) /\ \A d \in day..(out - 1) : ~StartsOn(w, d)
    BY DEF NextRight
  <1> HIDE DEF from, out
  <1>5. c \in Nat /\ c >= from /\ Names(w, c) /\ \A e \in Nat : from <= e /\ e < c => ~Names(w, e)
    BY <1>3 DEF FirstFrom
  <1>6. ASSUME NEW e \in Int, day <= e, e < c PROVE ~StartsOn(w, e)
    <2>1. CASE e < from
      BY <1>1, <1>2, <1>6, <2>1 DEF StartsOn
    <2>2. CASE ~(e < from)
      BY <1>2, <1>5, <1>6, <2>2 DEF StartsOn
    <2> QED
      BY <2>1, <2>2
  <1>7. CASE w.until # NoField /\ c > w.until
    <2>1. out = NoDay /\ w.until \in Nat
      BY <1>1, <1>3, <1>7
    <2>2. \A d \in day..w.until : ~StartsOn(w, d)
      BY <1>5, <1>6, <1>7, <2>1
    <2> QED
      BY <1>4, <1>7, <2>1, <2>2
  <1>8. CASE ~(w.until # NoField /\ c > w.until)
    <2>1. out = c /\ out # NoDay
      BY <1>1, <1>3, <1>5, <1>8
    <2>2. w.until # NoField => c <= w.until
      BY <1>1, <1>5, <1>8
    <2>3. c >= day /\ c >= w.from
      BY <1>1, <1>2, <1>5
    <2>4. StartsOn(w, c)
      BY <1>5, <2>2, <2>3 DEF StartsOn
    <2>5. \A d \in day..(c - 1) : ~StartsOn(w, d)
      BY <1>5, <1>6
    <2> QED
      BY <1>4, <2>1, <2>3, <2>4, <2>5
  <1> QED
    BY <1>7, <1>8

\* What wallInstant returns, for a day, a minute and a zone.
WallRight(d, minute, z) ==
    LET wall == d * DayTicks + minute
        shown == {t \in (wall - 2 * DayTicks)..(wall + 2 * DayTicks) : Local(t, z) = wall}
    IN  WallInstant(d, minute, z) = (IF shown = {} THEN wall - z.before ELSE Min(shown))

LEMMA WallInstantIsRight ==
    ASSUME NEW z \in Zones, NEW d \in Int, NEW minute \in Int
    PROVE  WallRight(d, minute, z)
  <1> DEFINE wall == d * DayTicks + minute
             e == 2 * DayTicks
             offsets == {Offset(z, wall - e), Offset(z, wall + e)}
             read == {c \in {wall - o : o \in offsets} : Local(c, z) = wall}
             shown == {t \in (wall - e)..(wall + e) : Local(t, z) = wall}
  <1>1. e \in Nat /\ e > 0 /\ wall \in Int
    BY CalendarNumbers
  <1>2. z.at \in Int /\ {z.before, z.after} \subseteq (-2 * DayTicks)..(2 * DayTicks)
    BY CalendarAssumption
  <1>3. z.before \in Int /\ z.after \in Int /\ z.before >= 0 - e /\ z.before <= e /\ z.after >= 0 - e /\ z.after <= e
    BY <1>2, CalendarNumbers
  <1>4. WallInstant(d, minute, z) = IF read = {} THEN wall - Offset(z, wall - e) ELSE Min(read)
    BY DEF WallInstant
  <1>5. WallRight(d, minute, z) <=> (WallInstant(d, minute, z) = IF shown = {} THEN wall - z.before ELSE Min(shown))
    BY DEF WallRight
  <1> HIDE DEF wall, e
  <1>6. \A t \in Int : Local(t, z) = t + IF t < z.at THEN z.before ELSE z.after
    BY DEF Local, Offset
  <1>7. Offset(z, wall - e) = (IF wall - e < z.at THEN z.before ELSE z.after)
        /\ Offset(z, wall + e) = (IF wall + e < z.at THEN z.before ELSE z.after)
    BY DEF Offset
  <1>8. ASSUME NEW t \in shown PROVE t \in read
    <2>1. t \in Int /\ wall - e <= t /\ t <= wall + e /\ Local(t, z) = wall
      BY <1>1
    <2>2. \E o \in offsets : t = wall - o
      <3>1. CASE t < z.at
        <4>1. wall - e < z.at /\ t = wall - z.before
          BY <1>1, <1>2, <1>3, <1>6, <2>1, <3>1
        <4> QED
          BY <1>7, <4>1
      <3>2. CASE ~(t < z.at)
        <4>1. ~(wall + e < z.at) /\ t = wall - z.after
          BY <1>1, <1>2, <1>3, <1>6, <2>1, <3>2
        <4> QED
          BY <1>7, <4>1
      <3> QED
        BY <3>1, <3>2
    <2> QED
      BY <2>1, <2>2
  <1>9. ASSUME NEW c \in read PROVE c \in shown
    <2>1. PICK o \in offsets : c = wall - o /\ Local(c, z) = wall
      OBVIOUS
    <2>2. o \in {z.before, z.after}
      BY <1>7
    <2>3. c \in (wall - e)..(wall + e)
      BY <1>1, <1>3, <2>1, <2>2
    <2> QED
      BY <2>1, <2>3
  <1>10. read = shown
    <2> HIDE DEF read, shown
    <2>1. read \subseteq shown /\ shown \subseteq read
      BY <1>8, <1>9
    <2> QED
      BY <2>1
  <1>11. read = {} => Offset(z, wall - e) = z.before
    <2>1. SUFFICES ASSUME Offset(z, wall - e) # z.before PROVE read # {}
      OBVIOUS
    <2>2. ~(wall - e < z.at) /\ Offset(z, wall - e) = z.after
      BY <1>7, <2>1
    <2> DEFINE c == wall - z.after
    <2>3. c \in Int /\ ~(c < z.at)
      BY <1>1, <1>2, <1>3, <2>2
    <2>4. Local(c, z) = c + z.after
      BY <1>6, <2>3
    <2>5. Local(c, z) = wall
      BY <1>1, <1>3, <2>4
    <2>6. c \in read
      BY <2>2, <2>5
    <2> QED
      BY <2>6
  <1> HIDE DEF read, shown
  <1> QED
    BY <1>4, <1>5, <1>10, <1>11

LEMMA CalendarStart == CalInit => CalTypeOK
  <1> SUFFICES ASSUME CalInit PROVE CalTypeOK
    OBVIOUS
  <1>1. 0 \in 0..CalendarDays
    BY CalendarNumbers
  <1> QED
    BY <1>1 DEF CalInit, CalTypeOK

LEMMA CalendarStep == CalTypeOK /\ [CalNext]_calvars => CalTypeOK'
  <1> SUFFICES ASSUME CalTypeOK, [CalNext]_calvars PROVE CalTypeOK'
    OBVIOUS
  <1>1. CASE AskNextDay
    <2>1. cday' \in 0..CalendarDays
      BY <1>1, CalendarNumbers DEF AskNextDay, CalTypeOK
    <2> QED
      BY <1>1, <2>1 DEF AskNextDay, CalTypeOK
  <1>2. CASE UNCHANGED calvars
    BY <1>2 DEF calvars, CalTypeOK
  <1> QED
    BY <1>1, <1>2 DEF CalNext

LEMMA CalendarHolds == CalTypeOK => CalendarRight
  <1> SUFFICES ASSUME CalTypeOK PROVE CalendarRight
    OBVIOUS
  <1>1. IsWindow(cwin) /\ cday \in Nat /\ cday \in Int /\ czone \in Zones
    <2> DEFINE durations == 1..(MaxSpan * DayTicks)
               all == RecurringWindows(durations, Nat, Nat)
    <2>1. {1, MaxSpan * DayTicks} \subseteq durations
      <3>1. MaxSpan * DayTicks \in Nat \ {0}
        BY CalendarNumbers
      <3> QED
        BY <3>1
    <2>2. Froms \subseteq Nat /\ Untils \subseteq Nat
      BY CalendarAssumption
    <2> HIDE DEF durations
    <2>3. RawWindows \subseteq all
      BY <2>1, <2>2 DEF RawWindows, RecurringWindows
    <2>4. cwin \in all /\ Validate(cwin)
      BY <2>3 DEF CalTypeOK
    <2> QED
      BY <2>4, CalendarNumbers DEF CalTypeOK, IsWindow, durations
  <1>2. cwin.minute \in Int
    BY <1>1, WindowIs
  <1>3. NextDateRight
    BY <1>1, NextStartIsRight DEF NextDateRight, NextRight
  <1>4. WallInstantRight
    BY <1>1, <1>2, WallInstantIsRight DEF WallInstantRight, WallRight
  <1> QED
    BY <1>3, <1>4 DEF CalendarRight

\* For every calendar, every valid window and every zone with one change of
\* the clocks: the days nextStartDate returns are those the window's rule
\* names, none missed and none added, and the instants are those at which the
\* clocks show the window's minute.
THEOREM CalendarStands == CalSpec => []CalendarRight
  <1>1. CalTypeOK /\ [CalNext]_calvars => CalTypeOK'
    BY CalendarStep
  <1> QED
    BY <1>1, CalendarStart, CalendarHolds, PTL DEF CalSpec

-----------------------------------------------------------------------------
(* The extremes of a set of numbers                                        *)

LEMMA MinIs ==
    ASSUME NEW S \in SUBSET Int, S # {}, NEW b \in Int, \A x \in S : b <= x
    PROVE  Min(S) \in S /\ \A x \in S : Min(S) <= x
  <1> DEFINE T == {n \in Nat : b + n \in S}
  <1>1. T # {}
    <2>1. PICK x \in S : TRUE
      OBVIOUS
    <2>2. x - b \in Nat /\ b + (x - b) = x
      BY <2>1
    <2> QED
      BY <2>2
  <1>2. PICK n \in T : \A m \in T : n <= m
    <2>1. T \in SUBSET Nat
      OBVIOUS
    <2> HIDE DEF T
    <2> QED
      BY <1>1, <2>1, LeastOf
  <1>3. b + n \in S /\ n \in Nat
    BY <1>2
  <1>4. ASSUME NEW x \in S PROVE b + n <= x
    <2>1. x - b \in Nat /\ b + (x - b) = x
      OBVIOUS
    <2>2. x - b \in T
      BY <2>1
    <2>3. n <= x - b
      BY <1>2, <2>2
    <2> QED
      BY <1>3, <2>1, <2>3
  <1>5. \E y \in S : \A x \in S : y <= x
    BY <1>3, <1>4
  <1> QED
    BY <1>5 DEF Min

LEMMA MaxIs ==
    ASSUME NEW S \in SUBSET Int, S # {}, IsFiniteSet(S)
    PROVE  Max(S) \in S /\ \A x \in S : x <= Max(S)
  <1> DEFINE Top1(T) == \E y \in T : \A x \in T : x <= y
             Bad == {n \in Nat : \E T \in SUBSET S : T # {} /\ Cardinality(T) = n /\ ~Top1(T)}
  <1>1. \A T \in SUBSET S : IsFiniteSet(T) /\ Cardinality(T) \in Nat
    BY FS_Subset, FS_CardinalityType
  <1>2. Bad = {}
    <2>1. SUFFICES ASSUME Bad # {} PROVE FALSE
      OBVIOUS
    <2>2. PICK n \in Bad : \A m \in Bad : n <= m
      <3>1. Bad \in SUBSET Nat
        OBVIOUS
      <3> HIDE DEF Bad
      <3> QED
        BY <2>1, <3>1, LeastOf
    <2>3. PICK T \in SUBSET S : T # {} /\ Cardinality(T) = n /\ ~Top1(T)
      BY <2>2
    <2>4. PICK x \in T : TRUE
      BY <2>3
    <2> DEFINE U == T \ {x}
    <2>5. U \in SUBSET S /\ Cardinality(U) = n - 1 /\ n \in Nat
      BY <1>1, <2>2, <2>3, <2>4, FS_RemoveElement
    <2>6. U # {}
      <3>1. SUFFICES ASSUME U = {} PROVE Top1(T)
        BY <2>3
      <3>2. \A y \in T : y <= x
        BY <2>4, <3>1
      <3> QED
        BY <2>4, <3>2
    <2>7. Top1(U)
      <3>1. Cardinality(U) \in Nat /\ ~(n <= n - 1)
        BY <1>1, <2>5
      <3>2. n - 1 \notin Bad
        BY <2>2, <3>1
      <3> HIDE DEF U, Top1
      <3> QED
        BY <2>5, <2>6, <3>1, <3>2
    <2>8. PICK y \in U : \A z \in U : z <= y
      BY <2>7
    <2>9. Top1(T)
      <3>1. x \in Int /\ y \in Int /\ y \in T
        BY <2>3, <2>4, <2>8
      <3>2. CASE y <= x
        <4>1. \A z \in T : z <= x
          BY <2>3, <2>8, <3>1, <3>2
        <4> QED
          BY <2>4, <4>1
      <3>3. CASE ~(y <= x)
        <4>1. \A z \in T : z <= y
          BY <2>3, <2>8, <3>1, <3>3
        <4> QED
          BY <3>1, <4>1
      <3> QED
        BY <3>2, <3>3
    <2> QED
      BY <2>3, <2>9
  <1>3. Top1(S)
    <2> HIDE DEF Top1
    <2> QED
      BY <1>1, <1>2
  <1> QED
    BY <1>3 DEF Max

-----------------------------------------------------------------------------
(* Days and instants                                                       *)

LEMMA ZoneIs ==
    ASSUME NEW z \in Zones
    PROVE  /\ z.at \in Int /\ z.before \in Int /\ z.after \in Int
           /\ z.before >= 0 - DayTicks /\ z.before <= DayTicks
           /\ z.after >= 0 - DayTicks /\ z.after <= DayTicks
           /\ z.after <= z.before + DayTicks
           /\ DateOf(z.at - 1, z) <= DateOf(z.at, z)
           /\ DateOf(MaxInstant + Horizon, z) <= LastDay
           /\ DayTicks \in Nat \ {0}
  <1>1. z.at \in Int /\ {z.before, z.after} \subseteq (-DayTicks)..DayTicks /\ z.after <= z.before + DayTicks
        /\ DateOf(z.at - 1, z) <= DateOf(z.at, z) /\ DateOf(MaxInstant + Horizon, z) <= LastDay
    BY CalendarAssumption, WindowsAssumption
  <1>2. DayTicks \in Nat \ {0}
    BY CalendarNumbers
  <1> QED
    BY <1>1, <1>2

LEMMA DivOrder ==
    ASSUME NEW n \in Nat \ {0}, NEW a \in Int, NEW b \in Int, a <= b
    PROVE  a \div n <= b \div n
  <1>1. /\ a \div n \in Int /\ n * (a \div n) \in Int /\ a = n * (a \div n) + (a % n) /\ a % n \in 0..(n - 1)
        /\ b \div n \in Int /\ n * (b \div n) \in Int /\ b = n * (b \div n) + (b % n) /\ b % n \in 0..(n - 1)
    BY DivMod
  <1>2. SUFFICES ASSUME b \div n < a \div n PROVE FALSE
    BY <1>1
  <1>3. n * (b \div n) + n <= n * (a \div n)
    BY <1>1, <1>2, Mul
  <1> DEFINE p == n * (a \div n)
             q == n * (b \div n)
             r == a % n
             s == b % n
  <1>4. p \in Int /\ q \in Int /\ a = p + r /\ b = q + s /\ r \in 0..(n - 1) /\ s \in 0..(n - 1) /\ q + n <= p
    BY <1>1, <1>3
  <1> HIDE DEF p, q, r, s
  <1> QED
    BY <1>4

LEMMA LocalIs ==
    ASSUME NEW z \in Zones, NEW t \in Int
    PROVE  Local(t, z) = (t + IF t < z.at THEN z.before ELSE z.after) /\ Local(t, z) \in Int
  BY ZoneIs DEF Local, Offset

\* The date goes on with the clock.
LEMMA DatesInOrder ==
    ASSUME NEW z \in Zones, NEW s \in Int, NEW t \in Int, s <= t
    PROVE  DateOf(s, z) <= DateOf(t, z) /\ DateOf(s, z) \in Int /\ DateOf(t, z) \in Int
  <1>0. z.at \in Int /\ z.before \in Int /\ z.after \in Int /\ DayTicks \in Nat \ {0}
    BY ZoneIs
  <1>1. \A u \in Int : DateOf(u, z) = Local(u, z) \div DayTicks
    BY DEF DateOf
  <1>2. \A u \in Int : DateOf(u, z) \in Int
    BY <1>0, <1>1, LocalIs, DivMod
  <1>3. ASSUME NEW u \in Int, NEW v \in Int, u <= v, u < z.at <=> v < z.at PROVE DateOf(u, z) <= DateOf(v, z)
    <2>1. Local(u, z) <= Local(v, z) /\ Local(u, z) \in Int /\ Local(v, z) \in Int
      BY <1>0, <1>3, LocalIs
    <2> QED
      BY <1>0, <1>1, <2>1, DivOrder
  <1>4. CASE s < z.at /\ z.at <= t
    <2>1. z.at - 1 \in Int /\ s <= z.at - 1 /\ (s < z.at <=> z.at - 1 < z.at) /\ (z.at < z.at <=> t < z.at)
      BY <1>0, <1>4
    <2>2. DateOf(s, z) <= DateOf(z.at - 1, z)
      BY <1>3, <2>1
    <2>3. DateOf(z.at, z) <= DateOf(t, z)
      BY <1>0, <1>3, <1>4, <2>1
    <2>4. DateOf(z.at - 1, z) <= DateOf(z.at, z)
      BY ZoneIs
    <2> QED
      BY <1>0, <1>2, <2>1, <2>2, <2>3, <2>4
  <1>5. CASE ~(s < z.at /\ z.at <= t)
    <2>1. s < z.at <=> t < z.at
      BY <1>0, <1>5
    <2> QED
      BY <1>2, <1>3, <2>1
  <1> QED
    BY <1>4, <1>5

\* Where the instant of a window's minute lies.
LEMMA WallStarts ==
    ASSUME NEW z \in Zones, NEW d \in Int, NEW minute \in 0..(DayTicks - 1)
    PROVE  /\ WallInstant(d, minute, z) \in Int
           /\ WallInstant(d, minute, z) <= DayTicks * d + minute + DayTicks
           /\ d <= DateOf(WallInstant(d, minute, z), z)
           /\ \A f \in Int : f < WallInstant(d, minute, z) => DateOf(f, z) - 1 <= d
  <1> DEFINE n == DayTicks
             wall == d * n + minute
             e == 2 * n
             shown == {t \in (wall - e)..(wall + e) : Local(t, z) = wall}
             s == WallInstant(d, minute, z)
  <1>0. /\ z.at \in Int /\ z.before \in Int /\ z.after \in Int /\ n \in Nat \ {0}
        /\ z.before >= 0 - n /\ z.before <= n /\ z.after >= 0 - n /\ z.after <= n /\ z.after <= z.before + n
    BY ZoneIs
  <1>1. minute \in Int /\ minute \in 0..(n - 1) /\ wall \in Int /\ e \in Nat /\ d * n = n * d /\ n * d \in Int
    BY <1>0
  <1>2. s = IF shown = {} THEN wall - z.before ELSE Min(shown)
    BY <1>1, WallInstantIsRight DEF WallRight
  <1>3. \A u \in Int : DateOf(u, z) = Local(u, z) \div n
    BY DEF DateOf
  <1>4. wall = n * d + minute
    BY <1>1
  <1>5. wall \div n = d
    <2> HIDE DEF wall
    <2> QED
      BY <1>0, <1>1, <1>4, DivIs
  <1> DEFINE nd == n * d
  <1>6. nd \in Int /\ wall = nd + minute
    BY <1>1, <1>4
  <1>7. e = n + n
    BY <1>0
  <1> HIDE DEF n, wall, e, s, nd
  <1>8. CASE shown # {}
    <2>1. shown \in SUBSET Int /\ \A x \in shown : wall - e <= x
      BY <1>1
    <2>2. s \in shown
      <3>1. wall - e \in Int
        BY <1>1
      <3> DEFINE low == wall - e
      <3>2. low \in Int /\ \A x \in shown : low <= x
        BY <2>1, <3>1
      <3> HIDE DEF shown, low
      <3>3. Min(shown) \in shown
        BY <1>8, <2>1, <3>2, MinIs
      <3> QED
        BY <1>2, <1>8, <3>3
    <2>3. s \in Int /\ Local(s, z) = wall
      BY <1>1, <2>2
    <2>4. DateOf(s, z) = d
      BY <1>3, <1>5, <2>3
    <2>5. s <= wall + n
      BY <1>0, <1>1, <2>3, LocalIs
    <2>6. ASSUME NEW f \in Int, f < s PROVE DateOf(f, z) - 1 <= d
      <3>1. DateOf(f, z) <= DateOf(s, z) /\ DateOf(f, z) \in Int
        BY <2>3, <2>6, DatesInOrder
      <3> QED
        BY <2>4, <3>1
    <2> QED
      BY <1>6, <2>3, <2>4, <2>5, <2>6 DEF s, n, nd
  <1>9. CASE shown = {}
    <2>1. s = wall - z.before /\ s \in Int /\ s <= wall + n
      BY <1>0, <1>1, <1>2, <1>9
    <2>2. ASSUME NEW t \in Int, wall - e <= t, t <= wall + e PROVE Local(t, z) # wall
      <3>1. t \in (wall - e)..(wall + e)
        BY <1>1, <2>2
      <3> QED
        BY <1>9, <3>1
    <2>3. z.at <= s
      <3>1. SUFFICES ASSUME s < z.at PROVE FALSE
        BY <1>0, <2>1
      <3>2. Local(s, z) = wall
        BY <1>0, <1>1, <2>1, <3>1, LocalIs
      <3>3. wall - e <= s /\ s <= wall + e
        BY <1>0, <1>1, <1>7, <2>1
      <3> QED
        BY <2>1, <2>2, <3>2, <3>3
    <2>4. z.before <= z.after
      <3>1. SUFFICES ASSUME z.after < z.before PROVE FALSE
        BY <1>0
      <3> DEFINE t == wall - z.after
      <3>2. t \in Int /\ ~(t < z.at) /\ wall - e <= t /\ t <= wall + e
        BY <1>0, <1>1, <1>7, <2>1, <2>3, <3>1
      <3>3. Local(t, z) = wall
        BY <1>0, <1>1, <3>2, LocalIs
      <3> QED
        BY <2>2, <3>2, <3>3
    <2>5. Local(s, z) = wall - z.before + z.after /\ Local(s, z) \in Int
      BY <1>0, <1>1, <2>1, <2>3, LocalIs
    <2>6. d <= DateOf(s, z)
      <3>1. wall <= Local(s, z)
        BY <1>0, <1>1, <2>4, <2>5
      <3>2. wall \div n <= Local(s, z) \div n
        BY <1>0, <1>1, <2>5, <3>1, DivOrder
      <3> QED
        BY <1>3, <1>5, <2>1, <3>2
    <2>7. ASSUME NEW f \in Int, f < s PROVE DateOf(f, z) - 1 <= d
      <3> DEFINE l == Local(f, z)
      <3>1. l \in Int /\ l <= wall + n
        <4>1. CASE f < z.at
          BY <1>0, <1>1, <2>1, <2>7, <4>1, LocalIs
        <4>2. CASE ~(f < z.at)
          BY <1>0, <1>1, <2>1, <2>7, <4>2, LocalIs
        <4> QED
          BY <4>1, <4>2
      <3> HIDE DEF l
      <3>2. l \div n <= (wall + n) \div n /\ wall + n \in Int
        BY <1>0, <1>1, <3>1, DivOrder
      <3>3. (wall + n) \div n = d + 1
        <4> DEFINE w1 == wall + n
                   d1 == d + 1
        <4>1. w1 \in Int /\ d1 \in Int /\ w1 = n * d1 + minute
          BY <1>0, <1>1, <1>4
        <4> HIDE DEF w1, d1
        <4>2. w1 \div n = d1
          BY <1>0, <1>1, <4>1, DivIs
        <4> QED
          BY <4>2 DEF w1, d1
      <3>4. DateOf(f, z) = l \div n
        BY <1>3 DEF l
      <3>5. DateOf(f, z) \in Int
        BY DatesInOrder
      <3> QED
        BY <3>2, <3>3, <3>4, <3>5
    <2> QED
      BY <1>6, <2>1, <2>6, <2>7 DEF s, n, nd
  <1> QED
    BY <1>8, <1>9

-----------------------------------------------------------------------------
(* The days an occurrence is looked for                                    *)

LEMMA NextOf ==
    ASSUME NEW w, IsWindow(w), NEW x \in Int
    PROVE  LET n == NextStartDate(w, x) IN
           \/ n = NoDay /\ \A d \in Int : x <= d => ~StartsOn(w, d)
           \/ n # NoDay /\ n \in Int /\ x <= n /\ StartsOn(w, n) /\ \A d \in Int : x <= d /\ d < n => ~StartsOn(w, d)
  <1> DEFINE n == NextStartDate(w, x)
  <1>1. w.from \in Nat /\ (w.until = NoField \/ w.until \in Nat) /\ NoDay \notin Int
    BY WindowIs, CalendarNumbers
  <1> DEFINE from == IF x < w.from THEN w.from ELSE x
  <1>2. PICK c : FirstFrom(w, from, c) /\ n = IF w.until # NoField /\ c > w.until THEN NoDay ELSE c
    BY <1>1, NextIs
  <1>3. c \in Int
    BY <1>2 DEF FirstFrom
  <1>4. IF n = NoDay THEN w.until # NoField /\ \A d \in x..w.until : ~StartsOn(w, d)
        ELSE n >= x /\ StartsOn(w, n) /\ \A d \in x..(n - 1) : ~StartsOn(w, d)
    BY NextStartIsRight DEF NextRight
  <1> HIDE DEF n, from
  <1>5. n = NoDay \/ n \in Int
    BY <1>2, <1>3
  <1>6. CASE n = NoDay
    <2>1. w.until # NoField /\ w.until \in Int /\ \A d \in x..w.until : ~StartsOn(w, d)
      BY <1>1, <1>4, <1>6
    <2>2. \A d \in Int : x <= d => ~StartsOn(w, d)
      BY <2>1 DEF StartsOn
    <2> QED
      BY <1>6, <2>2 DEF n
  <1>7. CASE n # NoDay
    <2>1. n \in Int /\ n >= x /\ StartsOn(w, n) /\ \A d \in x..(n - 1) : ~StartsOn(w, d)
      BY <1>4, <1>5, <1>7
    <2>2. \A d \in Int : x <= d /\ d < n => ~StartsOn(w, d)
      BY <2>1
    <2> QED
      BY <1>7, <2>1, <2>2 DEF n
  <1> QED
    BY <1>6, <1>7

NamedDays(w, x, last) == {d \in Int : x <= d /\ d <= last /\ StartsOn(w, d)}
IsWalk(f, w, last) ==
    f = [x \in Int |-> LET n == NextStartDate(w, x)
                       IN  IF n = NoDay THEN {} ELSE IF n > last THEN {} ELSE {n} \cup f[n + 1]]

LEMMA DaysFollow ==
    ASSUME NEW w, IsWindow(w), NEW last \in Int, NEW x \in Int
    PROVE  LET n == NextStartDate(w, x) IN
           NamedDays(w, x, last) = IF n = NoDay THEN {} ELSE IF n > last THEN {} ELSE {n} \cup NamedDays(w, n + 1, last)
  <1> DEFINE n == NextStartDate(w, x)
  <1>1. \/ n = NoDay /\ \A d \in Int : x <= d => ~StartsOn(w, d)
        \/ n # NoDay /\ n \in Int /\ x <= n /\ StartsOn(w, n) /\ \A d \in Int : x <= d /\ d < n => ~StartsOn(w, d)
    BY NextOf
  <1> HIDE DEF n
  <1>2. CASE n = NoDay
    <2>1. NamedDays(w, x, last) = {}
      BY <1>1, <1>2 DEF NamedDays
    <2> QED
      BY <1>2, <2>1 DEF n
  <1>3. CASE n # NoDay
    <2>1. n \in Int /\ x <= n /\ StartsOn(w, n) /\ \A d \in Int : x <= d /\ d < n => ~StartsOn(w, d)
      BY <1>1, <1>3
    <2>2. CASE n > last
      <3>1. NamedDays(w, x, last) = {}
        BY <2>1, <2>2 DEF NamedDays
      <3> QED
        BY <1>3, <2>2, <3>1 DEF n
    <2>3. CASE ~(n > last)
      <3>1. \A d : d \in NamedDays(w, x, last) <=> d = n \/ d \in NamedDays(w, n + 1, last)
        BY <2>1, <2>3 DEF NamedDays
      <3>2. NamedDays(w, x, last) = {n} \cup NamedDays(w, n + 1, last)
        BY <3>1
      <3> QED
        BY <1>3, <2>3, <3>2 DEF n
    <2> QED
      BY <2>2, <2>3
  <1> QED
    BY <1>2, <1>3

LEMMA WalkIs ==
    ASSUME NEW w, IsWindow(w), NEW last \in Int, NEW f, IsWalk(f, w, last), NEW x \in Int
    PROVE  f[x] = NamedDays(w, x, last)
  <1> DEFINE mu(y) == IF y > last THEN 0 ELSE last - y + 1
             Bad == {mu(y) : y \in {z \in Int : f[z] # NamedDays(w, z, last)}}
  <1>1. \A y \in Int : mu(y) \in Nat
    OBVIOUS
  <1>2. SUFFICES ASSUME Bad # {} PROVE FALSE
    OBVIOUS
  <1>3. PICK m \in Bad : \A k \in Bad : m <= k
    <2>1. Bad \in SUBSET Nat
      BY <1>1
    <2> HIDE DEF Bad
    <2> QED
      BY <1>2, <2>1, LeastOf
  <1>4. PICK y \in Int : f[y] # NamedDays(w, y, last) /\ m = mu(y)
    BY <1>3
  <1> DEFINE n == NextStartDate(w, y)
  <1>5. NamedDays(w, y, last) = IF n = NoDay THEN {} ELSE IF n > last THEN {} ELSE {n} \cup NamedDays(w, n + 1, last)
    BY DaysFollow
  <1>6. f[y] = IF n = NoDay THEN {} ELSE IF n > last THEN {} ELSE {n} \cup f[n + 1]
    BY DEF IsWalk
  <1>7. n = NoDay \/ (n \in Int /\ y <= n)
    BY NextOf
  <1> HIDE DEF n
  <1>8. n # NoDay /\ ~(n > last) /\ f[n + 1] # NamedDays(w, n + 1, last)
    BY <1>4, <1>5, <1>6
  <1>9. n + 1 \in Int /\ n \in Int /\ y <= n
    BY <1>7, <1>8
  <1>10. mu(n + 1) \in Bad
    BY <1>8, <1>9
  <1>11. mu(n + 1) < mu(y)
    BY <1>8, <1>9
  <1>12. mu(n + 1) \in Nat /\ mu(y) \in Nat
    BY <1>1, <1>9
  <1> HIDE DEF Bad, mu
  <1> QED
    BY <1>3, <1>4, <1>10, <1>11, <1>12

\* The days found one after another are those the rule names.
LEMMA StartDaysAre ==
    ASSUME NEW w, IsWindow(w), NEW last \in Int, NEW x \in Int
    PROVE  StartDays(w, x, last) = NamedDays(w, x, last)
  <1> DEFINE g == [y \in Int |-> NamedDays(w, y, last)]
             f == CHOOSE h : IsWalk(h, w, last)
  <1>1. IsWalk(g, w, last)
    <2>1. ASSUME NEW y \in Int
          PROVE  g[y] = LET n == NextStartDate(w, y) IN IF n = NoDay THEN {} ELSE IF n > last THEN {} ELSE {n} \cup g[n + 1]
      <3> DEFINE n == NextStartDate(w, y)
      <3>1. g[y] = IF n = NoDay THEN {} ELSE IF n > last THEN {} ELSE {n} \cup NamedDays(w, n + 1, last)
        BY DaysFollow
      <3>2. n = NoDay \/ g[n + 1] = NamedDays(w, n + 1, last)
        BY NextOf
      <3> HIDE DEF n, g
      <3> QED
        BY <3>1, <3>2 DEF n
    <2> QED
      BY <2>1 DEF IsWalk
  <1>2. IsWalk(f, w, last)
    BY <1>1
  <1>3. StartDays(w, x, last) = f[x]
    BY Zenon DEF StartDays, IsWalk
  <1> HIDE DEF f
  <1> QED
    BY <1>2, <1>3, WalkIs

-----------------------------------------------------------------------------
(* Every occurrence of a wrow                                               *)

IsOnce(w) == w.kind = "once" /\ w.starts \in Int /\ w.ends \in Int /\ w.ends > w.starts /\ w.until = NoField

\* A wrow with a valid window.
IsMaintenance(wrow) ==
    /\ IsOnce(wrow.win) \/ IsWindow(wrow.win)
    /\ wrow.ended = NoField \/ wrow.ended \in Int
    /\ \A k \in DOMAIN wrow.over : wrow.over[k] = Skipped \/ wrow.over[k] \in Int

Begins(wrow, z) ==
    IF wrow.win.kind = "once" THEN {wrow.win.starts}
    ELSE {WallInstant(d, wrow.win.minute, z) : d \in {x \in 0..LastDay : StartsOn(wrow.win, x)}}
Length(wrow) == IF wrow.win.kind = "once" THEN wrow.win.ends - wrow.win.starts ELSE wrow.win.dur
Piece(wrow, k) == Apply(wrow, [start |-> k, end |-> k + Length(wrow)])
Pieces(wrow, z) == {o \in {Piece(wrow, k) : k \in Begins(wrow, z)} : Live(o)}
IsStopped(wrow, k, t) == k \in DOMAIN wrow.over /\ (wrow.over[k] = Skipped \/ wrow.over[k] <= t)

RunsAt(wrow, k, e, t) == t < e /\ ~IsStopped(wrow, k, t) /\ (wrow.ended = NoField \/ t < wrow.ended)

LEMMA LeastOfThree ==
    ASSUME NEW a \in Int, NEW b \in Int, NEW c \in Int
    PROVE  Min({a, b, c}) \in {a, b, c} /\ Min({a, b, c}) <= a /\ Min({a, b, c}) <= b /\ Min({a, b, c}) <= c
  <1> DEFINE S == {a, b, c}
             low == IF a <= b /\ a <= c THEN a ELSE IF b <= c THEN b ELSE c
  <1>1. S \in SUBSET Int /\ S # {} /\ low \in Int /\ \A x \in S : low <= x
    OBVIOUS
  <1> HIDE DEF low
  <1>2. Min(S) \in S /\ \A x \in S : Min(S) <= x
    <2> HIDE DEF S
    <2> QED
      BY <1>1, MinIs
  <1> QED
    BY <1>2

\* What an override and the end of the window leave of an occurrence.
LEMMA AppliedIs ==
    ASSUME NEW wrow, IsMaintenance(wrow), NEW k \in Int, NEW e \in Int
    PROVE  LET o == Apply(wrow, [start |-> k, end |-> e]) IN
           /\ o = [start |-> k, end |-> o.end] /\ o.end \in Int /\ (k <= e => o.end <= e)
           /\ \A t \in Int : k <= t => (t < o.end <=> RunsAt(wrow, k, e, t))
  <1> DEFINE o == Apply(wrow, [start |-> k, end |-> e])
             early == IF k \in DOMAIN wrow.over THEN wrow.over[k] ELSE NoField
             cut == {e} \cup (IF early \in {NoField, Skipped} THEN {} ELSE {early})
                        \cup (IF wrow.ended = NoField THEN {} ELSE {wrow.ended})
             p == [start |-> k, end |-> e]
             pearly == IF p.start \in DOMAIN wrow.over THEN wrow.over[p.start] ELSE NoField
             pcut == {p.end} \cup (IF pearly \in {NoField, Skipped} THEN {} ELSE {pearly})
                        \cup (IF wrow.ended = NoField THEN {} ELSE {wrow.ended})
             b == IF early \in {NoField, Skipped} THEN e ELSE early
             c == IF wrow.ended = NoField THEN e ELSE wrow.ended
  <1>0. NoField \notin Int /\ Skipped \notin Int /\ Skipped # NoField
    BY CalendarNumbers, WindowsAssumption
  <1>1. o = [start |-> k, end |-> IF early = Skipped THEN k ELSE Min(cut)]
    <2>1. Apply(wrow, p) = [p EXCEPT !.end = IF pearly = Skipped THEN p.start ELSE Min(pcut)]
      BY Zenon DEF Apply
    <2>2. pearly = early /\ pcut = cut
      OBVIOUS
    <2> HIDE DEF pearly, pcut, early, cut
    <2> QED
      BY <2>1, <2>2
  <1>2. early = NoField \/ early = Skipped \/ early \in Int
    BY DEF IsMaintenance
  <1>3. wrow.ended = NoField \/ wrow.ended \in Int
    BY DEF IsMaintenance
  <1>4. cut = {e, b, c}
    OBVIOUS
  <1>5. b \in Int /\ c \in Int
    BY <1>2, <1>3
  <1>6. \A t \in Int : IsStopped(wrow, k, t) <=> early # NoField /\ (early = Skipped \/ early <= t)
    BY <1>0, <1>2 DEF IsStopped, IsMaintenance
  <1>7. b = (IF early \in {NoField, Skipped} THEN e ELSE early) /\ c = (IF wrow.ended = NoField THEN e ELSE wrow.ended)
    OBVIOUS
  <1> HIDE DEF early, cut, b, c
  <1>8. CASE early = Skipped
    <2>1. o = [start |-> k, end |-> k] /\ \A t \in Int : IsStopped(wrow, k, t)
      BY <1>0, <1>1, <1>6, <1>8
    <2>2. o = [start |-> k, end |-> o.end] /\ o.end = k
      BY <2>1
    <2>3. \A t \in Int : k <= t => ~(t < o.end) /\ IsStopped(wrow, k, t)
      BY <2>1, <2>2
    <2> HIDE DEF o
    <2>4. k <= e => o.end <= e
      BY <2>2
    <2> QED
      BY <2>2, <2>3, <2>4 DEF o, RunsAt
  <1>9. CASE early # Skipped
    <2> DEFINE least == Min({e, b, c})
    <2>1. o = [start |-> k, end |-> least]
      BY <1>1, <1>4, <1>9
    <2>2. least \in {e, b, c} /\ least <= e /\ least <= b /\ least <= c
      BY <1>5, LeastOfThree
    <2> HIDE DEF least
    <2>3. o = [start |-> k, end |-> o.end] /\ o.end = least
      BY <2>1
    <2>4. \A t \in Int : t < least <=> t < e /\ t < b /\ t < c
      BY <1>5, <2>2
    <2>5. \A t \in Int : t < e => (t < b <=> ~IsStopped(wrow, k, t))
      BY <1>0, <1>2, <1>6, <1>7, <1>9
    <2>6. \A t \in Int : t < e => (t < c <=> wrow.ended = NoField \/ t < wrow.ended)
      BY <1>7
    <2>7. \A t \in Int : t < least <=> t < e /\ ~IsStopped(wrow, k, t) /\ (wrow.ended = NoField \/ t < wrow.ended)
      BY <2>4, <2>5, <2>6
    <2>8. least \in Int /\ least <= e
      BY <1>5, <2>2
    <2> HIDE DEF o
    <2> QED
      BY <2>3, <2>7, <2>8 DEF o, RunsAt
  <1> QED
    BY <1>8, <1>9

LEMMA LengthIs ==
    ASSUME NEW wrow, IsMaintenance(wrow)
    PROVE  /\ Length(wrow) \in Nat \ {0}
           /\ wrow.win.kind # "once" <=> IsWindow(wrow.win)
           /\ wrow.win.kind # "once" => Length(wrow) = wrow.win.dur /\ Length(wrow) <= MaxSpan * DayTicks
           /\ wrow.win.kind = "once" => /\ wrow.win.starts \in Int /\ wrow.win.ends \in Int /\ wrow.win.until = NoField
                                       /\ Length(wrow) = wrow.win.ends - wrow.win.starts /\ wrow.win.ends > wrow.win.starts
  <1>1. CASE IsOnce(wrow.win)
    <2>1. wrow.win.kind = "once" /\ wrow.win.starts \in Int /\ wrow.win.ends \in Int /\ wrow.win.ends > wrow.win.starts
          /\ wrow.win.until = NoField
      BY <1>1 DEF IsOnce
    <2>2. ~IsWindow(wrow.win)
      BY <2>1, WindowIs
    <2>3. Length(wrow) = wrow.win.ends - wrow.win.starts
      BY <2>1 DEF Length
    <2>4. wrow.win.ends - wrow.win.starts \in Nat \ {0}
      BY <2>1
    <2> QED
      BY <2>1, <2>2, <2>3, <2>4
  <1>2. CASE IsWindow(wrow.win)
    <2>1. wrow.win.kind \in {"daily", "weekly", "monthly"} /\ wrow.win.dur \in Nat \ {0} /\ wrow.win.dur <= MaxSpan * DayTicks
      BY <1>2, WindowIs
    <2>2. Length(wrow) = wrow.win.dur /\ wrow.win.kind # "once"
      BY <2>1 DEF Length
    <2> QED
      BY <1>2, <2>1, <2>2
  <1> QED
    BY <1>1, <1>2 DEF IsMaintenance

LEMMA BeginsAre ==
    ASSUME NEW wrow, IsMaintenance(wrow), NEW z \in Zones
    PROVE  /\ \A k \in Begins(wrow, z) : k \in Int
           /\ wrow.win.kind # "once" =>
                 \A d \in Int : StartsOn(wrow.win, d) => d >= wrow.win.from /\ d >= 0 /\ (wrow.win.until # NoField => d <= wrow.win.until)
           /\ wrow.win.kind # "once" => wrow.win.minute \in 0..(DayTicks - 1)
  <1>1. CASE wrow.win.kind = "once"
    BY <1>1, LengthIs DEF Begins
  <1>2. CASE wrow.win.kind # "once"
    <2>1. IsWindow(wrow.win)
      BY <1>2, LengthIs
    <2>2. wrow.win.minute \in 0..(DayTicks - 1) /\ wrow.win.from \in Nat
      BY <2>1, WindowIs
    <2>3. \A d \in Int : StartsOn(wrow.win, d) => d >= wrow.win.from /\ (wrow.win.until # NoField => d <= wrow.win.until)
      BY DEF StartsOn
    <2>4. \A d \in Int : StartsOn(wrow.win, d) => d >= 0
      BY <2>2, <2>3
    <2>5. \A k \in Begins(wrow, z) : k \in Int
      BY <1>2, <2>2, WallStarts DEF Begins
    <2> QED
      BY <1>2, <2>2, <2>3, <2>4, <2>5
  <1> QED
    BY <1>1, <1>2

LEMMA PieceIs ==
    ASSUME NEW wrow, IsMaintenance(wrow), NEW k \in Int
    PROVE  LET o == Piece(wrow, k) IN
           /\ o = [start |-> k, end |-> o.end] /\ o.start = k /\ o.end \in Int /\ o.end <= k + Length(wrow)
           /\ \A t \in Int : k <= t => (t < o.end <=> RunsAt(wrow, k, k + Length(wrow), t))
  <1> DEFINE e == k + Length(wrow)
             o == Piece(wrow, k)
  <1>1. e \in Int /\ k <= e
    BY LengthIs
  <1>2. o = Apply(wrow, [start |-> k, end |-> e])
    BY DEF Piece
  <1> HIDE DEF e
  <1>3. /\ o = [start |-> k, end |-> o.end] /\ o.end \in Int /\ (k <= e => o.end <= e)
        /\ \A t \in Int : k <= t => (t < o.end <=> RunsAt(wrow, k, e, t))
    BY <1>1, <1>2, AppliedIs
  <1> HIDE DEF o
  <1>4. o.start = k
    BY <1>3
  <1> QED
    BY <1>1, <1>3, <1>4 DEF e, o

-----------------------------------------------------------------------------
(* What a search for occurrences finds                                     *)

\* Where the occurrences begin that a search from day x to the last looks at.
Searched(wrow, z, x, last) ==
    IF wrow.win.kind = "once" THEN {wrow.win.starts}
    ELSE {WallInstant(d, wrow.win.minute, z) : d \in NamedDays(wrow.win, x, last)}

PlannedFrom(wrow, z, x, last) ==
    IF wrow.win.kind = "once" THEN {[start |-> wrow.win.starts, end |-> wrow.win.ends]}
    ELSE {Planned(wrow.win, d, z) : d \in StartDays(wrow.win, x, last)}

FindsPieces(wrow, z, x, last) ==
    {Apply(wrow, p) : p \in PlannedFrom(wrow, z, x, last)} = {Piece(wrow, k) : k \in Searched(wrow, z, x, last)}

LEMMA SearchedPieces ==
    ASSUME NEW wrow, IsMaintenance(wrow), NEW z \in Zones, NEW x \in Int, NEW last \in Int
    PROVE  FindsPieces(wrow, z, x, last)
  <1> DEFINE w == wrow.win
             all == IF w.kind = "once" THEN {[start |-> w.starts, end |-> w.ends]}
                    ELSE {Planned(w, d, z) : d \in StartDays(w, x, last)}
             K == Searched(wrow, z, x, last)
  <1>1. all = {[start |-> k, end |-> k + Length(wrow)] : k \in K}
    <2>1. CASE w.kind = "once"
      <3>1. w.starts + Length(wrow) = w.ends
        BY <2>1, LengthIs
      <3>2. K = {w.starts}
        BY <2>1 DEF Searched
      <3> QED
        BY <2>1, <3>1, <3>2
    <2>2. CASE w.kind # "once"
      <3>1. IsWindow(w) /\ Length(wrow) = w.dur
        BY <2>2, LengthIs
      <3>2. StartDays(w, x, last) = NamedDays(w, x, last)
        BY <3>1, StartDaysAre
      <3>3. all = {Planned(w, d, z) : d \in NamedDays(w, x, last)}
        BY <2>2, <3>2
      <3>4. K = {WallInstant(d, w.minute, z) : d \in NamedDays(w, x, last)}
        BY <2>2 DEF Searched
      <3>5. \A d : Planned(w, d, z) = [start |-> WallInstant(d, w.minute, z), end |-> WallInstant(d, w.minute, z) + Length(wrow)]
        BY <3>1 DEF Planned
      <3> QED
        BY ZenonT(60), <3>3, <3>4, <3>5
    <2> QED
      BY <2>1, <2>2
  <1>2. \A k : Apply(wrow, [start |-> k, end |-> k + Length(wrow)]) = Piece(wrow, k)
    BY DEF Piece
  <1> HIDE DEF all, K
  <1>3. {Apply(wrow, p) : p \in all} = {Piece(wrow, k) : k \in K}
    BY <1>1, <1>2
  <1> QED
    BY <1>3 DEF all, K, PlannedFrom, FindsPieces

Touching(wrow, z, from, to) == {o \in Pieces(wrow, z) : o.start < to /\ o.end > from}
Later(wrow, z, after) == {o \in Pieces(wrow, z) : o.start > after}

LEMMA WindowsNumbers ==
    /\ Horizon \in Nat \ {0} /\ MaxInstant \in Nat \ {0} /\ LastDay \in Nat \ {0} /\ DayTicks \in Nat \ {0}
    /\ MaxSpan \in Nat \ {0} /\ MaxSpan * DayTicks \in Nat
    /\ NoField \notin Int /\ Skipped \notin Int /\ Skipped # NoField
  BY CalendarNumbers, WindowsAssumption

\* The piece that begins on day d of a recurring window.
LEMMA DayPiece ==
    ASSUME NEW wrow, IsMaintenance(wrow), wrow.win.kind # "once", NEW z \in Zones, NEW d \in Int, StartsOn(wrow.win, d)
    PROVE  LET s == WallInstant(d, wrow.win.minute, z)
               o == Piece(wrow, s)
           IN  /\ s \in Int /\ o.start = s /\ o.end \in Int /\ o.end <= s + MaxSpan * DayTicks
               /\ 0 <= d /\ d <= DateOf(s, z)
               /\ \A f \in Int : f < s => DateOf(f, z) - 1 <= d
  <1> DEFINE s == WallInstant(d, wrow.win.minute, z)
             span == MaxSpan * DayTicks
  <1>1. wrow.win.minute \in 0..(DayTicks - 1) /\ 0 <= d
    BY BeginsAre
  <1>2. s \in Int /\ d <= DateOf(s, z) /\ \A f \in Int : f < s => DateOf(f, z) - 1 <= d
    BY <1>1, WallStarts
  <1>3. Length(wrow) <= span /\ Length(wrow) \in Nat /\ span \in Int
    BY LengthIs, WindowsNumbers
  <1> HIDE DEF s, span
  <1> DEFINE o == Piece(wrow, s)
  <1>4. o.start = s /\ o.end \in Int /\ o.end <= s + Length(wrow)
    BY <1>2, PieceIs
  <1> HIDE DEF o
  <1>5. o.end <= s + span
    BY <1>2, <1>3, <1>4
  <1> QED
    BY <1>1, <1>2, <1>4, <1>5 DEF s, span, o

LEMMA OccurrencesAre ==
    ASSUME NEW wrow, IsMaintenance(wrow), NEW z \in Zones, NEW from \in Int, NEW to \in Int, to <= MaxInstant + Horizon
    PROVE  Occurrences(wrow, z, from, to) = Touching(wrow, z, from, to)
  <1> DEFINE w == wrow.win
             span == MaxSpan * DayTicks
             x == DateOf(from - span, z) - 1
             last == DateOf(to, z)
             all == IF w.kind = "once" THEN {[start |-> w.starts, end |-> w.ends]}
                    ELSE {Planned(w, d, z) : d \in StartDays(w, x, last)}
             K == Searched(wrow, z, x, last)
  <1>1. span \in Int /\ from - span \in Int /\ MaxInstant + Horizon \in Int
    BY WindowsNumbers
  <1>2. x \in Int /\ last \in Int /\ last <= LastDay
    <2>1. DateOf(from - span, z) \in Int /\ last \in Int /\ last <= DateOf(MaxInstant + Horizon, z)
          /\ DateOf(MaxInstant + Horizon, z) \in Int
      BY <1>1, DatesInOrder
    <2>2. DateOf(MaxInstant + Horizon, z) <= LastDay
      BY ZoneIs
    <2> QED
      BY <2>1, <2>2, WindowsNumbers
  <1>3. Occurrences(wrow, z, from, to) = {o \in {Apply(wrow, p) : p \in all} : Live(o) /\ o.start < to /\ o.end > from}
    BY Zenon DEF Occurrences
  <1>4. {Apply(wrow, p) : p \in all} = {Piece(wrow, k) : k \in K}
    <2>1. all = PlannedFrom(wrow, z, x, last)
      BY Zenon DEF PlannedFrom
    <2> HIDE DEF all, K, x, last
    <2>2. FindsPieces(wrow, z, x, last)
      BY <1>2, SearchedPieces
    <2> QED
      BY <2>1, <2>2 DEF K, FindsPieces
  <1>5. Occurrences(wrow, z, from, to) = {o \in {Piece(wrow, k) : k \in K} : Live(o) /\ o.start < to /\ o.end > from}
    BY <1>3, <1>4
  <1> HIDE DEF all, last, x, span
  <1>6. K \subseteq Begins(wrow, z)
    <2>1. CASE w.kind = "once"
      BY <2>1 DEF Searched, Begins
    <2>2. CASE w.kind # "once"
      <3>1. \A d \in NamedDays(w, x, last) : d \in 0..LastDay /\ StartsOn(w, d)
        <4>1. \A d \in Int : StartsOn(w, d) => 0 <= d
          BY <2>2, BeginsAre
        <4> QED
          BY <1>2, <4>1, WindowsNumbers DEF NamedDays
      <3> QED
        BY <2>2, <3>1 DEF Searched, Begins
    <2> QED
      BY <2>1, <2>2
  <1>7. ASSUME NEW k \in Begins(wrow, z), Piece(wrow, k).start < to, Piece(wrow, k).end > from PROVE k \in K
    <2>1. CASE w.kind = "once"
      BY <1>7, <2>1 DEF Searched, Begins
    <2>2. CASE w.kind # "once"
      <3>1. PICK d \in 0..LastDay : StartsOn(w, d) /\ k = WallInstant(d, w.minute, z)
        BY <1>7, <2>2 DEF Begins
      <3>2. d \in Int
        BY <3>1, WindowsNumbers
      <3> DEFINE o == Piece(wrow, k)
      <3>3. /\ k \in Int /\ o.start = k /\ o.end \in Int /\ o.end <= k + span /\ d <= DateOf(k, z)
            /\ \A f \in Int : f < k => DateOf(f, z) - 1 <= d
        BY <2>2, <3>1, <3>2, DayPiece DEF span
      <3>4. k < to /\ from - span < k
        BY <1>1, <1>7, <3>3
      <3>5. DateOf(k, z) <= last /\ DateOf(k, z) \in Int
        BY <3>3, <3>4, DatesInOrder DEF last
      <3>6. x <= d
        BY <1>1, <3>3, <3>4 DEF x
      <3>7. d \in NamedDays(w, x, last)
        BY <1>2, <3>1, <3>2, <3>3, <3>5, <3>6 DEF NamedDays
      <3> QED
        BY <2>2, <3>1, <3>7 DEF Searched
    <2> QED
      BY <2>1, <2>2
  <1> HIDE DEF K
  <1>8. \A o : o \in Occurrences(wrow, z, from, to) <=> o \in Touching(wrow, z, from, to)
    BY <1>5, <1>6, <1>7 DEF Touching, Pieces
  <1> QED
    BY <1>8

LEMMA NextOccurrenceAre ==
    ASSUME NEW wrow, IsMaintenance(wrow), NEW z \in Zones, NEW after \in Int
    PROVE  NextOccurrence(wrow, z, after) = Later(wrow, z, after)
  <1> DEFINE w == wrow.win
             x == DateOf(after, z) - 1
             all == IF w.kind = "once" THEN {[start |-> w.starts, end |-> w.ends]}
                    ELSE {Planned(w, d, z) : d \in StartDays(w, x, LastDay)}
             K == Searched(wrow, z, x, LastDay)
  <1>1. x \in Int /\ LastDay \in Int
    <2>1. DateOf(after, z) \in Int
      BY DatesInOrder
    <2> QED
      BY <2>1, WindowsNumbers
  <1>2. NextOccurrence(wrow, z, after) = {o \in {Apply(wrow, p) : p \in all} : Live(o) /\ o.start > after}
    BY Zenon DEF NextOccurrence
  <1>3. {Apply(wrow, p) : p \in all} = {Piece(wrow, k) : k \in K}
    <2>1. all = PlannedFrom(wrow, z, x, LastDay)
      BY Zenon DEF PlannedFrom
    <2> HIDE DEF all, K, x
    <2>2. FindsPieces(wrow, z, x, LastDay)
      BY <1>1, SearchedPieces
    <2> QED
      BY <2>1, <2>2 DEF K, FindsPieces
  <1>4. NextOccurrence(wrow, z, after) = {o \in {Piece(wrow, k) : k \in K} : Live(o) /\ o.start > after}
    BY <1>2, <1>3
  <1> HIDE DEF all, x
  <1>5. K \subseteq Begins(wrow, z)
    <2>1. CASE w.kind = "once"
      BY <2>1 DEF Searched, Begins
    <2>2. CASE w.kind # "once"
      <3>1. \A d \in NamedDays(w, x, LastDay) : d \in 0..LastDay /\ StartsOn(w, d)
        <4>1. \A d \in Int : StartsOn(w, d) => 0 <= d
          BY <2>2, BeginsAre
        <4> QED
          BY <1>1, <4>1, WindowsNumbers DEF NamedDays
      <3> QED
        BY <2>2, <3>1 DEF Searched, Begins
    <2> QED
      BY <2>1, <2>2
  <1>6. ASSUME NEW k \in Begins(wrow, z), Piece(wrow, k).start > after PROVE k \in K
    <2>1. CASE w.kind = "once"
      BY <1>6, <2>1 DEF Searched, Begins
    <2>2. CASE w.kind # "once"
      <3>1. PICK d \in 0..LastDay : StartsOn(w, d) /\ k = WallInstant(d, w.minute, z)
        BY <1>6, <2>2 DEF Begins
      <3>2. d \in Int /\ d <= LastDay
        BY <3>1, WindowsNumbers
      <3> DEFINE o == Piece(wrow, k)
      <3>3. k \in Int /\ o.start = k /\ \A f \in Int : f < k => DateOf(f, z) - 1 <= d
        BY <2>2, <3>1, <3>2, DayPiece
      <3>4. after < k
        BY <1>6, <3>3
      <3>5. x <= d
        BY <3>3, <3>4 DEF x
      <3>6. d \in NamedDays(w, x, LastDay)
        BY <3>1, <3>2, <3>5 DEF NamedDays
      <3> QED
        BY <2>2, <3>1, <3>6 DEF Searched
    <2> QED
      BY <2>1, <2>2
  <1> HIDE DEF K
  <1>7. \A o : o \in NextOccurrence(wrow, z, after) <=> o \in Later(wrow, z, after)
    BY <1>4, <1>5, <1>6 DEF Later, Pieces
  <1> QED
    BY <1>7

Holding(o, t) == o.start <= t /\ t < o.end

\* The instants covered are those some occurrence of the row holds.
LEMMA CoveredIs ==
    ASSUME NEW wrow, IsMaintenance(wrow), NEW z \in Zones
    PROVE  /\ Covered(wrow, z) \subseteq Int
           /\ \A t \in Int : t \in Covered(wrow, z) <=> \E o \in Pieces(wrow, z) : Holding(o, t)
  <1> DEFINE B == Begins(wrow, z)
             len == Length(wrow)
             cov(k) == {k + n : n \in {m \in 0..(len - 1) : ~IsStopped(wrow, k, k + m)}}
  <1>1. Covered(wrow, z) = {t \in UNION {cov(k) : k \in B} : wrow.ended = NoField \/ t < wrow.ended}
    BY Zenon DEF Covered, Begins, Length, IsStopped
  <1>2. len \in Nat
    BY LengthIs
  <1>3. \A k \in B : k \in Int
    BY BeginsAre
  <1> HIDE DEF B, len
  <1>4. ASSUME NEW k \in Int, NEW t \in Int
        PROVE  t \in cov(k) <=> k <= t /\ t < k + len /\ ~IsStopped(wrow, k, t)
    <2>1. ASSUME t \in cov(k) PROVE k <= t /\ t < k + len /\ ~IsStopped(wrow, k, t)
      BY <1>2, <2>1
    <2>2. ASSUME k <= t, t < k + len, ~IsStopped(wrow, k, t) PROVE t \in cov(k)
      <3>1. t - k \in 0..(len - 1) /\ k + (t - k) = t
        BY <1>2, <2>2
      <3> QED
        BY <2>2, <3>1
    <2> QED
      BY <2>1, <2>2
  <1>5. \A k \in Int : cov(k) \subseteq Int
    BY <1>2
  <1> HIDE DEF cov
  <1>6. ASSUME NEW t \in Int
        PROVE  t \in Covered(wrow, z) <=> \E k \in B : k <= t /\ RunsAt(wrow, k, k + len, t)
    BY <1>1, <1>3, <1>4 DEF RunsAt
  <1>7. ASSUME NEW t \in Int, NEW k \in B
        PROVE  k <= t /\ RunsAt(wrow, k, k + len, t) <=> Holding(Piece(wrow, k), t)
    <2> DEFINE o == Piece(wrow, k)
    <2>1. o.start = k /\ (k <= t => (t < o.end <=> RunsAt(wrow, k, k + len, t)))
      BY <1>3, PieceIs DEF len
    <2> QED
      BY <2>1 DEF Holding
  <1>8. ASSUME NEW t \in Int, NEW k \in B, Holding(Piece(wrow, k), t) PROVE Live(Piece(wrow, k))
    <2> DEFINE o == Piece(wrow, k)
    <2>1. o.start = k /\ o.end \in Int /\ k \in Int
      BY <1>3, PieceIs
    <2> QED
      BY <1>8, <2>1 DEF Holding, Live
  <1>9. \A t \in Int : t \in Covered(wrow, z) <=> \E o \in Pieces(wrow, z) : Holding(o, t)
    BY <1>6, <1>7, <1>8 DEF Pieces, B
  <1>10. Covered(wrow, z) \subseteq Int
    BY <1>1, <1>3, <1>5
  <1> QED
    BY <1>9, <1>10

\* A piece is an interval of instants.
LEMMA PiecesAre ==
    ASSUME NEW wrow, IsMaintenance(wrow), NEW z \in Zones, NEW o \in Pieces(wrow, z)
    PROVE  o = [start |-> o.start, end |-> o.end] /\ o.start \in Int /\ o.end \in Int /\ o.start < o.end
  <1>1. PICK k \in Begins(wrow, z) : o = Piece(wrow, k) /\ Live(o)
    BY DEF Pieces
  <1>2. k \in Int
    BY BeginsAre
  <1>3. o = [start |-> k, end |-> o.end] /\ o.start = k /\ o.end \in Int
    BY <1>1, <1>2, PieceIs
  <1> QED
    BY <1>1, <1>2, <1>3 DEF Live

-----------------------------------------------------------------------------
(* Intervals in order                                                      *)

LEMMA ImageFinite ==
    ASSUME NEW S, IsFiniteSet(S), NEW f, NEW T, T = {f[x] : x \in S}
    PROVE  IsFiniteSet(T)
  <1> DEFINE g == [x \in S |-> f[x]]
  <1>1. g \in Surjection(S, T)
    <2>1. g \in [S -> T] /\ \A t \in T : \E x \in S : g[x] = t
      OBVIOUS
    <2> QED
      BY <2>1 DEF Surjection
  <1> HIDE DEF g
  <1> QED
    BY <1>1, FS_Surjection

IsInterval(o) == o = [start |-> o.start, end |-> o.end] /\ o.start \in Int /\ o.end \in Int /\ o.start < o.end
AreIntervals(os) == IsFiniteSet(os) /\ \A o \in os : IsInterval(o)
Below(os, o) == {p \in os : StartsBefore(p, o)}

LEMMA RankIs ==
    ASSUME NEW os, AreIntervals(os)
    PROVE  /\ Cardinality(os) \in Nat
           /\ \A o \in os : RankIn(os, o) \in 0..(Cardinality(os) - 1)
           /\ \A a, b \in os : StartsBefore(a, b) => RankIn(os, a) < RankIn(os, b)
           /\ \A a, b \in os : RankIn(os, a) = RankIn(os, b) => a = b
  <1>0. \A o \in os : o = [start |-> o.start, end |-> o.end] /\ o.start \in Int /\ o.end \in Int
    BY DEF AreIntervals, IsInterval
  <1>1. IsFiniteSet(os) /\ Cardinality(os) \in Nat
    BY FS_CardinalityType DEF AreIntervals
  <1>2. \A o \in os : RankIn(os, o) = Cardinality(Below(os, o))
    BY DEF RankIn, Below
  <1>3. \A o \in os : IsFiniteSet(Below(os, o)) /\ RankIn(os, o) \in Nat
    <2>1. ASSUME NEW o \in os PROVE IsFiniteSet(Below(os, o)) /\ Cardinality(Below(os, o)) \in Nat
      <3>1. Below(os, o) \in SUBSET os
        BY DEF Below
      <3> QED
        BY <1>1, <3>1, FS_Subset, FS_CardinalityType
    <2> QED
      BY <1>2, <2>1
  <1>4. ASSUME NEW o \in os, NEW T \in SUBSET os, Below(os, o) \cup {o} \subseteq T
        PROVE  RankIn(os, o) < Cardinality(T) /\ Cardinality(T) \in Nat
    <2> DEFINE U == Below(os, o) \cup {o}
    <2>1. o \notin Below(os, o)
      BY <1>0 DEF Below, StartsBefore
    <2>2. Cardinality(U) = RankIn(os, o) + 1
      BY <1>2, <1>3, <2>1, FS_AddElement
    <2>3. IsFiniteSet(T) /\ Cardinality(T) \in Nat
      BY <1>1, FS_Subset, FS_CardinalityType
    <2>4. U \in SUBSET T
      BY <1>4
    <2>5. Cardinality(U) <= Cardinality(T)
      <3> HIDE DEF U
      <3> QED
        BY <2>3, <2>4, FS_Subset
    <2> QED
      BY <1>3, <2>2, <2>3, <2>5
  <1>5. ASSUME NEW o \in os PROVE RankIn(os, o) \in 0..(Cardinality(os) - 1)
    <2>1. Below(os, o) \cup {o} \subseteq os
      BY DEF Below
    <2>2. RankIn(os, o) < Cardinality(os)
      BY <1>4, <2>1
    <2> QED
      BY <1>1, <1>3, <2>2
  <1>6. ASSUME NEW a \in os, NEW b \in os, StartsBefore(a, b) PROVE RankIn(os, a) < RankIn(os, b)
    <2>1. Below(os, a) \cup {a} \subseteq Below(os, b) /\ Below(os, b) \in SUBSET os
      BY <1>0, <1>6 DEF Below, StartsBefore
    <2> QED
      BY <1>2, <1>4, <2>1
  <1>7. ASSUME NEW a \in os, NEW b \in os, RankIn(os, a) = RankIn(os, b) PROVE a = b
    <2>1. ~StartsBefore(a, b) /\ ~StartsBefore(b, a)
      BY <1>3, <1>6, <1>7
    <2>2. a.start = b.start /\ a.end = b.end
      BY <1>0, <2>1 DEF StartsBefore
    <2> QED
      BY <1>0, <2>2
  <1> QED
    BY <1>1, <1>5, <1>6, <1>7

\* InOrder lists every interval, in order of start.
LEMMA InOrderIs ==
    ASSUME NEW os, AreIntervals(os)
    PROVE  /\ Cardinality(os) \in Nat
           /\ \A i \in 1..Cardinality(os) : InOrder(os)[i] \in os
           /\ \A o \in os : \E i \in 1..Cardinality(os) : InOrder(os)[i] = o
           /\ \A i, j \in 1..Cardinality(os) : i <= j => InOrder(os)[i].start <= InOrder(os)[j].start
  <1> DEFINE n == Cardinality(os)
             f == [o \in os |-> RankIn(os, o) + 1]
             s == InOrder(os)
  <1>0. n \in Nat /\ IsFiniteSet(os)
    BY RankIs DEF AreIntervals
  <1>1. f \in Injection(os, 1..n)
    <2>1. f \in [os -> 1..n]
      BY RankIs
    <2>2. \A a, b \in os : f[a] = f[b] => a = b
      <3>1. ASSUME NEW a \in os, NEW b \in os, f[a] = f[b] PROVE RankIn(os, a) = RankIn(os, b)
        <4>1. RankIn(os, a) \in Int /\ RankIn(os, b) \in Int
          BY RankIs
        <4> QED
          BY <3>1, <4>1
      <3> QED
        BY <3>1, RankIs
    <2> QED
      BY <2>1, <2>2 DEF Injection, IsInjective
  <1>2. IsFiniteSet(1..n) /\ Cardinality(1..n) = n
    BY <1>0, FS_Interval
  <1>3. f \in Surjection(os, 1..n)
    <2> HIDE DEF f
    <2> QED
      BY <1>0, <1>1, <1>2, FS_Injection
  <1>4. ASSUME NEW i \in 1..n PROVE s[i] \in os /\ RankIn(os, s[i]) = i - 1
    <2>1. PICK o \in os : f[o] = i
      BY <1>3 DEF Surjection
    <2>2. RankIn(os, o) = i - 1
      BY <2>1, RankIs
    <2>3. s[i] = CHOOSE p \in os : RankIn(os, p) = i - 1
      BY DEF InOrder
    <2> HIDE DEF s
    <2> QED
      BY <2>2, <2>3
  <1>5. ASSUME NEW o \in os PROVE \E i \in 1..n : s[i] = o
    <2> DEFINE i == RankIn(os, o) + 1
    <2>1. i \in 1..n /\ RankIn(os, o) = i - 1
      BY <1>0, RankIs
    <2> HIDE DEF i, s, n
    <2>2. s[i] \in os /\ RankIn(os, s[i]) = RankIn(os, o)
      BY <1>4, <2>1
    <2>3. s[i] = o
      BY <2>2, RankIs
    <2> QED
      BY <2>1, <2>3
  <1>6. ASSUME NEW i \in 1..n, NEW j \in 1..n, i <= j PROVE s[i].start <= s[j].start
    <2>1. s[i] \in os /\ s[j] \in os /\ RankIn(os, s[i]) = i - 1 /\ RankIn(os, s[j]) = j - 1
      BY <1>4
    <2>2. s[i].start \in Int /\ s[j].start \in Int
      BY <2>1 DEF AreIntervals, IsInterval
    <2>3. ~(RankIn(os, s[j]) < RankIn(os, s[i]))
      BY <1>0, <1>6, <2>1
    <2> HIDE DEF s
    <2>4. ~StartsBefore(s[j], s[i])
      BY <2>1, <2>3, RankIs
    <2> QED
      BY <2>2, <2>4 DEF StartsBefore
  <1> QED
    BY <1>0, <1>4, <1>5, <1>6

-----------------------------------------------------------------------------
(* Joining the intervals that run into one another                         *)

Held(os, t) == \E o \in os : Holding(o, t)

\* u follows the intervals from the instant top, one after the other.
IsJoin(os, top, u) ==
    u = [i \in 0..Cardinality(os) |-> IF i = 0 THEN top ELSE Extend(u[i - 1], InOrder(os)[i])]

LEMMA CountUp ==
    ASSUME NEW n \in Nat, NEW G \in SUBSET (0..n), 0 \in G, \A i \in 1..n : i - 1 \in G => i \in G
    PROVE  \A i \in 0..n : i \in G
  <1> DEFINE Bad == {i \in 0..n : i \notin G}
  <1>1. SUFFICES ASSUME Bad # {} PROVE FALSE
    OBVIOUS
  <1>2. PICK m \in Bad : \A i \in Bad : m <= i
    <2>1. Bad \in SUBSET Nat
      OBVIOUS
    <2> HIDE DEF Bad
    <2> QED
      BY <1>1, <2>1, LeastOf
  <1>3. m \in 0..n /\ m \notin G /\ m # 0
    BY <1>2
  <1>4. m \in 1..n /\ m - 1 \in 0..n /\ m - 1 \notin Bad
    BY <1>2, <1>3
  <1> QED
    BY <1>3, <1>4

\* The join reaches the first instant that no interval holds.
LEMMA JoinIs ==
    ASSUME NEW os, AreIntervals(os), NEW t \in Int, NEW top \in Int, t < top,
           \A v \in Int : t <= v /\ v < top => Held(os, v),
           NEW u, IsJoin(os, top, u)
    PROVE  LET end == u[Cardinality(os)] IN
           end \in Int /\ top <= end /\ ~Held(os, end) /\ \A v \in Int : t <= v /\ v < end => Held(os, v)
  <1> DEFINE n == Cardinality(os)
             s == InOrder(os)
             full(e) == \A v \in Int : t <= v /\ v < e => Held(os, v)
  <1>0. /\ n \in Nat
        /\ \A i \in 1..n : s[i] \in os
        /\ \A o \in os : \E i \in 1..n : s[i] = o
        /\ \A i, j \in 1..n : i <= j => s[i].start <= s[j].start
    BY InOrderIs
  <1>1. u[0] = top /\ \A i \in 1..n : u[i] = Extend(u[i - 1], s[i])
    <2>1. \A i \in 0..n : u[i] = IF i = 0 THEN top ELSE Extend(u[i - 1], s[i])
      BY DEF IsJoin
    <2>2. 0 \in 0..n /\ \A i \in 1..n : i \in 0..n /\ i # 0
      BY <1>0
    <2> QED
      BY <2>1, <2>2
  <1>2. \A i \in 1..n : s[i].start \in Int /\ s[i].end \in Int
    BY <1>0 DEF AreIntervals, IsInterval
  <1> HIDE DEF s, n
  <1>3. \A i \in 0..n : u[i] \in Int /\ top <= u[i] /\ full(u[i])
    <2> DEFINE good == {i \in 0..n : u[i] \in Int /\ top <= u[i] /\ full(u[i])}
    <2>1. good \in SUBSET (0..n) /\ 0 \in good
      BY <1>0, <1>1
    <2>2. ASSUME NEW i \in 1..n, i - 1 \in good PROVE i \in good
      <3>1. i - 1 \in 0..n /\ i \in 0..n
        BY <1>0
      <3>2. u[i - 1] \in Int /\ top <= u[i - 1] /\ full(u[i - 1])
        BY <2>2, <3>1
      <3>3. u[i] = IF s[i].start <= u[i - 1] /\ s[i].end > u[i - 1] THEN s[i].end ELSE u[i - 1]
        BY <1>1 DEF Extend
      <3>4. CASE s[i].start <= u[i - 1] /\ s[i].end > u[i - 1]
        <4>1. u[i] = s[i].end
          BY <3>3, <3>4
        <4>2. ASSUME NEW v \in Int, t <= v, v < s[i].end PROVE Held(os, v)
          <5>1. CASE v < u[i - 1]
            BY <3>2, <4>2, <5>1
          <5>2. CASE ~(v < u[i - 1])
            <6>1. s[i] \in os /\ Holding(s[i], v)
              BY <1>0, <1>2, <3>2, <3>4, <4>2, <5>2 DEF Holding
            <6> QED
              BY <6>1 DEF Held
          <5> QED
            BY <5>1, <5>2
        <4>3. u[i] \in Int /\ top <= u[i]
          BY <1>2, <3>2, <3>4, <4>1
        <4> QED
          BY <3>1, <4>1, <4>2, <4>3
      <3>5. CASE ~(s[i].start <= u[i - 1] /\ s[i].end > u[i - 1])
        <4>1. u[i] = u[i - 1]
          BY <3>3, <3>5
        <4> QED
          BY <3>1, <3>2, <4>1
      <3> QED
        BY <3>4, <3>5
    <2> HIDE DEF good
    <2>3. \A i \in 0..n : i \in good
      BY <1>0, <2>1, <2>2, CountUp
    <2> QED
      BY <2>3 DEF good
  <1> HIDE DEF full
  <1>4. \A i \in 1..n : u[i - 1] \in Int /\ u[i] \in Int /\ u[i - 1] <= u[i]
    <2>1. ASSUME NEW i \in 1..n PROVE u[i - 1] \in Int /\ u[i] \in Int /\ u[i - 1] <= u[i]
      <3>1. i - 1 \in 0..n /\ i \in 0..n
        BY <1>0
      <3>2. u[i - 1] \in Int /\ u[i] \in Int
        BY <1>3, <3>1
      <3> QED
        BY <1>1, <1>2, <3>2 DEF Extend
    <2> QED
      BY <2>1
  <1>5. ASSUME NEW o \in os, o.start <= u[n] PROVE o.end <= u[n]
    <2>1. PICK j \in 1..n : s[j] = o
      BY <1>0
    <2>2. j \in Int /\ 1 <= j /\ j <= n /\ u[n] \in Int
      BY <1>0, <1>3
    <2>3. CASE o.start <= u[j - 1]
      <3> DEFINE good == {i \in 0..n : j <= i => o.end <= u[i]}
      <3>1. o.end \in Int /\ \A i \in 0..n : u[i] \in Int
        BY <1>2, <1>3, <2>1
      <3>2. o.end <= u[j]
        BY <1>1, <1>2, <1>4, <2>1, <2>3 DEF Extend
      <3>3. good \in SUBSET (0..n) /\ 0 \in good
        BY <1>0, <2>2
      <3>4. ASSUME NEW i \in 1..n, i - 1 \in good PROVE i \in good
        <4>1. i - 1 \in 0..n /\ i \in 0..n /\ i \in Int
          BY <1>0
        <4>2. j <= i - 1 => o.end <= u[i - 1]
          BY <3>4, <4>1
        <4>3. j <= i => j = i \/ j <= i - 1
          BY <2>2, <4>1
        <4>4. j <= i => o.end <= u[i]
          BY <1>4, <3>1, <3>2, <4>2, <4>3
        <4> QED
          BY <4>1, <4>4
      <3> HIDE DEF good
      <3>5. n \in good
        <4>1. \A i \in 0..n : i \in good
          BY <1>0, <3>3, <3>4, CountUp
        <4>2. n \in 0..n
          BY <1>0
        <4> QED
          BY <4>1, <4>2
      <3> QED
        BY <1>0, <2>2, <3>5 DEF good
    <2>4. CASE ~(o.start <= u[j - 1])
      <3> DEFINE good == {i \in 0..n : j <= i => u[i] < o.start}
      <3>1. o.start \in Int /\ \A i \in 0..n : u[i] \in Int
        BY <1>2, <1>3, <2>1
      <3>2. u[j] < o.start
        BY <1>1, <1>2, <1>4, <2>1, <2>4, <3>1 DEF Extend
      <3>3. good \in SUBSET (0..n) /\ 0 \in good
        BY <1>0, <2>2
      <3>4. ASSUME NEW i \in 1..n, i - 1 \in good PROVE i \in good
        <4>1. i - 1 \in 0..n /\ i \in 0..n /\ i \in Int
          BY <1>0
        <4>2. j <= i - 1 => u[i - 1] < o.start
          BY <3>4, <4>1
        <4>3. j <= i => j = i \/ j <= i - 1
          BY <2>2, <4>1
        <4>4. ASSUME j <= i - 1 PROVE u[i] < o.start
          <5>1. o.start <= s[i].start
            BY <1>0, <2>1, <2>2, <4>1, <4>4
          <5>2. u[i - 1] < s[i].start
            BY <1>2, <1>4, <3>1, <4>2, <4>4, <5>1
          <5>3. u[i] = u[i - 1]
            BY <1>1, <1>2, <1>4, <5>2 DEF Extend
          <5> QED
            BY <4>2, <4>4, <5>3
        <4> QED
          BY <3>2, <4>1, <4>3, <4>4
      <3> HIDE DEF good
      <3>5. n \in good
        <4>1. \A i \in 0..n : i \in good
          BY <1>0, <3>3, <3>4, CountUp
        <4>2. n \in 0..n
          BY <1>0
        <4> QED
          BY <4>1, <4>2
      <3>6. u[n] < o.start
        BY <1>0, <2>2, <3>5 DEF good
      <3> QED
        BY <1>5, <2>2, <3>1, <3>6
    <2> QED
      BY <2>3, <2>4
  <1>6. u[n] \in Int /\ top <= u[n] /\ full(u[n])
    BY <1>0, <1>3
  <1>7. ~Held(os, u[n])
    <2>1. \A o \in os : o.end \in Int
      BY DEF AreIntervals, IsInterval
    <2> QED
      BY <1>5, <1>6, <2>1 DEF Held, Holding
  <1> QED
    BY <1>6, <1>7 DEF full, n

LEMMA JoinExists ==
    ASSUME NEW os, AreIntervals(os), NEW top \in Int
    PROVE  \E u : IsJoin(os, top, u)
  <1> DEFINE n == Cardinality(os)
             s == InOrder(os)
             A == Nat \X Int
             g == [x \in A |-> <<x[1] + 1, IF x[1] + 1 \in 1..n THEN Extend(x[2], s[x[1] + 1]) ELSE x[2]>>]
             a == <<0, top>>
  <1>0. n \in Nat /\ \A i \in 1..n : s[i] \in os
    BY InOrderIs
  <1>1. \A i \in 1..n : s[i].start \in Int /\ s[i].end \in Int
    BY <1>0 DEF AreIntervals, IsInterval
  <1> HIDE DEF s, n
  <1>2. a \in A /\ g \in [A -> A]
    BY <1>1 DEF Extend
  <1>3. PICK P : IsPath(P, A, g, a)
    <2> HIDE DEF A, g, a
    <2> QED
      BY <1>2, PathExists
  <1>4. P \in [Nat -> A] /\ P[0] = a /\ \A i \in Nat : P[i + 1] = g[P[i]]
    BY <1>3 DEF IsPath
  <1>5. \A i \in Nat : P[i][1] \in Nat /\ P[i][2] \in Int /\ P[i] = <<P[i][1], P[i][2]>>
    BY <1>4
  <1>6. \A i \in Nat : /\ P[i + 1][1] = P[i][1] + 1
                       /\ P[i + 1][2] = IF P[i][1] + 1 \in 1..n THEN Extend(P[i][2], s[P[i][1] + 1]) ELSE P[i][2]
    <2>1. ASSUME NEW x \in A
          PROVE  g[x] = <<x[1] + 1, IF x[1] + 1 \in 1..n THEN Extend(x[2], s[x[1] + 1]) ELSE x[2]>>
      OBVIOUS
    <2>2. ASSUME NEW i \in Nat
          PROVE  P[i + 1] = <<P[i][1] + 1, IF P[i][1] + 1 \in 1..n THEN Extend(P[i][2], s[P[i][1] + 1]) ELSE P[i][2]>>
      <3>1. P[i] \in A /\ P[i + 1] = g[P[i]]
        BY <1>4
      <3> HIDE DEF g, A
      <3> QED
        BY <2>1, <3>1
    <2> QED
      BY <2>2
  <1>7. P[0][1] = 0 /\ P[0][2] = top
    BY <1>4
  <1> HIDE DEF A, g, a
  <1>8. \A i \in 0..n : P[i][1] = i
    <2> DEFINE good == {i \in 0..n : P[i][1] = i}
    <2>1. good \in SUBSET (0..n) /\ 0 \in good
      BY <1>0, <1>7
    <2>2. ASSUME NEW i \in 1..n, i - 1 \in good PROVE i \in good
      <3>1. i - 1 \in 0..n /\ i \in 0..n /\ i - 1 \in Nat /\ (i - 1) + 1 = i
        BY <1>0
      <3>2. P[i - 1][1] = i - 1
        BY <2>2, <3>1
      <3>3. P[(i - 1) + 1][1] = P[i - 1][1] + 1
        BY <1>6, <3>1
      <3>4. P[i][1] = i
        BY <3>1, <3>2, <3>3
      <3> QED
        BY <3>1, <3>4
    <2> HIDE DEF good
    <2>3. \A i \in 0..n : i \in good
      BY <1>0, <2>1, <2>2, CountUp
    <2> QED
      BY <2>3 DEF good
  <1> DEFINE u == [i \in 0..n |-> P[i][2]]
  <1>9. ASSUME NEW i \in 0..n PROVE u[i] = IF i = 0 THEN top ELSE Extend(u[i - 1], s[i])
    <2>1. CASE i = 0
      BY <1>7, <2>1
    <2>2. CASE i # 0
      <3>1. i - 1 \in 0..n /\ i - 1 \in Nat /\ (i - 1) + 1 = i /\ i \in 1..n
        BY <1>0, <2>2
      <3>2. P[i - 1][1] + 1 = i
        BY <1>8, <3>1
      <3>3. P[i][2] = Extend(P[i - 1][2], s[i])
        BY <1>6, <3>1, <3>2
      <3> QED
        BY <2>2, <3>1, <3>3
    <2> QED
      BY <2>1, <2>2
  <1>10. u = [i \in 0..n |-> IF i = 0 THEN top ELSE Extend(u[i - 1], s[i])]
    <2> DEFINE rhs == [i \in 0..n |-> IF i = 0 THEN top ELSE Extend(u[i - 1], s[i])]
    <2>1. \A i \in 0..n : u[i] = rhs[i]
      BY <1>9
    <2>2. u = [i \in 0..n |-> u[i]] /\ rhs = [i \in 0..n |-> rhs[i]]
      OBVIOUS
    <2> HIDE DEF u, rhs
    <2>3. u = rhs
      BY <2>1, <2>2
    <2> QED
      BY <2>3 DEF rhs
  <1>11. IsJoin(os, top, u)
    <2> HIDE DEF u
    <2> QED
      BY <1>10 DEF IsJoin, n, s
  <1> QED
    BY <1>11

-----------------------------------------------------------------------------
(* Whether a host is in maintenance, and until when                        *)

IsValidWindow(w) == (w \in OnceWindows \/ w \in RecurringWindows(1..(MaxSpan * DayTicks), Nat, Nat)) /\ Validate(w)

LEMMA ValidWindowIs == ASSUME NEW w, IsValidWindow(w) PROVE IsOnce(w) \/ IsWindow(w)
  <1>1. CASE w \in OnceWindows
    <2>1. w.kind = "once" /\ w.starts \in Int /\ w.ends \in Int /\ w.until = NoField
      BY <1>1 DEF OnceWindows
    <2>2. w.ends > w.starts
      BY <2>1 DEF IsValidWindow, Validate, ValidOnce
    <2> QED
      BY <2>1, <2>2 DEF IsOnce
  <1>2. CASE w \in RecurringWindows(1..(MaxSpan * DayTicks), Nat, Nat)
    BY <1>2 DEF IsValidWindow, IsWindow
  <1> QED
    BY <1>1, <1>2 DEF IsValidWindow

LEMMA PiecesFinite ==
    ASSUME NEW wrow, IsMaintenance(wrow), NEW z \in Zones
    PROVE  AreIntervals(Pieces(wrow, z))
  <1> DEFINE B == Begins(wrow, z)
             days == {x \in 0..LastDay : StartsOn(wrow.win, x)}
             f == [d \in days |-> WallInstant(d, wrow.win.minute, z)]
             g == [k \in B |-> Piece(wrow, k)]
             all == {g[k] : k \in B}
  <1>1. IsFiniteSet(days)
    <2>1. IsFiniteSet(0..LastDay) /\ days \in SUBSET (0..LastDay)
      BY WindowsNumbers, FS_Interval
    <2> HIDE DEF days
    <2> QED
      BY <2>1, FS_Subset
  <1>2. IsFiniteSet(B)
    <2>1. CASE wrow.win.kind = "once"
      BY <2>1, FS_Singleton DEF Begins
    <2>2. CASE wrow.win.kind # "once"
      <3>1. B = {f[d] : d \in days}
        BY <2>2 DEF Begins
      <3> HIDE DEF B, f, days
      <3> QED
        BY <1>1, <3>1, ImageFinite
    <2> QED
      BY <2>1, <2>2
  <1> HIDE DEF B
  <1>3. \A k \in B : g[k] = Piece(wrow, k)
    OBVIOUS
  <1>4. IsFiniteSet(all)
    <2> HIDE DEF g
    <2> QED
      BY <1>2, ImageFinite
  <1>5. Pieces(wrow, z) \in SUBSET all
    BY <1>3 DEF Pieces, B
  <1>6. IsFiniteSet(Pieces(wrow, z))
    <2> HIDE DEF all
    <2> QED
      BY <1>4, <1>5, FS_Subset
  <1> QED
    BY <1>6, PiecesAre DEF AreIntervals, IsInterval

\* What the query leaves out is over.
LEMMA LeftBehind ==
    ASSUME NEW wrow, IsMaintenance(wrow), NEW z \in Zones, NEW t \in Int,
           \/ wrow.ended # NoField /\ wrow.ended <= t
           \/ wrow.win.kind = "once" /\ wrow.win.ends <= t
           \/ wrow.win.until # NoField /\ wrow.win.until < (t - (MaxSpan + 1) * DayTicks) \div DayTicks,
           NEW v \in Int, t <= v
    PROVE  v \notin Covered(wrow, z)
  <1>1. SUFFICES ASSUME v \in Covered(wrow, z) PROVE FALSE
    OBVIOUS
  <1>2. PICK k \in Begins(wrow, z) : Holding(Piece(wrow, k), v)
    BY <1>1, CoveredIs DEF Pieces
  <1> DEFINE o == Piece(wrow, k)
             span == MaxSpan * DayTicks
             m == (MaxSpan + 1) * DayTicks
  <1>3. k \in Int
    BY BeginsAre
  <1>4. /\ o.start = k /\ o.end \in Int /\ o.end <= k + Length(wrow)
        /\ k <= v => (v < o.end <=> RunsAt(wrow, k, k + Length(wrow), v))
    BY <1>3, PieceIs
  <1>5. k <= v /\ v < o.end
    BY <1>2, <1>4 DEF Holding
  <1>6. v < k + Length(wrow) /\ (wrow.ended = NoField \/ v < wrow.ended)
    BY <1>4, <1>5 DEF RunsAt
  <1>7. wrow.ended = NoField \/ wrow.ended \in Int
    BY DEF IsMaintenance
  <1>8. CASE wrow.ended # NoField /\ wrow.ended <= t
    BY <1>6, <1>7, <1>8
  <1>9. CASE wrow.win.kind = "once" /\ wrow.win.ends <= t
    <2>1. k = wrow.win.starts
      BY <1>9 DEF Begins
    <2>2. wrow.win.starts \in Int /\ wrow.win.ends \in Int /\ Length(wrow) = wrow.win.ends - wrow.win.starts
      BY <1>9, LengthIs
    <2> QED
      BY <1>6, <1>9, <2>1, <2>2
  <1>10. CASE wrow.win.kind # "once" /\ wrow.win.until # NoField /\ wrow.win.until < (t - m) \div DayTicks
    <2>1. PICK d \in 0..LastDay : StartsOn(wrow.win, d) /\ k = WallInstant(d, wrow.win.minute, z)
      BY <1>10 DEF Begins
    <2> DEFINE n == DayTicks
               minute == wrow.win.minute
               until == wrow.win.until
               q == (t - m) \div n
    <2>2. d \in Int
      BY <2>1, WindowsNumbers
    <2>3. d <= until /\ minute \in 0..(n - 1)
      BY <1>10, <2>1, <2>2, BeginsAre
    <2>4. k <= n * d + minute + n
      BY <2>1, <2>2, <2>3, WallStarts
    <2>5. Length(wrow) <= span /\ Length(wrow) \in Nat
      BY <1>10, LengthIs
    <2>6. n \in Nat \ {0} /\ span \in Nat /\ m = span + n /\ m \in Int /\ until \in Int
      <3>1. IsWindow(wrow.win)
        BY <1>10, LengthIs
      <3>2. until \in Nat
        BY <1>10, <3>1, WindowIs
      <3>3. MaxSpan \in Nat /\ n \in Nat \ {0} /\ span \in Nat
        BY WindowsNumbers
      <3>4. m = span + n
        BY <3>3
      <3> QED
        BY <3>2, <3>3, <3>4
    <2> DEFINE a == t - m
    <2>7. a \in Int /\ until < a \div n
      BY <1>10, <2>6
    <2> HIDE DEF span, m, n, minute, until, a
    <2>8. a \div n \in Int /\ n * (a \div n) \in Int /\ n * (a \div n) <= a
      <3>1. /\ a \div n \in Int /\ n * (a \div n) \in Int /\ a = n * (a \div n) + (a % n) /\ a % n \in 0..(n - 1)
        BY <2>6, <2>7, DivMod
      <3> DEFINE p == n * (a \div n)
                 r == a % n
      <3>2. p \in Int /\ a = p + r /\ r \in 0..(n - 1)
        BY <3>1
      <3> HIDE DEF p, r
      <3>3. p <= a
        BY <2>6, <3>2
      <3> QED
        BY <3>1, <3>3 DEF p
    <2>9. n * d + n <= n * (a \div n) /\ n * d \in Int
      <3>1. d < a \div n
        BY <2>2, <2>3, <2>6, <2>7, <2>8
      <3> QED
        BY <2>2, <2>6, <2>8, <3>1, Mul
    <2> DEFINE nd == n * d
               nq == n * (a \div n)
    <2>10. nd \in Int /\ nq \in Int /\ nd + n <= nq /\ nq <= a /\ k <= nd + minute + n
      BY <2>4, <2>8, <2>9
    <2> HIDE DEF nd, nq
    <2>11. a = t - m
      BY DEF a
    <2> QED
      BY <1>3, <1>6, <2>3, <2>5, <2>6, <2>10, <2>11
  <1>11. ASSUME wrow.win.kind = "once" PROVE wrow.win.until = NoField
    BY <1>11, LengthIs
  <1> QED
    BY <1>8, <1>9, <1>10, <1>11

\* What the answers depend on, in a state.
AnswersFrom ==
    /\ zone \in Zones /\ now \in 0..MaxInstant
    /\ \A wrow \in Rows : IsMaintenance(wrow)

Found(rows, z, t) == UNION {Occurrences(wrow, z, t, t + Horizon) : wrow \in rows}
Running(os, t) == {o.end : o \in {p \in os : p.start <= t /\ p.end > t}}

LEMMA ActiveAtIs ==
    ASSUME NEW rows, NEW z, NEW t
    PROVE  LET all == Found(rows, z, t)
               u == CHOOSE v : IsJoin(all, Max(Running(all, t)), v)
           IN  ActiveAt(rows, z, t) = IF Running(all, t) = {} THEN NoField ELSE Min({t + Horizon, u[Cardinality(all)]})
  BY Zenon DEF ActiveAt, Uninterrupted, Found, Running, IsJoin

LEMMA RowsFinite == IsFiniteSet(Rows)
  <1> DEFINE ids == {j \in Wids : rowsW[j] # NoWindow}
  <1>1. IsFiniteSet(ids)
    <2>1. IsFiniteSet(Wids) /\ ids \in SUBSET Wids
      BY WindowsAssumption
    <2> HIDE DEF ids
    <2> QED
      BY <2>1, FS_Subset
  <1>2. Rows = {rowsW[i] : i \in ids}
    BY DEF Rows
  <1> HIDE DEF ids
  <1> QED
    BY <1>1, <1>2, ImageFinite

\* The occurrences found for some rows hold the instants ahead the rows cover.
LEMMA FoundAre ==
    ASSUME NEW z \in Zones, NEW t \in Int, t <= MaxInstant, NEW rows, IsFiniteSet(rows),
           \A wrow \in rows : IsMaintenance(wrow)
    PROVE  /\ AreIntervals(Found(rows, z, t))
           /\ \A v \in Int : Held(Found(rows, z, t), v) => \E wrow \in rows : v \in Covered(wrow, z)
           /\ \A v \in Int : t <= v /\ v < t + Horizon =>
                 ((\E wrow \in rows : v \in Covered(wrow, z)) => Held(Found(rows, z, t), v))
  <1> DEFINE to == t + Horizon
             f == [wrow \in rows |-> Occurrences(wrow, z, t, to)]
             parts == {f[wrow] : wrow \in rows}
             all == Found(rows, z, t)
  <1>1. to \in Int /\ to <= MaxInstant + Horizon
    BY WindowsNumbers
  <1>2. \A wrow \in rows : Occurrences(wrow, z, t, to) = Touching(wrow, z, t, to)
    <2> HIDE DEF to
    <2> QED
      BY <1>1, OccurrencesAre
  <1>3. all = UNION parts
    <2>1. parts = {Occurrences(wrow, z, t, t + Horizon) : wrow \in rows}
      OBVIOUS
    <2> HIDE DEF parts
    <2> QED
      BY <2>1 DEF Found
  <1>4. \A wrow \in rows : f[wrow] = Touching(wrow, z, t, to)
    BY <1>2
  <1>5. \A o : o \in all <=> \E wrow \in rows : o \in Pieces(wrow, z) /\ o.start < to /\ o.end > t
    <2> HIDE DEF f, all
    <2> QED
      BY <1>3, <1>4 DEF Touching
  <1>6. IsFiniteSet(parts)
    <2> HIDE DEF f
    <2> QED
      BY ImageFinite
  <1>7. ASSUME NEW wrow \in rows PROVE IsFiniteSet(f[wrow])
    <2>1. Touching(wrow, z, t, to) \in SUBSET Pieces(wrow, z)
      BY DEF Touching
    <2>2. IsFiniteSet(Pieces(wrow, z))
      BY PiecesFinite DEF AreIntervals
    <2>3. IsFiniteSet(Touching(wrow, z, t, to))
      <3> HIDE DEF to
      <3> QED
        BY <2>1, <2>2, FS_Subset
    <2> QED
      BY <1>4, <2>3
  <1>8. IsFiniteSet(all)
    <2>1. \A T \in parts : IsFiniteSet(T)
      BY <1>7
    <2> HIDE DEF parts, all
    <2> QED
      BY <1>3, <1>6, <2>1, FS_UNION
  <1>9. \A wrow \in rows : \A o \in Pieces(wrow, z) : IsInterval(o)
    BY PiecesFinite DEF AreIntervals
  <1> HIDE DEF all, to, f, parts
  <1>10. AreIntervals(all)
    BY <1>5, <1>8, <1>9 DEF AreIntervals
  <1>11. ASSUME NEW v \in Int, Held(all, v) PROVE \E wrow \in rows : v \in Covered(wrow, z)
    <2>1. PICK o \in all : Holding(o, v)
      BY <1>11 DEF Held
    <2>2. PICK wrow \in rows : o \in Pieces(wrow, z)
      BY <1>5, <2>1
    <2>3. v \in Covered(wrow, z)
      BY <2>1, <2>2, CoveredIs
    <2> QED
      BY <2>3
  <1>12. ASSUME NEW v \in Int, t <= v, v < to, NEW wrow \in rows, v \in Covered(wrow, z) PROVE Held(all, v)
    <2>1. PICK o \in Pieces(wrow, z) : Holding(o, v)
      BY <1>12, CoveredIs
    <2>2. o.start \in Int /\ o.end \in Int
      BY <1>9 DEF IsInterval
    <2>3. o.start < to /\ o.end > t
      BY <1>1, <1>12, <2>1, <2>2 DEF Holding
    <2> QED
      BY <1>5, <2>1, <2>3 DEF Held
  <1> QED
    BY <1>10, <1>11, <1>12 DEF all, to

\* The answer for some rows is the first instant ahead none of them covers.
FirstFree(rows, z, t, out) ==
    \/ out = NoField /\ ~\E wrow \in rows : t \in Covered(wrow, z)
    \/ /\ out \in Int /\ t < out /\ out <= t + Horizon
       /\ \A v \in Int : t <= v /\ v < out => \E wrow \in rows : v \in Covered(wrow, z)
       /\ out = t + Horizon \/ ~\E wrow \in rows : out \in Covered(wrow, z)

LEMMA AnswerIs ==
    ASSUME NEW z \in Zones, NEW t \in Int, t <= MaxInstant, NEW rows, IsFiniteSet(rows),
           \A wrow \in rows : IsMaintenance(wrow)
    PROVE  FirstFree(rows, z, t, ActiveAt(rows, z, t))
  <1> DEFINE all == Found(rows, z, t)
             running == Running(all, t)
             top == Max(running)
             u == CHOOSE v : IsJoin(all, top, v)
             end == u[Cardinality(all)]
             out == ActiveAt(rows, z, t)
             cov(v) == \E wrow \in rows : v \in Covered(wrow, z)
  <1>1. out = IF running = {} THEN NoField ELSE Min({t + Horizon, end})
    BY ActiveAtIs
  <1>2. /\ AreIntervals(all)
        /\ \A v \in Int : Held(all, v) => cov(v)
        /\ \A v \in Int : t <= v /\ v < t + Horizon => (cov(v) => Held(all, v))
    BY FoundAre
  <1>3. Horizon \in Nat \ {0}
    BY WindowsNumbers
  <1>4. \A o \in all : o.start \in Int /\ o.end \in Int
    BY <1>2 DEF AreIntervals, IsInterval
  <1> HIDE DEF all, cov, out
  <1>5. CASE running = {}
    <2>1. out = NoField
      BY <1>1, <1>5
    <2>2. ~Held(all, t)
      BY <1>4, <1>5 DEF Running, Held, Holding
    <2>3. ~cov(t)
      BY <1>2, <1>3, <2>2
    <2> QED
      BY <2>1, <2>3 DEF FirstFree, cov, out
  <1>6. CASE running # {}
    <2>1. running \in SUBSET Int /\ IsFiniteSet(running)
      <3> DEFINE now1 == {p \in all : p.start <= t /\ p.end > t}
                 f == [o \in now1 |-> o.end]
      <3>1. IsFiniteSet(now1)
        <4>1. now1 \in SUBSET all /\ IsFiniteSet(all)
          BY <1>2 DEF AreIntervals
        <4> HIDE DEF now1
        <4> QED
          BY <4>1, FS_Subset
      <3>2. running = {f[o] : o \in now1}
        BY DEF Running
      <3>3. running \in SUBSET Int
        BY <1>4 DEF Running
      <3> HIDE DEF now1, f, running
      <3> QED
        BY <3>1, <3>2, <3>3, ImageFinite
    <2>2. top \in running /\ \A x \in running : x <= top
      <3> HIDE DEF running
      <3> QED
        BY <1>6, <2>1, MaxIs
    <2>3. PICK big \in all : big.start <= t /\ big.end > t /\ top = big.end
      BY <2>2 DEF Running
    <2>4. top \in Int /\ t < top
      BY <1>4, <2>3
    <2>5. ASSUME NEW v \in Int, t <= v, v < top PROVE Held(all, v)
      BY <1>4, <2>3, <2>5 DEF Held, Holding
    <2> HIDE DEF running, top
    <2>6. IsJoin(all, top, u)
      BY <1>2, <2>4, JoinExists
    <2> HIDE DEF u
    <2>7. end \in Int /\ top <= end /\ ~Held(all, end) /\ \A v \in Int : t <= v /\ v < end => Held(all, v)
      BY <1>2, <2>4, <2>5, <2>6, JoinIs
    <2> DEFINE limit == t + Horizon
    <2>8. limit \in Int /\ t < limit
      BY <1>3
    <2> HIDE DEF end
    <2>9. out \in {limit, end} /\ out <= limit /\ out <= end
      <3> HIDE DEF limit
      <3>1. out = Min({limit, end, end})
        <4>1. {limit, end} = {limit, end, end}
          OBVIOUS
        <4> QED
          BY <1>1, <1>6, <4>1 DEF limit
      <3> QED
        BY <2>7, <2>8, <3>1, LeastOfThree
    <2>10. out \in Int /\ t < out
      BY <2>4, <2>7, <2>8, <2>9
    <2>11. \A v \in Int : t <= v /\ v < out => cov(v)
      BY <1>2, <2>7, <2>8, <2>9, <2>10
    <2>12. out = limit \/ ~cov(out)
      <3>1. SUFFICES ASSUME out # limit PROVE ~cov(out)
        OBVIOUS
      <3>2. out = end /\ out < limit
        BY <2>8, <2>9, <2>10, <3>1
      <3> QED
        BY <1>2, <2>7, <2>10, <3>2
    <2> QED
      BY <2>9, <2>10, <2>11, <2>12 DEF FirstFree, cov, out
  <1> QED
    BY <1>5, <1>6

LEMMA UntilIs == AnswersFrom => UntilRight
  <1> SUFFICES ASSUME AnswersFrom PROVE UntilRight
    OBVIOUS
  <1>1. zone \in Zones /\ now \in Int /\ now <= MaxInstant /\ \A wrow \in Rows : IsMaintenance(wrow)
    BY WindowsNumbers DEF AnswersFrom
  <1>2. ASSUME NEW h \in WHosts
        PROVE  LET covered == UNION {Covered(wrow, zone) : wrow \in {x \in Rows : Covers(x, h)}}
                   free == {t \in now..(now + Horizon) : t = now + Horizon \/ t \notin covered}
               IN  ActiveAt(ForHost(h), zone, now) = (IF Min(free) = now THEN NoField ELSE Min(free))
    <2> DEFINE rows == ForHost(h)
               covered == UNION {Covered(wrow, zone) : wrow \in {x \in Rows : Covers(x, h)}}
               free == {t \in now..(now + Horizon) : t = now + Horizon \/ t \notin covered}
               out == ActiveAt(rows, zone, now)
    <2>1. rows \in SUBSET Rows /\ OpenWindows \subseteq Rows
      BY DEF ForHost, OpenWindows
    <2>2. IsFiniteSet(rows)
      <3> HIDE DEF rows
      <3> QED
        BY <2>1, RowsFinite, FS_Subset
    <2>3. \A wrow \in rows : IsMaintenance(wrow)
      BY <1>1, <2>1
    <2>4. FirstFree(rows, zone, now, out)
      <3> HIDE DEF rows
      <3> QED
        BY <1>1, <2>2, <2>3, AnswerIs
    <2>5. ASSUME NEW v \in Int, now <= v PROVE v \in covered <=> \E wrow \in rows : v \in Covered(wrow, zone)
      <3>1. ASSUME NEW wrow \in Rows, Covers(wrow, h), wrow \notin rows PROVE v \notin Covered(wrow, zone)
        <4>1. wrow \notin OpenWindows
          BY <3>1 DEF ForHost
        <4>2. \/ wrow.ended # NoField /\ ~(wrow.ended > now)
              \/ wrow.win.kind = "once" /\ ~(wrow.win.ends > now)
              \/ wrow.win.until # NoField /\ ~(wrow.win.until >= (now - (MaxSpan + 1) * DayTicks) \div DayTicks)
          BY <4>1 DEF OpenWindows
        <4>3. IsMaintenance(wrow)
          BY <1>1
        <4>4. wrow.ended = NoField \/ wrow.ended \in Int
          BY <4>3 DEF IsMaintenance
        <4>5. wrow.win.kind = "once" => wrow.win.ends \in Int
          BY <4>3, LengthIs
        <4>6. wrow.win.until = NoField \/ wrow.win.until \in Int
          <5>1. IsWindow(wrow.win) => wrow.win.until = NoField \/ wrow.win.until \in Nat
            BY WindowIs
          <5> QED
            BY <4>3, <5>1, LengthIs
        <4> DEFINE q == (now - (MaxSpan + 1) * DayTicks) \div DayTicks
        <4>7. q \in Int
          <5>1. now - (MaxSpan + 1) * DayTicks \in Int /\ DayTicks \in Nat \ {0}
            BY <1>1, WindowsNumbers
          <5> DEFINE a == now - (MaxSpan + 1) * DayTicks
          <5>2. a \in Int
            BY <5>1
          <5> HIDE DEF a
          <5>3. a \div DayTicks \in Int
            BY <5>1, <5>2, DivMod
          <5> QED
            BY <5>3 DEF a
        <4>8. \/ wrow.ended # NoField /\ wrow.ended <= now
              \/ wrow.win.kind = "once" /\ wrow.win.ends <= now
              \/ wrow.win.until # NoField /\ wrow.win.until < q
          <5> HIDE DEF q
          <5>1. \/ wrow.ended # NoField /\ ~(wrow.ended > now)
                \/ wrow.win.kind = "once" /\ ~(wrow.win.ends > now)
                \/ wrow.win.until # NoField /\ ~(wrow.win.until >= q)
            BY <4>2 DEF q
          <5> QED
            BY <1>1, <4>4, <4>5, <4>6, <4>7, <5>1
        <4> QED
          BY <1>1, <2>5, <4>3, <4>8, LeftBehind
      <3>2. v \in covered <=> \E wrow \in Rows : Covers(wrow, h) /\ v \in Covered(wrow, zone)
        OBVIOUS
      <3>3. \A wrow \in rows : wrow \in Rows /\ Covers(wrow, h)
        BY <2>1 DEF ForHost
      <3> HIDE DEF covered, rows
      <3> QED
        BY <3>1, <3>2, <3>3
    <2>6. Horizon \in Nat \ {0}
      BY WindowsNumbers
    <2> DEFINE first == IF out = NoField THEN now ELSE out
    <2> HIDE DEF covered, rows, out
    <2>7. first \in free /\ \A v \in free : first <= v
      <3>1. CASE out = NoField
        <4>1. ~\E wrow \in rows : now \in Covered(wrow, zone)
          BY <2>4, <3>1, WindowsNumbers DEF FirstFree
        <4>2. now \notin covered
          BY <1>1, <2>5, <4>1
        <4> QED
          BY <1>1, <2>6, <3>1, <4>2
      <3>2. CASE out # NoField
        <4>1. /\ out \in Int /\ now < out /\ out <= now + Horizon
              /\ \A v \in Int : now <= v /\ v < out => \E wrow \in rows : v \in Covered(wrow, zone)
              /\ out = now + Horizon \/ ~\E wrow \in rows : out \in Covered(wrow, zone)
          BY <2>4, <3>2 DEF FirstFree
        <4>2. \A v \in Int : now <= v /\ v < out => v \in covered
          BY <2>5, <4>1
        <4>3. out = now + Horizon \/ out \notin covered
          BY <1>1, <2>5, <4>1
        <4>4. out \in free
          BY <1>1, <2>6, <4>1, <4>3
        <4>5. \A v \in free : out <= v
          BY <1>1, <2>6, <4>1, <4>2
        <4> QED
          BY <3>2, <4>4, <4>5
      <3> QED
        BY <3>1, <3>2
    <2>8. free \in SUBSET Int /\ \A v \in free : now <= v
      BY <1>1, <2>6
    <2>9. Min(free) = first
      <3> HIDE DEF free, first
      <3>1. Min(free) \in free /\ \A v \in free : Min(free) <= v
        BY <1>1, <2>7, <2>8, MinIs
      <3>2. Min(free) \in Int /\ first \in Int /\ Min(free) <= first /\ first <= Min(free)
        BY <2>7, <2>8, <3>1
      <3> QED
        BY <3>2
    <2>10. out = IF first = now THEN NoField ELSE first
      <3>1. out = NoField \/ (out \in Int /\ now < out)
        BY <2>4 DEF FirstFree
      <3> QED
        BY <1>1, <3>1
    <2> HIDE DEF free, first
    <2> QED
      BY <2>9, <2>10 DEF free, covered, rows, out
  <1> QED
    BY <1>2 DEF UntilRight

LEMMA StatusIs == AnswersFrom => StatusRight
  <1> SUFFICES ASSUME AnswersFrom, NEW wrow \in Rows
               PROVE  LET ahead == {t \in Covered(wrow, zone) : t >= now}
                      IN  Status(wrow, zone, now) = (IF now \in ahead THEN "active" ELSE IF ahead = {} THEN "past" ELSE "scheduled")
    BY DEF StatusRight
  <1>1. zone \in Zones /\ now \in Int /\ now <= MaxInstant /\ IsMaintenance(wrow)
    BY WindowsNumbers DEF AnswersFrom
  <1> DEFINE ahead == {t \in Covered(wrow, zone) : t >= now}
             P == Pieces(wrow, zone)
             C == Current(wrow, zone, now)
             N == NextOccurrence(wrow, zone, now)
  <1>2. Occurrences(wrow, zone, now, now + 1) = Touching(wrow, zone, now, now + 1)
    <2>1. now + 1 \in Int /\ now + 1 <= MaxInstant + Horizon
      BY <1>1, WindowsNumbers
    <2> QED
      BY <1>1, <2>1, OccurrencesAre
  <1>3. \A o \in P : o.start \in Int /\ o.end \in Int /\ o.start < o.end
    BY <1>1, PiecesAre
  <1>4. C = {o \in P : Holding(o, now)}
    <2>1. C = {o \in Touching(wrow, zone, now, now + 1) : o.start <= now /\ o.end > now}
      BY <1>2 DEF Current
    <2> HIDE DEF C
    <2>2. \A o : o \in C <=> o \in P /\ Holding(o, now)
      BY <1>1, <1>3, <2>1 DEF Touching, Holding
    <2> QED
      BY <2>2
  <1>5. N = {o \in P : o.start > now}
    BY <1>1, NextOccurrenceAre DEF Later
  <1>6. Covered(wrow, zone) \subseteq Int /\ \A t \in Int : t \in Covered(wrow, zone) <=> \E o \in P : Holding(o, t)
    BY <1>1, CoveredIs
  <1> HIDE DEF C, N, P
  <1>7. now \in ahead <=> C # {}
    BY <1>1, <1>4, <1>6
  <1>8. ahead = {} <=> C = {} /\ N = {}
    <2>1. ASSUME NEW o \in C PROVE ahead # {}
      BY <1>7, <2>1
    <2>2. ASSUME NEW o \in N PROVE ahead # {}
      <3>1. o \in P /\ o.start > now /\ o.start \in Int /\ Holding(o, o.start)
        BY <1>3, <1>5, <2>2 DEF Holding
      <3>2. o.start \in Covered(wrow, zone) /\ o.start >= now
        BY <1>1, <1>6, <3>1
      <3> QED
        BY <3>2
    <2>3. ASSUME NEW t \in ahead PROVE C # {} \/ N # {}
      <3>1. t \in Int /\ t >= now /\ t \in Covered(wrow, zone)
        BY <1>6, <2>3
      <3>2. PICK o \in P : Holding(o, t)
        BY <1>6, <3>1
      <3>3. o.start \in Int /\ o.end \in Int /\ o.start <= t /\ t < o.end
        BY <1>3, <3>2 DEF Holding
      <3>4. CASE o.start <= now
        <4>1. Holding(o, now)
          BY <1>1, <3>1, <3>3, <3>4 DEF Holding
        <4> QED
          BY <1>4, <4>1
      <3>5. CASE ~(o.start <= now)
        BY <1>1, <1>5, <3>3, <3>5
      <3> QED
        BY <3>4, <3>5
    <2> HIDE DEF ahead
    <2> QED
      BY <2>1, <2>2, <2>3
  <1>9. Status(wrow, zone, now) = IF C # {} THEN "active" ELSE IF N # {} THEN "scheduled" ELSE "past"
    BY DEF Status, C, N
  <1> HIDE DEF ahead
  <1>10. Status(wrow, zone, now) = (IF now \in ahead THEN "active" ELSE IF ahead = {} THEN "past" ELSE "scheduled")
    BY <1>7, <1>8, <1>9
  <1> QED
    BY <1>10 DEF ahead

-----------------------------------------------------------------------------
(* Maintenance windows: the inductive invariant                            *)

\* A row as the table has it: the window is valid, and every override is a
\* stop, now or at an instant.
IsRow(wrow) ==
    /\ wrow = [win |-> wrow.win, scope |-> wrow.scope, ended |-> wrow.ended, over |-> wrow.over]
    /\ IsValidWindow(wrow.win) /\ wrow.scope \in Scopes /\ wrow.ended \in {NoField} \cup 0..MaxInstant
    /\ \A k \in DOMAIN wrow.over : wrow.over[k] = Skipped \/ wrow.over[k] \in Int

\* What a request is about to write of an occurrence is a stop too, and not
\* one of the future.
IsRequest(q) ==
    /\ q.id \in Wids /\ q.op \in {"update", "delete", "end", "override"}
    /\ q.op = "update" => IsValidWindow(q.win) /\ q.scope \in Scopes
    /\ q.op = "override" => q.value = Skipped \/ (q.value \in Int /\ q.value <= now)

WindowsInv ==
    /\ now \in 0..MaxInstant /\ calls \in 0..MaxCalls /\ zone \in Zones
    /\ rowsW = [i \in Wids |-> rowsW[i]] /\ wreq = [r \in WReqs |-> wreq[r]]
    /\ \A i \in Wids : rowsW[i] # NoWindow => IsRow(rowsW[i])
    /\ \A r \in WReqs : wreq[r] # NoReq => IsRequest(wreq[r])

LEMMA OverrideIs ==
    ASSUME NEW wrow, IsRow(wrow), NEW key, NEW value
    PROVE  LET new == SetOverride(wrow, key, value) IN
           /\ new = [win |-> wrow.win, scope |-> wrow.scope, ended |-> wrow.ended, over |-> new.over]
           /\ new.over = [k \in DOMAIN wrow.over \cup {key} |-> IF k = key THEN value ELSE wrow.over[k]]
  BY DEF IsRow, SetOverride

\* What a statement leaves of a row: an ended one keeps what it covers, and a
\* stopped occurrence stays stopped.
WrittenKeeps(old, new) ==
    /\ IsRow(new)
    /\ old.ended # NoField => new.win = old.win /\ new.scope = old.scope /\ new.ended = old.ended
    /\ \A k \in DOMAIN old.over :
          old.over[k] = Skipped \/ old.over[k] <= now =>
              k \in DOMAIN new.over /\ (new.over[k] = Skipped \/ new.over[k] <= now)

LEMMA WritesKeep ==
    ASSUME WindowsInv, NEW q, IsRequest(q), NEW wrow, IsRow(wrow)
    PROVE  (q.op = "delete" /\ Written(q, wrow) = NoWindow) \/ WrittenKeeps(wrow, Written(q, wrow))
  <1>1. CASE q.op = "update"
    <2>1. Written(q, wrow) = IF wrow.ended = NoField THEN [wrow EXCEPT !.win = q.win, !.scope = q.scope] ELSE wrow
      BY <1>1 DEF Written
    <2>2. CASE wrow.ended = NoField
      <3> DEFINE new == [wrow EXCEPT !.win = q.win, !.scope = q.scope]
      <3>1. Written(q, wrow) = new
        BY <2>1, <2>2
      <3>2. IsValidWindow(q.win) /\ q.scope \in Scopes
        BY <1>1 DEF IsRequest
      <3>3. new = [win |-> q.win, scope |-> q.scope, ended |-> wrow.ended, over |-> wrow.over]
        <4>1. wrow = [win |-> wrow.win, scope |-> wrow.scope, ended |-> wrow.ended, over |-> wrow.over]
          BY DEF IsRow
        <4>2. new = [[wrow EXCEPT !.win = q.win] EXCEPT !.scope = q.scope]
          OBVIOUS
        <4> DEFINE mid == [wrow EXCEPT !.win = q.win]
        <4>3. mid = [win |-> q.win, scope |-> wrow.scope, ended |-> wrow.ended, over |-> wrow.over]
          BY <4>1
        <4> HIDE DEF new
        <4>4. new = [mid EXCEPT !.scope = q.scope]
          BY <4>2
        <4> HIDE DEF mid
        <4> QED
          BY <4>3, <4>4
      <3> HIDE DEF new
      <3>4. new.win = q.win /\ new.scope = q.scope /\ new.ended = wrow.ended /\ new.over = wrow.over
        BY <3>3
      <3>5. IsRow(new)
        BY <3>2, <3>3, <3>4 DEF IsRow
      <3> QED
        BY <2>2, <3>1, <3>4, <3>5 DEF WrittenKeeps
    <2>3. CASE wrow.ended # NoField
      BY <2>1, <2>3 DEF WrittenKeeps
    <2> QED
      BY <2>2, <2>3
  <1>2. CASE q.op = "delete"
    BY <1>2 DEF Written
  <1>3. CASE q.op = "end"
    <2>1. Written(q, wrow) = IF wrow.ended = NoField THEN [wrow EXCEPT !.ended = now] ELSE wrow
      BY <1>3 DEF Written
    <2>2. CASE wrow.ended = NoField
      <3> DEFINE new == [wrow EXCEPT !.ended = now]
      <3>1. Written(q, wrow) = new
        BY <2>1, <2>2
      <3>2. new = [win |-> wrow.win, scope |-> wrow.scope, ended |-> now, over |-> wrow.over]
        BY DEF IsRow
      <3> HIDE DEF new
      <3>3. new.win = wrow.win /\ new.scope = wrow.scope /\ new.ended = now /\ new.over = wrow.over
        BY <3>2
      <3>4. IsRow(new)
        BY <3>2, <3>3 DEF IsRow, WindowsInv
      <3> QED
        BY <2>2, <3>1, <3>3, <3>4 DEF WrittenKeeps
    <2>3. CASE wrow.ended # NoField
      BY <2>1, <2>3 DEF WrittenKeeps
    <2> QED
      BY <2>2, <2>3
  <1>4. CASE q.op = "override"
    <2> DEFINE new == SetOverride(wrow, q.key, q.value)
    <2>1. Written(q, wrow) = new
      BY <1>4 DEF Written
    <2>2. /\ new = [win |-> wrow.win, scope |-> wrow.scope, ended |-> wrow.ended, over |-> new.over]
          /\ new.over = [k \in DOMAIN wrow.over \cup {q.key} |-> IF k = q.key THEN q.value ELSE wrow.over[k]]
      BY OverrideIs
    <2>3. q.value = Skipped \/ (q.value \in Int /\ q.value <= now)
      BY <1>4 DEF IsRequest
    <2> HIDE DEF new
    <2>4. IsRow(new)
      BY <2>2, <2>3 DEF IsRow
    <2>5. \A k \in DOMAIN wrow.over :
              wrow.over[k] = Skipped \/ wrow.over[k] <= now =>
                  k \in DOMAIN new.over /\ (new.over[k] = Skipped \/ new.over[k] <= now)
      BY <2>2, <2>3
    <2> QED
      BY <2>1, <2>2, <2>4, <2>5 DEF WrittenKeeps
  <1> QED
    BY <1>1, <1>2, <1>3, <1>4 DEF IsRequest

\* What the handler makes of a form is a window, when it is valid.
LEMMA WindowFits ==
    ASSUME zone \in Zones, NEW form \in Forms, Validate(Window(form))
    PROVE  IsValidWindow(Window(form))
  <1> DEFINE w == Window(form)
  <1>1. form \in OnceWindows \/ form \in RecurringWindows(1..(MaxSpan * DayTicks), Nat, Nat)
    BY WindowsAssumption
  <1>2. CASE form \in OnceWindows
    <2>1. form.kind = "once" /\ form.starts \in Int /\ form.ends \in Int
      BY <1>2 DEF OnceWindows
    <2>2. w = [form EXCEPT !.starts = FromLocal(form.starts, zone), !.ends = FromLocal(form.ends, zone)]
      BY <2>1 DEF Window
    <2>3. ASSUME NEW a \in Int PROVE FromLocal(a, zone) \in Int
      <3>1. DayTicks \in Nat \ {0}
        BY WindowsNumbers
      <3>2. a \div DayTicks \in Int /\ a % DayTicks \in 0..(DayTicks - 1)
        BY <3>1, DivMod
      <3> QED
        BY <3>2, WallStarts DEF FromLocal
    <2>4. FromLocal(form.starts, zone) \in Int /\ FromLocal(form.ends, zone) \in Int
      BY <2>1, <2>3
    <2>5. w \in OnceWindows
      BY <1>2, <2>2, <2>4 DEF OnceWindows
    <2> QED
      BY <2>5 DEF IsValidWindow
  <1>3. CASE form \in RecurringWindows(1..(MaxSpan * DayTicks), Nat, Nat)
    <2>1. form.kind \in {"daily", "weekly", "monthly"}
      BY <1>3 DEF RecurringWindows
    <2>2. w = form
      BY <2>1 DEF Window
    <2> QED
      BY <1>3, <2>2 DEF IsValidWindow
  <1> QED
    BY <1>1, <1>2, <1>3

LEMMA WindowsStart == WindowsInit => WindowsInv
  <1> SUFFICES ASSUME WindowsInit PROVE WindowsInv
    OBVIOUS
  <1>1. MaxInstant \in Nat /\ MaxCalls \in Nat
    BY WindowsAssumption
  <1> QED
    BY <1>1 DEF WindowsInit, WindowsInv

\* Every step but a statement leaves the rows that are there alone.
LEMMA CommitRows ==
    ASSUME WindowsInv, NEW r \in WReqs, Commit(r)
    PROVE  /\ rowsW' = [j \in Wids |-> rowsW'[j]]
           /\ \A i \in Wids : rowsW[i] = NoWindow => rowsW'[i] = NoWindow
           /\ \A i \in Wids : rowsW[i] # NoWindow =>
                 rowsW'[i] = NoWindow \/ rowsW'[i] = rowsW[i] \/ WrittenKeeps(rowsW[i], rowsW'[i])
  <1>1. wreq[r].id \in Wids /\ IsRequest(wreq[r])
    BY DEF Commit, WindowsInv, IsRequest
  <1>2. rowsW' = [rowsW EXCEPT ![wreq[r].id] = IF rowsW[wreq[r].id] = NoWindow THEN rowsW[wreq[r].id]
                                               ELSE Written(wreq[r], rowsW[wreq[r].id])]
    BY DEF Commit
  <1>3. rowsW = [i \in Wids |-> rowsW[i]]
    BY DEF WindowsInv
  <1>4. ASSUME NEW i \in Wids, rowsW[i] # NoWindow
        PROVE  rowsW'[i] = NoWindow \/ rowsW'[i] = rowsW[i] \/ WrittenKeeps(rowsW[i], rowsW'[i])
    <2>1. CASE i = wreq[r].id
      <3>1. rowsW'[i] = Written(wreq[r], rowsW[i])
        BY <1>2, <1>3, <1>4, <2>1
      <3>2. IsRow(rowsW[i])
        BY <1>4 DEF WindowsInv
      <3> QED
        BY <1>1, <3>1, <3>2, WritesKeep
    <2>2. CASE i # wreq[r].id
      BY <1>2, <1>3, <2>2
    <2> QED
      BY <2>1, <2>2
  <1>5. rowsW' = [j \in Wids |-> rowsW'[j]] /\ \A i \in Wids : rowsW[i] = NoWindow => rowsW'[i] = NoWindow
    BY <1>2, <1>3
  <1> QED
    BY <1>4, <1>5

LEMMA CallCounts == ASSUME WindowsInv, Called PROVE calls' \in 0..MaxCalls
  <1>1. calls \in 0..MaxCalls /\ MaxCalls \in Nat /\ calls < MaxCalls /\ calls' = calls + 1
    BY WindowsAssumption DEF WindowsInv, Called
  <1> QED
    BY <1>1

LEMMA WindowsStep == WindowsInv /\ [WindowsNext]_wvars => WindowsInv'
  <1> SUFFICES ASSUME WindowsInv, [WindowsNext]_wvars PROVE WindowsInv'
    OBVIOUS
  <1>0. /\ now \in 0..MaxInstant /\ calls \in 0..MaxCalls /\ zone \in Zones /\ now \in Int /\ MaxInstant \in Int
        /\ rowsW = [i \in Wids |-> rowsW[i]] /\ wreq = [r \in WReqs |-> wreq[r]]
        /\ \A i \in Wids : rowsW[i] # NoWindow => IsRow(rowsW[i])
        /\ \A r \in WReqs : wreq[r] # NoReq => IsRequest(wreq[r])
    BY WindowsNumbers DEF WindowsInv
  <1>1. ASSUME NEW i \in Wids, CreateWindow(i) PROVE WindowsInv'
    <2>1. PICK form \in Forms, scope \in Scopes :
              Validate(Window(form)) /\ rowsW' = [rowsW EXCEPT ![i] = NewRow(Window(form), scope)]
      BY <1>1 DEF CreateWindow
    <2> DEFINE new == NewRow(Window(form), scope)
    <2>2. new = [win |-> Window(form), scope |-> scope, ended |-> NoField, over |-> <<>>]
      BY DEF NewRow
    <2>3. IsValidWindow(Window(form))
      BY <1>0, <2>1, WindowFits
    <2> HIDE DEF new
    <2>4. new.win = Window(form) /\ new.scope = scope /\ new.ended = NoField /\ new.over = <<>> /\ DOMAIN new.over = {}
      BY <2>2
    <2>5. IsRow(new)
      BY <2>2, <2>3, <2>4 DEF IsRow
    <2>6. wreq' = wreq /\ now' = now /\ zone' = zone /\ calls' \in 0..MaxCalls
      BY <1>1, CallCounts DEF CreateWindow
    <2>7. rowsW' = [j \in Wids |-> rowsW'[j]] /\ \A j \in Wids : rowsW'[j] # NoWindow => IsRow(rowsW'[j])
      BY <1>0, <2>1, <2>5 DEF new
    <2>8. (\A r \in WReqs : wreq[r] # NoReq => IsRequest(wreq[r]))'
      BY <1>0, <2>6 DEF IsRequest
    <2> QED
      BY <1>0, <2>6, <2>7, <2>8 DEF WindowsInv
  <1>2. ASSUME NEW r \in WReqs, NEW i \in Wids,
               LoadUpdate(r, i) \/ LoadDeleteOrEnd(r, i) \/ LoadEndOccurrence(r, i) \/ LoadSkipNext(r, i)
        PROVE  WindowsInv'
    <2>1. \E q : wreq' = [wreq EXCEPT ![r] = q] /\ IsRequest(q)
      <3>1. CASE LoadUpdate(r, i)
        <4>1. PICK form \in Forms, scope \in Scopes :
                  /\ Validate(Window(form))
                  /\ wreq' = [wreq EXCEPT ![r] = [op |-> "update", id |-> i, win |-> Window(form), scope |-> scope]]
          BY <3>1 DEF LoadUpdate
        <4>2. IsValidWindow(Window(form))
          BY <1>0, <4>1, WindowFits
        <4>3. IsRequest([op |-> "update", id |-> i, win |-> Window(form), scope |-> scope])
          BY <4>2 DEF IsRequest
        <4> QED
          BY <4>1, <4>3
      <3>2. CASE LoadDeleteOrEnd(r, i)
        <4>1. PICK op \in {"delete", "end"} : wreq' = [wreq EXCEPT ![r] = [op |-> op, id |-> i]]
          BY <3>2 DEF LoadDeleteOrEnd
        <4>2. IsRequest([op |-> op, id |-> i])
          BY DEF IsRequest
        <4> QED
          BY <4>1, <4>2
      <3>3. CASE LoadEndOccurrence(r, i)
        <4>1. PICK key : wreq' = [wreq EXCEPT ![r] = [op |-> "override", id |-> i, key |-> key, value |-> now]]
          BY <3>3 DEF LoadEndOccurrence
        <4>2. IsRequest([op |-> "override", id |-> i, key |-> key, value |-> now])
          BY <1>0 DEF IsRequest
        <4> QED
          BY <4>1, <4>2
      <3>4. CASE LoadSkipNext(r, i)
        <4>1. PICK key : wreq' = [wreq EXCEPT ![r] = [op |-> "override", id |-> i, key |-> key, value |-> Skipped]]
          BY <3>4 DEF LoadSkipNext
        <4>2. IsRequest([op |-> "override", id |-> i, key |-> key, value |-> Skipped])
          BY DEF IsRequest
        <4> QED
          BY <4>1, <4>2
      <3> QED
        BY <1>2, <3>1, <3>2, <3>3, <3>4
    <2>2. rowsW' = rowsW /\ now' = now /\ zone' = zone /\ Called
      BY <1>2 DEF LoadUpdate, LoadDeleteOrEnd, LoadEndOccurrence, LoadSkipNext
    <2>3. calls' \in 0..MaxCalls
      BY <2>2, CallCounts
    <2>4. PICK q : wreq' = [wreq EXCEPT ![r] = q] /\ IsRequest(q)
      BY <2>1
    <2>5. wreq' = [s \in WReqs |-> wreq'[s]] /\ \A s \in WReqs : wreq'[s] # NoReq => IsRequest(wreq'[s])
      BY <1>0, <2>4
    <2>6. (\A s \in WReqs : wreq[s] # NoReq => IsRequest(wreq[s]))'
      BY <2>2, <2>5 DEF IsRequest
    <2> QED
      BY <1>0, <2>2, <2>3, <2>5, <2>6 DEF WindowsInv
  <1>3. ASSUME NEW r \in WReqs, Commit(r) PROVE WindowsInv'
    <2>1. rowsW' = [j \in Wids |-> rowsW'[j]] /\ \A i \in Wids : rowsW'[i] # NoWindow => IsRow(rowsW'[i])
      BY <1>0, <1>3, CommitRows DEF WrittenKeeps
    <2>2. wreq' = [wreq EXCEPT ![r] = NoReq] /\ now' = now /\ zone' = zone /\ calls' = calls
      BY <1>3 DEF Commit
    <2>3. wreq' = [s \in WReqs |-> wreq'[s]] /\ \A s \in WReqs : wreq'[s] # NoReq => IsRequest(wreq'[s])
      BY <1>0, <2>2
    <2>4. (\A s \in WReqs : wreq[s] # NoReq => IsRequest(wreq[s]))'
      BY <2>2, <2>3 DEF IsRequest
    <2> QED
      BY <1>0, <2>1, <2>2, <2>3, <2>4 DEF WindowsInv
  <1>4. CASE Pass \/ ChangeZone \/ UNCHANGED wvars
    <2>1. rowsW' = rowsW /\ wreq' = wreq /\ calls' = calls /\ zone' \in Zones /\ now' \in 0..MaxInstant /\ now <= now'
      BY <1>0, <1>4 DEF Pass, ChangeZone, wvars
    <2>2. (\A s \in WReqs : wreq[s] # NoReq => IsRequest(wreq[s]))'
      <3>1. now' \in Int
        BY <1>0, <2>1
      <3> QED
        BY <1>0, <2>1, <3>1 DEF IsRequest
    <2> QED
      BY <1>0, <2>1, <2>2 DEF WindowsInv
  <1> QED
    BY <1>1, <1>2, <1>3, <1>4 DEF WindowsNext

\* What any step may do to a row that is there.
LEMMA RowsKept ==
    ASSUME WindowsInv, [WindowsNext]_wvars, NEW i \in Wids, rowsW[i] # NoWindow
    PROVE  /\ now <= now'
           /\ rowsW'[i] = NoWindow \/ rowsW'[i] = rowsW[i] \/ WrittenKeeps(rowsW[i], rowsW'[i])
  <1>0. now \in Int /\ rowsW = [j \in Wids |-> rowsW[j]]
    BY DEF WindowsInv
  <1>1. ASSUME NEW j \in Wids, CreateWindow(j) PROVE now' = now /\ rowsW'[i] = rowsW[i]
    BY <1>0, <1>1 DEF CreateWindow
  <1>2. ASSUME NEW r \in WReqs, NEW j \in Wids,
               LoadUpdate(r, j) \/ LoadDeleteOrEnd(r, j) \/ LoadEndOccurrence(r, j) \/ LoadSkipNext(r, j)
        PROVE  now' = now /\ rowsW'[i] = rowsW[i]
    BY <1>2 DEF LoadUpdate, LoadDeleteOrEnd, LoadEndOccurrence, LoadSkipNext
  <1>3. ASSUME NEW r \in WReqs, Commit(r)
        PROVE  now' = now /\ (rowsW'[i] = NoWindow \/ rowsW'[i] = rowsW[i] \/ WrittenKeeps(rowsW[i], rowsW'[i]))
    BY <1>3, CommitRows DEF Commit
  <1>4. CASE Pass \/ ChangeZone \/ UNCHANGED wvars
    BY <1>0, <1>4 DEF Pass, ChangeZone, wvars
  <1> QED
    BY <1>0, <1>1, <1>2, <1>3, <1>4 DEF WindowsNext

LEMMA EndedStays ==
    ASSUME WindowsInv, [WindowsNext]_wvars, NEW i \in Wids, rowsW[i] # NoWindow, rowsW[i].ended # NoField
    PROVE  \/ rowsW'[i] = NoWindow
           \/ rowsW'[i].win = rowsW[i].win /\ rowsW'[i].scope = rowsW[i].scope /\ rowsW'[i].ended = rowsW[i].ended
  BY RowsKept DEF WrittenKeeps

LEMMA StoppedStays ==
    ASSUME WindowsInv, [WindowsNext]_wvars, NEW i \in Wids, rowsW[i] # NoWindow,
           NEW k \in DOMAIN rowsW[i].over, StoppedAt(rowsW[i], k, now)
    PROVE  rowsW'[i] = NoWindow \/ StoppedAt(rowsW'[i], k, now')
  <1>0. now \in Int /\ now' \in Int /\ WindowsInv'
    BY WindowsStep DEF WindowsInv
  <1>1. now <= now' /\ (rowsW'[i] = NoWindow \/ rowsW'[i] = rowsW[i] \/ WrittenKeeps(rowsW[i], rowsW'[i]))
    BY RowsKept
  <1>2. SUFFICES ASSUME rowsW'[i] # NoWindow PROVE StoppedAt(rowsW'[i], k, now')
    OBVIOUS
  <1>3. k \in DOMAIN rowsW'[i].over /\ (rowsW'[i].over[k] = Skipped \/ rowsW'[i].over[k] <= now)
    BY <1>1, <1>2 DEF StoppedAt, WrittenKeeps
  <1>4. rowsW'[i].over[k] = Skipped \/ rowsW'[i].over[k] \in Int
    BY <1>0, <1>2, <1>3 DEF WindowsInv, IsRow
  <1> QED
    BY <1>0, <1>1, <1>2, <1>3, <1>4 DEF StoppedAt

LEMMA WindowsHold == WindowsInv => WindowsRight
  <1> SUFFICES ASSUME WindowsInv PROVE WindowsRight
    OBVIOUS
  <1>1. ASSUME NEW wrow \in Rows PROVE IsRow(wrow) /\ IsMaintenance(wrow)
    <2>1. IsRow(wrow)
      BY DEF Rows, WindowsInv
    <2>2. IsOnce(wrow.win) \/ IsWindow(wrow.win)
      BY <2>1, ValidWindowIs DEF IsRow
    <2>3. wrow.ended = NoField \/ wrow.ended \in Int
      BY <2>1, WindowsNumbers DEF IsRow
    <2> QED
      BY <2>1, <2>2, <2>3 DEF IsRow, IsMaintenance
  <1>2. AnswersFrom
    BY <1>1 DEF AnswersFrom, WindowsInv
  <1>3. \A wrow \in Rows : Validate(wrow.win) /\ wrow.scope \in Scopes /\ wrow.ended \in {NoField} \cup 0..MaxInstant
    BY <1>1 DEF IsRow, IsValidWindow
  <1>4. \A r \in WReqs : wreq[r].op \in {"none", "update", "delete", "end", "override"}
    BY DEF WindowsInv, IsRequest, NoReq
  <1>5. WindowsTypeOK
    BY <1>3, <1>4 DEF WindowsTypeOK, WindowsInv
  <1> QED
    BY <1>2, <1>5, UntilIs, StatusIs DEF WindowsRight

\* Whether a host is in maintenance and until when, and the status shown for a
\* window, are what the calendar says after any sequence of requests, changes
\* of the clocks and passing of time, for any windows, zones, hosts and scopes
\* (maintenance.go: Occurrences, Next, ActiveAt; store/maintenance.go: Open).
THEOREM WindowsStand == WindowsSpec => []WindowsRight
  <1> QED
    BY WindowsStart, WindowsStep, WindowsHold, PTL DEF WindowsSpec

\* A window that was ended, and an occurrence that was ended or skipped, stay
\* so whatever requests had read the window before, for any windows, clocks,
\* zones and number of requests (store/maintenance.go: Update, End,
\* SetOverride).
THEOREM StopsStand == WindowsSpec => StopsAreFinal
  <1>1. WindowsInv /\ [WindowsNext]_wvars =>
          [\A i \in Wids : rowsW[i] # NoWindow => (rowsW[i].ended # NoField =>
              \/ rowsW'[i] = NoWindow
              \/ rowsW'[i].win = rowsW[i].win /\ rowsW'[i].scope = rowsW[i].scope /\ rowsW'[i].ended = rowsW[i].ended)]_wvars
    BY EndedStays
  <1>2. WindowsInv /\ [WindowsNext]_wvars =>
          [\A i \in Wids : rowsW[i] # NoWindow => \A k \in DOMAIN rowsW[i].over :
              StoppedAt(rowsW[i], k, now) => rowsW'[i] = NoWindow \/ StoppedAt(rowsW'[i], k, now')]_wvars
    BY StoppedStays
  <1> QED
    BY <1>1, <1>2, WindowsStart, WindowsStep, PTL DEF WindowsSpec, StopsAreFinal, EndedIsFinal, StoppedStaysStopped

-----------------------------------------------------------------------------
(* Alert rules: what one reconciliation does                               *)

AlertLevels == {Unset, "warning", "critical"}

\* The state an evaluation works on: the level of each alert.
IsState(s) == s \in [Keys(group) -> AlertLevels]

Wanted(s, conds, closeMissing, k) ==
    IF k[2] \in DOMAIN conds THEN IF conds[k[2]] = Keep THEN s[k] ELSE conds[k[2]]
    ELSE IF closeMissing THEN Unset ELSE s[k]

\* What a reconciliation of the type ty leads from s to.
Reconciled(s, o, ty, conds, closeMissing) ==
    /\ IsState(o)
    /\ \A k \in Keys(group) : k[1] # ty => o[k] = s[k]
    /\ \A k \in Keys(group) : k[1] = ty => o[k] = Wanted(s, conds, closeMissing, k)

LEMMA ReconcileLeads ==
    ASSUME NEW s, IsState(s), NEW ty, NEW conds, NEW closeMissing \in BOOLEAN,
           \A x \in DOMAIN conds : conds[x] \in AlertLevels \cup {Keep}
    PROVE  Reconciled(s, Reconcile(s, ty, conds, closeMissing), ty, conds, closeMissing)
  <1> DEFINE o == Reconcile(s, ty, conds, closeMissing)
             want(k) == CASE k[1] # ty -> s[k]
                          [] k[1] = ty /\ k[2] \in DOMAIN conds -> IF conds[k[2]] = Keep THEN s[k] ELSE conds[k[2]]
                          [] OTHER -> IF closeMissing THEN Unset ELSE s[k]
  <1>1. DOMAIN s = Keys(group) /\ \A k \in Keys(group) : s[k] \in AlertLevels
    BY DEF IsState
  <1>2. o = [k \in Keys(group) |-> want(k)]
    BY <1>1 DEF Reconcile
  <1>3. \A k \in Keys(group) : want(k) \in AlertLevels
    BY <1>1 DEF AlertLevels
  <1>4. \A k \in Keys(group) : k[1] # ty => want(k) = s[k]
    OBVIOUS
  <1>5. \A k \in Keys(group) : k[1] = ty => want(k) = Wanted(s, conds, closeMissing, k)
    BY DEF Wanted
  <1> HIDE DEF want, o
  <1>6. IsState(o) /\ \A k \in Keys(group) : o[k] = want(k)
    BY <1>2, <1>3 DEF IsState
  <1>7. Reconciled(s, o, ty, conds, closeMissing)
    BY <1>4, <1>5, <1>6 DEF Reconciled
  <1> QED
    BY <1>7 DEF o

LEMMA ResolveAllIs ==
    ASSUME NEW s, IsState(s), NEW ty
    PROVE  /\ IsState(ResolveAll(s, ty))
           /\ \A k \in Keys(group) : k[1] # ty => ResolveAll(s, ty)[k] = s[k]
           /\ \A k \in Keys(group) : k[1] = ty => ResolveAll(s, ty)[k] = Unset
  <1>1. PICK none : none = <<>>
    OBVIOUS
  <1>2. DOMAIN none = {}
    BY <1>1
  <1>3. Reconciled(s, Reconcile(s, ty, none, TRUE), ty, none, TRUE)
    BY <1>2, ReconcileLeads
  <1>4. \A k \in Keys(group) : k[1] = ty => Reconcile(s, ty, none, TRUE)[k] = Unset
    BY <1>2, <1>3 DEF Wanted, Reconciled
  <1> QED
    BY <1>1, <1>3, <1>4 DEF ResolveAll, Reconciled

\* The keys of a group.
LEMMA KeysAre ==
    /\ \A k \in Keys(group) : k[1] \in TypesOf(group) /\ k[2] \in Subjects(k[1]) /\ k = <<k[1], k[2]>>
    /\ group = "missing" => \A m \in Mounts : <<"disk_missing", m>> \in Keys(group)
    /\ group = "oom" => <<"oom_kill", "">> \in Keys(group)
  <1>1. \A k \in Keys(group) : k[1] \in TypesOf(group) /\ k[2] \in Subjects(k[1]) /\ k = <<k[1], k[2]>>
    BY DEF Keys
  <1>2. group = "missing" => \A m \in Mounts : <<"disk_missing", m>> \in Keys(group)
    BY DEF Keys, TypesOf, Subjects
  <1>3. group = "oom" => <<"oom_kill", "">> \in Keys(group)
    BY DEF Keys, TypesOf, Subjects
  <1> QED
    BY <1>1, <1>2, <1>3

LEMMA UnsetIs ==
    /\ Unset \notin {Keep, "ok", "high", "full", "rw", "ro", "unknown", "warning", "critical",
                     "degraded", "rebuilding", "fresh", "down", "unhealthy", "same", "more"}
    /\ Keep \notin {"unknown", "warning", "critical"}
    /\ MissingAfter \in Nat \ {0} /\ QuietAfter \in Nat \ {0} /\ MaxRuleChanges \in Nat
  BY RulesAssumption

-----------------------------------------------------------------------------
(* Alert rules: the groups.  What an evaluation makes of an alert is what  *)
(* the report says of its subject.                                         *)

\* From s to o the alert k follows what was said of it.
Answers(s, o, k, said) == o[k] = IF said = Keep THEN s[k] ELSE said

\* Only disk and RAID alerts are ever a mere warning.
TwoLevels == {"disk", "raid_degraded"}
OneLevel(s) == \A k \in Keys(group) : k[1] \notin TwoLevels => s[k] \in {Unset, "critical"}

\* From s to o every alert of the type ty follows the report, no other changed.
Follows(s, o, ty, r, age) ==
    /\ IsState(o)
    /\ \A k \in Keys(group) : k[1] # ty => o[k] = s[k]
    /\ \A k \in Keys(group) : k[1] = ty => Answers(s, o, k, Says(k, r, age))

LEMMA SaysIs ==
    ASSUME NEW k, NEW r, NEW age
    PROVE  /\ k[1] = "disk" => Says(k, r, age) = SaysOfUsage(k[2], r)
           /\ k[1] = "disk_missing" => Says(k, r, age) = SaysOfMissing(k[2], r)
           /\ k[1] = "fs_readonly" => Says(k, r, age) = SaysOfReadOnly(k[2], r)
           /\ k[1] = "time_sync" => Says(k, r, age) = SaysOfTime(k[2], r)
           /\ k[1] = "raid_degraded" => Says(k, r, age) = SaysOfRAID(k[2], r)
           /\ k[1] = "flag" => Says(k, r, age) = SaysOfFlag(r)
           /\ k[1] = "service_failed" => Says(k, r, age) = SaysOfService(k[2], r)
           /\ k[1] = "container_unhealthy" => Says(k, r, age) = SaysOfContainer(k[2], r)
           /\ k[1] = "oom_kill" => Says(k, r, age) = SaysOfOOM(r, age)
  BY DEF Says

LEMMA SaysOfType ==
    ASSUME group \in Groups, NEW k \in Keys(group), NEW r, NEW age
    PROVE  /\ Says(k, r, age) \in AlertLevels \cup {Keep}
           /\ k[1] \notin TwoLevels => Says(k, r, age) \in {Unset, "critical", Keep}
  <1> USE DEF AlertLevels, TwoLevels
  <1>0. k[1] \in Types
    <2>1. TypesOf(group) \subseteq Types
      BY RulesAssumption DEF TypesOf, Types
    <2> QED
      BY <2>1, KeysAre
  <1>1. SaysOfUsage(k[2], r) \in AlertLevels \cup {Keep} /\ SaysOfRAID(k[2], r) \in AlertLevels \cup {Keep}
    BY DEF SaysOfUsage, SaysOfRAID
  <1>2. SaysOfMissing(k[2], r) \in {Unset, "critical", Keep} /\ SaysOfReadOnly(k[2], r) \in {Unset, "critical", Keep}
    BY DEF SaysOfMissing, SaysOfReadOnly
  <1>3. SaysOfTime(k[2], r) \in {Unset, "critical", Keep} /\ SaysOfFlag(r) \in {Unset, "critical", Keep}
    BY DEF SaysOfTime, SaysOfFlag
  <1>4. SaysOfService(k[2], r) \in {Unset, "critical", Keep} /\ SaysOfContainer(k[2], r) \in {Unset, "critical", Keep}
    BY DEF SaysOfService, SaysOfContainer
  <1>5. SaysOfOOM(r, age) \in {Unset, "critical", Keep}
    BY DEF SaysOfOOM
  <1> QED
    BY <1>0, <1>1, <1>2, <1>3, <1>4, <1>5, SaysIs DEF Types

\* Nothing is done: nothing was said.
LEMMA NothingFollows ==
    ASSUME NEW s, IsState(s), NEW ty, NEW r, NEW age, \A k \in Keys(group) : k[1] = ty => Says(k, r, age) = Keep
    PROVE  Follows(s, s, ty, r, age)
  BY DEF Follows, Answers

\* All alerts of a type close: that was said.
LEMMA AllFollow ==
    ASSUME NEW s, IsState(s), NEW ty, NEW r, NEW age, \A k \in Keys(group) : k[1] = ty => Says(k, r, age) = Unset
    PROVE  Follows(s, ResolveAll(s, ty), ty, r, age)
  BY ResolveAllIs, UnsetIs DEF Follows, Answers

\* A reconciliation follows the report if its conditions are what was said.
LEMMA ReconcileFollows ==
    ASSUME NEW s, IsState(s), NEW ty, NEW r, NEW age, NEW conds, NEW closeMissing \in BOOLEAN,
           \A x \in DOMAIN conds : conds[x] \in AlertLevels \cup {Keep},
           \A k \in Keys(group) : k[1] = ty =>
               Wanted(s, conds, closeMissing, k) = IF Says(k, r, age) = Keep THEN s[k] ELSE Says(k, r, age)
    PROVE  Follows(s, Reconcile(s, ty, conds, closeMissing), ty, r, age)
  <1>1. PICK o : o = Reconcile(s, ty, conds, closeMissing)
    OBVIOUS
  <1>2. Reconciled(s, o, ty, conds, closeMissing)
    BY <1>1, ReconcileLeads
  <1>3. Follows(s, o, ty, r, age)
    BY <1>2 DEF Reconciled, Follows, Answers
  <1> QED
    BY <1>1, <1>3

LEMMA LevelOfIs ==
    ASSUME NEW m, NEW used \in {"ok", "high", "full"}
    PROVE  LevelOf(m, used) =
             IF m \in ruleset.per THEN IF used = "full" THEN "warning" ELSE Unset
             ELSE IF used = "full" THEN "critical" ELSE IF used = "high" THEN "warning" ELSE Unset
  <1>1. UsageRank["ok"] = 0 /\ UsageRank["high"] = 1 /\ UsageRank["full"] = 2
    BY DEF UsageRank
  <1>2. CASE m \in ruleset.per
    <2>1. ThresholdFor(m).warning = 2 /\ ThresholdFor(m).critical = 3
      BY <1>2 DEF ThresholdFor
    <2> QED
      BY <1>1, <1>2, <2>1 DEF LevelOf
  <1>3. CASE m \notin ruleset.per
    <2>1. ThresholdFor(m).warning = 1 /\ ThresholdFor(m).critical = 2
      BY <1>3 DEF ThresholdFor
    <2> QED
      BY <1>1, <1>3, <2>1 DEF LevelOf
  <1> QED
    BY <1>2, <1>3

NoThreshold == ~ruleset.base /\ ruleset.per = {}

LEMMA DisksFollow ==
    ASSUME group = "usage", ruleset \in Rulesets(group), NEW r \in Reports(group), NEW age, NEW s, IsState(s)
    PROVE  Follows(s, EvaluateDisks(s, r), "disk", r, age)
  <1>0. /\ r \in [Mounts -> {Unset, "ok", "high", "full"}]
        /\ ruleset \in [base: BOOLEAN, per: SUBSET Mounts, all: BOOLEAN, sel: SUBSET Mounts]
    BY DEF Reports, Rulesets
  <1>1. CASE NoThreshold
    <2>1. \A m : SaysOfUsage(m, r) = Unset
      BY <1>0, <1>1 DEF NoThreshold, SaysOfUsage
    <2>2. \A k \in Keys(group) : k[1] = "disk" => Says(k, r, age) = Unset
      BY <2>1, SaysIs
    <2> QED
      BY <1>1, <2>2, AllFollow DEF EvaluateDisks, NoThreshold
  <1>2. CASE ~NoThreshold /\ Listed(r) = {}
    <2>1. \A m : SaysOfUsage(m, r) = Keep
      BY <1>2 DEF NoThreshold, SaysOfUsage
    <2>2. \A k \in Keys(group) : k[1] = "disk" => Says(k, r, age) = Keep
      BY <2>1, SaysIs
    <2> QED
      BY <1>2, <2>2, NothingFollows DEF EvaluateDisks, NoThreshold
  <1>3. CASE ~NoThreshold /\ Listed(r) # {}
    <2> DEFINE D == {x \in Listed(r) : Selected(x) /\ HasThreshold(x)}
    <2>1. PICK conds : conds = [m \in D |-> LevelOf(m, r[m])]
      OBVIOUS
    <2>3. \A m \in Listed(r) : m \in Mounts /\ r[m] \in {"ok", "high", "full"}
      BY <1>0 DEF Listed
    <2>4. DOMAIN conds = D /\ \A x \in DOMAIN conds : conds[x] = LevelOf(x, r[x])
      BY <2>1
    <2>5. \A x \in DOMAIN conds : conds[x] \in AlertLevels
      BY <2>3, <2>4, LevelOfIs DEF AlertLevels
    <2>6. ASSUME NEW k \in Keys(group), k[1] = "disk"
          PROVE  Wanted(s, conds, TRUE, k) = Says(k, r, age) /\ Says(k, r, age) # Keep
      <3>1. Says(k, r, age) = SaysOfUsage(k[2], r)
        BY <2>6, SaysIs
      <3>2. CASE k[2] \in D
        <4>1. Wanted(s, conds, TRUE, k) = LevelOf(k[2], r[k[2]]) /\ LevelOf(k[2], r[k[2]]) # Keep
          BY <2>4, <2>5, <3>2, UnsetIs DEF Wanted, AlertLevels
        <4>2. r[k[2]] \in {"ok", "high", "full"} /\ k[2] \in Listed(r) /\ Selected(k[2]) /\ HasThreshold(k[2])
          BY <2>3, <3>2
        <4>3. LevelOf(k[2], r[k[2]]) = SaysOfUsage(k[2], r)
          BY <1>3, <4>2, LevelOfIs DEF Selected, HasThreshold, SaysOfUsage
        <4> QED
          BY <3>1, <4>1, <4>3
      <3>3. CASE k[2] \notin D
        <4>1. Wanted(s, conds, TRUE, k) = Unset
          BY <2>4, <3>3 DEF Wanted
        <4>2. SaysOfUsage(k[2], r) = Unset
          BY <1>3, <3>3 DEF Selected, HasThreshold, SaysOfUsage
        <4> QED
          BY <3>1, <4>1, <4>2, UnsetIs
      <3> QED
        BY <3>2, <3>3
    <2>7. Follows(s, Reconcile(s, "disk", conds, TRUE), "disk", r, age)
      BY <2>5, <2>6, ReconcileFollows
    <2> QED
      BY <1>3, <2>1, <2>7 DEF EvaluateDisks, NoThreshold
  <1> QED
    BY <1>1, <1>2, <1>3

\* The rows read are those of the last reports that list any mount, and a
\* mount has been absent from as many of them as the history says.
AbsenceOf(list, m, n) ==
    /\ n <= Len(list)
    /\ \A i \in 1..n : m \notin list[i]
    /\ n < Len(list) => m \in list[n + 1]
AbsenceCounted == group = "missing" => \A m \in Mounts : AbsenceOf(lists, m, absent[m])

LEMMA ListsGrow ==
    ASSUME RulesTypeOK, NEW r, r \in [Mounts -> {Unset, "rw"}], Listed(r) # {},
           NEW history, history = RecentReportedMounts(r)
    PROVE  /\ history \in UNION {[1..n -> SUBSET Mounts] : n \in 0..MissingAfter}
           /\ Len(lists) \in Nat /\ Len(history) \in 1..MissingAfter
           /\ Len(history) = IF Len(lists) < MissingAfter THEN Len(lists) + 1 ELSE MissingAfter
           /\ DOMAIN history = 1..Len(history)
           /\ history[1] = Listed(r) /\ \A i \in 2..Len(history) : history[i] = lists[i - 1]
  <1>1. PICK n \in 0..MissingAfter : lists \in [1..n -> SUBSET Mounts]
    BY DEF RulesTypeOK
  <1>2. n \in Nat /\ MissingAfter \in Nat /\ MissingAfter >= 1
    BY UnsetIs
  <1>3. lists \in Seq(SUBSET Mounts) /\ Len(lists) = n
    BY <1>1, <1>2
  <1>4. PICK first : first = <<Listed(r)>>
    OBVIOUS
  <1>5. first \in Seq(SUBSET Mounts) /\ Len(first) = 1 /\ first[1] = Listed(r)
    BY <1>4 DEF Listed
  <1>6. PICK all : all = first \o lists
    OBVIOUS
  <1>7. /\ all \in Seq(SUBSET Mounts) /\ Len(all) = n + 1
        /\ all[1] = Listed(r) /\ \A i \in 2..(n + 1) : all[i] = lists[i - 1]
    <2>1. PICK S : S = SUBSET Mounts
      OBVIOUS
    <2>2. /\ first \o lists \in Seq(S) /\ Len(first \o lists) = Len(first) + Len(lists)
          /\ \A i \in 1..(Len(first) + Len(lists)) :
                (first \o lists)[i] = IF i <= Len(first) THEN first[i] ELSE lists[i - Len(first)]
      BY <1>3, <1>5, <2>1, ConcatProperties
    <2> QED
      BY <1>2, <1>3, <1>5, <1>6, <2>1, <2>2
  <1>8. PICK len : len = IF n < MissingAfter THEN n + 1 ELSE MissingAfter
    OBVIOUS
  <1>9. len \in 1..MissingAfter /\ len <= n + 1
    BY <1>2, <1>8
  <1>10. history = SubSeq(all, 1, len)
    BY <1>3, <1>4, <1>6, <1>8 DEF RecentReportedMounts
  <1>11. history \in [1..len -> SUBSET Mounts] /\ \A i \in 1..len : history[i] = all[i]
    <2>1. history = [i \in 1..len |-> all[i]]
      BY <1>2, <1>7, <1>9, <1>10, SubSeqProperties
    <2>2. \A i \in 1..len : all[i] \in SUBSET Mounts
      BY <1>2, <1>7, <1>9, ElementOfSeq
    <2> QED
      BY <2>1, <2>2
  <1>12. Len(history) = len
    BY <1>2, <1>9, <1>11
  <1>13. history \in UNION {[1..i -> SUBSET Mounts] : i \in 0..MissingAfter}
    BY <1>2, <1>9, <1>11
  <1>14. DOMAIN history = 1..Len(history)
    BY <1>11, <1>12
  <1>15. history[1] = Listed(r) /\ \A i \in 2..Len(history) : history[i] = lists[i - 1]
    <2>1. \A i \in 2..len : i \in 2..(n + 1) /\ i \in 1..len
      BY <1>2, <1>9
    <2>2. 1 \in 1..len
      BY <1>2, <1>9
    <2> QED
      BY <1>7, <1>11, <1>12, <2>1, <2>2
  <1> QED
    BY <1>2, <1>3, <1>8, <1>9, <1>12, <1>13, <1>14, <1>15

LEMMA AbsenceFollows ==
    ASSUME RulesTypeOK, AbsenceCounted, group = "missing", NEW r \in Reports(group), Listed(r) # {},
           NEW history, history = RecentReportedMounts(r), NEW m \in Mounts
    PROVE  /\ AbsenceOf(history, m, Absences(m, r)) /\ Absences(m, r) \in 0..MissingAfter
           /\ Len(history) \in Nat /\ Len(history) <= MissingAfter /\ DOMAIN history = 1..Len(history)
  <1>0. r \in [Mounts -> {Unset, "rw"}] /\ MissingAfter \in Nat \ {0} /\ absent[m] \in 0..MissingAfter
    BY UnsetIs DEF Reports, RulesTypeOK
  <1>1. /\ Len(lists) \in Nat /\ Len(history) \in 1..MissingAfter
        /\ Len(history) = IF Len(lists) < MissingAfter THEN Len(lists) + 1 ELSE MissingAfter
        /\ DOMAIN history = 1..Len(history)
        /\ history[1] = Listed(r) /\ \A i \in 2..Len(history) : history[i] = lists[i - 1]
    BY <1>0, ListsGrow
  <1>2. AbsenceOf(lists, m, absent[m])
    BY DEF AbsenceCounted
  <1>3. CASE m \in Listed(r)
    BY <1>0, <1>1, <1>3 DEF Absences, AbsenceOf
  <1>4. CASE m \notin Listed(r) /\ absent[m] < MissingAfter
    <2>1. PICK n : n = absent[m] + 1
      OBVIOUS
    <2>2. n \in 1..MissingAfter /\ Absences(m, r) = n /\ n - 1 = absent[m]
      BY <1>0, <1>4, <2>1 DEF Absences
    <2>3. n <= Len(history)
      BY <1>0, <1>1, <1>2, <2>2 DEF AbsenceOf
    <2>4. ASSUME NEW i \in 1..n PROVE m \notin history[i]
      <3>1. CASE i = 1
        BY <1>1, <1>4, <3>1
      <3>2. CASE i # 1
        <4>1. i \in 2..Len(history) /\ i - 1 \in 1..absent[m]
          BY <1>0, <1>1, <2>2, <2>3, <3>2
        <4> QED
          BY <1>1, <1>2, <4>1 DEF AbsenceOf
      <3> QED
        BY <3>1, <3>2
    <2>5. n < Len(history) => m \in history[n + 1]
      <3> SUFFICES ASSUME n < Len(history) PROVE m \in history[n + 1]
        OBVIOUS
      <3>1. n + 1 \in 2..Len(history) /\ (n + 1) - 1 = absent[m] + 1 /\ absent[m] < Len(lists)
        BY <1>0, <1>1, <2>2
      <3> QED
        BY <1>1, <1>2, <3>1 DEF AbsenceOf
    <2> QED
      BY <1>0, <1>1, <2>2, <2>3, <2>4, <2>5 DEF AbsenceOf
  <1>5. CASE m \notin Listed(r) /\ ~(absent[m] < MissingAfter)
    <2>1. Absences(m, r) = MissingAfter /\ absent[m] = MissingAfter
      BY <1>0, <1>5 DEF Absences
    <2>2. Len(history) = MissingAfter
      BY <1>0, <1>1, <1>2, <2>1 DEF AbsenceOf
    <2>3. ASSUME NEW i \in 1..MissingAfter PROVE m \notin history[i]
      <3>1. CASE i = 1
        BY <1>1, <1>5, <3>1
      <3>2. CASE i # 1
        <4>1. i \in 2..Len(history) /\ i - 1 \in 1..MissingAfter
          BY <1>0, <2>2, <3>2
        <4> QED
          BY <1>1, <1>2, <2>1, <4>1 DEF AbsenceOf
      <3> QED
        BY <3>1, <3>2
    <2> QED
      BY <1>0, <1>1, <2>1, <2>2, <2>3 DEF AbsenceOf
  <1> QED
    BY <1>3, <1>4, <1>5

LEMMA AbsenceFull ==
    ASSUME MissingAfter \in Nat, NEW history, NEW m, NEW n \in 0..MissingAfter, AbsenceOf(history, m, n),
           Len(history) \in Nat, Len(history) <= MissingAfter, DOMAIN history = 1..Len(history)
    PROVE  n = MissingAfter <=> Len(history) = MissingAfter /\ \A i \in DOMAIN history : m \notin history[i]
  <1>1. ASSUME n = MissingAfter PROVE Len(history) = MissingAfter /\ \A i \in DOMAIN history : m \notin history[i]
    <2>0. n <= Len(history)
      BY ONLY AbsenceOf(history, m, n) DEF AbsenceOf
    <2>1. Len(history) = n
      BY ONLY <1>1, <2>0, MissingAfter \in Nat, Len(history) \in Nat, Len(history) <= MissingAfter
    <2>2. \A i \in 1..n : m \notin history[i]
      BY DEF AbsenceOf
    <2> QED
      BY <1>1, <2>1, <2>2
  <1>2. ASSUME Len(history) = MissingAfter, \A i \in DOMAIN history : m \notin history[i], n # MissingAfter PROVE FALSE
    <2>1. n < Len(history) /\ n + 1 \in DOMAIN history /\ m \in history[n + 1]
      BY <1>2 DEF AbsenceOf
    <2> QED
      BY <1>2, <2>1
  <1> QED
    BY <1>1, <1>2

LEMMA MissingFollows ==
    ASSUME RulesTypeOK, AbsenceCounted, group = "missing", NEW r \in Reports(group), NEW age,
           NEW s, IsState(s), OneLevel(s)
    PROVE  Follows(s, EvaluateMissingMounts(s, r), "disk_missing", r, age)
  <1>1. CASE Listed(r) = {}
    <2>1. \A k \in Keys(group) : k[1] = "disk_missing" => Says(k, r, age) = Keep
      BY <1>1, SaysIs DEF SaysOfMissing
    <2> QED
      BY <1>1, <2>1, NothingFollows DEF EvaluateMissingMounts
  <1>2. CASE Listed(r) # {}
    <2>0. PICK history : history = RecentReportedMounts(r)
      OBVIOUS
    <2> DEFINE gone == {m \in ExpectedMounts \ Listed(r) :
                           Len(history) = MissingAfter /\ \A i \in DOMAIN history : m \notin history[i]}
               open == {m \in Mounts : s[<<"disk_missing", m>>] # Unset}
               D == gone \cup (open \cap (ExpectedMounts \ Listed(r)))
    <2>1. PICK conds : conds = [m \in D |-> "critical"]
      OBVIOUS
    <2>2. DOMAIN conds = D /\ \A x \in DOMAIN conds : conds[x] = "critical"
      BY <2>1
    <2>3. ASSUME NEW k \in Keys(group), k[1] = "disk_missing"
          PROVE  Wanted(s, conds, TRUE, k) = IF Says(k, r, age) = Keep THEN s[k] ELSE Says(k, r, age)
      <3> DEFINE m == k[2]
      <3>1. m \in Mounts /\ k = <<"disk_missing", m>> /\ Says(k, r, age) = SaysOfMissing(m, r)
        BY <2>3, KeysAre, SaysIs DEF Subjects
      <3>2. Wanted(s, conds, TRUE, k) = IF m \in D THEN "critical" ELSE Unset
        BY <2>2, UnsetIs DEF Wanted
      <3>3. m \in gone <=> m \in ExpectedMounts \ Listed(r) /\ Absences(m, r) = MissingAfter
        <4>1. /\ AbsenceOf(history, m, Absences(m, r)) /\ Absences(m, r) \in 0..MissingAfter /\ MissingAfter \in Nat
              /\ Len(history) \in Nat /\ Len(history) <= MissingAfter /\ DOMAIN history = 1..Len(history)
          BY <1>2, <2>0, <3>1, AbsenceFollows, UnsetIs
        <4> QED
          BY <4>1, AbsenceFull
      <3>4. m \in ExpectedMounts <=> IF ruleset.all THEN m \in ruleset.per ELSE m \in ruleset.sel
        BY DEF ExpectedMounts
      <3>5. m \in open <=> s[k] = "critical"
        BY <2>3, <3>1, UnsetIs DEF OneLevel, TwoLevels
      <3>6. s[k] \in {Unset, "critical"}
        BY <2>3 DEF OneLevel, TwoLevels
      <3> HIDE DEF m, gone, open
      <3> QED
        BY <1>2, <3>1, <3>2, <3>3, <3>4, <3>5, <3>6, UnsetIs DEF SaysOfMissing
    <2>4. \A x \in DOMAIN conds : conds[x] \in AlertLevels \cup {Keep}
      BY <2>2 DEF AlertLevels
    <2>5. Follows(s, Reconcile(s, "disk_missing", conds, TRUE), "disk_missing", r, age)
      BY <2>3, <2>4, ReconcileFollows
    <2>6. EvaluateMissingMounts(s, r) = Reconcile(s, "disk_missing", conds, TRUE)
      BY <1>2, <2>0, <2>1 DEF EvaluateMissingMounts
    <2> QED
      BY <2>5, <2>6
  <1> QED
    BY <1>1, <1>2

LEMMA ReadOnlyFollows ==
    ASSUME group = "ro", NEW r \in Reports(group), NEW age, NEW s, IsState(s), OneLevel(s)
    PROVE  Follows(s, EvaluateReadOnly(s, r), "fs_readonly", r, age)
  <1>0. r \in [Mounts -> {Unset, "rw", "ro", "unknown"}]
    BY DEF Reports
  <1>1. CASE ~ruleset.ro
    <2>1. \A k \in Keys(group) : k[1] = "fs_readonly" => Says(k, r, age) = Unset
      BY <1>1, SaysIs DEF SaysOfReadOnly
    <2> QED
      BY <1>1, <2>1, AllFollow DEF EvaluateReadOnly
  <1>2. CASE ruleset.ro /\ Listed(r) = {}
    <2>1. \A m \in Mounts : SaysOfReadOnly(m, r) = Keep
      BY <1>0, <1>2, UnsetIs DEF SaysOfReadOnly, Listed
    <2>2. ASSUME NEW k \in Keys(group), k[1] = "fs_readonly" PROVE Says(k, r, age) = Keep
      <3>1. k[2] \in Mounts
        BY <2>2, KeysAre DEF Subjects
      <3>2. Says(k, r, age) = SaysOfReadOnly(k[2], r)
        BY <2>2, SaysIs
      <3> QED
        BY <2>1, <3>1, <3>2
    <2> QED
      BY <1>2, <2>2, NothingFollows DEF EvaluateReadOnly
  <1>3. CASE ruleset.ro /\ Listed(r) # {}
    <2> DEFINE cond(m) == CASE r[m] = "unknown" -> Keep
                            [] r[m] = "rw" -> Unset
                            [] OTHER -> IF s[<<"fs_readonly", m>>] # Unset \/ PreviousDisks[m] = "rw"
                                        THEN "critical" ELSE Keep
    <2>1. PICK conds : conds = [m \in Listed(r) |-> cond(m)]
      OBVIOUS
    <2>2. DOMAIN conds = Listed(r) /\ \A x \in Listed(r) : conds[x] = cond(x)
      BY <2>1
    <2>3. \A x \in DOMAIN conds : conds[x] \in AlertLevels \cup {Keep}
      BY <2>2 DEF AlertLevels
    <2>4. ASSUME NEW k \in Keys(group), k[1] = "fs_readonly"
          PROVE  Wanted(s, conds, TRUE, k) = IF Says(k, r, age) = Keep THEN s[k] ELSE Says(k, r, age)
      <3> DEFINE m == k[2]
      <3>1. m \in Mounts /\ k = <<"fs_readonly", m>> /\ Says(k, r, age) = SaysOfReadOnly(m, r)
        BY <2>4, KeysAre, SaysIs DEF Subjects
      <3>2. s[k] \in {Unset, "critical"}
        BY <2>4 DEF OneLevel, TwoLevels
      <3>3. CASE m \in Listed(r)
        <4>1. r[m] \in {"rw", "ro", "unknown"}
          BY <1>0, <3>1, <3>3 DEF Listed
        <4>2. Wanted(s, conds, TRUE, k) = IF conds[m] = Keep THEN s[k] ELSE conds[m]
          BY <2>2, <3>3 DEF Wanted
        <4>3. conds[m] = CASE r[m] = "unknown" -> Keep
                           [] r[m] = "rw" -> Unset
                           [] OTHER -> IF s[k] # Unset \/ row[m] = "rw" THEN "critical" ELSE Keep
          BY <2>2, <3>1, <3>3 DEF PreviousDisks
        <4>4. SaysOfReadOnly(m, r) = CASE r[m] = "unknown" -> Keep
                                       [] r[m] = "rw" -> Unset
                                       [] OTHER -> IF row[m] = "rw" THEN "critical" ELSE Keep
          BY <1>3, <4>1 DEF SaysOfReadOnly
        <4> HIDE DEF m
        <4> QED
          BY <3>1, <3>2, <4>1, <4>2, <4>3, <4>4, UnsetIs
      <3>4. CASE m \notin Listed(r)
        <4>1. r[m] = Unset
          BY <1>0, <3>1, <3>4 DEF Listed
        <4>2. Wanted(s, conds, TRUE, k) = Unset /\ SaysOfReadOnly(m, r) = Unset
          BY <1>3, <2>2, <3>4, <4>1, UnsetIs DEF Wanted, SaysOfReadOnly
        <4> QED
          BY <3>1, <4>2, UnsetIs
      <3> QED
        BY <3>3, <3>4
    <2>5. Follows(s, Reconcile(s, "fs_readonly", conds, TRUE), "fs_readonly", r, age)
      BY <2>3, <2>4, ReconcileFollows
    <2>6. EvaluateReadOnly(s, r) = Reconcile(s, "fs_readonly", conds, TRUE)
      BY <1>3, <2>1 DEF EvaluateReadOnly
    <2> QED
      BY <2>5, <2>6
  <1> QED
    BY <1>1, <1>2, <1>3

LEMMA TimeFollows ==
    ASSUME group = "time", NEW r \in Reports(group), NEW age, NEW s, IsState(s)
    PROVE  Follows(s, EvaluateTimeOffset(EvaluateTimeSync(s, r), r), "time_sync", r, age)
  <1> DEFINE first == [x \in {"unsynced", "source"} |->
            IF x = "unsynced"
            THEN IF ~ruleset.unsynced THEN Unset ELSE IF Synced(r) = Unset THEN Keep ELSE Holds(TRUE, ~Synced(r))
            ELSE IF ~ruleset.source THEN Unset
                 ELSE IF ~r.detail \/ Synced(r) = Unset THEN Keep ELSE Holds(TRUE, Synced(r) /\ r.bad)]
             second == [x \in {"offset"} |-> IF ~ruleset.offset THEN Unset
                              ELSE IF ~r.detail \/ r.offset = Unset THEN Keep ELSE Holds(TRUE, r.offset = "high")]
  <1>1. \A on, cond : Holds(on, cond) \in AlertLevels \cup {Keep}
    BY DEF Holds, AlertLevels
  <1>2. PICK c1 : c1 = first
    OBVIOUS
  <1>3. PICK c2 : c2 = second
    OBVIOUS
  <1>4. DOMAIN c1 = {"unsynced", "source"} /\ \A x \in DOMAIN c1 : c1[x] \in AlertLevels \cup {Keep}
    BY <1>1, <1>2 DEF AlertLevels
  <1>5. DOMAIN c2 = {"offset"} /\ \A x \in DOMAIN c2 : c2[x] \in AlertLevels \cup {Keep}
    BY <1>1, <1>3 DEF AlertLevels
  <1>6. PICK t : t = Reconcile(s, "time_sync", c1, FALSE)
    OBVIOUS
  <1>7. PICK o : o = Reconcile(t, "time_sync", c2, FALSE)
    OBVIOUS
  <1>8. Reconciled(s, t, "time_sync", c1, FALSE)
    BY <1>4, <1>6, ReconcileLeads
  <1>9. IsState(t)
    BY <1>8 DEF Reconciled
  <1>10. Reconciled(t, o, "time_sync", c2, FALSE)
    BY <1>5, <1>7, <1>9, ReconcileLeads
  <1>11. c1["unsynced"] = SaysOfTime("unsynced", r)
    BY <1>2 DEF SaysOfTime, Synced, Holds
  <1>12. c1["source"] = SaysOfTime("source", r)
    BY <1>2 DEF SaysOfTime, Synced, Holds
  <1>13. c2["offset"] = SaysOfTime("offset", r)
    BY <1>3 DEF SaysOfTime, Holds
  <1>14. ASSUME NEW k \in Keys(group), k[1] = "time_sync" PROVE Answers(s, o, k, Says(k, r, age))
    <2>1. k[2] \in {"unsynced", "source", "offset"} /\ Says(k, r, age) = SaysOfTime(k[2], r)
      BY <1>14, KeysAre, SaysIs DEF Subjects, TimeSubjects
    <2>2. t[k] = Wanted(s, c1, FALSE, k) /\ o[k] = Wanted(t, c2, FALSE, k)
      BY <1>8, <1>10, <1>14 DEF Reconciled
    <2>3. CASE k[2] = "offset"
      BY <1>4, <1>5, <1>13, <2>1, <2>2, <2>3 DEF Wanted, Answers
    <2>4. CASE k[2] \in {"unsynced", "source"}
      BY <1>4, <1>5, <1>11, <1>12, <2>1, <2>2, <2>4 DEF Wanted, Answers
    <2> QED
      BY <2>1, <2>3, <2>4
  <1>15. Follows(s, o, "time_sync", r, age)
    BY <1>8, <1>10, <1>14 DEF Reconciled, Follows
  <1>16. EvaluateTimeSync(s, r) = t
    BY <1>2, <1>6 DEF EvaluateTimeSync
  <1>17. EvaluateTimeOffset(t, r) = o
    BY <1>3, <1>7 DEF EvaluateTimeOffset
  <1> QED
    BY <1>15, <1>16, <1>17

LEMMA RAIDFollows ==
    ASSUME group = "raid", NEW r \in Reports(group), NEW age, NEW s, IsState(s)
    PROVE  Follows(s, EvaluateRAID(s, r), "raid_degraded", r, age)
  <1> DEFINE cond(st) == CASE st = "degraded" -> IF ruleset.degraded THEN "critical" ELSE Unset
                           [] st = "rebuilding" -> IF ruleset.rebuilding THEN "warning" ELSE Unset
                           [] OTHER -> Unset
  <1>0. r.arrays \in [Mounts -> {Unset, "clean", "degraded", "rebuilding"}]
    BY DEF Reports
  <1>1. CASE ~ruleset.degraded /\ ~ruleset.rebuilding
    <2>1. \A k \in Keys(group) : k[1] = "raid_degraded" => Says(k, r, age) = Unset
      BY <1>1, SaysIs DEF SaysOfRAID
    <2> QED
      BY <1>1, <2>1, AllFollow DEF EvaluateRAID
  <1>2. CASE ~(~ruleset.degraded /\ ~ruleset.rebuilding) /\ Listed(r.arrays) = {}
    <2>1. \A m \in Mounts : SaysOfRAID(m, r) = Keep
      <3>1. \A m \in Mounts : r.arrays[m] = Unset
        BY <1>0, <1>2 DEF Listed
      <3> QED
        BY <1>2, <3>1, UnsetIs DEF SaysOfRAID
    <2>2. ASSUME NEW k \in Keys(group), k[1] = "raid_degraded" PROVE Says(k, r, age) = Keep
      <3>1. k[2] \in Mounts
        BY <2>2, KeysAre DEF Subjects
      <3>2. Says(k, r, age) = SaysOfRAID(k[2], r)
        BY <2>2, SaysIs
      <3> QED
        BY <2>1, <3>1, <3>2
    <2> QED
      BY <1>2, <2>2, NothingFollows DEF EvaluateRAID
  <1>3. CASE ~(~ruleset.degraded /\ ~ruleset.rebuilding) /\ Listed(r.arrays) # {}
    <2>1. PICK conds : conds = [m \in Listed(r.arrays) |-> cond(r.arrays[m])]
      OBVIOUS
    <2>2. DOMAIN conds = Listed(r.arrays) /\ \A x \in Listed(r.arrays) : conds[x] = cond(r.arrays[x])
      BY <2>1
    <2>3. \A st : cond(st) \in AlertLevels /\ cond(st) # Keep
      BY UnsetIs DEF AlertLevels
    <2>4. \A x \in DOMAIN conds : conds[x] \in AlertLevels \cup {Keep}
      BY <2>2, <2>3
    <2>5. ASSUME NEW k \in Keys(group), k[1] = "raid_degraded"
          PROVE  Wanted(s, conds, TRUE, k) = Says(k, r, age) /\ Says(k, r, age) # Keep
      <3>1. k[2] \in Mounts /\ Says(k, r, age) = SaysOfRAID(k[2], r)
        BY <2>5, KeysAre, SaysIs DEF Subjects
      <3>2. SaysOfRAID(k[2], r) = cond(r.arrays[k[2]])
        BY <1>3 DEF SaysOfRAID
      <3>3. k[2] \notin Listed(r.arrays) => cond(r.arrays[k[2]]) = Unset
        <4>1. k[2] \notin Listed(r.arrays) => r.arrays[k[2]] = Unset
          BY <1>0, <3>1 DEF Listed
        <4> QED
          BY <4>1, UnsetIs
      <3>4. Wanted(s, conds, TRUE, k) = cond(r.arrays[k[2]])
        BY <2>2, <2>3, <3>3 DEF Wanted
      <3> QED
        BY <2>3, <3>1, <3>2, <3>4
    <2>6. Follows(s, Reconcile(s, "raid_degraded", conds, TRUE), "raid_degraded", r, age)
      BY <2>4, <2>5, ReconcileFollows
    <2>7. EvaluateRAID(s, r) = Reconcile(s, "raid_degraded", conds, TRUE)
      BY <1>3, <2>1 DEF EvaluateRAID
    <2> QED
      BY <2>6, <2>7
  <1> QED
    BY <1>1, <1>2, <1>3

LEMMA FlagFollows ==
    ASSUME NEW r, NEW age, NEW s, IsState(s), \A k \in Keys(group) : k[1] = "flag" => k[2] = ""
    PROVE  Follows(s, EvaluateFlag(s, r), "flag", r, age)
  <1>1. CASE ~ruleset.flag
    <2>1. \A k \in Keys(group) : k[1] = "flag" => Says(k, r, age) = Unset
      BY <1>1, SaysIs DEF SaysOfFlag
    <2> QED
      BY <1>1, <2>1, AllFollow DEF EvaluateFlag
  <1>2. CASE ruleset.flag /\ r.flag = Unset
    <2>1. \A k \in Keys(group) : k[1] = "flag" => Says(k, r, age) = Keep
      BY <1>2, SaysIs DEF SaysOfFlag
    <2> QED
      BY <1>2, <2>1, NothingFollows DEF EvaluateFlag
  <1>3. CASE ruleset.flag /\ r.flag # Unset
    <2>1. PICK conds : conds = [x \in {""} |-> Holds(TRUE, r.flag)]
      OBVIOUS
    <2>2. DOMAIN conds = {""} /\ conds[""] = Holds(TRUE, r.flag)
      BY <2>1
    <2>3. \A x \in DOMAIN conds : conds[x] \in AlertLevels \cup {Keep}
      BY <2>2 DEF Holds, AlertLevels
    <2>4. SaysOfFlag(r) = Holds(TRUE, r.flag) /\ Holds(TRUE, r.flag) # Keep
      BY <1>3, UnsetIs DEF SaysOfFlag, Holds
    <2>5. \A k \in Keys(group) : k[1] = "flag" =>
              Wanted(s, conds, FALSE, k) = IF Says(k, r, age) = Keep THEN s[k] ELSE Says(k, r, age)
      BY <2>2, <2>4, SaysIs DEF Wanted
    <2>6. Follows(s, Reconcile(s, "flag", conds, FALSE), "flag", r, age)
      BY <2>3, <2>5, ReconcileFollows
    <2> QED
      BY <1>3, <2>1, <2>6 DEF EvaluateFlag
  <1> QED
    BY <1>1, <1>2, <1>3

LEMMA ServicesFollow ==
    ASSUME group = "watch", NEW r \in Reports(group), NEW age, NEW s, IsState(s), OneLevel(s)
    PROVE  Follows(s, EvaluateServices(s, r), "service_failed", r, age)
  <1> DEFINE watched == {m \in Listed(r.services) : r.services[m] # "unwatched"}
             cond(m) == CASE r.services[m] = "down" -> "critical"
                          [] r.services[m] = "up" -> Unset
                          [] OTHER -> IF s[<<"service_failed", m>>] # Unset THEN "critical" ELSE Keep
  <1>0. r.services \in [Mounts -> {Unset, "unwatched", "up", "fresh", "down"}]
    BY DEF Reports
  <1>1. CASE ~ruleset.service
    <2>1. \A k \in Keys(group) : k[1] = "service_failed" => Says(k, r, age) = Unset
      BY <1>1, SaysIs DEF SaysOfService
    <2> QED
      BY <1>1, <2>1, AllFollow DEF EvaluateServices
  <1>2. CASE ruleset.service
    <2>1. PICK conds : conds = [m \in watched |-> cond(m)]
      OBVIOUS
    <2>2. DOMAIN conds = watched /\ \A x \in watched : conds[x] = cond(x)
      BY <2>1
    <2>3. \A x \in DOMAIN conds : conds[x] \in AlertLevels \cup {Keep}
      BY <2>2 DEF AlertLevels
    <2>4. ASSUME NEW k \in Keys(group), k[1] = "service_failed"
          PROVE  Wanted(s, conds, TRUE, k) = IF Says(k, r, age) = Keep THEN s[k] ELSE Says(k, r, age)
      <3> DEFINE m == k[2]
      <3>1. m \in Mounts /\ k = <<"service_failed", m>> /\ Says(k, r, age) = SaysOfService(m, r)
        BY <2>4, KeysAre, SaysIs DEF Subjects
      <3>2. s[k] \in {Unset, "critical"}
        BY <2>4 DEF OneLevel, TwoLevels
      <3>3. SaysOfService(m, r) = CASE r.services[m] = "fresh" -> Keep
                                    [] r.services[m] = "down" -> "critical"
                                    [] OTHER -> Unset
        BY <1>2 DEF SaysOfService
      <3>4. CASE m \in watched
        <4>1. r.services[m] \in {"up", "fresh", "down"}
          BY <1>0, <3>1, <3>4 DEF Listed
        <4>2. Wanted(s, conds, TRUE, k) = IF conds[m] = Keep THEN s[k] ELSE conds[m]
          BY <2>2, <3>4 DEF Wanted
        <4>3. conds[m] = CASE r.services[m] = "down" -> "critical"
                           [] r.services[m] = "up" -> Unset
                           [] OTHER -> IF s[k] # Unset THEN "critical" ELSE Keep
          BY <2>2, <3>1, <3>4
        <4> HIDE DEF m, watched
        <4> QED
          BY <3>1, <3>2, <3>3, <4>1, <4>2, <4>3, UnsetIs
      <3>5. CASE m \notin watched
        <4>1. r.services[m] \in {Unset, "unwatched"}
          BY <1>0, <3>1, <3>5 DEF Listed
        <4>2. Wanted(s, conds, TRUE, k) = Unset
          BY <2>2, <3>5 DEF Wanted
        <4> HIDE DEF m, watched
        <4> QED
          BY <3>1, <3>3, <4>1, <4>2, UnsetIs
      <3> QED
        BY <3>4, <3>5
    <2>5. Follows(s, Reconcile(s, "service_failed", conds, TRUE), "service_failed", r, age)
      BY <2>3, <2>4, ReconcileFollows
    <2>6. EvaluateServices(s, r) = Reconcile(s, "service_failed", conds, TRUE)
      BY <1>2, <2>1 DEF EvaluateServices
    <2> QED
      BY <2>5, <2>6
  <1> QED
    BY <1>1, <1>2

LEMMA ContainersFollow ==
    ASSUME group = "watch", NEW r \in Reports(group), NEW age, NEW s, IsState(s)
    PROVE  Follows(s, EvaluateContainers(s, r), "container_unhealthy", r, age)
  <1>0. r.containers \in [Mounts -> {Unset, "healthy", "unhealthy"}]
    BY DEF Reports
  <1>1. CASE ~ruleset.unhealthy
    <2>1. \A k \in Keys(group) : k[1] = "container_unhealthy" => Says(k, r, age) = Unset
      BY <1>1, SaysIs DEF SaysOfContainer
    <2> QED
      BY <1>1, <2>1, AllFollow DEF EvaluateContainers
  <1>2. CASE ruleset.unhealthy /\ Listed(r.containers) = {}
    <2>1. \A m \in Mounts : SaysOfContainer(m, r) = Keep
      <3>1. \A m \in Mounts : r.containers[m] = Unset
        BY <1>0, <1>2 DEF Listed
      <3> QED
        BY <1>2, <3>1, UnsetIs DEF SaysOfContainer
    <2>2. ASSUME NEW k \in Keys(group), k[1] = "container_unhealthy" PROVE Says(k, r, age) = Keep
      <3>1. k[2] \in Mounts
        BY <2>2, KeysAre DEF Subjects
      <3>2. Says(k, r, age) = SaysOfContainer(k[2], r)
        BY <2>2, SaysIs
      <3> QED
        BY <2>1, <3>1, <3>2
    <2> QED
      BY <1>2, <2>2, NothingFollows DEF EvaluateContainers
  <1>3. CASE ruleset.unhealthy /\ Listed(r.containers) # {}
    <2>1. PICK conds : conds = [m \in Listed(r.containers) |-> Holds(TRUE, r.containers[m] = "unhealthy")]
      OBVIOUS
    <2>2. /\ DOMAIN conds = Listed(r.containers)
          /\ \A x \in DOMAIN conds : conds[x] = IF r.containers[x] = "unhealthy" THEN "critical" ELSE Unset
      BY <2>1 DEF Holds
    <2>3. \A x \in DOMAIN conds : conds[x] \in AlertLevels \cup {Keep}
      BY <2>2 DEF AlertLevels
    <2>4. ASSUME NEW k \in Keys(group), k[1] = "container_unhealthy"
          PROVE  Wanted(s, conds, TRUE, k) = IF Says(k, r, age) = Keep THEN s[k] ELSE Says(k, r, age)
      <3>1. k[2] \in Mounts /\ Says(k, r, age) = SaysOfContainer(k[2], r)
        BY <2>4, KeysAre, SaysIs DEF Subjects
      <3>2. SaysOfContainer(k[2], r) = IF r.containers[k[2]] = "unhealthy" THEN "critical" ELSE Unset
        BY <1>3 DEF SaysOfContainer
      <3>3. k[2] \notin Listed(r.containers) => r.containers[k[2]] = Unset
        BY <1>0, <3>1 DEF Listed
      <3> QED
        BY <2>2, <3>1, <3>2, <3>3, UnsetIs DEF Wanted
    <2>5. Follows(s, Reconcile(s, "container_unhealthy", conds, TRUE), "container_unhealthy", r, age)
      BY <2>3, <2>4, ReconcileFollows
    <2>6. EvaluateContainers(s, r) = Reconcile(s, "container_unhealthy", conds, TRUE)
      BY <1>3, <2>1 DEF EvaluateContainers
    <2> QED
      BY <2>5, <2>6
  <1> QED
    BY <1>1, <1>2, <1>3

LEMMA OOMFollows ==
    ASSUME group = "oom", NEW r \in Reports(group), NEW age, NEW s, IsState(s), OneLevel(s)
    PROVE  Follows(s, EvaluateOOMKills(s, r, age), "oom_kill", r, age)
  <1>0. r \in {Unset, "same", "more"}
    BY DEF Reports
  <1>1. CASE ~ruleset.oom
    <2>1. \A k \in Keys(group) : k[1] = "oom_kill" => Says(k, r, age) = Unset
      BY <1>1, SaysIs DEF SaysOfOOM
    <2> QED
      BY <1>1, <2>1, AllFollow DEF EvaluateOOMKills
  <1>2. CASE ruleset.oom /\ r = Unset
    <2>1. SaysOfOOM(r, age) = Keep
      BY <1>2, UnsetIs DEF SaysOfOOM
    <2>2. \A k \in Keys(group) : k[1] = "oom_kill" => Says(k, r, age) = Keep
      BY <2>1, SaysIs
    <2> QED
      BY <1>2, <2>2, NothingFollows DEF EvaluateOOMKills
  <1>3. CASE ruleset.oom /\ r # Unset
    <2> DEFINE level == IF r = "more" \/ (s[<<"oom_kill", "">>] # Unset /\ age < QuietAfter) THEN "critical" ELSE Unset
    <2>1. PICK conds : conds = [x \in {""} |-> level]
      OBVIOUS
    <2>2. DOMAIN conds = {""} /\ conds[""] = level
      BY <2>1
    <2>3. \A x \in DOMAIN conds : conds[x] \in AlertLevels \cup {Keep}
      BY <2>2 DEF AlertLevels
    <2>4. ASSUME NEW k \in Keys(group), k[1] = "oom_kill"
          PROVE  Wanted(s, conds, FALSE, k) = IF Says(k, r, age) = Keep THEN s[k] ELSE Says(k, r, age)
      <3>1. k = <<"oom_kill", "">> /\ k[2] = "" /\ Says(k, r, age) = SaysOfOOM(r, age)
        <4>1. k = <<k[1], k[2]>> /\ k[2] \in Subjects("oom_kill")
          BY <2>4, KeysAre
        <4>2. Subjects("oom_kill") = {""}
          BY DEF Subjects
        <4>3. Says(k, r, age) = SaysOfOOM(r, age)
          BY <2>4, SaysIs
        <4> QED
          BY <2>4, <4>1, <4>2, <4>3
      <3>2. s[k] \in {Unset, "critical"}
        BY <2>4 DEF OneLevel, TwoLevels
      <3>3. level # Keep /\ Wanted(s, conds, FALSE, k) = level
        BY <2>2, <3>1, UnsetIs DEF Wanted
      <3>4. CASE r = "more"
        BY <1>3, <3>1, <3>3, <3>4, UnsetIs DEF SaysOfOOM
      <3>5. CASE r = "same" /\ age < QuietAfter
        BY <1>3, <3>1, <3>2, <3>3, <3>5, UnsetIs DEF SaysOfOOM
      <3>6. CASE r = "same" /\ ~(age < QuietAfter)
        BY <1>3, <3>1, <3>3, <3>6, UnsetIs DEF SaysOfOOM
      <3> QED
        BY <1>0, <1>3, <3>4, <3>5, <3>6
    <2>5. Follows(s, Reconcile(s, "oom_kill", conds, FALSE), "oom_kill", r, age)
      BY <2>3, <2>4, ReconcileFollows
    <2>6. EvaluateOOMKills(s, r, age) = Reconcile(s, "oom_kill", conds, FALSE)
      BY <1>3, <2>1 DEF EvaluateOOMKills
    <2> QED
      BY <2>5, <2>6
  <1> QED
    BY <1>1, <1>2, <1>3

-----------------------------------------------------------------------------
(* Alert rules: the inductive invariant                                    *)

RulesInv == AlertsExact /\ AbsenceCounted /\ OneLevel(act)

\* Whatever the group, an evaluation makes of each alert what was said of it.
LEMMA ReportFollows ==
    ASSUME RulesInv, NEW r \in Reports(group), NEW age, NEW o, o = EvaluateReport(act, r, age)
    PROVE  IsState(act) /\ IsState(o) /\ \A k \in Keys(group) : Answers(act, o, k, Says(k, r, age))
  <1>0. /\ RulesTypeOK /\ AbsenceCounted /\ OneLevel(act) /\ IsState(act)
        /\ group \in Groups /\ ruleset \in Rulesets(group)
    BY DEF RulesInv, AlertsExact, RulesTypeOK, IsState, AlertLevels
  <1>1. \A k \in Keys(group) : k[1] \in TypesOf(group)
    BY KeysAre
  <1>2. CASE group = "usage"
    <2>1. Follows(act, o, "disk", r, age)
      BY <1>0, <1>2, DisksFollow DEF EvaluateReport
    <2> QED
      BY <1>0, <1>1, <1>2, <2>1 DEF Follows, TypesOf
  <1>3. CASE group = "missing"
    <2>1. Follows(act, o, "disk_missing", r, age)
      BY <1>0, <1>3, MissingFollows DEF EvaluateReport
    <2> QED
      BY <1>0, <1>1, <1>3, <2>1 DEF Follows, TypesOf
  <1>4. CASE group = "ro"
    <2>1. Follows(act, o, "fs_readonly", r, age)
      BY <1>0, <1>4, ReadOnlyFollows DEF EvaluateReport
    <2> QED
      BY <1>0, <1>1, <1>4, <2>1 DEF Follows, TypesOf
  <1>5. CASE group = "time"
    <2>1. Follows(act, o, "time_sync", r, age)
      BY <1>0, <1>5, TimeFollows DEF EvaluateReport
    <2> QED
      BY <1>0, <1>1, <1>5, <2>1 DEF Follows, TypesOf
  <1>6. CASE group = "raid"
    <2>1. PICK t : t = EvaluateRAID(act, r)
      OBVIOUS
    <2>2. Follows(act, t, "raid_degraded", r, age)
      BY <1>0, <1>6, <2>1, RAIDFollows
    <2>3. IsState(t) /\ \A k \in Keys(group) : k[1] = "flag" => k[2] = ""
      BY <2>2, KeysAre DEF Follows, Subjects
    <2>4. o = EvaluateFlag(t, r)
      BY <1>6, <2>1 DEF EvaluateReport
    <2>5. Follows(t, o, "flag", r, age)
      BY <2>3, <2>4, FlagFollows
    <2> QED
      BY <1>0, <1>1, <1>6, <2>2, <2>5 DEF Follows, TypesOf, Answers
  <1>7. CASE group = "watch"
    <2>1. PICK t : t = EvaluateServices(act, r)
      OBVIOUS
    <2>2. Follows(act, t, "service_failed", r, age)
      BY <1>0, <1>7, <2>1, ServicesFollow
    <2>3. IsState(t)
      BY <2>2 DEF Follows
    <2>4. o = EvaluateContainers(t, r)
      BY <1>7, <2>1 DEF EvaluateReport
    <2>5. Follows(t, o, "container_unhealthy", r, age)
      BY <1>7, <2>3, <2>4, ContainersFollow
    <2> QED
      BY <1>0, <1>1, <1>7, <2>2, <2>5 DEF Follows, TypesOf, Answers
  <1>8. CASE group = "oom"
    <2>1. Follows(act, o, "oom_kill", r, age)
      BY <1>0, <1>8, OOMFollows DEF EvaluateReport
    <2> QED
      BY <1>0, <1>1, <1>8, <2>1 DEF Follows, TypesOf
  <1> QED
    BY <1>0, <1>2, <1>3, <1>4, <1>5, <1>6, <1>7, <1>8, RulesAssumption

LEMMA RulesStart == RulesInit => RulesInv
  <1> SUFFICES ASSUME RulesInit PROVE RulesInv
    OBVIOUS
  <1>0. lists = <<>> /\ Len(lists) = 0
    BY DEF RulesInit
  <1>1. RulesTypeOK
    <2>1. lists \in [1..0 -> SUBSET Mounts] /\ 0 \in 0..MissingAfter
      BY UnsetIs DEF RulesInit
    <2>2. lists \in UNION {[1..n -> SUBSET Mounts] : n \in 0..MissingAfter}
      BY <2>1
    <2>3. /\ group \in Groups /\ ruleset \in Rulesets(group) /\ act \in [Keys(group) -> {Unset, "warning", "critical"}]
          /\ called \in [Keys(group) -> {Unset, "warning", "critical", "unknown"}]
      BY DEF RulesInit
    <2>4. quiet \in 0..QuietAfter /\ ruleChanges \in 0..MaxRuleChanges /\ clean \in BOOLEAN
      BY UnsetIs DEF RulesInit
    <2>5. absent \in [Mounts -> 0..MissingAfter] /\ fell \in [Mounts -> BOOLEAN]
      BY UnsetIs DEF RulesInit
    <2> QED
      BY <2>2, <2>3, <2>4, <2>5 DEF RulesTypeOK
  <1>2. FollowsReports /\ OneLevel(act)
    BY DEF RulesInit, FollowsReports, OneLevel
  <1>3. MissingIsReal
    BY KeysAre DEF RulesInit, MissingIsReal
  <1>4. AbsenceCounted
    BY <1>0, UnsetIs DEF RulesInit, AbsenceCounted, AbsenceOf
  <1> QED
    BY <1>1, <1>2, <1>3, <1>4 DEF RulesInv, AlertsExact

-----------------------------------------------------------------------------
(* Alert rules: a report                                                   *)

\* A report r was stored and evaluated to o; failed are the alerts that
\* should have changed and did not.
Outcome(r, age, o, failed) ==
    /\ r \in Reports(group) /\ age = (IF r = "more" THEN 0 ELSE quiet) /\ o = EvaluateReport(act, r, age)
    /\ act' \in [Keys(group) -> {act[k] : k \in Keys(group)} \cup {o[k] : k \in Keys(group)}]
    /\ \A k \in Keys(group) : act'[k] = IF k \in failed THEN act[k] ELSE o[k]
    /\ clean' = (clean /\ failed = {})
    /\ called' = [k \in Keys(group) |-> Calls(k, r, age, k \in failed)]
    /\ row' = (IF group \in {"usage", "ro"} THEN r ELSE row)
    /\ lists' = (IF group = "missing" THEN RecentReportedMounts(r) ELSE lists)
    /\ quiet' = (IF group = "oom" THEN age ELSE quiet)
    /\ absent' = (IF group = "missing" THEN [m \in Mounts |-> Absences(m, r)] ELSE absent)
    /\ fell' = (IF group = "ro" THEN [m \in Mounts |-> NextFell(m, r)] ELSE fell)
    /\ group' = group /\ ruleset' = ruleset /\ ruleChanges' = ruleChanges

LEMMA ReportGives == RulesInv /\ Report => \E r, age, o, failed : Outcome(r, age, o, failed)
  <1> SUFFICES ASSUME RulesInv, Report PROVE \E r, age, o, failed : Outcome(r, age, o, failed)
    OBVIOUS
  <1>1. PICK r \in Reports(group), lost \in {{}, Keys(group)} \cup {{k} : k \in Keys(group)} :
            LET age == IF r = "more" THEN 0 ELSE quiet
                out == EvaluateReport(act, r, age)
                failed == {k \in lost : out[k] # act[k]}
            IN  /\ row' = IF group \in {"usage", "ro"} THEN r ELSE row
                /\ lists' = IF group = "missing" THEN RecentReportedMounts(r) ELSE lists
                /\ quiet' = IF group = "oom" THEN age ELSE quiet
                /\ act' = [k \in Keys(group) |-> IF k \in lost THEN act[k] ELSE out[k]]
                /\ clean' = (clean /\ failed = {})
                /\ called' = [k \in Keys(group) |-> Calls(k, r, age, k \in failed)]
                /\ absent' = IF group = "missing" THEN [m \in Mounts |-> Absences(m, r)] ELSE absent
                /\ IF group = "ro"
                   THEN /\ fell' = [m \in Mounts |-> NextFell(m, r)]
                        /\ knownRW' = [m \in Mounts |-> CASE r[m] = "rw" -> TRUE
                                                     [] r[m] = "ro" \/ (r[m] = Unset /\ Listed(r) # {}) -> FALSE
                                                     [] OTHER -> knownRW[m]]
                   ELSE UNCHANGED <<fell, knownRW>>
                /\ UNCHANGED <<group, ruleset, ruleChanges>>
    BY DEF Report
  <1>2. PICK age : age = IF r = "more" THEN 0 ELSE quiet
    OBVIOUS
  <1>3. PICK o : o = EvaluateReport(act, r, age)
    OBVIOUS
  <1>4. PICK failed : failed = {k \in lost : o[k] # act[k]}
    OBVIOUS
  <1>5. act' = [k \in Keys(group) |-> IF k \in lost THEN act[k] ELSE o[k]]
    BY <1>1, <1>2, <1>3
  <1>6. \A k \in Keys(group) : act'[k] = IF k \in failed THEN act[k] ELSE o[k]
    BY <1>4, <1>5
  <1>7. act' \in [Keys(group) -> {act[k] : k \in Keys(group)} \cup {o[k] : k \in Keys(group)}]
    BY <1>5
  <1>8. clean' = (clean /\ failed = {}) /\ called' = [k \in Keys(group) |-> Calls(k, r, age, k \in failed)]
    BY <1>1, <1>2, <1>3, <1>4
  <1>9. /\ row' = (IF group \in {"usage", "ro"} THEN r ELSE row)
        /\ lists' = (IF group = "missing" THEN RecentReportedMounts(r) ELSE lists)
        /\ quiet' = (IF group = "oom" THEN age ELSE quiet)
        /\ absent' = (IF group = "missing" THEN [m \in Mounts |-> Absences(m, r)] ELSE absent)
        /\ fell' = (IF group = "ro" THEN [m \in Mounts |-> NextFell(m, r)] ELSE fell)
        /\ group' = group /\ ruleset' = ruleset /\ ruleChanges' = ruleChanges
    BY <1>1, <1>2
  <1>10. Outcome(r, age, o, failed)
    BY <1>2, <1>3, <1>6, <1>7, <1>8, <1>9 DEF Outcome
  <1> QED
    BY <1>10

\* What an alert is called for and what it is stay together.
LEMMA ReportCalls ==
    ASSUME RulesInv, NEW r, NEW age, NEW o, NEW failed, Outcome(r, age, o, failed)
    PROVE  /\ act' \in [Keys(group) -> AlertLevels] /\ OneLevel(act)'
           /\ called' \in [Keys(group) -> {Unset, "warning", "critical", "unknown"}] /\ FollowsReports'
  <1>0. group \in Groups /\ called \in [Keys(group) -> {Unset, "warning", "critical", "unknown"}] /\ group' = group
    BY DEF RulesInv, AlertsExact, RulesTypeOK, Outcome
  <1>1. IsState(act) /\ IsState(o) /\ \A k \in Keys(group) : Answers(act, o, k, Says(k, r, age))
    BY ReportFollows DEF Outcome
  <1>2. ASSUME NEW k \in Keys(group)
        PROVE  /\ act'[k] \in AlertLevels /\ (k[1] \notin TwoLevels => act'[k] \in {Unset, "critical"})
               /\ called'[k] \in {Unset, "warning", "critical", "unknown"} /\ called'[k] \in {act'[k], "unknown"}
    <2>1. act[k] \in AlertLevels /\ o[k] \in AlertLevels /\ act'[k] = IF k \in failed THEN act[k] ELSE o[k]
      BY <1>1 DEF IsState, Outcome
    <2>2. /\ Says(k, r, age) \in AlertLevels \cup {Keep}
          /\ k[1] \notin TwoLevels => Says(k, r, age) \in {Unset, "critical", Keep}
      BY <1>0, SaysOfType
    <2>3. o[k] = IF Says(k, r, age) = Keep THEN act[k] ELSE Says(k, r, age)
      BY <1>1 DEF Answers
    <2>4. k[1] \notin TwoLevels => act[k] \in {Unset, "critical"}
      BY DEF RulesInv, OneLevel
    <2>5. called'[k] = IF k \in failed THEN "unknown" ELSE IF Says(k, r, age) = Keep THEN called[k] ELSE Says(k, r, age)
      BY DEF Outcome, Calls
    <2>6. called[k] \in {act[k], "unknown"} /\ called[k] \in {Unset, "warning", "critical", "unknown"}
      BY <1>0 DEF RulesInv, AlertsExact, FollowsReports
    <2> QED
      BY <2>1, <2>2, <2>3, <2>4, <2>5, <2>6 DEF AlertLevels
  <1>3. act' \in [Keys(group) -> AlertLevels]
    BY <1>2 DEF Outcome
  <1>4. called' \in [Keys(group) -> {Unset, "warning", "critical", "unknown"}]
    BY <1>2 DEF Outcome
  <1>5. FollowsReports' /\ OneLevel(act)'
    BY <1>0, <1>2 DEF FollowsReports, OneLevel
  <1> QED
    BY <1>3, <1>4, <1>5

LEMMA ReportMissing ==
    ASSUME RulesInv, NEW r, NEW age, NEW o, NEW failed, Outcome(r, age, o, failed)
    PROVE  /\ MissingIsReal' /\ AbsenceCounted' /\ absent' \in [Mounts -> 0..MissingAfter]
           /\ lists' \in UNION {[1..n -> SUBSET Mounts] : n \in 0..MissingAfter}
  <1>0. /\ RulesTypeOK /\ MissingIsReal /\ AbsenceCounted /\ MissingAfter \in Nat \ {0}
        /\ absent \in [Mounts -> 0..MissingAfter] /\ lists \in UNION {[1..n -> SUBSET Mounts] : n \in 0..MissingAfter}
    BY UnsetIs DEF RulesInv, AlertsExact, RulesTypeOK
  <1>1. CASE group # "missing"
    BY <1>0, <1>1 DEF Outcome, MissingIsReal, AbsenceCounted
  <1>2. CASE group = "missing"
    <2>1. /\ r \in [Mounts -> {Unset, "rw"}] /\ r \in Reports(group) /\ group' = group
          /\ lists' = RecentReportedMounts(r) /\ absent' = [m \in Mounts |-> Absences(m, r)]
      BY <1>2 DEF Outcome, Reports
    <2>2. ASSUME NEW m \in Mounts PROVE AbsenceOf(lists', m, absent'[m]) /\ absent'[m] \in 0..MissingAfter
      <3>1. CASE Listed(r) = {}
        <4>1. lists' = lists /\ absent'[m] = absent[m]
          BY <2>1, <3>1 DEF RecentReportedMounts, Absences
        <4> QED
          BY <1>0, <1>2, <4>1 DEF AbsenceCounted
      <3>2. CASE Listed(r) # {}
        BY <1>0, <1>2, <2>1, <3>2, AbsenceFollows
      <3> QED
        BY <3>1, <3>2
    <2>3. AbsenceCounted'
      BY <2>2 DEF AbsenceCounted
    <2>4. absent' \in [Mounts -> 0..MissingAfter]
      BY <2>1, <2>2
    <2>5. lists' \in UNION {[1..n -> SUBSET Mounts] : n \in 0..MissingAfter}
      <3>1. CASE Listed(r) = {}
        BY <1>0, <2>1, <3>1 DEF RecentReportedMounts
      <3>2. CASE Listed(r) # {}
        <4>1. PICK history : history = RecentReportedMounts(r)
          OBVIOUS
        <4> QED
          BY <1>0, <2>1, <3>2, <4>1, ListsGrow
      <3> QED
        BY <3>1, <3>2
    <2>6. ASSUME clean', NEW m \in Mounts, act'[<<"disk_missing", m>>] # Unset PROVE absent'[m] >= MissingAfter
      <3> DEFINE k == <<"disk_missing", m>>
      <3>1. k \in Keys(group) /\ k[1] = "disk_missing" /\ k[2] = m
        BY <1>2, KeysAre
      <3>2. clean /\ act'[k] = o[k]
        BY <2>6, <3>1 DEF Outcome
      <3>3. o[k] = IF SaysOfMissing(m, r) = Keep THEN act[k] ELSE SaysOfMissing(m, r)
        BY <3>1, ReportFollows, SaysIs DEF Outcome, Answers
      <3>4. absent'[m] = Absences(m, r) /\ absent[m] \in 0..MissingAfter
        BY <1>0, <2>1
      <3>5. CASE SaysOfMissing(m, r) = Keep
        <4>1. act[k] # Unset /\ absent[m] >= MissingAfter
          BY <1>0, <1>2, <2>6, <3>2, <3>3, <3>5 DEF MissingIsReal
        <4>2. Listed(r) = {} \/ m \notin Listed(r)
          BY <3>5, UnsetIs DEF SaysOfMissing
        <4> QED
          BY <1>0, <3>4, <4>1, <4>2 DEF Absences
      <3>6. CASE SaysOfMissing(m, r) # Keep
        <4>1. SaysOfMissing(m, r) # Unset
          BY <2>6, <3>2, <3>3, <3>6
        <4>2. Absences(m, r) = MissingAfter
          BY <3>6, <4>1 DEF SaysOfMissing
        <4> QED
          BY <1>0, <3>4, <4>2
      <3> QED
        BY <3>5, <3>6
    <2>7. MissingIsReal'
      BY <2>6 DEF MissingIsReal
    <2> QED
      BY <2>3, <2>4, <2>5, <2>7
  <1> QED
    BY <1>1, <1>2

-----------------------------------------------------------------------------
(* Alert rules: the theorems                                               *)

LEMMA ReportKeeps == RulesInv /\ Report => RulesInv'
  <1> SUFFICES ASSUME RulesInv, Report PROVE RulesInv'
    OBVIOUS
  <1>1. PICK r, age, o, failed : Outcome(r, age, o, failed)
    BY ReportGives
  <1>0. /\ RulesTypeOK /\ group' = group /\ ruleset' = ruleset /\ ruleChanges' = ruleChanges
        /\ QuietAfter \in Nat
    BY <1>1, UnsetIs DEF RulesInv, AlertsExact, Outcome
  <1>2. /\ act' \in [Keys(group) -> AlertLevels] /\ OneLevel(act)'
        /\ called' \in [Keys(group) -> {Unset, "warning", "critical", "unknown"}] /\ FollowsReports'
    BY <1>1, ReportCalls
  <1>3. /\ MissingIsReal' /\ AbsenceCounted' /\ absent' \in [Mounts -> 0..MissingAfter]
        /\ lists' \in UNION {[1..n -> SUBSET Mounts] : n \in 0..MissingAfter}
    BY <1>1, ReportMissing
  <1>4. quiet' \in 0..QuietAfter /\ clean' \in BOOLEAN
    BY <1>0, <1>1 DEF Outcome, RulesTypeOK
  <1>5. fell' \in [Mounts -> BOOLEAN]
    <2>1. \A m \in Mounts : NextFell(m, r) \in BOOLEAN
      BY <1>0 DEF NextFell, RulesTypeOK
    <2> QED
      BY <1>0, <1>1, <2>1 DEF Outcome, RulesTypeOK
  <1>6. RulesTypeOK'
    BY <1>0, <1>2, <1>3, <1>4, <1>5 DEF RulesTypeOK, AlertLevels
  <1> QED
    BY <1>2, <1>3, <1>6 DEF RulesInv, AlertsExact

LEMMA ChangeKeeps == RulesInv /\ ChangeRules => RulesInv'
  <1> SUFFICES ASSUME RulesInv, ChangeRules PROVE RulesInv'
    OBVIOUS
  <1>0. /\ group' = group /\ ruleset' \in Rulesets(group) /\ act' = act /\ called' = [k \in Keys(group) |-> "unknown"]
        /\ lists' = lists /\ quiet' = quiet /\ clean' = clean /\ absent' = absent
        /\ fell' = IF group = "ro" /\ ~ruleset'.ro THEN [m \in Mounts |-> FALSE] ELSE fell
    BY DEF ChangeRules
  <1>1. RulesTypeOK'
    <2>1. ruleChanges' \in 0..MaxRuleChanges
      BY UnsetIs DEF ChangeRules, RulesInv, AlertsExact, RulesTypeOK
    <2>2. fell' \in [Mounts -> BOOLEAN]
      BY <1>0 DEF RulesInv, AlertsExact, RulesTypeOK
    <2>3. called' \in [Keys(group) -> {Unset, "warning", "critical", "unknown"}]
      BY <1>0
    <2> QED
      BY <1>0, <2>1, <2>2, <2>3 DEF RulesInv, AlertsExact, RulesTypeOK
  <1>2. FollowsReports'
    BY <1>0 DEF FollowsReports
  <1>3. MissingIsReal' /\ AbsenceCounted' /\ OneLevel(act)'
    BY <1>0 DEF RulesInv, AlertsExact, MissingIsReal, AbsenceCounted, OneLevel
  <1> QED
    BY <1>1, <1>2, <1>3 DEF RulesInv, AlertsExact

LEMMA RestKeeps == RulesInv /\ (TimePasses \/ UNCHANGED rlvars) => RulesInv'
  <1> SUFFICES ASSUME RulesInv, TimePasses \/ UNCHANGED rlvars PROVE RulesInv'
    OBVIOUS
  <1>0. UNCHANGED <<group, ruleset, act, row, lists, clean, called, ruleChanges, absent, fell, knownRW>>
    BY DEF TimePasses, rlvars
  <1>1. quiet' \in 0..QuietAfter
    BY UnsetIs DEF TimePasses, rlvars, RulesInv, AlertsExact, RulesTypeOK
  <1>2. RulesTypeOK'
    BY <1>0, <1>1 DEF RulesInv, AlertsExact, RulesTypeOK
  <1>3. FollowsReports' /\ MissingIsReal' /\ AbsenceCounted' /\ OneLevel(act)'
    BY <1>0 DEF RulesInv, AlertsExact, FollowsReports, MissingIsReal, AbsenceCounted, OneLevel
  <1> QED
    BY <1>2, <1>3 DEF RulesInv, AlertsExact

LEMMA RulesStep == RulesInv /\ [RulesNext]_rlvars => RulesInv'
  BY ReportKeeps, ChangeKeeps, RestKeeps DEF RulesNext

\* The alert of every subject, in every group, is what the newest report that
\* spoke of the subject called for under the rules of now, unless its last
\* change failed or its rules changed since; and while no evaluation fails a
\* mount is called missing only after enough reports in a row without it -
\* for any mounts, reports, changes of the rules and failures (engine.go,
\* status.go, numeric.go).
THEOREM AlertsAreExact == RulesSpec => []AlertsExact
  <1>1. RulesInv => AlertsExact
    BY DEF RulesInv
  <1> QED
    BY <1>1, RulesStart, RulesStep, PTL DEF RulesSpec

LEMMA OOMStayed ==
    ASSUME RulesInv, [RulesNext]_rlvars, group = "oom", clean', ruleset.oom, ruleset'.oom,
           act[<<"oom_kill", "">>] # Unset, quiet' < QuietAfter
    PROVE  act'[<<"oom_kill", "">>] # Unset
  <1>1. CASE Report
    <2>1. PICK r, age, o, failed : Outcome(r, age, o, failed)
      BY <1>1, ReportGives
    <2>0. PICK k : k = <<"oom_kill", "">>
      OBVIOUS
    <2>2. k \in Keys(group) /\ age < QuietAfter /\ r \in {Unset, "same", "more"} /\ act'[k] = o[k]
      BY <2>0, <2>1, KeysAre DEF Outcome, Reports
    <2>3. SaysOfOOM(r, age) \in {"critical", Keep}
      BY <2>2 DEF SaysOfOOM
    <2>4. o[k] = IF SaysOfOOM(r, age) = Keep THEN act[k] ELSE SaysOfOOM(r, age)
      <3>0. k[1] = "oom_kill"
        BY <2>0
      <3>1. Says(k, r, age) = SaysOfOOM(r, age)
        BY <3>0, SaysIs
      <3>2. Answers(act, o, k, Says(k, r, age))
        BY <2>1, <2>2, ReportFollows DEF Outcome
      <3> QED
        BY <3>1, <3>2 DEF Answers
    <2> QED
      BY <2>0, <2>2, <2>3, <2>4, UnsetIs
  <1>2. CASE ~Report
    BY <1>2 DEF RulesNext, ChangeRules, TimePasses, rlvars
  <1> QED
    BY <1>1, <1>2

LEMMA EmptyKept ==
    ASSUME RulesInv, [RulesNext]_rlvars, group = "usage", Listed(row') = {}, ~NoThreshold
    PROVE  act' = act
  <1>1. CASE Report
    <2>1. PICK r, age, o, failed : Outcome(r, age, o, failed)
      BY <1>1, ReportGives
    <2>2. IsState(act) /\ Listed(r) = {} /\ \A k \in Keys(group) : Answers(act, o, k, Says(k, r, age))
      BY <2>1, ReportFollows DEF Outcome
    <2>3. \A k \in Keys(group) : Says(k, r, age) = Keep
      <3>1. \A k \in Keys(group) : k[1] = "disk"
        BY KeysAre DEF TypesOf
      <3> QED
        BY <2>2, <3>1, SaysIs DEF SaysOfUsage, NoThreshold
    <2>4. \A k \in Keys(group) : act'[k] = act[k]
      BY <2>1, <2>2, <2>3 DEF Outcome, Answers
    <2>5. act' = [k \in Keys(group) |-> act'[k]] /\ act = [k \in Keys(group) |-> act[k]]
      BY <2>1, <2>2 DEF Outcome, IsState
    <2> QED
      BY <2>4, <2>5
  <1>2. CASE ~Report
    BY <1>2 DEF RulesNext, ChangeRules, TimePasses, rlvars
  <1> QED
    BY <1>1, <1>2

\* A report that says nothing of a condition ends no alert of it: neither the
\* out-of-memory alert before its time, while nothing fails, nor, when
\* collecting the disks failed, any disk alert (status.go, engine.go).
THEOREM SilenceIsKept == RulesSpec => SilenceKeeps
  <1>1. RulesInv /\ [RulesNext]_rlvars =>
          [group = "oom" /\ clean' /\ ruleset.oom /\ ruleset'.oom =>
              (act[<<"oom_kill", "">>] # Unset /\ quiet' < QuietAfter => act'[<<"oom_kill", "">>] # Unset)]_rlvars
    BY OOMStayed
  <1>2. RulesInv /\ [RulesNext]_rlvars =>
          [group = "usage" => (Listed(row') = {} /\ (ruleset.base \/ ruleset.per # {}) => act' = act)]_rlvars
    BY EmptyKept DEF NoThreshold
  <1> QED
    BY <1>1, <1>2, RulesStart, RulesStep, PTL DEF RulesSpec, SilenceKeeps, OOMStays, EmptyListKeeps
=============================================================================
