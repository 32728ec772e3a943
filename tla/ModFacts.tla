------------------------------ MODULE ModFacts ------------------------------
(***************************************************************************)
(* Facts about division with remainder by a number the provers do not know, *)
(* and induction over the natural numbers.                                 *)
(***************************************************************************)
EXTENDS Integers, FunctionTheorems, TLAPS

LEMMA DivModBy ==
  ASSUME NEW x \in Int, NEW M \in Nat, M >= 1
  PROVE  /\ x \div M \in Int
         /\ x % M \in 0 .. M - 1
         /\ x = M * (x \div M) + (x % M)
  OBVIOUS

\* The remainder is unique.
LEMMA ModUniqueBy ==
  ASSUME NEW x \in Int, NEW M \in Nat, M >= 1, NEW q \in Int, NEW r \in 0 .. M - 1, x = M * q + r
  PROVE  x % M = r
<1> DEFINE p == x \div M
           t == x % M
<1>1. p \in Int /\ t \in 0 .. M - 1 /\ x = M * p + t
  BY DivModBy
<1> HIDE DEF p, t
<1>2. CASE p = q
  BY <1>1, <1>2 DEF t
<1>3. CASE p > q
  <2> DEFINE d == p - q - 1
  <2>1. d \in Nat /\ p = q + 1 + d
    BY <1>1, <1>3
  <2> HIDE DEF d
  <2>2. M * p = M * q + M + M * d
    BY <2>1
  <2>3. M * d >= 0
    BY <2>1
  <2>4. FALSE
    BY <1>1, <2>1, <2>2, <2>3
  <2> QED
    BY <2>4
<1>4. CASE p < q
  <2> DEFINE d == q - p - 1
  <2>1. d \in Nat /\ q = p + 1 + d
    BY <1>1, <1>4
  <2> HIDE DEF d
  <2>2. M * q = M * p + M + M * d
    BY <2>1, <1>1
  <2>3. M * d >= 0
    BY <2>1
  <2>4. FALSE
    BY <1>1, <2>1, <2>2, <2>3
  <2> QED
    BY <2>4
<1> QED
  BY <1>1, <1>2, <1>3, <1>4

\* So is the quotient.
LEMMA DivUniqueBy ==
  ASSUME NEW x \in Int, NEW M \in Nat, M >= 1, NEW q \in Int, NEW r \in 0 .. M - 1, x = M * q + r
  PROVE  x \div M = q
<1> DEFINE p == x \div M
<1>1. p \in Int /\ x = M * p + r
  <2>1. p \in Int /\ x = M * p + (x % M)
    BY DivModBy
  <2>2. x % M = r
    BY ModUniqueBy
  <2> QED
    BY <2>1, <2>2
<1> HIDE DEF p
<1>2. CASE p > q
  <2> DEFINE d == p - q - 1
  <2>1. d \in Nat /\ p = q + 1 + d
    BY <1>1, <1>2
  <2> HIDE DEF d
  <2>2. M * p = M * q + M + M * d
    BY <2>1
  <2>3. M * d >= 0
    BY <2>1
  <2> QED
    BY <1>1, <2>1, <2>2, <2>3
<1>3. CASE p < q
  <2> DEFINE d == q - p - 1
  <2>1. d \in Nat /\ q = p + 1 + d
    BY <1>1, <1>3
  <2> HIDE DEF d
  <2>2. M * q = M * p + M + M * d
    BY <2>1, <1>1
  <2>3. M * d >= 0
    BY <2>1
  <2> QED
    BY <1>1, <2>1, <2>2, <2>3
<1> QED
  BY <1>1, <1>2, <1>3 DEF p

\* A number below M is its own remainder, and one lap up it is that number less M.
LEMMA ModNear ==
  ASSUME NEW x \in Int, NEW M \in Nat, M >= 1
  PROVE  /\ 0 <= x /\ x < M => x % M = x
         /\ M <= x /\ x < M + M => x % M = x - M
         /\ -M <= x /\ x < 0 => x % M = x + M
<1>1. ASSUME 0 <= x, x < M PROVE x % M = x
  <2>1. x = M * 0 + x /\ x \in 0 .. M - 1
    BY <1>1
  <2> QED
    BY <2>1, ModUniqueBy
<1>2. ASSUME M <= x, x < M + M PROVE x % M = x - M
  <2>1. x = M * 1 + (x - M) /\ x - M \in 0 .. M - 1
    BY <1>2
  <2> QED
    BY <2>1, ModUniqueBy
<1>3. ASSUME -M <= x, x < 0 PROVE x % M = x + M
  <2>1. x = M * (-1) + (x + M) /\ x + M \in 0 .. M - 1
    BY <1>3
  <2> QED
    BY <2>1, ModUniqueBy
<1> QED
  BY <1>1, <1>2, <1>3

\* One step of a counter that counts to M.
LEMMA ModNext ==
  ASSUME NEW M \in Nat, M >= 1, NEW x \in 0 .. M - 1
  PROVE  /\ (x + 1) % M = IF x = M - 1 THEN 0 ELSE x + 1
         /\ (x + 1) % M \in 0 .. M - 1
<1>1. x + 1 \in Int
  OBVIOUS
<1>2. CASE x = M - 1
  <2>1. (x + 1) % M = x + 1 - M
    BY <1>1, <1>2, ModNear
  <2> QED
    BY <1>2, <2>1
<1>3. CASE x # M - 1
  <2>1. 0 <= x + 1 /\ x + 1 < M
    BY <1>3
  <2>2. (x + 1) % M = x + 1
    BY <1>1, <2>1, ModNear
  <2> QED
    BY <1>3, <2>1, <2>2
<1> QED
  BY <1>2, <1>3

\* A sum may be reduced after its first term is.
LEMMA ModSum ==
  ASSUME NEW x \in Int, NEW y \in Int, NEW M \in Nat, M >= 1
  PROVE  ((x % M) + y) % M = (x + y) % M
<1> DEFINE r == x % M
           q == x \div M
           t == (r + y) % M
           p == (r + y) \div M
<1>1. x = M * q + r /\ q \in Int /\ r \in 0 .. M - 1
  BY DivModBy
<1>2. r + y \in Int
  BY <1>1
<1>3. r + y = M * p + t /\ p \in Int /\ t \in 0 .. M - 1
  BY <1>2, DivModBy
<1> HIDE DEF r, q, t, p
<1>4. M * (q + p) = M * q + M * p
  BY <1>1, <1>3
<1>5. x + y = M * (q + p) + t /\ x + y \in Int /\ q + p \in Int
  BY <1>1, <1>3, <1>4
<1>6. (x + y) % M = t
  BY <1>3, <1>5, ModUniqueBy
<1> QED
  BY <1>6 DEF r, t

\* Two numbers less than a lap apart have different remainders.
LEMMA ModApart ==
  ASSUME NEW x \in Int, NEW y \in Int, NEW M \in Nat, M >= 1,
         x < y, y < x + M
  PROVE  x % M # y % M
<1> SUFFICES ASSUME x % M = y % M PROVE FALSE
  OBVIOUS
<1> DEFINE r == x % M
           q == x \div M
           p == y \div M
<1>1. /\ x = M * q + r /\ q \in Int /\ r \in 0 .. M - 1
      /\ y = M * p + r /\ p \in Int
  BY DivModBy
<1> HIDE DEF r, q, p
<1>2. y - x = M * (p - q)
  <2>1. M * (p - q) = M * p - M * q
    BY <1>1
  <2> QED
    BY <1>1, <2>1
<1>3. p - q >= 1 \/ p - q <= 0
  BY <1>1
<1>4. p - q >= 1 => M * (p - q) >= M
  BY <1>1
<1>5. p - q <= 0 => M * (p - q) <= 0
  BY <1>1
<1> QED
  BY <1>2, <1>3, <1>4, <1>5, <1>1
\* A difference may be reduced after its terms are, and one that is not negative is not
\* below its remainder.
LEMMA ModDiffBy ==
  ASSUME NEW x \in Int, NEW y \in Int, NEW M \in Nat, M >= 1
  PROVE  /\ ((x % M) - (y % M)) % M = (x - y) % M
         /\ x >= y => x - y >= (x - y) % M
<1> DEFINE r == x % M
           q == x \div M
           s == y % M
           p == y \div M
           t == (r - s) % M
           v == (r - s) \div M
           d == x - y
<1>1. x = M * q + r /\ q \in Int /\ r \in 0 .. M - 1
  BY DivModBy
<1>2. y = M * p + s /\ p \in Int /\ s \in 0 .. M - 1
  BY DivModBy
<1>3. r - s \in Int
  BY <1>1, <1>2
<1>4. r - s = M * v + t /\ v \in Int /\ t \in 0 .. M - 1
  BY <1>3, DivModBy
<1> HIDE DEF r, q, s, p, t, v
<1>5. M * (q - p + v) = M * q - M * p + M * v /\ q - p + v \in Int
  BY <1>1, <1>2, <1>4
<1>6. d = M * (q - p + v) + t /\ d \in Int
  BY <1>1, <1>2, <1>4, <1>5
<1> HIDE DEF d
<1>7. d % M = t
  BY <1>4, <1>5, <1>6, ModUniqueBy
<1>8. d >= 0 => d >= d % M
  <2>1. d \div M \in Int /\ d = M * (d \div M) + (d % M) /\ d % M \in 0 .. M - 1
    BY <1>6, DivModBy
  <2>2. d >= 0 => d \div M >= 0
    <3> DEFINE k == d \div M
    <3>1. k \in Int /\ d = M * k + (d % M) /\ d % M \in 0 .. M - 1
      BY <2>1
    <3> HIDE DEF k
    <3>2. k < 0 => M * k <= -M
      BY <3>1
    <3>3. d >= 0 => k >= 0
      BY <1>6, <3>1, <3>2
    <3> QED
      BY <3>3 DEF k
  <2>3. d \div M >= 0 => M * (d \div M) >= 0
    BY <2>1
  <2> QED
    BY <1>6, <2>1, <2>2, <2>3
<1> QED
  BY <1>7, <1>8 DEF d, t, r, s

-----------------------------------------------------------------------------
\* Induction, for a set: were n the first number outside S, the numbers up to n would fit
\* into one less.
LEMMA SetInduction ==
  ASSUME NEW S, 0 \in S, \A n \in Nat : n \in S => n + 1 \in S
  PROVE  Nat \subseteq S
<1> SUFFICES ASSUME NEW n \in Nat, n \notin S PROVE FALSE
  OBVIOUS
<1> DEFINE f == [x \in 1 .. n + 1 |-> IF x - 1 \in S THEN x ELSE x - 1]
<1>1. ASSUME NEW x \in 1 .. n + 1 PROVE f[x] \in 1 .. n
  <2>1. CASE x - 1 \in S
    <3>1. x # n + 1
      BY <2>1
    <3> QED
      BY <2>1, <3>1
  <2>2. CASE x - 1 \notin S
    <3>1. x # 1
      BY <2>2
    <3> QED
      BY <2>2, <3>1
  <2> QED
    BY <2>1, <2>2
<1>2. ASSUME NEW x \in 1 .. n + 1, NEW y \in 1 .. n + 1, f[x] = f[y] PROVE x = y
  <2>1. ASSUME x - 1 \in S, y - 1 \notin S PROVE f[x] # f[y]
    <3>1. (x - 1) + 1 \in S
      BY <2>1
    <3>2. x \in S
      BY <3>1
    <3> QED
      BY <2>1, <3>2
  <2>2. ASSUME y - 1 \in S, x - 1 \notin S PROVE f[x] # f[y]
    <3>1. (y - 1) + 1 \in S
      BY <2>2
    <3>2. y \in S
      BY <3>1
    <3> QED
      BY <2>2, <3>2
  <2> QED
    BY <1>2, <2>1, <2>2
<1>3. f \in Injection(1 .. n + 1, 1 .. n)
  <2>1. f \in [1 .. n + 1 -> 1 .. n]
    BY <1>1
  <2>2. \A x, y \in 1 .. n + 1 : f[x] = f[y] => x = y
    BY <1>2
  <2> HIDE DEF f
  <2> QED
    BY <2>1, <2>2 DEF Injection, IsInjective
<1>4. ExistsInjection(1 .. n + 1, 1 .. n)
  BY <1>3 DEF ExistsInjection
<1>5. n + 1 <= n
  BY <1>4, Fun_NatInjLeq
<1> QED
  BY <1>5

\* The function that is, for each number up to N, what next makes of its value for the
\* number before.
Recursion(N, T, first, next) ==
  CHOOSE g \in [0 .. N -> T] : g[0] = first /\ \A n \in 1 .. N : g[n] = next[n][g[n - 1]]

LEMMA RecursionIs ==
  ASSUME NEW N \in Nat, NEW T, NEW first \in T, NEW next \in [1 .. N -> [T -> T]]
  PROVE  /\ Recursion(N, T, first, next) \in [0 .. N -> T]
         /\ Recursion(N, T, first, next)[0] = first
         /\ \A n \in 1 .. N :
              Recursion(N, T, first, next)[n] = next[n][Recursion(N, T, first, next)[n - 1]]
<1> DEFINE Is(g, m) == g = [n \in 0 .. m |-> IF n = 0 THEN first ELSE next[n][g[n - 1]]]
           S == {m \in Nat : m <= N => \E g \in [0 .. m -> T] : Is(g, m)}
<1>1. 0 \in S
  <2> DEFINE g == [n \in 0 .. 0 |-> first]
  <2>1. g \in [0 .. 0 -> T]
    OBVIOUS
  <2>2. Is(g, 0)
    OBVIOUS
  <2> QED
    BY <2>1, <2>2
<1>2. ASSUME NEW m \in Nat, m \in S PROVE m + 1 \in S
  <2> SUFFICES ASSUME m + 1 <= N PROVE \E g \in [0 .. m + 1 -> T] : Is(g, m + 1)
    OBVIOUS
  <2>1. PICK h \in [0 .. m -> T] : Is(h, m)
    BY <1>2
  <2> DEFINE g == [n \in 0 .. m + 1 |-> IF n = m + 1 THEN next[m + 1][h[m]] ELSE h[n]]
  <2>2. g \in [0 .. m + 1 -> T]
    <3>1. ASSUME NEW n \in 0 .. m + 1 PROVE g[n] \in T
      <4>1. CASE n = m + 1
        <5>1. h[m] \in T /\ m + 1 \in 1 .. N
          OBVIOUS
        <5> QED
          BY <4>1, <5>1
      <4>2. CASE n # m + 1
        BY <4>2
      <4> QED
        BY <4>1, <4>2
    <3> QED
      BY <3>1
  <2>3. ASSUME NEW n \in 0 .. m + 1
        PROVE  g[n] = IF n = 0 THEN first ELSE next[n][g[n - 1]]
    <3>1. CASE n = m + 1
      <4>1. g[n] = next[m + 1][h[m]] /\ n # 0 /\ n - 1 = m /\ m # m + 1 /\ m \in 0 .. m + 1
        BY <3>1
      <4> QED
        BY <3>1, <4>1
    <3>2. CASE n # m + 1
      <4>1. n \in 0 .. m /\ (n # 0 => n - 1 \in 0 .. m /\ n - 1 # m + 1)
        BY <3>2
      <4>2. h[n] = IF n = 0 THEN first ELSE next[n][h[n - 1]]
        BY <2>1, <4>1
      <4> QED
        BY <3>2, <4>1, <4>2
    <3> QED
      BY <3>1, <3>2
  <2>4. Is(g, m + 1)
    BY <2>3
  <2> QED
    BY <2>2, <2>4
<1>3. N \in S
  <2> HIDE DEF S
  <2> QED
    BY <1>1, <1>2, SetInduction
<1>4. PICK g \in [0 .. N -> T] : Is(g, N)
  BY <1>3
<1>5. g[0] = first /\ \A n \in 1 .. N : g[n] = next[n][g[n - 1]]
  BY <1>4
<1> QED
  BY <1>5, Zenon DEF Recursion

\* What holds of the value for 0 and of each value if of the one before holds of all.
LEMMA InductionUpTo ==
  ASSUME NEW N \in Nat, NEW T, NEW f, f[0] \in T,
         \A n \in 1 .. N : f[n - 1] \in T => f[n] \in T
  PROVE  \A n \in 0 .. N : f[n] \in T
<1> DEFINE Q == {m \in Nat : m <= N => f[m] \in T}
<1>1. 0 \in Q
  OBVIOUS
<1>2. ASSUME NEW m \in Nat, m \in Q PROVE m + 1 \in Q
  <2> SUFFICES ASSUME m + 1 <= N PROVE f[m + 1] \in T
    OBVIOUS
  <2>1. m + 1 \in 1 .. N /\ f[m] \in T /\ (m + 1) - 1 = m
    BY <1>2
  <2> QED
    BY <2>1
<1>3. Nat \subseteq Q
  <2> HIDE DEF Q
  <2> QED
    BY <1>1, <1>2, SetInduction
<1> QED
  BY <1>3
=============================================================================
