---------------------------- MODULE NumberLemmas ----------------------------
(***************************************************************************)
(* Division with remainder, which is how a counter that only grows, or     *)
(* wraps at its width, walks a schedule; least elements, and with them     *)
(* induction and recursion over the turns of a loop; divisibility.         *)
(***************************************************************************)
EXTENDS Integers, WellFoundedInduction, TLAPS

LEMMA DivMod ==
    ASSUME NEW a \in Nat, NEW m \in Nat \ {0}
    PROVE  a % m \in 0..(m - 1) /\ a \div m \in Nat /\ a = m * (a \div m) + (a % m)
<1>1. a % m \in 0..(m - 1)
    OBVIOUS
<1>2. a \div m \in Nat
    OBVIOUS
<1>3. a = m * (a \div m) + (a % m)
    OBVIOUS
<1> QED BY <1>1, <1>2, <1>3

LEMMA Remainder ==
    ASSUME NEW m \in Nat \ {0}, NEW q \in Nat, NEW j \in 0..(m - 1)
    PROVE  (m * q + j) % m = j /\ (m * q + j) \div m = q
OBVIOUS

LEMMA Small == ASSUME NEW a \in Nat, NEW m \in Nat \ {0}, a < m PROVE a % m = a
OBVIOUS

LEMMA WithinPass ==
    ASSUME NEW a \in Nat, NEW m \in Nat \ {0}, a % m # m - 1
    PROVE  (a + 1) % m = (a % m) + 1 /\ (a + 1) \div m = a \div m
OBVIOUS

LEMMA Across ==
    ASSUME NEW a \in Nat, NEW m \in Nat \ {0}, a % m = m - 1
    PROVE  (a + 1) % m = 0 /\ (a + 1) \div m = (a \div m) + 1
<1>1. PICK q \in Nat : q = a \div m
    BY DivMod
<1>2. a = m * q + (m - 1)
    BY <1>1, DivMod
<1>3. a + 1 = m * (q + 1) + 0
    BY <1>2
<1>4. (m * (q + 1) + 0) % m = 0 /\ (m * (q + 1) + 0) \div m = q + 1
    <2>1. q + 1 \in Nat /\ 0 \in 0..(m - 1)
        OBVIOUS
    <2> QED BY <2>1, Remainder
<1> QED BY <1>1, <1>3, <1>4

LEMMA NextMod ==
    ASSUME NEW a \in Nat, NEW m \in Nat \ {0}
    PROVE  ((a % m) + 1) % m = (a + 1) % m
<1>1. PICK r \in 0..(m - 1) : r = a % m
    BY DivMod
<1>2. CASE r = m - 1
    <2>1. (m * 1 + 0) % m = 0
        <3>1. 0 \in 0..(m - 1) /\ 1 \in Nat
            OBVIOUS
        <3> QED BY <3>1, Remainder
    <2>2. r + 1 = m * 1 + 0
        BY <1>2
    <2> QED BY <1>1, <1>2, <2>1, <2>2, Across
<1>3. CASE r # m - 1
    <2>1. r + 1 \in Nat /\ r + 1 < m
        BY <1>3
    <2>2. (r + 1) % m = r + 1
        BY <2>1, Small
    <2> QED BY <1>1, <1>3, <2>2, WithinPass
<1> QED BY <1>2, <1>3

\* Any m consecutive numbers take every remainder.
LEMMA EveryRemainder ==
    ASSUME NEW a \in Nat, NEW m \in Nat \ {0}, NEW j \in 0..(m - 1)
    PROVE  \E d \in 0..(m - 1) : (a + d) % m = j
<1>1. PICK q \in Nat : q = a \div m
    BY DivMod
<1>2. PICK r \in 0..(m - 1) : r = a % m
    BY DivMod
<1>3. a = m * q + r
    BY <1>1, <1>2, DivMod
<1>4. CASE r <= j
    <2>1. PICK d \in 0..(m - 1) : d = j - r
        BY <1>4
    <2>2. a + d = m * q + j
        BY <1>3, <2>1
    <2>3. (m * q + j) % m = j
        BY Remainder
    <2> QED BY <2>2, <2>3
<1>5. CASE r > j
    <2>1. PICK d \in 0..(m - 1) : d = m + j - r
        BY <1>5
    <2>2. a + d = m * (q + 1) + j
        BY <1>3, <2>1
    <2>3. (m * (q + 1) + j) % m = j
        <3>1. q + 1 \in Nat
            OBVIOUS
        <3> QED BY <3>1, Remainder
    <2> QED BY <2>2, <2>3
<1> QED BY <1>4, <1>5

\* Numbers between two of the same quotient.
LEMMA SameQuotient ==
    ASSUME NEW a \in Nat, NEW b \in Nat, NEW c \in Nat, NEW m \in Nat \ {0},
           a <= b, b <= c, a \div m = c \div m
    PROVE  b % m = (a % m) + (b - a)
<1>1. a \div m <= b \div m
    OBVIOUS
<1>2. b \div m <= c \div m
    OBVIOUS
<1>3. a \div m = b \div m
    <2>1. a \div m \in Nat /\ b \div m \in Nat /\ c \div m \in Nat
        BY DivMod
    <2> QED BY <1>1, <1>2, <2>1
<1>4. PICK q \in Nat : q = a \div m
    BY DivMod
<1>5. a = m * q + (a % m) /\ b = m * q + (b % m)
    BY <1>3, <1>4, DivMod
<1>6. a % m \in Nat /\ b % m \in Nat
    BY DivMod
<1> QED BY <1>5, <1>6

LEMMA LeastElement ==
    ASSUME NEW S \in SUBSET Nat, S # {}
    PROVE  \E x \in S : \A y \in S : x <= y
<1>1. PICK x \in S : \A y \in S : <<y, x>> \notin OpToRel(<, Nat)
    <2>1. IsWellFoundedOn(OpToRel(<, Nat), Nat)
        BY NatLessThanWellFounded
    <2> HIDE DEF OpToRel
    <2> QED BY <2>1, WFMin
<1>2. \A y \in S : ~(y < x)
    BY <1>1 DEF OpToRel
<1> QED BY <1>2

-----------------------------------------------------------------------------
(* Loops.  P is the set of turns after which what is claimed holds. *)

LEMMA TurnByTurn ==
    ASSUME NEW N \in Nat, NEW P, 0 \in P, \A k \in 1..N : k - 1 \in P => k \in P
    PROVE  0..N \subseteq P
<1> DEFINE Bad == {k \in 0..N : k \notin P}
<1> SUFFICES ASSUME Bad # {} PROVE FALSE
    OBVIOUS
<1>1. Bad \subseteq Nat
    OBVIOUS
<1>2. PICK k \in Bad : \A j \in Bad : k <= j
    <2> HIDE DEF Bad
    <2> QED BY <1>1, LeastElement
<1>3. k \in 1..N /\ k - 1 \in 0..N /\ ~(k <= k - 1)
    OBVIOUS
<1>4. k - 1 \in P
    BY <1>2, <1>3
<1> QED BY <1>3, <1>4

LEMMA StrongInduction ==
    ASSUME NEW P, \A n \in Nat : (\A k \in Nat : k < n => k \in P) => n \in P
    PROVE  Nat \subseteq P
<1> DEFINE Bad == {k \in Nat : k \notin P}
<1> SUFFICES ASSUME Bad # {} PROVE FALSE
    OBVIOUS
<1>1. PICK k \in Bad : \A j \in Bad : k <= j
    <2>1. Bad \subseteq Nat
        OBVIOUS
    <2> HIDE DEF Bad
    <2> QED BY <2>1, LeastElement
<1>2. \A j \in Nat : j < k => j \in P
    BY <1>1
<1> QED BY <1>2

\* The states of a loop before its first and after each of its N turns.
HasCourse(N, S, a, step) ==
    \E f \in [0..N -> S] :
        f[0] = a /\ \A k \in 1..N : f[k - 1] \in S /\ f[k] = step[<<k, f[k - 1]>>]

LEMMA LoopHasCourse ==
    ASSUME NEW N \in Nat, NEW S, NEW a \in S, NEW step \in [(1..N) \X S -> S]
    PROVE  HasCourse(N, S, a, step)
<1> DEFINE Upto(n, f) == f[0] = a /\ \A k \in 1..n : f[k] = step[<<k, f[k - 1]>>]
           P == {n \in 0..N : \E f \in [0..n -> S] : Upto(n, f)}
<1>1. 0 \in P
    <2> DEFINE f == [k \in 0..0 |-> a]
    <2>1. f \in [0..0 -> S] /\ f[0] = a
        OBVIOUS
    <2> HIDE DEF f
    <2>2. Upto(0, f)
        BY <2>1
    <2>3. 0 \in 0..N
        OBVIOUS
    <2> QED BY <2>1, <2>2, <2>3
<1>2. ASSUME NEW n \in 1..N, n - 1 \in P PROVE n \in P
    <2>1. PICK f \in [0..(n - 1) -> S] : Upto(n - 1, f)
        BY <1>2
    <2> DEFINE g == [k \in 0..n |-> IF k = n THEN step[<<n, f[n - 1]>>] ELSE f[k]]
    <2>2. n - 1 \in 0..(n - 1) /\ \A k \in 0..n : k # n => k \in 0..(n - 1)
        OBVIOUS
    <2>3. f[n - 1] \in S
        BY <2>2
    <2>4. step[<<n, f[n - 1]>>] \in S
        BY <2>3
    <2>5. \A k \in 0..(n - 1) : f[k] \in S
        OBVIOUS
    <2>6. g \in [0..n -> S]
        BY <2>2, <2>4, <2>5
    <2>7. g[0] = a
        BY <2>1
    <2>8. ASSUME NEW k \in 1..n PROVE g[k] = step[<<k, g[k - 1]>>]
        <3>1. k - 1 \in 0..(n - 1) /\ k - 1 # n
            OBVIOUS
        <3>2. g[k - 1] = f[k - 1]
            BY <3>1
        <3>3. CASE k = n
            <4>1. g[n] = step[<<n, f[n - 1]>>]
                OBVIOUS
            <4> HIDE DEF g
            <4> QED BY <3>2, <3>3, <4>1
        <3>4. CASE k # n
            <4>1. k \in 1..(n - 1)
                BY <3>4
            <4>2. g[k] = f[k]
                BY <3>4, <4>1
            <4> QED BY <2>1, <3>2, <4>1, <4>2
        <3> QED BY <3>3, <3>4
    <2> HIDE DEF g
    <2>9. Upto(n, g)
        BY <2>7, <2>8
    <2> QED BY <2>6, <2>9
<1>3. 0..N \subseteq P
    <2> HIDE DEF P
    <2> QED BY <1>1, <1>2, TurnByTurn
<1>4. N \in P
    BY <1>3
<1>5. \A k \in 1..N : k - 1 \in 0..N
    OBVIOUS
<1> QED BY <1>4, <1>5 DEF HasCourse

-----------------------------------------------------------------------------
(* Divisibility. *)

Divides(d, n) == \E q \in Nat : n = d * q

LEMMA ProductIsNat == ASSUME NEW a \in Nat, NEW b \in Nat PROVE a * b \in Nat
OBVIOUS

LEMMA DividesZero == ASSUME NEW d \in Nat PROVE Divides(d, 0) /\ Divides(d, d)
<1>1. 0 = d * 0 /\ d = d * 1
    OBVIOUS
<1> QED BY <1>1 DEF Divides

LEMMA DividesProduct ==
    ASSUME NEW d \in Nat, NEW n \in Nat, NEW m \in Nat, Divides(d, n)
    PROVE  Divides(d, n * m)
<1>1. PICK q \in Nat : n = d * q
    BY DEF Divides
<1>2. n * m = d * (q * m) /\ q * m \in Nat
    BY <1>1
<1> QED BY <1>2 DEF Divides

LEMMA DividesThrough ==
    ASSUME NEW d \in Nat, NEW n \in Nat, NEW m \in Nat, Divides(d, n), Divides(n, m)
    PROVE  Divides(d, m)
<1>1. PICK q \in Nat : m = n * q
    BY DEF Divides
<1> QED BY <1>1, DividesProduct

LEMMA DividesSum ==
    ASSUME NEW d \in Nat, NEW n \in Nat, NEW m \in Nat, Divides(d, n)
    PROVE  Divides(d, m) <=> Divides(d, n + m)
<1>1. PICK q \in Nat : n = d * q
    BY DEF Divides
<1>2. ASSUME NEW r \in Nat, m = d * r PROVE n + m = d * (q + r)
    BY <1>1, <1>2
<1>3. ASSUME NEW r \in Nat, n + m = d * r PROVE Divides(d, m)
    <2>1. CASE d = 0
        <3>1. n = 0 /\ n + m = 0
            BY <1>1, <1>3, <2>1
        <3>2. m = 0
            BY <3>1
        <3> QED BY <3>2, DividesZero
    <2>2. CASE d # 0
        <3>1. d * q <= d * r
            BY <1>1, <1>3
        <3>2. q <= r
            BY <2>2, <3>1
        <3>3. PICK s \in Nat : r = q + s
            <4>1. r - q \in Nat /\ r = q + (r - q)
                BY <3>2
            <4> QED BY <4>1
        <3>4. d * r = d * q + d * s
            BY <3>3
        <3>5. d * s \in Nat /\ d * q \in Nat
            BY ProductIsNat
        <3>6. m = d * s
            BY <1>1, <1>3, <3>4, <3>5
        <3> QED BY <3>6 DEF Divides
    <2> QED BY <2>1, <2>2
<1>4. Divides(d, m) => Divides(d, n + m)
    <2> SUFFICES ASSUME Divides(d, m) PROVE Divides(d, n + m)
        OBVIOUS
    <2>1. PICK r \in Nat : m = d * r
        BY DEF Divides
    <2>2. n + m = d * (q + r) /\ q + r \in Nat
        BY <1>2, <2>1
    <2> QED BY <2>2 DEF Divides
<1>5. Divides(d, n + m) => Divides(d, m)
    <2> SUFFICES ASSUME Divides(d, n + m) PROVE Divides(d, m)
        OBVIOUS
    <2>1. PICK r \in Nat : n + m = d * r
        BY DEF Divides
    <2> QED BY <1>3, <2>1
<1> QED BY <1>4, <1>5

LEMMA DividesBothWays ==
    ASSUME NEW a \in Nat, NEW b \in Nat, Divides(a, b), Divides(b, a)
    PROVE  a = b
<1>1. PICK q \in Nat : b = a * q
    BY DEF Divides
<1>2. PICK r \in Nat : a = b * r
    BY DEF Divides
<1>3. CASE a = 0
    BY <1>1, <1>3
<1>4. CASE a # 0
    <2>1. b # 0 /\ q # 0 /\ r # 0
        BY <1>1, <1>2, <1>4
    <2>2. b >= a
        <3>1. a * q >= a * 1
            BY <2>1
        <3> QED BY <1>1, <3>1
    <2>3. a >= b
        <3>1. b * r >= b * 1
            BY <2>1
        <3> QED BY <1>2, <3>1
    <2> QED BY <2>2, <2>3
<1> QED BY <1>3, <1>4

\* g is the greatest common divisor of a and b.
IsGcd(g, a, b) ==
    /\ g \in Nat /\ Divides(g, a) /\ Divides(g, b)
    /\ \A d \in Nat : Divides(d, a) /\ Divides(d, b) => Divides(d, g)

LEMMA GcdWithZero == ASSUME NEW a \in Nat, NEW g PROVE IsGcd(g, a, 0) <=> g = a
<1>1. IsGcd(a, a, 0)
    BY DividesZero DEF IsGcd
<1>2. ASSUME IsGcd(g, a, 0) PROVE g = a
    <2>1. g \in Nat /\ Divides(g, a) /\ Divides(a, g)
        BY <1>2, DividesZero DEF IsGcd
    <2> QED BY <2>1, DividesBothWays
<1> QED BY <1>1, <1>2

\* A common divisor of a and b is one of b and a % b.
LEMMA SameDivisors ==
    ASSUME NEW a \in Nat, NEW b \in Nat \ {0}, NEW d \in Nat
    PROVE  Divides(d, a) /\ Divides(d, b) <=> Divides(d, b) /\ Divides(d, a % b)
<1>1. PICK q \in Nat : q = a \div b
    BY DivMod
<1>2. PICK r \in Nat : r = a % b
    BY DivMod
<1>3. a = b * q + r
    BY <1>1, <1>2, DivMod
<1> SUFFICES ASSUME Divides(d, b) PROVE Divides(d, a) <=> Divides(d, r)
    BY <1>2
<1>4. b * q \in Nat /\ Divides(d, b * q)
    BY ProductIsNat, DividesProduct
<1> QED BY <1>3, <1>4, DividesSum

LEMMA GcdStep ==
    ASSUME NEW a \in Nat, NEW b \in Nat \ {0}, NEW g
    PROVE  IsGcd(g, a, b) <=> IsGcd(g, b, a % b)
BY SameDivisors DEF IsGcd
=============================================================================
