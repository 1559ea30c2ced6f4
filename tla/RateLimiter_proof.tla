------------------------- MODULE RateLimiter_proof -------------------------
(***************************************************************************)
(* Proofs that a client is never admitted beyond its burst and the refill  *)
(* of elapsed plus rewound time, whatever reloads do to the rate, and that *)
(* sweeps, except those ahead of a client, go unnoticed while the limit    *)
(* stays the same; for any number of concurrent requests, any clients, any *)
(* limits and any sweep threshold.                                         *)
(***************************************************************************)
EXTENDS RateLimiter, TLAPS

LimitType == [rate : Nat, capacity : Nat]

LEMMA NatProduct == ASSUME NEW a \in Nat, NEW b \in Nat PROVE a * b \in Nat
BY SMT

LEMMA Distributes ==
    ASSUME NEW a \in Nat, NEW b \in Nat, NEW c \in Nat PROVE a * (b + c) = a * b + a * c
BY SMT

LEMMA Monotone ==
    ASSUME NEW a \in Nat, NEW b \in Nat, NEW c \in Nat, b <= c PROVE a * b <= a * c
<1>1. PICK d \in Nat : c = b + d
    <2>1. c - b \in Nat /\ c = b + (c - b)
        OBVIOUS
    <2> QED BY <2>1
<1>2. a * c = a * b + a * d
    BY <1>1, Distributes
<1>3. a * b \in Nat /\ a * d \in Nat
    BY NatProduct
<1> QED BY <1>2, <1>3

\* Compiled limits are natural numbers of units.
LEMMA CompiledType == ASSUME NEW l \in Compiled PROVE l \in LimitType
<1>1. PICK cfg \in Limits : l = compile(cfg)
    BY DEF Compiled
<1>2. cfg.rps \in Nat /\ cfg.burst \in Nat /\ Unit \in Nat \ {0}
    BY RateLimiterAssumption
<1>3. (cfg.rps + Unit - 1) \div Unit \in Nat
    BY <1>2
<1>4. AtLeast(1, (cfg.rps + Unit - 1) \div Unit) \in Nat
    BY <1>3 DEF AtLeast
<1>5. AtLeast(1, (cfg.rps + Unit - 1) \div Unit) * Unit \in Nat /\ cfg.burst * Unit \in Nat
    BY <1>2, <1>4, NatProduct
<1> QED BY <1>1, <1>2, <1>5 DEF compile, LimitType

LEMMA ElapsedType ==
    ASSUME NEW b \in Bucket, NEW t \in Nat
    PROVE  /\ Elapsed(b, t) \in Nat
           /\ t >= b.last => t = b.last + Elapsed(b, t)
           /\ t < b.last => Elapsed(b, t) = 0
BY DEF Elapsed, AtLeast, Bucket

\* A refill keeps the parameters, sets the time and adds at most the credit.
LEMMA RefillFacts ==
    ASSUME NEW b \in Bucket, NEW t \in Nat
    PROVE  /\ refill(b, t) \in Bucket
           /\ refill(b, t).last = t
           /\ refill(b, t).rate = b.rate
           /\ refill(b, t).capacity = b.capacity
           /\ refill(b, t).tokens <= b.capacity
           /\ refill(b, t).tokens <= b.tokens + Elapsed(b, t) * b.rate
<1> DEFINE credit == Elapsed(b, t) * b.rate
           tokens == AtMost(b.tokens + credit, b.capacity)
<1>1. credit \in Nat
    BY ElapsedType, NatProduct DEF Bucket
<1> HIDE DEF credit
<1>2. tokens \in Nat /\ tokens <= b.capacity /\ tokens <= b.tokens + credit
    BY <1>1 DEF AtMost, Bucket
<1>3. refill(b, t) = [b EXCEPT !.tokens = tokens, !.last = t]
    BY DEF refill, credit
<1> HIDE DEF tokens
<1>4. refill(b, t) \in Bucket /\ refill(b, t).tokens = tokens /\ refill(b, t).last = t
    BY <1>2, <1>3 DEF Bucket
<1>5. refill(b, t).rate = b.rate /\ refill(b, t).capacity = b.capacity
    BY <1>3 DEF Bucket
<1> QED BY <1>2, <1>4, <1>5 DEF credit

\* A charge takes Unit tokens exactly when it admits.
LEMMA ChargeFacts ==
    ASSUME NEW b \in Bucket
    PROVE  /\ Charge(b) \in Bucket
           /\ Charge(b).last = b.last
           /\ Charge(b).rate = b.rate
           /\ Charge(b).capacity = b.capacity
           /\ Charge(b).tokens = IF Allowed(b) THEN b.tokens - Unit ELSE b.tokens
BY RateLimiterAssumption DEF Charge, Allowed, Bucket

\* The up-to-date bucket of check(): typed, dated t, with the limit's parameters,
\* and no fuller than the old one plus the credit of the elapsed time.
LEMMA RefreshedFacts ==
    ASSUME NEW known \in BOOLEAN, NEW b \in Bucket, NEW l \in LimitType, NEW t \in Nat
    PROVE  LET c == Refreshed(known, b, l, t)
           IN  /\ c \in Bucket
               /\ c.last = t
               /\ c.rate = l.rate
               /\ c.capacity = l.capacity
               /\ c.tokens <= l.capacity
               /\ known => c.tokens <= b.tokens + Elapsed(b, t) * l.rate
<1> DEFINE base == IF known THEN [b EXCEPT !.rate = l.rate, !.capacity = l.capacity]
                            ELSE Fresh(l, t)
<1>1. base \in Bucket /\ base.rate = l.rate /\ base.capacity = l.capacity
    BY DEF Bucket, LimitType, Fresh
<1>2. known => base.tokens = b.tokens /\ base.last = b.last
    BY DEF Bucket, LimitType
<1>3. Refreshed(known, b, l, t) = refill(base, t)
    BY DEF Refreshed
<1> HIDE DEF base
<1>4. known => Elapsed(base, t) = Elapsed(b, t)
    BY <1>2 DEF Elapsed
<1> QED BY <1>1, <1>2, <1>3, <1>4, RefillFacts

-----------------------------------------------------------------------------
LEMMA TypeInit == Init => TypeOK
<1> SUFFICES ASSUME Init PROVE TypeOK
    OBVIOUS
<1>1. limit \in LimitType
    BY CompiledType DEF Init
<1>2. Fresh(limit, 0) \in Bucket
    BY <1>1 DEF Fresh, Bucket, LimitType
<1> QED BY <1>2 DEF Init, TypeOK

LEMMA TypeStep == TypeOK /\ [Next]_vars => TypeOK'
<1> SUFFICES ASSUME TypeOK, [Next]_vars PROVE TypeOK'
    OBVIOUS
<1> USE DEF TypeOK, shard, locals, history
<1>1. CASE Tick BY <1>1 DEF Tick
<1>2. ASSUME NEW l \in Compiled, Reload(l) PROVE TypeOK'
    BY <1>2 DEF Reload
<1>3. ASSUME NEW w \in Workers, NEW k \in Keys, Arrive(w, k) PROVE TypeOK'
    BY <1>3 DEF Arrive
<1>4. ASSUME NEW w \in Workers, Check(w) PROVE TypeOK'
    <2> DEFINE k == key[w]
               t == now[w]
               b == Refreshed(k \in present, bucket[k], lim[w], t)
    <2>1. k \in Keys /\ t \in Nat /\ lim[w] \in LimitType /\ bucket[k] \in Bucket
          /\ kept[k] \in Bucket
        BY CompiledType
    <2> HIDE DEF k, t
    <2>2. Charge(b) \in Bucket
        <3>1. (k \in present) \in BOOLEAN OBVIOUS
        <3>2. b \in Bucket BY <2>1, <3>1, RefreshedFacts
        <3> QED BY <3>2, ChargeFacts
    <2>3. Charge(Refreshed(admitted[k] > 0, kept[k], lim[w], t)) \in Bucket
        <3>1. (admitted[k] > 0) \in BOOLEAN BY <2>1
        <3>2. Refreshed(admitted[k] > 0, kept[k], lim[w], t) \in Bucket
            BY <2>1, <3>1, RefreshedFacts
        <3> QED BY <3>2, ChargeFacts
    <2> USE DEF k, t
    <2>4. bucket' \in [Keys -> Bucket] /\ kept' \in [Keys -> Bucket]
        BY <1>4, <2>1, <2>2, <2>3 DEF Check
    <2>5. present' \subseteq Keys
        BY <1>4, <2>1 DEF Check
    <2>6. upto' \in [Keys -> Nat] /\ rewound' \in [Keys -> Nat] /\ admitted' \in [Keys -> Nat]
        BY <1>4, <2>1 DEF Check, AtLeast
    <2>7. disordered' \subseteq Keys /\ overtaken' \subseteq Keys
        <3>1. disordered' \in {disordered, disordered \union {k}}
              /\ overtaken' \in {overtaken, overtaken \union {k}}
            BY <1>4 DEF Check
        <3> QED BY <2>1, <3>1
    <2>8. pc' \in [Workers -> {"idle", "check"}] /\ UNCHANGED <<clock, limit, key, now, lim, reloaded>>
        BY <1>4 DEF Check
    <2> QED BY <2>4, <2>5, <2>6, <2>7, <2>8
<1>5. CASE UNCHANGED vars BY <1>5 DEF vars
<1> QED BY <1>1, <1>2, <1>3, <1>4, <1>5 DEF Next

(***************************************************************************)
(* The state of check() stays well formed across concurrent requests,      *)
(* sweeps and reloads: token counts never go negative.                     *)
(***************************************************************************)
THEOREM TypeCorrect == Spec => []TypeOK
BY TypeInit, TypeStep, PTL DEF Spec

-----------------------------------------------------------------------------
\* What a client could still spend at once.
Held(l, k) == IF k \in present THEN bucket[k].tokens ELSE l.capacity

(***************************************************************************)
(* The invariant behind the bound, for a limit l whose rate none exceeds   *)
(* and whose burst all share.  A bucket's last refill is the time its      *)
(* credit reaches to, and admissions plus the tokens still held never      *)
(* exceed the burst plus the refill up to that time, rewound time          *)
(* included.  The tokens held must be counted, or a full bucket could be   *)
(* spent without the right hand side moving.                               *)
(***************************************************************************)
Account(l, k) ==
    /\ upto[k] <= clock
    /\ k \in present => /\ bucket[k].last = upto[k]
                        /\ bucket[k].rate <= l.rate
                        /\ bucket[k].capacity = l.capacity
    /\ admitted[k] * Unit + Held(l, k) <= l.capacity + l.rate * (upto[k] + rewound[k])

\* All limits share l's burst, and none has a higher rate.
Highest(l) == \A m \in Compiled : m.capacity = l.capacity /\ m.rate <= l.rate

Credit(l) == /\ \A w \in Workers : now[w] <= clock
             /\ \A k \in Keys : Account(l, k)

\* A credit of g ticks lets what is held grow by g * r.
LEMMA Grow ==
    ASSUME NEW a \in Nat, NEW h \in Nat, NEW h2 \in Nat, NEW c \in Nat, NEW r \in Nat,
           NEW x \in Nat, NEW g \in Nat,
           a + h <= c + r * x, h2 <= h + g * r
    PROVE  a + h2 <= c + r * (x + g)
<1>1. r * (x + g) = r * x + r * g BY Distributes
<1>2. g * r = r * g BY SMT
<1>3. r * x \in Nat /\ r * g \in Nat BY NatProduct
<1> QED BY <1>1, <1>2, <1>3

\* check() for its own key k, before any sweep.
LEMMA OwnKey ==
    ASSUME TypeOK, NEW l \in LimitType, NEW m \in LimitType, m.capacity = l.capacity, m.rate <= l.rate,
           NEW k \in Keys, NEW t \in Nat, Account(l, k)
    PROVE  LET b == Refreshed(k \in present, bucket[k], m, t)
               n == IF Allowed(b) THEN admitted[k] + 1 ELSE admitted[k]
           IN  n * Unit + Charge(b).tokens
                  <= l.capacity + l.rate * (t + rewound[k] + AtLeast(0, upto[k] - t))
<1> DEFINE b == Refreshed(k \in present, bucket[k], m, t)
           n == IF Allowed(b) THEN admitted[k] + 1 ELSE admitted[k]
           g == AtLeast(0, t - upto[k])
<1>1. /\ Unit \in Nat /\ admitted[k] \in Nat /\ upto[k] \in Nat /\ rewound[k] \in Nat
      /\ bucket[k] \in Bucket /\ l.capacity \in Nat /\ l.rate \in Nat /\ m.rate \in Nat
    BY RateLimiterAssumption DEF TypeOK, LimitType
<1>2. (k \in present) \in BOOLEAN OBVIOUS
<1>3. /\ b \in Bucket /\ b.tokens <= l.capacity
      /\ k \in present => b.tokens <= bucket[k].tokens + Elapsed(bucket[k], t) * m.rate
    <2>1. b \in Bucket /\ b.tokens <= m.capacity
          /\ (k \in present => b.tokens <= bucket[k].tokens + Elapsed(bucket[k], t) * m.rate)
        BY <1>1, <1>2, RefreshedFacts
    <2> HIDE DEF b
    <2> QED BY <2>1
<1>4. g \in Nat BY <1>1 DEF AtLeast
<1>5. k \in present => Elapsed(bucket[k], t) = g
    BY DEF Account, Elapsed
<1>6. t + rewound[k] + AtLeast(0, upto[k] - t) = upto[k] + rewound[k] + g
    BY <1>1 DEF AtLeast
<1>7. Held(l, k) \in Nat
    BY <1>1 DEF Held, Bucket
<1> HIDE DEF b, g
<1>8. b.tokens \in Nat /\ g * l.rate \in Nat /\ g * m.rate \in Nat /\ g * m.rate <= g * l.rate
    BY <1>1, <1>3, <1>4, NatProduct, Monotone DEF Bucket
<1>9. b.tokens <= Held(l, k) + g * l.rate
    BY <1>1, <1>3, <1>5, <1>7, <1>8 DEF Held, Bucket
<1>10. admitted[k] * Unit \in Nat
    BY <1>1, NatProduct
<1>11. admitted[k] * Unit + Held(l, k) <= l.capacity + l.rate * (upto[k] + rewound[k])
    BY DEF Account
<1>12. admitted[k] * Unit + b.tokens <= l.capacity + l.rate * (upto[k] + rewound[k] + g)
    <2>1. upto[k] + rewound[k] \in Nat BY <1>1
    <2> QED BY <1>1, <1>4, <1>7, <1>8, <1>9, <1>10, <1>11, <2>1, Grow
<1>13. n * Unit + Charge(b).tokens = admitted[k] * Unit + b.tokens
    <2>1. (admitted[k] + 1) * Unit = admitted[k] * Unit + Unit
        BY <1>1, SMT
    <2>2. Charge(b).tokens = IF Allowed(b) THEN b.tokens - Unit ELSE b.tokens
        BY <1>3, ChargeFacts
    <2>3. CASE Allowed(b) BY <1>1, <1>8, <1>10, <2>1, <2>2, <2>3
    <2>4. CASE ~Allowed(b) BY <1>1, <1>8, <1>10, <2>2, <2>4
    <2> QED BY <2>3, <2>4
<1> QED BY <1>6, <1>12, <1>13 DEF b

\* Sweeping a full bucket leaves its client exactly what it had.
LEMMA SweptKey ==
    ASSUME TypeOK, NEW l \in LimitType, NEW j \in Keys, NEW t \in Nat, Account(l, j),
           j \in present, is_full_at(bucket[j], t)
    PROVE  admitted[j] * Unit + l.capacity
              <= l.capacity + l.rate * (AtLeast(t, upto[j]) + rewound[j])
<1> DEFINE g == Elapsed(bucket[j], t)
           tokens == bucket[j].tokens
<1>1. /\ Unit \in Nat /\ admitted[j] \in Nat /\ upto[j] \in Nat /\ rewound[j] \in Nat
      /\ bucket[j] \in Bucket /\ tokens \in Nat /\ l.capacity \in Nat /\ l.rate \in Nat
    BY RateLimiterAssumption DEF TypeOK, LimitType, Bucket
<1>2. g \in Nat /\ AtLeast(t, upto[j]) = upto[j] + g
    BY <1>1, ElapsedType DEF Account, AtLeast, Elapsed
<1>3. l.capacity <= tokens + g * l.rate
    <2>1. tokens + g * bucket[j].rate >= l.capacity /\ bucket[j].rate <= l.rate
        BY DEF is_full_at, Account
    <2>2. bucket[j].rate \in Nat
        BY <1>1 DEF Bucket
    <2> HIDE DEF g, tokens
    <2>3. g * l.rate \in Nat /\ g * bucket[j].rate \in Nat /\ g * bucket[j].rate <= g * l.rate
        BY <1>1, <1>2, <2>1, <2>2, NatProduct, Monotone
    <2> QED BY <1>1, <2>1, <2>3
<1>4. admitted[j] * Unit + tokens <= l.capacity + l.rate * (upto[j] + rewound[j])
    BY DEF Account, Held
<1>5. admitted[j] * Unit \in Nat /\ upto[j] + rewound[j] \in Nat
    BY <1>1, NatProduct
<1> HIDE DEF g, tokens
<1>6. admitted[j] * Unit + l.capacity <= l.capacity + l.rate * (upto[j] + rewound[j] + g)
    BY <1>1, <1>2, <1>3, <1>4, <1>5, Grow
<1>7. upto[j] + rewound[j] + g = AtLeast(t, upto[j]) + rewound[j]
    BY <1>1, <1>2
<1> QED BY <1>6, <1>7

LEMMA CreditStep ==
    ASSUME NEW l \in Compiled, Highest(l), TypeOK, Credit(l), [Next]_vars
    PROVE  Credit(l)'
<1> USE DEF shard, locals, history
<1>1. l \in LimitType
    BY CompiledType
<1>2. CASE Tick
    BY <1>2 DEF Tick, Credit, Account, Held, TypeOK
<1>3. ASSUME NEW m \in Compiled, Reload(m) PROVE Credit(l)'
    BY <1>3 DEF Reload, Credit, Account, Held
<1>4. ASSUME NEW w \in Workers, NEW k \in Keys, Arrive(w, k) PROVE Credit(l)'
    BY <1>4 DEF Arrive, Credit, Account, Held, TypeOK
<1>5. ASSUME NEW w \in Workers, Check(w) PROVE Credit(l)'
    <2>k. PICK k \in Keys : k = key[w]
        BY DEF TypeOK
    <2>t. PICK t \in Nat : t = now[w]
        BY DEF TypeOK
    <2>m. PICK m \in LimitType : m = lim[w] /\ m.capacity = l.capacity /\ m.rate <= l.rate
        BY CompiledType DEF TypeOK, Highest
    <2> DEFINE b == Refreshed(k \in present, bucket[k], m, t)
    <2>1. k \in Keys /\ t \in Nat /\ t <= clock /\ bucket[k] \in Bucket /\ lim[w] = m
        BY <2>t, <2>m DEF TypeOK, Credit
    <2>2. (k \in present) \in BOOLEAN OBVIOUS
    <2>3. b \in Bucket /\ b.last = t /\ b.rate = m.rate /\ b.capacity = m.capacity
        <3>1. m \in LimitType BY <2>m
        <3>2. bucket[k] \in Bucket BY <2>1
        <3>3. PICK known \in BOOLEAN : known = (k \in present)
            BY <2>2
        <3>4. LET c == Refreshed(known, bucket[k], m, t)
              IN  c \in Bucket /\ c.last = t /\ c.rate = m.rate /\ c.capacity = m.capacity
            BY <2>1, <3>1, <3>2, RefreshedFacts
        <3> QED BY <3>3, <3>4, Zenon
    <2>4. /\ Charge(b) \in Bucket /\ Charge(b).last = t
          /\ Charge(b).rate = m.rate /\ Charge(b).capacity = l.capacity
        BY <2>m, <2>3, ChargeFacts
    <2>5. /\ bucket'[k] = Charge(b) /\ upto'[k] = t
          /\ rewound'[k] = rewound[k] + AtLeast(0, upto[k] - t)
          /\ admitted'[k] = IF Allowed(b) THEN admitted[k] + 1 ELSE admitted[k]
          /\ clock' = clock /\ now' = now
        BY <1>5, <2>k, <2>t, <2>1 DEF Check, TypeOK
    <2>6. Account(l, k)'
        <3>1. admitted'[k] * Unit + Charge(b).tokens
                <= l.capacity + l.rate * (upto'[k] + rewound'[k])
            <4>1. upto'[k] + rewound'[k] = t + rewound[k] + AtLeast(0, upto[k] - t)
                BY <2>1, <2>5 DEF TypeOK, AtLeast
            <4>2. Account(l, k) BY <2>1 DEF Credit
            <4> QED BY <1>1, <2>m, <2>1, <2>5, <4>1, <4>2, OwnKey
        <3>2. k \notin present' => Charge(b).tokens >= l.capacity
            <4> SUFFICES ASSUME k \notin present' PROVE Charge(b).tokens >= l.capacity
                OBVIOUS
            <4>1. is_full_at(Charge(b), t)
                BY <1>5, <2>k, <2>t, <2>1, <2>5 DEF Check
            <4>2. Elapsed(Charge(b), t) = 0
                BY <2>1, <2>4 DEF Elapsed, AtLeast
            <4>3. 0 * m.rate = 0 BY <2>m DEF LimitType
            <4>4. Charge(b).tokens \in Nat BY <2>4 DEF Bucket
            <4> QED BY <2>4, <4>1, <4>2, <4>3, <4>4 DEF is_full_at
        <3>3. /\ admitted'[k] * Unit \in Nat /\ Charge(b).tokens \in Nat /\ l.capacity \in Nat
              /\ l.rate * (upto'[k] + rewound'[k]) \in Nat
            <4>1. TypeOK' BY TypeStep
            <4> QED BY <1>1, <2>1, <2>4, <4>1, NatProduct, RateLimiterAssumption
                    DEF TypeOK, LimitType, Bucket
        <3>4. admitted'[k] * Unit + Held(l, k)' <= l.capacity + l.rate * (upto'[k] + rewound'[k])
            <4>1. Held(l, k)' = IF k \in present' THEN Charge(b).tokens ELSE l.capacity
                BY <1>5, <2>k, <2>t, <2>5 DEF Held, Check
            <4> HIDE DEF b
            <4> QED BY <3>1, <3>2, <3>3, <4>1
        <3> QED BY <1>5, <2>k, <2>t, <2>m, <2>1, <2>4, <2>5, <3>4 DEF Account, Check
    <2>7. ASSUME NEW j \in Keys, j # k PROVE Account(l, j)'
        <3>1. /\ bucket'[j] = bucket[j] /\ rewound'[j] = rewound[j]
              /\ admitted'[j] = admitted[j]
            BY <1>5, <2>k, <2>t, <2>1, <2>7 DEF Check, TypeOK
        <3>2. Account(l, j) BY DEF Credit
        <3>3. CASE j \in present /\ j \notin present'
            <4>1. is_full_at(bucket[j], t)
                BY <1>5, <2>k, <2>t, <2>1, <2>7, <3>1, <3>3 DEF Check
            <4>2. upto'[j] = AtLeast(t, upto[j])
                BY <1>5, <2>k, <2>t, <2>7, <3>1, <3>3, <4>1 DEF Check
            <4>3. upto'[j] <= clock'
                BY <2>1, <2>5, <3>2, <4>2 DEF Account, AtLeast, TypeOK
            <4>4. Held(l, j)' = l.capacity
                BY <3>3 DEF Held
            <4>5. admitted[j] * Unit + l.capacity
                    <= l.capacity + l.rate * (AtLeast(t, upto[j]) + rewound[j])
                BY <1>1, <2>1, <3>2, <3>3, <4>1, SweptKey
            <4> QED BY <3>1, <3>3, <4>2, <4>3, <4>4, <4>5 DEF Account
        <3>4. CASE ~(j \in present /\ j \notin present')
            <4>1. j \in present' <=> j \in present
                BY <1>5, <2>k, <2>t, <2>7, <3>4 DEF Check
            <4>2. upto'[j] = upto[j]
                BY <1>5, <2>k, <2>t, <2>7, <3>1, <3>4, <4>1 DEF Check
            <4> QED BY <2>5, <3>1, <3>2, <4>1, <4>2 DEF Account, Held
        <3> QED BY <3>3, <3>4
    <2>8. \A v \in Workers : now'[v] <= clock'
        BY <2>5 DEF Credit
    <2> QED BY <2>6, <2>7, <2>8 DEF Credit
<1>6. CASE UNCHANGED vars
    BY <1>6 DEF vars, Credit, Account, Held
<1> QED BY <1>2, <1>3, <1>4, <1>5, <1>6 DEF Next

(***************************************************************************)
(* Where reloads keep the burst, a client is never admitted beyond it plus *)
(* the refill, at the highest rate, of the elapsed time and of the time    *)
(* that out-of-order checks rewound its bucket by, whatever is swept and   *)
(* however requests race.                                                  *)
(***************************************************************************)
THEOREM AdmissionBounded ==
    ASSUME NEW l \in Compiled, Highest(l) PROVE Spec => []AdmittedWithinSkew
<1>1. l \in LimitType BY CompiledType
<1>2. Init => Credit(l)
    <2> SUFFICES ASSUME Init PROVE Credit(l)
        OBVIOUS
    <2>1. 0 * Unit = 0 /\ l.rate * (0 + 0) = 0
        BY <1>1, RateLimiterAssumption DEF LimitType
    <2> QED BY <1>1, <2>1 DEF Init, Credit, Account, Held, LimitType
<1>3. TypeOK /\ Credit(l) /\ [Next]_vars => Credit(l)'
    BY CreditStep
<1>4. TypeOK /\ Credit(l) => AdmittedWithinSkew
    <2> SUFFICES ASSUME TypeOK, Credit(l), NEW k \in Keys
                 PROVE admitted[k] * Unit <= l.capacity + l.rate * (clock + rewound[k])
        BY DEF AdmittedWithinSkew, Within
    <2>1. /\ admitted[k] * Unit \in Nat /\ Held(l, k) \in Nat /\ l.capacity \in Nat
          /\ l.rate \in Nat /\ upto[k] \in Nat /\ clock \in Nat /\ rewound[k] \in Nat
        BY <1>1, NatProduct, RateLimiterAssumption DEF TypeOK, LimitType, Held, Bucket
    <2>2. upto[k] <= clock
          /\ admitted[k] * Unit + Held(l, k) <= l.capacity + l.rate * (upto[k] + rewound[k])
        BY DEF Credit, Account
    <2>3. PICK d \in Nat : clock = upto[k] + d
        <3>1. clock - upto[k] \in Nat /\ clock = upto[k] + (clock - upto[k])
            BY <2>1, <2>2
        <3> QED BY <3>1
    <2>4. l.rate * (clock + rewound[k]) = l.rate * (upto[k] + rewound[k]) + l.rate * d
        <3>1. clock + rewound[k] = (upto[k] + rewound[k]) + d BY <2>1, <2>3
        <3>2. upto[k] + rewound[k] \in Nat BY <2>1
        <3> QED BY <2>1, <2>3, <3>1, <3>2, Distributes
    <2>5. l.rate * d \in Nat /\ l.rate * (upto[k] + rewound[k]) \in Nat
        BY <2>1, <2>3, NatProduct
    <2> QED BY <2>1, <2>2, <2>4, <2>5
<1> QED BY <1>2, <1>3, <1>4, TypeCorrect, PTL DEF Spec

-----------------------------------------------------------------------------
(* InvisibleUnlessAhead.  While the limit has not changed, the bucket a client *)
(* would have without sweeps is the one it has, or was full by the time    *)
(* its credit reaches to, and stays so until the client is checked again.  *)

Orderly(k) == k \notin disordered \union overtaken

LikeKept(k) ==
    admitted[k] > 0 /\ Orderly(k) =>
        /\ kept[k].rate = limit.rate /\ kept[k].capacity = limit.capacity
        /\ kept[k].last <= upto[k]
        /\ k \in present => bucket[k] = kept[k]
        /\ k \notin present => is_full_at(kept[k], upto[k])

Sweepless ==
    /\ \A w \in Workers : now[w] <= clock
    /\ \A k \in Keys : upto[k] <= clock
    /\ ~reloaded => /\ \A w \in Workers : lim[w] = limit
                    /\ \A k \in Keys : (k \in present => admitted[k] > 0) /\ LikeKept(k)

\* A burst is at least one request.
LEMMA CapacityIsPositive == ASSUME NEW l \in Compiled PROVE l.capacity >= Unit
<1>1. PICK cfg \in Limits : l = compile(cfg)
    BY DEF Compiled
<1>2. cfg.rps \in Nat /\ cfg.burst \in Nat /\ Unit \in Nat \ {0}
    BY RateLimiterAssumption
<1>3. ASSUME NEW n \in Nat, n >= 1 PROVE n * Unit >= Unit
    BY <1>2, <1>3
<1>4. (cfg.rps + Unit - 1) \div Unit \in Nat
    BY <1>2
<1>5. AtLeast(1, (cfg.rps + Unit - 1) \div Unit) \in Nat /\ AtLeast(1, (cfg.rps + Unit - 1) \div Unit) >= 1
    BY <1>4 DEF AtLeast
<1>6. AtLeast(1, (cfg.rps + Unit - 1) \div Unit) * Unit >= Unit
    BY <1>3, <1>5
<1>7. cfg.burst # 0 => cfg.burst * Unit >= Unit
    BY <1>2, <1>3
<1> QED BY <1>1, <1>6, <1>7 DEF compile

LEMMA SameBucket ==
    ASSUME NEW b \in Bucket, NEW c \in Bucket, b.tokens = c.tokens, b.last = c.last, b.rate = c.rate,
           b.capacity = c.capacity
    PROVE  b = c
BY DEF Bucket

LEMMA FreshFacts ==
    ASSUME NEW b, NEW l \in LimitType, NEW t \in Nat
    PROVE  Refreshed(FALSE, b, l, t) = Fresh(l, t) /\ Fresh(l, t) \in Bucket
<1>1. Fresh(l, t) \in Bucket /\ Fresh(l, t).tokens = l.capacity /\ Fresh(l, t).last = t
      /\ Fresh(l, t).capacity = l.capacity /\ Fresh(l, t).rate = l.rate
    BY DEF Fresh, Bucket, LimitType
<1>2. Elapsed(Fresh(l, t), t) = 0
    BY <1>1 DEF Elapsed, AtLeast
<1>3. 0 * l.rate = 0 /\ l.capacity \in Nat
    BY DEF LimitType
<1>4. AtMost(l.capacity + 0, l.capacity) = l.capacity
    BY <1>3 DEF AtMost
<1>5. refill(Fresh(l, t), t) = [Fresh(l, t) EXCEPT !.tokens = l.capacity, !.last = t]
    BY <1>1, <1>2, <1>3, <1>4 DEF refill
<1>6. refill(Fresh(l, t), t) \in Bucket /\ refill(Fresh(l, t), t).tokens = l.capacity
      /\ refill(Fresh(l, t), t).last = t /\ refill(Fresh(l, t), t).rate = l.rate
      /\ refill(Fresh(l, t), t).capacity = l.capacity
    BY <1>1, <1>3, <1>5, RefillFacts DEF Bucket
<1>7. refill(Fresh(l, t), t) = Fresh(l, t)
    BY <1>1, <1>6, SameBucket
<1> QED BY <1>1, <1>7 DEF Refreshed

\* A full bucket stays full.
LEMMA StaysFull ==
    ASSUME NEW b \in Bucket, NEW u \in Nat, NEW t \in Nat, u <= t, is_full_at(b, u)
    PROVE  is_full_at(b, t)
<1>1. Elapsed(b, u) \in Nat /\ Elapsed(b, t) \in Nat /\ Elapsed(b, u) <= Elapsed(b, t)
    BY DEF Elapsed, AtLeast, Bucket
<1>2. b.rate \in Nat /\ b.tokens \in Nat /\ b.capacity \in Nat
    BY DEF Bucket
<1>3. b.rate * Elapsed(b, u) <= b.rate * Elapsed(b, t)
    BY <1>1, <1>2, Monotone
<1>4. b.rate * Elapsed(b, u) = Elapsed(b, u) * b.rate /\ b.rate * Elapsed(b, t) = Elapsed(b, t) * b.rate
    BY <1>1, <1>2
<1>5. Elapsed(b, u) * b.rate \in Nat /\ Elapsed(b, t) * b.rate \in Nat
    BY <1>1, <1>2, NatProduct
<1> QED BY <1>2, <1>3, <1>4, <1>5 DEF is_full_at

\* A check brings a full bucket to what a fresh one holds.
LEMMA FullIsFresh ==
    ASSUME NEW b \in Bucket, NEW l \in LimitType, b.rate = l.rate, b.capacity = l.capacity,
           NEW t \in Nat, is_full_at(b, t)
    PROVE  Refreshed(TRUE, b, l, t) = Fresh(l, t)
<1>1. [b EXCEPT !.rate = l.rate, !.capacity = l.capacity] = b
    BY DEF Bucket
<1>2. Refreshed(TRUE, b, l, t) = refill(b, t)
    BY <1>1 DEF Refreshed
<1>3. AtMost(b.tokens + Elapsed(b, t) * b.rate, b.capacity) = l.capacity
    <2>1. Elapsed(b, t) * b.rate \in Nat /\ b.tokens \in Nat /\ b.capacity \in Nat
        BY ElapsedType, NatProduct DEF Bucket
    <2>2. b.tokens + Elapsed(b, t) * b.rate >= b.capacity
        BY DEF is_full_at
    <2> QED BY <2>1, <2>2 DEF AtMost
<1>4. refill(b, t) = [b EXCEPT !.tokens = l.capacity, !.last = t]
    BY <1>3 DEF refill
<1>5. refill(b, t) \in Bucket /\ refill(b, t).tokens = l.capacity /\ refill(b, t).last = t
      /\ refill(b, t).rate = l.rate /\ refill(b, t).capacity = l.capacity
    BY <1>4, RefillFacts DEF Bucket
<1>6. Fresh(l, t) \in Bucket /\ Fresh(l, t).tokens = l.capacity /\ Fresh(l, t).last = t
      /\ Fresh(l, t).rate = l.rate /\ Fresh(l, t).capacity = l.capacity
    BY DEF Fresh, Bucket, LimitType
<1>7. refill(b, t) = Fresh(l, t)
    BY <1>5, <1>6, SameBucket
<1> QED BY <1>2, <1>7

\* check() leaves its client the bucket it would have had without sweeps.
LEMMA OwnKept ==
    ASSUME TypeOK, NEW k \in Keys, NEW l \in LimitType, l = limit, NEW t \in Nat,
           k \in present => admitted[k] > 0, LikeKept(k), Orderly(k),
           k \notin present => upto[k] <= t
    PROVE  Refreshed(k \in present, bucket[k], l, t) = Refreshed(admitted[k] > 0, kept[k], l, t)
<1>1. kept[k] \in Bucket /\ upto[k] \in Nat /\ admitted[k] \in Nat
    BY DEF TypeOK
<1>2. CASE k \in present
    <2>1. (k \in present) = TRUE /\ (admitted[k] > 0) = TRUE /\ bucket[k] = kept[k]
        BY <1>2 DEF LikeKept
    <2> QED BY <2>1
<1>3. CASE k \notin present /\ admitted[k] > 0
    <2>1. is_full_at(kept[k], t)
        BY <1>1, <1>3, StaysFull DEF LikeKept
    <2>2. Refreshed(TRUE, kept[k], l, t) = Fresh(l, t)
        BY <1>1, <1>3, <2>1, FullIsFresh DEF LikeKept
    <2>3. Refreshed(FALSE, bucket[k], l, t) = Fresh(l, t)
        BY FreshFacts
    <2>4. (k \in present) = FALSE /\ (admitted[k] > 0) = TRUE
        BY <1>3
    <2> QED BY <2>2, <2>3, <2>4
<1>4. CASE k \notin present /\ ~(admitted[k] > 0)
    <2>1. (k \in present) = FALSE /\ (admitted[k] > 0) = FALSE
        BY <1>4
    <2>2. Refreshed(FALSE, bucket[k], l, t) = Refreshed(FALSE, kept[k], l, t)
        BY FreshFacts
    <2> QED BY <2>1, <2>2
<1> QED BY <1>2, <1>3, <1>4

LEMMA SweeplessStep ==
    ASSUME TypeOK, Sweepless, [Next]_vars
    PROVE  Sweepless'
<1> USE DEF shard, locals, history
<1>1. CASE Tick
    <2>1. clock \in Nat /\ clock' = clock + 1 /\ UNCHANGED <<limit, present, bucket, now, lim, admitted, upto,
                                                            kept, disordered, overtaken, reloaded>>
        BY <1>1 DEF Tick, TypeOK
    <2>2. \A n \in Nat : n <= clock => n <= clock'
        BY <2>1
    <2>3. (\A w \in Workers : now[w] \in Nat) /\ (\A k \in Keys : upto[k] \in Nat)
        BY DEF TypeOK
    <2> QED BY <2>1, <2>2, <2>3 DEF Sweepless, LikeKept, Orderly
<1>2. ASSUME NEW l \in Compiled, Reload(l) PROVE Sweepless'
    BY <1>2 DEF Reload, Sweepless
<1>3. ASSUME NEW w \in Workers, NEW k \in Keys, Arrive(w, k) PROVE Sweepless'
    <2>1. UNCHANGED <<clock, limit, present, bucket, admitted, upto, kept, disordered, overtaken,
                     reloaded>>
        BY <1>3 DEF Arrive
    <2>2. \A v \in Workers : now'[v] \in {now[v], clock} /\ lim'[v] \in {lim[v], limit}
        BY <1>3 DEF Arrive, TypeOK
    <2>3. clock <= clock
        BY DEF TypeOK
    <2> QED BY <2>1, <2>2, <2>3 DEF Sweepless, LikeKept, Orderly
<1>4. ASSUME NEW w \in Workers, Check(w) PROVE Sweepless'
    <2>1. PICK k \in Keys : k = key[w]
        BY DEF TypeOK
    <2>2. PICK t \in Nat : t = now[w] /\ t <= clock
        BY DEF TypeOK, Sweepless
    <2>3. PICK l \in LimitType : l = lim[w] /\ l.capacity >= Unit
        BY CompiledType, CapacityIsPositive DEF TypeOK
    <2> DEFINE b == Refreshed(k \in present, bucket[k], l, t)
               c == Refreshed(admitted[k] > 0, kept[k], l, t)
    <2>4. /\ bucket'[k] = Charge(b) /\ kept'[k] = Charge(c) /\ upto'[k] = t
          /\ admitted'[k] = IF Allowed(b) THEN admitted[k] + 1 ELSE admitted[k]
          /\ disordered' = IF t < kept[k].last THEN disordered \union {k} ELSE disordered
          /\ overtaken' = IF k \notin present /\ kept[k].last <= t /\ t < upto[k]
                          THEN overtaken \union {k} ELSE overtaken
          /\ UNCHANGED <<clock, limit, now, lim, reloaded>>
        BY <1>4, <2>1, <2>2, <2>3 DEF Check, TypeOK
    <2>5. k \notin present' => is_full_at(bucket'[k], t)
        BY <1>4, <2>1, <2>2, <2>3, <2>4 DEF Check
    <2>6. ASSUME NEW j \in Keys \ {k}
          PROVE  /\ bucket'[j] = bucket[j] /\ kept'[j] = kept[j]
                 /\ admitted'[j] = admitted[j] /\ (Orderly(j)' <=> Orderly(j))
                 /\ \/ (j \in present' <=> j \in present) /\ upto'[j] = upto[j]
                    \/ j \in present /\ j \notin present' /\ is_full_at(bucket[j], t)
                       /\ upto'[j] = AtLeast(t, upto[j])
        <3>1. /\ bucket'[j] = bucket[j] /\ kept'[j] = kept[j]
              /\ admitted'[j] = admitted[j] /\ (Orderly(j)' <=> Orderly(j))
            <4>1. bucket'[j] = bucket[j] /\ kept'[j] = kept[j] /\ admitted'[j] = admitted[j]
                BY <1>4, <2>1, <2>2, <2>6 DEF Check, TypeOK
            <4>2. Orderly(j)' <=> Orderly(j)
                BY <2>4, <2>6 DEF Orderly
            <4> QED BY <4>1, <4>2
        <3>2. CASE j \in present /\ j \notin present'
            <4>1. is_full_at(bucket[j], t)
                BY <1>4, <2>1, <2>2, <2>6, <3>1, <3>2 DEF Check
            <4>2. upto'[j] = AtLeast(t, upto[j])
                BY <1>4, <2>1, <2>2, <2>6, <3>1, <3>2, <4>1 DEF Check
            <4> QED BY <3>1, <3>2, <4>1, <4>2
        <3>3. CASE ~(j \in present /\ j \notin present')
            <4>1. j \in present' <=> j \in present
                BY <1>4, <2>1, <2>2, <2>6, <3>3 DEF Check
            <4>2. upto'[j] = upto[j]
                BY <1>4, <2>1, <2>2, <2>6, <3>1, <3>3, <4>1 DEF Check
            <4> QED BY <3>1, <4>1, <4>2
        <3> QED BY <3>2, <3>3
    <2>7. ASSUME NEW j \in Keys PROVE upto'[j] <= clock'
        BY <2>2, <2>4, <2>6 DEF Sweepless, TypeOK, AtLeast
    <2>8. ASSUME ~reloaded, NEW j \in Keys \ {k} PROVE (j \in present' => admitted'[j] > 0) /\ LikeKept(j)'
        <3>1. (j \in present => admitted[j] > 0) /\ LikeKept(j)
            BY <2>8 DEF Sweepless
        <3>2. CASE (j \in present' <=> j \in present) /\ upto'[j] = upto[j]
            BY <2>4, <2>6, <3>1, <3>2 DEF LikeKept
        <3>3. CASE j \in present /\ j \notin present' /\ is_full_at(bucket[j], t)
                   /\ upto'[j] = AtLeast(t, upto[j])
            <4>1. bucket[j] \in Bucket /\ upto[j] \in Nat /\ kept[j].last \in Nat
                BY DEF TypeOK, Bucket
            <4>2. AtLeast(t, upto[j]) \in Nat /\ t <= AtLeast(t, upto[j]) /\ upto[j] <= AtLeast(t, upto[j])
                BY <4>1 DEF AtLeast
            <4>3. is_full_at(bucket[j], AtLeast(t, upto[j]))
                BY <3>3, <4>1, <4>2, StaysFull
            <4>4. kept[j].last <= upto[j] => kept[j].last <= AtLeast(t, upto[j])
                BY <4>1, <4>2
            <4> QED BY <2>4, <2>6, <3>1, <3>3, <4>3, <4>4 DEF LikeKept
        <3> QED BY <2>6, <3>2, <3>3
    <2>9. ASSUME ~reloaded PROVE admitted'[k] > 0 /\ LikeKept(k)'
        <3>1. l = limit /\ (k \in present => admitted[k] > 0) /\ LikeKept(k)
            BY <2>3, <2>9 DEF Sweepless
        <3>2. kept[k] \in Bucket /\ bucket[k] \in Bucket /\ upto[k] \in Nat
              /\ kept[k].last \in Nat /\ admitted[k] \in Nat /\ Unit \in Nat /\ l.capacity \in Nat
            BY RateLimiterAssumption DEF TypeOK, LimitType, Bucket
        <3>3. admitted'[k] > 0
            <4>1. CASE admitted[k] > 0
                BY <2>4, <3>2, <4>1
            <4>2. CASE ~(admitted[k] > 0)
                <5>1. (k \in present) = FALSE
                    BY <3>1, <4>2
                <5>2. b = Fresh(l, t)
                    BY <5>1, FreshFacts
                <5>3. Allowed(b)
                    BY <2>3, <3>2, <5>2 DEF Allowed, Fresh
                <5> QED BY <2>4, <3>2, <5>3
            <4> QED BY <4>1, <4>2
        <3>4. ASSUME Orderly(k)' PROVE Orderly(k) /\ (k \notin present => upto[k] <= t)
            <4>1. Orderly(k) /\ ~(t < kept[k].last)
                  /\ ~(k \notin present /\ kept[k].last <= t /\ t < upto[k])
                BY <2>4, <3>4 DEF Orderly
            <4> QED BY <3>2, <4>1
        <3>5. ASSUME Orderly(k)' PROVE bucket'[k] = kept'[k]
            <4>1. b = c
                BY <3>1, <3>4, <3>5, OwnKept
            <4> QED BY <2>4, <4>1
        <3>6. c \in Bucket /\ c.last = t /\ c.rate = l.rate /\ c.capacity = l.capacity
            <4>1. CASE admitted[k] > 0
                <5>1. (admitted[k] > 0) = TRUE
                    BY <4>1
                <5>2. c = Refreshed(TRUE, kept[k], l, t)
                    BY <5>1
                <5>3. TRUE \in BOOLEAN /\ kept[k] \in Bucket
                    BY <3>2
                <5>4. LET d == Refreshed(TRUE, kept[k], l, t)
                      IN  d \in Bucket /\ d.last = t /\ d.rate = l.rate /\ d.capacity = l.capacity
                    BY <5>3, RefreshedFacts, ZenonT(30)
                <5> HIDE DEF c
                <5> QED BY <5>2, <5>4, Zenon
            <4>2. CASE ~(admitted[k] > 0)
                <5>1. (admitted[k] > 0) = FALSE
                    BY <4>2
                <5>2. c = Refreshed(FALSE, kept[k], l, t)
                    BY <5>1
                <5>3. FALSE \in BOOLEAN /\ kept[k] \in Bucket
                    BY <3>2
                <5>4. LET d == Refreshed(FALSE, kept[k], l, t)
                      IN  d \in Bucket /\ d.last = t /\ d.rate = l.rate /\ d.capacity = l.capacity
                    BY <5>3, RefreshedFacts
                <5> HIDE DEF c
                <5> QED BY <5>2, <5>4, Zenon
            <4> QED BY <4>1, <4>2
        <3>7. kept'[k].last = t /\ kept'[k].rate = l.rate /\ kept'[k].capacity = l.capacity
            BY <2>4, <3>6, ChargeFacts
        <3>8. t <= t
            OBVIOUS
        <3> HIDE DEF b, c
        <3> QED BY <2>4, <2>5, <3>1, <3>3, <3>5, <3>7, <3>8 DEF LikeKept
    <2> HIDE DEF b, c
    <2> QED BY <2>4, <2>7, <2>8, <2>9 DEF Sweepless
<1>5. CASE UNCHANGED vars
    BY <1>5 DEF vars, Sweepless, LikeKept, Orderly
<1> QED BY <1>1, <1>2, <1>3, <1>4, <1>5 DEF Next

(***************************************************************************)
(* Until a reload changes the limit, a client whose own checks keep their  *)
(* order can notice a sweep in one way only, a sweep whose check had read  *)
(* a later time than the client's next one: for any limit, threshold,      *)
(* clients and interleaving is_full_at is exact otherwise.                 *)
(***************************************************************************)
THEOREM SweepsUnnoticedUnlessAhead == Spec => []InvisibleUnlessAhead
<1>1. Init => Sweepless
    BY DEF Init, Sweepless, LikeKept, Orderly
<1>2. TypeOK /\ Sweepless /\ [Next]_vars => Sweepless'
    BY SweeplessStep
<1>3. TypeOK /\ Sweepless => InvisibleUnlessAhead
    <2> SUFFICES ASSUME TypeOK, Sweepless, ~reloaded, NEW k \in Keys, admitted[k] > 0, Orderly(k)
                 PROVE  Unnoticed(k)
        BY DEF InvisibleUnlessAhead, Checked, Orderly
    <2>1. LikeKept(k) /\ upto[k] <= clock
        BY DEF Sweepless
    <2>2. kept[k] \in Bucket /\ upto[k] \in Nat /\ clock \in Nat /\ limit \in LimitType
        BY CompiledType DEF TypeOK
    <2>3. CASE k \notin present
        <3>1. is_full_at(kept[k], clock)
            BY <2>1, <2>2, <2>3, StaysFull DEF LikeKept
        <3> QED BY <2>1, <2>2, <2>3, <3>1, FullIsFresh DEF LikeKept, Unnoticed
    <2> QED BY <2>1, <2>3 DEF LikeKept, Unnoticed
<1> QED BY <1>1, <1>2, <1>3, TypeCorrect, PTL DEF Spec
=============================================================================
