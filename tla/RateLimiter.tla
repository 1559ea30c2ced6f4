---------------------------- MODULE RateLimiter ----------------------------
(***************************************************************************)
(* The per-client token buckets of crates/gatepup-proxy/src/rate_limit.rs, *)
(* one shard of the map and the bucket parameters of one route             *)
(* (RateLimit::compile in router.rs).  A request reads the clock and its   *)
(* snapshot's limit first (proxy.rs, forward) and takes the shard's lock   *)
(* later, so requests may pass the lock in another order than the one they *)
(* read the clock in.  Tokens are counted in units: Unit of them make the  *)
(* 1.0 of the code, so that rates may be fractions of a token per tick.    *)
(***************************************************************************)
EXTENDS Integers, FiniteSets

CONSTANTS
    Workers,            \* requests that may be in check() at a time
    Keys,               \* client addresses
    Limits,             \* rateLimit settings the route may have: [rps, burst]
    Unit,               \* units of a whole token
    SWEEP_THRESHOLD,
    MaxClock            \* bound on time

ASSUME RateLimiterAssumption ==
    /\ Unit \in Nat \ {0}
    /\ Limits \subseteq [rps : Nat \ {0}, burst : Nat]
    /\ Limits # {}
    /\ SWEEP_THRESHOLD \in Nat
    /\ MaxClock \in Nat

VARIABLES
    clock,              \* Instant::now()
    limit,              \* the route's compiled limit in the current snapshot
    present, bucket,    \* the shard: keys in the map, and their buckets
    pc, key, now, lim,  \* requests: where, for which client, the time and limit read
    (* History, read by no action. *)
    admitted,           \* per key: requests allowed
    upto,               \* per key: the time its credit reaches to
    rewound,            \* per key: how far that time has been set back, in all
    kept,               \* the map as it would be without sweeps
    disordered,         \* clients of whom an earlier reading was checked after a later one
    overtaken,          \* clients checked at a time before that of the sweep that
                        \* had evicted them since their last check
    reloaded            \* the limit has changed

shard == <<present, bucket>>
locals == <<pc, key, now, lim>>
history == <<admitted, upto, rewound, kept, disordered, overtaken, reloaded>>
vars == <<clock, limit, shard, locals, history>>

-----------------------------------------------------------------------------
AtLeast(m, n) == IF n < m THEN m ELSE n
AtMost(m, n) == IF m < n THEN m ELSE n

\* RateLimit::compile: burst 0 means ceil(rate), at least 1.
compile(cfg) ==
    [rate |-> cfg.rps,
     capacity |-> IF cfg.burst = 0
                  THEN AtLeast(1, (cfg.rps + Unit - 1) \div Unit) * Unit
                  ELSE cfg.burst * Unit]

Compiled == {compile(cfg) : cfg \in Limits}

\* saturating_duration_since
Elapsed(b, t) == AtLeast(0, t - b.last)

(* Mutant of refill: the time of the last refill is not advanced. *)
refillStale(b, t) ==
    [b EXCEPT !.tokens = AtMost(@ + Elapsed(b, t) * b.rate, b.capacity)]

refill(b, t) ==
    [b EXCEPT !.tokens = AtMost(@ + Elapsed(b, t) * b.rate, b.capacity),
              !.last = t]

(* Mutant of is_full_at: idle for a tick counts as full. *)
idle_at(b, t) == Elapsed(b, t) > 0

is_full_at(b, t) == b.tokens + Elapsed(b, t) * b.rate >= b.capacity

Fresh(l, t) == [tokens |-> l.capacity, last |-> t, rate |-> l.rate, capacity |-> l.capacity]

\* The bucket check() finds or creates, brought up to date.
Refreshed(known, b, l, t) ==
    refill(IF known THEN [b EXCEPT !.rate = l.rate, !.capacity = l.capacity]
                    ELSE Fresh(l, t), t)

Allowed(b) == b.tokens >= Unit

(* Mutant of Charge: the balance is not looked at. *)
ChargeAlways(b) == [b EXCEPT !.tokens = @ - Unit]

Charge(b) == IF Allowed(b) THEN [b EXCEPT !.tokens = @ - Unit] ELSE b

-----------------------------------------------------------------------------
Init ==
    /\ clock = 0
    /\ limit \in Compiled
    /\ present = {}
    /\ bucket = [k \in Keys |-> Fresh(limit, 0)]
    /\ pc = [w \in Workers |-> "idle"]
    /\ key \in [Workers -> Keys]
    /\ now = [w \in Workers |-> 0]
    /\ lim = [w \in Workers |-> limit]
    /\ admitted = [k \in Keys |-> 0]
    /\ upto = [k \in Keys |-> 0]
    /\ rewound = [k \in Keys |-> 0]
    /\ kept = [k \in Keys |-> Fresh(limit, 0)]
    /\ disordered = {} /\ overtaken = {}
    /\ reloaded = FALSE

Tick ==
    /\ clock < MaxClock
    /\ clock' = clock + 1
    /\ UNCHANGED <<limit, shard, locals, history>>

\* A hot reload changes the route's rateLimit; the buckets survive.
Reload(l) ==
    /\ l # limit
    /\ limit' = l
    /\ reloaded' = TRUE
    /\ UNCHANGED <<clock, shard, locals, admitted, upto, rewound, kept, disordered, overtaken>>

\* forward evaluates check()'s arguments, Instant::now() among them.
Arrive(w, k) ==
    /\ pc[w] = "idle"
    /\ pc' = [pc EXCEPT ![w] = "check"]
    /\ key' = [key EXCEPT ![w] = k]
    /\ now' = [now EXCEPT ![w] = clock]
    /\ lim' = [lim EXCEPT ![w] = limit]
    /\ UNCHANGED <<clock, limit, shard, history>>

\* The rest of check(), under the shard's lock.
Check(w) ==
    LET k == key[w]
        t == now[w]
        b == Refreshed(k \in present, bucket[k], lim[w], t)
        charged == [bucket EXCEPT ![k] = Charge(b)]
        all == present \union {k}
        swept == IF Cardinality(all) > SWEEP_THRESHOLD
                 THEN {j \in all : is_full_at(charged[j], t)}
                 ELSE {}
    IN  /\ pc[w] = "check"
        /\ pc' = [pc EXCEPT ![w] = "idle"]
        /\ bucket' = charged
        /\ present' = all \ swept
        /\ admitted' = IF Allowed(b) THEN [admitted EXCEPT ![k] = @ + 1] ELSE admitted
        /\ rewound' = [rewound EXCEPT ![k] = @ + AtLeast(0, upto[k] - t)]
        /\ upto' = [j \in Keys |-> IF j = k THEN t
                                   ELSE IF j \in swept THEN AtLeast(t, upto[j])
                                   ELSE upto[j]]
        /\ kept' = [kept EXCEPT ![k] = Charge(Refreshed(admitted[k] > 0, kept[k], lim[w], t))]
        /\ disordered' = IF t < kept[k].last THEN disordered \union {k} ELSE disordered
        /\ overtaken' = IF k \notin present /\ kept[k].last <= t /\ t < upto[k]
                        THEN overtaken \union {k} ELSE overtaken
        /\ UNCHANGED <<clock, limit, key, now, lim, reloaded>>

Next ==
    \/ Tick
    \/ \E l \in Compiled : Reload(l)
    \/ \E w \in Workers : Check(w) \/ \E k \in Keys : Arrive(w, k)

Spec == Init /\ [][Next]_vars

-----------------------------------------------------------------------------
Bucket == [tokens : Nat, last : Nat, rate : Nat, capacity : Nat]

TypeOK ==
    /\ clock \in Nat
    /\ limit \in Compiled
    /\ present \subseteq Keys
    /\ bucket \in [Keys -> Bucket]
    /\ pc \in [Workers -> {"idle", "check"}]
    /\ key \in [Workers -> Keys]
    /\ now \in [Workers -> Nat]
    /\ lim \in [Workers -> Compiled]
    /\ admitted \in [Keys -> Nat]
    /\ upto \in [Keys -> Nat]
    /\ rewound \in [Keys -> Nat]
    /\ kept \in [Keys -> Bucket]
    /\ disordered \subseteq Keys /\ overtaken \subseteq Keys
    /\ reloaded \in BOOLEAN

\* A client's admissions fit the largest burst configured plus the refill, at
\* the highest rate configured, of a time t.
Within(k, t) == \E c, r \in Compiled : admitted[k] * Unit <= c.capacity + r.rate * t

(***************************************************************************)
(* README.md:357-358: "`requestsPerSecond` is the sustained refill rate    *)
(* (...); `burst` is the bucket capacity (max instantaneous requests)".  A *)
(* client is admitted at most its burst plus the refill of the elapsed     *)
(* time, plus the refill of whatever time requests that reached the lock   *)
(* out of order have set its bucket's clock back by: behind an own request *)
(* with a later reading, or behind the sweep of somebody else's.  Neither  *)
(* sweeps, nor reloads that keep the burst, give anybody more.             *)
(***************************************************************************)
AdmittedWithinSkew == \A k \in Keys : Within(k, clock + rewound[k])

\* The bucket k would have without sweeps is the one it has, or, if that was
\* swept, one that a check now brings to exactly what a fresh one holds.
Unnoticed(k) ==
    IF k \in present THEN bucket[k] = kept[k]
    ELSE Refreshed(TRUE, kept[k], limit, clock) = Fresh(limit, clock)

\* The first check of a client is always admitted.
Checked == {k \in Keys : admitted[k] > 0}

(***************************************************************************)
(* is_full_at's comment (rate_limit.rs:36-37): a bucket that is swept is   *)
(* "equivalent to a fresh bucket - safe to evict".  While the limit stays  *)
(* the same this is so for a client whose own checks keep their order,     *)
(* unless a sweep was ahead of it: the check that swept had read a later   *)
(* time than the client's next check, which had read its own before and    *)
(* came after.  Such a client is judged as if it had waited until the      *)
(* sweep, so the comment is not true of it (AdmittedWithinSkew bounds what *)
(* it gains).                                                              *)
(***************************************************************************)
InvisibleUnlessAhead ==
    ~reloaded => \A k \in Checked \ (disordered \union overtaken) : Unnoticed(k)
=============================================================================
