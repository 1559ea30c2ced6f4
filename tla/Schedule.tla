------------------------------ MODULE Schedule ------------------------------
(***************************************************************************)
(* The weighted round-robin schedule of an upstream                        *)
(* (crates/gatepup-proxy/src/snapshot.rs): target weights are reduced by   *)
(* their gcd and dealt out in rounds, one slot per round to every target   *)
(* that still has weight left.  Targets are numbered from 1 here, from 0   *)
(* in the code.  A schedule is computed once per snapshot and never        *)
(* changes afterwards; Balancer.tla walks it.                              *)
(***************************************************************************)
EXTENDS Integers, SequencesExt

\* The number of values of the u32 that weights and their sum are kept in.
CONSTANT U32

ASSUME U32Assumption == U32 \in Nat \ {0}

-----------------------------------------------------------------------------
gcd[p \in Nat \X Nat] == IF p[2] = 0 THEN p[1] ELSE gcd[<<p[2], p[1] % p[2]>>]

(* Mutant of Divisor. *)
DivisorOne(weights) == 1

Divisor(weights) ==
    LET fold[i \in 0..Len(weights)] ==
            IF i = 0 THEN 0
            ELSE IF weights[i] > 0 THEN gcd[<<fold[i - 1], weights[i]>>] ELSE fold[i - 1]
    IN  IF fold[Len(weights)] = 0 THEN 1 ELSE fold[Len(weights)]

\* What is left to hand out before the first round.
Remaining(weights) ==
    LET divisor == Divisor(weights)
    IN  [i \in DOMAIN weights |-> weights[i] \div divisor]

SumOf(ns) ==
    LET sum[i \in 0..Len(ns)] == IF i = 0 THEN 0 ELSE sum[i - 1] + ns[i]
    IN  sum[Len(ns)]

\* A release build sums without overflow checks.
Total(remaining) == SumOf(remaining) % U32

(* Mutant of Round: a target's slots all at once. *)
RoundAllAtOnce(schedule, remaining, k) ==
    FlattenSeq([i \in DOMAIN remaining |-> [n \in 1..remaining[i] |-> i]])

\* The k-th turn of the while loop: a slot for every target with weight left, in order.
Round(schedule, remaining, k) ==
    LET pushed[i \in 0..Len(remaining)] ==
            IF i = 0 THEN schedule
            ELSE IF remaining[i] >= k THEN Append(pushed[i - 1], i) ELSE pushed[i - 1]
    IN  pushed[Len(remaining)]

\* Every turn deals a slot, so there are no more turns than slots.
build_schedule(weights) ==
    LET remaining == Remaining(weights)
        total == Total(remaining)
        rounds[k \in 0..SumOf(remaining)] ==
            IF k = 0 THEN <<>>
            ELSE IF Len(rounds[k - 1]) % U32 < total
                 THEN Round(rounds[k - 1], remaining, k)
                 ELSE rounds[k - 1]
    IN  rounds[SumOf(remaining)]

(* Mutant of UpstreamSchedule: no fallback. *)
NoFallback(weights) == build_schedule(weights)

\* build_snapshot_inner: an upstream with targets never gets an empty schedule.
UpstreamSchedule(weights) ==
    LET schedule == build_schedule(weights)
    IN  IF schedule = <<>> THEN [i \in DOMAIN weights |-> i] ELSE schedule

-----------------------------------------------------------------------------
SlotsOf(schedule, t) == Cardinality({n \in DOMAIN schedule : schedule[n] = t})
=============================================================================
