------------------------------ MODULE Balancer ------------------------------
(***************************************************************************)
(* UpstreamRuntime::pick_target (crates/gatepup-proxy/src/snapshot.rs) at  *)
(* the grain of its atomic operations.  Every request of an upstream walks *)
(* the same schedule through one shared counter `next`; a walk takes at    *)
(* most one pass, a slot per fetch_add, and returns the first target whose *)
(* healthy flag it reads as TRUE.  Other walks and the health checks run   *)
(* between any two of its steps.                                           *)
(***************************************************************************)
EXTENDS Integers, Sequences, FiniteSets

CONSTANTS
    Pickers,    \* concurrent callers of pick_target
    Targets,    \* targets of the upstream
    Sched,      \* UpstreamRuntime.schedule: a sequence of targets
    Usize,      \* number of values of the counter
    MaxCalls,   \* bound on the calls of a behaviour
    MaxFlips    \* bound on the changes of healthy flags

ASSUME BalancerAssumption ==
    /\ Sched \in Seq(Targets)
    /\ Usize \in Nat \ {0}
    /\ MaxCalls \in Nat
    /\ MaxFlips \in Nat

VARIABLES
    next,       \* UpstreamRuntime.next
    healthy,    \* the targets' healthy flags
    pc,         \* where each caller is in pick_target
    walked,     \* claims a caller has made in this call
    slot,       \* the schedule slot a caller claimed last
    calls,      \* calls made so far
    flips,      \* changes of healthy flags so far
    (* History, read by no action. *)
    claims,     \* slots claimed by all callers so far: next before wrapping
    from,       \* per caller: `claims` at the first claim of its call
    steady,     \* per caller: targets healthy since the call began
    taken,      \* per caller: slots others claimed since its own first claim
    served,     \* per target: calls that returned it
    ejected     \* targets that have been unhealthy

code == <<next, healthy, pc, walked, slot, calls, flips>>
history == <<claims, from, steady, taken, served, ejected>>
vars == <<code, history>>

L == Len(Sched)

Init ==
    /\ next = 0
    /\ healthy = [t \in Targets |-> TRUE]
    /\ pc = [p \in Pickers |-> "idle"]
    /\ walked = [p \in Pickers |-> 0]
    /\ slot = [p \in Pickers |-> 1]
    /\ calls = 0
    /\ flips = 0
    /\ claims = 0
    /\ from = [p \in Pickers |-> 0]
    /\ steady = [p \in Pickers |-> {}]
    /\ taken = [p \in Pickers |-> {}]
    /\ served = [t \in Targets |-> 0]
    /\ ejected = {}

\* Entry: an empty schedule returns None at once.
Call(p) ==
    /\ pc[p] = "idle"
    /\ calls < MaxCalls
    /\ calls' = calls + 1
    /\ pc' = [pc EXCEPT ![p] = IF L = 0 THEN "none" ELSE "claim"]
    /\ walked' = [walked EXCEPT ![p] = 0]
    /\ steady' = [steady EXCEPT ![p] = {t \in Targets : healthy[t]}]
    /\ taken' = [taken EXCEPT ![p] = {}]
    /\ UNCHANGED <<next, healthy, slot, flips, claims, from, served, ejected>>

(* Mutants of ClaimedSlot: the last slot is never used, or slots count from zero. *)
ClaimedSlotShort(n) == IF L = 1 THEN 1 ELSE (n % (L - 1)) + 1

ClaimedSlotZero(n) == n % L

\* The slot fetch_add hands out when the counter reads n.
ClaimedSlot(n) == (n % L) + 1

\* next.fetch_add(1), wrapping like an AtomicUsize.
Claim(p) ==
    /\ pc[p] = "claim"
    /\ slot' = [slot EXCEPT ![p] = ClaimedSlot(next)]
    /\ next' = (next + 1) % Usize
    /\ pc' = [pc EXCEPT ![p] = "load"]
    /\ walked' = [walked EXCEPT ![p] = @ + 1]
    /\ claims' = claims + 1
    /\ from' = IF walked[p] = 0 THEN [from EXCEPT ![p] = claims] ELSE from
    /\ taken' = [q \in Pickers |-> IF q # p /\ pc[q] \in {"claim", "load"} /\ walked[q] > 0
                                   THEN taken[q] \union {ClaimedSlot(next)}
                                   ELSE taken[q]]
    /\ UNCHANGED <<healthy, calls, flips, steady, served, ejected>>

Found(p) ==
    /\ pc' = [pc EXCEPT ![p] = "some"]
    /\ served' = [served EXCEPT ![Sched[slot[p]]] = @ + 1]

Skipped(p, limit) ==
    /\ pc' = [pc EXCEPT ![p] = IF walked[p] >= limit THEN "none" ELSE "claim"]
    /\ UNCHANGED served

(* Mutants of Load: the pass is one slot short, or waits for the claimed *)
(* target to recover.                                                    *)
LoadShort(p) ==
    /\ pc[p] = "load"
    /\ IF healthy[Sched[slot[p]]] THEN Found(p) ELSE Skipped(p, L - 1)
    /\ UNCHANGED <<next, healthy, walked, slot, calls, flips, claims, from, steady, taken, ejected>>

LoadForever(p) ==
    /\ pc[p] = "load"
    /\ IF healthy[Sched[slot[p]]] THEN Found(p) ELSE pc' = pc /\ UNCHANGED served
    /\ UNCHANGED <<next, healthy, walked, slot, calls, flips, claims, from, steady, taken, ejected>>

\* is_healthy() on the claimed target: return it, or go round again.
Load(p) ==
    /\ pc[p] = "load"
    /\ \/ healthy[Sched[slot[p]]] /\ Found(p)
       \/ ~healthy[Sched[slot[p]]] /\ Skipped(p, L)
    /\ UNCHANGED <<next, healthy, walked, slot, calls, flips, claims, from, steady, taken, ejected>>

\* The caller takes the result; it may call again.
Return(p) ==
    /\ pc[p] \in {"some", "none"}
    /\ pc' = [pc EXCEPT ![p] = "idle"]
    /\ UNCHANGED <<next, healthy, walked, slot, calls, flips, history>>

\* HealthState::observe as pick_target sees it: a flag flips (Health.tla).
SetHealthy(t) ==
    /\ flips < MaxFlips
    /\ flips' = flips + 1
    /\ healthy' = [healthy EXCEPT ![t] = ~@]
    /\ steady' = [p \in Pickers |-> steady[p] \ {t}]
    /\ ejected' = ejected \union {t}
    /\ UNCHANGED <<next, pc, walked, slot, calls, claims, from, taken, served>>

Walk(p) == Claim(p) \/ Load(p)

Next == \/ \E p \in Pickers : Call(p) \/ Walk(p) \/ Return(p)
        \/ \E t \in Targets : SetHealthy(t)

\* A running task is polled again: a walk has no await, so it keeps stepping.
Fairness == \A p \in Pickers : WF_vars(Walk(p))

Spec == Init /\ [][Next]_vars /\ Fairness

-----------------------------------------------------------------------------
TypeOK ==
    /\ next \in 0..(Usize - 1)
    /\ healthy \in [Targets -> BOOLEAN]
    /\ pc \in [Pickers -> {"idle", "claim", "load", "some", "none"}]
    /\ walked \in [Pickers -> 0..L]
    /\ slot \in [Pickers -> Nat \ {0}]
    /\ calls \in 0..MaxCalls
    /\ flips \in 0..MaxFlips
    /\ claims \in Nat
    /\ from \in [Pickers -> Nat]
    /\ steady \in [Pickers -> SUBSET Targets]
    /\ taken \in [Pickers -> SUBSET (1..L)]
    /\ served \in [Targets -> Nat]
    /\ ejected \subseteq Targets

SlotsOf(t) == {n \in 1..L : Sched[n] = t}

\* The counter went through its maximum during the caller's walk.
Wrapped(p) == walked[p] > 0 /\ from[p] \div Usize # (claims - 1) \div Usize

(***************************************************************************)
(* When pick_target returns None although a target was healthy all along,  *)
(* other callers claimed every slot of that target during the walk: the    *)
(* shared counter is the only way a healthy target is missed.  The comment *)
(* (snapshot.rs:118-119), "returns `None` only when every target is        *)
(* unhealthy", is thus true of one caller at a time only.  The walk in     *)
(* which a counter whose range is no multiple of the schedule length wraps *)
(* is excepted: it sees a torn pass.                                       *)
(***************************************************************************)
NoneMeansContended ==
    \A p \in Pickers : \A t \in steady[p] :
        pc[p] = "none" /\ ~Wrapped(p) => SlotsOf(t) \subseteq taken[p]

(***************************************************************************)
(* pick_target's comment: traffic redistributes across the remaining       *)
(* targets in proportion to their weights.  Once no walk is under way and  *)
(* the passes are complete, the targets that stayed healthy have been      *)
(* picked in proportion to their slots, whatever happened to the others.   *)
(***************************************************************************)
ShareFollowsWeights ==
    /\ claims < Usize
    /\ claims % L = 0
    /\ \A p \in Pickers : pc[p] \notin {"claim", "load"}
    => \A t, u \in Targets \ ejected :
          served[t] * Cardinality(SlotsOf(u)) = served[u] * Cardinality(SlotsOf(t))

(***************************************************************************)
(* A walk ends, however the flags flip and whatever the other callers do.  *)
(***************************************************************************)
WalkEnds ==
    \A p \in Pickers : pc[p] = "claim" ~> pc[p] \in {"some", "none"}
=============================================================================
