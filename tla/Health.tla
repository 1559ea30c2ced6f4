------------------------------- MODULE Health -------------------------------
(***************************************************************************)
(* HealthState (crates/gatepup-proxy/src/health.rs): the health of one     *)
(* managed target, observed by the active prober and by every request that *)
(* used the target.  observe() is five separate atomic operations, so      *)
(* observations of opposite outcome interleave; its comment accepts that   *)
(* "counts may race slightly at the boundary".  Atomics are modelled as    *)
(* sequentially consistent.  Counters are compared with a threshold and    *)
(* nothing else, so they saturate at Longest (the u32 would wrap after     *)
(* 2^32 equal observations).                                               *)
(***************************************************************************)
EXTENDS Naturals, FiniteSets

CONSTANTS
    Observers,                              \* tasks that may be in observe()
    managed,                                \* the upstream has an enabled health check
    healthy_threshold, unhealthy_threshold  \* as configured; 0 counts as 1

ASSUME HealthAssumption ==
    managed \in BOOLEAN /\ healthy_threshold \in Nat /\ unhealthy_threshold \in Nat

VARIABLES
    healthy, successes, failures,   \* HealthState's atomics
    checked,    \* last_check_ms # 0
    pc,         \* where each observer is in observe()
    ok,         \* the outcome it reports
    streak,     \* what its fetch_add gave, plus one
    (* History. *)
    run,        \* the run of equal outcomes no opposite observation overlapped
    clean,      \* observers whose observation overlapped no opposite one
    completed,  \* the run of equal outcomes in the order observations ended
    alone,      \* no two observations have overlapped so far
    shown       \* the flag and the run, as they were while alone

atomics == <<healthy, successes, failures, checked>>
history == <<run, clean, completed, alone, shown>>
vars == <<atomics, pc, ok, streak, history>>

\* HealthState::new
AtLeastOne(n) == IF n = 0 THEN 1 ELSE n
HealthyThreshold == AtLeastOne(healthy_threshold)
UnhealthyThreshold == AtLeastOne(unhealthy_threshold)

A == INSTANCE HealthSpec WITH healthy <- shown.healthy, run <- shown.run

Threshold(outcome) == IF outcome THEN HealthyThreshold ELSE UnhealthyThreshold

Saturate(n) == IF n < A!Longest THEN n ELSE A!Longest

Init ==
    /\ healthy = TRUE
    /\ successes = 0
    /\ failures = 0
    /\ checked = FALSE
    /\ pc = [o \in Observers |-> "idle"]
    /\ ok = [o \in Observers |-> TRUE]
    /\ streak = [o \in Observers |-> 0]
    /\ run = [ok |-> TRUE, n |-> 0]
    /\ clean = {}
    /\ completed = [ok |-> TRUE, n |-> 0]
    /\ alone = TRUE
    /\ shown = [healthy |-> TRUE, run |-> completed]

\* An observation starts: a no-op when unmanaged, else last_check_ms.store(now_ms()).
Begin(o, outcome) ==
    LET opposite == {q \in Observers : pc[q] # "idle" /\ ok[q] # outcome}
    IN  /\ managed
        /\ pc[o] = "idle"
        /\ pc' = [pc EXCEPT ![o] = "clear"]
        /\ ok' = [ok EXCEPT ![o] = outcome]
        /\ checked' = TRUE
        /\ run' = IF run.ok = outcome THEN run ELSE [ok |-> outcome, n |-> 0]
        /\ clean' = (clean \ opposite) \union (IF opposite = {} THEN {o} ELSE {})
        /\ alone' = (alone /\ \A q \in Observers : pc[q] = "idle")
        /\ UNCHANGED <<healthy, successes, failures, streak, completed, shown>>

(* Mutants of Clear: the opposite streak survives, or is counted down. *)
ClearNothing(o) ==
    /\ pc[o] = "clear"
    /\ pc' = [pc EXCEPT ![o] = "bump"]
    /\ UNCHANGED <<atomics, ok, streak, history>>

ClearCountsDown(o) ==
    /\ pc[o] = "clear"
    /\ pc' = [pc EXCEPT ![o] = "bump"]
    /\ successes' = IF ok[o] THEN successes ELSE successes - 1
    /\ failures' = IF ok[o] THEN failures - 1 ELSE failures
    /\ UNCHANGED <<healthy, checked, ok, streak, history>>

\* The opposite counter is reset.
Clear(o) ==
    /\ pc[o] = "clear"
    /\ pc' = [pc EXCEPT ![o] = "bump"]
    /\ successes' = IF ok[o] THEN successes ELSE 0
    /\ failures' = IF ok[o] THEN 0 ELSE failures
    /\ UNCHANGED <<healthy, checked, ok, streak, history>>

\* fetch_add(1) + 1 on the counter of this outcome.
Bump(o) ==
    /\ pc[o] = "bump"
    /\ pc' = [pc EXCEPT ![o] = "test"]
    /\ IF ok[o]
       THEN successes' = Saturate(successes + 1) /\ UNCHANGED failures
       ELSE failures' = Saturate(failures + 1) /\ UNCHANGED successes
    /\ streak' = [streak EXCEPT ![o] = IF ok[o] THEN successes' ELSE failures']
    /\ UNCHANGED <<healthy, checked, ok, history>>

\* The observation is over.
End(o) ==
    /\ pc' = [pc EXCEPT ![o] = "idle"]
    /\ run' = IF o \in clean THEN [run EXCEPT !.n = Saturate(@ + 1)] ELSE run
    /\ clean' = clean \ {o}
    /\ completed' = A!Extend(completed, ok[o])
    /\ shown' = IF alone THEN [healthy |-> healthy', run |-> completed'] ELSE shown
    /\ UNCHANGED alone

(* Mutants of Crosses: an off-by-one, and a transition in one direction only. *)
CrossesLate(o) == healthy # ok[o] /\ streak[o] > Threshold(ok[o])
CrossesDownOnly(o) == healthy /\ ~ok[o] /\ streak[o] >= Threshold(ok[o])

\* The flag read and the threshold test guarding the store.
Crosses(o) == healthy # ok[o] /\ streak[o] >= Threshold(ok[o])

Test(o) ==
    /\ pc[o] = "test"
    /\ UNCHANGED <<atomics, ok, streak>>
    /\ \/ Crosses(o) /\ pc' = [pc EXCEPT ![o] = "store"] /\ UNCHANGED history
       \/ ~Crosses(o) /\ End(o)

\* healthy.store(success)
Store(o) ==
    /\ pc[o] = "store"
    /\ healthy' = ok[o]
    /\ End(o)
    /\ UNCHANGED <<successes, failures, checked, ok, streak>>

Step(o) == Clear(o) \/ Bump(o) \/ Test(o) \/ Store(o)

Next == \E o \in Observers : (\E outcome \in BOOLEAN : Begin(o, outcome)) \/ Step(o)

\* observe() has no await: once begun it runs to its end.
Fairness == \A o \in Observers : WF_vars(Step(o))

Spec == Init /\ [][Next]_vars /\ Fairness

-----------------------------------------------------------------------------
TypeOK ==
    /\ healthy \in BOOLEAN
    /\ successes \in 0..A!Longest
    /\ failures \in 0..A!Longest
    /\ checked \in BOOLEAN
    /\ pc \in [Observers -> {"idle", "clear", "bump", "test", "store"}]
    /\ ok \in [Observers -> BOOLEAN]
    /\ streak \in [Observers -> 0..A!Longest]
    /\ run \in [ok : BOOLEAN, n : 0..A!Longest]
    /\ completed \in [ok : BOOLEAN, n : 0..A!Longest]
    /\ clean \in SUBSET {o \in Observers : pc[o] # "idle"}
    /\ alone \in BOOLEAN
    /\ shown \in [healthy : BOOLEAN, run : [ok : BOOLEAN, n : 0..A!Longest]]

(***************************************************************************)
(* Observations may overlap, but once a threshold of equal outcomes has    *)
(* completed without any opposite observation overlapping them, the flag   *)
(* agrees: whatever earlier races left in the counters costs no extra      *)
(* observations, and no two concurrent failures are counted as one.        *)
(***************************************************************************)
StreakDecides == run.n >= Threshold(run.ok) => healthy = run.ok

(***************************************************************************)
(* If from some time on observations keep coming and all succeed, the      *)
(* target is readmitted for good; if they all fail, it is ejected for      *)
(* good.  The prober observes ejected targets too, so observations do keep *)
(* coming.                                                                 *)
(***************************************************************************)
Settles ==
    \A outcome \in BOOLEAN :
        /\ <>[](\A o \in Observers : pc[o] # "idle" => ok[o] = outcome)
        /\ []<>(\E o \in Observers : pc[o] # "idle")
        => <>[](healthy = outcome)

(***************************************************************************)
(* As long as observations do not overlap, observe() implements the        *)
(* indivisible observation of HealthSpec: exactly a threshold of           *)
(* consecutive equal outcomes flips the flag, and nothing else does.       *)
(***************************************************************************)
Refines == A!Spec
=============================================================================
