---------------------------- MODULE Health_proof ----------------------------
(***************************************************************************)
(* Proofs about HealthState::observe, for any number of observers and any  *)
(* thresholds: undisturbed streaks decide whatever raced before them, and  *)
(* observations that do not overlap implement HealthSpec.                  *)
(***************************************************************************)
EXTENDS Health, FiniteSetTheorems, TLAPS

LEMMA ThresholdFacts ==
    /\ HealthyThreshold \in Nat \ {0} /\ UnhealthyThreshold \in Nat \ {0}
    /\ A!Longest \in Nat \ {0}
    /\ \A b \in BOOLEAN : Threshold(b) \in 1..A!Longest
BY HealthAssumption
DEF HealthyThreshold, UnhealthyThreshold, AtLeastOne, A!Longest, Threshold

Length == 0..A!Longest
Run == [ok : BOOLEAN, n : Length]

LEMMA SaturateFacts ==
    ASSUME NEW n \in Length
    PROVE  /\ Saturate(n + 1) \in Length
           /\ Saturate(n + 1) >= n /\ Saturate(n + 1) >= 1
           /\ n < A!Longest => Saturate(n + 1) = n + 1
           /\ n = A!Longest => Saturate(n + 1) = n
BY ThresholdFacts DEF Saturate, Length

\* One more observation of a run: it goes on, or starts anew.
LEMMA ExtendFacts ==
    ASSUME NEW r \in Run, NEW b \in BOOLEAN
    PROVE  /\ A!Extend(r, b) \in Run
           /\ A!Extend(r, b).ok = b
           /\ A!Extend(r, b).n = IF r.ok = b THEN Saturate(r.n + 1) ELSE 1
           /\ A!Decides(A!Extend(r, b)) <=> A!Extend(r, b).n >= Threshold(b)
<1> DEFINE n == IF r.ok # b THEN 1 ELSE IF r.n < A!Longest THEN r.n + 1 ELSE A!Longest
<1>1. A!Extend(r, b) = [ok |-> b, n |-> n]
    BY DEF A!Extend
<1>2. n = IF r.ok = b THEN Saturate(r.n + 1) ELSE 1
    BY SaturateFacts, ThresholdFacts DEF Run, Length
<1>3. n \in Length
    BY <1>2, SaturateFacts, ThresholdFacts DEF Run, Length
<1> HIDE DEF n
<1>4. A!Extend(r, b) \in Run /\ A!Extend(r, b).ok = b /\ A!Extend(r, b).n = n
    BY <1>1, <1>3 DEF Run
<1> QED BY <1>2, <1>4 DEF A!Decides, Threshold

-----------------------------------------------------------------------------
LEMMA TypeInit == Init => TypeOK
<1> SUFFICES ASSUME Init PROVE TypeOK
    OBVIOUS
<1>1. [ok |-> TRUE, n |-> 0] \in [ok : BOOLEAN, n : 0..A!Longest]
    BY ThresholdFacts
<1>2. shown \in [healthy : BOOLEAN, run : [ok : BOOLEAN, n : 0..A!Longest]]
    BY <1>1 DEF Init
<1>3. healthy \in BOOLEAN /\ checked \in BOOLEAN /\ alone \in BOOLEAN /\ ok \in [Observers -> BOOLEAN]
    BY Zenon DEF Init
<1> QED BY <1>1, <1>2, <1>3, ThresholdFacts DEF Init, TypeOK

LEMMA EndType ==
    ASSUME TypeOK, NEW o \in Observers, End(o), healthy' \in BOOLEAN
    PROVE  /\ pc' \in [Observers -> {"idle", "clear", "bump", "test", "store"}]
           /\ run' \in Run /\ completed' \in Run
           /\ clean' \in SUBSET {q \in Observers : pc'[q] # "idle"}
           /\ alone' \in BOOLEAN
           /\ shown' \in [healthy : BOOLEAN, run : Run]
<1> USE DEF TypeOK, End
<1>1. run.n \in Length /\ completed \in Run
    BY DEF Length, Run
<1>2. run' \in Run
    BY <1>1, SaturateFacts DEF Run, Length
<1>3. completed' \in Run
    BY <1>1, ExtendFacts
<1>4. shown' \in [healthy : BOOLEAN, run : Run]
    BY <1>3 DEF Run, Length
<1> QED BY <1>2, <1>3, <1>4

LEMMA TypeStep == TypeOK /\ [Next]_vars => TypeOK'
<1> SUFFICES ASSUME TypeOK, [Next]_vars PROVE TypeOK'
    OBVIOUS
<1> USE ThresholdFacts DEF TypeOK, atomics, history
<1>1. ASSUME NEW o \in Observers, NEW outcome \in BOOLEAN, Begin(o, outcome) PROVE TypeOK'
    BY <1>1 DEF Begin
<1>2. ASSUME NEW o \in Observers, Clear(o) PROVE TypeOK'
    BY <1>2 DEF Clear
<1>3. ASSUME NEW o \in Observers, Bump(o) PROVE TypeOK'
    BY <1>3, SaturateFacts DEF Bump, Length
<1>4. ASSUME NEW o \in Observers, Test(o) PROVE TypeOK'
    <2>1. CASE Crosses(o) BY <1>4, <2>1 DEF Test
    <2>2. CASE ~Crosses(o) BY <1>4, <2>2, EndType DEF Test, Run, Length
    <2> QED BY <1>4, <2>1, <2>2 DEF Test
<1>5. ASSUME NEW o \in Observers, Store(o) PROVE TypeOK'
    BY <1>5, EndType DEF Store, Run, Length
<1>6. CASE UNCHANGED vars BY <1>6 DEF vars
<1> QED BY <1>1, <1>2, <1>3, <1>4, <1>5, <1>6 DEF Next, Step

(***************************************************************************)
(* HealthState is type correct for any thresholds, with 0 raised to 1.     *)
(***************************************************************************)
THEOREM TypeCorrect == Spec => []TypeOK
<1> QED BY TypeInit, TypeStep, PTL DEF Spec

-----------------------------------------------------------------------------
(* StreakDecides.  `clean` and `run` speak of observations that overlapped *)
(* no opposite one.  While there are any, nobody resets the counter of     *)
(* their outcome and nobody else stores the flag.                          *)

Active == {o \in Observers : pc[o] # "idle"}

Undisturbed ==
    /\ \A o \in clean : ok[o] = run.ok
    /\ clean # {} \/ run.n > 0 => \A q \in Active : ok[q] = run.ok
    /\ IsFiniteSet(clean)

\* The counter of the run's outcome.
Counter == IF run.ok THEN successes ELSE failures

\* Clean observers that were handed a number below the threshold.
Low == {o \in clean : pc[o] = "test" /\ streak[o] < Threshold(run.ok)}

(* fetch_add hands every number out once.  So as long as the flag differs, *)
(* those who have ended and those about to had different numbers below the *)
(* threshold, and there are only so many.                                  *)
Numbered ==
    healthy # run.ok =>
        /\ run.n + Cardinality(Low) <= Counter
        /\ run.n + Cardinality(Low) < Threshold(run.ok)

LEMMA LowFinite == Undisturbed => IsFiniteSet(Low) /\ Cardinality(Low) \in Nat
<1>1. Low \subseteq clean
    BY DEF Low
<1> QED BY <1>1, FS_Subset, FS_CardinalityType DEF Undisturbed

LEMMA UndisturbedStep == TypeOK /\ Undisturbed /\ [Next]_vars => Undisturbed'
<1> SUFFICES ASSUME TypeOK, Undisturbed, [Next]_vars PROVE Undisturbed'
    OBVIOUS
<1> USE ThresholdFacts DEF TypeOK, atomics, history, Active
<1>1. ASSUME NEW o \in Observers, NEW outcome \in BOOLEAN, Begin(o, outcome) PROVE Undisturbed'
    <2> DEFINE opposite == {q \in Observers : pc[q] # "idle" /\ ok[q] # outcome}
    <2>1. clean' = (clean \ opposite) \union (IF opposite = {} THEN {o} ELSE {})
        BY <1>1 DEF Begin
    <2>2. IsFiniteSet(clean')
        <3>1. IsFiniteSet(clean \ opposite)
            BY FS_Subset DEF Undisturbed
        <3>2. IsFiniteSet((clean \ opposite) \union {o})
            BY <3>1, FS_AddElement
        <3>3. clean' \subseteq (clean \ opposite) \union {o}
            BY <2>1
        <3> QED BY <3>2, <3>3, FS_Subset
    <2>3. run'.ok = outcome /\ (run.ok # outcome => run'.n = 0) /\ (run.ok = outcome => run' = run)
        BY <1>1 DEF Begin
    <2>4. ok' = [ok EXCEPT ![o] = outcome] /\ pc' = [pc EXCEPT ![o] = "clear"] /\ pc[o] = "idle"
        BY <1>1 DEF Begin
    <2>5. \A q \in clean' : ok'[q] = run'.ok
        BY <2>1, <2>3, <2>4
    <2>6. CASE run.ok = outcome
        BY <2>1, <2>2, <2>3, <2>4, <2>5, <2>6 DEF Undisturbed
    <2>7. CASE run.ok # outcome
        BY <2>1, <2>2, <2>3, <2>4, <2>5, <2>7 DEF Undisturbed
    <2> QED BY <2>6, <2>7
<1>2. ASSUME NEW o \in Observers, Clear(o) PROVE Undisturbed'
    BY <1>2 DEF Clear, Undisturbed
<1>3. ASSUME NEW o \in Observers, Bump(o) PROVE Undisturbed'
    BY <1>3 DEF Bump, Undisturbed
<1>4. ASSUME NEW o \in Observers, End(o), pc[o] # "idle", UNCHANGED ok PROVE Undisturbed'
    <2>1. IsFiniteSet(clean')
        BY <1>4, FS_Subset DEF End, Undisturbed
    <2>2. run'.ok = run.ok /\ (o \notin clean => run' = run)
        BY <1>4 DEF End
    <2>3. clean' = clean \ {o} /\ Active' \subseteq Active
        BY <1>4 DEF End
    <2> QED BY <1>4, <2>1, <2>2, <2>3 DEF Undisturbed
<1>5. ASSUME NEW o \in Observers, Test(o) PROVE Undisturbed'
    <2>1. CASE Crosses(o) BY <1>5, <2>1 DEF Test, Undisturbed
    <2>2. CASE ~Crosses(o) BY <1>4, <1>5, <2>2 DEF Test
    <2> QED BY <2>1, <2>2
<1>6. ASSUME NEW o \in Observers, Store(o) PROVE Undisturbed'
    BY <1>4, <1>6 DEF Store
<1>7. CASE UNCHANGED vars BY <1>7 DEF vars, Undisturbed
<1> QED BY <1>1, <1>2, <1>3, <1>5, <1>6, <1>7 DEF Next, Step

\* A step after which nobody clean is waiting or has completed has nothing to show.
LEMMA NothingNumbered ==
    ASSUME TypeOK', clean' = {} \/ Low' = {}, run'.n = 0
    PROVE  Numbered'
<1>1. Low' = {}
    BY DEF Low
<1>2. Cardinality(Low') = 0
    BY <1>1, FS_EmptySet
<1>3. Counter' \in Nat /\ Threshold(run'.ok) \in Nat \ {0}
    BY ThresholdFacts DEF TypeOK, Counter
<1> QED BY <1>2, <1>3 DEF Numbered

LEMMA NumberedStep ==
    TypeOK /\ TypeOK' /\ Undisturbed /\ Numbered /\ [Next]_vars => Numbered'
<1> SUFFICES ASSUME TypeOK, TypeOK', Undisturbed, Numbered, [Next]_vars PROVE Numbered'
    OBVIOUS
<1> DEFINE T == Threshold(run.ok)
<1> USE ThresholdFacts DEF atomics, history
<1>a. Counter \in Length /\ T \in 1..A!Longest /\ run.n \in Length /\ run.ok \in BOOLEAN
    BY DEF TypeOK, Counter, Length
<1>b. IsFiniteSet(Low) /\ Cardinality(Low) \in Nat
    BY LowFinite
<1>c. ASSUME NEW o \in Active, ok[o] # run.ok PROVE clean = {} /\ run.n = 0
    BY <1>a, <1>c DEF Undisturbed, Length
<1>1. ASSUME NEW o \in Observers, NEW outcome \in BOOLEAN, Begin(o, outcome) PROVE Numbered'
    <2>1. pc[o] = "idle" /\ pc' = [pc EXCEPT ![o] = "clear"] /\ UNCHANGED <<streak, successes, failures, healthy>>
        BY <1>1 DEF Begin
    <2>2. clean \subseteq Active
        BY DEF TypeOK, Active
    <2>3. CASE run.ok = outcome
        <3>1. run' = run
            BY <1>1, <2>3 DEF Begin
        <3>2. clean' \ {o} = clean \ {o}
            BY <1>1, <2>2, <2>3 DEF Begin, Undisturbed
        <3>3. Low' = Low
            BY <2>1, <2>2, <3>1, <3>2 DEF Low, TypeOK, Active
        <3> QED BY <2>1, <3>1, <3>3 DEF Numbered, Counter
    <2>4. CASE run.ok # outcome
        <3>1. run'.n = 0
            BY <1>1, <2>4 DEF Begin
        <3>2. clean' \subseteq {o}
            BY <1>1, <2>2, <2>4 DEF Begin, Undisturbed, Active
        <3>3. Low' = {}
            BY <2>1, <3>2 DEF Low, TypeOK
        <3> QED BY <3>1, <3>3, NothingNumbered
    <2> QED BY <2>3, <2>4
<1>2. ASSUME NEW o \in Observers, Clear(o) PROVE Numbered'
    <2>1. Low' = Low
        BY <1>2 DEF Clear, Low, TypeOK
    <2>2. CASE ok[o] = run.ok
        BY <1>2, <2>1, <2>2 DEF Clear, Numbered, Counter
    <2>3. CASE ok[o] # run.ok
        <3>1. clean' = {} /\ run'.n = 0
            BY <1>2, <1>c, <2>3 DEF Clear, Active
        <3> QED BY <3>1, NothingNumbered
    <2> QED BY <2>2, <2>3
<1>3. ASSUME NEW o \in Observers, Bump(o) PROVE Numbered'
    <2>1. pc[o] = "bump" /\ pc' = [pc EXCEPT ![o] = "test"] /\ UNCHANGED <<run, clean, healthy>>
        BY <1>3 DEF Bump
    <2>2. CASE ok[o] # run.ok
        <3>1. clean' = {} /\ run'.n = 0
            BY <2>1, <1>c, <2>2 DEF Active
        <3> QED BY <3>1, NothingNumbered
    <2>3. CASE ok[o] = run.ok
        <3>1. Counter' = Saturate(Counter + 1) /\ streak' = [streak EXCEPT ![o] = Counter']
            BY <1>3, <2>3, <1>a DEF Bump, Counter
        <3>2. CASE o \in clean /\ Counter' < T
            <4>1. Low' = Low \union {o} /\ o \notin Low
                BY <2>1, <3>1, <3>2 DEF Low, TypeOK
            <4>2. Cardinality(Low') = Cardinality(Low) + 1
                BY <4>1, <1>b, FS_AddElement
            <4>3. Counter' = Counter + 1
                BY <3>1, <3>2, <1>a, SaturateFacts DEF Length
            <4> QED BY <2>1, <3>2, <4>2, <4>3, <1>a, <1>b DEF Numbered, Length
        <3>3. CASE ~(o \in clean /\ Counter' < T)
            <4>1. Low' = Low
                BY <2>1, <3>1, <3>3 DEF Low, TypeOK
            <4>2. Counter' >= Counter /\ Counter' \in Nat
                BY <3>1, <1>a, SaturateFacts DEF Length
            <4> QED BY <2>1, <4>1, <4>2, <1>a, <1>b DEF Numbered, Length
        <3> QED BY <3>2, <3>3
    <2> QED BY <2>2, <2>3
<1>4. ASSUME NEW o \in Observers, Test(o) PROVE Numbered'
    <2>1. CASE Crosses(o)
        <3>1. o \in Low => FALSE
            BY <2>1 DEF Low, Crosses, Undisturbed, TypeOK
        <3>2. Low' = Low
            BY <1>4, <2>1, <3>1 DEF Test, Low, TypeOK
        <3> QED BY <1>4, <2>1, <3>2 DEF Test, Numbered, Counter
    <2>2. CASE ~Crosses(o) /\ o \in clean
        <3>1. SUFFICES ASSUME healthy' # run'.ok
                       PROVE  /\ run'.n + Cardinality(Low') <= Counter'
                              /\ run'.n + Cardinality(Low') < Threshold(run'.ok)
            BY DEF Numbered
        <3>2. run'.ok = run.ok /\ run'.n = Saturate(run.n + 1) /\ clean' = clean \ {o}
              /\ pc' = [pc EXCEPT ![o] = "idle"] /\ pc[o] = "test"
              /\ UNCHANGED <<healthy, successes, failures, streak>>
            BY <1>4, <2>2 DEF Test, End, TypeOK
        <3>3. o \in Low
            BY <2>2, <3>1, <3>2 DEF Low, Crosses, Undisturbed, TypeOK
        <3>4. Low' = Low \ {o}
            BY <3>2 DEF Low, TypeOK
        <3>5. Cardinality(Low') = Cardinality(Low) - 1
            BY <3>3, <3>4, <1>b, FS_RemoveElement
        <3>6. run.n + Cardinality(Low) <= Counter /\ run.n + Cardinality(Low) < T
            BY <3>1, <3>2 DEF Numbered
        <3>7. run'.n = run.n + 1
            BY <3>2, <3>6, <1>a, <1>b, SaturateFacts DEF Length
        <3> QED BY <3>2, <3>5, <3>6, <3>7, <1>a, <1>b DEF Counter, Length
    <2>3. CASE ~Crosses(o) /\ o \notin clean
        <3>1. run' = run /\ clean' = clean /\ pc' = [pc EXCEPT ![o] = "idle"]
              /\ UNCHANGED <<healthy, successes, failures, streak>>
            BY <1>4, <2>3 DEF Test, End
        <3>2. Low' = Low
            BY <2>3, <3>1 DEF Low, TypeOK
        <3> QED BY <3>1, <3>2 DEF Numbered, Counter
    <2> QED BY <2>1, <2>2, <2>3
<1>5. ASSUME NEW o \in Observers, Store(o) PROVE Numbered'
    <2>1. run'.ok = run.ok /\ healthy' = ok[o]
        BY <1>5 DEF Store, End, TypeOK
    <2>2. CASE ok[o] = run.ok BY <2>1, <2>2 DEF Numbered
    <2>3. CASE ok[o] # run.ok
        <3>1. clean = {} /\ run.n = 0
            BY <1>5, <1>c, <2>3 DEF Store, Active
        <3>2. clean' = {} /\ run'.n = 0
            BY <1>5, <3>1 DEF Store, End
        <3> QED BY <3>2, NothingNumbered
    <2> QED BY <2>2, <2>3
<1>6. CASE UNCHANGED vars BY <1>6 DEF vars, Numbered, Counter, Low
<1> QED BY <1>1, <1>2, <1>3, <1>4, <1>5, <1>6 DEF Next, Step

(***************************************************************************)
(* Once a threshold of equal outcomes has completed with no opposite one   *)
(* overlapping them, the flag agrees: for any number of observers inside   *)
(* observe() at once and whatever earlier races left in the counters.      *)
(***************************************************************************)
THEOREM StreaksDecide == Spec => []StreakDecides
<1> DEFINE Inv == TypeOK /\ Undisturbed /\ Numbered
<1>1. Init => Inv
    <2> SUFFICES ASSUME Init PROVE Undisturbed /\ Numbered
        BY TypeInit
    <2>1. clean = {} /\ run.n = 0 /\ healthy = run.ok
        BY DEF Init
    <2>2. \A q \in Active : FALSE
        BY DEF Init, Active
    <2> QED BY <2>1, <2>2, FS_EmptySet DEF Undisturbed, Numbered
<1>2. Inv /\ [Next]_vars => Inv'
    BY TypeStep, UndisturbedStep, NumberedStep
<1>3. Inv => StreakDecides
    <2> SUFFICES ASSUME Inv, healthy # run.ok PROVE ~(run.n >= Threshold(run.ok))
        BY DEF StreakDecides
    <2>1. run.n \in Nat /\ Threshold(run.ok) \in Nat
        BY ThresholdFacts DEF TypeOK
    <2> QED BY <2>1, LowFinite DEF Numbered
<1> QED BY <1>1, <1>2, <1>3, PTL DEF Spec

-----------------------------------------------------------------------------
(* The refinement of HealthSpec.  As long as no two observations have      *)
(* overlapped, the counters are the run of completed outcomes, up to what  *)
(* the one observer under way has already done.                            *)

Own(b) == IF b THEN successes ELSE failures
Prior(b) == IF completed.ok = b THEN completed.n ELSE 0

AtPc(o) ==
    /\ pc[o] = "clear" => \A b \in BOOLEAN : Own(b) = Prior(b)
    /\ pc[o] = "bump" => Own(ok[o]) = Prior(ok[o]) /\ Own(~ok[o]) = 0
    /\ pc[o] \in {"test", "store"} =>
          /\ streak[o] = A!Extend(completed, ok[o]).n
          /\ Own(ok[o]) = streak[o] /\ Own(~ok[o]) = 0
    /\ pc[o] = "store" => Crosses(o)

Solo ==
    alone =>
        /\ \A p, q \in Active : p = q
        /\ shown = [healthy |-> healthy, run |-> completed]
        /\ Active = {} => \A b \in BOOLEAN : Own(b) = Prior(b)
        /\ \A o \in Active : AtPc(o)

\* What the end of an observation shows, and leaves behind.
LEMMA EndFacts ==
    ASSUME TypeOK, Solo, alone, NEW o \in Active, pc[o] \in {"test", "store"},
           End(o), UNCHANGED <<successes, failures>>
    PROVE  /\ Active' = {} /\ alone'
           /\ shown' = [healthy |-> healthy', run |-> completed']
           /\ completed' = A!Extend(shown.run, ok[o])
           /\ \A b \in BOOLEAN : Own(b)' = Prior(b)'
<1>1. Active' = {} /\ alone' /\ shown' = [healthy |-> healthy', run |-> completed']
    BY DEF End, Active, TypeOK, Solo
<1>2. completed' = A!Extend(completed, ok[o]) /\ shown.run = completed
    BY DEF End, Solo
<1>3. completed \in Run /\ ok[o] \in BOOLEAN
    BY DEF TypeOK, Run, Length, Active
<1>4. completed'.ok = ok[o] /\ completed'.n = streak[o]
    BY <1>2, <1>3, ExtendFacts DEF Solo, AtPc
<1>5. Own(ok[o]) = streak[o] /\ Own(~ok[o]) = 0
    BY DEF Solo, AtPc
<1>6. ASSUME NEW b \in BOOLEAN PROVE Own(b)' = Prior(b)'
    <2>1. CASE b = ok[o] BY <1>4, <1>5, <2>1 DEF Own, Prior
    <2>2. CASE b = ~ok[o] BY <1>3, <1>4, <1>5, <2>2 DEF Own, Prior
    <2> QED BY <1>3, <2>1, <2>2
<1> QED BY <1>1, <1>2, <1>6

LEMMA SoloStep == TypeOK /\ Solo /\ [Next]_vars => Solo'
<1> SUFFICES ASSUME TypeOK, Solo, [Next]_vars, alone' PROVE Solo'
    BY DEF Solo
<1> USE DEF atomics, history
<1>1. ASSUME NEW o \in Observers, NEW outcome \in BOOLEAN, Begin(o, outcome) PROVE Solo'
    <2>1. alone /\ Active = {} /\ Active' = {o} /\ pc'[o] = "clear"
        <3>1. alone /\ \A q \in Observers : pc[q] = "idle"
            BY <1>1, Zenon DEF Begin
        <3>2. pc' = [pc EXCEPT ![o] = "clear"]
            BY <1>1 DEF Begin
        <3> QED BY <3>1, <3>2 DEF Active, TypeOK
    <2>2. UNCHANGED <<healthy, successes, failures, completed, shown>>
        BY <1>1 DEF Begin
    <2>3. \A b \in BOOLEAN : Own(b)' = Prior(b)'
        BY <2>1, <2>2 DEF Solo, Own, Prior
    <2>4. AtPc(o)'
        BY <2>1, <2>3 DEF AtPc
    <2> QED BY <2>1, <2>2, <2>4 DEF Solo
<1>2. ASSUME NEW o \in Observers, Clear(o) PROVE Solo'
    <2>1. alone /\ Active = {o} /\ Active' = {o} /\ pc[o] = "clear" /\ pc'[o] = "bump"
        BY <1>2 DEF Clear, Active, TypeOK, Solo
    <2>2. UNCHANGED <<healthy, ok, completed, shown>>
        BY <1>2 DEF Clear
    <2>3. Own(ok[o])' = Prior(ok[o])' /\ Own(~ok[o])' = 0
        <3>1. ok[o] \in BOOLEAN /\ Own(ok[o]) = Prior(ok[o])
            BY <2>1 DEF Solo, AtPc, TypeOK
        <3>2. Own(ok[o])' = Own(ok[o]) /\ Own(~ok[o])' = 0
            BY <1>2, <2>2, <3>1 DEF Clear, Own
        <3> QED BY <2>2, <3>1, <3>2 DEF Prior
    <2>4. AtPc(o)'
        BY <2>1, <2>3 DEF AtPc
    <2> QED BY <2>1, <2>2, <2>4 DEF Solo
<1>3. ASSUME NEW o \in Observers, Bump(o) PROVE Solo'
    <2>1. alone /\ Active = {o} /\ Active' = {o} /\ pc[o] = "bump" /\ pc'[o] = "test"
        BY <1>3 DEF Bump, Active, TypeOK, Solo
    <2>2. UNCHANGED <<healthy, ok, completed, shown>>
        BY <1>3 DEF Bump
    <2>3. ok[o] \in BOOLEAN /\ completed \in Run /\ completed.n \in Length
        BY DEF TypeOK, Run, Length
    <2>4. Own(ok[o]) = Prior(ok[o]) /\ Own(~ok[o]) = 0
        BY <2>1 DEF Solo, AtPc
    <2>5. Own(ok[o])' = Saturate(Own(ok[o]) + 1) /\ streak'[o] = Own(ok[o])' /\ Own(~ok[o])' = 0
        BY <1>3, <2>3, <2>4 DEF Bump, Own, TypeOK
    <2>6. Saturate(0 + 1) = 1
        BY SaturateFacts, ThresholdFacts DEF Length
    <2>7. streak'[o] = A!Extend(completed, ok[o]).n
        BY <2>3, <2>4, <2>5, <2>6, ExtendFacts DEF Prior
    <2>8. AtPc(o)'
        BY <2>1, <2>2, <2>5, <2>7 DEF AtPc
    <2> QED BY <2>1, <2>2, <2>8 DEF Solo
<1>4. ASSUME NEW o \in Observers, Test(o), Crosses(o) PROVE Solo'
    <2>1. alone /\ Active = {o} /\ Active' = {o} /\ pc[o] = "test" /\ pc'[o] = "store"
        <3>1. alone /\ pc[o] = "test" /\ pc' = [pc EXCEPT ![o] = "store"]
            BY <1>4 DEF Test
        <3>2. Active = {o}
            BY <3>1 DEF Solo, Active
        <3> QED BY <3>1, <3>2 DEF Active, TypeOK
    <2>2. UNCHANGED <<healthy, successes, failures, streak, ok, completed, shown>>
        BY <1>4 DEF Test
    <2>3. AtPc(o) /\ Crosses(o)' /\ \A b \in BOOLEAN : Own(b)' = Own(b)
        BY <1>4, <2>1, <2>2 DEF Solo, Own, Crosses
    <2>4. ok[o] \in BOOLEAN
        BY DEF TypeOK
    <2>5. AtPc(o)'
        BY <2>1, <2>2, <2>3, <2>4 DEF AtPc
    <2> QED BY <2>1, <2>2, <2>5 DEF Solo
<1>5. ASSUME NEW o \in Observers, End(o), pc[o] \in {"test", "store"}, UNCHANGED <<successes, failures>>
      PROVE  Solo'
    <2>1. alone /\ o \in Active
        BY <1>5 DEF End, Active
    <2> QED BY <1>5, <2>1, EndFacts DEF Solo
<1>6. ASSUME NEW o \in Observers, Test(o), ~Crosses(o) PROVE Solo'
    BY <1>5, <1>6 DEF Test
<1>7. ASSUME NEW o \in Observers, Store(o) PROVE Solo'
    BY <1>5, <1>7 DEF Store
<1>8. CASE UNCHANGED vars
    <2>1. Active' = Active
        BY <1>8 DEF vars, Active
    <2> QED BY <1>8, <2>1 DEF vars, Solo, AtPc, Own, Prior, Crosses
<1> QED BY <1>1, <1>2, <1>3, <1>4, <1>6, <1>7, <1>8 DEF Next, Step

LEMMA RefinesStep ==
    TypeOK /\ Solo /\ [Next]_vars => [A!Next]_<<shown.healthy, shown.run>>
<1> SUFFICES ASSUME TypeOK, Solo, [Next]_vars, shown' # shown
             PROVE  A!Next
    OBVIOUS
<1>1. PICK o \in Observers : End(o) /\ (Test(o) \/ Store(o))
    BY DEF Next, Step, Begin, Clear, Bump, Test, Store, vars, history
<1>2. alone /\ o \in Active /\ pc[o] \in {"test", "store"} /\ UNCHANGED <<successes, failures>>
    BY <1>1 DEF End, Test, Store, Active, atomics
<1>3. ok[o] \in BOOLEAN /\ completed \in Run /\ healthy \in BOOLEAN
    BY DEF TypeOK, Run, Length
<1>4. shown' = [healthy |-> healthy', run |-> completed'] /\ completed' = A!Extend(shown.run, ok[o])
    BY <1>1, <1>2, EndFacts
<1>5. shown = [healthy |-> healthy, run |-> completed] /\ streak[o] = A!Extend(completed, ok[o]).n
    BY <1>2 DEF Solo, AtPc
<1>6. A!Decides(A!Extend(completed, ok[o])) <=> streak[o] >= Threshold(ok[o])
    BY <1>3, <1>5, ExtendFacts
<1>7. healthy' = IF A!Decides(A!Extend(completed, ok[o])) THEN ok[o] ELSE healthy
    <2>1. CASE Test(o) /\ ~Crosses(o)
        BY <1>3, <1>6, <2>1 DEF Test, Crosses, atomics
    <2>2. CASE Store(o)
        <3>1. Crosses(o)
            BY <1>2, <2>2 DEF Store, Solo, AtPc
        <3> QED BY <1>6, <2>2, <3>1 DEF Store, Crosses
    <2>3. CASE Test(o) /\ Crosses(o)
        BY <1>1, <2>3 DEF Test, End, TypeOK
    <2> QED BY <1>1, <2>1, <2>2, <2>3
<1>8. A!Observe(ok[o])
    BY <1>4, <1>5, <1>7 DEF A!Observe
<1> QED BY <1>3, <1>8 DEF A!Next

(***************************************************************************)
(* As long as observations do not overlap, observe() with its separate     *)
(* atomics implements the indivisible observation of HealthSpec, for any   *)
(* observers and thresholds.                                               *)
(***************************************************************************)
THEOREM ObserveRefines == Spec => Refines
<1>1. Init => Solo /\ A!Init
    <2> SUFFICES ASSUME Init PROVE Solo /\ A!Init
        OBVIOUS
    <2>1. Active = {} /\ shown = [healthy |-> healthy, run |-> completed]
        BY DEF Init, Active
    <2>2. \A b \in BOOLEAN : Own(b) = Prior(b)
        BY DEF Init, Own, Prior
    <2>3. shown.healthy = TRUE /\ shown.run = [ok |-> TRUE, n |-> 0]
        BY DEF Init
    <2> QED BY <2>1, <2>2, <2>3 DEF Solo, A!Init
<1>2. TypeOK /\ Solo /\ [Next]_vars => Solo'
    BY SoloStep
<1>3. TypeOK /\ Solo /\ [Next]_vars => [A!Next]_<<shown.healthy, shown.run>>
    BY RefinesStep
<1> QED BY <1>1, <1>2, <1>3, TypeCorrect, PTL DEF Spec, Refines, A!Spec
=============================================================================
