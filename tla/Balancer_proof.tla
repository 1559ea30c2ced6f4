--------------------------- MODULE Balancer_proof ---------------------------
(***************************************************************************)
(* Proofs about pick_target at the grain of its atomics, for any schedule, *)
(* any number of concurrent callers, any width of the counter and any      *)
(* changes of health.                                                      *)
(***************************************************************************)
EXTENDS Balancer, NumberLemmas, FiniteSetTheorems, TLAPS

LEMMA Constants ==
    /\ L \in Nat /\ Usize \in Nat \ {0} /\ MaxCalls \in Nat /\ MaxFlips \in Nat
    /\ \A k \in 1..L : Sched[k] \in Targets
BY BalancerAssumption DEF L

(* Where the callers are: the counter is the number of claims, wrapped; a  *)
(* caller about to claim has slots left, one that claimed holds a slot.    *)
Positions ==
    /\ next = claims % Usize
    /\ \A p \in Pickers :
          /\ pc[p] = "claim" => walked[p] < L
          /\ pc[p] = "load" => walked[p] > 0 /\ slot[p] \in 1..L
          /\ pc[p] = "none" => walked[p] = L

BaseInv == TypeOK /\ Positions

LEMMA ClaimedSlotType == ASSUME NEW n \in Nat, L # 0 PROVE ClaimedSlot(n) \in 1..L
BY Constants, DivMod DEF ClaimedSlot

LEMMA BaseInit == Init => BaseInv
<1> SUFFICES ASSUME Init PROVE BaseInv
    OBVIOUS
<1>1. 0 % Usize = 0
    BY Constants, Small
<1>2. healthy \in [Targets -> BOOLEAN]
    BY Zenon DEF Init
<1> QED BY <1>1, <1>2, Constants DEF Init, BaseInv, TypeOK, Positions

LEMMA BaseStep == BaseInv /\ [Next]_vars => BaseInv'
<1> SUFFICES ASSUME BaseInv, [Next]_vars PROVE BaseInv'
    OBVIOUS
<1> USE Constants DEF BaseInv, TypeOK, Positions, history
<1>1. ASSUME NEW p \in Pickers, Call(p) PROVE BaseInv'
    BY <1>1 DEF Call
<1>2. ASSUME NEW p \in Pickers, Claim(p) PROVE BaseInv'
    <2>1. L # 0 /\ walked[p] < L
        BY <1>2 DEF Claim
    <2>2. ClaimedSlot(next) \in 1..L
        BY <2>1, ClaimedSlotType
    <2>3. next' = claims' % Usize
        BY <1>2, NextMod DEF Claim
    <2>4. claims' \in Nat /\ next' \in 0..(Usize - 1)
        BY <1>2, <2>3, DivMod DEF Claim
    <2>5. walked' \in [Pickers -> 0..L] /\ slot' \in [Pickers -> Nat \ {0}]
        BY <1>2, <2>1, <2>2 DEF Claim
    <2>6. taken' \in [Pickers -> SUBSET (1..L)] /\ from' \in [Pickers -> Nat]
        BY <1>2, <2>2 DEF Claim
    <2>7. pc' \in [Pickers -> {"idle", "claim", "load", "some", "none"}]
          /\ UNCHANGED <<healthy, calls, flips, steady, served, ejected>>
        BY <1>2 DEF Claim
    <2>8. TypeOK'
        BY <2>4, <2>5, <2>6, <2>7
    <2>9. ASSUME NEW q \in Pickers
          PROVE  /\ pc'[q] = "claim" => walked'[q] < L
                 /\ pc'[q] = "load" => walked'[q] > 0 /\ slot'[q] \in 1..L
                 /\ pc'[q] = "none" => walked'[q] = L
        BY <1>2, <2>1, <2>2 DEF Claim
    <2> QED BY <2>3, <2>8, <2>9
<1>3. ASSUME NEW p \in Pickers, Load(p) PROVE BaseInv'
    <2>1. CASE Found(p)
        <3>1. Sched[slot[p]] \in Targets
            BY <1>3 DEF Load
        <3> QED BY <1>3, <2>1, <3>1 DEF Load, Found
    <2>2. CASE Skipped(p, L)
        <3>1. pc' = [pc EXCEPT ![p] = IF walked[p] >= L THEN "none" ELSE "claim"]
              /\ UNCHANGED <<next, healthy, walked, slot, calls, flips, claims, from, steady, taken,
                             served, ejected>>
            BY <1>3, <2>2 DEF Load, Skipped
        <3>2. Positions'
            BY <3>1
        <3>3. TypeOK'
            BY <3>1
        <3> QED BY <3>2, <3>3
    <2> QED BY <1>3, <2>1, <2>2 DEF Load
<1>4. ASSUME NEW p \in Pickers, Return(p) PROVE BaseInv'
    BY <1>4 DEF Return
<1>5. ASSUME NEW t \in Targets, SetHealthy(t) PROVE BaseInv'
    BY <1>5 DEF SetHealthy
<1>6. CASE UNCHANGED vars BY <1>6 DEF vars, code
<1> QED BY <1>1, <1>2, <1>3, <1>4, <1>5, <1>6 DEF Next, Walk

LEMMA BaseInvariant == Spec => []BaseInv
<1> QED BY BaseInit, BaseStep, PTL DEF Spec

(***************************************************************************)
(* pick_target's counter stays within its width, callers within a pass and *)
(* slots within the schedule, for any schedule and any callers.            *)
(***************************************************************************)
THEOREM TypeCorrect == Spec => []TypeOK
<1>1. BaseInv => TypeOK
    BY DEF BaseInv
<1> QED BY <1>1, BaseInvariant, PTL

-----------------------------------------------------------------------------
(* NoneMeansContended.  Of the first L claims since a walk began, each is  *)
(* one that another caller made, one whose target the walk has found       *)
(* unhealthy, or the one whose flag it is about to read.                   *)

SlotOf(n) == ClaimedSlot(n % Usize)

Walking(p) == walked[p] > 0 /\ pc[p] \in {"claim", "load", "none"}

Seen(p, n) ==
    \/ SlotOf(n) \in taken[p]
    \/ Sched[SlotOf(n)] \notin steady[p]
    \/ pc[p] = "load" /\ SlotOf(n) = slot[p]

Covered ==
    /\ \A p \in Pickers : \A t \in steady[p] : healthy[t]
    /\ \A p \in Pickers :
          Walking(p) =>
              /\ claims >= from[p] + walked[p]
              /\ \A n \in from[p]..(from[p] + L - 1) : n < claims => Seen(p, n)

LEMMA CoveredStep == BaseInv /\ Covered /\ [Next]_vars => Covered'
<1> SUFFICES ASSUME BaseInv, Covered, [Next]_vars PROVE Covered'
    OBVIOUS
<1> USE Constants DEF BaseInv, TypeOK, history
<1>1. ASSUME NEW p \in Pickers, Call(p) PROVE Covered'
    <2>1. UNCHANGED <<healthy, slot, claims, from>> /\ walked' = [walked EXCEPT ![p] = 0]
          /\ \A q \in Pickers \ {p} : /\ pc'[q] = pc[q] /\ steady'[q] = steady[q]
                                     /\ taken'[q] = taken[q] /\ walked'[q] = walked[q]
        BY <1>1 DEF Call
    <2>2. \A t \in steady'[p] : healthy'[t]
        BY <1>1 DEF Call
    <2> QED BY <2>1, <2>2 DEF Covered, Walking, Seen
<1>2. ASSUME NEW p \in Pickers, Claim(p) PROVE Covered'
    <2>1. PICK c \in Nat : c = claims
        OBVIOUS
    <2>2. SlotOf(c) = ClaimedSlot(next)
        BY <2>1 DEF Positions, SlotOf
    <2>3. claims' = c + 1 /\ UNCHANGED <<healthy, steady>>
        BY <1>2, <2>1 DEF Claim
    <2>4. ASSUME NEW q \in Pickers, Walking(q)'
          PROVE  /\ claims' >= from'[q] + walked'[q]
                 /\ \A n \in from'[q]..(from'[q] + L - 1) : n < claims' => Seen(q, n)'
        <3>1. CASE q = p
            <4>1. pc[p] = "claim" /\ pc'[p] = "load" /\ slot'[p] = SlotOf(c)
                  /\ walked'[p] = walked[p] + 1 /\ taken'[p] = taken[p]
                BY <1>2, <2>2 DEF Claim
            <4>2. Seen(p, c)'
                BY <4>1 DEF Seen
            <4>3. CASE walked[p] = 0
                <5>1. from'[p] = c
                    BY <1>2, <2>1, <4>3 DEF Claim
                <5>2. \A n \in c..(c + L - 1) : n < c + 1 => n = c
                    OBVIOUS
                <5> QED BY <2>3, <3>1, <4>1, <4>2, <4>3, <5>1, <5>2, SMTT(30)
            <4>4. CASE walked[p] # 0
                <5>1. from'[p] = from[p] /\ Walking(p)
                    BY <1>2, <4>1, <4>4 DEF Claim, Walking
                <5>2. \A n \in from[p]..(from[p] + L - 1) : n < c => Seen(p, n)'
                    BY <2>1, <2>3, <4>1, <5>1 DEF Covered, Seen
                <5>3. \A n \in from[p]..(from[p] + L - 1) : n < c + 1 => Seen(p, n)'
                    <6>1. \A n \in from[p]..(from[p] + L - 1) : n < c + 1 => n < c \/ n = c
                        OBVIOUS
                    <6> QED BY <4>2, <5>2, <6>1
                <5>4. claims >= from[p] + walked[p]
                    BY <5>1 DEF Covered
                <5> QED BY <2>1, <2>3, <3>1, <4>1, <5>1, <5>3, <5>4
            <4> QED BY <4>3, <4>4
        <3>2. CASE q # p
            <4>1. Walking(q) /\ pc'[q] = pc[q] /\ walked'[q] = walked[q] /\ from'[q] = from[q]
                  /\ slot'[q] = slot[q]
                BY <1>2, <2>4, <3>2 DEF Claim, Walking
            <4>2. taken[q] \subseteq taken'[q]
                BY <1>2, <3>2 DEF Claim
            <4>3. \A n \in from[q]..(from[q] + L - 1) : n < c => Seen(q, n)'
                BY <2>1, <2>3, <4>1, <4>2 DEF Covered, Seen
            <4>4. claims >= from[q] + walked[q]
                BY <4>1 DEF Covered
            <4>5. CASE pc[q] \in {"claim", "load"}
                <5>1. Seen(q, c)'
                    BY <1>2, <2>2, <3>2, <4>1, <4>5 DEF Claim, Walking, Seen
                <5>2. \A n \in from[q]..(from[q] + L - 1) : n < c + 1 => n < c \/ n = c
                    OBVIOUS
                <5> QED BY <2>1, <2>3, <4>1, <4>3, <4>4, <5>1, <5>2
            <4>6. CASE pc[q] = "none"
                <5>1. claims >= from[q] + L
                    BY <4>6, <4>4 DEF Positions
                <5>2. \A n \in from[q]..(from[q] + L - 1) : n < c
                    BY <2>1, <5>1
                <5> QED BY <2>1, <2>3, <4>1, <4>3, <4>4, <5>2
            <4> QED BY <4>1, <4>5, <4>6 DEF Walking
        <3> QED BY <3>1, <3>2
    <2> QED BY <2>3, <2>4 DEF Covered
<1>3. ASSUME NEW p \in Pickers, Load(p) PROVE Covered'
    <2>1. UNCHANGED <<healthy, walked, slot, claims, from, steady, taken>>
          /\ \A q \in Pickers \ {p} : pc'[q] = pc[q]
        BY <1>3 DEF Load, Found, Skipped
    <2>2. pc[p] = "load" /\ pc'[p] \in {"some", "none", "claim"}
          /\ (healthy[Sched[slot[p]]] => pc'[p] = "some")
        BY <1>3 DEF Load, Found, Skipped
    <2>3. ASSUME Walking(p)', NEW n, Seen(p, n) PROVE Seen(p, n)'
        <3>1. Sched[slot[p]] \notin steady[p]
            BY <2>1, <2>2, <2>3 DEF Covered, Walking
        <3> QED BY <2>1, <2>3, <3>1 DEF Seen
    <2>4. Walking(p)' => Walking(p)
        BY <2>1, <2>2 DEF Walking
    <2> QED BY <2>1, <2>3, <2>4 DEF Covered, Walking, Seen
<1>4. ASSUME NEW p \in Pickers, Return(p) PROVE Covered'
    <2>1. UNCHANGED <<healthy, walked, slot, claims, from, steady, taken>>
          /\ pc'[p] = "idle" /\ \A q \in Pickers \ {p} : pc'[q] = pc[q]
        BY <1>4 DEF Return
    <2> QED BY <2>1 DEF Covered, Walking, Seen
<1>5. ASSUME NEW t \in Targets, SetHealthy(t) PROVE Covered'
    <2>1. UNCHANGED <<pc, walked, slot, claims, from, taken>>
          /\ \A p \in Pickers : steady'[p] = steady[p] \ {t}
        BY <1>5 DEF SetHealthy
    <2>2. \A p \in Pickers : \A u \in steady'[p] : healthy'[u]
        BY <1>5, <2>1 DEF SetHealthy, Covered
    <2> QED BY <2>1, <2>2 DEF Covered, Walking, Seen
<1>6. CASE UNCHANGED vars BY <1>6 DEF vars, code, Covered, Walking, Seen
<1> QED BY <1>1, <1>2, <1>3, <1>4, <1>5, <1>6 DEF Next, Walk

(***************************************************************************)
(* For any schedule and any callers: when pick_target returns None for a   *)
(* target that was healthy all along, and the counter did not wrap in the  *)
(* walk, other callers took every one of its slots.  A walk spans at least *)
(* L consecutive claims, so each slot of the schedule is among them.       *)
(***************************************************************************)
THEOREM NoneIsContention == Spec => []NoneMeansContended
<1>1. Init => Covered
    BY DEF Init, Covered, Walking
<1>2. BaseInv /\ Covered /\ [Next]_vars => Covered'
    BY CoveredStep
<1>3. BaseInv /\ Covered => NoneMeansContended
    <2> SUFFICES ASSUME BaseInv, Covered,
                        NEW p \in Pickers, NEW t \in steady[p], pc[p] = "none", ~Wrapped(p),
                        NEW k \in SlotsOf(t)
                 PROVE  k \in taken[p]
        BY DEF NoneMeansContended
    <2> USE Constants DEF BaseInv, TypeOK
    <2>1. PICK m \in Nat : m = L
        OBVIOUS
    <2>2. k \in 1..m /\ Sched[k] = t /\ walked[p] = m /\ m \in Nat \ {0}
        BY <2>1 DEF SlotsOf, Positions
    <2>3. claims >= from[p] + m /\ from[p] \in Nat /\ claims - 1 \in Nat
        BY <2>2 DEF Covered, Walking
    <2>4. from[p] \div Usize = (claims - 1) \div Usize
        BY <2>2 DEF Wrapped
    <2>5. PICK f \in Nat : f = from[p] % Usize
        BY <2>3, DivMod
    <2>6. PICK d \in 0..(m - 1) : (f + d) % m = k - 1
        <3>1. k - 1 \in 0..(m - 1)
            BY <2>2
        <3> HIDE DEF L
        <3> QED BY <2>2, <3>1, EveryRemainder, ZenonT(30)
    <2>7. PICK n \in Nat : n = from[p] + d
        BY <2>3
    <2>8. from[p] <= n /\ n <= claims - 1 /\ n \in from[p]..(from[p] + m - 1)
        BY <2>2, <2>3, <2>7
    <2>9. n % Usize = (from[p] % Usize) + (n - from[p])
        BY <2>3, <2>4, <2>8, SameQuotient
    <2>10. n % Usize = f + d
        BY <2>3, <2>5, <2>7, <2>9
    <2>11. SlotOf(n) = k
        <3>1. SlotOf(n) = ((f + d) % m) + 1
            BY <2>1, <2>10 DEF SlotOf, ClaimedSlot
        <3> QED BY <2>2, <2>6, <3>1
    <2>12. Seen(p, n)
        BY <2>1, <2>2, <2>3, <2>8 DEF Covered, Walking
    <2> QED BY <2>2, <2>11, <2>12 DEF Seen
<1> QED BY <1>1, <1>2, <1>3, BaseInvariant, PTL DEF Spec

-----------------------------------------------------------------------------
(* ShareFollowsWeights.  While the counter has not wrapped, the claims so  *)
(* far are whole passes and a part of one; each claim of a slot of a       *)
(* target that stayed healthy has been served or is about to be.           *)

Prefix(j, t) == {k \in 1..j : Sched[k] = t}

Share(n, t) == (n \div L) * Cardinality(SlotsOf(t)) + Cardinality(Prefix(n % L, t))

Loading(t) == {p \in Pickers : pc[p] = "load" /\ Sched[slot[p]] = t}

Tally ==
    /\ \A t \in Targets : IsFiniteSet(Loading(t))
    /\ \A t \in Targets \ ejected :
          /\ healthy[t]
          /\ L # 0 /\ claims < Usize => served[t] + Cardinality(Loading(t)) = Share(claims, t)

LEMMA PrefixFinite ==
    ASSUME NEW j \in Nat, NEW t
    PROVE  IsFiniteSet(Prefix(j, t)) /\ Cardinality(Prefix(j, t)) \in Nat
<1>1. IsFiniteSet(1..j)
    BY FS_Interval
<1> QED BY <1>1, FS_Subset, FS_CardinalityType DEF Prefix

LEMMA PrefixGrows ==
    ASSUME NEW j \in Nat, NEW t
    PROVE  Cardinality(Prefix(j + 1, t))
             = Cardinality(Prefix(j, t)) + (IF Sched[j + 1] = t THEN 1 ELSE 0)
<1>1. CASE Sched[j + 1] = t
    <2>1. Prefix(j + 1, t) = Prefix(j, t) \union {j + 1} /\ j + 1 \notin Prefix(j, t)
        BY <1>1 DEF Prefix
    <2>2. Cardinality(Prefix(j, t) \union {j + 1}) = Cardinality(Prefix(j, t)) + 1
        BY <2>1, PrefixFinite, FS_AddElement
    <2> QED BY <1>1, <2>1, <2>2
<1>2. CASE Sched[j + 1] # t
    <2>1. Prefix(j + 1, t) = Prefix(j, t)
        BY <1>2 DEF Prefix
    <2> QED BY <1>2, <2>1, PrefixFinite
<1> QED BY <1>1, <1>2

\* A claim adds one to the share of the target whose slot it takes.
LEMMA ShareGrows ==
    ASSUME NEW n \in Nat, NEW t, L # 0
    PROVE  /\ Share(n, t) \in Nat
           /\ Share(n + 1, t) = Share(n, t) + (IF Sched[(n % L) + 1] = t THEN 1 ELSE 0)
<1>1. PICK m \in Nat \ {0} : m = L
    BY Constants
<1>2. PICK d \in Nat : d = n \div L
    BY <1>1, DivMod
<1>3. PICK j \in 0..(m - 1) : j = n % L
    BY <1>1, DivMod
<1>4. SlotsOf(t) = Prefix(m, t)
    BY <1>1 DEF SlotsOf, Prefix
<1>5. PICK c \in Nat : c = Cardinality(Prefix(m, t))
    BY PrefixFinite
<1>6. PICK e \in Nat : e = Cardinality(Prefix(j, t))
    BY PrefixFinite
<1>7. PICK g \in Nat : g = IF Sched[j + 1] = t THEN 1 ELSE 0
    OBVIOUS
<1>8. Share(n, t) = d * c + e
    BY <1>2, <1>3, <1>4, <1>5, <1>6 DEF Share
<1>9. Cardinality(Prefix(j + 1, t)) = e + g
    BY <1>6, <1>7, PrefixGrows
<1>10. CASE j # m - 1
    <2>1. (n + 1) % L = j + 1 /\ (n + 1) \div L = d
        BY <1>1, <1>2, <1>3, <1>10, WithinPass
    <2>2. Share(n + 1, t) = d * c + (e + g)
        BY <1>4, <1>5, <1>9, <2>1 DEF Share
    <2> QED BY <1>3, <1>7, <1>8, <2>2
<1>11. CASE j = m - 1
    <2>1. (n + 1) % L = 0 /\ (n + 1) \div L = d + 1
        BY <1>1, <1>2, <1>3, <1>11, Across, ZenonT(30)
    <2>2. c = e + g
        BY <1>5, <1>9, <1>11
    <2>3. Cardinality(Prefix(0, t)) = 0
        <3>1. Prefix(0, t) = {}
            BY DEF Prefix
        <3> QED BY <3>1, FS_EmptySet
    <2>4. Share(n + 1, t) = (d + 1) * c + 0
        BY <1>4, <1>5, <2>1, <2>3 DEF Share
    <2>5. (d + 1) * c + 0 = (d * c + e) + g
        BY <2>2
    <2> QED BY <1>3, <1>7, <1>8, <2>4, <2>5
<1>12. d * c + e \in Nat
    OBVIOUS
<1> QED BY <1>8, <1>10, <1>11, <1>12

LEMMA TallyInit == Init => Tally
<1> SUFFICES ASSUME Init PROVE Tally
    OBVIOUS
<1>1. \A t \in Targets : Loading(t) = {}
    BY DEF Init, Loading
<1>2. \A t \in Targets : IsFiniteSet(Loading(t)) /\ Cardinality(Loading(t)) = 0
    BY <1>1, FS_EmptySet
<1>3. ASSUME NEW t \in Targets, L # 0 PROVE Share(0, t) = 0
    <2>1. 0 % L = 0 /\ 0 \div L = 0
        BY <1>3, Constants
    <2>2. Prefix(0, t) = {} /\ Cardinality(Prefix(0, t)) = 0
        BY FS_EmptySet DEF Prefix
    <2>3. SlotsOf(t) = Prefix(L, t) /\ Cardinality(Prefix(L, t)) \in Nat
        BY Constants, PrefixFinite DEF SlotsOf, Prefix
    <2> QED BY <2>1, <2>2, <2>3 DEF Share
<1> QED BY <1>2, <1>3 DEF Init, Tally

LEMMA TallyStep == BaseInv /\ Tally /\ [Next]_vars => Tally'
<1> SUFFICES ASSUME BaseInv, Tally, [Next]_vars PROVE Tally'
    OBVIOUS
<1> USE Constants DEF BaseInv, TypeOK, history
<1>1. ASSUME NEW p \in Pickers, Call(p) PROVE Tally'
    <2>1. UNCHANGED <<slot, healthy, claims, served, ejected>>
          /\ pc[p] = "idle" /\ pc'[p] # "load" /\ \A q \in Pickers \ {p} : pc'[q] = pc[q]
        BY <1>1 DEF Call
    <2>2. \A t : Loading(t)' = Loading(t)
        BY <2>1 DEF Loading
    <2> QED BY <2>1, <2>2 DEF Tally
<1>2. ASSUME NEW p \in Pickers, Claim(p) PROVE Tally'
    <2>1. L # 0 /\ pc[p] = "claim" /\ pc'[p] = "load" /\ slot'[p] = ClaimedSlot(next)
          /\ \A q \in Pickers \ {p} : pc'[q] = pc[q] /\ slot'[q] = slot[q]
        BY <1>2 DEF Claim, Positions
    <2>2. claims' = claims + 1 /\ UNCHANGED <<healthy, served, ejected>>
        BY <1>2 DEF Claim
    <2>3. ASSUME NEW t \in Targets
          PROVE  /\ IsFiniteSet(Loading(t))'
                 /\ Cardinality(Loading(t))'
                      = Cardinality(Loading(t)) + (IF Sched[ClaimedSlot(next)] = t THEN 1 ELSE 0)
                 /\ Cardinality(Loading(t)) \in Nat
        <3>1. IsFiniteSet(Loading(t)) /\ Cardinality(Loading(t)) \in Nat
            BY FS_CardinalityType DEF Tally
        <3>2. p \notin Loading(t)
            BY <2>1 DEF Loading
        <3>3. CASE Sched[ClaimedSlot(next)] = t
            <4>1. Loading(t)' = Loading(t) \union {p}
                BY <2>1, <3>3 DEF Loading
            <4> QED BY <3>1, <3>2, <3>3, <4>1, FS_AddElement
        <3>4. CASE Sched[ClaimedSlot(next)] # t
            <4>1. Loading(t)' = Loading(t)
                BY <2>1, <3>4 DEF Loading
            <4> QED BY <3>1, <3>4, <4>1
        <3> QED BY <3>3, <3>4
    <2>4. ASSUME NEW t \in Targets \ ejected, claims' < Usize
          PROVE  served'[t] + Cardinality(Loading(t))' = Share(claims', t)
        <3>1. claims < Usize /\ next = claims
            <4>1. claims \in Nat /\ claims < Usize
                BY <2>2, <2>4
            <4>2. claims % Usize = claims
                BY <4>1, Small
            <4> QED BY <4>1, <4>2 DEF Positions
        <3>2. ClaimedSlot(next) = (claims % L) + 1
            BY <3>1 DEF ClaimedSlot
        <3>3. served[t] + Cardinality(Loading(t)) = Share(claims, t)
            BY <2>1, <3>1 DEF Tally
        <3>4. Share(claims + 1, t) = Share(claims, t) + (IF Sched[ClaimedSlot(next)] = t THEN 1 ELSE 0)
              /\ Share(claims, t) \in Nat
            BY <2>1, <3>2, ShareGrows
        <3>5. served[t] \in Nat /\ served'[t] = served[t]
            BY <2>2
        <3> QED BY <2>2, <2>3, <3>3, <3>4, <3>5
    <2> QED BY <2>2, <2>3, <2>4 DEF Tally
<1>3. ASSUME NEW p \in Pickers, Load(p) PROVE Tally'
    <2>1. UNCHANGED <<healthy, slot, claims, ejected>> /\ pc[p] = "load" /\ pc'[p] # "load"
          /\ \A q \in Pickers \ {p} : pc'[q] = pc[q]
        BY <1>3 DEF Load, Found, Skipped
    <2>2. PICK u \in Targets : u = Sched[slot[p]]
        BY <2>1 DEF Positions
    <2>3. \A t \in Targets : IsFiniteSet(Loading(t)) /\ Cardinality(Loading(t)) \in Nat
        BY FS_CardinalityType DEF Tally
    <2>4. \A t \in Targets \ {u} : Loading(t)' = Loading(t)
        BY <2>1, <2>2 DEF Loading
    <2>5. Loading(u)' = Loading(u) \ {p} /\ p \in Loading(u)
        BY <2>1, <2>2 DEF Loading
    <2>6. IsFiniteSet(Loading(u))' /\ Cardinality(Loading(u))' = Cardinality(Loading(u)) - 1
        BY <2>3, <2>5, FS_RemoveElement
    <2>7. CASE healthy[u]
        <3>1. served' = [served EXCEPT ![u] = @ + 1]
            BY <1>3, <2>2, <2>7 DEF Load, Found
        <3>2. \A t \in Targets : served[t] \in Nat
            OBVIOUS
        <3>3. \A t \in Targets : served'[t] + Cardinality(Loading(t))' = served[t] + Cardinality(Loading(t))
            BY <2>3, <2>4, <2>6, <3>1, <3>2
        <3>4. \A t \in Targets : IsFiniteSet(Loading(t))'
            BY <2>3, <2>4, <2>6
        <3> QED BY <2>1, <3>3, <3>4 DEF Tally
    <2>8. CASE ~healthy[u]
        <3>1. served' = served /\ u \in ejected
            BY <1>3, <2>2, <2>8 DEF Load, Skipped, Tally
        <3>2. \A t \in Targets : IsFiniteSet(Loading(t))'
            BY <2>3, <2>4, <2>6
        <3> QED BY <2>1, <2>4, <3>1, <3>2 DEF Tally
    <2> QED BY <2>7, <2>8
<1>4. ASSUME NEW p \in Pickers, Return(p) PROVE Tally'
    <2>1. UNCHANGED <<slot, healthy, claims, served, ejected>>
          /\ pc[p] # "load" /\ pc'[p] # "load" /\ \A q \in Pickers \ {p} : pc'[q] = pc[q]
        BY <1>4 DEF Return
    <2>2. \A t : Loading(t)' = Loading(t)
        BY <2>1 DEF Loading
    <2> QED BY <2>1, <2>2 DEF Tally
<1>5. ASSUME NEW u \in Targets, SetHealthy(u) PROVE Tally'
    <2>1. UNCHANGED <<pc, slot, claims, served>> /\ ejected' = ejected \union {u}
          /\ \A t \in Targets \ {u} : healthy'[t] = healthy[t]
        BY <1>5 DEF SetHealthy
    <2>2. \A t : Loading(t)' = Loading(t)
        BY <2>1 DEF Loading
    <2> QED BY <2>1, <2>2 DEF Tally
<1>6. CASE UNCHANGED vars
    <2>1. UNCHANGED <<pc, slot, healthy, claims, served, ejected>>
        BY <1>6 DEF vars, code
    <2>2. \A t : Loading(t)' = Loading(t)
        BY <2>1 DEF Loading
    <2> QED BY <2>1, <2>2 DEF Tally
<1> QED BY <1>1, <1>2, <1>3, <1>4, <1>5, <1>6 DEF Next, Walk

(***************************************************************************)
(* For any schedule, callers and changes of health: until the counter      *)
(* wraps, whenever the passes are complete and no walk is under way, the   *)
(* targets that stayed healthy have been picked exactly in proportion to   *)
(* their slots in pick_target's schedule.                                  *)
(***************************************************************************)
THEOREM SharesAreExact == Spec => []ShareFollowsWeights
<1>1. BaseInv /\ Tally => ShareFollowsWeights
    <2> SUFFICES ASSUME BaseInv, Tally, claims < Usize, claims % L = 0,
                        \A p \in Pickers : pc[p] \notin {"claim", "load"},
                        NEW t \in Targets \ ejected, NEW u \in Targets \ ejected
                 PROVE  served[t] * Cardinality(SlotsOf(u)) = served[u] * Cardinality(SlotsOf(t))
        BY DEF ShareFollowsWeights
    <2>1. \A v \in Targets : SlotsOf(v) = Prefix(L, v) /\ Cardinality(SlotsOf(v)) \in Nat
        BY Constants, PrefixFinite DEF SlotsOf, Prefix
    <2>2. PICK a \in Nat, b \in Nat : a = Cardinality(SlotsOf(t)) /\ b = Cardinality(SlotsOf(u))
        BY <2>1
    <2>3. served[t] \in Nat /\ served[u] \in Nat /\ claims \in Nat
        BY DEF BaseInv, TypeOK
    <2>4. CASE L = 0
        <3>1. SlotsOf(t) = {} /\ SlotsOf(u) = {}
            BY <2>4 DEF SlotsOf
        <3> QED BY <2>3, <3>1, FS_EmptySet
    <2>5. CASE L # 0
        <3>1. PICK d \in Nat : d = claims \div L
            BY <2>3, <2>5, Constants, DivMod
        <3>2. ASSUME NEW v \in Targets \ ejected, NEW c \in Nat, c = Cardinality(SlotsOf(v))
              PROVE  served[v] = d * c
            <4>1. Loading(v) = {} /\ Prefix(0, v) = {}
                BY DEF Loading, Prefix
            <4>2. Cardinality(Loading(v)) = 0 /\ Cardinality(Prefix(0, v)) = 0
                BY <4>1, FS_EmptySet
            <4>3. Share(claims, v) = d * c + 0
                BY <3>1, <3>2, <4>2 DEF Share
            <4>4. served[v] + 0 = Share(claims, v)
                BY <2>5, <4>2 DEF Tally
            <4>5. served[v] \in Nat
                BY DEF BaseInv, TypeOK
            <4> QED BY <4>3, <4>4, <4>5
        <3>3. served[t] = d * a /\ served[u] = d * b
            BY <2>2, <3>2
        <3>4. (d * a) * b = (d * b) * a
            OBVIOUS
        <3> QED BY <2>2, <3>3, <3>4
    <2> QED BY <2>4, <2>5
<1> QED BY <1>1, TallyInit, TallyStep, BaseInvariant, PTL DEF Spec
=============================================================================
