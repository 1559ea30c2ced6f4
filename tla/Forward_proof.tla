--------------------------- MODULE Forward_proof ---------------------------
(***************************************************************************)
(* Proofs about the request path, for any requests, targets, schedule,     *)
(* thresholds, retry policy and body limits.                               *)
(***************************************************************************)
EXTENDS Forward, Integers, FiniteSetTheorems, TLAPS

LEMMA Constants ==
    /\ Len(Sched) \in Nat /\ \A k \in 1..Len(Sched) : Sched[k] \in Targets
    /\ HealthyThreshold \in Nat /\ UnhealthyThreshold \in Nat
    /\ BODY_BUFFER_CAP \in Nat /\ max_body_bytes \in Nat
    /\ max_attempts \in Nat \ {0}
    /\ \A k \in Kinds : k.size \in Nat
BY ForwardAssumption DEF max_attempts, KindType

LEMMA AttemptsType ==
    ASSUME NEW k
    PROVE  Attempts(k) \in 1..max_attempts /\ (Attempts(k) > 1 => Replayable(k))
BY Constants DEF Attempts

Outcomes == {"timeout", "overflow", "failed", "ok", "5xx", "switching_protocols", "UpstreamConnect"}

(* What the history variables are, and the budget of the retry loop, which *)
(* keeps the attempt counter within its type.                              *)
Typed ==
    /\ TypeOK
    /\ sent \in [Requests -> Seq(Targets)]
    /\ outcomes \in [Requests -> Seq(Outcomes)]
    /\ repeated \in [Requests -> {"no", "alone", "contended"}]
    /\ \A r \in Requests : attempt[r] < Attempts(kind[r])

-----------------------------------------------------------------------------
(* The helpers of the actions. *)

Counters == {"requests", "upstream_requests", "upstream_errors", "route_not_found",
             "upstream_retries", "websockets"}

LEMMA CountersAre == DOMAIN ZeroMetrics = Counters
BY DEF ZeroMetrics, Counters

LEMMA IncType ==
    ASSUME NEW m \in [Counters -> Nat], NEW c \in Counters
    PROVE  /\ Inc(m, c) \in [Counters -> Nat]
           /\ Inc(m, c)[c] = m[c] + 1
           /\ \A d \in Counters \ {c} : Inc(m, c)[d] = m[d]
BY DEF Inc

LEMMA FinishType ==
    ASSUME NEW r \in Requests, NEW res \in GatewayErrors \union Responses,
           NEW m \in [Counters -> Nat], Typed, Finish(r, res, m)
    PROVE  /\ pc' \in [Requests -> {"new", "body", "attempt", "await", "pick", "upgrade", "done", "dropped"}]
           /\ result' \in [Requests -> GatewayErrors \union Responses \union {"none"}]
           /\ metrics' \in [Counters -> Nat]
<1>1. {"upstream_requests", "route_not_found", "upstream_errors"} \subseteq Counters
    BY DEF Counters
<1>2. metrics' \in {m, Inc(m, "upstream_requests"), Inc(m, "route_not_found"), Inc(m, "upstream_errors")}
    BY DEF Finish
<1>3. metrics' \in [Counters -> Nat]
    BY <1>1, <1>2, IncType
<1> QED BY <1>3 DEF Finish, Typed, TypeOK

LEMMA ObserveType ==
    ASSUME NEW t \in Targets, NEW ok \in BOOLEAN, Typed, Observe(t, ok)
    PROVE  /\ healthy' \in [Targets -> BOOLEAN]
           /\ run' \in [Targets -> [ok : BOOLEAN, n : Nat]]
           /\ next' = next
<1>1. H(t)!Extend(run[t], ok) \in [ok : BOOLEAN, n : Nat]
    BY Constants DEF H!Extend, H!Longest, Typed, TypeOK
<1>2. run' \in [Targets -> [ok : BOOLEAN, n : Nat]]
    BY <1>1 DEF Observe, Typed, TypeOK
<1>3. healthy' \in [Targets -> BOOLEAN]
    BY Zenon DEF Observe, Typed, TypeOK
<1> QED BY <1>2, <1>3 DEF Observe

LEMMA PickType ==
    ASSUME next \in 1..Len(Sched)
    PROVE  NextSlot \in 1..Len(Sched) /\ Claimed \in Targets
BY Constants DEF NextSlot, Claimed

\* Claiming a slot, whether its target is returned or passed over.
LEMMA ClaimType ==
    ASSUME Typed, NEW r \in Requests, Picks(r) \/ Passes(r)
    PROVE  /\ next' \in 1..Len(Sched)
           /\ UNCHANGED <<healthy, run>>
           /\ rivals' \in [Requests -> BOOLEAN]
           /\ passed' \in [Requests -> Seq(1..Len(Sched))]
           /\ crowded' \subseteq Requests
<1>1. next \in 1..Len(Sched) /\ passed \in [Requests -> Seq(1..Len(Sched))] /\ crowded \subseteq Requests
    BY DEF Typed, TypeOK
<1>2. next' \in 1..Len(Sched)
    BY <1>1, PickType DEF Picks, Passes
<1>3. rivals' \in [Requests -> BOOLEAN]
    BY Zenon DEF Picks, Passes
<1>4. <<>> \in Seq(1..Len(Sched)) /\ Append(passed[r], next) \in Seq(1..Len(Sched))
    BY <1>1
<1>5. passed' \in [Requests -> Seq(1..Len(Sched))]
    BY <1>1, <1>4 DEF Picks, Passes
<1>6. crowded' \subseteq Requests
    BY <1>1 DEF Picks, Passes, Walking
<1> QED BY <1>2, <1>3, <1>5, <1>6 DEF Picks, Passes

LEMMA MetricsType ==
    ASSUME Typed
    PROVE  /\ metrics \in [Counters -> Nat] /\ Counted \in [Counters -> Nat]
           /\ Inc(metrics, "upstream_retries") \in [Counters -> Nat]
           /\ Inc(metrics, "websockets") \in [Counters -> Nat]
<1>1. {"requests", "upstream_retries", "websockets"} \subseteq Counters
    BY DEF Counters
<1>2. metrics \in [Counters -> Nat]
    BY CountersAre DEF Typed, TypeOK
<1> QED BY <1>1, <1>2, IncType DEF Counted

-----------------------------------------------------------------------------
(* Type correctness. *)

LEMMA TypedInit == Init => Typed
<1> SUFFICES ASSUME Init PROVE Typed
    OBVIOUS
<1>1. 1 \in 1..Len(Sched) /\ Sched[1] \in Targets
    BY Constants DEF Init
<1>2. ZeroMetrics \in [DOMAIN ZeroMetrics -> Nat]
    BY DEF ZeroMetrics
<1>3. healthy \in [Targets -> BOOLEAN] /\ rivals \in [Requests -> BOOLEAN]
    BY Zenon DEF Init
<1>4. \A r \in Requests : attempt[r] = 0 /\ 0 < Attempts(kind[r])
    BY AttemptsType, Constants DEF Init
<1>5. sent \in [Requests -> Seq(Targets)] /\ outcomes \in [Requests -> Seq(Outcomes)]
    BY DEF Init
<1>6. run \in [Targets -> [ok : BOOLEAN, n : Nat]]
    BY DEF Init
<1>7. "NoHealthyUpstream" \in GatewayErrors
    BY DEF GatewayErrors
<1>8. attempt \in [Requests -> 0..max_attempts]
    BY Constants DEF Init
<1>9. passed \in [Requests -> Seq(1..Len(Sched))]
    BY DEF Init
<1>10. TypeOK
    BY <1>1, <1>2, <1>3, <1>6, <1>7, <1>8, <1>9 DEF Init, TypeOK
<1> QED BY <1>4, <1>5, <1>10 DEF Init, Typed

\* The results handle may return.
LEMMA ResultsAre ==
    /\ ClientErrors \subseteq GatewayErrors
    /\ {"RouteNotFound", "Forbidden", "TooManyRequests", "Unauthorized", "PayloadTooLarge"} \subseteq ClientErrors
    /\ {"NoHealthyUpstream", "UpstreamTimeout", "UpstreamConnect", "BadGateway"}
          \subseteq GatewayErrors \ ClientErrors
    /\ Responses = {"ok", "5xx", "switching_protocols"}
    /\ Responses \cap GatewayErrors = {}
BY DEF ClientErrors, GatewayErrors, Responses

\* A step that gives a request up, after a pick.
LEMMA GivesUp ==
    ASSUME Typed, NEW r \in Requests, NEW res \in GatewayErrors, NEW m \in [Counters -> Nat],
           Picks(r) \/ Passes(r), Finish(r, res, m),
           UNCHANGED <<kind, source, attempt, target, sent, outcomes, repeated, delivered>>,
           last_err' \in [Requests -> GatewayErrors]
    PROVE  Typed'
<1>1. /\ next' \in 1..Len(Sched) /\ UNCHANGED <<healthy, run>>
      /\ rivals' \in [Requests -> BOOLEAN]
      /\ passed' \in [Requests -> Seq(1..Len(Sched))] /\ crowded' \subseteq Requests
    BY ClaimType
<1>2. /\ pc' \in [Requests -> {"new", "body", "attempt", "await", "pick", "upgrade", "done", "dropped"}]
      /\ result' \in [Requests -> GatewayErrors \union Responses \union {"none"}]
      /\ metrics' \in [DOMAIN ZeroMetrics -> Nat]
    BY FinishType, CountersAre
<1>3. TypeOK'
    BY <1>1, <1>2 DEF Typed, TypeOK
<1> QED BY <1>3 DEF Typed

\* A step that sends a request to the target picked.
LEMMA SendsType ==
    ASSUME Typed, NEW r \in Requests, Picks(r)
    PROVE  /\ next' \in 1..Len(Sched)
           /\ UNCHANGED <<healthy, run>>
           /\ rivals' \in [Requests -> BOOLEAN]
           /\ passed' \in [Requests -> Seq(1..Len(Sched))] /\ crowded' \subseteq Requests
           /\ [target EXCEPT ![r] = Claimed] \in [Requests -> Targets]
           /\ [sent EXCEPT ![r] = Append(@, Claimed)] \in [Requests -> Seq(Targets)]
<1>1. Claimed \in Targets
    BY PickType DEF Typed, TypeOK
<1>2. [target EXCEPT ![r] = Claimed] \in [Requests -> Targets]
    BY <1>1 DEF Typed, TypeOK
<1>3. [sent EXCEPT ![r] = Append(@, Claimed)] \in [Requests -> Seq(Targets)]
    BY <1>1 DEF Typed
<1> QED BY <1>2, <1>3, ClaimType

\* Whether the loop goes round again or stops, after an attempt.
LEMMA EndsType ==
    ASSUME Typed, NEW r \in Requests, NEW res \in GatewayErrors \union Responses,
           NEW outcome \in Outcomes, Ended(r, outcome),
           Stop(r, res) \/ (~IsLast(r) /\ Again(r)),
           next' = next, healthy' \in [Targets -> BOOLEAN], run' \in [Targets -> [ok : BOOLEAN, n : Nat]],
           last_err' \in [Requests -> GatewayErrors], delivered' \subseteq Requests
    PROVE  Typed'
<1>1. outcomes' \in [Requests -> Seq(Outcomes)]
    BY DEF Ended, Typed
<1>2. CASE Stop(r, res)
    <2>1. /\ pc' \in [Requests -> {"new", "body", "attempt", "await", "pick", "upgrade", "done", "dropped"}]
          /\ result' \in [Requests -> GatewayErrors \union Responses \union {"none"}]
          /\ metrics' \in [DOMAIN ZeroMetrics -> Nat]
        BY <1>2, FinishType, MetricsType, CountersAre DEF Stop
    <2>2. TypeOK'
        BY <1>2, <2>1 DEF Typed, TypeOK, Stop, Ended
    <2> QED BY <1>1, <1>2, <2>2 DEF Typed, Stop, Ended
<1>3. CASE ~IsLast(r) /\ Again(r)
    <2>1. attempt[r] \in Nat /\ attempt[r] + 1 < Attempts(kind[r])
        BY <1>3, AttemptsType, Constants DEF IsLast, Typed, TypeOK
    <2>2. attempt[r] + 1 \in 0..max_attempts
        BY <2>1, AttemptsType, Constants
    <2>3. attempt' \in [Requests -> 0..max_attempts]
        BY <1>3, <2>2 DEF Again, Typed, TypeOK
    <2>4. \A q \in Requests : attempt'[q] < Attempts(kind'[q])
        BY <1>3, <2>1 DEF Again, Ended, Typed, TypeOK
    <2>5. pc' \in [Requests -> {"new", "body", "attempt", "await", "pick", "upgrade", "done", "dropped"}]
        BY <1>3 DEF Again, Typed, TypeOK
    <2>6. metrics' \in [DOMAIN ZeroMetrics -> Nat]
        BY <1>3, MetricsType, CountersAre DEF Again
    <2>7. TypeOK'
        BY <1>3, <2>3, <2>5, <2>6 DEF Again, Ended, Typed, TypeOK
    <2> QED BY <1>1, <2>4, <2>7 DEF Typed, Ended
<1> QED BY <1>2, <1>3

LEMMA TypedStep == Typed /\ [Next]_vars => Typed'
<1> SUFFICES ASSUME Typed, [Next]_vars PROVE Typed'
    OBVIOUS
<1> USE DEF request, history, upstream
<1>1. ASSUME NEW r \in Requests, NEW err \in ClientErrors, TurnedAway(r, err) PROVE Typed'
    <2>1. /\ pc' \in [Requests -> {"new", "body", "attempt", "await", "pick", "upgrade", "done", "dropped"}]
          /\ result' \in [Requests -> GatewayErrors \union Responses \union {"none"}]
          /\ metrics' \in [DOMAIN ZeroMetrics -> Nat]
        BY <1>1, FinishType, MetricsType, CountersAre, ResultsAre DEF TurnedAway
    <2>2. TypeOK'
        BY <1>1, <2>1 DEF TurnedAway, Typed, TypeOK
    <2> QED BY <1>1, <2>2 DEF TurnedAway, Typed
<1>2. ASSUME NEW r \in Requests, Accept(r) \/ AcceptUpgrade(r) PROVE Typed'
    <2>1. metrics' \in [DOMAIN ZeroMetrics -> Nat]
        BY <1>2, MetricsType, CountersAre DEF Accept, AcceptUpgrade
    <2>2. TypeOK'
        BY <1>2, <2>1 DEF Accept, AcceptUpgrade, Typed, TypeOK
    <2> QED BY <1>2, <2>2 DEF Accept, AcceptUpgrade, Typed
<1>3. ASSUME NEW r \in Requests, BufferBody(r) PROVE Typed'
    <2>1. source' \in [Requests -> {"buffered", "once", "spent"}]
        BY <1>3 DEF BufferBody, Typed, TypeOK
    <2>2. TypeOK'
        BY <1>3, <2>1 DEF BufferBody, Typed, TypeOK
    <2> QED BY <1>3, <2>2 DEF BufferBody, Typed
<1>4. ASSUME NEW r \in Requests, AttemptNone(r) PROVE Typed'
    <2>1. last_err' \in [Requests -> GatewayErrors]
        BY <1>4, ResultsAre DEF AttemptNone, Typed, TypeOK
    <2> QED BY <1>4, <2>1, GivesUp, MetricsType, ResultsAre DEF AttemptNone
<1>5. ASSUME NEW r \in Requests, AttemptSpent(r) PROVE Typed'
    <2>1. last_err' \in [Requests -> GatewayErrors] /\ last_err[r] \in GatewayErrors
        BY <1>5 DEF AttemptSpent, Typed, TypeOK
    <2> QED BY <1>5, <2>1, GivesUp, MetricsType DEF AttemptSpent
<1>6. ASSUME NEW r \in Requests, AttemptUnbuildable(r) PROVE Typed'
    <2>1. last_err' \in [Requests -> GatewayErrors]
        BY <1>6 DEF AttemptUnbuildable, Typed, TypeOK
    <2> QED BY <1>6, <2>1, GivesUp, MetricsType, ResultsAre DEF AttemptUnbuildable
<1>7. ASSUME NEW r \in Requests, AttemptSend(r) PROVE Typed'
    <2>1. /\ next' \in 1..Len(Sched) /\ UNCHANGED <<healthy, run>>
          /\ rivals' \in [Requests -> BOOLEAN]
          /\ passed' \in [Requests -> Seq(1..Len(Sched))] /\ crowded' \subseteq Requests
          /\ target' \in [Requests -> Targets] /\ sent' \in [Requests -> Seq(Targets)]
        BY <1>7, SendsType DEF AttemptSend
    <2>2. repeated' \in [Requests -> {"no", "alone", "contended"}]
        BY <1>7 DEF AttemptSend, Typed
    <2>3. pc' \in [Requests -> {"new", "body", "attempt", "await", "pick", "upgrade", "done", "dropped"}]
        BY <1>7 DEF AttemptSend, Typed, TypeOK
    <2>4. UNCHANGED <<kind, source, attempt, last_err, result, metrics, outcomes, delivered>>
        BY <1>7 DEF AttemptSend
    <2>5. TypeOK'
        BY <2>1, <2>3, <2>4 DEF Typed, TypeOK
    <2> QED BY <2>1, <2>2, <2>4, <2>5 DEF Typed
<1>8. ASSUME NEW r \in Requests, AttemptEnds(r) PROVE Typed'
    <2>1. target[r] \in Targets /\ TRUE \in BOOLEAN /\ FALSE \in BOOLEAN
        BY DEF Typed, TypeOK
    <2>2. CASE Timeout(r)
        <3>1. /\ healthy' \in [Targets -> BOOLEAN] /\ run' \in [Targets -> [ok : BOOLEAN, n : Nat]]
              /\ next' = next
            BY <2>1, <2>2, ObserveType DEF Timeout
        <3>2. last_err' \in [Requests -> GatewayErrors] /\ delivered' \subseteq Requests
            BY <2>2 DEF Timeout, Typed, TypeOK
        <3>3. "timeout" \in Outcomes /\ "UpstreamTimeout" \in GatewayErrors \union Responses
            BY ResultsAre DEF Outcomes
        <3> QED BY <2>2, <3>1, <3>2, <3>3, EndsType DEF Timeout
    <2>3. CASE Overflow(r)
        <3>1. /\ healthy' \in [Targets -> BOOLEAN] /\ run' \in [Targets -> [ok : BOOLEAN, n : Nat]]
              /\ next' = next
            BY <2>3 DEF Overflow, Typed, TypeOK
        <3>2. last_err' \in [Requests -> GatewayErrors] /\ delivered' \subseteq Requests
            BY <2>3 DEF Overflow, Typed, TypeOK
        <3>3. "overflow" \in Outcomes /\ "PayloadTooLarge" \in GatewayErrors \union Responses
            BY ResultsAre DEF Outcomes
        <3> QED BY <2>3, <3>1, <3>2, <3>3, EndsType DEF Overflow
    <2>4. CASE SendFails(r)
        <3>1. /\ healthy' \in [Targets -> BOOLEAN] /\ run' \in [Targets -> [ok : BOOLEAN, n : Nat]]
              /\ next' = next
            BY <2>1, <2>4, ObserveType DEF SendFails
        <3>2. last_err' \in [Requests -> GatewayErrors] /\ delivered' \subseteq Requests
            BY <2>4, ResultsAre DEF SendFails, Typed, TypeOK
        <3>3. "failed" \in Outcomes /\ "UpstreamConnect" \in GatewayErrors \union Responses
            BY ResultsAre DEF Outcomes
        <3> QED BY <2>4, <3>1, <3>2, <3>3, EndsType DEF SendFails
    <2>5. CASE Responds(r)
        <3>1. /\ healthy' \in [Targets -> BOOLEAN] /\ run' \in [Targets -> [ok : BOOLEAN, n : Nat]]
              /\ next' = next
            BY <2>1, <2>5, ObserveType DEF Responds
        <3>2. last_err' \in [Requests -> GatewayErrors] /\ delivered' \subseteq Requests
            BY <2>5 DEF Responds, Typed, TypeOK
        <3>3. "ok" \in Outcomes /\ "ok" \in GatewayErrors \union Responses
            BY ResultsAre DEF Outcomes
        <3> QED BY <2>5, <3>1, <3>2, <3>3, EndsType DEF Responds
    <2>6. CASE Responds5xx(r)
        <3>1. /\ healthy' \in [Targets -> BOOLEAN] /\ run' \in [Targets -> [ok : BOOLEAN, n : Nat]]
              /\ next' = next
            BY <2>1, <2>6, ObserveType DEF Responds5xx
        <3>2. last_err' \in [Requests -> GatewayErrors] /\ delivered' \subseteq Requests
            BY <2>6 DEF Responds5xx, Typed, TypeOK
        <3>3. "5xx" \in Outcomes /\ "5xx" \in GatewayErrors \union Responses
            BY ResultsAre DEF Outcomes
        <3> QED BY <2>6, <3>1, <3>2, <3>3, EndsType DEF Responds5xx
    <2> QED BY <1>8, <2>2, <2>3, <2>4, <2>5, <2>6 DEF AttemptEnds
<1>9. ASSUME NEW r \in Requests, UpgradeNone(r) \/ UpgradeUnbuildable(r) PROVE Typed'
    <2>1. last_err' \in [Requests -> GatewayErrors]
        BY <1>9 DEF UpgradeNone, UpgradeUnbuildable, Typed, TypeOK
    <2> QED BY <1>9, <2>1, GivesUp, MetricsType, ResultsAre DEF UpgradeNone, UpgradeUnbuildable
<1>10. ASSUME NEW r \in Requests, UpgradeSend(r) PROVE Typed'
    <2>1. /\ next' \in 1..Len(Sched) /\ UNCHANGED <<healthy, run>>
          /\ rivals' \in [Requests -> BOOLEAN]
          /\ passed' \in [Requests -> Seq(1..Len(Sched))] /\ crowded' \subseteq Requests
          /\ target' \in [Requests -> Targets] /\ sent' \in [Requests -> Seq(Targets)]
        BY <1>10, SendsType DEF UpgradeSend
    <2>3. pc' \in [Requests -> {"new", "body", "attempt", "await", "pick", "upgrade", "done", "dropped"}]
        BY <1>10 DEF UpgradeSend, Typed, TypeOK
    <2>4. UNCHANGED <<kind, source, attempt, last_err, result, metrics, outcomes, repeated, delivered>>
        BY <1>10 DEF UpgradeSend
    <2>5. TypeOK'
        BY <2>1, <2>3, <2>4 DEF Typed, TypeOK
    <2> QED BY <2>1, <2>4, <2>5 DEF Typed
<1>11. ASSUME NEW r \in Requests, NEW res \in Responses \union {"UpstreamConnect"}, UpgradeAnswered(r, res)
       PROVE  Typed'
    <2>1. /\ healthy' \in [Targets -> BOOLEAN] /\ run' \in [Targets -> [ok : BOOLEAN, n : Nat]]
          /\ next' = next
        <3>1. target[r] \in Targets /\ (res \in {"ok", "switching_protocols"}) \in BOOLEAN
            BY DEF Typed, TypeOK
        <3> QED BY <1>11, <3>1, ObserveType DEF UpgradeAnswered
    <2>2. PICK m \in [Counters -> Nat] : Finish(r, res, m)
        BY <1>11, MetricsType DEF UpgradeAnswered
    <2>3. /\ pc' \in [Requests -> {"new", "body", "attempt", "await", "pick", "upgrade", "done", "dropped"}]
          /\ result' \in [Requests -> GatewayErrors \union Responses \union {"none"}]
          /\ metrics' \in [DOMAIN ZeroMetrics -> Nat]
        BY <2>2, FinishType, CountersAre, ResultsAre
    <2>4. outcomes' \in [Requests -> Seq(Outcomes)]
        <3>1. res \in Outcomes
            BY ResultsAre DEF Outcomes
        <3> QED BY <1>11, <3>1 DEF UpgradeAnswered, Typed
    <2>5. UNCHANGED <<kind, source, attempt, target, passed, last_err, sent, rivals, crowded, repeated, delivered>>
        BY <1>11 DEF UpgradeAnswered
    <2>6. TypeOK'
        BY <2>1, <2>3, <2>5 DEF Typed, TypeOK
    <2> QED BY <2>4, <2>5, <2>6 DEF Typed
<1>12. ASSUME NEW r \in Requests, Dropped(r) PROVE Typed'
    <2>1. TypeOK'
        BY <1>12 DEF Dropped, Typed, TypeOK
    <2> QED BY <1>12, <2>1 DEF Dropped, Typed
<1>13. ASSUME NEW t \in Targets, NEW ok \in BOOLEAN, Probe(t, ok) PROVE Typed'
    <2>1. /\ healthy' \in [Targets -> BOOLEAN] /\ run' \in [Targets -> [ok : BOOLEAN, n : Nat]]
          /\ next' = next
        BY <1>13, ObserveType DEF Probe
    <2>2. TypeOK'
        BY <1>13, <2>1 DEF Probe, Typed, TypeOK
    <2> QED BY <1>13, <2>2 DEF Probe, Typed
<1>14. CASE UNCHANGED vars
    <2>1. TypeOK'
        BY <1>14 DEF vars, Typed, TypeOK
    <2> QED BY <1>14, <2>1 DEF vars, Typed
<1>15. ASSUME NEW r \in Requests, PassOver(r) PROVE Typed'
    <2>1. /\ next' \in 1..Len(Sched) /\ UNCHANGED <<healthy, run>>
          /\ rivals' \in [Requests -> BOOLEAN]
          /\ passed' \in [Requests -> Seq(1..Len(Sched))] /\ crowded' \subseteq Requests
        BY <1>15, ClaimType DEF PassOver
    <2>2. UNCHANGED <<pc, kind, source, attempt, target, last_err, result, metrics,
                      sent, outcomes, repeated, delivered>>
        BY <1>15 DEF PassOver
    <2>3. TypeOK'
        BY <2>1, <2>2 DEF Typed, TypeOK
    <2> QED BY <2>2, <2>3 DEF Typed
<1> QED
    <2>1. ASSUME NEW r \in Requests, Step(r) PROVE Typed'
        BY <1>1, <1>2, <1>3, <1>4, <1>5, <1>6, <1>7, <1>8, <1>9, <1>10, <1>15, <2>1, ResultsAre
           DEF Step, RouteNotFound, Forbidden, TooManyRequests, Unauthorized, TooLarge, Attempt, UpgradeAttempt
    <2> QED BY <1>11, <1>12, <1>13, <1>14, <2>1 DEF Next

LEMMA TypedInvariant == Spec => []Typed
<1> QED BY TypedInit, TypedStep, PTL DEF Spec

(***************************************************************************)
(* The request path's state stays well formed: the position within the     *)
(* schedule, attempts within the policy, every error one of GatewayError's *)
(* cases, counters natural numbers.                                        *)
(***************************************************************************)
THEOREM TypeCorrect == Spec => []TypeOK
<1>1. Typed => TypeOK
    BY DEF Typed
<1> QED BY <1>1, TypedInvariant, PTL

-----------------------------------------------------------------------------
(* A step of the request path is a step of one request. *)

Untouched(q) ==
    /\ pc'[q] = pc[q] /\ source'[q] = source[q] /\ attempt'[q] = attempt[q]
    /\ target'[q] = target[q] /\ last_err'[q] = last_err[q] /\ result'[q] = result[q]
    /\ sent'[q] = sent[q] /\ outcomes'[q] = outcomes[q] /\ repeated'[q] = repeated[q]
    /\ passed'[q] = passed[q] /\ (q \in crowded => q \in crowded')

LEMMA OneAtATime ==
    ASSUME Typed, NEW r \in Requests, NEW q \in Requests \ {r},
           Step(r) \/ Dropped(r) \/ \E res \in Responses \union {"UpstreamConnect"} : UpgradeAnswered(r, res)
    PROVE  Untouched(q)
<1> USE DEF request, history, upstream, Typed, TypeOK, Untouched, Finish, Picks, Passes
<1>1. CASE \E err \in ClientErrors : TurnedAway(r, err)
    BY <1>1 DEF TurnedAway
<1>2. CASE Accept(r) \/ AcceptUpgrade(r) \/ BufferBody(r) \/ Dropped(r)
    BY <1>2 DEF Accept, AcceptUpgrade, BufferBody, Dropped
<1>3. CASE AttemptNone(r) \/ AttemptSpent(r) \/ AttemptUnbuildable(r)
    BY <1>3 DEF AttemptNone, AttemptSpent, AttemptUnbuildable
<1>4. CASE AttemptSend(r) \/ PassOver(r)
    BY <1>4 DEF AttemptSend, PassOver
<1>5. CASE Timeout(r) \/ Overflow(r) \/ Responds(r)
    BY <1>5 DEF Timeout, Overflow, Responds, Ended, Stop
<1>6. CASE SendFails(r)
    BY <1>6 DEF SendFails, Ended, Stop, Again
<1>7. CASE Responds5xx(r)
    BY <1>7 DEF Responds5xx, Ended, Stop, Again
<1>8. CASE UpgradeNone(r) \/ UpgradeUnbuildable(r) \/ UpgradeSend(r)
    BY <1>8 DEF UpgradeNone, UpgradeUnbuildable, UpgradeSend
<1>9. CASE \E res \in Responses \union {"UpstreamConnect"} : UpgradeAnswered(r, res)
    BY <1>9 DEF UpgradeAnswered
<1> QED BY <1>1, <1>2, <1>3, <1>4, <1>5, <1>6, <1>7, <1>8, <1>9, ResultsAre
        DEF Step, RouteNotFound, Forbidden, TooManyRequests, Unauthorized, TooLarge, Attempt, AttemptEnds,
            UpgradeAttempt

LEMMA KindIsKept == ASSUME [Next]_vars PROVE kind' = kind
BY DEF Next, vars, Step, RouteNotFound, Forbidden, TooManyRequests, Unauthorized, TooLarge, TurnedAway,
       Accept, AcceptUpgrade, BufferBody, Attempt, PassOver, AttemptNone, AttemptSpent, AttemptUnbuildable, AttemptSend,
       AttemptEnds, Timeout, Overflow, SendFails, Responds, Responds5xx, Ended, UpgradeNone,
       UpgradeUnbuildable, UpgradeSend, UpgradeAttempt, UpgradeAnswered, Dropped, Probe, request

(***************************************************************************)
(* A step that answers a request with a client error leaves the targets'   *)
(* health as it was, whatever the limits and the policy: forward observes  *)
(* nothing when CappedBody cut the body off.                               *)
(***************************************************************************)
THEOREM NobodyBlamed == Spec => ClientErrorsBlameNobody
<1>1. ASSUME Typed, [Next]_vars, NEW r \in Requests,
             pc'[r] = "done", pc[r] # "done", result'[r] \in ClientErrors
      PROVE  UNCHANGED <<healthy, run>>
    <2>5. ASSUME NEW q \in Requests \ {r},
                 Step(q) \/ \E res \in Responses \union {"UpstreamConnect"} : UpgradeAnswered(q, res)
          PROVE  FALSE
        <3>1. Untouched(r)
            BY <1>1, <2>5, OneAtATime
        <3> QED BY <1>1, <3>1 DEF Untouched
    <2> USE DEF upstream, Finish, Typed, TypeOK
    <2>1. ASSUME NEW q \in Requests, Step(q) PROVE UNCHANGED <<healthy, run>>
        <3>1. q = r
            BY <2>1, <2>5
        <3>2. CASE \E err \in ClientErrors : TurnedAway(r, err)
            BY <3>2 DEF TurnedAway
        <3>3. CASE Accept(r) \/ AcceptUpgrade(r) \/ BufferBody(r) \/ Overflow(r)
            BY <3>3 DEF Accept, AcceptUpgrade, BufferBody, Overflow
        <3>4. CASE AttemptNone(r) \/ AttemptSpent(r) \/ AttemptUnbuildable(r) \/ AttemptSend(r)
                   \/ UpgradeNone(r) \/ UpgradeUnbuildable(r) \/ UpgradeSend(r) \/ PassOver(r)
            BY <3>4 DEF AttemptNone, AttemptSpent, AttemptUnbuildable, AttemptSend, UpgradeNone,
                        UpgradeUnbuildable, UpgradeSend, PassOver, Picks, Passes
        <3>5. CASE Timeout(r) \/ Responds(r)
            BY <1>1, <3>5, ResultsAre DEF Timeout, Responds, Stop
        <3>6. CASE SendFails(r) \/ Responds5xx(r)
            BY <1>1, <3>6, ResultsAre, ZenonT(30) DEF SendFails, Responds5xx, Stop, Again
        <3> QED BY <2>1, <3>1, <3>2, <3>3, <3>4, <3>5, <3>6, ResultsAre
                DEF Step, RouteNotFound, Forbidden, TooManyRequests, Unauthorized, TooLarge, Attempt,
                    AttemptEnds, UpgradeAttempt
    <2>2. ASSUME NEW q \in Requests, NEW res \in Responses \union {"UpstreamConnect"},
                 UpgradeAnswered(q, res)
          PROVE  FALSE
        <3>1. q = r
            BY <2>2, <2>5
        <3> QED BY <1>1, <2>2, <3>1, ResultsAre DEF UpgradeAnswered
    <2>3. ASSUME NEW q \in Requests, Dropped(q) PROVE UNCHANGED <<healthy, run>>
        BY <2>3 DEF Dropped
    <2>4. ASSUME NEW t \in Targets, NEW ok \in BOOLEAN, Probe(t, ok) PROVE FALSE
        BY <1>1, <2>4 DEF Probe
    <2> QED BY <1>1, <2>1, <2>2, <2>3, <2>4 DEF Next, vars
<1>2. Typed /\ [Next]_vars
      => [\A r \in Requests : pc'[r] = "done" /\ pc[r] # "done" /\ result'[r] \in ClientErrors
                                  => UNCHANGED <<healthy, run>>]_vars
    BY <1>1
<1> QED BY <1>2, TypedInvariant, PTL DEF Spec, ClientErrorsBlameNobody

-----------------------------------------------------------------------------
(* Where a request is in its loop, and what it has been through. *)

Retryable(o) == \/ o = "failed" /\ on_connect_failure
                \/ o = "5xx" /\ on_5xx

Stage(r) ==
    LET n == Len(sent[r])
        m == Len(outcomes[r])
    IN  /\ n <= attempt[r] + 1
        /\ pc[r] \in {"new", "body"} =>
              /\ n = 0 /\ m = 0 /\ attempt[r] = 0
              /\ source[r] = "once" /\ last_err[r] = "NoHealthyUpstream"
        /\ pc[r] = "pick" => n = 0 /\ m = 0 /\ attempt[r] = 0
        /\ pc[r] = "upgrade" => n = 1 /\ m = 0 /\ attempt[r] = 0
        /\ pc[r] \in {"new", "body", "await", "upgrade"} => passed[r] = <<>>
        /\ pc[r] \in {"attempt", "pick"} => Len(passed[r]) < Len(Sched)
        /\ pc[r] = "body" => Replayable(kind[r])
        /\ pc[r] \in {"body", "attempt", "await"} => ~body_exceeds_limit(kind[r])
        /\ pc[r] \in {"attempt", "await"} =>
              /\ m = attempt[r]
              /\ Replayable(kind[r]) <=> source[r] # "once"
              /\ attempt[r] = 0 => last_err[r] = "NoHealthyUpstream"
        /\ pc[r] = "attempt" => n = attempt[r]
        /\ pc[r] = "await" => n = attempt[r] + 1 /\ source[r] # "spent"

\* Only a body buffered whole is sent again, and only after a failure that retryOn names.
Licensed(r) ==
    /\ attempt[r] > 0 => source[r] = "buffered"
    /\ source[r] = "buffered" => Replayable(kind[r]) /\ kind[r].size <= BODY_BUFFER_CAP
    /\ attempt[r] <= Len(outcomes[r])
    /\ \A i \in 1..attempt[r] : Retryable(outcomes[r][i])

Truthful(r) ==
    LET m == Len(outcomes[r])
    IN  pc[r] = "done" =>
          /\ result[r] = "UpstreamConnect" => m > 0 /\ outcomes[r][m] \in {"failed", "UpstreamConnect"}
          /\ result[r] = "UpstreamTimeout" => m > 0 /\ outcomes[r][m] = "timeout"
          /\ result[r] \in Responses => m > 0 /\ outcomes[r][m] = result[r]
          /\ result[r] = "PayloadTooLarge" => (m > 0 => outcomes[r][m] = "overflow")
          /\ result[r] = "NoHealthyUpstream" =>
                Len(sent[r]) = m /\ (m > 0 => outcomes[r][m] \in {"failed", "5xx"})

Story(r) == Stage(r) /\ Licensed(r) /\ Truthful(r)

LEMMA StoryKept ==
    ASSUME NEW q \in Requests, Untouched(q), kind' = kind, Story(q)
    PROVE  Story(q)'
BY DEF Untouched, Story, Stage, Licensed, Truthful

LEMMA StoryInit == ASSUME Init PROVE \A r \in Requests : Story(r)
BY Constants DEF Init, Story, Stage, Licensed, Truthful

LEMMA Appended ==
    ASSUME NEW S, NEW seq \in Seq(S), NEW e \in S
    PROVE  /\ Len(Append(seq, e)) = Len(seq) + 1
           /\ Append(seq, e)[Len(seq) + 1] = e
           /\ \A i \in 1..Len(seq) : Append(seq, e)[i] = seq[i]
OBVIOUS

\* The types of one request's variables.
LEMMA RequestType ==
    ASSUME Typed, NEW r \in Requests
    PROVE  /\ attempt[r] \in Nat /\ attempt[r] < Attempts(kind[r])
           /\ source[r] \in {"buffered", "once", "spent"}
           /\ sent[r] \in Seq(Targets) /\ outcomes[r] \in Seq(Outcomes)
           /\ Len(sent[r]) \in Nat /\ Len(outcomes[r]) \in Nat
           /\ passed[r] \in Seq(1..Len(Sched)) /\ Len(passed[r]) \in Nat /\ Len(Sched) \in Nat \ {0}
BY Constants DEF Typed, TypeOK

\* handle answers without a further attempt.
LEMMA GivenUp ==
    ASSUME Typed, NEW r \in Requests, Story(r), NEW res, NEW m, Finish(r, res, m),
           UNCHANGED <<kind, source, attempt, sent, outcomes>>,
           Len(outcomes[r]) = attempt[r],
           res \in ClientErrors \union {"NoHealthyUpstream", "BadGateway"},
           res = "PayloadTooLarge" => Len(outcomes[r]) = 0,
           res = "NoHealthyUpstream" => Len(sent[r]) = Len(outcomes[r])
    PROVE  Story(r)'
<1>1. pc'[r] = "done" /\ result'[r] = res
    BY DEF Finish, Typed, TypeOK
<1>2. Stage(r)'
    BY <1>1 DEF Story, Stage
<1>3. Licensed(r)'
    BY DEF Story, Licensed
<1>4. attempt[r] > 0 => outcomes[r][attempt[r]] \in {"failed", "5xx"}
    BY RequestType DEF Story, Licensed, Retryable
<1>5. res \notin Responses \union {"UpstreamConnect", "UpstreamTimeout"}
    BY DEF ClientErrors, Responses
<1>6. Truthful(r)'
    BY <1>1, <1>4, <1>5 DEF Truthful
<1> QED BY <1>2, <1>3, <1>6 DEF Story

\* An attempt, or an upgrade, ends and the request is answered.
LEMMA Stopped ==
    ASSUME Typed, NEW r \in Requests, Story(r), NEW res, NEW m, Finish(r, res, m),
           NEW o \in Outcomes, outcomes' = [outcomes EXCEPT ![r] = Append(@, o)],
           UNCHANGED <<kind, source, attempt, sent>>,
           pc[r] \in {"await", "upgrade"},
           \/ res \in Responses /\ o = res
           \/ res = "UpstreamConnect" /\ o \in {"failed", "UpstreamConnect"}
           \/ res = "UpstreamTimeout" /\ o = "timeout"
           \/ res = "PayloadTooLarge" /\ o = "overflow"
    PROVE  Story(r)'
<1>1. pc'[r] = "done" /\ result'[r] = res /\ outcomes'[r] = Append(outcomes[r], o)
    BY DEF Finish, Typed, TypeOK
<1>2. /\ Len(outcomes'[r]) = Len(outcomes[r]) + 1 /\ outcomes'[r][Len(outcomes[r]) + 1] = o
      /\ \A i \in 1..Len(outcomes[r]) : outcomes'[r][i] = outcomes[r][i]
    BY <1>1, RequestType, Appended
<1>3. Stage(r)'
    BY <1>1 DEF Story, Stage
<1>4. Licensed(r)'
    BY <1>2, RequestType DEF Story, Licensed
<1>5. Truthful(r)'
    BY <1>1, <1>2, RequestType DEF Truthful, Responses
<1> QED BY <1>3, <1>4, <1>5 DEF Story

\* An attempt fails in a way retryOn names, and the loop has rounds left.
LEMMA GoesAgain ==
    ASSUME Typed, NEW r \in Requests, Story(r), NEW o \in Outcomes, Ended(r, o), ~IsLast(r), Again(r),
           Retryable(o)
    PROVE  Story(r)'
<1>1. /\ pc[r] = "await" /\ pc'[r] = "attempt" /\ attempt'[r] = attempt[r] + 1
      /\ outcomes'[r] = Append(outcomes[r], o)
      /\ UNCHANGED <<kind, source, sent, passed>>
    BY DEF Ended, Again, Typed, TypeOK
<1>2. /\ Len(outcomes'[r]) = Len(outcomes[r]) + 1 /\ outcomes'[r][Len(outcomes[r]) + 1] = o
      /\ \A i \in 1..Len(outcomes[r]) : outcomes'[r][i] = outcomes[r][i]
    BY <1>1, RequestType, Appended
<1>3. Replayable(kind[r]) /\ source[r] = "buffered"
    <2>1. Attempts(kind[r]) > 1
        BY RequestType, AttemptsType, Constants DEF IsLast
    <2>2. Replayable(kind[r])
        BY <2>1, AttemptsType
    <2> QED BY <1>1, <2>2, RequestType DEF Story, Stage
<1>4. Len(outcomes[r]) = attempt[r] /\ Len(sent[r]) = attempt[r] + 1 /\ ~body_exceeds_limit(kind[r])
      /\ passed[r] = <<>>
    BY <1>1 DEF Story, Stage
<1>5. Stage(r)'
    BY <1>1, <1>2, <1>3, <1>4, RequestType DEF Stage
<1>6. Licensed(r)'
    <2>1. \A i \in 1..attempt'[r] : i \in 1..attempt[r] \/ i = attempt[r] + 1
        BY <1>1, RequestType
    <2>2. \A i \in 1..attempt[r] : Retryable(outcomes'[r][i])
        BY <1>2, <1>4 DEF Story, Licensed
    <2>3. \A i \in 1..attempt'[r] : Retryable(outcomes'[r][i])
        BY <1>2, <1>4, <2>1, <2>2
    <2> QED BY <1>1, <1>2, <1>3, <1>4, <2>3, RequestType DEF Story, Licensed, Retryable
<1>7. Truthful(r)'
    BY <1>1 DEF Truthful
<1> QED BY <1>5, <1>6, <1>7 DEF Story

LEMMA StoryStep ==
    ASSUME Typed, [Next]_vars, \A q \in Requests : Story(q)
    PROVE  \A q \in Requests : Story(q)'
<1> USE DEF request, history
<1>1. kind' = kind
    BY KindIsKept
<1>2. ASSUME NEW r \in Requests, NEW err \in ClientErrors, TurnedAway(r, err) PROVE Story(r)'
    <2>1. pc[r] = "new" /\ Finish(r, err, Counted) /\ UNCHANGED <<kind, source, attempt, sent, outcomes>>
        BY <1>2 DEF TurnedAway
    <2>2. Len(outcomes[r]) = 0 /\ attempt[r] = 0
        BY <2>1 DEF Story, Stage
    <2> QED BY <2>1, <2>2, GivenUp DEF ClientErrors
<1>3. ASSUME NEW r \in Requests, Accept(r) \/ AcceptUpgrade(r) PROVE Story(r)'
    <2>1. /\ pc[r] = "new"
          /\ \/ pc'[r] = "pick"
             \/ ~body_exceeds_limit(kind[r]) /\ pc'[r] = IF Replayable(kind[r]) THEN "body" ELSE "attempt"
          /\ UNCHANGED <<kind, source, attempt, last_err, sent, outcomes, passed>>
        BY <1>3 DEF Accept, AcceptUpgrade, Typed, TypeOK
    <2>2. Stage(r)'
        BY <2>1, RequestType DEF Story, Stage
    <2> QED BY <2>1, <2>2 DEF Story, Licensed, Truthful
<1>4. ASSUME NEW r \in Requests, BufferBody(r) PROVE Story(r)'
    <2>1. /\ pc[r] = "body" /\ pc'[r] = "attempt" /\ source'[r] \in {"buffered", "spent"}
          /\ source'[r] = "buffered" => kind[r].size <= BODY_BUFFER_CAP
          /\ UNCHANGED <<kind, attempt, last_err, sent, outcomes, passed>>
        BY <1>4 DEF BufferBody, Typed, TypeOK
    <2>2. Stage(r)' /\ Licensed(r)' /\ Truthful(r)'
        BY <2>1, RequestType DEF Story, Stage, Licensed, Truthful
    <2> QED BY <2>2 DEF Story
<1>5. ASSUME NEW r \in Requests, Attempt(r), ~AttemptSend(r), ~PassOver(r) PROVE Story(r)'
    <2>1. PICK res \in {"NoHealthyUpstream", "BadGateway"} :
             pc[r] = "attempt" /\ Finish(r, res, metrics) /\ UNCHANGED <<kind, source, attempt, sent, outcomes>>
        <3>1. AttemptSpent(r) => last_err[r] = "NoHealthyUpstream"
            BY RequestType DEF AttemptSpent, Story, Stage, Licensed
        <3> QED BY <1>5, <3>1 DEF Attempt, AttemptNone, AttemptSpent, AttemptUnbuildable
    <2>2. Len(sent[r]) = attempt[r] /\ Len(outcomes[r]) = attempt[r]
        BY <2>1 DEF Story, Stage
    <2> QED BY <2>1, <2>2, GivenUp
<1>6. ASSUME NEW r \in Requests, AttemptSend(r) PROVE Story(r)'
    <2>1. Claimed \in Targets
        BY PickType DEF Typed, TypeOK
    <2>2. /\ pc[r] = "attempt" /\ pc'[r] = "await" /\ source[r] # "spent"
          /\ sent'[r] = Append(sent[r], Claimed) /\ passed'[r] = <<>>
          /\ UNCHANGED <<kind, source, attempt, last_err, outcomes>>
        BY <1>6 DEF AttemptSend, Picks, Typed, TypeOK
    <2>3. Len(sent'[r]) = Len(sent[r]) + 1
        BY <2>1, <2>2, RequestType, Appended
    <2>4. Stage(r)'
        BY <2>2, <2>3, RequestType DEF Story, Stage
    <2> QED BY <2>2, <2>4 DEF Story, Licensed, Truthful
<1>7. ASSUME NEW r \in Requests, AttemptEnds(r) PROVE Story(r)'
    <2>1. pc[r] = "await" /\ {"timeout", "overflow", "failed", "ok", "5xx"} \subseteq Outcomes
        BY <1>7 DEF AttemptEnds, Timeout, Overflow, SendFails, Responds, Responds5xx, Ended, Outcomes
    <2>2. ASSUME NEW res, NEW o \in Outcomes, Ended(r, o), Stop(r, res),
                 \/ res \in Responses /\ o = res
                 \/ res = "UpstreamConnect" /\ o = "failed"
                 \/ res = "UpstreamTimeout" /\ o = "timeout"
                 \/ res = "PayloadTooLarge" /\ o = "overflow"
          PROVE  Story(r)'
        BY <2>1, <2>2, Stopped DEF Ended, Stop
    <2>3. CASE Timeout(r) \/ Overflow(r)
        BY <2>1, <2>2, <2>3 DEF Timeout, Overflow
    <2>4. CASE Responds(r)
        BY <2>1, <2>2, <2>4 DEF Responds, Responses
    <2>5. CASE SendFails(r)
        <3>1. Retryable("failed") <=> on_connect_failure
            BY DEF Retryable
        <3> QED BY <2>1, <2>2, <2>5, <3>1, GoesAgain DEF SendFails
    <2>6. CASE Responds5xx(r)
        <3>1. Retryable("5xx") <=> on_5xx
            BY DEF Retryable
        <3> QED BY <2>1, <2>2, <2>6, <3>1, GoesAgain DEF Responds5xx, Responses
    <2> QED BY <1>7, <2>3, <2>4, <2>5, <2>6 DEF AttemptEnds
<1>8. ASSUME NEW r \in Requests, UpgradeNone(r) \/ UpgradeUnbuildable(r) PROVE Story(r)'
    <2>1. PICK res \in {"NoHealthyUpstream", "BadGateway"} :
             pc[r] = "pick" /\ Finish(r, res, metrics) /\ UNCHANGED <<kind, source, attempt, sent, outcomes>>
        BY <1>8 DEF UpgradeNone, UpgradeUnbuildable
    <2>2. Len(sent[r]) = 0 /\ attempt[r] = 0 /\ Len(outcomes[r]) = 0
        BY <2>1 DEF Story, Stage
    <2> QED BY <2>1, <2>2, GivenUp
<1>9. ASSUME NEW r \in Requests, UpgradeSend(r) PROVE Story(r)'
    <2>1. Claimed \in Targets
        BY PickType DEF Typed, TypeOK
    <2>2. /\ pc[r] = "pick" /\ pc'[r] = "upgrade" /\ sent'[r] = Append(sent[r], Claimed) /\ passed'[r] = <<>>
          /\ UNCHANGED <<kind, source, attempt, last_err, outcomes>>
        BY <1>9 DEF UpgradeSend, Picks, Typed, TypeOK
    <2>3. Len(sent'[r]) = Len(sent[r]) + 1
        BY <2>1, <2>2, RequestType, Appended
    <2>4. Stage(r)'
        BY <2>2, <2>3, RequestType DEF Story, Stage
    <2> QED BY <2>2, <2>4 DEF Story, Licensed, Truthful
<1>10. ASSUME NEW r \in Requests, NEW res \in Responses \union {"UpstreamConnect"}, UpgradeAnswered(r, res)
       PROVE  Story(r)'
    <2>1. res \in Outcomes
        BY DEF Responses, Outcomes
    <2>2. PICK m : Finish(r, res, m)
        BY <1>10 DEF UpgradeAnswered
    <2> QED BY <1>10, <2>1, <2>2, Stopped DEF UpgradeAnswered
<1>11. ASSUME NEW r \in Requests, Dropped(r) PROVE Story(r)'
    <2>1. pc'[r] = "dropped" /\ UNCHANGED <<kind, source, attempt, last_err, sent, outcomes>>
        BY <1>11 DEF Dropped, Typed, TypeOK
    <2> QED BY <2>1 DEF Story, Stage, Licensed, Truthful
<1>15. ASSUME NEW r \in Requests, PassOver(r) PROVE Story(r)'
    <2>1. /\ pc[r] \in {"attempt", "pick"} /\ Len(passed[r]) + 1 # Len(Sched)
          /\ passed'[r] = Append(passed[r], next)
          /\ UNCHANGED <<pc, kind, source, attempt, last_err, result, sent, outcomes>>
        BY <1>15 DEF PassOver, Passes, IsLastSlot, Typed, TypeOK
    <2>2. next \in 1..Len(Sched)
        BY DEF Typed, TypeOK
    <2>3. Len(passed'[r]) = Len(passed[r]) + 1
        BY <2>1, <2>2, RequestType, Appended
    <2>4. Stage(r)'
        BY <2>1, <2>3, RequestType DEF Story, Stage
    <2> QED BY <2>1, <2>4 DEF Story, Licensed, Truthful
<1>12. ASSUME NEW r \in Requests, Step(r) PROVE Story(r)'
    BY <1>2, <1>3, <1>4, <1>5, <1>6, <1>7, <1>8, <1>9, <1>12, <1>15, ResultsAre
       DEF Step, RouteNotFound, Forbidden, TooManyRequests, Unauthorized, TooLarge, UpgradeAttempt
<1>13. ASSUME NEW r \in Requests,
              Step(r) \/ Dropped(r) \/ \E res \in Responses \union {"UpstreamConnect"} : UpgradeAnswered(r, res)
       PROVE  \A q \in Requests : Story(q)'
    <2>1. \A q \in Requests \ {r} : Story(q)'
        BY <1>1, <1>13, OneAtATime, StoryKept
    <2> QED BY <1>10, <1>11, <1>12, <1>13, <2>1
<1>14. CASE UNCHANGED vars \/ \E t \in Targets, ok \in BOOLEAN : Probe(t, ok)
    <2>1. UNCHANGED <<pc, request, history>>
        BY <1>14 DEF vars, Probe
    <2>2. \A q \in Requests : Untouched(q)
        BY <2>1 DEF Untouched
    <2> QED BY <1>1, <2>2, StoryKept
<1> QED BY <1>13, <1>14 DEF Next

Stories == Typed /\ \A r \in Requests : Story(r)

LEMMA StoriesInvariant == Spec => []Stories
<1>1. Init => Stories
    BY TypedInit, StoryInit DEF Stories
<1>2. Stories /\ [Next]_vars => Stories'
    BY TypedStep, StoryStep DEF Stories
<1> QED BY <1>1, <1>2, PTL DEF Spec

(***************************************************************************)
(* forward never sends a request again unless the policy lists its method, *)
(* its body was buffered whole, the budget of tries allows it and the      *)
(* attempt before ended in a way retryOn names; for any policy.            *)
(***************************************************************************)
THEOREM RetriesLicensed == Spec => []RetriesAreLicensed
<1>1. ASSUME Stories PROVE RetriesAreLicensed
    <2> SUFFICES ASSUME NEW r \in Requests
                 PROVE  /\ Len(sent[r]) > 1 => /\ kind[r].method_listed
                                               /\ source[r] = "buffered"
                                               /\ Len(sent[r]) <= max_attempts
                        /\ \A i \in 1..(Len(sent[r]) - 1) : Retryable(outcomes[r][i])
        BY DEF RetriesAreLicensed, Retryable
    <2>1. Stage(r) /\ Licensed(r) /\ Typed
        BY <1>1 DEF Stories, Story
    <2>2. Len(sent[r]) <= attempt[r] + 1 /\ attempt[r] \in Nat /\ Len(sent[r]) \in Nat
          /\ attempt[r] < Attempts(kind[r])
        BY <2>1, RequestType DEF Stage
    <2>3. ASSUME Len(sent[r]) > 1
          PROVE  kind[r].method_listed /\ source[r] = "buffered" /\ Len(sent[r]) <= max_attempts
        <3>1. attempt[r] > 0
            BY <2>2, <2>3
        <3> QED BY <2>1, <2>2, <3>1, AttemptsType, Constants DEF Licensed, Replayable
    <2>4. ASSUME NEW i \in 1..(Len(sent[r]) - 1) PROVE Retryable(outcomes[r][i])
        <3>1. i \in 1..attempt[r]
            BY <2>2
        <3> QED BY <2>1, <3>1 DEF Licensed
    <2> QED BY <2>3, <2>4
<1> QED BY <1>1, StoriesInvariant, PTL

(***************************************************************************)
(* A body over maxBodyBytes reaches an answering target whole only if it   *)
(* was buffered for replay: chunked, and no larger than the buffer.        *)
(***************************************************************************)
THEOREM OversizeIsCut == Spec => []OversizeNotDelivered
<1>1. Init => OversizeNotDelivered
    BY DEF Init, OversizeNotDelivered
<1>2. ASSUME Stories, OversizeNotDelivered, [Next]_vars PROVE OversizeNotDelivered'
    <2>1. kind' = kind
        BY <1>2, KindIsKept
    <2>2. ASSUME NEW r \in Requests, Responds(r) \/ Responds5xx(r) PROVE OversizeNotDelivered'
        <3>1. delivered' = (IF Capped(r) THEN delivered ELSE delivered \union {r}) /\ pc[r] = "await"
            BY <2>2 DEF Responds, Responds5xx, Ended
        <3>2. ASSUME ~Capped(r)
              PROVE  \/ max_body_bytes = 0 \/ kind[r].size <= max_body_bytes
                     \/ Replayable(kind[r]) /\ ~kind[r].declared /\ kind[r].size <= BODY_BUFFER_CAP
            <4>1. source[r] \in {"once", "buffered"} /\ ~body_exceeds_limit(kind[r])
                  /\ (source[r] = "buffered" => Replayable(kind[r]) /\ kind[r].size <= BODY_BUFFER_CAP)
                BY <1>2, <3>1, RequestType DEF Stories, Story, Stage, Licensed
            <4>2. kind[r].size \in Nat /\ max_body_bytes \in Nat
                BY <1>2, Constants DEF Stories, Typed, TypeOK
            <4> QED BY <3>2, <4>1, <4>2 DEF Capped, body_exceeds_limit
        <3> QED BY <1>2, <2>1, <3>1, <3>2 DEF OversizeNotDelivered
    <2>3. CASE UNCHANGED delivered
        BY <1>2, <2>1, <2>3 DEF OversizeNotDelivered
    <2>4. \/ UNCHANGED delivered
          \/ \E r \in Requests : Responds(r) \/ Responds5xx(r)
        BY <1>2 DEF Next, vars, Step, RouteNotFound, Forbidden, TooManyRequests, Unauthorized, TooLarge,
               TurnedAway, Accept, AcceptUpgrade, BufferBody, Attempt, PassOver, AttemptNone, AttemptSpent, AttemptUnbuildable,
               AttemptSend, AttemptEnds, Timeout, Overflow, SendFails, UpgradeNone, UpgradeUnbuildable,
               UpgradeSend, UpgradeAttempt, UpgradeAnswered, Dropped, Probe, history
    <2> QED BY <2>2, <2>3, <2>4
<1> QED BY <1>1, <1>2, StoriesInvariant, PTL DEF Spec

-----------------------------------------------------------------------------
(* CountersAddUp.  Each step moves one request, and the counters by what   *)
(* that request adds to the sets they count.                               *)

Started == {r \in Requests : pc[r] # "new"}

Counting == IsFiniteSet(Started) /\ IsFiniteSet(Rounds) /\ CountersAddUp

Bit(b) == IF b THEN 1 ELSE 0

Moves(r) ==
    /\ \A q \in Requests \ {r} : Untouched(q)
    /\ pc'[r] # "new" /\ pc[r] # "done"
    /\ attempt'[r] \in {attempt[r], attempt[r] + 1}

Counts(r) ==
    /\ metrics'["requests"] = metrics["requests"] + Bit(pc[r] = "new")
    /\ metrics'["upstream_requests"]
          = metrics["upstream_requests"] + Bit(pc'[r] = "done" /\ result'[r] \in Responses)
    /\ metrics'["route_not_found"]
          = metrics["route_not_found"] + Bit(pc'[r] = "done" /\ result'[r] \in {"RouteNotFound"})
    /\ metrics'["upstream_errors"]
          = metrics["upstream_errors"] + Bit(pc'[r] = "done" /\ result'[r] \in GatewayErrors \ ClientErrors)
    /\ metrics'["upstream_retries"] = metrics["upstream_retries"] + Bit(attempt'[r] # attempt[r])

LEMMA StartedCount ==
    ASSUME NEW r \in Requests, IsFiniteSet(Started), Moves(r)
    PROVE  /\ IsFiniteSet(Started)'
           /\ Cardinality(Started)' = Cardinality(Started) + Bit(pc[r] = "new")
           /\ Cardinality(Started) \in Nat
<1>1. Cardinality(Started) \in Nat
    BY FS_CardinalityType
<1>2. CASE pc[r] = "new"
    <2>1. Started' = Started \union {r} /\ r \notin Started
        BY <1>2 DEF Started, Moves, Untouched
    <2>2. IsFiniteSet(Started \union {r}) /\ Cardinality(Started \union {r}) = Cardinality(Started) + 1
        BY <2>1, FS_AddElement
    <2> QED BY <1>1, <1>2, <2>1, <2>2 DEF Bit
<1>3. CASE pc[r] # "new"
    <2>1. Started' = Started
        BY <1>3 DEF Started, Moves, Untouched
    <2> QED BY <1>1, <1>3, <2>1 DEF Bit
<1> QED BY <1>2, <1>3

LEMMA AnsweredCount ==
    ASSUME NEW r \in Requests, NEW S, IsFiniteSet(Started), Moves(r)
    PROVE  /\ Cardinality(Answered(S))' = Cardinality(Answered(S)) + Bit(pc'[r] = "done" /\ result'[r] \in S)
           /\ Cardinality(Answered(S)) \in Nat
<1>1. Answered(S) \subseteq Started
    BY DEF Answered, Started
<1>2. IsFiniteSet(Answered(S)) /\ Cardinality(Answered(S)) \in Nat
    BY <1>1, FS_Subset, FS_CardinalityType
<1>3. CASE pc'[r] = "done" /\ result'[r] \in S
    <2>1. Answered(S)' = Answered(S) \union {r} /\ r \notin Answered(S)
        BY <1>3 DEF Answered, Moves, Untouched
    <2>2. Cardinality(Answered(S) \union {r}) = Cardinality(Answered(S)) + 1
        BY <1>2, <2>1, FS_AddElement
    <2> QED BY <1>2, <1>3, <2>1, <2>2 DEF Bit
<1>4. CASE ~(pc'[r] = "done" /\ result'[r] \in S)
    <2>1. Answered(S)' = Answered(S)
        BY <1>4 DEF Answered, Moves, Untouched
    <2> QED BY <1>2, <1>4, <2>1 DEF Bit
<1> QED BY <1>3, <1>4

LEMMA RoundsCount ==
    ASSUME Typed, Typed', NEW r \in Requests, IsFiniteSet(Rounds), Moves(r)
    PROVE  /\ IsFiniteSet(Rounds)'
           /\ Cardinality(Rounds)' = Cardinality(Rounds) + Bit(attempt'[r] # attempt[r])
           /\ Cardinality(Rounds) \in Nat
<1>1. Cardinality(Rounds) \in Nat
    BY FS_CardinalityType
<1>2. \A q \in Requests : attempt[q] \in Nat /\ attempt'[q] \in 0..max_attempts
    BY Constants DEF Typed, TypeOK
<1>3. CASE attempt'[r] = attempt[r] + 1
    <2>1. PICK e \in Requests \X (1..max_attempts) : e = <<r, attempt[r] + 1>>
        <3>1. attempt[r] + 1 \in 1..max_attempts
            BY <1>2, <1>3, Constants
        <3> QED BY <3>1
    <2>2. e \notin Rounds
        BY <1>2, <2>1 DEF Rounds
    <2>3. ASSUME NEW f \in Requests \X (1..max_attempts)
          PROVE  f \in Rounds' <=> f \in Rounds \/ f = e
        <3>1. f[1] \in Requests /\ f[2] \in Nat /\ f = <<f[1], f[2]>>
            BY Constants
        <3>2. CASE f[1] = r
            <4>1. f = e <=> f[2] = attempt[r] + 1
                BY <2>1, <3>1, <3>2
            <4>2. f \in Rounds <=> f[2] <= attempt[r]
                BY <3>2 DEF Rounds
            <4>3. f \in Rounds' <=> f[2] <= attempt[r] + 1
                BY <1>3, <3>2 DEF Rounds
            <4> QED BY <1>2, <3>1, <4>1, <4>2, <4>3
        <3>3. CASE f[1] # r
            BY <2>1, <3>1, <3>3 DEF Rounds, Moves, Untouched
        <3> QED BY <3>2, <3>3
    <2>4. Rounds' = Rounds \union {e}
        <3>1. Rounds \subseteq Requests \X (1..max_attempts) /\ Rounds' \subseteq Requests \X (1..max_attempts)
            BY DEF Rounds
        <3> QED BY <2>1, <2>3, <3>1
    <2>5. IsFiniteSet(Rounds \union {e}) /\ Cardinality(Rounds \union {e}) = Cardinality(Rounds) + 1
        BY <2>2, FS_AddElement
    <2>6. attempt'[r] # attempt[r]
        BY <1>2, <1>3
    <2> QED BY <1>1, <2>4, <2>5, <2>6 DEF Bit
<1>4. CASE attempt'[r] = attempt[r]
    <2>1. Rounds' = Rounds
        BY <1>4 DEF Rounds, Moves, Untouched
    <2> QED BY <1>1, <1>4, <2>1 DEF Bit
<1> QED BY <1>3, <1>4 DEF Moves

LEMMA CountingKept ==
    ASSUME Typed, Typed', Counting, NEW r \in Requests, Moves(r), Counts(r)
    PROVE  Counting'
<1>1. /\ IsFiniteSet(Started)'
      /\ Cardinality(Started)' = Cardinality(Started) + Bit(pc[r] = "new")
    BY StartedCount DEF Counting
<1>2. \A S : Cardinality(Answered(S))' = Cardinality(Answered(S)) + Bit(pc'[r] = "done" /\ result'[r] \in S)
    BY AnsweredCount DEF Counting
<1>3. /\ IsFiniteSet(Rounds)'
      /\ Cardinality(Rounds)' = Cardinality(Rounds) + Bit(attempt'[r] # attempt[r])
    BY RoundsCount DEF Counting
<1>4. metrics'.requests = Cardinality(Started)'
    BY <1>1 DEF Counting, CountersAddUp, Counts, Started
<1>5. metrics'.upstream_requests = Cardinality(Answered(Responses))'
    BY <1>2 DEF Counting, CountersAddUp, Counts
<1>6. metrics'.route_not_found = Cardinality(Answered({"RouteNotFound"}))'
    BY <1>2 DEF Counting, CountersAddUp, Counts
<1>7. metrics'.upstream_errors = Cardinality(Answered(GatewayErrors \ ClientErrors))'
    BY <1>2 DEF Counting, CountersAddUp, Counts
<1>8. metrics'.upstream_retries = Cardinality(Rounds)'
    BY <1>3 DEF Counting, CountersAddUp, Counts
<1> QED BY <1>1, <1>3, <1>4, <1>5, <1>6, <1>7, <1>8 DEF Counting, CountersAddUp, Started

\* What handle's epilogue adds to the counters it is given.
LEMMA FinishCounts ==
    ASSUME Typed, NEW r \in Requests, NEW res \in GatewayErrors \union Responses,
           NEW m \in [Counters -> Nat], Finish(r, res, m)
    PROVE  /\ pc'[r] = "done" /\ result'[r] = res
           /\ metrics'["requests"] = m["requests"]
           /\ metrics'["upstream_retries"] = m["upstream_retries"]
           /\ metrics'["upstream_requests"] = m["upstream_requests"] + Bit(res \in Responses)
           /\ metrics'["route_not_found"] = m["route_not_found"] + Bit(res \in {"RouteNotFound"})
           /\ metrics'["upstream_errors"] = m["upstream_errors"] + Bit(res \in GatewayErrors \ ClientErrors)
<1>1. pc'[r] = "done" /\ result'[r] = res
    BY DEF Finish, Typed, TypeOK
<1>2. /\ \A c \in {"requests", "upstream_requests", "upstream_errors", "route_not_found",
                   "upstream_retries"} : m[c] \in Nat
      /\ {"upstream_requests", "upstream_errors", "route_not_found"} \subseteq Counters
    BY DEF Counters
<1>3. ASSUME NEW c \in {"upstream_requests", "upstream_errors", "route_not_found"}
      PROVE  /\ Inc(m, c)[c] = m[c] + 1
             /\ \A d \in {"requests", "upstream_requests", "upstream_errors", "route_not_found",
                         "upstream_retries"} \ {c} : Inc(m, c)[d] = m[d]
    <2>1. c \in Counters
        BY <1>2
    <2>2. Inc(m, c)[c] = m[c] + 1 /\ \A d \in Counters \ {c} : Inc(m, c)[d] = m[d]
        BY <2>1, IncType
    <2> QED BY <2>2 DEF Counters
<1>4. CASE res \in Responses
    <2>1. res \notin GatewayErrors /\ res \notin ClientErrors /\ res # "RouteNotFound"
        BY <1>4, ResultsAre
    <2>2. metrics' = Inc(m, "upstream_requests")
        BY <1>4, <2>1 DEF Finish
    <2> QED BY <1>1, <1>2, <1>3, <1>4, <2>1, <2>2 DEF Bit
<1>5. CASE res = "RouteNotFound"
    <2>1. res \in ClientErrors /\ res \notin Responses
        BY <1>5, ResultsAre
    <2>2. metrics' = Inc(m, "route_not_found")
        BY <1>5, <2>1 DEF Finish
    <2> QED BY <1>1, <1>2, <1>3, <1>5, <2>1, <2>2 DEF Bit
<1>6. CASE res \in ClientErrors /\ res # "RouteNotFound"
    <2>1. res \notin Responses
        BY <1>6, ResultsAre
    <2>2. metrics' = m
        BY <1>6, <2>1 DEF Finish
    <2> QED BY <1>1, <1>2, <1>6, <2>1, <2>2 DEF Bit
<1>7. CASE res \in GatewayErrors \ ClientErrors
    <2>1. res \notin Responses /\ res # "RouteNotFound"
        BY <1>7, ResultsAre
    <2>2. metrics' = Inc(m, "upstream_errors")
        BY <1>7, <2>1 DEF Finish
    <2> QED BY <1>1, <1>2, <1>3, <1>7, <2>1, <2>2 DEF Bit
<1> QED BY <1>4, <1>5, <1>6, <1>7

\* A request that is answered when it arrives, and one that is answered later.
LEMMA AnsweredOnArrival ==
    ASSUME Typed, NEW r \in Requests, NEW res \in GatewayErrors \union Responses,
           Finish(r, res, Counted), pc[r] = "new", UNCHANGED attempt
    PROVE  Counts(r)
<1>1. /\ Counted \in [Counters -> Nat] /\ metrics \in [Counters -> Nat]
      /\ Counted["requests"] = metrics["requests"] + 1
      /\ \A c \in Counters \ {"requests"} : Counted[c] = metrics[c]
    BY MetricsType, IncType DEF Counted, Counters
<1> QED BY <1>1, FinishCounts DEF Counts, Bit, Counters

LEMMA AnsweredLater ==
    ASSUME Typed, NEW r \in Requests, NEW res \in GatewayErrors \union Responses,
           Finish(r, res, metrics) \/ Finish(r, res, Inc(metrics, "websockets")),
           pc[r] # "new", UNCHANGED attempt
    PROVE  Counts(r)
<1>1. PICK m \in [Counters -> Nat] :
         Finish(r, res, m) /\ \A c \in Counters \ {"websockets"} : m[c] = metrics[c]
    BY MetricsType, IncType DEF Counters
<1>2. metrics["requests"] \in Nat /\ metrics["upstream_retries"] \in Nat
    BY MetricsType DEF Counters
<1> QED BY <1>1, <1>2, FinishCounts DEF Counts, Bit, Counters

LEMMA RequestCounts ==
    ASSUME Typed, NEW r \in Requests,
           Step(r) \/ Dropped(r) \/ \E res \in Responses \union {"UpstreamConnect"} : UpgradeAnswered(r, res)
    PROVE  Moves(r) /\ Counts(r)
<1>1. \A q \in Requests \ {r} : Untouched(q)
    BY OneAtATime
<1>2. /\ metrics \in [Counters -> Nat]
      /\ Counted["requests"] = metrics["requests"] + 1
      /\ \A c \in Counters \ {"requests"} : Counted[c] = metrics[c]
      /\ \A c \in Counters : metrics[c] \in Nat
    BY MetricsType, IncType DEF Counted, Counters
<1> USE DEF request
<1>3. ASSUME NEW err \in ClientErrors, TurnedAway(r, err) PROVE Moves(r) /\ Counts(r)
    <2>1. Counts(r)
        BY <1>3, AnsweredOnArrival, ResultsAre DEF TurnedAway
    <2>2. pc'[r] = "done" /\ pc[r] = "new" /\ attempt' = attempt
        BY <1>3 DEF TurnedAway, Finish, Typed, TypeOK
    <2> QED BY <1>1, <2>1, <2>2 DEF Moves
<1>4. ASSUME Accept(r) \/ AcceptUpgrade(r) PROVE Moves(r) /\ Counts(r)
    <2>1. pc'[r] \in {"body", "attempt", "pick"} /\ pc[r] = "new" /\ attempt' = attempt
          /\ metrics' = Counted
        BY <1>4 DEF Accept, AcceptUpgrade, Typed, TypeOK
    <2> QED BY <1>1, <1>2, <2>1 DEF Moves, Counts, Bit, Counters
<1>5. ASSUME BufferBody(r) \/ AttemptSend(r) \/ UpgradeSend(r) \/ PassOver(r) \/ Dropped(r)
      PROVE  Moves(r) /\ Counts(r)
    <2>1. pc'[r] \in {"attempt", "await", "pick", "upgrade", "dropped"} /\ pc[r] \notin {"new", "done"}
          /\ attempt' = attempt /\ metrics' = metrics
        BY <1>5 DEF BufferBody, AttemptSend, UpgradeSend, PassOver, Dropped, Typed, TypeOK
    <2> QED BY <1>1, <1>2, <2>1 DEF Moves, Counts, Bit, Counters
<1>6. ASSUME AttemptNone(r) \/ AttemptSpent(r) \/ AttemptUnbuildable(r)
             \/ UpgradeNone(r) \/ UpgradeUnbuildable(r)
      PROVE  Moves(r) /\ Counts(r)
    <2>1. PICK res \in GatewayErrors : Finish(r, res, metrics)
        <3>1. last_err[r] \in GatewayErrors
            BY DEF Typed, TypeOK
        <3> QED BY <1>6, <3>1, ResultsAre
                DEF AttemptNone, AttemptSpent, AttemptUnbuildable, UpgradeNone, UpgradeUnbuildable
    <2>2. pc[r] \in {"attempt", "pick"} /\ attempt' = attempt
        BY <1>6 DEF AttemptNone, AttemptSpent, AttemptUnbuildable, UpgradeNone, UpgradeUnbuildable
    <2>3. Counts(r)
        BY <2>1, <2>2, AnsweredLater
    <2>4. pc'[r] = "done"
        BY <2>1 DEF Finish, Typed, TypeOK
    <2> QED BY <1>1, <2>2, <2>3, <2>4 DEF Moves
<1>8. ASSUME NEW res \in GatewayErrors \union Responses, pc[r] = "await", Stop(r, res)
      PROVE  Moves(r) /\ Counts(r)
    <2>1. Counts(r)
        BY <1>8, AnsweredLater DEF Stop
    <2>2. pc'[r] = "done" /\ attempt' = attempt
        BY <1>8 DEF Stop, Finish, Typed, TypeOK
    <2> QED BY <1>1, <1>8, <2>1, <2>2 DEF Moves
<1>9. ASSUME pc[r] = "await", Again(r) PROVE Moves(r) /\ Counts(r)
    <2>1. pc'[r] = "attempt" /\ attempt'[r] = attempt[r] + 1 /\ attempt'[r] # attempt[r]
          /\ metrics' = Inc(metrics, "upstream_retries")
        BY <1>9, Constants DEF Again, Typed, TypeOK
    <2>2. metrics'["upstream_retries"] = metrics["upstream_retries"] + 1
          /\ \A c \in Counters \ {"upstream_retries"} : metrics'[c] = metrics[c]
        BY <1>2, <2>1, IncType DEF Counters
    <2> QED BY <1>1, <1>2, <1>9, <2>1, <2>2 DEF Moves, Counts, Bit, Counters
<1>10. ASSUME AttemptEnds(r) PROVE Moves(r) /\ Counts(r)
    <2>1. pc[r] = "await"
        BY <1>10 DEF AttemptEnds, Timeout, Overflow, SendFails, Responds, Responds5xx, Ended
    <2>2. Again(r) \/ \E res \in GatewayErrors \union Responses : Stop(r, res)
        BY <1>10, ResultsAre DEF AttemptEnds, Timeout, Overflow, SendFails, Responds, Responds5xx
    <2> QED BY <1>8, <1>9, <2>1, <2>2
<1>11. ASSUME NEW res \in Responses \union {"UpstreamConnect"}, UpgradeAnswered(r, res)
       PROVE  Moves(r) /\ Counts(r)
    <2>1. Finish(r, res, metrics) \/ Finish(r, res, Inc(metrics, "websockets"))
        BY <1>11 DEF UpgradeAnswered
    <2>2. pc[r] = "upgrade" /\ attempt' = attempt
        BY <1>11 DEF UpgradeAnswered
    <2>3. Counts(r)
        BY <2>1, <2>2, AnsweredLater, ResultsAre
    <2>4. pc'[r] = "done"
        BY <2>1 DEF Finish, Typed, TypeOK
    <2> QED BY <1>1, <2>2, <2>3, <2>4 DEF Moves
<1> QED BY <1>3, <1>4, <1>5, <1>6, <1>10, <1>11, ResultsAre
        DEF Step, RouteNotFound, Forbidden, TooManyRequests, Unauthorized, TooLarge, Attempt, UpgradeAttempt

(***************************************************************************)
(* Metrics add up at every moment, for any number of requests, policy and  *)
(* interleaving, requests whose client left included.                      *)
(***************************************************************************)
THEOREM CountersAreExact == Spec => []CountersAddUp
<1>1. Init => Counting
    <2> SUFFICES ASSUME Init PROVE Counting
        OBVIOUS
    <2>1. Started = {} /\ \A S : Answered(S) = {}
        BY DEF Init, Started, Answered
    <2>2. Rounds = {}
        BY Constants DEF Init, Rounds
    <2> QED BY <2>1, <2>2, FS_EmptySet DEF Init, ZeroMetrics, Counting, CountersAddUp, Started
<1>2. ASSUME Typed, Typed', Counting, [Next]_vars PROVE Counting'
    <2>1. ASSUME NEW r \in Requests,
                 Step(r) \/ Dropped(r)
                 \/ \E res \in Responses \union {"UpstreamConnect"} : UpgradeAnswered(r, res)
          PROVE  Counting'
        BY <1>2, <2>1, RequestCounts, CountingKept
    <2>2. CASE UNCHANGED vars \/ \E t \in Targets, ok \in BOOLEAN : Probe(t, ok)
        <3>1. UNCHANGED <<pc, attempt, result, metrics>>
            BY <2>2 DEF vars, Probe, request
        <3>2. Started' = Started /\ Rounds' = Rounds /\ \A S : Answered(S)' = Answered(S)
            BY <3>1 DEF Started, Rounds, Answered
        <3> QED BY <1>2, <3>1, <3>2 DEF Counting, CountersAddUp, Started
    <2> QED BY <1>2, <2>1, <2>2 DEF Next
<1>3. Counting => CountersAddUp
    BY DEF Counting
<1> QED BY <1>1, <1>2, <1>3, TypedInvariant, PTL DEF Spec

-----------------------------------------------------------------------------
(* pick_target's walk.  As long as no other request claims a slot, the     *)
(* slots a request passes over follow each other; and until another        *)
(* request claims one, a retry starts at the slot after the one whose      *)
(* target the request was sent to last.                                    *)

\* k slots after the slot s, and the slot before it.
Ahead(s, k) == IF s + k > Len(Sched) THEN s + k - Len(Sched) ELSE s + k
Before(s) == IF s = 1 THEN Len(Sched) ELSE s - 1

\* The walk began at the slot s and has claimed the slots from there.
Tread(r, s) ==
    /\ next = Ahead(s, Len(passed[r]))
    /\ \A i \in 1..Len(passed[r]) : passed[r][i] = Ahead(s, i - 1)

Stride(r) ==
    pc[r] \in {"attempt", "pick"} /\ r \notin crowded => \E s \in 1..Len(Sched) : Tread(r, s)

InLoop(r) == pc[r] = "await" \/ (pc[r] = "attempt" /\ attempt[r] > 0)

Trail(r) ==
    InLoop(r) /\ ~rivals[r] =>
        \E s \in 1..Len(Sched) : Tread(r, s) /\ target[r] = Sched[Before(s)]

Slots == {Sched[i] : i \in 1..Len(Sched)}

Searched(r) ==
    pc[r] = "done" /\ result[r] = "NoHealthyUpstream" =>
        \/ source[r] = "spent"
        \/ Len(passed[r]) = Len(Sched) /\ (r \in crowded \/ FoundUnhealthy(r) = Slots)

Walks(r) == Stride(r) /\ Trail(r) /\ Searched(r)

\* A walk that has passed over nothing begins at the position.
LEMMA StartsHere ==
    ASSUME NEW s \in 1..Len(Sched), NEW w, w = <<>>
    PROVE  Ahead(s, Len(w)) = s /\ \A i \in 1..Len(w) : w[i] = Ahead(s, i - 1)
<1>1. Len(w) = 0
    OBVIOUS
<1> QED BY <1>1, Constants DEF Ahead

LEMMA TreadOn ==
    ASSUME Typed, NEW r \in Requests, Passes(r), Len(passed[r]) < Len(Sched),
           NEW s \in 1..Len(Sched), Tread(r, s)
    PROVE  Tread(r, s)' /\ Len(passed'[r]) = Len(passed[r]) + 1
<1>1. PICK k \in Nat : k = Len(passed[r])
    BY RequestType
<1>2. PICK m \in Nat \ {0} : m = Len(Sched)
    BY RequestType
<1>3. next \in 1..m /\ passed'[r] = Append(passed[r], next) /\ next' = NextSlot
    BY <1>2 DEF Passes, Typed, TypeOK
<1>4. /\ Len(passed'[r]) = k + 1 /\ passed'[r][k + 1] = next
      /\ \A i \in 1..k : passed'[r][i] = passed[r][i]
    BY <1>1, <1>2, <1>3, RequestType, Appended
<1>5. next = Ahead(s, k) /\ \A i \in 1..k : passed[r][i] = Ahead(s, i - 1)
    BY <1>1 DEF Tread
<1>6. next' = Ahead(s, k + 1)
    BY <1>1, <1>2, <1>3, <1>5 DEF NextSlot, Ahead
<1>7. \A i \in 1..(k + 1) : passed'[r][i] = Ahead(s, i - 1)
    <2>1. SUFFICES ASSUME NEW i \in 1..(k + 1) PROVE passed'[r][i] = Ahead(s, i - 1)
        OBVIOUS
    <2>2. CASE i \in 1..k
        BY <1>4, <1>5, <2>2
    <2>3. CASE i = k + 1
        <3>1. i - 1 = k
            BY <2>3
        <3> QED BY <1>4, <1>5, <2>3, <3>1
    <2> QED BY <2>2, <2>3
<1> QED BY <1>1, <1>4, <1>6, <1>7 DEF Tread, Ahead

\* A whole pass has been at every slot.
LEMMA CoversAll ==
    ASSUME NEW s \in 1..Len(Sched), NEW w, Len(w) = Len(Sched),
           \A i \in 1..Len(w) : w[i] = Ahead(s, i - 1)
    PROVE  {Sched[w[i]] : i \in 1..Len(w)} = Slots
<1>1. PICK m \in Nat \ {0} : m = Len(Sched)
    BY Constants
<1>2. \A i \in 1..m : w[i] = Ahead(s, i - 1) /\ Ahead(s, i - 1) \in 1..m
    BY <1>1 DEF Ahead
<1>3. ASSUME NEW j \in 1..m PROVE \E i \in 1..m : w[i] = j
    <2>1. CASE j >= s
        <3>1. j - s + 1 \in 1..m /\ Ahead(s, (j - s + 1) - 1) = j
            BY <1>1, <2>1 DEF Ahead
        <3> QED BY <1>2, <3>1
    <2>2. CASE j < s
        <3>1. j - s + m + 1 \in 1..m /\ Ahead(s, (j - s + m + 1) - 1) = j
            BY <1>1, <2>2 DEF Ahead
        <3> QED BY <1>2, <3>1
    <2> QED BY <1>1, <2>1, <2>2
<1>4. \A i \in 1..m : w[i] \in 1..m
    BY <1>2
<1> QED BY <1>1, <1>3, <1>4 DEF Slots

\* The walk of another request claims a slot.
LEMMA WalksElsewhere ==
    ASSUME Typed, Typed', NEW r \in Requests, NEW q \in Requests \ {r}, Untouched(q),
           Picks(r) \/ Passes(r), Walks(q)
    PROVE  Walks(q)'
<1>1. Stride(q)'
    <2>1. SUFFICES ASSUME pc'[q] \in {"attempt", "pick"}, q \notin crowded'
                   PROVE  \E s \in 1..Len(Sched) : Tread(q, s)'
        BY DEF Stride
    <2>2. q \notin Walking
        BY <2>1 DEF Picks, Passes
    <2>3. passed'[q] = <<>>
        BY <2>1, <2>2 DEF Walking, Untouched
    <2>4. PICK s \in 1..Len(Sched) : s = next'
        BY DEF Typed, TypeOK
    <2>5. Tread(q, s)'
        <3>1. PICK w : w = passed'[q]
            OBVIOUS
        <3>2. Ahead(s, Len(w)) = s /\ \A i \in 1..Len(w) : w[i] = Ahead(s, i - 1)
            BY <2>3, <3>1, StartsHere
        <3> QED BY <2>4, <3>1, <3>2 DEF Tread, Ahead
    <2> QED BY <2>5
<1>2. Trail(q)'
    BY DEF Picks, Passes, Trail
<1>3. Searched(q)'
    <2>1. FoundUnhealthy(q)' = FoundUnhealthy(q)
        BY DEF FoundUnhealthy, Untouched
    <2> QED BY <2>1 DEF Searched, Untouched, Walks, Slots
<1> QED BY <1>1, <1>2, <1>3 DEF Walks

\* A step that claims no slot leaves every other request's walk alone.
LEMMA WalksApart ==
    ASSUME NEW q \in Requests, Untouched(q), UNCHANGED <<next, rivals, crowded>>, Walks(q)
    PROVE  Walks(q)'
<1>1. \A s : Tread(q, s)' <=> Tread(q, s)
    BY DEF Tread, Untouched, Ahead
<1>2. FoundUnhealthy(q)' = FoundUnhealthy(q)
    BY DEF FoundUnhealthy, Untouched
<1> QED BY <1>1, <1>2 DEF Walks, Stride, Trail, InLoop, Searched, Untouched, Slots, Before

\* A request that is sent to the target picked, or answered after a pick.
LEMMA WalksPicked ==
    ASSUME Typed, Typed', NEW r \in Requests, Picks(r),
           \/ pc'[r] \in {"await", "upgrade"} /\ target'[r] = Claimed
           \/ pc'[r] = "done" /\ (result'[r] # "NoHealthyUpstream" \/ source'[r] = "spent")
    PROVE  Walks(r)'
<1>1. Stride(r)' /\ Searched(r)'
    BY DEF Stride, Searched
<1>2. ASSUME target'[r] = Claimed
      PROVE  \E s \in 1..Len(Sched) : Tread(r, s)' /\ target'[r] = Sched[Before(s)]
    <2>1. next' \in 1..Len(Sched) /\ next' = NextSlot /\ passed'[r] = <<>> /\ next \in 1..Len(Sched)
        BY DEF Picks, Typed, TypeOK
    <2>2. PICK s \in 1..Len(Sched) : s = next'
        BY <2>1
    <2>3. Tread(r, s)'
        <3>1. PICK w : w = passed'[r]
            OBVIOUS
        <3>2. Ahead(s, Len(w)) = s /\ \A i \in 1..Len(w) : w[i] = Ahead(s, i - 1)
            BY <2>1, <3>1, StartsHere
        <3> QED BY <2>2, <3>1, <3>2 DEF Tread, Ahead
    <2>4. Before(s) = next
        BY <2>1, <2>2, Constants DEF Before, NextSlot
    <2>5. target'[r] = Sched[Before(s)]
        BY <1>2, <2>4 DEF Claimed
    <2> QED BY <2>3, <2>5
<1>3. Trail(r)'
    BY <1>2 DEF Trail, InLoop, Before
<1> QED BY <1>1, <1>3 DEF Walks

LEMMA WalksOn ==
    ASSUME Typed, NEW r \in Requests, Story(r), Walks(r), PassOver(r)
    PROVE  Walks(r)'
<1>1. /\ pc[r] \in {"attempt", "pick"} /\ Passes(r) /\ Len(passed[r]) < Len(Sched)
      /\ UNCHANGED <<pc, attempt, target>>
    BY DEF PassOver, Story, Stage
<1>2. (r \in crowded' <=> r \in crowded) /\ (rivals'[r] <=> rivals[r])
    BY <1>1 DEF Passes
<1>3. \A s \in 1..Len(Sched) : Tread(r, s) => Tread(r, s)'
    BY <1>1, TreadOn
<1>4. Stride(r)'
    BY <1>1, <1>2, <1>3 DEF Walks, Stride
<1>5. Trail(r)'
    BY <1>1, <1>2, <1>3 DEF Walks, Trail, InLoop, Before
<1>6. Searched(r)'
    BY <1>1 DEF Searched
<1> QED BY <1>4, <1>5, <1>6 DEF Walks

LEMMA WalksOut ==
    ASSUME Typed, Typed', NEW r \in Requests, Story(r), Walks(r), AttemptNone(r) \/ UpgradeNone(r)
    PROVE  Walks(r)'
<1>1. /\ pc[r] \in {"attempt", "pick"} /\ pc'[r] = "done" /\ Passes(r)
      /\ Len(passed[r]) + 1 = Len(Sched)
    BY DEF AttemptNone, UpgradeNone, IsLastSlot, Finish, Typed, TypeOK
<1>2. Len(passed[r]) < Len(Sched)
    BY <1>1 DEF Story, Stage
<1>3. Len(passed'[r]) = Len(Sched)
    <2>1. passed'[r] = Append(passed[r], next) /\ next \in 1..Len(Sched)
        BY <1>1 DEF Passes, Typed, TypeOK
    <2>2. Len(passed'[r]) = Len(passed[r]) + 1
        BY <2>1, RequestType, Appended
    <2> QED BY <1>1, <2>2
<1>4. ASSUME r \notin crowded' PROVE FoundUnhealthy(r)' = Slots
    <2>1. r \notin crowded
        BY <1>1, <1>4 DEF Passes
    <2>2. PICK s \in 1..Len(Sched) : Tread(r, s)
        BY <1>1, <2>1 DEF Walks, Stride
    <2>3. Tread(r, s)'
        BY <1>1, <1>2, <2>2, TreadOn
    <2>4. PICK w : w = passed'[r]
        OBVIOUS
    <2>5. Len(w) = Len(Sched) /\ \A i \in 1..Len(w) : w[i] = Ahead(s, i - 1)
        BY <1>3, <2>3, <2>4 DEF Tread, Ahead
    <2>6. {Sched[w[i]] : i \in 1..Len(w)} = Slots
        BY <2>5, CoversAll
    <2> QED BY <2>4, <2>6 DEF FoundUnhealthy
<1>5. Searched(r)'
    BY <1>3, <1>4 DEF Searched, Slots
<1> QED BY <1>1, <1>5 DEF Walks, Stride, Trail, InLoop

\* A step that claims no slot.
LEMMA WalksStill ==
    ASSUME Typed, NEW r \in Requests, Story(r), Walks(r), UNCHANGED <<next, rivals, crowded, passed, target>>,
           pc[r] \in {"new", "body", "await", "upgrade"},
           pc'[r] \in {"body", "attempt", "await", "pick", "done", "dropped"},
           pc'[r] = "done" => result'[r] # "NoHealthyUpstream",
           InLoop(r)' => InLoop(r)
    PROVE  Walks(r)'
<1>1. passed[r] = <<>> /\ next \in 1..Len(Sched)
    BY DEF Story, Stage, Typed, TypeOK
<1>2. \A s : Tread(r, s)' <=> Tread(r, s)
    BY DEF Tread, Ahead
<1>3. Tread(r, next)
    BY <1>1, StartsHere DEF Tread, Ahead
<1>4. Stride(r)'
    BY <1>1, <1>2, <1>3 DEF Stride
<1>5. Trail(r)'
    BY <1>2 DEF Walks, Trail, Before
<1> QED BY <1>4, <1>5 DEF Walks, Searched

LEMMA WalksStep ==
    ASSUME Typed, Typed', \A q \in Requests : Story(q), [Next]_vars, \A q \in Requests : Walks(q)
    PROVE  \A q \in Requests : Walks(q)'
<1> USE DEF request, history, upstream
<1>1. ASSUME NEW r \in Requests, AttemptSend(r) \/ UpgradeSend(r) PROVE Walks(r)' /\ Picks(r)
    <2>1. Picks(r) /\ pc'[r] \in {"await", "upgrade"} /\ target'[r] = Claimed
        BY <1>1 DEF AttemptSend, UpgradeSend, Typed, TypeOK
    <2> QED BY <2>1, WalksPicked
<1>2. ASSUME NEW r \in Requests, AttemptSpent(r) \/ AttemptUnbuildable(r) \/ UpgradeUnbuildable(r)
      PROVE  Walks(r)' /\ Picks(r)
    <2>1. Picks(r) /\ pc'[r] = "done" /\ (result'[r] # "NoHealthyUpstream" \/ source'[r] = "spent")
        BY <1>2 DEF AttemptSpent, AttemptUnbuildable, UpgradeUnbuildable, Finish, Typed, TypeOK
    <2> QED BY <2>1, WalksPicked
<1>3. ASSUME NEW r \in Requests, AttemptNone(r) \/ UpgradeNone(r) PROVE Walks(r)' /\ Passes(r)
    BY <1>3, WalksOut DEF AttemptNone, UpgradeNone
<1>4. ASSUME NEW r \in Requests, PassOver(r) PROVE Walks(r)' /\ Passes(r)
    BY <1>4, WalksOn DEF PassOver
<1> DEFINE Still(r) == Walks(r)' /\ UNCHANGED <<next, rivals, crowded>>
<1>5. ASSUME NEW r \in Requests, AttemptEnds(r) PROVE Still(r)
    <2>1. UNCHANGED <<next, rivals, crowded, passed, target>> /\ pc[r] = "await"
        BY <1>5 DEF AttemptEnds, Timeout, Overflow, SendFails, Responds, Responds5xx, Ended, Observe
    <2>2. Again(r) \/ \E res \in GatewayErrors \union Responses : Stop(r, res) /\ res # "NoHealthyUpstream"
        BY <1>5, ResultsAre DEF AttemptEnds, Timeout, Overflow, SendFails, Responds, Responds5xx
    <2>3. pc'[r] = "attempt" \/ (pc'[r] = "done" /\ result'[r] # "NoHealthyUpstream")
        BY <2>2 DEF Again, Stop, Finish, Typed, TypeOK
    <2>4. InLoop(r)
        BY <2>1 DEF InLoop
    <2> QED BY <2>1, <2>3, <2>4, WalksStill
<1>6. ASSUME NEW r \in Requests, NEW err \in ClientErrors, TurnedAway(r, err) PROVE Still(r)
    <2>1. UNCHANGED <<next, rivals, crowded, passed, target>> /\ pc[r] = "new" /\ pc'[r] = "done" /\ result'[r] = err
        BY <1>6 DEF TurnedAway, Finish, Typed, TypeOK
    <2>2. err # "NoHealthyUpstream" /\ ~InLoop(r)'
        BY <2>1, ResultsAre DEF InLoop
    <2> QED BY <2>1, <2>2, WalksStill
<1>7. ASSUME NEW r \in Requests, Accept(r) \/ AcceptUpgrade(r) \/ BufferBody(r) PROVE Still(r)
    <2>1. /\ UNCHANGED <<next, rivals, crowded, passed, target, attempt>> /\ pc[r] \in {"new", "body"}
          /\ pc'[r] \in {"body", "attempt", "pick"}
        BY <1>7 DEF Accept, AcceptUpgrade, BufferBody, Typed, TypeOK
    <2>2. attempt'[r] = 0
        BY <2>1 DEF Story, Stage
    <2>3. ~InLoop(r)'
        BY <2>1, <2>2 DEF InLoop
    <2> QED BY <2>1, <2>3, WalksStill
<1>8. ASSUME NEW r \in Requests, NEW res \in Responses \union {"UpstreamConnect"}, UpgradeAnswered(r, res)
      PROVE  Still(r)
    <2>1. UNCHANGED <<next, rivals, crowded, passed, target>> /\ pc[r] = "upgrade" /\ pc'[r] = "done" /\ result'[r] = res
        BY <1>8 DEF UpgradeAnswered, Observe, Finish, Typed, TypeOK
    <2>2. res # "NoHealthyUpstream" /\ ~InLoop(r)'
        BY <2>1, ResultsAre DEF InLoop
    <2> QED BY <2>1, <2>2, WalksStill
<1>9. ASSUME NEW r \in Requests, Dropped(r) PROVE Still(r)
    <2>1. /\ UNCHANGED <<next, rivals, crowded, passed, target>>
          /\ pc[r] \in {"body", "await", "upgrade"} /\ pc'[r] = "dropped"
        BY <1>9 DEF Dropped, Typed, TypeOK
    <2>2. ~InLoop(r)'
        BY <2>1 DEF InLoop
    <2> QED BY <2>1, <2>2, WalksStill
<1>10. ASSUME NEW r \in Requests,
              Step(r) \/ Dropped(r) \/ \E res \in Responses \union {"UpstreamConnect"} : UpgradeAnswered(r, res)
       PROVE  \A q \in Requests : Walks(q)'
    <2>1. Walks(r)' /\ (Picks(r) \/ Passes(r) \/ UNCHANGED <<next, rivals, crowded>>)
        BY <1>1, <1>2, <1>3, <1>4, <1>5, <1>6, <1>7, <1>8, <1>9, <1>10, ResultsAre
           DEF Step, RouteNotFound, Forbidden, TooManyRequests, Unauthorized, TooLarge, Attempt, UpgradeAttempt
    <2>2. ASSUME NEW q \in Requests \ {r} PROVE Walks(q)'
        BY <1>10, <2>1, OneAtATime, WalksElsewhere, WalksApart
    <2> QED BY <2>1, <2>2
<1>11. CASE UNCHANGED vars \/ \E t \in Targets, ok \in BOOLEAN : Probe(t, ok)
    <2>1. UNCHANGED <<next, pc, request, history>>
        BY <1>11 DEF vars, Probe, Observe
    <2>2. \A q \in Requests : Untouched(q)
        BY <2>1 DEF Untouched
    <2> QED BY <2>1, <2>2, WalksApart
<1> QED BY <1>10, <1>11 DEF Next

LEMMA WalksInvariant == Spec => [](\A r \in Requests : Walks(r))
<1>1. Init => \A r \in Requests : Walks(r)
    BY DEF Init, Walks, Stride, Trail, InLoop, Searched
<1>2. Stories /\ Stories' /\ (\A r \in Requests : Walks(r)) /\ [Next]_vars => (\A r \in Requests : Walks(r))'
    BY WalksStep DEF Stories
<1> QED BY <1>1, <1>2, StoriesInvariant, PTL DEF Spec

(***************************************************************************)
(* The answer handle returns is about the last thing that happened to the  *)
(* request, for any policy and any interleaving with other requests.  A    *)
(* 503 that is not about a consumed body follows a whole pass over the     *)
(* schedule that found the target of every slot it claimed unhealthy, and  *)
(* unless another request claimed a slot meanwhile those are all targets.  *)
(***************************************************************************)
THEOREM AnswersAreTruthful == Spec => []AnswerIsLastOutcome
<1>1. ASSUME Stories, \A r \in Requests : Walks(r) PROVE AnswerIsLastOutcome
    <2>1. \A r \in Requests : Truthful(r) /\ Searched(r) /\ Len(outcomes[r]) \in Nat
        BY <1>1, RequestType DEF Stories, Story, Walks
    <2> QED BY <2>1 DEF AnswerIsLastOutcome, Truthful, Searched, Slots, Responses
<1> QED BY <1>1, StoriesInvariant, WalksInvariant, PTL

-----------------------------------------------------------------------------
(* RetryMovesOn. *)

OneSlotEach ==
    /\ \A t \in Targets : \E k \in 1..Len(Sched) : Sched[k] = t
    /\ \A i, j \in 1..Len(Sched) : Sched[i] = Sched[j] => i = j

\* A walk that starts after a target's only slot comes to every other target first.
LEMMA ComesLast ==
    ASSUME OneSlotEach, Typed, NEW r \in Requests, Len(passed[r]) < Len(Sched),
           NEW s \in 1..Len(Sched), Tread(r, s), Claimed = Sched[Before(s)]
    PROVE  Targets \ {Claimed} \subseteq FoundUnhealthy(r)
<1>1. PICK m \in Nat \ {0} : m = Len(Sched)
    BY RequestType
<1>2. PICK k \in Nat : k = Len(passed[r])
    BY RequestType
<1>3. next \in 1..m /\ Before(s) \in 1..m
    BY <1>1 DEF Before, Typed, TypeOK
<1>4. next = Before(s)
    BY <1>1, <1>3 DEF OneSlotEach, Claimed
<1>5. k = m - 1
    BY <1>1, <1>2, <1>3, <1>4 DEF Tread, Ahead, Before
<1>6. \A i \in 1..k : passed[r][i] = Ahead(s, i - 1)
    BY <1>2 DEF Tread
<1>7. ASSUME NEW j \in 1..m, j # next PROVE \E i \in 1..k : passed[r][i] = j
    <2>1. CASE j >= s
        <3>1. j - s + 1 \in 1..k /\ Ahead(s, (j - s + 1) - 1) = j
            BY <1>1, <1>4, <1>5, <1>7, <2>1 DEF Ahead, Before
        <3> QED BY <1>6, <3>1
    <2>2. CASE j < s
        <3>1. j - s + m + 1 \in 1..k /\ Ahead(s, (j - s + m + 1) - 1) = j
            BY <1>1, <1>4, <1>5, <1>7, <2>2 DEF Ahead, Before
        <3> QED BY <1>6, <3>1
    <2> QED BY <1>1, <2>1, <2>2
<1>8. ASSUME NEW t \in Targets \ {Claimed} PROVE t \in FoundUnhealthy(r)
    <2>1. PICK j \in 1..m : Sched[j] = t /\ j # next
        BY <1>1, <1>8 DEF OneSlotEach, Claimed
    <2>2. PICK i \in 1..k : passed[r][i] = j
        BY <1>7, <2>1
    <2> QED BY <1>2, <2>1, <2>2 DEF FoundUnhealthy
<1> QED BY <1>8

(***************************************************************************)
(* Where every target has one slot of the schedule: a retry that no other  *)
(* request raced goes back to the same target only when it has just found  *)
(* every other one unhealthy, for any number of targets and however their  *)
(* health changes meanwhile.                                               *)
(***************************************************************************)
THEOREM RetriesMoveOn == ASSUME OneSlotEach PROVE Spec => []RetryMovesOn
<1>1. Init => RetryMovesOn
    BY DEF Init, RetryMovesOn
<1>2. ASSUME Stories, \A r \in Requests : Walks(r), RetryMovesOn, [Next]_vars PROVE RetryMovesOn'
    <2>1. Typed
        BY <1>2 DEF Stories
    <2>2. ASSUME NEW r \in Requests, AttemptSend(r), repeated'[r] = "alone", repeated[r] # "alone"
          PROVE  FALSE
        <3>1. /\ attempt[r] > 0 /\ pc[r] = "attempt" /\ ~rivals[r] /\ Claimed = target[r]
              /\ ~(Targets \ {Claimed} \subseteq FoundUnhealthy(r))
            BY <2>1, <2>2 DEF AttemptSend, Typed
        <3>2. PICK s \in 1..Len(Sched) : Tread(r, s) /\ target[r] = Sched[Before(s)]
            BY <1>2, <3>1 DEF Walks, Trail, InLoop
        <3>3. Len(passed[r]) < Len(Sched)
            BY <1>2, <3>1 DEF Stories, Story, Stage
        <3> QED BY <2>1, <3>1, <3>2, <3>3, ComesLast
    <2>3. ASSUME NEW r \in Requests, AttemptSend(r) PROVE RetryMovesOn'
        <3>1. \A q \in Requests \ {r} : repeated'[q] = repeated[q]
            BY <2>1, <2>3 DEF AttemptSend, Typed
        <3> QED BY <1>2, <2>2, <2>3, <3>1 DEF RetryMovesOn
    <2>4. UNCHANGED repeated \/ \E r \in Requests : AttemptSend(r)
        BY <1>2 DEF Next, vars, Step, RouteNotFound, Forbidden, TooManyRequests, Unauthorized, TooLarge,
               TurnedAway, Accept, AcceptUpgrade, BufferBody, Attempt, PassOver, AttemptNone, AttemptSpent,
               AttemptUnbuildable, AttemptEnds, Timeout, Overflow, SendFails, Responds, Responds5xx, Ended,
               UpgradeNone, UpgradeUnbuildable, UpgradeSend, UpgradeAttempt, UpgradeAnswered, Dropped, Probe,
               history
    <2> QED BY <1>2, <2>3, <2>4 DEF RetryMovesOn
<1> QED BY <1>1, <1>2, StoriesInvariant, WalksInvariant, PTL DEF Spec
=============================================================================
