------------------------------ MODULE Forward ------------------------------
(***************************************************************************)
(* The request path of crates/gatepup-proxy/src/proxy.rs (handle, forward, *)
(* handle_upgrade) for requests that share one upstream: the checks before *)
(* the upstream is touched, the body source, the retry loop with its       *)
(* timeout, passive health, and the metrics; with the active prober and    *)
(* clients that go away.  The upstream has an enabled health check:        *)
(* without one observe does nothing and every target stays healthy.  A     *)
(* step runs from one await to the next, except that pick_target takes one *)
(* step for every slot it claims: other requests claim slots in between.   *)
(* Claiming a slot and reading its target's health is one step, and so is  *)
(* observe: Balancer.tla and Health.tla take those apart.                  *)
(***************************************************************************)
EXTENDS Naturals, Sequences, FiniteSets

CONSTANTS
    Requests, Targets,
    Sched,              \* the upstream's schedule
    HealthyThreshold, UnhealthyThreshold,
    Retries,            \* the upstream's retries block
    BODY_BUFFER_CAP, max_body_bytes,
    Kinds               \* requests clients send

(***************************************************************************)
(* A request, as far as its path depends on it: whether it is an upgrade,  *)
(* whether its method is in the retry policy's list, the size of its body  *)
(* and whether Content-Length declares it, and the targets with whose URL  *)
(* no request can be built from it.                                        *)
(***************************************************************************)
KindType == [upgrade : BOOLEAN, method_listed : BOOLEAN, declared : BOOLEAN, size : Nat,
             unbuildable : SUBSET Targets]

ASSUME ForwardAssumption ==
    /\ Sched \in Seq(Targets)
    /\ {HealthyThreshold, UnhealthyThreshold} \subseteq Nat \ {0}
    /\ Retries \in [enabled : BOOLEAN, attempts : Nat,
                    retry_on : SUBSET {"connect_error", "connect_timeout", "upstream_5xx"}]
    /\ {BODY_BUFFER_CAP, max_body_bytes} \subseteq Nat
    /\ Kinds \subseteq KindType

VARIABLES
    next, healthy, run,     \* the upstream: schedule position, per target health
    pc, kind,               \* per request: where it is, what it is
    source,                 \* BodySource: "buffered", "once" or "spent" (Once(None))
    attempt, target,        \* the retry loop
    passed,                 \* per request: the slots pick_target claimed and passed over
    last_err, result,       \* last_err, and what handle returned
    metrics,
    (* History. *)
    sent,                   \* per request: the targets of its attempts
    outcomes,               \* per request: how the attempts ended
    rivals,                 \* per request: another one claimed a slot since its last pick
    crowded,                \* requests in whose walk another one claimed a slot
    repeated,               \* per request: a retry hit the same target again without having
                            \* found every other one unhealthy: "no", "alone" or "contended"
    delivered               \* requests answered by a target that could read the whole body

upstream == <<next, healthy, run>>
request == <<kind, source, attempt, target, passed, last_err, result>>
history == <<sent, outcomes, rivals, crowded, repeated, delivered>>
vars == <<upstream, pc, request, metrics, history>>

-----------------------------------------------------------------------------
(* RetryPolicy::from_config. *)
max_attempts == IF Retries.attempts = 0 THEN 1 ELSE Retries.attempts
on_connect_failure == Retries.enabled /\ Retries.retry_on \cap {"connect_error", "connect_timeout"} # {}
on_5xx == Retries.enabled /\ "upstream_5xx" \in Retries.retry_on

\* forward: whether the body is buffered so that it can be sent again.
Replayable(k) ==
    /\ Retries.enabled /\ max_attempts > 1 /\ k.method_listed
    /\ k.declared => k.size <= BODY_BUFFER_CAP

Attempts(k) == IF Replayable(k) THEN max_attempts ELSE 1

body_exceeds_limit(k) == max_body_bytes > 0 /\ k.declared /\ k.size > max_body_bytes

(* Mutant of Capped: one byte too many gets through. *)
CappedOffByOne(r) == source[r] = "once" /\ max_body_bytes > 0 /\ kind[r].size > max_body_bytes + 1

\* A streamed body that CappedBody cuts off.
Capped(r) == source[r] = "once" /\ max_body_bytes > 0 /\ kind[r].size > max_body_bytes

ClientErrors == {"RouteNotFound", "Forbidden", "Unauthorized", "TooManyRequests", "PayloadTooLarge"}
GatewayErrors == ClientErrors \union {"NoHealthyUpstream", "UpstreamTimeout", "UpstreamConnect", "BadGateway"}
Responses == {"ok", "5xx", "switching_protocols"}

-----------------------------------------------------------------------------
ZeroMetrics ==
    [requests |-> 0, upstream_requests |-> 0, upstream_errors |-> 0,
     route_not_found |-> 0, upstream_retries |-> 0, websockets |-> 0]

\* The inc_* methods of Metrics.
Inc(m, counter) == [m EXCEPT ![counter] = @ + 1]

\* Requests before these have moved the schedule position.
Init ==
    /\ next \in 1..Len(Sched)
    /\ healthy = [t \in Targets |-> TRUE]
    /\ run = [t \in Targets |-> [ok |-> TRUE, n |-> 0]]
    /\ pc = [r \in Requests |-> "new"]
    /\ kind \in [Requests -> Kinds]
    /\ source = [r \in Requests |-> "once"]
    /\ attempt = [r \in Requests |-> 0]
    /\ target = [r \in Requests |-> Sched[1]]
    /\ passed = [r \in Requests |-> <<>>]
    /\ last_err = [r \in Requests |-> "NoHealthyUpstream"]
    /\ result = [r \in Requests |-> "none"]
    /\ metrics = ZeroMetrics
    /\ sent = [r \in Requests |-> <<>>]
    /\ outcomes = [r \in Requests |-> <<>>]
    /\ rivals = [r \in Requests |-> FALSE]
    /\ crowded = {}
    /\ repeated = [r \in Requests |-> "no"]
    /\ delivered = {}

(* HealthState::observe, as one observation of HealthSpec. *)
H(t) == INSTANCE HealthSpec WITH healthy <- healthy[t], run <- run[t]

Observe(t, ok) ==
    /\ run' = [run EXCEPT ![t] = H(t)!Extend(@, ok)]
    /\ healthy' = [healthy EXCEPT ![t] = IF H(t)!Decides(run'[t]) THEN ok ELSE @]
    /\ UNCHANGED next

(* pick_target: next.fetch_add(1) claims the slot next, modulo the length. *)
Claimed == Sched[next]

(* Mutants of NextSlot: the position does not move, or does not wrap. *)
NextStays == next
NextUnwrapped == next + 1

NextSlot == IF next = Len(Sched) THEN 1 ELSE next + 1

\* Requests in the middle of pick_target.
Walking == {r \in Requests : pc[r] \in {"attempt", "pick"} /\ passed[r] # <<>>}

\* The slot claimed next has a healthy target, which is returned.
Picks(r) ==
    /\ healthy[Claimed]
    /\ next' = NextSlot
    /\ passed' = [passed EXCEPT ![r] = <<>>]
    /\ rivals' = [q \in Requests |-> q # r]
    /\ crowded' = (crowded \union Walking) \ {r}
    /\ UNCHANGED <<healthy, run>>

\* Its target is unhealthy: the slot is passed over.
Passes(r) ==
    /\ ~healthy[Claimed]
    /\ next' = NextSlot
    /\ passed' = [passed EXCEPT ![r] = Append(@, next)]
    /\ rivals' = [q \in Requests |-> rivals[q] \/ q # r]
    /\ crowded' = crowded \union (Walking \ {r})
    /\ UNCHANGED <<healthy, run>>

\* The slot is the last of the loop over 0..len.
IsLastSlot(r) == Len(passed[r]) + 1 = Len(Sched)

(* Mutant of Finish: client errors are counted against the upstream. *)
FinishCountsAll(r, res, m) ==
    /\ pc' = [pc EXCEPT ![r] = "done"]
    /\ result' = [result EXCEPT ![r] = res]
    /\ metrics' = CASE res \in Responses -> Inc(m, "upstream_requests")
                    [] res = "RouteNotFound" -> Inc(m, "route_not_found")
                    [] OTHER -> Inc(m, "upstream_errors")

\* handle's epilogue: the outcome is counted and the response returned.
Finish(r, res, m) ==
    /\ pc' = [pc EXCEPT ![r] = "done"]
    /\ result' = [result EXCEPT ![r] = res]
    /\ metrics' = CASE res \in Responses -> Inc(m, "upstream_requests")
                    [] res = "RouteNotFound" -> Inc(m, "route_not_found")
                    [] res \in ClientErrors \ {"RouteNotFound"} -> m
                    [] OTHER -> Inc(m, "upstream_errors")

Counted == Inc(metrics, "requests")

-----------------------------------------------------------------------------
(***************************************************************************)
(* Up to the first await.  Routing, access list, rate limit and basic auth *)
(* are decided by what the request is (and RateLimiter.tla): each of them  *)
(* may turn any request away.  No route names a missing upstream           *)
(* (HotReload.tla).                                                        *)
(***************************************************************************)
TurnedAway(r, err) ==
    /\ pc[r] = "new"
    /\ Finish(r, err, Counted)
    /\ UNCHANGED <<upstream, kind, source, attempt, target, passed, last_err, history>>

RouteNotFound(r) == TurnedAway(r, "RouteNotFound")
Forbidden(r) == TurnedAway(r, "Forbidden")
TooManyRequests(r) == TurnedAway(r, "TooManyRequests")
Unauthorized(r) == TurnedAway(r, "Unauthorized")

TooLarge(r) ==
    /\ ~kind[r].upgrade /\ body_exceeds_limit(kind[r])
    /\ TurnedAway(r, "PayloadTooLarge")

Accept(r) ==
    /\ pc[r] = "new" /\ ~kind[r].upgrade
    /\ ~body_exceeds_limit(kind[r])
    /\ pc' = [pc EXCEPT ![r] = IF Replayable(kind[r]) THEN "body" ELSE "attempt"]
    /\ metrics' = Counted
    /\ UNCHANGED <<upstream, request, history>>

\* An upgrade goes its own way, before the body is looked at.
AcceptUpgrade(r) ==
    /\ pc[r] = "new" /\ kind[r].upgrade
    /\ pc' = [pc EXCEPT ![r] = "pick"]
    /\ metrics' = Counted
    /\ UNCHANGED <<upstream, request, history>>

\* prepare_body_source: collect up to the cap; beyond it, or on a read error,
\* the body is consumed and gone.
BufferBody(r) ==
    /\ pc[r] = "body"
    /\ \/ /\ kind[r].size <= BODY_BUFFER_CAP
          /\ source' = [source EXCEPT ![r] = "buffered"]
       \/ source' = [source EXCEPT ![r] = "spent"]
    /\ pc' = [pc EXCEPT ![r] = "attempt"]
    /\ UNCHANGED <<upstream, kind, attempt, target, passed, last_err, result, metrics, history>>

PassOver(r) ==
    /\ pc[r] \in {"attempt", "pick"} /\ ~IsLastSlot(r)
    /\ Passes(r)
    /\ UNCHANGED <<pc, kind, source, attempt, target, last_err, result, metrics,
                   sent, outcomes, repeated, delivered>>

(* Mutant of AttemptNone: last_err is not reset. *)
AttemptNoneStale(r) ==
    /\ pc[r] = "attempt" /\ IsLastSlot(r)
    /\ Passes(r)
    /\ Finish(r, last_err[r], metrics)
    /\ UNCHANGED <<kind, source, attempt, target, last_err, sent, outcomes, repeated, delivered>>

\* No slot had a healthy target: the loop ends, whatever earlier attempts left in last_err.
AttemptNone(r) ==
    /\ pc[r] = "attempt" /\ IsLastSlot(r)
    /\ Passes(r)
    /\ last_err' = [last_err EXCEPT ![r] = "NoHealthyUpstream"]
    /\ Finish(r, "NoHealthyUpstream", metrics)
    /\ UNCHANGED <<kind, source, attempt, target, sent, outcomes, repeated, delivered>>

\* A target but no body: the loop ends with last_err as it is.
AttemptSpent(r) ==
    /\ pc[r] = "attempt" /\ source[r] = "spent"
    /\ Picks(r)
    /\ Finish(r, last_err[r], metrics)
    /\ UNCHANGED <<kind, source, attempt, target, last_err, sent, outcomes, repeated, delivered>>

\* build_attempt_request fails for this target's URL.
AttemptUnbuildable(r) ==
    /\ pc[r] = "attempt" /\ source[r] # "spent"
    /\ Claimed \in kind[r].unbuildable
    /\ Picks(r)
    /\ Finish(r, "BadGateway", metrics)
    /\ UNCHANGED <<kind, source, attempt, target, last_err, sent, outcomes, repeated, delivered>>

\* The targets of the slots passed over.
FoundUnhealthy(r) == {Sched[passed[r][i]] : i \in 1..Len(passed[r])}

AttemptSend(r) ==
    /\ pc[r] = "attempt" /\ source[r] # "spent"
    /\ Claimed \notin kind[r].unbuildable
    /\ Picks(r)
    /\ target' = [target EXCEPT ![r] = Claimed]
    /\ pc' = [pc EXCEPT ![r] = "await"]
    /\ sent' = [sent EXCEPT ![r] = Append(@, Claimed)]
    /\ repeated' = IF attempt[r] > 0 /\ Claimed = target[r]
                      /\ ~(Targets \ {Claimed} \subseteq FoundUnhealthy(r))
                   THEN [repeated EXCEPT ![r] = IF rivals[r] THEN "contended" ELSE "alone"]
                   ELSE repeated
    /\ UNCHANGED <<kind, source, attempt, last_err, result, metrics, outcomes, delivered>>

-----------------------------------------------------------------------------
(* How an attempt ends. *)
Ended(r, outcome) ==
    /\ pc[r] = "await"
    /\ outcomes' = [outcomes EXCEPT ![r] = Append(@, outcome)]
    /\ UNCHANGED <<kind, source, target, passed, sent, rivals, crowded, repeated>>

IsLast(r) == attempt[r] + 1 = Attempts(kind[r])

Again(r) ==
    /\ pc' = [pc EXCEPT ![r] = "attempt"]
    /\ attempt' = [attempt EXCEPT ![r] = @ + 1]
    /\ metrics' = Inc(metrics, "upstream_retries")
    /\ UNCHANGED result

Stop(r, res) == Finish(r, res, metrics) /\ UNCHANGED attempt

(* Mutant of Timeout: a timeout is retried like a failed connection. *)
TimeoutRetried(r) ==
    /\ Ended(r, "timeout")
    /\ Observe(target[r], FALSE)
    /\ IF IsLast(r) \/ ~on_connect_failure THEN Stop(r, "UpstreamTimeout") ELSE Again(r)
    /\ UNCHANGED <<last_err, delivered>>

(* Mutant of Timeout: the request is not wrapped in a timer. *)
TimeoutNever(r) == FALSE /\ Ended(r, "timeout")

\* request_timeout expires: never retried.
Timeout(r) ==
    /\ Ended(r, "timeout")
    /\ Observe(target[r], FALSE)
    /\ Stop(r, "UpstreamTimeout")
    /\ UNCHANGED <<last_err, delivered>>

(* Mutant of Overflow: the target is blamed for the client's body. *)
OverflowBlamed(r) ==
    /\ Capped(r)
    /\ Ended(r, "overflow")
    /\ Observe(target[r], FALSE)
    /\ Stop(r, "PayloadTooLarge")
    /\ UNCHANGED <<last_err, delivered>>

\* The send fails because CappedBody cut the body off.
Overflow(r) ==
    /\ Capped(r)
    /\ Ended(r, "overflow")
    /\ UNCHANGED upstream
    /\ Stop(r, "PayloadTooLarge")
    /\ UNCHANGED <<last_err, delivered>>

\* Any other send failure.
SendFails(r) ==
    /\ Ended(r, "failed")
    /\ Observe(target[r], FALSE)
    /\ last_err' = [last_err EXCEPT ![r] = "UpstreamConnect"]
    /\ IF IsLast(r) \/ ~on_connect_failure THEN Stop(r, "UpstreamConnect") ELSE Again(r)
    /\ UNCHANGED delivered

\* A response below 500 ends the request.  A capped body has not been delivered.
Responds(r) ==
    /\ Ended(r, "ok")
    /\ Observe(target[r], TRUE)
    /\ Stop(r, "ok")
    /\ delivered' = IF Capped(r) THEN delivered ELSE delivered \union {r}
    /\ UNCHANGED last_err

\* A 5xx is retried, or relayed when it is the last; last_err is not touched.
Responds5xx(r) ==
    /\ Ended(r, "5xx")
    /\ Observe(target[r], FALSE)
    /\ IF IsLast(r) \/ ~on_5xx THEN Stop(r, "5xx") ELSE Again(r)
    /\ delivered' = IF Capped(r) THEN delivered ELSE delivered \union {r}
    /\ UNCHANGED last_err

AttemptEnds(r) == \/ Timeout(r) \/ Overflow(r) \/ SendFails(r)
                  \/ Responds(r) \/ Responds5xx(r)

-----------------------------------------------------------------------------
(* handle_upgrade: one target, one attempt, no body and no timeout. *)
UpgradeNone(r) ==
    /\ pc[r] = "pick" /\ IsLastSlot(r)
    /\ Passes(r)
    /\ Finish(r, "NoHealthyUpstream", metrics)
    /\ UNCHANGED <<kind, source, attempt, target, last_err, sent, outcomes, repeated, delivered>>

UpgradeSend(r) ==
    /\ pc[r] = "pick" /\ Claimed \notin kind[r].unbuildable
    /\ Picks(r)
    /\ target' = [target EXCEPT ![r] = Claimed]
    /\ pc' = [pc EXCEPT ![r] = "upgrade"]
    /\ sent' = [sent EXCEPT ![r] = Append(@, Claimed)]
    /\ UNCHANGED <<kind, source, attempt, last_err, result, metrics, outcomes, repeated, delivered>>

\* The target's URL yields no authority or no request.
UpgradeUnbuildable(r) ==
    /\ pc[r] = "pick" /\ Claimed \in kind[r].unbuildable
    /\ Picks(r)
    /\ Finish(r, "BadGateway", metrics)
    /\ UNCHANGED <<kind, source, attempt, target, last_err, sent, outcomes, repeated, delivered>>

\* Connect, handshake or send fails; or the upstream switches or declines.
UpgradeAnswered(r, res) ==
    /\ pc[r] = "upgrade"
    /\ Observe(target[r], res \in {"ok", "switching_protocols"})
    /\ Finish(r, res, IF res = "switching_protocols"
                      THEN Inc(metrics, "websockets") ELSE metrics)
    /\ outcomes' = [outcomes EXCEPT ![r] = Append(@, res)]
    /\ UNCHANGED <<kind, source, attempt, target, passed, last_err, sent, rivals, crowded, repeated, delivered>>

-----------------------------------------------------------------------------
\* The client goes away at an await: hyper drops the future, nothing after it runs.
Dropped(r) ==
    /\ pc[r] \in {"body", "await", "upgrade"}
    /\ pc' = [pc EXCEPT ![r] = "dropped"]
    /\ UNCHANGED <<upstream, request, metrics, history>>

\* run_health_checks probes every target, ejected or not.
Probe(t, ok) ==
    /\ Observe(t, ok)
    /\ UNCHANGED <<pc, request, metrics, history>>

Attempt(r) == \/ PassOver(r) \/ AttemptNone(r) \/ AttemptSpent(r)
              \/ AttemptUnbuildable(r) \/ AttemptSend(r)

UpgradeAttempt(r) == \/ UpgradeNone(r) \/ UpgradeUnbuildable(r) \/ UpgradeSend(r)

Step(r) == \/ RouteNotFound(r) \/ Forbidden(r) \/ TooManyRequests(r) \/ Unauthorized(r)
           \/ TooLarge(r) \/ Accept(r) \/ AcceptUpgrade(r)
           \/ BufferBody(r) \/ Attempt(r) \/ AttemptEnds(r) \/ UpgradeAttempt(r)

Next == \/ \E r \in Requests : Step(r) \/ Dropped(r)
        \/ \E r \in Requests, res \in Responses \union {"UpstreamConnect"} : UpgradeAnswered(r, res)
        \/ \E t \in Targets, ok \in BOOLEAN : Probe(t, ok)

(***************************************************************************)
(* The runtime polls a task that is ready, and a timer that was set fires. *)
(* Nothing makes a client finish its body or an upstream answer.           *)
(***************************************************************************)
Fairness == \A r \in Requests : WF_vars(Attempt(r)) /\ WF_vars(Timeout(r))

Spec == Init /\ [][Next]_vars /\ Fairness

-----------------------------------------------------------------------------
TypeOK ==
    /\ next \in 1..Len(Sched)
    /\ healthy \in [Targets -> BOOLEAN]
    /\ run \in [Targets -> [ok : BOOLEAN, n : Nat]]
    /\ pc \in [Requests -> {"new", "body", "attempt", "await", "pick", "upgrade", "done", "dropped"}]
    /\ kind \in [Requests -> Kinds]
    /\ source \in [Requests -> {"buffered", "once", "spent"}]
    /\ attempt \in [Requests -> 0..max_attempts]
    /\ target \in [Requests -> Targets]
    /\ passed \in [Requests -> Seq(1..Len(Sched))]
    /\ last_err \in [Requests -> GatewayErrors]
    /\ result \in [Requests -> GatewayErrors \union Responses \union {"none"}]
    /\ metrics \in [DOMAIN ZeroMetrics -> Nat]
    /\ rivals \in [Requests -> BOOLEAN]
    /\ crowded \subseteq Requests /\ delivered \subseteq Requests

(***************************************************************************)
(* Every attempt after the first was licensed: the retry policy allows the *)
(* method, the body was buffered whole, the budget of total tries is not   *)
(* exceeded, and the attempt before it ended in a way retryOn names.  In   *)
(* particular nothing follows a timeout (README.md:197-199), a response    *)
(* below 500 or a body cut off by its limit.                               *)
(***************************************************************************)
RetriesAreLicensed ==
    \A r \in Requests :
        LET n == Len(sent[r])
        IN  /\ n > 1 => /\ kind[r].method_listed
                        /\ source[r] = "buffered"
                        /\ n <= max_attempts
            /\ \A i \in 1..(n - 1) :
                  \/ outcomes[r][i] = "failed" /\ on_connect_failure
                  \/ outcomes[r][i] = "5xx" /\ on_5xx

(***************************************************************************)
(* The answer a client gets is about the last thing that happened to its   *)
(* request: 502 after a failed send, 504 after a timeout, an upstream's    *)
(* response as it came.  A 503 means that the body had been consumed       *)
(* before any attempt, or that pick_target claimed as many slots as the    *)
(* schedule has and found the target of each unhealthy when it looked;     *)
(* those are all the targets unless other requests claimed slots in        *)
(* between: then it may have missed a healthy one (NoneMeansContended of   *)
(* Balancer.tla).                                                          *)
(***************************************************************************)
AnswerIsLastOutcome ==
    \A r \in Requests :
        LET n == Len(outcomes[r])
            Last == IF n = 0 THEN "none" ELSE outcomes[r][n]
        IN  pc[r] = "done" =>
              CASE result[r] = "UpstreamConnect" -> Last \in {"failed", "UpstreamConnect"}
                [] result[r] = "UpstreamTimeout" -> Last = "timeout"
                [] result[r] \in Responses -> Last = result[r]
                [] result[r] = "PayloadTooLarge" -> Last \in {"none", "overflow"}
                [] result[r] = "NoHealthyUpstream" ->
                      /\ Last \in {"none", "failed", "5xx"} /\ Len(sent[r]) = n
                      /\ \/ source[r] = "spent"
                         \/ /\ Len(passed[r]) = Len(Sched)
                            /\ r \in crowded \/ FoundUnhealthy(r) = {Sched[i] : i \in 1..Len(Sched)}
                [] OTHER -> TRUE

(***************************************************************************)
(* README.md:182-183: "a failed attempt is retried onto a *different*      *)
(* target (weighted round-robin advances)".  Where every target has one    *)
(* slot of the schedule, a retry that no other request raced goes back to  *)
(* the same target only when it has just found every other one unhealthy.  *)
(* (With adjacent slots of one target, with only ejected targets between   *)
(* two of its slots, or when another request claims a slot in between, it  *)
(* may do so otherwise.)                                                   *)
(***************************************************************************)
RetryMovesOn == \A r \in Requests : repeated[r] # "alone"

(***************************************************************************)
(* Client errors are never held against a target: a step that answers a    *)
(* request with one leaves every target's health as it was.                *)
(***************************************************************************)
ClientErrorsBlameNobody ==
    [][\A r \in Requests :
          pc'[r] = "done" /\ pc[r] # "done" /\ result'[r] \in ClientErrors
              => UNCHANGED <<healthy, run>>]_vars

\* The requests answered in one of the ways of S, and the extra rounds of the attempt loops.
Answered(S) == {r \in Requests : pc[r] = "done" /\ result[r] \in S}
Rounds == {e \in Requests \X (1..max_attempts) : e[2] <= attempt[e[1]]}

(***************************************************************************)
(* The counters add up at every moment, cancelled requests included: every *)
(* request is counted once on arrival, and every answered one is counted   *)
(* as forwarded, as an upstream error or as unrouted unless the client was *)
(* at fault; retries are exactly the extra rounds of the attempt loops.    *)
(* This is not what metrics.rs says they count: upstream_requests is the   *)
(* requests a target answered, not all those "forwarded to an upstream"    *)
(* (lines 36-39), for it leaves out the ones that ended in 502 or 504 or   *)
(* whose client left; and upstream_retries is more than the attempts       *)
(* "retried onto another target" (lines 44-47), for it also counts rounds  *)
(* that found no target, or the same one.                                  *)
(***************************************************************************)
CountersAddUp ==
    /\ metrics.requests = Cardinality({r \in Requests : pc[r] # "new"})
    /\ metrics.upstream_requests = Cardinality(Answered(Responses))
    /\ metrics.route_not_found = Cardinality(Answered({"RouteNotFound"}))
    /\ metrics.upstream_errors = Cardinality(Answered(GatewayErrors \ ClientErrors))
    /\ metrics.upstream_retries = Cardinality(Rounds)

(***************************************************************************)
(* A body over maxBodyBytes, declared or chunked, is not delivered whole   *)
(* to a target that answers, with one exception that README.md:268-271     *)
(* does not make: the body of a replayable request is buffered without     *)
(* regard to the limit, so a chunked one passes up to the buffer cap.      *)
(***************************************************************************)
OversizeNotDelivered ==
    \A r \in delivered :
        \/ max_body_bytes = 0 \/ kind[r].size <= max_body_bytes
        \/ Replayable(kind[r]) /\ ~kind[r].declared /\ kind[r].size <= BODY_BUFFER_CAP

(***************************************************************************)
(* handle "always resolves to a Response" (proxy.rs:248): once its body is *)
(* there, a request that is not an upgrade is answered or its client goes, *)
(* however the upstreams behave and health changes.  (An upgrade is not    *)
(* under the timer, and may wait for its upstream forever.)                *)
(***************************************************************************)
RequestsResolve ==
    \A r \in Requests : pc[r] \in {"attempt", "await"} ~> pc[r] \in {"done", "dropped"}

(***************************************************************************)
(* README.md:200-201: "Larger bodies (...) stream through with a single    *)
(* attempt".  A body over the buffer cap that arrived whole, with a        *)
(* healthy target to go to, is attempted.                                  *)
(***************************************************************************)
LargeBodiesAreAttempted ==
    [][\A r \in Requests :
          kind[r].size > BODY_BUFFER_CAP /\ pc[r] = "attempt" /\ healthy[Claimed]
          /\ pc'[r] # pc[r] => sent'[r] # <<>> \/ result'[r] = "BadGateway"]_vars
=============================================================================
