# GatePup: models, checks and proofs

GatePup is an HTTP reverse proxy: listeners route requests to upstreams with
weighted, health-checked targets, retry failed attempts, rate limit clients, and
swap their configuration on SIGHUP. This directory holds TLA+ models of its life from
the environment it starts with to its exit, in the detail its correctness depends on
(the order of concurrent steps, failures, precedence, numeric edges), the TLC
configurations that check them, and TLAPS proofs.

Paths below are relative to `src/crates/`.

## Inventory

| part | state | operations | modelled in |
|---|---|---|---|
| schedule construction (`gatepup-proxy/src/snapshot.rs`) | none | `gcd`, `build_schedule`, the fallback of `build_snapshot_inner` | Schedule |
| load balancing (`snapshot.rs`) | `next`, healthy flags | `pick_target` | Balancer; Forward, slot by slot |
| target health (`health.rs`) | flag, success and failure counters | `HealthState::observe` | Health, HealthSpec |
| health supervisor (`health.rs`) | generation, stop channels | `run_health_supervisor`, `run_health_checks` | HotReload |
| signals and reload (`gatepup-core/src/app.rs`) | `shared`, `effective`, watch channels | `signal_loop`, `reload`, `serve` | HotReload |
| request path (`proxy.rs`) | per request: body source, attempt, last error | `handle`, `forward`, `prepare_body_source`, `BodySource`, `CappedBody` | Forward |
| upgrades (`proxy.rs`) | per request, then a detached tunnel | `handle_upgrade` | Forward up to the 101, Server for the tunnel |
| rate limiter (`rate_limit.rs`, `RateLimit` in `router.rs`) | sharded bucket map | `check`, `refill`, `is_full_at`, sweep | RateLimiter |
| metrics (`gatepup-observability`) | counters | `inc_*` of the request path | Forward |
| accept loops, drain (`server.rs`) | connection set, drain timer | `serve_shared`, `accept_loop`, `serve_connection` | Server |
| start and exit (`app.rs`, `main.rs`) | the two servers | `resolve_validated`, `serve`, `try_join!` | Startup, Server |
| routing (`router.rs`) | none | `Router::build`, `match_route`, prefix stripping | Router |
| client address, access lists (`proxy.rs`, `router.rs`) | none | `resolve_client_ip`, `append_forwarded_for`, `IpAccess` | Router |
| configuration (`gatepup-config`) | none | sources, simple mode, overrides, `validate` | Config |
| compression (`compress.rs`) | none | eligibility, negotiation, resulting headers | Compress |
| admin API (`gatepup-admin`) | reads the cells above | accept loop; method, token, path | Server, Startup, HotReload (the view of `effective`) |
| TLS (`tls.rs`, `upstream_tls.rs`) | none | certificate loading | only that it may fail |
| CLI, logging, bench | none | | no |

How they interact. `serve` (app.rs) builds the first snapshot into an `ArcSwap`,
spawns `signal_loop`, then runs `serve_shared`, which binds listeners, spawns an
accept loop for each and the health supervisor. Every request loads the snapshot
once and uses it to its end; a reload stores a new one, then the rendered
configuration, then bumps a watch channel the supervisor waits on. Requests of one
upstream share its schedule counter and its targets' `HealthState`, which the
prober writes too. The rate limiter's buckets outlive snapshots.

What is hard: the shared schedule counter (walks interleave slot by slot), the
four separate atomics of `observe`, the three publications of a reload racing the
supervisor's respawn and requests, clocks read before a lock is taken, the retry
loop with targets being ejected under it, bodies that can be sent only once,
clients that leave at any await, the upgrade path, which nothing bounds, a shutdown
that comes before or between the binds and races connections being accepted, and the
pure decisions (route, client address, precedence, validation) whose cases multiply.
`hazards` in `PROJECT.json` lists them by line with the properties aimed at them.

What makes each part correct: shares follow weights and a healthy target is found
(schedule, balancer); a streak of equal outcomes decides a target's health
whatever raced before it (health); checks follow the served snapshot, old loops
end, requests see one consistent snapshot (reload); retries only happen when they
are allowed to and answers reflect what happened (request path); nobody gets more
than burst plus refill (limiter); the process ends in bounded time and cuts off only
what outlasted the drain (server); a configuration that validates can be served, and
requests meet the most specific route, as the client that sent them (start).

## Modules

`X.tla` is the model, `MCX.tla` its instances, `X_proof.tla` its proofs;
`NumberLemmas.tla` holds what several proofs share: division with remainder,
divisibility, and induction and recursion over the turns of a loop.
Definitions named *Mutant of D* in a comment are deliberate bugs in `D`; each
property is known to be violated by one of them.

**Schedule** transcribes `gcd` and `build_schedule`: division by the gcd, rounds
over the remaining weights until `len < total` fails, the `u32` sum modulo `U32`.
Every loop is a function of its turn, with the value of its variable after it; the
while loop has as many turns as there are slots, by which it is over (`BuildFacts`).
It is checked inside Startup, as part of building a snapshot.

**Balancer** is `pick_target` with one step per atomic: `Claim` is the
`fetch_add`, `Load` reads the flag and returns or goes round. `SetHealthy` stands
for observations. `claims`, `from`, `steady`, `taken`, `served` and `ejected` are history
variables that no step reads.

**Health** is `observe` with one step per atomic (`Clear`, `Bump`, `Test`,
`Store`), run by several observers. Counters saturate at the larger threshold:
only comparison with the thresholds is ever made. `clean`, `run`, `completed`,
`alone` and `shown` are history. **HealthSpec** is what `observe` promises: an
indivisible observation that flips the flag exactly after a threshold of equal
outcomes. Health is shown to implement it as long as observations do not overlap
(`Refines`; `shown` freezes the abstract state once they have).

**HotReload** has the operator (edits, SIGHUP, SIGTERM; pending signals coalesce),
`signal_loop` with `reload` split into resolve / store shared / store effective /
notify, `serve_shared`'s load, the supervisor split into stop / load / spawn /
wait, every health loop of every generation, and requests split into loading the
snapshot, matching and looking the upstream up. A watch channel is a version and
the version each receiver has seen. A configuration is abstracted to the upstreams
its routes name, those it declares, those it checks, and the connect timeout; a
snapshot is a configuration and an identity, because health state is per snapshot.
A file that fails to load or to validate stands as an invalid configuration.

**RateLimiter** is one shard. `Arrive` is where `forward` evaluates
`Instant::now()` and the snapshot's limit; `Check` is the rest, under the lock,
the sweep included. The `f64` tokens become integers of which `Unit` make a token.
`admitted`, `upto`, `rewound`, `kept`, `disordered`, `overtaken` and `reloaded` are
history: `rewound` sums how far out-of-order checks have set a bucket's time back, `kept`
is the map as it would be without sweeps, `disordered` holds the clients whose own checks
came out of order, and `overtaken` those whose bucket was swept by a check that had read
a later time than their own next check.

**Forward** is `handle`, `forward` and `handle_upgrade`; a step runs from one await
to the next. Early rejections may hit any request. `BufferBody` is
`prepare_body_source`'s collection; `AttemptNone`, `AttemptSpent`,
`AttemptUnbuildable`, `AttemptSend` are the ways out of the loop's head; `Timeout`,
`Overflow`, `SendFails`, `Responds`, `Responds5xx` the ways an attempt ends;
`Dropped` is a client that left; `Probe` the active checks. `pick_target` has no await,
but other threads claim slots while it walks: each slot is a step (`PassOver`, or one of
the steps above that `Picks` or `Passes` the last), and `passed` holds the slots it has
passed over. Claiming a slot and reading its target's flag is one step here (Balancer has
two), and `observe` is HealthSpec's step, instantiated per target (Health takes it apart).
Whether a request can be built for a target depends on the two alone (`unbuildable`).
`sent`, `outcomes`, `rivals`, `crowded`, `repeated` and `delivered` are history. Header
and URI rewriting, compression and logging carry no state and are left out here.

**Server** is the process from its first bind to its exit: `Bind`, `SpawnSupervisor`
and `AwaitHandles` are `serve_shared`; `Accept`, `StopAccepting`, `Drained`,
`DrainTimeout` are `accept_loop` and the same loop of the admin server; `Handshake`,
`ReadHead`, `Serve`, `Respond`, `Upgrade`, `Close`, `GracefulShutdown` a connection's
task; `RecvTerm` the signal, at any moment; `Exit` the end of `try_join!`, which drops
whatever task is left. A watch channel that is written once is a Boolean, since every
receiver was cloned before it had seen the value. `graceful_shutdown` is hyper's: an
idle connection closes, a busy one does after its response. A tunnel belongs to no
connection set. Time passes only when no task is ready (`Tick`), so timers are exact
and `age`, the time since the signal, can be bounded; `cut` and `age` are history.

**Router** has the table of a listener: `HostMatch`, `Compile`, `Specificity`,
`match_route` (the last of equal maxima), `rewritten_path`, `IpAccess`, and the client's
address. A host is a sequence of labels, a path a sequence of characters because
prefixes need not end at a segment; an optional value is a set of at most one element,
a network the set of its addresses, and an entry that does not parse the empty set.

**Config** is `resolve.rs` and `validator.rs`: the variables as `resolve_config` reads
them (`getter`: one that is set but not Unicode reads as unset), sources in their order,
simple mode, overrides, and every check of `validate` as the set of errors it reports. A
document that cannot be read or parsed is an empty one, a timeout that does not parse a
negative number. Text that is
only parsed is a member of a set that parses (`Addresses`, `Levels`) or not; header
rules, credentials and target URLs are reduced to whether they are well formed.
`GatePupConfig` and the types it is made of are the structs of `model.rs`, as far as
anything looks at them; `Text` is the type of a `String`.

**Compress** decides whether and how a response is encoded. A response is the headers
that count and `coded`, the codings its body has been through; Accept-Encoding is the
set of the names in it, since q-values are not parsed.

**Startup** composes Config, Router, Schedule and Compress: `Resolve`, `Validate`,
`Build` (which may fail on TLS files), then one request (`Handle`) or one request to
the admin API (`HandleAdmin`). A request arrives on any listener, which is found by its
name as `forward` finds it. It comes from an origin through a chain of
proxies, each of which appends the peer it saw to X-Forwarded-For. A request has one
X-Forwarded-For line: `handle` reads only the first, and none that is not visible ASCII
(proxy.rs:270-272), so behind a trusted proxy that adds a line of its own, instead of
appending as GatePup does, the client is not the one of `ClientIsOrigin`. The response of
the upstream is taken as the route's header rules leave it (proxy.rs:469 applies them
before `maybe_compress`); rules that make Content-Encoding untrue are outside
`EncodedAsLabelled`.

## Runs

| run | what it shows |
|---|---|
| `startup` | From the environment to an answer, over families that each vary one part of a plain configuration: every upstream of up to three targets with weights 1..6, every table of two routes over seven hosts and six prefixes, no listener, two and two of one name, trusted proxies with access lists, each value validation looks at on both sides of its limit, compression, every combination of present, absent and broken sources, simple mode, overrides, variables that are not Unicode, and every combination of admin block, `GATEPUP_ADMIN` and `GATEPUP_ADMIN_TOKEN`. `U32` = 12 makes sums of reduced weights wrap to nothing, to little and to one short. |
| `server` | Two listeners, one of them TLS, the admin server or none, two connections: a signal at any moment, also before the binds, and a bind that fails with earlier loops running, end the process within the longer drain; an orderly shutdown cuts off only tunnels and requests that had the whole drain. Timeouts of 3, 2 and 2 keep the order of 15 s (drain), 10 s (admin drain) and 10 s (handshake). |
| `balancer` | Two callers on the schedule 1 2 3 1 2 while any target may be ejected and readmitted: `None` for a healthy target means other callers took all its slots; targets that were never ejected keep their proportions; walks end. `Usize` = 8 is no multiple of 5, so the counter wraps into a torn pass; three flips can eject everybody, and three calls are enough to wrap, to complete a pass and to starve a walk. |
| `health` | Two observers, thresholds 0 (raised to 1 by the code) and 3: undisturbed streaks decide, the flag settles, and `observe` refines HealthSpec. |
| `hot_reload` | Two SIGHUPs, two edits over two valid files and a broken one, one request: the supervisor never waits on a replaced snapshot, no two generations run unstopped, no request misses its upstream, the admin view is what is served. Its type invariant is proved (`TypeCorrect`). Two reloads let one land inside the respawn of another. |
| `hot_reload_live` | A SIGHUP is served, checks follow the snapshot, stopped loops exit. One upstream, to keep the liveness graph small. |
| `hot_reload_timeout` (violation) | A changed `connectTimeoutMs` does not reach requests after a reload. |
| `hot_reload_tls` (violation) | A SIGHUP handled before `serve_shared` loads the snapshot leaves https listeners without a TLS acceptor. |
| `rate_limiter` | Two requests, two clients, a sweep at two entries, a reload between rates 1/2 and 3/2 of a token per tick with burst 2: admissions stay within burst plus refill of elapsed and rewound time, and a client whose checks keep their order notices a sweep only if it was ahead of it (`overtaken`). |
| `forward` | Two requests of seven kinds (over and under the limit and the cap, declared and chunked, listed and unlisted methods, upgrades, and ones that cannot be built for one of the targets) through up to three attempts on two targets, every outcome of an attempt, probes and clients that leave: licensed retries, truthful answers, retries that move on, counters that add up, body limits, nobody blamed for a client's error. Two walks at a time are enough for one to get a 503 while the other's target is healthy. |
| `forward_live` | Every request that is not an upgrade is resolved once its body is there. |
| `forward_large_body` (violation) | A chunked body over the buffer cap of a retryable method gets a 503 without an attempt. |

Bounds. Clocks, calls, edits and signals are bounded by constants in the guards.
Body sizes are relative to a cap of 2 and a limit of 1, so each side of each
comparison occurs. Thresholds of 1 in `forward` make targets leave and return
within a single request; longer streaks are Health's subject. Requests, workers
and clients are interchangeable, hence the symmetry sets; targets are not, since
the schedule orders them. Symmetry is not used for liveness. Deadlock is left
unchecked only where everybody may be done (call and signal budgets used up, the
request answered, the process over). Two connections are enough in `server` for one to
end while the other is cut off, on the same server or on another; two routes in
`startup` for every pair that overlaps, and only pairs are ever compared.

Fairness. Balancer's walks and Health's observations contain no await, so a step
that can run does (weak fairness). In HotReload, weak fairness for the signal loop,
the supervisor and the end of a sweep (each probe has a timeout); strong fairness
for a loop's stop, since `tokio::select!` chooses at random among ready branches
and so cannot prefer an always-ready ticker forever. In Forward, weak fairness for
the loop's head, which does not wait, and for `Timeout`, a timer. In Server, weak
fairness for what the runtime does by itself, for time, for the exit and for a
handshake whose timeout is due. Nothing is assumed of clients, upstreams or the
operator: a client may hold a request or a tunnel forever.

## Differences between documents and code

Those with a violation run:
- `README.md:135-136`, timeouts reload: the connect timeout does not
  (`hot_reload_timeout`).
- `server.rs:55-56`, acceptors fixed "from the initial snapshot": a reload may come
  first (`hot_reload_tls`).
- `README.md:200-201`, larger bodies stream through: a chunked one of a retryable
  method is consumed and refused (`forward_large_body`).

Those seen while modelling and stated by properties in the form that does hold:
- `snapshot.rs:118-119`, `pick_target` returns `None` "only when every target is
  unhealthy": two walks can split the slots of a healthy target between them;
  `NoneMeansContended` says that this is the only other reason. For the client it is a
  503 although a target is healthy (`AnswerIsLastOutcome`).
- `README.md:182-183`, a retry goes to "a *different* target": `RetryMovesOn` holds
  where every target has one slot, and without a competing pick.
- `README.md:268-271`, chunked bodies over `maxBodyBytes` get 413:
  `OversizeNotDelivered` excepts bodies buffered for replay, up to 64 KiB.
- `model.rs:62-63`, the request timeout bounds the whole round trip: not that of an
  upgrade (`RequestsResolve`).
- `rate_limit.rs:28-34`: a check with an older time sets `last` back, and the span
  is credited twice (`AdmittedWithinSkew` counts it).
- `rate_limit.rs:36-37`, a full bucket is "safe to evict": the sweep judges it by the
  time the sweeping check read, which may be later than the one the client's next check
  has read already. With rate 1/2 and burst 2: k1 is checked at 0 and reads 1 for its next
  check; k2 is checked at 2 and sweeps k1, full by then; k1's check at 1 finds a fresh
  bucket. `InvisibleUnlessAhead` says that, for an unchanged limit and a client whose own
  checks keep their order, this is the only exception; `AdmittedWithinSkew` counts what is
  gained by it. Nor is it safe after a reload that raised the burst.
- `README.md:96-98` and `:455`, setting `admin.token` or `GATEPUP_ADMIN_TOKEN` requires a
  token: `GATEPUP_ADMIN` replaces the whole admin block and with it a token from the
  file, and without it `GATEPUP_ADMIN_TOKEN` has no effect; either way the admin API may be
  open although a token is set. `TokenInForceGuards` is about the one that is in force.
- `README.md:460-461`, malformed overrides fail loud: one that is not Unicode is skipped
  (`resolve.rs:29`). So is a `GATEPUP_CONFIG` that is not, and the next source is taken,
  or a `GATEPUP_ADMIN_TOKEN`, which leaves the admin API open. `NoFallThrough` makes this
  exception and no other.
- `metrics.rs:36-39`, "Requests forwarded to an upstream": only those a target answered,
  not those that were sent and ended in 502 or 504 or whose client left;
  `metrics.rs:44-47`, attempts "retried onto another target": all further rounds,
  whatever target they find, the same or none. `CountersAddUp` says exactly what each
  counter counts.
- `README.md:279-280`, limits change on restart only: `maxBodyBytes` is read from
  the request's snapshot and does reload.
- `router.rs:206`, the most specific route: of wildcards inside each other with equal
  prefixes the last in the file is taken, and an absent and an empty host match the
  same requests without being a conflict (`MostSpecific`).
- `README.md:96-97`, the token guards all but `/health`: a metrics path of `/health` is
  open too (`TokenInForceGuards`).

Seen, without a property: an upgraded tunnel is not drained at
shutdown; a connection set keeps finished tasks until shutdown; q-values are ignored
and a 206 of an eligible type is compressed; the health gauge of an upstream that a
reload removed keeps its last value in every later scrape (`gatepup-admin/src/api.rs:90`
sets the gauges of the live snapshot and clears none).

## Proofs

Each proof is for every value of the constants, from one named assumption per module
about their types. Where an assumption says more, it is a fact of the code: positive
timeouts of which the handshake's is shorter than the drain's (`ServerAssumption`,
10 s and 15 s), thresholds of at least one in Forward (`HealthState::new` raises them).
The numbers of requests, clients, observers, callers and connections are unbounded;
that only finitely many have started at any moment is an invariant where it is needed,
not an assumption. The invariants of the runs are not inductive alone; each theorem
adds a layer that is.

`HotReload_proof`, for any configurations, upstreams, requests and any number of
reloads and edits; a health check belongs to a declared upstream.
- `Counting`: versions seen lag versions published, each publication has a SIGHUP of
  its own and each generation a version of its own. With it `TypeOK` is inductive
  (generations stay within their index set): `TypeCorrect`.
- `Current`: at each step of the respawn, either what the supervisor has loaded is
  still `shared`, or a notification it has not seen is due: `SupervisorFollows`.
- `Validated`: everything built, published or loaded by a request is valid, and a
  request's route is one of its own snapshot: `UpstreamAlwaysFound`.
- `Retired`: every generation but the last is stopped before the next has loops:
  `GenerationsDoNotOverlap`.
- `Published`: what each step of a publication has stored: `AdminShowsWhatIsServed`.

`RateLimiter_proof`, for any workers, clients, limits, sweep threshold and time.
- `TypeCorrect`: buckets stay well formed and tokens never go negative.
- `AdmissionBounded` has the hypothesis `Highest`: all limits a reload can bring in have
  the same burst, and the bound is stated with the highest rate. Its invariant `Credit`
  is an account per client: tokens admitted plus tokens held are at most the capacity
  plus the refill up to the bucket's time plus what was rewound. A swept or absent
  bucket counts as holding a full one, which is why `is_full_at` must be exact.
- `SweepsUnnoticedUnlessAhead`: `Unnoticed` compares each bucket with the one `kept`
  beside it, as if nothing were ever swept: equal if present, and otherwise full by the
  time of the sweep (`upto`). A check at or after that time finds what a fresh bucket
  holds; one before it makes the client `disordered` or `overtaken`.

`Server_proof`, for any listeners and connections.
- `Started` and `Timers`: which parts can be where before and after the signal, and what
  each timer has left plus the time since the signal equals the timeout.
- `Bounded`: until the exit some server is draining, and its timer started with the
  signal: `ShutdownIsBounded`.
- `Informed`, `Gone`: by the end of a drain every handshake is over, every connection
  has been told and every idle one is closed: `OnlyOutlastedIsCut`.

`Health_proof`, for any observers and thresholds.
- `Undisturbed` and `Numbered`: `fetch_add` hands every number out once, so as long as
  the flag differs from an undisturbed run, those who ended it and those about to had
  different numbers below the threshold, of which there are only so many:
  `StreaksDecide`.
- `Solo`: as long as no two observations overlapped, the counters are the run of
  HealthSpec, shifted by the step the one observer is at: `ObserveRefines`, the step
  simulation of HealthSpec.

`Balancer_proof`, for any schedule, callers, width of the counter and changes of health.
- `Positions`: the counter is the number of claims, wrapped: `TypeCorrect`.
- `Covered`: each of the first L claims since a walk began is another caller's, or of a
  target the walk has found unhealthy, or the one it is about to look at; any L
  consecutive numbers take every remainder modulo L: `NoneIsContention`.
- `Tally`: picks of a target that was never ejected are the slots claimed so far that
  are its own, less those still to be read; whole passes make that a multiple of its
  slots: `SharesAreExact`.

`Forward_proof`, for any requests, targets, schedule, thresholds, policy and limits.
- `Typed`: `TypeCorrect`; `Untouched`: `NobodyBlamed`.
- `Story` relates the attempts sent, their outcomes, the body source and the last error
  of each request: `RetriesLicensed`, `AnswersAreTruthful`, `OversizeIsCut`.
- `Counting`: each step moves the counters by what it adds to the sets they count:
  `CountersAreExact`.
- `Walks`: as long as nobody else claims a slot, the slots a walk has passed over are
  consecutive and end right before the counter (`Stride`); a walk that has passed over
  as many as there are has met every target (`Searched`, the 503 of
  `AnswersAreTruthful`). After an attempt it starts right behind the slot of that attempt
  (`Trail`), so under the hypothesis that every target has one slot (`OneSlotEach`; equal
  weights) it is back at the same target only after it has passed every other:
  `RetriesMoveOn`. With more slots per target it does not hold.

`Startup_proof`, for any environments, configurations, requests and widths; requests and
documents have their types, and upstreams label their responses truthfully
(`StartupAssumption`); `Text` holds the defaults that appear in the code
(`TextAssumption`). There is one inductive invariant, `Course`: the configuration is
what the environment resolves to, the snapshot what it builds once validation has found
nothing, and the answer what the snapshot says of the request. The theorems follow from
what these functions guarantee: `NothingFallsThrough` (with what is not Unicode taken for
unset, as the code does), `ValidIsSafe` (what each check
rules out, part by part), `MostSpecificIsTaken` (a narrower match ranks higher, and
`check_conflicts` leaves no two routes of one match), `RestIsKept`, `ClientIsJudged`,
`LabelsAreTrue`, `AdminIsGuarded`. `ClientIsJudged` is about chains of proxies of any
length: what arrives has a closed form, shown equal to the recursion by its least
counterexample.

The schedules are the other part of `Startup_proof`, for any number of targets and any
weights that pass validation. What a loop computes is shown turn by turn: `LoopHasCourse`
gives a recursive definition its value, `TurnByTurn` is induction with the set of turns
after which the claim holds.
- `GcdIsGcd`, `DivisorFacts`: `gcd` ends and is the greatest common divisor, and the fold
  is that of all weights, so the division leaves no remainder (`RemainingFacts`).
- `RoundsCourse`: after k turns m rounds have been dealt, each target has the lesser of
  its reduced weight and m, every prefix lies within one round, and either m = k or the
  guard has closed.
- `EveryoneIsScheduled`: a schedule with a slot has a whole round, and without one there
  is the fallback, also when the `u32` sum wraps. `SlotsAreInterleaved`: two picks ahead
  is a round ahead. `SharesAreProportional`, when the sum does not wrap: the slots add up
  to the length (`TallyAddsUp`), so the shares are the reduced weights, and a common
  divisor of the shares would have been part of the gcd.

Only model-checked:
- everything about liveness and fairness (`Stops`, `WalkEnds`, `Settles`, `HupIsServed`,
  `ChecksFollowReload`, `StoppedLoopsExit`, `RequestsResolve`), which is out of the
  prover's reach;
- the rate limiter's bound across reloads that change the burst, which does not hold:
  a client keeps the tokens of the larger burst.

## Plan

Done: Schedule, Balancer, Health, HotReload, RateLimiter, Forward, in the order of how
much of the proxy depends on them, then Server, Router, Config, Compress and their
composition in Startup; proofs of all their safety properties. Next: HotReload with
health state per snapshot, so that a reload's effect on ejected targets and on requests
still using the old snapshot is stated.

## Not modelled

Certificate loading and rustls, logging, argument parsing and the benchmark backend are
I/O without state of their own. The bytes of a tunnel, the encoder of compression, the
rewriting of headers and the payloads of the admin views are data that no decision
depends on. The duration histogram and the health gauge are written and never read by
the proxy.

Smaller omissions: the supervisor returns at once when no TLS client for probes can be
built (health.rs:160-171; `serve_shared` builds one the same way first and fails). At the
exit, dropping the runtime also waits for blocking calls that are running, such as a name
lookup of an upstream; `ShutdownBounded` is about the tasks.
Two listeners with one bind address pass validation, and the second bind fails (Server).
