------------------------------ MODULE Startup ------------------------------
(***************************************************************************)
(* From the environment to an answer: resolve and validate the             *)
(* configuration (Config.tla), build the snapshot (build_snapshot_inner of *)
(* crates/gatepup-proxy/src/snapshot.rs, with the schedules of             *)
(* Schedule.tla and the routers of Router.tla), then match one request,    *)
(* or answer one request to the admin API (crates/gatepup-admin/src).      *)
(* Reload takes the same way (HotReload.tla has its concurrency).          *)
(***************************************************************************)
EXTENDS Config, Schedule, Compress

CONSTANTS
    Environments,       \* what the process may be started with
    Requests,           \* [host, path, origin, via, sent, accept, reply]: see Arriving, Delivered
    AdminRequests       \* [method, path, token]

\* Every variable, as it is read, is a text or left out; one that holds a document
\* is left out, {} inside if it does not parse, or the configuration it parses to.
EnvironmentType ==
    [cli_path : Optional(Optional(GatePupConfig)), GATEPUP_CONFIG : Optional(Optional(GatePupConfig)),
     GATEPUP_CONFIG_JSON : Optional(Optional(GatePupConfig)),
     GATEPUP_LISTEN : Optional(Text), GATEPUP_UPSTREAM : Optional(Seq(Text)),
     GATEPUP_TLS_CERT : Optional(Text), GATEPUP_TLS_KEY : Optional(Text),
     GATEPUP_HEALTHCHECK_PATH : Optional(Text), GATEPUP_LOG : Optional(Text),
     GATEPUP_ROUTE_HOST : Optional(Seq(DOMAIN LowerCase)),
     GATEPUP_ADMIN : Optional(Text), GATEPUP_ADMIN_TOKEN : Optional(Text),
     GATEPUP_METRICS_PATH : Optional(Text),
     GATEPUP_TIMEOUT_CONNECT_MS : Optional(Int), GATEPUP_TIMEOUT_REQUEST_MS : Optional(Int)]

\* What an upstream replies is coded the way its own headers say.
ReplyType ==
    {r \in [encoding : SUBSET Text, type : Text, length : Optional(Nat), vary : BOOLEAN,
            coded : Seq(Text)] :
        ToSet(r.coded) = r.encoding /\ Len(r.coded) = Cardinality(r.encoding)}

ASSUME StartupAssumption ==
    /\ MillisPerSecond \in Nat \ {0}
    /\ MIN_HEADER_BYTES \in Nat
    /\ \A e \in Environments :
          getter(e) \in EnvironmentType /\ \A key \in DOMAIN e : \A x, y \in e[key] : x = y
    /\ \A q \in Requests : /\ q.host \in Seq(DOMAIN LowerCase) /\ q.path \in Seq(Text)
                            /\ q.accept \subseteq Text /\ q.reply \in ReplyType
                            /\ q.origin \in Text /\ q.via \in Seq(Text)
                            /\ q.sent \in Seq(Optional(Text))

VARIABLES
    env, stage, config, snapshot, request, answer

vars == <<env, stage, config, snapshot, request, answer>>

Nothing == [kind |-> "none"]

Init ==
    /\ env \in Environments
    /\ stage = "resolve"
    /\ config = None /\ snapshot = None
    /\ request = Nothing /\ answer = Nothing

-----------------------------------------------------------------------------
Resolve ==
    /\ stage = "resolve"
    /\ config' = resolve_config(env)
    /\ stage' = IF config' = None THEN "config_error" ELSE "validate"
    /\ UNCHANGED <<env, snapshot, request, answer>>

Validate ==
    /\ stage = "validate"
    /\ \E c \in config : stage' = IF validate(c) = {} THEN "build" ELSE "invalid"
    /\ UNCHANGED <<env, config, snapshot, request, answer>>

-----------------------------------------------------------------------------
(* build_snapshot_inner. *)

Managed(u) == \E hc \in u.health_check : hc.enabled

UpstreamRuntime(u) ==
    LET weights == [i \in DOMAIN u.targets |-> u.targets[i].weight]
    IN  [weights |-> weights,
         schedule |-> UpstreamSchedule(weights),
         health |-> IF Managed(u)
                    THEN {[interval |-> hc.interval_seconds * MillisPerSecond,
                           timeout |-> hc.timeout_ms] : hc \in u.health_check}
                    ELSE None]

\* A HashMap: of two upstreams with one name the later one stays.
UpstreamMap(upstreams) ==
    [name \in ToSet(Names(upstreams)) |->
        UpstreamRuntime(upstreams[SelectLastInSeq(upstreams, LAMBDA u : u.name = name)])]

ListenerRuntime(l) ==
    [name |-> l.name, bind |-> l.bind,
     router |-> BuildRouter(l.routes), acceptor |-> l.tls # None]

build_snapshot(c) ==
    [listeners |-> [i \in DOMAIN c.listeners |-> ListenerRuntime(c.listeners[i])],
     upstreams |-> UpstreamMap(c.upstreams),
     timeouts |-> c.timeouts,
     max_header_bytes |-> IF c.limits.max_header_bytes > 0
                          THEN Some(c.limits.max_header_bytes) ELSE None,
     trusted_proxies |-> c.trusted_proxies \ {{}},
     compression |-> Compression(c.compression)]

\* The acceptor of an https listener reads its files, which may fail.
Build ==
    /\ stage = "build"
    /\ \E c \in config :
          \/ /\ snapshot' = Some(build_snapshot(c))
             /\ stage' = "serving"
          \/ /\ \E l \in ToSet(c.listeners) : l.tls # None
             /\ stage' = "tls_error"
             /\ UNCHANGED snapshot
    /\ UNCHANGED <<env, config, request, answer>>

-----------------------------------------------------------------------------
(* A request: handle, and forward as far as the snapshot alone decides;    *)
(* rate limit, credentials, body and attempts are Forward's subject.       *)

\* It was sent by origin with an X-Forwarded-For of its own, and came through
\* the proxies of via, each of which appended the peer it saw, as GatePup does.
Arriving(q) ==
    LET hop[k \in 0..Len(q.via)] ==
            IF k = 0 THEN [peer |-> q.origin, xff |-> q.sent]
            ELSE [peer |-> q.via[k], xff |-> append_forwarded_for(hop[k - 1].xff, hop[k - 1].peer)]
    IN  hop[Len(q.via)]

ClientIp(s, q) ==
    LET m == Arriving(q) IN resolve_client_ip(m.peer, m.xff, s.trusted_proxies)

\* The response of the upstream as the client gets it, after the route's header rules.
Delivered(s, q) ==
    IF s.compression = None THEN q.reply
    ELSE CHOOSE resp \in UNION {maybe_compress(q.reply, q.accept, comp) : comp \in s.compression} : TRUE

\* find: the first listener of that name.
ListenerNamed(s, name) ==
    {n \in DOMAIN s.listeners : /\ s.listeners[n].name = name
                                /\ \A m \in 1..(n - 1) : s.listeners[m].name # name}

\* What becomes of request q on the n-th listener.
Handled(s, n, q) ==
    LET router == s.listeners[n].router
        found == match_route(router, request_host(q.host), q.path)
        client == ClientIp(s, q)
    IN  IF found = {} THEN [kind |-> "route_not_found"]
        ELSE LET i == CHOOSE i \in found : TRUE
             IN  IF ~Allows(router[i], client)
                 THEN [kind |-> "forbidden", on |-> n, client |-> client, route |-> i]
                 ELSE [kind |-> "forwarded", on |-> n, client |-> client, route |-> i,
                       path |-> rewritten_path(router[i], q.path),
                       response |-> Delivered(s, q)]

\* A request to any of the listeners.
Handle(q) ==
    /\ stage = "serving"
    /\ \E s \in snapshot : \E l \in ToSet(s.listeners) : \E n \in ListenerNamed(s, l.name) :
          answer' = Handled(s, n, q)
    /\ request' = q
    /\ stage' = "answered"
    /\ UNCHANGED <<env, config, snapshot>>

-----------------------------------------------------------------------------
(* A request to the admin API. *)

MetricsPath(c) == {m.path : m \in {m \in c.metrics : m.enabled}}

\* authorized: the request's token is the configured one.
Authorized(a, q) == a.token = q.token

AdminRoute(c, a, q) ==
    IF q.method # "GET" THEN "method_not_allowed"
    ELSE IF a.token # None /\ q.path # "/health" /\ ~Authorized(a, q) THEN "unauthorized"
    ELSE IF q.path \in MetricsPath(c) THEN "metrics"
    ELSE IF q.path \in {"/health", "/routes", "/upstreams", "/config/effective"} THEN q.path
    ELSE "not_found"

HandleAdmin(q) ==
    /\ stage = "serving"
    /\ \E c \in config : \E a \in c.admin :
          /\ a.enabled
          /\ answer' = [kind |-> AdminRoute(c, a, q)]
    /\ request' = q
    /\ stage' = "admin_answered"
    /\ UNCHANGED <<env, config, snapshot>>

-----------------------------------------------------------------------------
Next ==
    \/ Resolve \/ Validate \/ Build
    \/ \E q \in Requests : Handle(q)
    \/ \E q \in AdminRequests : HandleAdmin(q)

Spec == Init /\ [][Next]_vars

-----------------------------------------------------------------------------
Runtimes(s) == {s.upstreams[name] : name \in DOMAIN s.upstreams}
Fits(weights) == SumOf(Remaining(weights)) < U32

(***************************************************************************)
(* Slots are handed out exactly in proportion to the weights, in the       *)
(* shortest schedule that does so, whenever the reduced weights sum to     *)
(* less than 2^32 (build_schedule's doc comment).                          *)
(***************************************************************************)
Proportional ==
    \A s \in snapshot : \A u \in Runtimes(s) :
        Fits(u.weights) =>
            /\ \A i, j \in DOMAIN u.weights :
                  SlotsOf(u.schedule, i) * u.weights[j] = SlotsOf(u.schedule, j) * u.weights[i]
            /\ \A d \in 2..Len(u.schedule) :
                  \E i \in DOMAIN u.weights : SlotsOf(u.schedule, i) % d # 0

(***************************************************************************)
(* Every slot is a target's and every target has one, even when the u32    *)
(* sum of the weights wraps and build_schedule stops early or produces     *)
(* nothing at all.                                                         *)
(***************************************************************************)
EveryTargetScheduled ==
    \A s \in snapshot : \A u \in Runtimes(s) : ToSet(u.schedule) = DOMAIN u.weights

(***************************************************************************)
(* Slots are interleaved: at any point of a pass over the schedule a       *)
(* target is two picks ahead of another only when the other has no slot    *)
(* left in this pass.                                                      *)
(***************************************************************************)
Interleaved ==
    \A s \in snapshot : \A u \in Runtimes(s) :
        \A n \in DOMAIN u.schedule : \A i, j \in DOMAIN u.weights :
            LET taken == SubSeq(u.schedule, 1, n)
            IN  SlotsOf(taken, i) >= SlotsOf(taken, j) + 2
                    => SlotsOf(taken, j) = SlotsOf(u.schedule, j)

\* hm1 matches only hosts that hm2 matches too; wildcards are not compared.
Narrower(hm1, hm2) ==
    \/ hm1 = hm2
    \/ hm2.kind = "any"
    \/ hm2.kind = "wildcard" /\ hm1.kind = "exact" /\ HostMatches(hm2, hm1.labels)

\* r1 matches only requests that r2 matches too.
Within(r1, r2) == /\ Narrower(r1.host_match, r2.host_match)
                  /\ IsPrefix(r2.path_prefix, r1.path_prefix)

(***************************************************************************)
(* "Picks the most specific matching route" (router.rs:206): of the routes *)
(* that match a request, none is confined to part, or all, of what the     *)
(* chosen one matches.  Specificity and the conflicts that validation      *)
(* rejects together make the order of the routes in the file irrelevant,   *)
(* with two exceptions: of wildcards inside each other under the same      *)
(* prefix the last is taken, and a route without a host and one with an    *)
(* empty host are the same match yet no conflict.                          *)
(***************************************************************************)
MostSpecific ==
    stage = "answered" /\ answer.kind # "route_not_found" =>
        \A s \in snapshot :
            LET router == s.listeners[answer.on].router
                chosen == router[answer.route]
                others == Matching(router, request_host(request.host), request.path)
                              \ {answer.route}
            IN  \A i \in others :
                    Within(router[i], chosen) =>
                        /\ chosen.host_match = AnyHost
                        /\ router[i].host_match = AnyHost
                        /\ router[i].path_prefix = chosen.path_prefix

(***************************************************************************)
(* With stripPrefix the upstream sees the rest of the path, all of it, and *)
(* always a path that starts with a slash ("The result is always           *)
(* normalized to start with `/`", README.md:221), wherever the prefix      *)
(* ends.                                                                   *)
(***************************************************************************)
StripKeepsRest ==
    answer.kind = "forwarded" =>
        \A s \in snapshot :
            LET r == s.listeners[answer.on].router[answer.route]
                given == IF r.strip_prefix THEN r.path_prefix ELSE <<>>
            IN  /\ Head(answer.path) = Slash
                /\ request.path \in {given \o answer.path, given \o Tail(answer.path)}

(***************************************************************************)
(* Through any chain of trusted proxies access control judges the last hop *)
(* before them, the client that sent the request or a proxy that is not    *)
(* trusted, whatever X-Forwarded-For the client sent; without a trusted    *)
(* proxy, the peer.  (resolve_client_ip, append_forwarded_for, IpAccess)   *)
(***************************************************************************)
ClientIsOrigin ==
    stage = "answered" /\ answer.kind # "route_not_found" =>
        \A s \in snapshot :
            LET trusts(ip) == Trusts(s.trusted_proxies, ip)
                hops == <<request.origin>> \o request.via
            IN  \A i \in DOMAIN hops :
                    ~trusts(hops[i]) /\ (\A j \in (i + 1)..Len(hops) : trusts(hops[j]))
                        => answer.client = hops[i]

(***************************************************************************)
(* The client can decode what it gets: the body has been through exactly   *)
(* the coding its Content-Encoding names, never through two, its           *)
(* Content-Length is that of the body as sent, and a coding GatePup added  *)
(* is one the client named and caches are told of ("Skipped when: the      *)
(* client doesn't accept an enabled algorithm; the response is already     *)
(* encoded", README.md:381-382).                                           *)
(***************************************************************************)
EncodedAsLabelled ==
    answer.kind = "forwarded" =>
        LET resp == answer.response
            added == resp.coded # request.reply.coded
        IN  /\ ToSet(resp.coded) = resp.encoding /\ Len(resp.coded) = Cardinality(resp.encoding)
            /\ added => /\ resp.length = None /\ resp.vary
                        /\ \A enc \in resp.encoding : {enc, "*"} \intersect request.accept # {}
            /\ ~added => resp = request.reply

(***************************************************************************)
(* What passed validation can be served: nothing that building and serving *)
(* takes for granted fails or panics.  Binds parse, https has its files    *)
(* and http has none, names are unique where they are looked up, every     *)
(* route finds its upstream and every upstream a target, probe intervals   *)
(* are positive (tokio's interval panics on zero) and longer than a probe, *)
(* timeouts are positive, and hyper's buffer is not below its floor (it    *)
(* panics, too).                                                           *)
(***************************************************************************)
ValidatedIsSafe ==
    \A s \in snapshot, c \in config :
        /\ \A i \in DOMAIN s.listeners :
              /\ s.listeners[i].bind \in Addresses
              /\ s.listeners[i].acceptor <=> c.listeners[i].protocol = "https"
              /\ \A r \in ToSet(s.listeners[i].router) :
                    r.upstream \in DOMAIN s.upstreams /\ Head(r.path_prefix) = Slash
        /\ Cardinality(ToSet(Names(s.listeners))) = Len(s.listeners)
        /\ Cardinality(DOMAIN s.upstreams) = Len(c.upstreams)
        /\ \A u \in Runtimes(s) :
              u.schedule # <<>> /\ \A h \in u.health : h.interval > 0 /\ h.timeout < h.interval
        /\ s.timeouts.connect > 0 /\ s.timeouts.request > 0
        /\ \A n \in s.max_header_bytes : n >= MIN_HEADER_BYTES
        /\ \A a \in c.admin : a.bind \in Addresses

\* Source i is there and no higher one is; what is not Unicode is not there.
InForce(i) ==
    LET given == {j \in 1..3 : Documents(env)[j] \notin {None, Some(NotUnicode)}}
    IN  i \in given /\ \A j \in given : i <= j

(***************************************************************************)
(* The first source that is present is the one that is served: if it is    *)
(* broken, or an override malformed, the start stops instead of letting a  *)
(* lower source or the default through.  With one exception: a variable    *)
(* that is set to something that is not Unicode is taken for unset         *)
(* (resolve.rs:29), although "Malformed values fail loud"                  *)
(* (README.md:460-461).                                                    *)
(***************************************************************************)
NoFallThrough ==
    snapshot # None =>
        /\ \A opt \in {env.GATEPUP_TIMEOUT_CONNECT_MS, env.GATEPUP_TIMEOUT_REQUEST_MS} :
              opt \subseteq Nat \union {NotUnicode}
        /\ \A i \in 1..3 : InForce(i) =>
              \E d \in UNION Documents(env)[i] : \A c \in config :
                  c.listeners = d.listeners /\ c.upstreams = d.upstreams

\* The token of the document the configuration is made from.
DocumentToken == UNION {a.token : a \in UNION {c.admin : c \in base_config(getter(env))}}

\* GATEPUP_ADMIN brings its own token, or none, whatever the document says;
\* without it GATEPUP_ADMIN_TOKEN does not count.
TokenInForce ==
    IF getter(env).GATEPUP_ADMIN # None THEN getter(env).GATEPUP_ADMIN_TOKEN ELSE DocumentToken

\* An admin request without one of these tokens, but for /health, is turned away.
TurnsAway(tokens) ==
    stage = "admin_answered" /\ request.path # "/health" /\ request.token \intersect tokens = {}
        => answer.kind \in {"unauthorized", "method_not_allowed"}

(***************************************************************************)
(* The token the operator put in force, in the environment together with   *)
(* GATEPUP_ADMIN or else in the document, is the one that counts when a    *)
(* request comes: it is not lost on the way through overrides, validation  *)
(* and routing, wherever the metrics are put, and nothing but what is at   *)
(* /health is answered without it.  (An empty one is no token: the start   *)
(* stops.)  A token that is set need not be in force, though README.md:96  *)
(* has it that setting either requires one: GATEPUP_ADMIN drops that of    *)
(* the document, and without GATEPUP_ADMIN the variable has no effect.     *)
(***************************************************************************)
TokenInForceGuards == TokenInForce # None => TurnsAway(TokenInForce)
=============================================================================
