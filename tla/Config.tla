------------------------------- MODULE Config -------------------------------
(***************************************************************************)
(* From the environment to a validated configuration: resolve.rs,          *)
(* validator.rs and the parts of model.rs they look at                     *)
(* (crates/gatepup-config/src).  A configuration is a record with the      *)
(* fields of GatePupConfig; text that is only parsed is one of a few       *)
(* values, of which Addresses, Levels and the like are those that parse.   *)
(* An optional value is a set of at most one element.                      *)
(***************************************************************************)
EXTENDS Router, FiniteSets

CONSTANTS
    Addresses,          \* texts that parse as a SocketAddr
    Levels,             \* texts that are a log level, in any case
    MIN_HEADER_BYTES,   \* hyper's floor
    MillisPerSecond,
    NotUnicode,         \* the value of a variable that is no Unicode text
    Text                \* the values of a String

\* Text holds the defaults.
ASSUME TextAssumption == {"info", "default", "0.0.0.0:8080", Slash} \subseteq Text

RETRY_ON == {"connect_error", "connect_timeout", "upstream_5xx"}
METHODS == {"GET", "HEAD", "POST", "PUT", "PATCH", "DELETE", "OPTIONS", "TRACE", "CONNECT"}
Algorithms == {"gzip", "br"}

-----------------------------------------------------------------------------
(* model.rs: what a document deserialises to, of the fields that count.    *)

Optional(S) == {opt \in SUBSET S : \A x, y \in opt : x = y}
Networks == SUBSET SUBSET Text

RouteConfig ==
    [name : Text, host : Optional(Seq(DOMAIN LowerCase)), path_prefix : Optional(Seq(Text)),
     upstream : Text, strip_prefix : BOOLEAN, headers : Optional(Text),
     allow : Networks, deny : Networks,
     rate_limit : Optional([requests_per_second : Int]), basic_auth : Optional(Text)]

ListenerConfig ==
    [name : Text, bind : Text, protocol : {"http", "https"},
     tls : Optional([cert : Text, key : Text]), routes : Seq(RouteConfig)]

HealthCheckConfig == [enabled : BOOLEAN, interval_seconds : Nat, timeout_ms : Nat]

UpstreamConfig ==
    [name : Text, targets : Seq([url : Text, weight : Nat]),
     health_check : Optional(HealthCheckConfig),
     retries : Optional([enabled : BOOLEAN, attempts : Nat,
                         methods : SUBSET Text, retry_on : SUBSET Text])]

GatePupConfig ==
    [log_level : Text, listeners : Seq(ListenerConfig), upstreams : Seq(UpstreamConfig),
     timeouts : [connect : Nat, request : Nat], limits : [max_header_bytes : Nat],
     trusted_proxies : Networks,
     compression : Optional([enabled : BOOLEAN, algorithms : SUBSET Text,
                             min_bytes : Nat, types : SUBSET Text]),
     admin : Optional([enabled : BOOLEAN, bind : Text, token : Optional(Text)]),
     metrics : Optional([enabled : BOOLEAN, path : Text])]

-----------------------------------------------------------------------------
(* resolve.rs.  env has a field per variable, each an optional value, and  *)
(* one for --config; a document is {} if it cannot be read or parsed.      *)

\* std::env::var(key).ok(): a variable that is set but not Unicode reads as unset.
getter(env) == [key \in DOMAIN env |-> env[key] \ {NotUnicode}]

\* Sources in order of precedence: a path in the environment, inline JSON, --config.
Documents(env) == <<env.GATEPUP_CONFIG, env.GATEPUP_CONFIG_JSON, env.cli_path>>

\* The first of the documents that are given, as an optional value.
FirstGiven(docs) ==
    LET given == {i \in DOMAIN docs : docs[i] # None}
    IN  UNION {docs[i] : i \in {i \in given : \A j \in given : i <= j}}

DefaultTimeouts == [connect |-> 5000, request |-> 30000]
DefaultLimits == [max_header_bytes |-> 0]

Route(host, prefix) ==
    [name |-> "default", host |-> host, path_prefix |-> prefix, upstream |-> "default",
     strip_prefix |-> FALSE, headers |-> None, allow |-> {}, deny |-> {},
     rate_limit |-> None, basic_auth |-> None]

\* value, unless the variable is set.
Override(opt, value) == IF opt = None THEN value ELSE CHOOSE v \in opt : TRUE

\* Both files or neither.
SimpleTls(env) ==
    {[cert |-> c, key |-> k] : c \in env.GATEPUP_TLS_CERT, k \in env.GATEPUP_TLS_KEY}

SimpleListener(env) ==
    [name |-> "default", bind |-> Override(env.GATEPUP_LISTEN, "0.0.0.0:8080"),
     protocol |-> IF SimpleTls(env) # None THEN "https" ELSE "http",
     tls |-> SimpleTls(env), routes |-> <<Route(env.GATEPUP_ROUTE_HOST, Some(Root))>>]

SimpleTargets(env) ==
    LET urls == Override(env.GATEPUP_UPSTREAM, <<>>)
        kept[i \in 0..Len(urls)] ==
            IF i = 0 THEN <<>>
            ELSE IF urls[i] # "" THEN Append(kept[i - 1], [url |-> urls[i], weight |-> 1])
                 ELSE kept[i - 1]
    IN  kept[Len(urls)]

SimpleHealthCheck(env) ==
    {[enabled |-> TRUE, interval_seconds |-> 10, timeout_ms |-> 1000] :
        path \in env.GATEPUP_HEALTHCHECK_PATH}

build_from_env(env) ==
    [log_level |-> "info",
     listeners |-> <<SimpleListener(env)>>,
     upstreams |-> <<[name |-> "default", targets |-> SimpleTargets(env),
                      health_check |-> SimpleHealthCheck(env), retries |-> None]>>,
     timeouts |-> DefaultTimeouts, limits |-> DefaultLimits, trusted_proxies |-> {},
     compression |-> None, admin |-> None, metrics |-> None]

(* Mutant of base_config: a document that cannot be read is passed over. *)
base_configLenient(env) ==
    LET readable == [i \in 1..3 |-> Documents(env)[i] \ Some(None)]
    IN  IF \E i \in 1..3 : readable[i] # None THEN UNION FirstGiven(readable)
        ELSE IF env.GATEPUP_LISTEN # None \/ env.GATEPUP_UPSTREAM # None
             THEN Some(build_from_env(env))
             ELSE None

\* The base, or None: an unreadable document, or no source at all.
base_config(env) ==
    IF FirstGiven(Documents(env)) # None THEN UNION FirstGiven(Documents(env))
    ELSE IF env.GATEPUP_LISTEN # None \/ env.GATEPUP_UPSTREAM # None
         THEN Some(build_from_env(env))
         ELSE None

(* Mutant of admin_override: GATEPUP_ADMIN moves the API but not its token. *)
admin_overrideBindOnly(admin, env) ==
    IF env.GATEPUP_ADMIN = None THEN admin
    ELSE {[enabled |-> TRUE, bind |-> b, token |-> UNION {a.token : a \in admin}] :
              b \in env.GATEPUP_ADMIN}

\* GATEPUP_ADMIN replaces the whole block, and GATEPUP_ADMIN_TOKEN counts only with it.
admin_override(admin, env) ==
    IF env.GATEPUP_ADMIN = None THEN admin
    ELSE {[enabled |-> TRUE, bind |-> b, token |-> env.GATEPUP_ADMIN_TOKEN] :
              b \in env.GATEPUP_ADMIN}

apply_overrides(c, env) ==
    [c EXCEPT
        !.log_level = Override(env.GATEPUP_LOG, @),
        !.admin = admin_override(@, env),
        !.metrics = IF env.GATEPUP_METRICS_PATH = None THEN @
                    ELSE {[enabled |-> TRUE, path |-> p] : p \in env.GATEPUP_METRICS_PATH},
        !.timeouts.connect = Override(env.GATEPUP_TIMEOUT_CONNECT_MS, @),
        !.timeouts.request = Override(env.GATEPUP_TIMEOUT_REQUEST_MS, @)]

\* A timeout that does not parse (no natural number) is an error, not ignored.
BadTimeout(env) == \E opt \in {env.GATEPUP_TIMEOUT_CONNECT_MS, env.GATEPUP_TIMEOUT_REQUEST_MS} :
                       opt # None /\ ~(opt \subseteq Nat)

\* The effective configuration, or None.
resolve_with(get) ==
    IF BadTimeout(get) THEN None
    ELSE {apply_overrides(c, get) : c \in base_config(get)}

resolve_config(env) == resolve_with(getter(env))

-----------------------------------------------------------------------------
(* validator.rs: each check is the set of the errors it reports. *)

Report(error, found) == IF found THEN {error} ELSE {}

\* Some element is met a second time (HashSet::insert returned false).
Repeats(seq) == \E i, j \in DOMAIN seq : i < j /\ seq[i] = seq[j]
Names(seq) == [i \in DOMAIN seq |-> seq[i].name]

check_app(c) == Report("InvalidLogLevel", c.log_level \notin Levels)

check_unique_upstreams(c) == Report("DuplicateUpstreamName", Repeats(Names(c.upstreams)))

is_valid_wildcard_host(h) == Head(h) = "*" /\ Len(h) > 1 /\ "*" \notin ToSet(Tail(h))

\* The host as it is written; only the prefix is normalised.
MatchKey(r) == <<r.host, EffectivePrefix(r.path_prefix)>>

(* Mutant of check_conflicts: a route that spells out the default prefix is another. *)
check_conflictsRaw(l) ==
    Report("ConflictingRoutes",
           Repeats([i \in DOMAIN l.routes |-> <<l.routes[i].host, l.routes[i].path_prefix>>]))

check_conflicts(l) ==
    Report("ConflictingRoutes", Repeats([i \in DOMAIN l.routes |-> MatchKey(l.routes[i])]))

check_route(r, upstream_names) ==
    Report("EmptyRouteMatch", {r.host, r.path_prefix} \subseteq {None, Some(<<>>)})
    \union Report("InvalidPathPrefix", \E p \in r.path_prefix : p # <<>> /\ Head(p) # Slash)
    \union Report("InvalidWildcardHost",
                  \E h \in r.host : "*" \in ToSet(h) /\ ~is_valid_wildcard_host(h))
    \union Report("UnknownUpstream", r.upstream \notin upstream_names)
    \union Report("InvalidHeader", r.headers # None /\ r.headers # Some("valid"))
    \union Report("InvalidIpAccessCidr", {} \in r.allow \union r.deny)
    \union Report("InvalidRateLimit", \E rl \in r.rate_limit : rl.requests_per_second <= 0)
    \union Report("InvalidBasicAuth", r.basic_auth # None /\ r.basic_auth # Some("valid"))

check_listener_tls(l) ==
    Report("MissingTls", l.protocol = "https" /\ l.tls = None)
    \union Report("UnexpectedTls", l.protocol = "http" /\ l.tls # None)
    \union Report("EmptyTlsPath",
                  l.protocol = "https" /\ \E t \in l.tls : "" \in {t.cert, t.key})

check_listeners(c) ==
    LET upstream_names == ToSet(Names(c.upstreams))
    IN  Report("DuplicateListenerName", Repeats(Names(c.listeners)))
        \union UNION {LET l == c.listeners[i]
                      IN  Report("InvalidBind", l.bind \notin Addresses)
                          \union check_listener_tls(l)
                          \union Report("DuplicateRouteName", Repeats(Names(l.routes)))
                          \union check_conflicts(l)
                          \union UNION {check_route(r, upstream_names) : r \in ToSet(l.routes)}
                      : i \in DOMAIN c.listeners}

(* Mutant of check_health_timeout: equality is let through. *)
check_health_timeoutEqual(hc) ==
    Report("HealthTimeoutNotLessThanInterval",
           hc.timeout_ms > hc.interval_seconds * MillisPerSecond)

\* Also what keeps the interval from being zero.
check_health_timeout(hc) ==
    Report("HealthTimeoutNotLessThanInterval",
           hc.timeout_ms >= hc.interval_seconds * MillisPerSecond)

check_retries(r) ==
    IF ~r.enabled THEN {}
    ELSE Report("InvalidRetryAttempts", r.attempts < 1)
         \union Report("EmptyRetryList", {} \in {r.methods, r.retry_on})
         \union Report("InvalidRetryMethod", ~(r.methods \subseteq METHODS))
         \union Report("InvalidRetryOn", ~(r.retry_on \subseteq RETRY_ON))

check_upstreams(c) ==
    UNION {LET u == c.upstreams[i]
           IN  Report("EmptyTargets", u.targets = <<>>)
               \union Report("InvalidTargetUrl", \E t \in ToSet(u.targets) : t.url = "bad")
               \union Report("ZeroWeight", \E t \in ToSet(u.targets) : t.weight = 0)
               \union UNION {check_health_timeout(hc) : hc \in u.health_check}
               \union UNION {check_retries(r) : r \in u.retries}
           : i \in DOMAIN c.upstreams}

check_admin(c) ==
    Report("InvalidAdminBind", \E a \in c.admin : a.bind \notin Addresses)
    \union Report("EmptyAdminToken", \E a \in c.admin : "" \in a.token)

check_timeouts(c) == Report("ZeroTimeout", 0 \in {c.timeouts.connect, c.timeouts.request})

check_limits(c) ==
    Report("MaxHeaderBytesTooSmall", c.limits.max_header_bytes \in 1..MIN_HEADER_BYTES - 1)

check_compression(c) ==
    Report("InvalidCompressionAlgorithm",
           \E z \in c.compression : ~(z.algorithms \subseteq Algorithms))

check_trusted_proxies(c) == Report("InvalidTrustedProxy", {} \in c.trusted_proxies)

validate(c) ==
    check_app(c) \union check_unique_upstreams(c) \union check_listeners(c)
    \union check_upstreams(c) \union check_admin(c) \union check_timeouts(c)
    \union check_limits(c) \union check_trusted_proxies(c) \union check_compression(c)
=============================================================================
