--------------------------- MODULE Startup_proof ---------------------------
(***************************************************************************)
(* Proofs about Startup.tla, for every environment, configuration and      *)
(* request.  There is one inductive invariant, Course: the configuration   *)
(* is what the environment resolves to, the snapshot is what it builds     *)
(* once validation has found nothing, and the answer is what the snapshot  *)
(* says of the request.  What each of these functions guarantees is proved *)
(* apart from the steps, and the theorems combine the two.                 *)
(***************************************************************************)
EXTENDS Startup, NumberLemmas, FiniteSetTheorems, SequenceTheorems, TLAPS

-----------------------------------------------------------------------------
(* At most one configuration. *)

LEMMA OptionalFacts ==
    ASSUME NEW S, NEW opt \in Optional(S)
    PROVE  opt \subseteq S /\ \A x, y \in opt : x = y
BY DEF Optional

\* The first given document is the document of one source.
LEMMA FirstIsOne ==
    ASSUME NEW d1, NEW d2, NEW d3
    PROVE  FirstGiven(<<d1, d2, d3>>) =
               IF d1 # None THEN d1 ELSE IF d2 # None THEN d2 ELSE d3
<1> DEFINE docs == <<d1, d2, d3>>
           given == {i \in DOMAIN docs : docs[i] # None}
           first == {i \in given : \A j \in given : i <= j}
<1>1. DOMAIN docs = {1, 2, 3} /\ docs[1] = d1 /\ docs[2] = d2 /\ docs[3] = d3
    OBVIOUS
<1>2. FirstGiven(docs) = UNION {docs[i] : i \in first}
    BY DEF FirstGiven
<1> SUFFICES FirstGiven(docs) = IF d1 # None THEN d1 ELSE IF d2 # None THEN d2 ELSE d3
    OBVIOUS
<1> HIDE DEF docs
<1>3. given \subseteq {1, 2, 3}
      /\ (1 \in given <=> d1 # None) /\ (2 \in given <=> d2 # None) /\ (3 \in given <=> d3 # None)
    BY <1>1
<1> HIDE DEF given
<1>4. CASE d1 # None
    <2>1. 1 \in first /\ \A i \in first : i = 1
        BY <1>3, <1>4
    <2>2. UNION {docs[i] : i \in first} = docs[1]
        BY <2>1
    <2> QED BY <1>1, <1>2, <1>4, <2>2
<1>5. CASE d1 = None /\ d2 # None
    <2>1. 2 \in first /\ \A i \in first : i = 2
        BY <1>3, <1>5
    <2>2. UNION {docs[i] : i \in first} = docs[2]
        BY <2>1
    <2> QED BY <1>1, <1>2, <1>5, <2>2
<1>6. CASE d1 = None /\ d2 = None /\ d3 # None
    <2>1. 3 \in first /\ \A i \in first : i = 3
        BY <1>3, <1>6
    <2>2. UNION {docs[i] : i \in first} = docs[3]
        BY <2>1
    <2> QED BY <1>1, <1>2, <1>6, <2>2
<1>7. CASE d1 = None /\ d2 = None /\ d3 = None
    <2>1. \A i : i \notin first
        BY <1>3, <1>7
    <2>2. UNION {docs[i] : i \in first} = {}
        BY <2>1
    <2> QED BY <1>1, <1>2, <1>7, <2>2 DEF None
<1> QED BY <1>4, <1>5, <1>6, <1>7

LEMMA BaseIsOne ==
    ASSUME NEW e \in EnvironmentType
    PROVE  \A x, y \in base_config(e) : x = y
<1>1. FirstGiven(Documents(e)) =
          IF e.GATEPUP_CONFIG # None THEN e.GATEPUP_CONFIG
          ELSE IF e.GATEPUP_CONFIG_JSON # None THEN e.GATEPUP_CONFIG_JSON ELSE e.cli_path
    BY FirstIsOne DEF Documents
<1>2. PICK docs \in Optional(Optional(GatePupConfig)) : docs = FirstGiven(Documents(e))
    BY <1>1 DEF EnvironmentType
<1>3. docs \subseteq Optional(GatePupConfig) /\ \A x, y \in docs : x = y
    BY OptionalFacts
<1>4. \A x, y \in UNION docs : x = y
    BY <1>3, OptionalFacts
<1> QED BY <1>2, <1>4 DEF base_config, Some, None

LEMMA ResolvedIsOne ==
    ASSUME NEW e \in EnvironmentType
    PROVE  \A x, y \in resolve_with(e) : x = y
BY BaseIsOne DEF resolve_with, None

-----------------------------------------------------------------------------
(* The course of a start. *)

Course ==
    /\ env \in Environments
    /\ config \in {None, resolve_config(env)}
    /\ stage \in {"resolve", "config_error", "validate", "invalid", "build", "tls_error"} =>
          snapshot = None /\ answer = Nothing
    /\ stage \in {"resolve", "config_error", "validate", "invalid", "build", "tls_error",
                  "serving", "answered", "admin_answered"}
    /\ stage \in {"build", "serving", "answered", "admin_answered"} =>
          \A c \in config : validate(c) = {}
    /\ stage \in {"serving", "answered", "admin_answered"} =>
          \E c \in config : snapshot = Some(build_snapshot(c))
    /\ stage = "serving" => answer = Nothing
    /\ stage = "answered" =>
          /\ request \in Requests
          /\ \E s \in snapshot : \E n \in DOMAIN s.listeners : answer = Handled(s, n, request)
    /\ stage = "admin_answered" =>
          \E c \in config : \E a \in c.admin : answer = [kind |-> AdminRoute(c, a, request)]

LEMMA CourseHolds == Spec => []Course
<1>1. Init => Course
    BY DEF Init, Course
<1>2. Course /\ [Next]_vars => Course'
    <2> SUFFICES ASSUME Course, [Next]_vars PROVE Course'
        OBVIOUS
    <2>1. CASE Resolve
        BY <2>1 DEF Resolve, Course
    <2>2. CASE Validate
        <3>1. getter(env) \in EnvironmentType
            BY StartupAssumption DEF Course
        <3>2. \A x, y \in config : x = y
            BY <3>1, ResolvedIsOne DEF Course, None, resolve_config
        <3> QED BY <2>2, <3>2 DEF Validate, Course
    <2>3. CASE Build
        BY <2>3 DEF Build, Course
    <2>4. ASSUME NEW q \in Requests, Handle(q) PROVE Course'
        BY <2>4 DEF Handle, ListenerNamed, Course
    <2>5. ASSUME NEW q \in AdminRequests, HandleAdmin(q) PROVE Course'
        BY <2>5 DEF HandleAdmin, Course
    <2>6. CASE UNCHANGED vars
        BY <2>6 DEF vars, Course
    <2> QED BY <2>1, <2>2, <2>3, <2>4, <2>5, <2>6 DEF Next
<1> QED BY <1>1, <1>2, PTL DEF Spec

LEMMA ConfigIsOne ==
    ASSUME Course
    PROVE  \A x, y \in config : x = y
BY StartupAssumption, ResolvedIsOne DEF Course, None, resolve_config

-----------------------------------------------------------------------------
(* What a resolved configuration looks like. *)

\* GatePupConfig with upstreams of any kind: simple mode filters its URLs.
Parsed(U) ==
    [log_level : Text, listeners : Seq(ListenerConfig), upstreams : U,
     timeouts : [connect : Nat, request : Nat], limits : [max_header_bytes : Nat],
     trusted_proxies : Networks,
     compression : Optional([enabled : BOOLEAN, algorithms : SUBSET Text,
                             min_bytes : Nat, types : SUBSET Text]),
     admin : Optional([enabled : BOOLEAN, bind : Text, token : Optional(Text)]),
     metrics : Optional([enabled : BOOLEAN, path : Text])]

LEMMA OverrideType ==
    ASSUME NEW S, NEW opt \in SUBSET S, NEW v \in S
    PROVE  Override(opt, v) \in S
BY DEF Override, None

LEMMA OverridesKeep ==
    ASSUME NEW U, NEW c \in Parsed(U), NEW e \in EnvironmentType, ~BadTimeout(e)
    PROVE  /\ apply_overrides(c, e).listeners = c.listeners
           /\ apply_overrides(c, e).upstreams = c.upstreams
           /\ apply_overrides(c, e).limits = c.limits
           /\ apply_overrides(c, e).trusted_proxies = c.trusted_proxies
           /\ apply_overrides(c, e).compression = c.compression
           /\ apply_overrides(c, e).timeouts \in [connect : Nat, request : Nat]
           /\ \A a, b \in apply_overrides(c, e).admin : a = b
           /\ apply_overrides(c, e).admin = admin_override(c.admin, e)
<1> DEFINE d == apply_overrides(c, e)
           replaced == {[enabled |-> TRUE, bind |-> b, token |-> e.GATEPUP_ADMIN_TOKEN] :
                            b \in e.GATEPUP_ADMIN}
           x == Override(e.GATEPUP_TIMEOUT_CONNECT_MS, c.timeouts.connect)
           y == Override(e.GATEPUP_TIMEOUT_REQUEST_MS, c.timeouts.request)
<1>1. /\ d.listeners = c.listeners /\ d.upstreams = c.upstreams /\ d.limits = c.limits
      /\ d.trusted_proxies = c.trusted_proxies /\ d.compression = c.compression
    BY DEF apply_overrides, Parsed
<1>a. d.admin = admin_override(c.admin, e)
    BY DEF apply_overrides, Parsed
<1>2. d.admin = IF e.GATEPUP_ADMIN = None THEN c.admin ELSE replaced
    BY <1>a DEF admin_override
<1>3. \A a, b \in c.admin : a = b
    BY DEF Parsed, Optional
<1>4. \A a, b \in e.GATEPUP_ADMIN : a = b
    BY DEF EnvironmentType, Optional
<1>5. \A a, b \in d.admin : a = b
    BY <1>2, <1>3, <1>4
<1>6. d.timeouts = [[c.timeouts EXCEPT !.connect = x] EXCEPT !.request = y]
    BY DEF apply_overrides, Parsed
<1>7. c.timeouts \in [connect : Nat, request : Nat]
    BY DEF Parsed
<1>8. e.GATEPUP_TIMEOUT_CONNECT_MS \subseteq Nat /\ e.GATEPUP_TIMEOUT_REQUEST_MS \subseteq Nat
    BY DEF BadTimeout, None
<1>9. x \in Nat /\ y \in Nat
    BY <1>7, <1>8, OverrideType
<1> HIDE DEF d, x, y
<1>10. d.timeouts \in [connect : Nat, request : Nat]
    BY <1>6, <1>7, <1>9
<1> QED BY <1>1, <1>a, <1>5, <1>10 DEF d

\* What upstreams have in common, wherever they come from.
Shaped(upstreams) ==
    /\ Len(upstreams) \in Nat /\ DOMAIN upstreams = 1..Len(upstreams)
    /\ \A i \in DOMAIN upstreams :
          /\ upstreams[i].health_check \subseteq HealthCheckConfig
          /\ upstreams[i].targets \in Seq([url : Text, weight : Nat])

Resolved(c) ==
    /\ c.listeners \in Seq(ListenerConfig)
    /\ Shaped(c.upstreams)
    /\ c.limits.max_header_bytes \in Nat
    /\ c.timeouts.connect \in Nat /\ c.timeouts.request \in Nat
    /\ \A a, b \in c.compression : a = b
    /\ \A a, b \in c.admin : a = b

LEMMA FromDocument ==
    ASSUME NEW c \in GatePupConfig
    PROVE  c \in Parsed(Seq(UpstreamConfig)) /\ Shaped(c.upstreams)
<1>1. c \in Parsed(Seq(UpstreamConfig))
    BY DEF GatePupConfig, Parsed
<1>2. c.upstreams \in Seq(UpstreamConfig)
    BY DEF GatePupConfig
<1>3. ASSUME NEW u \in UpstreamConfig
      PROVE  /\ u.health_check \subseteq HealthCheckConfig
             /\ u.targets \in Seq([url : Text, weight : Nat])
    <2>1. u.health_check \subseteq HealthCheckConfig
        BY OptionalFacts DEF UpstreamConfig
    <2>2. u.targets \in Seq([url : Text, weight : Nat])
        BY DEF UpstreamConfig
    <2> QED BY <2>1, <2>2
<1>4. Len(c.upstreams) \in Nat /\ DOMAIN c.upstreams = 1..Len(c.upstreams)
      /\ \A i \in DOMAIN c.upstreams : c.upstreams[i] \in UpstreamConfig
    BY <1>2
<1> QED BY <1>1, <1>3, <1>4 DEF Shaped

\* Simple mode keeps the URLs that are not empty.
Kept(urls) ==
    CHOOSE k : k = [i \in 0..Len(urls) |->
        IF i = 0 THEN <<>>
        ELSE IF urls[i] # "" THEN Append(k[i - 1], [url |-> urls[i], weight |-> 1]) ELSE k[i - 1]]

LEMMA KeptType ==
    ASSUME NEW urls \in Seq(Text)
    PROVE  Kept(urls)[Len(urls)] \in Seq([url : Text, weight : Nat])
<1> DEFINE N == Len(urls)
           S == Seq([url : Text, weight : Nat])
           Body(f) == [i \in 0..N |->
               IF i = 0 THEN <<>>
               ELSE IF urls[i] # "" THEN Append(f[i - 1], [url |-> urls[i], weight |-> 1]) ELSE f[i - 1]]
           Turn(i, x) == IF urls[i] # "" THEN Append(x, [url |-> urls[i], weight |-> 1]) ELSE x
           step == [t \in (1..N) \X S |-> Turn(t[1], t[2])]
<1>1. N \in Nat /\ <<>> \in S /\ \A i \in 1..N : urls[i] \in Text /\ i \in 0..N /\ i # 0
    OBVIOUS
<1>2. \A i \in 1..N, x \in S : Turn(i, x) \in S
    <2>1. \A i \in 1..N : [url |-> urls[i], weight |-> 1] \in [url : Text, weight : Nat]
        BY <1>1
    <2>2. \A i \in 1..N, x \in S : Append(x, [url |-> urls[i], weight |-> 1]) \in S
        BY <2>1, AppendProperties
    <2> HIDE DEF S
    <2> QED BY <2>2
<1> HIDE DEF Turn, S
<1>3. step \in [(1..N) \X S -> S] /\ \A i \in 1..N, x \in S : step[<<i, x>>] = Turn(i, x)
    BY <1>2
<1> HIDE DEF step
<1>4. PICK f \in [0..N -> S] :
          f[0] = <<>> /\ \A i \in 1..N : f[i - 1] \in S /\ f[i] = step[<<i, f[i - 1]>>]
    <2> HIDE DEF N
    <2>1. HasCourse(N, S, <<>>, step)
        BY <1>1, <1>3, LoopHasCourse
    <2> QED BY <2>1 DEF HasCourse
<1>5. \A i \in 1..N : f[i] = Turn(i, f[i - 1])
    BY <1>3, <1>4
<1>6. f = Body(f)
    <2>1. f = [i \in 0..N |-> f[i]]
        OBVIOUS
    <2>2. \A i \in 0..N : i = 0 \/ i \in 1..N
        BY <1>1
    <2> HIDE DEF N
    <2> QED BY <1>4, <1>5, <2>1, <2>2 DEF Turn
<1>7. Kept(urls) = CHOOSE h : h = Body(h)
    BY DEF Kept
<1>8. PICK h : h = Kept(urls) /\ h = Body(h)
    <2> HIDE DEF Body
    <2> QED BY <1>6, <1>7
<1>9. h[0] = <<>> /\ \A i \in 1..N : h[i] = Turn(i, h[i - 1])
    <2>1. 0 \in 0..N
        BY <1>1
    <2> HIDE DEF N
    <2> QED BY <1>1, <1>8, <2>1 DEF Turn
<1>10. N \in {i \in 0..N : h[i] \in S}
    <2> DEFINE P == {i \in 0..N : h[i] \in S}
    <2>1. 0 \in P
        BY <1>1, <1>9
    <2>2. ASSUME NEW i \in 1..N, i - 1 \in P PROVE i \in P
        BY <1>1, <1>2, <1>9, <2>2
    <2>3. 0..N \subseteq P
        <3> HIDE DEF P, N
        <3> QED BY <1>1, <2>1, <2>2, TurnByTurn
    <2> QED BY <1>1, <2>3
<1> QED BY <1>8, <1>10 DEF S

LEMMA FromEnvironment ==
    ASSUME NEW e \in EnvironmentType
    PROVE  LET c == build_from_env(e)
           IN  c \in Parsed({c.upstreams}) /\ Shaped(c.upstreams)
<1> DEFINE c == build_from_env(e)
<1>1. Route(e.GATEPUP_ROUTE_HOST, Some(Root)) \in RouteConfig
    <2>1. e.GATEPUP_ROUTE_HOST \in Optional(Seq(DOMAIN LowerCase))
        BY DEF EnvironmentType
    <2>2. Some(Root) \in Optional(Seq(Text))
        BY TextAssumption DEF Optional, Some, Root
    <2>3. None \in Optional(Text) /\ None \in Optional([requests_per_second : Int])
          /\ {} \in Networks
        BY DEF Optional, None, Networks
    <2> QED BY <2>1, <2>2, <2>3, TextAssumption DEF Route, RouteConfig
<1>2. Override(e.GATEPUP_LISTEN, "0.0.0.0:8080") \in Text
    BY OverrideType, TextAssumption DEF EnvironmentType, Optional
<1>3. SimpleTls(e) \in Optional([cert : Text, key : Text])
    BY DEF EnvironmentType, Optional, SimpleTls
<1>4. SimpleListener(e) \in ListenerConfig
    <2>1. <<Route(e.GATEPUP_ROUTE_HOST, Some(Root))>> \in Seq(RouteConfig)
        BY <1>1
    <2> QED BY <1>2, <1>3, <2>1, TextAssumption DEF ListenerConfig, SimpleListener
<1>5. c \in Parsed({c.upstreams})
    <2>1. /\ c.listeners = <<SimpleListener(e)>>
          /\ c.log_level = "info" /\ c.timeouts = DefaultTimeouts /\ c.limits = DefaultLimits
          /\ c.trusted_proxies = {} /\ c.compression = None /\ c.admin = None /\ c.metrics = None
          /\ c = [log_level |-> c.log_level, listeners |-> c.listeners, upstreams |-> c.upstreams,
                  timeouts |-> c.timeouts, limits |-> c.limits,
                  trusted_proxies |-> c.trusted_proxies, compression |-> c.compression,
                  admin |-> c.admin, metrics |-> c.metrics]
        BY DEF build_from_env
    <2> HIDE DEF c
    <2>2. c.listeners \in Seq(ListenerConfig)
        BY <1>4, <2>1
    <2>3. /\ c.timeouts \in [connect : Nat, request : Nat] /\ c.limits \in [max_header_bytes : Nat]
          /\ c.trusted_proxies \in Networks /\ c.log_level \in Text
        BY <2>1, TextAssumption DEF DefaultTimeouts, DefaultLimits, Networks
    <2>4. \A S : None \in Optional(S)
        BY DEF Optional, None
    <2> QED BY <2>1, <2>2, <2>3, <2>4 DEF Parsed
<1>6. Shaped(c.upstreams)
    <2>1. c.upstreams = <<[name |-> "default", targets |-> SimpleTargets(e),
                           health_check |-> SimpleHealthCheck(e), retries |-> None]>>
        BY DEF build_from_env
    <2>2. SimpleHealthCheck(e) \subseteq HealthCheckConfig
        <3>1. [enabled |-> TRUE, interval_seconds |-> 10, timeout_ms |-> 1000] \in HealthCheckConfig
            BY DEF HealthCheckConfig
        <3> QED BY <3>1 DEF SimpleHealthCheck
    <2>3. SimpleTargets(e) \in Seq([url : Text, weight : Nat])
        <3>1. PICK urls : urls = Override(e.GATEPUP_UPSTREAM, <<>>)
            OBVIOUS
        <3>2. urls \in Seq(Text)
            <4>1. e.GATEPUP_UPSTREAM \subseteq Seq(Text) /\ <<>> \in Seq(Text)
                BY DEF EnvironmentType, Optional
            <4> QED BY <3>1, <4>1, OverrideType
        <3>3. SimpleTargets(e) = Kept(urls)[Len(urls)]
            BY <3>1 DEF SimpleTargets, Kept
        <3> QED BY <3>2, <3>3, KeptType
    <2> HIDE DEF c
    <2>4. /\ Len(c.upstreams) = 1 /\ DOMAIN c.upstreams = 1..1
          /\ c.upstreams[1].targets = SimpleTargets(e)
          /\ c.upstreams[1].health_check = SimpleHealthCheck(e)
        BY <2>1
    <2> QED BY <2>2, <2>3, <2>4 DEF Shaped
<1> QED BY <1>5, <1>6

\* A resolved configuration is made from the base, of which it keeps the topology.
LEMMA MadeFromBase ==
    ASSUME NEW e \in EnvironmentType, NEW c \in resolve_with(e)
    PROVE  /\ Resolved(c) /\ ~BadTimeout(e)
           /\ \E b \in base_config(e) :
                 /\ c.listeners = b.listeners /\ c.upstreams = b.upstreams
                 /\ c.admin = admin_override(b.admin, e)
<1>1. PICK b \in base_config(e) : c = apply_overrides(b, e) /\ ~BadTimeout(e)
    BY DEF resolve_with, None
<1>2. b \in GatePupConfig \/ b = build_from_env(e)
    <2>1. FirstGiven(Documents(e)) =
              IF e.GATEPUP_CONFIG # None THEN e.GATEPUP_CONFIG
              ELSE IF e.GATEPUP_CONFIG_JSON # None THEN e.GATEPUP_CONFIG_JSON ELSE e.cli_path
        BY FirstIsOne DEF Documents
    <2>2. PICK docs \in Optional(Optional(GatePupConfig)) : docs = FirstGiven(Documents(e))
        BY <2>1 DEF EnvironmentType
    <2>3. \A x \in UNION docs : x \in GatePupConfig
        BY OptionalFacts
    <2> QED BY <1>1, <2>2, <2>3 DEF base_config, Some, None
<1>3. PICK U : b \in Parsed(U) /\ Shaped(b.upstreams)
    BY <1>2, FromDocument, FromEnvironment
<1>4. b.listeners \in Seq(ListenerConfig) /\ b.limits.max_header_bytes \in Nat
      /\ \A x, y \in b.compression : x = y
    BY <1>3 DEF Parsed, Optional
<1>5. Resolved(c) /\ c.listeners = b.listeners /\ c.upstreams = b.upstreams
      /\ c.admin = admin_override(b.admin, e)
    BY <1>1, <1>3, <1>4, OverridesKeep DEF Resolved
<1> QED BY <1>1, <1>5

LEMMA ConfigFacts ==
    ASSUME Course, NEW c \in config
    PROVE  Resolved(c) /\ config = {c}
<1>1. getter(env) \in EnvironmentType /\ c \in resolve_with(getter(env))
    BY StartupAssumption DEF Course, None, resolve_config
<1> QED BY <1>1, MadeFromBase, ConfigIsOne

\* What is served is the snapshot of the one configuration, and it is valid.
LEMMA Serving ==
    ASSUME Course, NEW s \in snapshot, NEW c \in config
    PROVE  s = build_snapshot(c) /\ validate(c) = {} /\ Resolved(c)
<1>1. Resolved(c) /\ config = {c}
    BY ConfigFacts
<1> QED BY <1>1 DEF Course, None, Some

-----------------------------------------------------------------------------
(* Sources. *)

\* What the getter makes of a variable.
LEMMA Reading ==
    ASSUME NEW e \in Environments
    PROVE  /\ getter(e) \in EnvironmentType
           /\ getter(e).GATEPUP_CONFIG = e.GATEPUP_CONFIG \ {NotUnicode}
           /\ getter(e).GATEPUP_CONFIG_JSON = e.GATEPUP_CONFIG_JSON \ {NotUnicode}
           /\ getter(e).cli_path = e.cli_path \ {NotUnicode}
           /\ getter(e).GATEPUP_TIMEOUT_CONNECT_MS = e.GATEPUP_TIMEOUT_CONNECT_MS \ {NotUnicode}
           /\ getter(e).GATEPUP_TIMEOUT_REQUEST_MS = e.GATEPUP_TIMEOUT_REQUEST_MS \ {NotUnicode}
<1>1. getter(e) \in EnvironmentType
    BY StartupAssumption
<1>2. DOMAIN getter(e) = DOMAIN e /\ \A key \in DOMAIN e : getter(e)[key] = e[key] \ {NotUnicode}
    BY DEF getter
<1>3. {"GATEPUP_CONFIG", "GATEPUP_CONFIG_JSON", "cli_path", "GATEPUP_TIMEOUT_CONNECT_MS",
       "GATEPUP_TIMEOUT_REQUEST_MS"} \subseteq DOMAIN getter(e)
    BY <1>1 DEF EnvironmentType
<1> QED BY <1>1, <1>2, <1>3

\* The document in force is the one that is read.
LEMMA InForceIsRead ==
    ASSUME env \in Environments, NEW i \in 1..3, InForce(i)
    PROVE  LET read == FirstGiven(Documents(getter(env)))
           IN  read # None /\ read \subseteq Documents(env)[i]
<1> DEFINE read == FirstGiven(Documents(getter(env)))
           given == {j \in 1..3 : Documents(env)[j] \notin {None, Some(NotUnicode)}}
<1>1. PICK D1, D2, D3 : /\ D1 = env.GATEPUP_CONFIG /\ D2 = env.GATEPUP_CONFIG_JSON
                        /\ D3 = env.cli_path
    OBVIOUS
<1>2. read = IF D1 \ {NotUnicode} # None THEN D1 \ {NotUnicode}
             ELSE IF D2 \ {NotUnicode} # None THEN D2 \ {NotUnicode} ELSE D3 \ {NotUnicode}
    <2>1. getter(env).GATEPUP_CONFIG = D1 \ {NotUnicode}
          /\ getter(env).GATEPUP_CONFIG_JSON = D2 \ {NotUnicode}
          /\ getter(env).cli_path = D3 \ {NotUnicode}
        BY <1>1, Reading
    <2>2. Documents(getter(env)) = <<D1 \ {NotUnicode}, D2 \ {NotUnicode}, D3 \ {NotUnicode}>>
        BY <2>1 DEF Documents
    <2> QED BY <2>2, FirstIsOne
<1>3. Documents(env)[1] = D1 /\ Documents(env)[2] = D2 /\ Documents(env)[3] = D3
    BY <1>1 DEF Documents
<1>4. ASSUME NEW D PROVE D \ {NotUnicode} = None <=> D \in {None, Some(NotUnicode)}
    <2>1. None \ {NotUnicode} = None /\ Some(NotUnicode) \ {NotUnicode} = None
        BY DEF None, Some
    <2>2. ASSUME D \ {NotUnicode} = None, D # None PROVE D = Some(NotUnicode)
        <3>1. \A x \in D : x = NotUnicode
            BY <2>2 DEF None
        <3>2. NotUnicode \in D
            BY <2>2, <3>1 DEF None
        <3> QED BY <3>1, <3>2 DEF Some
    <2> QED BY <2>1, <2>2
<1>5. i \in given /\ \A j \in given : i <= j
    BY DEF InForce
<1>6. (1 \in given <=> D1 \ {NotUnicode} # None) /\ (2 \in given <=> D2 \ {NotUnicode} # None)
      /\ (3 \in given <=> D3 \ {NotUnicode} # None)
    <2>1. (1 \in given <=> D1 \notin {None, Some(NotUnicode)})
          /\ (2 \in given <=> D2 \notin {None, Some(NotUnicode)})
          /\ (3 \in given <=> D3 \notin {None, Some(NotUnicode)})
        BY <1>3
    <2> HIDE DEF given
    <2> QED BY <1>4, <2>1
<1> SUFFICES read # None /\ read \subseteq Documents(env)[i]
    OBVIOUS
<1> HIDE DEF given, read
<1>7. CASE i = 1
    BY <1>2, <1>3, <1>5, <1>6, <1>7
<1>8. CASE i = 2
    BY <1>2, <1>3, <1>5, <1>6, <1>8
<1>9. CASE i = 3
    BY <1>2, <1>3, <1>5, <1>6, <1>9
<1> QED BY <1>7, <1>8, <1>9

(***************************************************************************)
(* Whatever the environment holds, values that are not Unicode included,   *)
(* what is served is the first source present among those that are         *)
(* Unicode, and no timeout is malformed Unicode text (resolve_config,      *)
(* base_config and parse_ms of resolve.rs).                                *)
(***************************************************************************)
THEOREM NothingFallsThrough == Spec => []NoFallThrough
<1>1. Course => NoFallThrough
    <2> SUFFICES ASSUME Course, snapshot # None PROVE NoFallThrough
        BY DEF NoFallThrough
    <2>1. env \in Environments
        BY DEF Course
    <2>2. PICK e \in EnvironmentType : e = getter(env)
        BY <2>1, Reading
    <2>3. PICK c \in config : config = {c} /\ c \in resolve_with(e)
        BY <2>2, ConfigIsOne DEF Course, None, resolve_config
    <2>4. ~BadTimeout(e)
        BY <2>3, MadeFromBase
    <2>5. PICK b \in base_config(e) : c.listeners = b.listeners /\ c.upstreams = b.upstreams
        BY <2>3, MadeFromBase
    <2>6. \A opt \in {env.GATEPUP_TIMEOUT_CONNECT_MS, env.GATEPUP_TIMEOUT_REQUEST_MS} :
              opt \subseteq Nat \union {NotUnicode}
        BY <2>1, <2>2, <2>4, Reading DEF BadTimeout, None
    <2>7. ASSUME NEW i \in 1..3, InForce(i)
          PROVE  \E d \in UNION Documents(env)[i] : \A x \in config :
                     x.listeners = d.listeners /\ x.upstreams = d.upstreams
        <3>1. FirstGiven(Documents(e)) # None /\ FirstGiven(Documents(e)) \subseteq Documents(env)[i]
            BY <2>1, <2>2, <2>7, InForceIsRead
        <3>2. b \in UNION Documents(env)[i]
            BY <3>1 DEF base_config
        <3> QED BY <2>3, <2>5, <3>2
    <2> QED BY <2>6, <2>7 DEF NoFallThrough
<1> QED BY <1>1, CourseHolds, PTL

-----------------------------------------------------------------------------
(* The admin API. *)

LEMMA RouteAnswers ==
    ASSUME NEW c, NEW a, NEW q
    PROVE  /\ AdminRoute(c, a, q) # "forwarded"
           /\ a.token # None /\ q.token # a.token /\ q.path # "/health" =>
                 AdminRoute(c, a, q) \in {"unauthorized", "method_not_allowed"}
BY DEF AdminRoute, Authorized

\* The token of the block that is served is the one in force.
LEMMA TokenReaches ==
    ASSUME Course, NEW c \in config, NEW a \in c.admin
    PROVE  a.token = TokenInForce
<1>1. PICK e \in EnvironmentType : e = getter(env) /\ c \in resolve_with(e)
    BY StartupAssumption DEF Course, None, resolve_config
<1>2. PICK b \in base_config(e) : c.admin = admin_override(b.admin, e)
    BY <1>1, MadeFromBase
<1>3. \A x, y \in base_config(e) : x = y
    BY BaseIsOne
<1>4. CASE e.GATEPUP_ADMIN # None
    <2>1. \E bind \in e.GATEPUP_ADMIN :
              a = [enabled |-> TRUE, bind |-> bind, token |-> e.GATEPUP_ADMIN_TOKEN]
        BY <1>2, <1>4 DEF admin_override
    <2>2. a.token = e.GATEPUP_ADMIN_TOKEN
        BY <2>1
    <2> QED BY <1>1, <1>4, <2>2 DEF TokenInForce
<1>5. CASE e.GATEPUP_ADMIN = None
    <2>1. c.admin = b.admin
        BY <1>2, <1>5 DEF admin_override
    <2>2. \A x, y \in c.admin : x = y
        BY ConfigFacts DEF Resolved
    <2>3. UNION {d.admin : d \in base_config(e)} = {a}
        BY <1>3, <2>1, <2>2
    <2>4. DocumentToken = UNION {x.token : x \in {a}}
        BY <1>1, <2>3 DEF DocumentToken
    <2>5. UNION {x.token : x \in {a}} = a.token
        OBVIOUS
    <2> QED BY <1>1, <1>5, <2>4, <2>5 DEF TokenInForce
<1> QED BY <1>4, <1>5

(***************************************************************************)
(* Whatever the environment and the document, the path of the metrics and  *)
(* the request: the token the operator put in force is the one that is     *)
(* served, and without it only /health is answered (apply_overrides of     *)
(* resolve.rs, route and authorized of gatepup-admin's lib.rs).            *)
(***************************************************************************)
THEOREM AdminIsGuarded == Spec => []TokenInForceGuards
<1>1. Course => TokenInForceGuards
    <2> SUFFICES ASSUME Course, TokenInForce # None, stage = "admin_answered",
                        request.path # "/health", request.token \intersect TokenInForce = {}
                 PROVE  answer.kind \in {"unauthorized", "method_not_allowed"}
        BY DEF TokenInForceGuards, TurnsAway
    <2>1. PICK c \in config : \E b \in c.admin : answer = [kind |-> AdminRoute(c, b, request)]
        BY DEF Course
    <2>2. PICK a \in c.admin : answer = [kind |-> AdminRoute(c, a, request)]
        BY <2>1
    <2>3. a.token = TokenInForce
        BY TokenReaches
    <2>4. request.token # TokenInForce
        BY DEF None
    <2>5. answer.kind = AdminRoute(c, a, request)
        BY <2>2
    <2> QED BY <2>3, <2>4, <2>5, RouteAnswers
<1> QED BY <1>1, CourseHolds, PTL

-----------------------------------------------------------------------------
(* A request. *)

Found(s, n, q) == match_route(s.listeners[n].router, request_host(q.host), q.path)

LEMMA HandledFacts ==
    ASSUME NEW s, NEW n, NEW q
    PROVE  LET ans == Handled(s, n, q)
               r == s.listeners[n].router[ans.route]
           IN  /\ ans.kind \in {"route_not_found", "forbidden", "forwarded"}
               /\ ans.kind # "route_not_found" =>
                     ans.on = n /\ ans.client = ClientIp(s, q) /\ ans.route \in Found(s, n, q)
               /\ ans.kind = "forwarded" =>
                     ans.path = rewritten_path(r, q.path) /\ ans.response = Delivered(s, q)
<1> DEFINE ans == Handled(s, n, q)
           i == CHOOSE i \in Found(s, n, q) : TRUE
<1>1. CASE Found(s, n, q) = {}
    <2>1. ans = [kind |-> "route_not_found"]
        BY <1>1 DEF Handled, Found
    <2> QED BY <2>1
<1>2. CASE Found(s, n, q) # {}
    <2>1. i \in Found(s, n, q)
        BY <1>2
    <2>2. CASE ~Allows(s.listeners[n].router[i], ClientIp(s, q))
        <3>1. ans = [kind |-> "forbidden", on |-> n, client |-> ClientIp(s, q), route |-> i]
            BY <1>2, <2>2 DEF Handled, Found
        <3> HIDE DEF ans, i
        <3>2. ans.kind = "forbidden" /\ ans.on = n /\ ans.route = i /\ ans.client = ClientIp(s, q)
            BY <3>1
        <3> QED BY <2>1, <3>2 DEF ans
    <2>3. CASE Allows(s.listeners[n].router[i], ClientIp(s, q))
        <3>1. ans = [kind |-> "forwarded", on |-> n, client |-> ClientIp(s, q), route |-> i,
                     path |-> rewritten_path(s.listeners[n].router[i], q.path),
                     response |-> Delivered(s, q)]
            BY <1>2, <2>3 DEF Handled, Found
        <3> HIDE DEF ans, i
        <3>2. ans.kind = "forwarded" /\ ans.on = n /\ ans.route = i
              /\ ans.client = ClientIp(s, q) /\ ans.response = Delivered(s, q)
              /\ ans.path = rewritten_path(s.listeners[n].router[i], q.path)
            BY <3>1
        <3> QED BY <2>1, <3>2 DEF ans
    <2> QED BY <2>2, <2>3
<1> QED BY <1>1, <1>2

\* The answer to a request, where there is one, is that of the snapshot.
LEMMA AnsweredFacts ==
    ASSUME Course, answer.kind = "forwarded" \/ stage = "answered"
    PROVE  /\ stage = "answered" /\ request \in Requests
           /\ \E s \in snapshot : /\ snapshot = {s}
                                  /\ \E n \in DOMAIN s.listeners : answer = Handled(s, n, request)
           /\ \E c \in config : TRUE
<1>1. stage = "answered"
    <2>1. Nothing.kind # "forwarded"
        BY DEF Nothing
    <2>2. stage = "admin_answered" => answer.kind # "forwarded"
        BY RouteAnswers DEF Course
    <2> QED BY <2>1, <2>2 DEF Course
<1> QED BY <1>1 DEF Course, Some

-----------------------------------------------------------------------------
(* Compression. *)

LEMMA CompressedFacts ==
    ASSUME NEW resp \in ReplyType, resp.encoding = {}, NEW enc
    PROVE  LET d == compress(resp, enc)
           IN  /\ d.encoding = {enc} /\ d.length = None /\ d.vary
               /\ d.coded = <<enc>> /\ d.coded # resp.coded
<1>1. resp \in [encoding : SUBSET Text, type : Text, length : Optional(Nat), vary : BOOLEAN,
                coded : Seq(Text)]
      /\ Len(resp.coded) = Cardinality(resp.encoding)
    BY DEF ReplyType
<1>2. Cardinality({}) = 0
    BY FS_EmptySet
<1>3. resp.coded \in Seq(Text) /\ Len(resp.coded) = 0
    BY <1>1, <1>2
<1>4. resp.coded = <<>>
    BY <1>3
<1>5. Append(resp.coded, enc) = <<enc>> /\ <<enc>> # <<>>
    BY <1>4
<1>6. LET d == compress(resp, enc)
      IN  d.encoding = {enc} /\ d.length = {} /\ d.vary = TRUE /\ d.coded = Append(resp.coded, enc)
    BY <1>1 DEF compress
<1> QED BY <1>4, <1>5, <1>6 DEF None

LEMMA DeliveredFacts ==
    ASSUME NEW s, NEW q
    PROVE  \/ Delivered(s, q) = q.reply
           \/ \E enc : /\ Delivered(s, q) = compress(q.reply, enc)
                       /\ q.reply.encoding = {} /\ Accepts(q.accept, enc)
<1> DEFINE results == UNION {maybe_compress(q.reply, q.accept, comp) : comp \in s.compression}
<1>1. CASE s.compression = None
    BY <1>1 DEF Delivered
<1>2. CASE s.compression # None
    <2>1. ASSUME NEW comp
          PROVE  maybe_compress(q.reply, q.accept, comp) # {}
        BY DEF maybe_compress
    <2>2. results # {}
        BY <1>2, <2>1 DEF None
    <2>3. Delivered(s, q) \in results
        BY <1>2, <2>2 DEF Delivered
    <2>4. PICK comp \in s.compression : Delivered(s, q) \in maybe_compress(q.reply, q.accept, comp)
        BY <2>3
    <2>5. \A enc \in choose_encoding(q.accept, comp) : Accepts(q.accept, enc)
        BY DEF choose_encoding
    <2> QED BY <2>4, <2>5 DEF maybe_compress, should_compress
<1> QED BY <1>1, <1>2

(***************************************************************************)
(* For every compression setting, every truthfully labelled reply and      *)
(* every Accept-Encoding, the client can decode what it gets               *)
(* (maybe_compress of compress.rs).                                        *)
(***************************************************************************)
THEOREM LabelsAreTrue == Spec => []EncodedAsLabelled
<1>1. Course => EncodedAsLabelled
    <2> SUFFICES ASSUME Course, answer.kind = "forwarded"
                 PROVE  LET resp == answer.response
                            added == resp.coded # request.reply.coded
                        IN  /\ ToSet(resp.coded) = resp.encoding
                            /\ Len(resp.coded) = Cardinality(resp.encoding)
                            /\ added => /\ resp.length = None /\ resp.vary
                                        /\ \A enc \in resp.encoding :
                                              {enc, "*"} \intersect request.accept # {}
                            /\ ~added => resp = request.reply
        BY DEF EncodedAsLabelled
    <2>1. PICK s, n : answer = Handled(s, n, request)
        BY AnsweredFacts
    <2>2. answer.response = Delivered(s, request)
        BY <2>1, HandledFacts
    <2>3. request.reply \in ReplyType
        BY AnsweredFacts, StartupAssumption
    <2>4. CASE answer.response = request.reply
        BY <2>3, <2>4 DEF ReplyType
    <2>5. ASSUME NEW enc, answer.response = compress(request.reply, enc),
                 request.reply.encoding = {}, Accepts(request.accept, enc)
          PROVE  LET resp == answer.response
                 IN  /\ ToSet(resp.coded) = resp.encoding
                     /\ Len(resp.coded) = Cardinality(resp.encoding)
                     /\ resp.coded # request.reply.coded
                     /\ resp.length = None /\ resp.vary
                     /\ \A f \in resp.encoding : {f, "*"} \intersect request.accept # {}
        <3>1. /\ answer.response.encoding = {enc} /\ answer.response.length = None
              /\ answer.response.vary /\ answer.response.coded = <<enc>>
              /\ answer.response.coded # request.reply.coded
            BY <2>3, <2>5, CompressedFacts
        <3>2. ToSet(<<enc>>) = {enc} /\ Len(<<enc>>) = 1
            BY DEF ToSet
        <3>3. Cardinality({enc}) = 1
            BY FS_Singleton
        <3>4. {enc, "*"} \intersect request.accept # {}
            BY <2>5 DEF Accepts
        <3> QED BY <3>1, <3>2, <3>3, <3>4
    <2> QED BY <2>2, <2>4, <2>5, DeliveredFacts
<1> QED BY <1>1, CourseHolds, PTL

-----------------------------------------------------------------------------
(* Validation. *)

LEMMA NotReported ==
    ASSUME NEW error, NEW found, Report(error, found) = {}
    PROVE  ~found
BY DEF Report

LEMMA ChecksPass ==
    ASSUME NEW c, validate(c) = {}
    PROVE  /\ check_unique_upstreams(c) = {} /\ check_listeners(c) = {} /\ check_upstreams(c) = {}
           /\ check_admin(c) = {} /\ check_timeouts(c) = {} /\ check_limits(c) = {}
BY DEF validate

LEMMA ListenerPasses ==
    ASSUME NEW c, validate(c) = {}, NEW i \in DOMAIN c.listeners
    PROVE  LET l == c.listeners[i]
           IN  /\ Report("InvalidBind", l.bind \notin Addresses) = {}
               /\ check_listener_tls(l) = {} /\ check_conflicts(l) = {}
               /\ \A r \in ToSet(l.routes) : check_route(r, ToSet(Names(c.upstreams))) = {}
<1> DEFINE of(l) == Report("InvalidBind", l.bind \notin Addresses)
                    \union check_listener_tls(l)
                    \union Report("DuplicateRouteName", Repeats(Names(l.routes)))
                    \union check_conflicts(l)
                    \union UNION {check_route(r, ToSet(Names(c.upstreams))) : r \in ToSet(l.routes)}
<1>1. UNION {of(c.listeners[k]) : k \in DOMAIN c.listeners} = {}
    BY ChecksPass DEF check_listeners
<1>2. of(c.listeners[i]) = {}
    <2> HIDE DEF of
    <2> QED BY <1>1
<1> QED BY <1>2

LEMMA RoutePasses ==
    ASSUME NEW r, NEW names, check_route(r, names) = {}
    PROVE  /\ ~({r.host, r.path_prefix} \subseteq {None, Some(<<>>)})
           /\ \A p \in r.path_prefix : p = <<>> \/ Head(p) = Slash
           /\ r.upstream \in names
<1>1. /\ Report("EmptyRouteMatch", {r.host, r.path_prefix} \subseteq {None, Some(<<>>)}) = {}
      /\ Report("InvalidPathPrefix", \E p \in r.path_prefix : p # <<>> /\ Head(p) # Slash) = {}
      /\ Report("UnknownUpstream", r.upstream \notin names) = {}
    BY DEF check_route
<1>2. /\ ~({r.host, r.path_prefix} \subseteq {None, Some(<<>>)})
      /\ ~\E p \in r.path_prefix : p # <<>> /\ Head(p) # Slash
      /\ ~(r.upstream \notin names)
    BY <1>1 DEF Report
<1> QED BY <1>2

LEMMA TlsPasses ==
    ASSUME NEW l, check_listener_tls(l) = {}
    PROVE  (l.protocol = "https" => l.tls # None) /\ (l.protocol = "http" => l.tls = None)
BY DEF check_listener_tls, Report

LEMMA UpstreamPasses ==
    ASSUME NEW c, validate(c) = {}, NEW i \in DOMAIN c.upstreams
    PROVE  LET u == c.upstreams[i]
           IN  /\ u.targets # <<>>
               /\ \A t \in ToSet(u.targets) : t.weight # 0
               /\ \A hc \in u.health_check : ~(hc.timeout_ms >= hc.interval_seconds * MillisPerSecond)
<1> DEFINE of(u) == Report("EmptyTargets", u.targets = <<>>)
                    \union Report("InvalidTargetUrl", \E t \in ToSet(u.targets) : t.url = "bad")
                    \union Report("ZeroWeight", \E t \in ToSet(u.targets) : t.weight = 0)
                    \union UNION {check_health_timeout(hc) : hc \in u.health_check}
                    \union UNION {check_retries(r) : r \in u.retries}
<1>1. UNION {of(c.upstreams[k]) : k \in DOMAIN c.upstreams} = {}
    BY ChecksPass DEF check_upstreams
<1>2. of(c.upstreams[i]) = {}
    <2> HIDE DEF of
    <2> QED BY <1>1
<1>3. Report("EmptyTargets", c.upstreams[i].targets = <<>>) = {}
      /\ Report("ZeroWeight", \E t \in ToSet(c.upstreams[i].targets) : t.weight = 0) = {}
      /\ \A hc \in c.upstreams[i].health_check : check_health_timeout(hc) = {}
    BY <1>2
<1> QED BY <1>3 DEF Report, check_health_timeout

-----------------------------------------------------------------------------
(* Paths. *)

LEMMA CompiledPrefix ==
    ASSUME NEW r \in RouteConfig, NEW names, check_route(r, names) = {}
    PROVE  LET p == EffectivePrefix(r.path_prefix)
           IN  p \in Seq(Text) /\ p # <<>> /\ Head(p) = Slash
<1>1. r.path_prefix \subseteq Seq(Text) /\ \A x, y \in r.path_prefix : x = y
    BY OptionalFacts DEF RouteConfig
<1>2. CASE r.path_prefix \in {None, Some(<<>>)}
    BY <1>2, TextAssumption DEF EffectivePrefix, Root
<1>3. CASE r.path_prefix \notin {None, Some(<<>>)}
    <2>1. PICK p \in r.path_prefix : TRUE
        BY <1>3 DEF None
    <2>2. r.path_prefix = {p} /\ p # <<>> /\ p \in Seq(Text)
        BY <1>1, <1>3, <2>1 DEF Some
    <2>3. EffectivePrefix(r.path_prefix) = p
        BY <1>3, <2>2 DEF EffectivePrefix
    <2> QED BY <2>1, <2>2, <2>3, RoutePasses
<1> QED BY <1>2, <1>3

\* A path is its prefix and what is left after it.
LEMMA SplitPath ==
    ASSUME NEW p \in Seq(Text), NEW path \in Seq(Text), IsPrefix(p, path)
    PROVE  LET rest == SubSeq(path, Len(p) + 1, Len(path))
           IN  rest \in Seq(Text) /\ path = p \o rest
<1> DEFINE rest == SubSeq(path, Len(p) + 1, Len(path))
<1>1. Len(p) \in Nat /\ Len(path) \in Nat /\ Len(p) <= Len(path)
      /\ SubSeq(p, 1, Len(p)) = SubSeq(path, 1, Len(p))
    BY DEF IsPrefix
<1>2. rest \in Seq(Text) /\ Len(rest) = Len(path) - Len(p)
      /\ \A i \in 1..Len(rest) : rest[i] = path[Len(p) + i]
    BY <1>1
<1>3. \A i \in 1..Len(p) : p[i] = path[i]
    <2>1. \A i \in 1..Len(p) : SubSeq(p, 1, Len(p))[i] = p[i] /\ SubSeq(path, 1, Len(p))[i] = path[i]
        BY <1>1
    <2> QED BY <1>1, <2>1
<1> HIDE DEF rest
<1>4. /\ p \o rest \in Seq(Text) /\ Len(p \o rest) = Len(p) + Len(rest)
      /\ \A i \in 1..Len(p \o rest) :
            (p \o rest)[i] = IF i <= Len(p) THEN p[i] ELSE rest[i - Len(p)]
    BY <1>1, <1>2
<1>5. Len(p \o rest) = Len(path)
    BY <1>1, <1>2, <1>4
<1>6. ASSUME NEW i \in 1..Len(path) PROVE (p \o rest)[i] = path[i]
    <2>1. CASE i <= Len(p)
        BY <1>1, <1>3, <1>4, <1>5, <2>1
    <2>2. CASE ~(i <= Len(p))
        <3>1. i - Len(p) \in 1..Len(rest) /\ Len(p) + (i - Len(p)) = i
            BY <1>1, <1>2, <2>2
        <3> QED BY <1>2, <1>4, <1>5, <2>2, <3>1
    <2> QED BY <2>1, <2>2
<1>7. path = p \o rest
    BY <1>1, <1>4, <1>5, <1>6, SeqEqual
<1> QED BY <1>2, <1>7 DEF rest

\* new is the path without the prefix of r if that is to go, or with it if not.
KeepsRest(r, path, new) ==
    LET given == IF r.strip_prefix THEN r.path_prefix ELSE <<>>
    IN  Head(new) = Slash /\ path \in {given \o new, given \o Tail(new)}

LEMMA RewrittenFacts ==
    ASSUME NEW r, r.strip_prefix \in BOOLEAN, r.path_prefix \in Seq(Text), r.path_prefix # <<>>,
           Head(r.path_prefix) = Slash, NEW path \in Seq(Text), IsPrefix(r.path_prefix, path)
    PROVE  KeepsRest(r, path, rewritten_path(r, path))
<1> USE DEF KeepsRest
<1> DEFINE rest == SubSeq(path, Len(r.path_prefix) + 1, Len(path))
<1>1. rest \in Seq(Text) /\ path = r.path_prefix \o rest
    BY SplitPath
<1>2. CASE ~r.strip_prefix
    <2>1. rewritten_path(r, path) = path
        BY <1>2 DEF rewritten_path
    <2>2. Head(path) = Slash
        <3>1. Len(r.path_prefix) \in Nat /\ Len(r.path_prefix) > 0 /\ r.path_prefix[1] = Slash
            OBVIOUS
        <3>2. Len(path) > 0 /\ path[1] = r.path_prefix[1]
            <4> HIDE DEF rest
            <4>1. /\ Len(path) = Len(r.path_prefix) + Len(rest)
                  /\ \A i \in 1..(Len(r.path_prefix) + Len(rest)) :
                        path[i] = IF i <= Len(r.path_prefix) THEN r.path_prefix[i]
                                  ELSE rest[i - Len(r.path_prefix)]
                BY <1>1, ConcatProperties
            <4>2. Len(rest) \in Nat
                BY <1>1
            <4> QED BY <3>1, <4>1, <4>2
        <3> QED BY <3>1, <3>2
    <2>3. path = <<>> \o path
        BY ConcatEmptySeq
    <2> QED BY <1>2, <2>3, <2>1, <2>2
<1>3. CASE r.strip_prefix /\ rest # <<>> /\ Head(rest) = Slash
    <2>1. rewritten_path(r, path) = rest
        BY <1>3 DEF rewritten_path
    <2> QED BY <1>1, <1>3, <2>1
<1>4. CASE r.strip_prefix /\ ~(rest # <<>> /\ Head(rest) = Slash)
    <2>1. rewritten_path(r, path) = Root \o rest
        BY <1>4 DEF rewritten_path
    <2>2. Head(Root \o rest) = Slash /\ Tail(Root \o rest) = rest
        <3> HIDE DEF rest
        <3>1. Root \in Seq(Text) /\ Len(Root) = 1 /\ Root[1] = Slash /\ Len(rest) \in Nat
            BY <1>1, TextAssumption DEF Root
        <3>2. /\ Root \o rest \in Seq(Text) /\ Len(Root \o rest) = 1 + Len(rest)
              /\ \A i \in 1..(1 + Len(rest)) :
                    (Root \o rest)[i] = IF i <= 1 THEN Root[i] ELSE rest[i - 1]
            <4>1. /\ Root \o rest \in Seq(Text) /\ Len(Root \o rest) = Len(Root) + Len(rest)
                  /\ \A i \in 1..(Len(Root) + Len(rest)) :
                        (Root \o rest)[i] = IF i <= Len(Root) THEN Root[i] ELSE rest[i - Len(Root)]
                BY <1>1, <3>1, ConcatProperties
            <4> QED BY <3>1, <4>1
        <3>3. Root \o rest # <<>> /\ Head(Root \o rest) = Slash
            <4>1. 1 \in 1..(1 + Len(rest)) /\ Len(Root \o rest) > 0 /\ 1 <= 1
                BY <3>1, <3>2
            <4>2. (Root \o rest)[1] = Slash
                BY <3>1, <3>2, <4>1
            <4>3. PICK new \in Seq(Text) : new = Root \o rest
                BY <3>2
            <4>4. new # <<>> /\ Head(new) = new[1]
                BY <4>1, <4>3
            <4> QED BY <4>2, <4>3, <4>4
        <3>4. /\ Tail(Root \o rest) \in Seq(Text) /\ Len(Tail(Root \o rest)) = Len(rest)
              /\ \A i \in 1..Len(rest) : Tail(Root \o rest)[i] = (Root \o rest)[i + 1]
            BY <3>1, <3>2, <3>3, HeadTailProperties
        <3>5. \A i \in 1..Len(rest) : Tail(Root \o rest)[i] = rest[i]
            BY <3>1, <3>2, <3>4
        <3>6. Tail(Root \o rest) = rest
            BY <1>1, <3>4, <3>5, SeqEqual
        <3> QED BY <3>3, <3>6
    <2> QED BY <1>1, <1>4, <2>1, <2>2
<1> QED BY <1>2, <1>3, <1>4

-----------------------------------------------------------------------------
(* Routers. *)

LEMMA SnapshotListeners ==
    ASSUME NEW c
    PROVE  /\ DOMAIN build_snapshot(c).listeners = DOMAIN c.listeners
           /\ \A n \in DOMAIN c.listeners :
                 build_snapshot(c).listeners[n] = ListenerRuntime(c.listeners[n])
<1>1. build_snapshot(c).listeners = [i \in DOMAIN c.listeners |-> ListenerRuntime(c.listeners[i])]
    BY DEF build_snapshot
<1> QED BY <1>1

LEMMA RuntimeFacts ==
    ASSUME NEW l
    PROVE  /\ ListenerRuntime(l).name = l.name /\ ListenerRuntime(l).bind = l.bind
           /\ ListenerRuntime(l).router = BuildRouter(l.routes)
           /\ ListenerRuntime(l).acceptor <=> l.tls # None
<1>1. PICK given \in BOOLEAN : given = (l.tls # None)
    OBVIOUS
<1>2. ListenerRuntime(l) = [name |-> l.name, bind |-> l.bind,
                            router |-> BuildRouter(l.routes), acceptor |-> given]
    BY <1>1, Zenon DEF ListenerRuntime
<1>3. /\ ListenerRuntime(l).name = l.name /\ ListenerRuntime(l).bind = l.bind
      /\ ListenerRuntime(l).router = BuildRouter(l.routes) /\ ListenerRuntime(l).acceptor = given
    BY <1>2
<1> QED BY <1>1, <1>3

LEMMA RouterFacts ==
    ASSUME NEW c, Resolved(c), validate(c) = {}, NEW n \in DOMAIN build_snapshot(c).listeners
    PROVE  LET routes == c.listeners[n].routes
               router == build_snapshot(c).listeners[n].router
           IN  /\ n \in DOMAIN c.listeners /\ c.listeners[n] \in ListenerConfig
               /\ routes \in Seq(RouteConfig) /\ DOMAIN router = DOMAIN routes
               /\ \A i \in DOMAIN router :
                     /\ routes[i] \in RouteConfig
                     /\ router[i] = Compile(routes[i])
                     /\ check_route(routes[i], ToSet(Names(c.upstreams))) = {}
<1> DEFINE routes == c.listeners[n].routes
           router == build_snapshot(c).listeners[n].router
<1>1. n \in DOMAIN c.listeners /\ router = BuildRouter(routes)
    BY SnapshotListeners, RuntimeFacts
<1>2. c.listeners[n] \in ListenerConfig
    BY <1>1 DEF Resolved
<1>3. routes \in Seq(RouteConfig)
    BY <1>2 DEF ListenerConfig
<1> HIDE DEF router
<1>4. DOMAIN router = DOMAIN routes /\ \A i \in DOMAIN router : router[i] = Compile(routes[i])
    BY <1>1 DEF BuildRouter
<1>5. \A i \in DOMAIN routes : routes[i] \in RouteConfig /\ routes[i] \in ToSet(routes)
    BY <1>3 DEF ToSet
<1>6. \A r \in ToSet(routes) : check_route(r, ToSet(Names(c.upstreams))) = {}
    BY <1>1, ListenerPasses
<1> HIDE DEF routes
<1> QED BY <1>1, <1>2, <1>3, <1>4, <1>5, <1>6 DEF routes, router

LEMMA CompileFacts ==
    ASSUME NEW r \in RouteConfig
    PROVE  /\ Compile(r).host_match = HostMatch(r.host)
           /\ Compile(r).path_prefix = EffectivePrefix(r.path_prefix)
           /\ Compile(r).strip_prefix = r.strip_prefix /\ r.strip_prefix \in BOOLEAN
           /\ Compile(r).upstream = r.upstream
           /\ r.host \in Optional(Seq(DOMAIN LowerCase))
BY DEF Compile, RouteConfig

(***************************************************************************)
(* For every valid configuration, listener, route and path: what stripping *)
(* leaves is all of the rest of the path, with a slash in front            *)
(* (rewritten_path_and_query of proxy.rs).                                 *)
(***************************************************************************)
THEOREM RestIsKept == Spec => []StripKeepsRest
<1>1. Course => StripKeepsRest
    <2> SUFFICES ASSUME Course, answer.kind = "forwarded", NEW s \in snapshot
                 PROVE  KeepsRest(s.listeners[answer.on].router[answer.route], request.path, answer.path)
        BY DEF StripKeepsRest, KeepsRest
    <2>1. PICK n \in DOMAIN s.listeners : answer = Handled(s, n, request)
        BY AnsweredFacts
    <2>2. PICK c \in config : s = build_snapshot(c) /\ validate(c) = {} /\ Resolved(c)
        BY AnsweredFacts, Serving
    <2>3. PICK i \in Found(s, n, request) :
              /\ answer.on = n /\ answer.route = i
              /\ answer.path = rewritten_path(s.listeners[n].router[i], request.path)
        BY <2>1, HandledFacts
    <2>4. PICK r : r = s.listeners[n].router[i]
        OBVIOUS
    <2>5. i \in DOMAIN s.listeners[n].router /\ IsPrefix(r.path_prefix, request.path)
        BY <2>3, <2>4 DEF Found, match_route, Matching, Matches
    <2>6. PICK rc \in RouteConfig : r = Compile(rc) /\ check_route(rc, ToSet(Names(c.upstreams))) = {}
        BY <2>1, <2>2, <2>4, <2>5, RouterFacts
    <2>7. /\ r.path_prefix \in Seq(Text) /\ r.path_prefix # <<>> /\ Head(r.path_prefix) = Slash
          /\ r.strip_prefix \in BOOLEAN
        BY <2>6, CompileFacts, CompiledPrefix
    <2>8. PICK path \in Seq(Text) : path = request.path
        BY AnsweredFacts, StartupAssumption
    <2>9. KeepsRest(r, path, rewritten_path(r, path))
        <3>1. IsPrefix(r.path_prefix, path)
            BY <2>5, <2>8
        <3> QED BY <2>7, <3>1, RewrittenFacts
    <2>10. answer.path = rewritten_path(r, path)
           /\ s.listeners[answer.on].router[answer.route] = r
        BY <2>3, <2>4, <2>8
    <2> QED BY <2>8, <2>9, <2>10
<1> QED BY <1>1, CourseHolds, PTL

-----------------------------------------------------------------------------
(* The client. *)

Hops(q) == <<q.origin>> \o q.via

\* What has been seen of q after k proxies: each appended the hop before it.
Seen(q, k) ==
    [peer |-> Hops(q)[k + 1], xff |-> q.sent \o [i \in 1..k |-> Some(Hops(q)[i])]]

LEMMA HopsFacts ==
    ASSUME NEW q, q.origin \in Text, q.via \in Seq(Text)
    PROVE  /\ Len(q.via) \in Nat /\ Hops(q) \in Seq(Text) /\ Len(Hops(q)) = Len(q.via) + 1
           /\ Hops(q)[1] = q.origin /\ \A k \in 1..Len(q.via) : Hops(q)[k + 1] = q.via[k]
<1>1. PICK via \in Seq(Text) : via = q.via
    OBVIOUS
<1>2. PICK o \in Text : o = q.origin
    OBVIOUS
<1>3. /\ Len(via) \in Nat /\ <<o>> \o via \in Seq(Text) /\ Len(<<o>> \o via) = Len(via) + 1
      /\ (<<o>> \o via)[1] = o /\ \A k \in 1..Len(via) : (<<o>> \o via)[k + 1] = via[k]
    OBVIOUS
<1> QED BY <1>1, <1>2, <1>3 DEF Hops

LEMMA SeenGrows ==
    ASSUME NEW q, q.origin \in Text, q.via \in Seq(Text), q.sent \in Seq(Optional(Text)),
           NEW k \in 1..Len(q.via)
    PROVE  Seen(q, k) = [peer |-> q.via[k],
                         xff |-> append_forwarded_for(Seen(q, k - 1).xff, Seen(q, k - 1).peer)]
<1>1. PICK sent \in Seq(Optional(Text)) : sent = q.sent
    OBVIOUS
<1>2. PICK hops \in Seq(Text) : hops = Hops(q)
    BY HopsFacts
<1>3. k \in Nat /\ k - 1 \in Nat /\ (k - 1) + 1 = k /\ k \in 1..Len(hops) /\ Len(sent) \in Nat
    BY <1>2, HopsFacts
<1> DEFINE old == [i \in 1..(k - 1) |-> Some(hops[i])]
           new == [i \in 1..k |-> Some(hops[i])]
<1>4. old \in Seq(Optional(Text)) /\ Len(old) = k - 1 /\ new \in Seq(Optional(Text)) /\ Len(new) = k
    <2>1. \A i \in 1..k : Some(hops[i]) \in Optional(Text)
        BY <1>3 DEF Some, Optional
    <2> QED BY <1>3, <2>1
<1>5. sent \o new = Append(sent \o old, Some(hops[k]))
    <2>1. Some(hops[k]) \in Optional(Text)
        BY <1>3 DEF Some, Optional
    <2>2. new = Append(old, Some(hops[k]))
        <3>1. Append(old, Some(hops[k])) \in Seq(Optional(Text)) /\ Len(Append(old, Some(hops[k]))) = k
            BY <1>3, <1>4, <2>1
        <3>2. ASSUME NEW i \in 1..k PROVE new[i] = Append(old, Some(hops[k]))[i]
            BY <1>3, <1>4
        <3> HIDE DEF old, new
        <3> QED BY <1>4, <3>1, <3>2, SeqEqual
    <2> HIDE DEF old, new
    <2> QED BY <1>4, <2>1, <2>2
<1>6. Seen(q, k).xff = sent \o new /\ Seen(q, k - 1).xff = sent \o old /\ Seen(q, k - 1).peer = hops[k]
    BY <1>1, <1>2, <1>3 DEF Seen
<1>7. Seen(q, k) = [peer |-> q.via[k], xff |-> sent \o new]
    BY <1>1, <1>2, HopsFacts DEF Seen
<1> HIDE DEF old, new
<1> QED BY <1>5, <1>6, <1>7 DEF append_forwarded_for

LEMMA ArrivingIsSeen ==
    ASSUME NEW q, q.origin \in Text, q.via \in Seq(Text), q.sent \in Seq(Optional(Text))
    PROVE  Arriving(q) = Seen(q, Len(q.via))
<1> DEFINE N == Len(q.via)
           Body(h) == [k \in 0..N |->
               IF k = 0 THEN [peer |-> q.origin, xff |-> q.sent]
               ELSE [peer |-> q.via[k], xff |-> append_forwarded_for(h[k - 1].xff, h[k - 1].peer)]]
           hop == CHOOSE h : h = Body(h)
           seen == [k \in 0..N |-> Seen(q, k)]
<1>1. N \in Nat
    BY HopsFacts
<1>2. seen[0] = [peer |-> q.origin, xff |-> q.sent]
    <2>1. 0 \in 0..N /\ 1..0 = {} /\ 0 + 1 = 1
        BY <1>1
    <2>2. PICK sent \in Seq(Optional(Text)) : sent = q.sent
        OBVIOUS
    <2>3. [i \in {} |-> Some(Hops(q)[i])] = <<>>
        OBVIOUS
    <2>4. sent \o <<>> = sent
        OBVIOUS
    <2> QED BY <2>1, <2>2, <2>3, <2>4, HopsFacts DEF Seen
<1>3. \A k \in 1..N : k - 1 \in 0..N /\ k \in 0..N
    BY <1>1
<1>4. \A k \in 1..N : seen[k] = [peer |-> q.via[k],
                               xff |-> append_forwarded_for(seen[k - 1].xff, seen[k - 1].peer)]
    BY <1>3, SeenGrows
<1>5. seen = Body(seen)
    <2>1. \A k \in 0..N : k = 0 \/ k \in 1..N
        BY <1>1
    <2>2. DOMAIN seen = 0..N /\ seen = [k \in 0..N |-> seen[k]]
        OBVIOUS
    <2> HIDE DEF N, seen
    <2> QED BY <1>2, <1>4, <2>1, <2>2
<1>6. hop = Body(hop)
    <2>1. \E h : h = Body(h)
        BY <1>5
    <2> HIDE DEF Body
    <2> QED BY <2>1
<1>7. Arriving(q) = hop[N]
    BY DEF Arriving
<1> HIDE DEF hop, seen
<1>8. \A k \in 0..N : hop[k] = seen[k]
    <2> DEFINE wrong == {k \in 0..N : hop[k] # seen[k]}
    <2> SUFFICES ASSUME wrong # {} PROVE FALSE
        OBVIOUS
    <2>1. PICK k \in wrong : \A j \in wrong : k <= j
        <3>1. wrong \subseteq Nat
            BY <1>1
        <3> HIDE DEF wrong
        <3> QED BY <3>1, LeastElement
    <2>2. k \in 0..N /\ hop[k] # seen[k]
        OBVIOUS
    <2>3. CASE k = 0
        BY <1>2, <1>6, <2>2, <2>3
    <2>4. CASE k # 0
        <3>1. k \in 1..N /\ k - 1 \in 0..N /\ ~(k <= k - 1)
            BY <1>1, <2>2, <2>4
        <3>2. hop[k - 1] = seen[k - 1]
            BY <2>1, <3>1
        <3>3. hop[k] = [peer |-> q.via[k], xff |-> append_forwarded_for(hop[k - 1].xff, hop[k - 1].peer)]
            BY <1>6, <2>2, <2>4
        <3> QED BY <1>4, <2>2, <3>1, <3>2, <3>3
    <2> QED BY <2>3, <2>4
<1>9. N \in 0..N
    BY <1>1
<1>10. seen[N] = Seen(q, N)
    BY <1>9 DEF seen
<1> HIDE DEF N
<1>11. Arriving(q) = Seen(q, N)
    BY <1>7, <1>8, <1>9, <1>10
<1> QED BY <1>11 DEF N

LEMMA MaxIs ==
    ASSUME NEW S \in SUBSET Int, NEW m \in S, \A x \in S : x <= m
    PROVE  Max(S) = m
<1>1. \E x \in S : \A y \in S : x >= y
    OBVIOUS
<1>2. Max(S) \in S /\ \A y \in S : Max(S) >= y
    BY <1>1 DEF Max
<1>3. PICK x \in S : x = Max(S)
    BY <1>2
<1>4. x \in Int /\ m \in Int /\ x <= m /\ x >= m
    BY <1>2, <1>3
<1> QED BY <1>3, <1>4

\* The last hop that is not trusted is the one access control judges.
LEMMA ResolvedClient ==
    ASSUME NEW q, q.origin \in Text, q.via \in Seq(Text), q.sent \in Seq(Optional(Text)),
           NEW trusted, NEW i \in 1..Len(Hops(q)), ~Trusts(trusted, Hops(q)[i]),
           \A j \in (i + 1)..Len(Hops(q)) : Trusts(trusted, Hops(q)[j])
    PROVE  resolve_client_ip(Arriving(q).peer, Arriving(q).xff, trusted) = Hops(q)[i]
<1>1. PICK N \in Nat : N = Len(q.via)
    BY HopsFacts
<1>2. PICK hops \in Seq(Text) : hops = Hops(q) /\ Len(hops) = N + 1
    BY <1>1, HopsFacts
<1>3. PICK sent \in Seq(Optional(Text)) : sent = q.sent
    OBVIOUS
<1> DEFINE added == [j \in 1..N |-> Some(hops[j])]
           xff == sent \o added
           L == Len(sent)
<1>4. Arriving(q).peer = hops[N + 1] /\ Arriving(q).xff = xff
    <2>1. Arriving(q) = Seen(q, N)
        BY <1>1, ArrivingIsSeen
    <2>2. Seen(q, N) = [peer |-> hops[N + 1], xff |-> xff]
        BY <1>2, <1>3 DEF Seen
    <2> HIDE DEF xff
    <2> QED BY <2>1, <2>2
<1>5. i \in 1..(N + 1) /\ ~Trusts(trusted, hops[i])
      /\ \A j \in (i + 1)..(N + 1) : Trusts(trusted, hops[j])
    BY <1>2
<1>6. CASE i = N + 1
    BY <1>2, <1>4, <1>5, <1>6 DEF resolve_client_ip
<1>7. CASE i # N + 1
    <2>1. i \in 1..N /\ Trusts(trusted, hops[N + 1])
        <3>1. i \in 1..N
            BY <1>5, <1>7
        <3>2. N + 1 \in (i + 1)..(N + 1)
            BY <3>1
        <3> QED BY <1>5, <3>1, <3>2
    <2>2. L \in Nat /\ added \in Seq(Optional(Text)) /\ Len(added) = N
        <3>1. \A j \in 1..N : Some(hops[j]) \in Optional(Text)
            BY <1>2 DEF Some, Optional
        <3> QED BY <3>1
    <2>3. DOMAIN xff = 1..(L + N) /\ \A j \in 1..N : xff[L + j] = Some(hops[j])
        <3>1. \A j \in 1..N : added[j] = Some(hops[j])
            OBVIOUS
        <3> HIDE DEF added
        <3> QED BY <2>2, <3>1
    <2> HIDE DEF xff, added, L
    <2>4. L + i \in Strangers(xff, trusted)
        <3>1. L + i \in 1..(L + N) /\ xff[L + i] = Some(hops[i])
            <4>1. xff[L + i] = Some(hops[i])
                BY <2>1, <2>3
            <4>2. N \in Nat
                BY <1>2
            <4> QED BY <2>1, <2>2, <4>1, <4>2
        <3> QED BY <1>5, <2>3, <3>1 DEF Strangers, Some
    <2>5. ASSUME NEW x \in Strangers(xff, trusted) PROVE x <= L + i
        <3> SUFFICES ASSUME x > L + i PROVE FALSE
            BY <2>1, <2>2, <2>3, <2>5 DEF Strangers
        <3>1. x \in 1..(L + N) /\ \E ip \in xff[x] : ~Trusts(trusted, ip)
            BY <2>3 DEF Strangers
        <3>2. PICK j \in (i + 1)..N : x = L + j
            <4>1. x - L \in (i + 1)..N /\ x = L + (x - L)
                BY <2>1, <2>2, <3>1
            <4> QED BY <4>1
        <3>3. j \in 1..N /\ Trusts(trusted, hops[j])
            BY <1>5, <2>1
        <3>4. xff[x] = {hops[j]}
            BY <2>3, <3>2, <3>3 DEF Some
        <3> QED BY <3>1, <3>3, <3>4
    <2>6. Max(Strangers(xff, trusted)) = L + i
        <3>1. Strangers(xff, trusted) \subseteq Int
            BY <2>2, <2>3 DEF Strangers
        <3> QED BY <2>4, <2>5, <3>1, MaxIs
    <2>7. xff[L + i] = {hops[i]}
        BY <2>1, <2>3 DEF Some
    <2>8. resolve_client_ip(hops[N + 1], xff, trusted) = CHOOSE ip \in {hops[i]} : TRUE
        BY <2>1, <2>4, <2>6, <2>7 DEF resolve_client_ip
    <2>9. (CHOOSE ip \in {hops[i]} : TRUE) = hops[i]
        OBVIOUS
    <2> QED BY <1>2, <1>4, <2>8, <2>9
<1> QED BY <1>6, <1>7

(***************************************************************************)
(* For every snapshot, chain of proxies and X-Forwarded-For, however long, *)
(* access control judges the last hop that is not a trusted proxy          *)
(* (resolve_client_ip with append_forwarded_for, proxy.rs).                *)
(***************************************************************************)
THEOREM ClientIsJudged == Spec => []ClientIsOrigin
<1>1. Course => ClientIsOrigin
    <2> SUFFICES ASSUME Course, stage = "answered", answer.kind # "route_not_found",
                        NEW s \in snapshot, NEW i \in DOMAIN Hops(request),
                        ~Trusts(s.trusted_proxies, Hops(request)[i]),
                        \A j \in (i + 1)..Len(Hops(request)) :
                            Trusts(s.trusted_proxies, Hops(request)[j])
                 PROVE  answer.client = Hops(request)[i]
        BY DEF ClientIsOrigin, Hops
    <2>1. PICK n \in DOMAIN s.listeners : answer = Handled(s, n, request)
        BY AnsweredFacts
    <2>2. answer.client = ClientIp(s, request)
        BY <2>1, HandledFacts
    <2>3. PICK q \in Requests : q = request
        BY AnsweredFacts
    <2>4. q.origin \in Text /\ q.via \in Seq(Text) /\ q.sent \in Seq(Optional(Text))
        BY StartupAssumption
    <2>5. i \in 1..Len(Hops(q))
        BY <2>3, <2>4, HopsFacts
    <2>6. resolve_client_ip(Arriving(q).peer, Arriving(q).xff, s.trusted_proxies) = Hops(q)[i]
        BY <2>3, <2>4, <2>5, ResolvedClient
    <2> QED BY <2>2, <2>3, <2>6 DEF ClientIp
<1> QED BY <1>1, CourseHolds, PTL

-----------------------------------------------------------------------------
(* Specificity. *)

LEMMA HostMatchFacts ==
    ASSUME NEW host \in Optional(Seq(DOMAIN LowerCase))
    PROVE  \/ HostMatch(host) = AnyHost
           \/ \E h \in Seq(DOMAIN LowerCase) :
                 /\ host = {h} /\ h # <<>> /\ Head(h) = "*" /\ HostMatch(host) = Wildcard(Tail(h))
           \/ \E h \in Seq(DOMAIN LowerCase) : host = {h} /\ HostMatch(host) = Exact(h)
<1>1. CASE host \in {None, Some(<<>>)}
    <2>1. ~\E h \in host : h # <<>> /\ Head(h) = "*" /\ Len(h) > 1
        BY <1>1 DEF None, Some
    <2> QED BY <1>1, <2>1 DEF HostMatch
<1>2. CASE host \notin {None, Some(<<>>)}
    <2>1. PICK h \in Seq(DOMAIN LowerCase) : host = {h}
        BY <1>2 DEF Optional, None
    <2>2. (CHOOSE x \in host : TRUE) = h
        BY <2>1
    <2>3. CASE h # <<>> /\ Head(h) = "*" /\ Len(h) > 1
        <3>1. \E x \in host : x # <<>> /\ Head(x) = "*" /\ Len(x) > 1
            BY <2>1, <2>3
        <3>2. HostMatch(host) = Wildcard(Tail(h))
            BY <1>2, <2>2, <3>1 DEF HostMatch
        <3> QED BY <2>1, <2>3, <3>2
    <2>4. CASE ~(h # <<>> /\ Head(h) = "*" /\ Len(h) > 1)
        <3>1. ~\E x \in host : x # <<>> /\ Head(x) = "*" /\ Len(x) > 1
            BY <2>1, <2>4
        <3>2. HostMatch(host) = Exact(h)
            BY <1>2, <2>2, <3>1 DEF HostMatch
        <3> QED BY <2>1, <3>2
    <2> QED BY <2>3, <2>4
<1> QED BY <1>1, <1>2

\* But for the match of any host, what is compiled tells what was written.
LEMMA SameHost ==
    ASSUME NEW h1 \in Optional(Seq(DOMAIN LowerCase)), NEW h2 \in Optional(Seq(DOMAIN LowerCase)),
           HostMatch(h1) = HostMatch(h2), HostMatch(h1) # AnyHost
    PROVE  h1 = h2
<1>1. \A x : Wildcard(x).kind = "wildcard" /\ Wildcard(x).labels = x
             /\ Exact(x).kind = "exact" /\ Exact(x).labels = x
    BY DEF Wildcard, Exact
<1>2. ASSUME NEW x \in Seq(DOMAIN LowerCase), NEW y \in Seq(DOMAIN LowerCase),
             x # <<>>, y # <<>>, Head(x) = Head(y), Tail(x) = Tail(y)
      PROVE  x = y
    <2>1. Len(x) \in Nat /\ Len(y) \in Nat /\ Len(x) > 0 /\ Len(y) > 0 /\ x[1] = y[1]
        BY <1>2
    <2>2. Len(x) = Len(y)
        BY <1>2, <2>1, HeadTailProperties
    <2>3. ASSUME NEW i \in 1..Len(x), i # 1 PROVE x[i] = y[i]
        <3>1. i - 1 \in 1..Len(Tail(x)) /\ (i - 1) + 1 = i
            BY <1>2, <2>1, <2>3, HeadTailProperties
        <3>2. Tail(x)[i - 1] = x[(i - 1) + 1]
            BY <1>2, <3>1, HeadTailProperties
        <3>3. i - 1 \in 1..Len(Tail(y))
            BY <1>2, <3>1
        <3>4. Tail(y)[i - 1] = y[(i - 1) + 1]
            BY <1>2, <3>3, HeadTailProperties
        <3> QED BY <1>2, <3>1, <3>2, <3>4
    <2>4. \A i \in 1..Len(x) : x[i] = y[i]
        BY <2>1, <2>3
    <2> QED BY <2>2, <2>4, SeqEqual
<1>4. ASSUME NEW x \in Seq(DOMAIN LowerCase), h1 = {x}, x # <<>>, Head(x) = "*",
             HostMatch(h1) = Wildcard(Tail(x))
      PROVE  h1 = h2
    <2>1. HostMatch(h2).kind = "wildcard" /\ HostMatch(h2).labels = Tail(x)
        BY <1>1, <1>4
    <2>2. PICK y \in Seq(DOMAIN LowerCase) :
              h2 = {y} /\ y # <<>> /\ Head(y) = "*" /\ HostMatch(h2) = Wildcard(Tail(y))
        BY <1>1, <2>1, HostMatchFacts
    <2>3. HostMatch(h2).labels = Tail(y)
        BY <1>1, <2>2
    <2> QED BY <1>2, <1>4, <2>1, <2>2, <2>3
<1>5. ASSUME NEW x \in Seq(DOMAIN LowerCase), h1 = {x}, HostMatch(h1) = Exact(x)
      PROVE  h1 = h2
    <2>1. HostMatch(h2).kind = "exact" /\ HostMatch(h2).labels = x
        BY <1>1, <1>5
    <2>2. PICK y \in Seq(DOMAIN LowerCase) : h2 = {y} /\ HostMatch(h2) = Exact(y)
        <3>1. \A z : HostMatch(h2) # Wildcard(z)
            BY <1>1, <2>1
        <3> QED BY <3>1, HostMatchFacts
    <2>3. HostMatch(h2).labels = y
        BY <1>1, <2>2
    <2> QED BY <1>5, <2>1, <2>2, <2>3
<1> QED BY <1>4, <1>5, HostMatchFacts

LEMMA RankFacts ==
    ASSUME NEW host \in Optional(Seq(DOMAIN LowerCase))
    PROVE  LET hm == HostMatch(host)
           IN  /\ hm.kind \in {"any", "exact", "wildcard"}
               /\ hm.kind = "any" => hm = AnyHost
               /\ Rank(hm) = IF hm.kind = "exact" THEN 2 ELSE IF hm.kind = "wildcard" THEN 1 ELSE 0
<1>1. HostMatch(host).kind \in {"any", "exact", "wildcard"}
      /\ (HostMatch(host).kind = "any" => HostMatch(host) = AnyHost)
    BY HostMatchFacts DEF AnyHost, Wildcard, Exact
<1>2. \A hm : Rank(hm) = IF hm.kind = "exact" THEN 2 ELSE IF hm.kind = "wildcard" THEN 1 ELSE 0
    BY DEF Rank
<1> QED BY <1>1, <1>2

\* Of two routes of a valid listener that both match, the narrower one ranks higher,
\* unless they are two spellings of the same match.
LEMMA NarrowerRanksHigher ==
    ASSUME NEW h1 \in Optional(Seq(DOMAIN LowerCase)), NEW h2 \in Optional(Seq(DOMAIN LowerCase)),
           Narrower(HostMatch(h1), HostMatch(h2))
    PROVE  Rank(HostMatch(h1)) > Rank(HostMatch(h2)) \/ HostMatch(h1) = HostMatch(h2)
BY RankFacts DEF Narrower

LEMMA PrefixOfSameLength ==
    ASSUME NEW p \in Seq(Text), NEW q \in Seq(Text), IsPrefix(p, q)
    PROVE  Len(p) <= Len(q) /\ (Len(p) = Len(q) => p = q)
<1>1. Len(p) <= Len(q) /\ SubSeq(p, 1, Len(p)) = SubSeq(q, 1, Len(p))
    BY DEF IsPrefix
<1>2. SubSeq(p, 1, Len(p)) = p /\ SubSeq(q, 1, Len(q)) = q
    BY SubSeqFull
<1> QED BY <1>1, <1>2

\* Two routes of a valid listener differ in what they match.
LEMMA NoConflict ==
    ASSUME NEW l, check_conflicts(l) = {}, l.routes \in Seq(RouteConfig),
           NEW i \in DOMAIN l.routes, NEW j \in DOMAIN l.routes, i # j
    PROVE  MatchKey(l.routes[i]) # MatchKey(l.routes[j])
<1> DEFINE keys == [n \in DOMAIN l.routes |-> MatchKey(l.routes[n])]
<1>1. ~Repeats(keys)
    BY DEF check_conflicts, Report
<1>2. i \in Nat /\ j \in Nat /\ (i < j \/ j < i)
    OBVIOUS
<1>3. keys[i] # keys[j]
    BY <1>1, <1>2 DEF Repeats
<1> QED BY <1>3

(***************************************************************************)
(* For every valid configuration, listener and request the route taken is  *)
(* the most specific one, up to the two exceptions MostSpecific names      *)
(* (Router::match_route with check_conflicts of validator.rs).             *)
(***************************************************************************)
THEOREM MostSpecificIsTaken == Spec => []MostSpecific
<1>1. Course => MostSpecific
    <2> SUFFICES ASSUME Course, stage = "answered", answer.kind # "route_not_found", NEW s \in snapshot,
                        NEW j \in Matching(s.listeners[answer.on].router, request_host(request.host),
                                           request.path) \ {answer.route},
                        Within(s.listeners[answer.on].router[j],
                               s.listeners[answer.on].router[answer.route])
                 PROVE  LET router == s.listeners[answer.on].router
                            chosen == router[answer.route]
                        IN  /\ chosen.host_match = AnyHost /\ router[j].host_match = AnyHost
                            /\ router[j].path_prefix = chosen.path_prefix
        BY DEF MostSpecific
    <2>1. PICK n \in DOMAIN s.listeners : answer = Handled(s, n, request)
        BY AnsweredFacts
    <2>2. PICK c \in config : s = build_snapshot(c) /\ validate(c) = {} /\ Resolved(c)
        BY AnsweredFacts, Serving
    <2>3. PICK k \in Found(s, n, request) : answer.on = n /\ answer.route = k
        BY <2>1, HandledFacts
    <2>4. PICK router : router = s.listeners[n].router
        OBVIOUS
    <2>5. PICK l : l = c.listeners[n]
        OBVIOUS
    <2>6. j # k /\ j \in DOMAIN router /\ k \in DOMAIN router
          /\ j \in Matching(router, request_host(request.host), request.path)
        BY <2>3, <2>4 DEF Found, match_route, Matching
    <2>7. LET a == Specificity(router[k])
              b == Specificity(router[j])
          IN  Above(a, b) \/ a = b
        BY <2>3, <2>4, <2>6 DEF Found, match_route
    <2>8. /\ l.routes \in Seq(RouteConfig) /\ check_conflicts(l) = {}
          /\ DOMAIN router = DOMAIN l.routes
          /\ \A i \in DOMAIN router : /\ l.routes[i] \in RouteConfig
                                      /\ router[i] = Compile(l.routes[i])
                                      /\ check_route(l.routes[i], ToSet(Names(c.upstreams))) = {}
        <3>1. n \in DOMAIN build_snapshot(c).listeners /\ router = build_snapshot(c).listeners[n].router
            BY <2>1, <2>2, <2>4
        <3>2. n \in DOMAIN c.listeners
            BY <2>2, <3>1, RouterFacts
        <3>3. check_conflicts(l) = {}
            BY <2>2, <2>5, <3>2, ListenerPasses
        <3>4. LET routes == c.listeners[n].routes
                  compiled == build_snapshot(c).listeners[n].router
              IN  /\ routes \in Seq(RouteConfig) /\ DOMAIN compiled = DOMAIN routes
                  /\ \A i \in DOMAIN compiled :
                        /\ routes[i] \in RouteConfig
                        /\ compiled[i] = Compile(routes[i])
                        /\ check_route(routes[i], ToSet(Names(c.upstreams))) = {}
            BY <2>2, <3>1, RouterFacts
        <3> QED BY <2>5, <3>1, <3>3, <3>4
    <2> DEFINE r(i) == l.routes[i]
    <2>9. \A i \in {j, k} : /\ r(i) \in RouteConfig /\ r(i).host \in Optional(Seq(DOMAIN LowerCase))
                            /\ router[i].host_match = HostMatch(r(i).host)
                            /\ router[i].path_prefix = EffectivePrefix(r(i).path_prefix)
                            /\ router[i].path_prefix \in Seq(Text)
        <3> SUFFICES ASSUME NEW i \in {j, k}
                     PROVE  /\ r(i) \in RouteConfig /\ r(i).host \in Optional(Seq(DOMAIN LowerCase))
                            /\ router[i].host_match = HostMatch(r(i).host)
                            /\ router[i].path_prefix = EffectivePrefix(r(i).path_prefix)
                            /\ router[i].path_prefix \in Seq(Text)
            OBVIOUS
        <3>1. r(i) \in RouteConfig /\ router[i] = Compile(r(i))
              /\ check_route(r(i), ToSet(Names(c.upstreams))) = {}
            BY <2>6, <2>8
        <3> HIDE DEF r
        <3>2. EffectivePrefix(r(i).path_prefix) \in Seq(Text)
            BY <3>1, CompiledPrefix
        <3> QED BY <3>1, <3>2, CompileFacts
    <2>10. Narrower(HostMatch(r(j).host), HostMatch(r(k).host))
           /\ IsPrefix(router[k].path_prefix, router[j].path_prefix)
        BY <2>3, <2>4, <2>9 DEF Within
    <2>11. Rank(HostMatch(r(j).host)) > Rank(HostMatch(r(k).host))
           \/ HostMatch(r(j).host) = HostMatch(r(k).host)
        BY <2>9, <2>10, NarrowerRanksHigher
    <2>12. Len(router[k].path_prefix) <= Len(router[j].path_prefix)
           /\ (Len(router[k].path_prefix) = Len(router[j].path_prefix)
                  => router[k].path_prefix = router[j].path_prefix)
        BY <2>9, <2>10, PrefixOfSameLength
    <2>13. HostMatch(r(j).host) = HostMatch(r(k).host)
           /\ router[k].path_prefix = router[j].path_prefix
        <3>1. /\ Rank(HostMatch(r(j).host)) \in Nat /\ Rank(HostMatch(r(k).host)) \in Nat
              /\ Len(router[k].path_prefix) \in Nat /\ Len(router[j].path_prefix) \in Nat
            BY <2>9, RankFacts
        <3>2. /\ Specificity(router[k]) = <<Rank(HostMatch(r(k).host)), Len(router[k].path_prefix)>>
              /\ Specificity(router[j]) = <<Rank(HostMatch(r(j).host)), Len(router[j].path_prefix)>>
            BY <2>9 DEF Specificity
        <3>3. \/ Rank(HostMatch(r(k).host)) > Rank(HostMatch(r(j).host))
              \/ /\ Rank(HostMatch(r(k).host)) = Rank(HostMatch(r(j).host))
                 /\ Len(router[k].path_prefix) >= Len(router[j].path_prefix)
            BY <2>7, <3>1, <3>2 DEF Above
        <3> QED BY <2>11, <2>12, <3>1, <3>3
    <2>14. HostMatch(r(k).host) = AnyHost
        <3> SUFFICES ASSUME HostMatch(r(k).host) # AnyHost PROVE FALSE
            OBVIOUS
        <3>1. r(j).host = r(k).host
            BY <2>9, <2>13, SameHost
        <3>2. MatchKey(r(j)) = MatchKey(r(k))
            BY <2>9, <2>13, <3>1 DEF MatchKey
        <3> QED BY <2>6, <2>8, <3>2, NoConflict
    <2> QED BY <2>3, <2>4, <2>9, <2>13, <2>14
<1> QED BY <1>1, CourseHolds, PTL

-----------------------------------------------------------------------------
(* What is served is safe to serve. *)

LEMMA SnapshotFacts ==
    ASSUME NEW c
    PROVE  /\ build_snapshot(c).upstreams = UpstreamMap(c.upstreams)
           /\ build_snapshot(c).timeouts = c.timeouts
           /\ build_snapshot(c).max_header_bytes =
                 IF c.limits.max_header_bytes > 0 THEN Some(c.limits.max_header_bytes) ELSE None
BY DEF build_snapshot

\* As many different elements as positions.
LEMMA CountDistinct ==
    ASSUME NEW seq, NEW n \in Nat, DOMAIN seq = 1..n, ~Repeats(seq)
    PROVE  Cardinality(ToSet(seq)) = n
<1> DEFINE f == [i \in 1..n |-> seq[i]]
<1>1. \A i, j \in 1..n : i # j => seq[i] # seq[j]
    <2>1. \A i, j \in 1..n : i < j => seq[i] # seq[j]
        BY DEF Repeats
    <2>2. \A i, j \in 1..n : i # j => i < j \/ j < i
        OBVIOUS
    <2> QED BY <2>1, <2>2
<1>2. f \in [1..n -> ToSet(seq)] /\ ToSet(seq) = {seq[i] : i \in 1..n}
    BY DEF ToSet
<1>3. f \in Bijection(1..n, ToSet(seq))
    <2>1. \A i, j \in 1..n : f[i] = f[j] => i = j
        BY <1>1
    <2>2. \A x \in ToSet(seq) : \E i \in 1..n : f[i] = x
        BY <1>2
    <2> HIDE DEF f
    <2> QED BY <1>2, <2>1, <2>2 DEF Bijection, Injection, Surjection, IsInjective
<1>4. ExistsBijection(1..n, ToSet(seq))
    BY <1>3 DEF ExistsBijection
<1> QED BY <1>4, FS_CountingElements

LEMMA NamesFacts ==
    ASSUME NEW seq
    PROVE  /\ DOMAIN Names(seq) = DOMAIN seq
           /\ \A i \in DOMAIN seq : Names(seq)[i] = seq[i].name
           /\ \A x : x \in ToSet(Names(seq)) <=> \E i \in DOMAIN seq : x = seq[i].name
BY DEF Names, ToSet

\* The map has the upstream of the configuration under each name.
LEMMA UpstreamMapFacts ==
    ASSUME NEW upstreams, Shaped(upstreams), ~Repeats(Names(upstreams)),
           NEW name \in ToSet(Names(upstreams))
    PROVE  \E i \in DOMAIN upstreams : UpstreamMap(upstreams)[name] = UpstreamRuntime(upstreams[i])
<1>1. PICK i \in DOMAIN upstreams : name = upstreams[i].name
    BY NamesFacts
<1> DEFINE I == {k \in 1..Len(upstreams) : upstreams[k].name = name}
<1>2. \A k \in I : k = i
    <2>1. \A k, j \in DOMAIN upstreams : k < j => upstreams[k].name # upstreams[j].name
        BY NamesFacts DEF Repeats
    <2>2. \A k \in I : k \in DOMAIN upstreams /\ upstreams[k].name = name /\ k \in Nat /\ i \in Nat
        BY <1>1 DEF Shaped
    <2>3. \A k \in I : ~(k < i) /\ ~(i < k)
        BY <1>1, <2>1, <2>2
    <2> QED BY <2>2, <2>3
<1>3. I = {i} /\ i \in Nat
    BY <1>1, <1>2 DEF Shaped
<1>4. Max(I) = i
    BY <1>3 DEF Max
<1>5. SelectLastInSeq(upstreams, LAMBDA u : u.name = name) = i
    BY <1>3, <1>4 DEF SelectLastInSeq
<1>6. UpstreamMap(upstreams)[name] =
          UpstreamRuntime(upstreams[SelectLastInSeq(upstreams, LAMBDA u : u.name = name)])
    BY DEF UpstreamMap
<1> QED BY <1>5, <1>6

LEMMA ScheduleNotEmpty ==
    ASSUME NEW u, u.targets # <<>>, u.targets \in Seq([url : Text, weight : Nat])
    PROVE  UpstreamRuntime(u).schedule # <<>>
<1> DEFINE weights == [i \in DOMAIN u.targets |-> u.targets[i].weight]
<1>1. UpstreamRuntime(u).schedule = UpstreamSchedule(weights)
    BY DEF UpstreamRuntime
<1>2. DOMAIN weights # {}
    <2>1. Len(u.targets) \in Nat /\ Len(u.targets) # 0 /\ DOMAIN u.targets = 1..Len(u.targets)
        BY EmptySeq
    <2>2. 1 \in DOMAIN u.targets
        BY <2>1
    <2> QED BY <2>2
<1> HIDE DEF weights
<1>3. [i \in DOMAIN weights |-> i] # <<>>
    BY <1>2
<1> QED BY <1>1, <1>3 DEF UpstreamSchedule

LEMMA ProbesAreSafe ==
    ASSUME NEW u, u.health_check \subseteq HealthCheckConfig,
           \A hc \in u.health_check : ~(hc.timeout_ms >= hc.interval_seconds * MillisPerSecond),
           NEW h \in UpstreamRuntime(u).health
    PROVE  h.interval > 0 /\ h.timeout < h.interval
<1>1. PICK hc \in u.health_check :
          h = [interval |-> hc.interval_seconds * MillisPerSecond, timeout |-> hc.timeout_ms]
    BY DEF UpstreamRuntime, None
<1>2. hc.interval_seconds \in Nat /\ hc.timeout_ms \in Nat /\ MillisPerSecond \in Nat
    BY StartupAssumption DEF HealthCheckConfig
<1>3. PICK interval \in Nat : interval = hc.interval_seconds * MillisPerSecond
    BY <1>2
<1>4. hc.timeout_ms < interval
    BY <1>2, <1>3
<1>5. h.interval = interval /\ h.timeout = hc.timeout_ms
    BY <1>1, <1>3
<1> QED BY <1>2, <1>3, <1>4, <1>5

(***************************************************************************)
(* Every configuration that passes validation can be served: none of what  *)
(* building and serving takes for granted fails or panics, for any number  *)
(* of listeners, routes, upstreams and targets (validate of validator.rs   *)
(* against build_snapshot_inner of snapshot.rs).                           *)
(***************************************************************************)
THEOREM ValidIsSafe == Spec => []ValidatedIsSafe
<1>1. Course => ValidatedIsSafe
    <2> SUFFICES ASSUME Course, NEW s \in snapshot, NEW c \in config
                 PROVE  /\ \A i \in DOMAIN s.listeners :
                              /\ s.listeners[i].bind \in Addresses
                              /\ s.listeners[i].acceptor <=> c.listeners[i].protocol = "https"
                              /\ \A r \in ToSet(s.listeners[i].router) :
                                    r.upstream \in DOMAIN s.upstreams /\ Head(r.path_prefix) = Slash
                        /\ Cardinality(ToSet(Names(s.listeners))) = Len(s.listeners)
                        /\ Cardinality(DOMAIN s.upstreams) = Len(c.upstreams)
                        /\ \A u \in Runtimes(s) :
                              u.schedule # <<>> /\ \A h \in u.health : h.interval > 0 /\ h.timeout < h.interval
                        /\ s.timeouts.connect > 0 /\ s.timeouts.request > 0
                        /\ \A n \in s.max_header_bytes : n >= MIN_HEADER_BYTES
                        /\ \A a \in c.admin : a.bind \in Addresses
        BY DEF ValidatedIsSafe
    <2>1. s = build_snapshot(c) /\ validate(c) = {} /\ Resolved(c)
        BY Serving
    <2>2. s.upstreams = UpstreamMap(c.upstreams) /\ DOMAIN s.upstreams = ToSet(Names(c.upstreams))
        <3>1. s.upstreams = UpstreamMap(c.upstreams)
            BY <2>1, SnapshotFacts
        <3> QED BY <3>1 DEF UpstreamMap
    <2>3. ~Repeats(Names(c.upstreams)) /\ ~Repeats(Names(c.listeners))
        <3>1. ~Repeats(Names(c.upstreams))
            BY <2>1, ChecksPass DEF check_unique_upstreams, Report
        <3>2. Report("DuplicateListenerName", Repeats(Names(c.listeners))) = {}
            BY <2>1, ChecksPass DEF check_listeners
        <3> QED BY <3>1, <3>2 DEF Report
    <2>4. ASSUME NEW i \in DOMAIN s.listeners
          PROVE  /\ s.listeners[i].bind \in Addresses
                 /\ s.listeners[i].acceptor <=> c.listeners[i].protocol = "https"
                 /\ \A r \in ToSet(s.listeners[i].router) :
                       r.upstream \in DOMAIN s.upstreams /\ Head(r.path_prefix) = Slash
        <3>1. PICK l : l = c.listeners[i]
            OBVIOUS
        <3>2. i \in DOMAIN c.listeners /\ s.listeners[i] = ListenerRuntime(l)
            BY <2>1, <3>1, SnapshotListeners
        <3>3. l \in ListenerConfig
            BY <2>1, <3>1, <3>2 DEF Resolved
        <3>4. l.bind \in Addresses
            BY <2>1, <3>1, <3>2, ListenerPasses DEF Report
        <3>5. l.tls # None <=> l.protocol = "https"
            <4>1. check_listener_tls(l) = {}
                BY <2>1, <3>1, <3>2, ListenerPasses
            <4>2. l.protocol \in {"http", "https"}
                BY <3>3 DEF ListenerConfig
            <4> QED BY <4>1, <4>2, TlsPasses
        <3>6. ASSUME NEW r \in ToSet(s.listeners[i].router)
              PROVE  r.upstream \in DOMAIN s.upstreams /\ Head(r.path_prefix) = Slash
            <4>1. PICK rc \in RouteConfig : r = Compile(rc) /\ check_route(rc, ToSet(Names(c.upstreams))) = {}
                <5>1. PICK k \in DOMAIN s.listeners[i].router : r = s.listeners[i].router[k]
                    BY DEF ToSet
                <5>2. LET routes == c.listeners[i].routes
                          router == build_snapshot(c).listeners[i].router
                      IN  \A m \in DOMAIN router :
                              /\ routes[m] \in RouteConfig
                              /\ router[m] = Compile(routes[m])
                              /\ check_route(routes[m], ToSet(Names(c.upstreams))) = {}
                    BY <2>1, RouterFacts
                <5> QED BY <2>1, <5>1, <5>2
            <4>2. r.upstream = rc.upstream /\ r.path_prefix = EffectivePrefix(rc.path_prefix)
                BY <4>1, CompileFacts
            <4>3. rc.upstream \in ToSet(Names(c.upstreams))
                BY <4>1, RoutePasses
            <4>4. Head(EffectivePrefix(rc.path_prefix)) = Slash
                BY <4>1, CompiledPrefix
            <4> QED BY <2>2, <4>2, <4>3, <4>4
        <3> QED BY <3>1, <3>2, <3>4, <3>5, <3>6, RuntimeFacts
    <2>5. Cardinality(ToSet(Names(s.listeners))) = Len(s.listeners)
        <3>1. PICK n \in Nat : n = Len(c.listeners) /\ DOMAIN c.listeners = 1..n
            BY <2>1 DEF Resolved
        <3>2. s.listeners = [i \in 1..n |-> ListenerRuntime(c.listeners[i])]
            BY <2>1, <3>1 DEF build_snapshot
        <3>3. Len(s.listeners) = n /\ DOMAIN s.listeners = 1..n
            BY <3>2
        <3>4. \A i \in 1..n : s.listeners[i].name = c.listeners[i].name
            BY <3>2, RuntimeFacts
        <3>5. Names(s.listeners) = Names(c.listeners)
            BY <3>1, <3>3, <3>4 DEF Names
        <3>6. DOMAIN Names(c.listeners) = 1..n
            BY <3>1, NamesFacts
        <3> QED BY <2>3, <3>3, <3>5, <3>6, CountDistinct
    <2>6. Cardinality(DOMAIN s.upstreams) = Len(c.upstreams)
        <3>1. Len(c.upstreams) \in Nat /\ DOMAIN Names(c.upstreams) = 1..Len(c.upstreams)
            BY <2>1, NamesFacts DEF Resolved, Shaped
        <3> QED BY <2>2, <2>3, <3>1, CountDistinct
    <2>7. ASSUME NEW u \in Runtimes(s)
          PROVE  u.schedule # <<>> /\ \A h \in u.health : h.interval > 0 /\ h.timeout < h.interval
        <3>1. PICK name \in ToSet(Names(c.upstreams)) : u = UpstreamMap(c.upstreams)[name]
            BY <2>2 DEF Runtimes
        <3>2. PICK i \in DOMAIN c.upstreams : u = UpstreamRuntime(c.upstreams[i])
            BY <2>1, <2>3, <3>1, UpstreamMapFacts DEF Resolved
        <3>3. PICK uc : uc = c.upstreams[i]
            OBVIOUS
        <3>4. /\ uc.health_check \subseteq HealthCheckConfig
              /\ uc.targets \in Seq([url : Text, weight : Nat])
            BY <2>1, <3>3 DEF Resolved, Shaped
        <3>5. /\ uc.targets # <<>>
              /\ \A hc \in uc.health_check : ~(hc.timeout_ms >= hc.interval_seconds * MillisPerSecond)
            BY <2>1, <3>3, UpstreamPasses
        <3>6. UpstreamRuntime(uc).schedule # <<>>
            BY <3>4, <3>5, ScheduleNotEmpty
        <3>7. \A h \in UpstreamRuntime(uc).health : h.interval > 0 /\ h.timeout < h.interval
            BY <3>4, <3>5, ProbesAreSafe
        <3> QED BY <3>2, <3>3, <3>6, <3>7
    <2>8. s.timeouts.connect > 0 /\ s.timeouts.request > 0
        <3>1. s.timeouts = c.timeouts
            BY <2>1, SnapshotFacts
        <3>2. 0 \notin {c.timeouts.connect, c.timeouts.request}
            BY <2>1, ChecksPass DEF check_timeouts, Report
        <3> QED BY <2>1, <3>1, <3>2 DEF Resolved
    <2>9. ASSUME NEW n \in s.max_header_bytes PROVE n >= MIN_HEADER_BYTES
        <3>1. n = c.limits.max_header_bytes /\ n > 0
            BY <2>1, <2>9, SnapshotFacts DEF Some, None
        <3>2. c.limits.max_header_bytes \notin 1..MIN_HEADER_BYTES - 1
            BY <2>1, ChecksPass DEF check_limits, Report
        <3>3. n \in Nat /\ MIN_HEADER_BYTES \in Nat
            BY <2>1, <3>1, StartupAssumption DEF Resolved
        <3> QED BY <3>1, <3>2, <3>3
    <2>10. ASSUME NEW a \in c.admin PROVE a.bind \in Addresses
        <3>1. Report("InvalidAdminBind", \E b \in c.admin : b.bind \notin Addresses) = {}
            BY <2>1, ChecksPass DEF check_admin
        <3>2. ~\E b \in c.admin : b.bind \notin Addresses
            BY <3>1 DEF Report
        <3> QED BY <3>2
    <2> QED BY <2>4, <2>5, <2>6, <2>7, <2>8, <2>9, <2>10
<1> QED BY <1>1, CourseHolds, PTL

-----------------------------------------------------------------------------
(* Reduced weights. *)

\* gcd satisfies the equation it is defined by: the loop of Euclid ends.
LEMMA GcdEquation ==
    \A p \in Nat \X Nat : gcd[p] = IF p[2] = 0 THEN p[1] ELSE gcd[<<p[2], p[1] % p[2]>>]
<1> DEFINE Body(f) == [p \in Nat \X Nat |-> IF p[2] = 0 THEN p[1] ELSE f[<<p[2], p[1] % p[2]>>]]
           Divisors(p) == {d \in Nat : IsGcd(d, p[1], p[2])}
           g == [p \in Nat \X Nat |-> CHOOSE d \in Divisors(p) : TRUE]
<1>1. ASSUME NEW p \in Nat \X Nat
      PROVE  g[p] = IF p[2] = 0 THEN p[1] ELSE g[<<p[2], p[1] % p[2]>>]
    <2>1. p[1] \in Nat /\ p[2] \in Nat
        OBVIOUS
    <2>2. CASE p[2] = 0
        <3>1. \A d : IsGcd(d, p[1], p[2]) <=> d = p[1]
            BY <2>1, <2>2, GcdWithZero
        <3>2. Divisors(p) = {p[1]}
            BY <2>1, <3>1
        <3>3. (CHOOSE d \in Divisors(p) : TRUE) = p[1]
            <4> HIDE DEF Divisors
            <4> QED BY <3>2
        <3> QED BY <2>2, <3>3
    <2>3. CASE p[2] # 0
        <3>1. PICK q \in Nat \X Nat : q = <<p[2], p[1] % p[2]>> /\ q[1] = p[2] /\ q[2] = p[1] % p[2]
            <4>1. PICK r \in Nat : r = p[1] % p[2]
                BY <2>1, <2>3, DivMod
            <4>2. <<p[2], r>> \in Nat \X Nat /\ <<p[2], r>>[1] = p[2] /\ <<p[2], r>>[2] = r
                BY <2>1
            <4> QED BY <4>1, <4>2
        <3>2. \A d : IsGcd(d, p[1], p[2]) <=> IsGcd(d, p[2], p[1] % p[2])
            BY <2>1, <2>3, GcdStep
        <3>3. Divisors(p) = Divisors(q)
            BY <3>1, <3>2
        <3>4. g[p] = g[q]
            <4> HIDE DEF Divisors
            <4> QED BY <3>3
        <3> HIDE DEF g
        <3> QED BY <2>3, <3>1, <3>4
    <2> QED BY <2>2, <2>3
<1>2. g = Body(g)
    <2>1. g = [p \in Nat \X Nat |-> g[p]]
        OBVIOUS
    <2> HIDE DEF g
    <2> QED BY <1>1, <2>1
<1>3. gcd = CHOOSE f : f = Body(f)
    BY DEF gcd
<1>4. gcd = Body(gcd)
    <2> HIDE DEF Body, g
    <2> QED BY <1>2, <1>3
<1>5. ASSUME NEW p \in Nat \X Nat PROVE gcd[p] = Body(gcd)[p]
    <2> HIDE DEF Body
    <2> QED BY <1>4
<1> QED BY <1>5

\* gcd computes the greatest common divisor.
LEMMA GcdIsGcd ==
    ASSUME NEW a \in Nat, NEW b \in Nat
    PROVE  IsGcd(gcd[<<a, b>>], a, b)
<1> DEFINE P == {n \in Nat : \A x \in Nat : IsGcd(gcd[<<x, n>>], x, n)}
<1>1. ASSUME NEW n \in Nat, \A k \in Nat : k < n => k \in P PROVE n \in P
    <2> SUFFICES ASSUME NEW x \in Nat PROVE IsGcd(gcd[<<x, n>>], x, n)
        OBVIOUS
    <2>1. gcd[<<x, n>>] = IF n = 0 THEN x ELSE gcd[<<n, x % n>>]
        <3>1. <<x, n>> \in Nat \X Nat /\ <<x, n>>[1] = x /\ <<x, n>>[2] = n
            OBVIOUS
        <3> QED BY <3>1, GcdEquation
    <2>2. CASE n = 0
        BY <2>1, <2>2, GcdWithZero
    <2>3. CASE n # 0
        <3>1. x % n \in Nat /\ x % n < n
            BY <2>3, DivMod
        <3>2. IsGcd(gcd[<<n, x % n>>], n, x % n)
            BY <1>1, <3>1
        <3>3. IsGcd(gcd[<<n, x % n>>], x, n)
            BY <2>3, <3>2, GcdStep
        <3> QED BY <2>1, <2>3, <3>3
    <2> QED BY <2>2, <2>3
<1>2. Nat \subseteq P
    <2> HIDE DEF P
    <2> QED BY <1>1, StrongInduction
<1> QED BY <1>2
-----------------------------------------------------------------------------
\* The course of the fold in build_schedule, with the gcd so far.
Fold(weights) ==
    CHOOSE f : f = [i \in 0..Len(weights) |->
        IF i = 0 THEN 0
        ELSE IF weights[i] > 0 THEN gcd[<<f[i - 1], weights[i]>>] ELSE f[i - 1]]

\* The fold takes one weight per turn.
LEMMA FoldFacts ==
    ASSUME NEW weights \in Seq(Nat)
    PROVE  /\ Fold(weights)[0] = 0
           /\ \A i \in 1..Len(weights) :
                 Fold(weights)[i] = IF weights[i] > 0 THEN gcd[<<Fold(weights)[i - 1], weights[i]>>]
                                    ELSE Fold(weights)[i - 1]
<1> DEFINE N == Len(weights)
           Body(f) == [i \in 0..N |->
               IF i = 0 THEN 0
               ELSE IF weights[i] > 0 THEN gcd[<<f[i - 1], weights[i]>>] ELSE f[i - 1]]
           Turn(i, x) == IF weights[i] > 0 THEN gcd[<<x, weights[i]>>] ELSE x
           step == [t \in (1..N) \X Nat |-> Turn(t[1], t[2])]
<1>1. N \in Nat /\ \A i \in 1..N : weights[i] \in Nat /\ i \in 0..N /\ i # 0
    OBVIOUS
<1>2. \A i \in 1..N, x \in Nat : Turn(i, x) \in Nat
    <2>1. \A x, y \in Nat : gcd[<<x, y>>] \in Nat
        BY GcdIsGcd DEF IsGcd
    <2> QED BY <1>1, <2>1
<1> HIDE DEF Turn
<1>3. step \in [(1..N) \X Nat -> Nat] /\ \A i \in 1..N, x \in Nat : step[<<i, x>>] = Turn(i, x)
    BY <1>2
<1> HIDE DEF step
<1>4. PICK f \in [0..N -> Nat] :
          f[0] = 0 /\ \A i \in 1..N : f[i - 1] \in Nat /\ f[i] = step[<<i, f[i - 1]>>]
    <2>1. N \in Nat /\ 0 \in Nat
        BY <1>1
    <2> HIDE DEF N
    <2>2. HasCourse(N, Nat, 0, step)
        BY <1>3, <2>1, LoopHasCourse
    <2> QED BY <2>2 DEF HasCourse
<1>6. \A i \in 1..N : f[i] = Turn(i, f[i - 1])
    BY <1>3, <1>4
<1>7. f = Body(f)
    <2>1. f = [i \in 0..N |-> f[i]]
        OBVIOUS
    <2>2. \A i \in 0..N : i = 0 \/ i \in 1..N
        BY <1>1
    <2> HIDE DEF N
    <2> QED BY <1>4, <1>6, <2>1, <2>2 DEF Turn
<1>8. Fold(weights) = Body(Fold(weights))
    <2>1. Fold(weights) = CHOOSE h : h = Body(h)
        BY DEF Fold
    <2> HIDE DEF Body
    <2> QED BY <1>7, <2>1
<1>9. PICK h : h = Fold(weights)
    OBVIOUS
<1>10. h = Body(h)
    <2> HIDE DEF Body
    <2> QED BY <1>8, <1>9
<1>11. h[0] = 0 /\ \A i \in 1..N : h[i] = IF weights[i] > 0 THEN gcd[<<h[i - 1], weights[i]>>] ELSE h[i - 1]
    <2>1. 0 \in 0..N
        BY <1>1
    <2> HIDE DEF N
    <2> QED BY <1>1, <1>10, <2>1
<1> QED BY <1>9, <1>11

\* The greatest common divisor of all weights.
LEMMA DivisorFacts ==
    ASSUME NEW weights \in Seq(Nat \ {0}), weights # <<>>
    PROVE  /\ Divisor(weights) \in Nat \ {0}
           /\ \A i \in 1..Len(weights) : Divides(Divisor(weights), weights[i])
           /\ \A d \in Nat : (\A i \in 1..Len(weights) : Divides(d, weights[i]))
                                => Divides(d, Divisor(weights))
<1>1. PICK N \in Nat \ {0} : N = Len(weights)
    BY EmptySeq
<1>2. \A i \in 1..N : weights[i] \in Nat \ {0}
    BY <1>1
<1>3. PICK h : /\ h = Fold(weights) /\ h[0] = 0
               /\ \A i \in 1..N : h[i] = gcd[<<h[i - 1], weights[i]>>]
    <2>1. weights \in Seq(Nat)
        OBVIOUS
    <2>2. \A i \in 1..N : weights[i] > 0
        BY <1>2
    <2> QED BY <1>1, <2>1, <2>2, FoldFacts
<1> DEFINE Good(k) ==
        /\ h[k] \in Nat /\ \A i \in 1..k : Divides(h[k], weights[i])
        /\ \A d \in Nat : (\A i \in 1..k : Divides(d, weights[i])) => Divides(d, h[k])
           P == {k \in 0..N : Good(k)}
<1>4. 0 \in P
    <2>1. Good(0)
        BY <1>3, DividesZero
    <2> QED BY <2>1
<1>5. ASSUME NEW k \in 1..N, k - 1 \in P PROVE k \in P
    <2>1. PICK g \in Nat : g = h[k - 1]
        BY <1>5
    <2>2. PICK w \in Nat : w = weights[k]
        BY <1>2
    <2>3. IsGcd(h[k], g, w)
        BY <1>3, <2>1, <2>2, GcdIsGcd
    <2>4. h[k] \in Nat /\ Divides(h[k], g) /\ Divides(h[k], w)
        BY <2>3 DEF IsGcd
    <2>5. ASSUME NEW i \in 1..k PROVE Divides(h[k], weights[i])
        <3>1. CASE i = k
            BY <2>2, <2>4, <3>1
        <3>2. CASE i # k
            <4>1. i \in 1..(k - 1) /\ i \in 1..N
                BY <3>2
            <4>2. Divides(g, weights[i]) /\ weights[i] \in Nat
                BY <1>2, <1>5, <2>1, <4>1
            <4> QED BY <2>4, <4>2, DividesThrough
        <3> QED BY <3>1, <3>2
    <2>6. ASSUME NEW d \in Nat, \A i \in 1..k : Divides(d, weights[i]) PROVE Divides(d, h[k])
        <3>1. k \in 1..k /\ \A i \in 1..(k - 1) : i \in 1..k
            OBVIOUS
        <3>2. Divides(d, g)
            BY <1>5, <2>1, <2>6, <3>1
        <3>3. Divides(d, w)
            BY <2>2, <2>6, <3>1
        <3> QED BY <2>3, <3>2, <3>3 DEF IsGcd
    <2>7. Good(k)
        BY <2>4, <2>5, <2>6
    <2> QED BY <2>7
<1>6. N \in P
    <2>1. 0..N \subseteq P
        <3> HIDE DEF P
        <3> QED BY <1>1, <1>4, <1>5, TurnByTurn
    <2> QED BY <2>1
<1>7. h[N] # 0
    <2>1. Divides(h[N], weights[1]) /\ weights[1] \in Nat \ {0}
        BY <1>2, <1>6
    <2>2. PICK q \in Nat : weights[1] = h[N] * q
        BY <2>1 DEF Divides
    <2> QED BY <2>1, <2>2
<1>8. Divisor(weights) = h[N]
    <2>1. Divisor(weights) = IF Fold(weights)[Len(weights)] = 0 THEN 1 ELSE Fold(weights)[Len(weights)]
        BY DEF Divisor, Fold
    <2> QED BY <1>1, <1>3, <1>7, <2>1
<1> QED BY <1>1, <1>6, <1>7, <1>8

-----------------------------------------------------------------------------
(* Sums. *)

\* The course of a sum.
SumTo(ns) ==
    CHOOSE s : s = [i \in 0..Len(ns) |-> IF i = 0 THEN 0 ELSE s[i - 1] + ns[i]]

\* A sum grows by one number per turn.
LEMMA SumFacts ==
    ASSUME NEW ns \in Seq(Nat)
    PROVE  /\ SumTo(ns)[0] = 0 /\ SumOf(ns) = SumTo(ns)[Len(ns)] /\ SumOf(ns) \in Nat
           /\ \A i \in 1..Len(ns) : /\ SumTo(ns)[i - 1] \in Nat /\ SumTo(ns)[i] \in Nat
                                    /\ SumTo(ns)[i] = SumTo(ns)[i - 1] + ns[i]
<1> DEFINE N == Len(ns)
           Body(f) == [i \in 0..N |-> IF i = 0 THEN 0 ELSE f[i - 1] + ns[i]]
           step == [t \in (1..N) \X Nat |-> t[2] + ns[t[1]]]
<1>1. N \in Nat /\ \A i \in 1..N : ns[i] \in Nat /\ i \in 0..N /\ i # 0
    OBVIOUS
<1>2. step \in [(1..N) \X Nat -> Nat] /\ \A i \in 1..N, x \in Nat : step[<<i, x>>] = x + ns[i]
    <2>1. \A i \in 1..N, x \in Nat : x + ns[i] \in Nat
        BY <1>1
    <2> QED BY <2>1
<1> HIDE DEF step
<1>3. PICK f \in [0..N -> Nat] :
          f[0] = 0 /\ \A i \in 1..N : f[i - 1] \in Nat /\ f[i] = step[<<i, f[i - 1]>>]
    <2>1. N \in Nat /\ 0 \in Nat
        BY <1>1
    <2> HIDE DEF N
    <2>2. HasCourse(N, Nat, 0, step)
        BY <1>2, <2>1, LoopHasCourse
    <2> QED BY <2>2 DEF HasCourse
<1>4. f = Body(f)
    <2>1. f = [i \in 0..N |-> f[i]]
        OBVIOUS
    <2>2. \A i \in 0..N : i = 0 \/ i \in 1..N
        BY <1>1
    <2>3. \A i \in 1..N : f[i] = f[i - 1] + ns[i]
        BY <1>2, <1>3
    <2> HIDE DEF N
    <2> QED BY <1>3, <2>1, <2>2, <2>3
<1>5. SumTo(ns) = CHOOSE h : h = Body(h)
    BY DEF SumTo
<1>6. PICK h : h = SumTo(ns) /\ h = Body(h)
    <2> HIDE DEF Body
    <2> QED BY <1>4, <1>5
<1>7. h[0] = 0 /\ \A i \in 1..N : h[i] = h[i - 1] + ns[i]
    <2>1. 0 \in 0..N
        BY <1>1
    <2> HIDE DEF N
    <2> QED BY <1>1, <1>6, <2>1
<1>8. 0..N \subseteq {i \in 0..N : h[i] \in Nat}
    <2> DEFINE P == {i \in 0..N : h[i] \in Nat}
    <2>1. 0 \in P
        BY <1>1, <1>7
    <2>2. ASSUME NEW i \in 1..N, i - 1 \in P PROVE i \in P
        <3>1. PICK a \in Nat : a = h[i - 1]
            BY <2>2
        <3>2. PICK b \in Nat : b = ns[i]
            BY <1>1
        <3>3. h[i] = a + b
            BY <1>7, <3>1, <3>2
        <3>4. h[i] \in Nat /\ i \in 0..N
            BY <1>1, <3>3
        <3> QED BY <3>4
    <2>3. N \in Nat
        BY <1>1
    <2> HIDE DEF P, N
    <2>4. 0..N \subseteq P
        BY <2>1, <2>2, <2>3, TurnByTurn
    <2> QED BY <2>4 DEF P
<1>9. \A i \in 1..N : h[i - 1] \in Nat /\ h[i] \in Nat
    <2>1. \A i \in 1..N : i \in 0..N /\ i - 1 \in 0..N
        BY <1>1
    <2> QED BY <1>8, <2>1
<1>10. SumOf(ns) = h[N] /\ h[N] \in Nat
    <2>1. SumOf(ns) = SumTo(ns)[N]
        BY DEF SumOf, SumTo
    <2>2. N \in 0..N
        BY <1>1
    <2> QED BY <1>6, <1>8, <2>1, <2>2
<1> QED BY <1>6, <1>7, <1>9, <1>10

\* Smaller numbers have a smaller sum, strictly when one of them is strictly smaller.
LEMMA SumBelow ==
    ASSUME NEW f \in Seq(Nat), NEW g \in Seq(Nat), Len(f) = Len(g),
           \A i \in 1..Len(f) : f[i] <= g[i], NEW x \in 0..Len(f), x # 0 => f[x] < g[x]
    PROVE  SumOf(f) <= SumOf(g) /\ (x # 0 => SumOf(f) < SumOf(g))
<1>1. PICK N \in Nat : N = Len(f) /\ N = Len(g)
    OBVIOUS
<1>2. PICK F : F = SumTo(f)
    OBVIOUS
<1>3. PICK G : G = SumTo(g)
    OBVIOUS
<1>4. /\ F[0] = 0 /\ SumOf(f) = F[N]
      /\ \A i \in 1..N : F[i - 1] \in Nat /\ F[i] \in Nat /\ F[i] = F[i - 1] + f[i]
    BY <1>1, <1>2, SumFacts
<1>5. /\ G[0] = 0 /\ SumOf(g) = G[N]
      /\ \A i \in 1..N : G[i - 1] \in Nat /\ G[i] \in Nat /\ G[i] = G[i - 1] + g[i]
    BY <1>1, <1>3, SumFacts
<1> DEFINE P == {i \in 0..N : F[i] <= G[i] /\ (x # 0 /\ x <= i => F[i] < G[i])}
<1>6. 0 \in P
    BY <1>1, <1>4, <1>5
<1>7. ASSUME NEW i \in 1..N, i - 1 \in P PROVE i \in P
    <2>1. PICK a \in Nat : a = f[i]
        BY <1>1
    <2>2. PICK b \in Nat : b = g[i]
        BY <1>1
    <2>3. a <= b /\ (x = i => a < b)
        BY <1>1, <2>1, <2>2
    <2>4. F[i - 1] <= G[i - 1] /\ (x # 0 /\ x <= i - 1 => F[i - 1] < G[i - 1])
        BY <1>7
    <2>5. PICK c \in Nat : c = F[i - 1] /\ F[i] = c + a
        BY <1>4, <2>1
    <2>6. PICK d \in Nat : d = G[i - 1] /\ G[i] = d + b
        BY <1>5, <2>2
    <2>7. x \in Nat /\ (x <= i => x = i \/ x <= i - 1)
        BY <1>1
    <2>8. c + a <= d + b
        BY <2>3, <2>4, <2>5, <2>6
    <2>9. ASSUME x # 0, x <= i PROVE c + a < d + b
        <3>1. c <= d /\ a <= b
            BY <2>3, <2>4, <2>5, <2>6
        <3>2. CASE x = i
            <4>1. a < b
                BY <2>3, <3>2
            <4> QED BY <3>1, <4>1
        <3>3. CASE x <= i - 1
            <4>1. c < d
                BY <2>4, <2>5, <2>6, <2>9, <3>3
            <4> QED BY <3>1, <4>1
        <3> QED BY <2>7, <2>9, <3>2, <3>3
    <2>10. F[i] <= G[i] /\ (x # 0 /\ x <= i => F[i] < G[i]) /\ i \in 0..N
        BY <2>5, <2>6, <2>8, <2>9
    <2> QED BY <2>10
<1>8. N \in P
    <2>1. 0..N \subseteq P
        <3> HIDE DEF P
        <3> QED BY <1>6, <1>7, TurnByTurn
    <2> QED BY <2>1
<1>9. x <= N
    BY <1>1
<1> QED BY <1>4, <1>5, <1>8, <1>9

\* One more in one place is one more in the sum.
LEMMA SumOneMore ==
    ASSUME NEW f \in Seq(Nat), NEW g \in Seq(Nat), Len(f) = Len(g), NEW x \in 1..Len(f),
           \A i \in 1..Len(f) : g[i] = f[i] + (IF i = x THEN 1 ELSE 0)
    PROVE  SumOf(g) = SumOf(f) + 1
<1>1. PICK N \in Nat : N = Len(f) /\ N = Len(g)
    OBVIOUS
<1>2. PICK F : F = SumTo(f)
    OBVIOUS
<1>3. PICK G : G = SumTo(g)
    OBVIOUS
<1>4. /\ F[0] = 0 /\ SumOf(f) = F[N]
      /\ \A i \in 1..N : F[i - 1] \in Nat /\ F[i] \in Nat /\ F[i] = F[i - 1] + f[i]
    BY <1>1, <1>2, SumFacts
<1>5. /\ G[0] = 0 /\ SumOf(g) = G[N]
      /\ \A i \in 1..N : G[i - 1] \in Nat /\ G[i] \in Nat /\ G[i] = G[i - 1] + g[i]
    BY <1>1, <1>3, SumFacts
<1> DEFINE P == {i \in 0..N : G[i] = F[i] + (IF x <= i THEN 1 ELSE 0)}
<1>6. 0 \in P
    BY <1>1, <1>4, <1>5
<1>7. ASSUME NEW i \in 1..N, i - 1 \in P PROVE i \in P
    <2>1. PICK a \in Nat : a = f[i]
        BY <1>1
    <2>2. g[i] = a + (IF i = x THEN 1 ELSE 0)
        BY <1>1, <2>1
    <2>3. G[i - 1] = F[i - 1] + (IF x <= i - 1 THEN 1 ELSE 0)
        BY <1>7
    <2>4. PICK c \in Nat : c = F[i - 1] /\ F[i] = c + a
        BY <1>4, <2>1
    <2>5. PICK d \in Nat : d = G[i - 1] /\ G[i] = d + g[i]
        BY <1>5
    <2>6. x \in Nat /\ (x <= i <=> x = i \/ x <= i - 1) /\ ~(x = i /\ x <= i - 1)
        BY <1>1
    <2>7. d + (a + (IF i = x THEN 1 ELSE 0)) = c + a + (IF x <= i THEN 1 ELSE 0)
        <3>1. d = c + (IF x <= i - 1 THEN 1 ELSE 0)
            BY <2>3, <2>4, <2>5
        <3>2. CASE x = i
            BY <2>6, <3>1, <3>2
        <3>3. CASE x # i
            BY <2>6, <3>1, <3>3
        <3> QED BY <3>2, <3>3
    <2>8. G[i] = F[i] + (IF x <= i THEN 1 ELSE 0) /\ i \in 0..N
        BY <2>2, <2>4, <2>5, <2>7
    <2> QED BY <2>8
<1>8. N \in P
    <2>1. 0..N \subseteq P
        <3> HIDE DEF P
        <3> QED BY <1>6, <1>7, TurnByTurn
    <2> QED BY <2>1
<1>9. x <= N
    BY <1>1
<1> QED BY <1>4, <1>5, <1>8, <1>9

\* Nothing sums to nothing.
LEMMA SumOfZeros ==
    ASSUME NEW f \in Seq(Nat), \A i \in 1..Len(f) : f[i] = 0
    PROVE  SumOf(f) = 0
<1>1. PICK N \in Nat : N = Len(f)
    OBVIOUS
<1>2. PICK F : F = SumTo(f)
    OBVIOUS
<1>3. /\ F[0] = 0 /\ SumOf(f) = F[N]
      /\ \A i \in 1..N : F[i - 1] \in Nat /\ F[i] \in Nat /\ F[i] = F[i - 1] + f[i]
    BY <1>1, <1>2, SumFacts
<1> DEFINE P == {i \in 0..N : F[i] = 0}
<1>4. 0 \in P
    BY <1>3
<1>5. ASSUME NEW i \in 1..N, i - 1 \in P PROVE i \in P
    <2>1. F[i - 1] = 0 /\ f[i] = 0
        BY <1>1, <1>5
    <2>2. F[i] = 0 + 0 /\ i \in 0..N
        BY <1>3, <2>1
    <2> QED BY <2>2
<1>6. 0..N \subseteq P
    <2> HIDE DEF P
    <2> QED BY <1>4, <1>5, TurnByTurn
<1> QED BY <1>3, <1>6

-----------------------------------------------------------------------------
(* Slots. *)

\* Where target t is among the first n slots.
SlotSet(s, n, t) == {k \in 1..n : s[k] = t}

\* It can be counted.
LEMMA SlotSetFinite ==
    ASSUME NEW s, NEW n \in Nat, NEW t
    PROVE  IsFiniteSet(SlotSet(s, n, t)) /\ Cardinality(SlotSet(s, n, t)) \in Nat
<1>1. IsFiniteSet(1..n)
    BY FS_Interval
<1> QED BY <1>1, FS_Subset, FS_CardinalityType DEF SlotSet

\* A target without slots is nowhere in the schedule.
LEMMA SlotsFacts ==
    ASSUME NEW T, NEW s \in Seq(T), NEW t
    PROVE  /\ SlotsOf(s, t) \in Nat /\ SlotsOf(s, t) = Cardinality(SlotSet(s, Len(s), t))
           /\ SlotsOf(s, t) = 0 <=> \A k \in 1..Len(s) : s[k] # t
<1>1. Len(s) \in Nat /\ DOMAIN s = 1..Len(s)
    OBVIOUS
<1>2. SlotsOf(s, t) = Cardinality(SlotSet(s, Len(s), t))
    BY <1>1 DEF SlotsOf, SlotSet
<1>3. SlotsOf(s, t) = 0 <=> SlotSet(s, Len(s), t) = {}
    BY <1>1, <1>2, SlotSetFinite, FS_EmptySet
<1>4. SlotSet(s, Len(s), t) = {} <=> \A k \in 1..Len(s) : s[k] # t
    BY DEF SlotSet
<1> QED BY <1>1, <1>2, <1>3, <1>4, SlotSetFinite

\* A pushed slot is one more for its target and none for the others.
LEMMA SlotsAppend ==
    ASSUME NEW T, NEW s \in Seq(T), NEW x \in T, NEW t
    PROVE  SlotsOf(Append(s, x), t) = SlotsOf(s, t) + (IF x = t THEN 1 ELSE 0)
<1>1. PICK n \in Nat : n = Len(s)
    OBVIOUS
<1>2. PICK r \in Seq(T) : /\ r = Append(s, x) /\ Len(r) = n + 1 /\ r[n + 1] = x
                          /\ \A k \in 1..n : r[k] = s[k]
    <2>1. /\ Append(s, x) \in Seq(T) /\ Len(Append(s, x)) = n + 1 /\ Append(s, x)[n + 1] = x
          /\ \A k \in 1..n : Append(s, x)[k] = s[k]
        BY <1>1, AppendProperties
    <2> QED BY <2>1
<1>3. SlotSet(r, n + 1, t) = IF x = t THEN SlotSet(s, n, t) \union {n + 1} ELSE SlotSet(s, n, t)
    <2>1. \A k \in 1..(n + 1) : k \in 1..n \/ k = n + 1
        OBVIOUS
    <2>2. \A k \in 1..n : k \in 1..(n + 1)
        OBVIOUS
    <2>3. n + 1 \in 1..(n + 1)
        OBVIOUS
    <2> QED BY <1>2, <2>1, <2>2, <2>3 DEF SlotSet
<1>4. n + 1 \notin SlotSet(s, n, t)
    BY DEF SlotSet
<1>5. Cardinality(SlotSet(s, n, t) \union {n + 1}) = Cardinality(SlotSet(s, n, t)) + 1
    BY <1>4, SlotSetFinite, FS_AddElement
<1>6. SlotsOf(r, t) = Cardinality(SlotSet(r, n + 1, t)) /\ SlotsOf(s, t) = Cardinality(SlotSet(s, n, t))
    BY <1>1, <1>2, SlotsFacts
<1>7. Cardinality(SlotSet(s, n, t)) \in Nat
    BY SlotSetFinite
<1> QED BY <1>2, <1>3, <1>5, <1>6, <1>7

\* a is where b starts.
Starts(a, b) == Len(a) <= Len(b) /\ \A k \in 1..Len(a) : a[k] = b[k]

\* Starting is transitive.
LEMMA StartsThrough ==
    ASSUME NEW T, NEW a \in Seq(T), NEW b \in Seq(T), NEW c \in Seq(T), Starts(a, b), Starts(b, c)
    PROVE  Starts(a, c)
<1>1. Len(a) \in Nat /\ Len(b) \in Nat /\ Len(c) \in Nat
    OBVIOUS
<1> QED BY <1>1 DEF Starts

\* A start has no more slots of a target than the whole.
LEMMA SlotsOfStart ==
    ASSUME NEW T, NEW a \in Seq(T), NEW b \in Seq(T), Starts(a, b), NEW t
    PROVE  SlotsOf(a, t) <= SlotsOf(b, t)
<1>1. Len(a) \in Nat /\ Len(b) \in Nat /\ Len(a) <= Len(b)
    BY DEF Starts
<1>2. SlotSet(a, Len(a), t) \subseteq SlotSet(b, Len(b), t)
    BY <1>1 DEF Starts, SlotSet
<1>3. Cardinality(SlotSet(a, Len(a), t)) <= Cardinality(SlotSet(b, Len(b), t))
    BY <1>1, <1>2, SlotSetFinite, FS_Subset
<1> QED BY <1>3, SlotsFacts

\* Pushing continues a schedule.
LEMMA StartsOfAppend ==
    ASSUME NEW T, NEW s \in Seq(T), NEW x \in T
    PROVE  Append(s, x) \in Seq(T) /\ Starts(s, s) /\ Starts(s, Append(s, x))
<1>1. Len(s) \in Nat /\ Len(Append(s, x)) = Len(s) + 1 /\ Append(s, x) \in Seq(T)
    BY AppendProperties
<1>2. \A k \in 1..Len(s) : Append(s, x)[k] = s[k]
    BY AppendProperties
<1> QED BY <1>1, <1>2 DEF Starts

\* How many slots each of the targets 1..N has.
Tally(s, N) == [t \in 1..N |-> SlotsOf(s, t)]

\* A tally is a sequence of counts.
LEMMA TallyType ==
    ASSUME NEW N \in Nat, NEW s \in Seq(1..N)
    PROVE  /\ Tally(s, N) \in Seq(Nat) /\ Len(Tally(s, N)) = N
           /\ \A t \in 1..N : Tally(s, N)[t] = SlotsOf(s, t)
<1>1. \A t \in 1..N : SlotsOf(s, t) \in Nat
    BY SlotsFacts
<1> QED BY <1>1 DEF Tally

\* Every slot is one target's.
LEMMA TallyAddsUp ==
    ASSUME NEW N \in Nat, NEW s \in Seq(1..N)
    PROVE  SumOf(Tally(s, N)) = Len(s)
<1>1. PICK L \in Nat : L = Len(s)
    OBVIOUS
<1>2. \A k \in 1..L : s[k] \in 1..N
    BY <1>1
<1> DEFINE First(n) == [k \in 1..n |-> s[k]]
           P == {n \in 0..L : SumOf(Tally(First(n), N)) = n}
<1>3. \A n \in 0..L : First(n) \in Seq(1..N) /\ Len(First(n)) = n
    <2> TAKE n \in 0..L
    <2>1. n \in Nat /\ \A k \in 1..n : k \in 1..L
        BY <1>1
    <2>2. \A k \in 1..n : s[k] \in 1..N
        BY <1>2, <2>1
    <2> QED BY <2>1, <2>2
<1>4. 0 \in P
    <2>1. First(0) \in Seq(1..N) /\ Len(First(0)) = 0 /\ 0 \in 0..L
        BY <1>1, <1>3
    <2> HIDE DEF First
    <2>2. \A t \in 1..N : SlotsOf(First(0), t) = 0
        BY <2>1, SlotsFacts
    <2>3. SumOf(Tally(First(0), N)) = 0
        <3>1. PICK f \in Seq(Nat) : f = Tally(First(0), N) /\ \A t \in 1..Len(f) : f[t] = 0
            BY <2>1, <2>2, TallyType
        <3> QED BY <3>1, SumOfZeros
    <2> QED BY <2>1, <2>3
<1>5. ASSUME NEW n \in 1..L, n - 1 \in P PROVE n \in P
    <2>1. PICK x \in 1..N : x = s[n]
        BY <1>2
    <2>2. n - 1 \in 0..L /\ n \in 0..L /\ n \in Nat
        BY <1>1
    <2>3. PICK a \in Seq(1..N) : a = First(n - 1) /\ Len(a) = n - 1
        BY <1>3, <2>2
    <2>4. PICK b \in Seq(1..N) : b = First(n) /\ Len(b) = n
        BY <1>3, <2>2
    <2>5. b = Append(a, x)
        <3>1. Append(a, x) \in Seq(1..N) /\ Len(Append(a, x)) = n
            BY <2>3, AppendProperties
        <3>2. ASSUME NEW k \in 1..n PROVE b[k] = Append(a, x)[k]
            <4>1. CASE k = n
                <5>1. Append(a, x)[Len(a) + 1] = x
                    BY AppendProperties
                <5> QED BY <2>1, <2>2, <2>3, <2>4, <4>1, <5>1
            <4>2. CASE k # n
                <5>1. k \in 1..(n - 1) /\ k \in 1..Len(a)
                    BY <2>2, <2>3, <4>2
                <5>2. Append(a, x)[k] = a[k]
                    BY <5>1, AppendProperties
                <5> QED BY <2>3, <2>4, <5>1, <5>2
            <4> QED BY <4>1, <4>2
        <3> QED BY <2>4, <3>1, <3>2, SeqEqual
    <2>6. \A t \in 1..N : SlotsOf(b, t) = SlotsOf(a, t) + (IF x = t THEN 1 ELSE 0)
        <3> TAKE t \in 1..N
        <3>1. PICK T : T = 1..N
            OBVIOUS
        <3>2. a \in Seq(T) /\ x \in T
            BY <3>1
        <3>3. SlotsOf(Append(a, x), t) = SlotsOf(a, t) + (IF x = t THEN 1 ELSE 0)
            BY ONLY <3>2, SlotsAppend
        <3> QED BY <2>5, <3>3
    <2>7. PICK f \in Seq(Nat) : /\ f = Tally(a, N) /\ Len(f) = N
                                /\ \A t \in 1..N : f[t] = SlotsOf(a, t)
        BY TallyType
    <2>8. PICK g \in Seq(Nat) : /\ g = Tally(b, N) /\ Len(g) = N
                                /\ \A t \in 1..N : g[t] = SlotsOf(b, t)
        BY TallyType
    <2>9. SumOf(g) = SumOf(f) + 1
        <3>1. \A t \in 1..Len(f) : g[t] = f[t] + (IF t = x THEN 1 ELSE 0)
            BY <2>6, <2>7, <2>8
        <3>2. Len(f) = Len(g) /\ x \in 1..Len(f)
            BY <2>7, <2>8
        <3> QED BY <3>1, <3>2, SumOneMore
    <2>10. SumOf(f) = n - 1
        BY <1>5, <2>3, <2>7
    <2>11. SumOf(Tally(First(n), N)) = n
        BY <2>2, <2>4, <2>8, <2>9, <2>10
    <2> QED BY <2>2, <2>11
<1>6. L \in P
    <2>1. 0..L \subseteq P
        <3> HIDE DEF P
        <3> QED BY <1>4, <1>5, TurnByTurn
    <2> QED BY <2>1
<1>7. First(L) = s
    <2>1. First(L) \in Seq(1..N) /\ Len(First(L)) = L
        BY <1>3
    <2> QED BY <1>1, <2>1, SeqEqual
<1> QED BY <1>1, <1>6, <1>7

-----------------------------------------------------------------------------
\* Dividing by the common divisor leaves nothing over, and no target without weight.
LEMMA RemainingFacts ==
    ASSUME NEW weights \in Seq(Nat \ {0}), weights # <<>>
    PROVE  /\ Remaining(weights) \in Seq(Nat \ {0}) /\ Len(Remaining(weights)) = Len(weights)
           /\ \A i \in 1..Len(weights) : Remaining(weights)[i] * Divisor(weights) = weights[i]
<1>1. PICK D \in Nat \ {0} : /\ D = Divisor(weights)
                             /\ \A i \in 1..Len(weights) : Divides(D, weights[i])
    BY DivisorFacts
<1>2. PICK N \in Nat : N = Len(weights) /\ DOMAIN weights = 1..N
    OBVIOUS
<1>3. Remaining(weights) = [i \in 1..N |-> weights[i] \div D]
    BY <1>1, <1>2 DEF Remaining
<1>4. ASSUME NEW i \in 1..N
      PROVE  weights[i] \div D \in Nat \ {0} /\ (weights[i] \div D) * D = weights[i]
    <2>1. PICK w \in Nat \ {0} : w = weights[i]
        BY <1>2
    <2>2. PICK q \in Nat : w = D * q
        BY <1>1, <1>2, <2>1 DEF Divides
    <2>3. D * q = D * q + 0 /\ 0 \in 0..(D - 1)
        <3>1. D * q \in Nat
            BY ProductIsNat
        <3> QED BY <3>1
    <2>4. (D * q + 0) \div D = q
        BY <2>3, Remainder
    <2>5. w \div D = q
        BY <2>2, <2>3, <2>4
    <2>6. q # 0 /\ q * D = D * q
        BY <2>2
    <2> QED BY <2>1, <2>2, <2>5, <2>6
<1>5. PICK r : r = [i \in 1..N |-> weights[i] \div D]
    OBVIOUS
<1>6. r \in Seq(Nat \ {0}) /\ Len(r) = N /\ \A i \in 1..N : r[i] = weights[i] \div D
    BY <1>4, <1>5
<1> QED BY <1>1, <1>2, <1>3, <1>4, <1>5, <1>6

-----------------------------------------------------------------------------
(* Rounds. *)

\* The course of one round.
Pushed(schedule, remaining, k) ==
    CHOOSE p : p = [i \in 0..Len(remaining) |->
        IF i = 0 THEN schedule
        ELSE IF remaining[i] >= k THEN Append(p[i - 1], i) ELSE p[i - 1]]

\* A round looks at one target per turn.
LEMMA PushedFacts ==
    ASSUME NEW rem \in Seq(Nat), NEW s \in Seq(1..Len(rem)), NEW k \in Nat
    PROVE  /\ Pushed(s, rem, k)[0] = s
           /\ \A i \in 1..Len(rem) :
                 Pushed(s, rem, k)[i] = IF rem[i] >= k THEN Append(Pushed(s, rem, k)[i - 1], i)
                                        ELSE Pushed(s, rem, k)[i - 1]
<1> DEFINE N == Len(rem)
           S == Seq(1..N)
           Body(f) == [i \in 0..N |->
               IF i = 0 THEN s
               ELSE IF rem[i] >= k THEN Append(f[i - 1], i) ELSE f[i - 1]]
           Turn(i, x) == IF rem[i] >= k THEN Append(x, i) ELSE x
           step == [t \in (1..N) \X S |-> Turn(t[1], t[2])]
<1>1. N \in Nat /\ s \in S /\ \A i \in 1..N : i \in 0..N /\ i # 0
    OBVIOUS
<1>2. \A i \in 1..N, x \in S : Turn(i, x) \in S
    <2>1. \A i \in 1..N, x \in S : Append(x, i) \in S
        BY AppendProperties
    <2> HIDE DEF S
    <2> QED BY <2>1
<1> HIDE DEF Turn, S
<1>3. step \in [(1..N) \X S -> S] /\ \A i \in 1..N, x \in S : step[<<i, x>>] = Turn(i, x)
    BY <1>2
<1> HIDE DEF step
<1>4. PICK f \in [0..N -> S] :
          f[0] = s /\ \A i \in 1..N : f[i - 1] \in S /\ f[i] = step[<<i, f[i - 1]>>]
    <2>1. N \in Nat /\ s \in S
        BY <1>1
    <2> HIDE DEF N
    <2>2. HasCourse(N, S, s, step)
        BY <1>3, <2>1, LoopHasCourse
    <2> QED BY <2>2 DEF HasCourse
<1>5. \A i \in 1..N : f[i] = Turn(i, f[i - 1])
    BY <1>3, <1>4
<1>6. f = Body(f)
    <2>1. f = [i \in 0..N |-> f[i]]
        OBVIOUS
    <2>2. \A i \in 0..N : i = 0 \/ i \in 1..N
        BY <1>1
    <2> HIDE DEF N
    <2> QED BY <1>4, <1>5, <2>1, <2>2 DEF Turn
<1>7. Pushed(s, rem, k) = CHOOSE h : h = Body(h)
    BY DEF Pushed
<1>8. PICK h : h = Pushed(s, rem, k) /\ h = Body(h)
    <2> HIDE DEF Body
    <2> QED BY <1>6, <1>7
<1>9. h[0] = s /\ \A i \in 1..N : h[i] = IF rem[i] >= k THEN Append(h[i - 1], i) ELSE h[i - 1]
    <2>1. 0 \in 0..N
        BY <1>1
    <2> HIDE DEF N
    <2> QED BY <1>1, <1>8, <2>1
<1> QED BY <1>8, <1>9

\* A round is one slot more for every target that still has weight.
LEMMA RoundFacts ==
    ASSUME NEW rem \in Seq(Nat), NEW s \in Seq(1..Len(rem)), NEW k \in Nat
    PROVE  /\ Round(s, rem, k) \in Seq(1..Len(rem)) /\ Starts(s, Round(s, rem, k))
           /\ \A t \in 1..Len(rem) : SlotsOf(Round(s, rem, k), t) =
                 SlotsOf(s, t) + (IF rem[t] >= k THEN 1 ELSE 0)
<1>1. PICK N \in Nat : N = Len(rem)
    OBVIOUS
<1>2. PICK h : /\ h = Pushed(s, rem, k) /\ h[0] = s
               /\ \A i \in 1..N : h[i] = IF rem[i] >= k THEN Append(h[i - 1], i) ELSE h[i - 1]
    BY <1>1, PushedFacts
<1>3. PICK T : T = Seq(1..N)
    OBVIOUS
<1>4. s \in T /\ \A t \in 1..N : SlotsOf(s, t) \in Nat /\ rem[t] \in Nat
    BY <1>1, <1>3, SlotsFacts
<1> DEFINE Good(i) ==
        /\ h[i] \in T /\ Starts(s, h[i])
        /\ \A t \in 1..N : SlotsOf(h[i], t) = SlotsOf(s, t) + (IF t <= i /\ rem[t] >= k THEN 1 ELSE 0)
           P == {i \in 0..N : Good(i)}
<1>5. 0 \in P
    <2>1. Starts(s, s)
        <3>1. Len(s) \in Nat
            OBVIOUS
        <3> QED BY <3>1 DEF Starts
    <2>2. \A t \in 1..N : ~(t <= 0)
        OBVIOUS
    <2>3. Good(0)
        BY <1>2, <1>4, <2>1, <2>2
    <2> QED BY <2>3
<1>6. ASSUME NEW i \in 1..N, i - 1 \in P PROVE i \in P
    <2>1. PICK a \in T : /\ a = h[i - 1] /\ Starts(s, a)
                         /\ \A t \in 1..N : SlotsOf(a, t) =
                              SlotsOf(s, t) + (IF t <= i - 1 /\ rem[t] >= k THEN 1 ELSE 0)
        BY <1>6
    <2>2. \A t \in 1..N : (t <= i <=> t = i \/ t <= i - 1) /\ (t = i => ~(t <= i - 1))
        OBVIOUS
    <2>3. CASE rem[i] >= k
        <3>1. h[i] = Append(a, i)
            BY <1>2, <2>1, <2>3
        <3>2. h[i] \in T /\ Starts(a, h[i])
            BY <1>3, <3>1, StartsOfAppend
        <3>3. Starts(s, h[i])
            BY <1>3, <1>4, <2>1, <3>2, StartsThrough
        <3>4. \A t \in 1..N : SlotsOf(h[i], t) = SlotsOf(a, t) + (IF i = t THEN 1 ELSE 0)
            <4> TAKE t \in 1..N
            <4>1. PICK U : U = 1..N
                OBVIOUS
            <4>2. a \in Seq(U) /\ i \in U
                BY <1>3, <4>1
            <4>3. SlotsOf(Append(a, i), t) = SlotsOf(a, t) + (IF i = t THEN 1 ELSE 0)
                BY ONLY <4>2, SlotsAppend
            <4> QED BY <3>1, <4>3
        <3>5. ASSUME NEW t \in 1..N
              PROVE  SlotsOf(h[i], t) = SlotsOf(s, t) + (IF t <= i /\ rem[t] >= k THEN 1 ELSE 0)
            <4>1. PICK c \in Nat : c = SlotsOf(s, t)
                BY <1>4
            <4>2. CASE t = i
                <5>1. SlotsOf(a, t) = c + 0
                    BY <2>1, <2>2, <4>1, <4>2
                <5>2. SlotsOf(h[i], t) = SlotsOf(a, t) + 1
                    BY <3>4, <4>2
                <5>3. t <= i /\ rem[t] >= k
                    BY <2>2, <2>3, <4>2
                <5> QED BY <4>1, <5>1, <5>2, <5>3
            <4>3. CASE t # i
                <5>1. SlotsOf(h[i], t) = SlotsOf(a, t) + 0
                    BY <3>4, <4>3
                <5>2. SlotsOf(a, t) = c + (IF t <= i /\ rem[t] >= k THEN 1 ELSE 0)
                    BY <2>1, <2>2, <4>1, <4>3
                <5> QED BY <4>1, <5>1, <5>2
            <4> QED BY <4>2, <4>3
        <3>6. Good(i) /\ i \in 0..N
            BY <3>2, <3>3, <3>5
        <3> QED BY <3>6
    <2>4. CASE ~(rem[i] >= k)
        <3>1. h[i] = a
            BY <1>2, <2>1, <2>4
        <3>2. \A t \in 1..N : (t <= i /\ rem[t] >= k) <=> (t <= i - 1 /\ rem[t] >= k)
            BY <2>2, <2>4
        <3>3. Good(i) /\ i \in 0..N
            BY <2>1, <3>1, <3>2
        <3> QED BY <3>3
    <2> QED BY <2>3, <2>4
<1>7. N \in P
    <2>1. 0..N \subseteq P
        <3> HIDE DEF P
        <3> QED BY <1>5, <1>6, TurnByTurn
    <2> QED BY <2>1
<1>8. Round(s, rem, k) = h[N]
    <2>1. Round(s, rem, k) = Pushed(s, rem, k)[Len(rem)]
        BY DEF Round, Pushed
    <2> QED BY <1>1, <1>2, <2>1
<1>9. Good(N) /\ \A t \in 1..N : t <= N
    BY <1>7
<1> QED BY <1>1, <1>3, <1>8, <1>9

\* No number exceeds the sum.
LEMMA PartBelowSum ==
    ASSUME NEW f \in Seq(Nat), NEW x \in 1..Len(f)
    PROVE  f[x] <= SumOf(f)
<1>1. PICK N \in Nat : N = Len(f)
    OBVIOUS
<1>2. PICK F : F = SumTo(f)
    OBVIOUS
<1>3. /\ F[0] = 0 /\ SumOf(f) = F[N]
      /\ \A i \in 1..N : F[i - 1] \in Nat /\ F[i] \in Nat /\ F[i] = F[i - 1] + f[i]
    BY <1>1, <1>2, SumFacts
<1> DEFINE P == {i \in 0..N : x <= i => f[x] <= F[i]}
<1>4. 0 \in P
    BY <1>1
<1>5. ASSUME NEW i \in 1..N, i - 1 \in P PROVE i \in P
    <2>1. PICK a \in Nat : a = f[i]
        BY <1>1
    <2>2. PICK c \in Nat : c = F[i - 1] /\ F[i] = c + a
        BY <1>3, <2>1
    <2>3. PICK b \in Nat : b = f[x]
        OBVIOUS
    <2>4. ASSUME x <= i PROVE b <= c + a
        <3>1. CASE x = i
            BY <2>1, <2>3, <3>1
        <3>2. CASE x # i
            <4>1. x <= i - 1
                BY <1>1, <2>4, <3>2
            <4>2. b <= c
                BY <1>5, <2>2, <2>3, <4>1
            <4> QED BY <4>2
        <3> QED BY <3>1, <3>2
    <2>5. (x <= i => f[x] <= F[i]) /\ i \in 0..N
        BY <2>2, <2>3, <2>4
    <2> QED BY <2>5
<1>6. N \in P
    <2>1. 0..N \subseteq P
        <3> HIDE DEF P
        <3> QED BY <1>4, <1>5, TurnByTurn
    <2> QED BY <2>1
<1>7. x <= N
    BY <1>1
<1> QED BY <1>3, <1>6, <1>7

\* The first n slots.
LEMMA PrefixFacts ==
    ASSUME NEW T, NEW s \in Seq(T), NEW n \in 0..Len(s)
    PROVE  /\ SubSeq(s, 1, n) \in Seq(T) /\ Len(SubSeq(s, 1, n)) = n
           /\ \A k \in 1..n : SubSeq(s, 1, n)[k] = s[k]
           /\ Starts(SubSeq(s, 1, n), s)
<1>1. Len(s) \in Nat /\ n \in Nat /\ n <= Len(s) /\ \A k \in 1..n : k \in 1..Len(s) /\ s[k] \in T
    OBVIOUS
<1>2. PICK p : p = SubSeq(s, 1, n)
    OBVIOUS
<1>3. p = [k \in 1..n |-> s[k]]
    <2>1. SubSeq(s, 1, n) = [i \in 1..(1 + n - 1) |-> s[i + 1 - 1]]
        BY <1>1
    <2>2. 1 + n - 1 = n
        BY <1>1
    <2>3. \A i \in 1..n : i + 1 - 1 = i
        OBVIOUS
    <2> QED BY <1>2, <2>1, <2>2, <2>3
<1>4. p \in Seq(T) /\ Len(p) = n /\ \A k \in 1..n : p[k] = s[k]
    BY <1>1, <1>3
<1> QED BY <1>1, <1>2, <1>4 DEF Starts

-----------------------------------------------------------------------------
\* The course of the while loop of build_schedule.
Rounds(rem) ==
    CHOOSE r : r = [k \in 0..SumOf(rem) |->
        IF k = 0 THEN <<>>
        ELSE IF Len(r[k - 1]) % U32 < Total(rem) THEN Round(r[k - 1], rem, k) ELSE r[k - 1]]

\* Each turn deals a round, until `len < total` fails.
LEMMA RoundsFacts ==
    ASSUME NEW rem \in Seq(Nat)
    PROVE  /\ Rounds(rem)[0] = <<>>
           /\ \A k \in 1..SumOf(rem) :
                 Rounds(rem)[k] = IF Len(Rounds(rem)[k - 1]) % U32 < Total(rem)
                                  THEN Round(Rounds(rem)[k - 1], rem, k) ELSE Rounds(rem)[k - 1]
<1> DEFINE K == SumOf(rem)
           S == Seq(1..Len(rem))
           Turn(k, x) == IF Len(x) % U32 < Total(rem) THEN Round(x, rem, k) ELSE x
           Body(f) == [k \in 0..K |->
               IF k = 0 THEN <<>>
               ELSE IF Len(f[k - 1]) % U32 < Total(rem) THEN Round(f[k - 1], rem, k) ELSE f[k - 1]]
           step == [t \in (1..K) \X S |-> Turn(t[1], t[2])]
<1>1. K \in Nat /\ <<>> \in S
    BY SumFacts
<1>2. \A k \in 1..K, x \in S : Turn(k, x) \in S
    <2>1. \A k \in 1..K : k \in Nat
        BY <1>1
    <2>2. \A k \in 1..K, x \in S : Round(x, rem, k) \in S
        BY <2>1, RoundFacts
    <2> HIDE DEF S
    <2> QED BY <2>2
<1>3. \A k \in 1..K : k \in 0..K /\ k # 0
    BY <1>1
<1> HIDE DEF Turn, S
<1>4. step \in [(1..K) \X S -> S] /\ \A k \in 1..K, x \in S : step[<<k, x>>] = Turn(k, x)
    BY <1>2
<1> HIDE DEF step
<1>5. PICK f \in [0..K -> S] :
          f[0] = <<>> /\ \A k \in 1..K : f[k - 1] \in S /\ f[k] = step[<<k, f[k - 1]>>]
    <2> HIDE DEF K
    <2>2. HasCourse(K, S, <<>>, step)
        BY <1>1, <1>4, LoopHasCourse
    <2> QED BY <2>2 DEF HasCourse
<1>6. \A k \in 1..K : f[k] = Turn(k, f[k - 1])
    BY <1>4, <1>5
<1>7. f = Body(f)
    <2>1. f = [k \in 0..K |-> f[k]]
        OBVIOUS
    <2>2. \A k \in 0..K : k = 0 \/ k \in 1..K
        BY <1>1
    <2> HIDE DEF K
    <2> QED BY <1>5, <1>6, <2>1, <2>2 DEF Turn
<1>8. Rounds(rem) = CHOOSE h : h = Body(h)
    BY DEF Rounds
<1>9. PICK h : h = Rounds(rem) /\ h = Body(h)
    <2> HIDE DEF Body
    <2> QED BY <1>7, <1>8
<1>10. /\ h[0] = <<>>
       /\ \A k \in 1..K : h[k] = IF Len(h[k - 1]) % U32 < Total(rem)
                                 THEN Round(h[k - 1], rem, k) ELSE h[k - 1]
    <2>1. 0 \in 0..K
        BY <1>1
    <2> HIDE DEF K
    <2> QED BY <1>3, <1>9, <2>1
<1> QED BY <1>9, <1>10

\* What a target of weight n has got after m rounds.
Capped(n, m) == IF n <= m THEN n ELSE m

\* m rounds have been dealt.
Dealt(s, rem, m) == \A t \in 1..Len(rem) : SlotsOf(s, t) = Capped(rem[t], m)

\* Every prefix of s lies within one round of dealing.
Layered(s, rem, m) ==
    \A n \in 0..Len(s) : \E c \in 0..m : \A t \in 1..Len(rem) :
        /\ Capped(rem[t], c - 1) <= SlotsOf(SubSeq(s, 1, n), t)
        /\ SlotsOf(SubSeq(s, 1, n), t) <= Capped(rem[t], c)

\* After one more round one more round has been dealt.
LEMMA RoundKeepsDealt ==
    ASSUME NEW rem \in Seq(Nat), NEW s \in Seq(1..Len(rem)), NEW k \in Nat \ {0}, Dealt(s, rem, k - 1)
    PROVE  Dealt(Round(s, rem, k), rem, k)
<1> SUFFICES ASSUME NEW t \in 1..Len(rem)
             PROVE  SlotsOf(Round(s, rem, k), t) = Capped(rem[t], k)
    BY DEF Dealt
<1>1. PICK w \in Nat : w = rem[t]
    OBVIOUS
<1>2. SlotsOf(s, t) = Capped(w, k - 1)
    BY <1>1 DEF Dealt
<1>3. SlotsOf(Round(s, rem, k), t) = Capped(w, k - 1) + (IF w >= k THEN 1 ELSE 0)
    <2>1. SlotsOf(Round(s, rem, k), t) = SlotsOf(s, t) + (IF rem[t] >= k THEN 1 ELSE 0)
        BY RoundFacts
    <2> QED BY <1>1, <1>2, <2>1
<1>4. Capped(w, k - 1) + (IF w >= k THEN 1 ELSE 0) = Capped(w, k)
    BY DEF Capped
<1> QED BY <1>1, <1>3, <1>4

\* And the new prefixes lie within it.
LEMMA RoundKeepsLayered ==
    ASSUME NEW rem \in Seq(Nat), NEW s \in Seq(1..Len(rem)), NEW k \in Nat \ {0},
           Dealt(s, rem, k - 1), Layered(s, rem, k - 1)
    PROVE  Layered(Round(s, rem, k), rem, k)
<1>1. PICK T : T = 1..Len(rem)
    OBVIOUS
<1>2. PICK z \in Seq(T) : z = Round(s, rem, k) /\ Starts(s, z)
    BY <1>1, RoundFacts
<1>3. Dealt(z, rem, k) /\ s \in Seq(T)
    BY <1>1, <1>2, RoundKeepsDealt
<1> SUFFICES ASSUME NEW n \in 0..Len(z)
             PROVE  \E c \in 0..k : \A t \in 1..Len(rem) :
                        /\ Capped(rem[t], c - 1) <= SlotsOf(SubSeq(z, 1, n), t)
                        /\ SlotsOf(SubSeq(z, 1, n), t) <= Capped(rem[t], c)
    BY <1>2 DEF Layered
<1>4. PICK p \in Seq(T) : /\ p = SubSeq(z, 1, n) /\ Len(p) = n /\ \A i \in 1..n : p[i] = z[i]
                          /\ Starts(p, z)
    BY PrefixFacts
<1>5. Len(s) \in Nat /\ n \in Nat
    OBVIOUS
<1>6. CASE n <= Len(s)
    <2>1. n \in 0..Len(s) /\ \A i \in 1..n : i \in 1..Len(s)
        BY <1>5, <1>6
    <2>2. PICK q \in Seq(T) : q = SubSeq(s, 1, n) /\ Len(q) = n /\ \A i \in 1..n : q[i] = s[i]
        <3>1. s \in Seq(T) /\ n \in 0..Len(s)
            BY <1>3, <2>1
        <3>2. /\ SubSeq(s, 1, n) \in Seq(T) /\ Len(SubSeq(s, 1, n)) = n
              /\ \A i \in 1..n : SubSeq(s, 1, n)[i] = s[i]
            BY ONLY <3>1, PrefixFacts
        <3> QED BY <3>2
    <2>3. \A i \in 1..n : p[i] = q[i]
        BY <1>2, <1>4, <2>1, <2>2 DEF Starts
    <2>4. p = q
        BY <1>4, <2>2, <2>3, SeqEqual
    <2>5. PICK c \in 0..(k - 1) : \A t \in 1..Len(rem) :
                        /\ Capped(rem[t], c - 1) <= SlotsOf(SubSeq(s, 1, n), t)
                        /\ SlotsOf(SubSeq(s, 1, n), t) <= Capped(rem[t], c)
        BY <2>1 DEF Layered
    <2>6. c \in 0..k
        OBVIOUS
    <2> QED BY <1>4, <2>2, <2>4, <2>5, <2>6
<1>7. CASE ~(n <= Len(s))
    <2>1. Starts(s, p)
        <3>1. Len(s) <= n /\ \A i \in 1..Len(s) : i \in 1..n
            BY <1>5, <1>7
        <3> QED BY <1>2, <1>4, <3>1 DEF Starts
    <2>2. k \in 0..k
        OBVIOUS
    <2>3. ASSUME NEW t \in 1..Len(rem)
          PROVE  Capped(rem[t], k - 1) <= SlotsOf(p, t) /\ SlotsOf(p, t) <= Capped(rem[t], k)
        <3>1. SlotsOf(s, t) <= SlotsOf(p, t)
            BY <1>3, <2>1, SlotsOfStart
        <3>2. SlotsOf(p, t) <= SlotsOf(z, t)
            BY <1>4, SlotsOfStart
        <3> QED BY <1>3, <3>1, <3>2 DEF Dealt
    <2> QED BY <1>4, <2>2, <2>3
<1> QED BY <1>6, <1>7

\* What the turns of the loop have done after the k-th.
LEMMA RoundsCourse ==
    ASSUME NEW rem \in Seq(Nat), NEW k \in 0..SumOf(rem)
    PROVE  /\ Rounds(rem)[k] \in Seq(1..Len(rem))
           /\ \E m \in 0..k : /\ Dealt(Rounds(rem)[k], rem, m) /\ Layered(Rounds(rem)[k], rem, m)
                              /\ m = k \/ ~(Len(Rounds(rem)[k]) % U32 < Total(rem))
<1>1. PICK K \in Nat : K = SumOf(rem)
    BY SumFacts
<1>2. PICK h : /\ h = Rounds(rem) /\ h[0] = <<>>
               /\ \A i \in 1..K : h[i] = IF Len(h[i - 1]) % U32 < Total(rem)
                                         THEN Round(h[i - 1], rem, i) ELSE h[i - 1]
    BY <1>1, RoundsFacts
<1> DEFINE At(i, m) == /\ Dealt(h[i], rem, m) /\ Layered(h[i], rem, m)
                       /\ m = i \/ ~(Len(h[i]) % U32 < Total(rem))
           P == {i \in 0..K : h[i] \in Seq(1..Len(rem)) /\ \E m \in 0..i : At(i, m)}
<1>3. 0 \in P
    <2>1. h[0] \in Seq(1..Len(rem)) /\ Len(h[0]) = 0
        BY <1>2
    <2>2. \A t \in 1..Len(rem) : SlotsOf(h[0], t) = 0
        BY <2>1, SlotsFacts
    <2>3. \A t \in 1..Len(rem) : Capped(rem[t], 0) = 0 /\ Capped(rem[t], 0 - 1) <= 0
        BY DEF Capped
    <2>4. Dealt(h[0], rem, 0)
        BY <2>2, <2>3 DEF Dealt
    <2>5. Layered(h[0], rem, 0)
        <3>1. ASSUME NEW n \in 0..Len(h[0]) PROVE SubSeq(h[0], 1, n) = h[0]
            <4>1. n = 0
                BY <2>1
            <4>2. SubSeq(h[0], 1, n) \in Seq(1..Len(rem)) /\ Len(SubSeq(h[0], 1, n)) = 0
                BY <2>1, <4>1, PrefixFacts
            <4> QED BY <2>1, <4>2, SeqEqual
        <3>2. 0 \in 0..0
            OBVIOUS
        <3>3. \A t \in 1..Len(rem) : /\ Capped(rem[t], 0 - 1) <= SlotsOf(h[0], t)
                                     /\ SlotsOf(h[0], t) <= Capped(rem[t], 0)
            BY <2>2, <2>3
        <3> QED BY <3>1, <3>2, <3>3 DEF Layered
    <2>6. At(0, 0) /\ 0 \in 0..0 /\ 0 \in 0..K
        BY <2>4, <2>5
    <2> HIDE DEF At
    <2> QED BY <2>1, <2>6
<1>4. ASSUME NEW i \in 1..K, i - 1 \in P PROVE i \in P
    <2>1. h[i - 1] \in Seq(1..Len(rem)) /\ i \in Nat \ {0} /\ i \in 0..K
        BY <1>4
    <2>2. PICK m \in 0..(i - 1) : At(i - 1, m)
        <3> HIDE DEF At
        <3> QED BY <1>4
    <2>3. CASE Len(h[i - 1]) % U32 < Total(rem)
        <3>1. m = i - 1
            BY <2>2, <2>3
        <3>2. h[i] = Round(h[i - 1], rem, i)
            BY <1>2, <2>3
        <3>3. Dealt(h[i - 1], rem, i - 1) /\ Layered(h[i - 1], rem, i - 1)
            BY <2>2, <3>1
        <3>4. Dealt(h[i], rem, i)
            BY <2>1, <3>2, <3>3, RoundKeepsDealt
        <3>5. Layered(h[i], rem, i)
            BY <2>1, <3>2, <3>3, RoundKeepsLayered
        <3>6. h[i] \in Seq(1..Len(rem))
            BY <2>1, <3>2, RoundFacts
        <3>7. At(i, i) /\ i \in 0..i
            BY <3>4, <3>5
        <3> HIDE DEF At
        <3> QED BY <2>1, <3>6, <3>7
    <2>4. CASE ~(Len(h[i - 1]) % U32 < Total(rem))
        <3>1. h[i] = h[i - 1] /\ m \in 0..i
            BY <1>2, <2>4
        <3>2. At(i, m)
            BY <2>2, <2>4, <3>1
        <3> HIDE DEF At
        <3> QED BY <2>1, <3>1, <3>2
    <2> QED BY <2>3, <2>4
<1>5. k \in P
    <2>1. 0..K \subseteq P
        <3> HIDE DEF P
        <3> QED BY <1>3, <1>4, TurnByTurn
    <2> QED BY <1>1, <2>1
<1> QED BY <1>2, <1>5

\* What build_schedule returns: some number m of rounds, and the loop is over.
LEMMA BuildFacts ==
    ASSUME NEW weights \in Seq(Nat \ {0}), weights # <<>>
    PROVE  /\ build_schedule(weights) \in Seq(1..Len(weights))
           /\ \E m \in Nat : /\ Dealt(build_schedule(weights), Remaining(weights), m)
                             /\ Layered(build_schedule(weights), Remaining(weights), m)
           /\ ~(Len(build_schedule(weights)) % U32 < Total(Remaining(weights)))
<1>1. PICK rem \in Seq(Nat \ {0}) : rem = Remaining(weights) /\ Len(rem) = Len(weights)
    BY RemainingFacts
<1>2. rem \in Seq(Nat)
    OBVIOUS
<1>3. PICK K \in Nat : K = SumOf(rem)
    BY <1>2, SumFacts
<1>4. PICK z : z = Rounds(rem)[K]
    OBVIOUS
<1>5. build_schedule(weights) = z
    BY <1>1, <1>3, <1>4 DEF build_schedule, Rounds
<1>6. PICK m \in 0..K : /\ z \in Seq(1..Len(rem)) /\ Dealt(z, rem, m) /\ Layered(z, rem, m)
                        /\ m = K \/ ~(Len(z) % U32 < Total(rem))
    <2>1. K \in 0..SumOf(rem)
        BY <1>3
    <2>2. /\ Rounds(rem)[K] \in Seq(1..Len(rem))
          /\ \E m \in 0..K : /\ Dealt(Rounds(rem)[K], rem, m) /\ Layered(Rounds(rem)[K], rem, m)
                             /\ m = K \/ ~(Len(Rounds(rem)[K]) % U32 < Total(rem))
        BY <1>2, <2>1, RoundsCourse
    <2> QED BY <1>4, <2>2
<1>7. ~(Len(z) % U32 < Total(rem))
    <2> SUFFICES ASSUME m = K PROVE Len(z) % U32 = Total(rem)
        <3>1. Len(z) \in Nat /\ U32 \in Nat \ {0}
            BY <1>6, U32Assumption
        <3>2. Len(z) % U32 \in Nat
            BY <3>1, DivMod
        <3> QED BY <1>6, <3>2
    <2>1. ASSUME NEW t \in 1..Len(rem) PROVE SlotsOf(z, t) = rem[t]
        <3>1. rem[t] <= K
            BY <1>2, <1>3, PartBelowSum
        <3> QED BY <1>6, <3>1 DEF Dealt, Capped
    <2>2. Tally(z, Len(rem)) = rem
        <3>1. Len(rem) \in Nat /\ rem = [t \in 1..Len(rem) |-> rem[t]]
            OBVIOUS
        <3> QED BY <2>1, <3>1 DEF Tally
    <2>3. SumOf(Tally(z, Len(rem))) = Len(z)
        <3>1. Len(rem) \in Nat
            OBVIOUS
        <3> QED BY <1>6, <3>1, TallyAddsUp
    <2> QED BY <2>2, <2>3 DEF Total
<1>8. m \in Nat
    BY <1>3
<1> QED BY <1>1, <1>5, <1>6, <1>7, <1>8

\* A schedule with a slot has one for every target.
LEMMA BuiltForAll ==
    ASSUME NEW weights \in Seq(Nat \ {0}), weights # <<>>, build_schedule(weights) # <<>>
    PROVE  \A t \in 1..Len(weights) : \E n \in 1..Len(build_schedule(weights)) :
               build_schedule(weights)[n] = t
<1>1. PICK rem \in Seq(Nat \ {0}) : rem = Remaining(weights) /\ Len(rem) = Len(weights)
    BY RemainingFacts
<1>2. PICK z \in Seq(1..Len(rem)) : z = build_schedule(weights)
    BY <1>1, BuildFacts
<1>3. PICK m \in Nat : Dealt(z, rem, m)
    BY <1>1, <1>2, BuildFacts
<1>4. m # 0
    <2> SUFFICES ASSUME m = 0 PROVE FALSE
        OBVIOUS
    <2>1. \A t \in 1..Len(rem) : SlotsOf(z, t) = 0
        <3> TAKE t \in 1..Len(rem)
        <3>1. PICK w \in Nat \ {0} : w = rem[t]
            BY ElementOfSeq
        <3>2. SlotsOf(z, t) = Capped(w, 0)
            BY <1>3, <3>1 DEF Dealt
        <3>3. Capped(w, 0) = 0
            BY DEF Capped
        <3> QED BY <3>2, <3>3
    <2>2. Len(z) \in Nat \ {0}
        BY <1>2, EmptySeq
    <2>3. z[1] \in 1..Len(rem) /\ 1 \in 1..Len(z)
        BY <2>2
    <2> QED BY <2>1, <2>3, SlotsFacts
<1>5. ASSUME NEW t \in 1..Len(rem) PROVE \E n \in 1..Len(z) : z[n] = t
    <2>1. rem[t] \in Nat \ {0}
        OBVIOUS
    <2>2. SlotsOf(z, t) # 0
        BY <1>3, <1>4, <2>1 DEF Dealt, Capped
    <2> QED BY <2>2, SlotsFacts
<1> QED BY <1>1, <1>2, <1>5

\* Without wrap-around the shares are the reduced weights.
LEMMA SharesWhenFits ==
    ASSUME NEW weights \in Seq(Nat \ {0}), weights # <<>>, SumOf(Remaining(weights)) < U32
    PROVE  /\ build_schedule(weights) # <<>>
           /\ \A t \in 1..Len(weights) : SlotsOf(build_schedule(weights), t) = Remaining(weights)[t]
<1>1. PICK rem \in Seq(Nat \ {0}) : rem = Remaining(weights) /\ Len(rem) = Len(weights)
    BY RemainingFacts
<1>2. PICK N \in Nat \ {0} : N = Len(rem)
    BY <1>1, EmptySeq
<1>3. PICK z \in Seq(1..N) : z = build_schedule(weights)
    BY <1>1, <1>2, BuildFacts
<1>4. PICK m \in Nat : Dealt(z, rem, m)
    BY <1>1, <1>3, BuildFacts
<1>5. rem \in Seq(Nat)
    OBVIOUS
<1>6. PICK K \in Nat : K = SumOf(rem) /\ K < U32
    BY <1>1, <1>5, SumFacts
<1>7. PICK f \in Seq(Nat) : /\ f = Tally(z, N) /\ Len(f) = N
                            /\ \A t \in 1..N : f[t] = SlotsOf(z, t)
    BY TallyType
<1>8. SumOf(f) = Len(z)
    BY <1>7, TallyAddsUp
<1>9. \A t \in 1..N : f[t] \in Nat /\ rem[t] \in Nat \ {0} /\ f[t] <= rem[t]
    <2> TAKE t \in 1..N
    <2>1. rem[t] \in Nat \ {0} /\ f[t] \in Nat
        <3>1. t \in 1..Len(rem) /\ t \in 1..Len(f)
            BY <1>2, <1>7
        <3> QED BY <3>1, ElementOfSeq
    <2>2. f[t] = Capped(rem[t], m)
        BY <1>2, <1>4, <1>7 DEF Dealt
    <2> QED BY <2>1, <2>2 DEF Capped
<1>10. Len(z) >= K
    <2>1. U32 \in Nat \ {0} /\ Len(z) \in Nat
        BY U32Assumption
    <2>2. Len(z) <= K
        <3>1. 0 \in 0..Len(f) /\ Len(f) = Len(rem) /\ \A t \in 1..Len(f) : f[t] <= rem[t]
            BY <1>2, <1>7, <1>9
        <3>2. SumOf(f) <= SumOf(rem)
            BY <1>5, <3>1, SumBelow
        <3> QED BY <1>6, <1>8, <3>2
    <2>3. Len(z) % U32 = Len(z)
        <3>1. Len(z) < U32
            BY <1>6, <2>1, <2>2
        <3> QED BY <2>1, <3>1, Small
    <2>4. Total(rem) = K
        <3>1. K % U32 = K
            BY <1>6, <2>1, Small
        <3> QED BY <1>6, <3>1 DEF Total
    <2>5. ~(Len(z) % U32 < Total(rem))
        BY <1>1, <1>3, BuildFacts
    <2> QED BY <2>1, <2>3, <2>4, <2>5
<1>11. ASSUME NEW t \in 1..N, f[t] # rem[t] PROVE FALSE
    <2>1. t \in 0..Len(f) /\ Len(f) = Len(rem) /\ \A i \in 1..Len(f) : f[i] <= rem[i]
        BY <1>2, <1>7, <1>9
    <2>2. t # 0 /\ f[t] < rem[t]
        BY <1>9, <1>11
    <2>3. SumOf(f) < SumOf(rem)
        BY <1>5, <2>1, <2>2, SumBelow
    <2> QED BY <1>6, <1>8, <1>10, <2>3
<1>12. \A t \in 1..N : SlotsOf(z, t) = rem[t]
    BY <1>7, <1>11
<1>13. z # <<>>
    <2>1. 1 \in 1..N /\ rem[1] # 0
        BY <1>2, <1>9
    <2>2. SlotsOf(z, 1) # 0
        BY <1>12, <2>1
    <2>3. ASSUME z = <<>> PROVE FALSE
        <3>1. Len(z) = 0
            BY <2>3
        <3>2. \A k \in 1..Len(z) : z[k] # 1
            BY <3>1
        <3>3. SlotsOf(z, 1) = 0
            BY <3>2, SlotsFacts
        <3> QED BY <2>2, <3>3
    <2> QED BY <2>3
<1> QED BY <1>1, <1>2, <1>3, <1>12, <1>13

-----------------------------------------------------------------------------
(* The schedule of an upstream. *)

\* Proportional shares, of the least length.
ShareBy(schedule, weights) ==
    /\ \A i, j \in DOMAIN weights :
          SlotsOf(schedule, i) * weights[j] = SlotsOf(schedule, j) * weights[i]
    /\ \A d \in 2..Len(schedule) : \E i \in DOMAIN weights : SlotsOf(schedule, i) % d # 0

\* A common divisor of the shares would have divided the weights once more.
LEMMA ScheduleShares ==
    ASSUME NEW weights \in Seq(Nat \ {0}), weights # <<>>, SumOf(Remaining(weights)) < U32
    PROVE  ShareBy(UpstreamSchedule(weights), weights)
<1>1. PICK N \in Nat \ {0} : N = Len(weights) /\ DOMAIN weights = 1..N
    <2>1. Len(weights) \in Nat /\ Len(weights) # 0 /\ DOMAIN weights = 1..Len(weights)
        BY EmptySeq
    <2> QED BY <2>1
<1>2. PICK D \in Nat \ {0} : D = Divisor(weights)
    BY DivisorFacts
<1>3. PICK rem \in Seq(Nat \ {0}) : /\ rem = Remaining(weights) /\ Len(rem) = N
                                    /\ \A i \in 1..N : rem[i] * D = weights[i]
    BY <1>1, <1>2, RemainingFacts
<1>4. PICK z : z = UpstreamSchedule(weights) /\ \A t \in 1..N : SlotsOf(z, t) = rem[t]
    <2>1. UpstreamSchedule(weights) = build_schedule(weights)
        BY SharesWhenFits DEF UpstreamSchedule
    <2> QED BY <1>1, <1>3, <2>1, SharesWhenFits
<1>5. Len(z) \in Nat
    <2>1. z = build_schedule(weights)
        BY <1>4, SharesWhenFits DEF UpstreamSchedule
    <2> QED BY <2>1, BuildFacts
<1>6. \A i \in 1..N : rem[i] \in Nat \ {0}
    BY <1>3
<1>7. ASSUME NEW i \in 1..N, NEW j \in 1..N
      PROVE  SlotsOf(z, i) * weights[j] = SlotsOf(z, j) * weights[i]
    <2>1. PICK a \in Nat : a = rem[i] /\ weights[i] = a * D /\ SlotsOf(z, i) = a
        BY <1>3, <1>4, <1>6
    <2>2. PICK b \in Nat : b = rem[j] /\ weights[j] = b * D /\ SlotsOf(z, j) = b
        BY <1>3, <1>4, <1>6
    <2>3. a * (b * D) = b * (a * D)
        OBVIOUS
    <2> QED BY <2>1, <2>2, <2>3
<1>8. ASSUME NEW d \in 2..Len(z), \A i \in 1..N : SlotsOf(z, i) % d = 0
      PROVE  FALSE
    <2>1. d \in Nat \ {0} /\ d >= 2
        BY <1>5
    <2>2. PICK e \in Nat : e = d * D
        BY <2>1, ProductIsNat
    <2>3. ASSUME NEW i \in 1..N PROVE Divides(e, weights[i])
        <3>1. PICK a \in Nat : a = rem[i] /\ weights[i] = a * D /\ a % d = 0
            BY <1>3, <1>4, <1>6, <1>8
        <3>2. PICK q \in Nat : q = a \div d
            BY <2>1, DivMod
        <3>3. a = d * q + 0
            BY <2>1, <3>1, <3>2, DivMod
        <3>4. d * q \in Nat
            BY <2>1, ProductIsNat
        <3>5. a = d * q
            BY <3>3, <3>4
        <3>6. (d * q) * D = (d * D) * q
            BY <2>1
        <3>7. weights[i] = e * q
            BY <2>2, <3>1, <3>5, <3>6
        <3> QED BY <3>7 DEF Divides
    <2>4. Divides(e, D)
        BY <1>1, <1>2, <2>3, DivisorFacts
    <2>5. Divides(D, e)
        <3>1. e = D * d /\ d \in Nat
            BY <2>1, <2>2
        <3> QED BY <3>1 DEF Divides
    <2>6. e = D
        BY <2>4, <2>5, DividesBothWays
    <2>7. PICK c \in Nat : d = c + 2
        <3>1. d - 2 \in Nat /\ d = (d - 2) + 2
            BY <2>1
        <3> QED BY <3>1
    <2>8. (c + 2) * D = c * D + 2 * D
        OBVIOUS
    <2>9. c * D \in Nat
        BY ProductIsNat
    <2> QED BY <2>2, <2>6, <2>7, <2>8, <2>9
<1>9. \A d \in 2..Len(z) : \E i \in 1..N : SlotsOf(z, i) % d # 0
    BY <1>8
<1> QED BY <1>1, <1>4, <1>7, <1>9 DEF ShareBy

\* The first round reaches every target, and so does the fallback.
LEMMA ScheduleReachesAll ==
    ASSUME NEW weights \in Seq(Nat \ {0}), weights # <<>>
    PROVE  ToSet(UpstreamSchedule(weights)) = DOMAIN weights
<1>1. PICK N \in Nat \ {0} : N = Len(weights) /\ DOMAIN weights = 1..N
    <2>1. Len(weights) \in Nat /\ Len(weights) # 0 /\ DOMAIN weights = 1..Len(weights)
        BY EmptySeq
    <2> QED BY <2>1
<1>2. CASE build_schedule(weights) = <<>>
    <2>1. UpstreamSchedule(weights) = [i \in 1..N |-> i]
        BY <1>1, <1>2 DEF UpstreamSchedule
    <2>2. ToSet([i \in 1..N |-> i]) = 1..N
        BY DEF ToSet
    <2> QED BY <1>1, <2>1, <2>2
<1>3. CASE build_schedule(weights) # <<>>
    <2>1. UpstreamSchedule(weights) = build_schedule(weights)
        BY <1>3 DEF UpstreamSchedule
    <2>2. PICK z \in Seq(1..N) : z = build_schedule(weights)
        BY <1>1, BuildFacts
    <2>3. \A t \in 1..N : \E n \in 1..Len(z) : z[n] = t
        BY <1>1, <1>3, <2>2, BuiltForAll
    <2>4. DOMAIN z = 1..Len(z) /\ \A n \in 1..Len(z) : z[n] \in 1..N
        OBVIOUS
    <2>5. ToSet(z) = 1..N
        BY <2>3, <2>4 DEF ToSet
    <2> QED BY <1>1, <2>1, <2>2, <2>5
<1> QED BY <1>2, <1>3

\* After n picks, i is two ahead of j only when j is done.
NeverTwoAhead(schedule, n, i, j) ==
    SlotsOf(SubSeq(schedule, 1, n), i) >= SlotsOf(SubSeq(schedule, 1, n), j) + 2
        => SlotsOf(SubSeq(schedule, 1, n), j) = SlotsOf(schedule, j)

\* Two ahead means a full round ahead, and j was left out of it.
LEMMA ScheduleInterleaves ==
    ASSUME NEW weights \in Seq(Nat \ {0}), weights # <<>>,
           NEW n \in DOMAIN UpstreamSchedule(weights),
           NEW i \in DOMAIN weights, NEW j \in DOMAIN weights
    PROVE  NeverTwoAhead(UpstreamSchedule(weights), n, i, j)
<1>1. PICK N \in Nat \ {0} : N = Len(weights) /\ DOMAIN weights = 1..N
    <2>1. Len(weights) \in Nat /\ Len(weights) # 0 /\ DOMAIN weights = 1..Len(weights)
        BY EmptySeq
    <2> QED BY <2>1
<1>2. CASE build_schedule(weights) = <<>>
    <2>1. PICK z : z = UpstreamSchedule(weights) /\ z = [t \in 1..N |-> t]
        BY <1>1, <1>2 DEF UpstreamSchedule
    <2>2. z \in Seq(1..N) /\ Len(z) = N /\ n \in 1..N /\ n \in 0..Len(z)
        BY <2>1
    <2>3. PICK p \in Seq(1..N) : /\ p = SubSeq(z, 1, n) /\ Len(p) = n
                                 /\ \A k \in 1..n : p[k] = z[k]
        <3>1. /\ SubSeq(z, 1, n) \in Seq(1..N) /\ Len(SubSeq(z, 1, n)) = n
              /\ \A k \in 1..n : SubSeq(z, 1, n)[k] = z[k]
            <4>1. PICK T : T = 1..N
                OBVIOUS
            <4>2. z \in Seq(T) /\ n \in 0..Len(z)
                BY <2>2, <4>1
            <4>3. /\ SubSeq(z, 1, n) \in Seq(T) /\ Len(SubSeq(z, 1, n)) = n
                  /\ \A k \in 1..n : SubSeq(z, 1, n)[k] = z[k]
                BY <4>2, PrefixFacts
            <4> QED BY <4>1, <4>3
        <3> QED BY <3>1
    <2>4. SlotsOf(p, i) <= 1
        <3>1. SlotSet(p, n, i) \subseteq {i}
            BY <2>1, <2>2, <2>3 DEF SlotSet
        <3>2. IsFiniteSet({i}) /\ Cardinality({i}) = 1
            BY FS_Singleton
        <3>3. Cardinality(SlotSet(p, n, i)) <= 1
            BY <3>1, <3>2, FS_Subset
        <3> QED BY <2>3, <3>3, SlotsFacts
    <2>5. SlotsOf(p, i) \in Nat /\ SlotsOf(p, j) \in Nat
        BY SlotsFacts
    <2> QED BY <2>1, <2>3, <2>4, <2>5 DEF NeverTwoAhead
<1>3. CASE build_schedule(weights) # <<>>
    <2>1. PICK rem \in Seq(Nat \ {0}) : rem = Remaining(weights) /\ Len(rem) = N
        BY <1>1, RemainingFacts
    <2>2. PICK z \in Seq(1..N) : z = build_schedule(weights) /\ z = UpstreamSchedule(weights)
        BY <1>1, <1>3, BuildFacts DEF UpstreamSchedule
    <2>3. PICK m \in Nat : Dealt(z, rem, m) /\ Layered(z, rem, m)
        BY <2>1, <2>2, BuildFacts
    <2>4. n \in 0..Len(z)
        BY <2>2
    <2>5. PICK c \in 0..m : \A t \in 1..N :
              /\ Capped(rem[t], c - 1) <= SlotsOf(SubSeq(z, 1, n), t)
              /\ SlotsOf(SubSeq(z, 1, n), t) <= Capped(rem[t], c)
        BY <2>1, <2>3, <2>4 DEF Layered
    <2>6. SubSeq(z, 1, n) \in Seq(1..N)
        BY <2>4, PrefixFacts
    <2>7. PICK a \in Nat : a = SlotsOf(SubSeq(z, 1, n), i)
        BY <2>6, SlotsFacts
    <2>8. PICK b \in Nat : b = SlotsOf(SubSeq(z, 1, n), j)
        BY <2>6, SlotsFacts
    <2> i \in 1..Len(rem) /\ j \in 1..Len(rem)
        BY <1>1, <2>1
    <2>9. PICK v \in Nat : v = rem[i]
        BY ElementOfSeq
    <2>10. PICK w \in Nat : w = rem[j]
        BY ElementOfSeq
    <2>11. a <= Capped(v, c) /\ Capped(w, c - 1) <= b /\ b <= Capped(w, c)
        BY <1>1, <2>5, <2>7, <2>8, <2>9, <2>10
    <2>12. SlotsOf(z, j) = Capped(w, m)
        BY <1>1, <2>1, <2>3, <2>10 DEF Dealt
    <2>13. a >= b + 2 => b = Capped(w, m)
        BY <2>11 DEF Capped
    <2> QED BY <2>2, <2>7, <2>8, <2>12, <2>13 DEF NeverTwoAhead
<1> QED BY <1>2, <1>3

-----------------------------------------------------------------------------
(* What is served has schedules built from valid weights. *)

LEMMA WeightsAreValid ==
    ASSUME Course, NEW s \in snapshot, NEW u \in Runtimes(s)
    PROVE  /\ u.weights \in Seq(Nat \ {0}) /\ u.weights # <<>>
           /\ u.schedule = UpstreamSchedule(u.weights)
<1>1. PICK c \in config : TRUE
    BY DEF Course, None
<1>2. s = build_snapshot(c) /\ validate(c) = {} /\ Resolved(c)
    BY Serving
<1>3. s.upstreams = UpstreamMap(c.upstreams) /\ DOMAIN s.upstreams = ToSet(Names(c.upstreams))
    <2>1. s.upstreams = UpstreamMap(c.upstreams)
        BY <1>2, SnapshotFacts
    <2> QED BY <2>1 DEF UpstreamMap
<1>4. PICK i \in DOMAIN c.upstreams : u = UpstreamRuntime(c.upstreams[i])
    <2>1. PICK name \in ToSet(Names(c.upstreams)) : u = UpstreamMap(c.upstreams)[name]
        BY <1>3 DEF Runtimes
    <2>2. ~Repeats(Names(c.upstreams))
        BY <1>2, ChecksPass DEF check_unique_upstreams, Report
    <2> QED BY <1>2, <2>1, <2>2, UpstreamMapFacts DEF Resolved
<1>5. PICK targets \in Seq([url : Text, weight : Nat]) : targets = c.upstreams[i].targets
    BY <1>2 DEF Resolved, Shaped
<1>6. targets # <<>> /\ \A k \in DOMAIN targets : targets[k].weight # 0
    BY <1>2, <1>5, UpstreamPasses DEF ToSet
<1>7. PICK N \in Nat \ {0} : N = Len(targets) /\ DOMAIN targets = 1..N
    <2>1. Len(targets) \in Nat /\ Len(targets) # 0 /\ DOMAIN targets = 1..Len(targets)
        BY <1>6, EmptySeq
    <2> QED BY <2>1
<1>8. \A k \in 1..N : targets[k].weight \in Nat \ {0}
    <2> TAKE k \in 1..N
    <2>1. k \in DOMAIN targets
        BY <1>7
    <2>2. targets[k] \in [url : Text, weight : Nat]
        <3>1. PICK T : T = [url : Text, weight : Nat]
            OBVIOUS
        <3>2. targets \in Seq(T) /\ k \in 1..Len(targets)
            BY <1>5, <1>7, <3>1
        <3>3. targets[k] \in T
            BY <3>2, ElementOfSeq
        <3> QED BY <3>1, <3>3
    <2> QED BY <1>6, <2>1, <2>2
<1>9. /\ u.weights = [k \in 1..N |-> targets[k].weight]
      /\ u.schedule = UpstreamSchedule(u.weights)
    BY <1>4, <1>5, <1>7 DEF UpstreamRuntime
<1>10. u.weights \in Seq(Nat \ {0}) /\ Len(u.weights) = N
    BY <1>8, <1>9
<1> QED BY <1>9, <1>10, EmptySeq

(***************************************************************************)
(* Whatever the weights, slots are handed out exactly in proportion to     *)
(* them and in the shortest schedule that does so, unless the reduced      *)
(* weights sum to 2^32 or more (build_schedule of snapshot.rs).            *)
(***************************************************************************)
THEOREM SharesAreProportional == Spec => []Proportional
<1>1. Course => Proportional
    <2> SUFFICES ASSUME Course, NEW s \in snapshot, NEW u \in Runtimes(s), Fits(u.weights)
                 PROVE  ShareBy(u.schedule, u.weights)
        BY DEF Proportional, ShareBy
    <2>1. PICK w \in Seq(Nat \ {0}) : w = u.weights /\ w # <<>> /\ u.schedule = UpstreamSchedule(w)
        BY WeightsAreValid
    <2>2. SumOf(Remaining(w)) < U32
        BY <2>1 DEF Fits
    <2> QED BY <2>1, <2>2, ScheduleShares
<1> QED BY <1>1, CourseHolds, PTL

(***************************************************************************)
(* Every slot is a target's and every target has one, for any number of    *)
(* targets and any weights, those whose u32 sum wraps included             *)
(* (build_schedule and the fallback of build_snapshot_inner).              *)
(***************************************************************************)
THEOREM EveryoneIsScheduled == Spec => []EveryTargetScheduled
<1>1. Course => EveryTargetScheduled
    <2> SUFFICES ASSUME Course, NEW s \in snapshot, NEW u \in Runtimes(s)
                 PROVE  ToSet(u.schedule) = DOMAIN u.weights
        BY DEF EveryTargetScheduled
    <2>1. PICK w \in Seq(Nat \ {0}) : w = u.weights /\ w # <<>> /\ u.schedule = UpstreamSchedule(w)
        BY WeightsAreValid
    <2> QED BY <2>1, ScheduleReachesAll
<1> QED BY <1>1, CourseHolds, PTL

(***************************************************************************)
(* At any point of a pass over the schedule a target is two picks ahead of *)
(* another only when the other has no slot left in this pass               *)
(* (build_schedule deals one slot per round).                              *)
(***************************************************************************)
THEOREM SlotsAreInterleaved == Spec => []Interleaved
<1>1. Course => Interleaved
    <2> SUFFICES ASSUME Course, NEW s \in snapshot, NEW u \in Runtimes(s), NEW n \in DOMAIN u.schedule,
                        NEW i \in DOMAIN u.weights, NEW j \in DOMAIN u.weights
                 PROVE  NeverTwoAhead(u.schedule, n, i, j)
        BY DEF Interleaved, NeverTwoAhead
    <2>1. PICK w \in Seq(Nat \ {0}) : w = u.weights /\ w # <<>> /\ u.schedule = UpstreamSchedule(w)
        BY WeightsAreValid
    <2>2. n \in DOMAIN UpstreamSchedule(w) /\ i \in DOMAIN w /\ j \in DOMAIN w
        BY <2>1
    <2> QED BY <2>1, <2>2, ScheduleInterleaves
<1> QED BY <1>1, CourseHolds, PTL
=============================================================================
