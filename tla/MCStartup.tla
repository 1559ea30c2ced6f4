----------------------------- MODULE MCStartup -----------------------------
(***************************************************************************)
(* Startup over environments that each vary one part of a configuration    *)
(* that is otherwise plain: the weights of an upstream, the two routes of  *)
(* a listener, trusted proxies and access lists, one value that validation *)
(* is about, the compression, or the sources themselves.                   *)
(***************************************************************************)
EXTENDS Startup

CONSTANTS MaxTargets, MaxWeight

Lower == [l \in {"a", "A", "b", "e", "*"} |-> IF l = "A" THEN "a" ELSE l]

MCText == STRING

-----------------------------------------------------------------------------
Targets(weights) == [i \in DOMAIN weights |-> [url |-> "http://t", weight |-> weights[i]]]

Upstream(weights) ==
    [name |-> "default", targets |-> Targets(weights), health_check |-> None, retries |-> None]

Plain ==
    [log_level |-> "info",
     listeners |-> <<[name |-> "l", bind |-> "0.0.0.0:8080", protocol |-> "http", tls |-> None,
                      routes |-> <<Route(None, Some(Root))>>]>>,
     upstreams |-> <<Upstream(<<1>>)>>,
     timeouts |-> DefaultTimeouts, limits |-> DefaultLimits, trusted_proxies |-> {},
     compression |-> None, metrics |-> Some([enabled |-> TRUE, path |-> "/metrics"]),
     admin |-> Some([enabled |-> TRUE, bind |-> "0.0.0.0:8080", token |-> Some("secret")])]

WithListener(l) == [Plain EXCEPT !.listeners = <<l>>]
TheListener == Plain.listeners[1]
WithRoutes(routes) == WithListener([TheListener EXCEPT !.routes = routes])
TheRoute == Route(None, Some(Root))
TheAlternate == [TheListener EXCEPT
                    !.name = "alternate",
                    !.routes = <<[Route(None, Some(<<"/", "a">>)) EXCEPT !.strip_prefix = TRUE]>>]
WithUpstream(u) == [Plain EXCEPT !.upstreams = <<u>>]
TheUpstream == Upstream(<<1>>)

-----------------------------------------------------------------------------
Weights == UNION {[1..n -> 1..MaxWeight] : n \in 1..MaxTargets}
Weighted == {WithUpstream(Upstream(w)) : w \in Weights}

\* Left out, empty, exact, in capitals, wildcards one inside the other, and bad ones.
Hosts == {None, Some(<<>>), Some(<<"a", "e">>), Some(<<"A", "e">>), Some(<<"*", "e">>),
          Some(<<"*", "a", "e">>), Some(<<"a", "*">>)}
PathPrefixes == {None, Some(<<>>), Some(<<"/">>), Some(<<"/", "a">>), Some(<<"/", "a", "/">>),
                 Some(<<"a">>)}
Tables == {WithRoutes(<<[Route(h1, p1) EXCEPT !.name = "first", !.strip_prefix = TRUE],
                        Route(h2, p2)>>) :
              h1 \in Hosts, h2 \in Hosts, p1 \in PathPrefixes, p2 \in PathPrefixes}

Lists == {{}, {{"c1"}}, {{"c1", "p1"}, {"c2"}}, {{"c1"}, {}}}
Guarded == {[WithRoutes(<<[TheRoute EXCEPT !.allow = allow, !.deny = deny]>>)
                EXCEPT !.trusted_proxies = trusted] :
              allow \in Lists, deny \in Lists,
              trusted \in {{}, {{"p1"}}, {{"p1"}, {"p2"}}, {{"p1", "p2", "c2"}}, {{}}}}

HealthCheck(enabled, interval, timeout) ==
    [TheUpstream EXCEPT !.health_check =
        Some([enabled |-> enabled, interval_seconds |-> interval, timeout_ms |-> timeout])]
Retries(enabled, attempts, methods, on) ==
    [TheUpstream EXCEPT !.retries =
        Some([enabled |-> enabled, attempts |-> attempts, methods |-> methods, retry_on |-> on])]
Tls(protocol, tls) == [TheListener EXCEPT !.protocol = protocol, !.tls = tls]
Files(cert, key) == Some([cert |-> cert, key |-> key])

Checked ==
    {WithUpstream(HealthCheck(on, i, t)) : on \in BOOLEAN, i \in 0..1, t \in {0, 999, 1000}}
    \union {WithUpstream(Retries(on, n, m, cond)) : on \in BOOLEAN, n \in 0..1,
                m \in {{}, {"GET"}, {"FETCH"}}, cond \in {{}, {"upstream_5xx"}, {"timeout"}}}
    \union {WithUpstream(Upstream(<<>>)), WithUpstream(Upstream(<<1, 0>>)),
            WithUpstream([TheUpstream EXCEPT !.targets = <<[url |-> "bad", weight |-> 1]>>]),
            WithUpstream([TheUpstream EXCEPT !.name = "other"]),
            [Plain EXCEPT !.upstreams = <<TheUpstream, Upstream(<<2>>)>>],
            [Plain EXCEPT !.listeners = <<TheListener, TheListener>>],
            [Plain EXCEPT !.listeners = <<TheListener, TheAlternate>>],
            [Plain EXCEPT !.listeners = <<>>],
            [Plain EXCEPT !.log_level = "loud"]}
    \union {[Plain EXCEPT !.compression = Some([enabled |-> on, algorithms |-> a, min_bytes |-> 2,
                                               types |-> {"text/html"}])] :
                on \in BOOLEAN, a \in {{"br"}, {"gzip"}, {"br", "gzip"}, {"zip"}, {}}}
    \union {WithListener([TheListener EXCEPT !.bind = b]) : b \in {"nowhere"}}
    \union {WithListener(Tls(p, tls)) : p \in {"http", "https"},
                tls \in {None, Files("c", "k"), Files("", "k"), Files("c", "")}}
    \union {WithRoutes(<<TheRoute, [Route(None, Some(<<"/", "a">>)) EXCEPT !.name = n]>>) :
                n \in {"default", "second"}}
    \union {WithRoutes(<<[TheRoute EXCEPT !.headers = h, !.basic_auth = b]>>) :
                h \in {None, Some("valid"), Some("bad name")}, b \in {None, Some("valid"), Some("empty")}}
    \union {WithRoutes(<<[TheRoute EXCEPT !.rate_limit = Some([requests_per_second |-> n])]>>) :
                n \in {-1, 0, 1}}
    \union {[Plain EXCEPT !.limits.max_header_bytes = n] :
                n \in {0, 1, MIN_HEADER_BYTES - 1, MIN_HEADER_BYTES}}
    \union {[Plain EXCEPT !.timeouts = [connect |-> x, request |-> y]] : x \in 0..1, y \in 0..1}
    \union {[Plain EXCEPT !.admin = Some([enabled |-> on, bind |-> b, token |-> t])] :
                on \in BOOLEAN, b \in {"nowhere", "0.0.0.0:8080"}, t \in {None, Some(""), Some("secret")}}
    \union {[Plain EXCEPT !.metrics = m] : m \in {None, Some([enabled |-> FALSE, path |-> "/metrics"]),
                                                  Some([enabled |-> TRUE, path |-> "/health"])}}

-----------------------------------------------------------------------------
Unset == [cli_path |-> None, GATEPUP_CONFIG |-> None, GATEPUP_CONFIG_JSON |-> None,
          GATEPUP_LISTEN |-> None, GATEPUP_UPSTREAM |-> None, GATEPUP_TLS_CERT |-> None,
          GATEPUP_TLS_KEY |-> None, GATEPUP_HEALTHCHECK_PATH |-> None,
          GATEPUP_ROUTE_HOST |-> None, GATEPUP_LOG |-> None, GATEPUP_ADMIN |-> None,
          GATEPUP_ADMIN_TOKEN |-> None, GATEPUP_METRICS_PATH |-> None,
          GATEPUP_TIMEOUT_CONNECT_MS |-> None, GATEPUP_TIMEOUT_REQUEST_MS |-> None]

\* Absent, there but broken, or there; a variable may also be no Unicode.
Document == {None, Some(None), Some(Some(Plain))}
Variable == Document \union {Some(NotUnicode)}

Sources ==
    {[Unset EXCEPT !.cli_path = cli, !.GATEPUP_CONFIG = path, !.GATEPUP_CONFIG_JSON = json,
                   !.GATEPUP_LISTEN = listen, !.GATEPUP_TIMEOUT_CONNECT_MS = ms] :
        cli \in Document, path \in Variable, json \in Variable,
        listen \in {None, Some("0.0.0.0:8080")},
        ms \in {None, Some(7), Some(-1), Some(NotUnicode)}}

SimpleMode ==
    {[Unset EXCEPT !.GATEPUP_UPSTREAM = urls, !.GATEPUP_TLS_CERT = cert, !.GATEPUP_TLS_KEY = key,
                   !.GATEPUP_HEALTHCHECK_PATH = path, !.GATEPUP_ROUTE_HOST = host] :
        urls \in {Some(<<>>), Some(<<"http://t", "", "http://u">>)}, cert \in {None, Some("c")},
        key \in {None, Some("k")}, path \in {None, Some("/up")}, host \in {None, Some(<<"a", "e">>)}}

Tokenless == [Plain EXCEPT !.admin = {[a EXCEPT !.token = None] : a \in @}]

Overridden ==
    {[Unset EXCEPT !.cli_path = Some(Some(c)), !.GATEPUP_ADMIN = bind,
                   !.GATEPUP_ADMIN_TOKEN = token, !.GATEPUP_METRICS_PATH = path,
                   !.GATEPUP_LOG = level, !.GATEPUP_TIMEOUT_REQUEST_MS = ms] :
        c \in {Plain, Tokenless}, bind \in {None, Some("0.0.0.0:8080"), Some(NotUnicode)},
        token \in {None, Some("other"), Some(""), Some(NotUnicode)},
        path \in {None, Some("/m"), Some("/health")}, level \in {None, Some("loud")},
        ms \in {None, Some(0)}}

FromFile(c) == [Unset EXCEPT !.cli_path = Some(Some(c))]

MCEnvironments ==
    {FromFile(c) : c \in Weighted \union Tables \union Guarded \union Checked}
    \union Sources \union SimpleMode \union Overridden

-----------------------------------------------------------------------------
Reply(encoding, type, length) ==
    [encoding |-> encoding, type |-> type, length |-> length, vary |-> FALSE,
     coded |-> SetToSeq(encoding)]

Request(host, path, origin, via, sent) ==
    [kind |-> "request", host |-> host, path |-> path, origin |-> origin, via |-> via,
     sent |-> sent, accept |-> {}, reply |-> Reply(None, "text/html", None)]

RequestHosts == {<<"e">>, <<"a", "e">>, <<"A", "e">>, <<"b", "e">>, <<"b", "a", "e">>}
RequestPaths == {<<"/">>, <<"/", "a">>, <<"/", "a", "/">>, <<"/", "a", "b">>, <<"/", "a", "/", "b">>}

\* X-Forwarded-For as the client sent it: other addresses, a proxy's, and no address.
Sent == {<<>>, <<{"c1"}>>, <<{"c2"}, {"p1"}>>, <<{"c1"}, {}>>}

MCRequests ==
    {Request(h, p, "c1", <<>>, <<>>) : h \in RequestHosts, p \in RequestPaths}
    \union {Request(<<"e">>, Root, origin, via, sent) : origin \in {"c1", "c2"},
               via \in {<<>>, <<"p1">>, <<"p2", "p1">>, <<"p1", "p2">>, <<"c2", "p1">>}, sent \in Sent}
    \union {[Request(<<"e">>, Root, "c1", <<>>, <<>>) EXCEPT !.accept = accept,
                                                           !.reply = Reply(enc, type, len)] :
               accept \in {{}, {"gzip"}, {"gzip", "br"}, {"identity", "*"}},
               enc \in {None, Some("gzip")}, type \in {"text/html", "image/png"},
               len \in {None, Some(1), Some(2)}}

MCAdminRequests ==
    {[kind |-> "admin", method |-> m, path |-> p, token |-> t] :
        m \in {"GET", "POST"}, p \in {"/health", "/routes", "/config/effective", "/metrics", "/x"},
        t \in {None, Some("secret"), Some("other")}}
=============================================================================
