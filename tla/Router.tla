------------------------------- MODULE Router -------------------------------
(***************************************************************************)
(* The routing table of a listener (crates/gatepup-proxy/src/router.rs)    *)
(* and the client address it is used with (resolve_client_ip and           *)
(* append_forwarded_for of proxy.rs).  All of it is pure; Startup.tla      *)
(* compiles tables from configurations and sends requests through them.    *)
(*                                                                         *)
(* A host is the sequence of its labels (none of them empty), a path the   *)
(* sequence of its characters, since prefixes are not aligned to path      *)
(* segments.  An optional value is a set of at most one element.  A        *)
(* network is the set of its addresses; an entry that does not parse is    *)
(* the empty set, as is an X-Forwarded-For hop that is no address.         *)
(***************************************************************************)
EXTENDS Integers, SequencesExt

CONSTANT LowerCase      \* to_ascii_lowercase, on labels

Slash == "/"
Root == <<Slash>>
Some(x) == {x}
None == {}

-----------------------------------------------------------------------------
(* Hosts. *)
AnyHost == [kind |-> "any", labels |-> <<>>]
Exact(h) == [kind |-> "exact", labels |-> h]
Wildcard(suffix) == [kind |-> "wildcard", labels |-> suffix]

HostMatch(host) ==
    CASE host \in {None, Some(<<>>)}             -> AnyHost
      [] \E h \in host : h # <<>> /\ Head(h) = "*" /\ Len(h) > 1
                                                 -> Wildcard(Tail(CHOOSE h \in host : TRUE))
      [] OTHER                                   -> Exact(CHOOSE h \in host : TRUE)

\* A wildcard stands for one label or more, never for none.
HostMatches(hm, host) ==
    \/ hm.kind = "any"
    \/ hm.kind = "exact" /\ hm.labels = host
    \/ hm.kind = "wildcard" /\ IsStrictSuffix(hm.labels, host)

Rank(hm) == CASE hm.kind = "exact" -> 2 [] hm.kind = "wildcard" -> 1 [] OTHER -> 0

\* request_host: the port is gone, the rest is lower case.
request_host(raw) == [i \in DOMAIN raw |-> LowerCase[raw[i]]]

-----------------------------------------------------------------------------
(* Routes. *)

\* The prefix a route is matched by: "/" if it gives none.
EffectivePrefix(prefix) ==
    IF prefix \in {None, Some(<<>>)} THEN Root ELSE CHOOSE p \in prefix : TRUE

\* IpAccess::compile drops what does not parse.
IpAccess(entries) == entries \ {{}}

\* Router::build, of one route of the configuration.
Compile(r) ==
    [name |-> r.name, upstream |-> r.upstream,
     host_match |-> HostMatch(r.host), path_prefix |-> EffectivePrefix(r.path_prefix),
     strip_prefix |-> r.strip_prefix,
     allow |-> IpAccess(r.allow), deny |-> IpAccess(r.deny)]

BuildRouter(routes) == [i \in DOMAIN routes |-> Compile(routes[i])]

Matches(r, host, path) == HostMatches(r.host_match, host) /\ IsPrefix(r.path_prefix, path)

Specificity(r) == <<Rank(r.host_match), Len(r.path_prefix)>>
Above(s, t) == s[1] > t[1] \/ (s[1] = t[1] /\ s[2] > t[2])

Matching(router, host, path) == {i \in DOMAIN router : Matches(router[i], host, path)}

\* max_by_key returns the last of several maxima.
match_route(router, host, path) ==
    {i \in Matching(router, host, path) : \A j \in Matching(router, host, path) :
        LET a == Specificity(router[i])
            b == Specificity(router[j])
        IN  Above(a, b) \/ (a = b /\ j <= i)}

(* Mutant of rewritten_path: the leading slash is not restored. *)
rewritten_pathBare(r, path) ==
    LET stripped == SubSeq(path, Len(r.path_prefix) + 1, Len(path))
    IN  IF ~r.strip_prefix THEN path
        ELSE IF stripped = <<>> THEN Root ELSE stripped

\* rewritten_path_and_query; the query is split off before and put back after.
rewritten_path(r, path) ==
    LET stripped == SubSeq(path, Len(r.path_prefix) + 1, Len(path))
    IN  CASE ~r.strip_prefix -> path
          [] r.strip_prefix /\ stripped # <<>> /\ Head(stripped) = Slash -> stripped
          [] OTHER -> Root \o stripped

-----------------------------------------------------------------------------
(* Addresses. *)
Allows(r, ip) ==
    /\ \A net \in r.deny : ip \notin net
    /\ r.allow = {} \/ \E net \in r.allow : ip \in net

Trusts(trusted, ip) == \E net \in trusted : ip \in net

\* The hops that parse and are not themselves trusted.
Strangers(xff, trusted) == {i \in DOMAIN xff : \E ip \in xff[i] : ~Trusts(trusted, ip)}

(* Mutant of resolve_client_ip: the header is read from the left. *)
resolve_client_ipLeft(peer, xff, trusted) ==
    IF Trusts(trusted, peer) /\ Strangers(xff, trusted) # {}
    THEN CHOOSE ip \in xff[Min(Strangers(xff, trusted))] : TRUE
    ELSE peer

\* Right to left, the first of them.
resolve_client_ip(peer, xff, trusted) ==
    IF Trusts(trusted, peer) /\ Strangers(xff, trusted) # {}
    THEN CHOOSE ip \in xff[Max(Strangers(xff, trusted))] : TRUE
    ELSE peer

\* The peer, not the resolved client, is appended for the next hop.
append_forwarded_for(xff, peer) == Append(xff, Some(peer))
=============================================================================
