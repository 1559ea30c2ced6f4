------------------------------ MODULE Compress ------------------------------
(***************************************************************************)
(* Response compression (crates/gatepup-proxy/src/compress.rs).  A         *)
(* response is reduced to its headers that count, [encoding, type, length, *)
(* vary], and coded, the codings its body has been through.  An            *)
(* Accept-Encoding header is the set of the names in it: q-values are not  *)
(* parsed.  An optional value is a set of at most one element.             *)
(***************************************************************************)
EXTENDS Integers, Sequences

\* build_snapshot_inner: what is left of the settings, if they are enabled.
Compression(settings) ==
    {[gzip |-> "gzip" \in z.algorithms, br |-> "br" \in z.algorithms,
      min_bytes |-> z.min_bytes, types |-> z.types] : z \in {z \in settings : z.enabled}}

(* Mutant of should_compress: an encoded response is encoded again. *)
should_compressTwice(resp, comp) ==
    resp.type \in comp.types /\ \A len \in resp.length : len >= comp.min_bytes

should_compress(resp, comp) ==
    /\ resp.encoding = {}
    /\ resp.type \in comp.types
    /\ \A len \in resp.length : len >= comp.min_bytes

Accepts(accept, name) == {name, "*"} \intersect accept # {}

\* Brotli first.
choose_encoding(accept, comp) ==
    IF comp.br /\ Accepts(accept, "br") THEN {"br"}
    ELSE {enc \in {"gzip"} : comp.gzip /\ Accepts(accept, enc)}

compress(resp, enc) ==
    [resp EXCEPT !.encoding = {enc}, !.length = {}, !.vary = TRUE, !.coded = Append(@, enc)]

\* The responses that result: one.
maybe_compress(resp, accept, comp) ==
    IF should_compress(resp, comp) /\ choose_encoding(accept, comp) # {}
    THEN {compress(resp, enc) : enc \in choose_encoding(accept, comp)}
    ELSE {resp}
=============================================================================
