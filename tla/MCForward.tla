----------------------------- MODULE MCForward -----------------------------
(***************************************************************************)
(* Instances of Forward: two targets a and b of equal weight, and the      *)
(* kinds of requests whose paths differ.  Body sizes are relative to a     *)
(* buffer cap of 2 and a limit of 1.                                       *)
(***************************************************************************)
EXTENDS Forward, TLC

CONSTANTS a, b, r1, r2

Alternating == <<a, b>>

Request(listed, declared, size) ==
    [upgrade |-> FALSE, method_listed |-> listed, declared |-> declared, size |-> size,
     unbuildable |-> {}]

Declared == Request(TRUE, TRUE, 2)          \* over the limit, and says so
Replayed == Request(TRUE, FALSE, 2)         \* over the limit, but buffered
Chunked == Request(TRUE, FALSE, 3)          \* over the buffer cap
PostChunked == Request(FALSE, FALSE, 2)     \* streamed, and cut off
Upgrade == [Request(TRUE, TRUE, 0) EXCEPT !.upgrade = TRUE]
Unbuildable(k) == [k EXCEPT !.unbuildable = {b}]

AllKinds == {Declared, Replayed, Chunked, PostChunked, Upgrade,
             Unbuildable(Replayed), Unbuildable(Upgrade)}
Bodies == {Replayed, Chunked, PostChunked}
LargeChunked == {Chunked}

\* The requests are alike: r1 and r2 may be exchanged.
Alike == Permutations({r1, r2})

AnyFailure == {"connect_error", "connect_timeout", "upstream_5xx"}
Tries(n) == [enabled |-> TRUE, attempts |-> n, retry_on |-> AnyFailure]
TwoTries == Tries(2)
ThreeTries == Tries(3)
=============================================================================
