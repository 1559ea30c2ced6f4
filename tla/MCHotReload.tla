---------------------------- MODULE MCHotReload ----------------------------
(***************************************************************************)
(* HotReload with a file that moves between two valid configurations and a *)
(* broken one: Split drops upstream a, Broken routes to an upstream it     *)
(* does not declare.                                                       *)
(***************************************************************************)
EXTENDS HotReload

Config(routed, ups, checked, connect) ==
    [routed |-> routed, upstreams |-> ups, checked |-> checked,
     connect_timeout |-> connect]

Plain == Config({"a"}, {"a", "b"}, {"a"}, 1)
Split == Config({"b"}, {"b"}, {"b"}, 2)
Broken == Config({"a"}, {"b"}, {}, 1)

\* For the liveness run, one upstream: with and without its health check, and
\* not declared at all.
Single == Config({"a"}, {"a"}, {"a"}, 1)
Unchecked == Config({"a"}, {"a"}, {}, 1)
Undeclared == Config({"a"}, {}, {}, 1)

LiveConfigs == {Single, Unchecked, Undeclared}

MCConfigs == {Plain, Split, Broken}
=============================================================================
