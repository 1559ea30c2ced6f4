----------------------------- MODULE HotReload -----------------------------
(***************************************************************************)
(* Hot reload: the signal loop of crates/gatepup-core/src/app.rs swaps the *)
(* shared snapshot and then notifies the health supervisor of              *)
(* crates/gatepup-proxy/src/health.rs, which stops one generation of       *)
(* active health loops and spawns the next, while requests                 *)
(* (crates/gatepup-proxy/src/proxy.rs) run on the snapshot they loaded and *)
(* the operator edits the file and sends signals at any moment.  The three *)
(* publications of a reload (shared, effective, reload_tx) are separate    *)
(* steps; tokio's watch channel is its version number and the version each *)
(* receiver has seen.                                                      *)
(***************************************************************************)
EXTENDS Naturals, FiniteSets

CONSTANTS
    Configs,    \* contents the configuration file may have
    Upstreams,  \* names of upstreams
    Requests,
    MaxHups,    \* bound on the SIGHUPs of a behaviour
    MaxEdits    \* bound on the edits of the file

(***************************************************************************)
(* A configuration, as far as reload is concerned: the upstreams that      *)
(* routes name, those it declares, those with an enabled health check and  *)
(* the connect timeout.                                                    *)
(***************************************************************************)
ConfigType ==
    [routed : SUBSET Upstreams, upstreams : SUBSET Upstreams,
     checked : SUBSET Upstreams, connect_timeout : Nat]

\* validate(): every route names a declared upstream (the check reload depends on).
Valid(c) == c.routed \subseteq c.upstreams

ASSUME HotReloadAssumption ==
    /\ Configs \subseteq ConfigType
    /\ \A c \in Configs : c.checked \subseteq c.upstreams   \* part of the upstream's block
    /\ MaxHups \in Nat
    /\ MaxEdits \in Nat

VARIABLES
    file, edits,            \* the configuration file and how often it was edited
    hup, term, hups,        \* pending signals (the kernel and tokio coalesce them)
    rpc,                    \* signal_loop and reload: where it is
    built,                  \* the snapshot reload has built
    shared, effective,      \* the ArcSwaps the proxy and the admin API read
    version,                \* of the reload watch channel
    shutdown,               \* the shutdown watch channel
    startup,                \* the snapshot serve_shared started from
    spc, seen, gen,         \* supervisor: where it is, version seen, generations made
    snapOf,                 \* snapshot each generation was spawned from
    stopped,                \* generations whose gen_stop was signalled
    loops,                  \* active health loops, by generation and upstream
    qpc, snap, route        \* requests: where, snapshot loaded, upstream routed to

operator == <<file, edits, hup, term, hups>>
signals == <<rpc, built>>
cells == <<shared, effective, version, shutdown, startup>>
supervisor == <<spc, seen, gen, snapOf, stopped>>
requests == <<qpc, snap, route>>
vars == <<operator, signals, cells, supervisor, loops, requests>>

\* A snapshot: its configuration, and an identity (health state is per snapshot).
Snapshot == [id : Nat, cfg : Configs]
\* build_snapshot and build_reload_snapshot, of a validated configuration.
build_snapshot(id, c) == [id |-> id, cfg |-> c]
\* Every notification makes one more generation.
Generations == 0..MaxHups
NoRoute == "none"

Init ==
    /\ file \in {c \in Configs : Valid(c)}
    /\ edits = 0 /\ hups = 0 /\ hup = FALSE /\ term = FALSE
    /\ rpc = "select"
    /\ startup = build_snapshot(0, file)
    /\ built = startup /\ shared = startup
    /\ effective = file
    /\ version = 0 /\ seen = 0
    /\ shutdown = FALSE
    /\ spc = "start" /\ gen = 0
    /\ snapOf = [g \in Generations |-> startup]
    /\ stopped = {}
    /\ loops = [g \in Generations |-> [u \in Upstreams |-> "none"]]
    /\ qpc = [r \in Requests |-> "arrive"]
    /\ snap = [r \in Requests |-> startup]
    /\ route = [r \in Requests |-> NoRoute]

-----------------------------------------------------------------------------
(* The operator. *)
EditFile(c) ==
    /\ edits < MaxEdits /\ c # file
    /\ file' = c /\ edits' = edits + 1
    /\ UNCHANGED <<hup, term, hups, signals, cells, supervisor, loops, requests>>

SendHup ==
    /\ hups < MaxHups
    /\ hup' = TRUE /\ hups' = hups + 1
    /\ UNCHANGED <<file, edits, term, signals, cells, supervisor, loops, requests>>

SendTerm ==
    /\ ~term
    /\ term' = TRUE
    /\ UNCHANGED <<file, edits, hup, hups, signals, cells, supervisor, loops, requests>>

-----------------------------------------------------------------------------
(* signal_loop and reload. *)
RecvTerm ==
    /\ rpc = "select" /\ term
    /\ shutdown' = TRUE
    /\ rpc' = "done"
    /\ UNCHANGED <<operator, built, shared, effective, version, startup,
                   supervisor, loops, requests>>

(* Mutant of RecvHup: the signal is consumed and nothing is done. *)
RecvHupIgnored ==
    /\ rpc = "select" /\ hup
    /\ hup' = FALSE
    /\ UNCHANGED <<file, edits, term, hups, signals, cells, supervisor, loops, requests>>

RecvHup ==
    /\ rpc = "select" /\ hup
    /\ hup' = FALSE
    /\ rpc' = "resolve"
    /\ UNCHANGED <<file, edits, term, hups, built, cells, supervisor, loops, requests>>

\* resolve_validated and build_reload_snapshot; any error keeps what is there.
Resolve ==
    /\ rpc = "resolve"
    /\ \/ /\ Valid(file)
          /\ built' = build_snapshot(version + 1, file)
          /\ rpc' = "shared"
       \/ /\ ~Valid(file)
          /\ rpc' = "select"
          /\ UNCHANGED built
    /\ UNCHANGED <<operator, cells, supervisor, loops, requests>>

StoreShared ==
    /\ rpc = "shared"
    /\ shared' = built
    /\ rpc' = "effective"
    /\ UNCHANGED <<operator, built, effective, version, shutdown, startup,
                   supervisor, loops, requests>>

(* Mutant of StoreEffective: the admin view is forgotten. *)
StoreEffectiveNever ==
    /\ rpc = "effective"
    /\ rpc' = "notify"
    /\ UNCHANGED <<operator, built, cells, supervisor, loops, requests>>

StoreEffective ==
    /\ rpc = "effective"
    /\ effective' = built.cfg
    /\ rpc' = "notify"
    /\ UNCHANGED <<operator, built, shared, version, shutdown, startup,
                   supervisor, loops, requests>>

(* Mutant of Notify. *)
NotifyNever ==
    /\ rpc = "notify"
    /\ rpc' = "select"
    /\ UNCHANGED <<operator, built, cells, supervisor, loops, requests>>

\* reload_tx.send_modify and the success counter.
Notify ==
    /\ rpc = "notify"
    /\ version' = version + 1
    /\ rpc' = "select"
    /\ UNCHANGED <<operator, built, shared, effective, shutdown, startup,
                   supervisor, loops, requests>>

SignalLoop == \/ RecvTerm \/ RecvHup \/ Resolve
              \/ StoreShared \/ StoreEffective \/ Notify

-----------------------------------------------------------------------------
(* serve_shared and run_health_supervisor. *)

\* serve spawned the signal loop before it calls serve_shared, which takes the
\* listeners, their TLS acceptors and the connect timeout from what it loads.
ServeShared ==
    /\ spc = "start"
    /\ startup' = shared
    /\ spc' = "stop"
    /\ UNCHANGED <<operator, signals, shared, effective, version, shutdown,
                   seen, gen, snapOf, stopped, loops, requests>>

\* Only build_snapshot builds acceptors; build_reload_snapshot leaves them out.
HasAcceptors(s) == s.id = 0

(* Mutant of SupStop: the old generation is kept. *)
SupStopNothing ==
    /\ spc = "stop"
    /\ spc' = "load"
    /\ UNCHANGED <<operator, signals, cells, seen, gen, snapOf, stopped, loops, requests>>

\* Top of the loop: signal the generation spawned last, if any.
SupStop ==
    /\ spc = "stop"
    /\ stopped' = IF gen = 0 THEN stopped ELSE stopped \union {gen - 1}
    /\ spc' = "load"
    /\ UNCHANGED <<operator, signals, cells, seen, gen, snapOf, loops, requests>>

SupLoad ==
    /\ spc = "load"
    /\ snapOf' = [snapOf EXCEPT ![gen] = shared]
    /\ spc' = "spawn"
    /\ UNCHANGED <<operator, signals, cells, seen, gen, stopped, loops, requests>>

(* Mutant of SupSpawn: the channel is marked as seen only now, after the load. *)
SupSpawnMarksSeen ==
    /\ spc = "spawn"
    /\ loops' = [loops EXCEPT ![gen] = [u \in Upstreams |->
                    IF u \in snapOf[gen].cfg.checked THEN "select" ELSE "none"]]
    /\ gen' = gen + 1
    /\ seen' = version
    /\ spc' = "wait"
    /\ UNCHANGED <<operator, signals, cells, snapOf, stopped, requests>>

\* One loop per upstream with an enabled health check.
SupSpawn ==
    /\ spc = "spawn"
    /\ loops' = [loops EXCEPT ![gen] = [u \in Upstreams |->
                    IF u \in snapOf[gen].cfg.checked THEN "select" ELSE "none"]]
    /\ gen' = gen + 1
    /\ spc' = "wait"
    /\ UNCHANGED <<operator, signals, cells, seen, snapOf, stopped, requests>>

SupReload ==
    /\ spc = "wait" /\ seen # version
    /\ seen' = version
    /\ spc' = "stop"
    /\ UNCHANGED <<operator, signals, cells, gen, snapOf, stopped, loops, requests>>

\* shutdown.changed(), or the reload sender dropped with the signal loop.
SupShutdown ==
    /\ spc = "wait" /\ shutdown
    /\ stopped' = stopped \union {gen - 1}
    /\ spc' = "done"
    /\ UNCHANGED <<operator, signals, cells, seen, gen, snapOf, loops, requests>>

Supervisor == ServeShared \/ SupStop \/ SupLoad \/ SupSpawn \/ SupReload \/ SupShutdown

-----------------------------------------------------------------------------
(* run_health_checks of one upstream in one generation. *)
SetLoop(g, u, to) == loops' = [loops EXCEPT ![g][u] = to]

(* Mutant of LoopStop: only the shutdown channel is listened to. *)
LoopStopShutdown(g, u) ==
    /\ loops[g][u] = "select"
    /\ shutdown
    /\ SetLoop(g, u, "exited")
    /\ UNCHANGED <<operator, signals, cells, supervisor, requests>>

LoopStop(g, u) ==
    /\ loops[g][u] = "select"
    /\ shutdown \/ g \in stopped
    /\ SetLoop(g, u, "exited")
    /\ UNCHANGED <<operator, signals, cells, supervisor, requests>>

\* The ticker fires: every target is probed before the next select.
LoopSweep(g, u) ==
    /\ loops[g][u] = "select"
    /\ SetLoop(g, u, "sweep")
    /\ UNCHANGED <<operator, signals, cells, supervisor, requests>>

LoopSwept(g, u) ==
    /\ loops[g][u] = "sweep"
    /\ SetLoop(g, u, "select")
    /\ UNCHANGED <<operator, signals, cells, supervisor, requests>>

-----------------------------------------------------------------------------
(* handle and forward, as far as they touch the snapshot. *)
LoadSnapshot(r) ==
    /\ qpc[r] = "arrive" /\ spc # "start"
    /\ snap' = [snap EXCEPT ![r] = shared]
    /\ qpc' = [qpc EXCEPT ![r] = "match"]
    /\ UNCHANGED <<operator, signals, cells, supervisor, loops, route>>

MatchRoute(r) ==
    /\ qpc[r] = "match"
    /\ \/ \E u \in snap[r].cfg.routed :
             /\ route' = [route EXCEPT ![r] = u]
             /\ qpc' = [qpc EXCEPT ![r] = "lookup"]
       \/ qpc' = [qpc EXCEPT ![r] = "not_found"] /\ UNCHANGED route
    /\ UNCHANGED <<operator, signals, cells, supervisor, loops, snap>>

(* Mutant of Lookup: the current snapshot instead of the request's. *)
LookupShared(r) ==
    /\ qpc[r] = "lookup"
    /\ qpc' = [qpc EXCEPT ![r] = IF route[r] \in shared.cfg.upstreams
                                 THEN "forward" ELSE "upstream_missing"]
    /\ UNCHANGED <<operator, signals, cells, supervisor, loops, snap, route>>

Lookup(r) ==
    /\ qpc[r] = "lookup"
    /\ qpc' = [qpc EXCEPT ![r] = IF route[r] \in snap[r].cfg.upstreams
                                 THEN "forward" ELSE "upstream_missing"]
    /\ UNCHANGED <<operator, signals, cells, supervisor, loops, snap, route>>

\* What a forwarded request connects under: build_client took the timeout from
\* the startup snapshot.
ConnectTimeout(r) == startup.cfg.connect_timeout

Request(r) == LoadSnapshot(r) \/ MatchRoute(r) \/ Lookup(r)

-----------------------------------------------------------------------------
Next ==
    \/ \E c \in Configs : EditFile(c)
    \/ SendHup \/ SendTerm
    \/ SignalLoop
    \/ Supervisor
    \/ \E g \in Generations, u \in Upstreams :
          LoopStop(g, u) \/ LoopSweep(g, u) \/ LoopSwept(g, u)
    \/ \E r \in Requests : Request(r)

(***************************************************************************)
(* Tasks that can run do run (a multi-threaded tokio runtime); a probe     *)
(* sweep ends because every probe has a timeout; and tokio::select! picks  *)
(* at random among its ready branches, so a stop that stays ready is taken *)
(* even if the ticker is always ready too.                                 *)
(***************************************************************************)
Fairness ==
    /\ WF_vars(SignalLoop)
    /\ WF_vars(Supervisor)
    /\ \A g \in Generations, u \in Upstreams :
          SF_vars(LoopStop(g, u)) /\ WF_vars(LoopSwept(g, u))

Spec == Init /\ [][Next]_vars /\ Fairness

-----------------------------------------------------------------------------
TypeOK ==
    /\ file \in Configs /\ effective \in Configs
    /\ edits \in 0..MaxEdits /\ hups \in 0..MaxHups
    /\ hup \in BOOLEAN /\ term \in BOOLEAN /\ shutdown \in BOOLEAN
    /\ rpc \in {"select", "resolve", "shared", "effective", "notify", "done"}
    /\ built \in Snapshot /\ shared \in Snapshot /\ startup \in Snapshot
    /\ version \in Nat /\ seen \in Nat
    /\ spc \in {"start", "stop", "load", "spawn", "wait", "done"}
    /\ gen \in Nat
    /\ snapOf \in [Generations -> Snapshot]
    /\ stopped \subseteq Generations
    /\ loops \in [Generations -> [Upstreams -> {"none", "select", "sweep", "exited"}]]
    /\ qpc \in [Requests -> {"arrive", "match", "lookup", "forward",
                             "not_found", "upstream_missing"}]
    /\ snap \in [Requests -> Snapshot]
    /\ route \in [Requests -> Upstreams \union {NoRoute}]

\* The signal loop has stored a snapshot the supervisor has not been told of.
Publishing == rpc \in {"effective", "notify"}

(***************************************************************************)
(* The supervisor never sleeps on an old snapshot: when it waits, has seen *)
(* the last notification and no reload is half published, its health loops *)
(* belong to the snapshot requests load.  A reload that lands anywhere     *)
(* inside the supervisor's respawn is not missed.                          *)
(***************************************************************************)
SupervisorCurrent ==
    spc = "wait" /\ seen = version /\ ~Publishing => snapOf[gen - 1] = shared

\* A generation with a running loop that has not been told to stop.
Live(g) == g \notin stopped /\ \E u \in Upstreams : loops[g][u] \in {"select", "sweep"}

(***************************************************************************)
(* Reloads never leave two generations of health loops running side by     *)
(* side: the old one has been told to stop before a new one is spawned.    *)
(***************************************************************************)
OneLiveGeneration ==
    \A g, h \in Generations : Live(g) /\ Live(h) => g = h

(***************************************************************************)
(* A request never fails with UpstreamMissing: it matches its route and    *)
(* looks the upstream up in one snapshot, and only validated snapshots are *)
(* ever published, also when the file on disk is broken.                   *)
(***************************************************************************)
NoUpstreamMissing == \A r \in Requests : qpc[r] # "upstream_missing"

(***************************************************************************)
(* GET /config shows the configuration that is being served, except inside *)
(* the publication of a reload.                                            *)
(***************************************************************************)
EffectiveIsServed == ~Publishing => effective = shared.cfg

(***************************************************************************)
(* A SIGHUP is not lost: if the file is valid and stays as it is, it is    *)
(* eventually the one being served (unless the proxy is shut down).        *)
(***************************************************************************)
HupIsServed ==
    \A c \in Configs :
        hup /\ Valid(c) /\ file = c ~> shared.cfg = c \/ file # c \/ shutdown

(***************************************************************************)
(* After a reload the active health checks follow: whatever snapshot is    *)
(* served, the supervisor ends up checking it, unless it is replaced or    *)
(* the proxy shuts down.                                                   *)
(***************************************************************************)
ChecksFollowReload ==
    \A id \in 0..MaxHups :
        shared.id = id ~> \/ shared.id # id \/ shutdown
                          \/ spc = "wait" /\ snapOf[gen - 1] = shared

(***************************************************************************)
(* A generation told to stop does stop: no health loop of a replaced       *)
(* snapshot runs on forever, also when it is in the middle of a sweep or   *)
(* its ticker is always ready.  Shutdown stops them all.                   *)
(***************************************************************************)
StoppedLoopsExit ==
    \A g \in Generations, u \in Upstreams :
        (g \in stopped \/ shutdown) ~> loops[g][u] \in {"none", "exited"}

(***************************************************************************)
(* serve_shared (server.rs:55-56): "Listener bind addresses and TLS        *)
(* acceptors are fixed from the initial snapshot".  An https listener      *)
(* started from a reload's snapshot would have no acceptor.                *)
(***************************************************************************)
ListenersHaveTls == spc # "start" => HasAcceptors(startup)

(***************************************************************************)
(* README.md:135-136: "What reloads: routes, upstreams (...), and          *)
(* timeouts".  The proxy's and the prober's clients keep the connect       *)
(* timeout of the snapshot serve_shared started from.                      *)
(***************************************************************************)
ConnectTimeoutReloads ==
    \A r \in Requests :
        qpc[r] = "forward" => ConnectTimeout(r) = snap[r].cfg.connect_timeout
=============================================================================
