------------------------------- MODULE Server -------------------------------
(***************************************************************************)
(* The life of the process from the first bind to its exit: serve_shared,  *)
(* accept_loop and serve_connection of crates/gatepup-proxy/src/server.rs, *)
(* the admin server of crates/gatepup-admin/src/lib.rs, and the try_join   *)
(* of crates/gatepup-core/src/app.rs that holds them together.             *)
(*                                                                         *)
(* A connection is where its task is: in the TLS handshake, idle, reading  *)
(* a request head, in a request, or upgraded to a tunnel, which is a       *)
(* detached task of its own.  Time counts in units that keep the order of  *)
(* the code's three constants; a timer is what is left of it.  A step the  *)
(* runtime can take at once is taken before time passes (Tick).            *)
(***************************************************************************)
EXTENDS Naturals, FiniteSets

CONSTANTS
    NumListeners,
    Tls,                \* the listeners with an acceptor
    Conns,              \* connections clients may open
    DRAIN_TIMEOUT,
    ADMIN_DRAIN_TIMEOUT,
    HANDSHAKE_TIMEOUT

Listeners == 1..NumListeners
Admin == 0
Servers == Listeners \union {Admin}

ASSUME ServerAssumption ==
    /\ NumListeners \in Nat
    /\ Tls \subseteq Listeners
    /\ {DRAIN_TIMEOUT, ADMIN_DRAIN_TIMEOUT, HANDSHAKE_TIMEOUT} \subseteq Nat \ {0}
    /\ HANDSHAKE_TIMEOUT < DRAIN_TIMEOUT    \* 10 s and 15 s in the code

VARIABLES
    proxy,          \* serve_shared: "bind", "await", "done" or "failed"
    bound,          \* listeners bound so far
    loop,           \* per server: "unbound", "accepting", "draining", "done", "failed"
    drain,          \* per server: what is left of its drain timeout
    supervisor,     \* run_health_supervisor: "none", "running" or "done"
    shutdown,       \* the shutdown watch channel
    process,        \* "up", "ok" or "error" (how it exited)
    phase,          \* per connection
    at,             \* per connection: the server it was accepted by
    handshake,      \* per connection: what is left of its handshake timeout
    told,           \* per connection: graceful_shutdown was called
    age,            \* time since the shutdown signal
    cut             \* history: the phase a connection was cut off in, and when

startup == <<proxy, bound, supervisor>>
loops == <<loop, drain>>
conns == <<phase, at, handshake, told, cut>>
vars == <<startup, loops, shutdown, process, conns, age>>

Open == {"handshake", "idle", "head", "request"}
NotCut == [phase |-> "none", age |-> 0]

\* The connection tasks of s that have not finished; a tunnel is in no set.
Unfinished(s) == {c \in Conns : at[c] = s /\ phase[c] \in Open}

\* The admin server is there only if the configuration enables it.
Init ==
    /\ proxy = "bind" /\ bound = 0 /\ supervisor = "none"
    /\ loop \in {f \in [Servers -> {"unbound", "done"}] :
                    \A l \in Listeners : f[l] = "unbound"}
    /\ drain = [s \in Servers |-> 0]
    /\ shutdown = FALSE /\ process = "up" /\ age = 0
    /\ phase = [c \in Conns |-> "new"]
    /\ at = [c \in Conns |-> Admin]
    /\ handshake = [c \in Conns |-> 0]
    /\ told = [c \in Conns |-> FALSE]
    /\ cut = [c \in Conns |-> NotCut]

-----------------------------------------------------------------------------
(* Start: serve_shared binds and spawns one listener after the other. *)

(* Mutant of Bind: one listener too many. *)
BindOneMore ==
    /\ proxy = "bind" /\ bound <= NumListeners
    /\ bound' = bound + 1
    /\ loop' = [loop EXCEPT ![bound + 1] = "accepting"]
    /\ UNCHANGED <<proxy, supervisor, drain, shutdown, process, conns, age>>

Bind ==
    /\ proxy = "bind" /\ bound < NumListeners
    /\ \/ /\ bound' = bound + 1
          /\ loop' = [loop EXCEPT ![bound + 1] = "accepting"]
          /\ UNCHANGED proxy
       \/ /\ proxy' = "failed"          \* ProxyError::Bind
          /\ UNCHANGED <<bound, loop>>
    /\ UNCHANGED <<supervisor, drain, shutdown, process, conns, age>>

SpawnSupervisor ==
    /\ proxy = "bind" /\ bound = NumListeners
    /\ supervisor' = "running"
    /\ proxy' = "await"
    /\ UNCHANGED <<bound, loops, shutdown, process, conns, age>>

AdminBind ==
    /\ loop[Admin] = "unbound"
    /\ \E result \in {"accepting", "failed"} : loop' = [loop EXCEPT ![Admin] = result]
    /\ UNCHANGED <<startup, drain, shutdown, process, conns, age>>

\* signal_loop: SIGTERM or SIGINT, at any moment, also before the binds.
RecvTerm ==
    /\ ~shutdown
    /\ shutdown' = TRUE
    /\ UNCHANGED <<startup, loops, process, conns, age>>

\* The supervisor returns on the signal (HotReload has its generations).
SupSeesShutdown == supervisor = "running" /\ shutdown

SupShutdown ==
    /\ SupSeesShutdown
    /\ supervisor' = "done"
    /\ UNCHANGED <<proxy, bound, loops, shutdown, process, conns, age>>

-----------------------------------------------------------------------------
(* accept_loop, and the same loop of the admin server. *)

DrainTimeoutOf(s) == IF s = Admin THEN ADMIN_DRAIN_TIMEOUT ELSE DRAIN_TIMEOUT

(* Mutant of Accept: the connection's receiver has seen a pending signal. *)
AcceptMarkedSeen(s, c) ==
    /\ loop[s] = "accepting" /\ phase[c] = "new"
    /\ at' = [at EXCEPT ![c] = s]
    /\ told' = [told EXCEPT ![c] = shutdown]
    /\ phase' = [phase EXCEPT ![c] = IF s \in Tls THEN "handshake" ELSE "idle"]
    /\ handshake' = [handshake EXCEPT ![c] = IF s \in Tls THEN HANDSHAKE_TIMEOUT ELSE 0]
    /\ UNCHANGED <<startup, loops, shutdown, process, cut, age>>

\* select! picks at random: a connection may be accepted with the signal pending,
\* and its clone of the receiver has not seen it either.
Accept(s, c) ==
    /\ loop[s] = "accepting" /\ phase[c] = "new"
    /\ at' = [at EXCEPT ![c] = s]
    /\ phase' = [phase EXCEPT ![c] = IF s \in Tls THEN "handshake" ELSE "idle"]
    /\ handshake' = [handshake EXCEPT ![c] = IF s \in Tls THEN HANDSHAKE_TIMEOUT ELSE 0]
    /\ UNCHANGED <<startup, loops, shutdown, process, told, cut, age>>

SeesShutdown(s) == loop[s] = "accepting" /\ shutdown

StopAccepting(s) ==
    /\ SeesShutdown(s)
    /\ loop' = [loop EXCEPT ![s] = "draining"]
    /\ drain' = [drain EXCEPT ![s] = DrainTimeoutOf(s)]
    /\ UNCHANGED <<startup, shutdown, process, conns, age>>

AllJoined(s) == loop[s] = "draining" /\ Unfinished(s) = {}

Drained(s) ==
    /\ AllJoined(s)
    /\ loop' = [loop EXCEPT ![s] = "done"]
    /\ UNCHANGED <<startup, drain, shutdown, process, conns, age>>

\* Cut off the connections of cs, now.
Cut(cs) ==
    /\ phase' = [c \in Conns |-> IF c \in cs THEN "cut" ELSE phase[c]]
    /\ cut' = [c \in Conns |-> IF c \in cs THEN [phase |-> phase[c], age |-> age] ELSE cut[c]]
    /\ UNCHANGED <<at, handshake, told>>

(* Mutant of DrainElapsed: waits for the connections however long they take. *)
DrainElapsedNever(s) == AllJoined(s) /\ drain[s] = 0

DrainElapsed(s) == loop[s] = "draining" /\ drain[s] = 0

\* abort_all; the admin server just stops waiting.
DrainTimeout(s) ==
    /\ DrainElapsed(s)
    /\ loop' = [loop EXCEPT ![s] = "done"]
    /\ IF s = Admin THEN UNCHANGED conns ELSE Cut(Unfinished(s))
    /\ UNCHANGED <<startup, drain, shutdown, process, age>>

-----------------------------------------------------------------------------
(* serve_connection_maybe_tls and serve_connection. *)

Goto(c, to) ==
    /\ phase' = [phase EXCEPT ![c] = to]
    /\ UNCHANGED <<startup, loops, shutdown, process, at, handshake, told, cut, age>>

\* The handshake completes; or it fails or its timeout drops the connection.
\* It does not watch shutdown.
Handshake(c) ==
    /\ phase[c] = "handshake"
    /\ Goto(c, "idle") \/ Goto(c, "closed")

\* hyper reads a request head, possibly in many pieces.
ReadHead(c) == phase[c] = "idle" /\ Goto(c, "head")

\* The head is complete and the service future (handle) starts.
Serve(c) == phase[c] = "head" /\ Goto(c, "request")

\* The response is written; keep-alive ends once graceful_shutdown was called.
Respond(c) ==
    /\ phase[c] = "request"
    /\ Goto(c, IF told[c] THEN "closed" ELSE "idle")

\* handle_upgrade relayed a 101: the connection future ends here and the bytes
\* are copied by a task that was spawned on its own.
Upgrade(c) ==
    /\ phase[c] = "request" /\ at[c] # Admin
    /\ Goto(c, "tunnel")

\* The peer closes or an I/O error ends the task; for a head, also header_read_timeout.
Close(c) ==
    /\ phase[c] \in {"idle", "head", "request", "tunnel"}
    /\ Goto(c, "closed")

\* A proxy connection watches the channel, an admin one the drain of its server.
Signalled(c) == IF at[c] = Admin THEN loop[Admin] \in {"draining", "done"} ELSE shutdown

Untold(c) == phase[c] \in {"idle", "head", "request"} /\ Signalled(c) /\ ~told[c]

\* graceful_shutdown: an idle connection closes, a busy one after its request.
GracefulShutdown(c) ==
    /\ Untold(c)
    /\ told' = [told EXCEPT ![c] = TRUE]
    /\ phase' = [phase EXCEPT ![c] = IF phase[c] = "idle" THEN "closed" ELSE phase[c]]
    /\ UNCHANGED <<startup, loops, shutdown, process, at, handshake, cut, age>>

-----------------------------------------------------------------------------
(* The end. *)

\* serve_shared has awaited every accept loop and the supervisor.
HandlesDone ==
    /\ proxy = "await"
    /\ \A l \in Listeners : loop[l] = "done"
    /\ supervisor = "done"

AwaitHandles ==
    /\ HandlesDone
    /\ proxy' = "done"
    /\ UNCHANGED <<bound, supervisor, loops, shutdown, process, conns, age>>

Failed == proxy = "failed" \/ loop[Admin] = "failed"
Finished == proxy = "done" /\ loop[Admin] = "done"

(* Mutant of Joined: both servers must be over (join!). *)
JoinedBoth == proxy \in {"failed", "done"} /\ loop[Admin] \in {"failed", "done"}

\* try_join!: the first error, or both servers are over.
Joined == Failed \/ Finished

\* serve returns, and with the runtime every task that is left is dropped.
Exit ==
    /\ process = "up" /\ Joined
    /\ process' = IF Failed THEN "error" ELSE "ok"
    /\ Cut({c \in Conns : phase[c] \in Open \union {"tunnel"}})
    /\ UNCHANGED <<startup, loops, shutdown, age>>

-----------------------------------------------------------------------------
(* Time. *)
Ready(s) == SeesShutdown(s) \/ AllJoined(s) \/ DrainElapsed(s)

Due(c) == Untold(c) \/ (phase[c] = "handshake" /\ handshake[c] = 0)

Less(n) == IF n = 0 THEN 0 ELSE n - 1

Tick ==
    /\ proxy # "bind" /\ loop[Admin] # "unbound"
    /\ ~SupSeesShutdown /\ ~HandlesDone /\ ~Joined
    /\ \A s \in Servers : ~Ready(s)
    /\ \A c \in Conns : ~Due(c)
    /\ handshake' = [c \in Conns |-> Less(handshake[c])]
    /\ drain' = [s \in Servers |-> Less(drain[s])]
    /\ age' = IF shutdown THEN age + 1 ELSE 0
    /\ UNCHANGED <<startup, loop, shutdown, process, phase, at, told, cut>>

-----------------------------------------------------------------------------
\* What the runtime does by itself, and what depends on peers.
Runtime ==
    \/ Bind \/ SpawnSupervisor \/ AdminBind \/ SupShutdown \/ AwaitHandles
    \/ \E s \in Servers : StopAccepting(s) \/ Drained(s) \/ DrainTimeout(s)
    \/ \E c \in Conns : GracefulShutdown(c)

Connection(c) == Handshake(c) \/ ReadHead(c) \/ Serve(c) \/ Respond(c) \/ Upgrade(c) \/ Close(c)

Next ==
    \/ Exit
    \/ /\ process = "up"
       /\ \/ Runtime \/ RecvTerm \/ Tick
          \/ \E s \in Servers, c \in Conns : Accept(s, c)
          \/ \E c \in Conns : Connection(c)

(***************************************************************************)
(* The runtime runs ready tasks, timers fire and time passes; a handshake  *)
(* whose timeout is due ends.  Nothing is assumed of peers: a client may   *)
(* hold a request or a tunnel open forever.                                *)
(***************************************************************************)
Fairness ==
    /\ WF_vars(process = "up" /\ (Runtime \/ Tick))
    /\ WF_vars(Exit)
    /\ \A c \in Conns : WF_vars(process = "up" /\ handshake[c] = 0 /\ Handshake(c))

Spec == Init /\ [][Next]_vars /\ Fairness

-----------------------------------------------------------------------------
TypeOK ==
    /\ proxy \in {"bind", "await", "done", "failed"}
    /\ bound \in 0..NumListeners
    /\ loop \in [Servers -> {"unbound", "accepting", "draining", "done", "failed"}]
    /\ drain \in [Servers -> Nat]
    /\ supervisor \in {"none", "running", "done"}
    /\ shutdown \in BOOLEAN
    /\ process \in {"up", "ok", "error"}
    /\ phase \in [Conns -> Open \union {"new", "tunnel", "closed", "cut"}]
    /\ at \in [Conns -> Servers]
    /\ handshake \in [Conns -> 0..HANDSHAKE_TIMEOUT]
    /\ told \in [Conns -> BOOLEAN]
    /\ age \in Nat
    /\ cut \in [Conns -> [phase : Open \union {"none", "tunnel"}, age : Nat]]

(***************************************************************************)
(* An orderly shutdown cuts off nothing but tunnels and requests that had  *)
(* their server's whole drain timeout to finish: idle connections and      *)
(* handshakes are gone by then, also those accepted with the signal        *)
(* pending, and no server's exit takes another's requests with it.         *)
(***************************************************************************)
CutOnlyAfterDrain ==
    process # "error" =>
        \A c \in Conns : \/ cut[c].phase \in {"none", "tunnel"}
                         \/ /\ cut[c].phase \in {"head", "request"}
                            /\ cut[c].age >= DrainTimeoutOf(at[c])

(***************************************************************************)
(* "Bounds shutdown so a stuck connection can't hang forever"              *)
(* (server.rs:15-16): the process is up no longer than the longer of the   *)
(* two drain timeouts after the signal.                                    *)
(***************************************************************************)
ShutdownBounded ==
    process = "up" => age <= DRAIN_TIMEOUT \/ age <= ADMIN_DRAIN_TIMEOUT

(***************************************************************************)
(* A signal, however early it comes, and a bind that fails on either       *)
(* server (app.rs:40-41) end the process, whatever its clients do.         *)
(***************************************************************************)
Stops == shutdown \/ Failed ~> process # "up"
=============================================================================
