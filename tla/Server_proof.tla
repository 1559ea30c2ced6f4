---------------------------- MODULE Server_proof ----------------------------
(***************************************************************************)
(* Proofs that the process is type correct, ends in bounded time after the *)
(* signal and cuts off, in an orderly shutdown, only what outlasted its    *)
(* server's drain; for any number of listeners and connections and any     *)
(* timeouts of which the handshake's is shorter than the drain's.          *)
(***************************************************************************)
EXTENDS Server, TLAPS

LEMMA ServersFacts ==
    /\ Admin \in Servers /\ Admin \notin Listeners /\ Admin \notin Tls
    /\ Tls \subseteq Servers /\ Listeners \subseteq Servers
    /\ \A s \in Servers : s # Admin => s \in Listeners
    /\ \A s \in Servers : DrainTimeoutOf(s) \in Nat \ {0}
    /\ \A l \in Listeners : DrainTimeoutOf(l) = DRAIN_TIMEOUT
    /\ DRAIN_TIMEOUT \in Nat \ {0} /\ ADMIN_DRAIN_TIMEOUT \in Nat \ {0}
    /\ HANDSHAKE_TIMEOUT \in Nat \ {0} /\ HANDSHAKE_TIMEOUT < DRAIN_TIMEOUT
    /\ NumListeners \in Nat
BY ServerAssumption DEF Servers, Listeners, Admin, DrainTimeoutOf

LEMMA TypeInit == Init => TypeOK
<1> SUFFICES ASSUME Init PROVE TypeOK
    OBVIOUS
<1>1. loop \in [Servers -> {"unbound", "accepting", "draining", "done", "failed"}]
    BY DEF Init
<1>2. cut \in [Conns -> [phase : Open \union {"none", "tunnel"}, age : Nat]]
    BY DEF Init, NotCut
<1>3. phase \in [Conns -> Open \union {"new", "tunnel", "closed", "cut"}]
    BY DEF Init
<1>4. shutdown \in BOOLEAN /\ told \in [Conns -> BOOLEAN]
    BY Zenon DEF Init
<1>5. bound \in 0..NumListeners /\ handshake \in [Conns -> 0..HANDSHAKE_TIMEOUT]
    BY ServersFacts DEF Init
<1>6. drain \in [Servers -> Nat] /\ at \in [Conns -> Servers] /\ age \in Nat
    BY ServersFacts DEF Init
<1> QED BY <1>1, <1>2, <1>3, <1>4, <1>5, <1>6 DEF Init, TypeOK

\* What cutting off connections records.
LEMMA CutType ==
    ASSUME NEW cs \in SUBSET {c \in Conns : phase[c] \in Open \union {"tunnel"}}, TypeOK, Cut(cs)
    PROVE  /\ phase' \in [Conns -> Open \union {"new", "tunnel", "closed", "cut"}]
           /\ cut' \in [Conns -> [phase : Open \union {"none", "tunnel"}, age : Nat]]
           /\ UNCHANGED <<at, handshake, told>>
<1>1. \A c \in cs : [phase |-> phase[c], age |-> age]
                        \in [phase : Open \union {"none", "tunnel"}, age : Nat]
    BY DEF TypeOK
<1> QED BY <1>1 DEF TypeOK, Cut

(***************************************************************************)
(* The steps of Next, one by one: what holds after each of them and after  *)
(* a stutter holds after any.                                              *)
(***************************************************************************)
LEMMA TypeStep == TypeOK /\ [Next]_vars => TypeOK'
<1> SUFFICES ASSUME TypeOK, [Next]_vars PROVE TypeOK'
    OBVIOUS
<1> USE ServersFacts DEF TypeOK, startup, loops, conns
<1>1. CASE Exit 
    <2>1. process' \in {"up", "ok", "error"}
        BY <1>1 DEF Exit
    <2> QED BY <1>1, <2>1, CutType DEF Exit
<1>2. CASE Bind
    <2>1. bound' \in 0..NumListeners /\ proxy' \in {"bind", "await", "done", "failed"}
        BY <1>2 DEF Bind
    <2>2. bound < NumListeners => bound + 1 \in Servers
        BY DEF Servers, Listeners
    <2>3. loop' \in [Servers -> {"unbound", "accepting", "draining", "done", "failed"}]
        BY <1>2, <2>2 DEF Bind
    <2> QED BY <1>2, <2>1, <2>3 DEF Bind
<1>3. CASE SpawnSupervisor BY <1>3 DEF SpawnSupervisor
<1>4. CASE AdminBind BY <1>4 DEF AdminBind
<1>5. CASE SupShutdown BY <1>5 DEF SupShutdown
<1>6. CASE AwaitHandles BY <1>6 DEF AwaitHandles
<1>7. ASSUME NEW s \in Servers, StopAccepting(s) PROVE TypeOK'
    BY <1>7 DEF StopAccepting
<1>8. ASSUME NEW s \in Servers, Drained(s) PROVE TypeOK'
    BY <1>8 DEF Drained
<1>9. ASSUME NEW s \in Servers, DrainTimeout(s) PROVE TypeOK'
    BY <1>9, CutType DEF DrainTimeout, Unfinished
<1>10. ASSUME NEW c \in Conns, GracefulShutdown(c) PROVE TypeOK'
    BY <1>10 DEF GracefulShutdown
<1>11. CASE RecvTerm BY <1>11 DEF RecvTerm
<1>12. CASE Tick
    <2>1. \A n \in Nat : Less(n) \in Nat /\ Less(n) <= n
        BY DEF Less
    <2> QED BY <1>12, <2>1 DEF Tick
<1>13. ASSUME NEW s \in Servers, NEW c \in Conns, Accept(s, c) PROVE TypeOK'
    BY <1>13 DEF Accept, Open
<1>14. ASSUME NEW c \in Conns, Connection(c) PROVE TypeOK'
    BY <1>14 DEF Connection, Handshake, ReadHead, Serve, Respond, Upgrade, Close, Goto, Open
<1>15. CASE UNCHANGED vars BY <1>15 DEF vars
<1> QED BY <1>1, <1>2, <1>3, <1>4, <1>5, <1>6, <1>7, <1>8, <1>9, <1>10, <1>11, <1>12, <1>13,
           <1>14, <1>15 DEF Next, Runtime

(***************************************************************************)
(* Every connection of every server, and every server itself, has the type *)
(* the code gives it, from the first bind to the exit.                     *)
(***************************************************************************)
THEOREM TypeCorrect == Spec => []TypeOK
<1> QED BY TypeInit, TypeStep, PTL DEF Spec

-----------------------------------------------------------------------------
(* How far serve_shared has come, and what is running by then. *)
Started ==
    /\ \A l \in Listeners : loop[l] # "failed"
    /\ proxy = "bind" => \A l \in Listeners : loop[l] = "unbound" <=> l > bound
    /\ proxy \in {"await", "done"} => /\ \A l \in Listeners : loop[l] # "unbound"
                                      /\ supervisor # "none"
    /\ proxy = "done" => \A l \in Listeners : loop[l] = "done"

(* Time since the signal passes only once every server has seen it, and    *)
(* each drain timer has run since then.                                    *)
Timers ==
    /\ age > 0 => shutdown /\ \A s \in Servers : loop[s] \in {"draining", "done"}
    /\ \A s \in Servers :
          loop[s] = "draining" => shutdown /\ age + drain[s] = DrainTimeoutOf(s)

Bounded == age <= DRAIN_TIMEOUT \/ age <= ADMIN_DRAIN_TIMEOUT

LEMMA StartedStep == TypeOK /\ Started /\ [Next]_vars => Started'
<1> SUFFICES ASSUME TypeOK, Started, [Next]_vars PROVE Started'
    OBVIOUS
<1> USE ServersFacts DEF TypeOK, Started, startup, loops, conns
<1>1. CASE Exit BY <1>1 DEF Exit
<1>2. CASE Bind
    <2>1. \A l \in Listeners : l \in Nat
        BY DEF Listeners
    <2>2. CASE loop' = [loop EXCEPT ![bound + 1] = "accepting"] /\ bound' = bound + 1
        BY <1>2, <2>1, <2>2 DEF Bind
    <2>3. CASE UNCHANGED <<bound, loop>> /\ proxy' = "failed"
        BY <1>2, <2>3 DEF Bind
    <2> QED BY <1>2, <2>2, <2>3 DEF Bind
<1>3. CASE SpawnSupervisor BY <1>3 DEF SpawnSupervisor, Listeners
<1>4. CASE AdminBind BY <1>4 DEF AdminBind
<1>5. CASE SupShutdown BY <1>5 DEF SupShutdown
<1>6. CASE AwaitHandles BY <1>6 DEF AwaitHandles, HandlesDone
<1>7. ASSUME NEW s \in Servers, StopAccepting(s) PROVE Started'
    BY <1>7 DEF StopAccepting, SeesShutdown
<1>8. ASSUME NEW s \in Servers, Drained(s) \/ DrainTimeout(s) PROVE Started'
    <2>1. loop[s] = "draining" /\ loop' = [loop EXCEPT ![s] = "done"]
        BY <1>8 DEF Drained, AllJoined, DrainTimeout, DrainElapsed
    <2>2. UNCHANGED <<proxy, bound, supervisor>>
        BY <1>8 DEF Drained, DrainTimeout
    <2> QED BY <2>1, <2>2
<1>10. ASSUME NEW c \in Conns, GracefulShutdown(c) PROVE Started'
    BY <1>10 DEF GracefulShutdown
<1>11. CASE RecvTerm BY <1>11 DEF RecvTerm
<1>12. CASE Tick BY <1>12 DEF Tick
<1>13. ASSUME NEW s \in Servers, NEW c \in Conns, Accept(s, c) PROVE Started'
    BY <1>13 DEF Accept
<1>14. ASSUME NEW c \in Conns, Connection(c) PROVE Started'
    BY <1>14 DEF Connection, Handshake, ReadHead, Serve, Respond, Upgrade, Close, Goto
<1>15. CASE UNCHANGED vars BY <1>15 DEF vars
<1> QED BY <1>1, <1>2, <1>3, <1>4, <1>5, <1>6, <1>7, <1>8, <1>10, <1>11, <1>12, <1>13,
           <1>14, <1>15 DEF Next, Runtime

\* When time passes, every server runs or is over, and none is ready.
LEMMA TickFacts ==
    ASSUME TypeOK, Started, Timers, Tick
    PROVE  /\ \A s \in Servers : loop[s] \notin {"unbound", "failed"}
           /\ \A s \in Servers : loop[s] = "draining" => drain[s] > 0 /\ drain'[s] = drain[s] - 1
           /\ shutdown => \A s \in Servers : loop[s] \in {"draining", "done"}
           /\ shutdown => \E s \in Servers : loop[s] = "draining"
<1> USE ServersFacts DEF TypeOK
<1>1. \A s \in Servers : loop[s] \notin {"unbound", "failed"}
    BY DEF Tick, Joined, Failed, Started
<1>2. \A s \in Servers : loop[s] = "draining" => drain[s] > 0 /\ drain'[s] = drain[s] - 1
    BY DEF Tick, Ready, DrainElapsed, Less
<1>3. shutdown => \A s \in Servers : loop[s] \in {"draining", "done"}
    BY <1>1 DEF Tick, Ready, SeesShutdown
<1>4. ASSUME shutdown PROVE \E s \in Servers : loop[s] = "draining"
    <2>1. CASE proxy = "await"
        BY <1>3, <1>4, <2>1 DEF Tick, SupSeesShutdown, HandlesDone, Started
    <2>2. CASE proxy = "done"
        BY <1>3, <1>4, <2>2 DEF Tick, Joined, Finished
    <2> QED BY <2>1, <2>2 DEF Tick, Joined, Failed
<1> QED BY <1>1, <1>2, <1>3, <1>4

LEMMA TimersStep == TypeOK /\ Started /\ Timers /\ [Next]_vars => Timers'
<1> SUFFICES ASSUME TypeOK, Started, Timers, [Next]_vars PROVE Timers'
    OBVIOUS
<1> USE ServersFacts DEF TypeOK, Timers, startup, loops, conns
<1>1. CASE Exit BY <1>1 DEF Exit
<1>2. CASE Bind
    <2>1. bound < NumListeners => bound + 1 \in Listeners
        BY DEF Listeners
    <2>2. age = 0
        BY <1>2, <2>1 DEF Bind, Started, Listeners
    <2> QED BY <1>2, <2>1, <2>2 DEF Bind
<1>3. CASE SpawnSupervisor BY <1>3 DEF SpawnSupervisor
<1>4. CASE AdminBind BY <1>4 DEF AdminBind
<1>5. CASE SupShutdown BY <1>5 DEF SupShutdown
<1>6. CASE AwaitHandles BY <1>6 DEF AwaitHandles
<1>7. ASSUME NEW s \in Servers, StopAccepting(s) PROVE Timers'
    BY <1>7 DEF StopAccepting, SeesShutdown
<1>8. ASSUME NEW s \in Servers, Drained(s) PROVE Timers'
    BY <1>8 DEF Drained
<1>9. ASSUME NEW s \in Servers, DrainTimeout(s) PROVE Timers'
    BY <1>9 DEF DrainTimeout
<1>10. ASSUME NEW c \in Conns, GracefulShutdown(c) PROVE Timers'
    BY <1>10 DEF GracefulShutdown
<1>11. CASE RecvTerm BY <1>11 DEF RecvTerm
<1>12. CASE Tick
    <2>1. age' = (IF shutdown THEN age + 1 ELSE 0) /\ UNCHANGED <<loop, shutdown>>
        BY <1>12 DEF Tick
    <2>2. ASSUME age' > 0 PROVE shutdown' /\ \A s \in Servers : loop'[s] \in {"draining", "done"}
        BY <1>12, <2>1, <2>2, TickFacts
    <2>3. ASSUME NEW s \in Servers, loop'[s] = "draining"
          PROVE  shutdown' /\ age' + drain'[s] = DrainTimeoutOf(s)
        <3>1. loop[s] = "draining"
            BY <2>1, <2>3
        <3>2. drain[s] \in Nat /\ drain'[s] = drain[s] - 1 /\ age + drain[s] = DrainTimeoutOf(s)
            BY <1>12, <3>1, TickFacts
        <3>3. shutdown /\ age' = age + 1
            BY <2>1, <3>1
        <3> QED BY <2>1, <3>2, <3>3
    <2> QED BY <2>2, <2>3
<1>13. ASSUME NEW s \in Servers, NEW c \in Conns, Accept(s, c) PROVE Timers'
    BY <1>13 DEF Accept
<1>14. ASSUME NEW c \in Conns, Connection(c) PROVE Timers'
    BY <1>14 DEF Connection, Handshake, ReadHead, Serve, Respond, Upgrade, Close, Goto
<1>15. CASE UNCHANGED vars BY <1>15 DEF vars
<1> QED BY <1>1, <1>2, <1>3, <1>4, <1>5, <1>6, <1>7, <1>8, <1>9, <1>10, <1>11, <1>12, <1>13,
           <1>14, <1>15 DEF Next, Runtime

LEMMA BoundedStep == TypeOK /\ Started /\ Timers /\ Bounded /\ [Next]_vars => Bounded'
<1> SUFFICES ASSUME TypeOK, Started, Timers, Bounded, [Next]_vars PROVE Bounded'
    OBVIOUS
<1> USE ServersFacts DEF TypeOK, Bounded
<1>1. CASE Tick
    <2>1. CASE shutdown
        <3>1. PICK s \in Servers : loop[s] = "draining" /\ drain[s] > 0
            BY <1>1, <2>1, TickFacts
        <3>2. age + drain[s] = DrainTimeoutOf(s) /\ drain[s] \in Nat
            BY <3>1 DEF Timers
        <3>3. age' = age + 1
            BY <1>1, <2>1 DEF Tick
        <3> QED BY <3>1, <3>2, <3>3 DEF DrainTimeoutOf
    <2>2. CASE ~shutdown BY <1>1, <2>2 DEF Tick
    <2> QED BY <2>1, <2>2
<1>2. CASE ~Tick
    <2>1. age' = age
        BY <1>2 DEF Next, Runtime, Exit, Bind, SpawnSupervisor, AdminBind, SupShutdown, AwaitHandles,
            StopAccepting, Drained, DrainTimeout, GracefulShutdown, RecvTerm, Accept, Connection,
            Handshake, ReadHead, Serve, Respond, Upgrade, Close, Goto, vars
    <2> QED BY <2>1
<1> QED BY <1>1, <1>2

TimeInv == TypeOK /\ Started /\ Timers /\ Bounded

LEMMA TimeInvariant == Spec => []TimeInv
<1>1. Init => TimeInv
    <2> SUFFICES ASSUME Init PROVE Started /\ Timers /\ Bounded
        BY TypeInit DEF TimeInv
    <2>1. \A l \in Listeners : loop[l] = "unbound" /\ l > 0
        BY DEF Init, Listeners
    <2>2. \A s \in Servers : loop[s] # "draining"
        BY DEF Init
    <2> QED BY <2>1, <2>2, ServersFacts DEF Init, Started, Timers, Bounded
<1>2. TimeInv /\ [Next]_vars => TimeInv'
    BY TypeStep, StartedStep, TimersStep, BoundedStep DEF TimeInv
<1> QED BY <1>1, <1>2, PTL DEF Spec

(***************************************************************************)
(* However many listeners and connections there are and whatever clients   *)
(* do, the process is up no longer than the longer of the two drains after *)
(* the signal.  At any moment of a shutdown some server is draining, and   *)
(* its timer has run since the signal.                                     *)
(***************************************************************************)
THEOREM ShutdownIsBounded == Spec => []ShutdownBounded
<1>1. TimeInv => ShutdownBounded
    BY DEF TimeInv, Bounded, ShutdownBounded
<1> QED BY <1>1, TimeInvariant, PTL

-----------------------------------------------------------------------------
Busy == {"idle", "head", "request"}

(* What the time since the signal says about a connection.  A handshake    *)
(* started before it, so it is over by its timeout; one that is not told   *)
(* has just been accepted or has just finished its handshake; one that was *)
(* told is not idle any more.                                              *)
Informed ==
    \A c \in Conns :
        /\ phase[c] = "new" => ~told[c] /\ cut[c].phase = "none"
        /\ phase[c] = "handshake" =>
              at[c] \in Tls /\ ~told[c] /\ age + handshake[c] <= HANDSHAKE_TIMEOUT
        /\ told[c] => phase[c] # "idle"
        /\ phase[c] \in Busy /\ ~told[c] =>
              age <= IF at[c] = Admin THEN 0 ELSE HANDSHAKE_TIMEOUT

LEMMA InformedStep == TimeInv /\ Informed /\ [Next]_vars => Informed'
<1> SUFFICES ASSUME TimeInv, Informed, [Next]_vars, NEW c \in Conns
             PROVE  /\ phase'[c] = "new" => ~told'[c] /\ cut'[c].phase = "none"
                    /\ phase'[c] = "handshake" =>
                          at'[c] \in Tls /\ ~told'[c] /\ age' + handshake'[c] <= HANDSHAKE_TIMEOUT
                    /\ told'[c] => phase'[c] # "idle"
                    /\ phase'[c] \in Busy /\ ~told'[c] =>
                          age' <= IF at'[c] = Admin THEN 0 ELSE HANDSHAKE_TIMEOUT
    BY DEF Informed
<1> USE ServersFacts DEF TimeInv, TypeOK, Informed, Busy
<1>1. CASE UNCHANGED <<conns, age>> BY <1>1 DEF conns
<1>2. ASSUME NEW cs \in SUBSET {d \in Conns : phase[d] \in Open \union {"tunnel"}},
             Cut(cs), UNCHANGED age
      PROVE  Informed'
    BY <1>2 DEF Cut, Open
<1>3. ASSUME NEW d \in Conns, GracefulShutdown(d) PROVE Informed'
    BY <1>3 DEF GracefulShutdown, Untold
<1>4. CASE Tick
    <2>1. shutdown => ~(phase[c] \in Busy /\ ~told[c])
        BY <1>4, TickFacts DEF Tick, Due, Untold, Signalled
    <2>2. phase[c] = "handshake" => handshake[c] > 0 /\ handshake'[c] = handshake[c] - 1
        BY <1>4 DEF Tick, Due, Less
    <2>3. UNCHANGED <<phase, told, at, cut>> /\ age' = IF shutdown THEN age + 1 ELSE 0
        BY <1>4 DEF Tick
    <2> QED BY <2>1, <2>2, <2>3
<1>5. ASSUME NEW s \in Servers, NEW d \in Conns, Accept(s, d) PROVE Informed'
    <2>1. age = 0
        BY <1>5 DEF Accept, Timers
    <2> QED BY <1>5, <2>1 DEF Accept
<1>6. ASSUME NEW d \in Conns, Connection(d) PROVE Informed'
    <2>1. UNCHANGED <<told, at, handshake, age, cut>> /\ \E to : phase' = [phase EXCEPT ![d] = to]
        BY <1>6 DEF Connection, Handshake, ReadHead, Serve, Respond, Upgrade, Close, Goto
    <2>2. \/ phase[d] = "handshake" /\ phase'[d] \in {"idle", "closed"}
          \/ phase[d] \in Busy /\ phase'[d] \in {"head", "request", "closed", "tunnel"}
          \/ phase[d] \in Busy /\ phase'[d] = "idle" /\ ~told[d]
          \/ phase[d] = "tunnel" /\ phase'[d] = "closed"
        BY <1>6 DEF Connection, Handshake, ReadHead, Serve, Respond, Upgrade, Close, Goto
    <2> QED BY <2>1, <2>2
<1>7. CASE Exit BY <1>7, <1>2 DEF Exit
<1>8. ASSUME NEW s \in Servers, DrainTimeout(s) PROVE Informed'
    <2>1. CASE s = Admin BY <1>8, <2>1 DEF DrainTimeout, conns
    <2>2. CASE s # Admin BY <1>8, <1>2, <2>2 DEF DrainTimeout, Unfinished
    <2> QED BY <2>1, <2>2
<1> QED BY <1>1, <1>3, <1>4, <1>5, <1>6, <1>7, <1>8
        DEF Next, Runtime, Bind, SpawnSupervisor, AdminBind, SupShutdown, AwaitHandles,
            StopAccepting, Drained, RecvTerm, vars

(* A server that is over has no connections left, except that the admin    *)
(* server stops waiting for its own after its drain.                       *)
Gone ==
    \A c \in Conns :
        phase[c] \in Open /\ loop[at[c]] = "done" =>
            at[c] = Admin /\ age >= ADMIN_DRAIN_TIMEOUT

LEMMA GoneStep == TimeInv /\ Informed /\ Gone /\ [Next]_vars => Gone'
<1> SUFFICES ASSUME TimeInv, Informed, Gone, [Next]_vars PROVE Gone'
    OBVIOUS
<1> USE ServersFacts DEF TimeInv, TypeOK, Gone
<1>1. CASE UNCHANGED <<conns, loop, age>> BY <1>1 DEF conns
<1>2. CASE Exit BY <1>2 DEF Exit, Cut, loops, Open
<1>3. CASE Bind
    <2>1. bound < NumListeners => bound + 1 \in Servers
        BY DEF Servers, Listeners
    <2> QED BY <1>3, <2>1 DEF Bind, conns
<1>4. CASE AdminBind BY <1>4 DEF AdminBind, conns
<1>5. ASSUME NEW s \in Servers, StopAccepting(s) PROVE Gone'
    BY <1>5 DEF StopAccepting, conns
<1>6. ASSUME NEW s \in Servers, Drained(s) PROVE Gone'
    BY <1>6 DEF Drained, AllJoined, Unfinished, conns
<1>7. ASSUME NEW s \in Servers, DrainTimeout(s) PROVE Gone'
    <2>1. age = DrainTimeoutOf(s)
        BY <1>7 DEF DrainTimeout, DrainElapsed, Timers
    <2>2. CASE s = Admin BY <1>7, <2>1, <2>2 DEF DrainTimeout, DrainTimeoutOf, conns
    <2>3. CASE s # Admin BY <1>7, <2>3 DEF DrainTimeout, Cut, Unfinished, Open
    <2> QED BY <2>2, <2>3
<1>8. ASSUME NEW c \in Conns, GracefulShutdown(c) PROVE Gone'
    BY <1>8 DEF GracefulShutdown, Untold, loops, Open
<1>9. CASE Tick
    <2>1. age' >= age
        BY <1>9 DEF Tick, Timers
    <2> QED BY <1>9, <2>1 DEF Tick
<1>10. ASSUME NEW s \in Servers, NEW c \in Conns, Accept(s, c) PROVE Gone'
    BY <1>10 DEF Accept, loops
<1>11. ASSUME NEW c \in Conns, Connection(c) PROVE Gone'
    <2>1. UNCHANGED <<at, age, loop>> /\ \E to : phase' = [phase EXCEPT ![c] = to]
        BY <1>11 DEF Connection, Handshake, ReadHead, Serve, Respond, Upgrade, Close, Goto, loops
    <2>2. phase[c] \in Open \union {"tunnel"} /\ (phase[c] = "tunnel" => phase'[c] = "closed")
        BY <1>11 DEF Connection, Handshake, ReadHead, Serve, Respond, Upgrade, Close, Goto, Open
    <2> QED BY <2>1, <2>2 DEF Open
<1> QED BY <1>1, <1>2, <1>3, <1>4, <1>5, <1>6, <1>7, <1>8, <1>9, <1>10, <1>11
        DEF Next, Runtime, SpawnSupervisor, SupShutdown, AwaitHandles, RecvTerm, vars, loops

\* A connection whose server's drain has run out is in the middle of a request.
LEMMA CutInRequest ==
    ASSUME TimeInv, Informed, NEW c \in Conns, phase[c] \in Open,
           age >= DrainTimeoutOf(at[c])
    PROVE  phase[c] \in {"head", "request"}
<1> USE ServersFacts DEF TimeInv, TypeOK
<1>1. phase[c] # "handshake"
    BY DEF Informed
<1>2. told[c]
    BY <1>1 DEF Informed, Busy, Open, DrainTimeoutOf
<1> QED BY <1>1, <1>2 DEF Informed, Open

\* What the history says of a connection that is cut off.
LEMMA CutRecord ==
    ASSUME NEW cs \in SUBSET Conns, Cut(cs), NEW c \in Conns
    PROVE  /\ at' = at
           /\ c \in cs => cut'[c].phase = phase[c] /\ cut'[c].age = age
           /\ c \notin cs => cut'[c] = cut[c]
<1>1. cut'[c] = IF c \in cs THEN [phase |-> phase[c], age |-> age] ELSE cut[c]
    BY DEF Cut
<1>2. CASE c \in cs
    <2>1. cut'[c] = [phase |-> phase[c], age |-> age]
        BY <1>1, <1>2
    <2> QED BY <2>1, <1>2 DEF Cut
<1>3. CASE c \notin cs BY <1>1, <1>3 DEF Cut
<1> QED BY <1>2, <1>3

LEMMA CutStep ==
    TimeInv /\ Informed /\ Gone /\ CutOnlyAfterDrain /\ [Next]_vars => CutOnlyAfterDrain'
<1> SUFFICES ASSUME TimeInv, Informed, Gone, CutOnlyAfterDrain, [Next]_vars PROVE CutOnlyAfterDrain'
    OBVIOUS
<1> DEFINE Fair(c) == \/ cut[c].phase \in {"none", "tunnel"}
                      \/ /\ cut[c].phase \in {"head", "request"}
                         /\ cut[c].age >= DrainTimeoutOf(at[c])
<1> USE ServersFacts DEF TimeInv, TypeOK
<1>1. CASE UNCHANGED <<process, cut, at>> BY <1>1 DEF CutOnlyAfterDrain
<1>2. ASSUME NEW s \in Servers, DrainTimeout(s), s # Admin PROVE CutOnlyAfterDrain'
    <2>1. age = DrainTimeoutOf(s)
        BY <1>2 DEF DrainTimeout, DrainElapsed, Timers
    <2>2. \A c \in Unfinished(s) : phase[c] \in {"head", "request"} /\ at[c] = s
        BY <2>1, CutInRequest DEF Unfinished
    <2>3. process' = process /\ Cut(Unfinished(s)) /\ Unfinished(s) \in SUBSET Conns
        BY <1>2 DEF DrainTimeout, Unfinished
    <2>4. ASSUME NEW c \in Conns, process # "error" PROVE Fair(c)'
        <3>1. CASE c \in Unfinished(s)
            BY <2>1, <2>2, <2>3, <3>1, CutRecord
        <3>2. CASE c \notin Unfinished(s)
            BY <2>3, <2>4, <3>2, CutRecord DEF CutOnlyAfterDrain
        <3> QED BY <3>1, <3>2
    <2> QED BY <2>3, <2>4 DEF CutOnlyAfterDrain
<1>3. CASE Exit /\ ~Failed
    <2> DEFINE cs == {c \in Conns : phase[c] \in Open \union {"tunnel"}}
    <2>1. \A s \in Servers : loop[s] = "done"
        BY <1>3 DEF Exit, Joined, Finished, Started
    <2>2. ASSUME NEW c \in Conns, phase[c] \in Open
          PROVE  phase[c] \in {"head", "request"} /\ age >= DrainTimeoutOf(at[c])
        <3>1. at[c] = Admin /\ age >= ADMIN_DRAIN_TIMEOUT
            BY <2>1, <2>2 DEF Gone
        <3> QED BY <2>2, <3>1, CutInRequest DEF DrainTimeoutOf
    <2>3. process = "up" /\ Cut(cs) /\ cs \in SUBSET Conns
        BY <1>3 DEF Exit
    <2>4. ASSUME NEW c \in Conns PROVE Fair(c)'
        <3>1. CASE phase[c] \in Open
            BY <2>2, <2>3, <3>1, CutRecord
        <3>2. CASE phase[c] = "tunnel"
            BY <2>3, <3>2, CutRecord
        <3>3. CASE c \notin cs
            BY <2>3, <3>3, CutRecord DEF CutOnlyAfterDrain
        <3> QED BY <3>1, <3>2, <3>3
    <2> QED BY <2>4 DEF CutOnlyAfterDrain
<1>4. CASE Exit /\ Failed BY <1>4 DEF Exit, CutOnlyAfterDrain
<1>5. ASSUME NEW s \in Servers, NEW c \in Conns, Accept(s, c) PROVE CutOnlyAfterDrain'
    BY <1>5 DEF Accept, Informed, CutOnlyAfterDrain
<1> QED BY <1>1, <1>2, <1>3, <1>4, <1>5
        DEF Next, Runtime, Bind, SpawnSupervisor, AdminBind, SupShutdown, AwaitHandles,
            StopAccepting, Drained, DrainTimeout, GracefulShutdown, RecvTerm, Tick, Connection,
            Handshake, ReadHead, Serve, Respond, Upgrade, Close, Goto, conns, vars

(***************************************************************************)
(* For any listeners, connections and timeouts with a handshake shorter    *)
(* than the drain, an orderly shutdown cuts off nothing but tunnels and    *)
(* requests that had their server's whole drain: by then every handshake   *)
(* is over, every connection told and every idle one closed, and the exit  *)
(* waits for both servers.                                                 *)
(***************************************************************************)
THEOREM OnlyOutlastedIsCut == Spec => []CutOnlyAfterDrain
<1> DEFINE Inv == TimeInv /\ Informed /\ Gone /\ CutOnlyAfterDrain
<1>1. Init => Informed /\ Gone /\ CutOnlyAfterDrain
    BY DEF Init, Informed, Gone, CutOnlyAfterDrain, NotCut, Busy, Open
<1>2. Inv /\ [Next]_vars /\ TimeInv' => Inv'
    BY InformedStep, GoneStep, CutStep
<1> QED BY <1>1, <1>2, TimeInvariant, PTL DEF Spec
=============================================================================
