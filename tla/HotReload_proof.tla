-------------------------- MODULE HotReload_proof --------------------------
(***************************************************************************)
(* Proofs about HotReload, for any set of configurations, any number of    *)
(* requests, reloads and edits.  The inductive invariant is built up in    *)
(* layers; each layer's theorem uses the ones before it.                   *)
(***************************************************************************)
EXTENDS HotReload, TLAPS

(***************************************************************************)
(* Bookkeeping of the two counters a reload and a respawn advance: a       *)
(* version is only seen after it was published, a publication needs a      *)
(* SIGHUP of its own, and a generation needs a version of its own.         *)
(***************************************************************************)
Counting ==
    /\ seen <= version
    /\ version <= hups
    /\ rpc \in {"resolve", "shared", "effective", "notify"} \/ hup => version < hups
    /\ rpc \in {"resolve", "shared", "effective", "notify"} /\ hup => version + 1 < hups
    /\ gen <= seen + 1
    /\ spc \in {"start", "stop", "load", "spawn"} => gen <= seen
    /\ spc \in {"wait", "done"} => gen >= 1

USE HotReloadAssumption DEF build_snapshot

LEMMA TypeInit == Init => TypeOK
<1> SUFFICES ASSUME Init PROVE TypeOK
    OBVIOUS
<1>1. startup \in Snapshot
    BY DEF Init, Snapshot
<1>2. effective \in Configs /\ file \in Configs
    BY DEF Init
<1>3. hup \in BOOLEAN /\ term \in BOOLEAN /\ shutdown \in BOOLEAN
    BY Zenon DEF Init
<1>4. edits \in 0..MaxEdits /\ hups \in 0..MaxHups /\ stopped \subseteq Generations
    BY DEF Init
<1>5. built \in Snapshot /\ shared \in Snapshot /\ snapOf \in [Generations -> Snapshot]
    BY <1>1 DEF Init
<1>6. loops \in [Generations -> [Upstreams -> {"none", "select", "sweep", "exited"}]]
    BY DEF Init
<1>7. snap \in [Requests -> Snapshot] /\ route \in [Requests -> Upstreams \union {NoRoute}]
    BY <1>1 DEF Init
<1> QED BY <1>1, <1>2, <1>3, <1>4, <1>5, <1>6, <1>7 DEF Init, TypeOK

LEMMA CountingInit == Init => Counting
BY DEF Init, Counting

\* The operator, the requests and the loops leave the two counters alone.
LEMMA CountingStep == TypeOK /\ Counting /\ [Next]_vars => Counting'
<1> SUFFICES ASSUME TypeOK, Counting, [Next]_vars PROVE Counting'
    OBVIOUS
<1> USE DEF TypeOK, Counting, operator, signals, cells, supervisor, requests
<1>1. ASSUME NEW c \in Configs, EditFile(c) PROVE Counting'
    BY <1>1 DEF EditFile
<1>2. CASE SendHup BY <1>2 DEF SendHup
<1>3. CASE SendTerm BY <1>3 DEF SendTerm
<1>4. CASE RecvTerm BY <1>4 DEF RecvTerm
<1>5. CASE RecvHup BY <1>5 DEF RecvHup
<1>6. CASE Resolve BY <1>6 DEF Resolve
<1>7. CASE StoreShared BY <1>7 DEF StoreShared
<1>8. CASE StoreEffective BY <1>8 DEF StoreEffective
<1>9. CASE Notify BY <1>9 DEF Notify
<1>10. CASE ServeShared \/ SupStop BY <1>10 DEF ServeShared, SupStop
<1>11. CASE SupLoad BY <1>11 DEF SupLoad
<1>12. CASE SupSpawn BY <1>12 DEF SupSpawn
<1>13. CASE SupReload BY <1>13 DEF SupReload
<1>14. CASE SupShutdown BY <1>14 DEF SupShutdown
<1>15. ASSUME NEW g \in Generations, NEW u \in Upstreams,
              LoopStop(g, u) \/ LoopSweep(g, u) \/ LoopSwept(g, u)
       PROVE Counting'
    BY <1>15 DEF LoopStop, LoopSweep, LoopSwept
<1>16. ASSUME NEW r \in Requests, Request(r) PROVE Counting'
    BY <1>16 DEF Request, LoadSnapshot, MatchRoute, Lookup
<1>17. CASE UNCHANGED vars BY <1>17 DEF vars
<1> QED BY <1>1, <1>2, <1>3, <1>4, <1>5, <1>6, <1>7, <1>8, <1>9, <1>10, <1>11,
           <1>12, <1>13, <1>14, <1>15, <1>16, <1>17 DEF Next, SignalLoop, Supervisor

\* A generation that is about to be loaded has a place in Generations.
LEMMA GenInRange == TypeOK /\ Counting /\ spc \in {"stop", "load", "spawn"} => gen \in Generations
BY DEF TypeOK, Counting, Generations

LEMMA TypeStep == TypeOK /\ Counting /\ [Next]_vars => TypeOK'
<1> SUFFICES ASSUME TypeOK, Counting, [Next]_vars PROVE TypeOK'
    OBVIOUS
<1> USE DEF TypeOK, operator, signals, cells, supervisor, requests
<1>1. ASSUME NEW c \in Configs, EditFile(c) PROVE TypeOK'
    BY <1>1 DEF EditFile
<1>2. CASE SendHup BY <1>2 DEF SendHup
<1>3. CASE SendTerm BY <1>3 DEF SendTerm
<1>4. CASE RecvTerm BY <1>4 DEF RecvTerm
<1>5. CASE RecvHup BY <1>5 DEF RecvHup
<1>6. CASE Resolve BY <1>6 DEF Resolve, Snapshot
<1>7. CASE StoreShared BY <1>7 DEF StoreShared
<1>8. CASE StoreEffective BY <1>8 DEF StoreEffective, Snapshot
<1>9. CASE Notify BY <1>9 DEF Notify
<1>0. CASE ServeShared BY <1>0 DEF ServeShared
<1>10. CASE SupStop BY <1>10 DEF SupStop, Counting, Generations
<1>11. CASE SupLoad BY <1>11 DEF SupLoad
<1>12. CASE SupSpawn
    <2> DEFINE row == [u \in Upstreams |->
                          IF u \in snapOf[gen].cfg.checked THEN "select" ELSE "none"]
    <2>1. row \in [Upstreams -> {"none", "select", "sweep", "exited"}]
        OBVIOUS
    <2>2. loops' = [loops EXCEPT ![gen] = row]
        BY <1>12 DEF SupSpawn
    <2> HIDE DEF row
    <2>3. loops' \in [Generations -> [Upstreams -> {"none", "select", "sweep", "exited"}]]
        BY <2>1, <2>2
    <2>4. gen' \in Nat /\ spc' = "wait"
        BY <1>12 DEF SupSpawn
    <2> QED BY <1>12, <2>3, <2>4 DEF SupSpawn
<1>13. CASE SupReload BY <1>13 DEF SupReload
<1>14. CASE SupShutdown BY <1>14 DEF SupShutdown, Counting, Generations
<1>15. ASSUME NEW g \in Generations, NEW u \in Upstreams,
              LoopStop(g, u) \/ LoopSweep(g, u) \/ LoopSwept(g, u)
       PROVE TypeOK'
    <2>1. loops' \in [Generations -> [Upstreams -> {"none", "select", "sweep", "exited"}]]
        <3>1. PICK to \in {"select", "sweep", "exited"} : loops' = [loops EXCEPT ![g][u] = to]
            BY <1>15 DEF LoopStop, LoopSweep, LoopSwept, SetLoop
        <3>2. [loops[g] EXCEPT ![u] = to] \in [Upstreams -> {"none", "select", "sweep", "exited"}]
            OBVIOUS
        <3> QED BY <3>1, <3>2
    <2>2. UNCHANGED <<operator, signals, cells, supervisor, requests>>
        BY <1>15 DEF LoopStop, LoopSweep, LoopSwept
    <2> QED BY <2>1, <2>2
<1>16. ASSUME NEW r \in Requests, LoadSnapshot(r) PROVE TypeOK'
    BY <1>16 DEF LoadSnapshot
<1>17. ASSUME NEW r \in Requests, MatchRoute(r) PROVE TypeOK'
    <2>1. snap[r].cfg.routed \subseteq Upstreams
        BY <1>17 DEF Snapshot, ConfigType
    <2>2. route' \in [Requests -> Upstreams \union {NoRoute}]
        BY <1>17, <2>1 DEF MatchRoute
    <2>3. qpc' \in [Requests -> {"arrive", "match", "lookup", "forward",
                                 "not_found", "upstream_missing"}]
        BY <1>17 DEF MatchRoute
    <2> QED BY <1>17, <2>2, <2>3 DEF MatchRoute
<1>18. ASSUME NEW r \in Requests, Lookup(r) PROVE TypeOK'
    BY <1>18 DEF Lookup
<1>19. CASE UNCHANGED vars BY <1>19 DEF vars
<1> QED BY <1>1, <1>2, <1>3, <1>4, <1>5, <1>6, <1>7, <1>8, <1>9, <1>10, <1>11,
           <1>12, <1>13, <1>14, <1>15, <1>16, <1>17, <1>18, <1>19, <1>0
        DEF Next, SignalLoop, Supervisor, Request

(***************************************************************************)
(* The type invariant is inductive together with Counting.                 *)
(***************************************************************************)
THEOREM TypeCorrect == Spec => [](TypeOK /\ Counting)
<1>1. Init => TypeOK /\ Counting BY TypeInit, CountingInit
<1>2. TypeOK /\ Counting /\ [Next]_vars => (TypeOK /\ Counting)'
    BY TypeStep, CountingStep
<1> QED BY <1>1, <1>2, PTL DEF Spec

-----------------------------------------------------------------------------
(***************************************************************************)
(* SupervisorCurrent is not inductive: it must also hold of the generation *)
(* that has been loaded and not yet spawned.                               *)
(***************************************************************************)
Current ==
    seen = version /\ ~Publishing =>
        /\ spc = "wait" => snapOf[gen - 1] = shared
        /\ spc = "spawn" => snapOf[gen] = shared

LEMMA CurrentStep == TypeOK /\ Counting /\ Current /\ [Next]_vars => Current'
<1> SUFFICES ASSUME TypeOK, Counting, Current, [Next]_vars PROVE Current'
    OBVIOUS
<1> USE DEF TypeOK, Counting, Current, Publishing,
            operator, signals, cells, supervisor, requests
<1>1. ASSUME NEW c \in Configs, EditFile(c) PROVE Current'
    BY <1>1 DEF EditFile
<1>2. CASE SendHup \/ SendTerm BY <1>2 DEF SendHup, SendTerm
<1>3. CASE RecvTerm \/ RecvHup \/ Resolve BY <1>3 DEF RecvTerm, RecvHup, Resolve
<1>4. CASE StoreShared BY <1>4 DEF StoreShared
<1>5. CASE StoreEffective BY <1>5 DEF StoreEffective
<1>6. CASE Notify BY <1>6 DEF Notify
<1>7. CASE ServeShared \/ SupStop BY <1>7 DEF ServeShared, SupStop
<1>8. CASE SupLoad
    <2>1. snapOf'[gen] = shared
        BY <1>8, GenInRange DEF SupLoad
    <2> QED BY <1>8, <2>1 DEF SupLoad
<1>9. CASE SupSpawn
    <2>1. gen' - 1 = gen
        BY <1>9 DEF SupSpawn
    <2> QED BY <1>9, <2>1 DEF SupSpawn
<1>10. CASE SupReload BY <1>10 DEF SupReload
<1>11. CASE SupShutdown BY <1>11 DEF SupShutdown
<1>12. ASSUME NEW g \in Generations, NEW u \in Upstreams,
              LoopStop(g, u) \/ LoopSweep(g, u) \/ LoopSwept(g, u)
       PROVE Current'
    BY <1>12 DEF LoopStop, LoopSweep, LoopSwept
<1>13. ASSUME NEW r \in Requests, Request(r) PROVE Current'
    BY <1>13 DEF Request, LoadSnapshot, MatchRoute, Lookup
<1>14. CASE UNCHANGED vars BY <1>14 DEF vars
<1> QED BY <1>1, <1>2, <1>3, <1>4, <1>5, <1>6, <1>7, <1>8, <1>9, <1>10, <1>11,
           <1>12, <1>13, <1>14 DEF Next, SignalLoop, Supervisor

(***************************************************************************)
(* The health supervisor never sleeps on a snapshot that has been          *)
(* replaced, wherever in its respawn the reload landed.                    *)
(***************************************************************************)
THEOREM SupervisorFollows == Spec => []SupervisorCurrent
<1>1. Init => Current
    BY DEF Init, Current
<1>2. TypeOK /\ Counting /\ Current /\ [Next]_vars => Current'
    BY CurrentStep
<1>3. Current => SupervisorCurrent
    BY DEF Current, SupervisorCurrent
<1> QED BY <1>1, <1>2, <1>3, TypeCorrect, PTL DEF Spec

-----------------------------------------------------------------------------
(***************************************************************************)
(* Only validated configurations are published or held by a request, and a *)
(* request's route comes from the snapshot it holds.                       *)
(***************************************************************************)
Validated ==
    /\ Valid(built.cfg) /\ Valid(shared.cfg)
    /\ \A r \in Requests :
          /\ Valid(snap[r].cfg)
          /\ qpc[r] = "lookup" => route[r] \in snap[r].cfg.routed
          /\ qpc[r] # "upstream_missing"

LEMMA ValidatedStep == TypeOK /\ Validated /\ [Next]_vars => Validated'
<1> SUFFICES ASSUME TypeOK, Validated, [Next]_vars PROVE Validated'
    OBVIOUS
<1> USE DEF TypeOK, Validated, operator, signals, cells, supervisor, requests
<1>1. CASE UNCHANGED <<built, shared, requests>> BY <1>1
<1>2. CASE Resolve BY <1>2 DEF Resolve
<1>3. CASE StoreShared BY <1>3 DEF StoreShared
<1>4. ASSUME NEW r \in Requests, LoadSnapshot(r) PROVE Validated'
    BY <1>4 DEF LoadSnapshot
<1>5. ASSUME NEW r \in Requests, MatchRoute(r) PROVE Validated'
    BY <1>5 DEF MatchRoute
<1>6. ASSUME NEW r \in Requests, Lookup(r) PROVE Validated'
    <2>1. route[r] \in snap[r].cfg.upstreams
        BY <1>6 DEF Lookup, Valid
    <2> QED BY <1>6, <2>1 DEF Lookup
<1>7. Resolve \/ StoreShared \/ (\E r \in Requests : Request(r))
      \/ UNCHANGED <<built, shared, requests>>
    BY DEF Next, SignalLoop, Supervisor, vars, EditFile, SendHup, SendTerm, RecvTerm, RecvHup,
           StoreEffective, Notify, ServeShared, SupStop, SupLoad, SupSpawn, SupReload,
           SupShutdown,
           LoopStop, LoopSweep, LoopSwept
<1> QED BY <1>1, <1>2, <1>3, <1>4, <1>5, <1>6, <1>7 DEF Request

(***************************************************************************)
(* No request ever fails with UpstreamMissing, however reloads, broken     *)
(* files and requests interleave.                                          *)
(***************************************************************************)
THEOREM UpstreamAlwaysFound == Spec => []NoUpstreamMissing
<1>1. Init => Validated
    BY DEF Init, Validated
<1>2. TypeOK /\ Validated /\ [Next]_vars => Validated'
    BY ValidatedStep
<1>3. Validated => NoUpstreamMissing
    BY DEF Validated, NoUpstreamMissing
<1> QED BY <1>1, <1>2, <1>3, TypeCorrect, PTL DEF Spec

-----------------------------------------------------------------------------
(***************************************************************************)
(* Loops exist only in spawned generations, and every generation before    *)
(* the last one spawned has been told to stop; from SupStop to SupSpawn    *)
(* that holds of the last one too.                                         *)
(***************************************************************************)
Retired ==
    /\ \A g \in Generations : g + 1 < gen => g \in stopped
    /\ spc \in {"load", "spawn"} => \A g \in Generations : g < gen => g \in stopped
    /\ \A g \in Generations, u \in Upstreams : loops[g][u] # "none" => g < gen

LEMMA RetiredStep == TypeOK /\ Counting /\ Retired /\ [Next]_vars => Retired'
<1> SUFFICES ASSUME TypeOK, Counting, Retired, [Next]_vars PROVE Retired'
    OBVIOUS
<1> USE DEF TypeOK, Retired, Generations, operator, signals, cells, supervisor, requests
<1>1. CASE UNCHANGED <<supervisor, loops>> BY <1>1
<1>2. CASE ServeShared \/ SupStop BY <1>2 DEF ServeShared, SupStop
<1>3. CASE SupLoad BY <1>3 DEF SupLoad
<1>4. CASE SupSpawn
    <2>1. ASSUME NEW g \in Generations, NEW u \in Upstreams, loops'[g][u] # "none"
          PROVE g < gen'
        <3>1. CASE g = gen BY <1>4, <3>1 DEF SupSpawn
        <3>2. CASE g # gen
            <4>1. loops'[g] = loops[g]
                BY <1>4, <3>2 DEF SupSpawn
            <4> QED BY <1>4, <2>1, <4>1 DEF SupSpawn
        <3> QED BY <3>1, <3>2
    <2>2. \A g \in Generations : g + 1 < gen' => g \in stopped'
        BY <1>4 DEF SupSpawn
    <2> QED BY <1>4, <2>1, <2>2 DEF SupSpawn
<1>5. CASE SupReload BY <1>5 DEF SupReload
<1>6. CASE SupShutdown BY <1>6 DEF SupShutdown
<1>7. ASSUME NEW g \in Generations, NEW u \in Upstreams,
             LoopStop(g, u) \/ LoopSweep(g, u) \/ LoopSwept(g, u)
      PROVE Retired'
    <2>1. loops[g][u] # "none" /\ UNCHANGED supervisor
        BY <1>7 DEF LoopStop, LoopSweep, LoopSwept
    <2>2. PICK to : loops' = [loops EXCEPT ![g][u] = to]
        BY <1>7 DEF LoopStop, LoopSweep, LoopSwept, SetLoop
    <2>3. ASSUME NEW h \in Generations, NEW v \in Upstreams, loops'[h][v] # "none"
          PROVE h < gen
        BY <2>1, <2>2, <2>3
    <2> QED BY <2>1, <2>3
<1>8. \/ UNCHANGED <<supervisor, loops>> \/ Supervisor
      \/ \E g \in Generations, u \in Upstreams :
            LoopStop(g, u) \/ LoopSweep(g, u) \/ LoopSwept(g, u)
    BY DEF Next, SignalLoop, vars, EditFile, SendHup, SendTerm, RecvTerm, RecvHup, Resolve,
           StoreShared, StoreEffective, Notify, Request, LoadSnapshot, MatchRoute, Lookup
<1> QED BY <1>1, <1>2, <1>3, <1>4, <1>5, <1>6, <1>7, <1>8 DEF Supervisor

(***************************************************************************)
(* Two generations of health loops never run unstopped side by side.       *)
(***************************************************************************)
THEOREM GenerationsDoNotOverlap == Spec => []OneLiveGeneration
<1>1. Init => Retired
    BY DEF Init, Retired, Generations
<1>2. TypeOK /\ Counting /\ Retired /\ [Next]_vars => Retired'
    BY RetiredStep
<1>3. TypeOK /\ Retired => OneLiveGeneration
    <2> SUFFICES ASSUME TypeOK, Retired, NEW g \in Generations, NEW h \in Generations,
                        Live(g), Live(h)
                 PROVE g = h
        BY DEF OneLiveGeneration
    <2>1. g < gen /\ ~(g + 1 < gen) /\ h < gen /\ ~(h + 1 < gen)
        BY DEF Live, Retired
    <2> QED BY <2>1 DEF TypeOK, Generations
<1> QED BY <1>1, <1>2, <1>3, TypeCorrect, PTL DEF Spec

-----------------------------------------------------------------------------
(***************************************************************************)
(* What reload has stored so far at each of its steps.                     *)
(***************************************************************************)
Published ==
    /\ ~Publishing => effective = shared.cfg
    /\ Publishing => shared = built
    /\ rpc = "notify" => effective = built.cfg

(***************************************************************************)
(* Between reloads the admin API shows the configuration being served.     *)
(***************************************************************************)
THEOREM AdminShowsWhatIsServed == Spec => []EffectiveIsServed
<1>1. Init => Published
    BY DEF Init, Published, Publishing
<1>2. ASSUME TypeOK, Published, [Next]_vars PROVE Published'
    <2> USE DEF TypeOK, Published, Publishing, operator, signals, cells
    <2>1. CASE UNCHANGED <<signals, shared, effective>> BY <1>2, <2>1
    <2>2. CASE RecvTerm \/ RecvHup \/ Resolve BY <1>2, <2>2 DEF RecvTerm, RecvHup, Resolve
    <2>3. CASE StoreShared BY <1>2, <2>3 DEF StoreShared
    <2>4. CASE StoreEffective BY <1>2, <2>4 DEF StoreEffective
    <2>5. CASE Notify BY <1>2, <2>5 DEF Notify
    <2>6. UNCHANGED <<signals, shared, effective>> \/ SignalLoop
        BY <1>2 DEF Next, Supervisor, vars, EditFile, SendHup, SendTerm, ServeShared, SupStop,
               SupLoad, SupSpawn, SupReload, SupShutdown, LoopStop, LoopSweep, LoopSwept,
               Request, LoadSnapshot, MatchRoute, Lookup
    <2> QED BY <2>1, <2>2, <2>3, <2>4, <2>5, <2>6 DEF SignalLoop
<1>3. Published => EffectiveIsServed
    BY DEF Published, EffectiveIsServed
<1> QED BY <1>1, <1>2, <1>3, TypeCorrect, PTL DEF Spec
=============================================================================
