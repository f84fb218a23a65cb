------------------------ MODULE BackgroundCollector ------------------------
(***************************************************************************)
(* The background collection manager: app/utils/background_collector.py,   *)
(* with the handlers that drive it (PUT /resource-config, the on-demand    *)
(* start and stop endpoints, the status web socket).                       *)
(*                                                                         *)
(* Everything here is a coroutine of ONE asyncio event loop: a coroutine   *)
(* runs undisturbed from one await to the next.  "loop" is the coroutine   *)
(* that has the processor and keeps it, or Nobody when the event loop      *)
(* picks the next ready one.  asyncio.Lock is a FIFO: "lockQ" is its       *)
(* holder followed by its waiters.  Only the proxy table is written from   *)
(* other threads (the def endpoints of the thread pool).                   *)
(***************************************************************************)
EXTENDS Naturals, Sequences, FiniteSets

CONSTANTS
    Handlers,     \* HTTP request coroutines that may be in flight together
    Tasks,        \* asyncio.Task objects of _periodic_collect
    Clients,      \* web sockets of browsers
    Proxies,      \* rows of the proxies table
    Configs,      \* contents the resource_config row may have
    Communities,  \* SNMP communities
    Payloads,     \* (community, oids) pairs of on-demand start requests
    CommunityOf,  \* the community of each config
    Collectable,  \* the configs with at least one OID to collect
    Nobody        \* no coroutine, no task

(***************************************************************************)
(* The hash() of the code that makes a task id is taken to be injective.   *)
(* An automatic id covers the proxies and the community and NOT the OIDs   *)
(* or the interval; an on-demand id covers proxies, community and OIDs.    *)
(***************************************************************************)
AutoIds     == ((SUBSET Proxies) \ {{}}) \X Communities
OnDemandIds == ((SUBSET Proxies) \ {{}}) \X Payloads
TaskIds     == AutoIds \cup OnDemandIds
AutoId(ps, c) == <<ps, CommunityOf[c]>>
ProxiesOf(t)  == t[1]

Workers == Handlers \cup Tasks
Procs   == Workers \cup Clients

ASSUME ProcsAssumption ==
    /\ Handlers \cap Tasks = {} /\ Handlers \cap Clients = {}
    /\ Tasks \cap Clients = {}  /\ Nobody \notin Procs \cup Configs \cup TaskIds

ASSUME SettingsAssumption ==
    /\ CommunityOf \in [Configs -> Communities]
    /\ Collectable \subseteq Configs
    /\ Communities \cap Payloads = {}

(* The bound on Task objects: enough that asyncio.create_task never fails. *)
ASSUME TasksAssumption ==
    /\ IsFiniteSet(Proxies) /\ IsFiniteSet(Communities) /\ IsFiniteSet(Payloads)
    /\ IsFiniteSet(Tasks)   /\ IsFiniteSet(Handlers)
    /\ Cardinality(Tasks) >= Cardinality(TaskIds) + Cardinality(Handlers)

VARIABLES
    config,     \* the resource_config row
    active,     \* the proxies with is_active
    running,    \* _running_tasks; _collection_status has the same keys
    clients,    \* _websocket_clients
    lockQ,      \* _lock: its holder and then its waiters
    loop,       \* the coroutine that runs on, or Nobody
    pc,         \* where each coroutine is
    kind,       \* the request a handler serves
    todo,       \* the automatic ids restart_on_config_change has yet to stop
    tid,        \* the task id a coroutine works on
    cfg,        \* the config a coroutine was given (Nobody on demand)
    victim,     \* the cancelled Task a handler awaits
    msg,        \* the status a coroutine broadcasts
    cancelled,  \* the Tasks with task.cancel() called, not yet unwound
    unsent,     \* the clients the current broadcast has yet to reach
    failed      \* "disconnected" of the current broadcast

dbVars   == <<config, active>>
castVars == <<unsent, failed>>
argVars  == <<kind, todo, tid, cfg, victim, msg>>
vars == <<config, active, running, clients, lockQ, loop, pc, kind, todo, tid,
          cfg, victim, msg, cancelled, unsent, failed>>

HandlerPC == {"idle", "restart", "stop", "start", "cast", "send", "join"}
TaskPC    == {"free", "new", "cast", "send", "collect", "gather", "sleep"}
ClientPC  == {"off", "reg", "on", "unreg"}
Statuses  == {"started", "stopped", "collecting", "completed", "error"}

RunningIds == {t \in TaskIds : running[t] # Nobody}

TypeOK ==
    /\ config \in Configs
    /\ active \subseteq Proxies
    /\ running \in [TaskIds -> Tasks \cup {Nobody}]
    /\ clients \subseteq Clients
    /\ lockQ \in Seq(Procs)
    /\ loop \in Procs \cup {Nobody}
    /\ pc \in [Procs -> HandlerPC \cup TaskPC \cup ClientPC]
    /\ \A h \in Handlers : pc[h] \in HandlerPC
    /\ \A k \in Tasks : pc[k] \in TaskPC
    /\ \A c \in Clients : pc[c] \in ClientPC
    /\ kind \in [Handlers -> {"put", "start", "stop"}]
    /\ todo \in [Handlers -> SUBSET AutoIds]
    /\ tid \in [Workers -> TaskIds \cup {Nobody}]
    /\ cfg \in [Workers -> Configs \cup {Nobody}]
    /\ victim \in [Handlers -> Tasks \cup {Nobody}]
    /\ msg \in [Workers -> Statuses \cup {"none"}]
    /\ cancelled \subseteq Tasks
    /\ unsent \subseteq Clients
    /\ failed \subseteq Clients

-----------------------------------------------------------------------------
(* The event loop and the lock.                                            *)

CanRun(p) == loop \in {p, Nobody}

\* A waiter joins at the end of the deque.
Enqueue(q, p) == Append(q, p)

\* A free lock is taken without yielding, a held one suspends the coroutine.
Acquire(p) ==
    /\ lockQ' = Enqueue(lockQ, p)
    /\ loop' = IF lockQ = <<>> THEN p ELSE Nobody

\* (Mutant: the critical sections run without the lock.)
Holds_NoLock(p) == lockQ # <<>>
Holds(p) == lockQ # <<>> /\ Head(lockQ) = p

\* Releasing hands the lock to the first waiter.  (Mutant: not when a send
\* has failed, as without "async with".)
Released_LeaksOnFailure == IF failed # {} THEN lockQ ELSE Tail(lockQ)
Released == Tail(lockQ)

\* Release and acquire again with no await between: behind all the waiters.
ReleaseAndRequeue(p, q) ==
    /\ lockQ' = Enqueue(q, p)
    /\ loop' = IF q = <<>> THEN p ELSE Nobody

Queued(q, p) == \E i \in DOMAIN q : q[i] = p

\* A waiter that is cancelled leaves the queue.
Without(q, p) ==
    IF Queued(q, p)
    THEN LET i == CHOOSE j \in DOMAIN q : q[j] = p
         IN  [j \in 1 .. Len(q) - 1 |-> IF j < i THEN q[j] ELSE q[j + 1]]
    ELSE q

\* is_running, and the test start_collection and stop_collection begin with.
IsRunning(t) == running[t] # Nobody

\* task.cancel().  (Mutant: the task is only forgotten.)
Cancel_Forgets(k) == UNCHANGED cancelled
Cancel(k) == cancelled' = cancelled \cup {k}

-----------------------------------------------------------------------------
(* Requests.  A handler that is idle takes the next one.                   *)

Goto(p, label) == pc' = [pc EXCEPT ![p] = label]

\* The handler returns its response.
Finish(h) ==
    /\ Goto(h, "idle")
    /\ todo'   = [todo EXCEPT ![h] = {}]
    /\ tid'    = [tid EXCEPT ![h] = Nobody]
    /\ cfg'    = [cfg EXCEPT ![h] = Nobody]
    /\ victim' = [victim EXCEPT ![h] = Nobody]
    /\ msg'    = [msg EXCEPT ![h] = "none"]
    /\ kind'   = [kind EXCEPT ![h] = "put"]

\* The tasks whose id starts with "ru_auto_".  (Mutant: the prefix is wrong.)
AutoRunning_None == {}
\* (Mutant: only the id of the settings saved before is looked for.)
AutoRunning_LastSaved == {t \in AutoIds \cap RunningIds : t = AutoId(active, config)}
AutoRunning == {t \in AutoIds : IsRunning(t)}

\* update_resource_config commits the row, then restart_on_config_change
\* lists the automatic tasks, all before its first await.
PutConfig(h) ==
    /\ loop = Nobody /\ pc[h] = "idle"
    /\ \E c \in Configs : config' = c
    /\ todo' = [todo EXCEPT ![h] = AutoRunning]
    /\ kind' = [kind EXCEPT ![h] = "put"]
    /\ Goto(h, "restart")
    /\ loop' = h
    /\ UNCHANGED <<active, running, clients, lockQ, tid, cfg, victim, msg,
                   cancelled, castVars>>

\* POST background/start: is_running is looked up without the lock; the
\* lock is asked for with no await in between.
RequestStart(h) ==
    /\ loop = Nobody /\ pc[h] = "idle"
    /\ \E t \in OnDemandIds :
          /\ ~IsRunning(t)
          /\ tid' = [tid EXCEPT ![h] = t]
    /\ kind' = [kind EXCEPT ![h] = "start"]
    /\ Goto(h, "start")
    /\ Acquire(h)
    /\ UNCHANGED <<dbVars, running, clients, todo, cfg, victim, msg, cancelled,
                   castVars>>

\* POST background/stop takes any task id, an automatic one too.
RequestStop(h) ==
    /\ loop = Nobody /\ pc[h] = "idle"
    /\ \E t \in TaskIds : tid' = [tid EXCEPT ![h] = t]
    /\ kind' = [kind EXCEPT ![h] = "stop"]
    /\ Goto(h, "stop")
    /\ Acquire(h)
    /\ UNCHANGED <<dbVars, running, clients, todo, cfg, victim, msg, cancelled,
                   castVars>>

-----------------------------------------------------------------------------
(* restart_on_config_change and start_on_startup.                          *)

\* There is an active proxy and an OID.  (Mutant: proxies are not looked at.)
SomethingToCollect_NoProxyCheck == config \in Collectable
SomethingToCollect == active # {} /\ config \in Collectable

RestartNext(h) ==
    /\ CanRun(h) /\ pc[h] = "restart"
    /\ \E t \in todo[h] :
          /\ tid'  = [tid EXCEPT ![h] = t]
          /\ todo' = [todo EXCEPT ![h] = @ \ {t}]
    /\ Goto(h, "stop")
    /\ Acquire(h)
    /\ UNCHANGED <<dbVars, running, clients, kind, cfg, victim, msg, cancelled,
                   castVars>>

\* All stopped: start_on_startup reads the proxies and the config ...
StartOnStartup(h) ==
    /\ CanRun(h) /\ pc[h] = "restart" /\ todo[h] = {}
    /\ SomethingToCollect
    /\ tid' = [tid EXCEPT ![h] = AutoId(active, config)]
    /\ cfg' = [cfg EXCEPT ![h] = config]
    /\ Goto(h, "start")
    /\ Acquire(h)
    /\ UNCHANGED <<dbVars, running, clients, kind, todo, victim, msg, cancelled,
                   castVars>>

\* ... or returns when there is nothing to collect.
NothingToStart(h) ==
    /\ CanRun(h) /\ pc[h] = "restart" /\ todo[h] = {}
    /\ ~SomethingToCollect
    /\ Finish(h)
    /\ loop' = Nobody
    /\ UNCHANGED <<dbVars, running, clients, lockQ, cancelled, castVars>>

-----------------------------------------------------------------------------
(* start_collection and stop_collection, with the lock held.               *)

\* A Task object nobody refers to any more.
FreeTasks == {k \in Tasks : pc[k] = "free" /\ \A h \in Handlers : victim[h] # k}

StartTask(h) ==
    /\ CanRun(h) /\ pc[h] = "start" /\ Holds(h)
    /\ ~IsRunning(tid[h])
    /\ \E k \in FreeTasks :
          /\ running' = [running EXCEPT ![tid[h]] = k]
          /\ pc'  = [pc EXCEPT ![h] = "cast", ![k] = "new"]
          /\ tid' = [tid EXCEPT ![k] = tid[h]]
          /\ cfg' = [cfg EXCEPT ![k] = cfg[h]]
    /\ msg' = [msg EXCEPT ![h] = "started"]
    /\ ReleaseAndRequeue(h, Released)
    /\ UNCHANGED <<dbVars, clients, kind, todo, victim, cancelled, castVars>>

\* "already running": the request is dropped.
AlreadyRunning(h) ==
    /\ CanRun(h) /\ pc[h] = "start" /\ Holds(h)
    /\ IsRunning(tid[h])
    /\ Finish(h)
    /\ lockQ' = Released /\ loop' = Nobody
    /\ UNCHANGED <<dbVars, running, clients, cancelled, castVars>>

StopTask(h) ==
    /\ CanRun(h) /\ pc[h] = "stop" /\ Holds(h)
    /\ IsRunning(tid[h])
    /\ running'   = [running EXCEPT ![tid[h]] = Nobody]
    /\ Cancel(running[tid[h]])
    /\ victim'    = [victim EXCEPT ![h] = running[tid[h]]]
    /\ msg'       = [msg EXCEPT ![h] = "stopped"]
    /\ Goto(h, "cast")
    /\ ReleaseAndRequeue(h, Without(Released, running[tid[h]]))
    /\ UNCHANGED <<dbVars, clients, kind, todo, tid, cfg, castVars>>

\* Back in the loop of restart_on_config_change, or at the endpoint's end.
AfterStop(h) ==
    IF kind[h] = "put"
    THEN /\ Goto(h, "restart")
         /\ tid'    = [tid EXCEPT ![h] = Nobody]
         /\ victim' = [victim EXCEPT ![h] = Nobody]
         /\ msg'    = [msg EXCEPT ![h] = "none"]
         /\ loop'   = h
         /\ UNCHANGED <<kind, todo, cfg>>
    ELSE Finish(h) /\ loop' = Nobody

NotRunning(h) ==
    /\ CanRun(h) /\ pc[h] = "stop" /\ Holds(h)
    /\ ~IsRunning(tid[h])
    /\ AfterStop(h)
    /\ lockQ' = Released
    /\ UNCHANGED <<dbVars, running, clients, cancelled, castVars>>

\* await task, after the broadcast of "stopped".
Join(h) ==
    /\ CanRun(h) /\ pc[h] = "join"
    /\ pc[victim[h]] = "free"
    /\ AfterStop(h)
    /\ UNCHANGED <<dbVars, running, clients, lockQ, cancelled, castVars>>

-----------------------------------------------------------------------------
(* _broadcast_status, for handlers and collector tasks alike.              *)

BeginBroadcast(p) ==
    /\ CanRun(p) /\ pc[p] = "cast" /\ Holds(p)
    /\ unsent' = clients /\ failed' = {}
    /\ Goto(p, "send")
    /\ loop' = p
    /\ UNCHANGED <<dbVars, running, clients, lockQ, argVars, cancelled>>

\* await ws.send_json: the client gets the message ...
Deliver(p, c) ==
    /\ CanRun(p) /\ pc[p] = "send" /\ c \in unsent
    /\ unsent' = unsent \ {c}
    /\ loop' = Nobody
    /\ UNCHANGED <<dbVars, running, clients, lockQ, pc, argVars, cancelled, failed>>

\* ... or the send raises, and the client is dropped at the end.
DeliverFails(p, c) ==
    /\ CanRun(p) /\ pc[p] = "send" /\ c \in unsent
    /\ unsent' = unsent \ {c}
    /\ failed' = failed \cup {c}
    /\ loop' = Nobody
    /\ UNCHANGED <<dbVars, running, clients, lockQ, pc, argVars, cancelled>>

AfterBroadcast == [started |-> "idle", stopped |-> "join", collecting |-> "collect",
                   completed |-> "sleep", error |-> "sleep"]

EndBroadcast(p) ==
    /\ CanRun(p) /\ pc[p] = "send" /\ unsent = {}
    /\ clients' = clients \ failed
    /\ failed' = {}
    /\ lockQ' = Released
    /\ loop' = IF msg[p] = "collecting" THEN p ELSE Nobody
    /\ IF msg[p] = "started"
       THEN Finish(p)
       ELSE Goto(p, AfterBroadcast[msg[p]]) /\ UNCHANGED argVars
    /\ UNCHANGED <<dbVars, running, cancelled, unsent>>

-----------------------------------------------------------------------------
(* _periodic_collect: a Task.                                              *)

\* A fresh Task starts, or its sleep ends: broadcast "collecting".
CycleStart(k) ==
    /\ loop = Nobody /\ pc[k] \in {"new", "sleep"} /\ k \notin cancelled
    /\ msg' = [msg EXCEPT ![k] = "collecting"]
    /\ Goto(k, "cast")
    /\ Acquire(k)
    /\ UNCHANGED <<dbVars, running, clients, kind, todo, tid, cfg, victim,
                   cancelled, castVars>>

\* _collect_once finds an active proxy and awaits the SNMP reads ...
CollectStart(k) ==
    /\ CanRun(k) /\ pc[k] = "collect"
    /\ ProxiesOf(tid[k]) \cap active # {}
    /\ Goto(k, "gather")
    /\ loop' = Nobody
    /\ UNCHANGED <<dbVars, running, clients, lockQ, argVars, cancelled, castVars>>

\* ... or none, and returns at once; or the query for them raises.
CollectNothing(k) ==
    /\ CanRun(k) /\ pc[k] = "collect"
    /\ \/ /\ ProxiesOf(tid[k]) \cap active = {}
          /\ msg' = [msg EXCEPT ![k] = "completed"]
       \/ msg' = [msg EXCEPT ![k] = "error"]
    /\ Goto(k, "cast")
    /\ Acquire(k)
    /\ UNCHANGED <<dbVars, running, clients, kind, todo, tid, cfg, victim,
                   cancelled, castVars>>

\* The reads are in: the rows are committed, or an exception is reported.
CollectEnd(k) ==
    /\ loop = Nobody /\ pc[k] = "gather" /\ k \notin cancelled
    /\ \E m \in {"completed", "error"} : msg' = [msg EXCEPT ![k] = m]
    /\ Goto(k, "cast")
    /\ Acquire(k)
    /\ UNCHANGED <<dbVars, running, clients, kind, todo, tid, cfg, victim,
                   cancelled, castVars>>

\* CancelledError is thrown at whatever the Task awaits; the Task ends.
Unwind(k) ==
    /\ loop = Nobody /\ k \in cancelled
    /\ Goto(k, "free")
    /\ tid' = [tid EXCEPT ![k] = Nobody]
    /\ cfg' = [cfg EXCEPT ![k] = Nobody]
    /\ msg' = [msg EXCEPT ![k] = "none"]
    /\ cancelled' = cancelled \ {k}
    /\ UNCHANGED <<dbVars, running, clients, lockQ, loop, kind, todo, victim, castVars>>

-----------------------------------------------------------------------------
(* websocket_collection_status: a browser connects and disconnects.        *)

Connect(c) ==
    /\ loop = Nobody /\ pc[c] = "off"
    /\ Goto(c, "reg")
    /\ Acquire(c)
    /\ UNCHANGED <<dbVars, running, clients, argVars, cancelled, castVars>>

\* register_websocket, then initial_status with the ids running now.
Register(c) ==
    /\ CanRun(c) /\ pc[c] = "reg" /\ Holds(c)
    /\ clients' = clients \cup {c}
    /\ Goto(c, "on")
    /\ lockQ' = Released /\ loop' = Nobody
    /\ UNCHANGED <<dbVars, running, argVars, cancelled, castVars>>

\* A send or receive raises WebSocketDisconnect: the finally clause runs.
Disconnect(c) ==
    /\ loop = Nobody /\ pc[c] = "on"
    /\ Goto(c, "unreg")
    /\ Acquire(c)
    /\ UNCHANGED <<dbVars, running, clients, argVars, cancelled, castVars>>

Unregister(c) ==
    /\ CanRun(c) /\ pc[c] = "unreg" /\ Holds(c)
    /\ clients' = clients \ {c}
    /\ Goto(c, "off")
    /\ lockQ' = Released /\ loop' = Nobody
    /\ UNCHANGED <<dbVars, running, argVars, cancelled, castVars>>

\* The proxy endpoints run in threads: at any moment.
EditProxies ==
    /\ \E ps \in SUBSET Proxies : ps # active /\ active' = ps
    /\ UNCHANGED <<config, running, clients, lockQ, loop, pc, argVars, cancelled,
                   castVars>>

-----------------------------------------------------------------------------

(***************************************************************************)
(* The startup event runs start_on_startup before any request is served    *)
(* and with no client: without contention it runs from end to end.         *)
(***************************************************************************)
Init ==
    /\ config \in Configs /\ active \in SUBSET Proxies
    /\ clients = {} /\ lockQ = <<>> /\ loop = Nobody
    /\ kind = [h \in Handlers |-> "put"]
    /\ todo = [h \in Handlers |-> {}]
    /\ victim = [h \in Handlers |-> Nobody]
    /\ msg = [p \in Workers |-> "none"]
    /\ cancelled = {} /\ unsent = {} /\ failed = {}
    /\ \E started \in IF active # {} /\ config \in Collectable
                     THEN {{k} : k \in Tasks} ELSE {{}} :
          /\ running = [t \in TaskIds |->
                          IF t = AutoId(active, config) /\ started # {}
                          THEN CHOOSE k \in Tasks : k \in started ELSE Nobody]
          /\ pc = [p \in Procs |-> CASE p \in Handlers -> "idle"
                                     [] p \in started -> "new"
                                     [] p \in Tasks \ started -> "free"
                                     [] p \in Clients -> "off"]
          /\ tid = [p \in Workers |-> IF p \in started THEN AutoId(active, config)
                                                       ELSE Nobody]
          /\ cfg = [p \in Workers |-> IF p \in started THEN config ELSE Nobody]

\* What the environment decides to do.
Environment ==
    \/ \E h \in Handlers : PutConfig(h) \/ RequestStart(h) \/ RequestStop(h)
    \/ \E c \in Clients : Connect(c) \/ Disconnect(c)
    \/ EditProxies

HandlerStep(h) ==
    \/ RestartNext(h) \/ StartOnStartup(h) \/ NothingToStart(h)
    \/ StartTask(h) \/ AlreadyRunning(h) \/ StopTask(h) \/ NotRunning(h) \/ Join(h)

BroadcastStep(p) ==
    \/ BeginBroadcast(p) \/ EndBroadcast(p)
    \/ \E c \in Clients : Deliver(p, c) \/ DeliverFails(p, c)

TaskStep(k) ==
    CycleStart(k) \/ CollectStart(k) \/ CollectNothing(k) \/ CollectEnd(k) \/ Unwind(k)

ClientStep(c) == Register(c) \/ Unregister(c)

Next ==
    \/ Environment
    \/ \E h \in Handlers : HandlerStep(h)
    \/ \E p \in Workers : BroadcastStep(p)
    \/ \E k \in Tasks : TaskStep(k)
    \/ \E c \in Clients : ClientStep(c)

Spec == Init /\ [][Next]_vars

(***************************************************************************)
(* asyncio runs ready coroutines in FIFO order, so one that is ready again *)
(* and again runs; SNMP reads, sleeps and sends end (a read by its         *)
(* timeouts, a send by delivery or by the web socket ping timeout).        *)
(* Nothing obliges users to send requests or browsers to connect.          *)
(***************************************************************************)
Fairness ==
    /\ \A h \in Handlers : SF_vars(HandlerStep(h))
    /\ \A p \in Workers  : SF_vars(BroadcastStep(p))
    /\ \A k \in Tasks    : SF_vars(TaskStep(k))
    /\ \A c \in Clients  : SF_vars(ClientStep(c))

FairSpec == Spec /\ Fairness

-----------------------------------------------------------------------------

(***************************************************************************)
(* One collector per id: an entry of _running_tasks is a live Task of that *)
(* id that nobody cancelled, and every live, uncancelled Task is entered,  *)
(* so that it can be stopped (start_collection, stop_collection).          *)
(***************************************************************************)
OneCollectorPerId ==
    /\ \A t \in RunningIds : /\ pc[running[t]] # "free"
                             /\ tid[running[t]] = t
                             /\ running[t] \notin cancelled
    /\ \A k \in Tasks \ cancelled : pc[k] # "free" =>
                             tid[k] \in TaskIds /\ running[tid[k]] = k

(***************************************************************************)
(* A stopped collector is silent: once stop_collection has cancelled it,   *)
(* it neither waits for the lock nor broadcasts nor begins a collection.   *)
(***************************************************************************)
StoppedIsSilent ==
    \A k \in cancelled : /\ pc[k] \notin {"send", "collect"}
                         /\ ~Queued(lockQ, k)

(***************************************************************************)
(* _websocket_clients does not change while a broadcast iterates over it   *)
(* (Python would raise "Set changed size during iteration").               *)
(***************************************************************************)
Broadcasting == {p \in Workers : pc[p] = "send"}
ClientsStableInBroadcast ==
    [][Broadcasting \cap Broadcasting' # {} => clients' = clients]_vars

(***************************************************************************)
(* restart_on_config_change: with no request in flight, whatever runs      *)
(* automatically runs the saved config, and only once.                     *)
(***************************************************************************)
Settled == \A h \in Handlers : pc[h] = "idle"
AutoCollectsSavedConfig ==
    Settled => \A t \in RunningIds \cap AutoIds : cfg[running[t]] = config
OneAutoCollector ==
    Settled => \A t, u \in RunningIds \cap AutoIds : t = u

(***************************************************************************)
(* Nothing is stuck: every PUT, start and stop request is answered, though *)
(* a stop awaits the Task it cancelled; every running collector collects   *)
(* again and again until it is stopped, errors included; every browser     *)
(* that connects is registered.                                            *)
(***************************************************************************)
RequestsAreAnswered == \A h \in Handlers : pc[h] # "idle" ~> pc[h] = "idle"

CollectorsKeepCollecting ==
    \A k \in Tasks : pc[k] # "free" ~> pc[k] \in {"collect", "free"}

ClientsAreRegistered == \A c \in Clients : pc[c] = "reg" ~> pc[c] = "on"

=============================================================================
