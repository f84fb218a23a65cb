--------------------- MODULE BackgroundCollectorProofs ---------------------
(***************************************************************************)
(* Proofs about BackgroundCollector, for any number of requests, tasks,    *)
(* clients, proxies and configs; the last section is about requests that   *)
(* come one at a time.                                                     *)
(***************************************************************************)
EXTENDS BackgroundCollector, TLAPS

Injective(q) == \A i, j \in DOMAIN q : q[i] = q[j] => i = j
Waits(p) == pc[p] \in {"stop", "start", "cast", "send", "reg", "unreg"}

(***************************************************************************)
(* The parts of the inductive invariant.                                   *)
(***************************************************************************)
\* The queue of the lock holds each coroutine that waits for it, once.
QueueInv ==
    /\ Injective(lockQ)
    /\ \A p \in Procs : Queued(lockQ, p) => Waits(p)

\* Only the holder of the lock broadcasts.
SenderInv == \A p \in Workers : pc[p] = "send" => lockQ # <<>> /\ lockQ[1] = p

\* A Task that has begun a collection has the processor.
CollectInv == \A k \in Tasks : pc[k] = "collect" => loop = k

\* The locals a coroutine needs are set where it needs them.
LocalsInv ==
    /\ \A h \in Handlers :
         /\ pc[h] \in {"stop", "start", "cast", "send", "join"} => tid[h] \in TaskIds
         /\ pc[h] = "join" => victim[h] \in Tasks
         /\ pc[h] \in {"cast", "send"} =>
              \/ msg[h] = "started"
              \/ msg[h] = "stopped" /\ victim[h] \in Tasks
    /\ \A k \in Tasks :
         /\ pc[k] \in {"cast", "send"} => msg[k] \in {"collecting", "completed", "error"}
         /\ pc[k] = "free" => k \notin cancelled

IInv == /\ TypeOK
        /\ QueueInv
        /\ SenderInv
        /\ CollectInv
        /\ LocalsInv
        /\ OneCollectorPerId
        /\ StoppedIsSilent

-----------------------------------------------------------------------------
(* The queue of the lock.                                                  *)


\* Joining at the end, and the head leaving, keep the rest in its order.
LEMMA EnqueueFacts ==
    ASSUME NEW S, NEW q \in Seq(S), NEW p \in S, Injective(q), ~Queued(q, p)
    PROVE  /\ Enqueue(q, p) \in Seq(S)
           /\ Injective(Enqueue(q, p))
           /\ \A x : Queued(Enqueue(q, p), x) <=> Queued(q, x) \/ x = p
           /\ Enqueue(q, p) # <<>>
           /\ Enqueue(q, p)[1] = IF q = <<>> THEN p ELSE q[1]
<1> DEFINE e == Append(q, p)
<1>1. /\ e \in Seq(S) /\ DOMAIN e = 1 .. Len(q) + 1 /\ Len(q) \in Nat
      /\ DOMAIN q = 1 .. Len(q)
      /\ e[Len(q) + 1] = p
      /\ \A i \in 1 .. Len(q) : e[i] = q[i]
  OBVIOUS
<1>2. e # <<>> /\ e[1] = IF q = <<>> THEN p ELSE q[1]
  <2>1. e # <<>>
    BY <1>1
  <2>2. CASE q = <<>>
    BY <1>1, <2>2
  <2>3. CASE q # <<>>
    BY <1>1, <2>3
  <2> QED BY <2>1, <2>2, <2>3
<1> HIDE DEF e
<1>3. Injective(e)
  BY <1>1 DEF Injective, Queued
<1>4. \A x : Queued(e, x) <=> Queued(q, x) \/ x = p
  <2>1. ASSUME NEW x, Queued(e, x) PROVE Queued(q, x) \/ x = p
    BY <1>1, <2>1 DEF Queued
  <2>2. ASSUME NEW x, Queued(q, x) \/ x = p PROVE Queued(e, x)
    <3>1. CASE x = p
      BY <1>1, <3>1 DEF Queued
    <3>2. CASE Queued(q, x)
      BY <1>1, <3>2 DEF Queued
    <3> QED BY <2>2, <3>1, <3>2
  <2> QED BY <2>1, <2>2
<1> QED BY <1>1, <1>2, <1>3, <1>4 DEF Enqueue, e

LEMMA TailFacts ==
    ASSUME NEW S, NEW q \in Seq(S), q # <<>>, Injective(q)
    PROVE  /\ Tail(q) \in Seq(S)
           /\ Injective(Tail(q))
           /\ \A x : Queued(Tail(q), x) <=> Queued(q, x) /\ x # q[1]
<1>1. Tail(q) \in Seq(S) /\ Len(q) \in Nat \ {0}
  OBVIOUS
<1>2. \A i \in DOMAIN Tail(q) : i + 1 \in DOMAIN q /\ Tail(q)[i] = q[i + 1] /\ i + 1 # 1
  OBVIOUS
<1>3. Injective(Tail(q))
  BY <1>2 DEF Injective
<1>4. ASSUME NEW x, Queued(Tail(q), x)
      PROVE  Queued(q, x) /\ x # q[1]
  BY <1>1, <1>2, <1>4 DEF Injective, Queued
<1>5. ASSUME NEW x, Queued(q, x), x # q[1]
      PROVE  Queued(Tail(q), x)
  <2>1. PICK i \in DOMAIN q : q[i] = x
    BY <1>5 DEF Queued
  <2>2. i - 1 \in DOMAIN Tail(q) /\ Tail(q)[i - 1] = x
    BY <2>1, <1>1, <1>5
  <2> QED BY <2>2 DEF Queued
<1> QED BY <1>1, <1>3, <1>4, <1>5

\* A cancelled waiter is gone from the queue, and nobody else is.
LEMMA WithoutFacts ==
    ASSUME NEW S, NEW q \in Seq(S), NEW p, Injective(q)
    PROVE  /\ Without(q, p) \in Seq(S)
           /\ Injective(Without(q, p))
           /\ \A x : Queued(Without(q, p), x) <=> Queued(q, x) /\ x # p
<1>1. CASE ~Queued(q, p)
  BY <1>1 DEF Without, Queued
<1>2. CASE Queued(q, p)
  <2> DEFINE i == CHOOSE j \in DOMAIN q : q[j] = p
             w == [j \in 1 .. Len(q) - 1 |-> IF j < i THEN q[j] ELSE q[j + 1]]
  <2>1. i \in DOMAIN q /\ q[i] = p /\ Without(q, p) = w
    BY <1>2 DEF Without, Queued
  <2> HIDE DEF i
  <2>2. i \in 1 .. Len(q) /\ Len(q) \in Nat /\ DOMAIN q = 1 .. Len(q)
    BY <2>1
  <2>3. w \in Seq(S) /\ DOMAIN w = 1 .. Len(q) - 1
    BY <2>2
  <2>4. \A j \in DOMAIN w : w[j] = IF j < i THEN q[j] ELSE q[j + 1]
    BY <2>3
  <2> HIDE DEF w
  <2>5. Injective(w)
    BY <2>2, <2>3, <2>4 DEF Injective
  <2>6. ASSUME NEW x, Queued(w, x)
        PROVE  Queued(q, x) /\ x # p
    BY <2>1, <2>2, <2>3, <2>4, <2>6 DEF Injective, Queued
  <2>7. ASSUME NEW x, Queued(q, x), x # p
        PROVE  Queued(w, x)
    <3>1. PICK j \in DOMAIN q : q[j] = x
      BY <2>7 DEF Queued
    <3>2. CASE j < i
      BY <3>1, <3>2, <2>1, <2>2, <2>3, <2>4 DEF Queued
    <3>3. CASE j > i
      <4>1. j - 1 \in DOMAIN w /\ w[j - 1] = x
        BY <3>1, <3>3, <2>2, <2>3, <2>4
      <4> QED BY <4>1 DEF Queued
    <3> QED BY <3>1, <3>2, <3>3, <2>1, <2>2, <2>7
  <2> QED BY <2>1, <2>3, <2>5, <2>6, <2>7
<1> QED BY <1>1, <1>2

-----------------------------------------------------------------------------
(* What taking and releasing the lock leave of the queue.                  *)

LEMMA QueuedInProcs ==
    ASSUME IInv, NEW p, Queued(lockQ, p)
    PROVE  p \in Procs /\ Waits(p)
<1>1. p \in Procs
  BY DEF IInv, TypeOK, Queued
<1> QED BY <1>1 DEF IInv, QueueInv

\* p has joined the queue, at its end.
Joins(p) ==
    /\ lockQ' \in Seq(Procs) /\ Injective(lockQ')
    /\ \A x : Queued(lockQ', x) <=> Queued(lockQ, x) \/ x = p
    /\ lockQ' # <<>> /\ lockQ'[1] = IF lockQ = <<>> THEN p ELSE lockQ[1]
    /\ loop' \in {p, Nobody}

\* p, which was first, has left the queue.
Leaves(p) ==
    /\ lockQ' \in Seq(Procs) /\ Injective(lockQ')
    /\ \A x : Queued(lockQ', x) <=> Queued(lockQ, x) /\ x # p
    /\ \A q \in Workers : pc[q] = "send" => q = p

LEMMA AcquireFacts ==
    ASSUME IInv, NEW p \in Procs, ~Waits(p), Acquire(p)
    PROVE  Joins(p)
<1>1. ~Queued(lockQ, p) /\ Injective(lockQ) /\ lockQ \in Seq(Procs)
  BY QueuedInProcs DEF IInv, TypeOK, QueueInv
<1> QED BY <1>1, EnqueueFacts DEF Acquire, Joins

LEMMA HolderFacts ==
    ASSUME IInv, NEW p \in Procs, Holds(p)
    PROVE  /\ Released \in Seq(Procs) /\ Injective(Released)
           /\ \A x : Queued(Released, x) <=> Queued(lockQ, x) /\ x # p
           /\ Queued(lockQ, p) /\ lockQ[1] = p
           /\ \A q \in Workers : pc[q] = "send" => q = p
<1>1. lockQ \in Seq(Procs) /\ lockQ # <<>> /\ Injective(lockQ) /\ lockQ[1] = p
  BY DEF IInv, TypeOK, QueueInv, Holds
<1>2. Queued(lockQ, p)
  BY <1>1 DEF Queued
<1>3. \A q \in Workers : pc[q] = "send" => q = p
  BY <1>1 DEF IInv, SenderInv
<1> QED BY <1>1, <1>2, <1>3, TailFacts DEF Released

LEMMA ReleaseFacts ==
    ASSUME IInv, NEW p \in Procs, Holds(p), lockQ' = Released
    PROVE  Leaves(p)
BY HolderFacts DEF Leaves

-----------------------------------------------------------------------------
(* Each action preserves the invariant.                                    *)

LEMMA PutConfigInv ==
    ASSUME IInv, NEW h \in Handlers, PutConfig(h)
    PROVE  IInv'
<1> USE ProcsAssumption DEF Workers, Procs
<1>3. TypeOK'
  BY DEF IInv, TypeOK, HandlerPC, PutConfig, Goto, AutoRunning, castVars
<1>4. QueueInv'
  BY DEF IInv, QueueInv, Waits, PutConfig, Goto
<1>5. SenderInv'
  BY DEF IInv, SenderInv, PutConfig, Goto
<1>6. CollectInv'
  BY DEF IInv, CollectInv, PutConfig, Goto
<1>7. LocalsInv'
  BY DEF IInv, LocalsInv, PutConfig, Goto
<1>8. OneCollectorPerId'
  BY DEF IInv, OneCollectorPerId, RunningIds, PutConfig, Goto
<1>9. StoppedIsSilent'
  BY DEF IInv, StoppedIsSilent, PutConfig, Goto
<1> QED BY <1>3, <1>4, <1>5, <1>6, <1>7, <1>8, <1>9 DEF IInv

LEMMA RequestStartInv ==
    ASSUME IInv, NEW h \in Handlers, RequestStart(h)
    PROVE  IInv'
<1> USE ProcsAssumption DEF Workers, Procs
<1>1. ~Waits(h)
  BY DEF RequestStart, Waits
<1>2. Joins(h)
  BY <1>1, AcquireFacts DEF RequestStart
<1>3. TypeOK'
  BY <1>2 DEF IInv, TypeOK, TaskIds, HandlerPC, RequestStart, Goto, dbVars, castVars,
         Joins
<1>4. QueueInv'
  BY <1>2 DEF IInv, TypeOK, QueueInv, Waits, RequestStart, Goto, Joins
<1>5. SenderInv'
  BY <1>2 DEF IInv, SenderInv, RequestStart, Goto, Joins
<1>6. CollectInv'
  BY DEF IInv, CollectInv, RequestStart, Goto
<1>7. LocalsInv'
  BY DEF TaskIds, IInv, TypeOK, LocalsInv, RequestStart, Goto
<1>8. OneCollectorPerId'
  BY DEF IInv, TypeOK, OneCollectorPerId, RunningIds, RequestStart, Goto
<1>9. StoppedIsSilent'
  BY <1>2 DEF IInv, TypeOK, StoppedIsSilent, RequestStart, Goto, Joins
<1> QED BY <1>3, <1>4, <1>5, <1>6, <1>7, <1>8, <1>9 DEF IInv

LEMMA RequestStopInv ==
    ASSUME IInv, NEW h \in Handlers, RequestStop(h)
    PROVE  IInv'
<1> USE ProcsAssumption DEF Workers, Procs
<1>1. ~Waits(h)
  BY DEF RequestStop, Waits
<1>2. Joins(h)
  BY <1>1, AcquireFacts DEF RequestStop
<1>3. TypeOK'
  BY <1>2 DEF IInv, TypeOK, HandlerPC, RequestStop, Goto, dbVars, castVars, Joins
<1>4. QueueInv'
  BY <1>2 DEF IInv, TypeOK, QueueInv, Waits, RequestStop, Goto, Joins
<1>5. SenderInv'
  BY <1>2 DEF IInv, SenderInv, RequestStop, Goto, Joins
<1>6. CollectInv'
  BY DEF IInv, CollectInv, RequestStop, Goto
<1>7. LocalsInv'
  BY DEF IInv, TypeOK, LocalsInv, RequestStop, Goto
<1>8. OneCollectorPerId'
  BY DEF IInv, TypeOK, OneCollectorPerId, RunningIds, RequestStop, Goto
<1>9. StoppedIsSilent'
  BY <1>2 DEF IInv, TypeOK, StoppedIsSilent, RequestStop, Goto, Joins
<1> QED BY <1>3, <1>4, <1>5, <1>6, <1>7, <1>8, <1>9 DEF IInv

LEMMA RestartNextInv ==
    ASSUME IInv, NEW h \in Handlers, RestartNext(h)
    PROVE  IInv'
<1> USE ProcsAssumption DEF Workers, Procs
<1>1. ~Waits(h)
  BY DEF RestartNext, Waits
<1>2. Joins(h)
  BY <1>1, AcquireFacts DEF RestartNext
<1>3. TypeOK'
  BY <1>2 DEF IInv, TypeOK, TaskIds, HandlerPC, RestartNext, Goto, dbVars, castVars,
         Joins
<1>4. QueueInv'
  BY <1>2 DEF IInv, TypeOK, QueueInv, Waits, RestartNext, Goto, Joins
<1>5. SenderInv'
  BY <1>2 DEF IInv, SenderInv, RestartNext, Goto, Joins
<1>6. CollectInv'
  BY DEF IInv, CollectInv, RestartNext, Goto, CanRun
<1>7. LocalsInv'
  BY DEF TaskIds, IInv, TypeOK, LocalsInv, RestartNext, Goto
<1>8. OneCollectorPerId'
  BY DEF IInv, TypeOK, OneCollectorPerId, RunningIds, RestartNext, Goto
<1>9. StoppedIsSilent'
  BY <1>2 DEF IInv, TypeOK, StoppedIsSilent, RestartNext, Goto, Joins
<1> QED BY <1>3, <1>4, <1>5, <1>6, <1>7, <1>8, <1>9 DEF IInv

LEMMA StartOnStartupInv ==
    ASSUME IInv, NEW h \in Handlers, StartOnStartup(h)
    PROVE  IInv'
<1> USE ProcsAssumption DEF Workers, Procs
<1>1. ~Waits(h)
  BY DEF StartOnStartup, Waits
<1>2. Joins(h)
  BY <1>1, AcquireFacts DEF StartOnStartup
<1>a. AutoId(active, config) \in TaskIds
  <2>1. active \in (SUBSET Proxies) \ {{}} /\ CommunityOf[config] \in Communities
    BY SettingsAssumption DEF StartOnStartup, SomethingToCollect, IInv, TypeOK
  <2> QED BY <2>1 DEF AutoId, AutoIds, TaskIds
<1>3. TypeOK'
  BY <1>a, <1>2 DEF IInv, TypeOK, HandlerPC, StartOnStartup, Goto, dbVars, castVars,
         Joins
<1>4. QueueInv'
  BY <1>2 DEF IInv, TypeOK, QueueInv, Waits, StartOnStartup, Goto, Joins
<1>5. SenderInv'
  BY <1>2 DEF IInv, SenderInv, StartOnStartup, Goto, Joins
<1>6. CollectInv'
  BY DEF IInv, CollectInv, StartOnStartup, Goto, CanRun
<1>7. LocalsInv'
  BY <1>a DEF IInv, TypeOK, LocalsInv, StartOnStartup, Goto
<1>8. OneCollectorPerId'
  BY DEF IInv, TypeOK, OneCollectorPerId, RunningIds, StartOnStartup, Goto
<1>9. StoppedIsSilent'
  BY <1>2 DEF IInv, TypeOK, StoppedIsSilent, StartOnStartup, Goto, Joins
<1> QED BY <1>3, <1>4, <1>5, <1>6, <1>7, <1>8, <1>9 DEF IInv

LEMMA NothingToStartInv ==
    ASSUME IInv, NEW h \in Handlers, NothingToStart(h)
    PROVE  IInv'
<1> USE ProcsAssumption DEF Workers, Procs
<1>3. TypeOK'
  BY DEF IInv, TypeOK, HandlerPC, NothingToStart, Finish, Goto, dbVars, castVars
<1>4. QueueInv'
  BY DEF IInv, QueueInv, Waits, NothingToStart, Finish, Goto
<1>5. SenderInv'
  BY DEF IInv, SenderInv, NothingToStart, Finish, Goto
<1>6. CollectInv'
  BY DEF IInv, CollectInv, NothingToStart, Finish, Goto, CanRun
<1>7. LocalsInv'
  BY DEF IInv, LocalsInv, NothingToStart, Finish, Goto
<1>8. OneCollectorPerId'
  BY DEF IInv, TypeOK, OneCollectorPerId, RunningIds, NothingToStart, Finish, Goto
<1>9. StoppedIsSilent'
  BY DEF IInv, StoppedIsSilent, NothingToStart, Finish, Goto
<1> QED BY <1>3, <1>4, <1>5, <1>6, <1>7, <1>8, <1>9 DEF IInv

LEMMA AlreadyRunningInv ==
    ASSUME IInv, NEW h \in Handlers, AlreadyRunning(h)
    PROVE  IInv'
<1> USE ProcsAssumption DEF Workers, Procs
<1>1. Holds(h) /\ lockQ' = Released
  BY DEF AlreadyRunning, IInv, SenderInv, Holds
<1>2. Leaves(h)
  BY <1>1, ReleaseFacts
<1>3. TypeOK'
  BY <1>2 DEF IInv, TypeOK, HandlerPC, AlreadyRunning, Finish, Goto, dbVars,
         castVars, Leaves
<1>4. QueueInv'
  BY <1>2 DEF IInv, QueueInv, Waits, AlreadyRunning, Finish, Goto, Leaves
<1>5. SenderInv'
  BY <1>2 DEF SenderInv, AlreadyRunning, Finish, Goto, Leaves
<1>6. CollectInv'
  BY DEF IInv, CollectInv, AlreadyRunning, Finish, Goto, CanRun
<1>7. LocalsInv'
  BY DEF IInv, TypeOK, LocalsInv, AlreadyRunning, Finish, Goto
<1>8. OneCollectorPerId'
  BY DEF IInv, TypeOK, OneCollectorPerId, RunningIds, AlreadyRunning, Finish, Goto
<1>9. StoppedIsSilent'
  BY <1>2 DEF IInv, StoppedIsSilent, AlreadyRunning, Finish, Goto, Leaves
<1> QED BY <1>3, <1>4, <1>5, <1>6, <1>7, <1>8, <1>9 DEF IInv

LEMMA NotRunningInv ==
    ASSUME IInv, NEW h \in Handlers, NotRunning(h)
    PROVE  IInv'
<1> USE ProcsAssumption DEF Workers, Procs
<1>1. Holds(h) /\ lockQ' = Released
  BY DEF NotRunning, IInv, SenderInv, Holds
<1>2. Leaves(h)
  BY <1>1, ReleaseFacts
<1>a. /\ tid' = [tid EXCEPT ![h] = Nobody]
      /\ victim' = [victim EXCEPT ![h] = Nobody]
      /\ msg' = [msg EXCEPT ![h] = "none"]
      /\ \/ /\ pc' = [pc EXCEPT ![h] = "restart"]
            /\ loop' = h /\ UNCHANGED <<kind, todo, cfg>>
         \/ /\ pc' = [pc EXCEPT ![h] = "idle"] /\ loop' = Nobody
            /\ todo' = [todo EXCEPT ![h] = {}]
            /\ cfg' = [cfg EXCEPT ![h] = Nobody]
            /\ kind' = [kind EXCEPT ![h] = "put"]
  BY DEF NotRunning, AfterStop, Finish, Goto
<1>3. TypeOK'
  <2>1. CASE pc' = [pc EXCEPT ![h] = "restart"] /\ UNCHANGED <<kind, todo, cfg>> /\ loop' = h
    BY <2>1, <1>a, <1>2 DEF IInv, TypeOK, HandlerPC, NotRunning, dbVars, castVars,
           Leaves
  <2>2. CASE pc' = [pc EXCEPT ![h] = "idle"] /\ loop' = Nobody
               /\ todo' = [todo EXCEPT ![h] = {}] /\ cfg' = [cfg EXCEPT ![h] = Nobody]
               /\ kind' = [kind EXCEPT ![h] = "put"]
    BY <2>2, <1>a, <1>2 DEF IInv, TypeOK, HandlerPC, NotRunning, dbVars, castVars,
           Leaves
  <2> QED BY <1>a, <2>1, <2>2
<1>4. QueueInv'
  BY <1>a, <1>2 DEF IInv, TypeOK, QueueInv, Waits, Leaves
<1>5. SenderInv'
  BY <1>a, <1>2 DEF IInv, TypeOK, SenderInv, CanRun, dbVars, castVars, Leaves
<1>6. CollectInv'
  BY <1>a DEF IInv, TypeOK, CollectInv, NotRunning, CanRun
<1>7. LocalsInv'
  BY <1>a DEF IInv, TypeOK, LocalsInv, NotRunning
<1>8. OneCollectorPerId'
  BY <1>a DEF IInv, TypeOK, OneCollectorPerId, RunningIds, NotRunning
<1>9. StoppedIsSilent'
  BY <1>a, <1>2 DEF IInv, TypeOK, StoppedIsSilent, NotRunning, Leaves
<1> QED BY <1>3, <1>4, <1>5, <1>6, <1>7, <1>8, <1>9 DEF IInv

LEMMA JoinInv ==
    ASSUME IInv, NEW h \in Handlers, Join(h)
    PROVE  IInv'
<1> USE ProcsAssumption DEF Workers, Procs
<1>2. lockQ' = lockQ
  BY DEF Join
<1>a. /\ tid' = [tid EXCEPT ![h] = Nobody]
      /\ victim' = [victim EXCEPT ![h] = Nobody]
      /\ msg' = [msg EXCEPT ![h] = "none"]
      /\ \/ /\ pc' = [pc EXCEPT ![h] = "restart"]
            /\ loop' = h /\ UNCHANGED <<kind, todo, cfg>>
         \/ /\ pc' = [pc EXCEPT ![h] = "idle"] /\ loop' = Nobody
            /\ todo' = [todo EXCEPT ![h] = {}]
            /\ cfg' = [cfg EXCEPT ![h] = Nobody]
            /\ kind' = [kind EXCEPT ![h] = "put"]
  BY DEF Join, AfterStop, Finish, Goto
<1>3. TypeOK'
  BY <1>a DEF IInv, TypeOK, TaskIds, HandlerPC, TaskPC, Statuses, Join, CanRun,
         dbVars, castVars
<1>4. QueueInv'
  BY <1>a, <1>2 DEF IInv, TypeOK, QueueInv, Waits, Join, CanRun, argVars, dbVars,
         castVars
<1>5. SenderInv'
  BY <1>a, <1>2 DEF IInv, TypeOK, SenderInv
<1>6. CollectInv'
  BY <1>a DEF IInv, TypeOK, CollectInv, Join, CanRun
<1>7. LocalsInv'
  BY <1>a DEF IInv, TypeOK, LocalsInv, Join
<1>8. OneCollectorPerId'
  BY <1>a DEF IInv, TypeOK, OneCollectorPerId, RunningIds, Join
<1>9. StoppedIsSilent'
  BY <1>a DEF IInv, TypeOK, StoppedIsSilent, Join
<1> QED BY <1>3, <1>4, <1>5, <1>6, <1>7, <1>8, <1>9 DEF IInv

LEMMA CycleStartInv ==
    ASSUME IInv, NEW k \in Tasks, CycleStart(k)
    PROVE  IInv'
<1> USE ProcsAssumption DEF Workers, Procs
<1>1. ~Waits(k)
  BY DEF CycleStart, Waits
<1>2. Joins(k)
  BY <1>1, AcquireFacts DEF CycleStart
<1>3. TypeOK'
  BY <1>2 DEF IInv, TypeOK, TaskPC, Statuses, CycleStart, Goto, dbVars, castVars, Joins
<1>4. QueueInv'
  BY <1>2 DEF IInv, TypeOK, QueueInv, Waits, CycleStart, Goto, Joins
<1>5. SenderInv'
  BY <1>2 DEF IInv, SenderInv, CycleStart, Goto, Joins
<1>6. CollectInv'
  BY DEF IInv, CollectInv, CycleStart, Goto
<1>7. LocalsInv'
  BY DEF IInv, TypeOK, LocalsInv, CycleStart, Goto
<1>8. OneCollectorPerId'
  BY DEF IInv, OneCollectorPerId, RunningIds, CycleStart, Goto
<1>9. StoppedIsSilent'
  BY <1>2 DEF IInv, StoppedIsSilent, CycleStart, Goto, Joins
<1> QED BY <1>3, <1>4, <1>5, <1>6, <1>7, <1>8, <1>9 DEF IInv

LEMMA CollectStartInv ==
    ASSUME IInv, NEW k \in Tasks, CollectStart(k)
    PROVE  IInv'
<1> USE ProcsAssumption DEF Workers, Procs
<1>3. TypeOK'
  BY DEF IInv, TypeOK, TaskPC, CollectStart, Goto, argVars, dbVars, castVars
<1>4. QueueInv'
  BY DEF IInv, QueueInv, Waits, CollectStart, Goto
<1>5. SenderInv'
  BY DEF IInv, SenderInv, CollectStart, Goto
<1>6. CollectInv'
  BY DEF IInv, TypeOK, CollectInv, CollectStart, Goto
<1>7. LocalsInv'
  BY DEF IInv, LocalsInv, CollectStart, Goto, argVars
<1>8. OneCollectorPerId'
  BY DEF IInv, OneCollectorPerId, RunningIds, CollectStart, Goto, argVars
<1>9. StoppedIsSilent'
  BY DEF IInv, StoppedIsSilent, CollectStart, Goto
<1> QED BY <1>3, <1>4, <1>5, <1>6, <1>7, <1>8, <1>9 DEF IInv

LEMMA CollectNothingInv ==
    ASSUME IInv, NEW k \in Tasks, CollectNothing(k)
    PROVE  IInv'
<1> USE ProcsAssumption DEF Workers, Procs
<1>1. ~Waits(k)
  BY DEF CollectNothing, Waits
<1>2. Joins(k)
  BY <1>1, AcquireFacts DEF CollectNothing
<1>3. TypeOK'
  BY <1>2 DEF IInv, TypeOK, HandlerPC, TaskPC, Statuses, CollectNothing, Goto,
         CanRun, dbVars, castVars, Joins
<1>4. QueueInv'
  BY <1>2 DEF IInv, TypeOK, QueueInv, Waits, CollectNothing, Goto, Joins
<1>5. SenderInv'
  BY <1>2 DEF IInv, SenderInv, CollectNothing, Goto, Joins
<1>6. CollectInv'
  BY DEF IInv, TypeOK, CollectInv, CollectNothing, Goto
<1>7. LocalsInv'
  BY DEF IInv, TypeOK, LocalsInv, CollectNothing, Goto
<1>8. OneCollectorPerId'
  BY DEF IInv, OneCollectorPerId, RunningIds, CollectNothing, Goto
<1>9. StoppedIsSilent'
  BY <1>2 DEF IInv, StoppedIsSilent, CollectNothing, Goto, Joins
<1> QED BY <1>3, <1>4, <1>5, <1>6, <1>7, <1>8, <1>9 DEF IInv

LEMMA CollectEndInv ==
    ASSUME IInv, NEW k \in Tasks, CollectEnd(k)
    PROVE  IInv'
<1> USE ProcsAssumption DEF Workers, Procs
<1>1. ~Waits(k)
  BY DEF CollectEnd, Waits
<1>2. Joins(k)
  BY <1>1, AcquireFacts DEF CollectEnd
<1>3. TypeOK'
  BY <1>2 DEF IInv, TypeOK, TaskPC, Statuses, CollectEnd, Goto, dbVars, castVars, Joins
<1>4. QueueInv'
  BY <1>2 DEF IInv, TypeOK, QueueInv, Waits, CollectEnd, Goto, Joins
<1>5. SenderInv'
  BY <1>2 DEF IInv, SenderInv, CollectEnd, Goto, Joins
<1>6. CollectInv'
  BY DEF IInv, CollectInv, CollectEnd, Goto
<1>7. LocalsInv'
  BY DEF IInv, TypeOK, LocalsInv, CollectEnd, Goto
<1>8. OneCollectorPerId'
  BY DEF IInv, OneCollectorPerId, RunningIds, CollectEnd, Goto
<1>9. StoppedIsSilent'
  BY <1>2 DEF IInv, StoppedIsSilent, CollectEnd, Goto, Joins
<1> QED BY <1>3, <1>4, <1>5, <1>6, <1>7, <1>8, <1>9 DEF IInv

LEMMA UnwindInv ==
    ASSUME IInv, NEW k \in Tasks, Unwind(k)
    PROVE  IInv'
<1> USE ProcsAssumption DEF Workers, Procs
<1>a. ~Queued(lockQ, k)
  BY DEF IInv, StoppedIsSilent, Unwind
<1>3. TypeOK'
  BY DEF IInv, TypeOK, TaskPC, Unwind, Goto, dbVars, castVars
<1>4. QueueInv'
  BY <1>a DEF IInv, QueueInv, Waits, Unwind, Goto
<1>5. SenderInv'
  BY DEF IInv, SenderInv, Unwind, Goto
<1>6. CollectInv'
  BY DEF IInv, CollectInv, Unwind, Goto
<1>7. LocalsInv'
  BY DEF IInv, TypeOK, LocalsInv, Unwind, Goto
<1>8. OneCollectorPerId'
  BY DEF IInv, TypeOK, OneCollectorPerId, RunningIds, Unwind, Goto
<1>9. StoppedIsSilent'
  BY DEF IInv, StoppedIsSilent, Unwind, Goto
<1> QED BY <1>3, <1>4, <1>5, <1>6, <1>7, <1>8, <1>9 DEF IInv

LEMMA ConnectInv ==
    ASSUME IInv, NEW c \in Clients, Connect(c)
    PROVE  IInv'
<1> USE ProcsAssumption DEF Workers, Procs
<1>1. ~Waits(c)
  BY DEF Connect, Waits
<1>2. Joins(c)
  BY <1>1, AcquireFacts DEF Connect
<1>3. TypeOK'
  BY <1>2 DEF IInv, TypeOK, ClientPC, Connect, Goto, argVars, dbVars, castVars, Joins
<1>4. QueueInv'
  BY <1>2 DEF IInv, TypeOK, QueueInv, Waits, Connect, Goto, Joins
<1>5. SenderInv'
  BY <1>2 DEF IInv, SenderInv, Connect, Goto, Joins
<1>6. CollectInv'
  BY DEF IInv, CollectInv, Connect, Goto
<1>7. LocalsInv'
  BY DEF IInv, LocalsInv, Connect, Goto, argVars
<1>8. OneCollectorPerId'
  BY DEF IInv, OneCollectorPerId, RunningIds, Connect, Goto, argVars
<1>9. StoppedIsSilent'
  BY <1>2 DEF IInv, TypeOK, StoppedIsSilent, Connect, Goto, Joins
<1> QED BY <1>3, <1>4, <1>5, <1>6, <1>7, <1>8, <1>9 DEF IInv

LEMMA RegisterInv ==
    ASSUME IInv, NEW c \in Clients, Register(c)
    PROVE  IInv'
<1> USE ProcsAssumption DEF Workers, Procs
<1>1. Holds(c) /\ lockQ' = Released
  BY DEF Register, IInv, SenderInv, Holds
<1>2. Leaves(c)
  BY <1>1, ReleaseFacts
<1>3. TypeOK'
  BY <1>2 DEF IInv, TypeOK, ClientPC, Register, Goto, argVars, dbVars, castVars, Leaves
<1>4. QueueInv'
  BY <1>2 DEF IInv, QueueInv, Waits, Register, Goto, Leaves
<1>5. SenderInv'
  BY <1>2 DEF SenderInv, Register, Goto, Leaves
<1>6. CollectInv'
  BY DEF IInv, CollectInv, Register, Goto, CanRun
<1>7. LocalsInv'
  BY DEF IInv, LocalsInv, Register, Goto, argVars
<1>8. OneCollectorPerId'
  BY DEF IInv, OneCollectorPerId, RunningIds, Register, Goto, argVars
<1>9. StoppedIsSilent'
  BY <1>2 DEF IInv, StoppedIsSilent, Register, Goto, Leaves
<1> QED BY <1>3, <1>4, <1>5, <1>6, <1>7, <1>8, <1>9 DEF IInv

LEMMA DisconnectInv ==
    ASSUME IInv, NEW c \in Clients, Disconnect(c)
    PROVE  IInv'
<1> USE ProcsAssumption DEF Workers, Procs
<1>1. ~Waits(c)
  BY DEF Disconnect, Waits
<1>2. Joins(c)
  BY <1>1, AcquireFacts DEF Disconnect
<1>3. TypeOK'
  BY <1>2 DEF IInv, TypeOK, ClientPC, Disconnect, Goto, argVars, dbVars, castVars, Joins
<1>4. QueueInv'
  BY <1>2 DEF IInv, TypeOK, QueueInv, Waits, Disconnect, Goto, Joins
<1>5. SenderInv'
  BY <1>2 DEF IInv, SenderInv, Disconnect, Goto, Joins
<1>6. CollectInv'
  BY DEF IInv, CollectInv, Disconnect, Goto
<1>7. LocalsInv'
  BY DEF IInv, LocalsInv, Disconnect, Goto, argVars
<1>8. OneCollectorPerId'
  BY DEF IInv, OneCollectorPerId, RunningIds, Disconnect, Goto, argVars
<1>9. StoppedIsSilent'
  BY <1>2 DEF IInv, TypeOK, StoppedIsSilent, Disconnect, Goto, Joins
<1> QED BY <1>3, <1>4, <1>5, <1>6, <1>7, <1>8, <1>9 DEF IInv

LEMMA UnregisterInv ==
    ASSUME IInv, NEW c \in Clients, Unregister(c)
    PROVE  IInv'
<1> USE ProcsAssumption DEF Workers, Procs
<1>1. Holds(c) /\ lockQ' = Released
  BY DEF Unregister, IInv, SenderInv, Holds
<1>2. Leaves(c)
  BY <1>1, ReleaseFacts
<1>3. TypeOK'
  BY <1>2 DEF IInv, TypeOK, ClientPC, Unregister, Goto, argVars, dbVars, castVars,
         Leaves
<1>4. QueueInv'
  BY <1>2 DEF IInv, QueueInv, Waits, Unregister, Goto, Leaves
<1>5. SenderInv'
  BY <1>2 DEF SenderInv, Unregister, Goto, Leaves
<1>6. CollectInv'
  BY DEF IInv, CollectInv, Unregister, Goto, CanRun
<1>7. LocalsInv'
  BY DEF IInv, LocalsInv, Unregister, Goto, argVars
<1>8. OneCollectorPerId'
  BY DEF IInv, OneCollectorPerId, RunningIds, Unregister, Goto, argVars
<1>9. StoppedIsSilent'
  BY <1>2 DEF IInv, StoppedIsSilent, Unregister, Goto, Leaves
<1> QED BY <1>3, <1>4, <1>5, <1>6, <1>7, <1>8, <1>9 DEF IInv

LEMMA BeginBroadcastInv ==
    ASSUME IInv, NEW p \in Workers, BeginBroadcast(p)
    PROVE  IInv'
<1> USE ProcsAssumption DEF Workers, Procs
<1>a. Queued(lockQ, p) /\ lockQ[1] = p /\ \A q \in Workers : pc[q] = "send" => q = p
  BY HolderFacts DEF BeginBroadcast
<1>3. TypeOK'
  BY DEF IInv, TypeOK, HandlerPC, TaskPC, BeginBroadcast, Goto, argVars, dbVars
<1>4. QueueInv'
  BY DEF IInv, QueueInv, Waits, BeginBroadcast, Goto
<1>5. SenderInv'
  BY <1>a DEF Holds, SenderInv, BeginBroadcast, Goto
<1>6. CollectInv'
  BY DEF IInv, CollectInv, BeginBroadcast, Goto, CanRun
<1>7. LocalsInv'
  BY DEF IInv, LocalsInv, BeginBroadcast, Goto, argVars
<1>8. OneCollectorPerId'
  BY DEF IInv, OneCollectorPerId, RunningIds, BeginBroadcast, Goto, argVars
<1>9. StoppedIsSilent'
  BY <1>a DEF IInv, StoppedIsSilent, BeginBroadcast, Goto
<1> QED BY <1>3, <1>4, <1>5, <1>6, <1>7, <1>8, <1>9 DEF IInv

LEMMA EndBroadcastInv ==
    ASSUME IInv, NEW p \in Workers, EndBroadcast(p)
    PROVE  IInv'
<1> USE ProcsAssumption DEF Workers, Procs
<1>1. Holds(p) /\ lockQ' = Released
  BY DEF EndBroadcast, IInv, SenderInv, Holds
<1>2. Leaves(p)
  BY <1>1, ReleaseFacts
<1>a. \/ p \in Handlers /\ Finish(p) /\ loop' = Nobody
      \/ p \in Handlers /\ Goto(p, "join") /\ victim[p] \in Tasks /\ loop' = Nobody
         /\ UNCHANGED argVars
      \/ p \in Tasks /\ Goto(p, "collect") /\ loop' = p /\ UNCHANGED argVars
      \/ p \in Tasks /\ Goto(p, "sleep") /\ loop' = Nobody /\ UNCHANGED argVars
  BY DEF EndBroadcast, AfterBroadcast, IInv, LocalsInv
<1>b. /\ pc[p] = "send" /\ CanRun(p) /\ clients' = clients \ failed
      /\ failed' = {} /\ UNCHANGED <<dbVars, running, cancelled, unsent>>
  BY DEF EndBroadcast
<1>3. TypeOK'
  <2>1. CASE p \in Handlers /\ Finish(p) /\ loop' = Nobody
    BY <2>1, <1>2, <1>b DEF IInv, TypeOK, HandlerPC, Finish, Goto, dbVars, Leaves
  <2>2. CASE p \in Handlers /\ Goto(p, "join") /\ loop' = Nobody /\ UNCHANGED argVars
    BY <2>2, <1>2, <1>b DEF IInv, TypeOK, HandlerPC, Goto, argVars, dbVars, Leaves
  <2>3. CASE p \in Tasks /\ Goto(p, "collect") /\ loop' = p /\ UNCHANGED argVars
    BY <2>3, <1>2, <1>b DEF IInv, TypeOK, TaskPC, Goto, argVars, dbVars, Leaves
  <2>4. CASE p \in Tasks /\ Goto(p, "sleep") /\ loop' = Nobody /\ UNCHANGED argVars
    BY <2>4, <1>2, <1>b DEF IInv, TypeOK, TaskPC, Goto, argVars, dbVars, Leaves
  <2> QED BY <1>a, <2>1, <2>2, <2>3, <2>4
<1>4. QueueInv'
  BY <1>2, <1>a DEF IInv, TypeOK, QueueInv, Waits, Finish, Goto, Leaves
<1>5. SenderInv'
  BY <1>a, <1>b DEF IInv, TypeOK, SenderInv, HandlerPC, TaskPC, Finish, Goto
<1>6. CollectInv'
  BY <1>a, <1>b DEF IInv, TypeOK, CollectInv, Finish, Goto, CanRun
<1>7. LocalsInv'
  BY <1>a, <1>b DEF IInv, TypeOK, LocalsInv, Finish, Goto, argVars
<1>8. OneCollectorPerId'
  <2>1. CASE p \in Handlers /\ Finish(p) /\ loop' = Nobody
    BY <2>1, <1>b DEF IInv, TypeOK, OneCollectorPerId, RunningIds, Finish, Goto
  <2>2. CASE p \in Handlers /\ Goto(p, "join") /\ loop' = Nobody /\ UNCHANGED argVars
    BY <2>2, <1>b DEF IInv, OneCollectorPerId, RunningIds, Goto, argVars
  <2>3. CASE p \in Tasks /\ Goto(p, "collect") /\ loop' = p /\ UNCHANGED argVars
    BY <2>3, <1>b DEF IInv, OneCollectorPerId, RunningIds, Goto, argVars
  <2>4. CASE p \in Tasks /\ Goto(p, "sleep") /\ loop' = Nobody /\ UNCHANGED argVars
    BY <2>4, <1>b DEF IInv, OneCollectorPerId, RunningIds, Goto, argVars
  <2> QED BY <1>a, <2>1, <2>2, <2>3, <2>4
<1>9. StoppedIsSilent'
  BY <1>2, <1>a, <1>b DEF IInv, TypeOK, StoppedIsSilent, Finish, Goto, Leaves
<1> QED BY <1>3, <1>4, <1>5, <1>6, <1>7, <1>8, <1>9 DEF IInv

LEMMA StartTaskInv ==
    ASSUME IInv, NEW h \in Handlers, StartTask(h)
    PROVE  IInv'
<1> USE ProcsAssumption DEF Workers, Procs
<1>1. /\ Holds(h) /\ pc[h] = "start" /\ ~IsRunning(tid[h]) /\ tid[h] \in TaskIds
      /\ loop' \in {h, Nobody} /\ CanRun(h)
      /\ msg' = [msg EXCEPT ![h] = "started"]
      /\ UNCHANGED <<dbVars, clients, kind, todo, victim, cancelled, castVars>>
  BY DEF StartTask, IInv, LocalsInv, ReleaseAndRequeue
<1>2. PICK k \in Tasks :
          /\ pc[k] = "free"
          /\ running' = [running EXCEPT ![tid[h]] = k]
          /\ pc'  = [pc EXCEPT ![h] = "cast", ![k] = "new"]
          /\ tid' = [tid EXCEPT ![k] = tid[h]]
          /\ cfg' = [cfg EXCEPT ![k] = cfg[h]]
  BY DEF StartTask, FreeTasks
<1>3. /\ lockQ' \in Seq(Procs) /\ Injective(lockQ')
      /\ \A x : Queued(lockQ', x) <=> Queued(lockQ, x)
      /\ \A q \in Workers : pc[q] # "send"
  <2>1. /\ Released \in Seq(Procs) /\ Injective(Released)
        /\ \A x : Queued(Released, x) <=> Queued(lockQ, x) /\ x # h
        /\ Queued(lockQ, h)
        /\ \A q \in Workers : pc[q] = "send" => q = h
    BY <1>1, HolderFacts
  <2>2. lockQ' = Enqueue(Released, h)
    BY DEF StartTask, ReleaseAndRequeue
  <2> QED BY <1>1, <2>1, <2>2, EnqueueFacts
<1>4. TypeOK'
  BY <1>1, <1>2, <1>3 DEF IInv, TypeOK, HandlerPC, TaskPC, ClientPC, Statuses,
         dbVars, castVars
<1>5. QueueInv'
  <2>1. ~Queued(lockQ, k)
    BY <1>2, QueuedInProcs DEF Waits
  <2> QED BY <1>1, <1>2, <1>3, <2>1 DEF IInv, TypeOK, QueueInv, Waits
<1>6. SenderInv'
  BY <1>2, <1>3 DEF IInv, TypeOK, SenderInv
<1>7. CollectInv'
  BY <1>1, <1>2 DEF IInv, TypeOK, CollectInv, CanRun
<1>8. LocalsInv'
  BY <1>1, <1>2 DEF IInv, TypeOK, LocalsInv
<1>9. OneCollectorPerId'
  BY <1>1, <1>2 DEF IInv, TypeOK, LocalsInv, OneCollectorPerId, RunningIds, IsRunning
<1>10. StoppedIsSilent'
  BY <1>1, <1>2, <1>3 DEF IInv, TypeOK, StoppedIsSilent
<1> QED BY <1>4, <1>5, <1>6, <1>7, <1>8, <1>9, <1>10 DEF IInv

\* The Task that is cancelled is no sender, for the lock is held by h, and
\* is not collecting, for then it would have the processor.
LEMMA StopTaskInv ==
    ASSUME IInv, NEW h \in Handlers, StopTask(h)
    PROVE  IInv'
<1> USE ProcsAssumption DEF Workers, Procs
<1> DEFINE k == running[tid[h]]
<1>1. /\ Holds(h) /\ pc[h] = "stop" /\ tid[h] \in TaskIds
      /\ loop' \in {h, Nobody} /\ CanRun(h)
      /\ running' = [running EXCEPT ![tid[h]] = Nobody]
      /\ cancelled' = cancelled \cup {k}
      /\ victim' = [victim EXCEPT ![h] = k]
      /\ msg' = [msg EXCEPT ![h] = "stopped"]
      /\ pc' = [pc EXCEPT ![h] = "cast"]
      /\ UNCHANGED <<dbVars, clients, kind, todo, tid, cfg, castVars>>
  BY DEF StopTask, IInv, LocalsInv, ReleaseAndRequeue, Goto, Cancel
<1>2. k \in Tasks /\ pc[k] # "free" /\ tid[k] = tid[h] /\ k \notin cancelled
  BY <1>1 DEF StopTask, IsRunning, IInv, TypeOK, OneCollectorPerId, RunningIds
<1> HIDE DEF k
<1>3. /\ lockQ' \in Seq(Procs) /\ Injective(lockQ')
      /\ \A x : Queued(lockQ', x) <=> Queued(lockQ, x) /\ x # k
      /\ \A q \in Workers : pc[q] # "send"
  <2>1. /\ Released \in Seq(Procs) /\ Injective(Released)
        /\ \A x : Queued(Released, x) <=> Queued(lockQ, x) /\ x # h
        /\ Queued(lockQ, h)
        /\ \A q \in Workers : pc[q] = "send" => q = h
    BY <1>1, HolderFacts
  <2>2. lockQ' = Enqueue(Without(Released, k), h)
    BY DEF StopTask, ReleaseAndRequeue, k
  <2>3. /\ Without(Released, k) \in Seq(Procs) /\ Injective(Without(Released, k))
        /\ \A x : Queued(Without(Released, k), x) <=> Queued(Released, x) /\ x # k
    BY <2>1, WithoutFacts
  <2> QED BY <1>1, <1>2, <2>1, <2>2, <2>3, EnqueueFacts
<1>4. TypeOK'
  BY <1>1, <1>2, <1>3 DEF IInv, TypeOK, HandlerPC, Statuses, dbVars, castVars
<1>5. QueueInv'
  BY <1>1, <1>3 DEF IInv, TypeOK, QueueInv, Waits
<1>6. SenderInv'
  BY <1>1, <1>3 DEF IInv, TypeOK, SenderInv
<1>7. CollectInv'
  BY <1>1 DEF IInv, TypeOK, CollectInv, CanRun
<1>8. LocalsInv'
  BY <1>1, <1>2 DEF IInv, TypeOK, LocalsInv
<1>9. OneCollectorPerId'
  BY <1>1, <1>2 DEF IInv, TypeOK, OneCollectorPerId, RunningIds
<1>10. StoppedIsSilent'
  <2>1. pc[k] # "collect"
    BY <1>1, <1>2 DEF IInv, CollectInv, CanRun
  <2> QED BY <1>1, <1>2, <1>3, <2>1 DEF IInv, TypeOK, StoppedIsSilent
<1> QED BY <1>4, <1>5, <1>6, <1>7, <1>8, <1>9, <1>10 DEF IInv

\* Sends and the threads that edit proxies touch little of it.
LEMMA DeliverInv ==
    ASSUME IInv, NEW p \in Workers, NEW c \in Clients,
           Deliver(p, c) \/ DeliverFails(p, c)
    PROVE  IInv'
<1>1. /\ unsent' \subseteq Clients /\ failed' \subseteq Clients
      /\ loop' = Nobody /\ CanRun(p) /\ pc[p] = "send"
      /\ UNCHANGED <<dbVars, running, clients, lockQ, pc, argVars, cancelled>>
  BY DEF IInv, TypeOK, Deliver, DeliverFails
<1>2. \A k \in Tasks : pc[k] # "collect"
  BY <1>1, ProcsAssumption DEF IInv, CollectInv, CanRun, Workers, Procs
<1> QED BY <1>1, <1>2 DEF IInv, TypeOK, QueueInv, Waits, SenderInv, CollectInv,
      LocalsInv, OneCollectorPerId, RunningIds, StoppedIsSilent, dbVars, argVars

LEMMA EditProxiesInv ==
    ASSUME IInv, EditProxies
    PROVE  IInv'
BY DEF EditProxies, IInv, TypeOK, QueueInv, Waits, SenderInv, CollectInv,
      LocalsInv, OneCollectorPerId, RunningIds, StoppedIsSilent, argVars, castVars

-----------------------------------------------------------------------------
(* The theorems.                                                           *)

LEMMA InitInv == Init => IInv
<1> SUFFICES ASSUME Init PROVE IInv
  OBVIOUS
<1> USE ProcsAssumption DEF Workers, Procs
<1>1. PICK started \in SUBSET Tasks :
        /\ started = {} \/ /\ \E k \in Tasks : started = {k}
                           /\ active # {}
        /\ running = [t \in TaskIds |->
                        IF t = AutoId(active, config) /\ started # {}
                        THEN CHOOSE k \in Tasks : k \in started ELSE Nobody]
        /\ pc = [p \in Procs |-> CASE p \in Handlers -> "idle"
                                   [] p \in started -> "new"
                                   [] p \in Tasks \ started -> "free"
                                   [] p \in Clients -> "off"]
        /\ tid = [p \in Workers |-> IF p \in started THEN AutoId(active, config)
                                                     ELSE Nobody]
        /\ cfg = [p \in Workers |-> IF p \in started THEN config ELSE Nobody]
  BY DEF Init
<1>2. active # {} => AutoId(active, config) \in TaskIds
  <2> SUFFICES ASSUME active # {} PROVE AutoId(active, config) \in TaskIds
    OBVIOUS
  <2>1. active \in (SUBSET Proxies) \ {{}} /\ CommunityOf[config] \in Communities
    BY SettingsAssumption DEF Init
  <2> QED BY <2>1 DEF AutoId, AutoIds, TaskIds
<1>3. /\ \A h \in Handlers : pc[h] = "idle"
      /\ \A k \in Tasks : pc[k] = IF k \in started THEN "new" ELSE "free"
      /\ \A c \in Clients : pc[c] = "off"
  BY <1>1
<1>4. pc \in [Procs -> HandlerPC \cup TaskPC \cup ClientPC]
  BY <1>1, <1>3 DEF HandlerPC, TaskPC, ClientPC
<1>5. TypeOK
  BY <1>1, <1>2, <1>3, <1>4
     DEF Init, TypeOK, HandlerPC, TaskPC, ClientPC, Statuses
<1>6. QueueInv /\ SenderInv /\ CollectInv /\ LocalsInv /\ StoppedIsSilent
  BY <1>3 DEF Init, QueueInv, SenderInv, CollectInv, LocalsInv, StoppedIsSilent,
      Injective, Queued
<1>7. OneCollectorPerId
  BY <1>1, <1>2, <1>3 DEF Init, OneCollectorPerId, RunningIds
<1> QED BY <1>5, <1>6, <1>7 DEF IInv

LEMMA NextInv == IInv /\ [Next]_vars => IInv'
<1> SUFFICES ASSUME IInv, [Next]_vars PROVE IInv'
  OBVIOUS
<1>1. CASE UNCHANGED vars
  BY <1>1 DEF vars, IInv, TypeOK, QueueInv, Waits, SenderInv, CollectInv,
      LocalsInv, OneCollectorPerId, RunningIds, StoppedIsSilent
<1>2. CASE Environment
  BY <1>2, PutConfigInv, RequestStartInv, RequestStopInv, ConnectInv, DisconnectInv,
     EditProxiesInv DEF Environment
<1>3. CASE \E h \in Handlers : HandlerStep(h)
  BY <1>3, RestartNextInv, StartOnStartupInv, NothingToStartInv, StartTaskInv,
     AlreadyRunningInv, StopTaskInv, NotRunningInv, JoinInv DEF HandlerStep
<1>4. CASE \E p \in Workers : BroadcastStep(p)
  BY <1>4, BeginBroadcastInv, EndBroadcastInv, DeliverInv DEF BroadcastStep
<1>5. CASE \E k \in Tasks : TaskStep(k)
  BY <1>5, CycleStartInv, CollectStartInv, CollectNothingInv, CollectEndInv,
     UnwindInv DEF TaskStep
<1>6. CASE \E c \in Clients : ClientStep(c)
  BY <1>6, RegisterInv, UnregisterInv DEF ClientStep
<1> QED BY <1>1, <1>2, <1>3, <1>4, <1>5, <1>6 DEF Next

LEMMA Invariance == Spec => []IInv
BY InitInv, NextInv, PTL DEF Spec

(***************************************************************************)
(* Every variable keeps its type, through every handler, task and client   *)
(* of app/utils/background_collector.py.                                   *)
(***************************************************************************)
THEOREM TypeCorrect == Spec => []TypeOK
<1>1. IInv => TypeOK
  BY DEF IInv
<1> QED BY <1>1, Invariance, PTL

(***************************************************************************)
(* However many starts, stops and restarts are in flight, an id of         *)
(* _running_tasks has exactly one live collector and no collector runs     *)
(* that cannot be stopped.                                                 *)
(***************************************************************************)
THEOREM OneCollector == Spec => []OneCollectorPerId
<1>1. IInv => OneCollectorPerId
  BY DEF IInv
<1> QED BY <1>1, Invariance, PTL

(***************************************************************************)
(* A collector that stop_collection cancelled has left the queue of the    *)
(* lock and neither broadcasts nor begins a collection.                    *)
(***************************************************************************)
THEOREM StoppedSilent == Spec => []StoppedIsSilent
<1>1. IInv => StoppedIsSilent
  BY DEF IInv
<1> QED BY <1>1, Invariance, PTL

(***************************************************************************)
(* The set _broadcast_status iterates over does not change under it: who   *)
(* registers or unregisters a client holds the lock, and so does not run   *)
(* between two sends.                                                      *)
(***************************************************************************)
THEOREM ClientsStable == Spec => ClientsStableInBroadcast
<1>1. ASSUME IInv, [Next]_vars, Broadcasting \cap Broadcasting' # {}
      PROVE  clients' = clients
  <2>1. PICK p \in Workers : pc[p] = "send" /\ pc'[p] = "send"
    BY <1>1 DEF Broadcasting
  <2>2. \A q \in Procs : Holds(q) => q = p
    BY <1>1, <2>1 DEF IInv, SenderInv, Holds, Workers, Procs
  <2>3. ASSUME NEW c \in Clients, Register(c) \/ Unregister(c)
        PROVE  FALSE
    BY <2>2, <2>3, <2>1, ProcsAssumption DEF Register, Unregister, Workers, Procs
  <2>4. ASSUME NEW q \in Workers, EndBroadcast(q)
        PROVE  FALSE
    <3>1. q = p
      BY <1>1, <2>1, <2>4 DEF EndBroadcast, IInv, SenderInv
    <3> QED BY <1>1, <2>1, <2>4, <3>1
        DEF EndBroadcast, AfterBroadcast, Finish, Goto, IInv, TypeOK, LocalsInv, Workers,
            Procs
  <2>5. CASE UNCHANGED vars
    BY <2>5 DEF vars
  <2>6. CASE Environment
    BY <2>6 DEF Environment, PutConfig, RequestStart, RequestStop, Connect, Disconnect,
        EditProxies
  <2>7. CASE \E h \in Handlers : HandlerStep(h)
    BY <2>7 DEF HandlerStep, RestartNext, StartOnStartup, NothingToStart, StartTask,
        AlreadyRunning, StopTask, NotRunning, Join
  <2>8. CASE \E q \in Workers : BroadcastStep(q)
    BY <2>4, <2>8 DEF BroadcastStep, BeginBroadcast, Deliver, DeliverFails
  <2>9. CASE \E k \in Tasks : TaskStep(k)
    BY <2>9 DEF TaskStep, CycleStart, CollectStart, CollectNothing, CollectEnd, Unwind
  <2>10. CASE \E c \in Clients : ClientStep(c)
    BY <2>3, <2>10 DEF ClientStep
  <2> QED BY <1>1, <2>5, <2>6, <2>7, <2>8, <2>9, <2>10 DEF Next
<1>2. IInv /\ [Next]_vars
        => [Broadcasting \cap Broadcasting' # {} => clients' = clients]_vars
  BY <1>1
<1> QED BY <1>2, Invariance, PTL DEF Spec, ClientsStableInBroadcast
-----------------------------------------------------------------------------
(* The lock.  Whoever is at a step that needs it holds it or is in its     *)
(* queue, unless it was cancelled; and nobody else is.                     *)

\* A coroutine that waits is not forgotten.
WaitersInv == \A p \in Procs \ cancelled : Waits(p) => Queued(lockQ, p)

LockServes ==
    /\ WaitersInv
    /\ \A p \in Procs : Queued(lockQ, p) => Waits(p)
    /\ Injective(lockQ)
    /\ \A p \in Broadcasting : Holds(p)

LEMMA HolderLeaves ==
    ASSUME IInv, WaitersInv, NEW p \in Procs, Holds(p), lockQ' = Released,
           \A x \in Procs \ {p} : pc'[x] = pc[x], ~Waits(p)', cancelled' = cancelled
    PROVE  WaitersInv'
BY ReleaseFacts DEF Leaves, WaitersInv, Waits

LEMMA WaiterJoins ==
    ASSUME IInv, WaitersInv, NEW p \in Procs, ~Waits(p), Acquire(p),
           \A x \in Procs \ {p} : pc'[x] = pc[x], cancelled' = cancelled
    PROVE  WaitersInv'
BY AcquireFacts DEF Joins, WaitersInv, Waits

LEMMA NobodyWaits ==
    ASSUME WaitersInv, lockQ' = lockQ, cancelled' = cancelled,
           \A x \in Procs : Waits(x)' => Waits(x)
    PROVE  WaitersInv'
BY DEF WaitersInv, Waits

\* A restart goes on or ends after a stop; neither needs the lock.
LEMMA AfterStopFacts ==
    ASSUME IInv, NEW h \in Handlers, AfterStop(h)
    PROVE  ~Waits(h)' /\ \A x \in Procs \ {h} : pc'[x] = pc[x]
<1>1. pc' = [pc EXCEPT ![h] = "restart"] \/ pc' = [pc EXCEPT ![h] = "idle"]
  BY DEF AfterStop, Finish, Goto
<1>2. pc \in [Procs -> HandlerPC \cup TaskPC \cup ClientPC] /\ h \in Procs
  BY DEF IInv, TypeOK, Procs, Workers
<1>3. pc'[h] \in {"restart", "idle"} /\ \A x \in Procs \ {h} : pc'[x] = pc[x]
  BY <1>1, <1>2
<1> QED BY <1>3 DEF Waits

LEMMA HandlersWait ==
    ASSUME IInv, WaitersInv, NEW h \in Handlers,
           HandlerStep(h) \/ PutConfig(h) \/ RequestStart(h) \/ RequestStop(h)
    PROVE  WaitersInv'
<1> USE ProcsAssumption DEF Workers, Procs
<1>1. h \in Procs /\ pc \in [Procs -> HandlerPC \cup TaskPC \cup ClientPC]
  BY DEF IInv, TypeOK
<1>2. CASE RequestStart(h)
  BY <1>1, <1>2, WaiterJoins DEF RequestStart, Goto, Waits
<1>3. CASE RequestStop(h)
  BY <1>1, <1>3, WaiterJoins DEF RequestStop, Goto, Waits
<1>4. CASE RestartNext(h)
  BY <1>1, <1>4, WaiterJoins DEF RestartNext, Goto, Waits
<1>5. CASE StartOnStartup(h)
  BY <1>1, <1>5, WaiterJoins DEF StartOnStartup, Goto, Waits
<1>6. CASE PutConfig(h)
  BY <1>1, <1>6, NobodyWaits DEF PutConfig, Goto, Waits
<1>7. CASE NothingToStart(h)
  BY <1>1, <1>7, NobodyWaits DEF NothingToStart, Finish, Goto, Waits
<1>8. CASE Join(h)
  BY <1>1, <1>8, AfterStopFacts, NobodyWaits DEF Join, Waits
<1>9. CASE NotRunning(h)
  BY <1>1, <1>9, AfterStopFacts, HolderLeaves DEF NotRunning
<1>10. CASE AlreadyRunning(h)
  BY <1>1, <1>10, HolderLeaves DEF AlreadyRunning, Finish, Goto, Waits
<1>11. CASE StartTask(h)
  <2>1. PICK k \in FreeTasks : pc' = [pc EXCEPT ![h] = "cast", ![k] = "new"]
    BY <1>11 DEF StartTask
  <2>2. lockQ' = Enqueue(Released, h) /\ cancelled' = cancelled /\ Holds(h)
    BY <1>11 DEF StartTask, ReleaseAndRequeue
  <2>3. \A x : Queued(lockQ', x) <=> Queued(lockQ, x)
    BY <1>1, <2>2, HolderFacts, EnqueueFacts
  <2>4. Queued(lockQ, h) /\ \A x \in Procs \ {h} : Waits(x)' => Waits(x)
    BY <1>1, <2>1, <2>2, HolderFacts DEF Waits, FreeTasks
  <2> QED BY <2>2, <2>3, <2>4 DEF WaitersInv
<1>12. CASE StopTask(h)
  <2> DEFINE k == running[tid[h]]
  <2>1. /\ lockQ' = Enqueue(Without(Released, k), h) /\ Holds(h)
        /\ cancelled' = cancelled \cup {k} /\ \A x \in Procs \ {h} : pc'[x] = pc[x]
    BY <1>1, <1>12 DEF StopTask, ReleaseAndRequeue, Cancel, Goto
  <2> HIDE DEF k
  <2>2. /\ Released \in Seq(Procs) /\ Injective(Released) /\ Queued(lockQ, h)
        /\ \A x : Queued(Released, x) <=> Queued(lockQ, x) /\ x # h
    BY <1>1, <2>1, HolderFacts
  <2>3. /\ Without(Released, k) \in Seq(Procs) /\ Injective(Without(Released, k))
        /\ \A x : Queued(Without(Released, k), x) <=> Queued(Released, x) /\ x # k
    BY <2>2, WithoutFacts
  <2>4. \A x : Queued(lockQ', x) <=> Queued(Without(Released, k), x) \/ x = h
    <3>1. ~Queued(Without(Released, k), h)
      BY <2>2, <2>3
    <3> QED BY <1>1, <2>1, <2>3, <3>1, EnqueueFacts
  <2> QED BY <2>1, <2>2, <2>3, <2>4 DEF WaitersInv, Waits
<1> QED
  BY <1>2, <1>3, <1>4, <1>5, <1>6, <1>7, <1>8, <1>9, <1>10, <1>11, <1>12 DEF HandlerStep

LEMMA OthersWait ==
    ASSUME IInv, WaitersInv,
           \/ \E p \in Workers : BroadcastStep(p)
           \/ \E k \in Tasks : TaskStep(k)
           \/ \E c \in Clients : ClientStep(c) \/ Connect(c) \/ Disconnect(c)
           \/ EditProxies
    PROVE  WaitersInv'
<1> USE ProcsAssumption DEF Workers, Procs
<1>1. pc \in [Procs -> HandlerPC \cup TaskPC \cup ClientPC]
  BY DEF IInv, TypeOK
<1>2. ASSUME NEW p \in Workers, BroadcastStep(p) PROVE WaitersInv'
  <2>1. CASE BeginBroadcast(p)
    BY <1>1, <2>1, NobodyWaits DEF BeginBroadcast, Goto, Waits
  <2>2. CASE \E c \in Clients : Deliver(p, c) \/ DeliverFails(p, c)
    BY <2>2, NobodyWaits DEF Deliver, DeliverFails, Waits
  <2>3. CASE EndBroadcast(p)
    <3>1. /\ Holds(p) /\ lockQ' = Released /\ cancelled' = cancelled
          /\ pc[p] = "send" /\ msg[p] \in Statuses
      BY <2>3 DEF EndBroadcast, IInv, SenderInv, LocalsInv, Statuses, Holds
    <3>2. pc' = [pc EXCEPT ![p] = "idle"] \/ pc' = [pc EXCEPT ![p] = AfterBroadcast[msg[p]]]
      BY <2>3 DEF EndBroadcast, Finish, Goto
    <3>3. AfterBroadcast[msg[p]] \in {"idle", "join", "collect", "sleep"}
      BY <3>1 DEF AfterBroadcast, Statuses
    <3> QED BY <1>1, <3>1, <3>2, <3>3, HolderLeaves DEF Waits
  <2> QED BY <1>2, <2>1, <2>2, <2>3 DEF BroadcastStep
<1>3. ASSUME NEW k \in Tasks, TaskStep(k) PROVE WaitersInv'
  <2>1. CASE CycleStart(k)
    BY <1>1, <2>1, WaiterJoins DEF CycleStart, Goto, Waits
  <2>2. CASE CollectStart(k)
    BY <1>1, <2>2, NobodyWaits DEF CollectStart, Goto, Waits
  <2>3. CASE CollectNothing(k)
    BY <1>1, <2>3, WaiterJoins DEF CollectNothing, Goto, Waits
  <2>4. CASE CollectEnd(k)
    BY <1>1, <2>4, WaiterJoins DEF CollectEnd, Goto, Waits
  <2>5. CASE Unwind(k)
    BY <1>1, <2>5 DEF Unwind, Goto, Waits, WaitersInv
  <2> QED BY <1>3, <2>1, <2>2, <2>3, <2>4, <2>5 DEF TaskStep
<1>4. ASSUME NEW c \in Clients, ClientStep(c) \/ Connect(c) \/ Disconnect(c)
      PROVE  WaitersInv'
  <2>1. CASE Connect(c)
    BY <1>1, <2>1, WaiterJoins DEF Connect, Goto, Waits
  <2>2. CASE Disconnect(c)
    BY <1>1, <2>2, WaiterJoins DEF Disconnect, Goto, Waits
  <2>3. CASE Register(c)
    BY <1>1, <2>3, HolderLeaves DEF Register, Goto, Waits
  <2>4. CASE Unregister(c)
    BY <1>1, <2>4, HolderLeaves DEF Unregister, Goto, Waits
  <2> QED BY <1>4, <2>1, <2>2, <2>3, <2>4 DEF ClientStep
<1>5. CASE EditProxies
  BY <1>5, NobodyWaits DEF EditProxies, Waits
<1> QED BY <1>2, <1>3, <1>4, <1>5

(* Nobody who waits for the lock is forgotten by it, nobody who went away  *)
(* is given it, and only its holder broadcasts (the "async with" blocks of *)
(* BackgroundCollector and asyncio.Lock).  A request that awaits a Task    *)
(* has let go of the lock, so the Task can have it.                        *)
THEOREM LockIsPassedOn == Spec => []LockServes
<1>1. Init => WaitersInv
  BY ProcsAssumption DEF Init, WaitersInv, Waits, Procs, Workers
<1>2. IInv /\ WaitersInv /\ [Next]_vars => WaitersInv'
  <2> SUFFICES ASSUME IInv, WaitersInv, [Next]_vars PROVE WaitersInv'
    OBVIOUS
  <2>1. CASE UNCHANGED vars
    BY <2>1 DEF vars, WaitersInv, Waits
  <2>2. CASE Next
    BY <2>2, HandlersWait, OthersWait DEF Next, Environment
  <2> QED BY <2>1, <2>2
<1>3. IInv /\ WaitersInv => LockServes
  BY DEF IInv, TypeOK, QueueInv, SenderInv, LockServes, Broadcasting, Holds
<1> QED BY <1>1, <1>2, <1>3, Invariance, PTL DEF Spec

-----------------------------------------------------------------------------
(* The settings, when requests come one at a time.  A restart stops what   *)
(* it found running, so while it is at it nothing runs automatically but   *)
(* what it has yet to stop; then it starts one task, with the settings     *)
(* that are saved.  The other requests start no automatic task.            *)

OneHandler == \A g, h \in Handlers : g = h

\* What runs automatically runs the saved settings, and only once.
OneSaved ==
    /\ \A t \in AutoRunning : cfg[running[t]] = config
    /\ \A t, u \in AutoRunning : t = u

\* The request is not between the save of a config and the start of a task.
Quiet(h) ==
    \/ pc[h] = "idle" \/ kind[h] # "put"
    \/ pc[h] \in {"cast", "send"} /\ msg[h] = "started"

\* What a restart has yet to stop, and what it is about to start.
Restarting(h) ==
    /\ \/ pc[h] \in {"restart", "join"}
       \/ pc[h] \in {"cast", "send"} /\ msg[h] = "stopped"
       => AutoRunning \subseteq todo[h]
    /\ pc[h] = "stop" => AutoRunning \subseteq todo[h] \cup {tid[h]}
    /\ pc[h] = "start" => AutoRunning = {} /\ cfg[h] = config

\* A request to start or stop a task says which; it may start only others
\* than the automatic ones.
Asking(h) == pc[h] # "restart" /\ (pc[h] = "start" => tid[h] \in OnDemandIds)

RestartInv ==
    /\ (\A h \in Handlers : Quiet(h)) => OneSaved
    /\ \A h \in Handlers : IF kind[h] = "put" THEN Restarting(h) ELSE Asking(h)

\* No automatic task is new, and those there are go on as they were.
NoNewAuto ==
    /\ config' = config
    /\ \A t \in AutoIds : running'[t] # Nobody =>
          running'[t] = running[t] /\ cfg'[running[t]] = cfg[running[t]]

\* The handler stands still.
Stands(h) ==
    /\ pc'[h] = pc[h] /\ kind'[h] = kind[h] /\ todo'[h] = todo[h]
    /\ tid'[h] = tid[h] /\ cfg'[h] = cfg[h] /\ msg'[h] = msg[h]

LEMMA NoNewKeeps ==
    ASSUME NoNewAuto
    PROVE  AutoRunning' \subseteq AutoRunning /\ (OneSaved => OneSaved')
<1>1. AutoRunning' \subseteq AutoRunning
  BY DEF NoNewAuto, AutoRunning, IsRunning
<1>2. \A t \in AutoRunning' : cfg'[running'[t]] = cfg[running[t]]
  BY DEF NoNewAuto, AutoRunning, IsRunning
<1> QED
  BY <1>1, <1>2 DEF OneSaved, NoNewAuto

\* The ids of the two kinds of task are different.
LEMMA IdsApart == AutoIds \cap OnDemandIds = {}
BY SettingsAssumption DEF AutoIds, OnDemandIds

\* A step of the tasks, the clients or the proxies.
LEMMA OthersKeep ==
    ASSUME RestartInv, NoNewAuto, \A h \in Handlers : Stands(h)
    PROVE  RestartInv'
<1>1. (\A h \in Handlers : Quiet(h)') => OneSaved'
  BY NoNewKeeps DEF RestartInv, Stands, Quiet
<1>2. ASSUME NEW h \in Handlers
      PROVE  IF kind'[h] = "put" THEN Restarting(h)' ELSE Asking(h)'
  <2>1. CASE kind[h] = "put"
    BY <2>1, NoNewKeeps DEF RestartInv, Stands, Restarting, NoNewAuto
  <2>2. CASE kind[h] # "put"
    BY <2>2 DEF RestartInv, Stands, Asking
  <2> QED
    BY <2>1, <2>2 DEF Stands
<1> QED
  BY <1>1, <1>2 DEF RestartInv

\* The one request: what it comes to.
LEMMA OneKeeps ==
    ASSUME OneHandler, NEW h \in Handlers,
           Quiet(h)' => OneSaved',
           IF kind'[h] = "put" THEN Restarting(h)' ELSE Asking(h)'
    PROVE  RestartInv'
BY DEF OneHandler, RestartInv

LEMMA QuietNow ==
    ASSUME OneHandler, RestartInv, NEW h \in Handlers
    PROVE  /\ Quiet(h) => OneSaved
           /\ IF kind[h] = "put" THEN Restarting(h) ELSE Asking(h)
BY DEF OneHandler, RestartInv

LEMMA RestartBegins == Init => RestartInv
<1> SUFFICES ASSUME Init PROVE RestartInv
  OBVIOUS
<1>1. \A h \in Handlers : pc[h] = "idle" /\ kind[h] = "put"
  BY ProcsAssumption DEF Init, Procs, Workers
<1>2. OneSaved
  <2>1. CASE active # {} /\ config \in Collectable
    <3>1. PICK k \in Tasks :
             /\ running = [t \in TaskIds |->
                             IF t = AutoId(active, config) /\ {k} # {}
                             THEN CHOOSE j \in Tasks : j \in {k} ELSE Nobody]
             /\ cfg = [p \in Workers |-> IF p \in {k} THEN config ELSE Nobody]
      BY <2>1 DEF Init
    <3>2. (CHOOSE j \in Tasks : j \in {k}) = k
      OBVIOUS
    <3>3. \A t \in TaskIds : running[t] = IF t = AutoId(active, config) THEN k ELSE Nobody
      BY <3>1, <3>2
    <3>4. cfg[k] = config /\ AutoIds \subseteq TaskIds
      BY <3>1 DEF Workers, TaskIds
    <3> QED
      BY <3>3, <3>4 DEF OneSaved, AutoRunning, IsRunning
  <2>2. CASE ~(active # {} /\ config \in Collectable)
    <3>1. running = [t \in TaskIds |->
                       IF t = AutoId(active, config) /\ {} # {}
                       THEN CHOOSE j \in Tasks : j \in {} ELSE Nobody]
      BY <2>2 DEF Init
    <3>2. AutoRunning = {}
      BY <3>1 DEF AutoRunning, IsRunning, TaskIds
    <3> QED
      BY <3>2 DEF OneSaved
  <2> QED
    BY <2>1, <2>2
<1> QED
  BY <1>1, <1>2 DEF RestartInv, Restarting

\* The steps of a request.
LEMMA RequestKeeps ==
    ASSUME OneHandler, RestartInv, IInv, NEW h \in Handlers,
           PutConfig(h) \/ RequestStart(h) \/ RequestStop(h)
    PROVE  RestartInv'
<1> USE ProcsAssumption DEF Procs, Workers, TypeOK
<1>0. TypeOK /\ (Quiet(h) => OneSaved)
  BY QuietNow DEF IInv
<1>1. CASE PutConfig(h)
  <2>1. pc'[h] = "restart" /\ kind'[h] = "put" /\ todo'[h] = AutoRunning /\ running' = running
    BY <1>0, <1>1 DEF PutConfig, Goto
  <2>2. AutoRunning' = AutoRunning
    BY <2>1 DEF AutoRunning, IsRunning
  <2> QED
    BY <2>1, <2>2, OneKeeps DEF Quiet, Restarting
<1>2. CASE RequestStart(h) \/ RequestStop(h)
  <2>1. /\ OneSaved /\ NoNewAuto
        /\ kind'[h] \in {"start", "stop"} /\ pc'[h] \in {"start", "stop"}
        /\ pc'[h] = "start" => tid'[h] \in OnDemandIds
    BY <1>0, <1>2 DEF RequestStart, RequestStop, Goto, NoNewAuto, Quiet, dbVars
  <2> QED
    BY <2>1, NoNewKeeps, OneKeeps DEF Asking
<1> QED
  BY <1>1, <1>2

LEMMA RestartKeeps ==
    ASSUME OneHandler, RestartInv, IInv, NEW h \in Handlers,
           RestartNext(h) \/ StartOnStartup(h) \/ NothingToStart(h)
    PROVE  RestartInv'
<1> USE ProcsAssumption DEF Procs, Workers, TypeOK
<1>0. /\ TypeOK /\ pc[h] = "restart" /\ kind[h] = "put" /\ AutoRunning \subseteq todo[h]
      /\ running' = running /\ AutoRunning' = AutoRunning
  BY QuietNow DEF IInv, RestartNext, StartOnStartup, NothingToStart, Asking, Restarting,
                 AutoRunning, IsRunning
<1>1. CASE RestartNext(h)
  <2>1. PICK t \in todo[h] : tid'[h] = t /\ todo'[h] = todo[h] \ {t}
    BY <1>0, <1>1 DEF RestartNext
  <2>2. pc'[h] = "stop" /\ kind'[h] = "put"
    BY <1>0, <1>1 DEF RestartNext, Goto
  <2> QED
    BY <1>0, <2>1, <2>2, OneKeeps DEF Quiet, Restarting
<1>2. CASE StartOnStartup(h)
  <2>1. /\ todo[h] = {} /\ pc'[h] = "start" /\ kind'[h] = "put"
        /\ cfg'[h] = config /\ config' = config
    BY <1>0, <1>2 DEF StartOnStartup, Goto, dbVars
  <2> QED
    BY <1>0, <2>1, OneKeeps DEF Quiet, Restarting
<1>3. CASE NothingToStart(h)
  <2>1. todo[h] = {} /\ pc'[h] = "idle" /\ kind'[h] = "put"
    BY <1>0, <1>3 DEF NothingToStart, Finish, Goto
  <2>2. AutoRunning' = {}
    BY <1>0, <2>1
  <2> QED
    BY <2>1, <2>2, OneKeeps DEF Restarting, OneSaved
<1> QED
  BY <1>1, <1>2, <1>3

\* The task that a restart starts is the only one, and has the saved config.
LEMMA StartsAsSaved ==
    ASSUME OneHandler, RestartInv, IInv, NEW h \in Handlers, StartTask(h)
    PROVE  RestartInv'
<1> USE ProcsAssumption DEF Procs, Workers, TypeOK
<1>1. /\ TypeOK /\ OneCollectorPerId /\ pc[h] = "start" /\ tid[h] \in TaskIds
      /\ config' = config /\ kind'[h] = kind[h]
  BY DEF IInv, StartTask, LocalsInv, dbVars
<1>2. PICK k \in FreeTasks :
         /\ running' = [running EXCEPT ![tid[h]] = k]
         /\ pc'  = [pc EXCEPT ![h] = "cast", ![k] = "new"]
         /\ cfg' = [cfg EXCEPT ![k] = cfg[h]]
         /\ msg' = [msg EXCEPT ![h] = "started"]
  BY DEF StartTask
<1>3. k \in Tasks /\ k # h /\ k # Nobody /\ pc[k] = "free"
  BY <1>2 DEF FreeTasks
<1>4. pc'[h] = "cast" /\ msg'[h] = "started" /\ cfg'[k] = cfg[h] /\ running'[tid[h]] = k
  BY <1>1, <1>2, <1>3
<1>5. OneSaved'
  <2>1. CASE kind[h] = "put"
    <3>1. AutoRunning = {} /\ cfg[h] = config
      BY <1>1, <2>1, QuietNow DEF Restarting
    <3>2. AutoRunning' \subseteq {tid[h]}
      BY <1>1, <1>2, <3>1 DEF AutoRunning, IsRunning, TaskIds
    <3> QED
      BY <1>1, <1>4, <3>1, <3>2 DEF OneSaved
  <2>2. CASE kind[h] # "put"
    <3>1. OneSaved /\ tid[h] \in OnDemandIds
      BY <1>1, <2>2, QuietNow DEF Quiet, Asking
    <3>2. ASSUME NEW t \in AutoIds, running'[t] # Nobody
          PROVE  running'[t] = running[t] /\ cfg'[running[t]] = cfg[running[t]]
      <4>1. t # tid[h] /\ t \in TaskIds
        BY <3>1, IdsApart DEF TaskIds
      <4>2. running'[t] = running[t]
        BY <1>1, <1>2, <4>1
      <4>3. running[t] # k
        BY <1>1, <1>3, <3>2, <4>1, <4>2 DEF OneCollectorPerId, RunningIds
      <4>4. running[t] \in Tasks
        BY <1>1, <3>2, <4>1, <4>2
      <4> QED
        BY <1>1, <1>2, <4>2, <4>3, <4>4
    <3> QED
      BY <1>1, <3>1, <3>2, NoNewKeeps DEF NoNewAuto
  <2> QED
    BY <2>1, <2>2
<1> QED
  BY <1>1, <1>4, <1>5, OneKeeps DEF Restarting, Asking

LEMMA StopsAsFound ==
    ASSUME OneHandler, RestartInv, IInv, NEW h \in Handlers,
           StopTask(h) \/ NotRunning(h)
    PROVE  RestartInv'
<1> USE ProcsAssumption DEF Procs, Workers, TypeOK
<1>0. /\ TypeOK /\ pc[h] = "stop" /\ tid[h] \in TaskIds /\ NoNewAuto
      /\ AutoRunning' = AutoRunning \ {tid[h]}
  <2>1. TypeOK /\ pc[h] = "stop" /\ tid[h] \in TaskIds /\ config' = config
    BY DEF IInv, StopTask, NotRunning, LocalsInv, dbVars
  <2>2. /\ \A t \in TaskIds \ {tid[h]} : running'[t] = running[t]
        /\ running'[tid[h]] = Nobody
    BY <2>1 DEF StopTask, NotRunning, IsRunning
  <2>3. \A k \in Tasks : cfg'[k] = cfg[k]
    BY <2>1 DEF StopTask, NotRunning, AfterStop, Finish
  <2> QED
    BY <2>1, <2>2, <2>3 DEF NoNewAuto, AutoRunning, IsRunning, TaskIds
<1>1. CASE StopTask(h)
  <2>1. /\ pc'[h] = "cast" /\ msg'[h] = "stopped" /\ kind'[h] = kind[h]
        /\ todo'[h] = todo[h]
    BY <1>0, <1>1 DEF StopTask, Goto
  <2> QED
    BY <1>0, <2>1, NoNewKeeps, QuietNow, OneKeeps DEF Quiet, Restarting, Asking
<1>2. CASE NotRunning(h)
  <2>1. CASE kind[h] = "put"
    <3>1. pc'[h] = "restart" /\ kind'[h] = "put" /\ todo'[h] = todo[h]
      BY <1>0, <1>2, <2>1 DEF NotRunning, AfterStop, Goto
    <3> QED
      BY <1>0, <2>1, <3>1, QuietNow, OneKeeps DEF Quiet, Restarting
  <2>2. CASE kind[h] # "put"
    <3>1. pc'[h] = "idle" /\ kind'[h] = "put"
      BY <1>0, <1>2, <2>2 DEF NotRunning, AfterStop, Finish, Goto
    <3> QED
      BY <1>0, <2>2, <3>1, NoNewKeeps, QuietNow, OneKeeps DEF Quiet, Restarting
  <2> QED
    BY <2>1, <2>2
<1> QED
  BY <1>1, <1>2

LEMMA EndKeeps ==
    ASSUME OneHandler, RestartInv, IInv, NEW h \in Handlers,
           AlreadyRunning(h) \/ Join(h) \/ BeginBroadcast(h) \/ EndBroadcast(h)
    PROVE  RestartInv'
<1> USE ProcsAssumption DEF Procs, Workers, TypeOK
<1>0. TypeOK /\ running' = running /\ config' = config
  BY DEF IInv, AlreadyRunning, Join, BeginBroadcast, EndBroadcast, dbVars
<1>1. NoNewAuto
  <2>1. \A k \in Tasks : cfg'[k] = cfg[k]
    BY <1>0 DEF AlreadyRunning, Join, BeginBroadcast, EndBroadcast, AfterStop,
           Finish, argVars
  <2> QED
    BY <1>0, <2>1 DEF NoNewAuto, TaskIds
<1>2. AutoRunning' = AutoRunning
  BY <1>0 DEF AutoRunning, IsRunning
<1>3. CASE AlreadyRunning(h)
  <2>1. pc[h] = "start" /\ pc'[h] = "idle" /\ kind'[h] = "put"
    BY <1>0, <1>3 DEF AlreadyRunning, Finish, Goto
  <2>2. CASE kind[h] = "put"
    <3>1. AutoRunning' = {}
      BY <1>2, <2>1, <2>2, QuietNow DEF Restarting
    <3> QED
      BY <2>1, <3>1, OneKeeps DEF Restarting, OneSaved
  <2>3. CASE kind[h] # "put"
    BY <1>1, <2>1, <2>3, NoNewKeeps, QuietNow, OneKeeps DEF Quiet, Restarting
  <2> QED
    BY <2>2, <2>3
<1>4. CASE Join(h)
  <2>1. pc[h] = "join"
    BY <1>4 DEF Join
  <2>2. CASE kind[h] = "put"
    <3>1. pc'[h] = "restart" /\ kind'[h] = "put" /\ todo'[h] = todo[h]
      BY <1>0, <1>4, <2>2 DEF Join, AfterStop, Goto
    <3> QED
      BY <1>2, <2>1, <2>2, <3>1, QuietNow, OneKeeps DEF Quiet, Restarting
  <2>3. CASE kind[h] # "put"
    <3>1. pc'[h] = "idle" /\ kind'[h] = "put"
      BY <1>0, <1>4, <2>3 DEF Join, AfterStop, Finish, Goto
    <3> QED
      BY <1>1, <2>3, <3>1, NoNewKeeps, QuietNow, OneKeeps DEF Quiet, Restarting
  <2> QED
    BY <2>2, <2>3
<1>5. CASE BeginBroadcast(h)
  <2>1. /\ pc[h] = "cast" /\ pc'[h] = "send" /\ kind'[h] = kind[h]
        /\ todo'[h] = todo[h] /\ msg'[h] = msg[h]
    BY <1>0, <1>5 DEF BeginBroadcast, Goto, argVars
  <2> QED
    BY <1>1, <1>2, <2>1, NoNewKeeps, QuietNow, OneKeeps DEF Quiet, Restarting, Asking
<1>6. CASE EndBroadcast(h)
  <2>1. pc[h] = "send" /\ msg[h] \in {"started", "stopped"}
    BY <1>0, <1>6 DEF EndBroadcast, IInv, LocalsInv
  <2>2. CASE msg[h] = "started"
    <3>1. pc'[h] = "idle" /\ kind'[h] = "put"
      BY <1>0, <1>6, <2>2 DEF EndBroadcast, Finish, Goto
    <3> QED
      BY <1>1, <2>1, <2>2, <3>1, NoNewKeeps, QuietNow, OneKeeps DEF Quiet, Restarting
  <2>3. CASE msg[h] = "stopped"
    <3>1. pc'[h] = "join" /\ kind'[h] = kind[h] /\ todo'[h] = todo[h]
      BY <1>0, <1>6, <2>3 DEF EndBroadcast, Goto, argVars, AfterBroadcast
    <3> QED
      BY <1>1, <1>2, <2>1, <2>3, <3>1, NoNewKeeps, QuietNow, OneKeeps
         DEF Quiet, Restarting, Asking
  <2> QED
    BY <2>1, <2>2, <2>3
<1> QED
  BY <1>3, <1>4, <1>5, <1>6

\* The tasks, the clients and the proxies, and a send of any broadcast.
LEMMA AllOthersKeep ==
    ASSUME RestartInv, IInv,
           \/ \E k \in Tasks : TaskStep(k) \/ BeginBroadcast(k) \/ EndBroadcast(k)
           \/ \E p \in Workers, c \in Clients : Deliver(p, c) \/ DeliverFails(p, c)
           \/ \E c \in Clients : ClientStep(c) \/ Connect(c) \/ Disconnect(c)
           \/ EditProxies \/ UNCHANGED vars
    PROVE  RestartInv'
<1> USE ProcsAssumption DEF Procs, Workers, TypeOK
<1>0. TypeOK /\ OneCollectorPerId
  BY DEF IInv
<1>1. CASE \/ \E p \in Workers, c \in Clients : Deliver(p, c) \/ DeliverFails(p, c)
           \/ EditProxies \/ UNCHANGED vars
  BY <1>1, OthersKeep DEF Deliver, DeliverFails, EditProxies, vars, argVars, dbVars,
                          Stands, NoNewAuto
<1>2. ASSUME NEW c \in Clients, ClientStep(c) \/ Connect(c) \/ Disconnect(c)
      PROVE  RestartInv'
  <2>1. NoNewAuto /\ \A h \in Handlers : Stands(h)
    BY <1>0, <1>2 DEF ClientStep, Register, Unregister, Connect, Disconnect, Goto,
           argVars,
                      dbVars, Stands, NoNewAuto
  <2> QED
    BY <2>1, OthersKeep
<1>3. ASSUME NEW k \in Tasks, TaskStep(k) \/ BeginBroadcast(k) \/ EndBroadcast(k)
      PROVE  RestartInv'
  <2>0. EndBroadcast(k) => msg[k] # "started"
    BY DEF EndBroadcast, IInv, LocalsInv
  <2>1. /\ running' = running /\ config' = config /\ kind' = kind /\ todo' = todo
        /\ \A w \in Workers \ {k} : /\ pc'[w] = pc[w] /\ tid'[w] = tid[w]
                                    /\ cfg'[w] = cfg[w] /\ msg'[w] = msg[w]
    <3>1. CASE TaskStep(k)
      BY <1>0, <3>1 DEF TaskStep, CycleStart, CollectStart, CollectNothing, CollectEnd,
                        Unwind, Goto, argVars, dbVars
    <3>2. CASE BeginBroadcast(k)
      BY <1>0, <3>2 DEF BeginBroadcast, Goto, argVars, dbVars
    <3>3. CASE EndBroadcast(k)
      BY <1>0, <2>0, <3>3 DEF EndBroadcast, Goto, argVars, dbVars
    <3> QED
      BY <1>3, <3>1, <3>2, <3>3
  <2>2. \A h \in Handlers : Stands(h)
    BY <2>1 DEF Stands
  <2>3. k \in cancelled \/ cfg'[k] = cfg[k]
    BY <1>0, <1>3, <2>0 DEF TaskStep, CycleStart, CollectStart, CollectNothing,
           CollectEnd,
                            Unwind, BeginBroadcast, EndBroadcast, argVars, dbVars
  <2>4. NoNewAuto
    BY <1>0, <2>1, <2>3 DEF NoNewAuto, OneCollectorPerId, RunningIds, TaskIds
  <2> QED
    BY <2>2, <2>4, OthersKeep
<1> QED
  BY <1>1, <1>2, <1>3

LEMMA RestartStep ==
    ASSUME OneHandler, RestartInv, IInv, [Next]_vars
    PROVE  RestartInv'
<1>1. CASE Environment
  BY <1>1, RequestKeeps, AllOthersKeep DEF Environment
<1>2. CASE \E h \in Handlers : HandlerStep(h)
  BY <1>2, RestartKeeps, StartsAsSaved, StopsAsFound, EndKeeps DEF HandlerStep
<1>3. CASE \E p \in Workers : BroadcastStep(p)
  BY <1>3, EndKeeps, AllOthersKeep DEF BroadcastStep, Workers
<1> QED
  BY <1>1, <1>2, <1>3, AllOthersKeep DEF Next

LEMMA RestartHolds == OneHandler => (Spec => []RestartInv)
<1> SUFFICES ASSUME OneHandler PROVE Spec => []RestartInv
  OBVIOUS
<1>1. RestartInv /\ IInv /\ [Next]_vars => RestartInv'
  BY RestartStep
<1> QED
  BY <1>1, RestartBegins, Invariance, PTL DEF Spec

(***************************************************************************)
(* While requests come one at a time, what runs automatically once a       *)
(* request has been answered runs the settings that are saved, whatever    *)
(* was started, stopped or cancelled on the way and however the tasks      *)
(* fail (restart_on_config_change).                                        *)
(***************************************************************************)
THEOREM SavedIsCollected == OneHandler => (Spec => []AutoCollectsSavedConfig)
<1> SUFFICES ASSUME OneHandler PROVE Spec => []AutoCollectsSavedConfig
  OBVIOUS
<1>1. RestartInv => AutoCollectsSavedConfig
  BY DEF RestartInv, AutoCollectsSavedConfig, Settled, Quiet, OneSaved, RunningIds,
         AutoRunning, IsRunning
<1> QED
  BY <1>1, RestartHolds, PTL

(***************************************************************************)
(* ... and there is at most one of it: a community or a set of proxies     *)
(* that was changed leaves no collector of the old ones behind.            *)
(***************************************************************************)
THEOREM OneAutomatic == OneHandler => (Spec => []OneAutoCollector)
<1> SUFFICES ASSUME OneHandler PROVE Spec => []OneAutoCollector
  OBVIOUS
<1>1. RestartInv => OneAutoCollector
  BY DEF RestartInv, OneAutoCollector, Settled, Quiet, OneSaved, RunningIds,
         AutoRunning, IsRunning
<1> QED
  BY <1>1, RestartHolds, PTL

=============================================================================
