-------------------------- MODULE ProxyStoreProofs --------------------------
(***************************************************************************)
(* For any number of ids, proxies, requests and jobs: the types, and that  *)
(* a row under another proxy's id comes from work that outlived its own    *)
(* proxy (StrangersAreLate).  That is not inductive alone: a collection    *)
(* may write whatever it read at its start, so the invariant also speaks   *)
(* of what the jobs hold.                                                  *)
(***************************************************************************)
EXTENDS ProxyStore, TLAPS

(* What a job works on is a living proxy, or one that died under it.       *)
WorkIsAliveOrLate == \A j \in Jobs : \A l \in work[j] : Alive(l) \/ l \in late

IInv == TypeOK /\ StrangersAreLate /\ WorkIsAliveOrLate

(* A life is an id and a birth, and the life of a present id is alive.     *)
LEMMA LifeFacts ==
    ASSUME TypeOK
    PROVE  /\ \A l \in Lives : l[1] \in Ids /\ l[2] \in Births /\ l = <<l[1], l[2]>>
           /\ \A i \in Ids : Exists(i) => LifeOf(i) \in Lives /\ Alive(LifeOf(i))
           /\ \A l \in Lives : Alive(l) => Exists(l[1]) /\ LifeOf(l[1]) = l
           /\ None \notin Births
<1>1. None \notin Births
  BY DEF None, Births
<1>2. \A l \in Lives : l[1] \in Ids /\ l[2] \in Births /\ l = <<l[1], l[2]>>
  BY DEF Lives
<1>3. ASSUME NEW i \in Ids, Exists(i) PROVE LifeOf(i) \in Lives /\ Alive(LifeOf(i))
  <2>1. birth[i] \in Births
    BY <1>3 DEF TypeOK, Exists
  <2> QED
    BY <2>1 DEF LifeOf, Lives, Alive
<1>4. ASSUME NEW l \in Lives, Alive(l) PROVE Exists(l[1]) /\ LifeOf(l[1]) = l
  BY <1>1, <1>2, <1>4 DEF Alive, Exists, LifeOf
<1> QED
  BY <1>1, <1>2, <1>3, <1>4

LEMMA InitEstablishes == Init => IInv
<1> SUFFICES ASSUME Init PROVE IInv
  OBVIOUS
<1>1. TypeOK
  BY BoundsAssumption DEF Init, TypeOK, JobKinds, Stages, None
<1>2. StrangersAreLate /\ WorkIsAliveOrLate
  BY DEF Init, StrangersAreLate, WorkIsAliveOrLate
<1> QED
  BY <1>1, <1>2 DEF IInv

(* Every step keeps the types.                                             *)
LEMMA StepKeepsTypes == ASSUME TypeOK, [Next]_vars PROVE TypeOK'
<1> USE DEF TypeOK
<1>0. \A i \in Ids : Exists(i) => LifeOf(i) \in Lives
  BY LifeFacts
<1>0a. None \in Births \cup {None} /\ JobKinds = {"idle", "usage", "logs", "live"}
       /\ Stages = {"sleep", "logs", "ids", "caches"}
  BY DEF JobKinds, Stages
<1>1. CASE Create
  <2>1. births + 1 \in Births /\ births + 1 \in 0 .. MaxBirth
    BY <1>1, BoundsAssumption DEF Create, Births
  <2> QED
    BY <1>1, <2>1 DEF Create, keptVars, jobVars, retentionVars
<1>2. CASE Update
  BY <1>2 DEF Update, Present, keptVars, jobVars, retentionVars
<1>3. ASSUME NEW gone \in SUBSET Ids, Erase(gone)
      PROVE  /\ usage' \subseteq Lives /\ logs' \subseteq Lives
             /\ birth' \in [Ids -> Births \cup {None}]
             /\ active' \subseteq Ids /\ late' \subseteq Lives
  <2>1. late' \subseteq Lives
    BY <1>0, <1>3 DEF Erase, Ended, Present
  <2> QED
    BY <1>0a, <1>3, <2>1 DEF Erase, RowsLeft
<1>4. CASE Reset
  BY <1>3, <1>4 DEF Reset, jobVars, retentionVars
<1>5. ASSUME NEW r \in Requests, FindToDelete(r) \/ Delete(r) \/ DeleteFails(r)
      PROVE  TypeOK'
  <2>1. CASE FindToDelete(r)
    BY <2>1 DEF FindToDelete, Present, tableVars, keptVars, jobVars, retentionVars
  <2>2. CASE Delete(r)
    <3>1. {target[r]} \in SUBSET Ids
      BY <2>2 DEF Delete
    <3> QED
      BY <1>3, <2>2, <3>1 DEF Delete, jobVars, retentionVars
  <2>3. CASE DeleteFails(r)
    BY <2>3 DEF DeleteFails, tableVars, keptVars, jobVars, retentionVars
  <2> QED
    BY <1>5, <2>1, <2>2, <2>3
<1>6. CASE ResetLive
  BY <1>6 DEF ResetLive, tableVars, jobVars, retentionVars
<1>7. CASE RetentionStep
  <2>1. CASE RetainUsage
    BY <1>0a, <2>1 DEF RetainUsage, tableVars, jobVars
  <2>2. CASE RetainLogs
    BY <1>0a, <2>2 DEF RetainLogs, tableVars, jobVars
  <2>3. CASE RetainLogsFails
    BY <1>0a, <2>3 DEF RetainLogsFails, tableVars, keptVars, jobVars
  <2>4. CASE ReadIds
    BY <1>0a, <2>4 DEF ReadIds, Present, tableVars, keptVars, jobVars
  <2>5. CASE CleanCaches
    BY <1>0a, <2>5 DEF CleanCaches, Cleaned, tableVars, jobVars
  <2>6. CASE RetentionFails
    BY <1>0a, <2>6 DEF RetentionFails, Cleaned, tableVars, jobVars
  <2> QED
    BY <1>7, <2>1, <2>2, <2>3, <2>4, <2>5, <2>6 DEF RetentionStep
<1>8. ASSUME NEW j \in Jobs, JobStep(j) PROVE TypeOK'
  <2>0. ASSUME NEW kind \in JobKinds, NEW lives \in SUBSET Lives, Begin(j, kind, lives)
        PROVE  TypeOK'
    BY <2>0 DEF Begin, tableVars, keptVars, retentionVars
  <2>0a. Done(j) => job' \in [Jobs -> JobKinds] /\ work' \in [Jobs -> SUBSET Lives]
    BY <1>0a DEF Done
  <2>1. CASE CollectBegin(j)
    <3>1. PICK ids \in SUBSET (active \cap Present) :
                 Begin(j, "usage", {LifeOf(i) : i \in ids})
      BY <2>1 DEF CollectBegin
    <3>2. {LifeOf(i) : i \in ids} \in SUBSET Lives
      BY <1>0 DEF Present
    <3> QED
      BY <1>0a, <2>0, <3>1, <3>2
  <2>2. CASE CacheCounters(j)
    <3>1. PICK l \in work[j] : counters' = [counters EXCEPT ![l[1]] = l[2]]
      BY <2>2 DEF CacheCounters
    <3>2. l[1] \in Ids /\ l[2] \in Births
      BY <3>1 DEF Lives
    <3> QED
      BY <2>2, <3>1, <3>2 DEF CacheCounters, tableVars, jobVars, retentionVars
  <2>3. CASE CollectEnd(j)
    BY <2>0a, <2>3 DEF CollectEnd, tableVars, retentionVars
  <2>4. CASE FetchBegin(j)
    <3>1. PICK i \in active \cap Present : Begin(j, "logs", {LifeOf(i)})
      BY <2>4 DEF FetchBegin
    <3>2. {LifeOf(i)} \in SUBSET Lives
      BY <1>0 DEF Present
    <3> QED
      BY <1>0a, <2>0, <3>1, <3>2
  <2>5. CASE FetchEnd(j)
    BY <2>0a, <2>5 DEF FetchEnd, RowsLeft, tableVars, retentionVars
  <2>6. CASE PollBegin(j)
    <3>1. PICK i \in Present : Begin(j, "live", {LifeOf(i)})
      BY <2>6 DEF PollBegin
    <3>2. {LifeOf(i)} \in SUBSET Lives
      BY <1>0 DEF Present
    <3> QED
      BY <1>0a, <2>0, <3>1, <3>2
  <2>7. CASE PollEnd(j)
    <3>1. PICK l \in work[j] : live' = [live EXCEPT ![l[1]] = l[2]]
      BY <2>7 DEF PollEnd
    <3>2. l[1] \in Ids /\ l[2] \in Births
      BY <3>1 DEF Lives
    <3> QED
      BY <2>0a, <2>7, <3>1, <3>2 DEF PollEnd, tableVars, retentionVars
  <2>8. CASE JobFails(j)
    BY <2>0a, <2>8 DEF JobFails, tableVars, keptVars, retentionVars
  <2> QED
    BY <1>8, <2>1, <2>2, <2>3, <2>4, <2>5, <2>6, <2>7, <2>8 DEF JobStep
<1>9. CASE UNCHANGED vars
  BY <1>9 DEF vars
<1> QED
  BY <1>1, <1>2, <1>4, <1>5, <1>6, <1>7, <1>8, <1>9 DEF Next, TableStep

(* Deleting proxies leaves, of their rows, none, and makes the work in     *)
(* progress on them late.                                                  *)
LEMMA EraseKeeps ==
    ASSUME IInv, NEW gone \in SUBSET Ids, Erase(gone), work' = work
    PROVE  StrangersAreLate' /\ WorkIsAliveOrLate'
<1> USE DEF IInv
<1>1. ASSUME NEW l \in Lives, Alive(l) \/ l \in late, l[1] \notin gone
      PROVE  Alive(l)' \/ l \in late'
  BY <1>1, LifeFacts DEF Erase, Ended, Alive, TypeOK
<1>2. StrangersAreLate'
  BY <1>1 DEF StrangersAreLate, Erase, RowsLeft, TypeOK
<1>3. ASSUME NEW j \in Jobs, NEW l \in work[j] PROVE Alive(l)' \/ l \in late'
  <2>0. l \in Lives /\ (Alive(l) \/ l \in late)
    BY DEF WorkIsAliveOrLate, TypeOK
  <2>1. CASE l[1] \in gone /\ Alive(l)
    <3>1. l[1] \in gone \cap Present /\ LifeOf(l[1]) = l /\ l \in InProgress
      BY <2>0, <2>1, LifeFacts DEF Present, InProgress
    <3> QED
      BY <3>1 DEF Erase, Ended
  <2>2. CASE l \in late
    BY <2>2 DEF Erase, Ended
  <2> QED
    BY <1>1, <2>0, <2>1, <2>2
<1> QED
  BY <1>2, <1>3 DEF WorkIsAliveOrLate

LEMMA StepKeepsStrangersLate ==
    ASSUME IInv, [Next]_vars
    PROVE  StrangersAreLate' /\ WorkIsAliveOrLate'
<1> USE DEF IInv
<1> DEFINE Fine(l) == Alive(l) \/ l \in late
<1>0. ASSUME UNCHANGED <<birth, late>> PROVE \A l : Fine(l) => Fine(l)'
  BY <1>0 DEF Alive
<1>1. CASE Create
  <2>1. PICK i \in Ids : IsNextId(i) /\ birth' = [birth EXCEPT ![i] = births + 1]
    BY <1>1 DEF Create
  <2>2. ASSUME NEW l \in Lives, Fine(l) PROVE Fine(l)'
    <3>1. Alive(l) => l[1] # i
      BY <2>1, LifeFacts DEF IsNextId
    <3> QED
      BY <1>1, <2>1, <2>2, <3>1, LifeFacts DEF Create, Alive, TypeOK
  <2> QED
    BY <1>1, <2>2 DEF Create, StrangersAreLate, WorkIsAliveOrLate, keptVars, jobVars, TypeOK
<1>2. CASE Update
  BY <1>0, <1>2 DEF Update, StrangersAreLate, WorkIsAliveOrLate, keptVars, jobVars
<1>3. CASE Reset
  BY <1>3, EraseKeeps DEF Reset, jobVars
<1>4. ASSUME NEW r \in Requests, FindToDelete(r) \/ Delete(r) \/ DeleteFails(r)
      PROVE  StrangersAreLate' /\ WorkIsAliveOrLate'
  <2>1. CASE Delete(r)
    <3>1. {target[r]} \in SUBSET Ids
      BY <2>1 DEF Delete, TypeOK
    <3> QED
      BY <2>1, <3>1, EraseKeeps DEF Delete, jobVars
  <2>2. CASE FindToDelete(r) \/ DeleteFails(r)
    BY <1>0, <2>2 DEF FindToDelete, DeleteFails, StrangersAreLate, WorkIsAliveOrLate,
                      tableVars, keptVars, jobVars
  <2> QED
    BY <1>4, <2>1, <2>2
<1>5. CASE ResetLive
  BY <1>0, <1>5 DEF ResetLive, StrangersAreLate, WorkIsAliveOrLate, tableVars, jobVars
<1>6. CASE RetentionStep
  <2>1. /\ usage' \subseteq usage /\ logs' \subseteq logs
        /\ UNCHANGED <<birth, late, work>>
    BY <1>6 DEF RetentionStep, RetainUsage, RetainLogs, RetainLogsFails, ReadIds,
                CleanCaches, RetentionFails, tableVars, keptVars, jobVars
  <2> QED
    BY <1>0, <2>1 DEF StrangersAreLate, WorkIsAliveOrLate
<1>7. ASSUME NEW j \in Jobs, JobStep(j) PROVE StrangersAreLate' /\ WorkIsAliveOrLate'
  <2>0. UNCHANGED <<birth, late>>
    BY <1>7 DEF JobStep, CollectBegin, CacheCounters, CollectEnd, FetchBegin, FetchEnd,
                PollBegin, PollEnd, JobFails, Begin, tableVars
  <2>1. usage' \cup logs' \subseteq usage \cup logs \cup work[j]
    BY <1>7 DEF JobStep, CollectBegin, CacheCounters, CollectEnd, FetchBegin, FetchEnd,
                PollBegin, PollEnd, JobFails, Begin, RowsLeft, keptVars
  <2>2. StrangersAreLate'
    BY <1>0, <2>0, <2>1 DEF StrangersAreLate, WorkIsAliveOrLate
  <2>3. \A i \in Ids : Exists(i) => Fine(LifeOf(i))
    BY LifeFacts
  <2>4. \A k \in Jobs : \A l \in work'[k] : l \in work[k] \/ Fine(l)
    <3>1. ASSUME NEW kind, NEW lives, Begin(j, kind, lives), \A l \in lives : Fine(l)
          PROVE  \A k \in Jobs : \A l \in work'[k] : l \in work[k] \/ Fine(l)
      BY <3>1 DEF Begin, TypeOK
    <3>2. CASE CollectBegin(j)
      <4>1. PICK ids \in SUBSET (active \cap Present) :
                   Begin(j, "usage", {LifeOf(i) : i \in ids})
        BY <3>2 DEF CollectBegin
      <4>2. \A l \in {LifeOf(i) : i \in ids} : Fine(l)
        BY <2>3 DEF Present
      <4> QED
        BY <3>1, <4>1, <4>2
    <3>3. CASE FetchBegin(j)
      <4>1. PICK i \in active \cap Present : Begin(j, "logs", {LifeOf(i)})
        BY <3>3 DEF FetchBegin
      <4> QED
        BY <2>3, <3>1, <4>1 DEF Present
    <3>4. CASE PollBegin(j)
      <4>1. PICK i \in Present : Begin(j, "live", {LifeOf(i)})
        BY <3>4 DEF PollBegin
      <4> QED
        BY <2>3, <3>1, <4>1 DEF Present
    <3>5. CASE CacheCounters(j)
      BY <3>5 DEF CacheCounters, jobVars
    <3>6. CASE CollectEnd(j) \/ FetchEnd(j) \/ PollEnd(j) \/ JobFails(j)
      <4>1. work' = [work EXCEPT ![j] = {}]
        BY <3>6 DEF CollectEnd, FetchEnd, PollEnd, JobFails, Done
      <4> QED
        BY <4>1 DEF TypeOK
    <3> QED
      BY <1>7, <3>2, <3>3, <3>4, <3>5, <3>6 DEF JobStep
  <2> QED
    BY <1>0, <2>0, <2>2, <2>4 DEF WorkIsAliveOrLate
<1>8. CASE UNCHANGED vars
  BY <1>0, <1>8 DEF vars, StrangersAreLate, WorkIsAliveOrLate
<1> QED
  BY <1>1, <1>2, <1>3, <1>4, <1>5, <1>6, <1>7, <1>8 DEF Next, TableStep

LEMMA Inductive == IInv /\ [Next]_vars => IInv'
  BY StepKeepsTypes, StepKeepsStrangersLate DEF IInv

(* Every reachable state is of the types stated.                           *)
THEOREM ProxyStoreTypes == Spec => []TypeOK
<1>1. IInv => TypeOK
  BY DEF IInv
<1> QED
  BY InitEstablishes, Inductive, <1>1, PTL DEF Spec

(* No deleted proxy leaves rows for the next owner of its id, unless a     *)
(* collection was at work on it when it was deleted.                       *)
THEOREM RowsStayWithTheirProxy == Spec => []StrangersAreLate
<1>1. IInv => StrangersAreLate
  BY DEF IInv
<1> QED
  BY InitEstablishes, Inductive, <1>1, PTL DEF Spec
=============================================================================
