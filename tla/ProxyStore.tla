----------------------------- MODULE ProxyStore -----------------------------
(***************************************************************************)
(* The proxies table and everything kept under a proxy's id: the rows of   *)
(* resource_usage and traffic_logs, the counter caches and _live_state of  *)
(* the process.  Requests run in threads, collections as coroutines, the   *)
(* hourly retention in a thread of its own; what each reads at its start   *)
(* may be gone when it writes.                                             *)
(*                                                                         *)
(* SQLite does not enforce the foreign keys (PRAGMA foreign_keys is never  *)
(* set) and gives a new row the highest id in use plus one, so the id of   *)
(* the newest proxy is used again once it is deleted.  A birth number,     *)
(* which the program does not have, tells one proxy from the next that has *)
(* its id.  Hosts and other columns are left out: a refused create or edit *)
(* changes nothing.                                                        *)
(***************************************************************************)
EXTENDS Naturals, FiniteSets

CONSTANTS
    MaxId,      \* bound on the ids in use together
    MaxBirth,   \* bound on the proxies ever created
    Requests,   \* requests that delete a proxy, in flight together
    Jobs        \* collections and polls in flight together

ASSUME BoundsAssumption == MaxId \in Nat \ {0} /\ MaxBirth \in Nat

Ids    == 1 .. MaxId
Births == 1 .. MaxBirth
None   == 0
Lives  == Ids \X Births

VARIABLES
    birth,     \* the proxies table: the birth of the proxy with each id, or None
    active,    \* the ids with is_active
    births,    \* the number of proxies created so far
    usage,     \* resource_usage: the (id, birth) that have rows
    logs,      \* traffic_logs: the (id, birth) that have rows
    counters,  \* the counter caches: the birth last read under each id, or None
    live,      \* _live_state: the birth last polled under each id, or None
    target,    \* the id each delete request has found, or None
    job,       \* what each job does
    work,      \* the (id, birth) each job has read from the table
    stage,     \* where the retention thread is
    known,     \* active_ids of the retention thread
    late       \* history: the lives that ended with a job still at work on them

vars == <<birth, active, births, usage, logs, counters, live, target, job, work,
          stage, known, late>>
tableVars == <<birth, active, births, late>>
keptVars  == <<usage, logs, counters, live>>
jobVars   == <<job, work>>
retentionVars == <<stage, known>>

JobKinds == {"idle", "usage", "logs", "live"}
Stages   == {"sleep", "logs", "ids", "caches"}

TypeOK ==
    /\ birth \in [Ids -> Births \cup {None}]
    /\ active \subseteq Ids
    /\ births \in 0 .. MaxBirth
    /\ usage \subseteq Lives
    /\ logs \subseteq Lives
    /\ counters \in [Ids -> Births \cup {None}]
    /\ live \in [Ids -> Births \cup {None}]
    /\ target \in [Requests -> Ids \cup {None}]
    /\ job \in [Jobs -> JobKinds]
    /\ work \in [Jobs -> SUBSET Lives]
    /\ stage \in Stages
    /\ known \subseteq Ids
    /\ late \subseteq Lives

Init ==
    /\ birth = [i \in Ids |-> None] /\ active = {} /\ births = 0
    /\ usage = {} /\ logs = {}
    /\ counters = [i \in Ids |-> None] /\ live = [i \in Ids |-> None]
    /\ target = [r \in Requests |-> None]
    /\ job = [j \in Jobs |-> "idle"] /\ work = [j \in Jobs |-> {}]
    /\ stage = "sleep" /\ known = {} /\ late = {}

-----------------------------------------------------------------------------
(* The table.                                                              *)

\* (Mutant: the answer 404 is forgotten.)
Exists_NotTested(i) == TRUE
Exists(i) == birth[i] # None
Present   == {i \in Ids : Exists(i)}
Alive(l)  == birth[l[1]] = l[2]
LifeOf(i) == <<i, birth[i]>>

\* SQLite's choice of a rowid without AUTOINCREMENT.
IsNextId(i) ==
    /\ ~Exists(i)
    /\ \A k \in Present : k < i
    /\ \A k \in Ids : k + 1 = i => Exists(k)

\* create_proxy, an item of bulk_create_proxies, or a new host of an import.
Create ==
    /\ births < MaxBirth
    /\ births' = births + 1
    /\ \E i \in Ids :
          /\ IsNextId(i)
          /\ birth' = [birth EXCEPT ![i] = births + 1]
          /\ active' \in {active \ {i}, active \cup {i}}
    /\ UNCHANGED <<late, keptVars, target, jobVars, retentionVars>>

\* update_proxy, or a known host of an import: is_active is all that matters.
Update ==
    /\ \E i \in Present : active' \in {active \ {i}, active \cup {i}}
    /\ UNCHANGED <<birth, births, late, keptVars, target, jobVars, retentionVars>>

InProgress == UNION {work[j] : j \in Jobs}
Ended(gone) == late' = late \cup ({LifeOf(i) : i \in gone} \cap InProgress)

\* The rows left once the rows of some ids are deleted.  (Mutant: only the
\* proxy is deleted, ON DELETE CASCADE being left to do the rest.)
RowsLeft_Cascade(rows, gone) == rows
RowsLeft(rows, gone) == {l \in rows : l[1] \notin gone}

\* One transaction: the rows that depend on the proxies, then the proxies.
Erase(gone) ==
    /\ usage'  = RowsLeft(usage, gone)
    /\ logs'   = RowsLeft(logs, gone)
    /\ birth'  = [i \in Ids |-> IF i \in gone THEN None ELSE birth[i]]
    /\ active' = active \ gone
    /\ Ended(gone \cap Present)

\* delete_proxy looks the proxy up ...
FindToDelete(r) ==
    /\ target[r] = None
    /\ \E i \in Present : target' = [target EXCEPT ![r] = i]
    /\ UNCHANGED <<tableVars, keptVars, jobVars, retentionVars>>

\* ... and deletes by id whatever has that id by then.
Delete(r) ==
    /\ target[r] # None
    /\ Erase({target[r]})
    /\ target' = [target EXCEPT ![r] = None]
    /\ UNCHANGED <<births, counters, live, jobVars, retentionVars>>

\* The transaction fails and is rolled back.
DeleteFails(r) ==
    /\ target[r] # None
    /\ target' = [target EXCEPT ![r] = None]
    /\ UNCHANGED <<tableVars, keptVars, jobVars, retentionVars>>

\* POST /config/reset deletes every row; the caches stay.
Reset ==
    /\ Present # {}
    /\ Erase(Ids)
    /\ UNCHANGED <<births, counters, live, target, jobVars, retentionVars>>

-----------------------------------------------------------------------------
(* Collections and polls.                                                  *)

Begin(j, kind, lives) ==
    /\ job[j] = "idle" /\ lives # {}
    /\ job'  = [job EXCEPT ![j] = kind]
    /\ work' = [work EXCEPT ![j] = lives]
    /\ UNCHANGED <<tableVars, keptVars, target, retentionVars>>

Done(j) ==
    /\ job'  = [job EXCEPT ![j] = "idle"]
    /\ work' = [work EXCEPT ![j] = {}]

\* _collect_once, or POST /resource-usage/collect: the active proxies asked for.
CollectBegin(j) ==
    \E ids \in SUBSET (active \cap Present) : Begin(j, "usage", {LifeOf(i) : i \in ids})

\* The SNMP answers of a proxy are in: its counters are cached.
CacheCounters(j) ==
    /\ job[j] = "usage"
    /\ \E l \in work[j] : counters' = [counters EXCEPT ![l[1]] = l[2]]
    /\ UNCHANGED <<tableVars, usage, logs, live, target, jobVars, retentionVars>>

\* The rows of the proxies that answered are committed together; none of them
\* when the collection was cancelled or the commit fails.
CollectEnd(j) ==
    /\ job[j] = "usage"
    /\ \E answered \in SUBSET work[j] : usage' = usage \cup answered
    /\ Done(j)
    /\ UNCHANGED <<tableVars, logs, counters, live, target, retentionVars>>

\* A thread of POST /traffic-logs/collect: one of the active proxies.
FetchBegin(j) ==
    \E i \in active \cap Present : Begin(j, "logs", {LifeOf(i)})

\* The lines are in: the rows of the id are replaced, in one transaction, by
\* those parsed, if any.
FetchEnd(j) ==
    /\ job[j] = "logs"
    /\ \E parsed \in SUBSET work[j] :
          logs' = RowsLeft(logs, {l[1] : l \in work[j]}) \cup parsed
    /\ Done(j)
    /\ UNCHANGED <<tableVars, usage, counters, live, target, retentionVars>>

\* GET /traffic-logs/live/{id}: any proxy, active or not.
PollBegin(j) ==
    \E i \in Present : Begin(j, "live", {LifeOf(i)})

PollEnd(j) ==
    /\ job[j] = "live"
    /\ \E l \in work[j] : live' = [live EXCEPT ![l[1]] = l[2]]
    /\ Done(j)
    /\ UNCHANGED <<tableVars, usage, logs, counters, target, retentionVars>>

\* The SSH command fails, or the transaction is rolled back.
JobFails(j) ==
    /\ job[j] \in {"logs", "live"}
    /\ Done(j)
    /\ UNCHANGED <<tableVars, keptVars, target, retentionVars>>

\* DELETE /traffic-logs/live/{id} resets the watch.
ResetLive ==
    /\ \E i \in Ids : live[i] # None /\ live' = [live EXCEPT ![i] = None]
    /\ UNCHANGED <<tableVars, usage, logs, counters, target, jobVars, retentionVars>>

-----------------------------------------------------------------------------
(* _periodic_retention, once an hour.                                      *)

\* enforce_resource_usage_retention: rows may be 90 days old.
RetainUsage ==
    /\ stage = "sleep" /\ stage' = "logs"
    /\ \E expired \in SUBSET usage : usage' = usage \ expired
    /\ UNCHANGED <<tableVars, logs, counters, live, target, jobVars, known>>

\* The rows of traffic_logs whose proxy is gone.  (Mutant: only old rows go.)
Orphans_None == {}
Orphans == {l \in logs : ~Exists(l[1])}

\* enforce_traffic_log_retention: rows 7 days old and orphans, in one
\* transaction.
RetainLogs ==
    /\ stage = "logs" /\ stage' = "ids"
    /\ \E expired \in SUBSET logs : logs' = logs \ (expired \cup Orphans)
    /\ UNCHANGED <<tableVars, usage, counters, live, target, jobVars, known>>

\* It fails and is rolled back; retention goes on.
RetainLogsFails ==
    /\ stage = "logs" /\ stage' = "ids"
    /\ UNCHANGED <<tableVars, keptVars, target, jobVars, known>>

ReadIds ==
    /\ stage = "ids" /\ stage' = "caches"
    /\ known' = Present
    /\ UNCHANGED <<tableVars, keptVars, target, jobVars>>

Cleaned(cache) == [i \in Ids |-> IF i \in known THEN cache[i] ELSE None]

\* cleanup_stale_caches and cleanup_live_state.
CleanCaches ==
    /\ stage = "caches" /\ stage' = "sleep"
    /\ counters' = Cleaned(counters)
    /\ live'     = Cleaned(live)
    /\ known'    = {}
    /\ UNCHANGED <<tableVars, usage, logs, target, jobVars>>

\* The query for the ids, or the maintenance after it, raises, or a dictionary
\* changes under the loop that cleans it: an hour later.
RetentionFails ==
    /\ stage \in {"ids", "caches"} /\ stage' = "sleep"
    /\ \/ counters' = counters
       \/ stage = "caches" /\ counters' = Cleaned(counters)
    /\ known' = {}
    /\ UNCHANGED <<tableVars, usage, logs, live, target, jobVars>>

-----------------------------------------------------------------------------

TableStep == Create \/ Update \/ Reset \/ \E r \in Requests : FindToDelete(r) \/ Delete(r) \/ DeleteFails(r)

JobStep(j) ==
    \/ CollectBegin(j) \/ CacheCounters(j) \/ CollectEnd(j)
    \/ FetchBegin(j) \/ FetchEnd(j) \/ PollBegin(j) \/ PollEnd(j) \/ JobFails(j)

RetentionStep ==
    \/ RetainUsage \/ RetainLogs \/ RetainLogsFails
    \/ ReadIds \/ CleanCaches \/ RetentionFails

Next == TableStep \/ ResetLive \/ RetentionStep \/ \E j \in Jobs : JobStep(j)

Spec == Init /\ [][Next]_vars

(***************************************************************************)
(* The retention task sleeps an hour and runs, for ever, whatever a run of *)
(* it raises.  Its failures are transient: a database that is always       *)
(* locked or full is not the subject of LeftoversGo.                       *)
(***************************************************************************)
FairSpec ==
    /\ Spec
    /\ WF_vars(RetentionStep)
    /\ SF_vars(RetainLogs) /\ SF_vars(ReadIds) /\ SF_vars(CleanCaches)

-----------------------------------------------------------------------------

(***************************************************************************)
(* A row is filed under the proxy it was read from, or else under the id   *)
(* of one that was deleted while a collection was still at work on it:     *)
(* deleting a proxy nobody works on leaves nothing for its id's next owner *)
(* (delete_proxy, reset_full_config, with no cascade to help).             *)
(***************************************************************************)
StrangersAreLate == \A l \in usage \cup logs : Alive(l) \/ l \in late

(***************************************************************************)
(* What is left under the id of a deleted proxy in traffic_logs and in the *)
(* process goes, though late collections add to it and the retention       *)
(* thread cleans from a list of ids it read before.                        *)
(***************************************************************************)
LeftUnder(i) == live[i] # None \/ counters[i] # None \/ \E l \in logs : l[1] = i
LeftoversGo  == \A i \in Ids : (~Exists(i) /\ LeftUnder(i)) ~> (Exists(i) \/ ~LeftUnder(i))
=============================================================================
