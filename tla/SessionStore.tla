---------------------------- MODULE SessionStore ----------------------------
(***************************************************************************)
(* The session browser's store: app/storage/temp_store.py and the handlers *)
(* of session_browser.py that use it.  Every collection writes a file per  *)
(* proxy, named by its second, then the name of that file into "latest",   *)
(* and at last removes all but the newest file of every proxy.  A row is   *)
(* shown with a number that packs proxy, second and line; the detail view  *)
(* finds the row again by that number.                                     *)
(*                                                                         *)
(* The handlers are coroutines without an await: nothing runs between the  *)
(* steps of a collection, but a write may fail and the process may die.    *)
(* The clock does not go back.                                             *)
(***************************************************************************)
EXTENDS Integers, FiniteSets, FiniteSetsExt

CONSTANTS
    Proxies,     \* ids of proxies
    MaxTime,     \* bound on the clock, in seconds
    MaxRows,     \* bound on the rows a proxy answers
    MaxBatches,  \* bound on the collections
    IndexSize,   \* 2^12: line numbers a record id has room for
    TimeSize,    \* 2^32: seconds it has room for
    ProxySize    \* 2^20: proxies it has room for

SizesAssumption ==
    /\ Proxies \subseteq Nat /\ MaxTime \in Nat /\ MaxRows \in Nat /\ MaxBatches \in Nat
    /\ IndexSize \in Nat \ {0} /\ TimeSize \in Nat \ {0} /\ ProxySize \in Nat \ {0}

Seconds == 0 .. MaxTime
NoTime  == -1
\* A file of "rows" lines written by collection "batch".
NoFile  == [batch |-> 0, rows |-> 0]
Files   == [batch : 0 .. MaxBatches, rows : 0 .. MaxRows]
NoRow   == <<0, 0>>
NoHeld  == [id |-> 0, proxy |-> 0, row |-> NoRow]

VARIABLES
    now,       \* the clock
    files,     \* the batch files of each proxy, by second
    latest,    \* the second named in each "latest" file, or NoTime
    cache,     \* _session_cache: a file and its second
    batch,     \* the number of the collection
    answers,   \* the batches the running collection has yet to write
    stage,     \* "idle", "write" or "cleanup"
    held,      \* a row the user was shown, with its record id
    newest,    \* history: the file of each proxy's last successful write
    torn,      \* history: the proxies whose last write failed half-way
    unlinked   \* history: those whose "latest" failed, until a cleanup (unless
               \* the cache was filled before it)

vars == <<now, files, latest, cache, batch, answers, stage, held, newest, torn, unlinked>>
diskVars == <<files, latest>>
historyVars == <<newest, torn, unlinked>>

-----------------------------------------------------------------------------
(* Record ids.                                                             *)

RecordId(p, second, line) ==
    ((p % ProxySize) * TimeSize + (second % TimeSize)) * IndexSize + (line % IndexSize)

LineOf(id)   == id % IndexSize
SecondOf(id) == (id \div IndexSize) % TimeSize
ProxyOf(id)  == id \div (IndexSize * TimeSize)

\* Row "line" of a file, as read_item_by_id finds it.
RowOf(file, line) == IF line < file.rows THEN <<file.batch, line>> ELSE NoRow

Item(id) ==
    IF ProxyOf(id) \in Proxies /\ SecondOf(id) \in Seconds
    THEN RowOf(files[ProxyOf(id)][SecondOf(id)], LineOf(id)) ELSE NoRow

-----------------------------------------------------------------------------
(* The files.                                                              *)

\* (Mutant: a file is taken to be there.)
StoredTimes_Unchecked(p) == Seconds
StoredTimes(p) == {s \in Seconds : files[p][s] # NoFile}

\* read_latest: the file "latest" names, or the newest there is.
LatestOf(p) ==
    IF latest[p] \in StoredTimes(p) THEN latest[p]
    ELSE IF StoredTimes(p) # {} THEN Max(StoredTimes(p)) ELSE NoTime

\* The files of a proxy cleanup_old_batches(1) keeps.  (Mutant: those of the
\* second it runs in, as if every proxy had been collected.)
Kept_OfNow(p) == StoredTimes(p) \cap {now}
Kept(p) == {s \in StoredTimes(p) : \A u \in StoredTimes(p) : u <= s}

NotCached == [at |-> NoTime - 1, file |-> NoFile]
NoView == [at |-> NoTime, file |-> NoFile]
LatestView(p) ==
    IF LatestOf(p) = NoTime THEN NoView
    ELSE [at |-> LatestOf(p), file |-> files[p][LatestOf(p)]]

\* What the tables show: the cached rows, or the latest file's.
Shown(p) == IF cache[p] # NotCached THEN cache[p] ELSE LatestView(p)

TypeOK ==
    /\ now \in Seconds
    /\ files \in [Proxies -> [Seconds -> Files]]
    /\ latest \in [Proxies -> Seconds \cup {NoTime}]
    /\ cache \in [Proxies -> {NotCached, NoView} \cup [at : Seconds, file : Files \ {NoFile}]]
    /\ batch \in 0 .. MaxBatches
    /\ answers \in [Proxies -> Files]
    /\ stage \in {"idle", "write", "cleanup"}
    /\ held \in {NoHeld} \cup [id : Nat, proxy : Proxies, row : (1 .. MaxBatches) \X (0 .. MaxRows)]
    /\ newest \in [Proxies -> Files]
    /\ torn \subseteq Proxies /\ unlinked \subseteq Proxies

Init ==
    /\ now = 0 /\ batch = 0 /\ stage = "idle" /\ held = NoHeld
    /\ files = [p \in Proxies |-> [s \in Seconds |-> NoFile]]
    /\ latest = [p \in Proxies |-> NoTime]
    /\ cache = [p \in Proxies |-> NotCached]
    /\ answers = [p \in Proxies |-> NoFile]
    /\ newest = [p \in Proxies |-> NoFile]
    /\ torn = {} /\ unlinked = {}

-----------------------------------------------------------------------------
(* collect_sessions.                                                       *)

\* Some proxies answer, each with so many rows; the others are errors.
Collect ==
    /\ stage = "idle" /\ batch < MaxBatches
    /\ batch' = batch + 1
    /\ \E ps \in SUBSET Proxies : \E n \in [ps -> 0 .. MaxRows] :
          answers' = [p \in Proxies |-> IF p \in ps THEN [batch |-> batch + 1, rows |-> n[p]]
                                        ELSE NoFile]
    /\ stage' = "write"
    /\ UNCHANGED <<now, diskVars, cache, held, historyVars>>

ToWrite == {p \in Proxies : answers[p] # NoFile}
Wrote(p) == answers' = [answers EXCEPT ![p] = NoFile]
Put(p, file) == files' = [files EXCEPT ![p][now] = file]

\* (Mutant: the cache is left to its TTL.)
Invalidate_Not(p) == UNCHANGED cache
Invalidate(p) == cache' = [cache EXCEPT ![p] = NotCached]

\* write_batch: the file and its name in "latest"; then the cache.  An error
\* on "latest" is passed over: it is as it was, or empty.
WriteBatch(p) ==
    /\ stage = "write" /\ p \in ToWrite
    /\ Put(p, answers[p])
    /\ \/ latest' = [latest EXCEPT ![p] = now] /\ unlinked' = unlinked \ {p}
       \/ /\ latest' \in {latest, [latest EXCEPT ![p] = NoTime]}
          /\ unlinked' = unlinked \cup {p}
    /\ newest' = [newest EXCEPT ![p] = answers[p]]
    /\ torn' = torn \ {p}
    /\ Invalidate(p)
    /\ Wrote(p)
    /\ UNCHANGED <<now, batch, stage, held>>

\* The disk is full: only some of the rows are in the file.
WriteFails(p) ==
    /\ stage = "write" /\ p \in ToWrite
    /\ \E n \in 0 .. answers[p].rows : Put(p, [answers[p] EXCEPT !.rows = n])
    /\ torn' = torn \cup {p}
    /\ Wrote(p)
    /\ UNCHANGED <<now, latest, cache, batch, stage, held, newest, unlinked>>

\* Every proxy that answered is done with.
EndWrites ==
    /\ stage = "write" /\ ToWrite = {}
    /\ stage' = "cleanup"
    /\ UNCHANGED <<now, diskVars, cache, batch, answers, held, historyVars>>

\* cleanup_old_batches(retain_per_proxy=1), for every proxy there is.
Cleanup ==
    /\ stage = "cleanup"
    /\ files' = [p \in Proxies |->
                   [s \in Seconds |-> IF s \in Kept(p) THEN files[p][s] ELSE NoFile]]
    /\ unlinked' = {p \in unlinked : cache[p] # NotCached}
    /\ stage' = "idle"
    /\ UNCHANGED <<now, latest, cache, batch, answers, held, newest, torn>>

-----------------------------------------------------------------------------
(* The tables and the detail view.                                         *)

\* list_sessions, latest_sessions: the files, and a row of them is kept on
\* the screen with its id.
Hold(p, view) ==
    \E line \in 0 .. MaxRows :
        /\ line < view.file.rows
        /\ held' = [id |-> RecordId(p, view.at, line), proxy |-> p,
                    row |-> <<view.file.batch, line>>]

List(p) ==
    /\ stage = "idle" /\ Hold(p, LatestView(p))
    /\ UNCHANGED <<now, diskVars, cache, batch, answers, stage, historyVars>>

\* The data tables, the export and the analysis go by the cache, and fill it,
\* with no rows when there is no file.
Load(p) ==
    /\ stage = "idle"
    /\ cache' = [cache EXCEPT ![p] = Shown(p)]
    /\ Hold(p, Shown(p)) \/ UNCHANGED held
    /\ UNCHANGED <<now, diskVars, batch, answers, stage, historyVars>>

\* The entry's TTL is over.
Expire(p) ==
    /\ stage = "idle" /\ cache[p] # NotCached
    /\ cache' = [cache EXCEPT ![p] = NotCached]
    /\ UNCHANGED <<now, diskVars, batch, answers, stage, held, historyVars>>

Tick ==
    /\ stage = "idle" /\ now < MaxTime
    /\ now' = now + 1
    /\ UNCHANGED <<diskVars, cache, batch, answers, stage, held, historyVars>>

\* The process dies and is started again: the files are as they are, and a
\* file that was being written is cut short.
Crash ==
    /\ cache' = [p \in Proxies |-> NotCached]
    /\ answers' = [p \in Proxies |-> NoFile]
    /\ stage' = "idle"
    /\ UNCHANGED <<now, diskVars, batch, held, historyVars>>

Next ==
    \/ Collect \/ EndWrites \/ Cleanup \/ Tick \/ Crash
    \/ \E p \in Proxies : WriteBatch(p) \/ WriteFails(p) \/ List(p) \/ Load(p) \/ Expire(p)

Spec == Init /\ [][Next]_vars

-----------------------------------------------------------------------------

(***************************************************************************)
(* The tables show what was collected last: cache, "latest" and cleanup    *)
(* agree on it, whatever fails or dies for the other proxies.  Excepted    *)
(* are a proxy whose own last write failed, and one whose "latest" could   *)
(* not be written until the next cleanup, or until its next collection if  *)
(* the cache was filled from the old file in between.                      *)
(***************************************************************************)
NewestIsShown ==
    stage = "idle" => \A p \in Proxies \ (torn \cup unlinked) : Shown(p).file = newest[p]

(***************************************************************************)
(* The detail view opens the row that was clicked as long as the proxy has *)
(* not been collected again: no cleanup for another proxy's sake removes   *)
(* it, and the id leads back to it (read_item_by_id after build_record_id).*)
(* It holds for lines below IndexSize: see RecordIdsAreStable.             *)
(***************************************************************************)
DetailsOpen ==
    \A p \in Proxies \ torn :
        (stage = "idle" /\ held.proxy = p /\ held.row # NoRow
            /\ held.row[1] = newest[p].batch /\ held.row[2] < IndexSize)
        => Item(held.id) = held.row

(***************************************************************************)
(* "build stable numeric id: proxy + collected_at + line index": an id     *)
(* never opens another row than the one it was made for.                   *)
(***************************************************************************)
RecordIdsAreStable ==
    (stage = "idle" /\ held.row # NoRow) => Item(held.id) \in {held.row, NoRow}
=============================================================================
