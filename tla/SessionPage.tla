----------------------------- MODULE SessionPage -----------------------------
(***************************************************************************)
(* The session page: what a load fetched is shown in a grid, kept in       *)
(* memory, and written to IndexedDB, from which a later visit or document  *)
(* fills its grid 100 ms after it was made, unless it is a day old.  The   *)
(* analysis is made of the records in memory; its CPU column is fetched    *)
(* when its tab is opened.  Loads, reads and writes of IndexedDB and the   *)
(* CPU fetch are all answered later, maybe on another page or visit.  Any  *)
(* of them can fail; the page then goes on with what it has.               *)
(***************************************************************************)
EXTENDS Naturals, Sequences

CONSTANTS
    MaxLoads,  \* bound on the loads
    MaxVisits, \* bound on the visits
    MaxActs    \* bound on the acts on the analysis

SessionAssumption == {MaxLoads, MaxActs} \subseteq Nat /\ MaxVisits \in Nat \ {0}

Loads == 1 .. MaxLoads
NoRecords == 0      \* no records: none loaded, or a load that found none

VARIABLES
    here,      \* the page is shown
    loading,   \* the load button spins, and takes no click
    loads,     \* loads without an answer
    records,   \* sb.records, as the load they came from
    grid,      \* the rows of the grid
    restore,   \* the timer of restoreState is set
    ops,       \* requests to IndexedDB, which serves them in this order
    read,      \* what a get has found, on its way to restoreState
    kept,      \* the records in IndexedDB
    stamp,     \* the timestamp in localStorage: none, fresh, or a day old
    analysis,  \* the records the analysis shows
    cpu,       \* the CPU column: the analysis it was filled for
    cpuFetched,\* sb._cpuFetched
    fetches,   \* CPU fetches under way, as the analysis they were made for
    made, visits, acts,
    newest,    \* history: the records of the last answer
    crossed,   \* history: an answer came while restoreState was reading
    torn,      \* history: the last answer was not written, for its document went
               \* before or IndexedDB failed, or it expired
    unread,    \* history: IndexedDB has failed to read since the grid was made
    late       \* history: a CPU fetch was under way when a new analysis was made

dataVars == <<records, grid, ops, read, kept, stamp, newest, crossed, torn, unread>>
pageVars == <<here, loading, loads, restore, made, visits>>
sbaVars == <<analysis, cpu, cpuFetched, fetches, late, acts>>
vars == <<dataVars, pageVars, sbaVars>>

Records == Loads \cup {NoRecords}
Ops == [put : Records] \cup [get : {TRUE}] \cup [delete : {TRUE}]

TypeOK ==
    /\ {here, loading, restore, cpuFetched, crossed, torn, unread, late} \subseteq BOOLEAN
    /\ loads \subseteq Loads
    /\ {records, grid, kept, analysis, cpu, newest} \subseteq Records
    /\ ops \in Seq(Ops) /\ read \in Seq(Records)
    /\ stamp \in {"none", "fresh", "old"}
    /\ fetches \subseteq Loads
    /\ made \in 0 .. MaxLoads /\ visits \in 1 .. MaxVisits /\ acts \in 0 .. MaxActs

Init ==
    /\ here = TRUE /\ loading = FALSE /\ loads = {} /\ records = NoRecords /\ grid = NoRecords
    /\ restore = TRUE /\ ops = << >> /\ read = << >> /\ kept = NoRecords /\ stamp = "none"
    /\ analysis = NoRecords /\ cpu = NoRecords /\ cpuFetched = FALSE /\ fetches = {}
    /\ made = 0 /\ visits = 1 /\ acts = 0
    /\ newest = NoRecords /\ crossed = FALSE /\ torn = FALSE /\ unread = FALSE
    /\ late = FALSE

Reading == read # << >> \/ \E i \in DOMAIN ops : "get" \in DOMAIN ops[i]
Writing == \E i \in DOMAIN ops : "put" \in DOMAIN ops[i]

-----------------------------------------------------------------------------
(* Loading.                                                                *)

loadSessions ==
    /\ here /\ ~loading /\ made < MaxLoads
    /\ made' = made + 1 /\ loads' = loads \cup {made'} /\ loading' = TRUE
    /\ UNCHANGED <<here, restore, visits, dataVars, sbaVars>>

\* (Mutant: an emptied list is not stored.)
Persists_SomethingOnly(r) == IF r = NoRecords THEN UNCHANGED ops
                             ELSE ops' = Append(ops, [put |-> r])

\* persistState up to its first await
Persists(r) == ops' = Append(ops, [put |-> r])

\* The answer takes the place of the records, whichever load it belongs to,
\* and stays in memory when the page is not shown.
LoadAnswered(n) ==
    /\ loads' = loads \ {n} /\ loading' = FALSE
    /\ \E got \in {n, NoRecords} :
          /\ records' = got /\ newest' = got
          /\ grid' = IF here THEN got ELSE grid
          /\ Persists(got)
    /\ crossed' = Reading /\ torn' = FALSE /\ unread' = FALSE
    /\ UNCHANGED <<here, restore, made, visits, read, kept, stamp, sbaVars>>

LoadFails(n) ==
    /\ loads' = loads \ {n} /\ loading' = FALSE
    /\ UNCHANGED <<here, restore, made, visits, dataVars, sbaVars>>

\* What IndexedDB keeps after a request.
Outcome(op) == CASE "put" \in DOMAIN op    -> op.put
                 [] "delete" \in DOMAIN op -> NoRecords
                 [] "get" \in DOMAIN op    -> kept

\* persistState goes on after its put and stamps, if localStorage takes it.
Stamps(op) == stamp' \in {stamp} \cup IF "put" \in DOMAIN op THEN {"fresh"} ELSE {}

\* IndexedDB serves the next request.
DbServes ==
    /\ ops # << >> /\ ops' = Tail(ops)
    /\ kept' = Outcome(Head(ops)) /\ Stamps(Head(ops))
    /\ read' = IF "get" \in DOMAIN Head(ops) THEN Append(read, kept) ELSE read
    /\ UNCHANGED <<records, grid, newest, crossed, torn, unread, pageVars, sbaVars>>

\* It rejects the request, which persistState or restoreState catches and
\* logs; or it takes a put and does not commit it.  What was kept stays.
DbFails ==
    /\ ops # << >> /\ ops' = Tail(ops)
    /\ Stamps(Head(ops))
    /\ torn' = (torn \/ ("put" \in DOMAIN Head(ops) /\ ~Writing'))
    /\ unread' = (unread \/ "get" \in DOMAIN Head(ops))
    /\ UNCHANGED <<records, grid, read, kept, newest, crossed, pageVars, sbaVars>>

-----------------------------------------------------------------------------
(* Restoring.                                                              *)

\* restoreState up to its await; an entry without a timestamp, which the
\* device selector writes, is not old.
RestoreTimer ==
    /\ restore /\ restore' = FALSE
    /\ ops' = Append(ops, IF stamp = "old" THEN [delete |-> TRUE] ELSE [get |-> TRUE])
    /\ torn' = (torn \/ stamp = "old")
    /\ UNCHANGED <<here, loading, loads, made, visits, records, grid, read, kept, stamp,
                   newest, crossed, unread, sbaVars>>

\* What was found takes the place of the records, if it is anything.
Restored ==
    /\ read # << >> /\ read' = Tail(read)
    /\ IF Head(read) = NoRecords THEN UNCHANGED <<records, grid>>
       ELSE records' = Head(read) /\ grid' = IF here THEN Head(read) ELSE grid
    /\ UNCHANGED <<ops, kept, stamp, newest, crossed, torn, unread, pageVars, sbaVars>>

Leave ==
    /\ here /\ here' = FALSE
    /\ UNCHANGED <<loading, loads, restore, made, visits, dataVars, sbaVars>>

\* initSessionBrowser on fresh content: initGrid makes an empty grid.
Return ==
    /\ ~here /\ here' = TRUE
    /\ visits < MaxVisits /\ visits' = visits + 1
    /\ loading' = FALSE /\ grid' = NoRecords /\ restore' = TRUE
    /\ analysis' = NoRecords /\ cpu' = NoRecords
    /\ crossed' = (crossed /\ Reading) /\ unread' = FALSE
    /\ UNCHANGED <<loads, made, records, ops, read, kept, stamp, newest, torn, cpuFetched,
                   fetches, late, acts>>

\* A new document: memory is gone; of what IndexedDB was asked for, what was
\* served last is there, not stamped.
Reload ==
    /\ visits < MaxVisits /\ visits' = visits + 1
    /\ here' = TRUE /\ loading' = FALSE /\ loads' = {} /\ restore' = TRUE
    /\ records' = NoRecords /\ grid' = NoRecords /\ ops' = << >> /\ read' = << >>
    /\ kept' \in {kept} \cup {Outcome(ops[i]) : i \in DOMAIN ops}
    /\ torn' = (torn \/ Writing) /\ crossed' = FALSE /\ unread' = FALSE
    /\ analysis' = NoRecords /\ cpu' = NoRecords /\ cpuFetched' = FALSE /\ fetches' = {}
    /\ late' = FALSE
    /\ UNCHANGED <<made, stamp, newest, acts>>

ADayPasses ==
    /\ stamp = "fresh" /\ stamp' = "old"
    /\ UNCHANGED <<records, grid, ops, read, kept, newest, crossed, torn, unread, pageVars,
                   sbaVars>>

-----------------------------------------------------------------------------
(* The analysis.                                                           *)

Act == here /\ acts < MaxActs /\ acts' = acts + 1

\* (Mutant: the CPU of the last analysis counts as fetched.)
AnalyzesAnew_KeepsFetched == UNCHANGED cpuFetched

\* analyzeSessions begins an empty CPU column.
AnalyzesAnew == cpuFetched' = FALSE

\* switchSbTab('analyze'); without records the former analysis stays.
Analyze ==
    /\ Act /\ records # NoRecords
    /\ analysis' = records /\ cpu' = NoRecords
    /\ AnalyzesAnew
    /\ late' = (fetches # {})
    /\ UNCHANGED <<fetches, pageVars, dataVars>>

\* switchSbaTab('cpu')
OpenCpu ==
    /\ Act /\ analysis # NoRecords /\ ~cpuFetched
    /\ fetches' = fetches \cup {analysis}
    /\ UNCHANGED <<analysis, cpu, cpuFetched, late, pageVars, dataVars>>

\* sbCpuRefreshBtn
RefreshCpu ==
    /\ Act /\ analysis # NoRecords
    /\ cpuFetched' = FALSE /\ fetches' = fetches \cup {analysis}
    /\ UNCHANGED <<analysis, cpu, late, pageVars, dataVars>>

\* The cells of the analysis that is there now are filled with the answer.
CpuAnswered(n) ==
    /\ fetches' = fetches \ {n}
    /\ \/ cpu' = (IF analysis = NoRecords THEN NoRecords ELSE n) /\ cpuFetched' = TRUE
       \/ UNCHANGED <<cpu, cpuFetched>>
    /\ UNCHANGED <<analysis, late, acts, pageVars, dataVars>>

Next ==
    \/ loadSessions
    \/ \E n \in loads : LoadAnswered(n) \/ LoadFails(n)
    \/ DbServes \/ DbFails \/ RestoreTimer \/ Restored
    \/ Leave \/ Return \/ Reload \/ ADayPasses
    \/ Analyze \/ OpenCpu \/ RefreshCpu
    \/ \E n \in fetches : CpuAnswered(n)

Spec == Init /\ [][Next]_vars

-----------------------------------------------------------------------------
(***************************************************************************)
(* When nothing is under way IndexedDB keeps the records of the last       *)
(* answer, an empty answer included, and the grid shows them on every      *)
(* visit and in every document; or nothing, where IndexedDB could not read *)
(* them.  Excused: an answer that came while older records were being      *)
(* restored, and records that expired or were not written, for IndexedDB   *)
(* failed or their document went before: then older ones may come back.    *)
(***************************************************************************)
ListIsKept ==
    here /\ ~restore /\ ops = << >> /\ read = << >> /\ ~crossed /\ ~torn =>
        kept = newest /\ (grid = newest \/ (unread /\ grid = NoRecords))

(***************************************************************************)
(* A CPU column taken for fetched, which opening its tab does not fetch    *)
(* again, is that of the analysis shown; unless the analysis was made anew *)
(* while a fetch for the former one was under way.                         *)
(***************************************************************************)
CpuIsOfAnalysis ==
    here /\ cpuFetched /\ analysis # NoRecords /\ ~late => cpu = analysis
=============================================================================
