----------------------------- MODULE UsageTable -----------------------------
(***************************************************************************)
(* The table of the usage page: every completed collection makes the page  *)
(* fetch the newest row of each selected proxy (ResourceUsagePolling) and  *)
(* hand them to the table (ResourceUsageHeatmap) and to the series behind  *)
(* the sparklines (bufferAppendBatch).  Answers overlap, updateTable waits *)
(* 100 ms for a newer batch, and everything is drawn in animation frames,  *)
(* which a hidden tab does not get.  Meanwhile the user selects other      *)
(* proxies, leaves the page and comes back.                                *)
(***************************************************************************)
EXTENDS Integers, Sequences, FiniteSets, SequencesExt

CONSTANTS
    Proxies,
    bufferMaxPoints,  \* points kept of a series (600)
    Window,           \* bufferWindowMs, in collections
    MaxTime,          \* collections are told apart up to this one
    MaxPolls,         \* bound on the fetches in flight
    MaxFrames,        \* bound on the animation frames asked for
    MaxActs           \* bound on the acts of the user and on lost requests

TableAssumption ==
    /\ {bufferMaxPoints, MaxTime} \subseteq Nat \ {0}
    /\ {Window, MaxPolls, MaxFrames, MaxActs} \subseteq Nat

Times == 0 .. MaxTime

\* Rows are told apart by their proxy and the collection they come from.
RowSets == UNION {[D -> Times \ {0}] : D \in SUBSET Proxies}
NoRows == << >>
IsEmpty(rows) == DOMAIN rows = {}

VARIABLES
    clock,      \* the server: collections so far
    latest,     \* the collection each proxy's newest row is from, 0 for none
    here,       \* the usage page is the one shown
    visible,    \* document.visibilityState
    selection,  \* the selected proxies, as they are stored
    restoring,  \* what each initResourceUsage under way has read of the saved table
    polls,      \* fetches in flight: what they ask for, and what was newest then
    frames,     \* callbacks waiting for an animation frame
    pending,    \* pendingUpdate, NoRows for null
    timer,      \* updateTimeout is set
    isUpdating,
    skeleton,   \* the timer of a change of group is set
    lastData,   \* ru.lastData
    saved,      \* ru_heatmap_v1
    cells,      \* the rows in the table, NoRows where cells are blank
    rowKey,     \* el._lastProxyKey
    wrap,       \* ruHeatmapWrap is shown
    buffer,     \* ru.tsBuffer, as the times of the points
    acts        \* counter of the bound

drawVars == <<pending, timer, isUpdating, frames>>
tableVars == <<lastData, saved, cells, rowKey, wrap>>
userVars == <<here, visible, selection, restoring, skeleton, acts>>
vars == <<clock, latest, polls, drawVars, tableVars, userVars, buffer>>

Polls == [from : [Proxies -> Times], ids : SUBSET Proxies]
Frames == [do : {"completed", "resync", "draw"}, rows : RowSets]

TypeOK ==
    /\ clock \in Times /\ latest \in [Proxies -> Times]
    /\ here \in BOOLEAN /\ visible \in BOOLEAN /\ selection \subseteq Proxies
    /\ restoring \subseteq RowSets
    /\ polls \subseteq Polls
    /\ frames \in Seq(Frames)
    /\ {pending, lastData, saved, cells} \subseteq RowSets
    /\ timer \in BOOLEAN /\ isUpdating \in BOOLEAN /\ skeleton \in BOOLEAN
    /\ rowKey \subseteq Proxies /\ wrap \in BOOLEAN
    /\ buffer \in [Proxies -> Seq(Times)]
    /\ \A p \in Proxies : Len(buffer[p]) <= bufferMaxPoints
    /\ acts \in 0 .. MaxActs

Init ==
    /\ clock = 1 /\ latest = [p \in Proxies |-> 1]
    /\ here = TRUE /\ visible = TRUE /\ selection = Proxies
    /\ restoring = {} /\ polls = {} /\ frames = << >> /\ pending = NoRows /\ timer = FALSE
    /\ isUpdating = FALSE /\ skeleton = FALSE
    /\ lastData = NoRows /\ saved = NoRows /\ cells = NoRows /\ rowKey = {}
    /\ wrap = FALSE /\ buffer = [p \in Proxies |-> << >>]
    /\ acts = 0

\* Before the selector of a visit has its lists, nothing is selected in it.
Selected == IF restoring = {} THEN selection ELSE {}

-----------------------------------------------------------------------------
(* Polling.                                                                *)

\* registerPageCallback: the proxies are those selected at this moment.
Completed ==
    /\ clock' = IF clock < MaxTime THEN clock + 1 ELSE clock
    /\ \E failed \in SUBSET Proxies :
          /\ failed # Proxies
          /\ latest' = [p \in Proxies |-> IF p \in failed THEN latest[p] ELSE clock']
    /\ IF here /\ Selected # {}
       THEN /\ Cardinality(polls) < MaxPolls
            /\ polls' = polls \cup {[from |-> latest', ids |-> Selected]}
       ELSE UNCHANGED polls
    /\ UNCHANGED <<drawVars, tableVars, userVars, buffer>>

\* fetchLatestForProxies: one request per proxy, each read when it is served.
RowsOf(q, answered) ==
    {rows \in [answered -> Times] :
        \A p \in answered : rows[p] \in q.from[p] .. latest[p]}

Received(q, answered, what) ==
    /\ polls' = polls \ {q}
    /\ \E rows \in RowsOf(q, answered) :
          frames' = IF IsEmpty(rows) THEN frames
                    ELSE Append(frames, [do |-> what, rows |-> rows])
    /\ Len(frames) < MaxFrames
    /\ UNCHANGED <<clock, latest, pending, timer, isUpdating, tableVars, buffer>>

Receive(q) == Received(q, q.ids, "completed") /\ UNCHANGED userVars

\* Requests that fail are left out of the batch.
ReceiveSome(q) ==
    /\ acts < MaxActs /\ acts' = acts + 1
    /\ \E answered \in SUBSET q.ids : Received(q, answered, "completed")
    /\ UNCHANGED <<here, visible, selection, restoring, skeleton>>

-----------------------------------------------------------------------------
(* The series.                                                             *)

\* (Mutant: the oldest stays.)
Pushed_Unlimited(s, t) == IF s # << >> /\ Last(s) = t THEN s ELSE Append(s, t)

\* A point replaces one of the same second, and the oldest gives way.
Pushed(s, t) ==
    LET added == IF s # << >> /\ Last(s) = t THEN s ELSE Append(s, t)
    IN IF Len(added) > bufferMaxPoints THEN Tail(added) ELSE added

\* The points from the cutoff on.
Since(s, cutoff) ==
    LET kept[n \in 0 .. Len(s)] ==
            IF n = 0 THEN << >>
            ELSE IF s[n] >= cutoff THEN Append(kept[n - 1], s[n]) ELSE kept[n - 1]
    IN kept[Len(s)]

\* Old points go from the proxies of the batch; the series of another goes
\* as a whole once its last point is old.
bufferAppendBatch(rows) ==
    LET cutoff == clock - Window IN
    buffer' = [p \in Proxies |->
                 IF p \in DOMAIN rows
                 THEN Since(Pushed(buffer[p], rows[p]), cutoff)
                 ELSE IF buffer[p] # << >> /\ Last(buffer[p]) < cutoff THEN << >>
                 ELSE buffer[p]]

-----------------------------------------------------------------------------
(* The table.                                                              *)

updateTable(rows) == pending' = rows /\ timer' = TRUE

\* While a frame is awaited the batch stays pending, with no timer to draw it.
UpdateTimer ==
    /\ timer /\ timer' = FALSE
    /\ IF pending # NoRows /\ ~isUpdating
       THEN /\ isUpdating' = TRUE /\ pending' = NoRows
            /\ frames' = Append(frames, [do |-> "draw", rows |-> pending])
       ELSE UNCHANGED <<isUpdating, pending, frames>>
    /\ UNCHANGED <<clock, latest, polls, tableVars, userVars, buffer>>

\* patchCells finds the cells it fills by the proxies of the table built last.
patchCells(rows) ==
    /\ cells' = [p \in DOMAIN cells |-> rows[p]]
    /\ UNCHANGED rowKey

buildTable(rows) == cells' = rows /\ rowKey' = DOMAIN rows

\* (Mutant: the data is kept only when the rows change.)
doUpdate_PatchesOnly(rows) ==
    /\ lastData' = IF here /\ rowKey = DOMAIN rows THEN lastData ELSE rows
    /\ IF ~here THEN UNCHANGED <<saved, cells, rowKey, wrap>>
       ELSE /\ wrap' = TRUE /\ saved' = rows
            /\ IF rowKey = DOMAIN rows THEN patchCells(rows) ELSE buildTable(rows)

doUpdate(rows) ==
    /\ lastData' = rows
    /\ IF ~here THEN UNCHANGED <<saved, cells, rowKey, wrap>>
       ELSE /\ wrap' = TRUE /\ saved' = rows
            /\ IF rowKey = DOMAIN rows THEN patchCells(rows) ELSE buildTable(rows)

Frame ==
    /\ visible /\ frames # << >>
    /\ LET f == Head(frames) IN
       /\ frames' = Tail(frames)
       /\ IF f.do = "draw"
          THEN /\ doUpdate(f.rows) /\ isUpdating' = FALSE
               /\ UNCHANGED <<pending, timer, buffer>>
          ELSE /\ updateTable(f.rows)
               /\ IF f.do = "completed" THEN bufferAppendBatch(f.rows)
                  ELSE UNCHANGED buffer
               /\ UNCHANGED <<tableVars, isUpdating>>
    /\ UNCHANGED <<clock, latest, polls, userVars>>

-----------------------------------------------------------------------------
(* The user.                                                               *)

Acts == acts < MaxActs /\ acts' = acts + 1

\* (Mutant: the key of the rows outlives their cells.)
showSkeleton_KeepsKey(selected) ==
    /\ UNCHANGED rowKey
    /\ IF selected = {} THEN wrap' = FALSE /\ UNCHANGED cells
       ELSE wrap' = TRUE /\ cells' = NoRows

\* The blank table has no cells to patch: the next batch must build it anew.
showSkeleton(selected) ==
    IF selected = {} THEN wrap' = FALSE /\ UNCHANGED <<cells, rowKey>>
    ELSE wrap' = TRUE /\ cells' = NoRows /\ rowKey' = {}

SelectProxies(S) ==
    /\ here /\ restoring = {} /\ Acts /\ selection' = S
    /\ showSkeleton(S)
    /\ UNCHANGED <<clock, latest, polls, drawVars, lastData, saved, buffer,
                   here, visible, restoring, skeleton>>

\* The group's change handler; DeviceSelector selects the proxies of the new
\* group, which blanks the table if there are any.
ChangeGroup(S) ==
    /\ here /\ restoring = {} /\ Acts /\ selection' = S
    /\ lastData' = NoRows /\ skeleton' = TRUE
    /\ IF S = {} THEN UNCHANGED <<wrap, cells, rowKey>> ELSE showSkeleton(S)
    /\ UNCHANGED <<clock, latest, polls, drawVars, saved, buffer, here, visible, restoring>>

SkeletonTimer ==
    /\ skeleton /\ skeleton' = FALSE
    /\ IF here THEN showSkeleton(Selected) ELSE UNCHANGED <<wrap, cells, rowKey>>
    /\ UNCHANGED <<clock, latest, polls, drawVars, lastData, saved, buffer,
                   here, visible, selection, restoring, acts>>

Leave ==
    /\ here /\ Acts /\ here' = FALSE
    /\ wrap' = FALSE /\ cells' = NoRows /\ rowKey' = {}
    /\ UNCHANGED <<clock, latest, polls, drawVars, lastData, saved, buffer,
                   visible, selection, restoring, skeleton>>

\* initResourceUsage: the series start anew, and what was saved of the table
\* is kept for the time when the selector is there.
Return ==
    /\ ~here /\ here' = TRUE
    /\ buffer' = [p \in Proxies |-> << >>]
    /\ lastData' = saved /\ restoring' = restoring \cup {saved}
    /\ UNCHANGED <<clock, latest, polls, drawVars, saved, cells, rowKey, wrap, visible,
                   selection, skeleton, acts>>

\* restoreState when the selector has its lists: the group's change handler
\* empties lastData once more, then the stored proxies are selected, none of
\* them if their list could not be had.  The saved table follows in a frame.
Restore(rows) ==
    /\ restoring' = restoring \ {rows}
    /\ IF here
       THEN /\ selection' \in {selection, {}} /\ showSkeleton(selection')
            /\ lastData' = NoRows /\ skeleton' = TRUE
       ELSE UNCHANGED <<selection, skeleton, lastData, cells, rowKey, wrap>>
    /\ frames' = IF IsEmpty(rows) THEN frames
                 ELSE Append(frames, [do |-> "resync", rows |-> rows])
    /\ UNCHANGED <<clock, latest, polls, pending, timer, isUpdating, saved, buffer, here,
                   visible, acts>>

\* resyncDataOnPageReturn after half a minute away, or on coming back.
Resync ==
    /\ here /\ visible /\ Selected # {} /\ Acts
    /\ Cardinality(polls) < MaxPolls
    /\ polls' = polls \cup {[from |-> latest, ids |-> Selected]}
    /\ UNCHANGED <<clock, latest, drawVars, tableVars, buffer, here, visible,
                   selection, restoring, skeleton>>

Hidden ==
    /\ visible /\ Acts /\ visible' = FALSE
    /\ UNCHANGED <<clock, latest, polls, drawVars, tableVars, buffer, here,
                   selection, restoring, skeleton>>

Shown ==
    /\ ~visible /\ visible' = TRUE
    /\ UNCHANGED <<clock, latest, polls, drawVars, tableVars, buffer, here,
                   selection, restoring, skeleton, acts>>

\* What a click on a row, and the copy button, show of a table: both read
\* lastData, not the cells.
openProxyDetail(p) == [x \in DOMAIN lastData \cap {p} |-> lastData[x]]
copyCurrentValues == lastData

Next ==
    \/ Completed \/ \E q \in polls : Receive(q) \/ ReceiveSome(q)
    \/ UpdateTimer \/ Frame \/ SkeletonTimer
    \/ \E S \in SUBSET Proxies : SelectProxies(S) \/ ChangeGroup(S)
    \/ Leave \/ Return \/ (\E rows \in restoring : Restore(rows)) \/ Resync \/ Hidden \/ Shown

(***************************************************************************)
(* Collections go on, requests are answered, those of the selector too,    *)
(* timers fire, and a visible tab gets its frames.                         *)
(***************************************************************************)
Fairness ==
    /\ WF_vars(Completed) /\ WF_vars(\E q \in polls : Receive(q))
    /\ WF_vars(\E rows \in restoring : Restore(rows))
    /\ WF_vars(UpdateTimer) /\ WF_vars(SkeletonTimer) /\ WF_vars(Frame)

Spec == Init /\ [][Next]_vars /\ Fairness

-----------------------------------------------------------------------------
(***************************************************************************)
(* While collections go on, the table of a page that is open and visible   *)
(* comes to show the proxies selected, and no others for good, whatever    *)
(* was in flight when they were chosen: answers for the former selection,  *)
(* a batch that waited for a frame in a hidden tab, a table that was blank.*)
(***************************************************************************)
TableFollowsSelection ==
    \A S \in SUBSET Proxies \ {{}} :
        <>[](here /\ visible /\ selection = S) => <>[](wrap /\ DOMAIN cells = S)

(***************************************************************************)
(* The details and the copy taken from a table that shows rows are of the  *)
(* rows shown, or empty after a change of group, though they are read from *)
(* lastData and the table is patched in place.                             *)
(***************************************************************************)
TakesWhatIsShown ==
    ~IsEmpty(cells) =>
        /\ copyCurrentValues \in {NoRows, cells}
        /\ \A p \in DOMAIN cells :
              IsEmpty(openProxyDetail(p)) \/ openProxyDetail(p)[p] = cells[p]
=============================================================================
