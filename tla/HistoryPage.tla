---------------------------- MODULE HistoryPage -----------------------------
(***************************************************************************)
(* The history page: searches and deletions of resource records.  Neither  *)
(* is ordered or cancelled, and their answers may come on a later visit.   *)
(***************************************************************************)
EXTENDS Naturals, FiniteSets

CONSTANTS
    Proxies,
    MaxSearches, \* bound on the searches
    MaxDeletes,  \* bound on the deletions
    MaxActs      \* bound on the other acts of the user

HistoryAssumption == {MaxSearches, MaxDeletes, MaxActs} \subseteq Nat

VARIABLES
    records,   \* the server: the proxies with records in the time searched
    visit,     \* visits of the page so far
    searches,  \* searches without an answer
    results,   \* ruHistoryResults is shown
    lastData,  \* history.lastData, as the proxies of its records
    deletes,   \* deletions without an answer
    modal,     \* the dialog of the deletion is open
    enhanced,  \* its select of proxies has been made a TomSelect
    found,     \* searches so far
    removed,   \* deletions so far
    crossed,   \* history: a search was under way when its records were deleted
    unheard,   \* history: a deletion was made and failed for the page
    acts

vars == <<records, visit, searches, results, lastData, deletes, modal, enhanced, found,
          removed, crossed, unheard, acts>>

TypeOK ==
    /\ {records, lastData} \subseteq SUBSET Proxies
    /\ {results, modal, enhanced, crossed, unheard} \subseteq BOOLEAN
    /\ searches \subseteq [id : 1 .. MaxSearches, of : SUBSET Proxies, read : BOOLEAN,
                           rows : SUBSET Proxies]
    /\ deletes \subseteq [id : 1 .. MaxDeletes, of : SUBSET Proxies, done : BOOLEAN]
    /\ found \in 0 .. MaxSearches /\ removed \in 0 .. MaxDeletes
    /\ acts \in 0 .. MaxActs /\ visit \in 1 .. 1 + MaxActs

Init ==
    /\ records = Proxies /\ visit = 1
    /\ searches = {} /\ results = FALSE /\ lastData = {} /\ deletes = {} /\ modal = FALSE
    /\ enhanced = FALSE
    /\ found = 0 /\ removed = 0 /\ crossed = FALSE /\ unheard = FALSE /\ acts = 0

Act == acts < MaxActs /\ acts' = acts + 1

\* initResourceHistory on fresh content; lastData outlives the visit.
Visit ==
    /\ Act /\ visit' = visit + 1
    /\ results' = FALSE /\ modal' = FALSE /\ enhanced' = FALSE
    /\ UNCHANGED <<records, searches, lastData, deletes, found, removed, crossed, unheard>>

\* searchHistory, loadHistoryData
searchHistory(S) ==
    /\ S # {}
    /\ found < MaxSearches /\ found' = found + 1
    /\ searches' = searches \cup {[id |-> found', of |-> S, read |-> FALSE, rows |-> {}]}
    /\ results' = FALSE
    /\ crossed' = (crossed /\ searches # {})
    /\ UNCHANGED <<records, lastData, deletes, modal, enhanced, removed, unheard, visit, acts>>

\* GET /history reads the records of the proxies searched.
SearchServed(s) ==
    /\ ~s.read
    /\ searches' = (searches \ {s}) \cup {[s EXCEPT !.read = TRUE, !.rows = s.of \cap records]}
    /\ UNCHANGED <<records, results, lastData, deletes, modal, enhanced, found, removed, crossed,
                   unheard, visit, acts>>

\* displayHistoryResults; without rows there is an error, and lastData stays.
SearchAnswered(s) ==
    /\ s.read /\ searches' = searches \ {s}
    /\ IF s.rows = {} THEN UNCHANGED <<results, lastData>>
       ELSE results' = TRUE /\ lastData' = s.rows
    /\ UNCHANGED <<records, deletes, modal, enhanced, found, removed, crossed, unheard, visit, acts>>

SearchFails(s) ==
    /\ searches' = searches \ {s}
    /\ UNCHANGED <<records, results, lastData, deletes, modal, enhanced, found, removed, crossed,
                   unheard, visit, acts>>

\* The button of the deletion.  A second time on a visit TomSelect refuses a
\* select that it has, which is looked for under another name, and the handler
\* ends before the dialog opens.
OpenModal ==
    /\ Act /\ ~enhanced
    /\ modal' = TRUE /\ enhanced' = TRUE
    /\ UNCHANGED <<records, searches, results, lastData, deletes, found, removed, crossed,
                   unheard, visit>>

closeModal ==
    /\ Act /\ modal /\ modal' = FALSE
    /\ UNCHANGED <<records, searches, results, lastData, deletes, enhanced, found, removed,
                   crossed, unheard, visit>>

\* deleteHistory: of one proxy, or of all.
deleteHistory(S) ==
    /\ modal /\ removed < MaxDeletes /\ removed' = removed + 1
    /\ S = Proxies \/ Cardinality(S) = 1
    /\ deletes' = deletes \cup {[id |-> removed', of |-> S, done |-> FALSE]}
    /\ UNCHANGED <<records, searches, results, lastData, modal, enhanced, found, crossed, unheard,
                   visit, acts>>

DeleteServed(d) ==
    /\ ~d.done
    /\ deletes' = (deletes \ {d}) \cup {[d EXCEPT !.done = TRUE]}
    /\ records' = records \ d.of
    /\ crossed' = (crossed \/ searches # {})
    /\ UNCHANGED <<searches, results, lastData, modal, enhanced, found, removed, unheard, visit, acts>>

\* (Mutant: the results stay.)
DeleteAnswered_KeepsResults == modal' = FALSE /\ UNCHANGED results

\* The dialog is closed and the results, which may be gone, are hidden.
DeleteIsShown == modal' = FALSE /\ results' = FALSE

DeleteAnswered(d) ==
    /\ d.done /\ deletes' = deletes \ {d}
    /\ DeleteIsShown
    /\ UNCHANGED <<records, searches, lastData, enhanced, found, removed, crossed, unheard, visit, acts>>

DeleteFails(d) ==
    /\ deletes' = deletes \ {d} /\ unheard' = (unheard \/ d.done)
    /\ UNCHANGED <<records, searches, results, lastData, modal, enhanced, found, removed, crossed,
                   visit, acts>>

Next ==
    \/ Visit \/ OpenModal \/ closeModal
    \/ \E S \in SUBSET Proxies : searchHistory(S) \/ deleteHistory(S)
    \/ \E s \in searches : SearchServed(s) \/ SearchAnswered(s) \/ SearchFails(s)
    \/ \E d \in deletes : DeleteServed(d) \/ DeleteAnswered(d) \/ DeleteFails(d)

Spec == Init /\ [][Next]_vars

-----------------------------------------------------------------------------
(***************************************************************************)
(* Results that are shown are still there at the server once deletions     *)
(* have been answered; unless a search was under way while records were    *)
(* deleted, or a deletion was made whose answer did not come.              *)
(***************************************************************************)
ShowsSurvivors ==
    results /\ deletes = {} /\ ~crossed /\ ~unheard => lastData \subseteq records
=============================================================================
