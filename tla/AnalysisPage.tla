---------------------------- MODULE AnalysisPage ----------------------------
(***************************************************************************)
(* The analysis of resource records: a run asks six questions at once and  *)
(* shows all answers or none.  Runs are neither ordered nor cancelled, and *)
(* what is in memory outlives a visit of the page.                         *)
(***************************************************************************)
EXTENDS Naturals

CONSTANTS
    Proxies,
    All,       \* _filter = null
    Panels,    \* the six panels
    MaxRuns,   \* bound on the runs
    MaxActs    \* bound on the other acts of the user

AnalysisAssumption == All \notin Proxies /\ {MaxRuns, MaxActs} \subseteq Nat

VARIABLES
    runs,      \* runs without all their answers
    answered,  \* of each run: the questions answered
    cache,     \* _cache, as the run it is of and its proxies
    filter,    \* _filter
    offered,   \* the filter buttons that are there
    shown,     \* what each panel shows: a run and a filter
    asked,     \* runs so far
    acts

vars == <<runs, answered, cache, filter, offered, shown, asked, acts>>

Runs == 1 .. MaxRuns
Filters == Proxies \cup {All}
NoRun == [run |-> 0, proxies |-> {}]
EmptyTables == [x \in Panels |-> << >>]

TypeOK ==
    /\ runs \subseteq [id : Runs, of : SUBSET Proxies]
    /\ answered \in [Runs -> SUBSET Panels]
    /\ cache \in [run : Runs, proxies : SUBSET Proxies] \cup {NoRun}
    /\ filter \in Filters /\ offered \subseteq Filters
    /\ shown \in [Panels -> (Runs \X Filters) \cup {<< >>}]
    /\ asked \in 0 .. MaxRuns /\ acts \in 0 .. MaxActs

Init ==
    /\ runs = {} /\ answered = [n \in Runs |-> {}] /\ cache = NoRun
    /\ filter = All /\ offered = {} /\ shown = EmptyTables
    /\ asked = 0 /\ acts = 0

Act == acts < MaxActs /\ acts' = acts + 1

\* init on fresh content; _cache and _filter outlive the visit.
Visit ==
    /\ Act /\ offered' = {} /\ shown' = EmptyTables
    /\ UNCHANGED <<runs, answered, cache, filter, asked>>

\* runAnalysis
runAnalysis(S) ==
    /\ asked < MaxRuns /\ asked' = asked + 1
    /\ S # {}
    /\ runs' = runs \cup {[id |-> asked', of |-> S]}
    /\ shown' = EmptyTables
    /\ UNCHANGED <<answered, cache, filter, offered, acts>>

AllOf(n) == answered'[n] = Panels

\* renderAll: every panel, of what is in the cache.
renderAll(n, f) == filter' = f /\ shown' = [x \in Panels |-> <<n, f>>]

\* (Mutant: the filter of the last analysis stays.)
RenderAnswer_KeepsFilter(n) == renderAll(n, filter)

RenderAnswer(n) == renderAll(n, All)

\* One of the six answers; with the last one the analysis is shown.
QuestionAnswered(r, x) ==
    /\ x \notin answered[r.id]
    /\ answered' = [answered EXCEPT ![r.id] = @ \cup {x}]
    /\ IF AllOf(r.id)
       THEN /\ runs' = runs \ {r}
            /\ cache' = [run |-> r.id, proxies |-> r.of]
            /\ offered' = r.of \cup {All}
            /\ RenderAnswer(r.id)
       ELSE UNCHANGED <<runs, cache, offered, filter, shown>>
    /\ UNCHANGED <<asked, acts>>

\* One failure is the failure of all.
QuestionFails(r) ==
    /\ runs' = runs \ {r}
    /\ UNCHANGED <<answered, cache, filter, offered, shown, asked, acts>>

\* A click on a filter button.
Filter(f) ==
    /\ Act /\ f \in offered /\ shown # EmptyTables
    /\ renderAll(cache.run, f)
    /\ UNCHANGED <<runs, answered, cache, offered, asked>>

Next ==
    \/ Visit
    \/ \E S \in SUBSET Proxies : runAnalysis(S)
    \/ \E r \in runs : QuestionFails(r) \/ \E x \in Panels : QuestionAnswered(r, x)
    \/ \E f \in Filters : Filter(f)

Spec == Init /\ [][Next]_vars

-----------------------------------------------------------------------------
(***************************************************************************)
(* The panels of the analysis agree: all are of one analysis, the one the  *)
(* filter buttons are of, and of one filter, which is among the buttons.   *)
(***************************************************************************)
PanelsAgree ==
    shown # EmptyTables =>
        /\ shown = [x \in Panels |-> <<cache.run, filter>>]
        /\ filter \in offered /\ offered = cache.proxies \cup {All}
=============================================================================
