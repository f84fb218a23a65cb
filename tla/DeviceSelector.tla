--------------------------- MODULE DeviceSelector ---------------------------
(***************************************************************************)
(* The choice of a group and of proxies that five pages share.  Each visit *)
(* of a page fetches groups and proxies anew, and when both have settled,  *)
(* failed or not, restores the choice from localStorage.  A visit whose    *)
(* requests are still under way when the user leaves goes on behind the    *)
(* next one, and works on the same storage.  Meanwhile proxies are moved,  *)
(* deactivated and deleted at the server.                                  *)
(*                                                                         *)
(* The usage page keeps the choice a second time, under a key of its own,  *)
(* and restores it from there after the selector did (restoreState of      *)
(* resource_usage_state.js): it sets the group, whose change selects all   *)
(* of the group and stores that, and sets the proxies a moment later       *)
(* without telling anybody.                                                *)
(***************************************************************************)
EXTENDS Naturals, FiniteSets

CONSTANTS
    Proxies, Groups,
    All,        \* no group chosen, or none that there is
    Gone,       \* not active, or deleted
    MaxVisits,  \* bound on the visits of the page
    MaxMoves,   \* bound on changes at the server
    MaxPicks    \* bound on the choices of the user

ASSUME SelectorAssumption ==
    /\ All \notin Groups /\ Gone \notin Groups \cup {All}
    /\ MaxVisits \in Nat \ {0} /\ {MaxMoves, MaxPicks} \subseteq Nat

Places == Groups \cup {All, Gone}
NoProxies == [p \in Proxies |-> Gone]

VARIABLES
    at,         \* the server: the group of each active proxy, All for none
    exists,     \* the server: the groups there are
    usage,      \* the page is the usage page; it is the same throughout
    here,       \* the user is on the page
    visits,     \* visits of the page so far; the last one is shown
    answers,    \* of each visit: which of its requests have settled
    groups,     \* of each visit: state.groups
    proxies,    \* of each visit: state.proxies, as their places
    known,      \* of each visit: its proxies did come
    group,      \* of each visit: the group select
    selection,  \* of each visit: the selected proxies
    setting,    \* of each visit: the proxies restoreState is about to set
    stored,     \* proxyIds and groupId of storageKey; none is an empty sequence
    ownSaved,   \* the same of STORAGE_KEY, the usage page's own
    chosen,     \* history: the last choice of the user
    overwritten,\* history: restoreState has set something since that choice
    disturbed,  \* history: proxies moved, deactivated or deleted since Init
    moves, picks

serverVars == <<at, exists, disturbed, moves>>
viewVars == <<usage, here, visits, answers, groups, proxies, known, group, selection,
              setting>>
storageVars == <<stored, ownSaved>>
vars == <<serverVars, viewVars, storageVars, chosen, overwritten, picks>>

Visits == 1 .. MaxVisits
Nothing == << >>
Choices == [ids : SUBSET Proxies, group : Groups \cup {All}]

TypeOK ==
    /\ at \in [Proxies -> Places] /\ exists \subseteq Groups
    /\ usage \in BOOLEAN /\ here \in BOOLEAN /\ visits \in Visits
    /\ answers \in [Visits -> SUBSET {"groups", "proxies", "ready", "restored", "applied"}]
    /\ groups \in [Visits -> SUBSET Groups]
    /\ proxies \in [Visits -> [Proxies -> Places]]
    /\ known \in [Visits -> BOOLEAN]
    /\ group \in [Visits -> Groups \cup {All}]
    /\ selection \in [Visits -> SUBSET Proxies]
    /\ setting \in [Visits -> SUBSET Proxies]
    /\ stored \in Choices \cup {Nothing} /\ ownSaved \in Choices \cup {Nothing}
    /\ chosen \subseteq Proxies /\ disturbed \subseteq Proxies /\ overwritten \in BOOLEAN
    /\ moves \in 0 .. MaxMoves /\ picks \in 0 .. MaxPicks

Init ==
    /\ at \in [Proxies -> Groups] /\ exists = Groups
    /\ usage \in BOOLEAN /\ here = TRUE /\ visits = 1
    /\ answers = [v \in Visits |-> {}]
    /\ groups = [v \in Visits |-> {}]
    /\ proxies = [v \in Visits |-> NoProxies]
    /\ known = [v \in Visits |-> FALSE]
    /\ group = [v \in Visits |-> All]
    /\ selection = [v \in Visits |-> {}]
    /\ setting = [v \in Visits |-> {}]
    /\ stored = Nothing /\ ownSaved = Nothing
    /\ chosen = {} /\ disturbed = {} /\ overwritten = FALSE
    /\ moves = 0 /\ picks = 0

-----------------------------------------------------------------------------
(* The server.                                                             *)

Move(p, g) ==
    /\ moves < MaxMoves /\ moves' = moves + 1
    /\ g \in exists \cup {All, Gone} /\ g # at[p]
    /\ at' = [at EXCEPT ![p] = g] /\ disturbed' = disturbed \cup {p}
    /\ UNCHANGED <<exists, viewVars, storageVars, chosen, overwritten, picks>>

DeleteGroup(g) ==
    /\ moves < MaxMoves /\ moves' = moves + 1
    /\ g \in exists /\ exists' = exists \ {g}
    /\ at' = [p \in Proxies |-> IF at[p] = g THEN All ELSE at[p]]
    /\ disturbed' = disturbed \cup {p \in Proxies : at[p] = g}
    /\ UNCHANGED <<viewVars, storageVars, chosen, overwritten, picks>>

-----------------------------------------------------------------------------
(* The page.                                                               *)

\* filteredProxies
filteredProxies(places, g) ==
    {p \in Proxies : places[p] # Gone /\ (g = All \/ places[p] = g)}

\* init of a page that is opened, or opened again.
Visit ==
    /\ visits < MaxVisits /\ visits' = visits + 1 /\ here' = TRUE
    /\ UNCHANGED <<serverVars, usage, answers, groups, proxies, known, group, selection,
                   setting, storageVars, chosen, overwritten, picks>>

Leave ==
    /\ here /\ visits < MaxVisits /\ here' = FALSE
    /\ UNCHANGED <<serverVars, usage, visits, answers, groups, proxies, known, group,
                   selection, setting, storageVars, chosen, overwritten, picks>>

\* populateGroups; a failed request leaves no group to choose.
GroupsSettle(v) ==
    /\ v <= visits /\ "groups" \notin answers[v]
    /\ answers' = [answers EXCEPT ![v] = @ \cup {"groups"}]
    /\ \E got \in {exists, {}} : groups' = [groups EXCEPT ![v] = got]
    /\ UNCHANGED <<serverVars, usage, here, visits, proxies, known, group, selection,
                   setting, storageVars, chosen, overwritten, picks>>

ProxiesSettle(v) ==
    /\ v <= visits /\ "proxies" \notin answers[v]
    /\ answers' = [answers EXCEPT ![v] = @ \cup {"proxies"}]
    /\ \E ok \in BOOLEAN :
          /\ known' = [known EXCEPT ![v] = ok]
          /\ proxies' = [proxies EXCEPT ![v] = IF ok THEN at ELSE NoProxies]
    /\ UNCHANGED <<serverVars, usage, here, visits, groups, group, selection, setting,
                   storageVars, chosen, overwritten, picks>>

\* saveToStorage
saveToStorage(S, g) == stored' = [ids |-> S, group |-> g]

\* saveState, of the usage page: what the selects of the visit shown hold.
saveState(S, g) ==
    ownSaved' =
        IF ~usage THEN ownSaved
        ELSE IF here THEN [ids |-> S, group |-> g] ELSE [ids |-> {}, group |-> All]

\* restoreFromStorage: the stored proxies among those of the stored group, or
\* else all of them.
RestoredGroup(v) ==
    IF stored = Nothing \/ stored.group = All THEN group[v]
    ELSE IF stored.group \in groups[v] THEN stored.group ELSE All

Restored(v) ==
    LET offered == filteredProxies(proxies[v], RestoredGroup(v))
    IN IF stored = Nothing THEN offered ELSE stored.ids \cap offered

\* (Mutant: an empty restore is told to onChange, which stores it.)
ChangesOnRestore_Always(S) == TRUE

\* Nothing was selected before, so onChange fires only if something is now.
ChangesOnRestore(S) == S # {}

\* Both requests have settled: fill, enhance, restore, bind.  (The group of a
\* visit is chosen already if a late restoreState set it.)
Ready(v) ==
    /\ answers[v] = {"groups", "proxies"}
    /\ answers' = [answers EXCEPT ![v] = @ \cup {"ready"}]
    /\ group' = [group EXCEPT ![v] = RestoredGroup(v)]
    /\ selection' = [selection EXCEPT ![v] = Restored(v)]
    /\ IF ChangesOnRestore(Restored(v))
       THEN /\ saveToStorage(Restored(v), RestoredGroup(v))
            /\ saveState(selection'[visits], group'[visits])
       ELSE UNCHANGED storageVars
    /\ overwritten' = (overwritten \/ group[v] # All)
    /\ UNCHANGED <<serverVars, usage, here, visits, groups, proxies, known, setting, chosen,
                   picks>>

IsReady == "ready" \in answers[visits]

\* The change of the group of the visit shown: the page saves what it has, the
\* selector fills the list, selects all of it, which onChange tells the page,
\* and saves whatever comes of it.
OfGroup(g) == filteredProxies(proxies[visits], g)
GroupChanges(g) ==
    /\ group' = [group EXCEPT ![visits] = g]
    /\ selection' = [selection EXCEPT ![visits] = OfGroup(g)]
    /\ saveToStorage(OfGroup(g), g)
    /\ saveState(IF OfGroup(g) = {} THEN selection[visits] ELSE OfGroup(g), g)

-----------------------------------------------------------------------------
(* The usage page, once the selector and the configuration are there: what *)
(* an overtaken visit does falls on the visit shown.                       *)

\* restoreState without anything saved, or with the user on another page, has
\* nothing to work on.
RestoreNothing(v) ==
    /\ ownSaved = Nothing \/ ~here
    /\ answers' = [answers EXCEPT ![v] = @ \cup {"restored", "applied"}]
    /\ UNCHANGED <<group, selection, setting, storageVars, overwritten>>

SavedGroup == IF ownSaved.group \in groups[visits] THEN ownSaved.group ELSE All

RestoreGroup(v) ==
    /\ ownSaved # Nothing /\ here
    /\ answers' = [answers EXCEPT ![v] = @ \cup {"restored"}]
    /\ setting' = [setting EXCEPT ![v] = ownSaved.ids]
    /\ \/ /\ IsReady /\ GroupChanges(SavedGroup)
          /\ overwritten' = TRUE
       \/ /\ ~IsReady /\ group' = [group EXCEPT ![visits] = SavedGroup]
          /\ saveState({}, SavedGroup)
          /\ UNCHANGED <<selection, stored, overwritten>>

RestoreState(v) ==
    /\ usage /\ "ready" \in answers[v] /\ "restored" \notin answers[v]
    /\ RestoreNothing(v) \/ RestoreGroup(v)
    /\ UNCHANGED <<serverVars, usage, here, visits, groups, proxies, known, chosen, picks>>

\* applyProxySelection, from setTimeout: silent, so that nobody stores it.
ApplyProxySelection(v) ==
    /\ "restored" \in answers[v] /\ "applied" \notin answers[v]
    /\ answers' = [answers EXCEPT ![v] = @ \cup {"applied"}]
    /\ setting' = [setting EXCEPT ![v] = {}]
    /\ \/ /\ here /\ IsReady
          /\ selection' = [selection EXCEPT ![visits] = setting[v] \cap OfGroup(group[visits])]
          /\ overwritten' = TRUE
          /\ UNCHANGED ownSaved
       \/ /\ here /\ ~IsReady /\ saveState({}, group[visits])
          /\ UNCHANGED <<selection, overwritten>>
       \/ /\ ~here
          /\ UNCHANGED <<selection, overwritten, ownSaved>>
    /\ UNCHANGED <<serverVars, usage, here, visits, groups, proxies, known, group, stored,
                   chosen, picks>>

-----------------------------------------------------------------------------
(* The user, on the visit that is shown.                                   *)

Pick ==
    /\ here /\ IsReady
    /\ picks < MaxPicks /\ picks' = picks + 1
    /\ overwritten' = FALSE

ChangeGroup(g) ==
    /\ Pick /\ g \in groups[visits] \cup {All}
    /\ GroupChanges(g)
    /\ chosen' = OfGroup(g)
    /\ UNCHANGED <<serverVars, usage, here, visits, answers, groups, proxies, known, setting>>

\* Checking, removing, all and none: onChange fires if the selection changes.
ChangeSelection(S) ==
    /\ Pick /\ S # selection[visits]
    /\ S \subseteq OfGroup(group[visits])
    /\ selection' = [selection EXCEPT ![visits] = S]
    /\ chosen' = S
    /\ saveToStorage(S, group[visits]) /\ saveState(S, group[visits])
    /\ UNCHANGED <<serverVars, usage, here, visits, answers, groups, proxies, known, group,
                   setting>>

Next ==
    \/ \E p \in Proxies, g \in Places : Move(p, g)
    \/ \E g \in Groups : DeleteGroup(g)
    \/ Visit \/ Leave
    \/ \E v \in Visits : \/ GroupsSettle(v) \/ ProxiesSettle(v) \/ Ready(v)
                         \/ RestoreState(v) \/ ApplyProxySelection(v)
    \/ \E g \in Groups \cup {All} : ChangeGroup(g)
    \/ \E S \in SUBSET Proxies : ChangeSelection(S)

Spec == Init /\ [][Next]_vars

-----------------------------------------------------------------------------
(***************************************************************************)
(* What the user chose last stays chosen, that and no more: of the proxies *)
(* that nobody moved, deactivated or deleted, those are remembered, and    *)
(* selected on the visit shown once its proxies have come, whatever        *)
(* requests failed in between and whatever visits finish late behind the   *)
(* one shown.  On the usage page this ends with the next restoreState,     *)
(* which stores all of the group in the place of the choice.               *)
(***************************************************************************)
SameButDisturbed(S, T) == S \ disturbed = T \ disturbed

ChoiceIsKept ==
    picks > 0 /\ ~overwritten =>
        /\ stored # Nothing /\ SameButDisturbed(stored.ids, chosen)
        /\ IsReady /\ known[visits] => SameButDisturbed(selection[visits], chosen)
=============================================================================
