---------------------------- MODULE PartsProofs ----------------------------
(***************************************************************************)
(* What TLC checks of the pages, the session files and the database file   *)
(* on a small instance (MCParts), for all values of the constants.  The    *)
(* parts share no state, so a behaviour of all of them is one of each      *)
(* (EachPart): the invariant of a page is proved for the page alone and    *)
(* then holds of the whole.  What holds of the two parts that have proofs  *)
(* of their own is taken from there.                                       *)
(*                                                                         *)
(* Each section begins with the inductive invariant of its page, the types *)
(* and a few facts that relate what is under way to what the property      *)
(* speaks of, and ends with the property.                                  *)
(***************************************************************************)
EXTENDS MCParts, FiniteSets, FiniteSetTheorems, TLAPS

partsVars == <<part, vars, ofForm, ofSettings, ofTraffic, ofWatch, ofSession, ofHistory,
               ofAnalysis, ofStore, ofDb>>

LEMMA PartsBegin ==
    PartsInit => /\ Init /\ Form!Init /\ Settings!Init /\ Traffic!Init /\ Watch!Init
                 /\ Session!Init /\ History!Init /\ Analysis!Init /\ Store!Init /\ Db!Init
BY DEF PartsInit

LEMMA SelectorInParts == [PartsNext]_partsVars => [Next]_vars
BY DEF PartsNext, partsVars, vars, serverVars, viewVars, storageVars

LEMMA FormInParts == [PartsNext]_partsVars => [Form!Next]_(Form!vars)
BY DEF PartsNext, partsVars, ofForm, Form!vars, Form!formVars, Form!bulkVars

LEMMA SettingsInParts == [PartsNext]_partsVars => [Settings!Next]_(Settings!vars)
BY DEF PartsNext, partsVars, ofSettings, Settings!vars

LEMMA TrafficInParts == [PartsNext]_partsVars => [Traffic!Next]_(Traffic!vars)
BY DEF PartsNext, partsVars, ofTraffic, Traffic!vars

LEMMA WatchInParts == [PartsNext]_partsVars => [Watch!Next]_(Watch!vars)
BY DEF PartsNext, partsVars, ofWatch, Watch!vars

LEMMA SessionInParts == [PartsNext]_partsVars => [Session!Next]_(Session!vars)
BY DEF PartsNext, partsVars, ofSession, Session!vars, Session!dataVars, Session!pageVars,
       Session!sbaVars

LEMMA HistoryInParts == [PartsNext]_partsVars => [History!Next]_(History!vars)
BY DEF PartsNext, partsVars, ofHistory, History!vars

LEMMA AnalysisInParts == [PartsNext]_partsVars => [Analysis!Next]_(Analysis!vars)
BY DEF PartsNext, partsVars, ofAnalysis, Analysis!vars

LEMMA StoreInParts == [PartsNext]_partsVars => [Store!Next]_(Store!vars)
BY DEF PartsNext, partsVars, ofStore, Store!vars

LEMMA DbInParts == [PartsNext]_partsVars => [Db!Next]_(Db!vars)
BY DEF PartsNext, partsVars, ofDb, Db!vars, Db!files, Db!ghosts, Db!times

LEMMA EachPart ==
    PartsSpec => /\ Spec /\ Form!Spec /\ Settings!Spec /\ Traffic!Spec /\ Watch!Spec
                 /\ Session!Spec /\ History!Spec /\ Analysis!Spec /\ Store!Spec /\ Db!Spec
<1> USE SelectorInParts, FormInParts, SettingsInParts, TrafficInParts, WatchInParts,
        SessionInParts, HistoryInParts, AnalysisInParts, StoreInParts, DbInParts
<1>1. PartsSpec => PartsInit /\ [][PartsNext]_partsVars
  BY DEF PartsSpec, partsVars
<1>2. PartsSpec => Spec /\ Form!Spec /\ Settings!Spec
  BY <1>1, PartsBegin, PTL DEF Spec, Form!Spec, Settings!Spec
<1>3. PartsSpec => Traffic!Spec /\ Watch!Spec /\ Session!Spec
  BY <1>1, PartsBegin, PTL DEF Traffic!Spec, Watch!Spec, Session!Spec
<1>4. PartsSpec => History!Spec /\ Analysis!Spec
  BY <1>1, PartsBegin, PTL DEF History!Spec, Analysis!Spec
<1>5. PartsSpec => Store!Spec /\ Db!Spec
  BY <1>1, PartsBegin, PTL DEF Store!Spec, Db!Spec
<1> QED
  BY <1>2, <1>3, <1>4, <1>5
-----------------------------------------------------------------------------
(* The device selector.  What makes the choice inductive is that a proxy   *)
(* nobody disturbed is where every visit that knows its proxies saw it,    *)
(* and that the group stored with it is never another group than its own.  *)
Undisturbed == chosen \ disturbed

(* What the server says of the proxies nobody disturbed.                   *)
ServerInv == \A p \in Proxies \ disturbed : at[p] \in exists

(* A visit settles its requests before it restores; what it knows is so.   *)
VisitInv ==
    /\ \A v \in Visits : v > visits => answers[v] = {}
    /\ \A v \in Visits : "ready" \in answers[v] => "proxies" \in answers[v]
    /\ \A v \in Visits : known[v] => \A p \in Proxies \ disturbed : proxies[v][p] = at[p]
    /\ \A v \in Visits : ~known[v] => proxies[v] = NoProxies

(* There is a choice, and it is the user's; then the group stored offers   *)
(* the proxies that were chosen.                                           *)
ChoiceStands == picks > 0 /\ ~overwritten

StoredInv ==
    ChoiceStands => \A p \in Undisturbed : stored.group \in {All, at[p]}

SelectorInv == TypeOK /\ ServerInv /\ VisitInv /\ StoredInv /\ ChoiceIsKept

-----------------------------------------------------------------------------
(* What is saved is not taken for an empty storage.                        *)
LEMMA SavedIsSomething ==
    ASSUME NEW S, NEW e PROVE [ids |-> S, group |-> e] # Nothing
<1>1. DOMAIN [ids |-> S, group |-> e] = {"ids", "group"}
  OBVIOUS
<1>2. DOMAIN << >> = {}
  OBVIOUS
<1> QED
  BY <1>1, <1>2 DEF Nothing

(* A group that offers proxies is one a visit can have and store.          *)
LEMMA RestoredTypes ==
    ASSUME TypeOK, NEW v \in Visits
    PROVE  RestoredGroup(v) \in Groups \cup {All} /\ Restored(v) \subseteq Proxies
<1>1. RestoredGroup(v) \in Groups \cup {All}
  BY DEF TypeOK, RestoredGroup, Choices
<1> QED
  BY <1>1 DEF Restored, filteredProxies

(* What is saved is a choice, under either key.                            *)
LEMMA SavedTypes ==
    ASSUME TypeOK, NEW S \in SUBSET Proxies, NEW e \in Groups \cup {All}
    PROVE  /\ saveToStorage(S, e) => stored' \in Choices \cup {Nothing}
           /\ saveState(S, e) => ownSaved' \in Choices \cup {Nothing}
BY DEF TypeOK, saveToStorage, saveState, Choices

LEMMA GroupTypes ==
    ASSUME TypeOK, NEW e \in Groups \cup {All}, GroupChanges(e)
    PROVE  /\ group' \in [Visits -> Groups \cup {All}]
           /\ selection' \in [Visits -> SUBSET Proxies]
           /\ stored' \in Choices \cup {Nothing} /\ ownSaved' \in Choices \cup {Nothing}
<1>1. OfGroup(e) \in SUBSET Proxies
  BY DEF OfGroup, filteredProxies
<1>2. selection[visits] \in SUBSET Proxies
  BY DEF TypeOK
<1>3. saveToStorage(OfGroup(e), e)
  BY DEF GroupChanges
<1>4. PICK S \in SUBSET Proxies : saveState(S, e)
  BY <1>1, <1>2 DEF GroupChanges
<1>5. group' \in [Visits -> Groups \cup {All}] /\ selection' \in [Visits -> SUBSET Proxies]
  BY <1>1 DEF GroupChanges, TypeOK
<1> QED
  BY <1>1, <1>3, <1>4, <1>5, SavedTypes

(* Init establishes the invariant.                                         *)
LEMMA SelectorBegins == Init => SelectorInv
<1> SUFFICES ASSUME Init PROVE SelectorInv
  OBVIOUS
<1> USE SelectorAssumption
<1>1. TypeOK
  <2>1. /\ at \in [Proxies -> Places] /\ exists \subseteq Groups /\ visits \in Visits
        /\ proxies \in [Visits -> [Proxies -> Places]]
    BY DEF Init, Visits, Places, NoProxies
  <2>2. usage \in BOOLEAN /\ here \in BOOLEAN /\ overwritten \in BOOLEAN
    BY Zenon DEF Init
  <2> QED
    BY <2>1, <2>2 DEF Init, TypeOK
<1>2. ServerInv /\ VisitInv
  BY DEF Init, ServerInv, VisitInv
<1>3. StoredInv /\ ChoiceIsKept
  BY DEF Init, StoredInv, ChoiceIsKept, ChoiceStands
<1> QED
  BY <1>1, <1>2, <1>3 DEF SelectorInv

-----------------------------------------------------------------------------
(* Each step keeps the types.                                              *)
LEMMA SelectorTypes == ASSUME TypeOK, [Next]_vars PROVE TypeOK'
<1> USE SelectorAssumption
<1>1. ASSUME NEW p \in Proxies, NEW e \in Places, Move(p, e) PROVE TypeOK'
  BY <1>1 DEF Move, TypeOK, viewVars, storageVars
<1>2. ASSUME NEW e \in Groups, DeleteGroup(e) PROVE TypeOK'
  <2>1. at' \in [Proxies -> Places] /\ exists' \subseteq Groups
    BY <1>2 DEF DeleteGroup, TypeOK, Places
  <2> QED
    BY <1>2, <2>1 DEF DeleteGroup, TypeOK, viewVars, storageVars
<1>3. CASE Visit \/ Leave
  <2>1. here' \in BOOLEAN
    BY <1>3, Zenon DEF Visit, Leave
  <2>2. visits' \in Visits
    BY <1>3 DEF Visit, Leave, TypeOK, Visits
  <2>3. /\ UNCHANGED <<serverVars, usage, answers, groups, proxies, known, group>>
        /\ UNCHANGED <<selection, setting, stored, ownSaved, chosen, overwritten, picks>>
    BY <1>3 DEF Visit, Leave, storageVars
  <2> QED
    BY <2>1, <2>2, <2>3 DEF TypeOK, serverVars
<1>4. ASSUME NEW v \in Visits, GroupsSettle(v) PROVE TypeOK'
  BY <1>4 DEF GroupsSettle, TypeOK, serverVars, storageVars
<1>5. ASSUME NEW v \in Visits, ProxiesSettle(v) PROVE TypeOK'
  BY <1>5 DEF ProxiesSettle, TypeOK, serverVars, storageVars, NoProxies, Places
<1>6. ASSUME NEW v \in Visits, Ready(v) PROVE TypeOK'
  <2>1. RestoredGroup(v) \in Groups \cup {All} /\ Restored(v) \subseteq Proxies
    BY RestoredTypes
  <2>2. group' \in [Visits -> Groups \cup {All}] /\ selection' \in [Visits -> SUBSET Proxies]
    BY <1>6, <2>1 DEF Ready, TypeOK
  <2>3. selection'[visits] \in SUBSET Proxies /\ group'[visits] \in Groups \cup {All}
    BY <2>2 DEF TypeOK
  <2>4. stored' \in Choices \cup {Nothing} /\ ownSaved' \in Choices \cup {Nothing}
    BY <1>6, <2>1, <2>3, SavedTypes DEF Ready, TypeOK, storageVars
  <2>5. overwritten' \in BOOLEAN
    BY <1>6, Zenon DEF Ready
  <2> QED
    BY <1>6, <2>2, <2>4, <2>5 DEF Ready, TypeOK, serverVars
<1>7. ASSUME NEW v \in Visits, RestoreState(v) PROVE TypeOK'
  <2>1. answers' \in [Visits -> SUBSET {"groups", "proxies", "ready", "restored", "applied"}]
    BY <1>7 DEF RestoreState, RestoreNothing, RestoreGroup, TypeOK
  <2>2. UNCHANGED <<serverVars, usage, here, visits, groups, proxies, known, chosen, picks>>
    BY <1>7 DEF RestoreState
  <2>3. CASE RestoreNothing(v)
    BY <2>1, <2>2, <2>3 DEF RestoreNothing, TypeOK, serverVars, storageVars
  <2>4. CASE RestoreGroup(v)
    <3>1. SavedGroup \in Groups \cup {All} /\ setting' \in [Visits -> SUBSET Proxies]
      BY <2>4 DEF RestoreGroup, SavedGroup, TypeOK, Choices
    <3>2. CASE IsReady /\ GroupChanges(SavedGroup) /\ overwritten' = TRUE
      BY <2>1, <2>2, <3>1, <3>2, GroupTypes DEF TypeOK, serverVars
    <3>3. CASE /\ group' = [group EXCEPT ![visits] = SavedGroup]
               /\ saveState({}, SavedGroup)
               /\ UNCHANGED <<selection, stored, overwritten>>
      <4>1. ownSaved' \in Choices \cup {Nothing}
        BY <3>1, <3>3, SavedTypes
      <4> QED
        BY <2>1, <2>2, <3>1, <3>3, <4>1 DEF TypeOK, serverVars
    <3> QED
      BY <2>4, <3>2, <3>3 DEF RestoreGroup
  <2> QED
    BY <1>7, <2>3, <2>4 DEF RestoreState
<1>8. ASSUME NEW v \in Visits, ApplyProxySelection(v) PROVE TypeOK'
  <2>1. answers' \in [Visits -> SUBSET {"groups", "proxies", "ready", "restored", "applied"}]
    BY <1>8 DEF ApplyProxySelection, TypeOK
  <2>2. setting' \in [Visits -> SUBSET Proxies] /\ selection' \in [Visits -> SUBSET Proxies]
    BY <1>8 DEF ApplyProxySelection, TypeOK
  <2>3. ownSaved' \in Choices \cup {Nothing}
    <3>1. group[visits] \in Groups \cup {All}
      BY DEF TypeOK
    <3> QED
      BY <1>8, <3>1, SavedTypes DEF ApplyProxySelection, TypeOK
  <2>4. overwritten' \in BOOLEAN
    BY <1>8 DEF ApplyProxySelection, TypeOK
  <2> QED
    BY <1>8, <2>1, <2>2, <2>3, <2>4 DEF ApplyProxySelection, TypeOK, serverVars
<1>9. ASSUME NEW e \in Groups \cup {All}, ChangeGroup(e) PROVE TypeOK'
  <2>1. OfGroup(e) \subseteq Proxies
    BY DEF OfGroup, filteredProxies
  <2>2. GroupChanges(e)
    BY <1>9 DEF ChangeGroup
  <2>3. overwritten' \in BOOLEAN /\ picks' \in 0 .. MaxPicks /\ chosen' \subseteq Proxies
    <3>1. overwritten' \in BOOLEAN
      BY <1>9, Zenon DEF ChangeGroup, Pick
    <3> QED
      BY <1>9, <2>1, <3>1 DEF ChangeGroup, Pick, TypeOK
  <2>4. UNCHANGED <<serverVars, usage, here, visits, answers, groups, proxies, known, setting>>
    BY <1>9 DEF ChangeGroup
  <2> QED
    BY <2>2, <2>3, <2>4, GroupTypes DEF TypeOK, serverVars
<1>10. ASSUME NEW S \in SUBSET Proxies, ChangeSelection(S) PROVE TypeOK'
  <2>1. group[visits] \in Groups \cup {All}
    BY DEF TypeOK
  <2>2. stored' \in Choices \cup {Nothing} /\ ownSaved' \in Choices \cup {Nothing}
    BY <1>10, <2>1, SavedTypes DEF ChangeSelection
  <2>3. overwritten' \in BOOLEAN
    BY <1>10, Zenon DEF ChangeSelection, Pick
  <2>4. picks' \in 0 .. MaxPicks /\ chosen' \subseteq Proxies
        /\ selection' \in [Visits -> SUBSET Proxies]
    BY <1>10 DEF ChangeSelection, Pick, TypeOK
  <2>5. UNCHANGED <<serverVars, usage, here, visits, answers, groups, proxies, known, group,
                    setting>>
    BY <1>10 DEF ChangeSelection
  <2> QED
    BY <2>2, <2>3, <2>4, <2>5 DEF TypeOK, serverVars
<1>11. CASE UNCHANGED vars
  BY <1>11 DEF vars, serverVars, viewVars, storageVars, TypeOK
<1> QED
  BY <1>1, <1>2, <1>3, <1>4, <1>5, <1>6, <1>7, <1>8, <1>9, <1>10, <1>11 DEF Next

(* Each step keeps what is known of the server and of the visits.          *)
LEMMA SelectorKeepsWorld ==
    ASSUME SelectorInv, [Next]_vars PROVE ServerInv' /\ VisitInv'
<1> USE SelectorAssumption DEF SelectorInv
<1>1. ASSUME NEW p \in Proxies, NEW e \in Places, Move(p, e)
      PROVE  ServerInv' /\ VisitInv'
  BY <1>1 DEF Move, TypeOK, viewVars, ServerInv, VisitInv
<1>2. ASSUME NEW e \in Groups, DeleteGroup(e) PROVE ServerInv' /\ VisitInv'
  BY <1>2 DEF DeleteGroup, TypeOK, viewVars, ServerInv, VisitInv
<1>3. CASE Visit \/ Leave
  BY <1>3 DEF Visit, Leave, TypeOK, serverVars, Visits, ServerInv, VisitInv
<1>4. ASSUME NEW v \in Visits, GroupsSettle(v) PROVE ServerInv' /\ VisitInv'
  BY <1>4 DEF GroupsSettle, TypeOK, serverVars, Visits, ServerInv, VisitInv
<1>5. ASSUME NEW v \in Visits, ProxiesSettle(v) PROVE ServerInv' /\ VisitInv'
  BY <1>5 DEF ProxiesSettle, TypeOK, serverVars, Visits, ServerInv, VisitInv
<1>6. ASSUME NEW v \in Visits, Ready(v) PROVE ServerInv' /\ VisitInv'
  BY <1>6 DEF Ready, TypeOK, serverVars, Visits, ServerInv, VisitInv
<1>7. ASSUME NEW v \in Visits, RestoreState(v) PROVE ServerInv' /\ VisitInv'
  <2>1. UNCHANGED <<serverVars, visits, proxies, known>>
    BY <1>7 DEF RestoreState
  <2>2. /\ answers[v] # {} /\ "ready" \in answers[v]
        /\ answers' \in {[answers EXCEPT ![v] = @ \cup {"restored", "applied"}],
                         [answers EXCEPT ![v] = @ \cup {"restored"}]}
    BY <1>7 DEF RestoreState, RestoreNothing, RestoreGroup
  <2> QED
    BY <2>1, <2>2 DEF TypeOK, serverVars, ServerInv, VisitInv
<1>8. ASSUME NEW v \in Visits, ApplyProxySelection(v) PROVE ServerInv' /\ VisitInv'
  BY <1>8 DEF ApplyProxySelection, TypeOK, serverVars, ServerInv, VisitInv
<1>9. ASSUME NEW e \in Groups \cup {All}, ChangeGroup(e) PROVE ServerInv' /\ VisitInv'
  BY <1>9 DEF ChangeGroup, serverVars, ServerInv, VisitInv
<1>10. ASSUME NEW S \in SUBSET Proxies, ChangeSelection(S) PROVE ServerInv' /\ VisitInv'
  BY <1>10 DEF ChangeSelection, serverVars, ServerInv, VisitInv
<1>11. CASE UNCHANGED vars
  BY <1>11 DEF vars, serverVars, viewVars, ServerInv, VisitInv
<1> QED
  BY <1>1, <1>2, <1>3, <1>4, <1>5, <1>6, <1>7, <1>8, <1>9, <1>10, <1>11 DEF Next

(* A visit that knows its proxies and has no group of its own offers each  *)
(* undisturbed one that was chosen, so that restoring loses none of them,  *)
(* and adds none.                                                          *)
LEMMA RestoringKeeps ==
    ASSUME SelectorInv, ChoiceStands, NEW v \in Visits, known[v], group[v] = All
    PROVE  /\ SameButDisturbed(Restored(v), chosen)
           /\ \A p \in Undisturbed : RestoredGroup(v) \in {All, at[p]}
<1> USE SelectorAssumption DEF SelectorInv
<1>1. stored # Nothing /\ SameButDisturbed(stored.ids, chosen)
  BY DEF ChoiceIsKept, ChoiceStands
<1>2. \A p \in Undisturbed : RestoredGroup(v) \in {All, at[p]}
  BY <1>1 DEF StoredInv, RestoredGroup
<1>3. ASSUME NEW p \in Undisturbed PROVE p \in Restored(v)
  <2>1. p \in stored.ids
    BY <1>1 DEF SameButDisturbed, Undisturbed
  <2>2. p \in Proxies /\ proxies[v][p] = at[p] /\ at[p] # Gone
    BY DEF Undisturbed, TypeOK, VisitInv, ServerInv
  <2>3. p \in filteredProxies(proxies[v], RestoredGroup(v))
    BY <1>2, <2>2 DEF filteredProxies
  <2> QED
    BY <1>1, <2>1, <2>3 DEF Restored
<1>4. Restored(v) \subseteq stored.ids
  BY <1>1 DEF Restored
<1> QED
  BY <1>1, <1>2, <1>3, <1>4 DEF SameButDisturbed, Undisturbed

(* What leaves the choice, the storage and what is shown alone, or only    *)
(* disturbs proxies, keeps the choice.                                     *)
LEMMA ChoiceUntouched ==
    ASSUME SelectorInv, UNCHANGED <<picks, chosen, stored>>, overwritten' = overwritten,
           disturbed \subseteq disturbed', \A p \in Proxies \ disturbed' : at'[p] = at[p],
           IsReady' => IsReady /\ UNCHANGED <<selection[visits], known[visits]>>
    PROVE  StoredInv' /\ ChoiceIsKept'
<1>1. StoredInv'
  BY DEF SelectorInv, TypeOK, StoredInv, ChoiceStands, Undisturbed
<1>2. ASSUME NEW S, NEW T, SameButDisturbed(S, T) PROVE S \ disturbed' = T \ disturbed'
  BY <1>2 DEF SameButDisturbed
<1>3. ASSUME picks' > 0 /\ ~overwritten'
      PROVE  /\ stored' # Nothing
             /\ stored'.ids \ disturbed' = chosen' \ disturbed'
             /\ IsReady' /\ known'[visits'] =>
                   selection'[visits'] \ disturbed' = chosen' \ disturbed'
  BY <1>2, <1>3 DEF SelectorInv, ChoiceIsKept
<1> QED
  BY <1>1, <1>3 DEF ChoiceIsKept, SameButDisturbed

(* Choosing makes a choice that is stored and shown.                       *)
LEMMA ChoosingKeeps ==
    ASSUME SelectorInv, UNCHANGED <<at, disturbed, visits, proxies>>,
           NEW S \in SUBSET Proxies, NEW e \in Groups \cup {All},
           S \subseteq OfGroup(e), stored' = [ids |-> S, group |-> e],
           chosen' = S, selection'[visits] = S
    PROVE  StoredInv' /\ ChoiceIsKept'
<1> USE SelectorAssumption DEF SelectorInv
<1>1. ASSUME NEW p \in S, p \notin disturbed PROVE e \in {All, at[p]}
  BY <1>1 DEF OfGroup, filteredProxies, VisitInv, TypeOK, NoProxies
<1>2. stored' # Nothing
  BY SavedIsSomething
<1> QED
  BY <1>1, <1>2 DEF StoredInv, ChoiceIsKept, SameButDisturbed, Undisturbed

(* Each step keeps the choice.                                             *)
LEMMA SelectorKeepsChoice ==
    ASSUME SelectorInv, [Next]_vars PROVE StoredInv' /\ ChoiceIsKept'
<1> USE SelectorAssumption DEF SelectorInv
<1>1. ASSUME NEW p \in Proxies, NEW e \in Places, Move(p, e)
      PROVE  StoredInv' /\ ChoiceIsKept'
  <2>1. /\ UNCHANGED <<picks, chosen, stored, answers, visits, selection, known>>
        /\ overwritten' = overwritten /\ disturbed \subseteq disturbed'
    BY <1>1 DEF Move, viewVars, storageVars
  <2>2. \A r \in Proxies \ disturbed' : at'[r] = at[r]
    BY <1>1 DEF Move, TypeOK
  <2> QED
    BY <2>1, <2>2, ChoiceUntouched DEF IsReady
<1>2. ASSUME NEW e \in Groups, DeleteGroup(e) PROVE StoredInv' /\ ChoiceIsKept'
  <2>1. /\ UNCHANGED <<picks, chosen, stored, answers, visits, selection, known>>
        /\ overwritten' = overwritten /\ disturbed \subseteq disturbed'
    BY <1>2 DEF DeleteGroup, viewVars, storageVars
  <2>2. \A r \in Proxies \ disturbed' : at'[r] = at[r]
    BY <1>2 DEF DeleteGroup, TypeOK
  <2> QED
    BY <2>1, <2>2, ChoiceUntouched DEF IsReady
<1>3. CASE Visit
  <2>1. visits' \in Visits /\ answers'[visits'] = {}
    BY <1>3 DEF Visit, TypeOK, Visits, VisitInv
  <2>2. UNCHANGED <<picks, chosen, stored, overwritten, disturbed, at>>
    BY <1>3 DEF Visit, serverVars, storageVars
  <2> QED
    BY <2>1, <2>2, ChoiceUntouched DEF IsReady
<1>4. CASE Leave
  <2>1. UNCHANGED <<picks, chosen, stored, overwritten, disturbed, at, answers, visits,
                    selection, known>>
    BY <1>4 DEF Leave, serverVars, storageVars
  <2> QED
    BY <2>1, ChoiceUntouched DEF IsReady
<1>5. ASSUME NEW v \in Visits, GroupsSettle(v) PROVE StoredInv' /\ ChoiceIsKept'
  <2>1. UNCHANGED <<picks, chosen, stored, overwritten, disturbed, at, visits, selection,
                    known>>
    BY <1>5 DEF GroupsSettle, serverVars, storageVars
  <2>2. IsReady' => IsReady
    BY <1>5, <2>1 DEF GroupsSettle, TypeOK, IsReady
  <2> QED
    BY <2>1, <2>2, ChoiceUntouched
<1>6. ASSUME NEW v \in Visits, ProxiesSettle(v) PROVE StoredInv' /\ ChoiceIsKept'
  <2>1. UNCHANGED <<picks, chosen, stored, overwritten, disturbed, at, visits, selection>>
    BY <1>6 DEF ProxiesSettle, serverVars, storageVars
  <2>2. "ready" \notin answers[v] /\ "ready" \notin answers'[v]
    BY <1>6 DEF ProxiesSettle, TypeOK, VisitInv
  <2>3. visits # v => answers'[visits] = answers[visits] /\ known'[visits] = known[visits]
    BY <1>6 DEF ProxiesSettle, TypeOK
  <2> QED
    BY <2>1, <2>2, <2>3, ChoiceUntouched DEF IsReady
<1>7. ASSUME NEW v \in Visits, Ready(v) PROVE StoredInv' /\ ChoiceIsKept'
  <2> SUFFICES ASSUME ChoiceStands' PROVE StoredInv' /\ ChoiceIsKept'
    BY DEF StoredInv, ChoiceIsKept, ChoiceStands
  <2> DEFINE R == Restored(v)  G == RestoredGroup(v)
  <2>1. /\ UNCHANGED <<at, chosen, disturbed, visits, known, picks>>
        /\ ChoiceStands /\ group[v] = All
    BY <1>7 DEF Ready, serverVars, ChoiceStands
  <2>2. known[v] => /\ SameButDisturbed(R, chosen)
                    /\ \A p \in Undisturbed : G \in {All, at[p]}
    BY <2>1, RestoringKeeps
  <2>3. ~known[v] => R = {}
    BY DEF VisitInv, Restored, filteredProxies, NoProxies
  <2>4. CASE R = {}
    <3>1. stored' = stored
      BY <1>7, <2>4 DEF Ready, ChangesOnRestore, storageVars
    <3>2. IsReady' /\ known'[visits'] => SameButDisturbed(selection'[visits'], chosen)
      BY <1>7, <2>1, <2>2 DEF Ready, TypeOK, ChoiceIsKept, ChoiceStands, IsReady
    <3> QED
      BY <2>1, <3>1, <3>2 DEF StoredInv, ChoiceIsKept, Undisturbed, SameButDisturbed,
                              ChoiceStands
  <2>5. CASE R # {}
    <3>1. stored' = [ids |-> R, group |-> G] /\ stored' # Nothing
      BY <1>7, <2>5, SavedIsSomething DEF Ready, ChangesOnRestore, saveToStorage
    <3>2. StoredInv'
      BY <2>1, <2>2, <2>3, <2>5, <3>1 DEF StoredInv, Undisturbed
    <3>3. IsReady' /\ known'[visits'] => SameButDisturbed(selection'[visits'], chosen)
      BY <1>7, <2>1, <2>2 DEF Ready, TypeOK, ChoiceIsKept, ChoiceStands, IsReady
    <3>4. SameButDisturbed(stored'.ids, chosen)
      BY <2>2, <2>3, <2>5, <3>1
    <3> QED
      BY <2>1, <3>1, <3>2, <3>3, <3>4 DEF ChoiceIsKept, SameButDisturbed
  <2> QED
    BY <2>4, <2>5
<1>8. ASSUME NEW v \in Visits, RestoreState(v) PROVE StoredInv' /\ ChoiceIsKept'
  <2>1. CASE overwritten' = TRUE
    BY <2>1 DEF StoredInv, ChoiceIsKept, ChoiceStands
  <2>2. CASE UNCHANGED <<selection, stored, overwritten>>
    <3>1. UNCHANGED <<picks, chosen, disturbed, at, visits, known>>
      BY <1>8 DEF RestoreState, serverVars
    <3>2. IsReady' => IsReady
      BY <1>8, <3>1 DEF RestoreState, RestoreNothing, RestoreGroup, TypeOK, IsReady
    <3> QED
      BY <2>2, <3>1, <3>2, ChoiceUntouched
  <2> QED
    BY <1>8, <2>1, <2>2 DEF RestoreState, RestoreNothing, RestoreGroup, storageVars
<1>9. ASSUME NEW v \in Visits, ApplyProxySelection(v) PROVE StoredInv' /\ ChoiceIsKept'
  <2>1. CASE overwritten' = TRUE
    BY <2>1 DEF StoredInv, ChoiceIsKept, ChoiceStands
  <2>2. CASE UNCHANGED <<selection, overwritten>>
    <3>1. UNCHANGED <<picks, chosen, disturbed, at, visits, known, stored>>
      BY <1>9 DEF ApplyProxySelection, serverVars
    <3>2. IsReady' => IsReady
      BY <1>9, <3>1 DEF ApplyProxySelection, TypeOK, IsReady
    <3> QED
      BY <2>2, <3>1, <3>2, ChoiceUntouched
  <2> QED
    BY <1>9, <2>1, <2>2 DEF ApplyProxySelection
<1>10. ASSUME NEW e \in Groups \cup {All}, ChangeGroup(e) PROVE StoredInv' /\ ChoiceIsKept'
  <2>1. OfGroup(e) \in SUBSET Proxies
    BY DEF OfGroup, filteredProxies
  <2>2. /\ stored' = [ids |-> OfGroup(e), group |-> e] /\ chosen' = OfGroup(e)
        /\ UNCHANGED <<at, disturbed, visits, proxies>>
    BY <1>10 DEF ChangeGroup, GroupChanges, saveToStorage, serverVars
  <2>3. selection'[visits] = OfGroup(e)
    BY <1>10 DEF ChangeGroup, GroupChanges, TypeOK
  <2> QED
    BY <2>1, <2>2, <2>3, ChoosingKeeps
<1>11. ASSUME NEW S \in SUBSET Proxies, ChangeSelection(S)
       PROVE  StoredInv' /\ ChoiceIsKept'
  <2>1. /\ stored' = [ids |-> S, group |-> group[visits]] /\ chosen' = S
        /\ S \subseteq OfGroup(group[visits])
        /\ UNCHANGED <<at, disturbed, visits, proxies>>
    BY <1>11 DEF ChangeSelection, saveToStorage, serverVars
  <2>2. selection'[visits] = S /\ group[visits] \in Groups \cup {All}
    BY <1>11 DEF ChangeSelection, TypeOK
  <2> QED
    BY <2>1, <2>2, ChoosingKeeps
<1>12. CASE UNCHANGED vars
  <2>1. UNCHANGED <<picks, chosen, stored, overwritten, disturbed, at, answers, visits,
                    selection, known>>
    BY <1>12 DEF vars, serverVars, viewVars, storageVars
  <2> QED
    BY <2>1, ChoiceUntouched DEF IsReady
<1> QED
  BY <1>1, <1>2, <1>3, <1>4, <1>5, <1>6, <1>7, <1>8, <1>9, <1>10, <1>11, <1>12 DEF Next

-----------------------------------------------------------------------------
(* The invariant holds in every behaviour.                                 *)
LEMMA SelectorInvHolds == Spec => []SelectorInv
<1>1. SelectorInv /\ [Next]_vars => SelectorInv'
  BY SelectorTypes, SelectorKeepsWorld, SelectorKeepsChoice DEF SelectorInv
<1> QED
  BY <1>1, SelectorBegins, PTL DEF Spec

(* Of the proxies nobody disturbed, those the user chose last, and no      *)
(* others, are the ones remembered, and the ones selected once the proxies *)
(* of the visit shown have come, however the requests of earlier visits    *)
(* and of this one fall and fail (device_selector.js) - until a            *)
(* restoreState of the usage page (resource_usage_state.js) sets something *)
(* else.  For any proxies, groups, visits and moves.                       *)
THEOREM ChoiceStays == PartsSpec => []ChoiceIsKept
<1>1. SelectorInv => ChoiceIsKept
  BY DEF SelectorInv
<1> QED
  BY <1>1, EachPart, SelectorInvHolds, PTL

-----------------------------------------------------------------------------
(* The proxy form.  What is on its way to the form, and what is in it, for *)
(* a proxy there was, is that proxy's own; a proxy that is added is none   *)
(* of those.                                                               *)
FormFlags ==
    {grouped, formShown, options, preview, canSubmit, bulkShown} \subseteq BOOLEAN

FormCounts ==
    lists \in Nat /\ puts \in Nat /\ parse \in Nat /\ formActs \in 0 .. FormActs

SavedTyped ==
    DOMAIN saved \subseteq FormProxies /\ \A p1 \in DOMAIN saved : saved[p1] \in Form!Records

FormSets ==
    /\ form \in [id : Form!Sources, fields : Form!Sources, oids : Form!Sources,
                 custom : BOOLEAN, group : {Group, None}]
    /\ gets \subseteq [do : {"edit", "clone"}, id : FormProxies, rec : Form!Records]

ApartInv ==
    /\ ProxiesStayApart
    /\ \A a \in gets : a.id \in Old => a.rec.fields = a.id /\ a.rec.oids \in {a.id, None}
    /\ form.id \in Old => form.fields = form.id /\ form.oids \in {form.id, None}

FormInv == FormFlags /\ FormCounts /\ SavedTyped /\ FormSets /\ ApartInv

LEMMA FormBounds ==
    /\ WithOids \subseteq Old /\ Old \subseteq FormProxies /\ None \notin FormProxies
    /\ None # Group /\ FormActs \in Nat /\ << >> \in Texts
    /\ \A t \in Texts : \A i \in DOMAIN t : t[i].good \in BOOLEAN
BY PartsAssumption DEF Form!FormAssumption

LEMMA FormBegins == Form!Init => FormInv
<1> SUFFICES ASSUME Form!Init PROVE FormInv
  OBVIOUS
<1> USE FormBounds DEF Form!Init
<1>1. FormFlags
  BY Zenon DEF FormFlags
<1>2. FormCounts
  BY DEF FormCounts
<1>3. SavedTyped
  BY DEF SavedTyped, Form!Records, Form!Sources
<1>4. FormSets
  BY DEF FormSets, Form!Sources
<1>5. ApartInv
  BY DEF ApartInv, ProxiesStayApart, Form!ProxiesStayApart
<1> QED
  BY <1>1, <1>2, <1>3, <1>4, <1>5 DEF FormInv

LEMMA FormFlagsStay ==
    ASSUME FormFlags, [Form!Next]_(Form!vars) PROVE FormFlags'
<1> USE DEF FormFlags, Form!formVars, Form!bulkVars, Form!Act
<1>1. ASSUME NEW p1 \in FormProxies,
             Form!openModal(p1) \/ Form!cloneProxy(p1) \/ Form!deleteProxy(p1)
      PROVE  FormFlags'
  BY <1>1 DEF Form!openModal, Form!cloneProxy, Form!deleteProxy, Form!Ask
<1>2. ASSUME NEW a \in gets, Form!Filled(a) \/ Form!NotFilled(a) PROVE FormFlags'
  BY <1>2 DEF Form!Filled, Form!NotFilled
<1>3. CASE Form!OpenEmpty \/ Form!closeModal \/ Form!toggleCustomOids \/ Form!saveProxy
  BY <1>3 DEF Form!OpenEmpty, Form!closeModal, Form!toggleCustomOids, Form!saveProxy
<1>4. CASE Form!Saved \/ Form!GroupsListed \/ Form!SaveGroup \/ Form!DeleteGroup
  BY <1>4 DEF Form!Saved, Form!GroupsListed, Form!SaveGroup, Form!DeleteGroup
<1>5. CASE Form!openBulkProxyModal \/ \E t \in Texts : Form!Type(t)
  BY <1>5 DEF Form!openBulkProxyModal, Form!Type
<1>6. CASE Form!renderBulkPreview
  BY <1>6 DEF Form!renderBulkPreview
<1>7. CASE Form!submitBulkProxies
  BY <1>7 DEF Form!submitBulkProxies
<1>8. ASSUME NEW a \in sent, Form!BulkAnswered(a) \/ Form!BulkFails(a) PROVE FormFlags'
  BY <1>8 DEF Form!BulkAnswered, Form!BulkFails
<1>9. CASE UNCHANGED Form!vars
  BY <1>9 DEF Form!vars
<1> QED
  BY <1>1, <1>2, <1>3, <1>4, <1>5, <1>6, <1>7, <1>8, <1>9 DEF Form!Next

LEMMA FormCountsStay ==
    ASSUME FormCounts, [Form!Next]_(Form!vars) PROVE FormCounts'
<1> USE FormBounds DEF FormCounts, Form!formVars, Form!bulkVars, Form!Act
<1>1. ASSUME NEW p1 \in FormProxies,
             Form!openModal(p1) \/ Form!cloneProxy(p1) \/ Form!deleteProxy(p1)
      PROVE  FormCounts'
  BY <1>1 DEF Form!openModal, Form!cloneProxy, Form!deleteProxy, Form!Ask
<1>2. ASSUME NEW a \in gets, Form!Filled(a) \/ Form!NotFilled(a) PROVE FormCounts'
  BY <1>2 DEF Form!Filled, Form!NotFilled
<1>3. CASE Form!OpenEmpty \/ Form!closeModal \/ Form!toggleCustomOids \/ Form!saveProxy
  BY <1>3 DEF Form!OpenEmpty, Form!closeModal, Form!toggleCustomOids, Form!saveProxy
<1>4. CASE Form!Saved \/ Form!GroupsListed \/ Form!SaveGroup \/ Form!DeleteGroup
  BY <1>4 DEF Form!Saved, Form!GroupsListed, Form!SaveGroup, Form!DeleteGroup
<1>5. CASE Form!openBulkProxyModal \/ \E t \in Texts : Form!Type(t)
  BY <1>5 DEF Form!openBulkProxyModal, Form!Type
<1>6. CASE Form!renderBulkPreview
  BY <1>6 DEF Form!renderBulkPreview
<1>7. CASE Form!submitBulkProxies
  BY <1>7 DEF Form!submitBulkProxies
<1>8. ASSUME NEW a \in sent, Form!BulkAnswered(a) \/ Form!BulkFails(a) PROVE FormCounts'
  BY <1>8 DEF Form!BulkAnswered, Form!BulkFails
<1>9. CASE UNCHANGED Form!vars
  BY <1>9 DEF Form!vars
<1> QED
  BY <1>1, <1>2, <1>3, <1>4, <1>5, <1>6, <1>7, <1>8, <1>9 DEF Form!Next

(* The steps of the form that change what is saved or what is in the form. *)
LEMMA FormStays ==
    ASSUME SavedTyped, FormSets, ApartInv, UNCHANGED <<saved, form>>, gets' \subseteq gets
    PROVE  (SavedTyped /\ FormSets /\ ApartInv)'
BY DEF SavedTyped, FormSets, ApartInv, ProxiesStayApart, Form!ProxiesStayApart

LEMMA SavesStayApart ==
    ASSUME FormSets, SavedTyped, ApartInv, Form!saveProxy
    PROVE  (SavedTyped /\ FormSets /\ ApartInv)'
<1> DEFINE rec == [fields |-> form.fields, group |-> form.group,
                   oids |-> IF form.custom THEN form.oids ELSE None]
<1>1. rec \in Form!Records
  BY DEF FormSets, Form!Records, Form!Sources
<1>2. form.id \in Old => rec.fields = form.id /\ rec.oids \in {form.id, None}
  BY DEF ApartInv, FormSets
<1>3. UNCHANGED <<form, gets>> /\ FormSets'
  BY DEF Form!saveProxy, FormSets
<1>4. \/ form.id \in DOMAIN saved /\ saved' = [saved EXCEPT ![form.id] = rec]
      \/ \E p1 \in FormProxies \ (DOMAIN saved \cup Old) :
            saved' = [q1 \in DOMAIN saved \cup {p1} |-> IF q1 = p1 THEN rec ELSE saved[q1]]
      \/ saved' = saved
  BY DEF Form!saveProxy
<1> HIDE DEF rec
<1>5. CASE form.id \in DOMAIN saved /\ saved' = [saved EXCEPT ![form.id] = rec]
  <2>1. SavedTyped'
    BY <1>1, <1>5 DEF SavedTyped
  <2>2. ProxiesStayApart'
    BY <1>2, <1>5 DEF ApartInv, ProxiesStayApart, Form!ProxiesStayApart
  <2> QED
    BY <1>3, <2>1, <2>2 DEF ApartInv
<1>6. ASSUME NEW p1 \in FormProxies \ (DOMAIN saved \cup Old),
             saved' = [q1 \in DOMAIN saved \cup {p1} |-> IF q1 = p1 THEN rec ELSE saved[q1]]
      PROVE  (SavedTyped /\ FormSets /\ ApartInv)'
  <2>1. SavedTyped'
    BY <1>1, <1>6 DEF SavedTyped
  <2>2. ProxiesStayApart'
    BY <1>6 DEF ApartInv, ProxiesStayApart, Form!ProxiesStayApart
  <2> QED
    BY <1>3, <2>1, <2>2 DEF ApartInv
<1>7. CASE saved' = saved
  BY <1>3, <1>7, FormStays
<1> QED
  BY <1>4, <1>5, <1>6, <1>7

LEMMA FormSteps ==
    ASSUME FormInv, [Form!Next]_(Form!vars) PROVE FormInv'
<1>0. FormFlags' /\ FormCounts' /\ options \in BOOLEAN
  BY FormFlagsStay, FormCountsStay DEF FormInv, FormFlags
<1> SUFFICES (SavedTyped /\ FormSets /\ ApartInv)'
  BY <1>0 DEF FormInv
<1> USE FormBounds DEF FormInv, Form!formVars
<1>1. ASSUME NEW p1 \in FormProxies, Form!openModal(p1) \/ Form!cloneProxy(p1)
      PROVE  (SavedTyped /\ FormSets /\ ApartInv)'
  <2>1. PICK d \in {"edit", "clone"} : Form!Ask(d, p1)
    BY <1>1 DEF Form!openModal, Form!cloneProxy
  <2>2. /\ p1 \in DOMAIN saved /\ UNCHANGED <<saved, form>>
        /\ gets' = gets \cup {[do |-> d, id |-> p1, rec |-> saved[p1]]}
    BY <2>1 DEF Form!Ask
  <2>3. [do |-> d, id |-> p1, rec |-> saved[p1]]
            \in [do : {"edit", "clone"}, id : FormProxies, rec : Form!Records]
    BY <2>2 DEF SavedTyped
  <2>4. p1 \in Old => saved[p1].fields = p1 /\ saved[p1].oids \in {p1, None}
    BY <2>2 DEF ApartInv, ProxiesStayApart, Form!ProxiesStayApart
  <2>5. SavedTyped' /\ FormSets'
    BY <2>2, <2>3 DEF SavedTyped, FormSets
  <2>6. ApartInv'
    BY <2>2, <2>4 DEF ApartInv, ProxiesStayApart, Form!ProxiesStayApart
  <2> QED
    BY <2>5, <2>6
<1>2. ASSUME NEW p1 \in FormProxies, Form!deleteProxy(p1)
      PROVE  (SavedTyped /\ FormSets /\ ApartInv)'
  <2>1. /\ saved' = [q1 \in DOMAIN saved \ {p1} |-> saved[q1]]
        /\ UNCHANGED <<form, gets>>
    BY <1>2 DEF Form!deleteProxy
  <2>2. SavedTyped' /\ FormSets'
    BY <2>1 DEF SavedTyped, FormSets
  <2>3. ApartInv'
    BY <2>1 DEF ApartInv, ProxiesStayApart, Form!ProxiesStayApart
  <2> QED
    BY <2>2, <2>3
<1>3. ASSUME NEW a \in gets, Form!Filled(a) PROVE (SavedTyped /\ FormSets /\ ApartInv)'
  <2>1. /\ gets' = gets \ {a} /\ UNCHANGED saved
        /\ form' = [id |-> IF a.do = "edit" THEN a.id ELSE None, fields |-> a.rec.fields,
                    oids |-> a.rec.oids, custom |-> a.rec.oids # None,
                    group |-> Form!Selected(a.rec.group)]
    BY <1>3 DEF Form!Filled, Form!fillForm
  <2>2. /\ a.id \in FormProxies /\ a.rec \in Form!Records
        /\ a.rec.fields \in Form!Sources /\ a.rec.oids \in Form!Sources
        /\ a.rec.group \in {Group, None}
    BY DEF FormSets, Form!Records
  <2>3. Form!Selected(a.rec.group) \in {Group, None}
    BY <2>2 DEF Form!Selected
  <2>4. SavedTyped' /\ FormSets'
    BY <2>1, <2>2, <2>3 DEF SavedTyped, FormSets, Form!Sources
  <2>5. a.id \in Old => a.rec.fields = a.id /\ a.rec.oids \in {a.id, None}
    BY DEF ApartInv
  <2>6. ApartInv'
    BY <2>1, <2>5 DEF ApartInv, ProxiesStayApart, Form!ProxiesStayApart
  <2> QED
    BY <2>4, <2>6
<1>4. ASSUME NEW a \in gets, Form!NotFilled(a) PROVE (SavedTyped /\ FormSets /\ ApartInv)'
  BY <1>4, FormStays DEF Form!NotFilled
<1>5. CASE Form!OpenEmpty \/ Form!toggleCustomOids \/ Form!GroupsListed
  <2>1. /\ UNCHANGED <<saved, gets>> /\ form'.oids = form.oids
        /\ form'.id = None \/ (form'.id = form.id /\ form'.fields = form.fields)
    BY <1>5 DEF Form!OpenEmpty, Form!toggleCustomOids, Form!GroupsListed, FormSets
  <2>2. SavedTyped' /\ FormSets'
    BY <1>5 DEF SavedTyped, FormSets, Form!OpenEmpty, Form!toggleCustomOids,
                Form!GroupsListed, Form!Sources
  <2>3. ApartInv'
    BY <2>1 DEF ApartInv, ProxiesStayApart, Form!ProxiesStayApart
  <2> QED
    BY <2>2, <2>3
<1>6. CASE Form!saveProxy
  BY <1>6, SavesStayApart
<1>7. CASE Form!closeModal \/ Form!Saved \/ Form!SaveGroup
  BY <1>7, FormStays DEF Form!closeModal, Form!Saved, Form!SaveGroup
<1>8. CASE Form!DeleteGroup
  <2>1. /\ saved' = [p1 \in DOMAIN saved |-> [saved[p1] EXCEPT !.group = None]]
        /\ UNCHANGED <<form, gets>>
    BY <1>8 DEF Form!DeleteGroup
  <2>2. \A p1 \in DOMAIN saved : /\ saved'[p1] \in Form!Records
                                 /\ saved'[p1].fields = saved[p1].fields
                                 /\ saved'[p1].oids = saved[p1].oids
    BY <2>1 DEF SavedTyped, Form!Records
  <2>3. SavedTyped' /\ FormSets'
    BY <2>1, <2>2 DEF SavedTyped, FormSets
  <2>4. ApartInv'
    BY <2>1, <2>2 DEF ApartInv, ProxiesStayApart, Form!ProxiesStayApart
  <2> QED
    BY <2>3, <2>4
<1>9. CASE \/ Form!openBulkProxyModal \/ Form!renderBulkPreview \/ Form!submitBulkProxies
           \/ \E t \in Texts : Form!Type(t)
           \/ \E a \in sent : Form!BulkAnswered(a) \/ Form!BulkFails(a)
  BY <1>9, FormStays DEF Form!openBulkProxyModal, Form!renderBulkPreview,
     Form!submitBulkProxies, Form!Type, Form!BulkAnswered, Form!BulkFails
<1>10. CASE UNCHANGED Form!vars
  BY <1>10, FormStays DEF Form!vars
<1> QED
  BY <1>1, <1>2, <1>3, <1>4, <1>5, <1>6, <1>7, <1>8, <1>9, <1>10 DEF Form!Next

LEMMA FormInvHolds == Form!Spec => []FormInv
BY FormBegins, FormSteps, PTL DEF Form!Spec

(* Saving the form never puts the fields or the OIDs of one proxy into     *)
(* another that was there (openModal, fillForm, cloneProxy and saveProxy   *)
(* of proxy_management.js), for any proxies and any number of acts.        *)
THEOREM ProxiesAlwaysApart == PartsSpec => []ProxiesStayApart
<1>1. FormInv => ProxiesStayApart
  BY DEF FormInv, ApartInv
<1> QED
  BY <1>1, EachPart, FormInvHolds, PTL

-----------------------------------------------------------------------------
(* The bulk dialog.  An answer under way for the rows of now speaks of     *)
(* good rows by their own hosts, and whatever it says was added is at the  *)
(* server.                                                                 *)
BulkResults == [host : Form!Hosts, status : Form!Results]
BulkRow == [host : Form!Hosts, ok : BOOLEAN, result : {None} \cup BulkResults]

RowsTyped ==
    hosts \subseteq Form!Hosts /\ text \in Texts
    /\ \A i \in DOMAIN bulkRows : bulkRows[i] \in BulkRow

Answered(a) ==
    /\ a.parse \in Nat /\ a.parse <= parse /\ DOMAIN a.results = DOMAIN a.rows
    /\ \A k \in DOMAIN a.rows :
          /\ a.results[k] \in BulkResults
          /\ a.results[k].status = "created" => a.results[k].host \in hosts
          /\ a.parse = parse => /\ a.rows[k] \in DOMAIN bulkRows
                                /\ bulkRows[a.rows[k]].ok
                                /\ a.results[k].host = bulkRows[a.rows[k]].host

BulkInv == RowsTyped /\ ResultsStayWithRows /\ \A a \in sent : Answered(a)

LEMMA BulkBegins == Form!Init => BulkInv
BY FormBounds DEF Form!Init, BulkInv, RowsTyped, ResultsStayWithRows,
   Form!ResultsStayWithRows

(* The rows of a text are no results yet.                                  *)
LEMMA ParsedRows ==
    ASSUME NEW t \in Texts
    PROVE  LET rows == Form!parseBulkText(t) IN
           \A i \in DOMAIN rows : rows[i] \in BulkRow /\ rows[i].result = None
<1>1. ASSUME NEW i \in DOMAIN t
      PROVE  /\ t[i].host \in Form!Hosts
             /\ (t[i].good /\ \A j \in 1 .. i - 1 : t[j].host # t[i].host) \in BOOLEAN
  BY FormBounds DEF Form!Hosts
<1>2. DOMAIN Form!parseBulkText(t) = DOMAIN t
  BY DEF Form!parseBulkText
<1>3. ASSUME NEW i \in DOMAIN t
      PROVE  LET row == Form!parseBulkText(t)[i] IN row \in BulkRow /\ row.result = None
  BY <1>1 DEF Form!parseBulkText, BulkRow
<1> QED
  BY <1>2, <1>3

(* A new parse: no answer under way is of its rows.                        *)
LEMMA Reparsed ==
    ASSUME FormCounts, BulkInv, parse' = parse + 1, UNCHANGED <<hosts, sent>>, text' \in Texts,
           \A i \in DOMAIN bulkRows' : bulkRows'[i] \in BulkRow /\ bulkRows'[i].result = None
    PROVE  BulkInv'
<1>1. RowsTyped' /\ ResultsStayWithRows'
  BY DEF BulkInv, RowsTyped, ResultsStayWithRows, Form!ResultsStayWithRows
<1>2. ASSUME NEW a \in sent PROVE Answered(a)'
  <2>1. a.parse <= parse' /\ a.parse # parse' /\ Answered(a)
    BY DEF BulkInv, Answered, FormCounts
  <2> QED
    BY <2>1 DEF Answered
<1> QED
  BY <1>1, <1>2 DEF BulkInv

(* The rows that are sent are good rows of the preview.                    *)
LEMMA SentRows ==
    ASSUME NEW rows \in Form!ValidRows, NEW k \in DOMAIN rows
    PROVE  rows[k] \in DOMAIN bulkRows /\ bulkRows[rows[k]].ok
BY DEF Form!ValidRows, Form!ValidPlaces, Form!IsValid

LEMMA Submitted ==
    ASSUME FormCounts, BulkInv, Form!submitBulkProxies PROVE BulkInv'
<1>1. PICK rows \in Form!ValidRows :
         LET names == [k \in DOMAIN rows |-> bulkRows[rows[k]].host] IN
         \E refused \in SUBSET Form!ToSet(names) :
            LET told == [k \in DOMAIN rows |->
                              [host |-> names[k], status |-> Form!ResultOf(names[k], refused)]]
            IN /\ hosts' = hosts \cup {r.host : r \in
                                {x1 \in Form!ToSet(told) : x1.status = "created"}}
               /\ sent' = sent \cup {[parse |-> parse, rows |-> rows, results |-> told]}
  BY DEF Form!submitBulkProxies
<1> DEFINE names == [k \in DOMAIN rows |-> bulkRows[rows[k]].host]
<1>2. PICK refused \in SUBSET Form!ToSet(names) :
         LET told == [k \in DOMAIN rows |->
                            [host |-> names[k], status |-> Form!ResultOf(names[k], refused)]]
         IN /\ hosts' = hosts \cup {r.host : r \in
                             {x1 \in Form!ToSet(told) : x1.status = "created"}}
            /\ sent' = sent \cup {[parse |-> parse, rows |-> rows, results |-> told]}
  BY <1>1
<1> DEFINE told == [k \in DOMAIN rows |->
                          [host |-> names[k], status |-> Form!ResultOf(names[k], refused)]]
<1>3. PICK a0 : a0 = [parse |-> parse, rows |-> rows, results |-> told]
  OBVIOUS
<1>4. /\ hosts' = hosts \cup {r.host : r \in
                             {x1 \in Form!ToSet(told) : x1.status = "created"}}
      /\ sent' = sent \cup {a0}
  BY <1>2, <1>3
<1>5. UNCHANGED <<text, bulkRows, parse>>
  BY DEF Form!submitBulkProxies
<1>6. /\ DOMAIN told = DOMAIN rows
      /\ \A k \in DOMAIN rows : /\ told[k] \in BulkResults
                                /\ told[k].host = bulkRows[rows[k]].host
  BY SentRows DEF BulkInv, RowsTyped, BulkRow, BulkResults, Form!ResultOf, Form!Results
<1>7. a0.parse = parse /\ a0.rows = rows /\ a0.results = told
  BY <1>3
<1> HIDE DEF told, names
<1>8. \A k \in DOMAIN rows : told[k].status = "created" => told[k].host \in hosts'
  BY <1>4, <1>6 DEF Form!ToSet
<1>9. hosts \subseteq hosts' /\ hosts' \subseteq Form!Hosts
  BY <1>4, <1>6 DEF Form!ToSet, BulkInv, RowsTyped, BulkResults
<1>10. Answered(a0)'
  BY <1>5, <1>6, <1>7, <1>8, SentRows DEF Answered, FormCounts
<1>11. \A a \in sent : Answered(a)'
  BY <1>5, <1>9 DEF Answered, BulkInv
<1>12. RowsTyped' /\ ResultsStayWithRows'
  BY <1>5, <1>9 DEF BulkInv, RowsTyped, ResultsStayWithRows, Form!ResultsStayWithRows
<1> QED
  BY <1>4, <1>10, <1>11, <1>12 DEF BulkInv

(* The answer marks each row with the result that is its own.              *)
LEMMA Marked ==
    ASSUME BulkInv, NEW a \in sent, a.parse = parse, bulkRows' = Form!WithResults(a),
           UNCHANGED <<hosts, text, parse>>
    PROVE  /\ RowsTyped' /\ ResultsStayWithRows' /\ DOMAIN bulkRows' = DOMAIN bulkRows
           /\ \A i \in DOMAIN bulkRows : bulkRows'[i].host = bulkRows[i].host
                                         /\ bulkRows'[i].ok = bulkRows[i].ok
<1>1. DOMAIN bulkRows' = DOMAIN bulkRows
  BY DEF Form!WithResults
<1>2. ASSUME NEW i \in DOMAIN bulkRows
      PROVE  /\ bulkRows'[i] \in BulkRow /\ bulkRows'[i].host = bulkRows[i].host
             /\ bulkRows'[i].ok = bulkRows[i].ok
             /\ LET row == bulkRows'[i] IN
                row.result # None =>
                    /\ row.ok /\ row.result.host = row.host
                    /\ row.result.status = "created" => row.host \in hosts
  <2>1. bulkRows[i] \in BulkRow
    BY DEF BulkInv, RowsTyped
  <2>2. CASE \E k \in DOMAIN a.rows : Form!RowOfResult(a, k) = i
    <3> DEFINE k == CHOOSE j \in DOMAIN a.rows : Form!RowOfResult(a, j) = i
    <3>1. k \in DOMAIN a.rows /\ a.rows[k] = i
      BY <2>2 DEF Form!RowOfResult
    <3>2. bulkRows'[i] = [bulkRows[i] EXCEPT !.result = a.results[k]]
      BY <2>2 DEF Form!WithResults
    <3> HIDE DEF k
    <3>3. /\ a.results[k] \in BulkResults /\ bulkRows[i].ok
          /\ a.results[k].host = bulkRows[i].host
          /\ a.results[k].status = "created" => a.results[k].host \in hosts
      BY <3>1 DEF BulkInv, Answered
    <3>4. /\ bulkRows'[i].host = bulkRows[i].host /\ bulkRows'[i].ok = bulkRows[i].ok
          /\ bulkRows'[i].result = a.results[k] /\ bulkRows'[i] \in BulkRow
      BY <2>1, <3>2, <3>3 DEF BulkRow
    <3> QED
      BY <3>3, <3>4
  <2>3. CASE ~\E k \in DOMAIN a.rows : Form!RowOfResult(a, k) = i
    <3>1. bulkRows'[i] = bulkRows[i]
      BY <2>3 DEF Form!WithResults
    <3> QED
      BY <2>1, <3>1 DEF BulkInv, ResultsStayWithRows, Form!ResultsStayWithRows
  <2> QED
    BY <2>2, <2>3
<1>3. RowsTyped'
  BY <1>1, <1>2 DEF BulkInv, RowsTyped
<1>4. ResultsStayWithRows'
  BY <1>1, <1>2 DEF ResultsStayWithRows, Form!ResultsStayWithRows
<1> QED
  BY <1>1, <1>2, <1>3, <1>4

LEMMA BulkSteps ==
    ASSUME FormInv, BulkInv, [Form!Next]_(Form!vars) PROVE BulkInv'
<1> USE DEF FormInv
<1>1. CASE Form!openBulkProxyModal
  BY <1>1, FormBounds, Reparsed DEF Form!openBulkProxyModal
<1>2. CASE Form!renderBulkPreview
  <2>1. /\ bulkRows' = Form!parseBulkText(text) /\ parse' = parse + 1
        /\ UNCHANGED <<hosts, text, sent>> /\ text \in Texts
    BY <1>2 DEF Form!renderBulkPreview, BulkInv, RowsTyped
  <2> QED
    BY <2>1, ParsedRows, Reparsed
<1>3. CASE Form!submitBulkProxies
  BY <1>3, Submitted
<1>4. ASSUME NEW a \in sent, Form!BulkAnswered(a) PROVE BulkInv'
  <2>1. /\ sent' = sent \ {a} /\ UNCHANGED <<hosts, text, parse>>
        /\ bulkRows' = IF a.parse = parse THEN Form!WithResults(a) ELSE bulkRows
    BY <1>4 DEF Form!BulkAnswered
  <2>2. CASE a.parse = parse
    <3>1. /\ RowsTyped' /\ ResultsStayWithRows' /\ DOMAIN bulkRows' = DOMAIN bulkRows
          /\ \A i \in DOMAIN bulkRows : bulkRows'[i].host = bulkRows[i].host
                                        /\ bulkRows'[i].ok = bulkRows[i].ok
      BY <2>1, <2>2, Marked
    <3>2. \A b \in sent : Answered(b)'
      BY <2>1, <3>1 DEF BulkInv, Answered
    <3> QED
      BY <2>1, <3>1, <3>2 DEF BulkInv
  <2>3. CASE a.parse # parse
    BY <2>1, <2>3 DEF BulkInv, RowsTyped, ResultsStayWithRows, Form!ResultsStayWithRows,
       Answered
  <2> QED
    BY <2>2, <2>3
<1>5. CASE ~ \/ Form!openBulkProxyModal \/ Form!renderBulkPreview \/ Form!submitBulkProxies
             \/ \E a \in sent : Form!BulkAnswered(a)
  <2>1. UNCHANGED <<hosts, bulkRows, parse>> /\ sent' \subseteq sent /\ text' \in Texts
    <3> USE DEF Form!formVars, Form!bulkVars, BulkInv, RowsTyped
    <3>1. ASSUME NEW p1 \in FormProxies,
                 Form!openModal(p1) \/ Form!cloneProxy(p1) \/ Form!deleteProxy(p1)
          PROVE  UNCHANGED <<hosts, bulkRows, parse, sent, text>>
      BY <3>1 DEF Form!openModal, Form!cloneProxy, Form!deleteProxy, Form!Ask
    <3>2. ASSUME NEW a \in gets, Form!Filled(a) \/ Form!NotFilled(a)
          PROVE  UNCHANGED <<hosts, bulkRows, parse, sent, text>>
      BY <3>2 DEF Form!Filled, Form!NotFilled
    <3>3. CASE Form!OpenEmpty \/ Form!closeModal \/ Form!toggleCustomOids \/ Form!saveProxy
      BY <3>3 DEF Form!OpenEmpty, Form!closeModal, Form!toggleCustomOids, Form!saveProxy
    <3>4. CASE Form!Saved \/ Form!GroupsListed \/ Form!SaveGroup \/ Form!DeleteGroup
      BY <3>4 DEF Form!Saved, Form!GroupsListed, Form!SaveGroup, Form!DeleteGroup
    <3>5. ASSUME NEW t \in Texts, Form!Type(t)
          PROVE  /\ UNCHANGED <<hosts, bulkRows, parse>>
                 /\ sent' \subseteq sent /\ text' \in Texts
      BY <3>5 DEF Form!Type
    <3>6. ASSUME NEW a \in sent, Form!BulkFails(a)
          PROVE  /\ UNCHANGED <<hosts, bulkRows, parse>>
                 /\ sent' \subseteq sent /\ text' \in Texts
      BY <3>6 DEF Form!BulkFails
    <3>7. CASE UNCHANGED Form!vars
      BY <3>7 DEF Form!vars
    <3> QED
      BY <1>5, <3>1, <3>2, <3>3, <3>4, <3>5, <3>6, <3>7 DEF Form!Next
  <2> QED
    BY <2>1 DEF BulkInv, RowsTyped, ResultsStayWithRows, Form!ResultsStayWithRows, Answered
<1> QED
  BY <1>1, <1>2, <1>3, <1>4, <1>5

LEMMA BulkInvHolds == Form!Spec => [](FormInv /\ BulkInv)
BY FormBegins, FormSteps, BulkBegins, BulkSteps, PTL DEF Form!Spec

(* A result stands at the row of its host, and a host said to be added is  *)
(* at the server (parseBulkText, renderBulkPreview and submitBulkProxies   *)
(* of proxy_management.js), for any texts and any number of acts.          *)
THEOREM ResultsAlwaysStay == PartsSpec => []ResultsStayWithRows
<1>1. BulkInv => ResultsStayWithRows
  BY DEF BulkInv
<1> QED
  BY <1>1, EachPart, BulkInvHolds, PTL

-----------------------------------------------------------------------------
(* The settings page.  Without an overlap there is one save at most that   *)
(* is not over, the last one; its PUTs carry what it was made with, and    *)
(* what is answered well is stored until an import or a reset sets out,    *)
(* and then no save is under way.  PUTs of a document that was loaded anew *)
(* are there only as long as nothing has been saved since.                 *)
SettingsFlags == {hasChanges, settingsHere, overlap, wiped} \subseteq BOOLEAN

SettingsCounts == saves \in 0 .. MaxSaves /\ settingsActs \in 0 .. SettingsActs

Answers == {"none", "served", "refused", "ok", "error"}
Puts == [save : Settings!Saves \cup {0}, part : Settings!Parts, value : Settings!Values]

PutsTyped ==
    /\ server \in [Settings!Parts -> Settings!Values]
    /\ fields \in [Settings!Parts -> Settings!Values]
    /\ settingsSent \in [Settings!Parts -> Settings!Values]
    /\ settingsPuts \subseteq Puts
    /\ outcome \in [Settings!Saves -> [Settings!Parts -> Answers]]

LoadsTyped ==
    /\ initial \in [Settings!Parts -> Settings!Values \cup {None}]
    /\ settingsVisit \in Nat
    /\ settingsLoads \subseteq [visit : Nat, part : Settings!Parts, value : Settings!Values]
    /\ filled \subseteq Nat \X Settings!Parts
    /\ cfgStatus \in {"empty", "loaded", "saving", "saved", "failed", "other"}

ImportsTyped ==
    imports \subseteq [act : 1 .. SettingsActs, heard : BOOLEAN,
                       stage : {"out", "done", "refused"}]

SettingsTyped ==
    SettingsFlags /\ SettingsCounts /\ PutsTyped /\ LoadsTyped /\ ImportsTyped

LaterSaves ==
    /\ \A n \in Settings!Saves : n > saves => outcome[n] = Settings!Both("none")
    /\ \A m \in settingsPuts : m.save <= saves

OneSave ==
    /\ \A n \in Settings!Saves, p \in Settings!Parts :
          n < saves => outcome[n][p] \notin {"served", "refused"}
    /\ \/ \A m \in settingsPuts :
             /\ m.save = saves /\ saves > 0
             /\ m.value = settingsSent[m.part] /\ outcome[saves][m.part] = "none"
       \/ /\ \A m \in settingsPuts : m.save = 0
          /\ \A n \in Settings!Saves : outcome[n] = Settings!Both("none")
    /\ cfgStatus = "saved" \/ Settings!Saving =>
          \A p \in Settings!Parts :
             saves > 0 /\ outcome[saves][p] \in {"served", "ok"} => server[p] = settingsSent[p]
    /\ cfgStatus = "saved" => saves > 0 /\ \A p \in Settings!Parts : outcome[saves][p] = "ok"
    /\ Settings!Importing => cfgStatus # "saved" /\ ~Settings!Saving

SettingsInv == SettingsTyped /\ LaterSaves /\ (~overlap => OneSave)

LEMMA SettingsBounds == MaxSaves \in Nat /\ SettingsActs \in Nat
BY PartsAssumption DEF Settings!SettingsAssumption

LEMMA LoadsOfVisit ==
    ASSUME NEW v \in Nat, NEW config \in [Settings!Parts -> Settings!Values]
    PROVE  Settings!Loads(v, config)
               \subseteq [visit : Nat, part : Settings!Parts, value : Settings!Values]
BY DEF Settings!Loads

LEMMA BothTypes ==
    ASSUME NEW S, NEW v \in S PROVE Settings!Both(v) \in [Settings!Parts -> S]
BY DEF Settings!Both

LEMMA SettingsBegins == Settings!Init => SettingsInv
<1> SUFFICES ASSUME Settings!Init PROVE SettingsInv
  OBVIOUS
<1> USE SettingsBounds, BothTypes DEF Settings!Init
<1>1. SettingsFlags
  BY Zenon DEF SettingsFlags
<1>2. SettingsCounts
  BY DEF SettingsCounts
<1>3. PutsTyped
  BY DEF PutsTyped, Settings!Values, Answers
<1>4. LoadsTyped
  BY <1>3, LoadsOfVisit DEF LoadsTyped, PutsTyped, Settings!Values
<1>5. LaterSaves /\ OneSave
  BY DEF LaterSaves, OneSave, Settings!Saves, Settings!Both, Settings!Saving,
         Settings!Importing
<1>6. ImportsTyped
  BY DEF ImportsTyped
<1> QED
  BY <1>1, <1>2, <1>3, <1>4, <1>5, <1>6 DEF SettingsInv, SettingsTyped

LEMMA SettingsFlagsStay ==
    ASSUME SettingsFlags, [Settings!Next]_(Settings!vars) PROVE SettingsFlags'
<1> USE DEF SettingsFlags
<1>1. ASSUME NEW l \in settingsLoads, Settings!Loaded(l) \/ Settings!LoadFails(l)
      PROVE  SettingsFlags'
  BY <1>1 DEF Settings!Loaded, Settings!LoadFails
<1>2. CASE Settings!Leave \/ Settings!Visit \/ Settings!exportConfig
  BY <1>2 DEF Settings!Leave, Settings!Visit, Settings!exportConfig
<1>8. CASE Settings!ImportOrReset
  BY <1>8 DEF Settings!ImportOrReset
<1>9. ASSUME NEW i \in imports,
             Settings!ServeImport(i) \/ Settings!Reload(i) \/ Settings!ImportFails(i)
      PROVE  SettingsFlags'
  BY <1>9 DEF Settings!ServeImport, Settings!Reload, Settings!ImportFails
<1>3. ASSUME NEW p \in Settings!Parts, Settings!Edit(p) PROVE SettingsFlags'
  BY <1>3 DEF Settings!Edit, Settings!checkForChanges
<1>4. ASSUME NEW confirmed \in BOOLEAN, Settings!saveAllConfig(confirmed)
      PROVE  SettingsFlags'
  BY <1>4 DEF Settings!saveAllConfig, Settings!checkForChanges
<1>5. ASSUME NEW m \in settingsPuts, Settings!Serve(m) PROVE SettingsFlags'
  BY <1>5 DEF Settings!Serve
<1>6. ASSUME NEW n \in Settings!Saves, NEW p \in Settings!Parts, Settings!Answered(n, p)
      PROVE  SettingsFlags'
  BY <1>6 DEF Settings!Answered
<1>7. CASE UNCHANGED Settings!vars
  BY <1>7 DEF Settings!vars
<1> QED
  BY <1>1, <1>2, <1>3, <1>4, <1>5, <1>6, <1>7, <1>8, <1>9 DEF Settings!Next

LEMMA SettingsCountsStay ==
    ASSUME SettingsCounts, [Settings!Next]_(Settings!vars) PROVE SettingsCounts'
<1> USE SettingsBounds DEF SettingsCounts, Settings!Act
<1>1. ASSUME NEW l \in settingsLoads, Settings!Loaded(l) \/ Settings!LoadFails(l)
      PROVE  SettingsCounts'
  BY <1>1 DEF Settings!Loaded, Settings!LoadFails
<1>2. CASE Settings!Leave \/ Settings!exportConfig \/ Settings!ImportOrReset
  <2>1. Settings!Act /\ saves' = saves
    BY <1>2, Zenon DEF Settings!Leave, Settings!exportConfig, Settings!ImportOrReset
  <2> QED
    BY <2>1
<1>8. CASE Settings!Visit
  BY <1>8 DEF Settings!Visit
<1>9. ASSUME NEW i \in imports,
             Settings!ServeImport(i) \/ Settings!Reload(i) \/ Settings!ImportFails(i)
      PROVE  SettingsCounts'
  BY <1>9 DEF Settings!ServeImport, Settings!Reload, Settings!ImportFails
<1>3. ASSUME NEW p \in Settings!Parts, Settings!Edit(p) PROVE SettingsCounts'
  BY <1>3 DEF Settings!Edit
<1>4. ASSUME NEW confirmed \in BOOLEAN, Settings!saveAllConfig(confirmed)
      PROVE  SettingsCounts'
  BY <1>4 DEF Settings!saveAllConfig
<1>5. ASSUME NEW m \in settingsPuts, Settings!Serve(m) PROVE SettingsCounts'
  BY <1>5 DEF Settings!Serve
<1>6. ASSUME NEW n \in Settings!Saves, NEW p \in Settings!Parts, Settings!Answered(n, p)
      PROVE  SettingsCounts'
  BY <1>6 DEF Settings!Answered
<1>7. CASE UNCHANGED Settings!vars
  BY <1>7 DEF Settings!vars
<1> QED
  BY <1>1, <1>2, <1>3, <1>4, <1>5, <1>6, <1>7, <1>8, <1>9 DEF Settings!Next

(* An import that sets out is named by the act it is.                      *)
LEMMA ImportsTypesStay ==
    ASSUME SettingsTyped, [Settings!Next]_(Settings!vars) PROVE ImportsTyped'
<1> USE DEF SettingsTyped, ImportsTyped
<1>1. ASSUME UNCHANGED imports PROVE ImportsTyped'
  BY <1>1
<1>2. ASSUME NEW l \in settingsLoads, Settings!Loaded(l) \/ Settings!LoadFails(l)
      PROVE  UNCHANGED imports
  BY <1>2 DEF Settings!Loaded, Settings!LoadFails
<1>3. CASE Settings!Leave \/ Settings!Visit \/ Settings!exportConfig
  BY <1>1, <1>3 DEF Settings!Leave, Settings!Visit, Settings!exportConfig
<1>4. ASSUME NEW p \in Settings!Parts, Settings!Edit(p) PROVE UNCHANGED imports
  BY <1>4 DEF Settings!Edit
<1>5. ASSUME NEW confirmed \in BOOLEAN, Settings!saveAllConfig(confirmed)
      PROVE  UNCHANGED imports
  BY <1>5 DEF Settings!saveAllConfig
<1>6. ASSUME NEW m \in settingsPuts, Settings!Serve(m) PROVE UNCHANGED imports
  BY <1>6 DEF Settings!Serve
<1>7. ASSUME NEW n \in Settings!Saves, NEW p \in Settings!Parts, Settings!Answered(n, p)
      PROVE  UNCHANGED imports
  BY <1>7 DEF Settings!Answered
<1>8. CASE Settings!ImportOrReset
  <2>1. /\ imports' = imports \cup {[act |-> settingsActs', heard |-> TRUE, stage |-> "out"]}
        /\ settingsActs < SettingsActs /\ settingsActs' = settingsActs + 1
    BY <1>8 DEF Settings!ImportOrReset, Settings!Act
  <2>2. settingsActs' \in 1 .. SettingsActs
    BY <2>1, SettingsBounds DEF SettingsCounts
  <2>3. TRUE \in BOOLEAN /\ "out" \in {"out", "done", "refused"}
    BY Zenon
  <2>4. [act |-> settingsActs', heard |-> TRUE, stage |-> "out"]
            \in [act : 1 .. SettingsActs, heard : BOOLEAN, stage : {"out", "done", "refused"}]
    BY <2>2, <2>3, Zenon
  <2> QED
    BY <2>1, <2>4, Zenon
<1>9. ASSUME NEW i \in imports, Settings!ServeImport(i) PROVE ImportsTyped'
  BY <1>9 DEF Settings!ServeImport
<1>10. ASSUME NEW i \in imports, Settings!Reload(i) PROVE ImportsTyped'
  <2>1. imports' = {[j EXCEPT !.heard = FALSE] : j \in imports \ {i}}
    BY <1>10 DEF Settings!Reload
  <2> QED
    BY <2>1
<1>11. ASSUME NEW i \in imports, Settings!ImportFails(i) PROVE ImportsTyped'
  BY <1>11 DEF Settings!ImportFails
<1>12. CASE UNCHANGED Settings!vars
  BY <1>1, <1>12 DEF Settings!vars
<1> QED
  BY <1>1, <1>2, <1>3, <1>4, <1>5, <1>6, <1>7, <1>8, <1>9, <1>10, <1>11, <1>12
     DEF Settings!Next

LEMMA LoadsTypesStay ==
    ASSUME SettingsTyped, [Settings!Next]_(Settings!vars) PROVE LoadsTyped'
<1> USE DEF SettingsTyped, LoadsTyped
<1>0. /\ Blank \in Settings!Values /\ Imported \in Settings!Values
      /\ None \in Settings!Values \cup {None}
  BY DEF Settings!Values
<1>1. ASSUME NEW l \in settingsLoads, Settings!Loaded(l) PROVE LoadsTyped'
  <2>1. PICK got \in {l.value, server[l.part]} :
            /\ fields' = IF settingsHere THEN [fields EXCEPT ![l.part] = got] ELSE fields
            /\ initial' = [initial EXCEPT ![l.part] =
                               IF l.part = "resource" THEN fields'[l.part] ELSE got]
    BY <1>1 DEF Settings!Loaded
  <2>2. l.part \in Settings!Parts /\ got \in Settings!Values /\ l.visit \in Nat
    BY <2>1 DEF PutsTyped
  <2>3. fields' \in [Settings!Parts -> Settings!Values]
    BY <2>1, <2>2 DEF PutsTyped
  <2>4. initial' \in [Settings!Parts -> Settings!Values \cup {None}]
    BY <2>1, <2>2, <2>3
  <2>5. filled' \subseteq Nat \X Settings!Parts /\ settingsLoads' \subseteq settingsLoads
    BY <1>1, <2>2 DEF Settings!Loaded
  <2>6. cfgStatus' \in {"loaded", cfgStatus} /\ settingsVisit' = settingsVisit
    BY <1>1 DEF Settings!Loaded, Settings!Status
  <2> QED
    BY <2>4, <2>5, <2>6
<1>2. ASSUME NEW l \in settingsLoads, Settings!LoadFails(l) PROVE LoadsTyped'
  BY <1>2 DEF Settings!LoadFails, Settings!Status
<1>3. CASE Settings!Visit
  <2>0. settingsVisit' = settingsVisit + 1
    BY <1>3, Zenon DEF Settings!Visit
  <2>1. settingsVisit' \in Nat
    BY <2>0
  <2>2. Settings!Loads(settingsVisit', server)
            \subseteq [visit : Nat, part : Settings!Parts, value : Settings!Values]
    BY <2>1, LoadsOfVisit DEF PutsTyped
  <2> QED
    BY <1>3, <2>1, <2>2 DEF Settings!Visit
<1>4. CASE Settings!exportConfig \/ Settings!ImportOrReset \/ Settings!Leave
  BY <1>4 DEF Settings!exportConfig, Settings!ImportOrReset, Settings!Leave
<1>11. ASSUME NEW i \in imports, Settings!ServeImport(i) \/ Settings!ImportFails(i)
       PROVE  LoadsTyped'
  BY <1>11 DEF Settings!ServeImport, Settings!ImportFails, Settings!Status
<1>5. ASSUME NEW i \in imports, Settings!Reload(i) PROVE LoadsTyped'
  <2>0. settingsVisit' = settingsVisit + 1
    BY <1>5, Zenon DEF Settings!Reload
  <2>1. settingsVisit' \in Nat
    BY <2>0
  <2>2. Settings!Loads(settingsVisit', server)
            \subseteq [visit : Nat, part : Settings!Parts, value : Settings!Values]
    BY <2>1, LoadsOfVisit DEF PutsTyped
  <2>3. initial' \in [Settings!Parts -> Settings!Values \cup {None}]
    BY <1>0, <1>5, BothTypes DEF Settings!Reload
  <2>4. settingsLoads'
            \subseteq [visit : Nat, part : Settings!Parts, value : Settings!Values]
    BY <1>5, <2>2 DEF Settings!Reload
  <2>5. filled' = {} /\ cfgStatus' = "empty"
    BY <1>5 DEF Settings!Reload
  <2> QED
    BY <2>1, <2>3, <2>4, <2>5
<1>6. ASSUME NEW p \in Settings!Parts, Settings!Edit(p) PROVE LoadsTyped'
  BY <1>6 DEF Settings!Edit
<1>7. ASSUME NEW confirmed \in BOOLEAN, Settings!saveAllConfig(confirmed)
      PROVE  LoadsTyped'
  BY <1>7 DEF Settings!saveAllConfig
<1>8. ASSUME NEW m \in settingsPuts, Settings!Serve(m) PROVE LoadsTyped'
  BY <1>8 DEF Settings!Serve
<1>9. ASSUME NEW n \in Settings!Saves, NEW p \in Settings!Parts, Settings!Answered(n, p)
      PROVE  LoadsTyped'
  <2>1. initial' \in [Settings!Parts -> Settings!Values \cup {None}]
    BY <1>9 DEF Settings!Answered, PutsTyped
  <2>2. cfgStatus' \in {"empty", "loaded", "saving", "saved", "failed", "other"}
    BY <1>9 DEF Settings!Answered, Settings!Status
  <2> QED
    BY <1>9, <2>1, <2>2 DEF Settings!Answered
<1>10. CASE UNCHANGED Settings!vars
  BY <1>10 DEF Settings!vars
<1> QED
  BY <1>1, <1>2, <1>3, <1>4, <1>5, <1>6, <1>7, <1>8, <1>9, <1>10, <1>11
     DEF Settings!Next

LEMMA PutsTypesStay ==
    ASSUME SettingsTyped, [Settings!Next]_(Settings!vars) PROVE PutsTyped'
<1> USE DEF SettingsTyped, PutsTyped
<1>0. /\ Blank \in Settings!Values /\ Imported \in Settings!Values
      /\ Typed \in Settings!Values
  BY DEF Settings!Values
<1>1. ASSUME NEW l \in settingsLoads, Settings!Loaded(l) PROVE PutsTyped'
  <2>1. PICK got \in {l.value, server[l.part]} :
            fields' = IF settingsHere THEN [fields EXCEPT ![l.part] = got] ELSE fields
    BY <1>1 DEF Settings!Loaded
  <2>2. l.part \in Settings!Parts /\ got \in Settings!Values
    BY <2>1 DEF LoadsTyped
  <2> QED
    BY <1>1, <2>1, <2>2 DEF Settings!Loaded
<1>2. ASSUME NEW l \in settingsLoads, Settings!LoadFails(l) PROVE PutsTyped'
  BY <1>2 DEF Settings!LoadFails
<1>3. CASE \/ Settings!Leave \/ Settings!Visit \/ Settings!exportConfig
           \/ Settings!ImportOrReset
  BY <1>0, <1>3, BothTypes
     DEF Settings!Leave, Settings!Visit, Settings!exportConfig, Settings!ImportOrReset
<1>10. ASSUME NEW i \in imports, Settings!ServeImport(i) \/ Settings!ImportFails(i)
       PROVE  PutsTyped'
  <2>1. Settings!Both(Imported) \in [Settings!Parts -> Settings!Values]
    BY <1>0, BothTypes
  <2>2. /\ server' \in {Settings!Both(Imported), server}
        /\ UNCHANGED <<fields, settingsSent, settingsPuts, outcome>>
    BY <1>10 DEF Settings!ServeImport, Settings!ImportFails
  <2> QED
    BY <2>1, <2>2
<1>4. ASSUME NEW i \in imports, Settings!Reload(i) PROVE PutsTyped'
  <2>1. fields' \in [Settings!Parts -> Settings!Values]
    BY <1>0, <1>4, BothTypes DEF Settings!Reload
  <2>2. settingsPuts' \subseteq Puts
    BY <1>4 DEF Settings!Reload, Puts
  <2>3. Settings!Both("none") \in [Settings!Parts -> Answers]
    BY BothTypes DEF Answers
  <2> QED
    BY <1>4, <2>1, <2>2, <2>3 DEF Settings!Reload
<1>5. ASSUME NEW p \in Settings!Parts, Settings!Edit(p) PROVE PutsTyped'
  BY <1>0, <1>5 DEF Settings!Edit
<1>6. ASSUME NEW confirmed \in BOOLEAN, Settings!saveAllConfig(confirmed)
      PROVE  PutsTyped'
  <2>1. CASE UNCHANGED <<settingsPuts, settingsSent>>
    BY <1>6, <2>1 DEF Settings!saveAllConfig
  <2>2. CASE ~UNCHANGED <<settingsPuts, settingsSent>>
    <3>1. /\ saves' = saves + 1 /\ saves < MaxSaves /\ settingsSent' = fields
          /\ settingsPuts' = settingsPuts \cup
                {[save |-> saves', part |-> p, value |-> fields[p]] : p \in Settings!Parts}
          /\ UNCHANGED <<server, fields, outcome>>
      BY <1>6, <2>2 DEF Settings!saveAllConfig
    <3>2. saves' \in Settings!Saves
      BY <3>1, SettingsBounds DEF SettingsCounts, Settings!Saves
    <3> QED
      BY <3>1, <3>2 DEF Puts
  <2> QED
    BY <2>1, <2>2
<1>7. ASSUME NEW m \in settingsPuts, Settings!Serve(m) PROVE PutsTyped'
  <2>1. m \in Puts
    BY <1>7
  <2>2. outcome' \in [Settings!Saves -> [Settings!Parts -> Answers]]
    BY <1>7, <2>1 DEF Settings!Serve, Settings!Outcome, Puts, Answers
  <2>3. server' \in [Settings!Parts -> Settings!Values]
    BY <1>7, <2>1 DEF Settings!Serve, Puts
  <2> QED
    BY <1>7, <2>2, <2>3 DEF Settings!Serve
<1>8. ASSUME NEW n \in Settings!Saves, NEW p \in Settings!Parts, Settings!Answered(n, p)
      PROVE  PutsTyped'
  BY <1>8 DEF Settings!Answered, Answers
<1>9. CASE UNCHANGED Settings!vars
  BY <1>9 DEF Settings!vars
<1> QED
  BY <1>1, <1>2, <1>3, <1>4, <1>5, <1>6, <1>7, <1>8, <1>9, <1>10 DEF Settings!Next

(* What a save makes known of later saves: nothing.                        *)
LEMMA LaterSavesStay ==
    ASSUME SettingsTyped, LaterSaves, [Settings!Next]_(Settings!vars) PROVE LaterSaves'
<1> USE DEF LaterSaves
<1>0. /\ saves \in Nat /\ settingsPuts \subseteq Puts /\ Settings!Saves \subseteq Nat
      /\ outcome \in [Settings!Saves -> [Settings!Parts -> Answers]]
  BY SettingsBounds DEF SettingsTyped, SettingsCounts, PutsTyped, Settings!Saves
<1>1. ASSUME UNCHANGED <<outcome, saves, settingsPuts>>
      PROVE  LaterSaves'
  BY <1>1
<1>2. ASSUME NEW l \in settingsLoads, Settings!Loaded(l) \/ Settings!LoadFails(l)
      PROVE  UNCHANGED <<outcome, saves, settingsPuts>>
  BY <1>2 DEF Settings!Loaded, Settings!LoadFails
<1>3. CASE \/ Settings!Leave \/ Settings!Visit \/ Settings!exportConfig
           \/ Settings!ImportOrReset \/ UNCHANGED Settings!vars
  BY <1>1, <1>3 DEF Settings!Leave, Settings!Visit, Settings!exportConfig,
                    Settings!ImportOrReset, Settings!vars
<1>9. ASSUME NEW i \in imports, Settings!ServeImport(i) \/ Settings!ImportFails(i)
      PROVE  UNCHANGED <<outcome, saves, settingsPuts>>
  BY <1>9 DEF Settings!ServeImport, Settings!ImportFails
<1>4. ASSUME NEW i \in imports, Settings!Reload(i) PROVE LaterSaves'
  BY <1>0, <1>4 DEF Settings!Reload, Puts
<1>5. ASSUME NEW p \in Settings!Parts, Settings!Edit(p)
      PROVE  UNCHANGED <<outcome, saves, settingsPuts>>
  BY <1>5 DEF Settings!Edit
<1>6. ASSUME NEW confirmed \in BOOLEAN, Settings!saveAllConfig(confirmed)
      PROVE  LaterSaves'
  <2>1. outcome' = outcome /\ saves' \in {saves, saves + 1}
    BY <1>6 DEF Settings!saveAllConfig
  <2>2. \A m \in settingsPuts' : m \in settingsPuts \/ m.save = saves'
    BY <1>6 DEF Settings!saveAllConfig
  <2>3. \A m \in settingsPuts : m.save \in Nat /\ m.save <= saves'
    BY <1>0, <2>1 DEF Puts, Settings!Saves
  <2>4. saves' \in Nat /\ saves <= saves'
    BY <1>0, <2>1
  <2> QED
    BY <1>0, <2>1, <2>2, <2>3, <2>4
<1>7. ASSUME NEW m \in settingsPuts, Settings!Serve(m)
      PROVE  LaterSaves'
  <2>0. m.save \in Nat
    <3>1. m \in Puts
      BY <1>0
    <3> QED
      BY <3>1, SettingsBounds DEF Puts, Settings!Saves
  <2>1. saves' = saves /\ settingsPuts' \subseteq settingsPuts
    BY <1>7 DEF Settings!Serve
  <2>2. \A n \in Settings!Saves : n > saves => outcome'[n] = outcome[n]
    BY <1>0, <1>7, <2>0 DEF Settings!Serve, Settings!Outcome
  <2> QED
    BY <2>1, <2>2
<1>8. ASSUME NEW n \in Settings!Saves, NEW p \in Settings!Parts, Settings!Answered(n, p)
      PROVE  LaterSaves'
  <2>1. /\ outcome[n][p] \in {"served", "refused"} /\ UNCHANGED <<saves, settingsPuts>>
        /\ outcome' = [outcome EXCEPT
                          ![n][p] = IF @ = "served" THEN "ok" ELSE "error"]
    BY <1>8 DEF Settings!Answered
  <2>2. ~(n > saves)
    BY <2>1 DEF Settings!Both
  <2> QED
    BY <1>0, <2>1, <2>2
<1> QED
  BY <1>1, <1>2, <1>3, <1>4, <1>5, <1>6, <1>7, <1>8, <1>9 DEF Settings!Next

LEMMA OneSaveStays ==
    ASSUME SettingsInv, [Settings!Next]_(Settings!vars), ~overlap' PROVE OneSave'
<1> USE DEF OneSave
<1>0. /\ saves \in Nat /\ settingsPuts \subseteq Puts /\ Settings!Saves \subseteq Nat \ {0}
      /\ outcome \in [Settings!Saves -> [Settings!Parts -> Answers]]
      /\ server \in [Settings!Parts -> Settings!Values]
      /\ LaterSaves /\ (saves > 0 => saves \in Settings!Saves)
  BY SettingsBounds
     DEF SettingsInv, SettingsTyped, SettingsCounts, PutsTyped, Settings!Saves
<1>9. ASSUME UNCHANGED <<outcome, settingsPuts>> PROVE Settings!Saving' = Settings!Saving
  BY <1>9 DEF Settings!Saving
<1>10. ASSUME UNCHANGED imports PROVE Settings!Importing' = Settings!Importing
  BY <1>10 DEF Settings!Importing
<1>1. ASSUME UNCHANGED <<outcome, saves, settingsPuts, settingsSent, server>>, OneSave,
             cfgStatus' = "saved" => cfgStatus = "saved",
             Settings!Importing' => Settings!Importing
      PROVE  OneSave'
  BY <1>1, <1>9
<1>2. ASSUME NEW l \in settingsLoads, Settings!Loaded(l) \/ Settings!LoadFails(l)
      PROVE  OneSave'
  <2>1. overlap' = overlap /\ OneSave
    BY <1>2 DEF Settings!Loaded, Settings!LoadFails, SettingsInv
  <2> QED
    BY <1>1, <1>2, <1>10, <2>1
       DEF Settings!Loaded, Settings!LoadFails, Settings!Status
<1>3. CASE Settings!Leave \/ Settings!Visit \/ Settings!exportConfig \/ UNCHANGED Settings!vars
  <2>1. overlap' = overlap /\ OneSave
    BY <1>3 DEF Settings!Leave, Settings!Visit, Settings!exportConfig, Settings!vars,
                SettingsInv
  <2> QED
    BY <1>1, <1>3, <1>10, <2>1
       DEF Settings!Leave, Settings!Visit, Settings!exportConfig, Settings!vars
<1>4. ASSUME NEW p \in Settings!Parts, Settings!Edit(p) PROVE OneSave'
  <2>1. overlap' = overlap /\ OneSave
    BY <1>4 DEF Settings!Edit, SettingsInv
  <2> QED
    BY <1>1, <1>4, <1>10, <2>1 DEF Settings!Edit
<1>11. CASE Settings!ImportOrReset
  <2>1. /\ UNCHANGED <<outcome, saves, settingsPuts, settingsSent, server>>
        /\ overlap' = (overlap \/ Settings!Saving) /\ cfgStatus' = "other"
    BY <1>11 DEF Settings!ImportOrReset
  <2>2. ~overlap /\ ~Settings!Saving
    BY <2>1, Zenon
  <2>3. OneSave /\ ~Settings!Saving'
    BY <1>9, <2>1, <2>2 DEF SettingsInv
  <2> QED
    BY <2>1, <2>2, <2>3
<1>12. ASSUME NEW i \in imports, Settings!ServeImport(i) PROVE OneSave'
  <2>1. /\ UNCHANGED <<outcome, saves, settingsPuts, settingsSent, cfgStatus, overlap>>
        /\ i.stage = "out"
    BY <1>12 DEF Settings!ServeImport
  <2>2. OneSave /\ Settings!Importing
    BY <2>1 DEF SettingsInv, Settings!Importing
  <2> QED
    BY <1>9, <2>1, <2>2
<1>13. ASSUME NEW i \in imports, Settings!ImportFails(i) PROVE OneSave'
  <2>1. /\ UNCHANGED <<outcome, saves, settingsPuts, settingsSent, server, overlap>>
        /\ imports' \subseteq imports /\ cfgStatus' \in {cfgStatus, "other"}
    BY <1>13 DEF Settings!ImportFails, Settings!Status
  <2>2. OneSave /\ (Settings!Importing' => Settings!Importing)
    BY <2>1 DEF SettingsInv, Settings!Importing
  <2> QED
    BY <1>1, <2>1, <2>2
<1>5. ASSUME NEW i \in imports, Settings!Reload(i) PROVE OneSave'
  <2>0. overlap' = overlap /\ OneSave
    BY <1>5 DEF Settings!Reload, SettingsInv
  <2>1. outcome' = [n \in Settings!Saves |-> Settings!Both("none")] /\ saves' = saves
    BY <1>5 DEF Settings!Reload
  <2>2. \A m \in settingsPuts' : m.save = 0
    BY <1>0, <1>5 DEF Settings!Reload, Puts
  <2>3. cfgStatus' # "saved"
    BY <1>5 DEF Settings!Reload
  <2>4. \A n \in Settings!Saves, p \in Settings!Parts : outcome'[n][p] = "none"
    BY <2>1 DEF Settings!Both
  <2>5. ASSUME Settings!Importing' PROVE ~Settings!Saving'
    <3>1. imports' = {[j EXCEPT !.heard = FALSE] : j \in imports \ {i}}
      BY <1>5 DEF Settings!Reload
    <3>2. PICK j \in imports : [j EXCEPT !.heard = FALSE].stage = "out"
      BY <2>5, <3>1 DEF Settings!Importing
    <3>3. j.stage = "out"
      BY <3>2 DEF SettingsInv, SettingsTyped, ImportsTyped
    <3>4. ~Settings!Saving
      BY <2>0, <3>3 DEF Settings!Importing
    <3>5. settingsPuts' = {[m EXCEPT !.save = 0] : m \in settingsPuts}
      BY <1>5 DEF Settings!Reload
    <3> QED
      BY <2>4, <3>4, <3>5 DEF Settings!Saving
  <2> QED
    BY <1>0, <2>1, <2>2, <2>3, <2>4, <2>5
<1>6. ASSUME NEW confirmed \in BOOLEAN, Settings!saveAllConfig(confirmed) PROVE OneSave'
  <2>1. CASE saves' = saves
    <3>1. UNCHANGED <<outcome, saves, settingsPuts, settingsSent, server, cfgStatus, overlap,
                      imports>>
      BY <1>0, <1>6, <2>1 DEF Settings!saveAllConfig
    <3> QED
      BY <1>1, <1>10, <3>1 DEF SettingsInv
  <2>2. CASE saves' # saves
    <3>1. /\ saves' = saves + 1 /\ settingsSent' = fields /\ cfgStatus' = "saving"
          /\ settingsPuts' = settingsPuts \cup
                {[save |-> saves', part |-> p, value |-> fields[p]] : p \in Settings!Parts}
          /\ overlap' = (Settings!Saving \/ Settings!Importing)
          /\ UNCHANGED <<server, outcome, imports>>
      BY <1>6, <2>2 DEF Settings!saveAllConfig
    <3>7. ~Settings!Saving /\ ~Settings!Importing
      BY <3>1, Zenon
    <3>2. settingsPuts = {} /\ ~Settings!Saving /\ ~Settings!Importing'
      BY <1>10, <3>1, <3>7 DEF Settings!Saving
    <3>3. saves' \in Settings!Saves /\ outcome[saves'] = Settings!Both("none")
      BY <1>0, <1>6, <3>1, SettingsBounds
         DEF Settings!saveAllConfig, Settings!Saves, LaterSaves
    <3>4. \A p \in Settings!Parts : outcome'[saves'][p] = "none"
      BY <3>1, <3>3 DEF Settings!Both
    <3>5. \A n \in Settings!Saves, p \in Settings!Parts :
             outcome'[n][p] \notin {"served", "refused"}
      BY <3>1, <3>2 DEF Settings!Saving
    <3>6. \A m \in settingsPuts' :
             m.save = saves' /\ m.value = settingsSent'[m.part] /\ m.part \in Settings!Parts
      BY <3>1, <3>2
    <3>8. saves' > 0 /\ cfgStatus' # "saved"
      BY <1>0, <3>1
    <3>9. \A n \in Settings!Saves, p \in Settings!Parts :
             n < saves' => outcome'[n][p] \notin {"served", "refused"}
      BY <3>5
    <3>10. \A p \in Settings!Parts : ~(outcome'[saves'][p] \in {"served", "ok"})
      BY <3>4
    <3>11. \A m \in settingsPuts' :
              /\ m.save = saves' /\ saves' > 0
              /\ m.value = settingsSent'[m.part] /\ outcome'[saves'][m.part] = "none"
      BY <3>4, <3>6, <3>8
    <3> QED
      BY <3>2, <3>8, <3>9, <3>10, <3>11
  <2> QED
    BY <2>1, <2>2
<1>7. ASSUME NEW m \in settingsPuts, Settings!Serve(m) PROVE OneSave'
  <2>0. OneSave /\ m \in Puts
    BY <1>0, <1>7 DEF Settings!Serve, SettingsInv
  <2>1. /\ settingsPuts' = settingsPuts \ {m}
        /\ UNCHANGED <<saves, settingsSent, cfgStatus, imports>>
    BY <1>7 DEF Settings!Serve
  <2>4. Settings!Saving /\ ~Settings!Importing'
    BY <1>10, <2>0, <2>1 DEF Settings!Saving
  <2>2. CASE m.save = 0
    <3>1. outcome' = outcome
      BY <1>7, <2>2 DEF Settings!Serve, Settings!Outcome
    <3>2. \A n \in Settings!Saves, p \in Settings!Parts : outcome[n][p] = "none"
      BY <1>0, <2>0, <2>2 DEF Settings!Both, LaterSaves
    <3> QED
      BY <1>0, <2>0, <2>1, <2>4, <3>1, <3>2
  <2>3. CASE m.save # 0
    <3>1. m.save = saves /\ saves \in Settings!Saves /\ m.part \in Settings!Parts
      BY <1>0, <2>0, <2>3 DEF Puts
    <3>2. m.value = settingsSent[m.part] /\ outcome[saves][m.part] = "none"
      BY <2>0, <2>3
    <3>3. PICK what \in {"served", "refused"} :
             /\ outcome' = [outcome EXCEPT ![saves][m.part] = what]
             /\ server' = IF what = "served" THEN [server EXCEPT ![m.part] = m.value]
                          ELSE server
      BY <1>7, <2>3, <3>1 DEF Settings!Serve, Settings!Outcome
    <3>4. \A n \in Settings!Saves, p \in Settings!Parts :
             outcome'[n][p] = IF n = saves /\ p = m.part THEN what ELSE outcome[n][p]
      BY <1>0, <3>1, <3>3
    <3>5. cfgStatus # "saved"
      BY <2>0, <3>1, <3>2
    <3>6. ASSUME NEW q \in settingsPuts'
          PROVE  /\ q.save = saves /\ q.value = settingsSent[q.part]
                 /\ outcome'[saves][q.part] = "none"
      <4>1. q \in settingsPuts /\ q # m /\ q \in Puts
        BY <1>0, <2>1
      <4>2. /\ q.save = saves /\ q.value = settingsSent[q.part]
            /\ outcome[saves][q.part] = "none"
        BY <2>0, <2>3, <4>1
      <4>3. q.part # m.part
        BY <2>0, <3>1, <3>2, <4>1, <4>2 DEF Puts
      <4> QED
        BY <3>1, <3>4, <4>1, <4>2, <4>3 DEF Puts
    <3> QED
      BY <1>0, <2>0, <2>1, <2>4, <3>1, <3>2, <3>3, <3>4, <3>5, <3>6
  <2> QED
    BY <2>2, <2>3
<1>8. ASSUME NEW n \in Settings!Saves, NEW p \in Settings!Parts, Settings!Answered(n, p)
      PROVE  OneSave'
  <2>0. OneSave
    BY <1>8 DEF Settings!Answered, SettingsInv
  <2>1. /\ outcome[n][p] \in {"served", "refused"}
        /\ UNCHANGED <<saves, settingsPuts, settingsSent, server, imports>>
        /\ outcome' = [outcome EXCEPT
                          ![n][p] = IF @ = "served" THEN "ok" ELSE "error"]
        /\ cfgStatus' \in {"saved", "failed", cfgStatus}
        /\ cfgStatus' = "saved" =>
              cfgStatus = "saved" \/ \A q \in Settings!Parts : outcome'[n][q] = "ok"
    BY <1>8 DEF Settings!Answered, Settings!Resolves, Settings!Status
  <2>8. Settings!Saving /\ ~Settings!Importing'
    BY <1>10, <2>0, <2>1 DEF Settings!Saving
  <2>2. n = saves
    BY <1>0, <2>0, <2>1 DEF LaterSaves, Settings!Both
  <2>3. \A k \in Settings!Saves, q \in Settings!Parts :
           outcome'[k][q] = IF k = n /\ q = p
                            THEN IF outcome[n][p] = "served" THEN "ok" ELSE "error"
                            ELSE outcome[k][q]
    BY <1>0, <2>1
  <2>4. \A m \in settingsPuts :
           /\ m.save = saves /\ saves > 0
           /\ m.value = settingsSent[m.part] /\ outcome[saves][m.part] = "none"
    BY <2>0, <2>1, <2>2 DEF Settings!Both
  <2>5. \A m \in settingsPuts : m.part \in Settings!Parts
    BY <1>0 DEF Puts
  <2>6. \A m \in settingsPuts' : outcome'[saves][m.part] = "none"
    BY <2>1, <2>2, <2>3, <2>4, <2>5
  <2>7. cfgStatus # "saved"
    BY <2>0, <2>1, <2>2
  <2> QED
    BY <1>0, <2>0, <2>1, <2>2, <2>3, <2>4, <2>6, <2>7, <2>8
<1> QED
  BY <1>2, <1>3, <1>4, <1>5, <1>6, <1>7, <1>8, <1>11, <1>12, <1>13 DEF Settings!Next

LEMMA SettingsInvHolds == Settings!Spec => []SettingsInv
<1>1. ASSUME SettingsInv, [Settings!Next]_(Settings!vars) PROVE SettingsInv'
  <2>1. SettingsTyped'
    BY <1>1, SettingsFlagsStay, SettingsCountsStay, PutsTypesStay, LoadsTypesStay,
       ImportsTypesStay
       DEF SettingsInv, SettingsTyped
  <2> QED
    BY <1>1, <2>1, LaterSavesStay, OneSaveStays DEF SettingsInv
<1> QED
  BY <1>1, SettingsBegins, PTL DEF Settings!Spec

(* "Saved" means that both configurations at the server are those of the   *)
(* form that was saved (saveAllConfig and its Promise.all in settings.js), *)
(* for any number of saves, visits, imports, resets and new documents, in  *)
(* whatever order the requests are served and answered, if no other save   *)
(* was under way beside that one and no import or reset was on its way.    *)
THEOREM SavedIsAlwaysStored == PartsSpec => []SavedIsStored
<1>1. SettingsInv => SavedIsStored
  <2> SUFFICES ASSUME SettingsInv, cfgStatus = "saved", ~overlap PROVE server = settingsSent
    BY DEF SavedIsStored, Settings!SavedIsStored
  <2>1. \A p \in Settings!Parts : server[p] = settingsSent[p]
    BY DEF SettingsInv, OneSave
  <2> QED
    BY <2>1 DEF SettingsInv, SettingsTyped, PutsTyped
<1> QED
  BY <1>1, EachPart, SettingsInvHolds, PTL

-----------------------------------------------------------------------------
(* The grid of the traffic log page.  As long as no collection is served   *)
(* and waits for its answer, and none failed after it was served, all rows *)
(* that are shown or on their way are of the versions at the server; as    *)
(* long as no other proxies were chosen since the cache began, all are of  *)
(* the proxies chosen.                                                     *)
Unserved == {c \in collects : ~c.served}

TrafficFlags == {trafficHere, trafficLoading, mixed, trafficUnheard} \subseteq BOOLEAN

TrafficCounts ==
    /\ trafficMade \in 0 .. MaxCollects /\ trafficActs \in 0 .. MaxActs
    /\ trafficGrid \in 0 .. MaxGrids /\ grids \in 0 .. MaxGrids

Collections == [id : 1 .. MaxCollects, of : SUBSET Proxies, served : BOOLEAN]
Reads == [grid : 1 .. MaxGrids, block : Blocks, of : SUBSET Proxies,
          rows : Traffic!Rows \cup {Traffic!Nothing}]

TrafficSets ==
    /\ trafficSelection \subseteq Proxies
    /\ collects \subseteq Collections
    /\ \A c \in collects : c.id <= trafficMade

(* A version counts the collections served, which are made before.         *)
VersionInv ==
    /\ version \in Traffic!Versions
    /\ IsFiniteSet(Unserved)
    /\ \A p \in Proxies : version[p] + Cardinality(Unserved) <= trafficMade

GridSets ==
    /\ reads \subseteq Reads
    /\ blocksShown \in [Blocks -> Traffic!Rows \cup {Traffic!Nothing}]

TrafficTyped == TrafficFlags /\ TrafficCounts /\ TrafficSets /\ VersionInv /\ GridSets

There == {b \in Blocks : blocksShown[b] # Traffic!Nothing}
Came == {r \in reads : r.rows # Traffic!Nothing}

GridInv ==
    /\ ~trafficUnheard /\ (\A c \in collects : ~c.served) =>
          /\ \A b \in There : \A p \in blocksShown[b].of : blocksShown[b].at[p] = version[p]
          /\ \A r \in Came : \A p \in r.rows.of : r.rows.at[p] = version[p]
    /\ ~mixed =>
          /\ \A b \in There : blocksShown[b].of = trafficSelection
          /\ \A r \in reads : r.of = trafficSelection
    /\ \A r \in Came : r.rows.of = r.of

TrafficInv == TrafficTyped /\ GridInv

LEMMA TrafficBegins == Traffic!Init => TrafficInv
<1> SUFFICES ASSUME Traffic!Init PROVE TrafficInv
  OBVIOUS
<1> USE PartsAssumption DEF Traffic!PageAssumption, Traffic!Init
<1>1. TrafficFlags
  BY Zenon DEF TrafficFlags
<1>2. TrafficCounts /\ TrafficSets
  BY DEF TrafficCounts, TrafficSets
<1>3. Unserved = {}
  BY DEF Unserved
<1>4. VersionInv
  BY <1>3, FS_EmptySet DEF VersionInv, Traffic!Versions
<1>5. GridSets
  BY DEF GridSets, Traffic!Empty
<1>6. GridInv
  BY DEF GridInv, There, Came, Traffic!Empty
<1> QED
  BY <1>1, <1>2, <1>4, <1>5, <1>6 DEF TrafficInv, TrafficTyped

LEMMA TrafficFlagsStay ==
    ASSUME TrafficFlags, TrafficSets, [Traffic!Next]_(Traffic!vars) PROVE TrafficFlags'
<1> USE DEF TrafficFlags, Traffic!userVars
<1>1. ASSUME NEW c \in collects,
             Traffic!CollectServed(c) \/ Traffic!CollectAnswered(c) \/ Traffic!CollectFails(c)
      PROVE  TrafficFlags'
  BY <1>1 DEF Traffic!CollectServed, Traffic!CollectAnswered, Traffic!CollectFails,
              Traffic!ShowsCollected, Traffic!NewCache, Traffic!destroyTlGrid
<1>2. ASSUME NEW r \in reads,
             Traffic!ReadServed(r) \/ Traffic!ReadAnswered(r) \/ Traffic!ReadFails(r)
      PROVE  TrafficFlags'
  BY <1>2 DEF Traffic!ReadServed, Traffic!ReadAnswered, Traffic!ReadFails
<1>3. ASSUME NEW b \in Blocks, Traffic!Scroll(b) PROVE TrafficFlags'
  BY <1>3 DEF Traffic!Scroll
<1>4. CASE Traffic!Refresh \/ Traffic!Refilter
  BY <1>4 DEF Traffic!Refresh, Traffic!Refilter, Traffic!NewCache
<1>5. ASSUME NEW S \in SUBSET Proxies, Traffic!Select(S) PROVE TrafficFlags'
  BY <1>5 DEF Traffic!Select
<1>6. CASE Traffic!Collect \/ Traffic!Leave \/ Traffic!Return \/ UNCHANGED Traffic!vars
  BY <1>6 DEF Traffic!Collect, Traffic!Leave, Traffic!Return, Traffic!destroyTlGrid,
              Traffic!vars
<1> QED
  BY <1>1, <1>2, <1>3, <1>4, <1>5, <1>6 DEF Traffic!Next

LEMMA TrafficCountsStay ==
    ASSUME TrafficCounts, [Traffic!Next]_(Traffic!vars) PROVE TrafficCounts'
<1> USE PartsAssumption
    DEF TrafficCounts, Traffic!userVars, Traffic!PageAssumption, Traffic!Act
<1>1. ASSUME NEW c \in collects,
             Traffic!CollectServed(c) \/ Traffic!CollectAnswered(c) \/ Traffic!CollectFails(c)
      PROVE  TrafficCounts'
  BY <1>1 DEF Traffic!CollectServed, Traffic!CollectAnswered, Traffic!CollectFails,
              Traffic!ShowsCollected, Traffic!NewCache, Traffic!destroyTlGrid
<1>2. ASSUME NEW r \in reads,
             Traffic!ReadServed(r) \/ Traffic!ReadAnswered(r) \/ Traffic!ReadFails(r)
      PROVE  TrafficCounts'
  BY <1>2 DEF Traffic!ReadServed, Traffic!ReadAnswered, Traffic!ReadFails
<1>3. ASSUME NEW b \in Blocks, Traffic!Scroll(b) PROVE TrafficCounts'
  BY <1>3 DEF Traffic!Scroll
<1>4. CASE Traffic!Refresh \/ Traffic!Refilter
  BY <1>4 DEF Traffic!Refresh, Traffic!Refilter, Traffic!NewCache
<1>5. ASSUME NEW S \in SUBSET Proxies, Traffic!Select(S) PROVE TrafficCounts'
  BY <1>5 DEF Traffic!Select
<1>6. CASE Traffic!Collect \/ Traffic!Leave \/ Traffic!Return \/ UNCHANGED Traffic!vars
  BY <1>6 DEF Traffic!Collect, Traffic!Leave, Traffic!Return, Traffic!destroyTlGrid,
              Traffic!vars
<1> QED
  BY <1>1, <1>2, <1>3, <1>4, <1>5, <1>6 DEF Traffic!Next

(* Each collection has an id of its own.                                   *)
LEMMA TrafficSetsStay ==
    ASSUME TrafficCounts, TrafficSets, [Traffic!Next]_(Traffic!vars) PROVE TrafficSets'
<1> USE PartsAssumption DEF TrafficCounts, TrafficSets, Traffic!userVars
<1>1. CASE Traffic!Collect
  <2> DEFINE c == [id |-> trafficMade', of |-> trafficSelection, served |-> FALSE]
  <2>1. trafficMade' = trafficMade + 1 /\ trafficMade' \in 1 .. MaxCollects
    BY <1>1 DEF Traffic!Collect, Traffic!PageAssumption
  <2>2. c \in Collections /\ c.id <= trafficMade'
    BY <2>1 DEF Collections
  <2>3. collects' = collects \cup {c} /\ trafficSelection' = trafficSelection
    BY <1>1 DEF Traffic!Collect
  <2>4. \A d \in collects : d.id <= trafficMade'
    BY <2>1 DEF Collections
  <2> HIDE DEF c
  <2> QED
    BY <2>2, <2>3, <2>4
<1>2. ASSUME NEW c \in collects, Traffic!CollectServed(c) PROVE TrafficSets'
  BY <1>2 DEF Traffic!CollectServed, Collections
<1>3. ASSUME NEW c \in collects, Traffic!CollectAnswered(c) \/ Traffic!CollectFails(c)
      PROVE  TrafficSets'
  BY <1>3 DEF Traffic!CollectAnswered, Traffic!CollectFails
<1>4. ASSUME NEW r \in reads,
             Traffic!ReadServed(r) \/ Traffic!ReadAnswered(r) \/ Traffic!ReadFails(r)
      PROVE  TrafficSets'
  BY <1>4 DEF Traffic!ReadServed, Traffic!ReadAnswered, Traffic!ReadFails
<1>5. ASSUME NEW b \in Blocks, Traffic!Scroll(b) PROVE TrafficSets'
  BY <1>5 DEF Traffic!Scroll
<1>6. CASE Traffic!Refresh \/ Traffic!Refilter
  BY <1>6 DEF Traffic!Refresh, Traffic!Refilter
<1>7. ASSUME NEW S \in SUBSET Proxies, Traffic!Select(S) PROVE TrafficSets'
  BY <1>7 DEF Traffic!Select
<1>8. CASE Traffic!Leave \/ Traffic!Return \/ UNCHANGED Traffic!vars
  BY <1>8 DEF Traffic!Leave, Traffic!Return, Traffic!vars
<1> QED
  BY <1>1, <1>2, <1>3, <1>4, <1>5, <1>6, <1>7, <1>8 DEF Traffic!Next

LEMMA VersionsCount ==
    ASSUME TrafficCounts, TrafficSets, VersionInv, [Traffic!Next]_(Traffic!vars)
    PROVE  VersionInv'
<1> USE DEF VersionInv
<1>0. Cardinality(Unserved) \in Nat /\ trafficMade \in 0 .. MaxCollects /\ MaxCollects \in Nat
  BY FS_CardinalityType, PartsAssumption DEF TrafficCounts, Traffic!PageAssumption
<1>1. CASE Traffic!Collect
  <2> DEFINE c == [id |-> trafficMade', of |-> trafficSelection, served |-> FALSE]
  <2>1. trafficMade' = trafficMade + 1 /\ version' = version
    BY <1>1 DEF Traffic!Collect
  <2>2. collects' = collects \cup {c}
    BY <1>1 DEF Traffic!Collect
  <2>3. Unserved' = Unserved \cup {c}
    BY <2>2 DEF Unserved
  <2>4. c \notin collects
    BY <1>0, <2>1 DEF TrafficSets
  <2>5. IsFiniteSet(Unserved') /\ Cardinality(Unserved') = Cardinality(Unserved) + 1
    BY <2>3, <2>4, FS_AddElement DEF Unserved
  <2> HIDE DEF c
  <2> QED
    BY <1>0, <2>1, <2>5 DEF Traffic!Versions
<1>2. ASSUME NEW c \in collects, Traffic!CollectServed(c) PROVE VersionInv'
  <2>1. PICK S \in SUBSET c.of :
            version' = [p \in Proxies |-> IF p \in S THEN version[p] + 1 ELSE version[p]]
    BY <1>2 DEF Traffic!CollectServed
  <2>2. /\ collects' = (collects \ {c}) \cup {[c EXCEPT !.served = TRUE]}
        /\ ~c.served /\ trafficMade' = trafficMade
    BY <1>2 DEF Traffic!CollectServed, Traffic!userVars
  <2>3. [c EXCEPT !.served = TRUE].served
    BY DEF TrafficSets, Collections
  <2>4. Unserved' = Unserved \ {c} /\ c \in Unserved
    BY <2>2, <2>3 DEF Unserved
  <2>5. IsFiniteSet(Unserved') /\ Cardinality(Unserved') = Cardinality(Unserved) - 1
    BY <2>4, FS_RemoveElement
  <2>6. \A p \in Proxies : version[p] \in Nat /\ version'[p] \in Nat
                           /\ version'[p] <= version[p] + 1
    BY <2>1 DEF Traffic!Versions
  <2>7. \A p \in Proxies : version'[p] + Cardinality(Unserved') <= trafficMade'
    BY <1>0, <2>2, <2>5, <2>6
  <2>8. Cardinality(Unserved') \in Nat
    BY <2>5, FS_CardinalityType
  <2>9. \A p \in Proxies : version'[p] \in 0 .. MaxCollects
    BY <1>0, <2>2, <2>6, <2>7, <2>8
  <2>10. version' \in Traffic!Versions
    BY <2>1, <2>9 DEF Traffic!Versions
  <2> QED
    BY <2>5, <2>7, <2>10
<1>3. ASSUME Unserved' \subseteq Unserved, UNCHANGED <<version, trafficMade>>
      PROVE  VersionInv'
  <2>1. IsFiniteSet(Unserved') /\ Cardinality(Unserved') <= Cardinality(Unserved)
    BY <1>3, FS_Subset
  <2>2. Cardinality(Unserved') \in Nat
    BY <2>1, FS_CardinalityType
  <2> QED
    BY <1>0, <1>3, <2>1, <2>2 DEF Traffic!Versions
<1>4. ASSUME NEW c \in collects, Traffic!CollectAnswered(c) \/ Traffic!CollectFails(c)
      PROVE  VersionInv'
  BY <1>3, <1>4 DEF Traffic!CollectAnswered, Traffic!CollectFails, Unserved
<1>5. ASSUME NEW r \in reads,
             Traffic!ReadServed(r) \/ Traffic!ReadAnswered(r) \/ Traffic!ReadFails(r)
      PROVE  VersionInv'
  BY <1>3, <1>5 DEF Traffic!ReadServed, Traffic!ReadAnswered, Traffic!ReadFails, Unserved,
                    Traffic!userVars
<1>6. ASSUME NEW b \in Blocks, Traffic!Scroll(b) PROVE VersionInv'
  BY <1>3, <1>6 DEF Traffic!Scroll, Unserved
<1>7. CASE Traffic!Refresh \/ Traffic!Refilter
  BY <1>3, <1>7 DEF Traffic!Refresh, Traffic!Refilter, Unserved
<1>8. ASSUME NEW S \in SUBSET Proxies, Traffic!Select(S) PROVE VersionInv'
  BY <1>3, <1>8 DEF Traffic!Select, Unserved
<1>9. CASE Traffic!Leave \/ Traffic!Return \/ UNCHANGED Traffic!vars
  BY <1>3, <1>9 DEF Traffic!Leave, Traffic!Return, Traffic!vars, Unserved
<1> QED
  BY <1>1, <1>2, <1>4, <1>5, <1>6, <1>7, <1>8, <1>9 DEF Traffic!Next

(* What is read and shown are rows of proxies at versions.                 *)
LEMMA GetsRows ==
    ASSUME trafficSelection \subseteq Proxies, NEW n \in 1 .. MaxGrids, NEW b \in Blocks
    PROVE  Traffic!getRows(n, b) \in Reads
BY DEF Traffic!getRows, Reads

LEMMA NewCacheTypes ==
    ASSUME TrafficTyped, Traffic!NewCache PROVE GridSets'
<1>1. grids' \in 1 .. MaxGrids /\ trafficGrid' \in 1 .. MaxGrids
  BY PartsAssumption
     DEF Traffic!NewCache, TrafficTyped, TrafficCounts, Traffic!PageAssumption
<1>2. Traffic!getRows(trafficGrid', First) \in Reads
  BY <1>1, GetsRows, PartsAssumption DEF TrafficTyped, TrafficSets, Traffic!PageAssumption
<1> QED
  BY <1>2 DEF Traffic!NewCache, GridSets, Traffic!Empty

LEMMA GridSetsStay ==
    ASSUME TrafficTyped, [Traffic!Next]_(Traffic!vars) PROVE GridSets'
<1> USE DEF Traffic!userVars
<1>0. GridSets /\ trafficGrid \in 0 .. MaxGrids /\ trafficSelection \subseteq Proxies
  BY DEF TrafficTyped, TrafficCounts, TrafficSets
<1>1. ASSUME reads' \subseteq reads, blocksShown' = blocksShown PROVE GridSets'
  BY <1>0, <1>1 DEF GridSets
<1>2. ASSUME NEW c \in collects,
             Traffic!CollectServed(c) \/ Traffic!CollectFails(c)
      PROVE  GridSets'
  BY <1>1, <1>2 DEF Traffic!CollectServed, Traffic!CollectFails
<1>3. ASSUME Traffic!destroyTlGrid PROVE GridSets'
  BY <1>3 DEF Traffic!destroyTlGrid, GridSets, Traffic!Empty
<1>4. ASSUME NEW c \in collects, Traffic!CollectAnswered(c) PROVE GridSets'
  BY <1>3, <1>4, NewCacheTypes DEF Traffic!CollectAnswered, Traffic!ShowsCollected
<1>5. ASSUME NEW r \in reads, Traffic!ReadServed(r) PROVE GridSets'
  <2>1. [of |-> r.of, at |-> version] \in Traffic!Rows
    BY <1>0 DEF GridSets, Reads, TrafficTyped, VersionInv, Traffic!Rows
  <2>2. [r EXCEPT !.rows = [of |-> r.of, at |-> version]] \in Reads
    BY <1>0, <2>1 DEF GridSets, Reads
  <2> QED
    BY <1>0, <1>5, <2>2 DEF Traffic!ReadServed, GridSets
<1>6. ASSUME NEW r \in reads, Traffic!ReadAnswered(r) PROVE GridSets'
  BY <1>0, <1>6 DEF Traffic!ReadAnswered, GridSets, Reads
<1>7. ASSUME NEW r \in reads, Traffic!ReadFails(r) PROVE GridSets'
  BY <1>1, <1>7 DEF Traffic!ReadFails
<1>8. ASSUME NEW b \in Blocks, Traffic!Scroll(b) PROVE GridSets'
  BY <1>0, <1>8, GetsRows DEF Traffic!Scroll, GridSets
<1>9. CASE Traffic!Refresh
  <2>1. CASE trafficGrid = 0
    BY <1>9, <2>1, NewCacheTypes DEF Traffic!Refresh
  <2>2. CASE trafficGrid # 0
    BY <1>0, <1>9, <2>2, GetsRows DEF Traffic!Refresh, GridSets
  <2> QED
    BY <2>1, <2>2
<1>10. CASE Traffic!Refilter
  BY <1>10, NewCacheTypes DEF Traffic!Refilter
<1>11. ASSUME NEW S \in SUBSET Proxies, Traffic!Select(S) PROVE GridSets'
  BY <1>1, <1>11 DEF Traffic!Select
<1>12. CASE Traffic!Collect \/ Traffic!Leave \/ UNCHANGED Traffic!vars
  BY <1>1, <1>12 DEF Traffic!Collect, Traffic!Leave, Traffic!vars
<1>13. CASE Traffic!Return
  BY <1>3, <1>13 DEF Traffic!Return
<1> QED
  BY <1>2, <1>4, <1>5, <1>6, <1>7, <1>8, <1>9, <1>10, <1>11, <1>12, <1>13 DEF Traffic!Next

(* A new cache has no rows, and reads for the proxies chosen now.          *)
LEMMA NewCacheIsCurrent ==
    ASSUME Traffic!NewCache, trafficSelection' = trafficSelection PROVE GridInv'
BY DEF Traffic!NewCache, GridInv, There, Came, Traffic!Empty, Traffic!getRows

LEMMA NoGridIsCurrent == ASSUME Traffic!destroyTlGrid PROVE GridInv'
BY DEF Traffic!destroyTlGrid, GridInv, There, Came, Traffic!Empty

LEMMA GridStaysCurrent ==
    ASSUME TrafficInv, [Traffic!Next]_(Traffic!vars) PROVE GridInv'
<1> USE DEF Traffic!userVars
<1>0. /\ mixed \in BOOLEAN /\ trafficUnheard \in BOOLEAN
      /\ mixed' \in BOOLEAN /\ trafficUnheard' \in BOOLEAN
  BY TrafficFlagsStay DEF TrafficInv, TrafficTyped, TrafficFlags
<1>1. GridInv /\ reads \subseteq Reads /\ collects \subseteq Collections
  BY DEF TrafficInv, TrafficTyped, TrafficSets, GridSets
<1>2. CASE Traffic!Collect
  BY <1>0, <1>1, <1>2 DEF Traffic!Collect, GridInv, There, Came
<1>3. ASSUME NEW c \in collects, Traffic!CollectServed(c) PROVE GridInv'
  <2>1. [c EXCEPT !.served = TRUE] \in collects' /\ [c EXCEPT !.served = TRUE].served
    BY <1>1, <1>3 DEF Traffic!CollectServed, Collections
  <2> QED
    BY <1>1, <1>3, <2>1 DEF Traffic!CollectServed, GridInv, There, Came
<1>4. ASSUME NEW c \in collects, Traffic!CollectAnswered(c) PROVE GridInv'
  BY <1>4, NewCacheIsCurrent, NoGridIsCurrent
     DEF Traffic!CollectAnswered, Traffic!ShowsCollected
<1>5. ASSUME NEW c \in collects, Traffic!CollectFails(c) PROVE GridInv'
  BY <1>0, <1>1, <1>5 DEF Traffic!CollectFails, GridInv, There, Came
<1>6. ASSUME NEW r \in reads, Traffic!ReadServed(r) PROVE GridInv'
  <2> DEFINE answer == [r EXCEPT !.rows = [of |-> r.of, at |-> version]]
  <2>1. answer.rows = [of |-> r.of, at |-> version] /\ answer.of = r.of
    BY <1>1 DEF Reads
  <2>2. reads' = (reads \ {r}) \cup {answer}
    BY <1>6 DEF Traffic!ReadServed
  <2> HIDE DEF answer
  <2>3. /\ UNCHANGED <<version, blocksShown, collects, trafficUnheard, mixed>>
        /\ trafficSelection' = trafficSelection
    BY <1>6 DEF Traffic!ReadServed
  <2> QED
    BY <1>0, <1>1, <2>1, <2>2, <2>3 DEF GridInv, There, Came
<1>7. ASSUME NEW r \in reads, Traffic!ReadAnswered(r) PROVE GridInv'
  <2>1. \A b \in Blocks : blocksShown'[b] = IF b = r.block THEN r.rows ELSE blocksShown[b]
    BY <1>7 DEF Traffic!ReadAnswered, TrafficInv, TrafficTyped, GridSets
  <2>2. r \in Came /\ reads' \subseteq reads
    BY <1>7 DEF Traffic!ReadAnswered, Came
  <2>3. /\ UNCHANGED <<version, collects, trafficUnheard, mixed>>
        /\ trafficSelection' = trafficSelection
    BY <1>7 DEF Traffic!ReadAnswered
  <2> QED
    BY <1>0, <1>1, <2>1, <2>2, <2>3 DEF GridInv, There, Came
<1>8. ASSUME NEW r \in reads, Traffic!ReadFails(r) PROVE GridInv'
  BY <1>0, <1>1, <1>8 DEF Traffic!ReadFails, GridInv, There, Came
<1>9. ASSUME NEW b \in Blocks, Traffic!Scroll(b) PROVE GridInv'
  BY <1>0, <1>1, <1>9 DEF Traffic!Scroll, Traffic!getRows, GridInv, There, Came
<1>10. CASE Traffic!Refresh
  <2>1. CASE trafficGrid = 0
    BY <1>10, <2>1, NewCacheIsCurrent DEF Traffic!Refresh
  <2>2. CASE trafficGrid # 0
    BY <1>0, <1>1, <1>10, <2>2 DEF Traffic!Refresh, Traffic!getRows, GridInv, There, Came
  <2> QED
    BY <2>1, <2>2
<1>11. CASE Traffic!Refilter
  BY <1>11, NewCacheIsCurrent DEF Traffic!Refilter
<1>12. ASSUME NEW S \in SUBSET Proxies, Traffic!Select(S) PROVE GridInv'
  BY <1>0, <1>1, <1>12 DEF Traffic!Select, GridInv, There, Came
<1>13. CASE Traffic!Leave \/ UNCHANGED Traffic!vars
  BY <1>0, <1>1, <1>13 DEF Traffic!Leave, Traffic!vars, GridInv, There, Came
<1>14. CASE Traffic!Return
  BY <1>14, NoGridIsCurrent DEF Traffic!Return
<1> QED
  BY <1>2, <1>3, <1>4, <1>5, <1>6, <1>7, <1>8, <1>9, <1>10, <1>11, <1>12, <1>13, <1>14
     DEF Traffic!Next

LEMMA TrafficInvHolds == Traffic!Spec => []TrafficInv
<1>1. TrafficInv /\ [Traffic!Next]_(Traffic!vars) => TrafficInv'
  BY TrafficFlagsStay, TrafficCountsStay, TrafficSetsStay, VersionsCount, GridSetsStay,
     GridStaysCurrent DEF TrafficInv, TrafficTyped
<1> QED
  BY <1>1, TrafficBegins, PTL DEF Traffic!Spec

(* The grid shows no records that a collection replaced, once each has     *)
(* been answered, and no rows of two choices of proxies (collectLogs and   *)
(* the datasource of traffic_logs.js), for any proxies, blocks, and number *)
(* of collections and grids.                                               *)
THEOREM GridAlwaysCurrent == PartsSpec => []GridIsCurrent
<1>1. TrafficInv => GridIsCurrent
  <2>1. TrafficInv => GridInv /\ trafficUnheard \in BOOLEAN /\ mixed \in BOOLEAN
    BY DEF TrafficInv, TrafficTyped, TrafficFlags
  <2>2. collects = {} => \A c \in collects : ~c.served
    OBVIOUS
  <2> QED
    BY <2>1, <2>2 DEF GridInv, There, GridIsCurrent, Traffic!GridIsCurrent
<1> QED
  BY <1>1, EachPart, TrafficInvHolds, PTL

-----------------------------------------------------------------------------
(* The live tab.  A poll on its way is one of the proxy that is watched,   *)
(* or its proxy is excused already: so the entry it may leave is one that  *)
(* is watched, about to be forgotten or excused.                           *)
WatchTyped == Watch!TypeOK /\ timers \subseteq 1 .. watches

WatchInv ==
    /\ WatchTyped
    /\ idle => watched = None /\ timers = {}
    /\ \A c \in calls \cap Watch!Polled : c.proxy = watched \/ c.proxy \in excused
    /\ EntriesGo

LEMMA WatchBegins == Watch!Init => WatchInv
BY PartsAssumption
   DEF Watch!WatchAssumption, Watch!Init, WatchInv, WatchTyped, Watch!TypeOK, EntriesGo,
       Watch!EntriesGo

(* A poll is no request to forget.                                         *)
LEMMA PollsAreNoForgets ==
    ASSUME NEW c \in Watch!Polled, NEW p PROVE c # [forget |-> p]
<1>1. DOMAIN c = {"poll", "proxy", "watch"}
  BY DEF Watch!Polled
<1>2. DOMAIN [forget |-> p] = {"forget"}
  OBVIOUS
<1> QED
  BY <1>1, <1>2

LEMMA WatchTypes ==
    ASSUME WatchInv, [Watch!Next]_(Watch!vars) PROVE WatchTyped'
<1> USE PartsAssumption
    DEF WatchInv, WatchTyped, Watch!WatchAssumption, Watch!TypeOK, Watch!pageVars
<1>1. ASSUME NEW p \in Proxies, Watch!Start(p) PROVE WatchTyped'
  <2>1. /\ watches' = watches + 1 /\ watches' \in Watch!Watches
        /\ polls' = polls + 1 /\ polls' \in 1 .. MaxPolls
    BY <1>1 DEF Watch!Start, Watch!Watches
  <2>2. [poll |-> polls', proxy |-> p, watch |-> watches'] \in Watch!Polled
    BY <2>1 DEF Watch!Polled
  <2>3. calls' \subseteq Watch!Polled \cup Watch!Forgets
    BY <1>1, <2>2 DEF Watch!Start, Watch!Forget, Watch!Forgets
  <2>4. timers' \subseteq Watch!Watches /\ timers' \subseteq 1 .. watches'
    BY <1>1, <2>1 DEF Watch!Start, Watch!Watches
  <2>5. watchHere' \in BOOLEAN /\ idle' \in BOOLEAN
    BY <1>1 DEF Watch!Start
  <2>6. interval' \in 0 .. MaxWatches /\ watches' \in 0 .. MaxWatches
    BY <1>1, <2>1 DEF Watch!Start, Watch!Watches
  <2>7. watched' \in Proxies /\ table' = {} /\ UNCHANGED <<watchAnswers, live, excused>>
    BY <1>1 DEF Watch!Start
  <2> QED
    BY <2>1, <2>3, <2>4, <2>5, <2>6, <2>7
<1>2. ASSUME NEW t \in Watch!Watches, Watch!Tick(t) PROVE WatchTyped'
  <2>1. watches \in Watch!Watches /\ watched \in Proxies
    BY <1>2 DEF Watch!Tick, Watch!Watches
  <2>2. polls' \in 1 .. MaxPolls
    BY <1>2 DEF Watch!Tick
  <2>3. [poll |-> polls', proxy |-> watched, watch |-> watches] \in Watch!Polled
    BY <2>1, <2>2 DEF Watch!Polled
  <2> QED
    BY <1>2, <2>2, <2>3 DEF Watch!Tick
<1>3. ASSUME NEW t \in Watch!Watches, Watch!Hear(t) PROVE WatchTyped'
  BY <1>3 DEF Watch!Hear
<1>4. CASE Watch!Stop
  BY <1>4 DEF Watch!Stop, Watch!StopLiveLog, Watch!ForgetVars, Watch!Forget, Watch!Forgets
<1>5. CASE Watch!Leave
  BY <1>5 DEF Watch!Leave
<1>6. CASE Watch!Return
  BY <1>6 DEF Watch!Return, Watch!StopLiveLog, Watch!ForgetVars, Watch!Forget, Watch!Forgets
<1>7. CASE Watch!Reload
  BY <1>7 DEF Watch!Reload
<1>8. ASSUME NEW c \in calls, Watch!ServePoll(c) PROVE WatchTyped'
  BY <1>8 DEF Watch!ServePoll, Watch!Polled
<1>9. ASSUME NEW c \in calls, Watch!ServeForget(c) PROVE WatchTyped'
  BY <1>9 DEF Watch!ServeForget
<1>10. ASSUME NEW c \in calls, Watch!Lose(c) PROVE WatchTyped'
  BY <1>10 DEF Watch!Lose, Watch!Forgets
<1>11. CASE UNCHANGED Watch!vars
  BY <1>11 DEF Watch!vars
<1> QED
  BY <1>1, <1>2, <1>3, <1>4, <1>5, <1>6, <1>7, <1>8, <1>9, <1>10, <1>11 DEF Watch!Next

LEMMA WatchSteps ==
    ASSUME WatchInv, [Watch!Next]_(Watch!vars) PROVE WatchInv'
<1>0. WatchTyped'
  BY WatchTypes
<1> USE <1>0, PartsAssumption
    DEF WatchInv, WatchTyped, Watch!TypeOK, Watch!WatchAssumption, EntriesGo,
        Watch!EntriesGo, Watch!pageVars
<1>1. ASSUME NEW p \in Proxies, Watch!Start(p) PROVE WatchInv'
  <2>1. watched = None /\ timers = {}
    BY <1>1 DEF Watch!Start
  <2>2. calls' = calls \cup {[poll |-> polls', proxy |-> p, watch |-> watches']}
    BY <1>1, <2>1 DEF Watch!Start, Watch!Forget
  <2>3. /\ watched' = p /\ ~idle' /\ timers' = {interval'}
        /\ UNCHANGED <<live, excused>>
    BY <1>1, <2>1 DEF Watch!Start
  <2>4. \A c \in calls' \cap Watch!Polled : c.proxy = watched' \/ c.proxy \in excused'
    BY <2>1, <2>2, <2>3 DEF Watch!Polled
  <2>5. \A x \in live' \ excused' : [forget |-> x] \in calls'
    BY <2>1, <2>2, <2>3
  <2> QED
    BY <2>3, <2>4, <2>5
<1>2. ASSUME NEW t \in Watch!Watches, Watch!Tick(t) PROVE WatchInv'
  BY <1>2 DEF Watch!Tick
<1>3. ASSUME NEW t \in Watch!Watches, Watch!Hear(t) PROVE WatchInv'
  BY <1>3 DEF Watch!Hear
<1>4. CASE Watch!Stop \/ Watch!Return
  <2>1. Watch!StopLiveLog /\ live' = live
    BY <1>4 DEF Watch!Stop, Watch!Return
  <2>2. /\ calls' = calls \cup Watch!Forget(watched) /\ watched' = None
        /\ excused' = IF watched # None /\ Watch!Polling(watched)
                      THEN excused \cup {watched} ELSE excused
        /\ timers' = {}
    BY <2>1 DEF Watch!StopLiveLog, Watch!ForgetVars
  <2>3. ASSUME NEW c \in calls' \cap Watch!Polled PROVE c.proxy \in excused'
    <3>1. c \in calls
      BY <2>2, PollsAreNoForgets DEF Watch!Forget
    <3>2. c.proxy \in Proxies
      BY DEF Watch!Polled
    <3>3. CASE c.proxy = watched
      BY <2>2, <3>1, <3>2, <3>3 DEF Watch!Polling
    <3> QED
      BY <2>2, <3>1, <3>3
  <2>4. \A p \in live' \ excused' : [forget |-> p] \in calls'
    BY <2>1, <2>2 DEF Watch!Forget
  <2> QED
    BY <2>2, <2>3, <2>4
<1>5. CASE Watch!Leave
  BY <1>5 DEF Watch!Leave
<1>6. CASE Watch!Reload
  BY <1>6 DEF Watch!Reload, Watch!Polled
<1>7. ASSUME NEW c \in calls, Watch!ServePoll(c) PROVE WatchInv'
  BY <1>7, PollsAreNoForgets DEF Watch!ServePoll
<1>8. ASSUME NEW c \in calls, Watch!ServeForget(c) PROVE WatchInv'
  <2>1. c = [forget |-> c.forget]
    BY <1>8 DEF Watch!ServeForget, Watch!Forgets
  <2>2. \A p : p # c.forget => [forget |-> p] # c
    BY <2>1
  <2>3. \A d \in calls' \cap Watch!Polled : d.proxy = watched \/ d.proxy \in excused'
    BY <1>8 DEF Watch!ServeForget, Watch!Polling
  <2>4. \A p \in live' \ excused' : p = watched \/ [forget |-> p] \in calls'
    BY <1>8, <2>2 DEF Watch!ServeForget
  <2> QED
    BY <1>8, <2>3, <2>4 DEF Watch!ServeForget
<1>9. ASSUME NEW c \in calls, Watch!Lose(c) PROVE WatchInv'
  <2>1. ASSUME NEW p \in Proxies, [forget |-> p] = c PROVE p \in excused'
    BY <1>9, <2>1 DEF Watch!Lose, Watch!Forgets
  <2>2. excused \subseteq excused' /\ calls' = calls \ {c}
    BY <1>9 DEF Watch!Lose
  <2> QED
    BY <1>9, <2>1, <2>2 DEF Watch!Lose
<1>10. CASE UNCHANGED Watch!vars
  BY <1>10 DEF Watch!vars
<1> QED
  BY <1>1, <1>2, <1>3, <1>4, <1>5, <1>6, <1>7, <1>8, <1>9, <1>10 DEF Watch!Next

LEMMA WatchInvHolds == Watch!Spec => []WatchInv
BY WatchBegins, WatchSteps, PTL DEF Watch!Spec

(* A watch that ended leaves neither an entry at the server nor an         *)
(* interval behind (startLiveLog, stopLiveLog and fetchLiveLog of          *)
(* traffic_logs.js), for any proxies and any number of watches, polls,     *)
(* visits and new documents.                                               *)
THEOREM EntriesAlwaysGo == PartsSpec => []EntriesGo
<1>1. WatchInv => EntriesGo
  BY DEF WatchInv
<1> QED
  BY <1>1, EachPart, WatchInvHolds, PTL

-----------------------------------------------------------------------------
(* The session page.  Unless records went missing, what IndexedDB keeps    *)
(* once it has served its requests is the last answer; unless an answer    *)
(* came while a read was under way, what is read is the last answer too,   *)
(* and a grid without it waits for such a read, or the read has failed.  A *)
(* CPU column is filled only for the analysis that is shown, unless one    *)
(* was made anew while a fetch was under way.                              *)
IsGet(op) == "get" \in DOMAIN op
IsPut(op) == "put" \in DOMAIN op

SessionFlags ==
    {sessionHere, sessionLoading, restore, cpuFetched, sessionCrossed, sessionTorn, unread,
     late} \subseteq BOOLEAN

SessionCounts ==
    /\ sessionMade \in 0 .. MaxLoads /\ sessionVisits \in 1 .. MaxVisits
    /\ sessionActs \in 0 .. MaxActs

SessionSets ==
    /\ loads \subseteq Session!Loads /\ fetches \subseteq Session!Loads
    /\ {sessionRecords, sessionGrid, kept, analysis, cpu, newest} \subseteq Session!Records

SessionQueues ==
    /\ ops \in Seq(Session!Ops) /\ read \in Seq(Session!Records)
    /\ stamp \in {"none", "fresh", "old"}

SessionTyped == SessionFlags /\ SessionCounts /\ SessionSets /\ SessionQueues

KeptInv ==
    ~sessionTorn =>
        \/ \E i \in 1 .. Len(ops) :
              ops[i] = [put |-> newest] /\ \A j \in i + 1 .. Len(ops) : IsGet(ops[j])
        \/ kept = newest /\ \A j \in 1 .. Len(ops) : IsGet(ops[j])

ReadInv ==
    ~sessionTorn /\ ~sessionCrossed =>
        /\ \A i, j \in 1 .. Len(ops) : IsGet(ops[i]) /\ IsPut(ops[j]) => j < i
        /\ \A k \in 1 .. Len(read) : read[k] = newest

GridKept ==
    sessionHere /\ ~sessionTorn /\ ~sessionCrossed =>
        \/ sessionGrid = newest
        \/ sessionGrid = Session!NoRecords /\ (restore \/ Session!Reading \/ unread)

CpuInv ==
    analysis # Session!NoRecords /\ ~late =>
        fetches \subseteq {analysis} /\ (cpuFetched => cpu = analysis)

SessionInv == SessionTyped /\ KeptInv /\ ReadInv /\ GridKept /\ CpuInv

LEMMA SessionBounds == MaxLoads \in Nat /\ MaxVisits \in Nat \ {0} /\ MaxActs \in Nat
BY PartsAssumption DEF Session!SessionAssumption

LEMMA SessionRecordsAre ==
    Session!Loads \subseteq Session!Records /\ Session!NoRecords \in Session!Records
BY DEF Session!Records

(* Each request is of one kind.                                            *)
LEMMA OpKinds ==
    /\ IsGet([get |-> TRUE]) /\ ~IsPut([get |-> TRUE])
    /\ ~IsGet([delete |-> TRUE]) /\ ~IsPut([delete |-> TRUE])
    /\ \A r : IsPut([put |-> r]) /\ ~IsGet([put |-> r])
    /\ \A op \in Session!Ops : IsGet(op) => ~IsPut(op) /\ "delete" \notin DOMAIN op
    /\ \A op \in Session!Ops : IsPut(op) => op.put \in Session!Records
    /\ [get |-> TRUE] \in Session!Ops /\ [delete |-> TRUE] \in Session!Ops
    /\ \A r \in Session!Records : [put |-> r] \in Session!Ops
<1> DEFINE P == [put : Session!Records]
           G == [get : {TRUE}]
           D == [delete : {TRUE}]
<1>1. \A op \in P : DOMAIN op = {"put"} /\ op.put \in Session!Records
  OBVIOUS
<1>2. \A op \in G : DOMAIN op = {"get"}
  OBVIOUS
<1>3. \A op \in D : DOMAIN op = {"delete"}
  OBVIOUS
<1>4. /\ DOMAIN [get |-> TRUE] = {"get"} /\ DOMAIN [delete |-> TRUE] = {"delete"}
      /\ \A r : DOMAIN [put |-> r] = {"put"}
  OBVIOUS
<1>5. /\ [get |-> TRUE] \in G /\ [delete |-> TRUE] \in D
      /\ \A r \in Session!Records : [put |-> r] \in P
  OBVIOUS
<1>6. Session!Ops = P \cup G \cup D
  BY DEF Session!Ops
<1> HIDE DEF P, G, D
<1>7. \A op \in Session!Ops : IsGet(op) => ~IsPut(op) /\ "delete" \notin DOMAIN op
  BY <1>1, <1>2, <1>3, <1>6 DEF IsGet, IsPut
<1>8. \A op \in Session!Ops : IsPut(op) => op.put \in Session!Records
  BY <1>1, <1>2, <1>3, <1>6 DEF IsPut
<1>9. /\ [get |-> TRUE] \in Session!Ops /\ [delete |-> TRUE] \in Session!Ops
      /\ \A r \in Session!Records : [put |-> r] \in Session!Ops
  BY <1>5, <1>6
<1>10. /\ IsGet([get |-> TRUE]) /\ ~IsPut([get |-> TRUE])
       /\ ~IsGet([delete |-> TRUE]) /\ ~IsPut([delete |-> TRUE])
       /\ \A r : IsPut([put |-> r]) /\ ~IsGet([put |-> r])
  BY <1>4 DEF IsGet, IsPut
<1> QED
  BY <1>7, <1>8, <1>9, <1>10

LEMMA SessionBegins == Session!Init => SessionInv
<1> SUFFICES ASSUME Session!Init PROVE SessionInv
  OBVIOUS
<1> USE SessionBounds DEF Session!Init
<1>1. SessionFlags
  BY Zenon DEF SessionFlags
<1>2. SessionCounts /\ SessionSets /\ SessionQueues
  BY DEF SessionCounts, SessionSets, SessionQueues, Session!Records, Session!NoRecords
<1>3. KeptInv /\ ReadInv /\ GridKept /\ CpuInv
  BY DEF KeptInv, ReadInv, GridKept, CpuInv
<1> QED
  BY <1>1, <1>2, <1>3 DEF SessionInv, SessionTyped

(* The result of a request is records.                                     *)
LEMMA OutcomeTypes ==
    ASSUME NEW op \in Session!Ops, kept \in Session!Records
    PROVE  Session!Outcome(op) \in Session!Records
<1>1. "put" \in DOMAIN op => op.put \in Session!Records
  BY OpKinds DEF IsPut
<1>2. "put" \in DOMAIN op \/ "delete" \in DOMAIN op \/ "get" \in DOMAIN op
  BY DEF Session!Ops
<1> QED
  BY <1>1, <1>2, SessionRecordsAre DEF Session!Outcome

LEMMA SessionFlagsStay ==
    ASSUME SessionFlags, [Session!Next]_(Session!vars) PROVE SessionFlags'
<1> USE DEF SessionFlags, Session!dataVars, Session!pageVars, Session!sbaVars
<1>1. CASE Session!loadSessions
  BY <1>1 DEF Session!loadSessions
<1>2. ASSUME NEW n \in loads, Session!LoadAnswered(n) \/ Session!LoadFails(n)
      PROVE  SessionFlags'
  BY <1>2 DEF Session!LoadAnswered, Session!LoadFails, Session!Reading
<1>3. CASE Session!DbServes \/ Session!RestoreTimer \/ Session!Restored
  BY <1>3 DEF Session!DbServes, Session!RestoreTimer, Session!Restored
<1>4. CASE Session!Leave \/ Session!Return \/ Session!Reload \/ Session!ADayPasses
  BY <1>4 DEF Session!Leave, Session!Return, Session!Reload, Session!ADayPasses,
              Session!Writing, Session!Reading
<1>5. CASE Session!Analyze \/ Session!OpenCpu \/ Session!RefreshCpu
  BY <1>5 DEF Session!Analyze, Session!AnalyzesAnew, Session!OpenCpu, Session!RefreshCpu
<1>6. ASSUME NEW n \in fetches, Session!CpuAnswered(n) PROVE SessionFlags'
  BY <1>6 DEF Session!CpuAnswered
<1>7. CASE Session!DbFails
  <2>1. sessionTorn' \in BOOLEAN /\ unread' \in BOOLEAN
    BY <1>7, Zenon DEF Session!DbFails
  <2> QED
    BY <1>7, <2>1 DEF Session!DbFails
<1>8. CASE UNCHANGED Session!vars
  BY <1>8 DEF Session!vars
<1> QED
  BY <1>1, <1>2, <1>3, <1>4, <1>5, <1>6, <1>7, <1>8 DEF Session!Next

LEMMA SessionCountsStay ==
    ASSUME SessionCounts, [Session!Next]_(Session!vars) PROVE SessionCounts'
<1> USE SessionBounds
    DEF SessionCounts, Session!dataVars, Session!pageVars, Session!sbaVars, Session!Act
<1>1. CASE Session!loadSessions
  BY <1>1 DEF Session!loadSessions
<1>2. ASSUME NEW n \in loads, Session!LoadAnswered(n) \/ Session!LoadFails(n)
      PROVE  SessionCounts'
  BY <1>2 DEF Session!LoadAnswered, Session!LoadFails
<1>3. CASE Session!DbServes \/ Session!DbFails \/ Session!RestoreTimer \/ Session!Restored
  BY <1>3 DEF Session!DbServes, Session!DbFails, Session!RestoreTimer, Session!Restored
<1>4. CASE Session!Leave \/ Session!Return \/ Session!Reload \/ Session!ADayPasses
  BY <1>4 DEF Session!Leave, Session!Return, Session!Reload, Session!ADayPasses
<1>5. CASE Session!Analyze \/ Session!OpenCpu \/ Session!RefreshCpu
  BY <1>5 DEF Session!Analyze, Session!OpenCpu, Session!RefreshCpu
<1>6. ASSUME NEW n \in fetches, Session!CpuAnswered(n) PROVE SessionCounts'
  BY <1>6 DEF Session!CpuAnswered
<1>7. CASE UNCHANGED Session!vars
  BY <1>7 DEF Session!vars
<1> QED
  BY <1>1, <1>2, <1>3, <1>4, <1>5, <1>6, <1>7 DEF Session!Next

LEMMA SessionQueuesStay ==
    ASSUME SessionTyped, [Session!Next]_(Session!vars) PROVE SessionQueues'
<1> USE DEF SessionTyped, SessionQueues, Session!dataVars, Session!pageVars, Session!sbaVars
<1>1. CASE Session!loadSessions
  BY <1>1 DEF Session!loadSessions
<1>2. ASSUME NEW n \in loads, Session!LoadAnswered(n) PROVE SessionQueues'
  <2>1. PICK got \in {n, Session!NoRecords} : ops' = Append(ops, [put |-> got])
    BY <1>2 DEF Session!LoadAnswered, Session!Persists
  <2>2. [put |-> got] \in Session!Ops
    BY OpKinds, SessionRecordsAre DEF SessionSets
  <2> QED
    BY <1>2, <2>1, <2>2 DEF Session!LoadAnswered
<1>3. ASSUME NEW n \in loads, Session!LoadFails(n) PROVE SessionQueues'
  BY <1>3 DEF Session!LoadFails
<1>4. CASE Session!DbServes
  <2>1. kept \in Session!Records
    BY DEF SessionSets
  <2> QED
    BY <1>4, <2>1 DEF Session!DbServes, Session!Stamps
<1>5. CASE Session!RestoreTimer
  <2>1. PICK op \in {[delete |-> TRUE], [get |-> TRUE]} : ops' = Append(ops, op)
    BY <1>5 DEF Session!RestoreTimer
  <2>2. op \in Session!Ops
    BY OpKinds
  <2> QED
    BY <1>5, <2>1, <2>2 DEF Session!RestoreTimer
<1>6. CASE Session!Restored
  BY <1>6 DEF Session!Restored
<1>7. CASE Session!Leave \/ Session!Return \/ Session!ADayPasses
  BY <1>7 DEF Session!Leave, Session!Return, Session!ADayPasses
<1>8. CASE Session!Reload
  BY <1>8 DEF Session!Reload
<1>9. CASE Session!Analyze \/ Session!OpenCpu \/ Session!RefreshCpu
  BY <1>9 DEF Session!Analyze, Session!OpenCpu, Session!RefreshCpu
<1>10. ASSUME NEW n \in fetches, Session!CpuAnswered(n) PROVE SessionQueues'
  BY <1>10 DEF Session!CpuAnswered
<1>11. CASE Session!DbFails
  BY <1>11 DEF Session!DbFails, Session!Stamps
<1>12. CASE UNCHANGED Session!vars
  BY <1>12 DEF Session!vars
<1> QED
  BY <1>1, <1>2, <1>3, <1>4, <1>5, <1>6, <1>7, <1>8, <1>9, <1>10, <1>11, <1>12
     DEF Session!Next

LEMMA SessionSetsStay ==
    ASSUME SessionTyped, [Session!Next]_(Session!vars) PROVE SessionSets'
<1> USE SessionRecordsAre
    DEF SessionTyped, SessionSets, Session!dataVars, Session!pageVars, Session!sbaVars
<1>1. CASE Session!loadSessions
  <2>1. sessionMade' \in Session!Loads
    BY <1>1, SessionBounds DEF SessionCounts, Session!loadSessions, Session!Loads
  <2> QED
    BY <1>1, <2>1 DEF Session!loadSessions
<1>2. ASSUME NEW n \in loads, Session!LoadAnswered(n) PROVE SessionSets'
  <2>1. PICK got \in {n, Session!NoRecords} :
            sessionRecords' = got /\ newest' = got
            /\ sessionGrid' = IF sessionHere THEN got ELSE sessionGrid
    BY <1>2 DEF Session!LoadAnswered
  <2> QED
    BY <1>2, <2>1 DEF Session!LoadAnswered
<1>3. ASSUME NEW n \in loads, Session!LoadFails(n) PROVE SessionSets'
  BY <1>3 DEF Session!LoadFails
<1>4. CASE Session!DbServes
  <2>1. Head(ops) \in Session!Ops
    BY <1>4 DEF Session!DbServes, SessionQueues
  <2>2. kept' \in Session!Records
    BY <1>4, <2>1, OutcomeTypes DEF Session!DbServes
  <2> QED
    BY <1>4, <2>2 DEF Session!DbServes
<1>5. CASE Session!RestoreTimer \/ Session!DbFails
  BY <1>5 DEF Session!RestoreTimer, Session!DbFails
<1>6. CASE Session!Restored
  <2>1. Head(read) \in Session!Records
    BY <1>6 DEF Session!Restored, SessionQueues
  <2> QED
    BY <1>6, <2>1 DEF Session!Restored
<1>7. CASE Session!Leave \/ Session!Return \/ Session!ADayPasses
  BY <1>7 DEF Session!Leave, Session!Return, Session!ADayPasses
<1>8. CASE Session!Reload
  <2>1. \A i \in DOMAIN ops : Session!Outcome(ops[i]) \in Session!Records
    <3>1. \A i \in DOMAIN ops : ops[i] \in Session!Ops
      BY DEF SessionQueues
    <3> QED
      BY <3>1, OutcomeTypes
  <2>2. kept' \in Session!Records
    BY <1>8, <2>1 DEF Session!Reload
  <2> QED
    BY <1>8, <2>2 DEF Session!Reload
<1>9. CASE Session!Analyze \/ Session!OpenCpu \/ Session!RefreshCpu
  <2>1. analysis # Session!NoRecords => analysis \in Session!Loads
    BY DEF Session!Records
  <2> QED
    BY <1>9, <2>1 DEF Session!Analyze, Session!OpenCpu, Session!RefreshCpu
<1>10. ASSUME NEW n \in fetches, Session!CpuAnswered(n) PROVE SessionSets'
  BY <1>10 DEF Session!CpuAnswered
<1>11. CASE UNCHANGED Session!vars
  BY <1>11 DEF Session!vars
<1> QED
  BY <1>1, <1>2, <1>3, <1>4, <1>5, <1>6, <1>7, <1>8, <1>9, <1>10, <1>11 DEF Session!Next

LEMMA CpuStays ==
    ASSUME SessionInv, [Session!Next]_(Session!vars) PROVE CpuInv'
<1>0. CpuInv /\ late \in BOOLEAN /\ late' \in BOOLEAN /\ cpuFetched' \in BOOLEAN
  BY SessionFlagsStay DEF SessionInv, SessionTyped, SessionFlags
<1> USE <1>0 DEF CpuInv, Session!dataVars, Session!pageVars, Session!sbaVars
<1>1. CASE Session!loadSessions
  BY <1>1 DEF Session!loadSessions
<1>2. ASSUME NEW n \in loads, Session!LoadAnswered(n) \/ Session!LoadFails(n) PROVE CpuInv'
  BY <1>2 DEF Session!LoadAnswered, Session!LoadFails
<1>3. CASE Session!DbServes \/ Session!DbFails \/ Session!RestoreTimer \/ Session!Restored
  BY <1>3 DEF Session!DbServes, Session!DbFails, Session!RestoreTimer, Session!Restored
<1>4. CASE Session!Leave \/ Session!Return \/ Session!ADayPasses
  BY <1>4 DEF Session!Leave, Session!Return, Session!ADayPasses
<1>5. CASE Session!Reload
  BY <1>5 DEF Session!Reload
<1>6. CASE Session!Analyze \/ Session!OpenCpu \/ Session!RefreshCpu
  BY <1>6 DEF Session!Analyze, Session!AnalyzesAnew, Session!OpenCpu, Session!RefreshCpu
<1>7. ASSUME NEW n \in fetches, Session!CpuAnswered(n) PROVE CpuInv'
  BY <1>7 DEF Session!CpuAnswered
<1>8. CASE UNCHANGED Session!vars
  BY <1>8 DEF Session!vars
<1> QED
  BY <1>1, <1>2, <1>3, <1>4, <1>5, <1>6, <1>7, <1>8 DEF Session!Next

(* What a step does to the requests, when it is about them at all.         *)
LEMMA QueuesOfSteps ==
    ASSUME SessionTyped, Session!Next, ~Session!DbServes, ~Session!DbFails,
           ~Session!RestoreTimer, ~Session!Restored, ~Session!Reload,
           ~(\E n \in loads : Session!LoadAnswered(n))
    PROVE  /\ UNCHANGED <<ops, read, kept, newest, sessionTorn>>
           /\ \/ UNCHANGED <<sessionHere, sessionGrid, sessionCrossed, restore, unread>>
              \/ ~sessionHere' /\ UNCHANGED <<sessionGrid, sessionCrossed, restore>>
              \/ /\ sessionGrid' = Session!NoRecords /\ restore'
                 /\ sessionCrossed' = (sessionCrossed /\ Session!Reading)
<1> USE DEF Session!dataVars, Session!pageVars, Session!sbaVars
<1>1. CASE Session!loadSessions
  BY <1>1 DEF Session!loadSessions
<1>2. ASSUME NEW n \in loads, Session!LoadFails(n)
      PROVE  UNCHANGED <<ops, read, kept, newest, sessionTorn, sessionHere, sessionGrid,
                         sessionCrossed, restore, unread>>
  BY <1>2 DEF Session!LoadFails
<1>3. CASE Session!Leave
  BY <1>3 DEF Session!Leave
<1>4. CASE Session!Return
  BY <1>4 DEF Session!Return
<1>5. CASE Session!ADayPasses
  BY <1>5 DEF Session!ADayPasses
<1>6. CASE Session!Analyze \/ Session!OpenCpu \/ Session!RefreshCpu
  BY <1>6 DEF Session!Analyze, Session!OpenCpu, Session!RefreshCpu
<1>7. ASSUME NEW n \in fetches, Session!CpuAnswered(n)
      PROVE  UNCHANGED <<ops, read, kept, newest, sessionTorn, sessionHere, sessionGrid,
                         sessionCrossed, restore, unread>>
  BY <1>7 DEF Session!CpuAnswered
<1> QED
  BY <1>1, <1>2, <1>3, <1>4, <1>5, <1>6, <1>7 DEF Session!Next

(* Where nothing is being read, no request reads.                          *)
LEMMA NotReading ==
    ASSUME SessionQueues, ~Session!Reading
    PROVE  read = << >> /\ \A i \in 1 .. Len(ops) : ~IsGet(ops[i])
BY DEF Session!Reading, IsGet, SessionQueues

LEMMA Keeps ==
    ASSUME SessionInv, [Session!Next]_(Session!vars) PROVE KeptInv' /\ ReadInv'
<1> USE DEF KeptInv, ReadInv
<1>0. /\ SessionTyped /\ SessionQueues /\ KeptInv /\ ReadInv
      /\ sessionTorn \in BOOLEAN /\ sessionTorn' \in BOOLEAN
      /\ sessionCrossed \in BOOLEAN /\ sessionCrossed' \in BOOLEAN
      /\ ops \in Seq(Session!Ops) /\ read \in Seq(Session!Records)
  BY SessionFlagsStay DEF SessionInv, SessionTyped, SessionFlags, SessionQueues
<1>1. ASSUME NEW n \in loads, Session!LoadAnswered(n) PROVE KeptInv' /\ ReadInv'
  <2>1. PICK got \in {n, Session!NoRecords} :
            newest' = got /\ ops' = Append(ops, [put |-> got])
    BY <1>1 DEF Session!LoadAnswered, Session!Persists
  <2>2. /\ Len(ops') = Len(ops) + 1 /\ ops'[Len(ops) + 1] = [put |-> newest']
        /\ \A i \in 1 .. Len(ops) : ops'[i] = ops[i]
        /\ Len(ops) \in Nat
    BY <1>0, <2>1
  <2>3. KeptInv'
    <3>1. \A j \in Len(ops) + 1 + 1 .. Len(ops') : FALSE
      BY <2>2
    <3> QED
      BY <2>2, <3>1
  <2>4. ~sessionCrossed' => read' = << >> /\ \A i \in 1 .. Len(ops) : ~IsGet(ops[i])
    BY <1>0, <1>1, NotReading DEF Session!LoadAnswered
  <2>5. ~IsGet(ops'[Len(ops) + 1])
    BY <2>2, OpKinds
  <2>6. ~sessionCrossed' => \A i \in 1 .. Len(ops') : ~IsGet(ops'[i])
    BY <2>2, <2>4, <2>5
  <2> QED
    BY <2>3, <2>4, <2>6
<1>2. CASE Session!DbServes
  <2>1. /\ ops # << >> /\ ops' = Tail(ops) /\ newest' = newest
        /\ sessionTorn' = sessionTorn /\ sessionCrossed' = sessionCrossed
        /\ kept' = Session!Outcome(Head(ops))
        /\ read' = IF "get" \in DOMAIN Head(ops) THEN Append(read, kept) ELSE read
    BY <1>2 DEF Session!DbServes
  <2>2. /\ Len(ops) \in Nat \ {0} /\ Head(ops) = ops[1] /\ Len(ops') = Len(ops) - 1
        /\ \A i \in 1 .. Len(ops') : ops'[i] = ops[i + 1] /\ i + 1 \in 1 .. Len(ops)
        /\ ops[1] \in Session!Ops
    BY <1>0, <2>1
  <2>3. IsGet(ops[1]) => kept' = kept /\ read' = Append(read, kept)
    BY <2>1, <2>2, OpKinds DEF Session!Outcome, IsGet, IsPut
  <2>4. ~IsGet(ops[1]) => read' = read
    BY <2>1, <2>2 DEF IsGet
  <2>5. ops[1] = [put |-> newest] => kept' = newest
    BY <2>1, <2>2, OpKinds DEF Session!Outcome, IsGet, IsPut
  <2>6. KeptInv'
    <3> SUFFICES ASSUME ~sessionTorn PROVE KeptInv'
      BY <2>1
    <3>1. CASE kept = newest /\ \A j \in 1 .. Len(ops) : IsGet(ops[j])
      BY <2>1, <2>2, <2>3, <3>1
    <3>2. ASSUME NEW i \in 1 .. Len(ops), ops[i] = [put |-> newest],
                 \A j \in i + 1 .. Len(ops) : IsGet(ops[j])
          PROVE  KeptInv'
      <4>1. CASE i = 1
        BY <2>1, <2>2, <2>5, <3>2, <4>1
      <4>2. CASE i # 1
        <5>1. i - 1 \in 1 .. Len(ops') /\ ops'[i - 1] = [put |-> newest']
          BY <2>1, <2>2, <3>2, <4>2
        <5>2. \A j \in (i - 1) + 1 .. Len(ops') : IsGet(ops'[j])
          <6> TAKE j \in (i - 1) + 1 .. Len(ops')
          <6>1. j \in 1 .. Len(ops') /\ j + 1 \in i + 1 .. Len(ops)
            BY <2>2, <3>2, <4>2
          <6> QED
            BY <2>2, <3>2, <6>1
        <5> QED
          BY <5>1, <5>2
      <4> QED
        BY <4>1, <4>2
    <3> QED
      BY <1>0, <3>1, <3>2
  <2>7. ReadInv'
    <3> SUFFICES ASSUME ~sessionTorn, ~sessionCrossed PROVE ReadInv'
      BY <2>1
    <3>1. \A i, j \in 1 .. Len(ops') : IsGet(ops'[i]) /\ IsPut(ops'[j]) => j < i
      <4> TAKE i, j \in 1 .. Len(ops')
      <4>1. IsGet(ops[i + 1]) /\ IsPut(ops[j + 1]) => j + 1 < i + 1
        BY <1>0, <2>2
      <4> QED
        BY <2>2, <4>1
    <3>2. CASE IsGet(ops[1])
      <4>1. \A i \in 1 .. Len(ops) : ops[i] # [put |-> newest]
        <5> TAKE i \in 1 .. Len(ops)
        <5>1. IsPut(ops[i]) => i < 1
          BY <1>0, <2>2, <3>2
        <5> QED
          BY <5>1, OpKinds
      <4>2. kept = newest
        BY <1>0, <4>1
      <4>3. /\ Len(read') = Len(read) + 1 /\ read'[Len(read) + 1] = newest'
            /\ \A k \in 1 .. Len(read) : read'[k] = read[k]
            /\ Len(read) \in Nat
        BY <1>0, <2>1, <2>3, <3>2, <4>2 DEF SessionTyped, SessionSets
      <4>4. \A k \in 1 .. Len(read') : read'[k] = newest'
        BY <1>0, <2>1, <4>3
      <4> QED
        BY <3>1, <4>4
    <3>3. CASE ~IsGet(ops[1])
      BY <1>0, <2>1, <2>4, <3>1, <3>3
    <3> QED
      BY <3>2, <3>3
  <2> QED
    BY <2>6, <2>7
<1>3. CASE Session!RestoreTimer
  <2>1. UNCHANGED <<read, kept, newest, sessionCrossed>>
    BY <1>3 DEF Session!RestoreTimer
  <2>2. CASE stamp = "old"
    BY <1>3, <2>2 DEF Session!RestoreTimer
  <2>3. CASE stamp # "old"
    <3>1. ops' = Append(ops, [get |-> TRUE]) /\ sessionTorn' = sessionTorn
      BY <1>0, <1>3, <2>3 DEF Session!RestoreTimer
    <3>2. /\ Len(ops') = Len(ops) + 1 /\ IsGet(ops'[Len(ops) + 1])
          /\ ~IsPut(ops'[Len(ops) + 1])
          /\ \A i \in 1 .. Len(ops) : ops'[i] = ops[i]
          /\ Len(ops) \in Nat
      BY <1>0, <3>1, OpKinds
    <3>3. KeptInv'
      <4> SUFFICES ASSUME ~sessionTorn PROVE KeptInv'
        BY <3>1
      <4>1. CASE kept = newest /\ \A j \in 1 .. Len(ops) : IsGet(ops[j])
        BY <2>1, <3>2, <4>1
      <4>2. ASSUME NEW i \in 1 .. Len(ops), ops[i] = [put |-> newest],
                   \A j \in i + 1 .. Len(ops) : IsGet(ops[j])
            PROVE  KeptInv'
        <5>1. i \in 1 .. Len(ops') /\ ops'[i] = [put |-> newest']
          BY <2>1, <3>2, <4>2
        <5>2. \A j \in i + 1 .. Len(ops') : IsGet(ops'[j])
          BY <3>2, <4>2
        <5> QED
          BY <5>1, <5>2
      <4> QED
        BY <1>0, <4>1, <4>2
    <3>4. ReadInv'
      <4> SUFFICES ASSUME ~sessionTorn, ~sessionCrossed PROVE ReadInv'
        BY <2>1, <3>1
      <4>1. \A i, j \in 1 .. Len(ops') : IsGet(ops'[i]) /\ IsPut(ops'[j]) => j < i
        BY <1>0, <3>2
      <4> QED
        BY <1>0, <2>1, <4>1
    <3> QED
      BY <3>3, <3>4
  <2> QED
    BY <2>2, <2>3
<1>4. CASE Session!Restored
  <2>1. /\ UNCHANGED <<ops, kept, newest, sessionTorn, sessionCrossed>>
        /\ read # << >> /\ read' = Tail(read)
    BY <1>4 DEF Session!Restored
  <2>2. \A k \in 1 .. Len(read') : read'[k] = read[k + 1] /\ k + 1 \in 1 .. Len(read)
    BY <1>0, <2>1
  <2> QED
    BY <1>0, <2>1, <2>2
<1>5. CASE Session!Reload
  <2>1. /\ ops' = << >> /\ read' = << >> /\ newest' = newest
        /\ kept' \in {kept} \cup {Session!Outcome(ops[i]) : i \in DOMAIN ops}
        /\ sessionTorn' = (sessionTorn \/ Session!Writing)
    BY <1>5 DEF Session!Reload
  <2>2. ASSUME ~sessionTorn' PROVE kept' = newest
    <3>1. ~sessionTorn /\ \A i \in 1 .. Len(ops) : ~IsPut(ops[i])
      <4>1. ~sessionTorn /\ ~Session!Writing
        BY <2>1, <2>2
      <4> QED
        BY <1>0, <4>1 DEF Session!Writing, IsPut
    <3>2. kept = newest /\ \A j \in 1 .. Len(ops) : IsGet(ops[j])
      BY <1>0, <3>1, OpKinds
    <3>3. \A i \in DOMAIN ops : Session!Outcome(ops[i]) = kept
      <4> TAKE i \in DOMAIN ops
      <4>1. ops[i] \in Session!Ops /\ IsGet(ops[i])
        BY <1>0, <3>2
      <4> QED
        BY <4>1, OpKinds DEF Session!Outcome, IsGet, IsPut
    <3> QED
      BY <2>1, <3>2, <3>3
  <2> QED
    BY <2>1, <2>2
<1>6. ASSUME UNCHANGED <<ops, read, kept, newest, sessionTorn>>,
             sessionCrossed' = sessionCrossed
      PROVE  KeptInv' /\ ReadInv'
  BY <1>0, <1>6
<1>7. CASE UNCHANGED Session!vars
  BY <1>6, <1>7 DEF Session!vars, Session!dataVars
<1>8. ASSUME UNCHANGED <<ops, read, kept, newest, sessionTorn>>,
             sessionCrossed' = (sessionCrossed /\ Session!Reading)
      PROVE  KeptInv' /\ ReadInv'
  <2>1. ~sessionCrossed' => ~sessionCrossed \/ ~Session!Reading
    BY <1>8
  <2>2. CASE ~Session!Reading
    BY <1>0, <1>8, <2>2, NotReading
  <2>3. CASE Session!Reading
    BY <1>0, <1>8, <2>1, <2>3
  <2> QED
    BY <2>2, <2>3
<1>9. CASE Session!DbFails
  <2>1. /\ ops # << >> /\ ops' = Tail(ops)
        /\ UNCHANGED <<read, kept, newest, sessionCrossed>>
        /\ sessionTorn' = (sessionTorn \/ (IsPut(Head(ops)) /\ ~Session!Writing'))
    BY <1>9 DEF Session!DbFails, IsPut
  <2>2. /\ Len(ops) \in Nat \ {0} /\ Head(ops) = ops[1] /\ Len(ops') = Len(ops) - 1
        /\ \A i \in 1 .. Len(ops') : ops'[i] = ops[i + 1] /\ i + 1 \in 1 .. Len(ops)
        /\ \A i \in 1 .. Len(ops) : i # 1 => i - 1 \in 1 .. Len(ops')
    BY <1>0, <2>1
  <2> SUFFICES ASSUME ~sessionTorn' PROVE KeptInv' /\ ReadInv'
    OBVIOUS
  <2>3. ~sessionTorn /\ (IsPut(ops[1]) => Session!Writing')
    BY <2>1, <2>2
  <2>4. ReadInv'
    <3> SUFFICES ASSUME ~sessionCrossed,
                        NEW i \in 1 .. Len(ops'), NEW j \in 1 .. Len(ops'),
                        IsGet(ops'[i]), IsPut(ops'[j])
                 PROVE  j < i
      BY <1>0, <2>1, <2>3
    <3>1. j + 1 < i + 1
      BY <1>0, <2>2, <2>3
    <3> QED
      BY <2>2, <3>1
  <2>5. KeptInv'
    <3>1. CASE kept = newest /\ \A j \in 1 .. Len(ops) : IsGet(ops[j])
      BY <2>1, <2>2, <3>1
    <3>2. ASSUME NEW i \in 1 .. Len(ops), ops[i] = [put |-> newest],
                 \A j \in i + 1 .. Len(ops) : IsGet(ops[j])
          PROVE  KeptInv'
      <4>1. i # 1
        <5> SUFFICES ASSUME i = 1 PROVE FALSE
          OBVIOUS
        <5>1. PICK j \in DOMAIN ops' : IsPut(ops'[j])
          BY <2>3, <3>2, OpKinds DEF Session!Writing, IsPut
        <5>2. j \in 1 .. Len(ops')
          BY <1>0, <2>1, <5>1
        <5>3. j + 1 \in 1 + 1 .. Len(ops) /\ IsPut(ops[j + 1]) /\ ops[j + 1] \in Session!Ops
          BY <1>0, <2>2, <5>1, <5>2
        <5> QED
          BY <3>2, <5>3, OpKinds
      <4>2. i - 1 \in 1 .. Len(ops') /\ ops'[i - 1] = [put |-> newest']
        BY <2>1, <2>2, <3>2, <4>1
      <4>3. \A j \in (i - 1) + 1 .. Len(ops') : IsGet(ops'[j])
        <5> TAKE j \in (i - 1) + 1 .. Len(ops')
        <5>1. j \in 1 .. Len(ops') /\ j + 1 \in i + 1 .. Len(ops)
          BY <2>2, <3>2, <4>1
        <5> QED
          BY <2>2, <3>2, <5>1
      <4> QED
        BY <4>2, <4>3
    <3> QED
      BY <1>0, <2>3, <3>1, <3>2
  <2> QED
    BY <2>4, <2>5
<1> QED
  BY <1>0, <1>1, <1>2, <1>3, <1>4, <1>5, <1>6, <1>7, <1>8, <1>9, QueuesOfSteps

(* A grid without the last answer waits for it.                            *)
LEMMA GridIsKept ==
    ASSUME SessionInv, [Session!Next]_(Session!vars) PROVE GridKept'
<1> USE DEF GridKept
<1>0. /\ SessionTyped /\ SessionQueues /\ GridKept /\ ReadInv
      /\ sessionTorn \in BOOLEAN /\ sessionTorn' \in BOOLEAN
      /\ sessionCrossed \in BOOLEAN /\ sessionCrossed' \in BOOLEAN
      /\ sessionHere \in BOOLEAN /\ sessionHere' \in BOOLEAN
      /\ restore \in BOOLEAN /\ restore' \in BOOLEAN
      /\ unread \in BOOLEAN /\ unread' \in BOOLEAN
      /\ ops \in Seq(Session!Ops) /\ read \in Seq(Session!Records)
  BY SessionFlagsStay DEF SessionInv, SessionTyped, SessionFlags, SessionQueues
<1>1. ASSUME NEW n \in loads, Session!LoadAnswered(n) PROVE GridKept'
  BY <1>1 DEF Session!LoadAnswered
<1>2. CASE Session!DbServes
  <2>1. /\ UNCHANGED <<sessionHere, sessionTorn, sessionCrossed, sessionGrid, newest>>
        /\ UNCHANGED <<restore, unread>>
        /\ ops # << >> /\ ops' = Tail(ops)
        /\ read' = IF "get" \in DOMAIN Head(ops) THEN Append(read, kept) ELSE read
    BY <1>2 DEF Session!DbServes, Session!pageVars
  <2>2. ASSUME Session!Reading PROVE Session!Reading'
    <3>1. CASE read # << >>
      <4>1. read' # << >>
        BY <1>0, <2>1, <3>1 DEF SessionTyped, SessionSets
      <4> QED
        BY <4>1 DEF Session!Reading
    <3>2. ASSUME NEW i \in DOMAIN ops, "get" \in DOMAIN ops[i] PROVE Session!Reading'
      <4>1. CASE i = 1
        <5>1. read' = Append(read, kept)
          BY <1>0, <2>1, <3>2, <4>1
        <5>2. read' # << >>
          BY <1>0, <5>1 DEF SessionTyped, SessionSets
        <5> QED
          BY <5>2 DEF Session!Reading
      <4>2. CASE i # 1
        <5>1. i - 1 \in DOMAIN ops' /\ ops'[i - 1] = ops[i]
          BY <1>0, <2>1, <3>2, <4>2
        <5> QED
          BY <3>2, <5>1 DEF Session!Reading
      <4> QED
        BY <4>1, <4>2
    <3> QED
      BY <2>2, <3>1, <3>2 DEF Session!Reading
  <2> QED
    BY <1>0, <2>1, <2>2
<1>3. CASE Session!RestoreTimer
  <2>1. /\ UNCHANGED <<sessionHere, sessionCrossed, sessionGrid, newest, unread>>
        /\ sessionTorn' = (sessionTorn \/ stamp = "old") /\ restore
        /\ stamp # "old" => ops' = Append(ops, [get |-> TRUE])
    BY <1>3 DEF Session!RestoreTimer
  <2>2. stamp # "old" => Session!Reading'
    <3>1. stamp # "old" => Len(ops) + 1 \in DOMAIN ops' /\ IsGet(ops'[Len(ops) + 1])
      BY <1>0, <2>1, OpKinds
    <3> QED
      BY <3>1 DEF Session!Reading, IsGet
  <2> QED
    BY <1>0, <2>1, <2>2
<1>4. CASE Session!Restored
  <2>1. /\ UNCHANGED <<sessionHere, sessionTorn, sessionCrossed, newest, restore, unread, ops>>
        /\ read # << >>
        /\ IF Head(read) = Session!NoRecords THEN sessionGrid' = sessionGrid
           ELSE sessionGrid' = IF sessionHere THEN Head(read) ELSE sessionGrid
    BY <1>4 DEF Session!Restored, Session!pageVars
  <2>2. ~sessionTorn /\ ~sessionCrossed => Head(read) = newest
    BY <1>0, <2>1 DEF ReadInv
  <2> QED
    BY <1>0, <2>1, <2>2
<1>5. CASE Session!Reload
  BY <1>5 DEF Session!Reload
<1>6. CASE UNCHANGED Session!vars
  BY <1>0, <1>6
     DEF Session!vars, Session!dataVars, Session!pageVars, Session!Reading
<1>7. ASSUME UNCHANGED <<ops, read, kept, newest, sessionTorn>>,
             \/ UNCHANGED <<sessionHere, sessionGrid, sessionCrossed, restore, unread>>
             \/ ~sessionHere' /\ UNCHANGED <<sessionGrid, sessionCrossed, restore>>
             \/ /\ sessionGrid' = Session!NoRecords /\ restore'
                /\ sessionCrossed' = (sessionCrossed /\ Session!Reading)
      PROVE  GridKept'
  BY <1>0, <1>7 DEF Session!Reading
<1>8. CASE Session!DbFails
  <2>1. /\ UNCHANGED <<sessionHere, sessionCrossed, sessionGrid, newest, restore, read>>
        /\ ops # << >> /\ ops' = Tail(ops)
        /\ unread' = (unread \/ "get" \in DOMAIN Head(ops))
        /\ sessionTorn => sessionTorn'
    BY <1>8 DEF Session!DbFails, Session!pageVars
  <2>2. ASSUME Session!Reading PROVE Session!Reading' \/ unread'
    <3>1. CASE read # << >>
      BY <2>1, <3>1 DEF Session!Reading
    <3>2. ASSUME NEW i \in DOMAIN ops, "get" \in DOMAIN ops[i]
          PROVE  Session!Reading' \/ unread'
      <4>1. CASE i = 1
        <5>1. "get" \in DOMAIN Head(ops)
          BY <1>0, <2>1, <3>2, <4>1
        <5> QED
          BY <2>1, <5>1, Zenon
      <4>2. CASE i # 1
        <5>1. i - 1 \in DOMAIN ops' /\ ops'[i - 1] = ops[i]
          BY <1>0, <2>1, <3>2, <4>2
        <5> QED
          BY <3>2, <5>1 DEF Session!Reading
      <4> QED
        BY <4>1, <4>2
    <3> QED
      BY <2>2, <3>1, <3>2 DEF Session!Reading
  <2> QED
    BY <1>0, <2>1, <2>2
<1> QED
  BY <1>0, <1>1, <1>2, <1>3, <1>4, <1>5, <1>6, <1>7, <1>8, QueuesOfSteps

LEMMA SessionInvHolds == Session!Spec => []SessionInv
<1>1. SessionInv /\ [Session!Next]_(Session!vars) => SessionInv'
  BY SessionFlagsStay, SessionCountsStay, SessionQueuesStay, SessionSetsStay, Keeps,
     GridIsKept, CpuStays DEF SessionInv, SessionTyped
<1> QED
  BY <1>1, SessionBegins, PTL DEF Session!Spec

(* The list of the last answer is kept over visits and documents, in       *)
(* IndexedDB and, where it can be read, in the grid (persistState and      *)
(* restoreState of session_browser.js), for any number of loads and        *)
(* visits, however they and the requests to IndexedDB fall.  The           *)
(* exceptions are an answer that crossed a restore, and one that expired   *)
(* or could not be written.                                                *)
THEOREM ListIsAlwaysKept == PartsSpec => []ListIsKept
<1>1. SessionInv => ListIsKept
  <2> SUFFICES ASSUME SessionInv, sessionHere, ~restore, ops = << >>, read = << >>,
                      ~sessionCrossed, ~sessionTorn
               PROVE  /\ kept = newest
                      /\ sessionGrid = newest \/ (unread /\ sessionGrid = Session!NoRecords)
    BY DEF ListIsKept, Session!ListIsKept
  <2>1. ~Session!Reading /\ Len(ops) = 0
    BY DEF Session!Reading
  <2> QED
    BY <2>1 DEF SessionInv, KeptInv, GridKept
<1> QED
  BY <1>1, EachPart, SessionInvHolds, PTL

(* A CPU column that opening its tab does not fetch again is of the        *)
(* analysis shown (switchSbaTab, loadCpuCorrelation, session_browser.js), *)
(* for any number of loads, visits and fetches.                            *)
THEOREM CpuIsAlwaysOfAnalysis == PartsSpec => []CpuIsOfAnalysis
<1>1. SessionInv => CpuIsOfAnalysis
  BY DEF SessionInv, CpuInv, CpuIsOfAnalysis, Session!CpuIsOfAnalysis
<1> QED
  BY <1>1, EachPart, SessionInvHolds, PTL

-----------------------------------------------------------------------------
(* The history page.  A search that has read, and no deletion came since,  *)
(* holds records that are there; and so do the results that are shown,     *)
(* until a deletion is served whose answer will hide them.                 *)
HistoryFlags == {results, modal, enhanced, crossed, unheard} \subseteq BOOLEAN

HistoryCounts ==
    /\ found \in 0 .. MaxSearches /\ removed \in 0 .. MaxDeletes
    /\ historyActs \in 0 .. MaxActs /\ historyVisit \in 1 .. 1 + historyActs

HistorySets ==
    /\ {records, lastData} \subseteq SUBSET Proxies
    /\ searches \subseteq [id : 1 .. MaxSearches, of : SUBSET Proxies, read : BOOLEAN,
                           rows : SUBSET Proxies]
    /\ deletes \subseteq [id : 1 .. MaxDeletes, of : SUBSET Proxies, done : BOOLEAN]

HistoryTyped == HistoryFlags /\ HistoryCounts /\ HistorySets

SurvivorsInv ==
    /\ ~crossed => \A s \in searches : s.read => s.rows \subseteq records
    /\ results /\ ~crossed /\ ~unheard /\ (\A d \in deletes : ~d.done) =>
          lastData \subseteq records

HistoryInv == HistoryTyped /\ SurvivorsInv

LEMMA HistoryBegins == History!Init => HistoryInv
<1> SUFFICES ASSUME History!Init PROVE HistoryInv
  OBVIOUS
<1> USE PartsAssumption DEF History!HistoryAssumption, History!Init
<1>1. HistoryFlags /\ HistorySets
  BY Zenon DEF HistoryFlags, HistorySets
<1>2. HistoryCounts
  BY DEF HistoryCounts
<1>3. SurvivorsInv
  BY DEF SurvivorsInv
<1> QED
  BY <1>1, <1>2, <1>3 DEF HistoryInv, HistoryTyped

LEMMA HistoryTypes ==
    ASSUME HistoryTyped, [History!Next]_(History!vars) PROVE HistoryTyped'
<1> USE DEF HistoryTyped
<1>1. HistoryFlags'
  BY DEF HistoryFlags, History!Next, History!vars, History!Visit, History!OpenModal,
         History!closeModal, History!searchHistory, History!deleteHistory,
         History!SearchServed, History!SearchAnswered, History!SearchFails,
         History!DeleteServed, History!DeleteAnswered, History!DeleteIsShown,
         History!DeleteFails
<1> USE PartsAssumption DEF HistoryCounts, HistorySets, History!HistoryAssumption, History!Act
<1>2. CASE History!Visit
  <2>1. HistoryCounts' BY <1>2 DEF History!Visit
  <2>2. HistorySets' BY <1>2 DEF History!Visit
  <2> QED BY <1>1, <2>1, <2>2
<1>3. CASE History!OpenModal \/ History!closeModal
  <2>1. HistoryCounts' BY <1>3 DEF History!OpenModal, History!closeModal
  <2>2. HistorySets' BY <1>3 DEF History!OpenModal, History!closeModal
  <2> QED BY <1>1, <2>1, <2>2
<1>4. ASSUME NEW S \in SUBSET Proxies, History!searchHistory(S) PROVE HistoryTyped'
  <2>1. HistoryCounts' /\ found' \in 1 .. MaxSearches
    BY <1>4 DEF History!searchHistory
  <2>2. [id |-> found', of |-> S, read |-> FALSE, rows |-> {}]
            \in [id : 1 .. MaxSearches, of : SUBSET Proxies, read : BOOLEAN,
                 rows : SUBSET Proxies]
    BY <2>1
  <2>3. HistorySets' BY <1>4, <2>2 DEF History!searchHistory
  <2> QED BY <1>1, <2>1, <2>3
<1>5. ASSUME NEW S \in SUBSET Proxies, History!deleteHistory(S) PROVE HistoryTyped'
  <2>1. HistoryCounts' /\ removed' \in 1 .. MaxDeletes
    BY <1>5 DEF History!deleteHistory
  <2>2. [id |-> removed', of |-> S, done |-> FALSE]
            \in [id : 1 .. MaxDeletes, of : SUBSET Proxies, done : BOOLEAN]
    BY <2>1
  <2>3. HistorySets' BY <1>5, <2>2 DEF History!deleteHistory
  <2> QED BY <1>1, <2>1, <2>3
<1>6. ASSUME NEW s \in searches,
             History!SearchServed(s) \/ History!SearchAnswered(s) \/ History!SearchFails(s)
      PROVE  HistoryTyped'
  <2> USE DEF History!SearchServed, History!SearchAnswered, History!SearchFails
  <2>1. HistoryCounts' BY <1>6
  <2>2. HistorySets' BY <1>6
  <2> QED BY <1>1, <2>1, <2>2
<1>7. ASSUME NEW d \in deletes,
             History!DeleteServed(d) \/ History!DeleteAnswered(d) \/ History!DeleteFails(d)
      PROVE  HistoryTyped'
  <2> USE DEF History!DeleteServed, History!DeleteAnswered, History!DeleteIsShown,
              History!DeleteFails
  <2>1. HistoryCounts' BY <1>7
  <2>2. HistorySets' BY <1>7
  <2> QED BY <1>1, <2>1, <2>2
<1>8. CASE UNCHANGED History!vars
  BY <1>1, <1>8 DEF History!vars
<1> QED
  BY <1>2, <1>3, <1>4, <1>5, <1>6, <1>7, <1>8 DEF History!Next

LEMMA HistorySurvives ==
    ASSUME HistoryInv, [History!Next]_(History!vars) PROVE SurvivorsInv'
<1>0. /\ crossed \in BOOLEAN /\ unheard \in BOOLEAN /\ results \in BOOLEAN
      /\ crossed' \in BOOLEAN /\ unheard' \in BOOLEAN /\ results' \in BOOLEAN
  BY HistoryTypes DEF HistoryInv, HistoryTyped, HistoryFlags
<1> USE <1>0 DEF HistoryInv, SurvivorsInv
<1>1. CASE History!Visit \/ History!OpenModal \/ History!closeModal
  BY <1>1 DEF History!Visit, History!OpenModal, History!closeModal
<1>2. ASSUME NEW S \in SUBSET Proxies, History!searchHistory(S) PROVE SurvivorsInv'
  BY <1>2 DEF History!searchHistory
<1>3. ASSUME NEW S \in SUBSET Proxies, History!deleteHistory(S) PROVE SurvivorsInv'
  BY <1>3 DEF History!deleteHistory
<1>4. ASSUME NEW s \in searches,
             History!SearchServed(s) \/ History!SearchAnswered(s) \/ History!SearchFails(s)
      PROVE  SurvivorsInv'
  BY <1>4 DEF HistoryTyped, HistorySets, History!SearchServed, History!SearchAnswered,
              History!SearchFails
<1>5. ASSUME NEW d \in deletes, History!DeleteServed(d) PROVE SurvivorsInv'
  <2>1. crossed' = (crossed \/ searches # {}) /\ searches' = searches
    BY <1>5 DEF History!DeleteServed
  <2>2. ~crossed' => searches' = {}
    BY <2>1
  <2>3. [d EXCEPT !.done = TRUE] \in deletes' /\ [d EXCEPT !.done = TRUE].done
    BY <1>5 DEF HistoryTyped, HistorySets, History!DeleteServed
  <2> QED
    BY <2>2, <2>3
<1>6. ASSUME NEW d \in deletes, History!DeleteAnswered(d) \/ History!DeleteFails(d)
      PROVE  SurvivorsInv'
  BY <1>6 DEF History!DeleteAnswered, History!DeleteIsShown, History!DeleteFails
<1>7. CASE UNCHANGED History!vars
  BY <1>7 DEF History!vars
<1> QED
  BY <1>1, <1>2, <1>3, <1>4, <1>5, <1>6, <1>7 DEF History!Next

LEMMA HistoryInvHolds == History!Spec => []HistoryInv
<1>1. HistoryInv /\ [History!Next]_(History!vars) => HistoryInv'
  BY HistoryTypes, HistorySurvives DEF HistoryInv
<1> QED
  BY <1>1, HistoryBegins, PTL DEF History!Spec

(* Results on the history page are still at the server once deletions have *)
(* been answered (deleteHistory and displayHistoryResults of               *)
(* resource_history.js), for any proxies, searches and deletions.          *)
THEOREM SurvivorsAlwaysShown == PartsSpec => []ShowsSurvivors
<1>1. HistoryInv => ShowsSurvivors
  BY DEF HistoryInv, SurvivorsInv, HistoryTyped, HistorySets, ShowsSurvivors,
         History!ShowsSurvivors
<1> QED
  BY <1>1, EachPart, HistoryInvHolds, PTL

-----------------------------------------------------------------------------
(* The analysis page.  That the panels agree is inductive with the types:  *)
(* what is shown is made in the step that sets the cache, the filter and   *)
(* the buttons, or from the cache and a button that is there.              *)
AnalysisInv == Analysis!TypeOK /\ PanelsAgree

LEMMA AnalysisBegins == Analysis!Init => AnalysisInv
BY PartsAssumption
   DEF Analysis!AnalysisAssumption, Analysis!Init, AnalysisInv, Analysis!TypeOK,
       PanelsAgree, Analysis!PanelsAgree, Analysis!NoRun, Analysis!EmptyTables,
       Analysis!Runs, Analysis!Filters

LEMMA AnalysisSteps ==
    ASSUME AnalysisInv, [Analysis!Next]_(Analysis!vars) PROVE AnalysisInv'
<1> USE PartsAssumption
    DEF Analysis!AnalysisAssumption, AnalysisInv, Analysis!TypeOK, PanelsAgree,
        Analysis!PanelsAgree, Analysis!EmptyTables, Analysis!Runs, Analysis!Filters,
        Analysis!Act
<1>1. CASE Analysis!Visit
  BY <1>1 DEF Analysis!Visit
<1>2. ASSUME NEW S \in SUBSET Proxies, Analysis!runAnalysis(S) PROVE AnalysisInv'
  BY <1>2 DEF Analysis!runAnalysis
<1>3. ASSUME NEW r \in runs, Analysis!QuestionFails(r) PROVE AnalysisInv'
  BY <1>3 DEF Analysis!QuestionFails
<1>4. ASSUME NEW r \in runs, NEW x \in Panels, Analysis!QuestionAnswered(r, x)
      PROVE  AnalysisInv'
  <2>1. CASE Analysis!AllOf(r.id)
    BY <1>4, <2>1 DEF Analysis!QuestionAnswered, Analysis!RenderAnswer, Analysis!renderAll
  <2>2. CASE ~Analysis!AllOf(r.id)
    BY <1>4, <2>2 DEF Analysis!QuestionAnswered
  <2> QED
    BY <2>1, <2>2
<1>5. ASSUME NEW f \in Analysis!Filters, Analysis!Filter(f) PROVE AnalysisInv'
  BY <1>5 DEF Analysis!Filter, Analysis!renderAll, Analysis!NoRun
<1>6. CASE UNCHANGED Analysis!vars
  BY <1>6 DEF Analysis!vars
<1> QED
  BY <1>1, <1>2, <1>3, <1>4, <1>5, <1>6 DEF Analysis!Next

LEMMA AnalysisInvHolds == Analysis!Spec => []AnalysisInv
BY AnalysisBegins, AnalysisSteps, PTL DEF Analysis!Spec

(* All panels are of one analysis and one filter, those of the buttons     *)
(* (runAnalysis, renderAll and the filter of resource_analysis.js), for    *)
(* any proxies, panels and order of the answers.                           *)
THEOREM PanelsAlwaysAgree == PartsSpec => []PanelsAgree
<1>1. AnalysisInv => PanelsAgree
  BY DEF AnalysisInv
<1> QED
  BY <1>1, EachPart, AnalysisInvHolds, PTL

-----------------------------------------------------------------------------
(* The files of the session browser.  What SessionStoreProofs shows of the *)
(* store is stated of this instance of it; the two speak of the same.      *)
StoreFacts ==
    INSTANCE SessionStoreProofs WITH Proxies <- Old, cache <- storeCache,
        answers <- storeAnswers, newest <- storeNewest

LEMMA StoreIsThere ==
    /\ Store!Init <=> StoreFacts!Init
    /\ Store!vars = StoreFacts!vars
    /\ [Store!Next]_(Store!vars) <=> [StoreFacts!Next]_(StoreFacts!vars)
<1> USE DEF Store!Seconds, StoreFacts!Seconds, Store!NoTime, StoreFacts!NoTime,
        Store!NoFile, StoreFacts!NoFile, Store!NoRow, StoreFacts!NoRow,
        Store!NoHeld, StoreFacts!NoHeld, Store!NotCached, StoreFacts!NotCached,
        Store!NoView, StoreFacts!NoView, Store!vars, StoreFacts!vars,
        Store!diskVars, StoreFacts!diskVars, Store!historyVars, StoreFacts!historyVars,
        Store!StoredTimes, StoreFacts!StoredTimes, Store!LatestOf, StoreFacts!LatestOf,
        Store!Max, StoreFacts!Max, Store!LatestView, StoreFacts!LatestView,
        Store!Shown, StoreFacts!Shown
<1>1. (Store!Init <=> StoreFacts!Init) /\ Store!vars = StoreFacts!vars
  BY DEF Store!Init, StoreFacts!Init
<1>2. /\ Store!Collect <=> StoreFacts!Collect
      /\ Store!EndWrites <=> StoreFacts!EndWrites
      /\ Store!Tick <=> StoreFacts!Tick
      /\ Store!Crash <=> StoreFacts!Crash
  BY DEF Store!Collect, StoreFacts!Collect, Store!EndWrites, StoreFacts!EndWrites,
     Store!ToWrite, StoreFacts!ToWrite, Store!Tick, StoreFacts!Tick,
     Store!Crash, StoreFacts!Crash
<1>3. Store!Cleanup <=> StoreFacts!Cleanup
  BY DEF Store!Cleanup, StoreFacts!Cleanup, Store!Kept, StoreFacts!Kept
<1>4. ASSUME NEW p1 \in Old
      PROVE  /\ Store!WriteBatch(p1) <=> StoreFacts!WriteBatch(p1)
             /\ Store!WriteFails(p1) <=> StoreFacts!WriteFails(p1)
  BY DEF Store!WriteBatch, StoreFacts!WriteBatch, Store!WriteFails, StoreFacts!WriteFails,
     Store!ToWrite, StoreFacts!ToWrite, Store!Put, StoreFacts!Put, Store!Wrote,
     StoreFacts!Wrote, Store!Invalidate, StoreFacts!Invalidate
<1>5. ASSUME NEW p1 \in Old
      PROVE  /\ Store!List(p1) <=> StoreFacts!List(p1)
             /\ Store!Load(p1) <=> StoreFacts!Load(p1)
             /\ Store!Expire(p1) <=> StoreFacts!Expire(p1)
  BY DEF Store!List, StoreFacts!List, Store!Load, StoreFacts!Load, Store!Expire,
     StoreFacts!Expire, Store!Hold, StoreFacts!Hold, Store!RecordId, StoreFacts!RecordId
<1>6. Store!Next <=> StoreFacts!Next
  BY <1>2, <1>3, <1>4, <1>5, Zenon DEF Store!Next, StoreFacts!Next
<1> QED
  BY <1>1, <1>6

LEMMA StoreInvariantsAreThere ==
    /\ Store!TypeOK <=> StoreFacts!TypeOK
    /\ Store!NewestIsShown <=> StoreFacts!NewestIsShown
    /\ Store!DetailsOpen <=> StoreFacts!DetailsOpen
<1> USE DEF Store!Seconds, StoreFacts!Seconds, Store!NoTime, StoreFacts!NoTime,
        Store!NoFile, StoreFacts!NoFile, Store!NoRow, StoreFacts!NoRow,
        Store!NotCached, StoreFacts!NotCached, Store!NoView, StoreFacts!NoView
<1>1. Store!TypeOK <=> StoreFacts!TypeOK
  BY DEF Store!TypeOK, StoreFacts!TypeOK, Store!Files, StoreFacts!Files,
     Store!NoHeld, StoreFacts!NoHeld
<1>2. Store!NewestIsShown <=> StoreFacts!NewestIsShown
  BY DEF Store!NewestIsShown, StoreFacts!NewestIsShown, Store!Shown, StoreFacts!Shown,
     Store!LatestView, StoreFacts!LatestView, Store!LatestOf, StoreFacts!LatestOf,
     Store!StoredTimes, StoreFacts!StoredTimes, Store!Max, StoreFacts!Max
<1>3. Store!DetailsOpen <=> StoreFacts!DetailsOpen
  BY DEF Store!DetailsOpen, StoreFacts!DetailsOpen, Store!Item, StoreFacts!Item,
     Store!RowOf, StoreFacts!RowOf, Store!LineOf, StoreFacts!LineOf, Store!SecondOf,
     StoreFacts!SecondOf, Store!ProxyOf, StoreFacts!ProxyOf
<1> QED
  BY <1>1, <1>2, <1>3

LEMMA StoreAssumed == StoreFacts!SizesAssumption
BY PartsAssumption DEF Store!SizesAssumption, StoreFacts!SizesAssumption

LEMMA StoreSpecIsThere == Store!Spec => StoreFacts!Spec
BY StoreIsThere, PTL DEF Store!Spec, StoreFacts!Spec

LEMMA StoreTypesHold == Store!Spec => []Store!TypeOK
BY StoreSpecIsThere, StoreInvariantsAreThere, StoreAssumed, StoreFacts!StoreTypes, PTL

(* The tables show what was collected last (collect_sessions of            *)
(* session_browser.py over temp_store.py), for any proxies, clock, rows    *)
(* and collections.                                                        *)
THEOREM NewestAlwaysShown == PartsSpec => []NewestIsShown
<1>1. Store!NewestIsShown => NewestIsShown
  BY DEF NewestIsShown
<1> QED
  BY <1>1, EachPart, StoreSpecIsThere, StoreInvariantsAreThere, StoreAssumed,
     StoreFacts!TablesShowNewest, PTL

(* A row opens by its record id (build_record_id, read_item_by_id), when   *)
(* the ids have room for the proxies and the clock.                        *)
THEOREM ClickedRowsOpen ==
    (\A p1 \in Old : p1 < ProxySize) /\ MaxTime < TimeSize => (PartsSpec => []DetailsOpen)
<1> SUFFICES ASSUME (\A p1 \in Old : p1 < ProxySize) /\ MaxTime < TimeSize
             PROVE  PartsSpec => []DetailsOpen
  OBVIOUS
<1>1. Store!DetailsOpen => DetailsOpen
  BY DEF DetailsOpen
<1>2. StoreFacts!IdsHaveRoom
  BY DEF StoreFacts!IdsHaveRoom
<1> QED
  BY <1>1, <1>2, EachPart, StoreSpecIsThere, StoreInvariantsAreThere, StoreAssumed,
     StoreFacts!ShownRowsOpen, PTL

-----------------------------------------------------------------------------
(* The database file: the same for what DbRecoveryProofs shows of it.      *)
DbFacts == INSTANCE DbRecoveryProofs WITH Rows <- DbRows, NoFile <- NoDb

LEMMA DbIsThere ==
    /\ Db!Init <=> DbFacts!Init
    /\ Db!vars = DbFacts!vars
    /\ [Db!Next]_(Db!vars) <=> [DbFacts!Next]_(DbFacts!vars)
<1> USE DEF Db!vars, DbFacts!vars, Db!files, DbFacts!files, Db!ghosts, DbFacts!ghosts,
        Db!times, DbFacts!times,
        Db!EmptyFile, DbFacts!EmptyFile, Db!Merged, DbFacts!Merged, Db!LeftInWal,
        DbFacts!LeftInWal, Db!Readable, DbFacts!Readable, Db!Sound, DbFacts!Sound,
        Db!Stage1Fails, DbFacts!Stage1Fails
<1>1. (Db!Init <=> DbFacts!Init) /\ Db!vars = DbFacts!vars
  BY DEF Db!Init, DbFacts!Init
<1>2. /\ Db!Commit <=> DbFacts!Commit
      /\ Db!Checkpoint <=> DbFacts!Checkpoint
      /\ Db!Crash <=> DbFacts!Crash
      /\ Db!Damage <=> DbFacts!Damage
      /\ Db!TimePasses <=> DbFacts!TimePasses
      /\ Db!DiskFills <=> DbFacts!DiskFills
  BY DEF Db!Commit, DbFacts!Commit, Db!Checkpoint, DbFacts!Checkpoint, Db!Crash,
     DbFacts!Crash, Db!Damage, DbFacts!Damage, Db!TimePasses, DbFacts!TimePasses,
     Db!DiskFills, DbFacts!DiskFills
<1>3. /\ Db!Start <=> DbFacts!Start
      /\ Db!Check <=> DbFacts!Check
      /\ Db!Backup <=> DbFacts!Backup
      /\ Db!Dump <=> DbFacts!Dump
      /\ Db!MoveAway <=> DbFacts!MoveAway
      /\ Db!MoveIn <=> DbFacts!MoveIn
      /\ Db!MoveFails <=> DbFacts!MoveFails
  BY DEF Db!Start, DbFacts!Start, Db!Check, DbFacts!Check, Db!Backup, DbFacts!Backup,
     Db!Dump, DbFacts!Dump, Db!MoveAway, DbFacts!MoveAway, Db!SetAside,
     DbFacts!SetAside, Db!MoveIn, DbFacts!MoveIn, Db!MoveFails, DbFacts!MoveFails
<1>4. /\ Db!Cleanup <=> DbFacts!Cleanup
      /\ Db!Fallback <=> DbFacts!Fallback
      /\ Db!CreateAll <=> DbFacts!CreateAll
  BY DEF Db!Cleanup, DbFacts!Cleanup, Db!Fallback, DbFacts!Fallback, Db!CreateAll,
     DbFacts!CreateAll, Db!Created, DbFacts!Created
<1>5. Db!Next <=> DbFacts!Next
  BY <1>2, <1>3, <1>4, Zenon DEF Db!Next, DbFacts!Next, Db!Recovery, DbFacts!Recovery
<1> QED
  BY <1>1, <1>5

LEMMA DbInvariantsAreThere ==
    /\ Db!TypeOK <=> DbFacts!TypeOK
    /\ Db!CommittedRowsAreServed <=> DbFacts!CommittedRowsAreServed
    /\ Db!NothingSparedIsDestroyed <=> DbFacts!NothingSparedIsDestroyed
    /\ Db!LaterStartsFindDamage <=> DbFacts!LaterStartsFindDamage
<1>1. Db!TypeOK <=> DbFacts!TypeOK
  BY DEF Db!TypeOK, DbFacts!TypeOK, Db!Files, DbFacts!Files, Db!Contents, DbFacts!Contents,
     Db!Healths, DbFacts!Healths
<1>2. /\ Db!CommittedRowsAreServed <=> DbFacts!CommittedRowsAreServed
      /\ Db!NothingSparedIsDestroyed <=> DbFacts!NothingSparedIsDestroyed
      /\ Db!LaterStartsFindDamage <=> DbFacts!LaterStartsFindDamage
  BY DEF Db!CommittedRowsAreServed, DbFacts!CommittedRowsAreServed,
     Db!NothingSparedIsDestroyed, DbFacts!NothingSparedIsDestroyed,
     Db!LaterStartsFindDamage, DbFacts!LaterStartsFindDamage, Db!Served, DbFacts!Served,
     Db!RowsOf, DbFacts!RowsOf, Db!SetAsides, DbFacts!SetAsides
<1> QED
  BY <1>1, <1>2

LEMMA DbAssumed == DbFacts!DbAssumption
BY PartsAssumption DEF Db!DamagesAssumption, Db!NoFileAssumption, DbFacts!DbAssumption,
   DbFacts!DamagesAssumption, DbFacts!NoFileAssumption, Db!Healths, DbFacts!Healths

LEMMA DbSpecIsThere == Db!Spec => DbFacts!Spec
BY DbIsThere, PTL DEF Db!Spec, DbFacts!Spec

LEMMA DbTypesHold == Db!Spec => []Db!TypeOK
BY DbSpecIsThere, DbInvariantsAreThere, DbAssumed, DbFacts!TypeCorrect, PTL

(* Committed rows are served as long as no power failure damaged the file  *)
(* and no recovery began on a full disk (_recover_sqlite_db), for any rows *)
(* and crashes anywhere.                                                   *)
THEOREM CommitsAlwaysServed == PartsSpec => []CommittedRowsAreServed
<1>1. Db!CommittedRowsAreServed => CommittedRowsAreServed
  BY DEF CommittedRowsAreServed
<1> QED
  BY <1>1, EachPart, DbSpecIsThere, DbInvariantsAreThere, DbAssumed,
     DbFacts!CommitsSurvive, PTL

(* A start a day or more after the damage serves no damaged file, unless   *)
(* that could not be moved away (_recover_sqlite_db).                      *)
THEOREM DamageAlwaysNoticed == PartsSpec => []LaterStartsFindDamage
<1>1. Db!LaterStartsFindDamage => LaterStartsFindDamage
  BY DEF LaterStartsFindDamage
<1> QED
  BY <1>1, EachPart, DbSpecIsThere, DbInvariantsAreThere, DbAssumed,
     DbFacts!DamageIsNoticed, PTL

(* Recovery destroys no row that one damage spared (_recover_sqlite_db),   *)
(* wherever it crashes and whatever it cannot move.                        *)
THEOREM SparedAlwaysThere ==
    MaxDamages <= 1 => (PartsSpec => []NothingSparedIsDestroyed)
<1> SUFFICES ASSUME MaxDamages <= 1 PROVE PartsSpec => []NothingSparedIsDestroyed
  OBVIOUS
<1>1. Db!NothingSparedIsDestroyed => NothingSparedIsDestroyed
  BY DEF NothingSparedIsDestroyed
<1> QED
  BY <1>1, EachPart, DbSpecIsThere, DbInvariantsAreThere, DbAssumed,
     DbFacts!SparedRowsStay, PTL

-----------------------------------------------------------------------------
(* The variables of every page, of the session files and of the database   *)
(* keep their types, for all values of the constants.                      *)
THEOREM PartsTypes == PartsSpec => []PartsTypeOK
<1>1. SelectorInv => TypeOK
  BY DEF SelectorInv
<1>2. FormInv /\ BulkInv => Form!TypeOK
  BY DEF FormInv, FormFlags, FormCounts, SavedTyped, FormSets, BulkInv, RowsTyped, BulkRow,
     BulkResults, Form!TypeOK
<1>3. SettingsInv => Settings!TypeOK
  BY DEF SettingsInv, SettingsTyped, SettingsFlags, SettingsCounts, PutsTyped, LoadsTyped,
     ImportsTyped, Puts, Answers, Settings!TypeOK
<1>4. TrafficInv => Traffic!TypeOK
  BY DEF TrafficInv, TrafficTyped, TrafficFlags, TrafficCounts, TrafficSets, VersionInv,
     GridSets, Collections, Reads, Traffic!TypeOK
<1>5. WatchInv => Watch!TypeOK
  BY DEF WatchInv, WatchTyped
<1>6. SessionInv => Session!TypeOK
  BY DEF SessionInv, SessionTyped, SessionFlags, SessionCounts, SessionSets, SessionQueues,
     Session!TypeOK
<1>7. HistoryInv => History!TypeOK
  BY PartsAssumption
     DEF HistoryInv, HistoryTyped, HistoryFlags, HistoryCounts, HistorySets,
         History!TypeOK, History!HistoryAssumption
<1>8. AnalysisInv => Analysis!TypeOK
  BY DEF AnalysisInv
<1>9. PartsSpec => [](SelectorInv /\ FormInv /\ BulkInv /\ SettingsInv)
  BY EachPart, SelectorInvHolds, BulkInvHolds, SettingsInvHolds, PTL
<1>10. PartsSpec => [](TrafficInv /\ WatchInv /\ SessionInv)
  BY EachPart, TrafficInvHolds, WatchInvHolds, SessionInvHolds, PTL
<1>11. PartsSpec => [](HistoryInv /\ AnalysisInv /\ Store!TypeOK /\ Db!TypeOK)
  BY EachPart, HistoryInvHolds, AnalysisInvHolds, StoreTypesHold, DbTypesHold, PTL
<1>12. /\ SelectorInv /\ FormInv /\ BulkInv /\ SettingsInv
       /\ TrafficInv /\ WatchInv /\ SessionInv
       /\ HistoryInv /\ AnalysisInv /\ Store!TypeOK /\ Db!TypeOK
       => PartsTypeOK
  BY <1>1, <1>2, <1>3, <1>4, <1>5, <1>6, <1>7, <1>8 DEF PartsTypeOK
<1> QED
  BY <1>9, <1>10, <1>11, <1>12, PTL
=============================================================================
