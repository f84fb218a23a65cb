---------------------------- MODULE SettingsPage ----------------------------
(***************************************************************************)
(* The settings page (settings.js): one form for two configurations, the   *)
(* resource collector's and the session browser's, each with its own GET   *)
(* and its own PUT.  The form can be saved before it has been filled, a    *)
(* visit of the page can end while requests are under way, and one of the  *)
(* two PUTs can fail.  initialConfigData outlives the visit.  An import    *)
(* or a reset replaces both configurations at the server and has the       *)
(* document loaded anew when it is answered; until then the page can be    *)
(* edited, saved and left as ever.                                         *)
(***************************************************************************)
EXTENDS Naturals, FiniteSets

CONSTANTS
    Blank,      \* what the template of the page has in its fields
    Stored,     \* what is configured at first
    Typed,      \* what the user types, or a preset puts in
    Imported,   \* what an import or a reset makes of the configuration
    None,       \* not loaded
    MaxSaves,   \* bound on the saves
    MaxActs     \* bound on the other acts of the user, and on failures

SettingsAssumption ==
    /\ Cardinality({Blank, Stored, Typed, Imported, None}) = 5
    /\ {MaxSaves, MaxActs} \subseteq Nat

Parts == {"resource", "session"}
Values == {Blank, Stored, Typed, Imported}
Both(v) == [p \in Parts |-> v]

VARIABLES
    server,     \* the configurations
    form,       \* the fields of the page
    initial,    \* initialConfigData, None for null and for what it lacks
    hasChanges,
    here,       \* the page is shown
    visit,      \* visits of the page so far
    loads,      \* GETs under way, with what was stored when they were made
    filled,     \* the visits and parts whose GET has been answered well
    puts,       \* PUTs under way to the server
    outcome,    \* of each save and part: what has come back
    saves,      \* saves so far
    imports,    \* imports and resets under way, and whether anybody waits
    sent,       \* history: what the last save sent
    overlap,    \* history: another save, an import or a reset was under way
                \* beside the last save
    wiped,      \* history: a save that asked nothing sent fields never filled
    cfgStatus,
    acts

vars == <<server, form, initial, hasChanges, here, visit, loads, filled, puts, outcome,
          saves, imports, sent, overlap, wiped, cfgStatus, acts>>

Saves == 1 .. MaxSaves

TypeOK ==
    /\ {server, form, sent} \subseteq [Parts -> Values]
    /\ initial \in [Parts -> Values \cup {None}]
    /\ {hasChanges, here, overlap, wiped} \subseteq BOOLEAN
    /\ visit \in Nat
    /\ loads \subseteq [visit : Nat, part : Parts, value : Values]
    /\ filled \subseteq Nat \X Parts
    /\ puts \subseteq [save : Saves \cup {0}, part : Parts, value : Values]
    /\ outcome \in [Saves -> [Parts -> {"none", "served", "refused", "ok", "error"}]]
    /\ saves \in 0 .. MaxSaves /\ acts \in 0 .. MaxActs
    /\ imports \subseteq [act : 1 .. MaxActs, heard : BOOLEAN,
                          stage : {"out", "done", "refused"}]
    /\ cfgStatus \in {"empty", "loaded", "saving", "saved", "failed", "other"}

Loads(v, config) == {[visit |-> v, part |-> p, value |-> config[p]] : p \in Parts}

Init ==
    /\ server = Both(Stored) /\ form = Both(Blank) /\ initial = Both(None)
    /\ hasChanges = FALSE /\ imports = {}
    /\ here = TRUE /\ visit = 1 /\ loads = Loads(1, server) /\ filled = {}
    /\ puts = {} /\ outcome = [n \in Saves |-> Both("none")] /\ saves = 0
    /\ sent = Both(Stored) /\ overlap = FALSE /\ wiped = FALSE
    /\ cfgStatus = "empty" /\ acts = 0

Act == acts < MaxActs /\ acts' = acts + 1

\* Away from the page there is nothing that could show a status.
Status(what) == cfgStatus' = IF here THEN what ELSE cfgStatus

-----------------------------------------------------------------------------
(* Loading.                                                                *)

\* loadResourceConfig, loadSessionConfig, also for a visit that is over;
\* "loaded" when both of a visit are there.  Away from the page there are no
\* fields to fill: the resource part then takes its initial value from them
\* all the same, the session part from the answer.
Loaded(l) ==
    /\ loads' = loads \ {l}
    /\ \E read \in {l.value, server[l.part]} :
          /\ form' = IF here THEN [form EXCEPT ![l.part] = read] ELSE form
          /\ initial' = [initial EXCEPT ![l.part] =
                             IF l.part = "resource" THEN form'[l.part] ELSE read]
    /\ filled' = filled \cup {<<l.visit, l.part>>}
    /\ IF {l.visit} \X Parts \subseteq filled' THEN Status("loaded") ELSE UNCHANGED cfgStatus
    /\ UNCHANGED <<server, hasChanges, here, visit, puts, outcome, saves, imports, sent,
                   overlap, wiped, acts>>

LoadFails(l) ==
    /\ Act /\ loads' = loads \ {l} /\ Status("failed")
    /\ UNCHANGED <<server, form, initial, hasChanges, here, visit, filled, puts, outcome,
                   saves, imports, sent, overlap, wiped>>

\* Fields that are not there read like those of the template.
Leave ==
    /\ Act /\ here /\ here' = FALSE
    /\ form' = Both(Blank) /\ cfgStatus' = "empty"
    /\ UNCHANGED <<server, initial, hasChanges, visit, loads, filled, puts, outcome, saves,
                   imports, sent, overlap, wiped>>

\* initSettingsPage of a later visit.
Visit ==
    /\ ~here /\ here' = TRUE /\ visit' = visit + 1
    /\ loads' = loads \cup Loads(visit', server)
    /\ UNCHANGED <<server, form, initial, hasChanges, filled, puts, outcome, saves, imports,
                   sent, overlap, wiped, cfgStatus, acts>>

-----------------------------------------------------------------------------
(* Editing.                                                                *)

\* compareConfigData
compareConfigData(p, fields) == fields[p] # initial[p]

\* checkForChanges; without initialConfigData it leaves things as they are.
checkForChanges(fields) ==
    hasChanges' = IF initial = Both(None) THEN hasChanges
                  ELSE \E p \in Parts : compareConfigData(p, fields)

\* A field, an interface row, or applyPreset.
Edit(p) ==
    /\ Act /\ here /\ form' = [form EXCEPT ![p] = Typed]
    /\ checkForChanges(form')
    /\ UNCHANGED <<server, initial, here, visit, loads, filled, puts, outcome, saves, imports,
                   sent, overlap, wiped, cfgStatus>>

-----------------------------------------------------------------------------
(* Saving.                                                                 *)

\* A save is under way, on its way to the server or back.
Saving ==
    puts # {} \/ \E n \in Saves, p \in Parts : outcome[n][p] \in {"served", "refused"}

\* An import or a reset is on its way to the server.
Importing == \E i \in imports : i.stage = "out"

\* saveAllConfig asks only if there are changes that it knows of.
saveAllConfig(confirmed) ==
    /\ here /\ saves < MaxSaves
    /\ checkForChanges(form)
    /\ IF hasChanges' /\ ~confirmed
       THEN UNCHANGED <<puts, saves, sent, overlap, wiped, cfgStatus>>
       ELSE /\ saves' = saves + 1 /\ cfgStatus' = "saving" /\ sent' = form
            /\ puts' = puts \cup {[save |-> saves', part |-> p, value |-> form[p]] : p \in Parts}
            /\ overlap' = (Saving \/ Importing)
            /\ wiped' = (wiped \/ (~hasChanges' /\ \E p \in Parts : form[p] = Blank))
    /\ UNCHANGED <<server, form, initial, here, visit, loads, filled, outcome, imports, acts>>

\* Nobody waits for the saves of a document that has been reloaded.
Outcome(m, what) ==
    outcome' = IF m.save = 0 THEN outcome ELSE [outcome EXCEPT ![m.save][m.part] = what]

\* The server takes a PUT or refuses it.
Serve(m) ==
    /\ puts' = puts \ {m}
    /\ \/ server' = [server EXCEPT ![m.part] = m.value] /\ Outcome(m, "served")
          /\ UNCHANGED acts
       \/ Act /\ Outcome(m, "refused") /\ UNCHANGED server
    /\ UNCHANGED <<form, initial, hasChanges, here, visit, loads, filled, saves, imports, sent,
                   overlap, wiped, cfgStatus>>

\* (Mutant: one success will do.)
Resolves_OnEither(n) == \E p \in Parts : outcome'[n][p] = "ok"

\* Promise.all of the two PUTs
Resolves(n) == \A p \in Parts : outcome'[n][p] = "ok"

\* The first refusal rejects, whatever becomes of the other.
Rejects(n, p) ==
    outcome'[n][p] = "error" /\ \A q \in Parts \ {p} : outcome'[n][q] # "error"

Answered(n, p) ==
    /\ outcome[n][p] \in {"served", "refused"}
    /\ outcome' = [outcome EXCEPT ![n][p] = IF @ = "served" THEN "ok" ELSE "error"]
    /\ IF Resolves(n)
       THEN initial' = form /\ hasChanges' = FALSE /\ Status("saved")
       ELSE /\ IF Rejects(n, p) THEN Status("failed") ELSE UNCHANGED cfgStatus
            /\ UNCHANGED <<initial, hasChanges>>
    /\ UNCHANGED <<server, form, here, visit, loads, filled, puts, saves, imports, sent,
                   overlap, wiped, acts>>

-----------------------------------------------------------------------------
(* Export, import and reset.                                               *)

exportConfig ==
    /\ Act /\ here /\ cfgStatus' = "other"
    /\ UNCHANGED <<server, form, initial, hasChanges, here, visit, loads, filled, puts,
                   outcome, saves, imports, sent, overlap, wiped>>

\* importConfig, resetConfig
ImportOrReset ==
    /\ Act /\ here /\ cfgStatus' = "other"
    /\ imports' = imports \cup {[act |-> acts', heard |-> TRUE, stage |-> "out"]}
    /\ overlap' = (overlap \/ Saving)
    /\ UNCHANGED <<server, form, initial, hasChanges, here, visit, loads, filled, puts,
                   outcome, saves, sent, wiped>>

\* import_full_config_excel and reset_full_config commit both configurations
\* at once, or neither.
ServeImport(i) ==
    /\ i.stage = "out"
    /\ \E stage \in {"done", "refused"} :
          /\ imports' = (imports \ {i}) \cup {[i EXCEPT !.stage = stage]}
          /\ server' = IF stage = "done" THEN Both(Imported) ELSE server
    /\ UNCHANGED <<form, initial, hasChanges, here, visit, loads, filled, puts, outcome, saves,
                   sent, overlap, wiped, cfgStatus, acts>>

\* The document is loaded anew, on whatever page the user is by then.
Reload(i) ==
    /\ i.heard /\ i.stage = "done"
    /\ form' = Both(Blank) /\ initial' = Both(None) /\ hasChanges' = FALSE
    /\ visit' = visit + 1 /\ filled' = {}
    /\ loads' = IF here THEN Loads(visit', server) ELSE {}
    /\ cfgStatus' = "empty"
    /\ outcome' = [n \in Saves |-> Both("none")]
    /\ puts' = {[m EXCEPT !.save = 0] : m \in puts}
    /\ imports' = {[j EXCEPT !.heard = FALSE] : j \in imports \ {i}}
    /\ UNCHANGED <<server, here, saves, sent, overlap, wiped, acts>>

\* A refusal, or an answer that is lost.
ImportFails(i) ==
    /\ i.heard /\ i.stage \in {"done", "refused"}
    /\ imports' = imports \ {i} /\ Status("other")
    /\ UNCHANGED <<server, form, initial, hasChanges, here, visit, loads, filled, puts,
                   outcome, saves, sent, overlap, wiped, acts>>

Next ==
    \/ \E l \in loads : Loaded(l) \/ LoadFails(l)
    \/ Leave \/ Visit
    \/ \E p \in Parts : Edit(p)
    \/ \E confirmed \in BOOLEAN : saveAllConfig(confirmed)
    \/ \E m \in puts : Serve(m)
    \/ \E n \in Saves, p \in Parts : Answered(n, p)
    \/ exportConfig \/ ImportOrReset
    \/ \E i \in imports : ServeImport(i) \/ Reload(i) \/ ImportFails(i)

Spec == Init /\ [][Next]_vars

-----------------------------------------------------------------------------
(***************************************************************************)
(* When the page says that everything has been saved, both configurations  *)
(* at the server are those the form was saved with, unless another save    *)
(* was under way beside that one, or an import or a reset was on its way   *)
(* to the server.                                                          *)
(***************************************************************************)
SavedIsStored ==
    cfgStatus = "saved" /\ ~overlap => server = sent

(***************************************************************************)
(* Where there is no initial value a save counts as a change (the comment  *)
(* in compareConfigData) and is asked about: the empty fields of a page    *)
(* that has not been filled never replace a configuration unasked.         *)
(***************************************************************************)
BlankIsConfirmed == ~wiped
=============================================================================
