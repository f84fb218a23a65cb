------------------------------ MODULE ProxyForm ------------------------------
(***************************************************************************)
(* The page that manages proxies and their groups (proxy_management.js).   *)
(* One form serves to edit, add and clone; it opens at once and is filled  *)
(* by whatever answer comes, of any request made before.  A second dialog  *)
(* adds proxies in bulk: a text is parsed into rows, the good rows are     *)
(* sent, and the answer speaks of them by their index among those sent.    *)
(***************************************************************************)
EXTENDS Naturals, FiniteSets, SequencesExt

CONSTANTS
    Proxies,    \* ids, of proxies there are and of those to be added
    Old,        \* those there are at first
    WithOids,   \* those of Old with interface OIDs of their own
    Group,      \* the group Old proxies are in
    None,       \* no proxy, no group, no result
    Texts,      \* texts of the bulk dialog: sequences of [host, good]
    MaxActs     \* bound on the acts of the user

FormAssumption ==
    /\ WithOids \subseteq Old /\ Old \subseteq Proxies
    /\ None \notin Proxies \cup {Group}
    /\ MaxActs \in Nat /\ << >> \in Texts
    /\ \A t \in Texts : \A i \in DOMAIN t : t[i].good \in BOOLEAN

\* What a proxy is told by: whose fields and whose OIDs it has, and its group.
Sources == Proxies \cup {None}
Records == [fields : Sources, oids : Sources, group : {Group, None}]

VARIABLES
    saved,     \* the server: the proxies there are
    grouped,   \* the server: Group has not been deleted
    hosts,     \* the server: hosts added in bulk
    form,      \* the fields of the form; its interface rows stay when hidden
    shown,     \* the form is open
    options,   \* the groups are in the group select of the form
    gets,      \* answers under way for the form
    lists,     \* answers under way for the list of groups
    puts,      \* saves that have been answered well and not handled
    text,      \* of the bulk dialog
    preview,   \* the debounce timer of the preview is set
    bulkRows,  \* the rows of the preview
    parse,     \* which parse they come from
    canSubmit, \* the button of the bulk dialog is enabled
    bulkShown, \* the dialog is open
    sent,      \* bulk requests under way
    acts

formVars == <<saved, grouped, form, shown, options, gets, lists, puts>>
bulkVars == <<hosts, text, preview, bulkRows, parse, canSubmit, bulkShown, sent>>
vars == <<formVars, bulkVars, acts>>

Results == {"created", "duplicate", "error"}
Hosts == UNION {{t[i].host : i \in DOMAIN t} : t \in Texts}

TypeOK ==
    /\ DOMAIN saved \subseteq Proxies /\ \A p \in DOMAIN saved : saved[p] \in Records
    /\ hosts \subseteq Hosts
    /\ form \in [id : Sources, fields : Sources, oids : Sources, custom : BOOLEAN,
                 group : {Group, None}]
    /\ {grouped, shown, options, preview, canSubmit, bulkShown} \subseteq BOOLEAN
    /\ gets \subseteq [do : {"edit", "clone"}, id : Proxies, rec : Records]
    /\ lists \in Nat /\ puts \in Nat /\ parse \in Nat
    /\ text \in Texts
    /\ \A i \in DOMAIN bulkRows :
          /\ bulkRows[i].host \in Hosts /\ bulkRows[i].ok \in BOOLEAN
          /\ bulkRows[i].result = None \/ bulkRows[i].result.status \in Results
    /\ acts \in 0 .. MaxActs

Init ==
    /\ saved = [p \in Old |-> [fields |-> p, group |-> Group,
                               oids |-> IF p \in WithOids THEN p ELSE None]]
    /\ grouped = TRUE /\ hosts = {}
    /\ form = [id |-> None, fields |-> None, oids |-> None, custom |-> FALSE,
               group |-> None]
    /\ shown = FALSE /\ options = FALSE /\ gets = {} /\ lists = 1 /\ puts = 0
    /\ text = << >> /\ preview = FALSE /\ bulkRows = << >> /\ parse = 0
    /\ canSubmit = FALSE /\ bulkShown = FALSE /\ sent = {}
    /\ acts = 0

Act == acts < MaxActs /\ acts' = acts + 1

-----------------------------------------------------------------------------
(* The form.                                                               *)

\* The button of a row, with the answer the server will give.
Ask(what, p) ==
    /\ Act /\ p \in DOMAIN saved
    /\ gets' = gets \cup {[do |-> what, id |-> p, rec |-> saved[p]]}
    /\ shown' = (shown \/ what = "edit")
    /\ UNCHANGED <<saved, grouped, form, options, lists, puts, bulkVars>>

openModal(p) == Ask("edit", p)
cloneProxy(p) == Ask("clone", p)

\* openModal without an id: reset leaves the interface rows where they are.
OpenEmpty ==
    /\ Act /\ shown' = TRUE
    /\ form' = [form EXCEPT !.id = None, !.fields = None, !.custom = FALSE,
                            !.group = None]
    /\ UNCHANGED <<saved, grouped, options, gets, lists, puts, bulkVars>>

closeModal ==
    /\ shown /\ Act /\ shown' = FALSE
    /\ UNCHANGED <<saved, grouped, form, options, gets, lists, puts, bulkVars>>

\* A select without its options cannot take the group.
Selected(group) == IF options THEN group ELSE None

\* (Mutant: the OID rows of the last proxy stay.)
fillForm_KeepsRows(a) ==
    form' = [id |-> IF a.do = "edit" THEN a.id ELSE None,
             fields |-> a.rec.fields,
             oids |-> IF a.rec.oids = None THEN form.oids ELSE a.rec.oids,
             custom |-> a.rec.oids # None,
             group |-> Selected(a.rec.group)]

\* fillForm, and the same in cloneProxy but for the id.
fillForm(a) ==
    form' = [id |-> IF a.do = "edit" THEN a.id ELSE None,
             fields |-> a.rec.fields,
             oids |-> a.rec.oids,
             custom |-> a.rec.oids # None,
             group |-> Selected(a.rec.group)]

\* The answers come in any order, whatever the form is used for by then.
Filled(a) ==
    /\ gets' = gets \ {a}
    /\ fillForm(a) /\ shown' = (shown \/ a.do = "clone")
    /\ UNCHANGED <<saved, grouped, options, lists, puts, bulkVars, acts>>

NotFilled(a) ==
    /\ Act /\ gets' = gets \ {a}
    /\ UNCHANGED <<saved, grouped, form, shown, options, lists, puts, bulkVars>>

\* The rows of the former proxy show again, and one blank row if there are none.
toggleCustomOids ==
    /\ shown /\ Act /\ form' = [form EXCEPT !.custom = ~@]
    /\ UNCHANGED <<saved, grouped, shown, options, gets, lists, puts, bulkVars>>

\* loadProxies: the options are replaced, and nothing is selected after.
GroupsListed ==
    /\ lists > 0 /\ lists' = lists - 1
    /\ options' = grouped /\ form' = [form EXCEPT !.group = None]
    /\ UNCHANGED <<saved, grouped, shown, gets, puts, bulkVars, acts>>

saveProxy ==
    /\ shown /\ Act
    /\ LET rec == [fields |-> form.fields, group |-> form.group,
                   oids |-> IF form.custom THEN form.oids ELSE None] IN
       \/ \* PUT, which the server refuses for a proxy that is gone
          /\ form.id # None
          /\ IF form.id \in DOMAIN saved
             THEN saved' = [saved EXCEPT ![form.id] = rec] /\ puts' = puts + 1
             ELSE UNCHANGED <<saved, puts>>
       \/ \* POST
          /\ form.id = None
          /\ \E p \in Proxies \ (DOMAIN saved \cup Old) :
                saved' = [q \in DOMAIN saved \cup {p} |-> IF q = p THEN rec ELSE saved[q]]
          /\ puts' = puts + 1
       \/ UNCHANGED <<saved, puts>>
    /\ UNCHANGED <<grouped, form, shown, options, gets, lists, bulkVars>>

\* The dialog that is open by then closes.
Saved ==
    /\ puts > 0 /\ puts' = puts - 1
    /\ shown' = FALSE /\ lists' = lists + 1
    /\ UNCHANGED <<saved, grouped, form, options, gets, bulkVars, acts>>

deleteProxy(p) ==
    /\ p \in DOMAIN saved /\ Act
    /\ saved' = [q \in DOMAIN saved \ {p} |-> saved[q]]
    /\ lists' = lists + 1
    /\ UNCHANGED <<grouped, form, shown, options, gets, puts, bulkVars>>

\* saveGroup.
SaveGroup ==
    /\ Act /\ lists' = lists + 1
    /\ UNCHANGED <<saved, grouped, form, shown, options, gets, puts, bulkVars>>

\* deleteGroup; the server takes its proxies out of it.
DeleteGroup ==
    /\ grouped /\ Act /\ grouped' = FALSE
    /\ saved' = [p \in DOMAIN saved |-> [saved[p] EXCEPT !.group = None]]
    /\ lists' = lists + 1
    /\ UNCHANGED <<form, shown, options, gets, puts, bulkVars>>

-----------------------------------------------------------------------------
(* Adding in bulk.                                                         *)

\* parseBulkText: every line is a row; a host given before is an error too.
parseBulkText(lines) ==
    [i \in DOMAIN lines |->
        [host |-> lines[i].host, result |-> None,
         ok |-> lines[i].good /\ \A j \in 1 .. i - 1 : lines[j].host # lines[i].host]]

\* openBulkProxyModal
openBulkProxyModal ==
    /\ Act /\ bulkShown' = TRUE
    /\ text' = << >> /\ bulkRows' = << >> /\ parse' = parse + 1 /\ canSubmit' = FALSE
    /\ UNCHANGED <<formVars, hosts, preview, sent>>

\* Typing is previewed after a pause; a file that was read at once.
Type(t) ==
    /\ bulkShown /\ Act /\ text' = t /\ preview' = TRUE
    /\ UNCHANGED <<formVars, hosts, bulkRows, parse, canSubmit, bulkShown, sent>>

\* renderBulkPreview: rows of an earlier parse keep results nobody sees.
renderBulkPreview ==
    /\ preview /\ preview' = FALSE
    /\ bulkRows' = parseBulkText(text)
    /\ parse' = parse + 1
    /\ canSubmit' = \E i \in DOMAIN text : bulkRows'[i].ok
    /\ UNCHANGED <<formVars, hosts, text, bulkShown, sent, acts>>

IsValid(row) == row.ok

\* The places in the preview of the rows that are sent, in order; there is one
\* such sequence.
ValidPlaces == {i \in DOMAIN bulkRows : IsValid(bulkRows[i])}
ValidRows ==
    {rows \in [1 .. Cardinality(ValidPlaces) -> ValidPlaces] :
        \A j, k \in DOMAIN rows : j < k => rows[j] < rows[k]}

ResultOf(host, refused) ==
    IF host \in hosts THEN "duplicate" ELSE IF host \in refused THEN "error" ELSE "created"

submitBulkProxies ==
    /\ bulkShown /\ canSubmit /\ Act
    /\ canSubmit' = FALSE
    /\ \E rows \in ValidRows :
          LET names == [k \in DOMAIN rows |-> bulkRows[rows[k]].host] IN
          \E refused \in SUBSET ToSet(names) :
             LET results == [k \in DOMAIN rows |-> [host |-> names[k],
                                                    status |-> ResultOf(names[k], refused)]]
             IN /\ hosts' = hosts \cup {r.host : r \in
                               {x \in ToSet(results) : x.status = "created"}}
                /\ sent' = sent \cup {[parse |-> parse, rows |-> rows, results |-> results]}
    /\ UNCHANGED <<formVars, text, preview, bulkRows, parse, bulkShown>>

\* (Mutant: they are taken to count the preview's.)
RowOfResult_ByPreview(a, k) == k

\* The answer counts the rows that were sent, not those of the preview.
RowOfResult(a, k) == a.rows[k]

WithResults(a) ==
    [i \in DOMAIN bulkRows |->
        IF \E k \in DOMAIN a.rows : RowOfResult(a, k) = i
        THEN [bulkRows[i] EXCEPT !.result =
                 a.results[CHOOSE k \in DOMAIN a.rows : RowOfResult(a, k) = i]]
        ELSE bulkRows[i]]

\* The dialog closes if all were added; else the preview of now is marked.
BulkAnswered(a) ==
    /\ sent' = sent \ {a}
    /\ lists' = lists + 1
    /\ bulkRows' = IF a.parse = parse THEN WithResults(a) ELSE bulkRows
    /\ IF \A k \in DOMAIN a.results : a.results[k].status = "created"
       THEN bulkShown' = FALSE /\ UNCHANGED canSubmit
       ELSE canSubmit' = FALSE /\ UNCHANGED bulkShown
    /\ UNCHANGED <<saved, grouped, form, shown, options, gets, puts, hosts, text, preview,
                   parse, acts>>

\* The request fails before or after the rows were added.
BulkFails(a) ==
    /\ Act /\ sent' = sent \ {a} /\ canSubmit' = TRUE
    /\ UNCHANGED <<formVars, hosts, text, preview, bulkRows, parse, bulkShown>>

Next ==
    \/ \E p \in Proxies : openModal(p) \/ cloneProxy(p) \/ deleteProxy(p)
    \/ \E a \in gets : Filled(a) \/ NotFilled(a)
    \/ OpenEmpty \/ closeModal \/ toggleCustomOids \/ saveProxy \/ Saved \/ GroupsListed
    \/ SaveGroup \/ DeleteGroup
    \/ openBulkProxyModal \/ \E t \in Texts : Type(t)
    \/ renderBulkPreview \/ submitBulkProxies
    \/ \E a \in sent : BulkAnswered(a) \/ BulkFails(a)

Spec == Init /\ [][Next]_vars

-----------------------------------------------------------------------------
(***************************************************************************)
(* Whatever answers overtake each other on their way to the form, saving   *)
(* it never puts the fields or the OIDs of one proxy into another one that *)
(* was there.  Proxies that were added may have what they were cloned      *)
(* from, or the rows an earlier use of the form has left.                  *)
(***************************************************************************)
ProxiesStayApart ==
    \A p \in Old \cap DOMAIN saved :
        saved[p].fields = p /\ saved[p].oids \in {p, None}

(***************************************************************************)
(* A result is shown at the row it is about, also when rows with errors    *)
(* stand between those sent, and when the text has been edited and parsed  *)
(* again before the answer; and a host said to be added is at the server.  *)
(***************************************************************************)
ResultsStayWithRows ==
    \A i \in DOMAIN bulkRows :
        LET row == bulkRows[i] IN
        row.result # None =>
            /\ row.ok /\ row.result.host = row.host
            /\ row.result.status = "created" => row.host \in hosts
=============================================================================
