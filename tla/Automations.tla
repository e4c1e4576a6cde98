------------------------------ MODULE Automations ------------------------------
(***************************************************************************)
(* A merchant's automations (app/automations/router.py): installing a      *)
(* template makes one flow or edits the one there is, a patch changes some *)
(* fields of a flow, a removal deletes it.  link and media_ids are two     *)
(* keys of one JSON column, response_config, which is written whole.       *)
(***************************************************************************)
EXTENDS Website

CONSTANTS
  Templates, FlowIds,
  Links, Medias,   \* values of the two keys
  Edits            \* requests in flight

ASSUME AutomationsAssumption ==
  None \notin Templates \cup Links \cup Medias \cup FlowIds /\ IsFiniteSet(FlowIds)

VARIABLES
  flow,     \* flows: the template, response_config and is_active
  edit,     \* per request: the row it is at, the fields it was asked to set, the columns
            \* it will write, and the values of these
  wanted,   \* history: the value each field was last asked to have
  tangled   \* history: templates with requests that overlap, or with the second copy
             \* such requests left

flowVars == <<flow, edit, wanted, tangled>>

NoFlow == [template |-> None, link |-> None, media |-> None, active |-> FALSE]
NoEdit == [kind |-> "idle", t |-> None, f |-> None, fields |-> {}, columns |-> {},
           set |-> NoFlow]
Config == {"link", "media"}

\* A request for flow f that leaves it as `set`.  SQLAlchemy's UPDATE writes is_active if
\* it is not what was loaded, and all of response_config if any key of it is not.
WriteOf(f, fields, set) ==
  LET config == \E i \in Config : set[i] # flow[f][i]
      columns == (IF config THEN Config ELSE {})
                   \cup (IF set.active # flow[f].active THEN {"active"} ELSE {})
  IN [kind |-> "write", t |-> flow[f].template, f |-> f, fields |-> fields, columns |-> columns,
      set |-> [i \in DOMAIN NoFlow |-> IF i \in fields \cup columns THEN set[i] ELSE NoFlow[i]]]

AutomationsInit ==
  /\ flow = [f \in FlowIds |-> NoFlow]
  /\ edit = [k \in Edits |-> NoEdit]
  /\ wanted = [f \in FlowIds |-> NoFlow]
  /\ tangled = {}

Of(t) == {f \in FlowIds : flow[f].template = t}

StartEdit(k, rec) ==
  /\ edit[k] = NoEdit
  /\ edit' = [edit EXCEPT ![k] = rec]
  /\ tangled' = IF \E o \in Edits : edit[o].t = rec.t THEN tangled \cup {rec.t} ELSE tangled
  /\ UNCHANGED <<flow, wanted>>

\* Request k is over; asked is what each row was asked to be.  Requests that overlapped
\* are not held to it, and the last of them untangles a template without a second copy.
EndEdit(k, asked) ==
  LET t == edit[k].t
      copies == {f \in FlowIds : flow'[f].template = t}
      last == \A o \in Edits \ {k} : edit[o].t # t
  IN /\ edit' = [edit EXCEPT ![k] = NoEdit]
     /\ tangled' = IF last /\ Cardinality(copies) <= 1 THEN tangled \ {t} ELSE tangled
     /\ wanted' = [f \in FlowIds |-> IF t \in tangled /\ f \in copies THEN flow'[f] ELSE asked[f]]

-----------------------------------------------------------------------------

\* A paused flow is not found.
MutantInstall(k, t, link, media) ==
  LET set == [template |-> t, link |-> link, media |-> media, active |-> TRUE]
      found == {f \in Of(t) : flow[f].active}
  IN \/ /\ found = {}
        /\ StartEdit(k, [NoEdit EXCEPT !.kind = "insert", !.t = t, !.set = set])
     \/ \E f \in found :
          StartEdit(k, WriteOf(f, {"link", "media", "active"}, set))

\* install_automation looks for the template's flow, paused or not.
Install(k, t, link, media) ==
  LET set == [template |-> t, link |-> link, media |-> media, active |-> TRUE]
  IN \/ /\ Of(t) = {}
        /\ StartEdit(k, [NoEdit EXCEPT !.kind = "insert", !.t = t, !.set = set])
     \/ \E f \in Of(t) :
          StartEdit(k, WriteOf(f, {"link", "media", "active"}, set))

\* The patched keys alone become the response_config.
MutantPatch(k, f, fields, set) ==
  /\ flow[f] # NoFlow
  /\ StartEdit(k, WriteOf(f, fields, [i \in DOMAIN NoFlow |->
       IF i \in fields THEN set[i] ELSE IF i \in Config THEN None ELSE flow[f][i]]))

\* update_automation: the fields in the request, the others as they were loaded.
Patch(k, f, fields, set) ==
  /\ flow[f] # NoFlow
  /\ StartEdit(k, WriteOf(f, fields, [i \in DOMAIN NoFlow |->
       IF i \in fields THEN set[i] ELSE flow[f][i]]))

\* The id is a fresh one.
InsertFlow(k, f) ==
  /\ edit[k].kind = "insert"
  /\ flow[f] = NoFlow
  /\ \A o \in Edits : edit[o].f # f
  /\ flow' = [flow EXCEPT ![f] = edit[k].set]
  /\ EndEdit(k, [wanted EXCEPT ![f] = edit[k].set])

\* The columns are written over whatever the row has by now; a row that was deleted
\* meanwhile makes the request fail.
WriteFlow(k) ==
  LET rec == edit[k]
      Put(row, names) == [i \in DOMAIN NoFlow |-> IF i \in names THEN rec.set[i] ELSE row[i]]
  IN /\ rec.kind = "write"
     /\ flow[rec.f] # NoFlow
     /\ flow' = [flow EXCEPT ![rec.f] = Put(@, rec.columns)]
     /\ EndEdit(k, [wanted EXCEPT ![rec.f] = Put(@, rec.fields)])

FailEdit(k) ==
  /\ edit[k] # NoEdit
  /\ UNCHANGED flow
  /\ EndEdit(k, wanted)

RemoveFlow(f) ==
  /\ flow[f] # NoFlow
  /\ flow' = [flow EXCEPT ![f] = NoFlow]
  /\ wanted' = [wanted EXCEPT ![f] = NoFlow]
  /\ UNCHANGED <<edit, tangled>>

AutomationsNext ==
  \E k \in Edits : WriteFlow(k) \/ FailEdit(k) \/ \E f \in FlowIds : InsertFlow(k, f)

-----------------------------------------------------------------------------
(* Properties.                                                              *)

AutomationsTypeOK ==
  LET Rows == [template : Templates \cup {None}, link : Links \cup {None},
               media : Medias \cup {None}, active : BOOLEAN]
  IN /\ flow \in [FlowIds -> Rows]
     /\ edit \in [Edits -> [kind : {"idle", "insert", "write"}, t : Templates \cup {None},
          f : FlowIds \cup {None}, fields : SUBSET {"link", "media", "active"},
          columns : SUBSET {"link", "media", "active"}, set : Rows]]
     /\ wanted \in [FlowIds -> Rows]
     /\ tangled \subseteq Templates

\* A template has one flow, however often it is installed, edited, paused and
\* removed, unless requests for it overlap (install_automation's "one installed
\* instance per merchant and template").
OneCopy == \A t \in Templates \ tangled : Cardinality(Of(t)) <= 1

\* Every field has the value last asked for: an edit of one does not undo an edit of
\* another, unless requests for the template overlap (update_automation).
EditsKept ==
  \A f \in FlowIds : flow[f].template \notin tangled => flow[f] = wanted[f]
=============================================================================
