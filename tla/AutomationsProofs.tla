--------------------------- MODULE AutomationsProofs ---------------------------
(***************************************************************************)
(* Machine-checked proofs about automations as a part of Dashboard, for    *)
(* any number of templates, flows and requests in flight.                  *)
(***************************************************************************)
EXTENDS Dashboard, FiniteSetTheorems, TLAPS

\* What a step of the website does to the automations.
AutomationsStep ==
  \/ AutomationsNext
  \/ \E f \in FlowIds : RemoveFlow(f)
  \/ \E k \in Edits, link \in Links, media \in Medias :
       \/ \E t \in Templates : Install(k, t, link, media)
       \/ \E f \in FlowIds, fields \in FieldSets, active \in BOOLEAN :
            Patch(k, f, fields, [NoFlow EXCEPT !.link = link, !.media = media, !.active = active])

\* Of a step of the website, the automations see one of their own or nothing.
LEMMA StepOfAutomations ==
  ASSUME [Next]_vars
  PROVE  AutomationsStep \/ UNCHANGED flowVars
<1>1. CASE UNCHANGED vars
  BY <1>1 DEF vars
<1>2. CASE Next
  BY <1>2 DEF Next, OwnerAtFlows, AutomationsStep
<1> QED
  BY <1>1, <1>2

-----------------------------------------------------------------------------

Columns == DOMAIN NoFlow
Rows == [template : Templates \cup {None}, link : Links \cup {None}, media : Medias \cup {None},
         active : BOOLEAN]
FlowRows == {r \in Rows : r = NoFlow \/ r.template \in Templates}

EditRecords ==
  [kind : {"idle", "insert", "write"}, t : Templates \cup {None}, f : FlowIds \cup {None},
   fields : SUBSET {"link", "media", "active"}, columns : SUBSET {"link", "media", "active"},
   set : Rows]

\* The columns of a row, and the row that is none.
LEMMA ColumnsAre ==
  /\ Columns = {"template", "link", "media", "active"}
  /\ NoFlow \in Rows /\ NoFlow.template = None
BY DEF Columns, NoFlow, Rows

\* A row that has some columns of one row and the rest of another.
LEMMA MixedRow ==
  ASSUME NEW one \in Rows, NEW other \in Rows, NEW names,
         NEW row, row = [i \in Columns |-> IF i \in names THEN one[i] ELSE other[i]]
  PROVE  row \in Rows
BY ColumnsAre DEF Rows

\* An installation's row.
LEMMA NewRow ==
  ASSUME NEW t \in Templates, NEW link \in Links, NEW media \in Medias, NEW active \in BOOLEAN,
         NEW set, set = [template |-> t, link |-> link, media |-> media, active |-> active]
  PROVE  set \in Rows /\ set.template = t
BY DEF Rows

\* The values of a patch, over a row that is none.
LEMMA PatchedRow ==
  ASSUME NEW link \in Links, NEW media \in Medias, NEW active \in BOOLEAN,
         NEW set, set = [NoFlow EXCEPT !.link = link, !.media = media, !.active = active]
  PROVE  set \in Rows
BY ColumnsAre DEF Rows, NoFlow

\* A request that is not under way is of its type.
LEMMA NoEditTyped == NoEdit \in EditRecords
BY ColumnsAre DEF NoEdit, EditRecords

-----------------------------------------------------------------------------

\* What a request's kind says of the rest of it.
ProperEdit(rec) ==
  /\ IF rec.kind = "idle" THEN rec = NoEdit ELSE rec.t \in Templates
  /\ rec.kind = "insert" => rec.set.template = rec.t /\ rec.f = None
  /\ rec.kind = "write" => rec.f \in FlowIds /\ "template" \notin rec.columns \cup rec.fields

AutomationsTyped ==
  /\ flow \in [FlowIds -> FlowRows] /\ edit \in [Edits -> EditRecords]
  /\ tangled \subseteq Templates
  /\ \A k \in Edits : ProperEdit(edit[k])

\* A request fits the flows: there is none of the template it installs, or the flow it
\* edits differs from what was loaded in nothing the request carries along.
Fits(rec) ==
  /\ rec.kind = "insert" => Of(rec.t) = {}
  /\ rec.kind = "write" /\ flow[rec.f] # NoFlow =>
       \A i \in (rec.columns \ rec.fields) \cup (rec.fields \ rec.columns) :
         rec.set[i] = flow[rec.f][i]

Target(rec) ==
  rec.kind = "write" /\ flow[rec.f] # NoFlow => flow[rec.f].template = rec.t

\* A template no requests of which overlap: one flow, and one request that fits.
Tidy(t) ==
  /\ \A f, g \in Of(t) : f = g
  /\ \A k, o \in Edits : edit[k].t = t /\ edit[o].t = t => k = o
  /\ \A k \in Edits : edit[k].t = t => Fits(edit[k])

AutomationsInv ==
  /\ AutomationsTyped
  /\ wanted = flow
  /\ \A k \in Edits : Target(edit[k])
  /\ \A t \in Templates \ tangled : Tidy(t)

\* A flow that is not there is of its type.
LEMMA NoFlowRow == NoFlow \in FlowRows
BY ColumnsAre DEF FlowRows

\* A request that is not under way holds nothing.
LEMMA NoEditProper ==
  /\ ProperEdit(NoEdit) /\ NoEdit.kind = "idle" /\ NoEdit.t = None /\ NoEdit.f = None
BY DEF NoEdit, ProperEdit

\* No flow, no request at the start.
LEMMA AutomationsInvInit == AutomationsInit => AutomationsInv
<1> SUFFICES ASSUME AutomationsInit PROVE AutomationsInv
  OBVIOUS
<1>1. AutomationsTyped /\ wanted = flow
  BY NoFlowRow, NoEditTyped, NoEditProper DEF AutomationsInit, AutomationsTyped
<1>2. \A k \in Edits : edit[k] = NoEdit
  BY DEF AutomationsInit
<1>3. \A t \in Templates : Of(t) = {}
  BY ColumnsAre, AutomationsAssumption DEF AutomationsInit, Of
<1> QED
  BY <1>1, <1>2, <1>3, NoEditProper, AutomationsAssumption DEF AutomationsInv, Target, Tidy

\* A request begins that fits the flows.
LEMMA StartEditInv ==
  ASSUME AutomationsInv, NEW k \in Edits, NEW rec \in EditRecords, ProperEdit(rec), rec.t \in Templates,
         Fits(rec), Target(rec), StartEdit(k, rec)
  PROVE  AutomationsInv'
<1>1. /\ edit[k] = NoEdit /\ edit' = [edit EXCEPT ![k] = rec] /\ flow' = flow /\ wanted' = wanted
      /\ tangled' = IF \E o \in Edits : edit[o].t = rec.t THEN tangled \cup {rec.t} ELSE tangled
  BY DEF StartEdit
<1>2. edit'[k] = rec /\ \A o \in Edits \ {k} : edit'[o] = edit[o]
  BY <1>1 DEF AutomationsInv, AutomationsTyped
<1>3. AutomationsTyped' /\ wanted' = flow' /\ \A o \in Edits : Target(edit[o])'
  BY <1>1, <1>2 DEF AutomationsInv, AutomationsTyped, Target
<1>4. ASSUME NEW t \in Templates \ tangled' PROVE Tidy(t)'
  <2>1. Tidy(t) /\ Of(t)' = Of(t) /\ edit[k].t # t
    BY <1>1, NoEditProper, AutomationsAssumption DEF AutomationsInv, Of
  <2>2. CASE rec.t = t
    <3>1. \A o \in Edits : edit[o].t # t
      BY <1>1, <2>2
    <3>2. Fits(rec)'
      BY <1>1, <2>1 DEF Fits, Of
    <3> QED
      BY <1>2, <2>1, <3>1, <3>2 DEF Tidy
  <2>3. CASE rec.t # t
    <3>1. \A o \in Edits : edit'[o].t = t => o # k /\ edit'[o] = edit[o]
      BY <1>2, <2>3
    <3>2. \A o \in Edits : edit'[o].t = t => Fits(edit'[o])
      BY <2>1, <3>1 DEF Tidy
    <3>3. \A o \in Edits : edit'[o].t = t => Fits(edit[o])'
      BY <1>1, <3>2 DEF Fits, Of
    <3> QED
      BY <2>1, <3>1, <3>3 DEF Tidy
  <2> QED
    BY <2>2, <2>3
<1> QED
  BY <1>3, <1>4 DEF AutomationsInv

\* What install_automation and update_automation will write fits the flow they loaded.
LEMMA WriteOfFits ==
  ASSUME AutomationsInv, NEW f \in FlowIds, flow[f] # NoFlow, NEW set \in Rows,
         NEW fields \in SUBSET {"link", "media", "active"},
         \A i \in {"link", "media", "active"} \ fields : set[i] = flow[f][i]
  PROVE  LET rec == WriteOf(f, fields, set) IN
           /\ rec \in EditRecords /\ ProperEdit(rec) /\ rec.t \in Templates /\ Fits(rec) /\ Target(rec)
<1>0. flow[f] \in FlowRows /\ flow[f].template \in Templates
  BY DEF AutomationsInv, AutomationsTyped, FlowRows
<1> DEFINE config == \E i \in Config : set[i] # flow[f][i]
           columns == (IF config THEN Config ELSE {})
                        \cup (IF set.active # flow[f].active THEN {"active"} ELSE {})
           values == [i \in Columns |-> IF i \in fields \cup columns THEN set[i] ELSE NoFlow[i]]
           rec == [kind |-> "write", t |-> flow[f].template, f |-> f, fields |-> fields,
                   columns |-> columns, set |-> values]
<1>1. WriteOf(f, fields, set) = rec
  BY DEF WriteOf, Columns
<1>2. columns \subseteq {"link", "media", "active"}
  BY DEF Config
<1>3. \A i \in {"link", "media", "active"} \ columns : set[i] = flow[f][i]
  BY DEF Config
<1> HIDE DEF columns
<1>4. values \in Rows
  <2>1. PICK names : names = fields \cup columns
    OBVIOUS
  <2> QED
    BY <2>1, ColumnsAre, MixedRow
<1>5. \A i \in fields \cup columns : values[i] = set[i]
  BY <1>2, ColumnsAre
<1> HIDE DEF values
<1>6. rec \in EditRecords
  BY <1>0, <1>2, <1>4, ColumnsAre DEF EditRecords
<1>7. ProperEdit(rec) /\ rec.t \in Templates /\ Target(rec)
  BY <1>0, <1>2 DEF ProperEdit, Target
<1>8. Fits(rec)
  BY <1>2, <1>3, <1>5 DEF Fits
<1> QED
  BY <1>1, <1>6, <1>7, <1>8

\* An installation begins: alone at its template, or the template is tangled.
LEMMA InstallInv ==
  ASSUME AutomationsInv, NEW k \in Edits, NEW t \in Templates, NEW link \in Links, NEW media \in Medias,
         Install(k, t, link, media)
  PROVE  AutomationsInv'
<1>1. PICK set : set = [template |-> t, link |-> link, media |-> media, active |-> TRUE]
  OBVIOUS
<1>2. set \in Rows /\ set.template = t
  <2>1. PICK on \in BOOLEAN : on = TRUE
    OBVIOUS
  <2>2. set = [template |-> t, link |-> link, media |-> media, active |-> on]
    BY <1>1, <2>1
  <2> QED
    BY <2>2, NewRow
<1>3. CASE Of(t) = {} /\ StartEdit(k, [NoEdit EXCEPT !.kind = "insert", !.t = t, !.set = set])
  <2>1. PICK rec : rec = [NoEdit EXCEPT !.kind = "insert", !.t = t, !.set = set]
    OBVIOUS
  <2>2. /\ rec \in EditRecords /\ rec.kind = "insert" /\ rec.t = t /\ rec.set = set /\ rec.f = None
    BY <1>2, <2>1, NoEditTyped DEF NoEdit, EditRecords
  <2>3. ProperEdit(rec) /\ Fits(rec) /\ Target(rec)
    BY <1>2, <1>3, <2>2 DEF ProperEdit, Fits, Target
  <2> QED
    BY <1>3, <2>1, <2>2, <2>3, StartEditInv
<1>4. ASSUME NEW f \in Of(t), StartEdit(k, WriteOf(f, {"link", "media", "active"}, set))
      PROVE  AutomationsInv'
  <2>1. f \in FlowIds /\ flow[f] # NoFlow
    BY ColumnsAre, AutomationsAssumption DEF Of
  <2>2. PICK rec : rec = WriteOf(f, {"link", "media", "active"}, set)
    OBVIOUS
  <2>3. /\ rec \in EditRecords /\ ProperEdit(rec) /\ rec.t \in Templates /\ Fits(rec) /\ Target(rec)
    BY <1>2, <2>1, <2>2, WriteOfFits
  <2> QED
    BY <1>4, <2>2, <2>3, StartEditInv
<1> QED
  BY <1>1, <1>3, <1>4 DEF Install

\* An edit loads its flow: alone at its template, or the template is tangled.
LEMMA PatchInv ==
  ASSUME AutomationsInv, NEW k \in Edits, NEW f \in FlowIds, NEW fields \in FieldSets,
         NEW set \in Rows, Patch(k, f, fields, set)
  PROVE  AutomationsInv'
<1>1. fields \in SUBSET {"link", "media", "active"} /\ flow[f] # NoFlow /\ flow[f] \in Rows
  BY DashboardAssumption DEF Patch, AutomationsInv, AutomationsTyped, FlowRows
<1>2. PICK new : new = [i \in Columns |-> IF i \in fields THEN set[i] ELSE flow[f][i]]
  OBVIOUS
<1>3. /\ new \in Rows
      /\ \A i \in {"link", "media", "active"} \ fields : new[i] = flow[f][i]
  BY <1>1, <1>2, ColumnsAre, MixedRow
<1>4. PICK rec : rec = WriteOf(f, fields, new)
  OBVIOUS
<1>5. /\ rec \in EditRecords /\ ProperEdit(rec) /\ rec.t \in Templates /\ Fits(rec) /\ Target(rec)
  BY <1>1, <1>3, <1>4, WriteOfFits
<1>6. StartEdit(k, rec)
  BY <1>2, <1>4 DEF Patch, Columns
<1> QED
  BY <1>5, <1>6, StartEditInv

\* A request ends that changed flows of its template alone.
LEMMA EndEditInv ==
  ASSUME AutomationsInv, NEW k \in Edits, NEW t \in Templates, edit[k].t = t,
         NEW asked, EndEdit(k, asked),
         flow' \in [FlowIds -> FlowRows],
         \A f \in FlowIds : flow'[f] # flow[f] =>
           flow'[f].template = t /\ (flow[f] = NoFlow \/ flow[f].template = t),
         \A o \in Edits \ {k} : edit[o].kind = "write" /\ flow'[edit[o].f] # NoFlow =>
           flow[edit[o].f] # NoFlow,
         \A f \in FlowIds : (t \in tangled /\ flow'[f].template = t) \/ asked[f] = flow'[f],
         t \notin tangled => \A f, g \in Of(t)' : f = g
  PROVE  AutomationsInv'
<1>0. t # None
  BY AutomationsAssumption
<1>1. edit' = [edit EXCEPT ![k] = NoEdit]
  BY DEF EndEdit
<1>2. /\ edit'[k] = NoEdit /\ \A o \in Edits \ {k} : edit'[o] = edit[o]
  BY <1>1 DEF AutomationsInv, AutomationsTyped
<1>3. tangled' = IF (\A o \in Edits \ {k} : edit[o].t # t) /\ Cardinality(Of(t)') <= 1
                 THEN tangled \ {t} ELSE tangled
  BY DEF EndEdit, Of
<1>4. AutomationsTyped'
  BY <1>1, <1>2, <1>3, NoEditTyped, NoEditProper DEF AutomationsInv, AutomationsTyped
<1>5. wanted' = flow'
  BY DEF EndEdit
<1>6. ASSUME NEW o \in Edits PROVE Target(edit[o])'
  <2>1. CASE o = k
    BY <1>2, <2>1, NoEditProper DEF Target
  <2>2. CASE o # k /\ edit[o].kind = "write" /\ flow'[edit[o].f] # NoFlow
    <3>1. flow[edit[o].f].template = edit[o].t /\ edit[o].f \in FlowIds /\ flow[edit[o].f] # NoFlow
      BY <2>2 DEF AutomationsInv, AutomationsTyped, Target, ProperEdit
    <3>2. flow'[edit[o].f].template = edit[o].t
      BY <3>1
    <3> QED
      BY <1>2, <2>2, <3>2 DEF Target
  <2>3. CASE o # k /\ ~ (edit[o].kind = "write" /\ flow'[edit[o].f] # NoFlow)
    BY <1>2, <2>3 DEF Target
  <2> QED
    BY <2>1, <2>2, <2>3
<1>7. ASSUME NEW u \in Templates \ tangled', u # t PROVE Tidy(u)'
  <2>1. Tidy(u) /\ u # None
    BY <1>3, <1>7, AutomationsAssumption DEF AutomationsInv
  <2>2. Of(u)' = Of(u)
    BY <1>7, <2>1, ColumnsAre DEF Of
  <2>3. ASSUME NEW o \in Edits, edit'[o].t = u PROVE o # k /\ Fits(edit[o])'
    <3>1. o # k /\ edit'[o] = edit[o] /\ Fits(edit[o])
      BY <1>2, <2>1, <2>3, NoEditProper DEF Tidy
    <3>2. CASE edit[o].kind = "write" /\ flow'[edit[o].f] # NoFlow
      <4>1. edit[o].f \in FlowIds /\ flow[edit[o].f] # NoFlow /\ flow[edit[o].f].template = u
        BY <2>3, <3>1, <3>2 DEF AutomationsInv, AutomationsTyped, Target, ProperEdit
      <4>2. flow'[edit[o].f] = flow[edit[o].f]
        BY <1>7, <4>1
      <4> QED
        BY <3>1, <3>2, <4>1, <4>2 DEF Fits
    <3>3. CASE ~ (edit[o].kind = "write" /\ flow'[edit[o].f] # NoFlow)
      BY <2>2, <2>3, <3>1, <3>3 DEF Fits
    <3> QED
      BY <3>1, <3>2, <3>3
  <2>4. \A o, p \in Edits : edit'[o].t = u /\ edit'[p].t = u => o = p
    BY <1>2, <2>1, <2>3 DEF Tidy
  <2> QED
    BY <2>1, <2>2, <2>3, <2>4 DEF Tidy
<1>8. ASSUME t \notin tangled' PROVE Tidy(t)'
  <2>1. \A o \in Edits : edit'[o].t # t
    <3>1. \A o \in Edits \ {k} : edit[o].t # t
      BY <1>3, <1>8 DEF AutomationsInv, Tidy
    <3> QED
      BY <1>0, <1>2, <3>1, NoEditProper
  <2>2. ASSUME NEW f \in Of(t)', NEW g \in Of(t)' PROVE f = g
    <3>1. CASE Cardinality(Of(t)') <= 1
      <4>1. Of(t)' \subseteq FlowIds
        BY DEF Of
      <4>2. PICK copies : copies = Of(t)'
        OBVIOUS
      <4>3. IsFiniteSet(copies) /\ Cardinality(copies) \in Nat /\ Cardinality(copies) <= 1
        BY <3>1, <4>1, <4>2, FS_Subset, FS_CardinalityType, AutomationsAssumption
      <4>4. Cardinality(copies) = 1
        BY <4>2, <4>3, FS_EmptySet
      <4>5. PICK x : copies = {x}
        BY <4>3, <4>4, FS_Singleton
      <4> QED
        BY <4>2, <4>5
    <3>2. CASE t \notin tangled
      BY <3>2
    <3> QED
      BY <1>3, <1>8, <3>1, <3>2
  <2> QED
    BY <2>1, <2>2 DEF Tidy
<1> QED
  BY <1>4, <1>5, <1>6, <1>7, <1>8 DEF AutomationsInv

\* The installation's commit: the flow it inserts is the template's only one.
LEMMA InsertFlowInv ==
  ASSUME AutomationsInv, NEW k \in Edits, NEW f \in FlowIds, InsertFlow(k, f)
  PROVE  AutomationsInv'
<1>1. /\ edit[k].kind = "insert" /\ flow[f] = NoFlow /\ \A o \in Edits : edit[o].f # f
      /\ flow' = [flow EXCEPT ![f] = edit[k].set]
      /\ EndEdit(k, [wanted EXCEPT ![f] = edit[k].set])
  BY DEF InsertFlow
<1>2. PICK t \in Templates : t = edit[k].t
  BY <1>1 DEF AutomationsInv, AutomationsTyped, ProperEdit
<1>3. edit[k].set \in FlowRows /\ edit[k].set.template = t
  BY <1>1, <1>2 DEF AutomationsInv, AutomationsTyped, ProperEdit, EditRecords, FlowRows
<1>4. /\ flow' \in [FlowIds -> FlowRows] /\ flow'[f].template = t
      /\ \A g \in FlowIds \ {f} : flow'[g] = flow[g]
      /\ [wanted EXCEPT ![f] = edit[k].set] = flow'
  BY <1>1, <1>3 DEF AutomationsInv, AutomationsTyped
<1>5. \A o \in Edits \ {k} : edit[o].kind = "write" /\ flow'[edit[o].f] # NoFlow =>
        flow[edit[o].f] # NoFlow
  BY <1>1, <1>4 DEF AutomationsInv, AutomationsTyped, ProperEdit
<1>6. ASSUME t \notin tangled PROVE \A g, h \in Of(t)' : g = h
  <2>1. Of(t) = {}
    BY <1>1, <1>2, <1>6 DEF AutomationsInv, Tidy, Fits
  <2> QED
    BY <1>4, <2>1 DEF Of
<1>7. \A g \in FlowIds : flow'[g] # flow[g] =>
        flow'[g].template = t /\ (flow[g] = NoFlow \/ flow[g].template = t)
  BY <1>1, <1>4
<1>8. PICK asked : asked = [wanted EXCEPT ![f] = edit[k].set]
  OBVIOUS
<1>9. EndEdit(k, asked) /\ \A g \in FlowIds : asked[g] = flow'[g]
  BY <1>1, <1>4, <1>8
<1> QED
  BY <1>2, <1>4, <1>5, <1>6, <1>7, <1>9, EndEditInv

\* The edit's commit: over the row it loaded it writes what was asked for.
LEMMA WriteFlowInv ==
  ASSUME AutomationsInv, NEW k \in Edits, WriteFlow(k)
  PROVE  AutomationsInv'
<1> DEFINE Put(row, names) == [i \in Columns |-> IF i \in names THEN edit[k].set[i] ELSE row[i]]
<1>1. edit[k] \in EditRecords /\ ProperEdit(edit[k]) /\ edit[k].kind = "write"
  BY DEF WriteFlow, AutomationsInv, AutomationsTyped
<1>2. PICK t \in Templates : t = edit[k].t
  BY <1>1 DEF ProperEdit
<1>3. PICK f \in FlowIds : f = edit[k].f
  BY <1>1 DEF ProperEdit
<1>4. /\ flow[f] # NoFlow /\ flow[f] \in FlowRows /\ flow[f].template = t /\ wanted = flow
  BY <1>1, <1>2, <1>3 DEF WriteFlow, AutomationsInv, AutomationsTyped, Target
<1>5. PICK row : row = Put(flow[f], edit[k].columns)
  OBVIOUS
<1>6. PICK asked : asked = Put(flow[f], edit[k].fields)
  OBVIOUS
<1>7. /\ flow' = [flow EXCEPT ![f] = row] /\ EndEdit(k, [wanted EXCEPT ![f] = asked])
  <2>1. flow' = [flow EXCEPT ![f] = Put(flow[f], edit[k].columns)]
    BY <1>3 DEF WriteFlow, Columns
  <2>2. EndEdit(k, [wanted EXCEPT ![f] = Put(wanted[f], edit[k].fields)])
    BY <1>3 DEF WriteFlow, Columns
  <2> QED
    BY <1>4, <1>5, <1>6, <2>1, <2>2
<1>8. row \in FlowRows /\ row.template = t
  <2>1. row \in Rows
    <3>1. edit[k].set \in Rows /\ flow[f] \in Rows
      BY <1>1, <1>4 DEF EditRecords, FlowRows
    <3> QED
      BY <1>5, <3>1, MixedRow
  <2>2. "template" \in Columns /\ "template" \notin edit[k].columns
    BY <1>1, ColumnsAre DEF ProperEdit
  <2>3. row.template = flow[f].template
    BY <1>5, <2>2
  <2> QED
    BY <1>4, <2>1, <2>3 DEF FlowRows
<1>9. /\ flow' \in [FlowIds -> FlowRows] /\ flow'[f] = row
      /\ \A g \in FlowIds \ {f} : flow'[g] = flow[g] /\ [wanted EXCEPT ![f] = asked][g] = flow'[g]
      /\ [wanted EXCEPT ![f] = asked][f] = asked
  BY <1>4, <1>7, <1>8 DEF AutomationsInv, AutomationsTyped
<1>10. ASSUME t \notin tangled PROVE asked = row
  <2>1. \A i \in (edit[k].columns \ edit[k].fields) \cup (edit[k].fields \ edit[k].columns) :
          edit[k].set[i] = flow[f][i]
    BY <1>1, <1>2, <1>3, <1>4, <1>10 DEF AutomationsInv, Tidy, Fits
  <2>2. \A i \in Columns :
          (IF i \in edit[k].columns THEN edit[k].set[i] ELSE flow[f][i])
            = (IF i \in edit[k].fields THEN edit[k].set[i] ELSE flow[f][i])
    BY <2>1
  <2> QED
    BY <1>5, <1>6, <2>2
<1>11. \A g \in FlowIds :
         (t \in tangled /\ flow'[g].template = t) \/ [wanted EXCEPT ![f] = asked][g] = flow'[g]
  BY <1>8, <1>9, <1>10
<1>12. ASSUME t \notin tangled PROVE \A g, h \in Of(t)' : g = h
  <2>1. \A g, h \in Of(t) : g = h
    BY <1>12 DEF AutomationsInv, Tidy
  <2>2. Of(t)' = Of(t)
    BY <1>4, <1>8, <1>9 DEF Of
  <2> QED
    BY <2>1, <2>2
<1>13. \A o \in Edits \ {k} : edit[o].kind = "write" /\ flow'[edit[o].f] # NoFlow =>
         flow[edit[o].f] # NoFlow
  BY <1>4, <1>9 DEF AutomationsInv, AutomationsTyped, ProperEdit
<1>14. \A g \in FlowIds : flow'[g] # flow[g] =>
         flow'[g].template = t /\ (flow[g] = NoFlow \/ flow[g].template = t)
  BY <1>4, <1>8, <1>9
<1>15. PICK all : all = [wanted EXCEPT ![f] = asked]
  OBVIOUS
<1>16. /\ EndEdit(k, all)
       /\ \A g \in FlowIds : (t \in tangled /\ flow'[g].template = t) \/ all[g] = flow'[g]
  BY <1>7, <1>11, <1>15
<1> QED
  BY <1>2, <1>9, <1>12, <1>13, <1>14, <1>16, EndEditInv

\* A request that fails writes nothing.
LEMMA FailEditInv ==
  ASSUME AutomationsInv, NEW k \in Edits, FailEdit(k)
  PROVE  AutomationsInv'
<1>1. edit[k] # NoEdit /\ flow' = flow /\ EndEdit(k, wanted) /\ wanted = flow
  BY DEF FailEdit, AutomationsInv
<1>2. PICK t \in Templates : t = edit[k].t
  BY <1>1 DEF AutomationsInv, AutomationsTyped, ProperEdit
<1>3. t \notin tangled => \A f, g \in Of(t)' : f = g
  BY <1>1 DEF AutomationsInv, Tidy, Of
<1>4. flow' \in [FlowIds -> FlowRows]
  BY <1>1 DEF AutomationsInv, AutomationsTyped
<1> QED
  BY <1>1, <1>2, <1>3, <1>4, EndEditInv

\* A flow is deleted: whoever has loaded it will not find it.
LEMMA RemoveFlowInv ==
  ASSUME AutomationsInv, NEW f \in FlowIds, RemoveFlow(f)
  PROVE  AutomationsInv'
<1>1. /\ flow' = [flow EXCEPT ![f] = NoFlow] /\ wanted' = [wanted EXCEPT ![f] = NoFlow]
      /\ edit' = edit /\ tangled' = tangled
  BY DEF RemoveFlow
<1>2. flow'[f] = NoFlow /\ \A g \in FlowIds \ {f} : flow'[g] = flow[g]
  BY <1>1 DEF AutomationsInv, AutomationsTyped
<1>3. AutomationsTyped' /\ wanted' = flow'
  BY <1>1, NoFlowRow DEF AutomationsInv, AutomationsTyped
<1>4. \A k \in Edits : Target(edit[k])'
  BY <1>1, <1>2 DEF AutomationsInv, AutomationsTyped, ProperEdit, Target
<1>5. ASSUME NEW t \in Templates \ tangled' PROVE Tidy(t)'
  <2>1. Tidy(t) /\ Of(t)' \subseteq Of(t)
    BY <1>1, <1>2, ColumnsAre, AutomationsAssumption DEF AutomationsInv, Of
  <2>2. ASSUME NEW k \in Edits, edit[k].t = t PROVE Fits(edit[k])'
    <3>1. Fits(edit[k]) /\ edit'[k] = edit[k] /\ ProperEdit(edit[k])
      BY <1>1, <2>1, <2>2 DEF Tidy, AutomationsInv, AutomationsTyped
    <3>2. edit[k].kind = "write" /\ flow'[edit[k].f] # NoFlow => flow'[edit[k].f] = flow[edit[k].f]
      BY <1>2, <3>1 DEF ProperEdit
    <3>3. edit[k].kind = "insert" => Of(t)' = {}
      BY <2>1, <2>2, <3>1 DEF Fits
    <3>4. Fits(edit[k])' = /\ edit[k].kind = "insert" => Of(t)' = {}
                           /\ edit[k].kind = "write" /\ flow'[edit[k].f] # NoFlow =>
                                \A i \in (edit[k].columns \ edit[k].fields)
                                            \cup (edit[k].fields \ edit[k].columns) :
                                  edit[k].set[i] = flow'[edit[k].f][i]
      BY <2>2, <3>1 DEF Fits
    <3> QED
      BY <3>1, <3>2, <3>3, <3>4 DEF Fits
  <2> QED
    BY <1>1, <2>1, <2>2 DEF Tidy
<1> QED
  BY <1>3, <1>4, <1>5 DEF AutomationsInv

-----------------------------------------------------------------------------

\* Every step of the automations keeps their invariant.
LEMMA AutomationsInvStep ==
  ASSUME AutomationsInv, AutomationsStep \/ UNCHANGED flowVars
  PROVE  AutomationsInv'
<1>1. CASE UNCHANGED flowVars
  BY <1>1 DEF flowVars, AutomationsInv, AutomationsTyped, Target, Tidy, Fits, Of
<1>2. ASSUME NEW k \in Edits, NEW f \in FlowIds, NEW fields \in FieldSets, NEW link \in Links,
             NEW media \in Medias, NEW active \in BOOLEAN,
             Patch(k, f, fields, [NoFlow EXCEPT !.link = link, !.media = media, !.active = active])
      PROVE  AutomationsInv'
  <2>1. PICK set : set = [NoFlow EXCEPT !.link = link, !.media = media, !.active = active]
    OBVIOUS
  <2> QED
    BY <1>2, <2>1, PatchedRow, PatchInv
<1> QED
  BY <1>1, <1>2, InstallInv, InsertFlowInv, WriteFlowInv, FailEditInv, RemoveFlowInv
     DEF AutomationsStep, AutomationsNext

\* It holds in every reachable state.
LEMMA AutomationsAlways == Spec => []AutomationsInv
<1>1. Init => AutomationsInv
  BY AutomationsInvInit DEF Init
<1>2. AutomationsInv /\ [Next]_vars => AutomationsInv'
  BY StepOfAutomations, AutomationsInvStep
<1> QED
  BY <1>1, <1>2, PTL DEF Spec

\* It gives the types TLC checks.
LEMMA AutomationsTypes == AutomationsInv => AutomationsTypeOK
BY DEF AutomationsInv, AutomationsTyped, AutomationsTypeOK, FlowRows, EditRecords, Rows

\* A template has one flow (install_automation), for any number of requests, unless
\* requests for the template overlap.
THEOREM OneFlow == Spec => []OneCopy
<1>1. ASSUME AutomationsInv PROVE OneCopy
  <2> SUFFICES ASSUME NEW t \in Templates \ tangled PROVE Cardinality(Of(t)) <= 1
    BY DEF OneCopy
  <2>1. \A f, g \in Of(t) : f = g
    BY <1>1 DEF AutomationsInv, Tidy
  <2>2. CASE Of(t) = {}
    BY <2>2, FS_EmptySet
  <2>3. CASE Of(t) # {}
    <3>1. PICK f : Of(t) = {f}
      BY <2>1, <2>3
    <3> QED
      BY <3>1, FS_Singleton
  <2> QED
    BY <2>2, <2>3
<1> QED
  BY <1>1, AutomationsAlways, PTL

\* An edit of one field leaves the others as they were last asked to be
\* (update_automation), for any number of requests, unless they overlap.
THEOREM Edited == Spec => []EditsKept
<1>1. AutomationsInv => EditsKept
  BY DEF AutomationsInv, EditsKept
<1> QED
  BY <1>1, AutomationsAlways, PTL
=============================================================================
