----------------------------- MODULE PipelinePages -----------------------------
(***************************************************************************)
(* The Pipelines page (frontend/src/features/pipelines/components): a list,*)
(* a form for a new pipeline and one for an existing pipeline, over the    *)
(* pipelines and stations of the server, which others change meanwhile.    *)
(*                                                                         *)
(* A form holds a whole draft, metadata and step table, taken from the     *)
(* list when it was opened; saving sends the whole draft in one request.   *)
(* Metadata is the product type (name and description travel with it), and *)
(* one pair of limits stands for the duration and for the tray limits.     *)
(***************************************************************************)
EXTENDS Integers, Sequences, FiniteSets

CONSTANTS
  PipelineIds,   \* ids the server may give to pipelines
  StepStations,  \* stations a step may name
  Types,         \* product types a user may type (strings)
  Minimums,      \* minimum limits a user may type, 0 is an empty field
  Maximums,      \* maximum limits a user may type, 0 is an empty field
  MaxRows,       \* bound: rows of a step table
  MaxDrafts,     \* bound: how often a form is opened
  MaxEdits       \* bound: edits of one draft

NoType     == ""
NoStation  == 0
NoPipeline == 0

ASSUME PipelinePagesAssumption ==
  /\ NoStation \notin StepStations /\ NoPipeline \notin PipelineIds /\ NoType \notin Types
  /\ {0} \subseteq Minimums \cap Maximums /\ Minimums \cup Maximums \subseteq Nat
  /\ {MaxRows, MaxDrafts, MaxEdits} \subseteq Nat \ {0}

VARIABLES
  stored,        \* server: pipeline -> its row and its steps
  places,        \* server: the stations that exist
  shown,         \* the pipelines the list last received
  asking,        \* list: rows that ask to confirm (bound: one at a time)
  draft,         \* the form that is shown, or the list
  puts           \* running requests of the forms

pipelinePageVars == <<stored, places, shown, asking, draft, puts>>

EmptyRow == [station |-> NoStation, min |-> 0, max |-> 0]

(* Stored metadata and steps name the draft they come from (a history of   *)
(* the model): 0 for the drafts of other users.                            *)
Pipeline(type, steps, of) == [type |-> type, typeOf |-> of, steps |-> steps, stepsOf |-> of]

Closed(visit) ==
  [kind |-> "list", visit |-> visit, id |-> NoPipeline, type |-> NoType,
   steps |-> <<EmptyRow>>, saving |-> FALSE, failed |-> FALSE, edits |-> 0]

PipelinePageInit ==
  /\ places = StepStations
  /\ \E p \in PipelineIds, t \in Types, s \in StepStations :
       stored = [q \in {p} |-> Pipeline(t, <<[EmptyRow EXCEPT !.station = s]>>, 0)]
  /\ shown = stored
  /\ asking = {}
  /\ draft = Closed(0)
  /\ puts = {}

-------------------------------------------------------------------------------

(* The requests, as the service answers them (pipelines.service.ts): the   *)
(* schema, the foreign keys and the unique indexes refuse a draft.         *)
InOrder(row) == row.min # 0 /\ row.max # 0 => row.min <= row.max

Acceptable(p, type, steps) ==
  /\ type # NoType /\ steps # <<>>
  /\ \A i \in DOMAIN steps : steps[i].station \in places /\ InOrder(steps[i])
  /\ \A i, j \in DOMAIN steps : i # j => steps[i].station # steps[j].station
  /\ \A q \in DOMAIN stored \ {p} : stored[q].type # type

Store(p, row) == [q \in DOMAIN stored \cup {p} |-> IF q = p THEN row ELSE stored[q]]

Erase(p) == [q \in DOMAIN stored \ {p} |-> stored[q]]

InUse(s) == \E p \in DOMAIN stored : \E i \in DOMAIN stored[p].steps : stored[p].steps[i].station = s

-------------------------------------------------------------------------------

(* usePipelines: the list has some answer of the server, not the newest.   *)
RefetchPipelines ==
  /\ draft.kind = "list"
  /\ shown' = stored
  /\ asking' = asking \cap DOMAIN stored
  /\ UNCHANGED <<stored, places, draft, puts>>

OpenDraft(kind, p, type, steps) ==
  /\ draft.kind = "list" /\ draft.visit < MaxDrafts
  /\ draft' = [Closed(draft.visit + 1) EXCEPT
                 !.kind = kind, !.id = p, !.type = type, !.steps = steps]
  /\ asking' = {}
  /\ UNCHANGED <<stored, places, shown, puts>>

NewPipeline == OpenDraft("new", NoPipeline, NoType, <<EmptyRow>>)

(* The form edits the pipeline as the list showed it.                      *)
EditPipeline(p) ==
  p \in DOMAIN shown /\ OpenDraft("edit", p, shown[p].type, shown[p].steps)

LeaveDraft ==
  /\ draft.kind # "list"
  /\ draft' = Closed(draft.visit)
  /\ UNCHANGED <<stored, places, shown, asking, puts>>

-------------------------------------------------------------------------------

(* PipelineStepEditor and the fields of the form.                          *)
Edit(type, steps) ==
  /\ draft.kind # "list" /\ draft.edits < MaxEdits
  /\ draft' = [draft EXCEPT !.type = type, !.steps = steps, !.edits = @ + 1]
  /\ UNCHANGED <<stored, places, shown, asking, puts>>

TypeProduct(t) == Edit(t, draft.steps)

AddRow == Len(draft.steps) < MaxRows /\ Edit(draft.type, Append(draft.steps, EmptyRow))

RemoveRow(i) ==
  /\ Len(draft.steps) > 1
  /\ Edit(draft.type, [j \in 1 .. Len(draft.steps) - 1 |->
                         draft.steps[IF j < i THEN j ELSE j + 1]])

(* handleMoveUp of row i + 1, which is handleMoveDown of row i.            *)
SwapRows(i) ==
  /\ i < Len(draft.steps)
  /\ Edit(draft.type, [draft.steps EXCEPT ![i] = draft.steps[i + 1], ![i + 1] = draft.steps[i]])

(* The options of stations that other rows use are disabled.               *)
PickStation(i, s) ==
  /\ s \in places \cup {NoStation}
  /\ \A j \in DOMAIN draft.steps : j # i /\ s # NoStation => draft.steps[j].station # s
  /\ Edit(draft.type, [draft.steps EXCEPT ![i].station = s])

TypeMinimum(i, n) == Edit(draft.type, [draft.steps EXCEPT ![i].min = n])
TypeMaximum(i, n) == Edit(draft.type, [draft.steps EXCEPT ![i].max = n])

-------------------------------------------------------------------------------

ValidSteps(steps) == SelectSeq(steps, LAMBDA row : row.station # NoStation)

(* handleSubmit of both forms: an incomplete draft sends nothing.          *)
SubmitDraft ==
  /\ draft.kind # "list" /\ ~draft.saving
  /\ draft.type # NoType /\ ValidSteps(draft.steps) # <<>>
  /\ draft' = [draft EXCEPT !.saving = TRUE, !.failed = FALSE]
  /\ puts' = puts \cup
       {[visit |-> draft.visit, kind |-> draft.kind, id |-> draft.id,
         type |-> draft.type, steps |-> ValidSteps(draft.steps)]}
  /\ UNCHANGED <<stored, places, shown, asking>>

Shows(v) == draft.kind # "list" /\ draft.visit = v.visit

(* The new form passes onBack to mutate, which drops it when the form has  *)
(* gone; the edit form awaits mutateAsync and leaves whatever is shown.    *)
Saved(v) ==
  /\ puts' = puts \ {v}
  /\ draft' = IF v.kind = "edit" \/ Shows(v) THEN Closed(draft.visit) ELSE draft

NotSaved(v) ==
  /\ puts' = puts \ {v}
  /\ draft' = IF Shows(v) THEN [draft EXCEPT !.saving = FALSE, !.failed = TRUE] ELSE draft

(* createPipelineTx.                                                       *)
SaveNew(v) ==
  /\ v.kind = "new"
  /\ \E p \in PipelineIds \ DOMAIN stored :
       /\ Acceptable(p, v.type, v.steps)
       /\ stored' = Store(p, Pipeline(v.type, v.steps, v.visit))
  /\ Saved(v) \/ NotSaved(v)                   \* or the answer is lost

(* updatePipelineAndReplaceStepsTx.                                        *)
SaveOld(v) ==
  /\ v.kind = "edit" /\ v.id \in DOMAIN stored
  /\ Acceptable(v.id, v.type, v.steps)
  /\ stored' = Store(v.id, Pipeline(v.type, v.steps, v.visit))
  /\ Saved(v) \/ NotSaved(v)

(* Faulty variant: without the transaction the fields are already replaced *)
(* when a step is refused, because its station has gone meanwhile.         *)
RefusedHalfway(v) ==
  /\ stored' = IF v.kind = "edit" /\ v.id \in DOMAIN stored
                  /\ \A q \in DOMAIN stored \ {v.id} : stored[q].type # v.type
               THEN Store(v.id, [stored[v.id] EXCEPT !.type = v.type, !.typeOf = v.visit])
               ELSE stored
  /\ NotSaved(v)

(* Refused, or failed before anything was stored.                          *)
Refused(v) == stored' = stored /\ NotSaved(v)

PutStep(v) ==
  /\ SaveNew(v) \/ SaveOld(v) \/ Refused(v)
  /\ UNCHANGED <<places, shown, asking>>

-------------------------------------------------------------------------------

(* PipelineActions: a second click deletes; a refusal (409 while jobs use  *)
(* the pipeline) goes back to the first click and shows nothing.           *)
ClickDeletePipeline(p) ==
  /\ draft.kind = "list" /\ p \in DOMAIN shown
  /\ IF p \in asking
     THEN \/ stored' = Erase(p) /\ UNCHANGED asking
          \/ stored' \in {stored, Erase(p)} /\ asking' = asking \ {p}
     ELSE asking' = {p} /\ UNCHANGED stored
  /\ UNCHANGED <<places, shown, draft, puts>>

CancelDeletePipeline(p) ==
  /\ draft.kind = "list" /\ p \in asking
  /\ asking' = asking \ {p}
  /\ UNCHANGED <<stored, places, shown, draft, puts>>

(* The other users: they save pipelines with this same form, and add and   *)
(* delete stations no pipeline uses.                                       *)
OtherEditor ==
  /\ \/ /\ \E p \in DOMAIN stored, t \in Types, s \in places :
             LET steps == <<[EmptyRow EXCEPT !.station = s]>>
             IN  Acceptable(p, t, steps) /\ stored' = Store(p, Pipeline(t, steps, 0))
        /\ UNCHANGED places
     \/ /\ \E s \in StepStations :
             places' = IF s \in places THEN places \ {s} ELSE places \cup {s}
        /\ \A s \in places \ places' : ~InUse(s)
        /\ UNCHANGED stored
  /\ UNCHANGED <<shown, asking, draft, puts>>

PipelineUser ==
  \/ NewPipeline \/ LeaveDraft \/ AddRow \/ SubmitDraft
  \/ \E p \in PipelineIds : EditPipeline(p) \/ ClickDeletePipeline(p) \/ CancelDeletePipeline(p)
  \/ \E t \in Types \cup {NoType} : TypeProduct(t)
  \/ \E i \in DOMAIN draft.steps :
       \/ RemoveRow(i) \/ SwapRows(i)
       \/ \E s \in StepStations \cup {NoStation} : PickStation(i, s)
       \/ \E n \in Minimums : TypeMinimum(i, n)
       \/ \E n \in Maximums : TypeMaximum(i, n)

PipelinePageNext ==
  PipelineUser \/ OtherEditor \/ RefetchPipelines \/ \E v \in puts : PutStep(v)

PipelinePageSpec == PipelinePageInit /\ [][PipelinePageNext]_pipelinePageVars

-------------------------------------------------------------------------------

(* "Full replace of metadata and steps in one request (atomic on the       *)
(* server)" (pipelines.schema.ts): whatever two editors save, and whatever *)
(* step is refused, a stored pipeline has the metadata and the steps of    *)
(* one draft; every step names another station, which exists.              *)
SavesAreWhole ==
  \A p \in DOMAIN stored :
    /\ stored[p].typeOf = stored[p].stepsOf
    /\ stored[p].steps # <<>>
    /\ \A i, j \in DOMAIN stored[p].steps :
         /\ stored[p].steps[i].station \in places
         /\ i # j => stored[p].steps[i].station # stored[p].steps[j].station
===============================================================================
