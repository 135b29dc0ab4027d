--------------------------- MODULE FrontendTheorems ---------------------------
(***************************************************************************)
(* What the pages of the frontend and its query cache guarantee, for any   *)
(* numbers of jobs, stations, pipelines, order lines, queries and writes,  *)
(* and for any order of clicks, answers and changes by others.             *)
(***************************************************************************)
EXTENDS MCFrontend, TotalsTheorems, TLAPS

(* The page of a job prints by itself only while the intent names that job,*)
(* and the intent stands for one click that is not served yet.             *)
Unserved(j) == IF intent = j THEN 1 ELSE 0

LocalState == [printing : BOOLEAN, ready : BOOLEAN, done : BOOLEAN, confirm : BOOLEAN]

PrintInv ==
  /\ existing \subseteq PageJobs /\ cached \subseteq PageJobs
  /\ page.job \in PageJobs \cup {NoJobPage} /\ intent \in PageJobs \cup {NoJobPage}
  /\ asked \in [PageJobs -> Nat] /\ printed \in [PageJobs -> Nat]
  /\ local \in LocalState
  /\ local.printing => page.view = "job" /\ intent = page.job
  /\ \A j \in PageJobs : printed[j] + Unserved(j) <= asked[j]

(* Mounting what a URL and an intent ask for keeps the link between them,  *)
(* whether the page keeps its state or starts anew.                        *)
LEMMA ShowPrintsIntent ==
  ASSUME PrintInv, NEW p, NEW i, NEW data, Show(p, i, data)
  PROVE  /\ local' \in LocalState
         /\ local'.printing => page'.view = "job" /\ intent' = page'.job
BY DEF Show, SameKey, DetailShown, Unmounted, PrintInv, LocalState

(* Showing a page without a new intent asks for no further print.          *)
LEMMA ShowKeepsPrints ==
  ASSUME JobPagesAssumption, PrintInv, NEW p, NEW i, NEW data,
         Show(p, i, data), data \subseteq PageJobs, p.job \in PageJobs \cup {NoJobPage},
         i \in {intent, NoJobPage}, existing' \subseteq PageJobs,
         UNCHANGED <<asked, printed>>
  PROVE  PrintInv'
<1>1. /\ local' \in LocalState
      /\ local'.printing => page'.view = "job" /\ intent' = page'.job
  BY ShowPrintsIntent
<1>2. page' = p /\ intent' = i /\ cached' = data
  BY DEF Show
<1>3. \A j \in PageJobs : printed'[j] + Unserved(j)' <= asked'[j]
  <2> TAKE j \in PageJobs
  <2>1. Unserved(j)' <= Unserved(j) /\ Unserved(j)' \in Nat /\ Unserved(j) \in Nat
    BY <1>2 DEF Unserved, JobPagesAssumption
  <2> QED BY <2>1 DEF PrintInv
<1> QED BY <1>1, <1>2, <1>3 DEF PrintInv

LEMMA PrintInvStep == ASSUME JobPagesAssumption, PrintInv, [JobPageNext]_jobPageVars PROVE PrintInv'
<1> USE JobPagesAssumption
<1>1. CASE UNCHANGED jobPageVars
  BY <1>1 DEF PrintInv, jobPageVars, Unserved
<1>2. ASSUME RefetchJobs PROVE PrintInv'
  BY <1>2 DEF RefetchJobs, PrintInv, Unserved
<1>3. ASSUME NewJob PROVE PrintInv'
  BY <1>3, ShowKeepsPrints DEF NewJob, Go, PrintInv, Address
<1>4. ASSUME BackToList PROVE PrintInv'
  BY <1>4, ShowKeepsPrints DEF BackToList, Go, PrintInv, Address
<1>5. ASSUME LabelReady PROVE PrintInv'
  <2>1. /\ local' \in LocalState
        /\ local'.printing = local.printing
    BY <1>5 DEF LabelReady, PrintInv, LocalState
  <2> QED BY <1>5, <2>1 DEF LabelReady, PrintInv, Unserved
<1>6. ASSUME PrintFrame PROVE PrintInv'
  <2>1. page.job \in PageJobs /\ intent = page.job
    BY <1>6 DEF PrintFrame, DetailShown, PrintInv
  <2>2. ~SameKey(page, ServedIntent, cached)
    BY <1>6, <2>1 DEF PrintFrame, SameKey, ServedIntent
  <2>3. Show(page, NoJobPage, cached)
    BY <1>6, <2>2 DEF PrintFrame, Go, ServedIntent
  <2>4. printed' = [printed EXCEPT ![page.job] = @ + 1] /\ UNCHANGED <<existing, asked>>
    BY <1>6 DEF PrintFrame
  <2>5. page' = page /\ intent' = NoJobPage /\ cached' = cached
    BY <2>3 DEF Show
  <2>6. \A j \in PageJobs : printed'[j] + Unserved(j)' <= asked'[j]
    BY <2>1, <2>4, <2>5 DEF PrintInv, Unserved
  <2>7. printed' \in [PageJobs -> Nat]
    BY <2>1, <2>4 DEF PrintInv
  <2>8. /\ local' \in LocalState
        /\ local'.printing => page'.view = "job" /\ intent' = page'.job
    BY <2>3, ShowPrintsIntent
  <2> QED BY <2>4, <2>5, <2>6, <2>7, <2>8 DEF PrintInv
<1>7. ASSUME PollAnswered PROVE PrintInv'
  <2>1. cached \cup {page.job} \subseteq PageJobs /\ page.job \in PageJobs
    BY <1>7 DEF PollAnswered, PrintInv
  <2>2. Show(page, intent, cached \cup {page.job}) /\ UNCHANGED <<existing, asked, printed>>
    BY <1>7 DEF PollAnswered
  <2>3. existing' \subseteq PageJobs
    BY <2>2 DEF PrintInv
  <2> QED BY <2>1, <2>2, <2>3, ShowKeepsPrints
<1>8. ASSUME PollFailed PROVE PrintInv'
  BY <1>8 DEF PollFailed, PrintInv, Unserved
<1>9. ASSUME LeaveOnError PROVE PrintInv'
  BY <1>9, ShowKeepsPrints DEF LeaveOnError, Go, PrintInv, Address
<1>10. ASSUME NEW open \in BOOLEAN, AskDelete(open) PROVE PrintInv'
  <2>1. /\ local' \in LocalState
        /\ local'.printing = local.printing
    BY <1>10 DEF AskDelete, PrintInv, LocalState
  <2> QED BY <1>10, <2>1 DEF AskDelete, PrintInv, Unserved
<1>11. ASSUME ConfirmDelete PROVE PrintInv'
  <2>1. /\ local' \in LocalState
        /\ local'.printing = local.printing
    BY <1>11 DEF ConfirmDelete, PrintInv, LocalState
  <2> QED BY <1>11, <2>1 DEF ConfirmDelete, PrintInv, Unserved
<1>12. ASSUME NEW p, p.job \in PageJobs \cup {NoJobPage}, Browse(p) PROVE PrintInv'
  BY <1>12, ShowKeepsPrints DEF Browse, Go, PrintInv
<1>13. ASSUME NEW j \in PageJobs, ViewJob(j) PROVE PrintInv'
  BY <1>13, ShowKeepsPrints DEF ViewJob, Go, PrintInv, Address
<1>14. ASSUME NEW j \in PageJobs, PrintLabel(j) PROVE PrintInv'
  <2>1. Show(Address("job", j), j, cached)
    BY <1>14 DEF PrintLabel, Go
  <2>2. page'.job = j /\ intent' = j /\ cached' = cached
    BY <2>1 DEF Show, Address
  <2>3. asked' = [asked EXCEPT ![j] = @ + 1] /\ UNCHANGED <<existing, printed>>
    BY <1>14 DEF PrintLabel
  <2>4. \A k \in PageJobs : printed'[k] + Unserved(k)' <= asked'[k]
    BY <2>2, <2>3 DEF PrintInv, Unserved
  <2> QED BY <2>1, <2>2, <2>3, <2>4, ShowPrintsIntent DEF PrintInv
<1>15. ASSUME NEW j \in PageJobs, JobCreated(j) PROVE PrintInv'
  BY <1>15, ShowKeepsPrints DEF JobCreated, Go, PrintInv, Address
<1>16. ASSUME NEW j \in PageJobs, OthersChangeJob(j) PROVE PrintInv'
  BY <1>16 DEF OthersChangeJob, PrintInv, Unserved
<1>17. ASSUME NEW d \in deleting, DeleteAnswered(d) PROVE PrintInv'
  <2>1. existing' \subseteq PageJobs /\ UNCHANGED <<asked, printed>>
    BY <1>17 DEF DeleteAnswered, PrintInv
  <2>2. CASE Show(Address("list", NoJobPage), NoJobPage, cached)
    BY <2>1, <2>2, ShowKeepsPrints DEF PrintInv, Address
  <2>3. CASE UNCHANGED <<cached, page, intent, local>>
    BY <2>1, <2>3 DEF PrintInv, Unserved
  <2> QED BY <1>17, <2>2, <2>3 DEF DeleteAnswered
<1>18. Address("list", NoJobPage).job \in PageJobs \cup {NoJobPage}
       /\ Address("new", NoJobPage).job \in PageJobs \cup {NoJobPage}
       /\ \A j \in PageJobs : Address("job", j).job \in PageJobs \cup {NoJobPage}
  BY DEF Address
<1> QED
  BY <1>1, <1>2, <1>3, <1>4, <1>5, <1>6, <1>7, <1>8, <1>9, <1>10, <1>11, <1>12, <1>13, <1>14,
     <1>15, <1>16, <1>17, <1>18 DEF JobPageNext

(* A job's page prints by itself at most once for each click on "Print     *)
(* label" of that job.                                                     *)
THEOREM PrintsOnlyAsked == JobPageSpec => []PrintsAsked
<1>1. JobPageInit => PrintInv
  BY JobPagesAssumption DEF JobPageInit, PrintInv, LocalState, Address, Unmounted, Unserved
<1>2. PrintInv /\ [JobPageNext]_jobPageVars => PrintInv'
  BY PrintInvStep, JobPagesAssumption
<1>3. PrintInv => PrintsAsked
  <2> SUFFICES ASSUME PrintInv, NEW j \in PageJobs PROVE printed[j] <= asked[j]
    BY DEF PrintsAsked
  <2>1. Unserved(j) \in Nat
    BY DEF Unserved
  <2> QED BY <2>1 DEF PrintInv
<1> QED BY <1>1, <1>2, <1>3, PTL DEF JobPageSpec

-------------------------------------------------------------------------------

(* What a request that is accepted stores is whole, and leaves the other   *)
(* pipelines as they are.                                                  *)
LEMMA AcceptedIsWhole ==
  ASSUME SavesAreWhole, NEW p, NEW type, NEW steps, NEW visit,
         Acceptable(p, type, steps),
         stored' = Store(p, Pipeline(type, steps, visit)), places' = places
  PROVE  SavesAreWhole'
<1> SUFFICES ASSUME NEW q \in DOMAIN stored'
             PROVE  /\ stored'[q].typeOf = stored'[q].stepsOf
                    /\ stored'[q].steps # <<>>
                    /\ \A i, j \in DOMAIN stored'[q].steps :
                         /\ stored'[q].steps[i].station \in places'
                         /\ i # j => stored'[q].steps[i].station # stored'[q].steps[j].station
  BY DEF SavesAreWhole
<1>1. CASE q = p
  <2>1. stored'[q] = Pipeline(type, steps, visit)
    BY <1>1 DEF Store
  <2>2. stored'[q].steps = steps /\ stored'[q].typeOf = visit /\ stored'[q].stepsOf = visit
    BY <2>1 DEF Pipeline
  <2> QED BY <2>2 DEF Acceptable
<1>2. CASE q # p
  <2>1. q \in DOMAIN stored /\ stored'[q] = stored[q]
    BY <1>2 DEF Store
  <2> QED BY <2>1 DEF SavesAreWhole
<1> QED BY <1>1, <1>2

(* A pipeline that is deleted takes its steps with it.                     *)
LEMMA ErasedIsGone ==
  ASSUME SavesAreWhole, NEW p, stored' = Erase(p), places' = places
  PROVE  SavesAreWhole'
<1>1. \A q \in DOMAIN stored' : q \in DOMAIN stored /\ stored'[q] = stored[q]
  BY DEF Erase
<1> QED BY <1>1 DEF SavesAreWhole

LEMMA PutStepIsWhole == ASSUME SavesAreWhole, NEW v \in puts, PutStep(v) PROVE SavesAreWhole'
<1>1. places' = places
  BY DEF PutStep
<1>2. CASE SaveNew(v)
  BY <1>1, <1>2, AcceptedIsWhole DEF SaveNew
<1>3. CASE SaveOld(v)
  BY <1>1, <1>3, AcceptedIsWhole DEF SaveOld
<1>4. CASE Refused(v)
  BY <1>1, <1>4 DEF Refused, SavesAreWhole
<1> QED BY <1>2, <1>3, <1>4 DEF PutStep

(* Others save whole drafts too, and delete no station that is in use.     *)
LEMMA OtherEditorIsWhole == ASSUME SavesAreWhole, OtherEditor PROVE SavesAreWhole'
<1>1. CASE places' = places /\ stored' # stored
  <2>1. PICK p \in DOMAIN stored, t \in Types, s \in places :
          LET steps == <<[EmptyRow EXCEPT !.station = s]>>
          IN  Acceptable(p, t, steps) /\ stored' = Store(p, Pipeline(t, steps, 0))
    BY <1>1 DEF OtherEditor
  <2> QED BY <1>1, <2>1, AcceptedIsWhole
<1>2. CASE stored' = stored
  <2>1. \A s \in places \ places' : ~InUse(s) \/ places' = places
    BY <1>2 DEF OtherEditor
  <2>2. \A p \in DOMAIN stored : \A i \in DOMAIN stored[p].steps :
          stored[p].steps[i].station \in places'
    BY <2>1 DEF SavesAreWhole, InUse
  <2> QED BY <1>2, <2>2 DEF SavesAreWhole
<1> QED BY <1>1, <1>2 DEF OtherEditor

LEMMA WholeStep == ASSUME SavesAreWhole, [PipelinePageNext]_pipelinePageVars PROVE SavesAreWhole'
<1>1. CASE UNCHANGED <<stored, places>>
  BY <1>1 DEF SavesAreWhole
<1>2. ASSUME NEW p, ClickDeletePipeline(p) PROVE SavesAreWhole'
  <2>1. places' = places /\ (stored' = stored \/ stored' = Erase(p))
    BY <1>2 DEF ClickDeletePipeline
  <2> QED BY <1>1, <2>1, ErasedIsGone
<1>3. CASE PipelineUser
  <2>1. ASSUME NEW t, NEW rows_, Edit(t, rows_) PROVE UNCHANGED <<stored, places>>
    BY <2>1 DEF Edit
  <2>2. UNCHANGED <<stored, places>> \/ \E p \in PipelineIds : ClickDeletePipeline(p)
    BY <1>3, <2>1 DEF PipelineUser, NewPipeline, LeaveDraft, AddRow, SubmitDraft, EditPipeline,
       OpenDraft, CancelDeletePipeline, TypeProduct, RemoveRow, SwapRows, PickStation,
       TypeMinimum, TypeMaximum
  <2> QED BY <1>1, <1>2, <2>2
<1> QED
  BY <1>1, <1>3, PutStepIsWhole, OtherEditorIsWhole
     DEF PipelinePageNext, RefetchPipelines, pipelinePageVars

(* Whatever editors save, delete or are refused, a stored pipeline has the *)
(* metadata and the steps of one draft, and its steps name existing        *)
(* stations, each one once.                                                *)
THEOREM StoredPipelinesAreWhole == PipelinePageSpec => []SavesAreWhole
<1>1. PipelinePageInit => SavesAreWhole
  <2> SUFFICES ASSUME PipelinePageInit PROVE SavesAreWhole
    OBVIOUS
  <2>1. PICK p \in PipelineIds, t \in Types, s \in StepStations :
          stored = [q \in {p} |-> Pipeline(t, <<[EmptyRow EXCEPT !.station = s]>>, 0)]
    BY DEF PipelinePageInit
  <2> DEFINE row == [EmptyRow EXCEPT !.station = s]
  <2>2. row.station \in places
    BY DEF PipelinePageInit, EmptyRow
  <2>3. \A q \in DOMAIN stored : /\ stored[q].typeOf = stored[q].stepsOf
                                /\ stored[q].steps = <<row>>
    BY <2>1 DEF Pipeline
  <2> HIDE DEF row
  <2>4. <<row>> # <<>> /\ \A i \in DOMAIN <<row>> : i = 1 /\ <<row>>[i] = row
    OBVIOUS
  <2> QED BY <2>2, <2>3, <2>4 DEF SavesAreWhole
<1> QED BY <1>1, WholeStep, PTL DEF PipelinePageSpec

-------------------------------------------------------------------------------

(* The state of the Stations page is typed: a form that is open was opened *)
(* as some visit, and only the form of an existing station asks to confirm.*)
EyeMap(f) == DOMAIN f \subseteq StationIds /\ f \in [DOMAIN f -> Field]

FormTyped ==
  /\ form \in FormState
  /\ form.kind # "list" => form.visit # 0
  /\ form.kind = "edit" => form.id # NoId
  /\ form.confirmOpen => form.kind = "edit"

(* A request for the camera is under way only if the field differs from    *)
(* what the form was opened with; a form for a new station was opened with *)
(* no camera.                                                              *)
CameraInv ==
  /\ EyeMap(rows) /\ EyeMap(listed)
  /\ FormTyped
  /\ saves \subseteq Save /\ removals \subseteq Removal
  /\ form.kind = "new" => form.oldEye = NoEye
  /\ \A v \in saves : /\ v.next = "create" => v.oldEye = NoEye
                      /\ v.next = "eye" => v.newEye # v.oldEye

LEMMA ListViewTyped ==
  ASSUME StationPagesAssumption, NEW n \in 0 .. MaxVisits
  PROVE  /\ ListView(n) \in FormState /\ ListView(n).kind = "list" /\ ~ListView(n).confirmOpen
         /\ ListView(n).visit = n
BY DEF StationPagesAssumption, ListView, FormState, Field

(* The rows the requests of the station pages leave.                       *)
LEMMA RowsTyped ==
  ASSUME EyeMap(rows)
  PROVE  /\ \A s \in StationIds : EyeMap(Insert(s)) /\ EyeMap(Delete(s))
         /\ \A s \in StationIds, e \in Field : EyeMap(Assign(s, e))
         /\ \A s : EyeMap(Unassign(s))
BY DEF EyeMap, Insert, Delete, Assign, Unassign, Field

(* The end of a call, and the step to its second request.                  *)
LEMMA CallKeepsCamera ==
  ASSUME StationPagesAssumption, CameraInv, NEW v \in saves, EyeMap(rows'),
         UNCHANGED <<listed, removals>>,
         \/ Done(v)
         \/ \E e \in {"failed", "partial"} : Failed(v, e)
         \/ CameraToSend(v) /\ v.next # "eye" /\ \E id \in StationIds : Continue(v, id)
  PROVE  CameraInv'
<1>0. form.visit \in 0 .. MaxVisits
  BY DEF CameraInv, FormTyped, FormState
<1>1. CASE Done(v)
  <2>1. FormTyped' /\ form'.kind = "list"
    BY <1>0, <1>1, ListViewTyped DEF Done, FormTyped
  <2> QED BY <1>1, <2>1 DEF Done, CameraInv
<1>2. ASSUME NEW e \in {"failed", "partial"}, Failed(v, e) PROVE CameraInv'
  <2>1. FormTyped' /\ form'.kind = form.kind /\ form'.oldEye = form.oldEye
    BY <1>2 DEF Failed, CameraInv, FormTyped, FormState
  <2> QED BY <1>2, <2>1 DEF Failed, CameraInv
<1>3. ASSUME CameraToSend(v), v.next # "eye", NEW id \in StationIds, Continue(v, id)
      PROVE  CameraInv'
  <2> DEFINE w == [v EXCEPT !.next = "eye", !.id = id]
  <2>1. FormTyped' /\ form'.kind = form.kind /\ form'.oldEye = form.oldEye
    BY <1>3 DEF Continue, CameraInv, FormTyped, FormState
  <2>2. v.newEye # v.oldEye /\ v \in Save
    BY <1>3 DEF CameraToSend, CameraInv, Save
  <2>3. w.newEye = v.newEye /\ w.oldEye = v.oldEye /\ w.next = "eye" /\ w \in Save
    BY <2>2 DEF Save
  <2> HIDE DEF w
  <2>4. saves' = (saves \ {v}) \cup {w}
    BY <1>3 DEF Continue, w
  <2> QED BY <2>1, <2>2, <2>3, <2>4 DEF CameraInv
<1> QED BY <1>1, <1>2, <1>3

LEMMA SaveStepKeepsCamera ==
  ASSUME StationPagesAssumption, CameraInv, NEW v \in saves, SaveStep(v)
  PROVE  CameraInv'
<1>1. EyeMap(rows) /\ v \in Save /\ DOMAIN rows \subseteq StationIds
  BY DEF CameraInv, EyeMap
<1>2. UNCHANGED <<listed, removals>>
  BY DEF SaveStep, SaveCreates, SaveUpdates, SaveCamera
<1>3. EyeMap(rows')
  <2>1. CASE SaveCreates(v)
    BY <1>1, <2>1, RowsTyped DEF SaveCreates
  <2>2. CASE SaveUpdates(v)
    BY <1>1, <2>2 DEF SaveUpdates
  <2>3. CASE SaveCamera(v)
    BY <1>1, <2>3, RowsTyped DEF SaveCamera, CameraRequest, CanAssign, Save
  <2> QED BY <2>1, <2>2, <2>3 DEF SaveStep
<1>4. \/ Done(v)
      \/ \E e \in {"failed", "partial"} : Failed(v, e)
      \/ CameraToSend(v) /\ v.next # "eye" /\ \E id \in StationIds : Continue(v, id)
  BY <1>1 DEF SaveStep, SaveCreates, SaveUpdates, SaveCamera
<1> QED BY <1>2, <1>3, <1>4, CallKeepsCamera

LEMMA RemovalKeepsCamera ==
  ASSUME StationPagesAssumption, CameraInv, NEW d \in removals, RemovalStep(d)
  PROVE  CameraInv'
<1>1. d \in Removal /\ EyeMap(rows) /\ form \in FormState
  BY DEF CameraInv, FormTyped
<1>2. EyeMap(rows')
  BY <1>1, RowsTyped DEF RemovalStep, Removal
<1>3. FormTyped' /\ (form'.kind = "new" => form'.oldEye = NoEye)
  <2>1. CASE form' = form
    BY <2>1 DEF CameraInv, FormTyped
  <2>2. CASE form' = ListView(form.visit)
    BY <1>1, <2>2, ListViewTyped DEF FormTyped, FormState
  <2>3. CASE Calling(d) /\ form' = [form EXCEPT !.confirmOpen = FALSE, !.error = "failed"]
    BY <2>3 DEF Calling, CameraInv, FormTyped, FormState
  <2> QED BY <2>1, <2>2, <2>3 DEF RemovalStep
<1> QED BY <1>2, <1>3 DEF RemovalStep, CameraInv

LEMMA StationUserKeepsCamera ==
  ASSUME StationPagesAssumption, CameraInv, StationUser
  PROVE  CameraInv'
<1>0. form \in FormState /\ form.visit \in 0 .. MaxVisits /\ EyeMap(listed)
  BY DEF CameraInv, FormTyped, FormState
<1>1. ASSUME NEW kind \in {"new", "edit"}, NEW s \in StationIds \cup {NoId}, NEW eye \in Field,
             kind = "new" => eye = NoEye, kind = "edit" => s # NoId, OpenForm(kind, s, eye)
      PROVE  CameraInv'
  <2> DEFINE f == ListView(form.visit + 1)
  <2>1. form.visit + 1 \in 0 .. MaxVisits
    BY <1>0, <1>1 DEF OpenForm, StationPagesAssumption
  <2>2. f \in FormState /\ f.visit = form.visit + 1 /\ ~f.confirmOpen
    BY <2>1, ListViewTyped
  <2> HIDE DEF f
  <2>3. form' = [f EXCEPT !.kind = kind, !.id = s, !.oldEye = eye, !.camera = eye]
    BY <1>1 DEF OpenForm, f
  <2>4. FormTyped' /\ form'.kind = kind /\ form'.oldEye = eye
    <3>1. form' \in FormState /\ form'.kind = kind /\ form'.oldEye = eye /\ form'.id = s
          /\ form'.visit = f.visit /\ form'.confirmOpen = f.confirmOpen
      BY <2>2, <2>3 DEF FormState
    <3>2. form'.visit # 0
      BY <1>0, <2>2, <3>1
    <3> QED BY <1>1, <2>2, <3>1, <3>2 DEF FormTyped
  <2> QED BY <1>1, <2>4 DEF OpenForm, CameraInv
<1>2. CASE OpenNew
  BY <1>1, <1>2 DEF OpenNew, Field
<1>3. ASSUME NEW s \in StationIds, OpenEdit(s) PROVE CameraInv'
  <2>1. listed[s] \in Field /\ s # NoId
    BY <1>0, <1>3 DEF OpenEdit, EyeMap, StationPagesAssumption
  <2> QED BY <1>1, <1>3, <2>1 DEF OpenEdit
<1>4. CASE Submit
  <2> DEFINE v == [visit |-> form.visit, next |-> IF form.kind = "new" THEN "create" ELSE "update",
                   id |-> form.id, oldEye |-> form.oldEye, newEye |-> form.camera, lost |-> FALSE]
  <2>1. saves' = saves \cup {v} /\ UNCHANGED <<rows, listed, removals>>
    BY <1>4 DEF Submit
  <2>2. v \in Save
    BY <1>4 DEF Submit, Save, CameraInv, FormTyped, FormState
  <2>3. (v.next = "create" => v.oldEye = NoEye) /\ v.next # "eye"
    BY DEF CameraInv
  <2>4. FormTyped' /\ form'.kind = form.kind /\ form'.oldEye = form.oldEye
    BY <1>4 DEF Submit, CameraInv, FormTyped, FormState
  <2> HIDE DEF v
  <2> QED BY <2>1, <2>2, <2>3, <2>4 DEF CameraInv
<1>5. CASE Back
  <2>1. FormTyped' /\ form'.kind = "list"
    BY <1>0, <1>5, ListViewTyped DEF Back, FormTyped
  <2> QED BY <1>5, <2>1 DEF Back, CameraInv
<1>6. CASE OpenDialog \/ CancelDialog \/ \E e \in Field : TypeCamera(e)
  <2>1. FormTyped' /\ form'.kind = form.kind /\ form'.oldEye = form.oldEye
    BY <1>6 DEF OpenDialog, CancelDialog, TypeCamera, CameraInv, FormTyped, FormState
  <2> QED BY <1>6, <2>1 DEF OpenDialog, CancelDialog, TypeCamera, CameraInv
<1>7. CASE ConfirmDialog
  <2>1. [visit |-> form.visit, id |-> form.id] \in Removal
    BY <1>7 DEF ConfirmDialog, Removal, CameraInv, FormTyped, FormState
  <2> QED BY <1>7, <2>1 DEF ConfirmDialog, CameraInv, FormTyped
<1>8. ASSUME NEW s \in StationIds, ClickDelete(s) PROVE CameraInv'
  <2>1. [visit |-> 0, id |-> s] \in Removal
    BY DEF Removal, StationPagesAssumption
  <2> QED BY <1>8, <2>1 DEF ClickDelete, CameraInv, FormTyped
<1>9. ASSUME NEW s, CancelDelete(s) PROVE CameraInv'
  BY <1>9 DEF CancelDelete, CameraInv, FormTyped
<1> QED BY <1>2, <1>3, <1>4, <1>5, <1>6, <1>7, <1>8, <1>9 DEF StationUser

LEMMA CameraInvStep ==
  ASSUME StationPagesAssumption, CameraInv, [StationPageNext]_stationPageVars
  PROVE  CameraInv'
<1>1. CASE OtherUser
  <2>1. EyeMap(rows')
    BY <1>1, RowsTyped DEF OtherUser, CameraInv, Field
  <2> QED BY <1>1, <2>1 DEF OtherUser, CameraInv, FormTyped
<1>2. CASE Refetch \/ UNCHANGED stationPageVars
  BY <1>2 DEF Refetch, stationPageVars, CameraInv, FormTyped, EyeMap
<1> QED
  BY <1>1, <1>2, SaveStepKeepsCamera, RemovalKeepsCamera, StationUserKeepsCamera
     DEF StationPageNext

(* Saving a form whose camera field is as it was shown moves no camera.    *)
THEOREM UntouchedCameraHolds == StationPageSpec => UntouchedCameraStays
<1>1. StationPageInit => CameraInv
  <2> SUFFICES ASSUME StationPageInit PROVE CameraInv
    OBVIOUS
  <2>1. EyeMap(rows) /\ EyeMap(listed)
    BY DEF StationPageInit, EyeMap, Field
  <2>2. FormTyped /\ form.kind = "list"
    BY StationPagesAssumption, ListViewTyped DEF StationPageInit, FormTyped, StationPagesAssumption
  <2> QED BY <2>1, <2>2 DEF StationPageInit, CameraInv
<1>2. CameraInv /\ [StationPageNext]_stationPageVars => CameraInv'
  BY CameraInvStep, StationPagesAssumption
<1>3. CameraInv /\ [StationPageNext]_stationPageVars => [UntouchedCamera]_stationPageVars
  <2> SUFFICES ASSUME CameraInv, NEW v \in saves, SaveStep(v), v.newEye = v.oldEye,
                      NEW s \in DOMAIN rows
               PROVE  rows'[s] = rows[s]
    BY DEF UntouchedCamera
  <2>1. ~SaveCamera(v)
    BY DEF SaveCamera, CameraInv
  <2>2. CASE SaveCreates(v)
    BY <2>2 DEF SaveCreates, Insert
  <2>3. CASE SaveUpdates(v)
    BY <2>3 DEF SaveUpdates
  <2> QED BY <2>1, <2>2, <2>3 DEF SaveStep
<1> QED BY <1>1, <1>2, <1>3, PTL DEF StationPageSpec, UntouchedCameraStays

-------------------------------------------------------------------------------

(* A line of a request that was shown as found names a pipeline which, as  *)
(* the form knew it, makes the product of the line.                        *)
FoundInv ==
  /\ \E S : made \in Seq(S)
  /\ \A v \in posting : \A i \in DOMAIN v.lines :
       v.found[i] # NoPick => v.was[v.found[i]].type = v.lines[i].type

LEMMA SubmitKeepsFound == ASSUME FoundInv, SubmitOrder PROVE FoundInv'
<1> DEFINE v == [visit |-> order.visit, lines |-> order.lines,
                 found |-> [i \in DOMAIN order.lines |->
                              IF SaysFound(order.lines[i]) THEN EffectivePick(order.lines[i])
                                                           ELSE NoPick],
                 was   |-> fetched]
<1>1. posting' = posting \cup {v} /\ made' = made
  BY DEF SubmitOrder
<1>2. ASSUME NEW i \in DOMAIN v.lines, v.found[i] # NoPick
      PROVE  v.was[v.found[i]].type = v.lines[i].type
  <2>1. SaysFound(order.lines[i]) /\ v.found[i] = EffectivePick(order.lines[i])
    BY <1>2
  <2>2. order.lines[i].type # Blank
    BY <2>1 DEF SaysFound
  <2> QED BY <1>2, <2>1, <2>2 DEF EffectivePick
<1> HIDE DEF v
<1> QED BY <1>1, <1>2 DEF FoundInv

(* An answered request appends one order or none.                          *)
LEMMA OrderStepAppends ==
  ASSUME NEW v \in posting, OrderStep(v)
  PROVE  \/ made' = made
         \/ made' = Append(made, [i \in DOMAIN v.lines |-> MakesJobs(v.lines[i])])
BY DEF OrderStep, OrderCreated, OrderNotCreated

LEMMA FoundInvStep == ASSUME FoundInv, [OrderFormNext]_orderFormVars PROVE FoundInv'
<1>1. CASE UNCHANGED <<posting, made>>
  BY <1>1 DEF FoundInv
<1>2. ASSUME NEW v \in posting, OrderStep(v) PROVE FoundInv'
  <2>1. posting' \subseteq posting
    BY <1>2 DEF OrderStep
  <2>2. PICK S : made \in Seq(S)
    BY DEF FoundInv
  <2> DEFINE x == [i \in DOMAIN v.lines |-> MakesJobs(v.lines[i])]
  <2>3. made' = made \/ made' = Append(made, x)
    BY <1>2, OrderStepAppends
  <2> HIDE DEF x
  <2>4. made \in Seq(S \cup {x})
    BY <2>2
  <2>5. made' \in Seq(S \cup {x})
    BY <2>3, <2>4
  <2> QED BY <2>1, <2>5 DEF FoundInv
<1>3. ASSUME NEW lines, NEW next, NEW newPicks, Change(lines, next, newPicks)
      PROVE  UNCHANGED <<posting, made>>
  BY <1>3 DEF Change
<1> QED
  BY <1>1, <1>2, <1>3, SubmitKeepsFound
     DEF OrderFormNext, NewOrder, ShowOrders, AddLine, RefetchCatalog, OtherPipelines, RemoveLine,
         TypeQuantity, TypeLine, ChangeLine, PickPipeline, orderFormVars

(* "Pipeline found" means that jobs are created, as long as nobody changes *)
(* the pipeline and the product type was typed exactly.                    *)
THEOREM FoundLinesHold == OrderFormSpec => FoundLinesAreServed
<1> DEFINE Served ==
      \A v \in posting : OrderStep(v) /\ Len(made') > Len(made)
                           => \A i \in DOMAIN v.lines : FoundLineServed(v, i)
<1>1. OrderFormInit => FoundInv
  <2>1. <<>> \in Seq({})
    OBVIOUS
  <2> QED BY <2>1 DEF OrderFormInit, FoundInv
<1>2. FoundInv /\ [OrderFormNext]_orderFormVars => FoundInv'
  BY FoundInvStep
<1>3. FoundInv => Served
  <2> SUFFICES ASSUME FoundInv, NEW v \in posting, OrderStep(v), Len(made') > Len(made),
                      NEW i \in DOMAIN v.lines
               PROVE  FoundLineServed(v, i)
    OBVIOUS
  <2> DEFINE p == v.found[i]
             x == [k \in DOMAIN v.lines |-> MakesJobs(v.lines[k])]
  <2> SUFFICES ASSUME p # NoPick, p \in DOMAIN catalog, catalog[p] = v.was[p],
                      catalog[p].capacity, ~v.lines[i].padded
               PROVE  made'[Len(made')][i]
    BY DEF FoundLineServed
  <2>1. PICK S : made \in Seq(S)
    BY DEF FoundInv
  <2>2. made' = Append(made, x)
    <3>1. Len(made) \in Nat
      BY <2>1
    <3> QED BY <3>1, OrderStepAppends
  <2>3. catalog[p].type = v.lines[i].type
    BY DEF FoundInv
  <2>4. MakesJobs(v.lines[i])
    BY <2>3 DEF MakesJobs
  <2>5. x[i] = MakesJobs(v.lines[i])
    OBVIOUS
  <2> HIDE DEF x, p
  <2>6. made'[Len(made')] = x
    <3>1. made \in Seq(S \cup {x})
      BY <2>1
    <3> QED BY <2>2, <3>1
  <2> QED BY <2>4, <2>5, <2>6
<1> QED BY <1>1, <1>2, <1>3, PTL DEF OrderFormSpec, FoundLinesAreServed

-------------------------------------------------------------------------------

(* What the server and the card know of jobs and of the line, typed.       *)
JobMap(f) == DOMAIN f \subseteq CardJobs /\ f \in [DOMAIN f -> Int]
LineMap(f) == DOMAIN f \subseteq CardJobs /\ f \in [DOMAIN f -> Nat]

CardStates ==
  [job : CardJobs \cup {NoChoice}, qty : Nat, fraction : BOOLEAN, error : BOOLEAN]

Additions == [job : CardJobs, qty : Nat, fraction : BOOLEAN]

CardTyped ==
  /\ DOMAIN stock \subseteq CardJobs
  /\ stock \in [DOMAIN stock -> [quantity : Nat, elsewhere : Nat]]
  /\ LineMap(onLine) /\ LineMap(lineSeen) /\ JobMap(jobsSeen)
  /\ card \in CardStates
  /\ adding \subseteq Additions

LEMMA JobsNowTyped == ASSUME CardTyped PROVE JobMap(JobsNow)
BY DEF CardTyped, JobsNow, Left, JobMap, LineMap

LEMMA LineChanges ==
  ASSUME LineMap(onLine)
  PROVE  /\ \A j : LineMap(Without(onLine, j))
         /\ \A a : a.job \in CardJobs /\ a.qty \in Nat /\ AddOnServer(a) => LineMap(onLine')
BY DEF LineMap, Without, AddOnServer

LEMMA CardTypedStep ==
  ASSUME OrderAllocationsAssumption, CardTyped, [OrderAllocationNext]_orderAllocationVars
  PROVE  CardTyped'
<1> USE DEF CardTyped, CardStates, Additions
<1>1. CASE RefetchCard
  BY <1>1, JobsNowTyped DEF RefetchCard
<1>2. ASSUME NEW j \in CardJobs \cup {NoChoice}, ChooseJob(j) PROVE CardTyped'
  BY <1>2 DEF ChooseJob, EmptyEntry, NoPieces
<1>3. ASSUME NEW n \in Nat, NEW fraction \in BOOLEAN, TypePieces(n, fraction)
      PROVE  CardTyped'
  BY <1>3 DEF TypePieces
<1>4. CASE ClickAllocate
  <2>1. card.job \in CardJobs
    BY <1>4 DEF ClickAllocate, AvailableJobs, JobMap
  <2>2. adding' \subseteq adding \cup {[job |-> card.job, qty |-> card.qty, fraction |-> card.fraction]}
    BY <1>4 DEF ClickAllocate
  <2>3. adding' \subseteq Additions
    BY <2>1, <2>2
  <2>4. card' \in CardStates
    BY <1>4 DEF ClickAllocate
  <2> QED BY <1>4, <2>3, <2>4 DEF ClickAllocate
<1>5. ASSUME NEW a \in adding, AddAnswered(a) PROVE CardTyped'
  <2>1. LineMap(onLine')
    BY <1>5, LineChanges DEF AddAnswered
  <2>2. card' = EmptyEntry \/ card' = [card EXCEPT !.error = TRUE]
    BY <1>5 DEF AddAnswered
  <2>3. card' \in CardStates
    <3>1. EmptyEntry \in CardStates
      BY DEF EmptyEntry, NoPieces
    <3>2. CASE card' = [card EXCEPT !.error = TRUE]
      BY <3>2
    <3> QED BY <2>2, <3>1, <3>2
  <2> QED BY <1>5, <2>1, <2>3 DEF AddAnswered
<1>6. ASSUME NEW j, ClickRemove(j) PROVE CardTyped'
  BY <1>6 DEF ClickRemove
<1>7. ASSUME NEW j, RemoveAnswered(j) PROVE CardTyped'
  <2>1. LineMap(onLine')
    BY <1>7, LineChanges DEF RemoveAnswered
  <2> QED BY <1>7, <2>1 DEF RemoveAnswered
<1>8. CASE OtherAllocations
  <2>1. PICK j \in DOMAIN stock :
          \/ /\ stock' = [stock EXCEPT ![j].elsewhere = IF @ = 0 /\ Left(j) > 0 THEN 1 ELSE 0]
             /\ UNCHANGED onLine
          \/ /\ \E n \in 1 .. Left(j) :
                   AddOnServer([job |-> j, qty |-> n, fraction |-> FALSE])
             /\ UNCHANGED stock
          \/ /\ onLine' = Without(onLine, j)
             /\ UNCHANGED stock
          \/ stock' = Without(stock, j) /\ onLine' = Without(onLine, j)
    BY <1>8 DEF OtherAllocations
  <2>2. j \in CardJobs /\ Left(j) \in Int
    BY DEF Left, LineMap
  <2>3. LineMap(onLine')
    <3>1. ASSUME NEW n \in 1 .. Left(j),
                 AddOnServer([job |-> j, qty |-> n, fraction |-> FALSE])
          PROVE  LineMap(onLine')
      <4>1. n \in Nat
        BY <2>2
      <4> DEFINE a == [job |-> j, qty |-> n, fraction |-> FALSE]
      <4>2. a.job \in CardJobs /\ a.qty \in Nat
        BY <2>2, <4>1
      <4> QED BY <3>1, <4>2, LineChanges
    <3> QED BY <2>1, <3>1, LineChanges
  <2>4. /\ DOMAIN stock' \subseteq CardJobs
        /\ stock' \in [DOMAIN stock' -> [quantity : Nat, elsewhere : Nat]]
    BY <2>1 DEF Without
  <2> QED BY <1>8, <2>3, <2>4 DEF OtherAllocations
<1>9. CASE UNCHANGED orderAllocationVars
  BY <1>9 DEF orderAllocationVars, LineMap, JobMap
<1>10. 0 .. Most \subseteq Nat
  OBVIOUS
<1> QED
  BY <1>1, <1>2, <1>3, <1>4, <1>5, <1>6, <1>7, <1>8, <1>9, <1>10 DEF OrderAllocationNext

(* The limits of the card are never above what is left of the job.         *)
LEMMA EffectiveMaxFits ==
  ASSUME OrderAllocationsAssumption, CardTyped, NEW n \in 1 .. EffectiveMax,
         card.job \in AvailableJobs
  PROVE  n <= jobsSeen[card.job]
<1>1. Pieces(lineSeen) \in Nat
  <2>1. IsFiniteSet(DOMAIN lineSeen)
    BY FS_Subset DEF CardTyped, LineMap, OrderAllocationsAssumption
  <2> QED BY <2>1, TotalNat DEF CardTyped, LineMap, Pieces
<1>2. Remaining \in Int
  BY <1>1 DEF Remaining, OrderAllocationsAssumption
<1>3. jobsSeen[card.job] \in Int
  BY DEF CardTyped, JobMap, AvailableJobs
<1> QED BY <1>2, <1>3 DEF EffectiveMax

(* A number of items that the card lets through from data that still is    *)
(* true is not refused by the server.                                      *)
THEOREM FreshAllocationsHold == OrderAllocationSpec => FreshAllocationsAccepted
<1> DEFINE Accepted ==
      adding' # adding /\ ClickAllocate /\ jobsSeen = JobsNow /\ lineSeen = onLine
        => \A a \in adding' : WholePieces(a) => CanAdd(a)
<1>1. OrderAllocationInit => CardTyped
  <2> SUFFICES ASSUME OrderAllocationInit PROVE CardTyped
    OBVIOUS
  <2>1. /\ DOMAIN stock \subseteq CardJobs
        /\ stock \in [DOMAIN stock -> [quantity : Nat, elsewhere : Nat]]
    BY OrderAllocationsAssumption DEF OrderAllocationInit, OrderAllocationsAssumption
  <2>2. LineMap(onLine) /\ LineMap(lineSeen) /\ DOMAIN onLine = {}
    BY DEF OrderAllocationInit, LineMap
  <2>3. JobMap(jobsSeen)
    BY <2>1, <2>2 DEF OrderAllocationInit, JobsNow, Left, JobMap
  <2> QED BY <2>1, <2>2, <2>3 DEF OrderAllocationInit, CardTyped, CardStates, EmptyEntry, NoPieces
<1>2. CardTyped /\ [OrderAllocationNext]_orderAllocationVars => CardTyped'
  BY CardTypedStep, OrderAllocationsAssumption
<1>3. CardTyped => Accepted
  <2> SUFFICES ASSUME CardTyped, adding' # adding, ClickAllocate, jobsSeen = JobsNow,
                      lineSeen = onLine, NEW a \in adding', WholePieces(a)
               PROVE  CanAdd(a)
    OBVIOUS
  <2>1. /\ card.job \in AvailableJobs /\ card.qty \in 1 .. EffectiveMax
        /\ a = [job |-> card.job, qty |-> card.qty, fraction |-> card.fraction]
    BY DEF ClickAllocate
  <2>2. card.job \in DOMAIN stock /\ card.job \notin DOMAIN onLine
    BY <2>1 DEF AvailableJobs, JobsNow
  <2>3. card.qty <= Left(card.job)
    BY <2>1, <2>2, EffectiveMaxFits, OrderAllocationsAssumption DEF JobsNow
  <2> QED BY <2>1, <2>2, <2>3 DEF CanAdd
<1> QED BY <1>1, <1>2, <1>3, PTL DEF OrderAllocationSpec, FreshAllocationsAccepted

-------------------------------------------------------------------------------

(* Data that is fetched, or is about to arrive, is not older than what the *)
(* query has to show; what it has to show is written.                      *)
CacheTyped ==
  /\ db \in Version
  /\ entry \in [Queries -> Entry]
  /\ mutations \subseteq [name : DOMAIN Writes, at : 0 .. MaxWrites]
  /\ due \in [Queries -> Version]

DueIsWritten ==
  /\ \A x \in mutations : \A t \in Writes[x.name] : x.at <= db[t]
  /\ \A q \in Queries : \A t \in Tables : /\ due[q][t] <= db[t]
                                          /\ t \notin Reads[q] => due[q][t] = 0

AnswerKnown(q) == entry[q].fetch = "read" => entry[q].answer \in Version

AnswerShowsDue(q) ==
  entry[q].fetch = "read" => \A t \in Tables : entry[q].answer[t] >= due[q][t]

DataShowsDue(q) ==
  entry[q].data # NoData /\ ~entry[q].invalid
    => \A t \in Tables : entry[q].data[t] >= due[q][t]

CacheInv ==
  /\ CacheTyped
  /\ DueIsWritten
  /\ \A q \in Queries : AnswerKnown(q)
  /\ \A q \in Queries \ Polled : AnswerShowsDue(q) /\ DataShowsDue(q)

(* The tables of the hooks: every mutation a screen offers invalidates the *)
(* queries of that screen which read what it writes, save the polled ones  *)
(* and those of NotRefreshed.                                              *)
LEMMA HooksCoverScreens ==
  ASSUME NEW m, NEW q, q \notin Polled, Beside(q, m), Reads[q] \cap Writes[m] # {}
  PROVE  Root[q] \in Invalidates[m]
<1>1. <<q, m>> \notin NotRefreshed
  BY DEF Beside
<1>2. q # "pipelines" \/ m # "changeStation"
  BY <1>1 DEF NotRefreshed
<1>3. ASSUME NEW s \in DOMAIN ScreenQueries, m \in ScreenMutations[s], q \in ScreenQueries[s]
      PROVE  Root[q] \in Invalidates[m]
  BY <1>2, <1>3 DEF Reads, Writes, Root, Invalidates, Polled, ScreenQueries, ScreenMutations
<1> QED BY <1>3 DEF Beside

LEMMA WrittenTables == \A m \in DOMAIN Writes : Writes[m] \subseteq Tables
BY DEF Writes, Tables

LEMMA VersionsDiffer ==
  ASSUME QueryCacheAssumption
  PROVE  NoData \notin Version /\ Initial \in Version
BY DEF QueryCacheAssumption, NoData, Version, Initial, Tables

(* LastWrite is the greatest number in the tables.                         *)
LEMMA LastWriteIsLast ==
  ASSUME QueryCacheAssumption, db \in Version
  PROVE  LastWrite \in 0 .. MaxWrites /\ \A t \in Tables : db[t] <= LastWrite
<1> DEFINE S == {db[t] : t \in Tables}
<1>1. S \in SUBSET (0 .. MaxWrites) /\ S # {} /\ MaxWrites \in Nat
  BY DEF QueryCacheAssumption, Version, Tables
<1>2. Max(S) \in S /\ \A n \in S : Max(S) >= n
  BY <1>1, MaxNat
<1> HIDE DEF S
<1>3. \E n \in S : \A t \in Tables : db[t] <= n
  <2>1. \A t \in Tables : db[t] \in S /\ db[t] \in Int
    BY DEF S, Version
  <2> QED BY <1>1, <1>2, <2>1
<1>4. LastWrite \in S /\ \A t \in Tables : db[t] <= LastWrite
  BY <1>3 DEF LastWrite, S
<1> QED BY <1>1, <1>4

(* A write gives its tables the next number and leaves the others.         *)
LEMMA WriteMovesForward ==
  ASSUME QueryCacheAssumption, db \in Version, NEW tables, Write(tables)
  PROVE  /\ db' \in Version
         /\ LastWrite + 1 \in 0 .. MaxWrites
         /\ \A t \in Tables : db[t] <= db'[t] /\ (t \in tables => db'[t] = LastWrite + 1)
<1>1. LastWrite \in 0 .. MaxWrites /\ \A t \in Tables : db[t] <= LastWrite
  BY LastWriteIsLast
<1>2. LastWrite + 1 \in 0 .. MaxWrites
  BY <1>1 DEF Write, QueryCacheAssumption
<1>3. \A t \in Tables : db[t] \in 0 .. MaxWrites
  BY DEF Version
<1> HIDE DEF LastWrite
<1> QED BY <1>1, <1>2, <1>3 DEF Write, Version

(* The conjuncts about one entry, when what it has to show stays as it is. *)
EntryInv(q) ==
  /\ entry[q] \in Entry
  /\ AnswerKnown(q)
  /\ q \notin Polled => AnswerShowsDue(q) /\ DataShowsDue(q)

LEMMA SameEntry ==
  ASSUME CacheInv, NEW q \in Queries, entry'[q] = entry[q], due' = due
  PROVE  EntryInv(q)'
BY DEF CacheInv, CacheTyped, EntryInv, AnswerKnown, AnswerShowsDue, DataShowsDue

LEMMA FetchingEntry ==
  ASSUME CacheInv, NEW q \in Queries, entry'[q] = Fetching(entry[q]), due' = due
  PROVE  EntryInv(q)'
<1>1. entry[q] \in Entry
  BY DEF CacheInv, CacheTyped
<1>2. /\ entry'[q] \in Entry /\ entry'[q].fetch = "sent"
      /\ entry'[q].data = entry[q].data /\ entry'[q].invalid = entry[q].invalid
  BY <1>1 DEF Fetching, Entry
<1> QED BY <1>2 DEF CacheInv, EntryInv, AnswerKnown, AnswerShowsDue, DataShowsDue

LEMMA MountedEntry ==
  ASSUME CacheInv, NEW q \in Queries, NEW old, entry'[q] \in {entry[q], Mount(entry[q], old)},
         due' = due
  PROVE  EntryInv(q)'
BY SameEntry, FetchingEntry DEF Mount

(* Enough for the whole invariant when the server and the mutations stay.  *)
LEMMA EntriesSuffice ==
  ASSUME CacheInv, UNCHANGED <<db, mutations, due>>,
         entry' = [q \in Queries |-> entry'[q]], \A q \in Queries : EntryInv(q)'
  PROVE  CacheInv'
BY DEF CacheInv, CacheTyped, DueIsWritten, EntryInv

(* The steps of a fetch: what the server reads is all that was written,    *)
(* and what arrives is what it read.                                       *)
LEMMA FetchSteps ==
  ASSUME QueryCacheAssumption, CacheInv, NEW q \in Queries,
         Poll(q) \/ ServerReads(q) \/ Arrives(q) \/ FetchFails(q)
  PROVE  CacheInv'
<1>1. /\ entry[q] \in Entry /\ db \in Version /\ due[q] \in Version
      /\ entry \in [Queries -> Entry] /\ NoData \notin Version
  BY VersionsDiffer DEF CacheInv, CacheTyped
<1>2. /\ UNCHANGED <<db, mutations, due>>
      /\ entry' = [entry EXCEPT ![q] = entry'[q]]
  BY <1>1 DEF Poll, ServerReads, Arrives, FetchFails
<1>3. EntryInv(q)'
  <2>1. CASE Poll(q)
    BY <1>1, <2>1, FetchingEntry DEF Poll
  <2>2. CASE ServerReads(q)
    <3> DEFINE answer == [t \in Tables |-> IF t \in Reads[q] THEN db[t] ELSE 0]
    <3>1. entry'[q] = [entry[q] EXCEPT !.fetch = "read", !.answer = answer]
      BY <1>1, <2>2 DEF ServerReads
    <3>2. answer \in Version
      BY <1>1 DEF Version, QueryCacheAssumption
    <3>3. \A t \in Tables : answer[t] >= due[q][t]
      BY <1>1 DEF CacheInv, DueIsWritten, Version
    <3> HIDE DEF answer
    <3>4. /\ entry'[q] \in Entry /\ entry'[q].answer = answer
          /\ entry'[q].data = entry[q].data /\ entry'[q].invalid = entry[q].invalid
      BY <1>1, <3>1, <3>2 DEF Entry
    <3> QED
      BY <1>2, <3>2, <3>3, <3>4
         DEF CacheInv, EntryInv, AnswerKnown, AnswerShowsDue, DataShowsDue
  <2>3. CASE Arrives(q)
    <3>1. entry'[q] = [Missing EXCEPT !.data = entry[q].answer] /\ entry[q].fetch = "read"
      BY <1>1, <2>3 DEF Arrives
    <3>2. entry'[q] \in Entry /\ entry'[q].fetch = "idle" /\ entry'[q].data = entry[q].answer
      BY <1>1, <3>1 DEF Missing, Entry
    <3> QED
      BY <1>2, <3>1, <3>2 DEF CacheInv, EntryInv, AnswerKnown, AnswerShowsDue, DataShowsDue
  <2>4. CASE FetchFails(q)
    <3>1. entry'[q] = [entry[q] EXCEPT !.fetch = "idle", !.answer = NoData]
      BY <1>1, <2>4 DEF FetchFails
    <3>2. /\ entry'[q] \in Entry /\ entry'[q].fetch = "idle"
          /\ entry'[q].data = entry[q].data /\ entry'[q].invalid = entry[q].invalid
      BY <1>1, <3>1 DEF Entry
    <3> QED
      BY <1>2, <3>2 DEF CacheInv, EntryInv, AnswerKnown, AnswerShowsDue, DataShowsDue
  <2> QED BY <2>1, <2>2, <2>3, <2>4
<1>4. \A p \in Queries \ {q} : EntryInv(p)'
  BY <1>1, <1>2, SameEntry
<1>5. entry' = [p \in Queries |-> entry'[p]]
  BY <1>1, <1>2
<1> QED BY <1>2, <1>3, <1>4, <1>5, EntriesSuffice

(* Screens that open and windows that get the focus back.                  *)
LEMMA MountSteps ==
  ASSUME CacheInv, Refocus \/ \E s \in Screens : OpenScreen(s)
  PROVE  CacheInv'
<1>1. UNCHANGED <<db, mutations, due>> /\ entry' = [q \in Queries |-> entry'[q]]
  BY DEF Refocus, OpenScreen
<1>2. \A q \in Queries : \E old : entry'[q] \in {entry[q], Mount(entry[q], old)}
  BY DEF Refocus, OpenScreen
<1>3. \A q \in Queries : EntryInv(q)'
  BY <1>1, <1>2, MountedEntry
<1> QED BY <1>1, <1>3, EntriesSuffice

(* Writes, of the user's own mutations and of others: nothing that is due  *)
(* moves back.                                                             *)
LEMMA WritesKeepCache ==
  ASSUME QueryCacheAssumption, CacheInv, UNCHANGED <<entry, due>>,
         db' \in Version, \A t \in Tables : db[t] <= db'[t],
         mutations' \subseteq [name : DOMAIN Writes, at : 0 .. MaxWrites],
         \A x \in mutations' : \A t \in Writes[x.name] : x.at <= db'[t]
  PROVE  CacheInv'
<1>1. \A q \in Queries, t \in Tables : due[q][t] \in Nat /\ db[t] \in Nat /\ db'[t] \in Nat
  BY DEF CacheInv, CacheTyped, Version, QueryCacheAssumption
<1>2. \A q \in Queries, t \in Tables : due'[q][t] <= db'[t]
  BY <1>1 DEF CacheInv, DueIsWritten
<1>3. CacheTyped' /\ DueIsWritten'
  BY <1>2 DEF CacheInv, CacheTyped, DueIsWritten
<1>4. \A q \in Queries : AnswerKnown(q)'
  BY DEF CacheInv, AnswerKnown
<1>5. \A q \in Queries \ Polled : AnswerShowsDue(q)' /\ DataShowsDue(q)'
  BY DEF CacheInv, AnswerShowsDue, DataShowsDue
<1> QED BY <1>3, <1>4, <1>5 DEF CacheInv

LEMMA WriteSteps ==
  ASSUME QueryCacheAssumption, CacheInv,
         \/ OtherWrites
         \/ \E m \in DOMAIN Writes : Mutate(m)
         \/ \E x \in mutations : Commit(x) \/ MutationFails(x)
  PROVE  CacheInv'
<1> DEFINE Mutation == [name : DOMAIN Writes, at : 0 .. MaxWrites]
<1>1. db \in Version /\ mutations \subseteq Mutation
  BY DEF CacheInv, CacheTyped
<1>2. \A x \in mutations : \A t \in Writes[x.name] :
        t \in Tables /\ x.at <= db[t] /\ x.at \in Nat /\ db[t] \in Nat
  BY <1>1, WrittenTables DEF CacheInv, DueIsWritten, Version, QueryCacheAssumption
<1>3. ASSUME NEW tables, Write(tables)
      PROVE  /\ db' \in Version /\ \A t \in Tables : db[t] <= db'[t] /\ db'[t] \in Nat
             /\ \A x \in mutations : \A t \in Writes[x.name] : x.at <= db'[t]
  <2>1. db' \in Version /\ \A t \in Tables : db[t] <= db'[t]
    BY <1>1, <1>3, WriteMovesForward
  <2>2. \A t \in Tables : db'[t] \in Nat
    BY <2>1 DEF Version, QueryCacheAssumption
  <2> QED BY <1>2, <2>1, <2>2
<1>4. CASE OtherWrites
  BY <1>1, <1>3, <1>4, WritesKeepCache DEF OtherWrites
<1>5. ASSUME NEW m \in DOMAIN Writes, Mutate(m) PROVE CacheInv'
  <2> DEFINE x == [name |-> m, at |-> 0]
  <2>1. x \in Mutation /\ x.at = 0 /\ x.name = m
    BY DEF QueryCacheAssumption
  <2>2. mutations' = mutations \cup {x} /\ UNCHANGED <<db, entry, due>>
    BY <1>5 DEF Mutate
  <2>3. \A t \in Writes[m] : 0 <= db[t]
    BY <1>1, WrittenTables DEF Version
  <2>4. \A t \in Tables : db[t] <= db[t]
    BY <1>1 DEF Version
  <2> HIDE DEF x
  <2> QED BY <1>1, <1>2, <2>1, <2>2, <2>3, <2>4, WritesKeepCache
<1>6. ASSUME NEW x \in mutations, MutationFails(x) PROVE CacheInv'
  <2>1. \A t \in Tables : db[t] <= db[t]
    BY <1>1 DEF Version
  <2> QED BY <1>1, <1>2, <1>6, <2>1, WritesKeepCache DEF MutationFails
<1>7. ASSUME NEW x \in mutations, Commit(x) PROVE CacheInv'
  <2> DEFINE y == [x EXCEPT !.at = LastWrite + 1]
  <2>1. Write(Writes[x.name]) /\ UNCHANGED <<entry, due>>
    BY <1>7 DEF Commit
  <2>2. mutations' = (mutations \ {x}) \cup {y}
    BY <1>7 DEF Commit
  <2>3. /\ LastWrite + 1 \in 0 .. MaxWrites
        /\ \A t \in Writes[x.name] : db'[t] = LastWrite + 1
    BY <1>1, <2>1, WriteMovesForward, WrittenTables
  <2>4. y \in Mutation /\ y.at = LastWrite + 1 /\ y.name = x.name
    BY <1>1, <2>3
  <2> HIDE DEF y
  <2>5. \A t \in Writes[y.name] : y.at <= db'[t]
    BY <2>3, <2>4
  <2>6. \A z \in mutations' : z \in Mutation /\ \A t \in Writes[z.name] : z.at <= db'[t]
    BY <1>1, <1>3, <2>1, <2>2, <2>4, <2>5
  <2> QED BY <1>3, <2>1, <2>6, WritesKeepCache
<1> QED BY <1>4, <1>5, <1>6, <1>7

(* The answer to a mutation: what becomes due is written; a query that has *)
(* data and now has to show more is on screen, so that it is invalid and   *)
(* fetched anew, and no older answer arrives.                              *)
LEMMA AnsweredKeepsCache ==
  ASSUME QueryCacheAssumption, CacheInv, NEW x \in mutations, Answered(x)
  PROVE  CacheInv'
<1>1. /\ db \in Version /\ entry \in [Queries -> Entry] /\ due \in [Queries -> Version]
      /\ mutations \subseteq [name : DOMAIN Writes, at : 0 .. MaxWrites]
      /\ db' = db /\ mutations' \subseteq mutations
  BY DEF CacheInv, CacheTyped, Answered
<1>2. \A q \in Queries, t \in Tables :
        due'[q][t] = IF /\ Mounted(q) /\ Beside(q, x.name) /\ entry[q].data # NoData
                        /\ t \in Reads[q] \cap Writes[x.name]
                     THEN x.at ELSE due[q][t]
  BY DEF Answered, DueAfter
<1>3. due' \in [Queries -> Version]
  <2>1. x.at \in 0 .. MaxWrites
    BY <1>1
  <2>2. \A q \in Queries : DueAfter(x, q) \in Version
    BY <1>1, <2>1 DEF DueAfter, Version
  <2> QED BY <2>2 DEF Answered
<1>4. DueIsWritten'
  BY <1>1, <1>2 DEF CacheInv, DueIsWritten
<1>5. ASSUME NEW q \in Queries
      PROVE  entry'[q] \in Entry /\ AnswerKnown(q)'
  <2>1. entry'[q] \in {entry[q], [entry[q] EXCEPT !.invalid = TRUE],
                       Fetching([entry[q] EXCEPT !.invalid = TRUE])}
    BY DEF Answered, Invalidated
  <2>2. entry[q] \in Entry /\ AnswerKnown(q)
    BY <1>1 DEF CacheInv
  <2>3. /\ [entry[q] EXCEPT !.invalid = TRUE] \in Entry
        /\ [entry[q] EXCEPT !.invalid = TRUE].fetch = entry[q].fetch
        /\ [entry[q] EXCEPT !.invalid = TRUE].answer = entry[q].answer
    BY <2>2 DEF Entry
  <2>4. \A e \in Entry : Fetching(e) \in Entry /\ Fetching(e).fetch = "sent"
    BY DEF Fetching, Entry
  <2> QED BY <2>1, <2>2, <2>3, <2>4 DEF AnswerKnown
<1>6. ASSUME NEW q \in Queries \ Polled
      PROVE  AnswerShowsDue(q)' /\ DataShowsDue(q)'
  <2> DEFINE e == entry[q]
             marked == [e EXCEPT !.invalid = TRUE]
  <2>1. e \in Entry /\ marked \in Entry
    BY <1>1 DEF Entry
  <2>2. /\ marked.invalid = TRUE /\ marked.data = e.data /\ marked.fetch = e.fetch
        /\ marked.answer = e.answer
        /\ Fetching(marked).fetch = "sent" /\ Fetching(marked).invalid = TRUE
    BY <2>1 DEF Entry, Fetching
  <2>3. AnswerShowsDue(q) /\ DataShowsDue(q)
    BY DEF CacheInv
  <2>4. entry'[q] = IF Root[q] \in Invalidates[x.name] THEN Invalidated(e, Mounted(q)) ELSE e
    BY DEF Answered
  <2>5. CASE \A t \in Tables : due'[q][t] = due[q][t]
    <3>1. entry'[q] \in {e, marked, Fetching(marked)}
      BY <2>4 DEF Invalidated
    <3> HIDE DEF e, marked
    <3>2. e = entry[q]
      BY DEF e
    <3> QED BY <2>2, <2>3, <2>5, <3>1, <3>2 DEF AnswerShowsDue, DataShowsDue
  <2>6. CASE \E t \in Tables : due'[q][t] # due[q][t]
    <3>1. /\ Mounted(q) /\ Beside(q, x.name) /\ e.data # NoData
          /\ Reads[q] \cap Writes[x.name] # {}
      BY <1>2, <2>6
    <3>2. Root[q] \in Invalidates[x.name]
      BY <3>1, HooksCoverScreens
    <3>3. entry'[q] = Fetching(marked)
      BY <2>4, <3>1, <3>2 DEF Invalidated
    <3> QED BY <2>2, <3>3 DEF AnswerShowsDue, DataShowsDue
  <2> QED BY <2>5, <2>6
<1>7. entry' = [q \in Queries |-> entry'[q]]
  BY DEF Answered
<1>8. CacheTyped'
  BY <1>1, <1>3, <1>5, <1>7 DEF CacheTyped
<1> QED BY <1>4, <1>5, <1>6, <1>8 DEF CacheInv

(* Once the answer to a change has been handled, no query of the screens   *)
(* that offer it shows the time before the change as current, the polled   *)
(* ones and the pipelines on the form of a station excepted.               *)
THEOREM OwnWritesShown == QueryCacheSpec => []OwnWriteVisible
<1>1. QueryCacheInit => CacheInv
  <2> SUFFICES ASSUME QueryCacheInit PROVE CacheInv
    OBVIOUS
  <2>1. Initial \in Version /\ \A t \in Tables : Initial[t] = 0
    BY QueryCacheAssumption, VersionsDiffer DEF Initial
  <2>2. Missing \in Entry /\ Fetching(Missing) \in Entry
        /\ Missing.fetch # "read" /\ Fetching(Missing).fetch # "read"
        /\ Missing.data = NoData /\ Fetching(Missing).data = NoData
    BY DEF Missing, Fetching, Entry
  <2>3. \A q \in Queries : entry[q] \in {Missing, Fetching(Missing)}
    BY DEF QueryCacheInit, Mount
  <2>4. entry \in [Queries -> Entry]
    BY <2>2, <2>3 DEF QueryCacheInit
  <2>5. CacheTyped /\ DueIsWritten
    <3>1. db = Initial /\ mutations = {} /\ \A q \in Queries : due[q] = Initial
      BY DEF QueryCacheInit
    <3>2. due \in [Queries -> Version]
      BY <2>1 DEF QueryCacheInit
    <3>3. CacheTyped
      BY <2>1, <2>4, <3>1, <3>2 DEF CacheTyped
    <3>4. DueIsWritten
      BY <2>1, <3>1 DEF DueIsWritten
    <3> QED BY <3>3, <3>4
  <2>6. \A q \in Queries : AnswerKnown(q) /\ AnswerShowsDue(q) /\ DataShowsDue(q)
    BY <2>2, <2>3 DEF AnswerKnown, AnswerShowsDue, DataShowsDue
  <2> QED BY <2>5, <2>6 DEF CacheInv
<1>2. CacheInv /\ [QueryCacheNext]_queryCacheVars => CacheInv'
  <2> SUFFICES ASSUME CacheInv, [QueryCacheNext]_queryCacheVars PROVE CacheInv'
    OBVIOUS
  <2>1. CASE UNCHANGED queryCacheVars
    BY <2>1
       DEF queryCacheVars, CacheInv, CacheTyped, DueIsWritten, AnswerKnown, AnswerShowsDue,
           DataShowsDue
  <2> QED
    BY <2>1, QueryCacheAssumption, FetchSteps, MountSteps, WriteSteps, AnsweredKeepsCache
       DEF QueryCacheNext
<1>3. CacheInv => OwnWriteVisible
  BY DEF CacheInv, DataShowsDue, OwnWriteVisible
<1> QED BY <1>1, <1>2, <1>3, PTL DEF QueryCacheSpec

-------------------------------------------------------------------------------

(* The composition that is model-checked is a behaviour of every page and  *)
(* of the cache, so that each theorem above holds of it too.               *)
THEOREM FrontendRunsEveryPage ==
  FrontendSpec => /\ StationPageSpec /\ PipelinePageSpec /\ OrderFormSpec
                  /\ OrderAllocationSpec /\ JobPageSpec /\ QueryCacheSpec
<1> USE DEF pagesVars
<1>1. FrontendInit => /\ StationPageInit /\ PipelinePageInit /\ OrderFormInit
                      /\ OrderAllocationInit /\ JobPageInit /\ QueryCacheInit
  BY DEF FrontendInit
<1>2. [FrontendNext]_pagesVars => [StationPageNext]_stationPageVars
  BY DEF FrontendNext, StationsMove
<1>3. [FrontendNext]_pagesVars => [PipelinePageNext]_pipelinePageVars
  BY DEF FrontendNext, PipelinesMove
<1>4. [FrontendNext]_pagesVars => [OrderFormNext]_orderFormVars
  BY DEF FrontendNext, OrderFormMoves
<1>5. [FrontendNext]_pagesVars => [OrderAllocationNext]_orderAllocationVars
  BY DEF FrontendNext, AllocationsMove
<1>6. [FrontendNext]_pagesVars => [JobPageNext]_jobPageVars
  BY DEF FrontendNext, JobsMove
<1>7. [FrontendNext]_pagesVars => [QueryCacheNext]_queryCacheVars
  BY DEF FrontendNext, CacheMoves
<1> QED
  BY <1>1, <1>2, <1>3, <1>4, <1>5, <1>6, <1>7, PTL
     DEF FrontendSpec, StationPageSpec, PipelinePageSpec, OrderFormSpec, OrderAllocationSpec,
         JobPageSpec, QueryCacheSpec

===============================================================================
