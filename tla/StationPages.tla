----------------------------- MODULE StationPages -----------------------------
(***************************************************************************)
(* The Stations page (frontend/src/features/stations/components): a list,  *)
(* a form for a new station and one for an existing station, over the      *)
(* stations of the server, which other users change at the same time.      *)
(*                                                                         *)
(* handleSubmit of both forms is an async function of one or two requests. *)
(* Between two of its awaits anything may happen: other requests, and the  *)
(* user leaving the form, since Back and Cancel stay enabled.  The call    *)
(* goes on then; only its setState has no effect any more.  Each request   *)
(* is one step: it is answered, refused, or its answer is lost.            *)
(***************************************************************************)
EXTENDS Integers, FiniteSets

CONSTANTS
  StationIds,    \* ids the server may give to stations
  Eyes,          \* camera ids a user may type
  MaxVisits      \* bound: how often a form is opened

NoEye == ""
NoId  == 0

ASSUME StationPagesAssumption ==
  /\ NoId \notin StationIds /\ NoEye \notin Eyes
  /\ MaxVisits \in Nat

VARIABLES
  rows,          \* server: station -> eye, NoEye for NULL
  listed,        \* the rows the list last received
  confirming,    \* list: rows that ask to confirm (bound: one at a time)
  form,          \* the form that is shown, or the list
  saves,         \* running calls of handleSubmit
  removals       \* running DELETE requests, with what they call back

stationPageVars == <<rows, listed, confirming, form, saves, removals>>

Field == Eyes \cup {NoEye}

(* made is a history variable: the stations this visit of the form created.*)
FormState ==
  [kind : {"list", "new", "edit"}, visit : 0 .. MaxVisits, id : StationIds \cup {NoId},
   oldEye : Field, camera : Field, saving : BOOLEAN, confirmOpen : BOOLEAN,
   error : {"none", "failed", "partial"}, made : SUBSET StationIds]

Save ==
  [visit : 1 .. MaxVisits, next : {"create", "update", "eye"}, id : StationIds \cup {NoId},
   oldEye : Field, newEye : Field, lost : BOOLEAN]

(* visit 0 is the list.  Bound: one DELETE is pending at a time.           *)
Removal == [visit : 0 .. MaxVisits, id : StationIds]

ListView(visit) ==
  [kind |-> "list", visit |-> visit, id |-> NoId, oldEye |-> NoEye, camera |-> NoEye,
   saving |-> FALSE, confirmOpen |-> FALSE, error |-> "none", made |-> {}]

StationPageInit ==
  /\ \E S \in SUBSET StationIds : rows = [s \in S |-> NoEye]
  /\ listed = rows
  /\ confirming = {}
  /\ form = ListView(0)
  /\ saves = {}
  /\ removals = {}

-------------------------------------------------------------------------------

(* The requests, as the service answers them (stations.service.ts).        *)
Insert(s) == [x \in DOMAIN rows \cup {s} |-> IF x = s THEN NoEye ELSE rows[x]]

(* assignEyeTx: an eye has one station, whoever assigned it before.        *)
Assign(s, e) ==
  [x \in DOMAIN rows |-> IF x = s THEN e ELSE IF rows[x] = e THEN NoEye ELSE rows[x]]

Unassign(s) == [rows EXCEPT ![s] = NoEye]

(* deleteStationTx; a station in use is refused (409).                     *)
Delete(s) == [x \in DOMAIN rows \ {s} |-> rows[x]]

CanAssign(s)   == s \in DOMAIN rows
CanUnassign(s) == s \in DOMAIN rows /\ rows[s] # NoEye
CanDelete(s)   == s \in DOMAIN rows

-------------------------------------------------------------------------------

(* useStations: the list has some answer of the server, not the newest.    *)
Refetch ==
  /\ form.kind = "list"
  /\ listed' = rows
  /\ confirming' = confirming \cap DOMAIN rows
  /\ UNCHANGED <<rows, form, saves, removals>>

OpenForm(kind, s, eye) ==
  /\ form.kind = "list"
  /\ form.visit < MaxVisits
  /\ form' = [ListView(form.visit + 1) EXCEPT
                !.kind = kind, !.id = s, !.oldEye = eye, !.camera = eye]
  /\ confirming' = {}
  /\ UNCHANGED <<rows, listed, saves, removals>>

OpenNew == OpenForm("new", NoId, NoEye)

(* The form edits the station as the list showed it.                       *)
OpenEdit(s) == s \in DOMAIN listed /\ OpenForm("edit", s, listed[s])

TypeCamera(e) ==
  /\ form.kind # "list"
  /\ form' = [form EXCEPT !.camera = e]
  /\ UNCHANGED <<rows, listed, confirming, saves, removals>>

Back ==
  /\ form.kind # "list"
  /\ form' = ListView(form.visit)
  /\ UNCHANGED <<rows, listed, confirming, saves, removals>>

Submit ==
  /\ form.kind # "list"
  /\ ~form.saving
  /\ form' = [form EXCEPT !.saving = TRUE, !.error = "none"]
  /\ saves' = saves \cup
       {[visit |-> form.visit, next |-> IF form.kind = "new" THEN "create" ELSE "update",
         id |-> form.id, oldEye |-> form.oldEye, newEye |-> form.camera, lost |-> FALSE]}
  /\ UNCHANGED <<rows, listed, confirming, removals>>

-------------------------------------------------------------------------------

(* The end of a call.  onBack leaves whatever form is shown; setSubmitError*)
(* and setIsSaving reach only the form that made the call.                 *)
Done(v) ==
  /\ saves' = saves \ {v}
  /\ form' = ListView(form.visit)

Failed(v, error) ==
  /\ saves' = saves \ {v}
  /\ form' = IF form.visit = v.visit /\ form.kind # "list"
             THEN [form EXCEPT !.error = error, !.saving = FALSE] ELSE form

Continue(v, id) ==
  /\ saves' = (saves \ {v}) \cup {[v EXCEPT !.next = "eye", !.id = id]}
  /\ form' = IF form.visit = v.visit /\ form.kind = "new"
             THEN [form EXCEPT !.made = @ \cup {id}] ELSE form

(* Faulty variant: the camera is sent whenever the field is filled.        *)
CameraFilled(v) == v.newEye # NoEye

(* Whether a second request follows: after a creation if the field is      *)
(* filled, after an update if the field differs from what was shown.       *)
CameraToSend(v) == IF v.next = "create" THEN v.newEye # NoEye ELSE v.oldEye # v.newEye

(* createStation of NewStationView; the id is known from the answer only.  *)
SaveCreates(v) ==
  /\ v.next = "create"
  /\ \/ \E s \in StationIds \ DOMAIN rows :
          /\ rows' = Insert(s)
          /\ \/ IF CameraToSend(v) THEN Continue(v, s) ELSE Done(v)
             \/ Failed(v, "failed")            \* the answer is lost
     \/ rows' = rows /\ Failed(v, "failed")
  /\ UNCHANGED <<listed, confirming, removals>>

(* updateStation of EditStationView: name, location and capacity only.     *)
SaveUpdates(v) ==
  /\ v.next = "update"
  /\ \/ /\ v.id \in DOMAIN rows
        /\ IF CameraToSend(v) THEN Continue(v, v.id) ELSE Done(v)
     \/ Failed(v, "failed")
  /\ UNCHANGED <<rows, listed, confirming, removals>>

CameraRequest(v) ==
  IF v.newEye = NoEye THEN CanUnassign(v.id) /\ rows' = Unassign(v.id)
                      ELSE CanAssign(v.id) /\ rows' = Assign(v.id, v.newEye)

(* assignEye or unassignEye, of both forms; what is stored stays stored.   *)
SaveCamera(v) ==
  /\ v.next = "eye"
  /\ \/ CameraRequest(v) /\ (Done(v) \/ Failed(v, "partial"))
     \/ rows' = rows /\ Failed(v, "partial")
  /\ UNCHANGED <<listed, confirming, removals>>

SaveStep(v) == SaveCreates(v) \/ SaveUpdates(v) \/ SaveCamera(v)

-------------------------------------------------------------------------------

(* Deleting, from the danger zone of the edit form (after a dialog) and    *)
(* from a row of the list (after a second click).                          *)
OpenDialog ==
  /\ form.kind = "edit"
  /\ \A d \in removals : d.visit # form.visit       \* disabled while pending
  /\ form' = [form EXCEPT !.confirmOpen = TRUE]
  /\ UNCHANGED <<rows, listed, confirming, saves, removals>>

CancelDialog ==
  /\ form.confirmOpen
  /\ form' = [form EXCEPT !.confirmOpen = FALSE]
  /\ UNCHANGED <<rows, listed, confirming, saves, removals>>

ConfirmDialog ==
  /\ form.confirmOpen
  /\ removals = {}
  /\ removals' = {[visit |-> form.visit, id |-> form.id]}
  /\ UNCHANGED <<rows, listed, confirming, form, saves>>

ClickDelete(s) ==
  /\ form.kind = "list" /\ s \in DOMAIN listed
  /\ IF s \in confirming
     THEN /\ removals = {}                             \* disabled while pending
          /\ removals' = {[visit |-> 0, id |-> s]}
          /\ UNCHANGED confirming
     ELSE confirming' = {s} /\ UNCHANGED removals
  /\ UNCHANGED <<rows, listed, form, saves>>

CancelDelete(s) ==
  /\ form.kind = "list" /\ s \in confirming
  /\ confirming' = confirming \ {s}
  /\ UNCHANGED <<rows, listed, form, saves, removals>>

(* The callbacks given to mutate run only while the component is mounted:  *)
(* a late answer does not touch another form.                              *)
Calling(d) == form.kind = "edit" /\ form.visit = d.visit

RemovalStep(d) ==
  /\ removals' = removals \ {d}
  /\ \/ /\ CanDelete(d.id)
        /\ rows' = Delete(d.id)
        /\ form' = IF Calling(d) THEN ListView(form.visit) ELSE form
        /\ UNCHANGED confirming
     \/ /\ rows' = rows
        /\ form' = IF Calling(d) THEN [form EXCEPT !.confirmOpen = FALSE, !.error = "failed"]
                   ELSE form
        /\ confirming' = IF d.visit = 0 THEN confirming \ {d.id} ELSE confirming
  /\ UNCHANGED <<listed, saves>>

-------------------------------------------------------------------------------

(* The other users: stations get and lose cameras, come and go.           *)
OtherUser ==
  /\ \/ \E s \in StationIds, e \in Eyes : CanAssign(s) /\ rows' = Assign(s, e)
     \/ \E s \in StationIds : CanUnassign(s) /\ rows' = Unassign(s)
     \/ \E s \in StationIds : CanDelete(s) /\ rows' = Delete(s)
  /\ UNCHANGED <<listed, confirming, form, saves, removals>>

StationUser ==
  \/ OpenNew \/ Back \/ Submit \/ OpenDialog \/ CancelDialog \/ ConfirmDialog
  \/ \E e \in Field : TypeCamera(e)
  \/ \E s \in StationIds : OpenEdit(s) \/ ClickDelete(s) \/ CancelDelete(s)

StationPageNext ==
  \/ StationUser \/ OtherUser \/ Refetch
  \/ \E v \in saves : SaveStep(v)
  \/ \E d \in removals : RemovalStep(d)

StationPageSpec == StationPageInit /\ [][StationPageNext]_stationPageVars

-------------------------------------------------------------------------------

(* Saving a form whose camera field was left as it was shown moves no      *)
(* camera, although the station was shown as it was some time ago and      *)
(* somebody else may have moved its camera to another station since        *)
(* (oldEye !== newEye in EditStationView).                                 *)
UntouchedCamera ==
  \A v \in saves :
    SaveStep(v) /\ v.newEye = v.oldEye
      => \A s \in DOMAIN rows : rows'[s] = rows[s]

UntouchedCameraStays == [][UntouchedCamera]_stationPageVars

(* "The station was created. Open it from the list to assign the camera,   *)
(* or try again." (NewStationView.tsx): trying again finishes the station  *)
(* that was created, so that one form creates one station.                 *)
OneFormOneStation == Cardinality(form.made) <= 1
===============================================================================
