-------------------------------- MODULE JobPages --------------------------------
(***************************************************************************)
(* The Jobs page (JobsPage, JobDetailPage and QrPreview, frontend/src/     *)
(* features/jobs/components): the list, the form for a job and the page of *)
(* one job, which the URL chooses between.                                 *)
(*                                                                         *)
(* "Print label" in the list is an intent: it opens the page of the job,   *)
(* and that page prints once its label is there, by itself.  The intent    *)
(* outlives the pages, and the user may go elsewhere before it is served.  *)
(* The page of a job is keyed by the job and by whether it is to print, so *)
(* it is mounted anew, with its local state reset, when either changes.    *)
(***************************************************************************)
EXTENDS Integers

CONSTANTS
  PageJobs,      \* jobs that may exist
  MaxPrints      \* bound: clicks on "Print label"

NoJobPage == 0

ASSUME JobPagesAssumption == NoJobPage \notin PageJobs /\ MaxPrints \in Nat

VARIABLES
  existing,      \* server: the jobs
  cached,        \* jobs of which the query cache has data, from list or page
  broken,        \* jobs whose detail query is in error
  page,          \* the URL: "list", "new" or "job", and the job
  intent,        \* pendingPrintJobId
  local,         \* state of the mounted JobDetailPage
  deleting,      \* DELETE requests not answered: job, and whether their page is mounted
  asked,         \* history: job -> clicks on "Print label"
  printed        \* history: job -> labels printed by themselves

jobPageVars == <<existing, cached, broken, page, intent, local, deleting, asked, printed>>

Unmounted == [printing |-> FALSE, ready |-> FALSE, done |-> FALSE, confirm |-> FALSE]

Address(view, j) == [view |-> view, job |-> j]

JobPageInit ==
  /\ existing \in SUBSET PageJobs
  /\ cached = existing
  /\ broken = {}
  /\ page = Address("list", NoJobPage)
  /\ intent = NoJobPage
  /\ local = Unmounted
  /\ deleting = {}
  /\ asked = [j \in PageJobs |-> 0]
  /\ printed = asked

-------------------------------------------------------------------------------

(* isDetail && detailQuery.data, and printAfterMount.                      *)
DetailShown(p, data) == p.view = "job" /\ p.job \in data

(* What is mounted when the URL is p, the intent i and the cache has data. *)
(* The same key keeps the local state; another key starts anew, and drops  *)
(* the callbacks of a request the page has made.                           *)
SameKey(p, i, data) ==
  /\ DetailShown(p, data) /\ DetailShown(page, cached) /\ p = page
  /\ local.printing = (i = p.job)

Show(p, i, data) ==
  /\ page' = p /\ intent' = i /\ cached' = data
  /\ local' = IF SameKey(p, i, data) THEN local
              ELSE [Unmounted EXCEPT !.printing = DetailShown(p, data) /\ i = p.job]

Dropping(p, i, data, requests) ==
  IF SameKey(p, i, data) THEN requests ELSE {[d EXCEPT !.calls = FALSE] : d \in requests}

(* A query without data that is mounted again starts over without an error.*)
Go(p, i) ==
  /\ Show(p, i, cached)
  /\ deleting' = Dropping(p, i, cached, deleting)
  /\ broken' = IF p = page THEN broken ELSE broken \ ({p.job} \ cached)

-------------------------------------------------------------------------------

(* useJobs on the list.                                                    *)
RefetchJobs ==
  /\ page.view = "list"
  /\ cached' = cached \cup existing
  /\ UNCHANGED <<existing, broken, page, intent, local, deleting, asked, printed>>

ViewJob(j) ==
  /\ page.view = "list" /\ j \in cached
  /\ Go(Address("job", j), NoJobPage)
  /\ UNCHANGED <<existing, asked, printed>>

PrintLabel(j) ==
  /\ page.view = "list" /\ j \in cached
  /\ asked[j] < MaxPrints
  /\ Go(Address("job", j), j)
  /\ asked' = [asked EXCEPT ![j] = @ + 1]
  /\ UNCHANGED <<existing, printed>>

NewJob ==
  /\ page.view = "list"
  /\ Go(Address("new", NoJobPage), intent)
  /\ UNCHANGED <<existing, asked, printed>>

(* NewJobManualView; its callback does not run once the form is left.      *)
JobCreated(j) ==
  /\ page.view = "new" /\ j \notin existing
  /\ existing' = existing \cup {j}
  /\ Go(Address("job", j), NoJobPage)
  /\ UNCHANGED <<asked, printed>>

(* onBack of the page of a job clears the intent; that of the form, the    *)
(* links and the browser's own back and forward do not.                    *)
BackToList ==
  /\ page.view = "job" /\ DetailShown(page, cached)
  /\ Go(Address("list", NoJobPage), NoJobPage)
  /\ UNCHANGED <<existing, asked, printed>>

Browse(p) ==
  /\ p # page
  /\ Go(p, intent)
  /\ UNCHANGED <<existing, asked, printed>>

-------------------------------------------------------------------------------

(* QrPreview: the image is loaded, or there is none.                       *)
LabelReady ==
  /\ DetailShown(page, cached) /\ ~local.ready
  /\ local' = [local EXCEPT !.ready = TRUE]
  /\ UNCHANGED <<existing, cached, broken, page, intent, deleting, asked, printed>>

(* Faulty variant: the intent stays when it is served.                     *)
ServedIntentStays == intent

(* onConsumedPrintIntent.                                                  *)
ServedIntent == NoJobPage

(* The animation frame of the print effect: print, then the intent is      *)
(* consumed, which mounts the page anew; printedRef holds off a second     *)
(* print of a page that stays mounted.                                     *)
PrintFrame ==
  /\ DetailShown(page, cached) /\ local.printing /\ local.ready /\ ~local.done
  /\ IF SameKey(page, ServedIntent, cached)
     THEN local' = [local EXCEPT !.done = TRUE]
          /\ UNCHANGED <<cached, broken, page, intent, deleting>>
     ELSE Go(page, ServedIntent)
  /\ printed' = [printed EXCEPT ![page.job] = @ + 1]
  /\ UNCHANGED <<existing, asked>>

-------------------------------------------------------------------------------

(* The detail query polls (useJob: every 5 s, every 30 s after an error).  *)
PollAnswered ==
  /\ page.view = "job" /\ page.job \in existing
  /\ Show(page, intent, cached \cup {page.job})
  /\ deleting' = Dropping(page, intent, cached \cup {page.job}, deleting)
  /\ broken' = broken \ {page.job}
  /\ UNCHANGED <<existing, asked, printed>>

PollFailed ==
  /\ page.view = "job"
  /\ broken' = broken \cup {page.job}
  /\ UNCHANGED <<existing, cached, page, intent, local, deleting, asked, printed>>

(* Faulty variant: an error leaves the page only if there is no data.      *)
StaysWithData == page.job \in broken /\ page.job \notin cached

(* detailQuery.isError: also when older data is still shown.               *)
DetailIsError == page.job \in broken

(* The effect that leaves a page whose query is in error; the intent stays.*)
LeaveOnError ==
  /\ page.view = "job" /\ DetailIsError
  /\ Go(Address("list", NoJobPage), intent)
  /\ UNCHANGED <<existing, asked, printed>>

-------------------------------------------------------------------------------

(* The button is disabled while the request of this page is pending.       *)
AskDelete(open) ==
  /\ DetailShown(page, cached) /\ local.confirm # open
  /\ open => \A d \in deleting : ~d.calls
  /\ local' = [local EXCEPT !.confirm = open]
  /\ UNCHANGED <<existing, cached, broken, page, intent, deleting, asked, printed>>

ConfirmDelete ==
  /\ local.confirm
  /\ local' = [local EXCEPT !.confirm = FALSE]
  /\ deleting' = deleting \cup {[job |-> page.job, calls |-> TRUE]}
  /\ UNCHANGED <<existing, cached, broken, page, intent, asked, printed>>

(* The answer leads back to the list if the page that asked is still       *)
(* mounted; a failure, or a lost answer, shows nothing.                    *)
DeleteAnswered(d) ==
  /\ existing' \in {existing, existing \ {d.job}}
  /\ \/ /\ d.calls /\ d.job \notin existing'
        /\ Show(Address("list", NoJobPage), NoJobPage, cached)
        /\ deleting' = {[e EXCEPT !.calls = FALSE] : e \in deleting \ {d}}
     \/ /\ deleting' = deleting \ {d}
        /\ UNCHANGED <<cached, page, intent, local>>
  /\ UNCHANGED <<broken, asked, printed>>

(* Others delete and create jobs; an id may come back.                     *)
OthersChangeJob(j) ==
  /\ existing' = IF j \in existing THEN existing \ {j} ELSE existing \cup {j}
  /\ UNCHANGED <<cached, broken, page, intent, local, deleting, asked, printed>>

JobPageNext ==
  \/ RefetchJobs \/ NewJob \/ BackToList \/ LabelReady \/ PrintFrame
  \/ PollAnswered \/ PollFailed \/ LeaveOnError
  \/ AskDelete(TRUE) \/ AskDelete(FALSE) \/ ConfirmDelete
  \/ Browse(Address("list", NoJobPage)) \/ Browse(Address("new", NoJobPage))
  \/ \E j \in PageJobs :
       \/ ViewJob(j) \/ PrintLabel(j) \/ JobCreated(j) \/ OthersChangeJob(j)
       \/ Browse(Address("job", j))
  \/ \E d \in deleting : DeleteAnswered(d)

(* The detail query keeps polling; an effect runs right after the render   *)
(* that makes it due, so the user cannot forever be faster.                *)
JobPageFairness ==
  /\ WF_jobPageVars(PollFailed /\ page.job \notin existing)
  /\ SF_jobPageVars(LeaveOnError)

JobPageSpec == JobPageInit /\ [][JobPageNext]_jobPageVars /\ JobPageFairness

-------------------------------------------------------------------------------

(* The page of a job prints by itself at most once for each click on       *)
(* "Print label" of that job, however the user moves between the pages,    *)
(* whenever the label appears, and however often the page is mounted       *)
(* (pendingPrintJobId, printedRef and the key of JobDetailPage).           *)
PrintsAsked == \A j \in PageJobs : printed[j] <= asked[j]

(* The page of a job that was deleted is left, whoever deleted it, and     *)
(* also when the answer that would lead back to the list comes too late.   *)
ShowsDeletedJob == page.view = "job" /\ page.job \notin existing

DeletedJobLeft == ShowsDeletedJob ~> ~ShowsDeletedJob
===============================================================================
