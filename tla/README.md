# manu-tracker: a TLA+ model of the tracking system

manu-tracker follows trays through a workshop. A *job* is a batch of one product on one tray; the
tray carries a QR code. Cameras (*eyes*, `src/manu-eye`, Python) above the stations see the trays
and report to a backend (`src/manu-gen/backend`, Express and SQLite) when one arrives or departs.
The backend keeps stations, pipelines (which product passes which stations), jobs, customer orders
and what each order line gets from which job. A React frontend shows and edits all of that.

This directory holds TLA+ modules for the parts whose state matters, TLC configurations that check
them on small instances, and TLAPS proofs for every value of the constants.

## 1. Inventory

| Part | State it keeps | Operations | Where it is hard |
|---|---|---|---|
| database (`db.ts`) | eight tables, foreign keys, unique indexes, CHECKs | statements of the services | constraints that a handler must never run into |
| stations service | stations, eye assignment, slot capacity | create, update, assign/unassign eye, delete | deletion cascades to events, is refused for steps |
| pipelines service | pipelines, ordered steps with capacity and duration limits | create, PATCH, PUT, replace steps, delete | edits while jobs of the pipeline are running |
| jobs service | jobs, their allocations | create, delete, allocate, remove, status from events; board, detail, history (read only) | units promised by several operations; ids and tray codes used again; visits put together from events in any order |
| events service | the event log | create (then `onTrackingEvent`), list | no transaction; any order, any time, unknown trays |
| customer orders service | orders, lines | create with automatic packing, PATCH, delete, percentages | greedy packing into shared jobs, and undoing it |
| eyes service | none (looks at stations) | register | an assignment that changes later |
| analytics | none (reads events, orders) | visit durations, percentiles, bottlenecks, activity, order metrics | clocks, text comparisons, rounding, a second pairing of arrivals and departures |
| eye process (`main.py`, `client.py`, `tray_codes.py`) | its station, a shutdown flag, the tracker | registration loop, capture loop, event delivery | lost events, no retry, stale station, shutdown |
| presence tracker (`presence.py`) | one set and three dicts | `process_frame` | hysteresis with three counters per code |
| camera and decoder | failure count | frames, codes | gives up after ten failures |
| frontend query cache | one entry per query, mutations under way | mount, poll, fetch, mutate, invalidate | fetches and writes that overtake each other |
| station, pipeline, order and job pages | forms, picks, confirmations, a print intent, requests under way | what the user types and clicks, and the answers | several requests in a row, answers after the page was left, data that was true a while ago |
| dashboard and job figures | none | durations, progress, danger colours | the same thing computed in several places |
| layout, navigation, demo scripts | the address | routing | - |

**Interaction.** An eye asks `POST /eyes/register` until a station is assigned to it, then turns
frames into codes, codes into transitions (presence tracker), and each transition into one
`POST /events`. `events.service` inserts the event and calls `jobs.service.onTrackingEvent`, which
moves the status of the job on that tray. `customer-orders.service` reads the pipeline of each
product, packs the order's lines into pending jobs (`packIntoJob`) and new ones (`createJobRaw`),
and on deletion takes them back (`deleteJob` or a shrink). All of them share one SQLite
connection. Job board, history and analytics read the log. The frontend calls the HTTP API, caches
what it read, polls some of it every second, and fetches again what its own changes invalidate.

**Concurrency.** Express handlers and better-sqlite3 are synchronous, so a request is never
interleaved with another. What interleaves is whole requests: of several users and several eyes,
in any order. Within one request only a process that dies can separate statements, and only in a
handler that opens no transaction; with several statements there is one such, `createEvent`. In
the frontend everything that is awaited interleaves: the requests of a form, its user, the other
users, the fetches of the cache.

**What makes each part correct** is stated as properties (section 4); `PROJECT.json` lists the
hazards with the line where each bites.

## 2. Modules

```
Totals              sums and orders of the rows of a table, Lesser, Positive
Database            tables as variables, shared queries, Init, TypeOK        db.ts
 +- StationsService, PipelinesService, JobsService, CustomerOrdersService    features/*/*.service.ts
     +- Backend     Next (one step per request), properties                  controllers, app.ts
         +- PackingLoop      the loops of autoCreateAndAllocate, turn by turn
         +- OrderReports     figures of orders, lines, product types         customer-orders, analytics services,
         |                                                                   order pages
         +- MCBackend, MCFulfilment   for TLC
EventLog            events row by row with times, steps with positions       events, jobs, pipelines services
 |                  and limits; implements Backend
 +- JobReports      board, history, and the job page made of them            jobs.service.ts, jobs/components
     +- Analytics   durations, violations, cards, activity                   analytics.service.ts, dashboard
         +- MCReports
TrayPresence        what a camera promises (abstract specification)
Presence            PresenceTracker                                          manu-eye/src/presence.py
 +- PresenceHistory Presence with history variables, implements TrayPresence
 +- EyeStation      the eye process around it, and what the backend shows    main.py, client.py, camera.py,
                                                                             eyes/stations services
StationPages, PipelinePages, OrderForm, OrderAllocations, JobPages           frontend/src/features/*/components
QueryCache          the hooks over TanStack Query                            frontend/src/features/*/hooks
 +- MCFrontend      one of the pages, or the cache
```

The proofs are in modules of their own:

```
TotalsTheorems                sums, orders, quotients: the laws the other proofs rest on
 +- BackendTheorems           tables: types, references, product types, allocations, deletion, status
 |   +- OrderTheorems         packing, its loops, the figures and the progress of orders
 +- EventLogTheorems          the log: types, and that it implements Backend
 |   +- JobReportTheorems     history, board and job page
 |       +- AnalyticsTheorems the dashboard
 +- EyeTheorems               the tracker, its promise, the eye process, the board
FrontendTheorems              the pages and the query cache
```

### Database and services

A table is a function from its natural key to the columns that a service decides from:
`allocations[<<line, job>>]` is a row of `job_allocations`, so UNIQUE(order_line_id, job_id) is
built in; a line is `<<order, product type>>`, which builds in UNIQUE(customer_order_id,
product_type); a step is `<<pipeline, station>>`. A foreign key is *not* built in: that no handler
leaves a dangling row, or relies on the database to refuse one, is `ReferencesExist`. The unique
index on product types is the guard `TypeFree` and a conjunct of `TypeOK`.

* Tray codes are `formatTrayCode(id)`, an injection, so a tray is named by the id of the job that
  carries it. Ids of jobs and orders are `MAX(id)+1` (`NextId`) and are *used again* after the
  highest row is deleted.
* `tracking_events` is kept as the set `departures` of <<tray, station>> pairs with a departed
  event: the status of a job depends on nothing else of the log. An event needs an existing
  station but not an existing tray, as in the code.
* Every request that the code refuses (404, 409, 422, a constraint that rolls its transaction
  back) is a guard: it changes nothing. `AddAllocation`, `DeleteJob`, `UpdatePipeline` and so on
  are whole handlers, including the cascades of the transaction.
* `CreateOrder` is the whole transaction `createOrderTx`. The code's loop keeps a running
  `remaining`; the model says directly what job j gets (`Packed`: the lesser of its space and the
  need not covered by the space of the jobs before it), how far it grows (`GrowBy`: only what its
  unallocated units do not cover), how many batches follow and with which ids. `PackingLoop` has
  the loops turn by turn, and `PackingFollowsLoop` says that both give the same; TLC checks it on
  every reachable database, and it is proved (section 5).
* `DeleteOrder` is `deleteOrderTx`: jobs that serve no other order are deleted with their events,
  shared ones give up the order's units but keep at least one.
* `CrashInCreateEvent` is the death of the process between the INSERT and the status update.

Fault variants (`GrowByShare`, `DoomedShared`, ...) stand before the definition they falsify. No
action uses them; each shows that a property notices a plausible mistake.

### Presence

`Presence` is `PresenceTracker` with one action, `ProcessFrame`, for any set of codes: the three
dicts are functions whose domain is the set of keys, so that `pop` and `del` show. The three loops
become the sets `Departing`, `Arriving`, `Gaining` and `Dropped`. `TrayPresence` says what the
camera promises in terms of the frames alone: a code departs exactly in the `FramesToDepart`-th
consecutive frame that misses it, arrives only in a frame that shows it, not before it was seen
`FramesToArrive` times since it was forgotten, and not later than after `FramesToArrive`
consecutive frames. `PresenceHistory` adds the counts that promise speaks about and is shown to
implement it (`KeepsPromise == Promise!Spec`).

### EyeStation

`EyeStation` extends `Presence` with the single thread that runs the tracker: `mode` says where it
is (in `wait_for_registration`, in `capture_frames` before the first frame, in the loop over
frames, ended by itself or killed), `unsent` is what the loop over the transitions of a frame has
left. Each frame calls `ProcessFrame` of `Presence`; each transition is one request with three
outcomes: answered (`Send`), failed (`Lose`), timed out at the client while the backend still has
it (`TimeOut`), to be stored later (`ProcessLate`) and not necessarily in order. SIGTERM only sets a flag, which
is looked at where the code looks at it. On the side of the backend there is what the eye can
touch: the stations, their eye assignment and the event log with the deletions of `deleteStation`
and `deleteJob`. `log[c]` holds the events of a tray by captured_at, stored or in a request that
timed out, without those that a later one of the same station has overtaken: they cannot be the
latest any more, whichever station is deleted. `BoardStation` is what `getJobBoard` takes from
it. `last` and `unknown` are history variables of the properties. Any
station may be deleted here; the guard on pipeline steps is in `StationsService`.

### EventLog, JobReports, Analytics

`Database` keeps of the log what decisions depend on. `EventLog` is the same tracking part with the
log as it is: an id that AUTOINCREMENT never gives again, tray, station, phase and a time that is
any element of `Times`, because nothing synchronises the clocks of the eyes; steps have a position
and a limit. `Summary == INSTANCE Backend WITH departures <- Departures, ...` maps it to the backend
without orders, and `KeepsSummary == Summary!Spec` says that it implements it.

`JobReports` and `Analytics` are functions of that state and of the time they are asked at.
A loop of the code is a fold (`HistoryOf` over the rows of a tray in the order of the query;
`TraySamples` the second loop of that kind, in the analytics), a query is a set or a sorted sequence. A time
in text is a time and the number of letters Z after it, which is what the four conversions of the
code differ in (`ToIso`, `WithZ`, `ParseUtcMs`); the comparison of an ISO text with SQLite's
`datetime('now', ...)` is `TextAtLeast`. Durations are whole seconds of `Second` ticks, so that
rounding down happens; percentiles are computed in hundredths before rounding.

### OrderReports

Likewise functions of `Backend`: the figures of a line and an order, the number of jobs of the
detail page, what is left of a job, and the order metrics with the rows of their LEFT JOIN.

### Frontend

Each page module has the server's rows it touches, what the page has of them as last received, its
local state, and the requests under way; a step of a request is one exchange with the server, whose
checks are those of the services. `StationPages.saves` are submissions whose requests (PUT or POST,
then the camera) are awaited one after the other; they go on after the form is left, and their
answers touch the page that is there then only where the code lets them (`Continue`, `Done`,
`Failed`; callbacks given to `mutate` run only while the component is mounted, those of an awaited
call always). `PipelinePages` has the draft of the step editor and the atomic PUT beside another
editor. `OrderForm` has the lines, the pipeline stored per line and the effective one.
`OrderAllocations` is the card of one line. `JobPages` is the routing between list, form and
detail, with print intents and page keys. `QueryCache` knows of each query only which tables its
endpoint reads and of each mutation which it writes: the server is a version number per table, a
fetch takes two steps (read there, arrive here), and a property compares versions.

React, the router and TanStack Query are not in the repository's sources; what they do is
modelled from how the code uses them and marked external in the map.

## 3. Runs

| Run | Module | Bounds | Shows |
|---|---|---|---|
| fulfilment | MCFulfilment | 1 pipeline, 1 station, 2 jobs, 2 orders, units and capacity to 3 | sharing, growing, shrinking, batches, manual allocation, completion, deletion; packing operators = loops of the code |
| tracking | MCBackend | 2 stations, 2 pipelines, 2 types, 2 jobs, 1 order, 1 unit | events in any order, unknown trays, crash, steps replaced, stations deleted, types moving, cascades, order figures |
| reports | MCReports | 2 stations, 1 pipeline of 1 or 2 steps, 1 job, 3 events at times 0..3, asked at 1, 3, 4, 7; seconds, hours and the window of 2 ticks, days of 2 hours | board, history, job page and dashboard of every such log; the log implements Backend |
| presence | PresenceHistory | 2 codes, 3 frames, grace 1 | tracker implements its promise |
| eye_delivery | EyeStation | 2 trays, 1 station, 1 late request per tray | transitions tried exactly once, board follows |
| eye_loop | EyeStation | 1 tray, 2 stations, 2 late requests, 2 failed reads | moving the eye, late requests, shutdown, registration |
| frontend | MCFrontend | see below | the promises of each page and of the cache |
| completed_all_steps, order_deletes_in_progress, elapsed_known, retry_creates_second, presence_grace | | smallest that show it | five places where the code differs from what it says (section 6) |

**Why these bounds are enough to be interesting.** With two jobs and two orders a job is shared, one
of its orders is deleted, its space is filled again under the id that became free, and the greedy loop
meets a full, a partly filled and an empty job; capacity 3 separates "fills exactly", "leaves one"
and "one too many". Product types need a second pipeline to move to and a second line in an order;
the unit count does not matter there. For the status two stations separate "a step" from "not a step"
and "some" from "all". Three events at two stations are a visit with an event of the other station
or phase inside it, two visits that would overlap, a departure stored before its arrival, equal times; four
times let a duration round to zero, be exactly a limit, and exceed it; the times asked for lie
inside and outside the window, before and after midnight. Two codes suffice for the tracker because codes do not
influence each other. A frame with two transitions needs two trays, an eye that moves two stations,
and the two together are too many states for one run.

*frontend*: App.tsx mounts one page at a time and a page loses its local state when it is left, so a
behaviour of `MCFrontend` is one page, or the cache, chosen at the start. Stations: two stations, one camera, one opened form with
everything that comes after it. Pipelines: two, two stations, two types, rows with no or a minimum and maximum, drafts of two
rows, two edits. Order form: one pipeline, two types, two line keys, three changes, one stored order. Allocations: jobs of one
and two items, a line that needs two. Jobs: two, two prints. Cache: the screens of an order
and of a job with the queries `jobs` (fetched on demand) and `history` (polled), two writes on the server. With one visit
(`MaxVisits`) a late answer that meets a later form of the same kind is not reached.

Bounds that the program does not have: `MaxJobs`, `MaxOrders`, `MaxEvents` (SQLite ids), `MaxUnits`,
`MaxCapacity`, `Times` (ranges of the requests), `FramesToArrive`, `LongestMiss` and `MissGrace + 1`
for the history counters of the tracker, `MaxFailures` (10 in the code), `MaxDelayed` (timed-out
requests of a tray that are still out), and in the pages `MaxVisits`, `MaxDrafts`, `MaxEdits`,
`MaxRows`, `MaxKeys`, `MaxOrders`, `MaxChanges`, `MaxPrints`, `MaxWrites`. The two big runs over the
tables declare ids and names that are only compared for equality symmetric; they check safety
only. Deadlock is checked in every run but those of the frontend, where a user who has used up
the bounds of a page may stop.

**Fairness** is assumed in three places.
* `EyeStation`: weak fairness of `EyeStep`, the loop of the eye process. It is one thread that never
  waits for anything without a limit: requests time out after ten seconds, sleeps are of fixed
  length, an unanswered registration is tried again. (A camera driver that never returns from a
  read would break it.) Nothing is assumed of the environment: requests that timed out may stay
  unprocessed, the backend may stay away, nobody need start the process again.
* `JobPages`: the detail query polls (`refetchInterval` of `useJob`), so a request for a job that is
  gone is answered some time (weak fairness of `PollFailed`, only for such a job), and a React effect runs right after the
  render that makes it due (strong fairness of `LeaveOnError`, since the user can change the page
  again and again).
* `QueryCache`: a mounted query with an interval is fetched again also after an error (weak
  fairness of `Poll`); the server is reached again and again (strong fairness of `ServerReads`
  and `Arrives` for these queries: each fetch may fail, not all of them).

All other properties, the refinements and the refutations, are safety properties.

## 4. Properties

Orders and jobs:
* `JobNotOverAllocated`: allocations of a job never sum to more than its quantity, whatever mix of
  packing, manual allocation, growth and shrinking led there.
* `OrderServedExactly`: a new order gets all the units of each line whose product has a pipeline
  with a capacity, none otherwise, and takes nothing from other lines.
* `PackingWithinCapacity`: only pending jobs grow, never above capacity, and no batch is opened
  while a pending job of the pipeline has space.
* `DeletionIsolated`: deleting an order changes no other order's allocations, deletes no job that
  serves another, and leaves the unallocated units of shared jobs as they are (so the floor of one
  unit never decides).
* `OrderProgressKept`: what an order has received goes back only when somebody deletes one of its
  jobs or removes one of its allocations.
* `OrderFiguresAgree`: an order reads 100 % only when each line does (below 200 units), is never
  further fulfilled than allocated; averages lie between what they average; what the job page says
  is left is what may be allocated.
* `PackingFollowsLoop`: the packing operators against the loops.
* `ProductTypesAgree`, `ReferencesExist`: across all tables, whatever is edited or deleted.

Tracking and reports:
* `StatusMovesForward`: the status changes only from pending to in progress and on to completed,
  and the latter only when as many stations were left as the pipeline has steps at that moment.
* `NoDepartureOutlivesJob`: a job that disappears, by its own deletion or its order's, takes its
  departures along, so the next job on that tray code starts clean.
* `KeepsSummary`: with rows, times and repeated events the services still behave as `Backend` says.
* `HistoryFollowsVisits`: each duration of the history is that of the visit it ends, by a
  definition over the whole log, not a running map. `VisitsDoNotOverlap`: no interval is counted
  twice for a station.
* `BoardAgreesWithHistory`: a tray is on the board exactly when its timeline ends in "Currently at station".
* `JobPageAgrees`: cards, chart, timeline, step list and board row of a job show one journey.
* `DashboardAgreesWithHistory`: the two loops that pair arrivals and departures find the same
  visits; a step that is late after one visit is a violation. `DangerIsCounted`: a visit that the
  board shows in danger when it ends adds one violation.
* `DurationsOrdered`, `ActiveCoversWindow`, `ActivityCounts`: the figures of the dashboard against the
  log, with what their roundings and text comparisons may add.

Eyes:
* `KeepsPromise`, `DictsAgree`, `NothingLeftBehind`: the tracker.
* `AttemptsAgree`: whatever requests, reads, signals and restarts do, the eye skips no transition of
  its tracker and tries none twice.
* `BoardFollowsTracker`: once no request of a tray is outstanding, the board shows the tray at the
  eye's station exactly when the tracker has it there, however late and in whatever order the
  requests were stored; except for a tray whose last event was lost or deleted, which stays wrong
  until its next transition (`main.py:145`).
* `ShutdownEnds`, `AssignedEyeRegisters`: the two liveness promises of the process.

Frontend:
* `UntouchedCameraStays`: saving a form whose camera field was left alone moves no camera, although
  it may have moved since the form was opened.
* `SavesAreWhole`: whatever two editors save, a stored pipeline has metadata and steps of one draft.
* `FoundLinesAreServed`: where the form says that a pipeline was found, jobs are created.
* `FreshAllocationsAccepted`: a number of items that the card lets through from data that is still true
  is not refused (a fraction, which the card lets through as well, is).
* `PrintsAsked`: a page prints at most once for each click. `DeletedJobLeft`: the page of a deleted job
  is left.
* `OwnWriteVisible`: after the answer to the user's own change was handled, no query of the screens that
  offer the change shows the time before it as current. One gap is excepted by name (`NotRefreshed`): the
  form of a station mounts the pipelines, and no station hook refreshes them. `PolledConverges`: a polled query that stays on screen shows in
  the end what the server has.

One `TypeOK` (`LogTyped`, `EyeTypeOK`) per component with rows; that of `Presence` is proved and not run.
Every property of a passing run is falsified by a fault variant of the code (`PROJECT.json`,
"mutants").

## 5. Proofs

Proved with TLAPS for all values of the constants: every state invariant of the passing runs, every
action property, and both refinements. The assumptions are those the modules declare
(`BoundsAssumption`, `PhasesAssumption`, `FiniteAssumption` of `Database`; `LogAssumption`,
`StepRequestsAssumption` of `EventLog`; `SecondAssumption`, `PeriodsAssumption` of the reports;
`ParametersAssumption` of `Presence`, which are the ValueErrors of `__init__`; `EyeAssumption`; one per
page). They say that bounds are numbers, that sets that a request ranges over are finite, that
the names for "none" name nothing else, that times are whole numbers, and that a request for a
step list numbers its steps from 1 without a gap, as `insertSteps` does. The capacity bound is
assumed to be at most the unit bound only so that a full batch is a representable quantity.

### Tables

* **Type correctness** (`TypeCorrect`). The hard steps are `CreateOrder` (shares, grown quantities
  and batch ids stay in range, which needs that a share never exceeds the space and a line
  never opens more batches than it needs) and `DeleteOrder` (a shrunk job keeps one unit).
* **The inductive invariant** is `Consistent == TypeOK /\ ReferencesExist /\ ProductTypesAgree /\
  JobNotOverAllocated` (`ConsistentHolds`). None of the last two is inductive alone: that a
  packed job is of the product asked for needs that job, pipeline and line agree before;
  that a new allocation adds to the right job needs that no row refers to a job that does not
  exist, since its id may be given again. Sums are taken over finite sets; `Totals` defines
  them as the cardinality of a set of pairs <<x, i>>, 1 <= i <= f[x], so that the
  theorems on cardinality give disjoint union, difference, congruence and monotonicity
  without an induction over data.
* **Step properties**: `DeletionIsolation`, `OrdersPackWithinCapacity`, `DeparturesGoWithJob` and
  `StatusOrder` follow from `Consistent` and one case per action.

### Orders

* **A new order is served exactly** (`OrdersServedExactly`). That the shares of a line add up to what
  was asked is a fact about a loop; it is proved by numbering the units of the line instead. The units
  of a pending job follow the space of the jobs before it, those of a batch follow the batches before;
  rows that use no number of 1 .. n twice (`Apart`) and leave none out (`Covered`) sum to n.
* **The closed form is the loop** (`PackingIsLoop`). A recursive function on 0 .. n exists (a least
  length without one would have a predecessor), so each loop has a state after each turn. After k
  turns of the first, `remaining` is the need less the space of the first k jobs, and the shares are
  those of the closed form (`FilledStep`); after k turns of the second it is reduced by k full
  batches (`OpenedStep`). Both are carried from turn to turn by the least turn that breaks them.
* **The figures agree** (`OrderFiguresHold`): a total of capped parts is the whole exactly when each
  part is, quotients are monotone, an average lies between the extremes (`TotalBetween`).
* **Progress is kept** (`OrdersKeepProgress`): unless a job of the order is deleted or an allocation of
  it removed, each of its rows on a completed job is there after the step, with as many units
  (`FulfilledKept`); this needs `StatusOrder`, that deletion is isolated, and that new rows get
  fresh keys.

### Log and reports

* **The log implements the backend** (`LogKeepsSummary`), for any numbers of stations, jobs, events and any
  times. The invariant is `LogTyped`; what carries the proof is that ids above `lastEventId` are
  free, so an insert adds a departure or none and overwrites nothing, and that the count of
  departed stations over rows equals the count over pairs. Each action maps to one of `Backend`
  or to a stutter. `StepsNumbered`, that the positions of a pipeline have no gap, is part of `LogTyped`
  for the sake of the job page.
* **Reports** are functions of the log, so each theorem has the form `LogTyped => P`. The rows of a tray
  are in order and complete (`Ranked`: an element's place is the number of those before it). The
  two loops are unrolled into a sequence of states, one per row (`HistoryLoop`, `SampleLoop`), of
  which the proofs say: what is pending at a station is the latest arrival there with no departure
  since (`OpenArrival`). From it `HistoryIsOfVisits`, `BoardShowsHistory`, and `VisitsAreApart` (visits
  as disjoint intervals of the log's span).
* **One journey** (`JobPageIsOneJourney`): a total over the places of a timeline is the total of the
  totals per station (`TotalOfTotals`), the steps are at different stations, and the position of
  the current step bounds the steps before it (`StepsNumbered`).
* **The dashboard** (`DashboardShowsHistories`, `DurationsInOrder`, `ActiveJobsCovered`,
  `ActivityIsCounted`): its loop has a sample exactly for each history entry with a duration; sorted
  samples give ordered percentiles, and rounding is monotone; hours of the clock that differ count
  different events. `DangerCountedOnce` compares the log before and after an insert: the new departure
  is the last row of its tray, so its samples are the old ones and one more, which is over the
  threshold because the least limit is at most the limit of the step.

### Eyes

* **The tracker implements its promise** (`TrackerKeepsPromise`), for every threshold and grace. The
  invariant (`Inv`) links dicts and history: for a present code the absence streak is the run of
  misses; for another the miss count is the run of misses, and the arrival streak lies between
  the consecutive and the total frames that showed it. `TrackerForgets` (no entry is left behind)
  follows from the same invariant.
* **The eye tries every transition** (`EveryTransitionTried`), for any number of trays and stations.
  `EyeInv` adds to `AttemptsAgree` that what is unsent is where the tracker has the tray now (so
  that sending it brings the last attempt up to date) and that a process that is not yet
  capturing is fresh.
* **The board follows** (`BoardFollows`, `EyeIsTyped`). `EyeLogInv` adds that the last event of a tray's
  log is the last one this run tried, at its station, as long as the station exists and the
  attempt was not lost (`LatestIsTried`), and that no delayed event stands before a stored one of
  the same station (`Settled`). Leaving events out of a log keeps both, which is what storing
  late, overtaking and deleting a station do (`KeptEvents`).

### Frontend

* `PrintsOnlyAsked` from `PrintInv`: the intent of a print stands for one click that is not served, and
  the page prints only while the intent names it.
* `StoredPipelinesAreWhole`: `SavesAreWhole` is inductive itself, since the requests under way are part
  of it.
* `UntouchedCameraHolds` from `CameraInv`: a camera request is only under way where the field differs
  from what the form was opened with. `FoundLinesHold` from `FoundInv`: a line shown as found names a
  pipeline that made its product when the form was sent. `FreshAllocationsHold` from `CardTyped`.
* `OwnWritesShown` from `CacheInv`: an answer on its way to a query that no later change overtakes,
  and data not marked invalid, are no older than what is due to that query; the tables of the hooks
  cover the screens (`HooksCoverScreens`), polled queries and `NotRefreshed` excepted.
* `FrontendRunsEveryPage`: the composition that the run checks satisfies the specification of every page
  and of the cache, so these theorems hold of it too.

### Only model-checked

Liveness (`ShutdownEnds`, `AssignedEyeRegisters`, `DeletedJobLeft`, `PolledConverges`), which is out of
the prover's reach; and what the runs that expect a violation refute. The proofs say nothing of
states that the bounds exclude by a guard (`MaxJobs` and so on), but hold for any value of them.

## 6. Where the code and its documents differ

Shown by a run:

1. *Completed means "scanned out of final station" / "all steps departed"*
   (`manutrack-prd-v1.md:176`, `jobs.service.test.ts:327`): the code counts stations, also those
   that are not steps of the pipeline (`CompletedWhenAllStepsDeparted`).
2. *"Cannot delete ...: job is in progress. Use ?force=true to override."* (`jobs.controller.ts:152`):
   deleting the only order of the job deletes it all the same (`InProgressDeletedOnlyByForce`).
3. *"seconds from first tracking event on the tray to now, or null if no events"*
   (`docs/api/jobs-detail.md:13`): a second Z is appended to the time, which makes it no date, so the value is
   null for events of the eyes (`ElapsedKnown`).
4. *"The station was created. Open it from the list to assign the camera, or try again."*
   (`NewStationView.tsx:39`): trying again creates another station (`OneFormOneStation`).
5. *"up to that many non-consecutive missed frames"* (`presence.py:22-24`): a hit clears the misses,
   so only consecutive ones are bounded (`GraceBoundsAllMisses`).

Met while modelling, as the model has them:

* The first event of a pending job only starts it: a first event that is the last departure leaves
  the job in progress until a further event comes.
* "Active jobs (30m)" compares texts of two formats, so every event of the cutoff's date counts.
* The limit of a step is exceeded at `>=` on the board and the dashboard, at `>` on the job page.
* `stationArrivedAt` of the board is the latest arrival at the station, which may be of an earlier
  visit when the current one began with a scan.
* The order metrics sum a line's quantity once per allocation, and "fulfilled orders" counts a status that
  nothing sets by itself.
* Percentages are rounded: from 200 units a missing one reads 100 %.
* Unassigning a camera takes away whichever is there by then.
* The form of an order does not check for two lines of one product; the server refuses them.
* One failed fetch of a job page that has no retry left leads back to the list although the job exists.
* The card of an order line lets a quantity such as 1.5 through: its number field stands in no form and
  `handleAdd` compares only with 1 and the maximum. The schema of the server refuses it.
* Deleting a job leaves cached customer orders as they are until they are stale. So does renaming a
  station the pipelines, which show its name: the form says "Renaming this station will automatically
  update all pipeline references" (`StationForm.tsx:129`), which holds in the database, where steps refer
  by id, while a cached list of pipelines shows the old name for up to a minute.
* Two editors of a pipeline: the last PUT wins, whole.

## 7. Not modelled, and what is left

Only partly modelled are parts whose remaining operations change texts or one displayed value:
`updateStation` (name, location, slot capacity), `updateCustomerOrder` (status and texts; no page
calls it), the text-only PATCH of a pipeline. The list of last events, paging, QR images and lookup
by tray code read rows without computing anything. Stations appear by id in the reports, although
the job page groups by name: two stations named alike would merge there. The form of a new job is
modelled by its success only; `QueryCache` has all screens as data, of which the run follows two.
`EventLog` leaves out the PATCH, PUT and deletion of a pipeline, on which no property of the reports
depends (`Backend` has them). Product types that are blank, or have spaces around them in a pipeline made
through the API alone, are not modelled: the pages trim what they send, and `FoundLinesAreServed`
relies on it. Capacities of a step are whole
numbers in the model; the step editor sends fractions too, whose PUT or POST the schema refuses.
Out of scope: image decoding (OpenCV, zbar), rendering, logging, schema migrations (ALTER TABLE at
start, before any request), the demo scripts, which post fixed rows through the API, texts and
layout. Quantities are small integers; SQLite's 64-bit range and JavaScript's 2^53 are not reached by
real orders, so overflow is not modelled.

What is worth doing next: carrying the invariants of `Backend` over to the log through the refinement
(status and departures of `EventLog` as theorems of `LogSpec`), the promise of the camera as a theorem
of the eye process between two starts, and the steps of the liveness arguments (what the fair
actions cannot be prevented from, as action properties), whose temporal conclusion stays with TLC.
