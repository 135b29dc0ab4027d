------------------------------ MODULE JobReports ------------------------------
(***************************************************************************)
(* What the program shows of one job: the rows jobs.service.ts computes    *)
(* from the log for the board, the detail and the history, and what the    *)
(* job page makes of them.  All are pure functions of the database and of  *)
(* the time they are asked for, and are checked on every reachable log.    *)
(* Stations appear by id; the page uses their names, taken to be distinct. *)
(***************************************************************************)
EXTENDS EventLog, SequencesExt, Totals

CONSTANTS
  Second   \* ticks of a second: durations are whole seconds, rounded down

ASSUME SecondAssumption == Second \in Nat \ {0}

Seconds(from, to) == (to - from) \div Second

(* A time in text, as ISO 8601 without and with one or two letters Z.  The *)
(* events carry one (createEventSchema); a date with two is invalid, NaN,  *)
(* which an answer carries as null.                                        *)
Text(t, zs) == [time |-> t, zs |-> zs]
CapturedAt(e) == Text(events[e].at, 1)
ToIso(text)   == Text(text.time, IF text.zs > 0 THEN text.zs - 1 ELSE 0)
WithZ(text)   == Text(text.time, text.zs + 1)
NoText        == Text(None, 0)
DateMs(text)  == IF text.zs = 1 THEN text.time ELSE None

ParseUtcMs(text) == DateMs(WithZ(ToIso(text)))

-------------------------------------------------------------------------------

EventsOf(j) == {e \in DOMAIN events : events[e].tray = j}

(* ORDER BY captured_at, id: the texts have one format, so they compare as *)
(* the times do.                                                           *)
Earlier(e, f) ==
  events[e].at < events[f].at \/ (events[e].at = events[f].at /\ e < f)

ByTime(S) == Ordered(S, [e \in S |-> {f \in S : Earlier(f, e)}])

RowsOf(j) == ByTime(EventsOf(j))

LatestOf(S) == CHOOSE e \in S : \A f \in S \ {e} : Earlier(f, e)

(* Faulty variant: the board takes the event stored last.                  *)
LatestById(j) == Max(EventsOf(j))

LatestEvent(j) == LatestOf(EventsOf(j))

(* A row of stmtJobBoardSelect.  A tray whose latest event is a departure  *)
(* is at no station.                                                       *)
AtStation(j) == EventsOf(j) # {} /\ events[LatestEvent(j)].phase # "departed"

Board(j) ==
  LET s        == events[LatestEvent(j)].station
      here     == AtStation(j)
      r        == <<jobs[j].pipeline, s>>
      arrivals == {e \in EventsOf(j) : events[e].station = s /\ events[e].phase = "arrived"}
      limits   == {k \in StepsOf(jobs[j].pipeline) : steps[k].maxDuration # None}
  IN  [station      |-> IF here THEN s ELSE None,
       arrivedAt    |-> IF here /\ arrivals # {} THEN ToIso(CapturedAt(LatestOf(arrivals)))
                                                 ELSE NoText,
       maxDuration  |-> IF here /\ r \in DOMAIN steps THEN steps[r].maxDuration ELSE None,
       stepPosition |-> IF here /\ r \in DOMAIN steps THEN steps[r].position ELSE 0,
       totalSteps   |-> Cardinality(StepsOf(jobs[j].pipeline)),
       expected     |-> IF limits = {} THEN None
                        ELSE Total(limits, [k \in limits |-> steps[k].maxDuration]),
       firstEventAt |-> IF EventsOf(j) = {} THEN NoText ELSE CapturedAt(Head(RowsOf(j)))]

(* jobPipelineProgressFromBoardRow: the Z is appended to a text that has   *)
(* one.                                                                    *)
ElapsedSeconds(j, now) ==
  LET first == Board(j).firstEventAt
  IN  IF first = NoText \/ DateMs(WithZ(first)) = None THEN None
      ELSE Seconds(DateMs(WithZ(first)), now)

(* useLiveDuration: the time at the station that the board shows.          *)
LiveDuration(j, now) ==
  LET arrived == Board(j).arrivedAt
  IN  IF arrived = NoText THEN None
      ELSE Max({0, Seconds(DateMs(WithZ(arrived)), now)})

(* PipelineProgressBar: the part of the steps the bar fills, in percent.   *)
ProgressFilled(j) ==
  LET board == Board(j)
  IN  IF board.totalSteps = 0 THEN 0
      ELSE Min({100, (100 * board.stepPosition) \div board.totalSteps})

(* durationClass, with the threshold of a step: the board shows danger.    *)
ShowsDanger(j, now) ==
  LET limit == Board(j).maxDuration
  IN  LiveDuration(j, now) # None /\ limit # None /\ LiveDuration(j, now) >= limit

-------------------------------------------------------------------------------

(* The loop of buildJobHistoryEntries over the rows of a tray: pending are *)
(* the arrivals not departed yet, by station.                              *)
HistoryEntry(e, duration) ==
  [id |-> e, phase |-> events[e].phase, station |-> events[e].station, duration |-> duration]

(* Faulty variant: a second arrival does not replace the first.            *)
VisitBegunOnce(pending, s, ms) ==
  [u \in DOMAIN pending \cup {s} |-> IF u \in DOMAIN pending THEN pending[u] ELSE ms]

VisitBegun(pending, s, ms) ==
  [u \in DOMAIN pending \cup {s} |-> IF u = s THEN ms ELSE pending[u]]

(* Faulty variant: an arrival stays pending after its departure.           *)
VisitEndedKeepingArrival(pending, s) == pending

VisitEnded(pending, s) == Restrict(pending, DOMAIN pending \ {s})

HistoryRow(rows, acc, i) ==
  LET e  == rows[i]
      s  == events[e].station
      ms == ParseUtcMs(CapturedAt(e))
      Log(pending, duration) ==
        [pending |-> pending, entries |-> Append(acc.entries, HistoryEntry(e, duration))]
  IN  CASE events[e].phase = "departed" ->
             Log(VisitEnded(acc.pending, s),
                 IF s \in DOMAIN acc.pending THEN Seconds(acc.pending[s], ms) ELSE None)
        [] events[e].phase = "arrived" -> Log(VisitBegun(acc.pending, s, ms), None)
        [] OTHER ->
             Log(acc.pending,
                 IF i < Len(rows) THEN Seconds(ms, ParseUtcMs(CapturedAt(rows[i + 1])))
                                  ELSE None)

HistoryOf(rows) ==
  FoldLeftDomain(LAMBDA acc, i : HistoryRow(rows, acc, i),
                 [pending |-> EmptyTable, entries |-> <<>>], rows).entries

History(j) == HistoryOf(RowsOf(j))

(* showCurrentlyHere: only the last entry of the timeline can say so.      *)
CurrentlyHere(entries) ==
  /\ entries # <<>>
  /\ Last(entries).duration = None
  /\ Last(entries).phase \in {"arrived", "scan"}

-------------------------------------------------------------------------------

(* The places in the timeline of what the page counts as time spent at a   *)
(* station, in computeJobJourneyStats, aggregateByStation and              *)
(* resolveStepStatuses.                                                    *)
Tracked(entries) ==
  {i \in DOMAIN entries : /\ entries[i].duration > 0
                          /\ entries[i].phase \in {"departed", "scan"}}

TrackedAt(entries, s) == {i \in Tracked(entries) : entries[i].station = s}

Durations(entries) == [i \in DOMAIN entries |-> entries[i].duration]

(* Faulty variant: the chart keeps the last visit of a station only.       *)
LastVisit(entries, s) ==
  LET visits == TrackedAt(entries, s)
  IN  IF visits = {} THEN 0 ELSE entries[Max(visits)].duration

StationTotal(entries, s) == Total(TrackedAt(entries, s), Durations(entries))

ChartStations(entries) == {entries[i].station : i \in Tracked(entries)}

TotalTrackedSeconds(entries) == Total(Tracked(entries), Durations(entries))

(* The first of the longest.                                               *)
LongestDwell(entries) ==
  LET longest == {i \in Tracked(entries) :
                    \A k \in Tracked(entries) : entries[k].duration <= entries[i].duration}
  IN  IF longest = {} THEN [seconds |-> 0, station |-> None]
      ELSE [seconds |-> entries[Min(longest)].duration,
            station |-> entries[Min(longest)].station]

StationVisits(entries) == Cardinality(Tracked(entries))

(* The bar of an entry in the timeline, in percent of the longest.         *)
BarWidth(entries, h) ==
  LET longest == Max({1} \cup {g.duration : g \in ToSet(entries)})
  IN  IF h.duration > 0 THEN Max({4, (100 * h.duration) \div longest}) ELSE 0

(* resolveStepStatuses and StepNode: the time shown under a step, and      *)
(* whether it is shown as more than the step may take.                     *)
ActualSeconds(entries, r) ==
  IF r[2] \in ChartStations(entries) THEN StationTotal(entries, r[2]) ELSE None

ShowsLate(entries, r) ==
  /\ steps[r].maxDuration # None /\ ActualSeconds(entries, r) # None
  /\ ActualSeconds(entries, r) > steps[r].maxDuration

(* resolveStepStatuses for a step of the pipeline.                         *)
StepStatus(entries, stepPosition, r) ==
  CASE steps[r].position = stepPosition -> "current"
    [] /\ steps[r].position # stepPosition
       /\ \/ \E h \in ToSet(entries) : h.phase = "departed" /\ h.station = r[2]
          \/ steps[r].position < stepPosition -> "completed"
    [] OTHER -> "upcoming"

CountCompletedSteps(j) ==
  LET entries  == History(j)
      position == Board(j).stepPosition
  IN  Cardinality({r \in StepsOf(jobs[j].pipeline) :
                     StepStatus(entries, position, r) = "completed"})

-------------------------------------------------------------------------------

(* The arrivals in S that e, a departure, ends: those at its station after *)
(* which no other event but scans happened there.                          *)
OpenedBy(e, S) ==
  {a \in S : /\ events[a].phase = "arrived" /\ events[a].station = events[e].station
             /\ Earlier(a, e)
             /\ \A x \in S : ~ (/\ events[x].station = events[e].station
                                /\ events[x].phase \in {"arrived", "departed"}
                                /\ Earlier(a, x) /\ Earlier(x, e))}

EndOf(e, S) == {x \in S : Earlier(e, x) /\ \A y \in S : ~ (Earlier(e, y) /\ Earlier(y, x))}

SecondsFrom(F, T) == {Seconds(events[f].at, events[t].at) : f \in F, t \in T}

(* The history pairs each departure with the latest arrival at its station *)
(* that no other departure from there has used, and ends a scan at the     *)
(* next event whatever it is: the running map of buildJobHistoryEntries    *)
(* gives what this says of the whole log, however the events of stations   *)
(* interleave and in whatever order they were stored.                      *)
HistoryFollowsVisits ==
  \A j \in DOMAIN jobs : \A h \in ToSet(History(j)) :
    LET S == EventsOf(j)
    IN  CASE h.phase = "departed" ->
               IF h.duration = None THEN OpenedBy(h.id, S) = {}
               ELSE {h.duration} = SecondsFrom(OpenedBy(h.id, S), {h.id})
          [] h.phase = "scan" ->
               IF h.duration = None THEN EndOf(h.id, S) = {}
               ELSE {h.duration} = SecondsFrom({h.id}, EndOf(h.id, S))
          [] OTHER -> h.duration = None

(* The board has a tray at a station exactly when the timeline of its job  *)
(* ends in "Currently at station", and they name the same station: two     *)
(* queries that order the log each in its own way agree, also when events  *)
(* arrive late or carry equal times.                                       *)
BoardAgreesWithHistory ==
  \A j \in DOMAIN jobs :
    LET entries == History(j)
    IN  /\ AtStation(j) <=> CurrentlyHere(entries)
        /\ AtStation(j) => Board(j).station = Last(entries).station

(* The visits of a tray to one station, from arrival to departure, do not  *)
(* overlap: together they are not longer than the log of the tray, so no   *)
(* interval is counted twice, whatever the eyes sent.                      *)
VisitsDoNotOverlap ==
  \A j \in DOMAIN jobs, s \in Stations :
    LET rows    == RowsOf(j)
        entries == History(j)
        visits  == {i \in DOMAIN entries : /\ entries[i].station = s
                                           /\ entries[i].phase = "departed"
                                           /\ entries[i].duration # None}
    IN  visits # {}
          => Total(visits, Durations(entries))
               <= Seconds(events[Head(rows)].at, events[Last(rows)].at)

(* The job page adds the same durations up in four places: the segments of *)
(* the chart make the total of the cards, the longest dwell is one visit   *)
(* of one segment, no visit counts for two stations, the bars of the       *)
(* timeline fit, and the steps show no time that the chart does not have.  *)
JourneyAddsUp(j) ==
  LET entries == History(j)
      longest == LongestDwell(entries)
      shown   == StepsOf(jobs[j].pipeline)
  IN  /\ Total(ChartStations(entries),
               [s \in ChartStations(entries) |-> StationTotal(entries, s)])
           = TotalTrackedSeconds(entries)
      /\ longest.seconds > 0 => longest.seconds <= StationTotal(entries, longest.station)
      /\ longest.seconds = 0 <=> StationVisits(entries) = 0
      /\ \A i \in Tracked(entries) : BarWidth(entries, entries[i]) \in 4 .. 100
      /\ Total(shown, [r \in shown |-> Max({0, ActualSeconds(entries, r)})])
           <= TotalTrackedSeconds(entries)

(* A step is shown as current exactly when the tray is at its station, and *)
(* with the steps before it shown as completed the page never counts the   *)
(* current one or more steps than there are, nor does the bar of the board *)
(* run ahead of what the page counts.                                      *)
StepsShownOnce(j) ==
  LET board     == Board(j)
      entries   == History(j)
      completed == CountCompletedSteps(j)
      current   == IF board.stepPosition > 0 THEN 1 ELSE 0
  IN  /\ \A r \in StepsOf(jobs[j].pipeline) :
           StepStatus(entries, board.stepPosition, r) = "current"
             <=> AtStation(j) /\ board.station = r[2]
      /\ completed + current <= board.totalSteps
      /\ ProgressFilled(j) * board.totalSteps <= 100 * (completed + current)

(* The cards, the chart, the timeline and the pipeline of a job page, and  *)
(* its row of the board, show one journey, whatever the eyes sent, in any  *)
(* order, and however the step list changed since.                         *)
JobPageAgrees == \A j \in DOMAIN jobs : JourneyAddsUp(j) /\ StepsShownOnce(j)

(* "elapsedSeconds - seconds from first tracking event on the tray to now, *)
(* or null if no events" (docs/api/jobs-detail.md): it is known as soon as *)
(* the tray has an event.                                                  *)
ElapsedKnown ==
  \A j \in DOMAIN jobs, now \in Times :
    EventsOf(j) # {} => ElapsedSeconds(j, now) # None
===============================================================================
