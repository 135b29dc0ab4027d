------------------------------- MODULE Analytics -------------------------------
(***************************************************************************)
(* analytics.service.ts: what the dashboard shows of the log as a whole.   *)
(* It pairs arrivals and departures with a loop of its own, orders by the  *)
(* parsed times, and compares texts where it filters by time.              *)
(***************************************************************************)
EXTENDS JobReports

CONSTANTS
  Asked,       \* the times the dashboard is asked for
  Window,      \* ticks of ACTIVE_MINUTES
  Hour,        \* ticks of an hour
  HoursShown   \* hours of a day, and buckets of the activity

ASSUME PeriodsAssumption ==
  /\ Asked \subseteq Int
  /\ Window \in Nat \ {0}
  /\ Hour \in Nat \ {0}
  /\ HoursShown \in Nat \ {0}
  /\ Window <= HoursShown * Hour

Day == HoursShown * Hour

-------------------------------------------------------------------------------

(* The loop of collectStationDurationsFromEvents over the rows of a tray.  *)
(* A sample has the id of the row that gave it; pushSample drops a         *)
(* negative dwell.                                                         *)
PushSample(samples, e, s, seconds) ==
  IF seconds < 0 THEN samples
  ELSE samples \cup {[id |-> e, station |-> s, seconds |-> seconds]}

(* Faulty variant: only another scan ends a scan.                          *)
ScanEndAtScan(rows, i) ==
  IF i < Len(rows) /\ events[rows[i + 1]].phase = "scan" THEN i + 1 ELSE 0

ScanEnd(rows, i) == IF i < Len(rows) THEN i + 1 ELSE 0

SampleRow(rows, acc, i) ==
  LET e     == rows[i]
      s     == events[e].station
      At(x) == ParseUtcMs(CapturedAt(x))
      next  == ScanEnd(rows, i)
  IN  CASE events[e].phase = "scan" ->
             IF next = 0 THEN acc
             ELSE [acc EXCEPT !.samples = PushSample(@, e, s, Seconds(At(e), At(rows[next])))]
        [] events[e].phase = "arrived" ->
             [acc EXCEPT !.pending = [u \in DOMAIN acc.pending \cup {s} |->
                                        IF u = s THEN At(e) ELSE acc.pending[u]]]
        [] OTHER ->
             IF s \notin DOMAIN acc.pending THEN acc
             ELSE [pending |-> Restrict(acc.pending, DOMAIN acc.pending \ {s}),
                   samples |-> PushSample(acc.samples, e, s, Seconds(acc.pending[s], At(e)))]

SamplesOf(rows) ==
  FoldLeftDomain(LAMBDA acc, i : SampleRow(rows, acc, i),
                 [pending |-> EmptyTable, samples |-> {}], rows).samples

TraySamples(j) == SamplesOf(RowsOf(j))

(* accumByStation: the samples of a station, and its trays.                *)
SamplesAt(j, s) == {x \in TraySamples(j) : x.station = s}

StationSamples(s) == UNION {SamplesAt(j, s) : j \in JobIds}

StationTrays(s) == {j \in JobIds : SamplesAt(j, s) # {}}

-------------------------------------------------------------------------------

(* Faulty variant: the samples stay in the order of the log.               *)
Unsorted(samples) ==
  LET order == Ordered(samples, [x \in samples |-> {y \in samples : y.id < x.id}])
  IN  [k \in DOMAIN order |-> order[k].seconds]

Shorter(x, y) == x.seconds < y.seconds \/ (x.seconds = y.seconds /\ x.id < y.id)

Sorted(samples) ==
  LET order == Ordered(samples, [x \in samples |-> {y \in samples : Shorter(y, x)}])
  IN  [k \in DOMAIN order |-> order[k].seconds]

(* percentile, in hundredths of a second: linear between the two samples   *)
(* around the rank.                                                        *)
Percentile(sorted, p) ==
  LET rank == p * (Len(sorted) - 1)
      low  == rank \div 100
      frac == rank % 100
  IN  IF frac = 0 THEN 100 * sorted[low + 1]
      ELSE 100 * sorted[low + 1] + (sorted[low + 2] - sorted[low + 1]) * frac

(* Math.round of a / b.                                                    *)
Rounded(a, b) == (2 * a + b) \div (2 * b)

(* buildDurationRows and toStationDuration, for a station with samples.    *)
Duration(s) ==
  LET samples == StationSamples(s)
      sorted  == Sorted(samples)
  IN  [avg    |-> Rounded(Total(samples, [x \in samples |-> x.seconds]), Len(sorted)),
       max    |-> Last(sorted),
       min    |-> Head(sorted),
       median |-> Rounded(Percentile(sorted, 50), 100),
       p95    |-> Rounded(Percentile(sorted, 95), 100),
       jobs   |-> Cardinality(StationTrays(s))]

Measured == {s \in Stations : StationSamples(s) # {}}

(* countThresholdViolations: the least max_duration of any pipeline.       *)
Threshold(s) == {steps[r].maxDuration : r \in {k \in DOMAIN steps : k[2] = s}} \ {None}

(* Faulty variant: a dwell of exactly the threshold is no violation.       *)
OverThreshold(s) ==
  {x \in StationSamples(s) : Threshold(s) # {} /\ x.seconds > Min(Threshold(s))}

AtThreshold(s) ==
  {x \in StationSamples(s) : Threshold(s) # {} /\ x.seconds >= Min(Threshold(s))}

ThresholdViolations == Cardinality(UNION {AtThreshold(s) : s \in Stations})

(* getDashboardSummary: the mean of the stations' means, and the stations  *)
(* one of which the loop names as the bottleneck (the first by name).      *)
AvgDwellSeconds ==
  IF Measured = {} THEN 0
  ELSE Rounded(Total(Measured, [s \in Measured |-> Duration(s).avg]), Cardinality(Measured))

Bottlenecks ==
  {s \in Measured : /\ Duration(s).avg > 0
                    /\ \A u \in Measured : Duration(u).avg <= Duration(s).avg}

-------------------------------------------------------------------------------

(* stmtActiveJobs compares the text of captured_at, date T time, with that *)
(* of datetime('now', '-30 minutes'), date and time with a space between.  *)
(* T is greater than a space, so on the same date the times do not matter. *)
(* Faulty variant: the texts compared the other way round.                 *)
TextAfter(at, since) == at \div Day > since \div Day

TextAtLeast(at, since) == at \div Day >= since \div Day

ActiveJobs(now) == {events[e].tray : e \in {x \in DOMAIN events : TextAtLeast(events[x].at, now - Window)}}

(* getHourlyActivity: departures since now - 24 hours are counted by hour, *)
(* and the last 24 hours, the running one included, are picked.            *)
HourOf(t) == t \div Hour

VisitCount(s, hour, now) ==
  Cardinality({e \in DOMAIN events :
                 /\ events[e].station = s
                 /\ events[e].phase = "departed"
                 /\ events[e].at >= now - Day
                 /\ HourOf(events[e].at) = hour})

(* Faulty variant: the running hour is left out.                           *)
FullHours(now) == {HourOf(now - i * Hour) : i \in 1 .. HoursShown - 1}

HoursOf(now) == {HourOf(now - i * Hour) : i \in 0 .. HoursShown - 1}

Activity(s, now) ==
  Total(HoursOf(now), [h \in HoursOf(now) |-> VisitCount(s, h, now)])

-------------------------------------------------------------------------------

(* The dashboard and the histories of the jobs tell the same dwell times:  *)
(* the two loops, one per service, pair arrivals, departures and scans     *)
(* alike, so that no visit is in one view only, and the trays a station    *)
(* counts are those with a finished visit there.  A step that the job page *)
(* shows as late after one visit is a violation of the dashboard, which    *)
(* compares with the least limit of any pipeline.                          *)
DashboardAgreesWithHistory ==
  \A s \in Stations :
    LET Visits(j) == {h \in ToSet(HistoryOf(RowsOf(j))) : h.station = s /\ h.duration # None}
    IN  /\ StationTrays(s) = {j \in JobIds : Visits(j) # {}}
        /\ \A j \in JobIds :
             {<<x.id, x.seconds>> : x \in SamplesAt(j, s)}
               = {<<h.id, h.duration>> : h \in Visits(j)}
        /\ \A j \in DOMAIN jobs : \A r \in StepsOf(jobs[j].pipeline) :
             r[2] = s /\ Cardinality(Visits(j)) = 1 /\ ShowsLate(History(j), r)
               => ThresholdViolations > 0

(* The figures of a station are in order after interpolation and rounding: *)
(* min <= median <= p95 <= max, min <= avg <= max; the average of the      *)
(* cards lies between those of the stations, and there is a bottleneck     *)
(* unless every average rounds to zero.                                    *)
DurationsOrdered ==
  LET duration == [s \in Measured |-> Duration(s)]
      average  == AvgDwellSeconds
  IN  /\ \A s \in DOMAIN duration :
           LET d == duration[s]
           IN  /\ 0 <= d.min /\ d.min <= d.median /\ d.median <= d.p95 /\ d.p95 <= d.max
               /\ d.min <= d.avg /\ d.avg <= d.max
               /\ d.jobs \in 1 .. Cardinality(StationSamples(s))
      /\ DOMAIN duration # {} =>
           /\ \E s \in DOMAIN duration : average <= duration[s].avg
           /\ \E s \in DOMAIN duration : average >= duration[s].avg
           /\ average > 0 => Bottlenecks # {}

(* The new event e is a departure that ends the visit the board shows in   *)
(* danger, by the clock of the eye.                                        *)
EndsInDanger(e) ==
  /\ e.phase = "departed" /\ e.tray \in DOMAIN jobs
  /\ AtStation(e.tray)
  /\ events[LatestEvent(e.tray)] \in
       {[e EXCEPT !.phase = "arrived", !.at = t] : t \in {x \in Times : x <= e.at}}
  /\ ShowsDanger(e.tray, e.at)

(* A visit that the board shows in danger as it ends is a threshold        *)
(* violation of the dashboard, and one only: the two use the limit of      *)
(* the step and the least limit of the station, and the same comparison.   *)
DangerIsCounted ==
  [][lastEventId' # lastEventId /\ EndsInDanger(events'[lastEventId'])
       => ThresholdViolations' = ThresholdViolations + 1]_logVars

(* "Active jobs (30m)" never misses a tray with an event in the window,    *)
(* and counts none whose events are all older than the window and a day:   *)
(* the comparison of texts of two formats errs to one side, within a date. *)
ActiveCoversWindow ==
  \A now \in Asked :
    LET Seen(since) == {events[e].tray : e \in {x \in DOMAIN events : events[x].at >= since}}
    IN  /\ Seen(now - Window) \subseteq ActiveJobs(now)
        /\ ActiveJobs(now) \subseteq Seen(now - Window - Day + 1)

(* "Station Activity (24h)" counts every departure of the last 23 hours    *)
(* once, and none that is older than 24: the buckets are hours of the      *)
(* clock, the filter is not.                                               *)
ActivityCounts ==
  \A s \in Stations, now \in Asked :
    LET Left(since) ==
          Cardinality({e \in DOMAIN events :
                         /\ events[e].station = s /\ events[e].phase = "departed"
                         /\ events[e].at >= since})
        LeftBy(since, to) ==
          Cardinality({e \in DOMAIN events :
                         /\ events[e].station = s /\ events[e].phase = "departed"
                         /\ events[e].at \in since .. to})
    IN  /\ LeftBy(now - Day + Hour, now) <= Activity(s, now)
        /\ Activity(s, now) <= Left(now - Day)
===============================================================================
