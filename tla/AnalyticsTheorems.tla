-------------------------- MODULE AnalyticsTheorems ---------------------------
(***************************************************************************)
(* What the dashboard shows, for every log a backend can have and every    *)
(* time it is asked for: its figures are those of the histories of the     *)
(* jobs and of the events of the log, and they are in order.               *)
(***************************************************************************)
EXTENDS Analytics, JobReportTheorems

(* The loop over the rows of a tray runs from the first to the last: acc   *)
(* is what it has after each.                                              *)
LEMMA SampleLoop ==
  ASSUME NEW n \in Nat, NEW rows, DOMAIN rows = 1 .. n
  PROVE  \E acc : /\ acc[0] = [pending |-> EmptyTable, samples |-> {}]
                  /\ \A k \in 1 .. n : acc[k] = SampleRow(rows, acc[k - 1], k)
                  /\ SamplesOf(rows) = acc[n].samples
<1> DEFINE base == [pending |-> EmptyTable, samples |-> {}]
           ids == [i \in DOMAIN rows |-> i]
           Next(f, s) == IF s = {} THEN base
                         ELSE SampleRow(rows, f[s \ {Max(s)}], ids[Max(s)])
           Folds(f, k) == f = [s \in SUBSET (1 .. k) |-> Next(f, s)]
           iter == CHOOSE f : f = [s \in SUBSET (DOMAIN ids) |-> Next(f, s)]
<1>1. SamplesOf(rows) = iter[DOMAIN ids].samples
  BY Zenon DEF SamplesOf, FoldLeftDomain, FoldLeft, MapThenFoldSet
<1>2. DOMAIN ids = 1 .. n /\ \A k \in 1 .. n : ids[k] = k
  OBVIOUS
<1>3. \E f : Folds(f, n)
  <2> DEFINE Bad == {k \in 0 .. n : ~ \E f : Folds(f, k)}
  <2> SUFFICES ASSUME ~ \E f : Folds(f, n) PROVE FALSE
    OBVIOUS
  <2>1. Bad # {}
    <3>1. n \in 0 .. n
      OBVIOUS
    <3>2. n \in Bad
      BY <3>1
    <3>3. QED
      BY <3>2
  <2>2. PICK m \in Bad : \A k \in Bad : m <= k
    <3>1. Bad \in SUBSET Nat
      OBVIOUS
    <3> HIDE DEF Bad
    <3>2. QED
      BY <2>1, <3>1, MinNat
  <2>3. m \in 0 .. n /\ ~ \E f : Folds(f, m)
    OBVIOUS
  <2>4. m # 0
    <3> DEFINE f == [s \in SUBSET (1 .. 0) |-> base]
    <3>1. 1 .. 0 = {}
      OBVIOUS
    <3>2. \A s \in SUBSET (1 .. 0) : Next(f, s) = base
      BY <3>1
    <3>3. Folds(f, 0)
      BY <3>2
    <3>4. QED
      BY <2>3, <3>3
  <2>5. m - 1 \in 0 .. n /\ ~ m <= m - 1
    BY <2>3, <2>4
  <2>6. PICK f : Folds(f, m - 1)
    BY <2>2, <2>5
  <2> DEFINE g == [s \in SUBSET (1 .. m) |->
                     IF m \in s THEN SampleRow(rows, f[s \ {m}], ids[m]) ELSE f[s]]
  <2>7. ASSUME NEW s \in SUBSET (1 .. m)
        PROVE  g[s] = Next(g, s)
    <3>1. CASE m \in s
      <4>1. m \in Nat /\ s # {}
        BY <2>3, <3>1
      <4>2. Max(s) = m
        <5>1. Max(s) \in s /\ \A i \in s : i <= Max(s)
          BY <4>1, MaxOfPlaces
        <5>2. Max(s) \in 1 .. m /\ m <= Max(s)
          BY <3>1, <5>1
        <5>3. QED
          BY <4>1, <5>2
      <4>3. s \ {m} \in SUBSET (1 .. m) /\ m \notin s \ {m}
        OBVIOUS
      <4>4. g[s \ {m}] = f[s \ {m}]
        BY <4>3
      <4>5. g[s] = SampleRow(rows, f[s \ {m}], ids[m])
        BY <3>1
      <4> HIDE DEF g
      <4>6. QED
        BY <4>1, <4>2, <4>4, <4>5
    <3>2. CASE m \notin s
      <4>1. s \in SUBSET (1 .. m - 1)
        <5>1. \A i \in s : i \in 1 .. m /\ i # m
          BY <3>2
        <5>2. QED
          BY <2>3, <5>1
      <4>2. g[s] = f[s] /\ f[s] = Next(f, s)
        BY <2>6, <3>2, <4>1
      <4>3. CASE s = {}
        BY <4>2, <4>3
      <4>4. CASE s # {}
        <5>1. s \ {Max(s)} \in SUBSET (1 .. m) /\ m \notin s \ {Max(s)}
          BY <3>2
        <5>2. g[s \ {Max(s)}] = f[s \ {Max(s)}]
          BY <5>1
        <5> HIDE DEF g
        <5>3. QED
          BY <4>2, <4>4, <5>2
      <4>5. QED
        BY <4>3, <4>4
    <3>3. QED
      BY <3>1, <3>2
  <2>8. Folds(g, m)
    <3>1. g = [s \in SUBSET (1 .. m) |-> g[s]]
      OBVIOUS
    <3> HIDE DEF g
    <3> HIDE DEF Next
    <3>2. QED
      BY <2>7, <3>1
  <2>9. QED
    BY <2>3, <2>8
<1>4. Folds(iter, n)
  <2>1. \A f : (f = [s \in SUBSET (DOMAIN ids) |-> Next(f, s)]) <=> Folds(f, n)
    BY <1>2
  <2>2. \E f : f = [s \in SUBSET (DOMAIN ids) |-> Next(f, s)]
    BY <1>3, <2>1
  <2>3. iter = [s \in SUBSET (DOMAIN ids) |-> Next(iter, s)]
    <3> HIDE DEF Next
    <3>1. QED
      BY <2>2, Zenon
  <2> HIDE DEF iter
  <2>4. QED
    BY <2>1, <2>3
<1> HIDE DEF iter
<1> DEFINE acc == [k \in 0 .. n |-> iter[1 .. k]]
<1>5. acc[0] = base
  <2>1. 1 .. 0 = {} /\ {} \in SUBSET (1 .. n) /\ 0 \in 0 .. n
    OBVIOUS
  <2>2. iter[{}] = Next(iter, {})
    BY <1>4, <2>1
  <2>3. QED
    BY <2>1, <2>2
<1>6. ASSUME NEW k \in 1 .. n
      PROVE  acc[k] = SampleRow(rows, acc[k - 1], k)
  <2>1. /\ 1 .. k \in SUBSET (1 .. n) /\ k \in 1 .. k /\ k \in 0 .. n /\ k - 1 \in 0 .. n
        /\ k \in Nat /\ 1 .. k \in SUBSET (1 .. k)
    OBVIOUS
  <2>2. Max(1 .. k) = k
    <3>1. Max(1 .. k) \in 1 .. k /\ \A i \in 1 .. k : i <= Max(1 .. k)
      BY <2>1, MaxOfPlaces
    <3>2. QED
      BY <2>1, <3>1
  <2>3. (1 .. k) \ {k} = 1 .. (k - 1)
    BY <2>1
  <2>4. iter[1 .. k] = Next(iter, 1 .. k)
    BY <1>4, <2>1
  <2>5. iter[1 .. k] = SampleRow(rows, iter[1 .. (k - 1)], k)
    BY <1>2, <2>1, <2>2, <2>3, <2>4
  <2>6. QED
    BY <2>1, <2>5
<1>7. SamplesOf(rows) = acc[n].samples
  BY <1>1, <1>2
<1>8. QED
  BY <1>5, <1>6, <1>7

LEMMA DwellOnce ==
  ASSUME LogTyped, NEW rows, NEW k \in Nat \ {0}, NEW c, NEW d,
         events[rows[k]].phase \in {"scan", "arrived", "departed"},
         DwellIs(rows, k, c), DwellIs(rows, k, d)
  PROVE  c = d
<1> DEFINE e == events[rows[k]]
<1>1. CASE e.phase = "departed"
  <2>1. CASE \A m \in 1 .. k - 1 : ~ OpenArrival(rows, m, e.station, k - 1)
    BY <1>1, <2>1 DEF DwellIs
  <2>2. CASE \E m \in 1 .. k - 1 : OpenArrival(rows, m, e.station, k - 1)
    <3>1. PICK m \in 1 .. k - 1 : /\ OpenArrival(rows, m, e.station, k - 1)
                                  /\ c = Seconds(events[rows[m]].at, e.at)
      BY <1>1, <2>2 DEF DwellIs
    <3>2. PICK x \in 1 .. k - 1 : /\ OpenArrival(rows, x, e.station, k - 1)
                                  /\ d = Seconds(events[rows[x]].at, e.at)
      BY <1>1, <2>2 DEF DwellIs
    <3>3. k - 1 \in Nat
      OBVIOUS
    <3>4. m = x
      BY <3>1, <3>2, <3>3, OpenOnce
    <3>5. QED
      BY <3>1, <3>2, <3>4
  <2>3. QED
    BY <2>1, <2>2
<1>2. CASE e.phase = "scan"
  BY <1>2 DEF DwellIs
<1>3. CASE e.phase = "arrived"
  BY <1>3 DEF DwellIs
<1>4. QED
  BY <1>1, <1>2, <1>3

(* The samples of the first k rows, given the history h of the rows.       *)
SampleOf(rows, h, m) ==
  [id |-> rows[m], station |-> events[rows[m]].station, seconds |-> h[m].duration]

HasDwell(h, k) == {m \in 1 .. k : h[m].duration # None}

SamplesAre(rows, h, samples, k) == samples = {SampleOf(rows, h, m) : m \in HasDwell(h, k)}

LoopHas(rows, h, acc, k) ==
  /\ acc = [pending |-> acc.pending, samples |-> acc.samples]
  /\ PendingIs(rows, acc.pending, k)
  /\ SamplesAre(rows, h, acc.samples, k)

LEMMA SampleStep ==
  ASSUME LogTyped, NEW j, NEW rows, NEW h, rows = RowsOf(j), h = History(j),
         NEW k \in 1 .. Len(rows), NEW acc, LoopHas(rows, h, acc, k - 1)
  PROVE  LoopHas(rows, h, SampleRow(rows, acc, k), k)
<1> DEFINE e == events[rows[k]]
           s == e.station
           p == acc.pending
           d == LoopDwell(rows, p, k)
           x == [id |-> rows[k], station |-> s, seconds |-> d]
           more == IF d = None THEN acc.samples ELSE acc.samples \cup {x}
           new == SampleRow(rows, acc, k)
<1>0. /\ EventsOf(j) \in SUBSET DOMAIN events /\ InOrder(rows, EventsOf(j)) /\ Len(rows) \in Nat
      /\ \A m \in 1 .. Len(rows) : rows[m] \in DOMAIN events /\ DwellIs(rows, m, h[m].duration)
      /\ e.phase \in {"scan", "arrived", "departed"}
  <2>1. /\ EventsOf(j) \in SUBSET DOMAIN events /\ InOrder(rows, EventsOf(j)) /\ Len(rows) \in Nat
        /\ \A m \in 1 .. Len(rows) : rows[m] \in DOMAIN events /\ DwellIs(rows, m, h[m].duration)
    BY JobRows
  <2>2. QED
    BY <2>1, EventFacts
<1>1. /\ acc = [pending |-> p, samples |-> acc.samples]
      /\ PendingIs(rows, p, k - 1) /\ SamplesAre(rows, h, acc.samples, k - 1)
  BY DEF LoopHas
<1>2. d \in Nat \cup {None} /\ DwellIs(rows, k, d)
  BY <1>0, <1>1, DwellIsRight
<1>3. d = h[k].duration
  <2> HIDE DEF d
  <2>1. QED
    BY <1>0, <1>2, DwellOnce
<1>4. k \in Nat \ {0} /\ 1 .. k = (1 .. k - 1) \cup {k} /\ k \notin 1 .. k - 1
  BY <1>0
<1>5. d = None <=> ~ d \in Nat
  BY <1>2 DEF None
<1>6. SamplesAre(rows, h, more, k)
  <2>1. HasDwell(h, k) = IF d = None THEN HasDwell(h, k - 1) ELSE HasDwell(h, k - 1) \cup {k}
    BY <1>3, <1>4 DEF HasDwell
  <2>2. x = SampleOf(rows, h, k)
    BY <1>3 DEF SampleOf
  <2> HIDE DEF d, x
  <2>3. QED
    BY <1>1, <2>1, <2>2 DEF SamplesAre
<1>7. CASE e.phase = "scan"
  <2>1. ParseUtcMs(CapturedAt(rows[k])) = e.at
        /\ ParseUtcMs(CapturedAt(rows[k + 1])) = events[rows[k + 1]].at
    BY ParsedTime
  <2>2. PendingIs(rows, p, k)
    <3> HIDE DEF p
    <3>1. QED
      BY <1>0, <1>1, <1>4, <1>7, PendingStep
  <2>3. CASE k < Len(rows)
    <3>1. d = Seconds(e.at, events[rows[k + 1]].at)
      BY <1>7, <2>3 DEF LoopDwell
    <3>2. d \in Nat
      <4>1. d # None
        <5>1. k + 1 \in 1 .. Len(rows) /\ k < k + 1
          BY <1>0, <2>3
        <5>2. e.at <= events[rows[k + 1]].at
          BY <1>0, <5>1, RowsAreSequence
        <5>3. e.at \in Int /\ events[rows[k + 1]].at \in Int
          BY <1>0, <5>1, EventFacts
        <5>4. Seconds(e.at, events[rows[k + 1]].at) \in Nat
          BY <5>2, <5>3, SecondsForward
        <5>5. QED
          BY <1>5, <3>1, <5>4
      <4>2. QED
        BY <1>5, <4>1
    <3>3. ScanEnd(rows, k) = k + 1 /\ k + 1 # 0
      BY <1>4, <2>3 DEF ScanEnd
    <3>4. new = [acc EXCEPT !.samples = PushSample(acc.samples, rows[k], s, d)]
      BY <1>7, <2>1, <3>1, <3>3 DEF SampleRow
    <3>5. PushSample(acc.samples, rows[k], s, d) = acc.samples \cup {x}
      <4> HIDE DEF d
      <4>1. QED
        BY <3>2 DEF PushSample
    <3> HIDE DEF new, d, x, p
    <3>6. more = acc.samples \cup {x}
      BY <1>5, <3>2
    <3>7. new = [acc EXCEPT !.samples = more]
      BY <3>4, <3>5, <3>6
    <3> HIDE DEF more
    <3>8. new = [pending |-> p, samples |-> more]
      BY <1>1, <3>7
    <3>9. QED
      BY <1>6, <2>2, <3>8 DEF LoopHas, new
  <2>4. CASE ~ k < Len(rows)
    <3>1. d = None
      BY <1>7, <2>4 DEF LoopDwell
    <3>2. ScanEnd(rows, k) = 0
      BY <2>4 DEF ScanEnd
    <3>3. new = acc
      BY <1>7, <3>2 DEF SampleRow
    <3> HIDE DEF new, d, x
    <3>4. more = acc.samples
      BY <3>1
    <3>5. QED
      BY <1>1, <1>6, <2>2, <3>3, <3>4 DEF LoopHas, new
  <2>5. QED
    BY <2>3, <2>4
<1>8. CASE e.phase = "arrived"
  <2> DEFINE q == [u \in DOMAIN p \cup {s} |-> IF u = s THEN e.at ELSE p[u]]
  <2>1. new = [acc EXCEPT !.pending = q]
    BY <1>8, ParsedTime DEF SampleRow
  <2>2. PendingIs(rows, q, k)
    <3>1. q = [u \in DOMAIN p \cup {s} |-> IF u = s THEN e.at ELSE p[u]]
      OBVIOUS
    <3> HIDE DEF p, q
    <3>2. (CASE e.phase = "departed" -> q = Restrict(p, DOMAIN p \ {s})
             [] e.phase = "arrived" -> q = [u \in DOMAIN p \cup {s} |->
                                              IF u = s THEN e.at ELSE p[u]]
             [] OTHER -> q = p)
      BY <1>8, <3>1
    <3> HIDE DEF e
    <3>3. k \in Nat \ {0} /\ PendingIs(rows, p, k - 1) /\ e.phase \in {"scan", "arrived", "departed"}
      BY <1>0, <1>1, <1>4
    <3>4. QED
      BY <3>2, <3>3, PendingStep DEF e
  <2>3. more = acc.samples
    BY <1>8 DEF LoopDwell
  <2> HIDE DEF new, q, more, d, p
  <2>4. new.pending = q /\ new.samples = acc.samples /\ new = [pending |-> q, samples |-> acc.samples]
    BY <1>1, <2>1
  <2>5. QED
    BY <1>6, <2>2, <2>3, <2>4 DEF LoopHas, new
<1>9. CASE e.phase = "departed"
  <2> DEFINE q == Restrict(p, DOMAIN p \ {s})
  <2>1. PendingIs(rows, q, k)
    <3>1. q = Restrict(p, DOMAIN p \ {s})
      OBVIOUS
    <3> HIDE DEF p, q
    <3>2. QED
      BY <1>0, <1>1, <1>4, <1>9, <3>1, PendingStep
  <2>2. CASE s \notin DOMAIN p
    <3>1. new = acc
      BY <1>9, <2>2 DEF SampleRow
    <3>2. more = acc.samples
      BY <1>9, <2>2 DEF LoopDwell
    <3>3. DOMAIN q = DOMAIN p /\ \A u \in DOMAIN p : q[u] = p[u]
      BY <2>2 DEF Restrict
    <3> HIDE DEF new, more, d, q, p
    <3>4. PendingIs(rows, p, k)
      BY <2>1, <3>3 DEF PendingIs
    <3>5. QED
      BY <1>1, <1>6, <3>1, <3>2, <3>4 DEF LoopHas, new
  <2>3. CASE s \in DOMAIN p
    <3>1. d = Seconds(p[s], e.at)
      BY <1>9, <2>3 DEF LoopDwell
    <3>2. new = [pending |-> q, samples |-> PushSample(acc.samples, rows[k], s, d)]
      BY <1>9, <2>3, <3>1, ParsedTime DEF SampleRow
    <3>3. d \in Nat
      <4>1. PICK m \in 1 .. k - 1 : p[s] = events[rows[m]].at
        BY <1>1, <2>3 DEF PendingIs
      <4>2. m \in 1 .. Len(rows) /\ m < k
        BY <1>0, <1>4
      <4>3. events[rows[m]].at <= e.at
        BY <1>0, <4>2, RowsAreSequence
      <4>4. events[rows[m]].at \in Int /\ e.at \in Int
        BY <1>0, <4>2, EventFacts
      <4> HIDE DEF d
      <4>5. QED
        BY <3>1, <4>1, <4>3, <4>4, SecondsForward
    <3> HIDE DEF d
    <3>4. PushSample(acc.samples, rows[k], s, d) = acc.samples \cup {x}
      BY <3>3 DEF PushSample
    <3>5. more = acc.samples \cup {x}
      BY <1>5, <3>3
    <3> HIDE DEF new, more, q, x
    <3>6. QED
      BY <1>6, <2>1, <3>2, <3>4, <3>5 DEF LoopHas, new
  <2>4. QED
    BY <2>2, <2>3
<1>10. QED
  BY <1>0, <1>7, <1>8, <1>9

(* The samples of a tray are the entries of its history that have a        *)
(* duration.                                                               *)
LEMMA SampleFacts ==
  ASSUME LogTyped, NEW j
  PROVE  TraySamples(j) = {SampleOf(RowsOf(j), History(j), m) :
                             m \in HasDwell(History(j), Len(RowsOf(j)))}
<1> DEFINE rows == RowsOf(j)
           h == History(j)
           n == Len(rows)
<1>1. n \in Nat /\ DOMAIN rows = 1 .. n
  BY JobRows, RowsAreSequence
<1>2. PICK acc : /\ acc[0] = [pending |-> EmptyTable, samples |-> {}]
                 /\ \A k \in 1 .. n : acc[k] = SampleRow(rows, acc[k - 1], k)
                 /\ SamplesOf(rows) = acc[n].samples
  BY <1>1, SampleLoop
<1> HIDE DEF rows, h, n
<1> DEFINE Bad == {k \in 0 .. n : ~ LoopHas(rows, h, acc[k], k)}
<1>3. LoopHas(rows, h, acc[0], 0)
  <2>1. acc[0].pending = EmptyTable /\ acc[0].samples = {}
    BY <1>2
  <2>2. PendingIs(rows, EmptyTable, 0)
    BY DEF PendingIs, EmptyTable, OpenArrival
  <2>3. SamplesAre(rows, h, {}, 0)
    BY DEF SamplesAre, HasDwell
  <2>4. QED
    BY <1>2, <2>1, <2>2, <2>3 DEF LoopHas
<1>4. Bad = {}
  <2> SUFFICES ASSUME Bad # {} PROVE FALSE
    OBVIOUS
  <2>1. PICK m \in Bad : \A k \in Bad : m <= k
    <3>1. Bad \in SUBSET Nat
      BY <1>1
    <3> HIDE DEF Bad
    <3>2. QED
      BY <3>1, MinNat
  <2>2. m \in 0 .. n /\ ~ LoopHas(rows, h, acc[m], m) /\ m # 0
    BY <1>3
  <2>3. m \in 1 .. n /\ m - 1 \in 0 .. n /\ ~ m <= m - 1
    BY <1>1, <2>2
  <2>4. LoopHas(rows, h, acc[m - 1], m - 1)
    BY <2>1, <2>3
  <2>5. LoopHas(rows, h, SampleRow(rows, acc[m - 1], m), m)
    BY <2>3, <2>4, SampleStep DEF n, rows, h
  <2>6. QED
    BY <1>2, <2>2, <2>3, <2>5
<1>5. LoopHas(rows, h, acc[n], n)
  BY <1>1, <1>4
<1>6. QED
  BY <1>2, <1>5 DEF LoopHas, SamplesAre, TraySamples, n, rows, h

LEMMA SampleMembers ==
  ASSUME LogTyped, NEW j
  PROVE  /\ \A x \in TraySamples(j) :
              \E m \in HasDwell(History(j), Len(RowsOf(j))) : x = SampleOf(RowsOf(j), History(j), m)
         /\ \A m \in HasDwell(History(j), Len(RowsOf(j))) :
              /\ SampleOf(RowsOf(j), History(j), m) \in TraySamples(j)
              /\ LET x == SampleOf(RowsOf(j), History(j), m)
                 IN  /\ x.id = RowsOf(j)[m] /\ x.id \in DOMAIN events /\ events[x.id].tray = j
                     /\ x.seconds = History(j)[m].duration /\ x.seconds \in Nat
                     /\ x.station = History(j)[m].station /\ x.station \in Stations
<1> DEFINE rows == RowsOf(j)
           h == History(j)
           n == Len(rows)
<1>1. TraySamples(j) = {SampleOf(rows, h, m) : m \in HasDwell(h, n)}
  BY SampleFacts
<1>2. \A m \in 1 .. n : /\ rows[m] \in EventsOf(j) /\ rows[m] \in DOMAIN events
                        /\ h[m].duration \in Nat \cup {None}
                        /\ h[m].station = events[rows[m]].station /\ h[m].station \in Stations
  BY JobRows
<1> HIDE DEF rows, h, n
<1>3. ASSUME NEW m \in HasDwell(h, n)
      PROVE  LET x == SampleOf(rows, h, m)
             IN  /\ x.id = rows[m] /\ x.id \in DOMAIN events /\ events[x.id].tray = j
                 /\ x.seconds = h[m].duration /\ x.seconds \in Nat
                 /\ x.station = h[m].station /\ x.station \in Stations
  <2>1. m \in 1 .. n /\ h[m].duration # None
    BY DEF HasDwell
  <2>2. rows[m] \in DOMAIN events /\ events[rows[m]].tray = j
    BY <1>2, <2>1 DEF EventsOf
  <2>3. QED
    BY <1>2, <2>1, <2>2 DEF SampleOf
<1>4. QED
  BY <1>1, <1>3 DEF rows, h, n

(* All samples, of all trays: each has an id of its own.                   *)
AllSamples == UNION {TraySamples(j) : j \in JobIds}

LEMMA SampleIds ==
  ASSUME LogTyped
  PROVE  /\ IsFiniteSet(AllSamples)
         /\ \A x \in AllSamples : /\ x.id \in DOMAIN events /\ x.id \in Nat
                                  /\ x.seconds \in Nat /\ x.station \in Stations
                                  /\ x \in TraySamples(events[x.id].tray)
                                  /\ events[x.id].tray \in JobIds
         /\ \A x, y \in AllSamples : x.id = y.id => x = y
<1>1. ASSUME NEW j, NEW x \in TraySamples(j)
      PROVE  /\ x.id \in DOMAIN events /\ events[x.id].tray = j
             /\ x.seconds \in Nat /\ x.station \in Stations
  <2>1. PICK m \in HasDwell(History(j), Len(RowsOf(j))) : x = SampleOf(RowsOf(j), History(j), m)
    BY SampleMembers
  <2>2. QED
    BY <2>1, SampleMembers
<1>2. ASSUME NEW j, NEW x \in TraySamples(j), NEW y \in TraySamples(j), x.id = y.id
      PROVE  x = y
  <2> DEFINE n == Len(RowsOf(j))
             h == History(j)
  <2>1. PICK m \in HasDwell(h, n) : x = SampleOf(RowsOf(j), h, m)
    BY SampleMembers
  <2>2. PICK k \in HasDwell(h, n) : y = SampleOf(RowsOf(j), h, k)
    BY SampleMembers
  <2>3. x.id = RowsOf(j)[m] /\ y.id = RowsOf(j)[k]
    BY <2>1, <2>2, SampleMembers
  <2>4. m \in 1 .. n /\ k \in 1 .. n
    BY DEF HasDwell
  <2>5. EventsOf(j) \in SUBSET DOMAIN events /\ InOrder(RowsOf(j), EventsOf(j))
    BY JobRows
  <2>6. m = k
    BY <1>2, <2>3, <2>4, <2>5, RowsAreSequence
  <2>7. QED
    BY <2>1, <2>2, <2>6
<1>3. ASSUME NEW x \in AllSamples
      PROVE  /\ x.id \in DOMAIN events /\ x.id \in Nat
             /\ x.seconds \in Nat /\ x.station \in Stations
             /\ x \in TraySamples(events[x.id].tray)
             /\ events[x.id].tray \in JobIds
  <2>1. PICK j \in JobIds : x \in TraySamples(j)
    BY DEF AllSamples
  <2>2. QED
    BY <1>1, <2>1, EventFacts
<1>4. ASSUME NEW x \in AllSamples, NEW y \in AllSamples, x.id = y.id
      PROVE  x = y
  BY <1>2, <1>3, <1>4
<1>5. IsFiniteSet(AllSamples)
  <2> DEFINE f == [x \in AllSamples |-> x.id]
  <2>1. f \in [AllSamples -> DOMAIN events]
    BY <1>3
  <2>2. f \in Injection(AllSamples, DOMAIN events)
    BY <1>4, <2>1 DEF Injection, IsInjective
  <2>3. IsFiniteSet(DOMAIN events)
    BY EventFacts
  <2> HIDE DEF f
  <2>4. QED
    BY <2>2, <2>3, FS_Injection
<1>6. QED
  BY <1>3, <1>4, <1>5

LEMMA StationSamplesFinite ==
  ASSUME LogTyped, NEW s
  PROVE  /\ StationSamples(s) = {x \in AllSamples : x.station = s}
         /\ IsFiniteSet(StationSamples(s))
<1>1. StationSamples(s) = {x \in AllSamples : x.station = s}
  BY DEF StationSamples, SamplesAt, AllSamples
<1>2. QED
  BY <1>1, SampleIds, FS_Subset

-------------------------------------------------------------------------------

(* The visits of a job to a station, in its history.                       *)
VisitsTo(j, s) == {h \in ToSet(HistoryOf(RowsOf(j))) : h.station = s /\ h.duration # None}

LEMMA VisitPlaces ==
  ASSUME LogTyped, NEW j, NEW s
  PROVE  /\ \A v \in VisitsTo(j, s) :
              \E m \in HasDwell(History(j), Len(RowsOf(j))) : v = History(j)[m] /\ v.station = s
         /\ \A m \in HasDwell(History(j), Len(RowsOf(j))) :
              History(j)[m].station = s => History(j)[m] \in VisitsTo(j, s)
<1> DEFINE h == History(j)
           n == Len(RowsOf(j))
<1>1. DOMAIN h = 1 .. n /\ HistoryOf(RowsOf(j)) = h
  BY JobRows DEF History
<1> HIDE DEF h, n
<1>2. VisitsTo(j, s) = {v \in ToSet(h) : v.station = s /\ v.duration # None}
  BY <1>1 DEF VisitsTo
<1>3. ToSet(h) = {h[m] : m \in 1 .. n}
  BY <1>1 DEF ToSet
<1>4. \A v \in VisitsTo(j, s) : \E m \in HasDwell(h, n) : v = h[m] /\ v.station = s
  BY <1>2, <1>3 DEF HasDwell
<1>5. \A m \in HasDwell(h, n) : h[m].station = s => h[m] \in VisitsTo(j, s)
  BY <1>2, <1>3 DEF HasDwell
<1>6. QED
  BY <1>4, <1>5 DEF h, n

LEMMA VisitsAreSamples ==
  ASSUME LogTyped, NEW j, NEW s
  PROVE  {<<x.id, x.seconds>> : x \in SamplesAt(j, s)}
           = {<<v.id, v.duration>> : v \in VisitsTo(j, s)}
<1> DEFINE h == History(j)
           rows == RowsOf(j)
           n == Len(rows)
<1>1. \A m \in 1 .. n : h[m].id = rows[m]
  BY JobRows
<1>2. ASSUME NEW x \in SamplesAt(j, s)
      PROVE  \E v \in VisitsTo(j, s) : <<x.id, x.seconds>> = <<v.id, v.duration>>
  <2>1. x \in TraySamples(j) /\ x.station = s
    BY DEF SamplesAt
  <2>2. PICK m \in HasDwell(h, n) : x = SampleOf(rows, h, m)
    BY <2>1, SampleMembers
  <2>3. x.id = rows[m] /\ x.seconds = h[m].duration /\ x.station = h[m].station
    BY <2>2, SampleMembers
  <2>4. h[m] \in VisitsTo(j, s)
    BY <2>1, <2>3, VisitPlaces
  <2>5. h[m].id = rows[m]
    BY <1>1 DEF HasDwell
  <2>6. QED
    BY <2>3, <2>4, <2>5
<1>3. ASSUME NEW v \in VisitsTo(j, s)
      PROVE  \E x \in SamplesAt(j, s) : <<x.id, x.seconds>> = <<v.id, v.duration>>
  <2>1. PICK m \in HasDwell(h, n) : v = h[m] /\ v.station = s
    BY VisitPlaces
  <2> DEFINE x == SampleOf(rows, h, m)
  <2>2. /\ x \in TraySamples(j) /\ x.id = rows[m] /\ x.seconds = h[m].duration
        /\ x.station = h[m].station
    BY SampleMembers
  <2>3. h[m].id = rows[m]
    BY <1>1 DEF HasDwell
  <2> HIDE DEF x
  <2>4. x \in SamplesAt(j, s)
    BY <2>1, <2>2 DEF SamplesAt
  <2>5. QED
    BY <2>1, <2>2, <2>3, <2>4
<1>4. QED
  BY <1>2, <1>3

(* A job page that shows a step as late after one visit: the visit is over *)
(* the threshold of its station.                                           *)
LEMMA LateIsCounted ==
  ASSUME LogTyped, NEW j \in DOMAIN jobs, NEW r \in StepsOf(jobs[j].pipeline),
         Cardinality(VisitsTo(j, r[2])) = 1, IsFiniteSet(VisitsTo(j, r[2])),
         ShowsLate(History(j), r)
  PROVE  ThresholdViolations > 0
<1> DEFINE s == r[2]
           h == History(j)
           rows == RowsOf(j)
           n == Len(rows)
           d == Durations(h)
           limit == steps[r].maxDuration
<1>1. /\ DOMAIN h = 1 .. n
      /\ EventsOf(j) \in SUBSET DOMAIN events /\ InOrder(rows, EventsOf(j))
      /\ \A m \in 1 .. n : /\ h[m].duration \in Nat \cup {None} /\ h[m].id = rows[m]
                           /\ h[m].station \in Stations
  BY JobRows
<1>2. \A k, m \in 1 .. n : rows[k] = rows[m] => k = m
  BY <1>1, RowsAreSequence
<1>3. r \in DOMAIN steps /\ limit \in Nat \cup {None} /\ s \in Stations
  <2>1. r \in DOMAIN steps
    BY DEF StepsOf
  <2>2. steps[r] \in Step /\ r \in Pipelines \X Stations
    BY <2>1 DEF LogTyped
  <2>3. QED
    BY <2>1, <2>2 DEF Step
<1>4. /\ limit # None /\ s \in ChartStations(h) /\ StationTotal(h, s) > limit
  BY DEF ShowsLate, ActualSeconds
<1>5. PICK v : VisitsTo(j, s) = {v}
  BY FS_Singleton
<1> HIDE DEF h, rows, n
<1>6. ASSUME NEW i \in TrackedAt(h, s)
      PROVE  i \in 1 .. n /\ h[i].duration \in Nat /\ i \in HasDwell(h, n) /\ h[i] = v
  <2>1. i \in 1 .. n /\ h[i].duration > 0 /\ h[i].station = s
    BY <1>1 DEF TrackedAt, Tracked
  <2>2. h[i].duration # None /\ h[i].duration \in Nat
    BY <1>1, <2>1 DEF None
  <2>3. i \in HasDwell(h, n)
    BY <2>1, <2>2 DEF HasDwell
  <2>4. h[i] \in VisitsTo(j, s)
    BY <2>1, <2>3, VisitPlaces DEF h, rows, n
  <2>5. QED
    BY <1>5, <2>1, <2>2, <2>3, <2>4
<1>7. PICK i \in TrackedAt(h, s) : TRUE
  BY <1>4 DEF ChartStations, TrackedAt
<1>8. TrackedAt(h, s) = {i}
  <2>1. ASSUME NEW k \in TrackedAt(h, s) PROVE k = i
    <3>1. h[k].id = h[i].id /\ k \in 1 .. n /\ i \in 1 .. n
      BY <1>6
    <3>2. QED
      BY <1>1, <1>2, <3>1
  <2>2. QED
    BY <2>1
<1>9. StationTotal(h, s) = h[i].duration
  <2>1. d[i] = h[i].duration /\ d[i] \in Nat
    BY <1>1, <1>6 DEF Durations
  <2> HIDE DEF d
  <2>2. Total({i}, d) = d[i]
    BY <2>1, TotalSingleton
  <2>3. QED
    BY <1>8, <2>1, <2>2 DEF StationTotal, d
<1> DEFINE x == SampleOf(rows, h, i)
<1>10. x \in TraySamples(j) /\ x.seconds = h[i].duration /\ x.station = s /\ x.seconds \in Nat
  <2>1. i \in HasDwell(h, n) /\ h[i].station = s
    BY <1>6 DEF TrackedAt
  <2>2. QED
    BY <2>1, SampleMembers DEF h, rows, n
<1> HIDE DEF x
<1>11. x \in StationSamples(s)
  <2>1. j \in JobIds
    BY DEF LogTyped
  <2>2. QED
    BY <1>10, <2>1 DEF StationSamples, SamplesAt
<1>12. limit \in Threshold(s) /\ Threshold(s) \in SUBSET Nat
  <2>1. limit \in Threshold(s)
    BY <1>3, <1>4 DEF Threshold
  <2>2. \A k \in DOMAIN steps : steps[k].maxDuration \in Nat \cup {None}
    <3> SUFFICES ASSUME NEW k \in DOMAIN steps PROVE steps[k].maxDuration \in Nat \cup {None}
      OBVIOUS
    <3>1. steps[k] \in Step
      BY DEF LogTyped
    <3>2. QED
      BY <3>1 DEF Step
  <2>3. QED
    BY <2>1, <2>2 DEF Threshold
<1> HIDE DEF limit
<1>13. Min(Threshold(s)) \in Nat /\ Min(Threshold(s)) <= limit
  BY <1>12, MinNat
<1>14. x \in AtThreshold(s)
  <2>1. x.seconds > limit /\ limit \in Nat
    BY <1>3, <1>4, <1>9, <1>10 DEF limit
  <2>2. x.seconds >= Min(Threshold(s))
    BY <1>10, <1>13, <2>1
  <2>3. QED
    BY <1>11, <1>12, <2>2 DEF AtThreshold
<1> DEFINE all == UNION {AtThreshold(u) : u \in Stations}
<1>15. IsFiniteSet(all) /\ x \in all
  <2>1. all \subseteq AllSamples
    <3>1. \A u : AtThreshold(u) \subseteq StationSamples(u)
      BY DEF AtThreshold
    <3>2. \A u : StationSamples(u) \subseteq AllSamples
      BY StationSamplesFinite
    <3>3. QED
      BY <3>1, <3>2
  <2>2. IsFiniteSet(AllSamples)
    BY SampleIds
  <2>3. x \in all
    BY <1>3, <1>14
  <2> HIDE DEF all
  <2>4. QED
    BY <2>1, <2>2, <2>3, FS_Subset
<1>16. Cardinality(all) \in Nat /\ Cardinality(all) # 0
  <2> HIDE DEF all
  <2>1. QED
    BY <1>15, FS_CardinalityType, FS_EmptySet
<1>17. QED
  BY <1>16 DEF ThresholdViolations

LEMMA DashboardIsRight == LogTyped => DashboardAgreesWithHistory
<1> SUFFICES ASSUME LogTyped, NEW s \in Stations
             PROVE  /\ StationTrays(s) = {j \in JobIds : VisitsTo(j, s) # {}}
                    /\ \A j \in JobIds : {<<x.id, x.seconds>> : x \in SamplesAt(j, s)}
                                           = {<<h.id, h.duration>> : h \in VisitsTo(j, s)}
                    /\ \A j \in DOMAIN jobs : \A r \in StepsOf(jobs[j].pipeline) :
                         r[2] = s /\ Cardinality(VisitsTo(j, s)) = 1 /\ ShowsLate(History(j), r)
                           => ThresholdViolations > 0
  BY Zenon DEF DashboardAgreesWithHistory, VisitsTo
<1>1. \A j \in JobIds : {<<x.id, x.seconds>> : x \in SamplesAt(j, s)}
                          = {<<h.id, h.duration>> : h \in VisitsTo(j, s)}
  BY VisitsAreSamples
<1>2. \A j \in JobIds : SamplesAt(j, s) # {} <=> VisitsTo(j, s) # {}
  <2> SUFFICES ASSUME NEW j \in JobIds PROVE SamplesAt(j, s) # {} <=> VisitsTo(j, s) # {}
    OBVIOUS
  <2>1. {<<x.id, x.seconds>> : x \in SamplesAt(j, s)} = {<<h.id, h.duration>> : h \in VisitsTo(j, s)}
    BY <1>1
  <2>2. QED
    BY <2>1
<1>3. StationTrays(s) = {j \in JobIds : VisitsTo(j, s) # {}}
  BY <1>2 DEF StationTrays
<1>4. ASSUME NEW j PROVE IsFiniteSet(VisitsTo(j, s))
  <2> DEFINE h == History(j)
             n == Len(RowsOf(j))
             P == {m \in HasDwell(h, n) : h[m].station = s}
             f == [m \in P |-> h[m]]
  <2>1. n \in Nat
    BY JobRows
  <2>2. IsFiniteSet(1 .. n)
    BY <2>1, FS_Interval
  <2>3. P \subseteq 1 .. n
    BY DEF HasDwell
  <2>4. IsFiniteSet(P)
    <3> HIDE DEF P
    <3>1. QED
      BY <2>2, <2>3, FS_Subset
  <2>5. \A v \in VisitsTo(j, s) : \E m \in P : f[m] = v
    BY VisitPlaces
  <2>6. \A m \in P : f[m] \in VisitsTo(j, s)
    BY VisitPlaces
  <2>7. f \in Surjection(P, VisitsTo(j, s))
    <3> HIDE DEF P
    <3>1. f \in [P -> VisitsTo(j, s)]
      BY <2>6
    <3> HIDE DEF f
    <3>2. QED
      BY <2>5, <3>1 DEF Surjection
  <2> HIDE DEF P, f
  <2>8. QED
    BY <2>4, <2>7, FS_Surjection
<1>5. QED
  BY <1>1, <1>3, <1>4, LateIsCounted

(* The dashboard and the histories of the jobs tell the same dwell times.  *)
THEOREM DashboardShowsHistories == LogSpec => []DashboardAgreesWithHistory
<1>1. QED
  BY LogIsTyped, DashboardIsRight, PTL

-------------------------------------------------------------------------------

LEMMA DayIsPeriod == Day \in Nat \ {0}
<1>1. HoursShown \in Nat \ {0} /\ Hour \in Nat \ {0}
  BY PeriodsAssumption
<1>2. HoursShown * Hour \in Nat /\ HoursShown * Hour # 0
  BY <1>1
<1>3. QED
  BY <1>2 DEF Day

LEMMA ActiveIsRight == LogTyped => ActiveCoversWindow
<1> SUFFICES ASSUME LogTyped, NEW now \in Asked
             PROVE  LET Seen(since) == {events[e].tray : e \in {x \in DOMAIN events : events[x].at >= since}}
                    IN  /\ Seen(now - Window) \subseteq ActiveJobs(now)
                        /\ ActiveJobs(now) \subseteq Seen(now - Window - Day + 1)
  BY DEF ActiveCoversWindow
<1> DEFINE since == now - Window
<1>1. since \in Int /\ Day \in Nat \ {0}
  BY PeriodsAssumption, DayIsPeriod
<1> HIDE DEF since
<1>2. ASSUME NEW e \in DOMAIN events, events[e].at >= since
      PROVE  TextAtLeast(events[e].at, since)
  <2>1. events[e].at \in Int /\ since <= events[e].at
    BY <1>1, <1>2, EventFacts
  <2>2. since \div Day <= events[e].at \div Day
    BY <1>1, <2>1, DivMonotone
  <2>3. since \div Day \in Int /\ events[e].at \div Day \in Int
    BY <1>1, <2>1, DivIs
  <2>4. QED
    BY <2>2, <2>3 DEF TextAtLeast
<1>3. ASSUME NEW e \in DOMAIN events, TextAtLeast(events[e].at, since)
      PROVE  events[e].at >= since - Day + 1
  <2>1. events[e].at \in Int
    BY EventFacts
  <2>2. QED
    BY <1>1, <1>3, <2>1, DivBack DEF TextAtLeast
<1>4. QED
  BY <1>2, <1>3 DEF ActiveJobs, since

-------------------------------------------------------------------------------

(* The hours shown are as many in a row, up to the running one.            *)
LEMMA HoursInRow ==
  ASSUME NEW now \in Int
  PROVE  /\ HourOf(now) \in Int
         /\ HoursOf(now) = HourOf(now) - (HoursShown - 1) .. HourOf(now)
<1> DEFINE d == Hour
           q == now \div d
           n == HoursShown - 1
<1>0. d \in Nat \ {0} /\ n \in Nat
  BY PeriodsAssumption
<1>1. q \in Int /\ d * q \in Int /\ d * q <= now /\ now < d * q + d
  BY <1>0, DivIs
<1> HIDE DEF d, q, n
<1>2. ASSUME NEW i \in 0 .. n
      PROVE  (now - i * d) \div d = q - i
  <2>1. i * d \in Int /\ q - i \in Int /\ d * (q - i) = d * q - i * d
    BY <1>0, <1>1
  <2>2. d * (q - i) <= now - i * d /\ now - i * d < d * (q - i) + d /\ now - i * d \in Int
    BY <1>0, <1>1, <2>1
  <2>3. QED
    BY <1>0, <2>1, <2>2, DivUnique
<1>3. HoursOf(now) = {q - i : i \in 0 .. n}
  BY <1>2 DEF HoursOf, HourOf, d, n
<1>4. {q - i : i \in 0 .. n} = q - n .. q
  <2>1. ASSUME NEW h \in q - n .. q PROVE h \in {q - i : i \in 0 .. n}
    <3>1. q - h \in 0 .. n /\ h = q - (q - h)
      BY <1>0, <1>1
    <3>2. QED
      BY <3>1
  <2>2. \A i \in 0 .. n : q - i \in q - n .. q
    BY <1>0, <1>1
  <2>3. QED
    BY <2>1, <2>2
<1>5. QED
  BY <1>1, <1>3, <1>4 DEF HourOf, q, d, n

LEMMA ActivityIsRight == LogTyped => ActivityCounts
<1> SUFFICES ASSUME LogTyped, NEW s \in Stations, NEW now \in Asked
             PROVE  LET Left(since) ==
                          Cardinality({e \in DOMAIN events :
                                         /\ events[e].station = s /\ events[e].phase = "departed"
                                         /\ events[e].at >= since})
                        LeftBy(since, to) ==
                          Cardinality({e \in DOMAIN events :
                                         /\ events[e].station = s /\ events[e].phase = "departed"
                                         /\ events[e].at \in since .. to})
                    IN  /\ LeftBy(now - Day + Hour, now) <= Activity(s, now)
                        /\ Activity(s, now) <= Left(now - Day)
  BY DEF ActivityCounts
<1> DEFINE Counted(h) == {e \in DOMAIN events :
                            /\ events[e].station = s
                            /\ events[e].phase = "departed"
                            /\ events[e].at >= now - Day
                            /\ HourOf(events[e].at) = h}
           H == HoursOf(now)
           part == [h \in H |-> Counted(h)]
           all == UNION {part[h] : h \in H}
           f == [h \in H |-> VisitCount(s, h, now)]
           recent == {e \in DOMAIN events :
                        /\ events[e].station = s /\ events[e].phase = "departed"
                        /\ events[e].at \in now - Day + Hour .. now}
           left == {e \in DOMAIN events :
                      /\ events[e].station = s /\ events[e].phase = "departed"
                      /\ events[e].at >= now - Day}
<1>1. now \in Int /\ Hour \in Nat \ {0} /\ HoursShown \in Nat \ {0} /\ Day \in Nat \ {0}
  BY PeriodsAssumption, DayIsPeriod
<1>2. IsFiniteSet(DOMAIN events) /\ \A e \in DOMAIN events : events[e].at \in Int
  BY EventFacts
<1>3. H = HourOf(now) - (HoursShown - 1) .. HourOf(now) /\ HourOf(now) \in Int
  BY <1>1, HoursInRow
<1>4. IsFiniteSet(H)
  <2>1. HourOf(now) - (HoursShown - 1) \in Int
    BY <1>1, <1>3
  <2>2. IsFiniteSet(HourOf(now) - (HoursShown - 1) .. HourOf(now))
    BY <1>3, <2>1, FS_Interval
  <2>3. QED
    BY <1>3, <2>2
<1>5. /\ \A h \in H : part[h] \subseteq DOMAIN events
      /\ \A h \in H : f[h] = Cardinality(part[h])
      /\ \A g, h \in H : g # h => part[g] \cap part[h] = {}
  BY DEF VisitCount
<1>6. \A h \in H : IsFiniteSet(part[h])
  BY <1>2, <1>5, FS_Subset
<1>7. Activity(s, now) = Total(H, f)
  BY DEF Activity
<1>8. recent \subseteq all
  <2> SUFFICES ASSUME NEW e \in recent PROVE e \in all
    OBVIOUS
  <2> DEFINE at == events[e].at
  <2>1. e \in DOMAIN events /\ at \in Int /\ now - Day + Hour <= at /\ at <= now
    BY <1>1, <1>2
  <2>2. at >= now - Day
    <3> HIDE DEF at
    <3>1. QED
      BY <1>1, <2>1
  <2>3. HourOf(at) \in H
    <3>1. HourOf(at) <= HourOf(now) /\ HourOf(at) \in Int
      BY <1>1, <2>1, DivMonotone, DivIs DEF HourOf
    <3> DEFINE first == now - (HoursShown - 1) * Hour
    <3>2. first = now - Day + Hour /\ first \in Int
      BY <1>1 DEF Day
    <3>3. HourOf(first) = HourOf(now) - (HoursShown - 1)
      <4> DEFINE d == Hour
                 n == HoursShown - 1
                 q == now \div d
      <4>1. q \in Int /\ d * q \in Int /\ d * q <= now /\ now < d * q + d
        BY <1>1, DivIs
      <4>2. d \in Nat \ {0} /\ n \in Nat
        BY <1>1
      <4> HIDE DEF d, n, q
      <4>3. n * d \in Int /\ q - n \in Int /\ d * (q - n) = d * q - n * d
        BY <4>1, <4>2
      <4>4. d * (q - n) <= now - n * d /\ now - n * d < d * (q - n) + d /\ now - n * d \in Int
        BY <1>1, <4>1, <4>2, <4>3
      <4>5. (now - n * d) \div d = q - n
        BY <4>2, <4>3, <4>4, DivUnique
      <4>6. QED
        BY <4>5 DEF HourOf, d, n, q
    <3>4. HourOf(first) <= HourOf(at)
      <4>1. first <= at
        BY <2>1, <3>2
      <4> HIDE DEF first, at
      <4>2. QED
        BY <1>1, <2>1, <3>2, <4>1, DivMonotone DEF HourOf
    <3> HIDE DEF first, at, H
    <3>5. QED
      BY <1>1, <1>3, <3>1, <3>3, <3>4
  <2>4. e \in part[HourOf(at)]
    BY <2>2, <2>3
  <2>5. QED
    BY <2>3, <2>4
<1>9. all \subseteq left /\ left \subseteq DOMAIN events
  OBVIOUS
<1> HIDE DEF all, recent, left
<1>10. IsFiniteSet(all) /\ Total(H, f) = Cardinality(all)
  <2>1. all = UNION {part[h] : h \in H}
    BY DEF all
  <2> HIDE DEF H, part, f
  <2>2. IsFiniteSet(Whole(H, part)) /\ Total(H, f) = Cardinality(Whole(H, part))
    BY <1>4, <1>5, <1>6, TotalPartition
  <2>3. QED
    BY <2>1, <2>2 DEF Whole
<1>11. IsFiniteSet(left)
  BY <1>2, <1>9, FS_Subset
<1>12. Cardinality(recent) <= Cardinality(all) /\ Cardinality(all) <= Cardinality(left)
  BY <1>8, <1>9, <1>10, <1>11, FS_Subset
<1>13. QED
  BY <1>7, <1>10, <1>12 DEF recent, left

(* The active jobs of the dashboard are those seen in its window, and at   *)
(* most a day before.                                                      *)
THEOREM ActiveJobsCovered == LogSpec => []ActiveCoversWindow
<1>1. QED
  BY LogIsTyped, ActiveIsRight, PTL

(* The activity of a station counts the departures of a day, once each.    *)
THEOREM ActivityIsCounted == LogSpec => []ActivityCounts
<1>1. QED
  BY LogIsTyped, ActivityIsRight, PTL

-------------------------------------------------------------------------------

(* Math.round of a quotient between two whole numbers is between them, and *)
(* rounds more to more.                                                    *)
LEMMA RoundedWhole ==
  ASSUME NEW b \in Nat \ {0}, NEW x \in Int
  PROVE  Rounded(b * x, b) = x
<1> DEFINE bx == b * x
<1>1. bx \in Int /\ 2 * b \in Nat \ {0} /\ (2 * b) * x = 2 * bx
  OBVIOUS
<1> HIDE DEF bx
<1>2. 2 * bx + b \in Int /\ (2 * b) * x <= 2 * bx + b /\ 2 * bx + b < (2 * b) * x + 2 * b
  BY <1>1
<1>3. (2 * bx + b) \div (2 * b) = x
  BY <1>1, <1>2, DivUnique
<1>4. QED
  BY <1>3 DEF Rounded, bx

LEMMA RoundedMonotone ==
  ASSUME NEW b \in Nat \ {0}, NEW a \in Int, NEW c \in Int, a <= c
  PROVE  Rounded(a, b) <= Rounded(c, b) /\ Rounded(a, b) \in Int /\ Rounded(c, b) \in Int
<1>1. /\ 2 * b \in Nat \ {0} /\ 2 * a + b \in Int /\ 2 * c + b \in Int
      /\ 2 * a + b <= 2 * c + b
  OBVIOUS
<1>2. (2 * a + b) \div (2 * b) <= (2 * c + b) \div (2 * b)
  BY <1>1, DivMonotone
<1>3. (2 * a + b) \div (2 * b) \in Int /\ (2 * c + b) \div (2 * b) \in Int
  BY <1>1, DivIs
<1>4. QED
  BY <1>2, <1>3 DEF Rounded

LEMMA RoundedBetween ==
  ASSUME NEW b \in Nat \ {0}, NEW a \in Int, NEW lo \in Nat, NEW hi \in Nat,
         b * lo <= a, a <= b * hi
  PROVE  Rounded(a, b) \in Nat /\ lo <= Rounded(a, b) /\ Rounded(a, b) <= hi
<1>1. b * lo \in Int /\ b * hi \in Int
  OBVIOUS
<1>2. Rounded(b * lo, b) = lo /\ Rounded(b * hi, b) = hi
  BY RoundedWhole
<1> DEFINE l == b * lo
           h == b * hi
<1>3. l \in Int /\ h \in Int /\ l <= a /\ a <= h
  BY <1>1
<1> HIDE DEF l, h
<1>4. Rounded(l, b) <= Rounded(a, b) /\ Rounded(a, b) <= Rounded(h, b) /\ Rounded(a, b) \in Int
  BY <1>3, RoundedMonotone
<1>5. QED
  BY <1>2, <1>4 DEF l, h

(* The rows q are as many numbers as n, in order.                          *)
Ascending(q, n) ==
  /\ n \in Nat \ {0} /\ q \in Seq(Nat) /\ Len(q) = n
  /\ \A k, m \in 1 .. n : k <= m => q[k] <= q[m]

LEMMA SortedAscending ==
  ASSUME LogTyped, NEW S \in SUBSET AllSamples, S # {}
  PROVE  /\ Ascending(Sorted(S), Cardinality(S))
         /\ \A x \in S : \E k \in 1 .. Cardinality(S) : Sorted(S)[k] = x.seconds
<1> DEFINE before == [x \in S |-> {y \in S : Shorter(y, x)}]
           r == Ordered(S, before)
           n == Cardinality(S)
           q == [k \in 1 .. n |-> r[k].seconds]
<1>1. /\ IsFiniteSet(S) /\ \A x \in S : x.seconds \in Nat /\ x.id \in Nat
      /\ \A x, y \in S : x.id = y.id => x = y
  BY SampleIds, FS_Subset
<1>2. n \in Nat \ {0}
  BY <1>1, FS_CardinalityType, FS_EmptySet
<1>3. \A x, y \in S : y \in before[x] <=> Shorter(y, x)
  OBVIOUS
<1>4. \A x \in S : before[x] \in SUBSET S
  OBVIOUS
<1> HIDE DEF before
<1>5. /\ \A x \in S : ~ Shorter(x, x)
      /\ \A x, y, z \in S : Shorter(x, y) /\ Shorter(y, z) => Shorter(x, z)
      /\ \A x, y \in S : x = y \/ Shorter(x, y) \/ Shorter(y, x)
      /\ \A x, y \in S : Shorter(x, y) => x.seconds <= y.seconds
  BY <1>1 DEF Shorter
<1>6. /\ \A x \in S : before[x] \in SUBSET S /\ x \notin before[x]
      /\ \A x, y \in S : x = y \/ x \in before[y] \/ y \in before[x]
  BY <1>3, <1>4, <1>5
<1>7. \A x, y \in S : x \in before[y] => before[x] \subseteq before[y]
  BY <1>3, <1>4, <1>5
<1>8. /\ r \in [1 .. n -> S]
      /\ \A k, m \in 1 .. n : k < m => r[k] \in before[r[m]]
      /\ \A x \in S : \E k \in 1 .. n : r[k] = x
  BY <1>1, <1>6, <1>7, Ranked
<1>9. Sorted(S) = q
  <2>1. Sorted(S) = [k \in DOMAIN r |-> r[k].seconds]
    BY DEF Sorted, before
  <2>2. DOMAIN r = 1 .. n
    BY <1>8
  <2>3. QED
    BY <2>1, <2>2
<1> HIDE DEF r
<1>10. \A k \in 1 .. n : q[k] = r[k].seconds /\ r[k] \in S /\ q[k] \in Nat
  BY <1>1, <1>8
<1>11. q \in Seq(Nat) /\ Len(q) = n
  <2>1. q \in [1 .. n -> Nat]
    BY <1>10
  <2> HIDE DEF q
  <2>2. QED
    BY <1>2, <2>1
<1> HIDE DEF q, n
<1>12. ASSUME NEW k \in 1 .. n, NEW m \in 1 .. n, k <= m
       PROVE  q[k] <= q[m]
  <2>1. CASE k = m
    BY <1>10, <2>1
  <2>2. CASE k # m
    <3>1. k < m
      BY <1>12, <2>2, <1>2
    <3>2. Shorter(r[k], r[m])
      BY <1>3, <1>8, <1>10, <3>1
    <3>3. QED
      BY <1>5, <1>10, <3>2
  <2>3. QED
    BY <2>1, <2>2
<1>13. \A x \in S : \E k \in 1 .. n : q[k] = x.seconds
  BY <1>8, <1>10
<1>14. QED
  BY <1>2, <1>9, <1>11, <1>12, <1>13 DEF Ascending, n

(* Where a percentile lies among the numbers: at or after number low + 1.  *)
LiesAt(q, n, p, low, frac) ==
  LET v == Percentile(q, p)
  IN  /\ low \in 0 .. n - 1 /\ frac \in 0 .. 99 /\ p * (n - 1) = 100 * low + frac
      /\ q[low + 1] \in Nat /\ v \in Nat /\ 100 * q[low + 1] <= v
      /\ frac = 0 => v = 100 * q[low + 1]
      /\ frac # 0 => /\ low + 2 \in 1 .. n /\ q[low + 2] \in Nat
                     /\ q[low + 1] <= q[low + 2]
                     /\ v = 100 * q[low + 1] + (q[low + 2] - q[low + 1]) * frac
                     /\ v <= 100 * q[low + 2]

LEMMA PercentileIs ==
  ASSUME NEW n, NEW q, Ascending(q, n), NEW p \in 0 .. 100
  PROVE  \E low, frac : LiesAt(q, n, p, low, frac)
<1> DEFINE rank == p * (n - 1)
           low == rank \div 100
           frac == rank % 100
           v == Percentile(q, p)
<1>1. /\ n \in Nat \ {0} /\ Len(q) = n /\ \A k \in 1 .. n : q[k] \in Nat
      /\ \A k, m \in 1 .. n : k <= m => q[k] <= q[m]
  BY DEF Ascending
<1>2. rank \in Nat /\ rank <= 100 * (n - 1)
  BY <1>1
<1>3. /\ v = IF frac = 0 THEN 100 * q[low + 1]
             ELSE 100 * q[low + 1] + (q[low + 2] - q[low + 1]) * frac
  BY <1>1 DEF Percentile
<1> HIDE DEF rank, v
<1>4. low \in Nat /\ frac \in 0 .. 99 /\ rank = 100 * low + frac
  BY <1>2
<1> HIDE DEF low, frac
<1>5. low \in 0 .. n - 1 /\ (frac # 0 => low + 2 \in 1 .. n)
  BY <1>1, <1>2, <1>4
<1>6. low + 1 \in 1 .. n /\ q[low + 1] \in Nat
  BY <1>1, <1>5
<1>7. CASE frac = 0
  <2>1. v = 100 * q[low + 1]
    BY <1>3, <1>7
  <2>2. v \in Nat /\ 100 * q[low + 1] <= v
    BY <1>6, <2>1
  <2>3. QED
    BY <1>4, <1>5, <1>6, <1>7, <2>1, <2>2 DEF v, rank, LiesAt
<1>8. CASE frac # 0
  <2> DEFINE a == q[low + 1]
             b == q[low + 2]
             w == (b - a) * frac
  <2>1. low + 2 \in 1 .. n /\ b \in Nat /\ a \in Nat /\ a <= b
    <3>1. low + 2 \in 1 .. n
      BY <1>5, <1>8
    <3>2. low + 1 <= low + 2
      BY <1>4
    <3>3. QED
      BY <1>1, <1>6, <3>1, <3>2
  <2>2. v = 100 * a + w
    BY <1>3, <1>8
  <2> HIDE DEF a, b
  <2>3. w \in Nat /\ w <= (b - a) * 100
    <3>1. b - a \in Nat
      BY <2>1
    <3> DEFINE c == b - a
    <3> HIDE DEF c
    <3>2. c * frac \in Nat /\ c * frac <= c * 100
      BY <1>4, <3>1 DEF c
    <3>3. QED
      BY <3>2 DEF c
  <2> HIDE DEF w
  <2>4. v \in Nat /\ 100 * a <= v /\ v <= 100 * b
    BY <2>1, <2>2, <2>3
  <2>5. QED
    BY <1>4, <1>5, <1>6, <1>8, <2>1, <2>2, <2>4 DEF a, b, w, v, rank, LiesAt
<1>9. QED
  BY <1>7, <1>8

(* Percentiles lie between the least and the greatest number.              *)
LEMMA PercentileBetween ==
  ASSUME NEW n, NEW q, Ascending(q, n), NEW p \in 0 .. 100
  PROVE  /\ Percentile(q, p) \in Nat
         /\ 100 * q[1] <= Percentile(q, p) /\ Percentile(q, p) <= 100 * q[n]
<1> DEFINE v == Percentile(q, p)
<1>1. /\ n \in Nat \ {0} /\ \A k \in 1 .. n : q[k] \in Nat
      /\ \A k, m \in 1 .. n : k <= m => q[k] <= q[m]
  BY DEF Ascending
<1>0. PICK low, frac : LiesAt(q, n, p, low, frac)
  BY PercentileIs
<1>2. /\ low \in 0 .. n - 1 /\ v \in Nat /\ 100 * q[low + 1] <= v
      /\ frac = 0 => v = 100 * q[low + 1]
      /\ frac # 0 => low + 2 \in 1 .. n /\ v <= 100 * q[low + 2]
  BY <1>0 DEF LiesAt
<1> HIDE DEF v
<1>3. low + 1 \in 1 .. n /\ 1 \in 1 .. n /\ n \in 1 .. n /\ 1 <= low + 1 /\ low + 1 <= n
  BY <1>1, <1>2
<1>4. q[1] <= q[low + 1] /\ q[low + 1] <= q[n] /\ q[1] \in Nat /\ q[n] \in Nat /\ q[low + 1] \in Nat
  BY <1>1, <1>3
<1>5. 100 * q[1] <= v
  BY <1>2, <1>4
<1>6. CASE frac = 0
  BY <1>2, <1>4, <1>5, <1>6 DEF v
<1>7. CASE frac # 0
  <2>1. low + 2 \in 1 .. n /\ low + 2 <= n
    BY <1>1, <1>2, <1>7
  <2>2. q[low + 2] <= q[n] /\ q[low + 2] \in Nat
    BY <1>1, <1>3, <2>1
  <2>3. QED
    BY <1>2, <1>4, <1>5, <1>7, <2>2 DEF v
<1>8. QED
  BY <1>6, <1>7

LEMMA PercentileMonotone ==
  ASSUME NEW n, NEW q, Ascending(q, n), NEW p \in 0 .. 100, NEW t \in 0 .. 100, p <= t
  PROVE  Percentile(q, p) <= Percentile(q, t)
<1> DEFINE m == n - 1
           vp == Percentile(q, p)
           vt == Percentile(q, t)
<1>0. PICK lp, fp : LiesAt(q, n, p, lp, fp)
  BY PercentileIs
<1>11. PICK lt, ft : LiesAt(q, n, t, lt, ft)
  BY PercentileIs
<1>1. /\ n \in Nat \ {0} /\ \A k \in 1 .. n : q[k] \in Nat
      /\ \A k, x \in 1 .. n : k <= x => q[k] <= q[x]
  BY DEF Ascending
<1>2. /\ lp \in 0 .. n - 1 /\ fp \in 0 .. 99 /\ p * m = 100 * lp + fp
      /\ vp \in Nat
      /\ fp = 0 => vp = 100 * q[lp + 1]
      /\ fp # 0 => /\ lp + 2 \in 1 .. n /\ q[lp + 1] <= q[lp + 2]
                   /\ vp = 100 * q[lp + 1] + (q[lp + 2] - q[lp + 1]) * fp
                   /\ vp <= 100 * q[lp + 2]
  BY <1>0 DEF LiesAt
<1>3. /\ lt \in 0 .. n - 1 /\ ft \in 0 .. 99 /\ t * m = 100 * lt + ft
      /\ vt \in Nat /\ 100 * q[lt + 1] <= vt
      /\ ft # 0 => vt = 100 * q[lt + 1] + (q[lt + 2] - q[lt + 1]) * ft
  BY <1>11 DEF LiesAt
<1>4. p * m <= t * m
  <2>1. m \in Nat
    BY <1>1
  <2> HIDE DEF m
  <2>2. QED
    BY <2>1
<1> HIDE DEF vp, vt, m
<1>5. lp <= lt /\ (lp = lt => fp <= ft)
  BY <1>2, <1>3, <1>4
<1>6. lp + 1 \in 1 .. n /\ lt + 1 \in 1 .. n /\ q[lp + 1] \in Nat /\ q[lt + 1] \in Nat
  BY <1>1, <1>2, <1>3
<1>7. CASE fp = 0
  <2>1. q[lp + 1] <= q[lt + 1]
    BY <1>1, <1>5, <1>6, <1>2, <1>3
  <2>2. QED
    BY <1>2, <1>3, <1>6, <1>7, <2>1 DEF vp, vt
<1>8. CASE fp # 0 /\ lp = lt
  <2>1. ft # 0 /\ fp <= ft
    BY <1>2, <1>3, <1>5, <1>8
  <2> DEFINE a == q[lp + 1]
             c == q[lp + 2] - q[lp + 1]
  <2>2. vp = 100 * a + c * fp /\ vt = 100 * a + c * ft /\ a \in Nat
    BY <1>2, <1>3, <1>6, <1>8, <2>1
  <2>3. c \in Nat
    BY <1>1, <1>2, <1>6, <1>8
  <2> HIDE DEF a, c
  <2>4. c * fp <= c * ft /\ c * fp \in Nat /\ c * ft \in Nat
    BY <1>2, <1>3, <2>1, <2>3
  <2>5. QED
    BY <2>2, <2>4 DEF vp, vt
<1>9. CASE fp # 0 /\ lp # lt
  <2>1. lp + 2 <= lt + 1 /\ lp + 2 \in 1 .. n
    BY <1>2, <1>3, <1>5, <1>9
  <2>2. q[lp + 2] <= q[lt + 1] /\ q[lp + 2] \in Nat
    BY <1>1, <1>6, <2>1
  <2>3. QED
    BY <1>2, <1>3, <1>6, <1>9, <2>2 DEF vp, vt
<1>10. QED
  BY <1>7, <1>8, <1>9

-------------------------------------------------------------------------------

LEMMA TraysOfStation ==
  ASSUME LogTyped, NEW s
  PROVE  /\ IsFiniteSet(StationTrays(s))
         /\ Cardinality(StationTrays(s)) <= Cardinality(StationSamples(s))
         /\ StationSamples(s) # {} => StationTrays(s) # {}
<1> DEFINE S == StationSamples(s)
           T == StationTrays(s)
           f == [x \in S |-> events[x.id].tray]
<1>1. S = {x \in AllSamples : x.station = s} /\ IsFiniteSet(S)
  BY StationSamplesFinite
<1>2. ASSUME NEW x \in S PROVE f[x] \in T
  <2>1. /\ x \in TraySamples(events[x.id].tray) /\ events[x.id].tray \in JobIds
        /\ x.station = s
    BY <1>1, SampleIds
  <2>2. x \in SamplesAt(events[x.id].tray, s)
    BY <2>1 DEF SamplesAt
  <2>3. QED
    BY <2>1, <2>2 DEF StationTrays
<1>3. ASSUME NEW j \in T PROVE \E x \in S : f[x] = j
  <2>1. j \in JobIds /\ SamplesAt(j, s) # {}
    BY DEF StationTrays
  <2>2. PICK x \in SamplesAt(j, s) : TRUE
    BY <2>1
  <2>3. x \in TraySamples(j) /\ x \in S
    BY <2>1, <2>2 DEF SamplesAt, StationSamples
  <2>4. PICK m \in HasDwell(History(j), Len(RowsOf(j))) : x = SampleOf(RowsOf(j), History(j), m)
    BY <2>3, SampleMembers
  <2>5. events[x.id].tray = j
    BY <2>4, SampleMembers
  <2>6. QED
    BY <2>3, <2>5
<1>4. f \in Surjection(S, T)
  <2>1. f \in [S -> T]
    BY <1>2
  <2> HIDE DEF f, S, T
  <2>2. QED
    BY <1>3, <2>1 DEF Surjection
<1>5. S # {} => T # {}
  BY <1>2
<1> HIDE DEF S, T, f
<1>6. QED
  BY <1>1, <1>4, <1>5, FS_Surjection DEF S, T

(* The figures of a station that has samples.                              *)
LEMMA DurationIs ==
  ASSUME LogTyped, NEW s \in Measured
  PROVE  LET d == Duration(s)
         IN  /\ d.avg \in Nat
             /\ 0 <= d.min /\ d.min <= d.median /\ d.median <= d.p95 /\ d.p95 <= d.max
             /\ d.min <= d.avg /\ d.avg <= d.max
             /\ d.jobs \in 1 .. Cardinality(StationSamples(s))
<1> DEFINE S == StationSamples(s)
           q == Sorted(S)
           n == Cardinality(S)
           f == [x \in S |-> x.seconds]
           d == Duration(s)
           m50 == Percentile(q, 50)
           m95 == Percentile(q, 95)
           lo == q[1]
           hi == q[n]
<1>1. S # {} /\ S \in SUBSET AllSamples /\ IsFiniteSet(S)
  BY StationSamplesFinite DEF Measured
<1>2. Ascending(q, n) /\ \A x \in S : \E k \in 1 .. n : q[k] = x.seconds
  BY <1>1, SortedAscending
<1> HIDE DEF S
<1>3. /\ n \in Nat \ {0} /\ q \in Seq(Nat) /\ Len(q) = n /\ \A k \in 1 .. n : q[k] \in Nat
      /\ \A k, m \in 1 .. n : k <= m => q[k] <= q[m]
      /\ 1 \in 1 .. n /\ n \in 1 .. n
  BY <1>2 DEF Ascending
<1>4. /\ d.avg = Rounded(Total(S, f), n)
      /\ d.max = hi /\ d.min = lo
      /\ d.median = Rounded(m50, 100) /\ d.p95 = Rounded(m95, 100)
      /\ d.jobs = Cardinality(StationTrays(s))
  <2>1. Last(q) = hi /\ Head(q) = lo
    BY <1>3 DEF Last
  <2>2. QED
    BY <1>3, <2>1 DEF Duration, S
<1> HIDE DEF d, q, n
<1>5. lo \in Nat /\ hi \in Nat
  BY <1>3
<1>6. \A x \in S : f[x] \in Nat /\ lo <= f[x] /\ f[x] <= hi
  <2> SUFFICES ASSUME NEW x \in S PROVE f[x] \in Nat /\ lo <= f[x] /\ f[x] <= hi
    OBVIOUS
  <2>1. PICK k \in 1 .. n : q[k] = x.seconds
    BY <1>2
  <2>2. 1 <= k /\ k <= n
    BY <1>3
  <2>3. QED
    BY <1>3, <2>1, <2>2
<1> HIDE DEF f
<1>7. /\ Total(S, f) \in Nat /\ n * lo <= Total(S, f) /\ Total(S, f) <= n * hi
  <2> HIDE DEF lo, hi
  <2>1. QED
    BY <1>1, <1>5, <1>6, TotalBetween DEF n
<1>8. d.avg \in Nat /\ lo <= d.avg /\ d.avg <= hi
  <2> DEFINE t == Total(S, f)
  <2>1. t \in Int /\ n * lo <= t /\ t <= n * hi /\ d.avg = Rounded(t, n)
    BY <1>4, <1>7
  <2> HIDE DEF lo, hi, t
  <2>2. QED
    BY <1>3, <1>5, <2>1, RoundedBetween
<1>9. /\ m50 \in Nat /\ 100 * lo <= m50 /\ m50 <= 100 * hi
      /\ m95 \in Nat /\ 100 * lo <= m95 /\ m95 <= 100 * hi
      /\ m50 <= m95
  <2>1. Ascending(q, n) /\ 50 \in 0 .. 100 /\ 95 \in 0 .. 100 /\ 50 <= 95
    BY <1>2 DEF q
  <2>2. m50 \in Nat /\ 100 * lo <= m50 /\ m50 <= 100 * hi
    BY <2>1, PercentileBetween
  <2>3. m95 \in Nat /\ 100 * lo <= m95 /\ m95 <= 100 * hi
    BY <2>1, PercentileBetween
  <2>4. m50 <= m95
    BY <2>1, PercentileMonotone
  <2>5. QED
    BY <2>2, <2>3, <2>4
<1> HIDE DEF lo, hi, m50, m95
<1>10. lo <= Rounded(m50, 100) /\ Rounded(m95, 100) <= hi
  <2>1. lo <= Rounded(m50, 100)
    <3>1. m50 \in Int /\ 100 * lo <= m50 /\ m50 <= 100 * hi /\ 100 \in Nat \ {0}
      BY <1>9
    <3>2. QED
      BY <1>5, <3>1, RoundedBetween
  <2>2. Rounded(m95, 100) <= hi
    BY <1>5, <1>9, RoundedBetween
  <2>3. QED
    BY <2>1, <2>2
<1>11. Rounded(m50, 100) <= Rounded(m95, 100)
  BY <1>9, RoundedMonotone
<1>12. d.jobs \in 1 .. n
  <2>1. /\ IsFiniteSet(StationTrays(s)) /\ StationTrays(s) # {}
        /\ Cardinality(StationTrays(s)) <= n
    BY <1>1, TraysOfStation DEF S, n
  <2>2. Cardinality(StationTrays(s)) \in Nat /\ Cardinality(StationTrays(s)) # 0
    BY <2>1, FS_CardinalityType, FS_EmptySet
  <2>3. QED
    BY <1>3, <1>4, <2>1, <2>2
<1>13. QED
  BY <1>4, <1>5, <1>8, <1>10, <1>11, <1>12 DEF d, n, S

LEMMA DurationsAreRight == LogTyped => DurationsOrdered
<1> SUFFICES ASSUME LogTyped PROVE DurationsOrdered
  OBVIOUS
<1> DEFINE avg == [s \in Measured |-> Duration(s).avg]
           A == {avg[s] : s \in Measured}
           m == Cardinality(Measured)
           average == AvgDwellSeconds
<1>1. IsFiniteSet(Measured)
  BY LogAssumption, FS_Subset DEF Measured
<1>2. \A s \in Measured : avg[s] \in Nat /\ avg[s] = Duration(s).avg
  BY DurationIs
<1>3. ASSUME Measured # {}
      PROVE  /\ \E s \in Measured : average <= avg[s] /\ \A u \in Measured : avg[u] <= avg[s]
             /\ \E s \in Measured : average >= avg[s]
             /\ average \in Nat
  <2>1. A \in SUBSET Int /\ A # {}
    BY <1>2, <1>3
  <2>2. IsFiniteSet(A)
    <3>1. avg \in Surjection(Measured, A)
      <4>1. avg \in [Measured -> A]
        OBVIOUS
      <4>2. \A a \in A : \E s \in Measured : avg[s] = a
        OBVIOUS
      <4> HIDE DEF avg, A
      <4>3. QED
        BY <4>1, <4>2 DEF Surjection
    <3> HIDE DEF avg, A
    <3>2. QED
      BY <1>1, <3>1, FS_Surjection
  <2> DEFINE lo == Min(A)
             hi == Max(A)
  <2>3. /\ hi \in A /\ \A y \in A : y <= hi
        /\ lo \in A /\ \A y \in A : lo <= y
    <3> HIDE DEF A
    <3>1. QED
      BY <2>1, <2>2, Extremes
  <2> HIDE DEF lo, hi
  <2>4. PICK s \in Measured : avg[s] = hi
    BY <2>3
  <2>5. PICK u \in Measured : avg[u] = lo
    BY <2>3
  <2>6. \A x \in Measured : avg[x] \in Nat /\ lo <= avg[x] /\ avg[x] <= hi
    BY <1>2, <2>3
  <2>7. lo \in Nat /\ hi \in Nat
    BY <1>2, <2>4, <2>5
  <2>8. m \in Nat \ {0}
    BY <1>1, <1>3, FS_CardinalityType, FS_EmptySet
  <2>9. average = Rounded(Total(Measured, avg), m)
    BY <1>3 DEF AvgDwellSeconds
  <2> HIDE DEF avg, average, A
  <2>10. /\ Total(Measured, avg) \in Nat
         /\ m * lo <= Total(Measured, avg) /\ Total(Measured, avg) <= m * hi
    BY <1>1, <2>6, <2>7, TotalBetween
  <2> DEFINE t == Total(Measured, avg)
  <2>11. t \in Int /\ m * lo <= t /\ t <= m * hi /\ average = Rounded(t, m)
    BY <2>9, <2>10
  <2> HIDE DEF t, m
  <2>12. average \in Nat /\ lo <= average /\ average <= hi
    BY <2>7, <2>8, <2>11, RoundedBetween
  <2>13. QED
    BY <2>4, <2>5, <2>6, <2>7, <2>12
<1>4. ASSUME Measured # {}, average > 0
      PROVE  Bottlenecks # {}
  <2>1. PICK s \in Measured : average <= avg[s] /\ \A u \in Measured : avg[u] <= avg[s]
    BY <1>3, <1>4
  <2>2. average \in Nat /\ avg[s] \in Nat
    BY <1>2, <1>3, <1>4
  <2> HIDE DEF avg, average
  <2>3. avg[s] > 0
    BY <1>4, <2>1, <2>2
  <2>4. Duration(s).avg > 0 /\ \A u \in Measured : Duration(u).avg <= Duration(s).avg
    BY <1>2, <2>1, <2>3
  <2>5. s \in Bottlenecks
    BY <2>4 DEF Bottlenecks
  <2>6. QED
    BY <2>5
<1> DEFINE duration == [s \in Measured |-> Duration(s)]
<1>5. \A s \in Measured : duration[s] = Duration(s)
  OBVIOUS
<1>6. \A s \in DOMAIN duration :
        LET d == duration[s]
        IN  /\ 0 <= d.min /\ d.min <= d.median /\ d.median <= d.p95 /\ d.p95 <= d.max
            /\ d.min <= d.avg /\ d.avg <= d.max
            /\ d.jobs \in 1 .. Cardinality(StationSamples(s))
  BY DurationIs
<1>7. DOMAIN duration # {} =>
        /\ \E s \in DOMAIN duration : average <= duration[s].avg
        /\ \E s \in DOMAIN duration : average >= duration[s].avg
        /\ average > 0 => Bottlenecks # {}
  <2>1. DOMAIN duration = Measured
    OBVIOUS
  <2>2. \A s \in Measured : avg[s] = duration[s].avg
    OBVIOUS
  <2> HIDE DEF duration, avg, average
  <2>3. QED
    BY <1>3, <1>4, <2>1, <2>2
<1>8. QED
  BY <1>6, <1>7, Zenon DEF DurationsOrdered

(* The figures of the stations on the dashboard are in order.              *)
THEOREM DurationsInOrder == LogSpec => []DurationsOrdered
<1>1. QED
  BY LogIsTyped, DurationsAreRight, PTL

-------------------------------------------------------------------------------

(* A sample of a tray, told by the log: the visit that a departure ends,   *)
(* or the scan that an event ends.                                         *)
IsDwell(x, j) ==
  LET S == EventsOf(j)
      e == x.id
  IN  /\ x = [id |-> e, station |-> x.station, seconds |-> x.seconds]
      /\ e \in S /\ x.station = events[e].station
      /\ \/ /\ events[e].phase = "departed"
            /\ \E a \in OpenedBy(e, S) : x.seconds = Seconds(events[a].at, events[e].at)
         \/ /\ events[e].phase = "scan"
            /\ \E b \in EndOf(e, S) : x.seconds = Seconds(events[e].at, events[b].at)

SamplesAreDwells == \A j, x : x \in TraySamples(j) <=> IsDwell(x, j)

LEMMA SampleIsDwell ==
  ASSUME LogTyped, NEW j, NEW x \in TraySamples(j)
  PROVE  IsDwell(x, j)
<1> DEFINE S == EventsOf(j)
           rows == RowsOf(j)
           h == History(j)
           n == Len(rows)
<1>1. /\ S \in SUBSET DOMAIN events /\ InOrder(rows, S) /\ n \in Nat
      /\ \A k \in 1 .. n : /\ rows[k] \in S
                           /\ h[k].phase = events[rows[k]].phase
                           /\ h[k].phase \in {"scan", "arrived", "departed"}
                           /\ h[k].station = events[rows[k]].station
                           /\ DwellIs(rows, k, h[k].duration)
  BY JobRows
<1>2. PICK m \in HasDwell(h, n) : x = SampleOf(rows, h, m)
  BY SampleMembers
<1> DEFINE e == rows[m]
<1>3. m \in 1 .. n /\ h[m].duration # None
  BY DEF HasDwell
<1>4. x = [id |-> e, station |-> events[e].station, seconds |-> h[m].duration]
  BY <1>2 DEF SampleOf
<1>5. DwellIs(rows, m, h[m].duration) /\ e \in S /\ events[e].phase \in {"scan", "arrived", "departed"}
  BY <1>1, <1>3
<1> HIDE DEF S, rows, h, n
<1>6. CASE events[e].phase = "departed"
  <2>1. PICK k \in 1 .. m - 1 : /\ OpenArrival(rows, k, events[e].station, m - 1)
                                /\ h[m].duration = Seconds(events[rows[k]].at, events[e].at)
    BY <1>3, <1>5, <1>6 DEF DwellIs
  <2>2. k \in 1 .. n
    BY <1>1, <1>3
  <2>3. rows[k] \in OpenedBy(e, S)
    BY <1>1, <1>3, <2>1, <2>2, OpenedByOpen DEF n
  <2>4. QED
    BY <1>4, <1>5, <1>6, <2>1, <2>3 DEF IsDwell, S
<1>7. CASE events[e].phase = "scan"
  <2>1. h[m].duration = IF m < n THEN Seconds(events[e].at, events[rows[m + 1]].at) ELSE None
    BY <1>5, <1>7 DEF DwellIs, n
  <2>2. m < n /\ h[m].duration = Seconds(events[e].at, events[rows[m + 1]].at)
    BY <1>3, <2>1
  <2>3. rows[m + 1] \in EndOf(e, S)
    BY <1>1, <1>3, <2>2, EndOfNext DEF n
  <2>4. QED
    BY <1>4, <1>5, <1>7, <2>2, <2>3 DEF IsDwell, S
<1>8. CASE events[e].phase = "arrived"
  BY <1>3, <1>5, <1>8 DEF DwellIs
<1>9. QED
  BY <1>5, <1>6, <1>7, <1>8

LEMMA DwellIsSample ==
  ASSUME LogTyped, NEW j, NEW x, IsDwell(x, j)
  PROVE  x \in TraySamples(j)
<1> DEFINE S == EventsOf(j)
           rows == RowsOf(j)
           h == History(j)
           n == Len(rows)
           e == x.id
<1>1. /\ S \in SUBSET DOMAIN events /\ InOrder(rows, S) /\ n \in Nat
      /\ \A k \in 1 .. n : /\ rows[k] \in S /\ rows[k] \in DOMAIN events
                           /\ DwellIs(rows, k, h[k].duration)
  BY JobRows
<1>2. \A f \in S : \E k \in 1 .. n : rows[k] = f
  BY <1>1, RowsAreSequence DEF InOrder
<1>3. /\ x = [id |-> e, station |-> events[e].station, seconds |-> x.seconds] /\ e \in S
      /\ \/ /\ events[e].phase = "departed"
            /\ \E a \in OpenedBy(e, S) : x.seconds = Seconds(events[a].at, events[e].at)
         \/ /\ events[e].phase = "scan"
            /\ \E b \in EndOf(e, S) : x.seconds = Seconds(events[e].at, events[b].at)
  BY DEF IsDwell
<1>4. \A k, m \in 1 .. n : k < m => events[rows[k]].at <= events[rows[m]].at
  BY <1>1, RowsAreSequence
<1> HIDE DEF S, rows, h, n
<1>5. PICK m \in 1 .. n : rows[m] = e
  BY <1>2, <1>3
<1>6. \A k \in 1 .. n : events[rows[k]].at \in Int
  BY <1>1, EventFacts
<1>7. DwellIs(rows, m, h[m].duration)
  BY <1>1
<1>8. h[m].duration = x.seconds /\ x.seconds \in Nat
  <2>1. CASE events[e].phase = "departed"
    <3>1. PICK a \in OpenedBy(e, S) : x.seconds = Seconds(events[a].at, events[e].at)
      BY <1>3, <2>1
    <3>2. a \in S
      BY DEF OpenedBy
    <3>3. PICK k \in 1 .. n : rows[k] = a
      BY <1>2, <3>2
    <3>4. OpenArrival(rows, k, events[e].station, m - 1)
      BY <1>1, <1>5, <3>1, <3>3, OpenedByOpen DEF n
    <3>5. k \in 1 .. m - 1 /\ k < m /\ m - 1 \in Nat
      BY <1>1, <3>4 DEF OpenArrival
    <3>6. PICK i \in 1 .. m - 1 : /\ OpenArrival(rows, i, events[e].station, m - 1)
                                  /\ h[m].duration = Seconds(events[rows[i]].at, events[e].at)
      BY <1>5, <1>7, <2>1, <3>4, <3>5 DEF DwellIs
    <3>7. i = k
      BY <3>4, <3>5, <3>6, OpenOnce
    <3>8. Seconds(events[a].at, events[e].at) \in Nat
      BY <1>4, <1>5, <1>6, <3>3, <3>5, SecondsForward
    <3>9. QED
      BY <3>1, <3>3, <3>6, <3>7, <3>8
  <2>2. CASE events[e].phase = "scan"
    <3>1. PICK b \in EndOf(e, S) : x.seconds = Seconds(events[e].at, events[b].at)
      BY <1>3, <2>2
    <3>2. EndOf(e, S) = IF m < n THEN {rows[m + 1]} ELSE {}
      BY <1>1, <1>5, EndOfNext DEF n
    <3>3. m < n /\ b = rows[m + 1]
      BY <3>1, <3>2
    <3>4. h[m].duration = Seconds(events[e].at, events[b].at)
      BY <1>5, <1>7, <2>2, <3>3 DEF DwellIs, n
    <3>5. m + 1 \in 1 .. n /\ m < m + 1
      BY <1>1, <3>3
    <3>6. events[e].at \in Int /\ events[b].at \in Int /\ events[e].at <= events[b].at
      BY <1>4, <1>5, <1>6, <3>3, <3>5
    <3>7. QED
      BY <3>1, <3>4, <3>6, SecondsForward
  <2>3. QED
    BY <1>3, <2>1, <2>2
<1>9. m \in HasDwell(h, n)
  BY <1>8 DEF HasDwell, None
<1>10. x = SampleOf(rows, h, m)
  BY <1>3, <1>5, <1>8 DEF SampleOf
<1>11. QED
  BY <1>9, <1>10, SampleMembers DEF rows, h, n

LEMMA DwellsAreRight == LogTyped => SamplesAreDwells
BY SampleIsDwell, DwellIsSample DEF SamplesAreDwells

-------------------------------------------------------------------------------

LEMMA LatestFacts ==
  ASSUME LogTyped, NEW S \in SUBSET DOMAIN events, S # {}
  PROVE  LatestOf(S) \in S /\ \A f \in S \ {LatestOf(S)} : Earlier(f, LatestOf(S))
<1> DEFINE rows == ByTime(S)
           n == Len(rows)
<1>1. InOrder(rows, S)
  BY OrderedRows
<1> HIDE DEF rows
<1>2. n \in 1 .. n /\ LatestOf(S) = rows[n]
  BY <1>1, LatestIsLast
<1>3. /\ n \in Nat
      /\ \A k \in 1 .. n : rows[k] \in S
      /\ \A k, m \in 1 .. n : Earlier(rows[k], rows[m]) <=> k < m
      /\ \A e \in S : \E k \in 1 .. n : rows[k] = e
  BY <1>1, RowsAreSequence DEF InOrder
<1> HIDE DEF n
<1>4. ASSUME NEW f \in S, f # rows[n] PROVE Earlier(f, rows[n])
  <2>1. PICK k \in 1 .. n : rows[k] = f
    BY <1>3
  <2>2. k < n
    BY <1>3, <1>4, <2>1
  <2>3. QED
    BY <1>2, <1>3, <2>1, <2>2
<1>5. QED
  BY <1>2, <1>3, <1>4

(* The board's danger: the seconds since the latest event, an arrival, are *)
(* a limit of a step at its station or more.                               *)
LEMMA DangerMeans ==
  ASSUME LogTyped, NEW j \in DOMAIN jobs, AtStation(j),
         events[LatestEvent(j)].phase = "arrived",
         NEW now \in Int, events[LatestEvent(j)].at <= now, ShowsDanger(j, now)
  PROVE  /\ Seconds(events[LatestEvent(j)].at, now) \in Nat
         /\ \E limit \in Threshold(events[LatestEvent(j)].station) :
              Seconds(events[LatestEvent(j)].at, now) >= limit
<1> DEFINE S == EventsOf(j)
           l == LatestEvent(j)
           s == events[l].station
           A == {e \in S : events[e].station = s /\ events[e].phase = "arrived"}
           r == <<jobs[j].pipeline, s>>
           d == Seconds(events[l].at, now)
<1>1. S \in SUBSET DOMAIN events /\ S # {}
  BY DEF EventsOf, AtStation
<1>2. l \in S /\ \A f \in S \ {l} : Earlier(f, l)
  BY <1>1, LatestFacts DEF LatestEvent
<1>3. l \in A /\ A \in SUBSET DOMAIN events
  BY <1>1, <1>2
<1>4. Board(j).arrivedAt = IF A # {} THEN ToIso(CapturedAt(LatestOf(A))) ELSE NoText
  BY DEF Board
<1>5. Board(j).maxDuration = IF r \in DOMAIN steps THEN steps[r].maxDuration ELSE None
  BY DEF Board
<1> HIDE DEF S, l, A
<1>6. LatestOf(A) = l
  <2>1. LatestOf(A) \in A /\ \A f \in A \ {LatestOf(A)} : Earlier(f, LatestOf(A))
    BY <1>3, LatestFacts
  <2>2. LatestOf(A) \in S
    BY <2>1 DEF A
  <2>3. \A e, f \in DOMAIN events : Earlier(e, f) => ~ Earlier(f, e)
    BY EarlierIsOrder
  <2>4. QED
    BY <1>1, <1>2, <1>3, <2>1, <2>2, <2>3
<1>7. DateMs(WithZ(Board(j).arrivedAt)) = events[l].at
  BY <1>3, <1>4, <1>6 DEF DateMs, WithZ, ToIso, CapturedAt, Text
<1>8. d \in Nat
  <2>1. events[l].at \in Int /\ events[l].at <= now
    BY <1>1, <1>2, EventFacts DEF l
  <2>2. QED
    BY <2>1, SecondsForward
<1>9. LiveDuration(j, now) \in {None, d}
  <2>1. LiveDuration(j, now) \in {None, Max({0, d})}
    BY <1>7 DEF LiveDuration
  <2> HIDE DEF d
  <2>2. Max({0, d}) = d
    BY <1>8, MaxPair
  <2>3. QED
    BY <2>1, <2>2
<1>10. /\ LiveDuration(j, now) # None /\ Board(j).maxDuration # None
       /\ LiveDuration(j, now) >= Board(j).maxDuration
  BY DEF ShowsDanger
<1>11. /\ r \in DOMAIN steps /\ steps[r].maxDuration # None /\ d >= steps[r].maxDuration
  BY <1>5, <1>9, <1>10
<1>12. steps[r].maxDuration \in Threshold(s)
  BY <1>11 DEF Threshold
<1>13. QED
  BY <1>8, <1>11, <1>12 DEF l

LEMMA ThresholdNat ==
  ASSUME LogTyped, NEW s
  PROVE  Threshold(s) \in SUBSET Nat
<1>1. \A k \in DOMAIN steps : steps[k] \in Step
  BY DEF LogTyped
<1>2. \A x \in Step : x.maxDuration \in Nat \cup {None}
  BY DEF Step
<1>3. QED
  BY <1>1, <1>2 DEF Threshold

-------------------------------------------------------------------------------

(* A step that gives a new id stores one event and leaves the steps alone. *)
LEMMA NewEvent ==
  ASSUME LogTyped, LogNext, lastEventId' # lastEventId
  PROVE  /\ lastEventId' \in Nat /\ lastEventId' \notin DOMAIN events
         /\ \A e \in DOMAIN events : e < lastEventId' /\ events'[e] = events[e]
         /\ DOMAIN events' = DOMAIN events \cup {lastEventId'}
         /\ events'[lastEventId'] \in Event
         /\ UNCHANGED steps
<1>1. PICK j \in JobIds, s \in Stations, phase \in Phases, at \in Times :
        CreateEvent(j, s, phase, at) \/ CrashInCreateEvent(j, s, phase, at)
  BY DEF LogNext, CreateStation, DeleteStation, ReplaceSteps, CreatePipeline, CreateJob, DeleteJob
<1>2. InsertEvent(j, s, phase, at) /\ UNCHANGED steps
  BY <1>1 DEF CreateEvent, CrashInCreateEvent
<1>3. lastEventId \in Nat /\ DOMAIN events \subseteq 1 .. lastEventId
  BY DEF LogTyped
<1>4. /\ lastEventId' = lastEventId + 1
      /\ events' = [e \in DOMAIN events \cup {lastEventId + 1} |->
                      IF e = lastEventId + 1
                      THEN [tray |-> j, station |-> s, phase |-> phase, at |-> at]
                      ELSE events[e]]
  BY <1>2 DEF InsertEvent
<1>5. \A e \in DOMAIN events : e < lastEventId + 1 /\ e # lastEventId + 1
  BY <1>3
<1>6. events'[lastEventId'] = [tray |-> j, station |-> s, phase |-> phase, at |-> at]
  BY <1>4
<1>7. events'[lastEventId'] \in Event
  BY <1>6 DEF Event
<1>8. QED
  BY <1>2, <1>3, <1>4, <1>5, <1>7

(* The new samples: one, when the new event ends an open visit and is the  *)
(* latest of its tray, whose latest event is no scan.                      *)
LEMMA OneMoreDwell ==
  ASSUME LogTyped, NEW n, n \notin DOMAIN events,
         DOMAIN events' = DOMAIN events \cup {n},
         \A e \in DOMAIN events : events'[e] = events[e],
         NEW l \in DOMAIN events, events[l].tray = events'[n].tray,
         events[l].station = events'[n].station, events[l].phase = "arrived",
         \A f \in EventsOf(events[l].tray) \ {l} : Earlier(f, l),
         \A f \in EventsOf(events[l].tray) : Earlier(f, n)' /\ ~ Earlier(n, f)',
         ~ Earlier(n, n)',
         events'[n].phase = "departed",
         NEW y, y = [id |-> n, station |-> events'[n].station,
                     seconds |-> Seconds(events[l].at, events'[n].at)]
  PROVE  \A i, x : IsDwell(x, i)' <=> IsDwell(x, i) \/ (i = events[l].tray /\ x = y)
<1> SUFFICES ASSUME NEW i, NEW x
             PROVE  IsDwell(x, i)' <=> IsDwell(x, i) \/ (i = events[l].tray /\ x = y)
  OBVIOUS
<1>1. PICK S, T, j : S = EventsOf(i) /\ T = EventsOf(i)' /\ j = events[l].tray
  OBVIOUS
<1>2. /\ S \in SUBSET DOMAIN events /\ n \notin S
      /\ T = IF i = j THEN S \cup {n} ELSE S
      /\ i = j => l \in S
  BY <1>1 DEF EventsOf
<1>3. \A a, b \in DOMAIN events : Earlier(a, b)' <=> Earlier(a, b)
  BY DEF Earlier
<1>4. i = j => /\ \A f \in S \ {l} : Earlier(f, l)
               /\ \A f \in S : Earlier(f, n)' /\ ~ Earlier(n, f)'
  BY <1>1
<1>5. /\ \A e, f \in DOMAIN events : Earlier(e, f) => ~ Earlier(f, e)
      /\ ~ Earlier(l, l)
  BY EarlierIsOrder
<1>6. \A e \in S : events'[e] = events[e]
  BY <1>2
<1>7. ASSUME NEW e \in S, NEW a
      PROVE  a \in OpenedBy(e, T)' <=> a \in OpenedBy(e, S)
  <2>1. a \in OpenedBy(e, T)' <=>
          /\ a \in T /\ events'[a].phase = "arrived" /\ events'[a].station = events'[e].station
          /\ Earlier(a, e)'
          /\ \A z \in T : ~ (/\ events'[z].station = events'[e].station
                             /\ events'[z].phase \in {"arrived", "departed"}
                             /\ Earlier(a, z)' /\ Earlier(z, e)')
    BY DEF OpenedBy
  <2>2. a \in OpenedBy(e, S) <=>
          /\ a \in S /\ events[a].phase = "arrived" /\ events[a].station = events[e].station
          /\ Earlier(a, e)
          /\ \A z \in S : ~ (/\ events[z].station = events[e].station
                             /\ events[z].phase \in {"arrived", "departed"}
                             /\ Earlier(a, z) /\ Earlier(z, e))
    BY DEF OpenedBy
  <2>3. a \in T /\ Earlier(a, e)' => a \in S
    BY <1>2, <1>4
  <2>4. \A z \in T : Earlier(z, e)' => z \in S
    BY <1>2, <1>4
  <2>5. \A z \in S : z \in T /\ z \in DOMAIN events
    BY <1>2
  <2>6. ASSUME a \in S
        PROVE  (\A z \in T : ~ (/\ events'[z].station = events'[e].station
                                /\ events'[z].phase \in {"arrived", "departed"}
                                /\ Earlier(a, z)' /\ Earlier(z, e)'))
               <=> (\A z \in S : ~ (/\ events[z].station = events[e].station
                                    /\ events[z].phase \in {"arrived", "departed"}
                                    /\ Earlier(a, z) /\ Earlier(z, e)))
    BY <1>3, <1>6, <2>4, <2>5, <2>6
  <2>7. a \in S => /\ events'[a] = events[a] /\ events'[e] = events[e]
                   /\ Earlier(a, e)' <=> Earlier(a, e)
    BY <1>3, <1>6, <2>5
  <2>8. QED
    BY <2>1, <2>2, <2>3, <2>5, <2>6, <2>7
<1>8. ASSUME NEW e \in S, events[e].phase = "scan", NEW b
      PROVE  b \in EndOf(e, T)' <=> b \in EndOf(e, S)
  <2>1. b \in EndOf(e, T)' <=>
          b \in T /\ Earlier(e, b)' /\ \A z \in T : ~ (Earlier(e, z)' /\ Earlier(z, b)')
    BY DEF EndOf
  <2>2. b \in EndOf(e, S) <=>
          b \in S /\ Earlier(e, b) /\ \A z \in S : ~ (Earlier(e, z) /\ Earlier(z, b))
    BY DEF EndOf
  <2>3. \A z \in S : z \in T /\ z \in DOMAIN events
    BY <1>2
  <2>4. i = j => e # l /\ Earlier(e, l)' /\ l \in T /\ Earlier(l, n)'
    BY <1>2, <1>3, <1>4, <1>8, <2>3
  <2>5. b = n => b \notin EndOf(e, T)' /\ b \notin EndOf(e, S)
    BY <1>2, <2>1, <2>2, <2>4
  <2>6. b \in S => \A z \in T : Earlier(z, b)' => z \in S
    BY <1>2, <1>4
  <2>7. ASSUME b \in S
        PROVE  (\A z \in T : ~ (Earlier(e, z)' /\ Earlier(z, b)'))
                 <=> (\A z \in S : ~ (Earlier(e, z) /\ Earlier(z, b)))
    BY <1>3, <2>3, <2>6, <2>7
  <2>8. b \in S => (Earlier(e, b)' <=> Earlier(e, b))
    BY <1>3, <2>3
  <2>9. b \in T => b \in S \/ b = n
    BY <1>2
  <2>10. QED
    BY <2>1, <2>2, <2>3, <2>5, <2>7, <2>8, <2>9
<1>9. ASSUME i = j, NEW a
      PROVE  a \in OpenedBy(n, T)' <=> a = l
  <2>1. a \in OpenedBy(n, T)' <=>
          /\ a \in T /\ events'[a].phase = "arrived" /\ events'[a].station = events'[n].station
          /\ Earlier(a, n)'
          /\ \A z \in T : ~ (/\ events'[z].station = events'[n].station
                             /\ events'[z].phase \in {"arrived", "departed"}
                             /\ Earlier(a, z)' /\ Earlier(z, n)')
    BY DEF OpenedBy
  <2>2. l \in S /\ l \in T /\ events'[l] = events[l] /\ Earlier(l, n)'
    BY <1>2, <1>4, <1>6, <1>9
  <2>3. \A z \in T : z = n \/ z = l \/ (z \in S /\ Earlier(z, l)' /\ ~ Earlier(l, z)')
    BY <1>2, <1>3, <1>4, <1>5, <1>9
  <2>4. ~ Earlier(l, l)'
    BY <1>3, <1>5
  <2>5. a = l => a \in OpenedBy(n, T)'
    BY <2>1, <2>2, <2>3, <2>4
  <2>6. a \in OpenedBy(n, T)' => a = l
    BY <2>1, <2>2, <2>3
  <2>7. QED
    BY <2>5, <2>6
<1>10. CASE x.id \in S
  <2> DEFINE e == x.id
  <2>1. e \in T /\ events'[e] = events[e] /\ x # y
    BY <1>2, <1>6, <1>10
  <2>2. \A a \in OpenedBy(e, S) : events'[a] = events[a]
    BY <1>6 DEF OpenedBy
  <2>3. \A b \in EndOf(e, S) : events'[b] = events[b]
    BY <1>6 DEF EndOf
  <2>4. (\E a \in OpenedBy(e, T)' : x.seconds = Seconds(events'[a].at, events'[e].at))
          <=> (\E a \in OpenedBy(e, S) : x.seconds = Seconds(events[a].at, events[e].at))
    BY <1>7, <1>10, <2>1, <2>2
  <2>5. events[e].phase = "scan" =>
          ((\E b \in EndOf(e, T)' : x.seconds = Seconds(events'[e].at, events'[b].at))
             <=> (\E b \in EndOf(e, S) : x.seconds = Seconds(events[e].at, events[b].at)))
    BY <1>8, <1>10, <2>1, <2>3
  <2>6. IsDwell(x, i)' <=>
          /\ x = [id |-> e, station |-> x.station, seconds |-> x.seconds]
          /\ e \in T /\ x.station = events'[e].station
          /\ \/ /\ events'[e].phase = "departed"
                /\ \E a \in OpenedBy(e, T)' : x.seconds = Seconds(events'[a].at, events'[e].at)
             \/ /\ events'[e].phase = "scan"
                /\ \E b \in EndOf(e, T)' : x.seconds = Seconds(events'[e].at, events'[b].at)
    BY <1>1 DEF IsDwell, Seconds
  <2>7. QED
    BY <1>1, <1>10, <2>1, <2>4, <2>5, <2>6 DEF IsDwell
<1>11. CASE x.id \notin S
  <2>1. ~ IsDwell(x, i)
    BY <1>1, <1>11 DEF IsDwell
  <2>2. ASSUME IsDwell(x, i)' PROVE i = j /\ x = y
    <3>1. x.id \in T
      BY <1>1, <2>2 DEF IsDwell
    <3>2. i = j /\ x.id = n
      BY <1>2, <1>11, <3>1
    <3>3. /\ x = [id |-> n, station |-> events'[n].station, seconds |-> x.seconds]
          /\ \E a \in OpenedBy(n, T)' : x.seconds = Seconds(events'[a].at, events'[n].at)
      BY <1>1, <2>2, <3>2 DEF IsDwell, Seconds
    <3>4. x.seconds = Seconds(events'[l].at, events'[n].at)
      BY <1>9, <3>2, <3>3
    <3>5. QED
      BY <3>2, <3>3, <3>4
  <2>3. ASSUME i = j, x = y PROVE IsDwell(x, i)'
    <3>1. n \in T /\ x.id = n /\ x.station = events'[n].station
          /\ x = [id |-> n, station |-> x.station, seconds |-> x.seconds]
      BY <1>2, <2>3
    <3>2. l \in OpenedBy(n, T)' /\ x.seconds = Seconds(events'[l].at, events'[n].at)
      BY <1>9, <2>3
    <3>3. QED
      BY <1>1, <3>1, <3>2 DEF IsDwell, Seconds
  <2>4. QED
    BY <1>1, <2>1, <2>2, <2>3
<1>12. QED
  BY <1>10, <1>11
(* The step that stores the end of a visit shown in danger.                *)
LEMMA DangerStep ==
  ASSUME LogTyped, SamplesAreDwells, SamplesAreDwells', LogNext,
         lastEventId' # lastEventId, EndsInDanger(events'[lastEventId'])
  PROVE  ThresholdViolations' = ThresholdViolations + 1
<1> DEFINE new == events'[lastEventId']
<1>1. PICK n, e, l, j, s :
        n = lastEventId' /\ e = new /\ l = LatestEvent(e.tray) /\ j = e.tray /\ s = e.station
  OBVIOUS
<1> HIDE DEF new
<1>2. /\ n \in Nat /\ n \notin DOMAIN events
      /\ \A f \in DOMAIN events : f < n /\ events'[f] = events[f]
      /\ DOMAIN events' = DOMAIN events \cup {n}
      /\ events'[n] = e /\ e \in Event
      /\ UNCHANGED steps
  BY <1>1, NewEvent DEF new
<1>3. e.tray \in JobIds /\ e.station \in Stations /\ e.at \in Int
  BY <1>2, LogAssumption DEF Event
<1>4. EndsInDanger(e)
  BY <1>1 DEF new
<1>5. /\ e.phase = "departed" /\ j \in DOMAIN jobs /\ AtStation(j) /\ ShowsDanger(j, e.at)
      /\ events[l].phase = "arrived" /\ events[l].station = s
      /\ events[l].tray = j /\ events[l].at <= e.at
  <2>1. PICK t \in {x \in Times : x <= e.at} :
          events[l] = [e EXCEPT !.phase = "arrived", !.at = t]
    BY <1>1, <1>4 DEF EndsInDanger
  <2>2. e = [tray |-> e.tray, station |-> e.station, phase |-> e.phase, at |-> e.at]
    BY <1>2 DEF Event
  <2>3. /\ events[l].phase = "arrived" /\ events[l].station = e.station
        /\ events[l].tray = e.tray /\ events[l].at = t
    BY <2>1, <2>2
  <2>4. QED
    BY <1>1, <1>4, <2>1, <2>3 DEF EndsInDanger
<1>6. l \in EventsOf(j) /\ l \in DOMAIN events /\ \A f \in EventsOf(j) \ {l} : Earlier(f, l)
  <2>1. EventsOf(j) \in SUBSET DOMAIN events /\ EventsOf(j) # {}
    BY <1>5 DEF EventsOf, AtStation
  <2>2. QED
    BY <1>1, <2>1, LatestFacts DEF LatestEvent
<1> DEFINE d == Seconds(events[l].at, e.at)
           y == [id |-> n, station |-> s, seconds |-> d]
<1>7. d \in Nat /\ \E limit \in Threshold(s) : d >= limit
  BY <1>1, <1>3, <1>5, DangerMeans
<1>8. \A i, x : x \in TraySamples(i)' <=> x \in TraySamples(i) \/ (i = j /\ x = y)
  <2>1. \A f \in DOMAIN events : events[f].at \in Int
    BY EventFacts
  <2>2. \A f \in EventsOf(j) : events[f].at <= e.at
    <3>1. \A f, g \in DOMAIN events : Earlier(f, g) => events[f].at <= events[g].at
      BY EarlierIsOrder
    <3>2. ASSUME NEW f \in EventsOf(j) PROVE events[f].at <= e.at
      <4>1. f \in DOMAIN events /\ (f = l \/ Earlier(f, l))
        BY <1>6 DEF EventsOf
      <4>2. events[f].at <= events[l].at
        BY <1>6, <2>1, <3>1, <4>1
      <4>3. QED
        BY <1>3, <1>5, <1>6, <2>1, <4>1, <4>2
    <3>3. QED
      BY <3>2
  <2>3. \A f \in EventsOf(j) : f \in DOMAIN events /\ f \in Nat
    BY EventFacts DEF EventsOf
  <2>4. ASSUME NEW f \in EventsOf(j) PROVE Earlier(f, n)' /\ ~ Earlier(n, f)'
    <3>1. /\ f \in DOMAIN events /\ f \in Nat /\ f < n /\ events'[f] = events[f]
          /\ events[f].at <= e.at /\ events[f].at \in Int
      BY <1>2, <2>1, <2>2, <2>3
    <3>2. QED
      BY <1>2, <1>3, <3>1 DEF Earlier
  <2>5. ~ Earlier(n, n)'
    BY <1>2, <1>3 DEF Earlier
  <2>6. y = [id |-> n, station |-> events'[n].station,
             seconds |-> Seconds(events[l].at, events'[n].at)]
    BY <1>1, <1>2
  <2> HIDE DEF y, d
  <2>7. \A i, x : IsDwell(x, i)' <=> IsDwell(x, i) \/ (i = events[l].tray /\ x = y)
    BY <1>1, <1>2, <1>5, <1>6, <2>4, <2>5, <2>6, OneMoreDwell
  <2>8. \A i, x : x \in TraySamples(i)' <=> IsDwell(x, i)'
    BY DEF SamplesAreDwells
  <2>9. \A i, x : x \in TraySamples(i) <=> IsDwell(x, i)
    BY DEF SamplesAreDwells
  <2>10. QED
    BY <1>5, <2>7, <2>8, <2>9
<1>9. /\ \A u : Threshold(u)' = Threshold(u)
      /\ d >= Min(Threshold(s)) /\ Threshold(s) # {}
  <2>1. \A u : Threshold(u)' = Threshold(u)
    BY <1>2 DEF Threshold
  <2>2. PICK limit \in Threshold(s) : d >= limit
    BY <1>7
  <2>3. Threshold(s) \in SUBSET Nat
    BY ThresholdNat
  <2> HIDE DEF d
  <2>4. Min(Threshold(s)) \in Nat /\ Min(Threshold(s)) <= limit /\ limit \in Nat
    BY <2>2, <2>3, MinNat
  <2>5. QED
    BY <1>7, <2>1, <2>2, <2>4
<1> HIDE DEF d
<1>10. y.id = n /\ y.station = s /\ y.seconds = d
  OBVIOUS
<1> HIDE DEF y
<1>11. \A u, x : x \in StationSamples(u)' <=> x \in StationSamples(u) \/ (u = s /\ x = y)
  <2>1. \A u, x : x \in StationSamples(u) <=> x.station = u /\ \E i \in JobIds : x \in TraySamples(i)
    BY DEF StationSamples, SamplesAt
  <2>2. \A u, x : x \in StationSamples(u)'
                    <=> x.station = u /\ \E i \in JobIds : x \in TraySamples(i)'
    BY DEF StationSamples, SamplesAt
  <2>3. j \in JobIds
    BY <1>1, <1>3
  <2>4. QED
    BY <1>8, <1>10, <2>1, <2>2, <2>3
<1> DEFINE all == UNION {AtThreshold(u) : u \in Stations}
<1>12. \A u, x : x \in AtThreshold(u)' <=> x \in AtThreshold(u) \/ (u = s /\ x = y)
  <2>1. \A u, x : x \in AtThreshold(u) <=>
          x \in StationSamples(u) /\ Threshold(u) # {} /\ x.seconds >= Min(Threshold(u))
    BY DEF AtThreshold
  <2>2. \A u, x : x \in AtThreshold(u)' <=>
          x \in StationSamples(u)' /\ Threshold(u) # {} /\ x.seconds >= Min(Threshold(u))
    BY <1>9 DEF AtThreshold
  <2>3. QED
    BY <1>9, <1>10, <1>11, <2>1, <2>2
<1>13. all' = all \cup {y}
  <2>1. s \in Stations
    BY <1>1, <1>3
  <2>2. \A x : x \in all <=> \E u \in Stations : x \in AtThreshold(u)
    OBVIOUS
  <2>3. \A x : x \in all' <=> \E u \in Stations : x \in AtThreshold(u)'
    OBVIOUS
  <2> HIDE DEF all
  <2>4. \A x : x \in all' <=> x \in all \/ x = y
    BY <1>12, <2>1, <2>2, <2>3
  <2>5. QED
    BY <2>4
<1>14. all \in SUBSET AllSamples
  <2>1. \A u : AtThreshold(u) \subseteq StationSamples(u)
    BY DEF AtThreshold
  <2>2. \A u : StationSamples(u) \subseteq AllSamples
    BY StationSamplesFinite
  <2>3. QED
    BY <2>1, <2>2
<1>15. ThresholdViolations = Cardinality(all) /\ ThresholdViolations' = Cardinality(all')
  BY DEF ThresholdViolations
<1> HIDE DEF all
<1>16. IsFiniteSet(all) /\ y \notin all
  <2>1. IsFiniteSet(AllSamples) /\ \A x \in AllSamples : x.id \in DOMAIN events
    BY SampleIds
  <2>2. QED
    BY <1>2, <1>10, <1>14, <2>1, FS_Subset
<1>17. Cardinality(all \cup {y}) = Cardinality(all) + 1
  BY <1>16, FS_AddElement
<1>18. QED
  BY <1>13, <1>15, <1>17

(* What the board shows in danger as it ends is counted once.              *)
THEOREM DangerCountedOnce == LogSpec => DangerIsCounted
<1>1. LogTyped /\ SamplesAreDwells /\ SamplesAreDwells' /\ [LogNext]_logVars
        => [lastEventId' # lastEventId /\ EndsInDanger(events'[lastEventId'])
              => ThresholdViolations' = ThresholdViolations + 1]_logVars
  <2> SUFFICES ASSUME LogTyped, SamplesAreDwells, SamplesAreDwells', [LogNext]_logVars,
                      lastEventId' # lastEventId, EndsInDanger(events'[lastEventId'])
               PROVE  ThresholdViolations' = ThresholdViolations + 1
    OBVIOUS
  <2>1. LogNext
    BY DEF logVars
  <2>2. QED
    BY <2>1, DangerStep
<1>2. QED
  BY <1>1, LogIsTyped, DwellsAreRight, PTL DEF LogSpec, DangerIsCounted

===============================================================================
