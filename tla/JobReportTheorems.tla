-------------------------- MODULE JobReportTheorems ---------------------------
(***************************************************************************)
(* What the program shows of a job, for every log a backend can have: the  *)
(* history, the board row and the job page agree with one another and with *)
(* the log, for any number of stations, jobs, events and steps, any times, *)
(* and any order in which the events were stored.                          *)
(***************************************************************************)
EXTENDS JobReports, EventLogTheorems

LEMMA EventFacts ==
  ASSUME LogTyped
  PROVE  /\ IsFiniteSet(DOMAIN events)
         /\ \A e \in DOMAIN events :
              /\ e \in Nat /\ events[e].at \in Int /\ events[e].tray \in JobIds
              /\ events[e].station \in Stations
              /\ events[e].phase \in {"scan", "arrived", "departed"}
<1>1. lastEventId \in Nat /\ DOMAIN events \in SUBSET (1 .. lastEventId)
  BY DEF LogTyped
<1>2. IsFiniteSet(1 .. lastEventId)
  BY <1>1, FS_Interval
<1>3. IsFiniteSet(DOMAIN events)
  BY <1>1, <1>2, FS_Subset
<1>4. ASSUME NEW e \in DOMAIN events
      PROVE  e \in Nat /\ events[e] \in Event
  BY <1>1 DEF LogTyped
<1>5. \A x \in Event : /\ x.at \in Int /\ x.tray \in JobIds /\ x.station \in Stations
                       /\ x.phase \in {"scan", "arrived", "departed"}
  BY LogAssumption DEF Event
<1>6. QED
  BY <1>3, <1>4, <1>5

(* The rows r are those of S, each one once, in the order of their times.  *)
InOrder(r, S) ==
  LET n == Cardinality(S)
  IN  /\ n \in Nat
      /\ r \in [1 .. n -> S]
      /\ \A k, m \in 1 .. n : k < m => Earlier(r[k], r[m])
      /\ \A e \in S : \E k \in 1 .. n : r[k] = e

LEMMA EarlierIsOrder ==
  ASSUME LogTyped
  PROVE  /\ \A e \in DOMAIN events : ~ Earlier(e, e)
         /\ \A e, f \in DOMAIN events : Earlier(e, f) => ~ Earlier(f, e)
         /\ \A e, f, g \in DOMAIN events : Earlier(e, f) /\ Earlier(f, g) => Earlier(e, g)
         /\ \A e, f \in DOMAIN events : e = f \/ Earlier(e, f) \/ Earlier(f, e)
         /\ \A e, f \in DOMAIN events : Earlier(e, f) => events[e].at <= events[f].at
<1>1. \A e \in DOMAIN events : e \in Nat /\ events[e].at \in Int
  BY EventFacts
<1>2. QED
  BY <1>1 DEF Earlier

(* ORDER BY gives the rows in order.                                       *)
LEMMA OrderedRows ==
  ASSUME LogTyped, NEW S \in SUBSET DOMAIN events
  PROVE  InOrder(ByTime(S), S)
<1> DEFINE before == [e \in S |-> {f \in S : Earlier(f, e)}]
           r == Ordered(S, before)
           n == Cardinality(S)
<1>1. IsFiniteSet(S)
  BY EventFacts, FS_Subset
<1>2. /\ \A e \in S : before[e] \in SUBSET S /\ e \notin before[e]
      /\ \A e, f \in S : e \in before[f] => before[e] \subseteq before[f]
      /\ \A e, f \in S : e = f \/ e \in before[f] \/ f \in before[e]
  BY EarlierIsOrder
<1>3. \A e, f \in S : e \in before[f] => Earlier(e, f)
  OBVIOUS
<1>4. ByTime(S) = r
  BY DEF ByTime
<1> HIDE DEF before
<1>5. /\ n \in Nat
      /\ r \in [1 .. n -> S]
      /\ \A k, m \in 1 .. n : k < m => r[k] \in before[r[m]]
      /\ \A x \in S : \E k \in 1 .. n : r[k] = x
  BY <1>1, <1>2, Ranked
<1> HIDE DEF r, n
<1>6. \A k, m \in 1 .. n : k < m => Earlier(r[k], r[m])
  BY <1>3, <1>5
<1>7. QED
  BY <1>4, <1>5, <1>6 DEF InOrder, n

-------------------------------------------------------------------------------

LEMMA MaxOfPlaces ==
  ASSUME NEW k \in Nat, NEW s \in SUBSET (1 .. k), s # {}
  PROVE  Max(s) \in s /\ \A i \in s : i <= Max(s)
<1>1. s \in SUBSET (0 .. k)
  OBVIOUS
<1>2. Max(s) \in s /\ \A i \in s : Max(s) >= i
  BY <1>1, MaxNat
<1>3. \A i \in s : i \in Nat
  OBVIOUS
<1>4. QED
  BY <1>2, <1>3

(* The loop over the rows of a tray runs from the first to the last: acc   *)
(* is what it has after each.                                              *)
LEMMA HistoryLoop ==
  ASSUME NEW n \in Nat, NEW rows, DOMAIN rows = 1 .. n
  PROVE  \E acc : /\ acc[0] = [pending |-> EmptyTable, entries |-> <<>>]
                  /\ \A k \in 1 .. n : acc[k] = HistoryRow(rows, acc[k - 1], k)
                  /\ HistoryOf(rows) = acc[n].entries
<1> DEFINE base == [pending |-> EmptyTable, entries |-> <<>>]
           ids == [i \in DOMAIN rows |-> i]
           Next(f, s) == IF s = {} THEN base
                         ELSE HistoryRow(rows, f[s \ {Max(s)}], ids[Max(s)])
           Folds(f, k) == f = [s \in SUBSET (1 .. k) |-> Next(f, s)]
           iter == CHOOSE f : f = [s \in SUBSET (DOMAIN ids) |-> Next(f, s)]
<1>1. HistoryOf(rows) = iter[DOMAIN ids].entries
  BY Zenon DEF HistoryOf, FoldLeftDomain, FoldLeft, MapThenFoldSet
<1>2. DOMAIN ids = 1 .. n /\ \A k \in 1 .. n : ids[k] = k
  OBVIOUS
<1>3. \E f : Folds(f, n)
  <2> DEFINE Bad == {k \in 0 .. n : ~ \E f : Folds(f, k)}
  <2> SUFFICES ASSUME ~ \E f : Folds(f, n) PROVE FALSE
    OBVIOUS
  <2>1. Bad # {}
    <3>1. n \in 0 .. n
      OBVIOUS
    <3>2. n \in Bad
      BY <3>1
    <3>3. QED
      BY <3>2
  <2>2. PICK m \in Bad : \A k \in Bad : m <= k
    <3>1. Bad \in SUBSET Nat
      OBVIOUS
    <3> HIDE DEF Bad
    <3>2. QED
      BY <2>1, <3>1, MinNat
  <2>3. m \in 0 .. n /\ ~ \E f : Folds(f, m)
    OBVIOUS
  <2>4. m # 0
    <3> DEFINE f == [s \in SUBSET (1 .. 0) |-> base]
    <3>1. 1 .. 0 = {}
      OBVIOUS
    <3>2. \A s \in SUBSET (1 .. 0) : Next(f, s) = base
      BY <3>1
    <3>3. Folds(f, 0)
      BY <3>2
    <3>4. QED
      BY <2>3, <3>3
  <2>5. m - 1 \in 0 .. n /\ ~ m <= m - 1
    BY <2>3, <2>4
  <2>6. PICK f : Folds(f, m - 1)
    BY <2>2, <2>5
  <2> DEFINE g == [s \in SUBSET (1 .. m) |->
                     IF m \in s THEN HistoryRow(rows, f[s \ {m}], ids[m]) ELSE f[s]]
  <2>7. ASSUME NEW s \in SUBSET (1 .. m)
        PROVE  g[s] = Next(g, s)
    <3>1. CASE m \in s
      <4>1. m \in Nat /\ s # {}
        BY <2>3, <3>1
      <4>2. Max(s) = m
        <5>1. Max(s) \in s /\ \A i \in s : i <= Max(s)
          BY <4>1, MaxOfPlaces
        <5>2. Max(s) \in 1 .. m /\ m <= Max(s)
          BY <3>1, <5>1
        <5>3. QED
          BY <4>1, <5>2
      <4>3. s \ {m} \in SUBSET (1 .. m) /\ m \notin s \ {m}
        OBVIOUS
      <4>4. g[s \ {m}] = f[s \ {m}]
        BY <4>3
      <4>5. g[s] = HistoryRow(rows, f[s \ {m}], ids[m])
        BY <3>1
      <4> HIDE DEF g
      <4>6. QED
        BY <4>1, <4>2, <4>4, <4>5
    <3>2. CASE m \notin s
      <4>1. s \in SUBSET (1 .. m - 1)
        <5>1. \A i \in s : i \in 1 .. m /\ i # m
          BY <3>2
        <5>2. QED
          BY <2>3, <5>1
      <4>2. g[s] = f[s] /\ f[s] = Next(f, s)
        BY <2>6, <3>2, <4>1
      <4>3. CASE s = {}
        BY <4>2, <4>3
      <4>4. CASE s # {}
        <5>1. s \ {Max(s)} \in SUBSET (1 .. m) /\ m \notin s \ {Max(s)}
          BY <3>2
        <5>2. g[s \ {Max(s)}] = f[s \ {Max(s)}]
          BY <5>1
        <5> HIDE DEF g
        <5>3. QED
          BY <4>2, <4>4, <5>2
      <4>5. QED
        BY <4>3, <4>4
    <3>3. QED
      BY <3>1, <3>2
  <2>8. Folds(g, m)
    <3>1. g = [s \in SUBSET (1 .. m) |-> g[s]]
      OBVIOUS
    <3> HIDE DEF g
    <3> HIDE DEF Next
    <3>2. QED
      BY <2>7, <3>1
  <2>9. QED
    BY <2>3, <2>8
<1>4. Folds(iter, n)
  <2>1. \A f : (f = [s \in SUBSET (DOMAIN ids) |-> Next(f, s)]) <=> Folds(f, n)
    BY <1>2
  <2>2. \E f : f = [s \in SUBSET (DOMAIN ids) |-> Next(f, s)]
    BY <1>3, <2>1
  <2>3. iter = [s \in SUBSET (DOMAIN ids) |-> Next(iter, s)]
    <3> HIDE DEF Next
    <3>1. QED
      BY <2>2, Zenon
  <2> HIDE DEF iter
  <2>4. QED
    BY <2>1, <2>3
<1> HIDE DEF iter
<1> DEFINE acc == [k \in 0 .. n |-> iter[1 .. k]]
<1>5. acc[0] = base
  <2>1. 1 .. 0 = {} /\ {} \in SUBSET (1 .. n) /\ 0 \in 0 .. n
    OBVIOUS
  <2>2. iter[{}] = Next(iter, {})
    BY <1>4, <2>1
  <2>3. QED
    BY <2>1, <2>2
<1>6. ASSUME NEW k \in 1 .. n
      PROVE  acc[k] = HistoryRow(rows, acc[k - 1], k)
  <2>1. /\ 1 .. k \in SUBSET (1 .. n) /\ k \in 1 .. k /\ k \in 0 .. n /\ k - 1 \in 0 .. n
        /\ k \in Nat /\ 1 .. k \in SUBSET (1 .. k)
    OBVIOUS
  <2>2. Max(1 .. k) = k
    <3>1. Max(1 .. k) \in 1 .. k /\ \A i \in 1 .. k : i <= Max(1 .. k)
      BY <2>1, MaxOfPlaces
    <3>2. QED
      BY <2>1, <3>1
  <2>3. (1 .. k) \ {k} = 1 .. (k - 1)
    BY <2>1
  <2>4. iter[1 .. k] = Next(iter, 1 .. k)
    BY <1>4, <2>1
  <2>5. iter[1 .. k] = HistoryRow(rows, iter[1 .. (k - 1)], k)
    BY <1>2, <2>1, <2>2, <2>3, <2>4
  <2>6. QED
    BY <2>1, <2>5
<1>7. HistoryOf(rows) = acc[n].entries
  BY <1>1, <1>2
<1>8. QED
  BY <1>5, <1>6, <1>7

-------------------------------------------------------------------------------

(* Row m is an arrival at station s from which no departure, and after     *)
(* which no other arrival there, is among the rows up to k.                *)
OpenArrival(rows, m, s, k) ==
  /\ m \in 1 .. k
  /\ events[rows[m]].station = s /\ events[rows[m]].phase = "arrived"
  /\ \A x \in 1 .. k : x > m /\ events[rows[x]].station = s => events[rows[x]].phase = "scan"

(* The arrivals that a loop over the rows of a tray has pending after k    *)
(* rows.                                                                   *)
PendingIs(rows, pending, k) ==
  /\ \A s \in DOMAIN pending : \E m \in 1 .. k : /\ OpenArrival(rows, m, s, k)
                                                 /\ pending[s] = events[rows[m]].at
  /\ \A s : (\E m \in 1 .. k : OpenArrival(rows, m, s, k)) => s \in DOMAIN pending

(* The seconds d that a report gives row k: for a departure those since    *)
(* the arrival that is open then, for a scan those until the next row.     *)
DwellIs(rows, k, d) ==
  LET s == events[rows[k]].station
  IN  /\ events[rows[k]].phase = "departed" =>
           \/ /\ \A m \in 1 .. k - 1 : ~ OpenArrival(rows, m, s, k - 1)
              /\ d = None
           \/ \E m \in 1 .. k - 1 : /\ OpenArrival(rows, m, s, k - 1)
                                    /\ d = Seconds(events[rows[m]].at, events[rows[k]].at)
      /\ events[rows[k]].phase = "scan" =>
           d = IF k < Len(rows) THEN Seconds(events[rows[k]].at, events[rows[k + 1]].at)
                                ELSE None
      /\ events[rows[k]].phase = "arrived" => d = None

LEMMA OpenOnce ==
  ASSUME NEW k \in Nat, NEW rows, NEW s, NEW m, NEW x,
         OpenArrival(rows, m, s, k), OpenArrival(rows, x, s, k)
  PROVE  m = x
BY DEF OpenArrival

(* What row k does to the open arrivals.                                   *)
LEMMA OpenStep ==
  ASSUME NEW k \in Nat \ {0}, NEW rows
  PROVE  LET e == events[rows[k]]
         IN  /\ \A s, m : e.phase = "scan" \/ s # e.station =>
                  (OpenArrival(rows, m, s, k) <=> OpenArrival(rows, m, s, k - 1))
             /\ \A m : e.phase = "departed" => ~ OpenArrival(rows, m, e.station, k)
             /\ \A m : e.phase = "arrived" => (OpenArrival(rows, m, e.station, k) <=> m = k)
<1> DEFINE e == events[rows[k]]
<1>0. k \in 1 .. k /\ k \in Nat /\ k - 1 \in Nat /\ 1 .. k = (1 .. k - 1) \cup {k}
      /\ \A m \in 1 .. k - 1 : k > m
  OBVIOUS
<1>1. ASSUME NEW s, NEW m, e.phase = "scan" \/ s # e.station
      PROVE  OpenArrival(rows, m, s, k) <=> OpenArrival(rows, m, s, k - 1)
  <2>1. ASSUME OpenArrival(rows, m, s, k) PROVE OpenArrival(rows, m, s, k - 1)
    <3>1. m # k
      BY <1>1, <2>1 DEF OpenArrival
    <3>2. QED
      BY <1>0, <2>1, <3>1 DEF OpenArrival
  <2>2. ASSUME OpenArrival(rows, m, s, k - 1) PROVE OpenArrival(rows, m, s, k)
    BY <1>0, <1>1, <2>2 DEF OpenArrival
  <2>3. QED
    BY <2>1, <2>2
<1>2. ASSUME NEW m, e.phase = "departed"
      PROVE  ~ OpenArrival(rows, m, e.station, k)
  BY <1>0, <1>2 DEF OpenArrival
<1>3. ASSUME NEW m, e.phase = "arrived"
      PROVE  OpenArrival(rows, m, e.station, k) <=> m = k
  BY <1>0, <1>3 DEF OpenArrival
<1>4. QED
  BY <1>1, <1>2, <1>3

(* The two loops update what is pending alike, and rightly.                *)
LEMMA PendingStep ==
  ASSUME NEW k \in Nat \ {0}, NEW rows, NEW p, NEW q, PendingIs(rows, p, k - 1),
         LET e == events[rows[k]]
         IN  CASE e.phase = "departed" -> q = Restrict(p, DOMAIN p \ {e.station})
               [] e.phase = "arrived" -> q = [u \in DOMAIN p \cup {e.station} |->
                                                IF u = e.station THEN e.at ELSE p[u]]
               [] OTHER -> q = p,
         events[rows[k]].phase \in {"scan", "arrived", "departed"}
  PROVE  PendingIs(rows, q, k)
<1> DEFINE e == events[rows[k]]
<1>0. k \in 1 .. k /\ 1 .. k - 1 \subseteq 1 .. k /\ \A m, s : OpenArrival(rows, m, s, k - 1) => m \in 1 .. k - 1
  BY DEF OpenArrival
<1>1. CASE e.phase = "scan"
  <2>1. q = p
    BY <1>1
  <2>2. \A s, m : OpenArrival(rows, m, s, k) <=> OpenArrival(rows, m, s, k - 1)
    BY <1>1, OpenStep
  <2>3. QED
    BY <1>0, <2>1, <2>2 DEF PendingIs
<1>2. CASE e.phase = "departed"
  <2>1. DOMAIN q = DOMAIN p \ {e.station} /\ \A s \in DOMAIN q : q[s] = p[s]
    BY <1>2 DEF Restrict
  <2>2. \A s, m : OpenArrival(rows, m, s, k) <=> s # e.station /\ OpenArrival(rows, m, s, k - 1)
    BY <1>2, OpenStep
  <2>3. QED
    BY <1>0, <2>1, <2>2 DEF PendingIs
<1>3. CASE e.phase = "arrived"
  <2>1. /\ DOMAIN q = DOMAIN p \cup {e.station} /\ q[e.station] = e.at
        /\ \A s \in DOMAIN q \ {e.station} : s \in DOMAIN p /\ q[s] = p[s]
    BY <1>3
  <2>2. /\ \A s, m : s # e.station =>
             (OpenArrival(rows, m, s, k) <=> OpenArrival(rows, m, s, k - 1))
        /\ OpenArrival(rows, k, e.station, k)
    BY <1>3, OpenStep
  <2>3. ASSUME NEW s \in DOMAIN q
        PROVE  \E m \in 1 .. k : OpenArrival(rows, m, s, k) /\ q[s] = events[rows[m]].at
    <3>1. CASE s = e.station
      BY <1>0, <2>1, <2>2, <3>1
    <3>2. CASE s # e.station
      BY <1>0, <2>1, <2>2, <3>2 DEF PendingIs
    <3>3. QED
      BY <3>1, <3>2
  <2>4. ASSUME NEW s, NEW m \in 1 .. k, OpenArrival(rows, m, s, k)
        PROVE  s \in DOMAIN q
    <3>1. CASE s = e.station
      BY <2>1, <3>1
    <3>2. CASE s # e.station
      <4>1. OpenArrival(rows, m, s, k - 1)
        BY <2>2, <2>4, <3>2
      <4>2. QED
        BY <1>0, <2>1, <4>1 DEF PendingIs
    <3>3. QED
      BY <3>1, <3>2
  <2>5. QED
    BY <2>3, <2>4 DEF PendingIs
<1>4. QED
  BY <1>1, <1>2, <1>3

-------------------------------------------------------------------------------

LEMMA RowsAreSequence ==
  ASSUME LogTyped, NEW S \in SUBSET DOMAIN events, NEW rows, InOrder(rows, S)
  PROVE  /\ rows \in Seq(S) /\ Len(rows) = Cardinality(S) /\ DOMAIN rows = 1 .. Len(rows)
         /\ Len(rows) \in Nat
         /\ \A k \in 1 .. Len(rows) : rows[k] \in S /\ rows[k] \in DOMAIN events
         /\ \A k, m \in 1 .. Len(rows) : k < m => events[rows[k]].at <= events[rows[m]].at
         /\ \A k, m \in 1 .. Len(rows) : rows[k] = rows[m] => k = m
         /\ \A k, m \in 1 .. Len(rows) : Earlier(rows[k], rows[m]) <=> k < m
<1> DEFINE n == Cardinality(S)
<1>1. n \in Nat /\ rows \in [1 .. n -> S]
  BY DEF InOrder
<1>2. rows \in Seq(S) /\ Len(rows) = n /\ DOMAIN rows = 1 .. n
  BY <1>1
<1>3. \A k \in 1 .. n : rows[k] \in S /\ rows[k] \in DOMAIN events
  BY <1>1
<1>4. \A k, m \in 1 .. n : k < m => Earlier(rows[k], rows[m])
  BY DEF InOrder
<1>5. \A k, m \in 1 .. n : k < m => /\ events[rows[k]].at <= events[rows[m]].at
                                    /\ ~ Earlier(rows[m], rows[k])
  BY <1>3, <1>4, EarlierIsOrder
<1>6. \A k, m \in 1 .. n : k = m \/ k < m \/ m < k
  OBVIOUS
<1>7. \A k \in 1 .. n : ~ Earlier(rows[k], rows[k])
  BY <1>3, EarlierIsOrder
<1>8. \A k, m \in 1 .. n : rows[k] = rows[m] => k = m
  BY <1>4, <1>6, <1>7
<1>9. \A k, m \in 1 .. n : Earlier(rows[k], rows[m]) <=> k < m
  BY <1>4, <1>5, <1>6, <1>7
<1>10. QED
  BY <1>1, <1>2, <1>3, <1>5, <1>8, <1>9

(* A time survives the formats between the log and a loop.                 *)
LEMMA ParsedTime ==
  ASSUME NEW e
  PROVE  ParseUtcMs(CapturedAt(e)) = events[e].at
BY DEF ParseUtcMs, CapturedAt, DateMs, WithZ, ToIso, Text

LEMMA SecondsForward ==
  ASSUME NEW a \in Int, NEW b \in Int, a <= b
  PROVE  Seconds(a, b) \in Nat
<1>1. b - a \in Nat
  OBVIOUS
<1>2. QED
  BY <1>1, SecondAssumption DEF Seconds

(* What the loops compute for row k with what they have pending.           *)
LoopDwell(rows, pending, k) ==
  LET e == events[rows[k]]
  IN  CASE e.phase = "departed" -> IF e.station \in DOMAIN pending
                                   THEN Seconds(pending[e.station], e.at) ELSE None
        [] e.phase = "scan" -> IF k < Len(rows) THEN Seconds(e.at, events[rows[k + 1]].at)
                                                ELSE None
        [] OTHER -> None

LEMMA DwellIsRight ==
  ASSUME LogTyped, NEW S \in SUBSET DOMAIN events, NEW rows, InOrder(rows, S),
         NEW k \in 1 .. Len(rows), NEW p, PendingIs(rows, p, k - 1)
  PROVE  /\ LoopDwell(rows, p, k) \in Nat \cup {None}
         /\ DwellIs(rows, k, LoopDwell(rows, p, k))
<1> DEFINE e == events[rows[k]]
           d == LoopDwell(rows, p, k)
<1>0. /\ Len(rows) \in Nat /\ k \in Nat /\ k - 1 \in Nat
      /\ \A m \in 1 .. Len(rows) : rows[m] \in DOMAIN events
      /\ \A m, x \in 1 .. Len(rows) : m < x => events[rows[m]].at <= events[rows[x]].at
  <2>1. /\ Len(rows) \in Nat
        /\ \A m \in 1 .. Len(rows) : rows[m] \in DOMAIN events
        /\ \A m, x \in 1 .. Len(rows) : m < x => events[rows[m]].at <= events[rows[x]].at
    BY RowsAreSequence
  <2>2. k \in Nat /\ k - 1 \in Nat
    BY <2>1
  <2>3. QED
    BY <2>1, <2>2
<1>1. /\ \A m \in 1 .. Len(rows) : events[rows[m]].at \in Int
      /\ e.phase \in {"scan", "arrived", "departed"}
  BY <1>0, EventFacts
<1>2. CASE e.phase = "departed"
  <2>1. CASE e.station \in DOMAIN p
    <3>1. PICK m \in 1 .. k - 1 : OpenArrival(rows, m, e.station, k - 1)
                                  /\ p[e.station] = events[rows[m]].at
      BY <2>1 DEF PendingIs
    <3>2. d = Seconds(events[rows[m]].at, e.at)
      BY <1>2, <2>1, <3>1 DEF LoopDwell
    <3>3. m \in 1 .. Len(rows) /\ m < k
      BY <1>0
    <3>4. d \in Nat
      BY <1>0, <1>1, <3>2, <3>3, SecondsForward
    <3> HIDE DEF d
    <3>5. QED
      BY <1>2, <3>1, <3>2, <3>4 DEF DwellIs, d
  <2>2. CASE e.station \notin DOMAIN p
    <3>1. d = None
      BY <1>2, <2>2 DEF LoopDwell
    <3>2. \A m \in 1 .. k - 1 : ~ OpenArrival(rows, m, e.station, k - 1)
      BY <2>2 DEF PendingIs
    <3>3. QED
      BY <1>2, <3>1, <3>2 DEF DwellIs
  <2>3. QED
    BY <2>1, <2>2
<1>3. CASE e.phase = "scan"
  <2>1. d = IF k < Len(rows) THEN Seconds(e.at, events[rows[k + 1]].at) ELSE None
    BY <1>3 DEF LoopDwell
  <2>2. ASSUME k < Len(rows) PROVE d \in Nat
    <3>1. k + 1 \in 1 .. Len(rows) /\ k < k + 1
      BY <1>0, <2>2
    <3>2. QED
      BY <1>0, <1>1, <2>1, <2>2, <3>1, SecondsForward
  <2>3. QED
    BY <1>3, <2>1, <2>2 DEF DwellIs
<1>4. CASE e.phase = "arrived"
  BY <1>4 DEF DwellIs, LoopDwell
<1>5. QED
  BY <1>1, <1>2, <1>3, <1>4

-------------------------------------------------------------------------------

Timeline == [id : Nat, phase : {"scan", "arrived", "departed"}, station : Stations,
             duration : Nat \cup {None}]

(* What the loop of the history has after k rows.                          *)
HistoryIs(rows, acc, k) ==
  /\ PendingIs(rows, acc.pending, k)
  /\ acc.entries \in Seq(Timeline) /\ Len(acc.entries) = k
  /\ \A m \in 1 .. k : LET h == acc.entries[m]
                       IN  h = HistoryEntry(rows[m], h.duration) /\ DwellIs(rows, m, h.duration)

LEMMA EntryTyped ==
  ASSUME LogTyped, NEW e \in DOMAIN events, NEW d \in Nat \cup {None}
  PROVE  HistoryEntry(e, d) \in Timeline
BY EventFacts DEF HistoryEntry, Timeline

LEMMA HistoryStep ==
  ASSUME LogTyped, NEW S \in SUBSET DOMAIN events, NEW rows, InOrder(rows, S),
         NEW k \in 1 .. Len(rows), NEW acc, HistoryIs(rows, acc, k - 1)
  PROVE  HistoryIs(rows, HistoryRow(rows, acc, k), k)
<1> DEFINE e == events[rows[k]]
           s == e.station
           d == LoopDwell(rows, acc.pending, k)
           q == CASE e.phase = "departed" -> Restrict(acc.pending, DOMAIN acc.pending \ {s})
                  [] e.phase = "arrived" -> [u \in DOMAIN acc.pending \cup {s} |->
                                               IF u = s THEN e.at ELSE acc.pending[u]]
                  [] OTHER -> acc.pending
           new == [pending |-> q, entries |-> Append(acc.entries, HistoryEntry(rows[k], d))]
<1>0. /\ k \in Nat \ {0} /\ k - 1 \in Nat /\ 1 .. k = (1 .. k - 1) \cup {k}
      /\ rows[k] \in DOMAIN events /\ e.phase \in {"scan", "arrived", "departed"}
  <2>1. rows[k] \in DOMAIN events /\ Len(rows) \in Nat
    BY RowsAreSequence
  <2>2. e.phase \in {"scan", "arrived", "departed"}
    BY <2>1, EventFacts
  <2>3. QED
    BY <2>1, <2>2
<1>1. HistoryRow(rows, acc, k) = new
  <2>1. CASE e.phase = "departed"
    BY <2>1, ParsedTime DEF HistoryRow, VisitEnded, LoopDwell
  <2>2. CASE e.phase = "arrived"
    BY <2>2, ParsedTime DEF HistoryRow, VisitBegun, LoopDwell
  <2>3. CASE e.phase = "scan"
    <3>1. d = IF k < Len(rows)
              THEN Seconds(ParseUtcMs(CapturedAt(rows[k])), ParseUtcMs(CapturedAt(rows[k + 1])))
              ELSE None
      BY <2>3, ParsedTime DEF LoopDwell
    <3> HIDE DEF d
    <3>2. q = acc.pending
      BY <2>3
    <3>3. e.phase # "departed" /\ e.phase # "arrived"
      BY <2>3
    <3>4. QED
      BY <3>1, <3>2, <3>3, Zenon DEF HistoryRow
  <2> HIDE DEF new
  <2>4. QED
    BY <1>0, <2>1, <2>2, <2>3
<1>2. PendingIs(rows, acc.pending, k - 1)
  BY DEF HistoryIs
<1>3. PendingIs(rows, q, k)
  <2> DEFINE p == acc.pending
  <2> HIDE DEF p
  <2>1. PendingIs(rows, p, k - 1)
    BY <1>2 DEF p
  <2>2. q = CASE e.phase = "departed" -> Restrict(p, DOMAIN p \ {s})
              [] e.phase = "arrived" -> [u \in DOMAIN p \cup {s} |->
                                           IF u = s THEN e.at ELSE p[u]]
              [] OTHER -> p
    BY DEF p
  <2> HIDE DEF q
  <2>3. CASE e.phase = "departed"
    BY <1>0, <2>1, <2>2, <2>3, PendingStep
  <2>4. CASE e.phase = "arrived"
    BY <1>0, <2>1, <2>2, <2>4, PendingStep
  <2>5. CASE e.phase = "scan"
    BY <1>0, <2>1, <2>2, <2>5, PendingStep
  <2>6. QED
    BY <1>0, <2>3, <2>4, <2>5
<1>4. d \in Nat \cup {None} /\ DwellIs(rows, k, d)
  BY <1>2, DwellIsRight
<1> DEFINE h == HistoryEntry(rows[k], d)
           t == Append(acc.entries, h)
<1>5. h \in Timeline /\ h.duration = d
  <2>1. h \in Timeline
    BY <1>0, <1>4, EntryTyped
  <2>2. QED
    BY <2>1 DEF HistoryEntry
<1>6. acc.entries \in Seq(Timeline) /\ Len(acc.entries) = k - 1
  BY DEF HistoryIs
<1> HIDE DEF d
<1>7. /\ t \in Seq(Timeline) /\ Len(t) = k /\ t[k] = h
      /\ \A m \in 1 .. k - 1 : t[m] = acc.entries[m]
  <2> HIDE DEF h
  <2>1. QED
    BY <1>0, <1>5, <1>6
<1>8. \A m \in 1 .. k : t[m] = HistoryEntry(rows[m], t[m].duration) /\ DwellIs(rows, m, t[m].duration)
  <2>1. \A m \in 1 .. k - 1 : /\ acc.entries[m] = HistoryEntry(rows[m], acc.entries[m].duration)
                              /\ DwellIs(rows, m, acc.entries[m].duration)
    BY DEF HistoryIs
  <2>2. t[k] = HistoryEntry(rows[k], d) /\ t[k].duration = d
    BY <1>5, <1>7
  <2> HIDE DEF t, h
  <2>3. QED
    BY <1>0, <1>4, <1>7, <2>1, <2>2
<1>9. new.pending = q /\ new.entries = t
  BY DEF d
<1> HIDE DEF new, t, q
<1>10. QED
  BY <1>1, <1>3, <1>7, <1>8, <1>9 DEF HistoryIs

(* The history of a tray, entry by entry.                                  *)
LEMMA HistoryFacts ==
  ASSUME LogTyped, NEW S \in SUBSET DOMAIN events, NEW rows, InOrder(rows, S)
  PROVE  /\ HistoryOf(rows) \in Seq(Timeline) /\ Len(HistoryOf(rows)) = Len(rows)
         /\ \A m \in 1 .. Len(rows) :
              LET h == HistoryOf(rows)[m]
              IN  h = HistoryEntry(rows[m], h.duration) /\ DwellIs(rows, m, h.duration)
<1> DEFINE n == Len(rows)
<1>1. n \in Nat /\ DOMAIN rows = 1 .. n
  BY RowsAreSequence
<1>2. PICK acc : /\ acc[0] = [pending |-> EmptyTable, entries |-> <<>>]
                 /\ \A k \in 1 .. n : acc[k] = HistoryRow(rows, acc[k - 1], k)
                 /\ HistoryOf(rows) = acc[n].entries
  BY <1>1, HistoryLoop
<1> HIDE DEF n
<1> DEFINE Bad == {k \in 0 .. n : ~ HistoryIs(rows, acc[k], k)}
<1>3. HistoryIs(rows, acc[0], 0)
  <2>1. acc[0].pending = EmptyTable /\ acc[0].entries = <<>>
    BY <1>2
  <2>2. PendingIs(rows, EmptyTable, 0)
    BY DEF PendingIs, EmptyTable, OpenArrival
  <2>3. <<>> \in Seq(Timeline) /\ Len(<<>>) = 0 /\ 1 .. 0 = {}
    OBVIOUS
  <2>4. QED
    BY <2>1, <2>2, <2>3 DEF HistoryIs
<1>4. Bad = {}
  <2> SUFFICES ASSUME Bad # {} PROVE FALSE
    OBVIOUS
  <2>1. PICK m \in Bad : \A k \in Bad : m <= k
    <3>1. Bad \in SUBSET Nat
      BY <1>1
    <3> HIDE DEF Bad
    <3>2. QED
      BY <3>1, MinNat
  <2>2. m \in 0 .. n /\ ~ HistoryIs(rows, acc[m], m) /\ m # 0
    BY <1>3
  <2>3. m \in 1 .. n /\ m - 1 \in 0 .. n /\ ~ m <= m - 1
    BY <1>1, <2>2
  <2>4. HistoryIs(rows, acc[m - 1], m - 1)
    BY <2>1, <2>3
  <2>5. HistoryIs(rows, HistoryRow(rows, acc[m - 1], m), m)
    BY <2>3, <2>4, HistoryStep DEF n
  <2>6. QED
    BY <1>2, <2>2, <2>3, <2>5
<1>5. HistoryIs(rows, acc[n], n)
  BY <1>1, <1>4
<1>6. QED
  BY <1>2, <1>5 DEF HistoryIs, n

-------------------------------------------------------------------------------

(* What HistoryFollowsVisits says of the log in terms of the rows.         *)
LEMMA OpenedByOpen ==
  ASSUME LogTyped, NEW S \in SUBSET DOMAIN events, NEW rows, InOrder(rows, S),
         NEW k \in 1 .. Len(rows), NEW m \in 1 .. Len(rows)
  PROVE  rows[m] \in OpenedBy(rows[k], S)
           <=> OpenArrival(rows, m, events[rows[k]].station, k - 1)
<1> DEFINE s == events[rows[k]].station
<1>1. /\ Len(rows) \in Nat
      /\ \A x \in 1 .. Len(rows) : rows[x] \in S /\ rows[x] \in DOMAIN events
      /\ \A x, y \in 1 .. Len(rows) : Earlier(rows[x], rows[y]) <=> x < y
      /\ \A e \in S : \E x \in 1 .. Len(rows) : rows[x] = e
  BY RowsAreSequence DEF InOrder
<1>2. \A x \in 1 .. Len(rows) : events[rows[x]].phase \in {"scan", "arrived", "departed"}
  BY <1>1, EventFacts
<1>3. ASSUME rows[m] \in OpenedBy(rows[k], S) PROVE OpenArrival(rows, m, s, k - 1)
  <2>1. /\ events[rows[m]].phase = "arrived" /\ events[rows[m]].station = s /\ m < k
        /\ \A x \in S : ~ (/\ events[x].station = s
                           /\ events[x].phase \in {"arrived", "departed"}
                           /\ Earlier(rows[m], x) /\ Earlier(x, rows[k]))
    BY <1>1, <1>3 DEF OpenedBy
  <2>2. ASSUME NEW x \in 1 .. k - 1, x > m, events[rows[x]].station = s
        PROVE  events[rows[x]].phase = "scan"
    <3>1. x \in 1 .. Len(rows) /\ m < x /\ x < k
      BY <1>1, <2>2
    <3>2. QED
      BY <1>1, <1>2, <2>1, <2>2, <3>1
  <2>3. m \in 1 .. k - 1
    BY <2>1
  <2>4. QED
    BY <2>1, <2>2, <2>3 DEF OpenArrival
<1>4. ASSUME OpenArrival(rows, m, s, k - 1) PROVE rows[m] \in OpenedBy(rows[k], S)
  <2>1. /\ m \in 1 .. k - 1 /\ m < k
        /\ events[rows[m]].station = s /\ events[rows[m]].phase = "arrived"
        /\ \A x \in 1 .. k - 1 : x > m /\ events[rows[x]].station = s
                                   => events[rows[x]].phase = "scan"
    BY <1>4 DEF OpenArrival
  <2>2. ASSUME NEW e \in S, events[e].station = s, events[e].phase \in {"arrived", "departed"},
               Earlier(rows[m], e), Earlier(e, rows[k])
        PROVE  FALSE
    <3>1. PICK x \in 1 .. Len(rows) : rows[x] = e
      BY <1>1
    <3>2. m < x /\ x < k
      BY <1>1, <2>2, <3>1
    <3>3. x \in 1 .. k - 1 /\ x > m
      BY <1>1, <3>2
    <3>4. QED
      BY <2>1, <2>2, <3>1, <3>3
  <2>3. QED
    BY <1>1, <2>1, <2>2 DEF OpenedBy
<1>5. QED
  BY <1>3, <1>4

LEMMA EndOfNext ==
  ASSUME LogTyped, NEW S \in SUBSET DOMAIN events, NEW rows, InOrder(rows, S),
         NEW k \in 1 .. Len(rows)
  PROVE  EndOf(rows[k], S) = IF k < Len(rows) THEN {rows[k + 1]} ELSE {}
<1>1. /\ Len(rows) \in Nat
      /\ \A x \in 1 .. Len(rows) : rows[x] \in S
      /\ \A x, y \in 1 .. Len(rows) : Earlier(rows[x], rows[y]) <=> x < y
      /\ \A e \in S : \E x \in 1 .. Len(rows) : rows[x] = e
  BY RowsAreSequence DEF InOrder
<1>2. ASSUME k < Len(rows) PROVE rows[k + 1] \in EndOf(rows[k], S)
  <2>1. k + 1 \in 1 .. Len(rows) /\ k < k + 1
    BY <1>1, <1>2
  <2>2. ASSUME NEW y \in S, Earlier(rows[k], y), Earlier(y, rows[k + 1]) PROVE FALSE
    <3>1. PICK x \in 1 .. Len(rows) : rows[x] = y
      BY <1>1
    <3>2. k < x /\ x < k + 1
      BY <1>1, <2>1, <2>2, <3>1
    <3>3. QED
      BY <1>1, <3>2
  <2>3. QED
    BY <1>1, <2>1, <2>2 DEF EndOf
<1>3. ASSUME NEW e \in EndOf(rows[k], S) PROVE k < Len(rows) /\ e = rows[k + 1]
  <2>1. /\ e \in S /\ Earlier(rows[k], e)
        /\ \A y \in S : ~ (Earlier(rows[k], y) /\ Earlier(y, e))
    BY <1>3 DEF EndOf
  <2>2. PICK x \in 1 .. Len(rows) : rows[x] = e
    BY <1>1, <2>1
  <2>3. k < x
    BY <1>1, <2>1, <2>2
  <2>4. k + 1 \in 1 .. Len(rows) /\ k < Len(rows) /\ k < k + 1
    BY <1>1, <2>3
  <2>5. ~ k + 1 < x
    BY <1>1, <2>1, <2>2, <2>4
  <2>6. x = k + 1
    BY <1>1, <2>3, <2>5
  <2>7. QED
    BY <2>2, <2>4, <2>6
<1>4. QED
  BY <1>2, <1>3

LEMMA HistoryIsRight == LogTyped => HistoryFollowsVisits
<1> SUFFICES ASSUME LogTyped, NEW j \in DOMAIN jobs, NEW h \in ToSet(History(j))
             PROVE  LET S == EventsOf(j)
                    IN  CASE h.phase = "departed" ->
                               IF h.duration = None THEN OpenedBy(h.id, S) = {}
                               ELSE {h.duration} = SecondsFrom(OpenedBy(h.id, S), {h.id})
                          [] h.phase = "scan" ->
                               IF h.duration = None THEN EndOf(h.id, S) = {}
                               ELSE {h.duration} = SecondsFrom({h.id}, EndOf(h.id, S))
                          [] OTHER -> h.duration = None
  BY DEF HistoryFollowsVisits
<1> DEFINE S == EventsOf(j)
           rows == RowsOf(j)
<1>1. S \in SUBSET DOMAIN events
  BY DEF EventsOf
<1>2. InOrder(rows, S)
  BY <1>1, OrderedRows DEF RowsOf
<1> HIDE DEF S, rows
<1>3. PICK k \in 1 .. Len(rows) : h = HistoryOf(rows)[k]
  <2>1. Len(HistoryOf(rows)) = Len(rows) /\ HistoryOf(rows) \in Seq(Timeline)
    BY <1>1, <1>2, HistoryFacts
  <2>2. h \in ToSet(HistoryOf(rows))
    BY DEF History, rows
  <2>3. QED
    BY <2>1, <2>2 DEF ToSet
<1>4. h = HistoryEntry(rows[k], h.duration) /\ DwellIs(rows, k, h.duration) /\ h \in Timeline
  BY <1>1, <1>2, <1>3, HistoryFacts
<1>5. h.id = rows[k] /\ h.phase = events[rows[k]].phase /\ h.station = events[rows[k]].station
  BY <1>4 DEF HistoryEntry
<1>6. /\ Len(rows) \in Nat /\ \A x \in 1 .. Len(rows) : rows[x] \in DOMAIN events
      /\ \A x \in S : \E y \in 1 .. Len(rows) : rows[y] = x
      /\ \A x, y \in 1 .. Len(rows) : x < y => events[rows[x]].at <= events[rows[y]].at
  BY <1>1, <1>2, RowsAreSequence DEF InOrder
<1>7. h.duration = None \/ h.duration \in Nat
  BY <1>4 DEF Timeline
<1>0. /\ \A x \in 1 .. Len(rows) : events[rows[x]].at \in Int
      /\ h.phase \in {"scan", "arrived", "departed"}
  BY <1>5, <1>6, EventFacts
<1>8. CASE h.phase = "departed"
  <2> DEFINE s == events[rows[k]].station
  <2>1. CASE \A m \in 1 .. k - 1 : ~ OpenArrival(rows, m, s, k - 1)
    <3>1. h.duration = None
      BY <1>4, <1>5, <1>8, <2>1 DEF DwellIs
    <3>2. ASSUME NEW a \in OpenedBy(rows[k], S) PROVE FALSE
      <4>1. a \in S
        BY <3>2 DEF OpenedBy
      <4>2. PICK m \in 1 .. Len(rows) : rows[m] = a
        BY <1>6, <4>1
      <4>3. OpenArrival(rows, m, s, k - 1)
        BY <1>1, <1>2, <3>2, <4>2, OpenedByOpen
      <4>4. QED
        BY <2>1, <4>3 DEF OpenArrival
    <3>3. QED
      BY <1>5, <1>8, <3>1, <3>2 DEF S
  <2>2. CASE \E m \in 1 .. k - 1 : OpenArrival(rows, m, s, k - 1)
    <3>1. PICK m \in 1 .. k - 1 : /\ OpenArrival(rows, m, s, k - 1)
                                  /\ h.duration = Seconds(events[rows[m]].at, events[rows[k]].at)
      BY <1>4, <1>5, <1>8, <2>2 DEF DwellIs
    <3>2. m \in 1 .. Len(rows) /\ m < k
      BY <1>6, <3>1
    <3>3. h.duration # None
      <4>1. h.duration \in Nat
        BY <1>0, <1>6, <3>1, <3>2, SecondsForward
      <4>2. QED
        BY <4>1 DEF None
    <3>4. OpenedBy(rows[k], S) = {rows[m]}
      <4>1. rows[m] \in OpenedBy(rows[k], S)
        BY <1>1, <1>2, <3>1, <3>2, OpenedByOpen
      <4>2. ASSUME NEW a \in OpenedBy(rows[k], S) PROVE a = rows[m]
        <5>1. a \in S
          BY <4>2 DEF OpenedBy
        <5>2. PICK x \in 1 .. Len(rows) : rows[x] = a
          BY <1>6, <5>1
        <5>3. OpenArrival(rows, x, s, k - 1)
          BY <1>1, <1>2, <4>2, <5>2, OpenedByOpen
        <5>4. k - 1 \in Nat
          OBVIOUS
        <5>5. x = m
          BY <3>1, <5>3, <5>4, OpenOnce
        <5>6. QED
          BY <5>2, <5>5
      <4>3. QED
        BY <4>1, <4>2
    <3>5. {h.duration} = SecondsFrom({rows[m]}, {h.id})
      BY <1>5, <3>1 DEF SecondsFrom
    <3>6. {h.duration} = SecondsFrom(OpenedBy(h.id, S), {h.id})
      BY <1>5, <3>4, <3>5
    <3>7. QED
      BY <1>8, <3>3, <3>6 DEF S
  <2>3. QED
    BY <2>1, <2>2
<1>9. CASE h.phase = "scan"
  <2>1. /\ h.duration = IF k < Len(rows) THEN Seconds(events[rows[k]].at, events[rows[k + 1]].at)
                        ELSE None
        /\ EndOf(rows[k], S) = IF k < Len(rows) THEN {rows[k + 1]} ELSE {}
    BY <1>1, <1>2, <1>4, <1>5, <1>9, EndOfNext DEF DwellIs
  <2>2. CASE k < Len(rows)
    <3>1. k + 1 \in 1 .. Len(rows) /\ k < k + 1
      BY <1>6, <2>2
    <3>2. Seconds(events[rows[k]].at, events[rows[k + 1]].at) \in Nat
      BY <1>0, <1>6, <3>1, SecondsForward
    <3>3. h.duration # None
      BY <2>1, <2>2, <3>2 DEF None
    <3>4. {h.duration} = SecondsFrom({h.id}, {rows[k + 1]})
      BY <1>5, <2>1, <2>2 DEF SecondsFrom
    <3>5. {h.duration} = SecondsFrom({h.id}, EndOf(h.id, S))
      BY <1>5, <2>1, <2>2, <3>4
    <3>6. h.phase # "departed"
      BY <1>9
    <3>7. QED
      BY <1>9, <3>3, <3>5, <3>6 DEF S
  <2>3. CASE ~ k < Len(rows)
    BY <1>5, <1>9, <2>1, <2>3 DEF S
  <2>4. QED
    BY <2>2, <2>3
<1>10. CASE h.phase = "arrived"
  BY <1>4, <1>5, <1>10 DEF DwellIs
<1>11. QED
  BY <1>0, <1>8, <1>9, <1>10

(* The durations of a history are those of the visits in the log.          *)
THEOREM HistoryIsOfVisits == LogSpec => []HistoryFollowsVisits
<1>1. QED
  BY LogIsTyped, HistoryIsRight, PTL

-------------------------------------------------------------------------------

(* The rows of a job and its history, for the properties of a job.         *)
LEMMA JobRows ==
  ASSUME LogTyped, NEW j
  PROVE  LET S == EventsOf(j)
             rows == RowsOf(j)
             h == History(j)
         IN  /\ S \in SUBSET DOMAIN events /\ InOrder(rows, S)
             /\ Len(rows) \in Nat /\ Len(h) = Len(rows) /\ h \in Seq(Timeline)
             /\ DOMAIN h = 1 .. Len(rows)
             /\ rows = <<>> <=> S = {}
             /\ \A k \in 1 .. Len(rows) :
                  /\ rows[k] \in S /\ rows[k] \in DOMAIN events
                  /\ h[k].duration \in Nat \cup {None}
                  /\ h[k].id = rows[k]
                  /\ h[k].phase = events[rows[k]].phase
                  /\ h[k].phase \in {"scan", "arrived", "departed"}
                  /\ h[k].station = events[rows[k]].station /\ h[k].station \in Stations
                  /\ DwellIs(rows, k, h[k].duration)
<1> DEFINE S == EventsOf(j)
           rows == RowsOf(j)
           h == History(j)
<1>1. S \in SUBSET DOMAIN events
  BY DEF EventsOf
<1>2. InOrder(rows, S)
  BY <1>1, OrderedRows DEF RowsOf
<1>3. h = HistoryOf(rows)
  BY DEF History
<1> HIDE DEF S, rows, h
<1>4. /\ rows \in Seq(S) /\ Len(rows) = Cardinality(S) /\ Len(rows) \in Nat
      /\ \A k \in 1 .. Len(rows) : rows[k] \in S /\ rows[k] \in DOMAIN events
  BY <1>1, <1>2, RowsAreSequence
<1>5. h \in Seq(Timeline) /\ Len(h) = Len(rows) /\ DOMAIN h = 1 .. Len(rows)
  <2>1. HistoryOf(rows) \in Seq(Timeline) /\ Len(HistoryOf(rows)) = Len(rows)
    BY <1>1, <1>2, HistoryFacts
  <2>2. \A t \in Seq(Timeline) : DOMAIN t = 1 .. Len(t)
    OBVIOUS
  <2>3. QED
    BY <1>3, <2>1, <2>2
<1>6. ASSUME NEW k \in 1 .. Len(rows)
      PROVE  /\ h[k] \in Timeline
             /\ h[k].id = rows[k]
             /\ h[k].phase = events[rows[k]].phase
             /\ h[k].station = events[rows[k]].station
             /\ DwellIs(rows, k, h[k].duration)
  <2>1. h[k] = HistoryEntry(rows[k], h[k].duration) /\ DwellIs(rows, k, h[k].duration)
    BY <1>1, <1>2, <1>3, HistoryFacts
  <2>2. h[k] \in Timeline
    BY <1>5
  <2>3. QED
    BY <2>1, <2>2 DEF HistoryEntry
<1>7. rows = <<>> <=> S = {}
  <2>1. IsFiniteSet(S)
    BY <1>1, EventFacts, FS_Subset
  <2>2. Cardinality(S) = 0 <=> S = {}
    BY <2>1, FS_EmptySet
  <2>3. QED
    BY <1>4, <2>2
<1>8. \A k \in 1 .. Len(rows) : /\ h[k].duration \in Nat \cup {None}
                                /\ h[k].phase \in {"scan", "arrived", "departed"}
                                /\ h[k].station \in Stations
  BY <1>6 DEF Timeline
<1>9. QED
  BY <1>1, <1>2, <1>4, <1>5, <1>6, <1>7, <1>8 DEF S, rows, h

(* The latest event of a tray is its last row.                             *)
LEMMA LatestIsLast ==
  ASSUME LogTyped, NEW S \in SUBSET DOMAIN events, NEW rows, InOrder(rows, S), S # {}
  PROVE  Len(rows) \in 1 .. Len(rows) /\ LatestOf(S) = rows[Len(rows)]
<1> DEFINE n == Len(rows)
<1>1. /\ n \in Nat /\ n = Cardinality(S)
      /\ \A k \in 1 .. n : rows[k] \in S
      /\ \A k, m \in 1 .. n : Earlier(rows[k], rows[m]) <=> k < m
      /\ \A e \in S : \E k \in 1 .. n : rows[k] = e
  BY RowsAreSequence DEF InOrder
<1>2. n \in 1 .. n
  BY <1>1
<1> HIDE DEF n
<1>3. \A f \in S \ {rows[n]} : Earlier(f, rows[n])
  <2> SUFFICES ASSUME NEW f \in S, f # rows[n] PROVE Earlier(f, rows[n])
    OBVIOUS
  <2>1. PICK k \in 1 .. n : rows[k] = f
    BY <1>1
  <2>2. k < n
    BY <1>1, <2>1
  <2>3. QED
    BY <1>1, <1>2, <2>1, <2>2
<1>4. ASSUME NEW e \in S, \A f \in S \ {e} : Earlier(f, e) PROVE e = rows[n]
  <2>1. CASE e # rows[n]
    <3>1. Earlier(rows[n], e)
      BY <1>1, <1>2, <1>4, <2>1
    <3>2. PICK k \in 1 .. n : rows[k] = e
      BY <1>1
    <3>3. n < k
      BY <1>1, <1>2, <3>1, <3>2
    <3>4. QED
      BY <1>1, <3>3
  <2>2. QED
    BY <2>1
<1>5. rows[n] \in S
  BY <1>1, <1>2
<1>6. QED
  BY <1>2, <1>3, <1>4, <1>5 DEF LatestOf, n

LEMMA BoardIsRight == LogTyped => BoardAgreesWithHistory
<1> SUFFICES ASSUME LogTyped, NEW j \in DOMAIN jobs
             PROVE  /\ AtStation(j) <=> CurrentlyHere(History(j))
                    /\ AtStation(j) => Board(j).station = Last(History(j)).station
  BY DEF BoardAgreesWithHistory
<1> DEFINE S == EventsOf(j)
           rows == RowsOf(j)
           h == History(j)
           n == Len(rows)
<1>1. /\ S \in SUBSET DOMAIN events /\ InOrder(rows, S)
      /\ n \in Nat /\ Len(h) = n /\ h \in Seq(Timeline)
      /\ rows = <<>> <=> S = {}
      /\ \A k \in 1 .. n : /\ h[k].phase = events[rows[k]].phase
                           /\ h[k].phase \in {"scan", "arrived", "departed"}
                           /\ h[k].station = events[rows[k]].station
                           /\ DwellIs(rows, k, h[k].duration)
  BY JobRows
<1>2. CASE S = {}
  <2>1. rows = <<>>
    BY <1>1, <1>2
  <2>2. h = <<>>
    <3> HIDE DEF h, rows
    <3>1. QED
      BY <1>1, <2>1
  <2>3. QED
    BY <1>2, <2>2 DEF AtStation, CurrentlyHere
<1>3. CASE S # {}
  <2>1. n \in 1 .. n /\ LatestEvent(j) = rows[n]
    BY <1>1, <1>3, LatestIsLast DEF LatestEvent
  <2>2. AtStation(j) <=> h[n].phase # "departed"
    BY <1>1, <1>3, <2>1 DEF AtStation
  <2>3. h # <<>> /\ Last(h) = h[n]
    <3> HIDE DEF h
    <3>1. QED
      BY <1>1, <2>1 DEF Last
  <2>4. h[n].phase # "departed" => h[n].duration = None
    <3>1. DwellIs(rows, n, h[n].duration) /\ ~ n < Len(rows)
      BY <1>1, <2>1
    <3> HIDE DEF h, n
    <3>2. CASE h[n].phase = "scan"
      BY <1>1, <2>1, <3>1, <3>2 DEF DwellIs
    <3>3. CASE h[n].phase = "arrived"
      BY <1>1, <2>1, <3>1, <3>3 DEF DwellIs
    <3>4. QED
      BY <1>1, <2>1, <3>2, <3>3
  <2>5. CurrentlyHere(h) <=> h[n].phase # "departed"
    BY <1>1, <2>1, <2>3, <2>4 DEF CurrentlyHere
  <2>6. AtStation(j) => Board(j).station = events[LatestEvent(j)].station
    BY DEF Board
  <2>7. QED
    BY <1>1, <2>1, <2>2, <2>3, <2>5, <2>6
<1>4. QED
  BY <1>2, <1>3

(* The board and the timeline of a job agree on where its tray is.         *)
THEOREM BoardShowsHistory == LogSpec => []BoardAgreesWithHistory
<1>1. QED
  BY LogIsTyped, BoardIsRight, PTL

-------------------------------------------------------------------------------

(* Whole seconds within a time make at most the seconds of that time.      *)
LEMMA WholeSeconds ==
  ASSUME NEW t \in Int, NEW a \in Int, NEW b \in Int, t * Second <= b - a
  PROVE  t <= Seconds(a, b)
<1> DEFINE q == (b - a) \div Second
           r == (b - a) % Second
<1>1. q \in Int /\ r \in 0 .. Second - 1 /\ b - a = Second * q + r
  BY SecondAssumption
<1> HIDE DEF q, r
<1>2. CASE t > q
  <2>1. t >= q + 1
    BY <1>1, <1>2
  <2>2. t * Second >= (q + 1) * Second
    BY <1>1, <2>1, SecondAssumption
  <2>3. (q + 1) * Second = Second * q + Second
    BY <1>1, SecondAssumption
  <2>4. (q + 1) * Second \in Int /\ t * Second \in Int /\ Second * q \in Int
    BY <1>1, SecondAssumption
  <2>5. QED
    BY <1>1, <2>2, <2>3, <2>4, SecondAssumption
<1>3. CASE t <= q
  BY <1>3 DEF Seconds, q
<1>4. QED
  BY <1>1, <1>2, <1>3

LEMMA SecondsWithin ==
  ASSUME NEW a \in Int, NEW b \in Int, a <= b
  PROVE  Seconds(a, b) * Second <= b - a
<1> DEFINE q == (b - a) \div Second
           r == (b - a) % Second
<1>1. q \in Int /\ r \in 0 .. Second - 1 /\ b - a = Second * q + r
  BY SecondAssumption
<1>2. Seconds(a, b) = q
  BY DEF Seconds
<1> HIDE DEF q, r
<1>3. q * Second = Second * q /\ q * Second \in Int
  BY <1>1, SecondAssumption
<1>4. QED
  BY <1>1, <1>2, <1>3

(* The visits to station s among the first k entries, and what their       *)
(* seconds leave: no arrival that is still open is before they have passed.*)
FinishedVisits(h, s, k) ==
  {i \in 1 .. k : h[i].station = s /\ h[i].phase = "departed" /\ h[i].duration # None}

VisitsFit(rows, h, s, k) ==
  LET t == Total(FinishedVisits(h, s, k), Durations(h))
      n == Len(rows)
  IN  /\ \A x \in 1 .. n : x >= k => t * Second <= events[rows[x]].at - events[rows[1]].at
      /\ \A m \in 1 .. k : OpenArrival(rows, m, s, k) =>
           t * Second <= events[rows[m]].at - events[rows[1]].at

LEMMA VisitsFitStep ==
  ASSUME LogTyped, NEW j, NEW s, NEW rows, NEW h, rows = RowsOf(j), h = History(j),
         NEW k \in 1 .. Len(rows), VisitsFit(rows, h, s, k - 1)
  PROVE  VisitsFit(rows, h, s, k)
<1> DEFINE n == Len(rows)
           at == [x \in 1 .. n |-> events[rows[x]].at]
           V == FinishedVisits(h, s, k - 1)
           d == Durations(h)
           t == Total(V, d)
<1>1. /\ EventsOf(j) \in SUBSET DOMAIN events /\ InOrder(rows, EventsOf(j)) /\ n \in Nat
      /\ DOMAIN h = 1 .. n
      /\ \A x \in 1 .. n : /\ rows[x] \in DOMAIN events
                           /\ h[x].duration \in Nat \cup {None}
                           /\ h[x].phase = events[rows[x]].phase
                           /\ h[x].phase \in {"scan", "arrived", "departed"}
                           /\ h[x].station = events[rows[x]].station
                           /\ DwellIs(rows, x, h[x].duration)
  BY JobRows
<1>2. /\ \A x \in 1 .. n : at[x] \in Int
      /\ \A x, y \in 1 .. n : x < y => at[x] <= at[y]
      /\ \A x \in 1 .. n : at[x] = events[rows[x]].at
  BY <1>1, EventFacts, RowsAreSequence
<1>3. /\ k \in Nat \ {0} /\ k - 1 \in Nat /\ 1 .. k = (1 .. k - 1) \cup {k} /\ k \notin 1 .. k - 1
      /\ 1 .. k \subseteq 1 .. n /\ 1 \in 1 .. n
  BY <1>1
<1>4. /\ IsFiniteSet(V) /\ V \subseteq 1 .. k - 1
      /\ \A x \in V : d[x] \in Nat /\ d[x] = h[x].duration
  <2>1. V \subseteq 1 .. k - 1
    BY DEF FinishedVisits
  <2>2. IsFiniteSet(V)
    <3>1. IsFiniteSet(1 .. k - 1)
      BY <1>3, FS_Interval
    <3> HIDE DEF V
    <3>2. QED
      BY <2>1, <3>1, FS_Subset
  <2>3. \A x \in V : x \in 1 .. n /\ h[x].duration # None
    BY <1>3, <2>1 DEF FinishedVisits
  <2>4. QED
    BY <1>1, <2>1, <2>2, <2>3 DEF Durations
<1>5. t \in Nat /\ t * Second \in Int
  BY <1>4, TotalNat, SecondAssumption
<1>6. /\ \A x \in 1 .. n : x >= k - 1 => t * Second <= at[x] - at[1]
      /\ \A m \in 1 .. k - 1 : OpenArrival(rows, m, s, k - 1) => t * Second <= at[m] - at[1]
  BY <1>2, <1>3 DEF VisitsFit
<1>7. CASE h[k].station = s /\ h[k].phase = "departed" /\ h[k].duration # None
  <2>1. FinishedVisits(h, s, k) = V \cup {k} /\ V \cap {k} = {}
    BY <1>3, <1>4, <1>7 DEF FinishedVisits
  <2>2. PICK m \in 1 .. k - 1 : /\ OpenArrival(rows, m, s, k - 1)
                                /\ h[k].duration = Seconds(at[m], at[k])
    BY <1>1, <1>2, <1>3, <1>7 DEF DwellIs
  <2>3. m \in 1 .. n /\ m < k
    BY <1>3, <2>2
  <2>4. d[k] = h[k].duration /\ d[k] \in Nat
    BY <1>1, <1>3, <1>7 DEF Durations
  <2>5. Total(V \cup {k}, d) = t + d[k]
    <3>1. IsFiniteSet({k}) /\ Total({k}, d) = d[k]
      BY <2>4, FS_Singleton, TotalSingleton
    <3>2. /\ IsFiniteSet(V) /\ V \cap {k} = {}
          /\ \A x \in V \cup {k} : d[x] \in Nat
      BY <1>4, <2>1, <2>4
    <3> HIDE DEF V, d
    <3>3. Total(V \cup {k}, d) = Total(V, d) + Total({k}, d)
      BY <3>1, <3>2, TotalDisjointUnion
    <3>4. QED
      BY <3>1, <3>3
  <2>6. d[k] * Second <= at[k] - at[m]
    BY <1>2, <1>3, <2>2, <2>3, <2>4, SecondsWithin
  <2>7. t * Second <= at[m] - at[1]
    BY <1>6, <2>2
  <2>8. (t + d[k]) * Second <= at[k] - at[1]
    <3> DEFINE u == d[k]
    <3>1. u \in Nat
      BY <2>4
    <3> HIDE DEF t, u
    <3>2. (t + u) * Second = t * Second + u * Second /\ u * Second \in Int
      BY <1>5, <3>1, SecondAssumption
    <3>3. u * Second <= at[k] - at[m]
      BY <2>6 DEF u
    <3> HIDE DEF at
    <3>4. at[k] \in Int /\ at[m] \in Int /\ at[1] \in Int
      BY <1>2, <1>3, <2>3
    <3>5. (t + u) * Second <= at[k] - at[1]
      BY <1>5, <2>7, <3>2, <3>3, <3>4
    <3>6. QED
      BY <3>5 DEF u
  <2> DEFINE w == (t + d[k]) * Second
  <2>9. w \in Int
    BY <1>5, <2>4, SecondAssumption
  <2>10. \A x \in 1 .. n : x >= k => w <= at[x] - at[1]
    <3> SUFFICES ASSUME NEW x \in 1 .. n, x >= k PROVE w <= at[x] - at[1]
      OBVIOUS
    <3>1. at[k] <= at[x] /\ at[k] \in Int /\ at[x] \in Int /\ at[1] \in Int
      <4>1. x = k \/ k < x
        BY <1>3
      <4> HIDE DEF at
      <4>2. QED
        BY <1>2, <1>3, <4>1
    <3> HIDE DEF w, at
    <3>2. w <= at[k] - at[1]
      BY <2>8 DEF w
    <3>3. QED
      BY <2>9, <3>1, <3>2
  <2>11. \A x : ~ OpenArrival(rows, x, s, k)
    <3>1. events[rows[k]].phase = "departed" /\ events[rows[k]].station = s
      BY <1>1, <1>3, <1>7
    <3>2. QED
      BY <1>3, <3>1, OpenStep
  <2>12. QED
    BY <1>2, <1>3, <2>1, <2>5, <2>10, <2>11 DEF VisitsFit
<1>8. CASE ~ (h[k].station = s /\ h[k].phase = "departed" /\ h[k].duration # None)
  <2>1. FinishedVisits(h, s, k) = V
    BY <1>3, <1>8 DEF FinishedVisits
  <2>2. ASSUME NEW m \in 1 .. k, OpenArrival(rows, m, s, k)
        PROVE  t * Second <= at[m] - at[1]
    <3>1. CASE m = k
      BY <1>3, <1>6, <3>1
    <3>2. CASE m # k
      <4>1. m \in 1 .. k - 1
        BY <1>3, <3>2
      <4>2. events[rows[k]].station = s => events[rows[k]].phase = "scan"
        BY <1>3, <2>2, <4>1 DEF OpenArrival
      <4>3. OpenArrival(rows, m, s, k - 1)
        BY <1>3, <2>2, <4>2, OpenStep
      <4>4. QED
        BY <1>6, <4>1, <4>3
    <3>3. QED
      BY <3>1, <3>2
  <2>3. \A x \in 1 .. n : x >= k => t * Second <= at[x] - at[1]
    BY <1>3, <1>6
  <2> HIDE DEF V, d, t
  <2>4. Total(FinishedVisits(h, s, k), Durations(h)) = t
    BY <2>1 DEF t, d
  <2>5. QED
    BY <1>2, <1>3, <2>2, <2>3, <2>4 DEF VisitsFit
<1>9. QED
  BY <1>7, <1>8

LEMMA VisitsAreRight == LogTyped => VisitsDoNotOverlap
<1> SUFFICES ASSUME LogTyped, NEW j \in DOMAIN jobs, NEW s \in Stations
             PROVE  LET rows    == RowsOf(j)
                        entries == History(j)
                        visits  == {i \in DOMAIN entries : /\ entries[i].station = s
                                                           /\ entries[i].phase = "departed"
                                                           /\ entries[i].duration # None}
                    IN  visits # {}
                          => Total(visits, Durations(entries))
                               <= Seconds(events[Head(rows)].at, events[Last(rows)].at)
  BY DEF VisitsDoNotOverlap
<1> DEFINE rows == RowsOf(j)
           h == History(j)
           n == Len(rows)
           d == Durations(h)
           V == FinishedVisits(h, s, n)
<1>1. /\ n \in Nat /\ DOMAIN h = 1 .. n
      /\ EventsOf(j) \in SUBSET DOMAIN events /\ InOrder(rows, EventsOf(j))
      /\ \A x \in 1 .. n : rows[x] \in DOMAIN events /\ h[x].duration \in Nat \cup {None}
  BY JobRows
<1>2. {i \in DOMAIN h : h[i].station = s /\ h[i].phase = "departed" /\ h[i].duration # None} = V
  BY <1>1 DEF FinishedVisits
<1>3. SUFFICES ASSUME V # {}
               PROVE  Total(V, d) <= Seconds(events[Head(rows)].at, events[Last(rows)].at)
  BY <1>2
<1> DEFINE Bad == {k \in 0 .. n : ~ VisitsFit(rows, h, s, k)}
<1>4. VisitsFit(rows, h, s, 0)
  <2>1. FinishedVisits(h, s, 0) = {} /\ 1 .. 0 = {}
    BY DEF FinishedVisits
  <2>2. Total({}, d) = 0
    BY TotalEmpty
  <2>3. \A x \in 1 .. n : /\ events[rows[x]].at \in Int /\ events[rows[1]].at \in Int
                          /\ events[rows[1]].at <= events[rows[x]].at
    <3> SUFFICES ASSUME NEW x \in 1 .. n
                 PROVE  /\ events[rows[x]].at \in Int /\ events[rows[1]].at \in Int
                        /\ events[rows[1]].at <= events[rows[x]].at
      OBVIOUS
    <3>1. 1 \in 1 .. n /\ (x = 1 \/ 1 < x)
      BY <1>1
    <3>2. events[rows[x]].at \in Int /\ events[rows[1]].at \in Int
      BY <1>1, <3>1, EventFacts
    <3>3. 1 < x => events[rows[1]].at <= events[rows[x]].at
      BY <1>1, <3>1, RowsAreSequence
    <3>4. QED
      BY <3>1, <3>2, <3>3
  <2>4. 0 * Second = 0
    BY SecondAssumption
  <2> HIDE DEF d
  <2>5. Total(FinishedVisits(h, s, 0), Durations(h)) * Second = 0
    BY <2>1, <2>2, <2>4 DEF d
  <2> HIDE DEF rows, n, h
  <2>6. \A x \in 1 .. n : 0 <= events[rows[x]].at - events[rows[1]].at
    BY <2>3
  <2>7. QED
    BY <2>1, <2>5, <2>6 DEF VisitsFit, n
<1>5. Bad = {}
  <2> SUFFICES ASSUME Bad # {} PROVE FALSE
    OBVIOUS
  <2>1. PICK m \in Bad : \A k \in Bad : m <= k
    <3>1. Bad \in SUBSET Nat
      BY <1>1
    <3> HIDE DEF Bad
    <3>2. QED
      BY <2>1, <3>1, MinNat
  <2>2. m \in 1 .. n /\ m - 1 \in 0 .. n /\ ~ m <= m - 1 /\ ~ VisitsFit(rows, h, s, m)
    BY <1>1, <1>4
  <2>3. VisitsFit(rows, h, s, m - 1)
    BY <2>1, <2>2
  <2>4. QED
    BY <2>2, <2>3, VisitsFitStep
<1>6. VisitsFit(rows, h, s, n)
  BY <1>1, <1>5
<1>7. n \in 1 .. n /\ 1 \in 1 .. n
  BY <1>1, <1>3 DEF FinishedVisits
<1>8. Head(rows) = rows[1] /\ Last(rows) = rows[n]
  BY DEF Last
<1>9. events[rows[1]].at \in Int /\ events[rows[n]].at \in Int
  BY <1>1, <1>7, EventFacts
<1>10. Total(V, d) \in Nat
  <2>1. IsFiniteSet(V)
    <3>1. IsFiniteSet(1 .. n) /\ V \subseteq 1 .. n
      BY <1>1, FS_Interval DEF FinishedVisits
    <3> HIDE DEF V
    <3>2. QED
      BY <3>1, FS_Subset
  <2>2. \A x \in V : d[x] \in Nat
    BY <1>1 DEF FinishedVisits, Durations
  <2> HIDE DEF V, d
  <2>3. QED
    BY <2>1, <2>2, TotalNat
<1>11. Total(V, d) * Second <= events[rows[n]].at - events[rows[1]].at
  BY <1>1, <1>6, <1>7 DEF VisitsFit
<1>12. QED
  <2> HIDE DEF V, d, rows, n
  <2>1. QED
    BY <1>8, <1>9, <1>10, <1>11, WholeSeconds

(* The visits of a tray to a station do not overlap.                       *)
THEOREM VisitsAreApart == LogSpec => []VisitsDoNotOverlap
<1>1. QED
  BY LogIsTyped, VisitsAreRight, PTL

-------------------------------------------------------------------------------

(* The visits that the job page counts.                                    *)
LEMMA TrackedFacts ==
  ASSUME LogTyped, NEW j
  PROVE  LET h == History(j)
             T == Tracked(h)
             d == Durations(h)
         IN  /\ IsFiniteSet(DOMAIN h) /\ DOMAIN h \in SUBSET Nat
             /\ T \in SUBSET DOMAIN h /\ IsFiniteSet(T)
             /\ \A i \in DOMAIN h : /\ d[i] = h[i].duration /\ d[i] \in Int
                                    /\ h[i].station \in Stations
             /\ \A i \in T : d[i] \in Nat \ {0}
             /\ \A s : /\ TrackedAt(h, s) \in SUBSET T
                       /\ \A i \in TrackedAt(h, s) : h[i].station = s
                       /\ s \in ChartStations(h) <=> TrackedAt(h, s) # {}
             /\ \A i \in T : i \in TrackedAt(h, h[i].station)
             /\ IsFiniteSet(ChartStations(h)) /\ ChartStations(h) \subseteq Stations
<1> DEFINE h == History(j)
           n == Len(RowsOf(j))
           T == Tracked(h)
           d == Durations(h)
<1>1. /\ n \in Nat /\ DOMAIN h = 1 .. n
      /\ \A k \in 1 .. n : h[k].duration \in Nat \cup {None} /\ h[k].station \in Stations
  BY JobRows
<1>2. IsFiniteSet(DOMAIN h)
  BY <1>1, FS_Interval
<1>3. T \in SUBSET DOMAIN h /\ \A i \in T : h[i].duration > 0
  BY DEF Tracked
<1>4. \A i \in DOMAIN h : d[i] = h[i].duration
  BY DEF Durations
<1> HIDE DEF h, n, d
<1>5. IsFiniteSet(T)
  BY <1>2, <1>3, FS_Subset
<1>6. \A x \in Nat \cup {None} : x \in Int /\ (x > 0 => x \in Nat \ {0})
  BY DEF None
<1>7. \A i \in T : d[i] \in Nat \ {0}
  BY <1>1, <1>3, <1>4, <1>6
<1>8. \A i \in DOMAIN h : d[i] \in Int
  BY <1>1, <1>4, <1>6
<1>9. \A s : /\ TrackedAt(h, s) \in SUBSET T
             /\ \A i \in TrackedAt(h, s) : h[i].station = s
             /\ s \in ChartStations(h) <=> TrackedAt(h, s) # {}
  BY DEF TrackedAt, ChartStations
<1>10. \A i \in T : i \in TrackedAt(h, h[i].station)
  BY DEF TrackedAt
<1>11. ChartStations(h) \subseteq Stations
  BY <1>1, <1>3 DEF ChartStations
<1>12. IsFiniteSet(ChartStations(h))
  BY <1>11, LogAssumption, FS_Subset
<1>13. DOMAIN h \in SUBSET Nat
  BY <1>1
<1>14. QED
  BY <1>1, <1>2, <1>3, <1>4, <1>5, <1>7, <1>8, <1>9, <1>10, <1>11, <1>12, <1>13 DEF h, d

(* The segments of the chart, and the times shown under the steps.         *)
LEMMA ChartAddsUp ==
  ASSUME LogTyped, NEW j \in DOMAIN jobs
  PROVE  LET h == History(j)
             shown == StepsOf(jobs[j].pipeline)
         IN  /\ Total(ChartStations(h), [s \in ChartStations(h) |-> StationTotal(h, s)])
                  = TotalTrackedSeconds(h)
             /\ Total(shown, [r \in shown |-> Max({0, ActualSeconds(h, r)})])
                  <= TotalTrackedSeconds(h)
<1> DEFINE h == History(j)
           T == Tracked(h)
           d == Durations(h)
           C == ChartStations(h)
           shown == StepsOf(jobs[j].pipeline)
<1>1. /\ IsFiniteSet(T) /\ \A i \in T : d[i] \in Nat
      /\ \A s : /\ TrackedAt(h, s) \in SUBSET T
                /\ \A i \in TrackedAt(h, s) : h[i].station = s
                /\ s \in C <=> TrackedAt(h, s) # {}
      /\ \A i \in T : i \in TrackedAt(h, h[i].station)
      /\ IsFiniteSet(C)
  BY TrackedFacts
<1>2. \A s, u : s # u => TrackedAt(h, s) \cap TrackedAt(h, u) = {}
  BY <1>1
<1>3. \A s : StationTotal(h, s) = Total(TrackedAt(h, s), d)
  BY DEF StationTotal
<1>4. TotalTrackedSeconds(h) = Total(T, d)
  BY DEF TotalTrackedSeconds
<1>5. IsFiniteSet(shown) /\ \A r, q \in shown : r # q => r[2] # q[2]
  <2>1. shown \in SUBSET (Pipelines \X Stations) /\ \A r \in shown : r[1] = jobs[j].pipeline
    BY DEF LogTyped, StepsOf
  <2>2. IsFiniteSet(Pipelines \X Stations)
    BY LogAssumption, FS_Product
  <2>3. IsFiniteSet(shown)
    BY <2>1, <2>2, FS_Subset
  <2>4. QED
    BY <2>1, <2>3
<1> HIDE DEF h, T, d, C, shown
<1>6. Total(C, [s \in C |-> StationTotal(h, s)]) = Total(T, d)
  <2> DEFINE part == [s \in C |-> TrackedAt(h, s)]
             f == [s \in C |-> StationTotal(h, s)]
  <2>1. /\ \A s \in C : part[s] \in SUBSET T /\ f[s] = Total(part[s], d)
        /\ \A s, u \in C : s # u => part[s] \cap part[u] = {}
    BY <1>1, <1>2, <1>3
  <2>2. Whole(C, part) = T
    BY <1>1 DEF Whole
  <2> HIDE DEF part, f
  <2>3. Total(C, f) = Total(Whole(C, part), d)
    BY <1>1, <2>1, TotalOfTotals
  <2>4. QED
    BY <2>2, <2>3 DEF f
<1>7. ASSUME NEW r \in shown
      PROVE  Max({0, ActualSeconds(h, r)}) = Total(TrackedAt(h, r[2]), d)
  <2>1. IsFiniteSet(TrackedAt(h, r[2])) /\ \A i \in TrackedAt(h, r[2]) : d[i] \in Nat
    BY <1>1, FS_Subset
  <2>2. Total(TrackedAt(h, r[2]), d) \in Nat
    BY <2>1, TotalNat
  <2>3. CASE r[2] \in C
    <3>1. ActualSeconds(h, r) = Total(TrackedAt(h, r[2]), d)
      BY <1>3, <2>3 DEF ActualSeconds, C
    <3>2. QED
      BY <2>2, <3>1, MaxPair
  <2>4. CASE r[2] \notin C
    <3>1. ActualSeconds(h, r) = None
      BY <2>4 DEF ActualSeconds, C
    <3>2. TrackedAt(h, r[2]) = {}
      BY <1>1, <2>4
    <3>3. 0 \in Int /\ None \in Int /\ ~ 0 <= None
      BY DEF None
    <3>4. QED
      BY <3>1, <3>2, <3>3, MaxPair, TotalEmpty
  <2>5. QED
    BY <2>3, <2>4
<1>8. Total(shown, [r \in shown |-> Max({0, ActualSeconds(h, r)})]) <= Total(T, d)
  <2> DEFINE part == [r \in shown |-> TrackedAt(h, r[2])]
             f == [r \in shown |-> Max({0, ActualSeconds(h, r)})]
  <2>1. /\ \A r \in shown : part[r] \in SUBSET T /\ f[r] = Total(part[r], d)
        /\ \A r, q \in shown : r # q => part[r] \cap part[q] = {}
    BY <1>1, <1>2, <1>5, <1>7
  <2>2. Whole(shown, part) \in SUBSET T
    BY <2>1 DEF Whole
  <2> HIDE DEF part, f
  <2>3. Total(shown, f) = Total(Whole(shown, part), d)
    BY <1>1, <1>5, <2>1, TotalOfTotals
  <2>4. Total(Whole(shown, part), d) <= Total(T, d)
    BY <1>1, <2>2, TotalMonotone
  <2>5. QED
    BY <2>3, <2>4 DEF f
<1>9. QED
  BY <1>4, <1>6, <1>8 DEF h, C, shown

(* The longest dwell is one visit of one station of the chart.             *)
LEMMA LongestIsVisit ==
  ASSUME LogTyped, NEW j
  PROVE  LET h == History(j)
             longest == LongestDwell(h)
         IN  /\ longest.seconds > 0 => longest.seconds <= StationTotal(h, longest.station)
             /\ longest.seconds = 0 <=> StationVisits(h) = 0
<1> DEFINE h == History(j)
           T == Tracked(h)
           d == Durations(h)
           L == {i \in T : \A k \in T : h[k].duration <= h[i].duration}
           longest == LongestDwell(h)
<1>1. /\ T \in SUBSET Nat /\ IsFiniteSet(T)
      /\ \A i \in T : d[i] = h[i].duration /\ d[i] \in Nat \ {0}
      /\ \A i \in T : i \in TrackedAt(h, h[i].station)
      /\ \A s : TrackedAt(h, s) \in SUBSET T
  BY TrackedFacts
<1>2. longest = IF L = {} THEN [seconds |-> 0, station |-> None]
                ELSE [seconds |-> h[Min(L)].duration, station |-> h[Min(L)].station]
  BY DEF LongestDwell
<1>3. StationVisits(h) = Cardinality(T)
  BY DEF StationVisits
<1> HIDE DEF h, T, d, longest
<1>4. CASE T = {}
  <2>1. L = {} /\ Cardinality(T) = 0
    BY <1>4, FS_EmptySet
  <2>2. QED
    BY <1>2, <1>3, <2>1 DEF h, longest
<1>5. CASE T # {}
  <2> DEFINE D == {d[i] : i \in T}
  <2>1. D \in SUBSET Int /\ D # {}
    <3>1. \A i \in T : d[i] \in Int
      BY <1>1
    <3>2. QED
      BY <1>5, <3>1
  <2>2. \A t \in D : \E i \in T : d[i] = t
    OBVIOUS
  <2>3. \A i \in T : d[i] \in D
    OBVIOUS
  <2> HIDE DEF D
  <2>4. IsFiniteSet(D)
    BY <1>1, <2>2, FiniteValues
  <2>5. Max(D) \in D /\ \A y \in D : y <= Max(D)
    BY <2>1, <2>4, Extremes
  <2>6. PICK i \in T : d[i] = Max(D)
    BY <2>2, <2>5
  <2>7. i \in L
    BY <1>1, <2>3, <2>5, <2>6
  <2>8. L \in SUBSET T /\ L \in SUBSET Nat /\ L # {}
    BY <1>1, <2>7
  <2> DEFINE m == Min(L)
  <2>9. m \in T
    <3> HIDE DEF L
    <3>1. QED
      BY <2>8, MinNat
  <2>10. longest.seconds = d[m] /\ longest.station = h[m].station
    BY <1>1, <1>2, <2>8, <2>9
  <2> HIDE DEF m, L
  <2> DEFINE V == TrackedAt(h, h[m].station)
  <2>11. IsFiniteSet(V) /\ m \in V /\ \A x \in V : d[x] \in Nat
    BY <1>1, <2>9, FS_Subset
  <2>12. Total({m}, d) = d[m] /\ d[m] \in Nat \ {0}
    BY <1>1, <2>9, TotalSingleton
  <2>13. StationTotal(h, h[m].station) = Total(V, d)
    BY DEF StationTotal, d
  <2> HIDE DEF V
  <2>14. Total({m}, d) <= Total(V, d)
    BY <2>11, TotalMonotone
  <2>15. Cardinality(T) # 0
    BY <1>1, <1>5, FS_EmptySet
  <2>16. longest.seconds <= StationTotal(h, longest.station) /\ longest.seconds # 0
    BY <2>10, <2>12, <2>13, <2>14
  <2>17. QED
    BY <1>3, <2>15, <2>16 DEF h, longest
<1>6. QED
  BY <1>4, <1>5

(* A bar of the timeline is as wide as the longest, or less.               *)
LEMMA BarFits ==
  ASSUME LogTyped, NEW j, NEW i \in Tracked(History(j))
  PROVE  BarWidth(History(j), History(j)[i]) \in 4 .. 100
<1> DEFINE h == History(j)
           d == Durations(h)
           D == {g.duration : g \in ToSet(h)}
           w == Max({1} \cup D)
           b == (100 * d[i]) \div w
<1>1. /\ IsFiniteSet(DOMAIN h) /\ i \in DOMAIN h /\ d[i] \in Nat \ {0}
      /\ \A k \in DOMAIN h : d[k] = h[k].duration /\ d[k] \in Int
  BY TrackedFacts
<1>2. /\ \A t \in D : \E k \in DOMAIN h : d[k] = t
      /\ \A k \in DOMAIN h : d[k] \in D
  BY <1>1 DEF ToSet
<1>3. BarWidth(h, h[i]) = IF d[i] > 0 THEN Max({4, b}) ELSE 0
  BY <1>1 DEF BarWidth
<1> HIDE DEF h, d, D
<1>4. IsFiniteSet(D)
  BY <1>1, <1>2, FiniteValues
<1>5. IsFiniteSet(D \cup {1})
  BY <1>4, FS_AddElement
<1>6. D \cup {1} = {1} \cup D /\ {1} \cup D \in SUBSET Int
  BY <1>1, <1>2
<1>7. w \in {1} \cup D /\ \A y \in {1} \cup D : y <= w
  BY <1>5, <1>6, Extremes
<1>8. w \in Nat \ {0} /\ d[i] <= w
  <2>1. w \in Int /\ 1 <= w
    BY <1>6, <1>7
  <2>2. d[i] <= w
    BY <1>1, <1>2, <1>7
  <2> HIDE DEF w
  <2>3. QED
    BY <2>1, <2>2
<1> HIDE DEF w
<1>9. 100 * d[i] \in Int /\ 0 <= 100 * d[i] /\ 100 * d[i] <= 100 * w /\ 100 * w \in Int
  BY <1>1, <1>8
<1>10. 0 \div w = 0
  <2>1. w * 0 <= 0 /\ 0 < w * 0 + w /\ 0 \in Int
    BY <1>8
  <2>2. QED
    BY <1>8, <2>1, DivUnique
<1>11. (100 * w) \div w = 100
  <2>1. w * 100 <= 100 * w /\ 100 * w < w * 100 + w /\ 100 \in Int
    BY <1>8
  <2>2. QED
    BY <1>8, <1>9, <2>1, DivUnique
<1>12. 0 <= b /\ b <= 100 /\ b \in Int
  BY <1>8, <1>9, <1>10, <1>11, DivMonotone, DivIs
<1> HIDE DEF b
<1>13. Max({4, b}) \in 4 .. 100
  <2>1. 4 \in Int
    OBVIOUS
  <2>2. Max({4, b}) = IF 4 <= b THEN b ELSE 4
    BY <1>12, <2>1, MaxPair
  <2>3. QED
    BY <1>12, <2>2
<1>14. QED
  BY <1>1, <1>3, <1>13 DEF h

-------------------------------------------------------------------------------

(* The steps of the job page: the current one is where the tray is, and    *)
(* all before it are completed.                                            *)
LEMMA StepsAreRight ==
  ASSUME LogTyped, NEW j \in DOMAIN jobs
  PROVE  StepsShownOnce(j)
<1> DEFINE St == StepsOf(jobs[j].pipeline)
           s == events[LatestEvent(j)].station
           here == AtStation(j)
           cur == <<jobs[j].pipeline, s>>
           pos == Board(j).stepPosition
           h == History(j)
           K == {r \in St : StepStatus(h, pos, r) = "completed"}
           N == Cardinality(St)
<1>1. /\ St \in SUBSET DOMAIN steps /\ IsFiniteSet(St)
      /\ \A r \in St : r = <<jobs[j].pipeline, r[2]>>
      /\ \A r \in DOMAIN steps : r = <<jobs[j].pipeline, r[2]>> => r \in St
  <2>1. /\ St \in SUBSET DOMAIN steps
        /\ \A r \in DOMAIN steps : r[1] = jobs[j].pipeline <=> r \in St
    BY DEF StepsOf
  <2>2. DOMAIN steps \in SUBSET (Pipelines \X Stations)
    BY DEF LogTyped
  <2>3. IsFiniteSet(Pipelines \X Stations)
    BY LogAssumption, FS_Product
  <2>4. IsFiniteSet(St)
    BY <2>1, <2>2, <2>3, FS_Subset
  <2>5. QED
    BY <2>1, <2>2, <2>4
<1>2. /\ \A r \in St : steps[r].position \in Nat \ {0}
      /\ \A r, u \in St : steps[u].position = steps[r].position => u = r
      /\ \A r \in St : \A k \in 1 .. steps[r].position : \E u \in St : steps[u].position = k
  <2>1. \A r \in DOMAIN steps : steps[r] \in Step
    BY DEF LogTyped
  <2>2. \A x \in Step : x.position \in Nat \ {0}
    BY DEF Step
  <2>3. \A r \in St : StepsOf(r[1]) = St
    BY DEF StepsOf
  <2>4. QED
    BY <1>1, <2>1, <2>2, <2>3 DEF LogTyped, StepsNumbered
<1>3. /\ Board(j).station = IF here THEN s ELSE None
      /\ Board(j).totalSteps = N
      /\ pos = IF here /\ cur \in DOMAIN steps THEN steps[cur].position ELSE 0
  BY DEF Board
<1>4. /\ CountCompletedSteps(j) = Cardinality(K)
      /\ \A r \in St : StepStatus(h, pos, r) = "current" <=> steps[r].position = pos
      /\ \A r \in St : steps[r].position < pos /\ steps[r].position # pos
                         => StepStatus(h, pos, r) = "completed"
      /\ \A r \in K : r \in St /\ steps[r].position # pos
  BY DEF CountCompletedSteps, StepStatus
<1>5. ProgressFilled(j) = IF N = 0 THEN 0 ELSE Min({100, (100 * pos) \div N})
  BY <1>3 DEF ProgressFilled
<1>6. K \in SUBSET St /\ \A r \in St : StepStatus(h, pos, r) = "completed" => r \in K
  OBVIOUS
<1> HIDE DEF St, s, here, pos, h, K, N
<1>7. /\ N \in Nat /\ IsFiniteSet(K) /\ Cardinality(K) \in Nat /\ Cardinality(K) <= N
  BY <1>1, <1>6, FS_Subset, FS_CardinalityType DEF N
<1> DEFINE c == IF pos > 0 THEN 1 ELSE 0
<1>8. \A r \in St : StepStatus(h, pos, r) = "current" <=> here /\ Board(j).station = r[2]
  <2> SUFFICES ASSUME NEW r \in St
               PROVE  steps[r].position = pos <=> here /\ Board(j).station = r[2]
    BY <1>4
  <2>1. ASSUME steps[r].position = pos PROVE here /\ Board(j).station = r[2]
    <3>1. pos # 0
      BY <1>2, <2>1
    <3>2. here /\ cur \in DOMAIN steps /\ pos = steps[cur].position
      BY <1>3, <3>1
    <3>3. cur \in St
      BY <1>1, <3>2
    <3>4. cur = r
      BY <1>2, <2>1, <3>2, <3>3
    <3>5. QED
      BY <1>3, <3>2, <3>4
  <2>2. ASSUME here, Board(j).station = r[2] PROVE steps[r].position = pos
    <3>1. r = cur
      BY <1>1, <1>3, <2>2
    <3>2. QED
      BY <1>1, <1>3, <2>2, <3>1
  <2>3. QED
    BY <2>1, <2>2
<1>9. CASE pos = 0
  <2>1. c = 0
    BY <1>9
  <2>2. ProgressFilled(j) = 0
    <3>1. CASE N = 0
      BY <1>5, <3>1
    <3>2. CASE N # 0
      <4>1. N \in Nat \ {0} /\ N * 0 <= 0 /\ 0 < N * 0 + N /\ 0 \in Int
        BY <1>7, <3>2
      <4>2. 0 \div N = 0
        BY <4>1, DivUnique
      <4>3. (100 * pos) \div N = 0
        BY <1>9, <4>2
      <4>4. Min({100, 0}) = 0
        BY MaxPair
      <4>5. QED
        BY <1>5, <3>2, <4>3, <4>4
    <3>3. QED
      BY <3>1, <3>2
  <2>3. /\ Cardinality(K) + c <= N
        /\ ProgressFilled(j) * N <= 100 * (Cardinality(K) + c)
    BY <1>7, <2>1, <2>2
  <2> HIDE DEF c
  <2>4. QED
    BY <1>3, <1>4, <1>8, <2>3 DEF StepsShownOnce, St, s, here, pos, h, c
<1>10. CASE pos # 0
  <2>1. cur \in St /\ pos = steps[cur].position /\ pos \in Nat \ {0}
    BY <1>1, <1>2, <1>3, <1>10
  <2>2. c = 1
    BY <2>1
  <2> DEFINE A == K \cup {cur}
  <2>3. cur \notin K /\ A \in SUBSET St
    BY <1>4, <1>6, <2>1
  <2>4. IsFiniteSet(A) /\ Cardinality(A) = Cardinality(K) + 1
    BY <1>7, <2>3, FS_AddElement
  <2>5. Cardinality(A) <= N
    BY <1>1, <2>3, FS_Subset DEF N
  <2> DEFINE at == [k \in 1 .. pos |-> CHOOSE u \in St : steps[u].position = k]
  <2>6. ASSUME NEW k \in 1 .. pos
        PROVE  at[k] \in A /\ steps[at[k]].position = k
    <3>1. \E u \in St : steps[u].position = k
      BY <1>2, <2>1
    <3>2. at[k] \in St /\ steps[at[k]].position = k
      BY <3>1
    <3>3. CASE k = pos
      BY <1>2, <2>1, <3>2, <3>3
    <3>4. CASE k < pos
      BY <1>4, <1>6, <3>2, <3>4
    <3>5. QED
      BY <2>1, <3>3, <3>4
  <2>7. at \in Injection(1 .. pos, A)
    <3>1. at \in [1 .. pos -> A]
      BY <2>6
    <3> HIDE DEF at, A
    <3>2. QED
      BY <2>6, <3>1 DEF Injection, IsInjective
  <2> HIDE DEF at, A
  <2>8. IsFiniteSet(1 .. pos) /\ Cardinality(1 .. pos) = pos
    <3>1. 1 \in Int /\ pos \in Int
      BY <2>1
    <3>2. IsFiniteSet(1 .. pos)
          /\ Cardinality(1 .. pos) = IF 1 > pos THEN 0 ELSE pos - 1 + 1
      BY <3>1, FS_Interval
    <3>3. QED
      BY <2>1, <3>2
  <2>9. pos <= Cardinality(A)
    BY <2>4, <2>7, <2>8, FS_Injection
  <2>10. N # 0 /\ N \in Nat \ {0} /\ Cardinality(A) \in Nat
    BY <1>7, <2>1, <2>4, <2>5, <2>9
  <2> DEFINE b == (100 * pos) \div N
  <2>11. b \in Int /\ N * b \in Int /\ N * b <= 100 * pos
    <3>1. 100 * pos \in Int
      BY <2>1
    <3>2. QED
      BY <2>10, <3>1, DivIs
  <2>12. ProgressFilled(j) = Min({100, b})
    BY <1>5, <2>10
  <2> HIDE DEF b
  <2>13. ProgressFilled(j) \in Int /\ ProgressFilled(j) <= b
    <3>1. 100 \in Int
      OBVIOUS
    <3>2. Min({100, b}) = IF 100 <= b THEN 100 ELSE b
      BY <2>11, <3>1, MaxPair
    <3>3. QED
      BY <2>11, <2>12, <3>2
  <2>14. ProgressFilled(j) * N <= b * N
    BY <2>10, <2>11, <2>13
  <2>15. b * N = N * b
    BY <2>10, <2>11
  <2>16. 100 * pos <= 100 * Cardinality(A)
    BY <2>1, <2>9, <2>10
  <2>17. ProgressFilled(j) * N <= 100 * Cardinality(A)
    <3> DEFINE x == ProgressFilled(j) * N
    <3>1. x \in Int
      BY <2>10, <2>13
    <3> HIDE DEF x
    <3>2. QED
      BY <2>1, <2>10, <2>11, <2>14, <2>15, <2>16, <3>1 DEF x
  <2>18. /\ Cardinality(K) + c <= N
         /\ ProgressFilled(j) * N <= 100 * (Cardinality(K) + c)
    BY <2>2, <2>4, <2>5, <2>17
  <2> HIDE DEF c
  <2>19. QED
    BY <1>3, <1>4, <1>8, <2>18 DEF StepsShownOnce, St, s, here, pos, h, c
<1>11. QED
  BY <1>9, <1>10

LEMMA PageIsRight == LogTyped => JobPageAgrees
<1> SUFFICES ASSUME LogTyped, NEW j \in DOMAIN jobs PROVE JourneyAddsUp(j) /\ StepsShownOnce(j)
  BY DEF JobPageAgrees
<1>1. JourneyAddsUp(j)
  BY ChartAddsUp, LongestIsVisit, BarFits DEF JourneyAddsUp
<1>2. QED
  BY <1>1, StepsAreRight

(* The page of a job and its row of the board show one journey.            *)
THEOREM JobPageIsOneJourney == LogSpec => []JobPageAgrees
<1>1. QED
  BY LogIsTyped, PageIsRight, PTL

===============================================================================
