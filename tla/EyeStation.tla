------------------------------ MODULE EyeStation ------------------------------
(***************************************************************************)
(* One eye and what the backend learns from it: manu-eye/src/main.py,      *)
(* client.py and camera.py around the tracker of Presence, with the part   *)
(* of the backend they talk to (eyes.service.ts, the eye assignment of     *)
(* stations.service.ts, the events table).                                 *)
(*                                                                         *)
(* A request either is answered, or fails without reaching the backend, or *)
(* times out at the client (REQUEST_TIMEOUT) and may be processed later,   *)
(* after younger ones.  The board shows a tray where its event with the    *)
(* latest captured_at puts it; the clock of the eye is taken to move       *)
(* forward from one event to the next.                                     *)
(***************************************************************************)
EXTENDS Presence, Sequences, FiniteSetsExt

CONSTANTS
  Stations,
  NoStation,    \* the eye is assigned to no station
  MaxFailures,  \* max_consecutive_failures (10)
  MaxDelayed    \* bound: timed-out requests of a tray

ASSUME EyeAssumption ==
  /\ NoStation \notin Stations
  /\ MaxFailures \in Nat \ {0}
  /\ MaxDelayed \in Nat

VARIABLES
  mode,       \* where the process is; "off" is killed, "stopped" exited by itself
  shutdown,   \* _shutdown_requested
  station,    \* the StationInfo of this run
  unsent,     \* transitions of the last frame still to be sent
  failures,   \* consecutive_failures of the camera
  reachable,  \* requests reach the backend
  alive,      \* stations of the backend
  assigned,   \* the station with this eye_id
  log,        \* events of each tray, by captured_at; see Store
  last,       \* history: the last phase of each code this run tried to send
  unknown     \* history: codes whose last phase cannot be in the backend

eye     == <<mode, shutdown, station, unsent, failures>>
backend == <<reachable, alive, assigned>>
eyeVars == <<vars, eye, backend, log, last, unknown>>

(* A row of tracking_events, or the request for one that is still to be    *)
(* stored.                                                                 *)
Event == [phase : {"arrived", "departed"}, station : Stations, stored : BOOLEAN]

Stored(q)  == {i \in DOMAIN q : q[i].stored}
Delayed(q) == {i \in DOMAIN q : ~q[i].stored}

(* The events of q at the places S, in their order.                        *)
Kept(q, S) ==
  LET Place(i) == Cardinality({j \in S : j <= i})
  IN  [k \in 1 .. Cardinality(S) |-> q[CHOOSE i \in S : Place(i) = k]]

EyeInit ==
  /\ Init
  /\ mode = "off"
  /\ shutdown = FALSE
  /\ station = NoStation
  /\ unsent = {}
  /\ failures = 0
  /\ reachable = TRUE
  /\ alive = Stations
  /\ assigned = NoStation
  /\ log = [c \in Codes |-> <<>>]
  /\ last = [c \in Codes |-> "none"]
  /\ unknown = {}

-------------------------------------------------------------------------------

(* What the process forgets when it ends, and starts with.                 *)
Forget ==
  /\ shutdown' = FALSE
  /\ station' = NoStation
  /\ unsent' = {}
  /\ failures' = 0
  /\ present' = {} /\ out' = {}
  /\ presentStreak' = Empty /\ presentMisses' = Empty /\ absentStreak' = Empty
  /\ last' = [c \in Codes |-> "none"]
  /\ unknown' = {}

(* main() again, with a new tracker, not yet registered.                   *)
Start ==
  /\ mode \in {"off", "stopped"}
  /\ mode' = "registering"
  /\ Forget
  /\ UNCHANGED <<backend, log>>

(* Power, SIGKILL or an exception nobody catches.                          *)
Crash ==
  /\ mode \notin {"off", "stopped"}
  /\ mode' = "off"
  /\ Forget
  /\ UNCHANGED <<backend, log>>

(* _handle_sigterm only sets the flag.                                     *)
Sigterm ==
  /\ mode \notin {"off", "stopped"}
  /\ shutdown' = TRUE
  /\ UNCHANGED <<vars, mode, station, unsent, failures, backend, log, last, unknown>>

(* Faulty variant: an unreachable backend ends the process.                *)
RegisterOrExit ==
  /\ mode = "registering" /\ ~shutdown
  /\ \/ reachable /\ assigned # NoStation /\ mode' = "opening" /\ station' = assigned
     \/ ~reachable /\ mode' = "stopped" /\ station' = station
  /\ UNCHANGED <<vars, shutdown, unsent, failures, backend, log, last, unknown>>

(* wait_for_registration: any other answer than a station (404, an error)  *)
(* is followed by a sleep and another try, which changes nothing.          *)
Register ==
  /\ mode = "registering" /\ ~shutdown
  /\ reachable /\ assigned # NoStation
  /\ mode' = "opening"
  /\ station' = assigned
  /\ UNCHANGED <<vars, shutdown, unsent, failures, backend, log, last, unknown>>

(* Faulty variant: the flag is looked at after a registration only.        *)
StopOnceAssigned ==
  /\ mode = "registering" /\ shutdown /\ reachable /\ assigned # NoStation
  /\ mode' = "stopped"
  /\ UNCHANGED <<vars, shutdown, station, unsent, failures, backend, log, last, unknown>>

(* while not _shutdown_requested ... raise SystemExit(0)                   *)
StopRegistering ==
  /\ mode = "registering" /\ shutdown
  /\ mode' = "stopped"
  /\ UNCHANGED <<vars, shutdown, station, unsent, failures, backend, log, last, unknown>>

(* capture_frames opens the camera before the first frame, or raises.      *)
OpenCamera ==
  /\ mode = "opening"
  /\ mode' \in {"capturing", "stopped"}
  /\ UNCHANGED <<vars, shutdown, station, unsent, failures, backend, log, last, unknown>>

(* Faulty variant: one failed read too many.                               *)
ReadFailsOnceMore ==
  /\ mode = "capturing" /\ unsent = {}
  /\ failures' = failures + 1
  /\ mode' = IF failures' > MaxFailures THEN "stopped" ELSE "capturing"
  /\ UNCHANGED <<vars, shutdown, station, unsent, backend, log, last, unknown>>

(* A failed read: retried, or the end of the generator and of run().       *)
ReadFails ==
  /\ mode = "capturing" /\ unsent = {}
  /\ failures' = failures + 1
  /\ mode' = IF failures' >= MaxFailures THEN "stopped" ELSE "capturing"
  /\ UNCHANGED <<vars, shutdown, station, unsent, backend, log, last, unknown>>

(* A frame: the flag is looked at first, then the tracker.                 *)
Frame(current) ==
  /\ mode = "capturing" /\ unsent = {}
  /\ failures' = 0
  /\ IF shutdown
     THEN mode' = "stopped" /\ UNCHANGED <<vars, unsent>>
     ELSE mode' = mode /\ ProcessFrame(current) /\ unsent' = out'
  /\ UNCHANGED <<shutdown, station, backend, log, last, unknown>>

-------------------------------------------------------------------------------

(* process_frame lists the departures of a frame before its arrivals.      *)
NextToSend(tr) ==
  /\ mode = "capturing" /\ tr \in unsent
  /\ tr[1] = "arrived" => \A u \in unsent : u[1] = "arrived"

(* The places of q with events at another station than s.                  *)
OfOther(q, s) == {i \in DOMAIN q : q[i].station # s}

(* Faulty variant: the last event stored counts, whenever captured.        *)
StoreByArrival(q, i) ==
  Append(Kept(q, (Delayed(q) \ {i}) \cup OfOther(q, q[i].station)),
         [q[i] EXCEPT !.stored = TRUE])

(* The backend stores event number i of q.  Earlier events of the tray at  *)
(* that station can no longer be the latest anywhere, and are left out.    *)
Store(q, i) ==
  Kept([q EXCEPT ![i].stored = TRUE],
       OfOther(q, q[i].station) \cup {j \in DOMAIN q : i <= j})

(* The log of the tray with the event of this transition, not yet stored.  *)
WithEvent(tr) ==
  Append(log[tr[2]], [phase |-> tr[1], station |-> station, stored |-> FALSE])

(* send_event succeeds: the station of this run exists.                    *)
Send(tr) ==
  /\ NextToSend(tr)
  /\ reachable /\ station \in alive
  /\ log' = [log EXCEPT ![tr[2]] = Store(WithEvent(tr), Len(WithEvent(tr)))]
  /\ unsent' = unsent \ {tr}
  /\ last' = [last EXCEPT ![tr[2]] = tr[1]]
  /\ unknown' = unknown \ {tr[2]}
  /\ UNCHANGED <<vars, mode, shutdown, station, failures, backend>>

(* Faulty variant: an error leaves the loop over the transitions.          *)
LoseRest(tr) ==
  /\ NextToSend(tr)
  /\ ~reachable \/ station \notin alive
  /\ unsent' = {}
  /\ last' = [last EXCEPT ![tr[2]] = tr[1]]
  /\ unknown' = unknown \cup {tr[2]}
  /\ UNCHANGED <<vars, mode, shutdown, station, failures, backend, log>>

(* httpx.HTTPError: unreachable, or 400 for a station that is gone.  The   *)
(* error is logged and the loop goes on.                                   *)
Lose(tr) ==
  /\ NextToSend(tr)
  /\ ~reachable \/ station \notin alive
  /\ unsent' = unsent \ {tr}
  /\ last' = [last EXCEPT ![tr[2]] = tr[1]]
  /\ unknown' = unknown \cup {tr[2]}
  /\ UNCHANGED <<vars, mode, shutdown, station, failures, backend, log>>

(* httpx.TimeoutException: the backend has the request but is slow.        *)
TimeOut(tr) ==
  /\ NextToSend(tr)
  /\ reachable /\ station \in alive
  /\ Cardinality(Delayed(log[tr[2]])) < MaxDelayed
  /\ log' = [log EXCEPT ![tr[2]] = WithEvent(tr)]
  /\ unsent' = unsent \ {tr}
  /\ last' = [last EXCEPT ![tr[2]] = tr[1]]
  /\ unknown' = unknown \ {tr[2]}
  /\ UNCHANGED <<vars, mode, shutdown, station, failures, backend>>

(* The backend gets to the timed-out requests, in any order.               *)
ProcessLate(c) ==
  /\ \E i \in Delayed(log[c]) : log' = [log EXCEPT ![c] = Store(@, i)]
  /\ UNCHANGED <<vars, eye, backend, last, unknown>>

-------------------------------------------------------------------------------

(* assignEyeTx: the eye leaves the station it had.                         *)
AssignEye(s) ==
  /\ s \in alive
  /\ assigned' = s
  /\ UNCHANGED <<vars, eye, reachable, alive, log, last, unknown>>

(* unassignEye, or another eye assigned to the station.                    *)
UnassignEye ==
  /\ assigned # NoStation
  /\ assigned' = NoStation
  /\ UNCHANGED <<vars, eye, reachable, alive, log, last, unknown>>

(* deleteStationTx drops the assignment and the events; requests for the   *)
(* station fail from then on.                                              *)
RemoveStation(s) ==
  /\ s \in alive
  /\ alive' = alive \ {s}
  /\ assigned' = IF assigned = s THEN NoStation ELSE assigned
  /\ log' = [c \in Codes |-> Kept(log[c], OfOther(log[c], s))]
  /\ UNCHANGED <<vars, eye, reachable, last, unknown>>

(* deleteJobTx drops the events of a tray; the eye does not notice.        *)
ForgetTray(c) ==
  /\ log' = [log EXCEPT ![c] = Kept(@, Delayed(@))]
  /\ unknown' = unknown \cup {c}
  /\ UNCHANGED <<vars, eye, backend, last>>

(* The network or the backend goes down or comes back.                     *)
Reach ==
  /\ reachable' = ~reachable
  /\ UNCHANGED <<vars, eye, alive, assigned, log, last, unknown>>

-------------------------------------------------------------------------------

(* Faulty variant: the latest arrival, departed from or not.               *)
BoardStationOfArrival(c) ==
  LET rows == {i \in Stored(log[c]) : log[c][i].phase = "arrived"}
  IN  IF rows = {} THEN NoStation ELSE log[c][Max(rows)].station

(* getJobBoard: the station of the latest event of the tray, or none when  *)
(* that is a departure.                                                    *)
BoardStation(c) ==
  LET rows   == Stored(log[c])
      latest == log[c][Max(rows)]
  IN  IF rows = {} \/ latest.phase = "departed" THEN NoStation ELSE latest.station

-------------------------------------------------------------------------------

(* One thread: a step is always possible, except for the wait between two  *)
(* registrations.                                                          *)
EyeStep ==
  \/ Register \/ StopRegistering \/ OpenCamera \/ ReadFails
  \/ \E current \in SUBSET Codes : Frame(current)
  \/ \E tr \in unsent : Send(tr) \/ Lose(tr) \/ TimeOut(tr)

Environment ==
  \/ Start \/ Crash \/ Sigterm \/ UnassignEye \/ Reach
  \/ \E s \in Stations : AssignEye(s) \/ RemoveStation(s)
  \/ \E c \in Codes : ForgetTray(c) \/ ProcessLate(c)

EyeNext == EyeStep \/ Environment

(* The loop of the process goes on; nothing is promised of the rest.       *)
EyeSpec == EyeInit /\ [][EyeNext]_eyeVars /\ WF_eyeVars(EyeStep)

-------------------------------------------------------------------------------

(* The state of the process, and no delayed event where a later one of the *)
(* tray at that station is stored.                                         *)
EyeTypeOK ==
  /\ mode \in {"off", "registering", "opening", "capturing", "stopped"}
  /\ shutdown \in BOOLEAN /\ reachable \in BOOLEAN
  /\ alive \subseteq Stations
  /\ assigned \in alive \cup {NoStation}
  /\ station \in Stations \cup {NoStation}
  /\ mode \in {"opening", "capturing"} => station # NoStation
  /\ failures \in 0 .. MaxFailures
  /\ mode = "capturing" => failures < MaxFailures
  /\ unsent \subseteq out
  /\ log \in [Codes -> Seq(Event)]
  /\ \A c \in Codes : \A i, j \in DOMAIN log[c] :
       i < j /\ log[c][j].stored => log[c][i].station # log[c][j].station
  /\ last \in [Codes -> {"none", "arrived", "departed"}]
  /\ unknown \subseteq Codes

(* While capturing, every transition of the tracker has been tried or is   *)
(* still to be sent, whatever failed before: what was last tried for a     *)
(* tray is where the tracker has it, but for the transition in hand.       *)
AttemptsAgree ==
  mode = "capturing" =>
    \A c \in Codes :
      last[c] = "arrived" <=>
        \/ <<"departed", c>> \in unsent
        \/ c \in present /\ <<"arrived", c>> \notin unsent

(* Timeouts and late processing are harmless: once no request of the tray  *)
(* is left, the board shows it at the eye's station exactly when the       *)
(* tracker has it there, unless its last event was lost, or deleted.       *)
BoardFollowsTracker ==
  mode = "capturing" /\ station \in alive =>
    \A c \in Codes :
      /\ last[c] # "none" /\ c \notin unknown
      /\ \A tr \in unsent : tr[2] # c
      /\ Delayed(log[c]) = {}
      => BoardStation(c) = IF c \in present THEN station ELSE NoStation

(* SIGTERM ends the process wherever it is: without a station, with the    *)
(* backend down, with a camera that fails.                                 *)
ShutdownEnds == shutdown ~> mode \in {"off", "stopped"}

(* An eye that is assigned for good, to a backend that is up for good,     *)
(* does not stay in the registration loop and does not leave it either,    *)
(* other than to open the camera, unless it is told to stop or dies.       *)
AssignedEyeRegisters ==
  <>[](reachable /\ assigned # NoStation)
    => (mode = "registering" ~> mode \in {"opening", "off"} \/ shutdown)
===============================================================================
