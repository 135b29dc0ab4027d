----------------------------- MODULE EyeTheorems ------------------------------
(***************************************************************************)
(* The tracker keeps the promises of TrayPresence for every number of      *)
(* codes and every threshold and grace.  No failure makes the eye skip or  *)
(* repeat a transition, and the board shows each tray where the eye has    *)
(* it, for any number of codes, stations and delayed requests.             *)
(***************************************************************************)
EXTENDS EyeStation, PresenceHistory, TotalsTheorems

(* What the tracker keeps of the history: for a code that is present its   *)
(* absence streak is the run of misses; for one that is not, its misses    *)
(* are the run of misses, and its arrival streak lies between the frames   *)
(* that showed it in a row and those that showed it at all.                *)
Counters ==
  /\ hits \in [Codes -> 0 .. FramesToArrive]
  /\ hitRun \in [Codes -> 0 .. FramesToArrive]
  /\ missRun \in [Codes -> 0 .. Promise!LongestMiss]

Linked ==
  \A c \in Codes :
    /\ c \in present => Get(absentStreak, c) = missRun[c]
    /\ c \in DOMAIN presentStreak => Get(presentMisses, c) = missRun[c]
    /\ c \notin present => /\ hitRun[c] <= Get(presentStreak, c)
                           /\ Get(presentStreak, c) <= hits[c]

Inv == TypeOK /\ DictsAgree /\ Counters /\ Linked

-------------------------------------------------------------------------------

(* A counter that is not in its dict counts as 0.                          *)
LEMMA GetType ==
  ASSUME TypeOK, NEW c
  PROVE  /\ Get(presentStreak, c) \in 0 .. FramesToArrive - 1
         /\ Get(presentMisses, c) \in 0 .. MissGrace
         /\ Get(absentStreak, c) \in 0 .. FramesToDepart - 1
BY ParametersAssumption DEF TypeOK, Get

(* A frame keeps every counter below its threshold.                        *)
LEMMA FrameKeepsType ==
  ASSUME TypeOK, DictsAgree, NEW current \in SUBSET Codes, ProcessFrame(current)
  PROVE  TypeOK'
<1> DEFINE departed == Departing(current)
           arrived  == Arriving(current)
           gaining  == Gaining(current)
           losing   == (DOMAIN presentStreak \ current) \ (Dropped(current) \cup departed)
<1>1. departed \subseteq Codes /\ arrived \subseteq Codes
  BY DEF Departing, Arriving, TypeOK
<1>2. present' \subseteq Codes /\ out' \subseteq {"arrived", "departed"} \X Codes
  BY <1>1 DEF ProcessFrame, TypeOK
<1>3. \A c \in (present \ current) \ departed : Get(absentStreak, c) + 1 \in 1 .. FramesToDepart - 1
  BY GetType, ParametersAssumption DEF Departing
<1>4. absentStreak' \in [DOMAIN absentStreak' -> 1 .. FramesToDepart - 1]
  BY <1>3 DEF ProcessFrame
<1>5. \A c \in gaining : Get(presentStreak, c) + 1 \in 0 .. FramesToArrive - 1
  BY GetType, ParametersAssumption DEF Gaining, Arriving
<1>6. \A c \in losing : presentStreak[c] \in 0 .. FramesToArrive - 1
  BY DEF TypeOK
<1>7. \A c \in losing : (IF presentStreak[c] > 0 THEN presentStreak[c] - 1 ELSE 0)
                          \in 0 .. FramesToArrive - 1
  BY <1>6, ParametersAssumption
<1>8. \A c \in losing : Get(presentMisses, c) + 1 \in 1 .. MissGrace
  BY GetType, ParametersAssumption DEF Dropped
<1> HIDE DEF gaining, losing
<1>9. /\ presentStreak' \in [DOMAIN presentStreak' -> 0 .. FramesToArrive - 1]
      /\ presentMisses' \in [DOMAIN presentMisses' -> 1 .. MissGrace]
  BY <1>5, <1>7, <1>8 DEF ProcessFrame, gaining, losing
<1>10. QED
  BY <1>2, <1>4, <1>9 DEF TypeOK

(* A frame keeps the dicts in agreement.                                   *)
LEMMA FrameKeepsDicts ==
  ASSUME TypeOK, DictsAgree, NEW current \in SUBSET Codes, ProcessFrame(current)
  PROVE  DictsAgree'
BY DEF ProcessFrame, DictsAgree, TypeOK, Departing, Arriving, Gaining, Dropped

(* The dicts of the tracker agree and stay in range, history or not.       *)
THEOREM TrackerConsistent == Spec => [](TypeOK /\ DictsAgree)
<1>1. Init => TypeOK /\ DictsAgree
  BY ParametersAssumption DEF Init, Empty, TypeOK, DictsAgree
<1>2. TypeOK /\ DictsAgree /\ [Next]_vars => (TypeOK /\ DictsAgree)'
  <2>1. ASSUME TypeOK, DictsAgree, UNCHANGED vars
        PROVE  TypeOK' /\ DictsAgree'
    BY <2>1 DEF vars, TypeOK, DictsAgree
  <2>2. QED
    BY <2>1, FrameKeepsType, FrameKeepsDicts DEF Next
<1>3. QED
  BY <1>1, <1>2, PTL DEF Spec

(* Presence, reports and counters are always in range: no counter reaches  *)
(* the threshold at which process_frame reports and resets it.             *)
THEOREM TrackerTyped == Spec => []TypeOK
BY TrackerConsistent, PTL

-------------------------------------------------------------------------------

(* The counters of the history stay in range, and each moves as its name   *)
(* says.                                                                   *)
LEMMA CountKeepsType ==
  ASSUME Counters, NEW current \in SUBSET Codes, NEW departed,
         Promise!Count(current, departed)
  PROVE  Counters'
<1>1. Promise!LongestMiss \in Nat /\ FramesToArrive \in Nat
  BY ParametersAssumption DEF Promise!LongestMiss
<1>2. \A c \in Codes : /\ hits[c] \in 0 .. FramesToArrive
                      /\ hitRun[c] \in 0 .. FramesToArrive
                      /\ missRun[c] \in 0 .. Promise!LongestMiss
  BY DEF Counters
<1>3. /\ \A c \in Codes : Promise!UpTo(hitRun[c] + 1, FramesToArrive) \in 0 .. FramesToArrive
      /\ \A c \in Codes : Promise!UpTo(hits[c] + 1, FramesToArrive) \in 0 .. FramesToArrive
      /\ \A c \in Codes : Promise!UpTo(missRun[c] + 1, Promise!LongestMiss)
                            \in 0 .. Promise!LongestMiss
  BY <1>1, <1>2 DEF Promise!UpTo
<1> HIDE DEF Counters
<1>4. hitRun' \in [Codes -> 0 .. FramesToArrive]
  BY <1>1, <1>3 DEF Promise!Count
<1>5. missRun' \in [Codes -> 0 .. Promise!LongestMiss]
  BY <1>1, <1>3 DEF Promise!Count
<1>6. hits' \in [Codes -> 0 .. FramesToArrive]
  BY <1>1, <1>2, <1>3 DEF Promise!Count
<1>7. QED
  BY <1>4, <1>5, <1>6 DEF Counters

(* A code departs in the frame that misses it for the FramesToDepart-th    *)
(* time in a row.                                                          *)
LEMMA DepartingIsPromised ==
  ASSUME Linked, TypeOK, NEW current \in SUBSET Codes
  PROVE  Departing(current) = {c \in present \ current : missRun[c] + 1 >= FramesToDepart}
BY DEF Departing, Linked, TypeOK

(* What links the dicts to the history is kept, code by code: present      *)
(* codes by the absence streak, the others by their arrival streak.        *)
LEMMA FrameKeepsLinks ==
  ASSUME Inv, NEW current \in SUBSET Codes, ProcessFrame(current),
         Promise!Count(current, Departing(current))
  PROVE  Linked'
<1> DEFINE departed == Departing(current)
           losing   == (DOMAIN presentStreak \ current) \ (Dropped(current) \cup departed)
<1>1. FramesToArrive \in Nat \ {0} /\ FramesToDepart \in Nat \ {0} /\ MissGrace \in Nat
  BY ParametersAssumption
<1>2. Promise!LongestMiss \in Nat /\ FramesToDepart <= Promise!LongestMiss
        /\ MissGrace + 1 <= Promise!LongestMiss
  BY <1>1 DEF Promise!LongestMiss
<1> SUFFICES ASSUME NEW c \in Codes
             PROVE  /\ c \in present' => Get(absentStreak, c)' = missRun'[c]
                    /\ c \in DOMAIN presentStreak' => Get(presentMisses, c)' = missRun'[c]
                    /\ c \notin present' => /\ hitRun'[c] <= Get(presentStreak, c)'
                                            /\ Get(presentStreak, c)' <= hits'[c]
  BY DEF Linked
<1>3. /\ hits[c] \in 0 .. FramesToArrive
      /\ hitRun[c] \in 0 .. FramesToArrive
      /\ missRun[c] \in 0 .. Promise!LongestMiss
  BY DEF Inv, Counters
<1>4. /\ c \in present => Get(absentStreak, c) = missRun[c]
      /\ c \in DOMAIN presentStreak => Get(presentMisses, c) = missRun[c]
      /\ c \notin present => /\ hitRun[c] <= Get(presentStreak, c)
                             /\ Get(presentStreak, c) <= hits[c]
  BY DEF Inv, Linked
<1>5. /\ Get(presentStreak, c) \in 0 .. FramesToArrive - 1
      /\ Get(presentMisses, c) \in 0 .. MissGrace
      /\ Get(absentStreak, c) \in 0 .. FramesToDepart - 1
  BY GetType DEF Inv
<1>6. /\ hitRun'[c] = IF c \in current THEN Promise!UpTo(hitRun[c] + 1, FramesToArrive) ELSE 0
      /\ missRun'[c] = IF c \in current THEN 0
                       ELSE Promise!UpTo(missRun[c] + 1, Promise!LongestMiss)
      /\ hits'[c] = IF c \in current THEN Promise!UpTo(hits[c] + 1, FramesToArrive)
                    ELSE IF c \in departed \/ missRun'[c] > MissGrace THEN 0 ELSE hits[c]
  BY DEF Promise!Count
<1>7. DictsAgree /\ TypeOK
  BY DEF Inv
<1>8. CASE c \in present
  <2>1. c \notin DOMAIN presentStreak
    BY <1>7, <1>8 DEF DictsAgree
  <2>2. c \notin DOMAIN presentStreak'
    BY <1>8, <2>1 DEF ProcessFrame, Gaining
  <2>3. CASE c \in current
    <3>1. c \in present' /\ c \notin DOMAIN absentStreak'
      BY <1>8, <2>3 DEF ProcessFrame, Departing
    <3>2. QED
      BY <1>6, <2>2, <2>3, <3>1 DEF Get
  <2>4. CASE c \notin current /\ c \in departed
    <3>1. c \notin present'
      BY <1>8, <2>4 DEF ProcessFrame, Arriving
    <3>2. QED
      BY <1>6, <2>2, <2>4, <3>1 DEF Get
  <2>5. CASE c \notin current /\ c \notin departed
    <3>1. c \in present' /\ Get(absentStreak, c)' = Get(absentStreak, c) + 1
      BY <1>8, <2>5 DEF ProcessFrame, Get
    <3>2. missRun[c] + 1 < FramesToDepart
      BY <1>1, <1>3, <1>4, <1>8, <2>5 DEF Departing
    <3>3. missRun'[c] = missRun[c] + 1
      BY <1>1, <1>2, <1>3, <1>6, <2>5, <3>2 DEF Promise!UpTo
    <3>4. QED
      BY <1>4, <1>8, <2>2, <3>1, <3>3
  <2>6. QED
    BY <2>3, <2>4, <2>5
<1>9. CASE c \notin present
  <2>1. c \notin departed
    BY <1>9 DEF Departing
  <2>2. CASE c \in Arriving(current)
    <3>1. c \in current /\ c \in present' /\ c \notin DOMAIN presentStreak'
      BY <2>2 DEF ProcessFrame, Arriving, Gaining
    <3>2. c \notin DOMAIN absentStreak'
      BY <1>9 DEF ProcessFrame
    <3>3. QED
      BY <1>6, <3>1, <3>2 DEF Get
  <2>3. CASE c \in current /\ c \notin Arriving(current)
    <3>1. c \notin present'
      BY <1>9, <2>3 DEF ProcessFrame
    <3>2. c \in Gaining(current) /\ c \notin losing
      BY <1>9, <2>3 DEF Gaining
    <3>3. Get(presentStreak, c)' = Get(presentStreak, c) + 1 /\ c \notin DOMAIN presentMisses'
      BY <3>2 DEF ProcessFrame, Get
    <3>4. Get(presentStreak, c) + 1 < FramesToArrive
      BY <1>1, <1>5, <1>9, <2>3 DEF Arriving
    <3>5. hitRun'[c] = hitRun[c] + 1 \/ (hitRun'[c] = FramesToArrive /\ hitRun[c] = FramesToArrive)
      BY <1>1, <1>3, <1>6, <2>3 DEF Promise!UpTo
    <3>6. hits'[c] >= Get(presentStreak, c) + 1
      BY <1>1, <1>3, <1>4, <1>5, <1>6, <1>9, <2>3, <3>4 DEF Promise!UpTo
    <3>7. hitRun'[c] <= Get(presentStreak, c) + 1
      BY <1>1, <1>3, <1>4, <1>5, <1>9, <3>4, <3>5
    <3>8. Get(presentMisses, c)' = missRun'[c]
      BY <1>6, <2>3, <3>3 DEF Get
    <3>9. QED
      BY <3>1, <3>3, <3>6, <3>7, <3>8
  <2>4. CASE c \notin current /\ c \in losing
    <3>1. c \notin present' /\ c \in DOMAIN presentStreak
      BY <1>9, <2>4 DEF ProcessFrame, Arriving
    <3>2. /\ Get(presentMisses, c)' = Get(presentMisses, c) + 1
          /\ Get(presentStreak, c)' =
               IF Get(presentStreak, c) > 0 THEN Get(presentStreak, c) - 1 ELSE 0
      BY <2>4, <3>1 DEF ProcessFrame, Gaining, Get
    <3>3. missRun[c] + 1 <= MissGrace
      BY <1>1, <1>3, <1>4, <2>4, <3>1 DEF Dropped
    <3>4. missRun'[c] = missRun[c] + 1 /\ hits'[c] = hits[c] /\ hitRun'[c] = 0
      BY <1>1, <1>2, <1>3, <1>6, <2>1, <2>4, <3>3 DEF Promise!UpTo
    <3>5. /\ hitRun'[c] <= Get(presentStreak, c)'
          /\ Get(presentStreak, c)' <= hits'[c]
      BY <1>1, <1>3, <1>4, <1>5, <1>9, <3>2, <3>4
    <3>6. QED
      BY <1>4, <3>1, <3>2, <3>4, <3>5
  <2>5. CASE c \notin current /\ c \notin losing
    <3>1. c \notin present' /\ c \notin DOMAIN presentStreak'
      BY <1>9, <2>5 DEF ProcessFrame, Arriving, Gaining
    <3>2. hits'[c] \in Nat
      BY <1>1, <1>3, <1>6, <2>5
    <3>3. QED
      BY <1>6, <2>5, <3>1, <3>2 DEF Get
  <2>6. QED
    BY <2>2, <2>3, <2>4, <2>5 DEF Arriving
<1>10. QED
  BY <1>8, <1>9

(* A frame of the tracker is a frame of TrayPresence: it reports the codes *)
(* whose arrival streak it completes.                                      *)
LEMMA FrameIsPromised ==
  ASSUME Inv, NEW current \in SUBSET Codes, ProcessFrame(current),
         Promise!Count(current, Departing(current))
  PROVE  Promise!Frame(current)
<1>1. FramesToArrive \in Nat \ {0}
  BY ParametersAssumption
<1>2. Departing(current) = {c \in present \ current : missRun[c] + 1 >= FramesToDepart}
  BY DepartingIsPromised DEF Inv
<1>3. Arriving(current) \in SUBSET (current \ present)
  BY DEF Arriving
<1>4. ASSUME NEW c \in current \ present
      PROVE  /\ hitRun[c] <= Get(presentStreak, c) /\ Get(presentStreak, c) <= hits[c]
             /\ hits[c] \in Nat /\ hitRun[c] \in Nat /\ Get(presentStreak, c) \in Nat
  BY <1>1, GetType DEF Inv, Linked, Counters
<1>5. \A c \in current \ present : hitRun[c] + 1 >= FramesToArrive => c \in Arriving(current)
  BY <1>1, <1>4 DEF Arriving
<1>6. \A c \in Arriving(current) : hits[c] + 1 >= FramesToArrive
  BY <1>1, <1>4 DEF Arriving
<1>7. /\ present' = (present \ Departing(current)) \cup Arriving(current)
      /\ out' = ({"arrived"} \X Arriving(current)) \cup ({"departed"} \X Departing(current))
  BY DEF ProcessFrame
<1>8. QED
  BY <1>2, <1>3, <1>5, <1>6, <1>7 DEF Promise!Frame

(* The links hold in every state of the tracker with its history.          *)
THEOREM HistoryConsistent == HistorySpec => []Inv
<1>1. HistoryInit => Inv
  BY ParametersAssumption
     DEF HistoryInit, Init, Empty, Inv, TypeOK, DictsAgree, Counters, Linked, Get,
         Promise!LongestMiss
<1>2. Inv /\ [HistoryNext]_<<vars, history>> => Inv'
  <2>1. ASSUME Inv, NEW current \in SUBSET Codes, ProcessFrame(current),
               Promise!Count(current, Departing(current))
        PROVE  Inv'
    <3>1. TypeOK' /\ DictsAgree'
      BY <2>1, FrameKeepsType, FrameKeepsDicts DEF Inv
    <3>2. Counters'
      BY <2>1, CountKeepsType DEF Inv
    <3>3. Linked'
      BY <2>1, FrameKeepsLinks
    <3>4. QED
      BY <3>1, <3>2, <3>3 DEF Inv
  <2>2. ASSUME Inv, UNCHANGED <<vars, history>>
        PROVE  Inv'
    BY <2>2 DEF vars, history, Inv, TypeOK, DictsAgree, Counters, Linked, Get
  <2>3. QED
    BY <2>1, <2>2 DEF HistoryNext
<1>3. QED
  BY <1>1, <1>2, PTL DEF HistorySpec

(* What the camera reports is what TrayPresence promises: arrivals neither *)
(* too early nor too late, departures exactly on time (process_frame).     *)
THEOREM TrackerKeepsPromise == HistorySpec => KeepsPromise
<1>1. HistoryInit => Promise!Init
  BY DEF HistoryInit, Init, Promise!Init
<1>2. Inv /\ [HistoryNext]_<<vars, history>> => [Promise!Next]_(Promise!presenceVars)
  <2>1. ASSUME Inv, NEW current \in SUBSET Codes, ProcessFrame(current),
               Promise!Count(current, Departing(current))
        PROVE  Promise!Next
    BY <2>1, FrameIsPromised DEF Promise!Next
  <2>2. ASSUME UNCHANGED <<vars, history>>
        PROVE  UNCHANGED Promise!presenceVars
    BY <2>2 DEF vars, history, Promise!presenceVars
  <2>3. QED
    BY <2>1, <2>2 DEF HistoryNext
<1>3. QED
  BY <1>1, <1>2, HistoryConsistent, PTL DEF HistorySpec, KeepsPromise, Promise!Spec

(* A code out of sight for long enough is in no dict of the tracker.       *)
THEOREM TrackerForgets == HistorySpec => []NothingLeftBehind
<1>1. Inv => NothingLeftBehind
  <2>1. SUFFICES ASSUME Inv, NEW c \in Codes, missRun[c] >= FramesToDepart, missRun[c] > MissGrace
                 PROVE  c \notin present \cup DOMAIN presentStreak \cup DOMAIN presentMisses
                                        \cup DOMAIN absentStreak
    BY DEF NothingLeftBehind
  <2>2. FramesToDepart \in Nat \ {0} /\ MissGrace \in Nat /\ Promise!LongestMiss \in Nat
    BY ParametersAssumption DEF Promise!LongestMiss
  <2>3. /\ missRun[c] \in Nat
        /\ Get(presentMisses, c) \in 0 .. MissGrace
        /\ Get(absentStreak, c) \in 0 .. FramesToDepart - 1
    BY <2>1, <2>2, GetType DEF Inv, Counters
  <2>4. c \notin present
    BY <2>1, <2>2, <2>3 DEF Inv, Linked
  <2>5. c \notin DOMAIN presentStreak
    BY <2>1, <2>2, <2>3 DEF Inv, Linked
  <2>6. QED
    BY <2>1, <2>4, <2>5 DEF Inv, DictsAgree
<1>2. QED
  BY <1>1, HistoryConsistent, PTL

-------------------------------------------------------------------------------

Attempts == [Codes -> {"none", "arrived", "departed"}]

(* Before the first frame nothing was seen, sent or tried.                 *)
Fresh == present = {} /\ unsent = {} /\ last = [c \in Codes |-> "none"]

(* What is still to be sent is where the tracker has the code.             *)
UnsentIsCurrent ==
  \A c \in Codes : /\ <<"arrived", c>> \in unsent => c \in present
                   /\ <<"departed", c>> \in unsent => c \notin present

EyeInv ==
  /\ present \subseteq Codes
  /\ unsent \subseteq {"arrived", "departed"} \X Codes
  /\ last \in Attempts
  /\ mode \in {"registering", "opening"} => Fresh
  /\ mode = "capturing" => UnsentIsCurrent
  /\ AttemptsAgree

-------------------------------------------------------------------------------

(* A process that ends forgets everything, and one that starts is fresh.   *)
LEMMA ForgetIsFresh ==
  ASSUME Forget, mode' \in {"off", "registering"}
  PROVE  EyeInv'
BY DEF Forget, EyeInv, Fresh, Attempts, AttemptsAgree

(* What leaves the process, its tracker and its attempts alone keeps the   *)
(* invariant; this includes ending by itself.                              *)
LEMMA QuietStep ==
  ASSUME EyeInv, present' = present, unsent' = unsent, last' = last,
         mode' \in {mode, "stopped"}
  PROVE  EyeInv'
BY DEF EyeInv, Fresh, UnsentIsCurrent, AttemptsAgree

(* Opening the camera: nothing present, nothing tried.                     *)
LEMMA OpenStep ==
  ASSUME EyeInv, OpenCamera
  PROVE  EyeInv'
<1>1. Fresh /\ present' = present /\ unsent' = unsent /\ last' = last
  BY DEF OpenCamera, EyeInv, vars
<1>2. CASE mode' = "stopped"
  BY <1>1, <1>2, QuietStep
<1>3. CASE mode' = "capturing"
  BY <1>1, <1>3 DEF EyeInv, Fresh, UnsentIsCurrent, AttemptsAgree
<1> QED BY <1>2, <1>3 DEF OpenCamera

(* A frame: what it makes present or absent is what is now to be sent, and *)
(* everything before had been tried.                                       *)
LEMMA FrameStep ==
  ASSUME EyeInv, NEW current \in SUBSET Codes, Frame(current)
  PROVE  EyeInv'
<1> DEFINE departed == Departing(current)
           arrived  == Arriving(current)
<1>1. CASE shutdown
  BY <1>1, QuietStep DEF Frame, vars
<1>2. CASE ~shutdown
  <2>1. mode = "capturing" /\ mode' = "capturing" /\ unsent = {} /\ last' = last
    BY <1>2 DEF Frame
  <2>2. present' = (present \ departed) \cup arrived
    BY <1>2 DEF Frame, ProcessFrame
  <2>3. unsent' = ({"arrived"} \X arrived) \cup ({"departed"} \X departed)
    BY <1>2 DEF Frame, ProcessFrame
  <2>4. departed \subseteq present \ current /\ arrived \subseteq current \ present
    BY DEF Departing, Arriving
  <2>5. \A c \in Codes : last[c] = "arrived" <=> c \in present
    BY <2>1 DEF EyeInv, AttemptsAgree
  <2>6. \A c : /\ <<"arrived", c>> \in unsent' <=> c \in arrived
               /\ <<"departed", c>> \in unsent' <=> c \in departed
    BY <2>3
  <2> HIDE DEF departed, arrived
  <2>7. present' \subseteq Codes /\ unsent' \subseteq {"arrived", "departed"} \X Codes
    BY <2>2, <2>3, <2>4 DEF EyeInv
  <2>8. UnsentIsCurrent'
    BY <2>2, <2>4, <2>6 DEF UnsentIsCurrent
  <2>9. AttemptsAgree'
    BY <2>1, <2>2, <2>4, <2>5, <2>6 DEF AttemptsAgree
  <2> QED BY <2>1, <2>7, <2>8, <2>9 DEF EyeInv
<1> QED BY <1>1, <1>2

(* Trying to send a transition, however it ends.                           *)
LEMMA AttemptStep ==
  ASSUME EyeInv, NEW tr \in unsent, NextToSend(tr),
         unsent' = unsent \ {tr},
         last' = [last EXCEPT ![tr[2]] = tr[1]],
         mode' = mode, present' = present
  PROVE  EyeInv'
<1>1. mode = "capturing"
  BY DEF NextToSend
<1>2. PICK phase \in {"arrived", "departed"}, code \in Codes : tr = <<phase, code>>
  BY DEF EyeInv
<1>3. last' = [last EXCEPT ![code] = phase] /\ last \in Attempts
  BY <1>2 DEF EyeInv
<1>4. last' \in Attempts
  BY <1>3 DEF Attempts
<1>5. UnsentIsCurrent /\ UnsentIsCurrent'
  BY <1>1 DEF EyeInv, UnsentIsCurrent
<1>6. AttemptsAgree'
  <2> SUFFICES ASSUME NEW c \in Codes
               PROVE  last'[c] = "arrived" <=>
                        \/ <<"departed", c>> \in unsent'
                        \/ c \in present' /\ <<"arrived", c>> \notin unsent'
    BY DEF AttemptsAgree
  <2>1. CASE c = code
    <3>1. last'[c] = phase
      BY <1>3, <2>1 DEF Attempts
    <3>2. <<phase, c>> \in unsent /\ <<phase, c>> \notin unsent'
      BY <1>2, <2>1
    <3> QED BY <1>5, <3>1, <3>2 DEF UnsentIsCurrent
  <2>2. CASE c # code
    <3>1. last'[c] = last[c]
      BY <1>3, <2>2 DEF Attempts
    <3>2. \A ph : <<ph, c>> \in unsent' <=> <<ph, c>> \in unsent
      BY <1>2, <2>2
    <3> QED BY <1>1, <3>1, <3>2 DEF EyeInv, AttemptsAgree
  <2> QED BY <2>1, <2>2
<1> QED BY <1>1, <1>4, <1>5, <1>6 DEF EyeInv

-------------------------------------------------------------------------------

(* A step of the process.                                                  *)
LEMMA EyeStepKeepsInv ==
  ASSUME EyeInv, EyeStep
  PROVE  EyeInv'
<1>1. CASE Register
  BY <1>1 DEF Register, EyeInv, Fresh, AttemptsAgree, vars
<1>2. CASE StopRegistering
  BY <1>2, QuietStep DEF StopRegistering, vars
<1>3. CASE OpenCamera
  BY <1>3, OpenStep
<1>4. CASE ReadFails
  BY <1>4, QuietStep DEF ReadFails, vars
<1>5. CASE \E current \in SUBSET Codes : Frame(current)
  BY <1>5, FrameStep
<1>6. CASE \E tr \in unsent : Send(tr) \/ Lose(tr) \/ TimeOut(tr)
  <2>1. PICK tr \in unsent : Send(tr) \/ Lose(tr) \/ TimeOut(tr)
    BY <1>6
  <2>2. /\ NextToSend(tr)
        /\ unsent' = unsent \ {tr}
        /\ last' = [last EXCEPT ![tr[2]] = tr[1]]
        /\ mode' = mode /\ present' = present
    BY <2>1 DEF Send, Lose, TimeOut, vars
  <2> QED BY <2>2, AttemptStep
<1> QED BY <1>1, <1>2, <1>3, <1>4, <1>5, <1>6 DEF EyeStep

(* A step of anything else.                                                *)
LEMMA EnvironmentKeepsInv ==
  ASSUME EyeInv, Environment
  PROVE  EyeInv'
<1>1. CASE Start \/ Crash
  BY <1>1, ForgetIsFresh DEF Start, Crash
<1>2. CASE Sigterm \/ UnassignEye \/ Reach
  BY <1>2, QuietStep DEF Sigterm, UnassignEye, Reach, vars, eye
<1>3. CASE \E s \in Stations : AssignEye(s) \/ RemoveStation(s)
  BY <1>3, QuietStep DEF AssignEye, RemoveStation, vars, eye
<1>4. CASE \E c \in Codes : ForgetTray(c) \/ ProcessLate(c)
  BY <1>4, QuietStep DEF ForgetTray, ProcessLate, vars, eye
<1> QED BY <1>1, <1>2, <1>3, <1>4 DEF Environment

(* No failed or timed-out request, failed read, signal or restart makes    *)
(* the eye skip a transition of the tracker or try one twice: at any       *)
(* moment the last attempt for a code is its place in the tracker, up to   *)
(* the transition in hand.                                                 *)
THEOREM EveryTransitionTried == EyeSpec => []AttemptsAgree
<1>1. EyeInit => EyeInv
  BY DEF EyeInit, Init, EyeInv, Attempts, AttemptsAgree
<1>2. EyeInv /\ [EyeNext]_eyeVars => EyeInv'
  BY EyeStepKeepsInv, EnvironmentKeepsInv, QuietStep DEF EyeNext, eyeVars, vars, eye
<1>3. EyeInv => AttemptsAgree
  BY DEF EyeInv
<1> QED BY <1>1, <1>2, <1>3, PTL DEF EyeSpec

-------------------------------------------------------------------------------

(* Kept(q, S) is what the places at[1] < at[2] < ... of S hold in q.       *)
Selects(at, q, S) ==
  LET c == Cardinality(S)
  IN  /\ at \in [1 .. c -> S]
      /\ Kept(q, S) = [k \in 1 .. c |-> q[at[k]]]
      /\ \A k, m \in 1 .. c : k < m => at[k] < at[m]
      /\ \A i \in S : \E k \in 1 .. c : at[k] = i

(* The events Kept selects: one per place of S, in the order of the places.*)
LEMMA KeptPlaces ==
  ASSUME NEW n \in Nat, NEW S \in SUBSET (1 .. n), NEW q
  PROVE  Cardinality(S) \in Nat /\ \E at : Selects(at, q, S)
<1> DEFINE upTo(i) == {j \in S : j <= i}
           place(i) == Cardinality(upTo(i))
           c == Cardinality(S)
           number == [i \in S |-> place(i)]
           at == [k \in 1 .. c |-> CHOOSE i \in S : place(i) = k]
<1>1. S \subseteq Nat /\ IsFiniteSet(S) /\ c \in Nat
  <2>1. IsFiniteSet(1 .. n)
    BY FS_Interval
  <2>2. IsFiniteSet(S)
    BY <2>1, FS_Subset
  <2>3. QED
    BY <2>2, FS_CardinalityType
<1>2. ASSUME NEW i \in S
      PROVE  IsFiniteSet(upTo(i)) /\ place(i) \in 1 .. c
  <2>1. upTo(i) \in SUBSET S /\ i \in upTo(i)
    BY <1>1
  <2> HIDE DEF upTo
  <2>2. IsFiniteSet(upTo(i)) /\ Cardinality(upTo(i)) <= c
    BY <1>1, <2>1, FS_Subset
  <2>3. Cardinality(upTo(i)) \in Nat /\ Cardinality(upTo(i)) # 0
    BY <2>1, <2>2, FS_CardinalityType, FS_EmptySet
  <2>4. QED
    BY <1>1, <2>2, <2>3
<1>3. ASSUME NEW i \in S, NEW j \in S, i < j
      PROVE  place(i) < place(j)
  <2>1. \A x \in S : x <= i => x <= j
    BY <1>1, <1>3
  <2>2. upTo(i) \in SUBSET upTo(j) /\ j \in upTo(j) /\ j \notin upTo(i)
    <3>1. i \in Nat /\ j \in Nat /\ i < j
      BY <1>1, <1>3
    <3>2. j <= j /\ ~ j <= i
      BY <3>1
    <3>3. QED
      BY <2>1, <3>2
  <2>3. IsFiniteSet(upTo(j)) /\ place(i) \in Nat /\ place(j) \in Nat
    BY <1>1, <1>2
  <2> HIDE DEF upTo
  <2>4. /\ Cardinality(upTo(i)) <= Cardinality(upTo(j))
        /\ Cardinality(upTo(j)) # Cardinality(upTo(i))
    BY <2>2, <2>3, FS_Subset
  <2>5. QED
    BY <2>3, <2>4
<1> HIDE DEF upTo
<1> HIDE DEF place
<1>4. number \in [S -> 1 .. c]
  BY <1>2
<1>5. number \in Injection(S, 1 .. c)
  <2>1. ASSUME NEW i \in S, NEW j \in S, number[i] = number[j]
        PROVE  i = j
    <3>1. place(i) \in Nat /\ place(j) \in Nat /\ place(i) = place(j)
      BY <1>1, <1>2, <2>1
    <3>2. ~ i < j /\ ~ j < i
      BY <1>3, <3>1
    <3>3. QED
      BY <1>1, <3>2
  <2>2. QED
    BY <1>4, <2>1 DEF Injection, IsInjective
<1>6. IsFiniteSet(1 .. c) /\ Cardinality(1 .. c) = c
  BY <1>1, FS_Interval
<1>7. number \in Surjection(S, 1 .. c)
  <2> HIDE DEF number, c
  <2>1. QED
    BY <1>5, <1>6, FS_Injection DEF c
<1>8. \A k \in 1 .. c : at[k] \in S /\ place(at[k]) = k
  BY <1>7 DEF Surjection
<1>9. Kept(q, S) = [k \in 1 .. c |-> q[at[k]]]
  BY DEF Kept, place, upTo
<1> HIDE DEF at, c, number
<1>10. \A k, m \in 1 .. c : k < m => at[k] < at[m]
  <2> SUFFICES ASSUME NEW k \in 1 .. c, NEW m \in 1 .. c, k < m
               PROVE  at[k] < at[m]
    OBVIOUS
  <2>1. /\ at[k] \in S /\ at[m] \in S /\ place(at[k]) = k /\ place(at[m]) = m
        /\ at[k] \in Nat /\ at[m] \in Nat
    BY <1>1, <1>8
  <2>2. k \in Nat /\ m \in Nat /\ k < m
    BY <1>1
  <2>3. at[k] # at[m]
    BY <2>1, <2>2
  <2>4. ~ at[m] < at[k]
    BY <1>3, <2>1, <2>2
  <2>5. QED
    BY <2>1, <2>3, <2>4
<1>11. ASSUME NEW i \in S
       PROVE  \E k \in 1 .. c : at[k] = i
  <2>1. place(i) \in 1 .. c
    BY <1>2
  <2>2. at[place(i)] \in S /\ place(at[place(i)]) = place(i)
    BY <1>8, <2>1
  <2>3. number[at[place(i)]] = number[i]
    BY <2>2 DEF number
  <2>4. at[place(i)] = i
    BY <1>5, <2>2, <2>3 DEF Injection, IsInjective
  <2>5. QED
    BY <2>1, <2>4
<1>12. at \in [1 .. c -> S]
  BY <1>8 DEF at
<1>13. Selects(at, q, S)
  BY <1>9, <1>10, <1>11, <1>12 DEF c, Selects
<1>14. QED
  BY <1>1, <1>13 DEF c

(* No delayed event of a tray stands where a later one at its station is   *)
(* stored.                                                                 *)
Settled(q) ==
  \A i, j \in DOMAIN q : i < j /\ q[j].stored => q[i].station # q[j].station

(* Leaving events out keeps a log of events in order, and its latest event *)
(* when that is not left out.                                              *)
LEMMA KeptEvents ==
  ASSUME NEW q \in Seq(Event), NEW S \in SUBSET DOMAIN q
  PROVE  /\ Kept(q, S) \in Seq(Event)
         /\ Settled(q) => Settled(Kept(q, S))
         /\ Len(q) \in S => /\ Len(Kept(q, S)) \in Nat \ {0}
                            /\ Kept(q, S)[Len(Kept(q, S))] = q[Len(q)]
<1> DEFINE c == Cardinality(S)
           r == Kept(q, S)
<1>1. Len(q) \in Nat /\ DOMAIN q = 1 .. Len(q) /\ \A i \in DOMAIN q : q[i] \in Event
  OBVIOUS
<1>2. Len(q) \in Nat /\ S \in SUBSET (1 .. Len(q))
  BY <1>1
<1>3. PICK at : Selects(at, q, S)
  BY <1>2, KeptPlaces
<1>4. /\ c \in Nat /\ at \in [1 .. c -> S] /\ r = [k \in 1 .. c |-> q[at[k]]]
      /\ \A k, m \in 1 .. c : k < m => at[k] < at[m]
      /\ \A i \in S : \E k \in 1 .. c : at[k] = i
  BY <1>2, <1>3, KeptPlaces DEF Selects
<1> HIDE DEF c, r
<1>5. \A k \in 1 .. c : at[k] \in DOMAIN q /\ r[k] = q[at[k]]
  BY <1>4
<1>6. r \in Seq(Event) /\ Len(r) = c /\ DOMAIN r = 1 .. c
  <2>1. r \in [1 .. c -> Event]
    BY <1>1, <1>4, <1>5
  <2>2. QED
    BY <1>4, <2>1
<1>7. ASSUME Settled(q)
      PROVE  Settled(r)
  BY <1>4, <1>5, <1>6, <1>7 DEF Settled
<1>8. ASSUME Len(q) \in S
      PROVE  c \in Nat \ {0} /\ r[c] = q[Len(q)]
  <2>1. PICK k \in 1 .. c : at[k] = Len(q)
    BY <1>4, <1>8
  <2>2. c \in Nat \ {0} /\ c \in 1 .. c /\ k \in Nat
    BY <1>4, <2>1
  <2>3. at[c] \in 1 .. Len(q)
    BY <1>1, <1>5, <2>2
  <2>4. ~ k < c
    BY <1>1, <1>4, <2>1, <2>2, <2>3
  <2>5. k = c
    BY <2>1, <2>2, <2>4
  <2>6. QED
    BY <1>5, <2>1, <2>2, <2>5
<1>9. QED
  BY <1>6, <1>7, <1>8 DEF r

(* Storing an event keeps the log in order and what its latest event says, *)
(* whichever event of the tray is stored.                                  *)
LEMMA StoreEvents ==
  ASSUME NEW q \in Seq(Event), Settled(q), NEW i \in DOMAIN q
  PROVE  LET r == Store(q, i)
         IN  /\ r \in Seq(Event) /\ Settled(r) /\ Len(r) \in Nat \ {0}
             /\ r[Len(r)].phase = q[Len(q)].phase
             /\ r[Len(r)].station = q[Len(q)].station
<1> DEFINE p == [q EXCEPT ![i].stored = TRUE]
           S == OfOther(q, q[i].station) \cup {j \in DOMAIN q : i <= j}
           r == Kept(p, S)
           c == Cardinality(S)
<1>1. /\ Len(q) \in Nat \ {0} /\ DOMAIN q = 1 .. Len(q) /\ i \in Nat
      /\ \A j \in DOMAIN q : q[j] \in Event
  OBVIOUS
<1>2. /\ p \in Seq(Event) /\ DOMAIN p = DOMAIN q /\ Len(p) = Len(q)
      /\ \A j \in DOMAIN q : /\ p[j] \in Event
                             /\ p[j].phase = q[j].phase /\ p[j].station = q[j].station
                             /\ j # i => p[j] = q[j]
  <2>1. /\ DOMAIN p = DOMAIN q
        /\ \A j \in DOMAIN q : /\ p[j] \in Event
                               /\ p[j].phase = q[j].phase /\ p[j].station = q[j].station
                               /\ j # i => p[j] = q[j]
    BY <1>1 DEF Event
  <2> HIDE DEF p
  <2>2. p \in [1 .. Len(q) -> Event]
    <3>1. p = [j \in DOMAIN q |-> p[j]]
      BY <2>1 DEF p
    <3>2. QED
      BY <1>1, <2>1, <3>1
  <2>3. QED
    BY <1>1, <2>1, <2>2
<1>3. /\ S \in SUBSET DOMAIN q /\ Len(q) \in S
      /\ \A j \in S : j < i => q[j].station # q[i].station
  BY <1>1 DEF OfOther
<1>4. Store(q, i) = r
  BY DEF Store
<1> HIDE DEF p, S
<1>5. /\ r \in Seq(Event) /\ Len(r) \in Nat \ {0} /\ r[Len(r)] = p[Len(q)]
  BY <1>2, <1>3, KeptEvents
<1>6. Settled(r)
  <2>1. Len(q) \in Nat /\ S \in SUBSET (1 .. Len(q))
    BY <1>1, <1>3
  <2>2. PICK at : Selects(at, p, S)
    BY <2>1, KeptPlaces
  <2>3. /\ c \in Nat /\ at \in [1 .. c -> S] /\ r = [k \in 1 .. c |-> p[at[k]]]
        /\ \A k, m \in 1 .. c : k < m => at[k] < at[m]
    BY <2>1, <2>2, KeptPlaces DEF Selects
  <2> HIDE DEF c, r
  <2> SUFFICES ASSUME NEW k \in 1 .. c, NEW m \in 1 .. c, k < m, r[m].stored
               PROVE  r[k].station # r[m].station
    BY <2>3 DEF Settled
  <2>4. /\ at[k] \in S /\ at[m] \in S /\ at[k] < at[m]
        /\ at[k] \in DOMAIN q /\ at[m] \in DOMAIN q
        /\ r[k] = p[at[k]] /\ r[m] = p[at[m]]
    BY <1>3, <2>3
  <2>5. CASE at[m] = i
    BY <1>2, <1>3, <2>4, <2>5
  <2>6. CASE at[m] # i
    <3>1. q[at[m]].stored
      BY <1>2, <2>4, <2>6
    <3>2. q[at[k]].station # q[at[m]].station
      BY <2>4, <3>1 DEF Settled
    <3>3. QED
      BY <1>2, <2>4, <3>2
  <2>7. QED
    BY <2>5, <2>6
<1>7. Len(q) \in DOMAIN q
  BY <1>1
<1>8. QED
  BY <1>2, <1>4, <1>5, <1>6, <1>7

(* A request that timed out is not stored yet: the log stays in order, and *)
(* its last event is the one tried.                                        *)
LEMMA WithEventLog ==
  ASSUME NEW c \in Codes, NEW phase \in {"arrived", "departed"}, station \in Stations,
         log[c] \in Seq(Event), Settled(log[c])
  PROVE  LET q == WithEvent(<<phase, c>>)
         IN  /\ q \in Seq(Event) /\ Settled(q)
             /\ Len(q) \in Nat \ {0} /\ Len(q) \in DOMAIN q
             /\ q[Len(q)].phase = phase /\ q[Len(q)].station = station
<1> DEFINE e == [phase |-> phase, station |-> station, stored |-> FALSE]
           n == Len(log[c])
           q == Append(log[c], e)
<1>1. e \in Event /\ e.phase = phase /\ e.station = station /\ ~e.stored
  BY DEF Event
<1>2. WithEvent(<<phase, c>>) = q
  BY DEF WithEvent
<1> HIDE DEF e
<1>3. /\ n \in Nat /\ q \in Seq(Event) /\ Len(q) = n + 1 /\ q[n + 1] = e
      /\ DOMAIN q = 1 .. n + 1 /\ DOMAIN log[c] = 1 .. n
      /\ \A i \in 1 .. n : q[i] = log[c][i]
  BY <1>1
<1> HIDE DEF q
<1>4. Settled(q)
  <2> SUFFICES ASSUME NEW i \in 1 .. n + 1, NEW j \in 1 .. n + 1, i < j, q[j].stored
               PROVE  q[i].station # q[j].station
    BY <1>3 DEF Settled
  <2>1. i \in 1 .. n /\ j \in 1 .. n
    BY <1>1, <1>3
  <2>2. QED
    BY <1>3, <2>1 DEF Settled
<1>5. QED
  BY <1>1, <1>2, <1>3, <1>4

-------------------------------------------------------------------------------

(* The parts of EyeTypeOK: the process and the backend, and the log.       *)
ProcessTyped ==
  /\ mode \in {"off", "registering", "opening", "capturing", "stopped"}
  /\ shutdown \in BOOLEAN /\ reachable \in BOOLEAN
  /\ alive \subseteq Stations
  /\ assigned \in alive \cup {NoStation}
  /\ station \in Stations \cup {NoStation}
  /\ mode \in {"opening", "capturing"} => station # NoStation
  /\ failures \in 0 .. MaxFailures
  /\ mode = "capturing" => failures < MaxFailures
  /\ unsent \subseteq out
  /\ unknown \subseteq Codes

LogTyped == log \in [Codes -> Seq(Event)] /\ \A c \in Codes : Settled(log[c])

LEMMA EyeTypeParts ==
  ASSUME last \in Attempts, ProcessTyped, LogTyped
  PROVE  EyeTypeOK
BY DEF ProcessTyped, LogTyped, Settled, EyeTypeOK, Attempts

(* No read has failed before the camera is open.                           *)
NoFailuresYet == mode \in {"registering", "opening"} => failures = 0

(* The latest event of the tray is the last one this run tried, at its     *)
(* station.                                                                *)
EndsWith(q, phase, s) == Len(q) # 0 /\ q[Len(q)].phase = phase /\ q[Len(q)].station = s

LatestIsTried ==
  station \in alive =>
    \A c \in Codes : last[c] # "none" /\ c \notin unknown => EndsWith(log[c], last[c], station)

EyeLogInv == EyeInv /\ ProcessTyped /\ NoFailuresYet /\ LogTyped /\ LatestIsTried

(* What leaves the log and the attempts of this run alone.                 *)
LEMMA QuietLog ==
  ASSUME EyeLogInv, UNCHANGED <<station, log, last, unknown>>, alive' \subseteq alive
  PROVE  LogTyped' /\ LatestIsTried'
BY DEF EyeLogInv, LogTyped, LatestIsTried

(* A process that ends, or starts, has tried nothing.                      *)
LEMMA ForgottenLog ==
  ASSUME EyeLogInv, Forget, mode' \in {"off", "registering"}, UNCHANGED <<backend, log>>
  PROVE  ProcessTyped' /\ NoFailuresYet' /\ LogTyped' /\ LatestIsTried'
<1>1. ProcessTyped' /\ NoFailuresYet'
  <2>1. /\ shutdown' = FALSE /\ station' = NoStation /\ unsent' = {} /\ failures' = 0
        /\ unknown' = {}
    BY DEF Forget
  <2>2. /\ reachable' \in BOOLEAN /\ alive' \subseteq Stations
        /\ assigned' \in alive' \cup {NoStation}
    BY DEF EyeLogInv, ProcessTyped, backend
  <2>3. 0 \in 0 .. MaxFailures
    BY EyeAssumption
  <2>4. QED
    BY <2>1, <2>2, <2>3 DEF ProcessTyped, NoFailuresYet
<1>2. LogTyped'
  BY DEF EyeLogInv, LogTyped
<1>3. LatestIsTried'
  BY DEF Forget, LatestIsTried
<1>4. QED
  BY <1>1, <1>2, <1>3

(* A transition that was lost.                                             *)
LEMMA LoseLog ==
  ASSUME EyeLogInv, NEW tr \in unsent, Lose(tr)
  PROVE  ProcessTyped' /\ NoFailuresYet' /\ LogTyped' /\ LatestIsTried'
<1>1. PICK phase \in {"arrived", "departed"}, code \in Codes : tr = <<phase, code>>
  BY DEF EyeLogInv, EyeInv
<1>2. ProcessTyped' /\ NoFailuresYet'
  BY <1>1 DEF Lose, EyeLogInv, ProcessTyped, NoFailuresYet, backend, vars
<1>3. LogTyped'
  BY DEF Lose, EyeLogInv, LogTyped
<1>4. LatestIsTried'
  <2>1. \A c \in Codes \ unknown' : c # code /\ last'[c] = last[c] /\ c \notin unknown
    BY <1>1 DEF Lose, EyeLogInv, EyeInv, Attempts
  <2>2. QED
    BY <2>1 DEF Lose, EyeLogInv, LatestIsTried, backend
<1>5. QED
  BY <1>2, <1>3, <1>4

(* A transition that reached the backend, whether it answered in time or   *)
(* not.                                                                    *)
LEMMA ReachedLog ==
  ASSUME EyeLogInv, NEW tr \in unsent, Send(tr) \/ TimeOut(tr)
  PROVE  ProcessTyped' /\ NoFailuresYet' /\ LogTyped' /\ LatestIsTried'
<1>1. PICK phase \in {"arrived", "departed"}, code \in Codes : tr = <<phase, code>>
  BY DEF EyeLogInv, EyeInv
<1>2. ProcessTyped' /\ NoFailuresYet'
  BY DEF Send, TimeOut, EyeLogInv, ProcessTyped, NoFailuresYet, backend, vars
<1> DEFINE q == WithEvent(<<phase, code>>)
<1>3. /\ q \in Seq(Event) /\ Settled(q)
      /\ Len(q) \in Nat \ {0} /\ Len(q) \in DOMAIN q
      /\ q[Len(q)].phase = phase /\ q[Len(q)].station = station
  <2>1. station \in Stations /\ log[code] \in Seq(Event) /\ Settled(log[code])
    BY DEF Send, TimeOut, NextToSend, EyeLogInv, ProcessTyped, LogTyped
  <2>2. QED
    BY <2>1, WithEventLog
<1> HIDE DEF q
<1>4. PICK r : /\ log' = [log EXCEPT ![code] = r]
               /\ r \in Seq(Event) /\ Settled(r) /\ EndsWith(r, phase, station)
  <2>1. CASE Send(tr)
    <3>1. log' = [log EXCEPT ![code] = Store(q, Len(q))]
      BY <1>1, <2>1 DEF Send, q
    <3>2. /\ Store(q, Len(q)) \in Seq(Event) /\ Settled(Store(q, Len(q)))
          /\ EndsWith(Store(q, Len(q)), phase, station)
      BY <1>3, StoreEvents DEF EndsWith
    <3>3. QED
      BY <3>1, <3>2
  <2>2. CASE TimeOut(tr)
    <3>1. log' = [log EXCEPT ![code] = q]
      BY <1>1, <2>2 DEF TimeOut, q
    <3>2. QED
      BY <1>3, <3>1 DEF EndsWith
  <2>3. QED
    BY <2>1, <2>2
<1>5. log'[code] = r /\ \A c \in Codes \ {code} : log'[c] = log[c]
  BY <1>4 DEF EyeLogInv, LogTyped
<1>6. LogTyped'
  BY <1>4, <1>5 DEF EyeLogInv, LogTyped
<1>7. LatestIsTried'
  <2>1. /\ last'[code] = phase /\ \A c \in Codes \ {code} : last'[c] = last[c]
        /\ unknown' = unknown \ {code} /\ station' = station /\ alive' = alive
    BY <1>1 DEF Send, TimeOut, EyeLogInv, EyeInv, Attempts, backend
  <2>2. QED
    BY <1>4, <1>5, <2>1 DEF EyeLogInv, LatestIsTried
<1>8. QED
  BY <1>2, <1>6, <1>7

(* Deleting a station, or a tray.                                          *)
LEMMA DeletedLog ==
  ASSUME EyeLogInv, \/ \E s \in Stations : RemoveStation(s)
                    \/ \E c \in Codes : ForgetTray(c)
  PROVE  ProcessTyped' /\ NoFailuresYet' /\ LogTyped' /\ LatestIsTried'
<1>1. ProcessTyped' /\ NoFailuresYet'
  BY DEF RemoveStation, ForgetTray, EyeLogInv, ProcessTyped, NoFailuresYet, backend, eye, vars
<1>2. ASSUME NEW s \in Stations, RemoveStation(s)
      PROVE  LogTyped' /\ LatestIsTried'
  <2>1. \A c \in Codes : /\ log[c] \in Seq(Event) /\ Settled(log[c])
                         /\ OfOther(log[c], s) \in SUBSET DOMAIN log[c]
                         /\ log'[c] = Kept(log[c], OfOther(log[c], s))
    BY <1>2 DEF RemoveStation, EyeLogInv, LogTyped, OfOther
  <2>2. LogTyped'
    <3>1. \A c \in Codes : log'[c] \in Seq(Event) /\ Settled(log'[c])
      BY <2>1, KeptEvents
    <3>2. log' = [c \in Codes |-> log'[c]]
      BY <1>2 DEF RemoveStation
    <3>3. QED
      BY <3>1, <3>2 DEF LogTyped
  <2>3. ASSUME NEW c \in Codes, station \in alive', last[c] # "none", c \notin unknown
        PROVE  EndsWith(log'[c], last[c], station)
    <3>1. station \in alive /\ station # s
      BY <1>2, <2>3 DEF RemoveStation
    <3>2. EndsWith(log[c], last[c], station)
      BY <2>3, <3>1 DEF EyeLogInv, LatestIsTried
    <3>3. Len(log[c]) \in OfOther(log[c], s)
      BY <2>1, <3>1, <3>2 DEF EndsWith, OfOther
    <3>4. QED
      BY <2>1, <3>2, <3>3, KeptEvents DEF EndsWith
  <2>4. QED
    BY <1>2, <2>2, <2>3 DEF RemoveStation, LatestIsTried, eye
<1>3. ASSUME NEW c \in Codes, ForgetTray(c)
      PROVE  LogTyped' /\ LatestIsTried'
  <2>1. /\ log[c] \in Seq(Event) /\ Settled(log[c])
        /\ Delayed(log[c]) \in SUBSET DOMAIN log[c]
    BY DEF EyeLogInv, LogTyped, Delayed
  <2>2. Kept(log[c], Delayed(log[c])) \in Seq(Event) /\ Settled(Kept(log[c], Delayed(log[c])))
    BY <2>1, KeptEvents
  <2>3. /\ log' = [log EXCEPT ![c] = Kept(log[c], Delayed(log[c]))]
        /\ unknown' = unknown \cup {c} /\ UNCHANGED <<station, last, alive>>
    BY <1>3 DEF ForgetTray, eye, backend
  <2>4. \A d \in Codes \ {c} : log'[d] = log[d]
    BY <2>3 DEF EyeLogInv, LogTyped
  <2>5. LogTyped'
    BY <2>2, <2>3 DEF EyeLogInv, LogTyped
  <2>6. LatestIsTried'
    BY <2>3, <2>4 DEF EyeLogInv, LatestIsTried
  <2>7. QED
    BY <2>5, <2>6
<1>4. QED
  BY <1>1, <1>2, <1>3

(* The backend gets to a request that timed out.                           *)
LEMMA LateLog ==
  ASSUME EyeLogInv, NEW c \in Codes, ProcessLate(c)
  PROVE  ProcessTyped' /\ NoFailuresYet' /\ LogTyped' /\ LatestIsTried'
<1>1. ProcessTyped' /\ NoFailuresYet'
  BY DEF ProcessLate, EyeLogInv, ProcessTyped, NoFailuresYet, backend, eye, vars
<1>2. PICK i \in DOMAIN log[c] : log' = [log EXCEPT ![c] = Store(log[c], i)]
  BY DEF ProcessLate, Delayed
<1>3. log[c] \in Seq(Event) /\ Settled(log[c])
  BY DEF EyeLogInv, LogTyped
<1>4. /\ Store(log[c], i) \in Seq(Event) /\ Settled(Store(log[c], i))
      /\ \A phase, s : EndsWith(log[c], phase, s) => EndsWith(Store(log[c], i), phase, s)
  BY <1>3, StoreEvents DEF EndsWith
<1>5. /\ log'[c] = Store(log[c], i) /\ \A d \in Codes \ {c} : log'[d] = log[d]
      /\ UNCHANGED <<station, last, unknown, alive>>
  BY <1>2 DEF EyeLogInv, LogTyped, ProcessLate, eye, backend
<1>6. LogTyped'
  BY <1>2, <1>4, <1>5 DEF EyeLogInv, LogTyped
<1>7. LatestIsTried'
  BY <1>4, <1>5 DEF EyeLogInv, LatestIsTried
<1>8. QED
  BY <1>1, <1>6, <1>7

(* A step of the process.                                                  *)
LEMMA EyeStepKeepsLog ==
  ASSUME EyeLogInv, EyeStep
  PROVE  ProcessTyped' /\ NoFailuresYet' /\ LogTyped' /\ LatestIsTried'
<1> USE DEF EyeLogInv
<1>1. CASE Register
  <2>1. ProcessTyped' /\ NoFailuresYet'
    BY <1>1, EyeAssumption DEF Register, ProcessTyped, NoFailuresYet, backend, vars
  <2>2. LogTyped'
    BY <1>1 DEF Register, LogTyped
  <2>3. LatestIsTried'
    BY <1>1 DEF Register, EyeInv, Fresh, LatestIsTried
  <2>4. QED
    BY <2>1, <2>2, <2>3
<1>2. CASE StopRegistering
  BY <1>2, QuietLog DEF StopRegistering, ProcessTyped, NoFailuresYet, backend, vars
<1>3. CASE OpenCamera
  <2>1. ProcessTyped' /\ NoFailuresYet'
    BY <1>3, EyeAssumption DEF OpenCamera, ProcessTyped, NoFailuresYet, backend, vars
  <2>2. QED
    BY <1>3, <2>1, QuietLog DEF OpenCamera, backend
<1>4. CASE ReadFails
  <2>1. failures' \in 0 .. MaxFailures /\ (mode' = "capturing" => failures' < MaxFailures)
    BY <1>4, EyeAssumption DEF ReadFails, ProcessTyped
  <2>2. ProcessTyped' /\ NoFailuresYet'
    BY <1>4, <2>1 DEF ReadFails, ProcessTyped, NoFailuresYet, backend, vars
  <2>3. QED
    BY <1>4, <2>2, QuietLog DEF ReadFails, backend
<1>5. CASE \E current \in SUBSET Codes : Frame(current)
  <2>1. PICK current \in SUBSET Codes : Frame(current)
    BY <1>5
  <2>2. failures' \in 0 .. MaxFailures /\ failures' < MaxFailures
    BY <2>1, EyeAssumption DEF Frame
  <2>3. unsent' \subseteq out'
    BY <2>1 DEF Frame, ProcessTyped, vars
  <2>4. /\ mode = "capturing" /\ mode' \in {"capturing", "stopped"}
        /\ UNCHANGED <<shutdown, station, backend, log, last, unknown>>
    BY <2>1 DEF Frame
  <2>5. ProcessTyped' /\ NoFailuresYet'
    BY <2>2, <2>3, <2>4 DEF ProcessTyped, NoFailuresYet, backend
  <2>6. QED
    BY <2>4, <2>5, QuietLog DEF backend
<1>6. CASE \E tr \in unsent : Send(tr) \/ Lose(tr) \/ TimeOut(tr)
  BY <1>6, ReachedLog, LoseLog
<1>7. QED
  BY <1>1, <1>2, <1>3, <1>4, <1>5, <1>6 DEF EyeStep

(* A step of anything else.                                                *)
LEMMA EnvironmentKeepsLog ==
  ASSUME EyeLogInv, Environment
  PROVE  ProcessTyped' /\ NoFailuresYet' /\ LogTyped' /\ LatestIsTried'
<1> USE DEF EyeLogInv
<1>1. CASE Start \/ Crash
  BY <1>1, ForgottenLog DEF Start, Crash
<1>2. CASE Sigterm \/ UnassignEye \/ Reach \/ \E s \in Stations : AssignEye(s)
  <2>1. ProcessTyped' /\ NoFailuresYet'
    BY <1>2 DEF Sigterm, UnassignEye, Reach, AssignEye, ProcessTyped, NoFailuresYet,
                backend, eye, vars
  <2>2. UNCHANGED <<station, log, last, unknown, alive>>
    BY <1>2 DEF Sigterm, UnassignEye, Reach, AssignEye, backend, eye
  <2>3. QED
    BY <2>1, <2>2, QuietLog
<1>3. CASE \/ \E s \in Stations : RemoveStation(s)
           \/ \E c \in Codes : ForgetTray(c)
  BY <1>3, DeletedLog
<1>4. CASE \E c \in Codes : ProcessLate(c)
  BY <1>4, LateLog
<1>5. QED
  BY <1>1, <1>2, <1>3, <1>4 DEF Environment

LEMMA EyeLogInitially == EyeInit => EyeLogInv
<1> SUFFICES ASSUME EyeInit PROVE EyeLogInv
  OBVIOUS
<1>1. EyeInv
  BY DEF EyeInit, Init, EyeInv, Attempts, AttemptsAgree
<1>2. ProcessTyped /\ NoFailuresYet
  <2>1. 0 \in 0 .. MaxFailures
    BY EyeAssumption
  <2>2. QED
    BY <2>1 DEF EyeInit, Init, ProcessTyped, NoFailuresYet
<1>3. LogTyped
  BY DEF EyeInit, LogTyped, Settled
<1>4. LatestIsTried
  BY DEF EyeInit, LatestIsTried
<1>5. QED
  BY <1>1, <1>2, <1>3, <1>4 DEF EyeLogInv

LEMMA EyeLogStep == EyeLogInv /\ [EyeNext]_eyeVars => EyeLogInv'
<1> SUFFICES ASSUME EyeLogInv, [EyeNext]_eyeVars PROVE EyeLogInv'
  OBVIOUS
<1>1. CASE EyeStep
  BY <1>1, EyeStepKeepsInv, EyeStepKeepsLog DEF EyeLogInv
<1>2. CASE Environment
  BY <1>2, EnvironmentKeepsInv, EnvironmentKeepsLog DEF EyeLogInv
<1>3. CASE UNCHANGED eyeVars
  <2>1. EyeInv'
    BY <1>3, QuietStep DEF EyeLogInv, eyeVars, vars, eye
  <2>2. ProcessTyped' /\ NoFailuresYet'
    BY <1>3 DEF EyeLogInv, ProcessTyped, NoFailuresYet, eyeVars, vars, eye, backend
  <2>3. QED
    BY <1>3, <2>1, <2>2, QuietLog DEF EyeLogInv, eyeVars, eye, backend
<1>4. QED
  BY <1>1, <1>2, <1>3 DEF EyeNext

(* The process keeps to its states, and the log of a tray to its order.    *)
THEOREM EyeIsTyped == EyeSpec => []EyeTypeOK
<1>1. EyeLogInv => EyeTypeOK
  BY EyeTypeParts DEF EyeLogInv, EyeInv
<1>2. QED
  BY <1>1, EyeLogInitially, EyeLogStep, PTL DEF EyeSpec

-------------------------------------------------------------------------------

(* Once no request of a tray is left, its latest event decides: the board  *)
(* has it where the eye has it.                                            *)
LEMMA BoardShowsLatest ==
  ASSUME NEW q \in Seq(Event), Len(q) # 0, Delayed(q) = {}
  PROVE  Stored(q) # {} /\ Max(Stored(q)) = Len(q)
<1>1. Len(q) \in Nat \ {0} /\ Stored(q) = 1 .. Len(q)
  BY DEF Stored, Delayed
<1>2. Stored(q) \in SUBSET (0 .. Len(q)) /\ Stored(q) # {} /\ Len(q) \in Stored(q)
  BY <1>1
<1>3. Max(Stored(q)) \in Stored(q) /\ \A y \in Stored(q) : Max(Stored(q)) >= y
  BY <1>1, <1>2, MaxNat
<1>4. QED
  BY <1>1, <1>2, <1>3

(* The board follows the tracker.  Neither a timeout nor late processing,  *)
(* in any order and number, nor anything done to other trays or stations,  *)
(* puts a tray elsewhere than the eye last saw it.                         *)
THEOREM BoardFollows == EyeSpec => []BoardFollowsTracker
<1>1. EyeLogInv => BoardFollowsTracker
  <2> SUFFICES ASSUME EyeLogInv, mode = "capturing", station \in alive,
                      NEW c \in Codes, last[c] # "none", c \notin unknown,
                      \A tr \in unsent : tr[2] # c, Delayed(log[c]) = {}
               PROVE  BoardStation(c) = IF c \in present THEN station ELSE NoStation
    BY DEF BoardFollowsTracker
  <2> DEFINE q == log[c]
  <2>1. q \in Seq(Event) /\ EndsWith(q, last[c], station)
    BY DEF EyeLogInv, LogTyped, LatestIsTried
  <2>2. Stored(q) # {} /\ Max(Stored(q)) = Len(q)
    BY <2>1, BoardShowsLatest DEF EndsWith
  <2>3. BoardStation(c) = IF last[c] = "departed" THEN NoStation ELSE station
    BY <2>1, <2>2 DEF BoardStation, EndsWith
  <2>4. last[c] \in {"arrived", "departed"}
    BY DEF EyeLogInv, EyeInv, Attempts
  <2>5. last[c] = "arrived" <=> c \in present
    BY DEF EyeLogInv, EyeInv, AttemptsAgree
  <2>6. QED
    BY <2>3, <2>4, <2>5
<1>2. QED
  BY <1>1, EyeLogInitially, EyeLogStep, PTL DEF EyeSpec

===============================================================================
