------------------------------- MODULE Presence -------------------------------
(***************************************************************************)
(* manu-eye/src/presence.py: PresenceTracker.  A dict of the tracker is a  *)
(* function whose domain is the set of its keys.                           *)
(***************************************************************************)
EXTENDS Integers, FiniteSets

CONSTANTS
  Codes,           \* tray codes that pass filter_tray_codes
  FramesToArrive,  \* frames_to_arrive, _n
  FramesToDepart,  \* frames_to_depart, _m
  MissGrace        \* miss_grace

(* The ValueErrors of __init__.                                            *)
ASSUME ParametersAssumption ==
  /\ FramesToArrive \in Nat \ {0}
  /\ FramesToDepart \in Nat \ {0}
  /\ MissGrace \in Nat

VARIABLES
  present,        \* _present
  presentStreak,  \* _present_streak
  presentMisses,  \* _present_misses
  absentStreak,   \* _absent_streak
  out             \* the transitions of the last frame, as <<phase, code>>

vars == <<present, presentStreak, presentMisses, absentStreak, out>>

Empty == [c \in {} |-> 0]

(* dict.get(c, 0)                                                          *)
Get(dict, c) == IF c \in DOMAIN dict THEN dict[c] ELSE 0

Init ==
  /\ present = {}
  /\ presentStreak = Empty
  /\ presentMisses = Empty
  /\ absentStreak = Empty
  /\ out = {}

(* The first loop: the present codes this frame makes depart.              *)
Departing(current) ==
  {c \in present \ current : Get(absentStreak, c) + 1 >= FramesToDepart}

(* Faulty variant: one frame too many before a code arrives.               *)
ArrivingLate(current) ==
  {c \in current \ present : Get(presentStreak, c) + 1 > FramesToArrive}

(* The second loop: the codes not present whose streak this frame          *)
(* completes.  A departing code is not in the frame.                       *)
Arriving(current) ==
  {c \in current \ present : Get(presentStreak, c) + 1 >= FramesToArrive}

(* Faulty variant: the streak outlives the arrival.                        *)
GainingAtArrival(current) == current \ present

(* Codes seen, still short of arriving: their streak gains one and their   *)
(* misses are cleared.                                                     *)
Gaining(current) == (current \ present) \ Arriving(current)

(* Faulty variant: a streak of misses never ends an arrival streak.        *)
DroppedNever(current) == {}

(* The third loop: the streaks of codes not in the frame that have used    *)
(* the grace up and are dropped.                                           *)
Dropped(current) ==
  {c \in DOMAIN presentStreak \ current : Get(presentMisses, c) + 1 > MissGrace}

(* process_frame for the codes of one frame.  The codes that keep a streak *)
(* are those seen and not yet present, which gain one, and those missed    *)
(* within the grace, which lose one.                                       *)
ProcessFrame(current) ==
  LET departed == Departing(current)
      arrived  == Arriving(current)
      gaining  == Gaining(current)
      losing   == (DOMAIN presentStreak \ current) \ (Dropped(current) \cup departed)
  IN  /\ present' = (present \ departed) \cup arrived
      /\ absentStreak' = [c \in (present \ current) \ departed |->
                            Get(absentStreak, c) + 1]
      /\ presentStreak' =
           [c \in gaining \cup losing |->
              IF c \in gaining THEN Get(presentStreak, c) + 1
              ELSE IF presentStreak[c] > 0 THEN presentStreak[c] - 1 ELSE 0]
      /\ presentMisses' = [c \in losing |-> Get(presentMisses, c) + 1]
      /\ out' = ({"arrived"} \X arrived) \cup ({"departed"} \X departed)

Next == \E current \in SUBSET Codes : ProcessFrame(current)

Spec == Init /\ [][Next]_vars

-------------------------------------------------------------------------------

(* Every counter stays below the threshold that ends it.                   *)
TypeOK ==
  /\ present \subseteq Codes
  /\ presentStreak \in [DOMAIN presentStreak -> 0 .. FramesToArrive - 1]
  /\ presentMisses \in [DOMAIN presentMisses -> 1 .. MissGrace]
  /\ absentStreak \in [DOMAIN absentStreak -> 1 .. FramesToDepart - 1]
  /\ out \subseteq {"arrived", "departed"} \X Codes

(* The dicts never disagree about a code: an arrival streak belongs to a   *)
(* code that is not present, misses to an arrival streak, and an absence   *)
(* streak to a code that is present.                                       *)
DictsAgree ==
  /\ DOMAIN presentStreak \subseteq Codes \ present
  /\ DOMAIN presentMisses \subseteq DOMAIN presentStreak
  /\ DOMAIN absentStreak \subseteq present
===============================================================================
