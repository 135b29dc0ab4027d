----------------------------- MODULE TrayPresence -----------------------------
(***************************************************************************)
(* What a camera promises the backend about the trays under it, whatever   *)
(* the tracker keeps to get there.  A frame is the set of codes decoded in *)
(* it.  A code is reported                                                 *)
(*                                                                         *)
(*   arrived   only in a frame that shows it, and only after it was seen   *)
(*             in FramesToArrive frames since it was last forgotten; and   *)
(*             no later than after FramesToArrive consecutive frames;      *)
(*   departed  exactly when FramesToDepart consecutive frames missed it;   *)
(*                                                                         *)
(* and nothing is reported of a code whose presence does not change.       *)
(***************************************************************************)
EXTENDS Integers

CONSTANTS Codes, FramesToArrive, FramesToDepart, MissGrace

VARIABLES
  present,   \* the codes under the camera
  out,       \* the <<phase, code>> reported for the last frame
  hits,      \* frames that showed the code since it was last forgotten
  hitRun,    \* consecutive frames up to the last one that showed it
  missRun    \* consecutive frames up to the last one that missed it

presenceVars == <<present, out, hits, hitRun, missRun>>

(* The counters stop where they stop making a difference.                  *)
UpTo(n, bound) == IF n <= bound THEN n ELSE bound

LongestMiss == IF FramesToDepart > MissGrace THEN FramesToDepart ELSE MissGrace + 1

Init ==
  /\ present = {}
  /\ out = {}
  /\ hits = [c \in Codes |-> 0]
  /\ hitRun = [c \in Codes |-> 0]
  /\ missRun = [c \in Codes |-> 0]

(* A code is forgotten when it departs or is missed too often in a row.    *)
Count(current, departed) ==
  /\ hitRun' = [c \in Codes |->
       IF c \in current THEN UpTo(hitRun[c] + 1, FramesToArrive) ELSE 0]
  /\ missRun' = [c \in Codes |->
       IF c \in current THEN 0 ELSE UpTo(missRun[c] + 1, LongestMiss)]
  /\ hits' = [c \in Codes |->
       IF c \in current THEN UpTo(hits[c] + 1, FramesToArrive)
       ELSE IF c \in departed \/ missRun'[c] > MissGrace THEN 0
       ELSE hits[c]]

Frame(current) ==
  \E arrived \in SUBSET (current \ present) :
    LET departed == {c \in present \ current : missRun[c] + 1 >= FramesToDepart}
    IN  /\ \A c \in current \ present :
             hitRun[c] + 1 >= FramesToArrive => c \in arrived
        /\ \A c \in arrived : hits[c] + 1 >= FramesToArrive
        /\ present' = (present \ departed) \cup arrived
        /\ out' = ({"arrived"} \X arrived) \cup ({"departed"} \X departed)
        /\ Count(current, departed)

Next == \E current \in SUBSET Codes : Frame(current)

Spec == Init /\ [][Next]_presenceVars
===============================================================================
