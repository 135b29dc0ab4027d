---------------------------- MODULE PresenceHistory ----------------------------
(***************************************************************************)
(* PresenceTracker with the history variables its promises talk about: the *)
(* counts of TrayPresence, and the frames missed during an arrival streak. *)
(***************************************************************************)
EXTENDS Presence

VARIABLES hits, hitRun, missRun, streakMisses

history == <<hits, hitRun, missRun, streakMisses>>

(* The refinement mapping: presence and reports are the tracker's own, the *)
(* counts are the history's.                                               *)
Promise == INSTANCE TrayPresence WITH
  Codes <- Codes, FramesToArrive <- FramesToArrive,
  FramesToDepart <- FramesToDepart, MissGrace <- MissGrace,
  present <- present, out <- out,
  hits <- hits, hitRun <- hitRun, missRun <- missRun

HistoryInit ==
  /\ Init
  /\ hits = [c \in Codes |-> 0]
  /\ hitRun = [c \in Codes |-> 0]
  /\ missRun = [c \in Codes |-> 0]
  /\ streakMisses = [c \in Codes |-> 0]

(* Frames missed since the arrival streak of c began (bound: one more than *)
(* the grace).                                                             *)
CountStreakMisses(current) ==
  streakMisses' = [c \in Codes |->
    IF c \notin DOMAIN presentStreak' THEN 0
    ELSE IF c \in current THEN streakMisses[c]
    ELSE Promise!UpTo(streakMisses[c] + 1, MissGrace + 1)]

HistoryNext ==
  \E current \in SUBSET Codes :
    /\ ProcessFrame(current)
    /\ Promise!Count(current, Departing(current))
    /\ CountStreakMisses(current)

HistorySpec == HistoryInit /\ [][HistoryNext]_<<vars, history>>

-------------------------------------------------------------------------------

(* The tracker keeps the promises of TrayPresence.                         *)
KeepsPromise == Promise!Spec

(* A code that has been out of sight long enough to depart and to use its  *)
(* grace up leaves nothing behind: neither a presence nor an entry in any  *)
(* dict, so noise that decodes as a tray code cannot pile up.              *)
NothingLeftBehind ==
  \A c \in Codes :
    missRun[c] >= FramesToDepart /\ missRun[c] > MissGrace
      => c \notin present \cup DOMAIN presentStreak \cup DOMAIN presentMisses
                          \cup DOMAIN absentStreak

(* "miss_grace allows up to that many *non-consecutive* missed frames      *)
(* during the arrival streak without resetting it" (presence.py, docstring *)
(* of PresenceTracker): no code arrives on a streak with more misses.      *)
GraceBoundsAllMisses ==
  [][\A c \in Codes :
       c \notin present /\ c \in present' => streakMisses[c] <= MissGrace]_<<vars, history>>
===============================================================================
