------------------------------- MODULE MCReports -------------------------------
(***************************************************************************)
(* The reports for TLC: two stations, and step lists of one and two steps  *)
(* with and without limits.  The permutation of the stations permutes the  *)
(* step lists among themselves.                                            *)
(***************************************************************************)
EXTENDS Analytics

MCStep(position, maxDuration) ==
  [position |-> position, maxDuration |-> maxDuration, maxCapacity |-> 0]

MCStepRequests ==
  {s :> MCStep(1, 1) : s \in Stations}
  \cup UNION {{(s :> MCStep(1, None)) @@ (u :> MCStep(2, 1)) : u \in Stations \ {s}} :
                s \in Stations}

Interchangeable == Permutations(Stations)
===============================================================================
