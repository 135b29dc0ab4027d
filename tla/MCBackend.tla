------------------------------- MODULE MCBackend -------------------------------
(***************************************************************************)
(* The backend for TLC: stations, pipelines and product types are ids and  *)
(* names no service compares but for equality, so their permutations give  *)
(* the same behaviours.  The runs of this module check safety only.        *)
(***************************************************************************)
EXTENDS OrderReports, TLC

Interchangeable ==
  Permutations(Stations) \cup Permutations(Pipelines) \cup Permutations(ProductTypes)
===============================================================================
