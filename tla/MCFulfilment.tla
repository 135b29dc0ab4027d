------------------------------ MODULE MCFulfilment ------------------------------
(***************************************************************************)
(* The orders for TLC: the backend with one pipeline and one product, so   *)
(* that every job may serve every order, compared with the packing loops,  *)
(* and the figures the orders pages show meanwhile.                        *)
(***************************************************************************)
EXTENDS PackingLoop, OrderReports
===============================================================================
