-------------------------------- MODULE Totals --------------------------------
(***************************************************************************)
(* Sums and orders of the rows of a table: the SQL aggregate SUM(quantity) *)
(* and ORDER BY.                                                           *)
(*                                                                         *)
(* A sum is defined by counting: every x in S contributes one token        *)
(* <<x, k>> for each unit k of its quantity f[x].  This is the same number *)
(* as SumFunctionOnSet(f, S) of the community modules, in a form whose     *)
(* laws follow from the laws of Cardinality, so that the invariants about  *)
(* sums can be proved without an induction over the fold.                  *)
(***************************************************************************)
EXTENDS Integers, FiniteSets

Units(S, f) == UNION {{x} \X (1 .. f[x]) : x \in S}

Total(S, f) == Cardinality(Units(S, f))

(* The elements of S as a sequence, where before[x] are those before x.    *)
(* This is SetToSortSeq of the community modules, in a form whose laws     *)
(* follow from those of Cardinality, too.                                  *)
Ordered(S, before) ==
  [k \in 1 .. Cardinality(S) |-> CHOOSE x \in S : Cardinality(before[x]) + 1 = k]

(* Small arithmetic used by the services: Math.min and Math.max(0, .).     *)
Lesser(a, b) == IF a <= b THEN a ELSE b

Positive(x) == IF x > 0 THEN x ELSE 0
===============================================================================
