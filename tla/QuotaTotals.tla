----------------------------- MODULE QuotaTotals -----------------------------
(***************************************************************************)
(* Sums of quota amounts, written so that they can be both evaluated and   *)
(* proved about.  A total is the number of quota units in a finite set of  *)
(* holders: the pairs <<s, i>> with 1 <= i <= v[s].  Counting units        *)
(* instead of folding over the holders needs no recursive definition, and  *)
(* the cardinality theorems of the library give the arithmetic.  A holder  *)
(* with a negative amount counts as one that has nothing.                  *)
(***************************************************************************)
EXTENDS Integers, FiniteSets

Units(S, v) == UNION {{s} \X (1 .. v[s]) : s \in S}

\* The sum of v[s] over the holders s in S.
Total(S, v) == Cardinality(Units(S, v))
=============================================================================
