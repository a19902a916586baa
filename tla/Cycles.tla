------------------------------- MODULE Cycles -------------------------------
(***************************************************************************)
(* Adding up amounts of cycles. The canister keeps several maps from a     *)
(* principal or a name to an amount (credits, prepaid balances, escrowed   *)
(* deposits) and folds each of them into one number. Here the sum of a     *)
(* function is the number of coins it holds: one coin <<x, i>> for every   *)
(* i \in 1..f[x]. Counting needs no recursion, so the proof modules can    *)
(* reason about it with the theorems on finite sets.                       *)
(***************************************************************************)
EXTENDS Integers, FiniteSets

Least(a, b) == IF a <= b THEN a ELSE b

Greatest(a, b) == IF a >= b THEN a ELSE b

Coins(f) == UNION {{x} \X (1..f[x]) : x \in DOMAIN f}

\* saturating_add folds of store::credits_outstanding and auction::escrowed.
Total(f) == Cardinality(Coins(f))

\* The pointwise sum of two maps with the same keys.
Plus(f, g) == [x \in DOMAIN f |-> f[x] + g[x]]
=============================================================================
