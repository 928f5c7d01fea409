------------------------------ MODULE MCKvTree -----------------------------
(* Trees of few keys. *)
EXTENDS KvTree

CONSTANTS Short, Long

\* A leaf has room for two entries at most, a branch for three children.
LargeKeys == [k \in Key |-> 1400]
TwoValues == [v \in Value |-> IF v = Short THEN 300 ELSE 700]

\* A long entry takes a little more than a third of a page.
SmallKeys == [k \in Key |-> 100]
Thirds == [v \in Value |-> IF v = Short THEN 100 ELSE 1250]
=============================================================================
