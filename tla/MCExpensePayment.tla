-------------------------- MODULE MCExpensePayment --------------------------
(***************************************************************************)
(* Small documents for ExpensePayment.                                     *)
(***************************************************************************)
EXTENDS ExpensePayment, TLC

\* Every record is worth one, so one record adds up to the lower amount.
OneEach == [r \in Records |-> 1]

\* Clerks are interchangeable, and so are files and records.
Symmetry == Permutations(Clerks) \cup Permutations(Files) \cup Permutations(Records)
=============================================================================
