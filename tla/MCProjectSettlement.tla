------------------------ MODULE MCProjectSettlement ------------------------
(* Instances of ProjectSettlement for TLC.                                 *)
EXTENDS ProjectSettlement, TLC

CONSTANTS s1, s2, e1

TwoSessions == {s1, s2}
SymmetryOfTwo == Permutations(TwoSessions)
OneExpense == {e1}

\* A day that will have passed, one that may or may not, and an empty end.
ThreePeriods == {[start |-> 1, end |-> 1], [start |-> 1, end |-> 2], [start |-> 2, end |-> None]}

\* One period that passes and one that does not.
TwoPeriods == {[start |-> 1, end |-> 1], [start |-> 1, end |-> 2]}
=============================================================================
