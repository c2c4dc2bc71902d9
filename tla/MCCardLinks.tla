---------------------------- MODULE MCCardLinks ----------------------------
(* An instance of CardLinks for TLC: two lines, one of which may come later, *)
(* two usages, one request, one expense, and two requests to the server.    *)
EXTENDS CardLinks, TLC

CONSTANTS l1, l2, u1, u2, r1, e1, s1, s2

MCLines == {l1, l2}
MCUsages == {u1, u2}
MCRequests == {r1}
MCExpenses == {e1}
MCSessions == {s1, s2}

Symmetric == Permutations(MCUsages) \cup Permutations(MCSessions)
=============================================================================
