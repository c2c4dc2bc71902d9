-------------------------- MODULE MCLeaveRequests --------------------------
(***************************************************************************)
(* One drafter with two tabs and two requests over two days, two expenses  *)
(* of one project, and a first number that is set meanwhile.               *)
(***************************************************************************)
EXTENDS LeaveRequests, TLC

CONSTANTS c1, c2, l1, l2

Symmetry == Permutations({c1, c2}) \cup Permutations({l1, l2})
=============================================================================
