-------------------------- MODULE MCEvidenceUpload --------------------------
(***************************************************************************)
(* Two intents and two completion requests, of the drafter and of one      *)
(* other person with the right to attach.                                  *)
(***************************************************************************)
EXTENDS EvidenceUpload, TLC

CONSTANTS i1, i2, c1, c2, t1, t2

Symmetry == Permutations({i1, i2}) \cup Permutations({c1, c2})
=============================================================================
