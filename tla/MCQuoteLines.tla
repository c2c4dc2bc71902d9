---------------------------- MODULE MCQuoteLines ----------------------------
(***************************************************************************)
(* A small quote for QuoteLines.                                           *)
(***************************************************************************)
EXTENDS QuoteLines, TLC

\* The ids of lines are interchangeable.
Symmetry == Permutations(Lines)
=============================================================================
