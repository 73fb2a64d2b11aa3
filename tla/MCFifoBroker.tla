---------------------------- MODULE MCFifoBroker ----------------------------
(* One pipe, a writer and readers that all may call at any time.           *)
EXTENDS FifoBroker, TLC

CONSTANTS c1, c2, c3

AllSizes == {-1, 1, 2, 3}
ClientSymmetry == Permutations({c1, c2, c3})
=============================================================================
