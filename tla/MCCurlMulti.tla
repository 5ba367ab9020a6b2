---------------------------- MODULE MCCurlMulti ----------------------------
(* CurlMulti with a free client: any order of the multi calls.  The handles *)
(* and the heap addresses are interchangeable.                              *)
EXTENDS CurlMulti, TLC

Symmetry == Permutations(Handles) \cup Permutations(Nodes)
=============================================================================
