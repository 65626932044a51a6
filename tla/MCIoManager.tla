---------------------------- MODULE MCIoManager ----------------------------
(* Small instances of IoManager for TLC.                                   *)
EXTENDS IoManager, TLC

CONSTANTS c1, c2, c3

CoroSymmetry == Permutations(Coro)
=============================================================================
