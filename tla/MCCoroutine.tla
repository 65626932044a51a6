---------------------------- MODULE MCCoroutine ----------------------------
(* Small instances of Coroutine for TLC.                                   *)
EXTENDS Coroutine, TLC

CONSTANTS c1, c2, c3

CoroSymmetry == Permutations(Coro)
=============================================================================
