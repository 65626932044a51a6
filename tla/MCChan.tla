------------------------------- MODULE MCChan -------------------------------
(* Small instances of Chan for TLC.                                        *)
EXTENDS Chan, TLC

CONSTANTS c1, c2, c3, c4
=============================================================================
