------------------------------ MODULE Objects ------------------------------
(* What the collections of the Jogo runtime hold: pointers to objects.     *)
CONSTANTS
    Object,     \* the objects
    Nil         \* the null pointer

ASSUME NilIsNoObject == Nil \notin Object
=============================================================================
