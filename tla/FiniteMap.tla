----------------------------- MODULE FiniteMap -----------------------------
(***************************************************************************)
(* What runtime/Hash.jg promises: a map from keys to objects.  A key with  *)
(* no object is mapped to nil.  Hash implements this specification.        *)
(***************************************************************************)
EXTENDS Objects

CONSTANT Key

VARIABLES
    map,    \* the object of each key
    found   \* the last lookup: its key and what it returned

MapInit == map = [k \in Key |-> Nil] /\ found = Nil

Put(k, v) == map' = [map EXCEPT ![k] = v] /\ UNCHANGED found

Get(k) == found' = [key |-> k, value |-> map[k]] /\ UNCHANGED map

Clear == map' = [k \in Key |-> Nil] /\ UNCHANGED found

MapNext ==
    \/ \E k \in Key : Get(k) \/ \E v \in Object \cup {Nil} : Put(k, v)
    \/ Clear

MapSpec == MapInit /\ [][MapNext]_<<map, found>>
=============================================================================
