--------------------------- MODULE MCCollections ---------------------------
(* The collections of the runtime for TLC: a behaviour uses one of them.   *)
EXTENDS Queue, Hash, TLC

CONSTANTS o1, o2, k1, k2, k3, k4

VARIABLE kind   \* the collection that this behaviour uses

SmallHints == {0, 1, 3}

(* All keys in one chain, two chains, and hashes that meet after wrapping. *)
SmallHashes ==
    [Key -> {0}] \cup
    {[k \in Key |-> IF k \in S THEN -1 ELSE 2] : S \in SUBSET Key}

CollectionInit ==
    /\ QueueInit /\ HashInit
    /\ \/ kind = "queue" /\ hashOf = [k \in Key |-> 0]
       \/ kind = "hash" /\ back = -1

CollectionSymmetry == Permutations(Object) \cup Permutations(Key)

CollectionNext ==
    /\ \/ kind = "queue" /\ QueueNext /\ UNCHANGED hashVars
       \/ kind = "hash" /\ HashNext /\ UNCHANGED <<queueVars, iterVars, destroyed>>
    /\ UNCHANGED kind

CollectionSpec ==
    CollectionInit /\ [][CollectionNext]_<<queueVars, iterVars, destroyed, hashVars, kind>>
=============================================================================
