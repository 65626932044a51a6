-------------------------------- MODULE Hash -------------------------------
(***************************************************************************)
(* runtime/Hash.c: a hash table with open addressing and linear probing.   *)
(* A removed key keeps its bucket, with the value nil.                     *)
(*                                                                         *)
(* The keys' hash? and @equal are external; hashOf is the former.          *)
(***************************************************************************)
EXTENDS Objects, Integers, FiniteSets, FiniteSetsExt

CONSTANTS
    Key,
    HashFunctions,      \* what hash? of the keys may be
    DefaultCapacity,    \* HASH_DEFAULT_CAPACITY
    MaxCapacity         \* bound: buckets of a table

ASSUME KeyAssumption == Nil \notin Key
ASSUME HashFunctionsAssumption == HashFunctions \subseteq [Key -> Int]
ASSUME CapacityAssumption == DefaultCapacity \in Nat \ {0}

VARIABLES
    hashOf,     \* the hash? methods of the keys
    buckets,    \* Hash.data; its domain is 0 .. Hash.capacity - 1
    entries,    \* Hash.count
    found,      \* the last lookup: its key and what it returned
    endless     \* a loop over the buckets does not end

hashVars == <<hashOf, buckets, entries, found, endless>>

Empty(n) == [i \in 0 .. n - 1 |-> [key |-> Nil, value |-> Nil]]
Size(t) == Cardinality(DOMAIN t)
Values(t) == Cardinality({i \in DOMAIN t : t[i].value # Nil})

HashInit ==
    /\ hashOf \in HashFunctions
    /\ buckets = Empty(DefaultCapacity)
    /\ entries = 0 /\ found = Nil /\ endless = FALSE

-----------------------------------------------------------------------------
(* abs2, and the buckets that key k is looked for in, one after another.   *)
Abs2(n) == IF n > 0 THEN n ELSE -n
Probe(t, k, j) == (Abs2(hashOf[k]) + j) % Size(t)

(* The loop stops at a bucket without a key or with key k.                 *)
(* Bug: it also stops at a bucket without a value.                         *)
StopsAtNoValue(t, k) ==
    {j \in DOMAIN t : t[Probe(t, k, j)].value = Nil \/ t[Probe(t, k, j)].key = k}
Stops(t, k) ==
    {j \in DOMAIN t : t[Probe(t, k, j)].key \in {Nil, k}}

Bucket(t, k) == Probe(t, k, Min(Stops(t, k)))

(* The entry (k, v) goes into the bucket of k; no bucket is taken for nil. *)
Placed(t, k, v) ==
    LET i == Bucket(t, k) IN
    IF t[i].key = Nil /\ v = Nil THEN t ELSE [t EXCEPT ![i] = [key |-> k, value |-> v]]

(* Hash_rehash: a table twice as large, filled in the order of the old one. *)
Rehashed(t) ==
    LET Filled[n \in 0 .. Size(t)] ==
            IF n = 0 THEN Empty(2 * Size(t))
            ELSE IF t[n - 1].key = Nil THEN Filled[n - 1]
            ELSE Placed(Filled[n - 1], t[n - 1].key, t[n - 1].value)
    IN  Filled[Size(t)]

(* count / capacity >= HASH_LOAD_FACTOR, 0.7                               *)
Overloaded(t, n) == 10 * n >= 7 * Size(t)

-----------------------------------------------------------------------------
(* Hash__index(k)                                                          *)
Index(k) ==
    /\ ~endless /\ Stops(buckets, k) # {}
    /\ found' = [key |-> k, value |-> buckets[Bucket(buckets, k)].value]
    /\ UNCHANGED <<hashOf, buckets, entries, endless>>

(* Hash__insert(k, v) of a key that has a bucket; v may be nil.            *)
Overwrite(k, v) ==
    LET old == buckets[Bucket(buckets, k)] IN
    /\ ~endless /\ Stops(buckets, k) # {}
    /\ old.key = k
    /\ buckets' = Placed(buckets, k, v)
    /\ entries' = entries + (IF old.value = Nil THEN 1 ELSE 0)
                          - (IF v = Nil THEN 1 ELSE 0)
    /\ UNCHANGED <<hashOf, found, endless>>

(* ... of a new key, which may enlarge the table.                          *)
InsertNew(k, v) ==
    LET t == Placed(buckets, k, v)
        grows == Overloaded(t, entries + 1)
    IN
    /\ ~endless /\ Stops(buckets, k) # {}
    /\ buckets[Bucket(buckets, k)].key = Nil /\ v # Nil
    /\ grows => 2 * Size(t) <= MaxCapacity
    /\ buckets' = IF grows THEN Rehashed(t) ELSE t
    /\ entries' = IF grows THEN Values(t) ELSE entries + 1
    /\ UNCHANGED <<hashOf, found, endless>>

(* Either loops for ever when every bucket has the key of another one.     *)
Loop(k) ==
    /\ ~endless /\ Stops(buckets, k) = {}
    /\ endless' = TRUE
    /\ UNCHANGED <<hashOf, buckets, entries, found>>

(* Hash_clear.  Bug: the values are kept.                                  *)
HashClearKeys ==
    /\ ~endless
    /\ buckets' = [i \in DOMAIN buckets |-> [buckets[i] EXCEPT !.key = Nil]]
    /\ entries' = 0
    /\ UNCHANGED <<hashOf, found, endless>>

HashClear ==
    /\ ~endless
    /\ buckets' = Empty(Size(buckets))
    /\ entries' = 0
    /\ UNCHANGED <<hashOf, found, endless>>

HashNext ==
    \/ \E k \in Key :
        \/ Index(k) \/ Loop(k)
        \/ \E v \in Object \cup {Nil} : Overwrite(k, v) \/ InsertNew(k, v)
    \/ HashClear

HashSpec == HashInit /\ [][HashNext]_hashVars

-----------------------------------------------------------------------------
(* The object of a key, wherever its bucket is.                            *)
Contents ==
    [k \in Key |->
        LET Of == {i \in DOMAIN buckets : buckets[i].key = k} IN
        IF Of = {} THEN Nil ELSE buckets[CHOOSE i \in Of : TRUE].value]

(* The table keeps its type: a key and a value, a key only, or neither.    *)
HashTypeOK ==
    /\ buckets \in [0 .. Size(buckets) - 1 ->
                       [key : Key \cup {Nil}, value : Object \cup {Nil}]]
    /\ \A i \in DOMAIN buckets : buckets[i].key = Nil => buckets[i].value = Nil
    /\ found \in [key : Key, value : Object \cup {Nil}] \cup {Nil}

(* Whatever was inserted, removed and rehashed before, each key has one    *)
(* bucket and the search for it does not stop before.                      *)
KeysReachable ==
    \A i \in DOMAIN buckets : buckets[i].key # Nil =>
        Bucket(buckets, buckets[i].key) = i

(* count is the number of keys that have a value.                          *)
CountExact == entries = Values(buckets)

(* Together: the table is a hash table, after any history of removals.     *)
TableSound == HashTypeOK /\ KeysReachable /\ CountExact

(* What the program gets: a map.                                           *)
Maps == INSTANCE FiniteMap WITH map <- Contents

IsMap == Maps!MapSpec

(* Hash.jg:48-51: a lookup returns nil if there is no element for the key. *)
LookupsEnd == ~endless
=============================================================================
