------------------------- MODULE Collections_proofs -------------------------
(***************************************************************************)
(* The two containers of the runtime: Hash is a map (first part) and Queue *)
(* a queue (second part), whatever their sizes and contents.               *)
(***************************************************************************)
EXTENDS Queue, Hash, Lists

-----------------------------------------------------------------------------
(***************************************************************************)
(* The hash table of Hash.c is a map, for any keys, any hash? of them and  *)
(* any capacity, whatever was inserted, removed and rehashed before.       *)
(*                                                                         *)
(* A bucket once taken by a key stays taken until the table is cleared or  *)
(* rehashed.  So no bucket that a search passes becomes empty, and each    *)
(* key that has a bucket is found there (Reachable).                       *)
(***************************************************************************)
USE NilIsNoObject, KeyAssumption, HashFunctionsAssumption, CapacityAssumption

-----------------------------------------------------------------------------
(* The probes of one key go through all the buckets, each of them once.    *)
LEMMA DivMod ==
  ASSUME NEW n \in Nat \ {0}, NEW a \in Nat
  PROVE  \E q \in Int, r \in 0 .. n - 1 : a = n * q + r
<1>1. a % n \in 0 .. n - 1 /\ a \div n \in Int
  OBVIOUS
<1>2. n \in Int /\ n > 0 /\ a \in Int
  OBVIOUS
<1>3. ASSUME NEW m \in Int, m > 0, NEW b \in Int PROVE b % m = b - m * (b \div m)
  BY <1>3
<1>4. a % n = a - n * (a \div n)
  BY <1>2, <1>3
<1>5. n * (a \div n) \in Int
  BY <1>1, <1>2
<1>6. a = n * (a \div n) + (a % n)
  <2>1. \A x, y, z \in Int : x = y - z => y = z + x
    OBVIOUS
  <2> QED
    BY <1>1, <1>2, <1>4, <1>5, <2>1
<1> QED
  <2> WITNESS a \div n \in Int, a % n \in 0 .. n - 1
  <2> QED
    BY <1>6

LEMMA ModUnique ==
  ASSUME NEW n \in Nat \ {0}, NEW q \in Int, NEW r \in 0 .. n - 1, NEW a \in Nat, a = n * q + r
  PROVE  a % n = r
OBVIOUS

LEMMA ModAdd ==
  ASSUME NEW n \in Nat \ {0}, NEW a \in Nat
  PROVE  \E r \in 0 .. n - 1 : \A j \in 0 .. n - 1 :
            (a + j) % n = IF r + j < n THEN r + j ELSE r + j - n
<1>1. PICK q \in Int, r \in 0 .. n - 1 : a = n * q + r
  BY DivMod
<1>2. ASSUME NEW j \in 0 .. n - 1, NEW b \in Nat, b = a + j
      PROVE  b % n = IF r + j < n THEN r + j ELSE r + j - n
  <2>1. ASSUME NEW s \in 0 .. n - 1, s = r + j PROVE b % n = s
    <3>1. b = n * q + s
      BY <1>1, <1>2, <2>1
    <3> QED
      BY <3>1, ModUnique
  <2>2. ASSUME NEW s \in 0 .. n - 1, s = r + j - n PROVE b % n = s
    <3>1. b = n * (q + 1) + s
      BY <1>1, <1>2, <2>2
    <3>2. PICK p \in Int : p = q + 1
      OBVIOUS
    <3>3. b = n * p + s
      BY <3>1, <3>2
    <3> QED
      BY <3>3, ModUnique
  <2>3. CASE r + j < n
    <3>1. r + j \in 0 .. n - 1
      BY <2>3
    <3> QED
      BY <2>1, <2>3, <3>1
  <2>4. CASE r + j >= n
    <3>1. r + j - n \in 0 .. n - 1
      BY <2>4
    <3> QED
      BY <2>2, <2>4, <3>1
  <2> QED
    BY <2>3, <2>4
<1>3. \A j \in 0 .. n - 1 : a + j \in Nat
  OBVIOUS
<1> QED
  BY <1>2, <1>3

LEMMA Probes ==
  ASSUME NEW n \in Nat \ {0}, NEW a \in Nat
  PROVE  /\ \A j \in 0 .. n - 1 : (a + j) % n \in 0 .. n - 1
         /\ \A i, j \in 0 .. n - 1 : (a + i) % n = (a + j) % n => i = j
         /\ \A i \in 0 .. n - 1 : \E j \in 0 .. n - 1 : (a + j) % n = i
<1>3. PICK r \in 0 .. n - 1 : \A j \in 0 .. n - 1 :
        (a + j) % n = IF r + j < n THEN r + j ELSE r + j - n
  BY ModAdd
<1>4. \A j \in 0 .. n - 1 : (a + j) % n \in 0 .. n - 1
  BY <1>3
<1>5. \A i, j \in 0 .. n - 1 : (a + i) % n = (a + j) % n => i = j
  BY <1>3
<1>6. ASSUME NEW i \in 0 .. n - 1 PROVE \E j \in 0 .. n - 1 : (a + j) % n = i
  <2>1. CASE r <= i
    <3>1. i - r \in 0 .. n - 1 /\ r + (i - r) < n /\ r + (i - r) = i
      BY <2>1
    <3> QED
      BY <1>3, <3>1
  <2>2. CASE r > i
    <3>1. i + n - r \in 0 .. n - 1 /\ ~ (r + (i + n - r) < n) /\ r + (i + n - r) - n = i
      BY <2>2
    <3> QED
      BY <1>3, <3>1
  <2> QED
    BY <2>1, <2>2
<1> QED
  BY <1>4, <1>5, <1>6

-----------------------------------------------------------------------------
(* A table with n buckets; each key in it is found.                        *)
Entry == [key : Key \cup {Nil}, value : Object \cup {Nil}]

Table(t, n) ==
    /\ n \in Nat \ {0} /\ t \in [0 .. n - 1 -> Entry]
    /\ \A i \in 0 .. n - 1 : t[i].key = Nil => t[i].value = Nil

Reachable(t) == \A i \in DOMAIN t : t[i].key # Nil => Bucket(t, t[i].key) = i

Hashes == hashOf \in [Key -> Int]

LEMMA TableFacts ==
  ASSUME NEW n, NEW t, Table(t, n)
  PROVE  /\ n \in Nat \ {0} /\ DOMAIN t = 0 .. n - 1 /\ Size(t) = n
         /\ \A i \in 0 .. n - 1 : /\ t[i] \in Entry /\ t[i].key \in Key \cup {Nil}
                                  /\ t[i].value \in Object \cup {Nil}
                                  /\ t[i].key = Nil => t[i].value = Nil
<1>1. /\ n \in Nat \ {0} /\ DOMAIN t = 0 .. n - 1
      /\ \A i \in 0 .. n - 1 : t[i] \in Entry /\ (t[i].key = Nil => t[i].value = Nil)
  BY DEF Table
<1>2. \A e \in Entry : e.key \in Key \cup {Nil} /\ e.value \in Object \cup {Nil}
  BY DEF Entry
<1>3. Cardinality(0 .. n - 1) = n
  <2>1. 0 \in Int /\ n - 1 \in Int /\ ~ (0 > n - 1) /\ (n - 1) - 0 + 1 = n
    BY <1>1
  <2> QED
    BY <2>1, FS_Interval
<1> QED
  BY <1>1, <1>2, <1>3 DEF Size

LEMMA ProbeFacts ==
  ASSUME Hashes, NEW n, NEW t, Table(t, n), NEW k \in Key
  PROVE  /\ \A j \in 0 .. n - 1 : Probe(t, k, j) \in 0 .. n - 1
         /\ \A i, j \in 0 .. n - 1 : Probe(t, k, i) = Probe(t, k, j) => i = j
         /\ \A i \in 0 .. n - 1 : \E j \in 0 .. n - 1 : Probe(t, k, j) = i
<1>1. Abs2(hashOf[k]) \in Nat /\ Size(t) = n /\ n \in Nat \ {0}
  BY TableFacts DEF Hashes, Abs2
<1>2. PICK a \in Nat : a = Abs2(hashOf[k])
  BY <1>1
<1>3. \A j : Probe(t, k, j) = (a + j) % n
  BY <1>1, <1>2 DEF Probe
<1>4. /\ \A j \in 0 .. n - 1 : (a + j) % n \in 0 .. n - 1
      /\ \A i, j \in 0 .. n - 1 : (a + i) % n = (a + j) % n => i = j
      /\ \A i \in 0 .. n - 1 : \E j \in 0 .. n - 1 : (a + j) % n = i
  <2>1. n \in Nat \ {0}
    BY <1>1
  <2> QED
    BY <2>1, Probes
<1>5. ASSUME NEW i \in 0 .. n - 1 PROVE \E j \in 0 .. n - 1 : Probe(t, k, j) = i
  <2>1. PICK j \in 0 .. n - 1 : (a + j) % n = i
    BY <1>4
  <2> QED
    BY <1>3, <2>1
<1>6. \A j \in 0 .. n - 1 : Probe(t, k, j) \in 0 .. n - 1
  BY <1>3, <1>4
<1>7. \A i, j \in 0 .. n - 1 : Probe(t, k, i) = Probe(t, k, j) => i = j
  BY <1>3, <1>4
<1> QED
  BY <1>5, <1>6, <1>7

(* Where the search of k ends, and that it ends there.                     *)
Passed(t, k, j) == \A m \in DOMAIN t : m < j => t[Probe(t, k, m)].key \notin {Nil, k}

LEMMA Search ==
  ASSUME NEW n, NEW t, Table(t, n), NEW k, Stops(t, k) # {}
  PROVE  \E j \in 0 .. n - 1 : /\ Bucket(t, k) = Probe(t, k, j) /\ Passed(t, k, j)
                               /\ t[Probe(t, k, j)].key \in {Nil, k}
<1>1. n \in Nat \ {0} /\ DOMAIN t = 0 .. n - 1
  BY TableFacts
<1>2. Stops(t, k) \in SUBSET Nat
  BY <1>1 DEF Stops
<1>3. \E m \in Stops(t, k) : \A i \in Stops(t, k) : m <= i
  BY <1>2, LeastNumber
<1>4. PICK j : j = Min(Stops(t, k))
  OBVIOUS
<1>5. j \in Stops(t, k) /\ \A i \in Stops(t, k) : j <= i
  BY <1>3, <1>4 DEF Min
<1>6. Passed(t, k, j)
  <2>1. ASSUME NEW m \in DOMAIN t, m < j, t[Probe(t, k, m)].key \in {Nil, k}
        PROVE  FALSE
    <3>1. m \in Stops(t, k)
      BY <2>1 DEF Stops
    <3> QED
      BY <1>2, <1>5, <2>1, <3>1
  <2> QED
    BY <2>1 DEF Passed
<1> QED
  BY <1>1, <1>4, <1>5, <1>6 DEF Stops, Bucket

LEMMA SearchEnds ==
  ASSUME NEW n, NEW t, Table(t, n), NEW k, NEW j \in 0 .. n - 1,
         t[Probe(t, k, j)].key \in {Nil, k}, Passed(t, k, j)
  PROVE  Stops(t, k) # {} /\ Bucket(t, k) = Probe(t, k, j)
<1>1. n \in Nat \ {0} /\ DOMAIN t = 0 .. n - 1
  BY TableFacts
<1>2. j \in Stops(t, k)
  BY <1>1 DEF Stops
<1>3. \A i \in Stops(t, k) : j <= i
  BY <1>1 DEF Stops, Passed
<1>4. Stops(t, k) \subseteq 0 .. n - 1
  BY <1>1 DEF Stops
<1>5. Min(Stops(t, k)) = j
  <2>1. \A i \in Stops(t, k) : (\A m \in Stops(t, k) : i <= m) => i = j
    BY <1>2, <1>3, <1>4
  <2> QED
    BY <1>2, <1>3, <2>1 DEF Min
<1> QED
  BY <1>2, <1>5 DEF Bucket

-----------------------------------------------------------------------------
(* What a table maps a key to.  A key has one bucket, the one found.       *)
ValueOf(t, k) ==
    LET Of == {i \in DOMAIN t : t[i].key = k} IN
    IF Of = {} THEN Nil ELSE t[CHOOSE i \in Of : TRUE].value

LEMMA BucketFacts ==
  ASSUME Hashes, NEW n, NEW t, Table(t, n), NEW k \in Key, Stops(t, k) # {}
  PROVE  /\ Bucket(t, k) \in 0 .. n - 1 /\ t[Bucket(t, k)].key \in {Nil, k}
BY Search, ProbeFacts

LEMMA KeyFound ==
  ASSUME Hashes, NEW n, NEW t, Table(t, n), Reachable(t),
         NEW i \in 0 .. n - 1, NEW k \in Key, t[i].key = k
  PROVE  Stops(t, k) # {} /\ Bucket(t, k) = i
<1>1. DOMAIN t = 0 .. n - 1 /\ n \in Nat \ {0} /\ k # Nil
  BY TableFacts
<1>2. Bucket(t, k) = i
  BY <1>1 DEF Reachable
<1>3. PICK j \in 0 .. n - 1 : Probe(t, k, j) = i
  BY ProbeFacts
<1>4. j \in Stops(t, k)
  BY <1>1, <1>3 DEF Stops
<1> QED
  BY <1>2, <1>4

LEMMA ValueFacts ==
  ASSUME Hashes, NEW n, NEW t, Table(t, n), Reachable(t), NEW k \in Key
  PROVE  /\ \A i \in 0 .. n - 1 : t[i].key = k => ValueOf(t, k) = t[i].value
         /\ (\A i \in 0 .. n - 1 : t[i].key # k) => ValueOf(t, k) = Nil
         /\ Stops(t, k) # {} => ValueOf(t, k) = t[Bucket(t, k)].value
         /\ Stops(t, k) # {} /\ t[Bucket(t, k)].key = Nil
                => \A i \in 0 .. n - 1 : t[i].key # k
         /\ ValueOf(t, k) \in Object \cup {Nil}
<1> DEFINE Of == {i \in DOMAIN t : t[i].key = k}
<1>1. DOMAIN t = 0 .. n - 1 /\ k # Nil
  BY TableFacts
<1>2. ValueOf(t, k) = IF Of = {} THEN Nil ELSE t[CHOOSE i \in Of : TRUE].value
  BY DEF ValueOf
<1>3. ASSUME NEW i \in 0 .. n - 1, t[i].key = k PROVE ValueOf(t, k) = t[i].value
  <2>1. \A j \in Of : j = i
    <3>1. ASSUME NEW j \in 0 .. n - 1, t[j].key = k PROVE j = i
      BY <1>3, <3>1, KeyFound
    <3> QED
      BY <1>1, <3>1
  <2>2. i \in Of
    BY <1>1, <1>3
  <2>3. (CHOOSE j \in Of : TRUE) = i
    BY <2>1, <2>2
  <2> QED
    BY <1>2, <2>2, <2>3
<1>4. ASSUME \A i \in 0 .. n - 1 : t[i].key # k PROVE ValueOf(t, k) = Nil
  BY <1>1, <1>2, <1>4
<1>5. ASSUME Stops(t, k) # {}, t[Bucket(t, k)].key = Nil, NEW i \in 0 .. n - 1, t[i].key = k
      PROVE  FALSE
  <2>1. Bucket(t, k) = i
    BY <1>5, KeyFound
  <2> QED
    BY <1>1, <1>5, <2>1
<1>6. ASSUME Stops(t, k) # {} PROVE ValueOf(t, k) = t[Bucket(t, k)].value
  <2>1. Bucket(t, k) \in 0 .. n - 1 /\ t[Bucket(t, k)].key \in {Nil, k}
    BY <1>6, BucketFacts
  <2>2. CASE t[Bucket(t, k)].key = k
    BY <1>3, <2>1, <2>2
  <2>3. CASE t[Bucket(t, k)].key = Nil
    <3>1. ValueOf(t, k) = Nil
      BY <1>4, <1>5, <1>6, <2>3
    <3> QED
      BY <2>1, <2>3, <3>1, TableFacts
  <2> QED
    BY <2>1, <2>2, <2>3
<1>7. ValueOf(t, k) \in Object \cup {Nil}
  BY <1>3, <1>4, TableFacts
<1> QED
  BY <1>3, <1>4, <1>5, <1>6, <1>7

-----------------------------------------------------------------------------
(* To place an entry keeps all keys found, and maps only its key anew.     *)
Keyed(t) == {i \in DOMAIN t : t[i].key # Nil}

LEMMA PlacedTable ==
  ASSUME Hashes, NEW n, NEW t, Table(t, n), Reachable(t),
         NEW k \in Key, NEW v \in Object \cup {Nil}, Stops(t, k) # {}
  PROVE  LET T == Placed(t, k, v) IN
         /\ Table(T, n) /\ Reachable(T) /\ Keyed(T) \subseteq Keyed(t) \cup {Bucket(t, k)}
         /\ \A x \in Key : ValueOf(T, x) = IF x = k THEN v ELSE ValueOf(t, x)
<1> DEFINE T == Placed(t, k, v)
<1>1. PICK b : b = Bucket(t, k)
  OBVIOUS
<1>2. b \in 0 .. n - 1 /\ t[b].key \in {Nil, k} /\ DOMAIN t = 0 .. n - 1 /\ k # Nil
  BY <1>1, BucketFacts, TableFacts
<1>3. CASE t[b].key = Nil /\ v = Nil
  <2>1. T = t
    BY <1>1, <1>3 DEF Placed
  <2>2. \A i \in 0 .. n - 1 : t[i].key # k
    BY <1>1, <1>3, ValueFacts
  <2>3. ValueOf(t, k) = Nil
    BY <2>2, ValueFacts
  <2> QED
    BY <1>3, <2>1, <2>3
<1>4. CASE ~ (t[b].key = Nil /\ v = Nil)
  <2>1. T = [t EXCEPT ![b] = [key |-> k, value |-> v]]
    BY <1>1, <1>4 DEF Placed
  <2> HIDE DEF T
  <2>2. /\ DOMAIN T = 0 .. n - 1 /\ T[b] = [key |-> k, value |-> v]
        /\ \A i \in 0 .. n - 1 : i # b => T[i] = t[i]
    BY <1>2, <2>1
  <2>3. Table(T, n)
    <3>1. [key |-> k, value |-> v] \in Entry
      BY DEF Entry
    <3>2. \A i \in 0 .. n - 1 : T[i] \in Entry /\ (T[i].key = Nil => T[i].value = Nil)
      BY <1>2, <2>2, <3>1, TableFacts
    <3>3. T \in [0 .. n - 1 -> Entry]
      BY <2>1, <2>2, <3>1, <3>2 DEF Table
    <3> QED
      BY <3>2, <3>3 DEF Table
  <2>4. \A x, j : Probe(T, x, j) = Probe(t, x, j)
    <3>1. Size(T) = n /\ Size(t) = n
      BY <2>3, TableFacts
    <3> QED
      BY <3>1 DEF Probe
  <2>5. Bucket(T, k) = b
    <3>1. PICK j \in 0 .. n - 1 : Probe(t, k, j) = b /\ Passed(t, k, j)
      BY <1>1, Search
    <3>2. ASSUME NEW m \in 0 .. n - 1, m < j
          PROVE  T[Probe(T, k, m)].key \notin {Nil, k}
      <4>1. m # j
        BY <3>2
      <4>2. Probe(t, k, m) # b /\ Probe(t, k, m) \in 0 .. n - 1
        BY <3>1, <4>1, ProbeFacts
      <4> QED
        BY <1>2, <2>2, <2>4, <3>1, <3>2, <4>2 DEF Passed
    <3>3. Passed(T, k, j)
      BY <2>2, <3>2 DEF Passed
    <3>4. T[Probe(T, k, j)].key \in {Nil, k}
      BY <2>2, <2>4, <3>1
    <3> QED
      BY <2>3, <2>4, <3>1, <3>3, <3>4, SearchEnds
  <2>6. ASSUME NEW i \in 0 .. n - 1, T[i].key # Nil, i # b
        PROVE  Bucket(T, T[i].key) = i
    <3>1. T[i] = t[i]
      BY <2>2, <2>6
    <3>2. PICK x \in Key : x = t[i].key
      BY <2>6, <3>1, TableFacts
    <3>3. Stops(t, x) # {} /\ Bucket(t, x) = i
      BY <3>2, KeyFound
    <3>4. x # k
      BY <1>1, <2>6, <3>3
    <3>5. PICK j \in 0 .. n - 1 : Probe(t, x, j) = i /\ Passed(t, x, j)
      BY <3>3, Search
    <3>6. ASSUME NEW m \in 0 .. n - 1, m < j
          PROVE  T[Probe(T, x, m)].key \notin {Nil, x}
      <4>1. Probe(t, x, m) \in 0 .. n - 1
        BY ProbeFacts
      <4>2. CASE Probe(t, x, m) = b
        BY <1>2, <2>2, <2>4, <3>4, <4>2
      <4>3. CASE Probe(t, x, m) # b
        BY <1>2, <2>2, <2>4, <3>5, <3>6, <4>1, <4>3 DEF Passed
      <4> QED
        BY <4>2, <4>3
    <3>7. Passed(T, x, j)
      BY <2>2, <3>6 DEF Passed
    <3>8. T[Probe(T, x, j)].key \in {Nil, x}
      BY <2>4, <3>1, <3>2, <3>5
    <3> QED
      BY <2>3, <2>4, <3>1, <3>2, <3>5, <3>7, <3>8, SearchEnds
  <2>7. Reachable(T)
    <3>1. T[b].key = k
      BY <2>2
    <3> QED
      BY <2>2, <2>5, <2>6, <3>1 DEF Reachable
  <2>8. Keyed(T) \subseteq Keyed(t) \cup {b}
    BY <1>2, <2>2 DEF Keyed
  <2>9. ASSUME NEW x \in Key
        PROVE  ValueOf(T, x) = IF x = k THEN v ELSE ValueOf(t, x)
    <3>1. CASE x = k
      <4>1. T[b].key = x /\ T[b].value = v
        BY <2>2, <3>1
      <4>2. ValueOf(T, x) = T[b].value
        BY <1>2, <2>3, <2>7, <4>1, ValueFacts
      <4> QED
        BY <3>1, <4>1, <4>2
    <3>2. CASE x # k /\ \E i \in 0 .. n - 1 : t[i].key = x
      <4>1. PICK i \in 0 .. n - 1 : t[i].key = x
        BY <3>2
      <4>2. i # b
        BY <1>2, <3>2, <4>1
      <4>3. T[i] = t[i]
        BY <2>2, <4>2
      <4>4. ValueOf(T, x) = T[i].value /\ ValueOf(t, x) = t[i].value
        BY <2>3, <2>7, <4>1, <4>3, ValueFacts
      <4> QED
        BY <3>2, <4>3, <4>4
    <3>3. CASE x # k /\ \A i \in 0 .. n - 1 : t[i].key # x
      <4>1. \A i \in 0 .. n - 1 : T[i].key # x
        BY <2>2, <3>3
      <4>2. ValueOf(T, x) = Nil /\ ValueOf(t, x) = Nil
        BY <2>3, <2>7, <3>3, <4>1, ValueFacts
      <4> QED
        BY <3>3, <4>2
    <3> QED
      BY <3>1, <3>2, <3>3
  <2> QED
    BY <1>1, <2>3, <2>7, <2>8, <2>9 DEF T
<1> QED
  BY <1>3, <1>4

(* A table with a bucket to spare has one for every key.                   *)
LEMMA KeyedFinite ==
  ASSUME NEW n, NEW t, Table(t, n)
  PROVE  /\ IsFiniteSet(0 .. n - 1) /\ IsFiniteSet(Keyed(t))
         /\ Cardinality(Keyed(t)) \in Nat
<1>1. DOMAIN t = 0 .. n - 1 /\ n \in Nat \ {0}
  BY TableFacts
<1>2. IsFiniteSet(0 .. n - 1)
  BY <1>1, FS_Interval
<1>3. Keyed(t) \subseteq 0 .. n - 1
  BY <1>1 DEF Keyed
<1> QED
  BY <1>2, <1>3, FS_Subset, FS_CardinalityType

LEMMA Room ==
  ASSUME Hashes, NEW n, NEW t, Table(t, n), Cardinality(Keyed(t)) < n, NEW k \in Key
  PROVE  Stops(t, k) # {}
<1>1. DOMAIN t = 0 .. n - 1 /\ n \in Nat \ {0} /\ Size(t) = n
  BY TableFacts
<1>2. \E i \in 0 .. n - 1 : t[i].key = Nil
  <2>1. SUFFICES ASSUME \A i \in 0 .. n - 1 : t[i].key # Nil PROVE FALSE
    OBVIOUS
  <2>2. Keyed(t) = DOMAIN t
    BY <1>1, <2>1 DEF Keyed
  <2> QED
    BY <1>1, <2>2 DEF Size
<1>3. PICK j \in 0 .. n - 1 : t[Probe(t, k, j)].key = Nil
  BY <1>2, ProbeFacts
<1> QED
  BY <1>1, <1>3 DEF Stops

LEMMA EmptyTable ==
  ASSUME Hashes, NEW n \in Nat \ {0}
  PROVE  /\ Table(Empty(n), n) /\ Reachable(Empty(n)) /\ Keyed(Empty(n)) = {}
         /\ Values(Empty(n)) = 0 /\ \A k \in Key : ValueOf(Empty(n), k) = Nil
<1>1. [key |-> Nil, value |-> Nil] \in Entry
  BY DEF Entry
<1>2. /\ DOMAIN Empty(n) = 0 .. n - 1
      /\ \A i \in 0 .. n - 1 : Empty(n)[i] = [key |-> Nil, value |-> Nil]
  BY DEF Empty
<1>3. Table(Empty(n), n)
  BY <1>1 DEF Table, Empty
<1>4. Keyed(Empty(n)) = {} /\ Reachable(Empty(n))
  BY <1>2 DEF Keyed, Reachable
<1>5. Values(Empty(n)) = 0
  <2>1. {i \in DOMAIN Empty(n) : Empty(n)[i].value # Nil} = {}
    BY <1>2
  <2> QED
    BY <2>1, FS_EmptySet DEF Values
<1>6. ASSUME NEW k \in Key PROVE ValueOf(Empty(n), k) = Nil
  <2>1. \A i \in 0 .. n - 1 : Empty(n)[i].key # k
    BY <1>2
  <2> QED
    BY <1>3, <1>4, <2>1, ValueFacts
<1> QED
  BY <1>3, <1>4, <1>5, <1>6

-----------------------------------------------------------------------------
(* The number of values: what one entry changes, and that it is the number *)
(* of keys that the table maps to an object.                               *)
LEMMA ValuesPlaced ==
  ASSUME Hashes, NEW n, NEW t, Table(t, n), NEW k \in Key, NEW v \in Object \cup {Nil},
         Stops(t, k) # {}
  PROVE  /\ Values(t) \in Nat
         /\ Values(Placed(t, k, v)) = Values(t) + (IF v = Nil THEN 0 ELSE 1)
                                      - (IF t[Bucket(t, k)].value = Nil THEN 0 ELSE 1)
<1> DEFINE T == Placed(t, k, v)
           U == {i \in 0 .. n - 1 : t[i].value # Nil}
           W == {i \in 0 .. n - 1 : T[i].value # Nil}
<1>1. PICK b : b = Bucket(t, k)
  OBVIOUS
<1>2. /\ b \in 0 .. n - 1 /\ DOMAIN t = 0 .. n - 1
      /\ t[b].key = Nil => t[b].value = Nil
  BY <1>1, BucketFacts, TableFacts
<1>3. IsFiniteSet(U) /\ Cardinality(U) \in Nat /\ Values(t) = Cardinality(U)
  <2>1. IsFiniteSet(U)
    BY KeyedFinite, FS_Subset
  <2> QED
    BY <1>2, <2>1, FS_CardinalityType DEF Values
<1>4. CASE t[b].key = Nil /\ v = Nil
  <2>1. T = t
    BY <1>1, <1>4 DEF Placed
  <2> QED
    BY <1>1, <1>2, <1>3, <1>4, <2>1
<1>5. CASE ~ (t[b].key = Nil /\ v = Nil)
  <2>1. T = [t EXCEPT ![b] = [key |-> k, value |-> v]]
    BY <1>1, <1>5 DEF Placed
  <2>2. /\ DOMAIN T = 0 .. n - 1 /\ T[b].value = v
        /\ \A i \in 0 .. n - 1 : i # b => T[i] = t[i]
    BY <1>2, <2>1
  <2> HIDE DEF T
  <2>3. Values(T) = Cardinality(W)
    BY <2>2 DEF Values
  <2>4. U \ {b} = W \ {b} /\ (b \in U <=> t[b].value # Nil) /\ (b \in W <=> v # Nil)
    BY <1>2, <2>2
  <2>5. IsFiniteSet(W)
    BY KeyedFinite, FS_Subset
  <2> HIDE DEF U, W
  <2>6. \A X : IsFiniteSet(X) =>
          /\ Cardinality(X \ {b}) \in Nat
          /\ Cardinality(X) = Cardinality(X \ {b}) + (IF b \in X THEN 1 ELSE 0)
    <3>1. ASSUME NEW X, IsFiniteSet(X)
          PROVE  /\ Cardinality(X \ {b}) \in Nat
                 /\ Cardinality(X) = Cardinality(X \ {b}) + (IF b \in X THEN 1 ELSE 0)
      <4>1. IsFiniteSet(X \ {b})
        BY <3>1, FS_Subset
      <4>2. Cardinality(X \ {b}) \in Nat
        BY <4>1, FS_CardinalityType
      <4>3. CASE b \in X
        <5>1. X = (X \ {b}) \cup {b} /\ b \notin X \ {b}
          BY <4>3
        <5>2. Cardinality((X \ {b}) \cup {b}) = Cardinality(X \ {b}) + 1
          BY <4>1, <5>1, FS_AddElement
        <5> QED
          BY <4>2, <4>3, <5>1, <5>2
      <4>4. CASE b \notin X
        <5>1. X \ {b} = X
          BY <4>4
        <5> QED
          BY <4>2, <4>4, <5>1
      <4> QED
        BY <4>2, <4>3, <4>4
    <3> QED
      BY <3>1
  <2>7. /\ Cardinality(U) = Cardinality(U \ {b}) + (IF b \in U THEN 1 ELSE 0)
        /\ Cardinality(W) = Cardinality(U \ {b}) + (IF b \in W THEN 1 ELSE 0)
        /\ Cardinality(U \ {b}) \in Nat
    BY <1>3, <2>4, <2>5, <2>6
  <2>8. Values(T) = Values(t) + (IF v = Nil THEN 0 ELSE 1)
                              - (IF t[b].value = Nil THEN 0 ELSE 1)
    BY <1>3, <2>3, <2>4, <2>7
  <2> QED
    BY <1>1, <1>3, <2>8 DEF T
<1> QED
  BY <1>4, <1>5

LEMMA ValuesOfKeys ==
  ASSUME Hashes, NEW n, NEW t, Table(t, n), Reachable(t)
  PROVE  Values(t) = Cardinality({k \in Key : ValueOf(t, k) # Nil})
<1> DEFINE U == {i \in 0 .. n - 1 : t[i].value # Nil}
           K == {k \in Key : ValueOf(t, k) # Nil}
           name == [i \in U |-> t[i].key]
<1>1. /\ DOMAIN t = 0 .. n - 1
      /\ \A i \in 0 .. n - 1 : t[i].value # Nil => t[i].key \in Key
  BY TableFacts
<1>2. \A i \in U : name[i] \in K
  <2>1. ASSUME NEW i \in 0 .. n - 1, t[i].value # Nil
        PROVE  t[i].key \in Key /\ ValueOf(t, t[i].key) # Nil
    <3>1. PICK k \in Key : t[i].key = k
      BY <1>1, <2>1
    <3>2. ValueOf(t, k) = t[i].value
      BY <3>1, ValueFacts
    <3> QED
      BY <2>1, <3>1, <3>2
  <2> QED
    BY <2>1
<1>3. \A i, j \in U : name[i] = name[j] => i = j
  <2>1. ASSUME NEW i \in 0 .. n - 1, NEW j \in 0 .. n - 1, t[i].value # Nil,
               t[i].key = t[j].key
        PROVE  i = j
    <3>1. PICK k \in Key : t[i].key = k
      BY <1>1, <2>1
    <3>2. t[j].key = k
      BY <2>1, <3>1
    <3>3. Bucket(t, k) = i
      BY <3>1, KeyFound
    <3>4. Bucket(t, k) = j
      BY <3>2, KeyFound
    <3> QED
      BY <3>3, <3>4
  <2> QED
    BY <2>1
<1>4. \A k \in K : \E i \in U : name[i] = k
  <2>1. ASSUME NEW k \in Key, ValueOf(t, k) # Nil
        PROVE  \E i \in 0 .. n - 1 : t[i].key = k /\ t[i].value # Nil
    <3>1. PICK i \in 0 .. n - 1 : t[i].key = k
      BY <2>1, ValueFacts
    <3> QED
      BY <2>1, <3>1, ValueFacts
  <2> QED
    BY <2>1
<1>5. name \in Bijection(U, K)
  <2> HIDE DEF U, K
  <2> QED
    BY <1>2, <1>3, <1>4, Fun_IsBij
<1>6. IsFiniteSet(U)
  BY KeyedFinite, FS_Subset
<1>7. Values(t) = Cardinality(U)
  BY <1>1 DEF Values
<1> HIDE DEF U, K, name
<1>8. Cardinality(U) = Cardinality(K)
  BY <1>5, <1>6, FS_Bijection, Fun_ExistsBij
<1> QED
  BY <1>7, <1>8 DEF K

-----------------------------------------------------------------------------
(* Hash_rehash fills the new table with one entry after another.           *)
Filling(t, m, f) ==
    IF m = 0 THEN Empty(2 * Size(t))
    ELSE IF t[m - 1].key = Nil THEN f[m - 1]
    ELSE Placed(f[m - 1], t[m - 1].key, t[m - 1].value)

LEMMA FilledExists ==
  ASSUME NEW t, NEW n \in Nat
  PROVE  \E f : f = [m \in 0 .. n |-> Filling(t, m, f)]
<1> DEFINE Exists(x) == \E f : f = [m \in 0 .. x |-> Filling(t, m, f)]
           Bad == {x \in Nat : ~ Exists(x)}
<1>1. SUFFICES ASSUME Bad # {} PROVE FALSE
  OBVIOUS
<1>2. PICK x \in Bad : \A y \in Bad : x <= y
  <2>1. Bad \in SUBSET Nat
    OBVIOUS
  <2> HIDE DEF Bad
  <2> QED
    BY <1>1, <2>1, LeastNumber
<1>3. \A f, g, m : (m # 0 => f[m - 1] = g[m - 1]) => Filling(t, m, f) = Filling(t, m, g)
  BY DEF Filling
<1>4. CASE x = 0
  <2> DEFINE f == [m \in 0 .. 0 |-> Empty(2 * Size(t))]
  <2>1. \A m \in 0 .. 0 : m = 0
    OBVIOUS
  <2>2. f = [m \in 0 .. 0 |-> Filling(t, m, f)]
    BY <2>1 DEF Filling
  <2>3. Exists(0)
    BY <2>2
  <2> QED
    BY <1>4, <2>3
<1>5. CASE x # 0
  <2>1. x \in Nat /\ x - 1 \in Nat /\ ~ (x <= x - 1)
    BY <1>5
  <2>2. Exists(x - 1)
    BY <1>2, <2>1
  <2>3. PICK g : g = [m \in 0 .. x - 1 |-> Filling(t, m, g)]
    BY <2>2
  <2> DEFINE f == [m \in 0 .. x |-> Filling(t, m, g)]
  <2>4. ASSUME NEW m \in 0 .. x
        PROVE  Filling(t, m, g) = Filling(t, m, f)
    <3>1. m # 0 => m - 1 \in 0 .. x - 1 /\ m - 1 \in 0 .. x
      BY <2>1
    <3>2. m # 0 => f[m - 1] = Filling(t, m - 1, g) /\ g[m - 1] = Filling(t, m - 1, g)
      BY <2>3, <3>1
    <3> HIDE DEF f
    <3> QED
      BY <1>3, <3>2
  <2>5. f = [m \in 0 .. x |-> Filling(t, m, f)]
    <3>1. \A h : (\A m \in 0 .. x : Filling(t, m, g) = Filling(t, m, h))
                    => f = [m \in 0 .. x |-> Filling(t, m, h)]
      OBVIOUS
    <3> HIDE DEF f
    <3> QED
      BY <2>4, <3>1
  <2>6. Exists(x)
    BY <2>5
  <2> QED
    BY <2>6
<1> QED
  BY <1>4, <1>5

LEMMA RehashedFills ==
  ASSUME NEW t, Size(t) \in Nat
  PROVE  \E f : f = [m \in 0 .. Size(t) |-> Filling(t, m, f)] /\ Rehashed(t) = f[Size(t)]
<1> DEFINE F == CHOOSE f : f = [m \in 0 .. Size(t) |-> Filling(t, m, f)]
<1>1. F = [m \in 0 .. Size(t) |-> Filling(t, m, F)]
  <2>1. \E f : f = [m \in 0 .. Size(t) |-> Filling(t, m, f)]
    BY FilledExists, ZenonT(60)
  <2> QED
    BY <2>1
<1>2. Rehashed(t) = F[Size(t)]
  BY DEF Rehashed, Filling
<1> QED
  BY <1>1, <1>2

(* After m entries, the new table T has found a place for them.            *)
Copied(t, n, T, m) ==
    /\ Table(T, 2 * n) /\ Reachable(T) /\ Cardinality(Keyed(T)) <= m
    /\ \A k \in Key :
        /\ \A i \in 0 .. n - 1 : i < m /\ t[i].key = k => ValueOf(T, k) = t[i].value
        /\ (\A i \in 0 .. n - 1 : i < m => t[i].key # k) => ValueOf(T, k) = Nil

LEMMA CopiedFirst ==
  ASSUME Hashes, NEW n, NEW t, Table(t, n)
  PROVE  Copied(t, n, Empty(2 * Size(t)), 0)
<1>1. Size(t) = n /\ 2 * n \in Nat \ {0} /\ n \in Nat \ {0}
  BY TableFacts
<1>2. PICK w \in Nat \ {0} : w = 2 * n
  BY <1>1
<1>3. /\ Table(Empty(w), w) /\ Reachable(Empty(w)) /\ Keyed(Empty(w)) = {}
      /\ \A k \in Key : ValueOf(Empty(w), k) = Nil
  BY EmptyTable
<1>4. Cardinality(Keyed(Empty(w))) <= 0
  BY <1>3, FS_EmptySet
<1>5. \A i \in 0 .. n - 1 : ~ (i < 0)
  OBVIOUS
<1> QED
  BY <1>1, <1>2, <1>3, <1>4, <1>5 DEF Copied

LEMMA CopiedNext ==
  ASSUME Hashes, NEW n, NEW t, Table(t, n), Reachable(t),
         NEW m \in 1 .. n, NEW f, Copied(t, n, f[m - 1], m - 1)
  PROVE  Copied(t, n, Filling(t, m, f), m)
<1>1. PICK T : T = f[m - 1]
  OBVIOUS
<1>2. PICK e : e = t[m - 1]
  OBVIOUS
<1>3. /\ n \in Nat \ {0} /\ m \in Nat /\ m # 0 /\ m - 1 \in 0 .. n - 1
      /\ \A i \in 0 .. n - 1 : i < m <=> i < m - 1 \/ i = m - 1
  BY TableFacts
<1>4. e.key \in Key \cup {Nil} /\ e.value \in Object \cup {Nil}
  BY <1>2, <1>3, TableFacts
<1>5. /\ Table(T, 2 * n) /\ Reachable(T) /\ Cardinality(Keyed(T)) <= m - 1
      /\ \A k \in Key :
          /\ \A i \in 0 .. n - 1 : i < m - 1 /\ t[i].key = k => ValueOf(T, k) = t[i].value
          /\ (\A i \in 0 .. n - 1 : i < m - 1 => t[i].key # k) => ValueOf(T, k) = Nil
  BY <1>1 DEF Copied
<1>6. /\ IsFiniteSet(Keyed(T)) /\ Cardinality(Keyed(T)) \in Nat
      /\ Cardinality(Keyed(T)) < 2 * n /\ Cardinality(Keyed(T)) <= m
  <2>1. IsFiniteSet(Keyed(T)) /\ Cardinality(Keyed(T)) \in Nat
    BY <1>5, KeyedFinite
  <2> QED
    BY <1>3, <1>5, <2>1
<1>7. CASE e.key = Nil
  <2>1. Filling(t, m, f) = T
    BY <1>1, <1>2, <1>3, <1>7 DEF Filling
  <2>2. ASSUME NEW k \in Key
        PROVE  /\ \A i \in 0 .. n - 1 : i < m /\ t[i].key = k => ValueOf(T, k) = t[i].value
               /\ (\A i \in 0 .. n - 1 : i < m => t[i].key # k) => ValueOf(T, k) = Nil
    <3>1. t[m - 1].key # k
      BY <1>2, <1>7
    <3>2. \A i \in 0 .. n - 1 : i < m /\ t[i].key = k => i < m - 1
      BY <1>3, <3>1
    <3>3. \A i \in 0 .. n - 1 : i < m - 1 => i < m
      BY <1>3
    <3> QED
      BY <1>5, <3>2, <3>3
  <2> QED
    BY <1>5, <1>6, <2>1, <2>2 DEF Copied
<1>8. CASE e.key # Nil
  <2>1. PICK x \in Key : x = e.key
    BY <1>4, <1>8
  <2>2. PICK v \in Object \cup {Nil} : v = e.value
    BY <1>4
  <2> DEFINE P == Placed(T, x, v)
  <2>3. Filling(t, m, f) = P
    BY <1>1, <1>2, <1>3, <1>8, <2>1, <2>2 DEF Filling
  <2>4. Stops(T, x) # {}
    BY <1>5, <1>6, Room
  <2>5. /\ Table(P, 2 * n) /\ Reachable(P) /\ Keyed(P) \subseteq Keyed(T) \cup {Bucket(T, x)}
        /\ \A k \in Key : ValueOf(P, k) = IF k = x THEN v ELSE ValueOf(T, k)
    BY <1>5, <2>4, PlacedTable
  <2> HIDE DEF P
  <2>6. Cardinality(Keyed(P)) <= m
    <3>1. PICK W : W = Keyed(T) \cup {Bucket(T, x)}
      OBVIOUS
    <3>2. IsFiniteSet(W) /\ Cardinality(W) <= Cardinality(Keyed(T)) + 1
      <4>1. IsFiniteSet(Keyed(T) \cup {Bucket(T, x)})
        BY <1>6, FS_AddElement
      <4>2. Cardinality(Keyed(T) \cup {Bucket(T, x)})
              = IF Bucket(T, x) \in Keyed(T) THEN Cardinality(Keyed(T))
                ELSE Cardinality(Keyed(T)) + 1
        BY <1>6, FS_AddElement
      <4> QED
        BY <1>6, <3>1, <4>1, <4>2
    <3>3. Cardinality(Keyed(P)) <= Cardinality(W) /\ Cardinality(W) \in Nat
      BY <2>5, <3>1, <3>2, FS_Subset, FS_CardinalityType
    <3>4. Cardinality(Keyed(P)) \in Nat
      BY <2>5, KeyedFinite
    <3> QED
      BY <1>3, <1>5, <1>6, <3>2, <3>3, <3>4
  <2>7. ASSUME NEW k \in Key
        PROVE  /\ \A i \in 0 .. n - 1 : i < m /\ t[i].key = k => ValueOf(P, k) = t[i].value
               /\ (\A i \in 0 .. n - 1 : i < m => t[i].key # k) => ValueOf(P, k) = Nil
    <3>1. CASE k = x
      <4>1. t[m - 1].key = k /\ t[m - 1].value = v /\ m - 1 < m
        BY <1>2, <1>3, <2>1, <2>2, <3>1
      <4>2. ASSUME NEW i \in 0 .. n - 1, t[i].key = k PROVE i = m - 1
        <5>1. Bucket(t, k) = i
          BY <4>2, KeyFound
        <5>2. Bucket(t, k) = m - 1
          BY <1>3, <4>1, KeyFound
        <5> QED
          BY <5>1, <5>2
      <4>3. ValueOf(P, k) = v
        BY <2>5, <3>1
      <4> QED
        BY <1>3, <4>1, <4>2, <4>3
    <3>2. CASE k # x
      <4>1. ValueOf(P, k) = ValueOf(T, k)
        BY <2>5, <3>2
      <4>2. t[m - 1].key # k
        BY <1>2, <2>1, <3>2
      <4>3. \A i \in 0 .. n - 1 : i < m /\ t[i].key = k => i < m - 1
        BY <1>3, <4>2
      <4>4. \A i \in 0 .. n - 1 : i < m - 1 => i < m
        BY <1>3
      <4> QED
        BY <1>5, <4>1, <4>3, <4>4
    <3> QED
      BY <3>1, <3>2
  <2> QED
    BY <2>3, <2>5, <2>6, <2>7 DEF Copied
<1> QED
  BY <1>7, <1>8

(* A rehashed table maps every key as before.                              *)
LEMMA RehashedTable ==
  ASSUME Hashes, NEW n, NEW t, Table(t, n), Reachable(t)
  PROVE  /\ Table(Rehashed(t), 2 * n) /\ Reachable(Rehashed(t))
         /\ \A k \in Key : ValueOf(Rehashed(t), k) = ValueOf(t, k)
         /\ Values(Rehashed(t)) = Values(t)
<1>1. Size(t) = n /\ n \in Nat \ {0}
  BY TableFacts
<1>2. PICK F : F = [m \in 0 .. n |-> Filling(t, m, F)] /\ Rehashed(t) = F[n]
  BY <1>1, RehashedFills
<1>3. \A m \in 0 .. n : F[m] = Filling(t, m, F)
  BY <1>2
<1> DEFINE Bad == {m \in 0 .. n : ~ Copied(t, n, F[m], m)}
<1>4. Bad = {}
  <2>1. SUFFICES ASSUME Bad # {} PROVE FALSE
    OBVIOUS
  <2>2. PICK m \in Bad : \A y \in Bad : m <= y
    <3>1. Bad \in SUBSET Nat
      BY <1>1
    <3> HIDE DEF Bad
    <3> QED
      BY <2>1, <3>1, LeastNumber
  <2>3. m \in 0 .. n /\ ~ Copied(t, n, Filling(t, m, F), m)
    BY <1>3, <2>2
  <2>4. CASE m = 0
    <3>1. Filling(t, 0, F) = Empty(2 * Size(t))
      BY DEF Filling
    <3> QED
      BY <2>3, <2>4, <3>1, CopiedFirst
  <2>5. CASE m # 0
    <3>1. m \in 1 .. n /\ m - 1 \in 0 .. n /\ ~ (m <= m - 1)
      BY <1>1, <2>3, <2>5
    <3>2. Copied(t, n, F[m - 1], m - 1)
      BY <2>2, <3>1
    <3> QED
      BY <2>3, <3>1, <3>2, CopiedNext
  <2> QED
    BY <2>4, <2>5
<1>5. Copied(t, n, Rehashed(t), n)
  BY <1>1, <1>2, <1>4
<1>6. /\ Table(Rehashed(t), 2 * n) /\ Reachable(Rehashed(t))
      /\ \A k \in Key :
          /\ \A i \in 0 .. n - 1 : t[i].key = k => ValueOf(Rehashed(t), k) = t[i].value
          /\ (\A i \in 0 .. n - 1 : t[i].key # k) => ValueOf(Rehashed(t), k) = Nil
  <2>1. \A i \in 0 .. n - 1 : i < n
    BY <1>1
  <2> QED
    BY <1>5, <2>1 DEF Copied
<1>7. ASSUME NEW k \in Key PROVE ValueOf(Rehashed(t), k) = ValueOf(t, k)
  <2>1. CASE \E i \in 0 .. n - 1 : t[i].key = k
    BY <1>6, <2>1, ValueFacts
  <2>2. CASE \A i \in 0 .. n - 1 : t[i].key # k
    BY <1>6, <2>2, ValueFacts
  <2> QED
    BY <2>1, <2>2
<1>8. Values(Rehashed(t)) = Values(t)
  <2>1. {k \in Key : ValueOf(Rehashed(t), k) # Nil} = {k \in Key : ValueOf(t, k) # Nil}
    BY <1>7
  <2>2. Values(Rehashed(t)) = Cardinality({k \in Key : ValueOf(Rehashed(t), k) # Nil})
    BY <1>6, ValuesOfKeys
  <2>3. Values(t) = Cardinality({k \in Key : ValueOf(t, k) # Nil})
    BY ValuesOfKeys
  <2> QED
    BY <2>1, <2>2, <2>3
<1> QED
  BY <1>6, <1>7, <1>8

-----------------------------------------------------------------------------
(* The inductive invariant, and the table that a step leaves behind.       *)
HashInv ==
    /\ Hashes /\ Table(buckets, Size(buckets)) /\ Reachable(buckets)
    /\ entries = Values(buckets)
    /\ found \in [key : Key, value : Object \cup {Nil}] \cup {Nil}

LEMMA ContentsValue == Contents = [k \in Key |-> ValueOf(buckets, k)]
BY DEF Contents, ValueOf

LEMMA NewTable ==
  ASSUME HashInv, UNCHANGED <<hashOf, found>>,
         NEW n, NEW T, Table(T, n), Reachable(T), buckets' = T, entries' = Values(T)
  PROVE  HashInv' /\ Contents' = [k \in Key |-> ValueOf(T, k)]
<1>1. Size(T) = n
  BY TableFacts
<1>2. Reachable(buckets)'
  BY DEF Reachable, Bucket, Stops, Probe
<1>3. Contents' = [k \in Key |-> ValueOf(T, k)]
  BY DEF Contents, ValueOf
<1> QED
  BY <1>1, <1>2, <1>3 DEF HashInv, Hashes, Table, Values, Size

LEMMA InitTable ==
  ASSUME HashInit
  PROVE  HashInv /\ Maps!MapInit
<1>1. Hashes
  BY DEF HashInit, Hashes
<1>2. PICK n \in Nat \ {0} : n = DefaultCapacity
  OBVIOUS
<1>3. buckets = Empty(n) /\ entries = 0 /\ found = Nil
  BY <1>2 DEF HashInit
<1>4. /\ Table(Empty(n), n) /\ Reachable(Empty(n)) /\ Values(Empty(n)) = 0
      /\ \A k \in Key : ValueOf(Empty(n), k) = Nil
  BY <1>1, EmptyTable
<1>5. Size(Empty(n)) = n
  BY <1>4, TableFacts
<1>6. Contents = [k \in Key |-> Nil]
  BY <1>3, <1>4, ContentsValue
<1> QED
  BY <1>1, <1>3, <1>4, <1>5, <1>6 DEF HashInv, Maps!MapInit

LEMMA OverwriteStep ==
  ASSUME HashInv, NEW k \in Key, NEW v \in Object \cup {Nil}, Overwrite(k, v)
  PROVE  HashInv' /\ Maps!Put(k, v)
<1>1. PICK n : n = Size(buckets)
  OBVIOUS
<1>2. PICK T : T = Placed(buckets, k, v)
  OBVIOUS
<1>3. /\ Hashes /\ Table(buckets, n) /\ Reachable(buckets) /\ entries = Values(buckets)
      /\ Stops(buckets, k) # {} /\ buckets' = T /\ UNCHANGED <<hashOf, found>>
      /\ entries' = entries + (IF buckets[Bucket(buckets, k)].value = Nil THEN 1 ELSE 0)
                            - (IF v = Nil THEN 1 ELSE 0)
  BY <1>1, <1>2 DEF HashInv, Overwrite
<1>4. /\ Table(T, n) /\ Reachable(T)
      /\ \A x \in Key : ValueOf(T, x) = IF x = k THEN v ELSE ValueOf(buckets, x)
  BY <1>2, <1>3, PlacedTable
<1>5. entries' = Values(T)
  <2>1. /\ Values(buckets) \in Nat
        /\ Values(T) = Values(buckets) + (IF v = Nil THEN 0 ELSE 1)
                          - (IF buckets[Bucket(buckets, k)].value = Nil THEN 0 ELSE 1)
    BY <1>2, <1>3, ValuesPlaced
  <2> QED
    BY <1>3, <2>1
<1>6. HashInv' /\ Contents' = [x \in Key |-> ValueOf(T, x)]
  BY <1>3, <1>4, <1>5, NewTable
<1>7. Contents' = [Contents EXCEPT ![k] = v]
  BY <1>4, <1>6, ContentsValue
<1> QED
  BY <1>3, <1>6, <1>7 DEF Maps!Put

LEMMA InsertNewStep ==
  ASSUME HashInv, NEW k \in Key, NEW v \in Object \cup {Nil}, InsertNew(k, v)
  PROVE  HashInv' /\ Maps!Put(k, v)
<1>1. PICK n : n = Size(buckets)
  OBVIOUS
<1>2. PICK t : t = Placed(buckets, k, v)
  OBVIOUS
<1>3. PICK T : T = IF Overloaded(t, entries + 1) THEN Rehashed(t) ELSE t
  OBVIOUS
<1>4. /\ Hashes /\ Table(buckets, n) /\ Reachable(buckets) /\ entries = Values(buckets)
      /\ Stops(buckets, k) # {} /\ buckets[Bucket(buckets, k)].key = Nil /\ v # Nil
      /\ UNCHANGED <<hashOf, found>> /\ buckets' = T
      /\ entries' = IF Overloaded(t, entries + 1) THEN Values(t) ELSE entries + 1
  BY <1>1, <1>2, <1>3 DEF HashInv, InsertNew
<1>5. /\ Table(t, n) /\ Reachable(t)
      /\ \A x \in Key : ValueOf(t, x) = IF x = k THEN v ELSE ValueOf(buckets, x)
  BY <1>2, <1>4, PlacedTable
<1>6. Values(t) = entries + 1
  <2>1. Bucket(buckets, k) \in 0 .. n - 1
    BY <1>4, BucketFacts
  <2>2. buckets[Bucket(buckets, k)].value = Nil
    BY <1>4, <2>1, TableFacts
  <2>3. Values(buckets) \in Nat /\ Values(t) = Values(buckets) + 1 - 0
    BY <1>2, <1>4, <2>2, ValuesPlaced
  <2> QED
    BY <1>4, <2>3
<1>7. \E m : /\ Table(T, m) /\ Reachable(T) /\ entries' = Values(T)
             /\ \A x \in Key : ValueOf(T, x) = ValueOf(t, x)
  <2>1. CASE Overloaded(t, entries + 1)
    <3>1. T = Rehashed(t) /\ entries' = Values(t)
      BY <1>3, <1>4, <2>1
    <3> QED
      BY <1>4, <1>5, <3>1, RehashedTable
  <2>2. CASE ~ Overloaded(t, entries + 1)
    BY <1>3, <1>4, <1>5, <1>6, <2>2
  <2> QED
    BY <2>1, <2>2
<1>8. HashInv' /\ Contents' = [x \in Key |-> ValueOf(T, x)]
  BY <1>4, <1>7, NewTable
<1>9. Contents' = [Contents EXCEPT ![k] = v]
  BY <1>5, <1>7, <1>8, ContentsValue
<1> QED
  BY <1>4, <1>8, <1>9 DEF Maps!Put

LEMMA ClearStep ==
  ASSUME HashInv, HashClear
  PROVE  HashInv' /\ Maps!Clear
<1>1. PICK n : n = Size(buckets)
  OBVIOUS
<1>2. /\ Hashes /\ Table(buckets, n) /\ buckets' = Empty(n) /\ entries' = 0
      /\ UNCHANGED <<hashOf, found>>
  BY <1>1 DEF HashInv, HashClear
<1>3. n \in Nat \ {0}
  BY <1>2, TableFacts
<1>4. /\ Table(Empty(n), n) /\ Reachable(Empty(n)) /\ Values(Empty(n)) = 0
      /\ \A k \in Key : ValueOf(Empty(n), k) = Nil
  BY <1>2, <1>3, EmptyTable
<1>5. HashInv' /\ Contents' = [x \in Key |-> ValueOf(Empty(n), x)]
  BY <1>2, <1>4, NewTable
<1> QED
  BY <1>2, <1>4, <1>5 DEF Maps!Clear

LEMMA IndexStep ==
  ASSUME HashInv, NEW k \in Key, Index(k)
  PROVE  HashInv' /\ Maps!Get(k)
<1>1. PICK n : n = Size(buckets)
  OBVIOUS
<1>2. /\ Hashes /\ Table(buckets, n) /\ Reachable(buckets) /\ Stops(buckets, k) # {}
      /\ found' = [key |-> k, value |-> buckets[Bucket(buckets, k)].value]
      /\ UNCHANGED <<hashOf, buckets, entries>>
  BY <1>1 DEF HashInv, Index
<1>3. /\ ValueOf(buckets, k) = buckets[Bucket(buckets, k)].value
      /\ ValueOf(buckets, k) \in Object \cup {Nil}
  BY <1>2, ValueFacts
<1>4. found' = [key |-> k, value |-> Contents[k]]
  BY <1>2, <1>3, ContentsValue
<1>5. Contents' = Contents
  BY <1>2 DEF Contents
<1>6. found' \in [key : Key, value : Object \cup {Nil}]
  BY <1>2, <1>3
<1>7. HashInv'
  <2>1. Reachable(buckets)'
    BY <1>2 DEF Reachable, Bucket, Stops, Probe
  <2>2. /\ Hashes' /\ Table(buckets, Size(buckets))' /\ entries' = Values(buckets)'
    BY <1>2 DEF HashInv, Hashes, Table, Size, Values
  <2> QED
    BY <1>6, <2>1, <2>2 DEF HashInv
<1> QED
  BY <1>4, <1>5, <1>7 DEF Maps!Get

LEMMA HashStep ==
  ASSUME HashInv, [HashNext]_hashVars
  PROVE  HashInv' /\ [Maps!MapNext]_<<Contents, found>>
<1> USE DEF Maps!MapNext
<1>1. ASSUME NEW k \in Key, Index(k) PROVE HashInv' /\ Maps!MapNext
  BY <1>1, IndexStep
<1>2. ASSUME NEW k \in Key, NEW v \in Object \cup {Nil}, Overwrite(k, v) \/ InsertNew(k, v)
      PROVE  HashInv' /\ Maps!MapNext
  BY <1>2, OverwriteStep, InsertNewStep
<1>3. CASE HashClear
  BY <1>3, ClearStep
<1>4. ASSUME UNCHANGED <<hashOf, buckets, entries, found>>
      PROVE  HashInv' /\ UNCHANGED <<Contents, found>>
  BY <1>4 DEF HashInv, Hashes, Table, Size, Values, Reachable, Bucket, Stops, Probe, Contents
<1>5. ASSUME NEW k \in Key, Loop(k) PROVE UNCHANGED <<hashOf, buckets, entries, found>>
  BY <1>5 DEF Loop
<1>6. UNCHANGED hashVars => UNCHANGED <<hashOf, buckets, entries, found>>
  BY DEF hashVars
<1> QED
  BY <1>1, <1>2, <1>3, <1>4, <1>5, <1>6 DEF HashNext

(* The table stays a hash table: each key in it has one bucket, where the  *)
(* search for it ends, and count is the number of keys that have a value.  *)
(* This is so for any keys and hash?, after any history of insertions,     *)
(* removals and rehashings, and also in a table that is full.              *)
THEOREM TableSoundHolds == HashSpec => []TableSound
<1>1. HashInit => HashInv
  BY InitTable
<1>2. HashInv /\ [HashNext]_hashVars => HashInv'
  BY HashStep
<1>3. HashInv => TableSound
  <2>1. ASSUME HashInv PROVE HashTypeOK
    <3>1. DOMAIN buckets = 0 .. Size(buckets) - 1
      BY <2>1, TableFacts DEF HashInv
    <3> QED
      BY <2>1, <3>1 DEF HashInv, Table, Entry, HashTypeOK
  <2>2. ASSUME HashInv PROVE KeysReachable /\ CountExact
    BY <2>2 DEF HashInv, Reachable, KeysReachable, CountExact
  <2> QED
    BY <2>1, <2>2 DEF TableSound
<1> QED
  BY <1>1, <1>2, <1>3, PTL DEF HashSpec

(* Hash.c implements the abstract map: a lookup returns what was last      *)
(* inserted for its key, wherever rehashing has put it.                    *)
THEOREM HashIsMap == HashSpec => IsMap
<1>1. HashInit => HashInv /\ Maps!MapInit
  BY InitTable
<1>2. HashInv /\ [HashNext]_hashVars => HashInv' /\ [Maps!MapNext]_<<Contents, found>>
  BY HashStep
<1> QED
  BY <1>1, <1>2, PTL DEF HashSpec, IsMap, Maps!MapSpec

-----------------------------------------------------------------------------
(* A table from which nothing was removed has no key without a value, so   *)
(* count is also the number of buckets taken, and the load factor leaves   *)
(* one free.                                                               *)
Full(t) == \A i \in DOMAIN t : t[i].key # Nil => t[i].value # Nil

Spare == Full(buckets) /\ Values(buckets) < Size(buckets) /\ ~endless

LEMMA FullPlaced ==
  ASSUME NEW t, NEW k, NEW v, Full(t), v # Nil
  PROVE  Full(Placed(t, k, v))
<1>1. PICK b : b = Bucket(t, k)
  OBVIOUS
<1>2. Placed(t, k, v) = [t EXCEPT ![b] = [key |-> k, value |-> v]]
  BY <1>1 DEF Placed
<1> QED
  BY <1>2 DEF Full

LEMMA FullRehashed ==
  ASSUME NEW n, NEW t, Table(t, n), Full(t)
  PROVE  Full(Rehashed(t))
<1>1. Size(t) = n /\ n \in Nat \ {0} /\ DOMAIN t = 0 .. n - 1
  BY TableFacts
<1>2. PICK F : F = [m \in 0 .. n |-> Filling(t, m, F)] /\ Rehashed(t) = F[n]
  BY <1>1, RehashedFills
<1> DEFINE Bad == {m \in 0 .. n : ~ Full(F[m])}
<1>3. Bad = {}
  <2>1. SUFFICES ASSUME Bad # {} PROVE FALSE
    OBVIOUS
  <2>2. PICK m \in Bad : \A y \in Bad : m <= y
    <3>1. Bad \in SUBSET Nat
      BY <1>1
    <3> HIDE DEF Bad
    <3> QED
      BY <2>1, <3>1, LeastNumber
  <2>3. m \in 0 .. n /\ ~ Full(Filling(t, m, F))
    BY <1>2, <2>2
  <2>4. CASE m = 0
    <3>1. Filling(t, m, F) = Empty(2 * Size(t))
      BY <2>4 DEF Filling
    <3>2. Full(Empty(2 * Size(t)))
      BY DEF Full, Empty
    <3> QED
      BY <2>3, <3>1, <3>2
  <2>5. CASE m # 0
    <3>1. m - 1 \in 0 .. n /\ m - 1 \in 0 .. n - 1 /\ ~ (m <= m - 1)
      BY <1>1, <2>3, <2>5
    <3>2. Full(F[m - 1])
      BY <2>2, <3>1
    <3>3. t[m - 1].key # Nil => t[m - 1].value # Nil
      BY <1>1, <3>1 DEF Full
    <3>4. Full(Filling(t, m, F))
      BY <2>5, <3>2, <3>3, FullPlaced DEF Filling
    <3> QED
      BY <2>3, <3>4
  <2> QED
    BY <2>4, <2>5
<1>4. Full(F[n])
  BY <1>1, <1>3
<1> QED
  BY <1>2, <1>4

LEMMA SpareFinds ==
  ASSUME HashInv, Spare, NEW k \in Key
  PROVE  Stops(buckets, k) # {}
<1>1. PICK n : n = Size(buckets)
  OBVIOUS
<1>2. Hashes /\ Table(buckets, n)
  BY <1>1 DEF HashInv
<1>3. Keyed(buckets) = {i \in DOMAIN buckets : buckets[i].value # Nil}
  BY <1>2, TableFacts DEF Keyed, Spare, Full
<1>4. Cardinality(Keyed(buckets)) < n
  BY <1>1, <1>3 DEF Spare, Values
<1> QED
  BY <1>2, <1>4, Room

LEMMA SpareStep ==
  ASSUME HashInv, Spare, [HashNext]_hashVars, \A k \in Key : ~ Overwrite(k, Nil)
  PROVE  Spare'
<1>1. PICK n : n = Size(buckets)
  OBVIOUS
<1>2. /\ Hashes /\ Table(buckets, n) /\ Reachable(buckets) /\ entries = Values(buckets)
      /\ Full(buckets) /\ Values(buckets) < n /\ ~endless
  BY <1>1 DEF HashInv, Spare
<1>3. n \in Nat \ {0}
  BY <1>2, TableFacts
<1>4. ASSUME NEW k \in Key, NEW v \in Object, Overwrite(k, v)
      PROVE  Spare'
  <2>1. PICK T : T = Placed(buckets, k, v)
    OBVIOUS
  <2>2. PICK b : b = Bucket(buckets, k)
    OBVIOUS
  <2>3. /\ Stops(buckets, k) # {} /\ buckets[b].key = k /\ v # Nil
        /\ buckets' = T /\ endless' = endless
    BY <1>4, <2>1, <2>2 DEF Overwrite
  <2>4. b \in 0 .. n - 1 /\ DOMAIN buckets = 0 .. n - 1
    BY <1>2, <2>2, <2>3, BucketFacts, TableFacts
  <2>5. buckets[b].value # Nil
    BY <1>2, <2>3, <2>4 DEF Full
  <2>6. Values(buckets) \in Nat /\ Values(T) = Values(buckets) + 1 - 1
    BY <1>2, <2>1, <2>2, <2>3, <2>5, ValuesPlaced
  <2>7. Table(T, n)
    BY <1>2, <2>1, <2>3, PlacedTable
  <2>8. Size(T) = n
    BY <2>7, TableFacts
  <2>9. Full(T)
    BY <1>2, <2>1, <2>3, FullPlaced
  <2>10. Values(T) < Size(T)
    BY <1>2, <2>6, <2>8
  <2> QED
    BY <1>2, <2>3, <2>9, <2>10 DEF Spare, Full, Values, Size
<1>5. ASSUME NEW k \in Key, NEW v \in Object \cup {Nil}, InsertNew(k, v)
      PROVE  Spare'
  <2>1. PICK t : t = Placed(buckets, k, v)
    OBVIOUS
  <2>2. /\ Stops(buckets, k) # {} /\ buckets[Bucket(buckets, k)].key = Nil /\ v # Nil
        /\ buckets' = IF Overloaded(t, entries + 1) THEN Rehashed(t) ELSE t
        /\ endless' = endless
    BY <1>5, <2>1 DEF InsertNew
  <2>3. /\ Table(t, n) /\ Reachable(t) /\ Full(t) /\ Size(t) = n
    BY <1>2, <2>1, <2>2, PlacedTable, FullPlaced, TableFacts
  <2>4. Values(buckets) \in Nat /\ Values(t) = Values(buckets) + 1
    <3>1. Bucket(buckets, k) \in 0 .. n - 1
      BY <1>2, <2>2, BucketFacts
    <3>2. buckets[Bucket(buckets, k)].value = Nil
      BY <1>2, <2>2, <3>1, TableFacts
    <3>3. Values(buckets) \in Nat /\ Values(t) = Values(buckets) + 1 - 0
      BY <1>2, <2>1, <2>2, <3>2, ValuesPlaced
    <3> QED
      BY <3>3
  <2>5. CASE Overloaded(t, entries + 1)
    <3>1. PICK R : R = Rehashed(t)
      OBVIOUS
    <3>2. Table(R, 2 * n) /\ Values(R) = Values(t)
      BY <1>2, <2>3, <3>1, RehashedTable
    <3>3. Full(R)
      BY <2>3, <3>1, FullRehashed
    <3>4. Size(R) = 2 * n
      BY <3>2, TableFacts
    <3>5. Values(R) < Size(R)
      BY <1>2, <1>3, <2>4, <3>2, <3>4
    <3> QED
      BY <1>2, <2>2, <2>5, <3>1, <3>3, <3>5 DEF Spare, Full, Values, Size
  <2>6. CASE ~ Overloaded(t, entries + 1)
    <3>1. Values(t) < Size(t)
      <4>1. ~ (10 * (Values(buckets) + 1) >= 7 * n)
        BY <1>2, <2>3, <2>6 DEF Overloaded
      <4> QED
        BY <1>3, <2>3, <2>4, <4>1
    <3> QED
      BY <1>2, <2>2, <2>3, <2>6, <3>1 DEF Spare, Full, Values, Size
  <2> QED
    BY <2>5, <2>6
<1>6. CASE HashClear
  <2>1. buckets' = Empty(n) /\ endless' = endless
    BY <1>1, <1>6 DEF HashClear
  <2>2. /\ Full(Empty(n)) /\ Values(Empty(n)) = 0 /\ Size(Empty(n)) = n
    BY <1>2, <1>3, EmptyTable, TableFacts DEF Full, Empty
  <2>3. Values(Empty(n)) < Size(Empty(n))
    BY <1>3, <2>2
  <2> QED
    BY <1>2, <2>1, <2>2, <2>3 DEF Spare, Full, Values, Size
<1>7. ASSUME NEW k \in Key, Loop(k) PROVE FALSE
  BY <1>7, SpareFinds DEF Loop
<1>8. CASE UNCHANGED <<buckets, endless>>
  BY <1>8 DEF Spare, Full, Values, Size
<1> QED
  BY <1>4, <1>5, <1>6, <1>7, <1>8 DEF HashNext, Index, hashVars

(* Hash.jg:48-51 says that a lookup returns, with nil at worst.  That is   *)
(* so as long as no entry is removed (insert(k, nil)): the load factor     *)
(* then leaves a bucket free, at which every search ends.  Only removed    *)
(* keys, which count does not count, can fill the table.                   *)
THEOREM LookupsEndWithoutRemovals ==
  HashSpec /\ [][\A k \in Key : ~ Overwrite(k, Nil)]_hashVars => []LookupsEnd
<1>1. HashInit => HashInv /\ Spare
  <2>1. ASSUME HashInit PROVE HashInv /\ Spare
    <3>1. PICK n \in Nat \ {0} : n = DefaultCapacity
      OBVIOUS
    <3>2. HashInv
      BY <2>1, InitTable
    <3>3. buckets = Empty(n) /\ ~endless /\ Hashes
      BY <2>1, <3>1, <3>2 DEF HashInit, HashInv
    <3>4. Full(Empty(n)) /\ Values(Empty(n)) = 0 /\ Size(Empty(n)) = n
      BY <3>3, EmptyTable, TableFacts DEF Full, Empty
    <3>5. Values(buckets) < Size(buckets)
      BY <3>3, <3>4
    <3> QED
      BY <3>2, <3>3, <3>4, <3>5 DEF Spare
  <2> QED
    BY <2>1
<1>2. HashInv /\ Spare /\ [HashNext]_hashVars /\ [\A k \in Key : ~ Overwrite(k, Nil)]_hashVars
        => HashInv' /\ Spare'
  <2>1. ASSUME HashInv, Spare, UNCHANGED hashVars PROVE Spare'
    BY <2>1 DEF hashVars, Spare, Full, Values, Size
  <2> QED
    BY <2>1, HashStep, SpareStep
<1>3. Spare => LookupsEnd
  BY DEF Spare, LookupsEnd
<1> QED
  BY <1>1, <1>2, <1>3, PTL DEF HashSpec

-----------------------------------------------------------------------------
(***************************************************************************)
(* The circular buffer of Queue is a queue, for every hint and every size  *)
(* it grows to, however often its elements wrap around.                    *)
(***************************************************************************)
USE HintsAssumption, DefaultSizeAssumption

-----------------------------------------------------------------------------
(* back is the slot of the last element; in an empty queue, it is front.   *)
BackMatches ==
    IF count = 0 THEN back = front ELSE back = Slot(count)

QueueInv == QueueTypeOK /\ BackMatches

(* The slots of a queue with capacity n and front f.                       *)
LEMMA Slots ==
  ASSUME NEW n \in Nat \ {0}, NEW f \in -1 .. n - 1
  PROVE  /\ \A k \in 1 .. n : /\ (f + k) % n \in 0 .. n - 1
                              /\ (f + k) % n = IF f + k < n THEN f + k ELSE f + k - n
         /\ \A j, k \in 1 .. n : (f + j) % n = (f + k) % n => j = k
<1>1. ASSUME NEW k \in 1 .. n
      PROVE  /\ (f + k) % n \in 0 .. n - 1
             /\ (f + k) % n = IF f + k < n THEN f + k ELSE f + k - n
  <2>1. CASE f + k < n
    BY <2>1
  <2>2. CASE f + k >= n
    BY <2>2
  <2> QED
    BY <2>1, <2>2
<1>2. ASSUME NEW j \in 1 .. n, NEW k \in 1 .. n, (f + j) % n = (f + k) % n
      PROVE  j = k
  <2>1. /\ (f + j) % n = IF f + j < n THEN f + j ELSE f + j - n
        /\ (f + k) % n = IF f + k < n THEN f + k ELSE f + k - n
    BY <1>1
  <2>2. f + j < n <=> f + k < n
    BY <1>2, <2>1
  <2> QED
    BY <1>2, <2>1, <2>2
<1> QED
  BY <1>1, <1>2

(* The objects in these slots are a sequence.                              *)
LEMMA SlotsSeq ==
  ASSUME NEW n \in Nat \ {0}, NEW f \in -1 .. n - 1, NEW c \in 0 .. n,
         NEW S, NEW d \in [0 .. n - 1 -> S], NEW e,
         e = [k \in 1 .. c |-> d[(f + k) % n]]
  PROVE  /\ e \in Seq(S) /\ Len(e) = c
         /\ \A k \in 1 .. c : e[k] = d[(f + k) % n]
<1>1. \A k \in 1 .. c : (f + k) % n \in 0 .. n - 1
  BY Slots
<1>2. e \in [1 .. c -> S]
  BY <1>1
<1> QED
  BY <1>1, <1>2, SMTT(20)

LEMMA ElementsSeq ==
  ASSUME QueueTypeOK
  PROVE  /\ Elements \in Seq(Object \cup {Nil}) /\ Len(Elements) = count
         /\ \A k \in 1 .. count : Elements[k] = data[Slot(k)]
BY SlotsSeq DEF QueueTypeOK, Elements, Slot

-----------------------------------------------------------------------------
(* The steps, one by one, as the abstract queue sees them.                 *)
LEMMA InitStep ==
  ASSUME QueueInit
  PROVE  QueueInv /\ Elements = << >> /\ taken = Nil
<1>1. PICK hint \in Hints : /\ capacity = IF hint = 0 THEN DefaultSize ELSE hint
                            /\ back = hint - 1 /\ front = hint - 1
  BY DEF QueueInit
<1>2. hint \in Nat /\ DefaultSize \in Nat \ {0}
  BY <1>1
<1>3. QueueInv
  <2>1. capacity \in Nat \ {0} /\ hint - 1 \in -1 .. capacity - 1
    BY <1>1, <1>2
  <2>2. /\ count = 0 /\ taken = Nil /\ owned = [o \in Object |-> 0] /\ destroyed = FALSE
        /\ data = [i \in 0 .. capacity - 1 |-> Nil]
    BY DEF QueueInit
  <2>3. count \in 0 .. capacity /\ owned \in [Object -> Int]
    BY <2>1, <2>2
  <2> QED
    BY <1>1, <2>1, <2>2, <2>3 DEF QueueInv, QueueTypeOK, BackMatches
<1>4. Elements = << >>
  BY <1>3, ElementsSeq, EmptySeq DEF QueueInit, QueueInv
<1> QED
  BY <1>3, <1>4 DEF QueueInit

LEMMA EnqInPlaceStep ==
  ASSUME QueueInv, NEW o \in Object, Enq(o), EnqInPlace(o)
  PROVE  QueueInv' /\ Elements' = Append(Elements, o)
<1>1. /\ capacity \in Nat \ {0} /\ front \in -1 .. capacity - 1
      /\ count \in 0 .. capacity - 1
      /\ data \in [0 .. capacity - 1 -> Object \cup {Nil}]
  BY DEF QueueInv, QueueTypeOK, EnqInPlace
<1>2. back' = Slot(count + 1)
  <2>1. back' = (back + 1) % capacity
    BY DEF EnqInPlace
  <2>2. CASE count = 0
    BY <2>1, <2>2 DEF QueueInv, BackMatches, Slot
  <2>3. CASE count # 0
    <3>1. back = (front + count) % capacity /\ count \in 1 .. capacity
      BY <1>1, <2>3 DEF QueueInv, BackMatches, Slot
    <3>2. back = IF front + count < capacity THEN front + count ELSE front + count - capacity
      BY <1>1, <3>1, Slots
    <3>3. (front + (count + 1)) % capacity = (back + 1) % capacity
      <4>1. CASE front + count < capacity
        BY <1>1, <3>2, <4>1
      <4>2. CASE front + count >= capacity
        BY <1>1, <3>2, <4>2
      <4> QED
        BY <1>1, <4>1, <4>2
    <3> QED
      BY <2>1, <3>3 DEF Slot
  <2> QED
    BY <2>2, <2>3
<1>3. Slot(count + 1) \in 0 .. capacity - 1
  BY <1>1, Slots DEF Slot
<1>4. /\ capacity' = capacity /\ front' = front /\ count' = count + 1
      /\ data' = [data EXCEPT ![Slot(count + 1)] = o]
  BY <1>2 DEF EnqInPlace, Enq
<1>5. QueueTypeOK'
  <2>1. /\ capacity' \in Nat \ {0} /\ front' \in -1 .. capacity' - 1
        /\ back' \in -1 .. capacity' - 1 /\ count' \in 0 .. capacity'
        /\ data' \in [0 .. capacity' - 1 -> Object \cup {Nil}]
    BY <1>1, <1>2, <1>3, <1>4
  <2>2. /\ taken' \in Object \cup {Nil} /\ owned' \in [Object -> Int]
        /\ destroyed' \in BOOLEAN
    BY DEF QueueInv, QueueTypeOK, Enq
  <2> QED
    BY <2>1, <2>2 DEF QueueTypeOK
<1>6. BackMatches'
  BY <1>1, <1>2, <1>4 DEF BackMatches, Slot
<1>7. /\ Elements \in Seq(Object \cup {Nil}) /\ Len(Elements) = count
      /\ \A k \in 1 .. count : Elements[k] = data[Slot(k)]
  BY ElementsSeq DEF QueueInv
<1>8. /\ Elements' \in Seq(Object \cup {Nil}) /\ Len(Elements') = count + 1
      /\ \A k \in 1 .. count + 1 : Elements'[k] = data'[Slot(k)]
  <2>1. count + 1 \in 0 .. capacity /\ data' \in [0 .. capacity - 1 -> Object \cup {Nil}]
    BY <1>1, <1>3, <1>4
  <2>2. Elements' = [k \in 1 .. count + 1 |-> data'[(front + k) % capacity]]
    BY <1>4 DEF Elements, Slot
  <2> QED
    BY <1>1, <2>1, <2>2, SlotsSeq DEF Slot
<1>9. /\ Append(Elements, o) \in Seq(Object \cup {Nil})
      /\ Len(Append(Elements, o)) = count + 1
      /\ \A k \in 1 .. count : Append(Elements, o)[k] = Elements[k]
      /\ Append(Elements, o)[count + 1] = o
  BY <1>1, <1>7, AppendProperties
<1>10. ASSUME NEW k \in 1 .. count + 1
       PROVE  Elements'[k] = Append(Elements, o)[k]
  <2>1. Elements'[k] = data'[Slot(k)]
    BY <1>8
  <2>2. CASE k = count + 1
    BY <2>1, <2>2, <1>1, <1>3, <1>4, <1>9
  <2>3. CASE k \in 1 .. count
    <3>1. Slot(k) # Slot(count + 1) /\ Slot(k) \in 0 .. capacity - 1
      <4>1. count + 1 \in 1 .. capacity /\ k \in 1 .. capacity /\ k # count + 1
        BY <1>1, <2>3
      <4> QED
        BY <1>1, <4>1, Slots DEF Slot
    <3>2. data'[Slot(k)] = data[Slot(k)]
      BY <1>1, <1>4, <3>1
    <3> QED
      BY <2>1, <2>3, <3>2, <1>7, <1>9
  <2>4. k = count + 1 \/ k \in 1 .. count
    BY <1>1
  <2> QED
    BY <2>2, <2>3, <2>4
<1>11. Elements' = Append(Elements, o)
  BY <1>8, <1>9, <1>10, SeqEqual
<1> QED
  BY <1>5, <1>6, <1>11 DEF QueueInv

(* The buffer that is twice as large starts in slot 0.                     *)
LEMMA EnqGrowStep ==
  ASSUME QueueInv, NEW o \in Object, Enq(o), EnqGrow(o)
  PROVE  QueueInv' /\ Elements' = Append(Elements, o)
<1>1. /\ capacity \in Nat \ {0} /\ front \in -1 .. capacity - 1 /\ count = capacity
      /\ data \in [0 .. capacity - 1 -> Object \cup {Nil}]
  BY DEF QueueInv, QueueTypeOK, EnqGrow
<1>2. /\ capacity' = 2 * capacity /\ front' = 2 * capacity - 1 /\ back' = count
      /\ count' = count + 1 /\ data' = [Grown EXCEPT ![count] = o]
  BY DEF EnqGrow, Enq
<1>3. \A k \in 1 .. count + 1 : (2 * capacity - 1 + k) % (2 * capacity) = k - 1
  <2>1. ASSUME NEW k \in 1 .. count + 1
        PROVE  (2 * capacity - 1 + k) % (2 * capacity) = k - 1
    <3>1. /\ k - 1 \in 0 .. 2 * capacity - 1
          /\ 2 * capacity - 1 + k = (k - 1) + 2 * capacity
      BY <1>1
    <3> QED
      BY <1>1, <3>1
  <2> QED
    BY <2>1
<1>4. /\ Elements \in Seq(Object \cup {Nil}) /\ Len(Elements) = count
      /\ \A k \in 1 .. count : Elements[k] = data[Slot(k)]
  BY ElementsSeq DEF QueueInv
<1>5. /\ data' \in [0 .. 2 * capacity - 1 -> Object \cup {Nil}]
      /\ data'[count] = o
      /\ \A k \in 1 .. count : data'[k - 1] = data[Slot(k)]
  <2>1. \A k \in 1 .. count : Slot(k) \in 0 .. capacity - 1
    BY <1>1, Slots DEF Slot
  <2>2. \A i \in 0 .. 2 * capacity - 1 : i < count => i + 1 \in 1 .. count
    BY <1>1
  <2>3. Grown \in [0 .. 2 * capacity - 1 -> Object \cup {Nil}]
    BY <1>1, <2>1, <2>2 DEF Grown
  <2>4. \A k \in 1 .. count : Grown[k - 1] = data[Slot(k)]
    <3>1. ASSUME NEW k \in 1 .. count
          PROVE  Grown[k - 1] = data[Slot(k)]
      <4>1. /\ k - 1 \in 0 .. 2 * capacity - 1 /\ k - 1 < count /\ (k - 1) + 1 = k
            /\ k - 1 # count
        BY <1>1
      <4> QED
        BY <4>1 DEF Grown
    <3> QED
      BY <3>1
  <2>5. /\ count \in 0 .. 2 * capacity - 1
        /\ \A k \in 1 .. count : k - 1 \in 0 .. 2 * capacity - 1 /\ k - 1 # count
    BY <1>1
  <2> QED
    BY <1>2, <2>3, <2>4, <2>5
<1>6. /\ Elements' \in Seq(Object \cup {Nil}) /\ Len(Elements') = count + 1
      /\ \A k \in 1 .. count + 1 : Elements'[k] = data'[k - 1]
  <2>1. /\ 2 * capacity \in Nat \ {0} /\ 2 * capacity - 1 \in -1 .. 2 * capacity - 1
        /\ count + 1 \in 0 .. 2 * capacity
    BY <1>1
  <2>2. Elements' =
          [k \in 1 .. count + 1 |-> data'[(2 * capacity - 1 + k) % (2 * capacity)]]
    BY <1>2 DEF Elements, Slot
  <2>3. /\ Elements' \in Seq(Object \cup {Nil}) /\ Len(Elements') = count + 1
        /\ \A k \in 1 .. count + 1 :
              Elements'[k] = data'[(2 * capacity - 1 + k) % (2 * capacity)]
    <3>1. ASSUME NEW n \in Nat \ {0}, NEW f \in -1 .. n - 1, NEW c \in 0 .. n,
                 NEW d \in [0 .. n - 1 -> Object \cup {Nil}]
          PROVE  /\ [k \in 1 .. c |-> d[(f + k) % n]] \in Seq(Object \cup {Nil})
                 /\ Len([k \in 1 .. c |-> d[(f + k) % n]]) = c
      BY SlotsSeq
    <3>2. \A d \in [0 .. 2 * capacity - 1 -> Object \cup {Nil}] :
            LET e == [k \in 1 .. count + 1 |-> d[(2 * capacity - 1 + k) % (2 * capacity)]]
            IN  e \in Seq(Object \cup {Nil}) /\ Len(e) = count + 1
      <4>1. PICK n \in Nat \ {0} : n = 2 * capacity
        BY <2>1
      <4>2. PICK f \in -1 .. n - 1 : f = 2 * capacity - 1
        BY <2>1, <4>1
      <4>3. PICK c \in 0 .. n : c = count + 1
        BY <2>1, <4>1
      <4>4. \A d \in [0 .. n - 1 -> Object \cup {Nil}] :
              /\ [k \in 1 .. c |-> d[(f + k) % n]] \in Seq(Object \cup {Nil})
              /\ Len([k \in 1 .. c |-> d[(f + k) % n]]) = c
        BY <3>1
      <4> QED
        BY <4>1, <4>2, <4>3, <4>4, Zenon
    <3>3. Elements' \in Seq(Object \cup {Nil}) /\ Len(Elements') = count + 1
      BY <1>5, <2>2, <3>2
    <3> QED
      BY <2>2, <3>3
  <2> QED
    BY <1>3, <2>3
<1>7. QueueTypeOK'
  <2>1. /\ 2 * capacity \in Nat \ {0} /\ 2 * capacity - 1 \in -1 .. 2 * capacity - 1
        /\ count \in -1 .. 2 * capacity - 1 /\ count + 1 \in 0 .. 2 * capacity
    BY <1>1
  <2>2. /\ taken' \in Object \cup {Nil} /\ owned' \in [Object -> Int]
        /\ destroyed' \in BOOLEAN
    BY DEF QueueInv, QueueTypeOK, Enq
  <2> QED
    BY <1>2, <1>5, <2>1, <2>2 DEF QueueTypeOK
<1>8. BackMatches'
  <2>1. count + 1 \in 1 .. count + 1 /\ count + 1 # 0 /\ (count + 1) - 1 = count
    BY <1>1
  <2>2. (2 * capacity - 1 + (count + 1)) % (2 * capacity) = count
    BY <1>3, <2>1
  <2> QED
    BY <1>2, <2>1, <2>2 DEF BackMatches, Slot
<1>9. /\ Append(Elements, o) \in Seq(Object \cup {Nil})
      /\ Len(Append(Elements, o)) = count + 1
      /\ \A k \in 1 .. count : Append(Elements, o)[k] = Elements[k]
      /\ Append(Elements, o)[count + 1] = o
  BY <1>1, <1>4, AppendProperties
<1>10. ASSUME NEW k \in 1 .. count + 1
       PROVE  Elements'[k] = Append(Elements, o)[k]
  <2>1. CASE k = count + 1
    <3>1. (count + 1) - 1 = count
      BY <1>1
    <3> QED
      BY <2>1, <3>1, <1>5, <1>6, <1>9
  <2>2. CASE k \in 1 .. count
    BY <2>2, <1>4, <1>5, <1>6, <1>9
  <2>3. k = count + 1 \/ k \in 1 .. count
    BY <1>1
  <2> QED
    BY <2>1, <2>2, <2>3
<1>11. Elements' = Append(Elements, o)
  BY <1>6, <1>9, <1>10, SeqEqual
<1> QED
  BY <1>7, <1>8, <1>11 DEF QueueInv

LEMMA DeqStep ==
  ASSUME QueueInv, Deq
  PROVE  /\ QueueInv' /\ Elements # << >>
         /\ taken' = Head(Elements) /\ Elements' = Tail(Elements)
<1>1. /\ capacity \in Nat \ {0} /\ front \in -1 .. capacity - 1
      /\ back \in -1 .. capacity - 1
      /\ count \in 1 .. capacity
      /\ data \in [0 .. capacity - 1 -> Object \cup {Nil}]
  BY DEF QueueInv, QueueTypeOK, Deq
<1>2. /\ capacity' = capacity /\ front' = Slot(1) /\ back' = back
      /\ count' = count - 1 /\ taken' = data[Slot(1)]
      /\ data' = [data EXCEPT ![Slot(1)] = Nil]
  BY DEF Deq
<1>3. /\ Slot(1) \in 0 .. capacity - 1
      /\ \A k \in 1 .. count : Slot(k) \in 0 .. capacity - 1
      /\ \A k \in 1 .. count : k # 1 => Slot(k) # Slot(1)
  <2>1. 1 \in 1 .. capacity /\ \A k \in 1 .. count : k \in 1 .. capacity
    BY <1>1
  <2>2. /\ \A k \in 1 .. capacity : Slot(k) \in 0 .. capacity - 1
        /\ \A j, k \in 1 .. capacity : Slot(j) = Slot(k) => j = k
    BY <1>1, Slots DEF Slot
  <2> QED
    BY <2>1, <2>2
<1>4. \A k \in 1 .. count - 1 : (Slot(1) + k) % capacity = Slot(k + 1)
  <2>1. ASSUME NEW k \in 1 .. count - 1
        PROVE  (Slot(1) + k) % capacity = Slot(k + 1)
    <3>1. /\ Slot(1) = IF front + 1 < capacity THEN front + 1 ELSE front + 1 - capacity
          /\ Slot(k + 1) = IF front + (k + 1) < capacity THEN front + (k + 1)
                           ELSE front + (k + 1) - capacity
      <4>1. 1 \in 1 .. capacity /\ k + 1 \in 1 .. capacity
        BY <1>1
      <4> QED
        BY <1>1, <4>1, Slots DEF Slot
    <3>2. CASE front + 1 < capacity
      <4>1. Slot(1) + k = front + (k + 1)
        BY <1>1, <3>1, <3>2
      <4> QED
        BY <4>1 DEF Slot
    <3>3. CASE front + 1 >= capacity
      <4>1. Slot(1) = 0 /\ Slot(k + 1) = k
        BY <1>1, <3>1, <3>3
      <4> QED
        BY <1>1, <4>1
    <3> QED
      BY <1>1, <3>2, <3>3
  <2> QED
    BY <2>1
<1>5. /\ Elements \in Seq(Object \cup {Nil}) /\ Len(Elements) = count
      /\ \A k \in 1 .. count : Elements[k] = data[Slot(k)]
  BY ElementsSeq DEF QueueInv
<1>6. /\ Elements' \in Seq(Object \cup {Nil}) /\ Len(Elements') = count - 1
      /\ \A k \in 1 .. count - 1 : Elements'[k] = data'[Slot(k + 1)]
  <2>1. /\ Slot(1) \in -1 .. capacity - 1 /\ count - 1 \in 0 .. capacity
        /\ data' \in [0 .. capacity - 1 -> Object \cup {Nil}]
    BY <1>1, <1>2, <1>3
  <2>2. Elements' = [k \in 1 .. count - 1 |-> data'[(Slot(1) + k) % capacity]]
    BY <1>2 DEF Elements, Slot
  <2>3. /\ Elements' \in Seq(Object \cup {Nil}) /\ Len(Elements') = count - 1
        /\ \A k \in 1 .. count - 1 : Elements'[k] = data'[(Slot(1) + k) % capacity]
    BY <1>1, <2>1, <2>2, SlotsSeq
  <2> QED
    BY <1>4, <2>3
<1>7. QueueTypeOK'
  <2>1. /\ Slot(1) \in -1 .. capacity - 1 /\ count - 1 \in 0 .. capacity
        /\ data' \in [0 .. capacity - 1 -> Object \cup {Nil}]
        /\ data[Slot(1)] \in Object \cup {Nil}
    BY <1>1, <1>2, <1>3
  <2>2. owned' \in [Object -> Int] /\ destroyed' \in BOOLEAN
    <3>1. owned \in [Object -> Int] /\ destroyed' \in BOOLEAN
      BY DEF QueueInv, QueueTypeOK, Deq
    <3>2. PICK x : owned' = [owned EXCEPT ![x] = @ - 1]
      BY DEF Deq
    <3>3. CASE x \in Object
      BY <3>1, <3>2, <3>3
    <3>4. CASE x \notin Object
      BY <3>1, <3>2, <3>4
    <3> QED
      BY <3>1, <3>3, <3>4
  <2> QED
    BY <1>1, <1>2, <2>1, <2>2 DEF QueueTypeOK
<1>8. BackMatches'
  <2>1. back = Slot(count)
    BY <1>1 DEF QueueInv, BackMatches
  <2>2. CASE count = 1
    <3>1. count - 1 = 0
      BY <2>2
    <3> QED
      BY <1>2, <2>1, <2>2, <3>1 DEF BackMatches
  <2>3. CASE count # 1
    <3>1. count - 1 # 0 /\ count - 1 \in 1 .. count - 1 /\ (count - 1) + 1 = count
      BY <1>1, <2>3
    <3>2. (Slot(1) + (count - 1)) % capacity = back
      BY <1>4, <2>1, <3>1
    <3> QED
      BY <1>2, <3>1, <3>2 DEF BackMatches, Slot
  <2> QED
    BY <2>2, <2>3
<1>9. Elements # << >>
  BY <1>1, <1>5, EmptySeq
<1>10. /\ Tail(Elements) \in Seq(Object \cup {Nil}) /\ Len(Tail(Elements)) = count - 1
       /\ \A k \in 1 .. count - 1 : Tail(Elements)[k] = Elements[k + 1]
  BY <1>5, <1>9, HeadTailProperties
<1>11. taken' = Head(Elements)
  <2>1. Head(Elements) = Elements[1]
    BY <1>5, <1>9
  <2> QED
    BY <1>1, <1>2, <1>5, <2>1
<1>12. \A k \in 1 .. count - 1 : Elements'[k] = Tail(Elements)[k]
  <2>1. ASSUME NEW k \in 1 .. count - 1
        PROVE  Elements'[k] = Tail(Elements)[k]
    <3>1. k + 1 \in 1 .. count /\ k + 1 # 1
      BY <1>1
    <3>2. data'[Slot(k + 1)] = data[Slot(k + 1)]
      BY <1>1, <1>2, <1>3, <3>1
    <3> QED
      BY <1>5, <1>6, <1>10, <3>1, <3>2
  <2> QED
    BY <2>1
<1>13. Elements' = Tail(Elements)
  BY <1>6, <1>10, <1>12, SeqEqual
<1> QED
  BY <1>7, <1>8, <1>9, <1>11, <1>13 DEF QueueInv

-----------------------------------------------------------------------------
(* The queue is destroyed with the references of some of its slots.        *)
LEMMA DestroyType ==
  ASSUME QueueInv, Destroy
  PROVE  owned' \in [Object -> Int]
<1>1. ASSUME NEW o \in Object
      PROVE  Cardinality({i \in 0 .. count - 1 : data[i] = o}) \in Nat
  <2>1. IsFiniteSet(0 .. count - 1)
    BY FS_Interval DEF QueueInv, QueueTypeOK
  <2>2. IsFiniteSet({i \in 0 .. count - 1 : data[i] = o})
    BY <2>1, FS_Subset
  <2> QED
    BY <2>2, FS_CardinalityType
<1> QED
  BY <1>1 DEF QueueInv, QueueTypeOK, Destroy

(* The steps that leave the elements alone.                                *)
LEMMA StutterStep ==
  ASSUME QueueInv, IterStart \/ IterNext \/ Destroy
  PROVE  QueueInv' /\ Elements' = Elements /\ taken' = taken
<1>1. /\ UNCHANGED <<capacity, front, back, count, data, taken>>
      /\ destroyed' \in BOOLEAN
  BY DEF IterStart, IterNext, Destroy, queueVars, QueueInv, QueueTypeOK
<1>2. owned' \in [Object -> Int]
  BY DestroyType DEF IterStart, IterNext, queueVars, QueueInv, QueueTypeOK
<1> QED
  BY <1>1, <1>2 DEF QueueInv, QueueTypeOK, BackMatches, Elements, Slot

LEMMA DeqEmptyStep ==
  ASSUME QueueInv, DeqEmpty
  PROVE  QueueInv' /\ Elements = << >> /\ Elements' = Elements /\ taken' = Nil
<1>1. QueueInv' /\ Elements' = Elements /\ taken' = Nil
  BY DEF DeqEmpty, QueueInv, QueueTypeOK, BackMatches, Elements, Slot
<1>2. Elements = << >>
  BY ElementsSeq, EmptySeq DEF DeqEmpty, QueueInv
<1> QED
  BY <1>1, <1>2

(* Every step keeps the invariant and is one of the abstract queue.        *)
LEMMA QueueStep ==
  ASSUME QueueInv, [QueueNext]_<<queueVars, iterVars, destroyed>>
  PROVE  QueueInv' /\ [Fifos!FifoNext]_<<Elements, taken>>
<1> USE DEF Fifos!FifoNext
<1>1. ASSUME NEW o \in Object, Enq(o)
      PROVE  QueueInv' /\ Fifos!Enter(o)
  <2>1. QueueInv' /\ Elements' = Append(Elements, o)
    BY <1>1, EnqInPlaceStep, EnqGrowStep DEF Enq
  <2> QED
    BY <1>1, <2>1 DEF Enq, Fifos!Enter
<1>2. CASE Deq
  BY <1>2, DeqStep DEF Fifos!Leave
<1>3. CASE DeqEmpty
  BY <1>3, DeqEmptyStep DEF Fifos!LeaveEmpty
<1>4. CASE IterStart \/ IterNext \/ Destroy
  BY <1>4, StutterStep
<1>5. CASE UNCHANGED <<queueVars, iterVars, destroyed>>
  BY <1>5 DEF queueVars, QueueInv, QueueTypeOK, BackMatches, Elements, Slot
<1> QED
  BY <1>1, <1>2, <1>3, <1>4, <1>5 DEF QueueNext

(* The fields of a queue keep their types: Queue.c stays inside its buffer *)
(* for every hint, and however often the buffer has doubled.               *)
THEOREM QueueTypeCorrect == QueueSpec => []QueueTypeOK
<1>1. QueueInit => QueueInv
  BY InitStep
<1>2. QueueInv /\ [QueueNext]_<<queueVars, iterVars, destroyed>> => QueueInv'
  BY QueueStep
<1>3. QueueInv => QueueTypeOK
  BY DEF QueueInv
<1> QED
  BY <1>1, <1>2, <1>3, PTL DEF QueueSpec

(* Queue.c implements the abstract queue: what leaves the circular buffer  *)
(* is what entered it, in the same order.                                  *)
THEOREM QueueIsFifo == QueueSpec => IsFifo
<1>1. QueueInit => QueueInv /\ Fifos!FifoInit
  BY InitStep DEF Fifos!FifoInit
<1>2. QueueInv /\ [QueueNext]_<<queueVars, iterVars, destroyed>>
        => QueueInv' /\ [Fifos!FifoNext]_<<Elements, taken>>
  BY QueueStep
<1> QED
  BY <1>1, <1>2, PTL DEF QueueSpec, IsFifo, Fifos!FifoSpec

(* first and last are the two ends of the queue, also after it has wrapped *)
(* around or grown.                                                        *)
THEOREM EndsCorrect == QueueSpec => []EndsMatch
<1>1. QueueInit => QueueInv
  BY InitStep
<1>2. QueueInv /\ [QueueNext]_<<queueVars, iterVars, destroyed>> => QueueInv'
  BY QueueStep
<1>3. QueueInv => EndsMatch
  <2>1. ASSUME QueueInv, count > 0
        PROVE  First = Elements[1] /\ Last = Elements[count]
    <3>1. count \in Nat /\ 1 \in 1 .. count /\ count \in 1 .. count
      BY <2>1 DEF QueueInv, QueueTypeOK
    <3>2. Last = data[Slot(count)]
      BY <2>1, <3>1 DEF QueueInv, BackMatches, Last
    <3> QED
      BY <2>1, <3>1, <3>2, ElementsSeq DEF QueueInv, First
  <2> QED
    BY <2>1 DEF EndsMatch
<1> QED
  BY <1>1, <1>2, <1>3, PTL DEF QueueSpec

-----------------------------------------------------------------------------
(* What the owner of the elements and an iterator know of the ring.  The   *)
(* iterator is at the slot of the element that it has just returned, and   *)
(* before the first one at front.                                          *)
RefsMatch ==
    ~destroyed => \A o \in Object : owned[o] = Cardinality(Places(Elements, o))

IterMatches ==
    index # Nil => /\ position \in 0 .. count
                   /\ index = IF position = 0 THEN front ELSE Slot(position)
                   /\ seen = SubSeq(Elements, 1, position)

RingInv == RefsMatch /\ IterMatches

LEMMA InitRing ==
  ASSUME QueueInit
  PROVE  RingInv
<1>1. Elements = << >> /\ owned = [o \in Object |-> 0] /\ index = Nil
  BY InitStep DEF QueueInit
<1>2. \A o \in Object : Cardinality(Places(<< >>, o)) = 0
  BY FS_EmptySet DEF Places
<1> QED
  BY <1>1, <1>2 DEF RingInv, RefsMatch, IterMatches

LEMMA EnqRing ==
  ASSUME QueueInv, RingInv, NEW o \in Object, Enq(o)
  PROVE  RingInv'
<1>1. Elements' = Append(Elements, o)
  BY EnqInPlaceStep, EnqGrowStep DEF Enq
<1>2. /\ Elements \in Seq(Object \cup {Nil}) /\ Len(Elements) = count
      /\ o \in Object \cup {Nil} /\ count \in Nat
  BY ElementsSeq DEF QueueInv, QueueTypeOK
<1>3. RefsMatch'
  <2>1. ~destroyed /\ owned \in [Object -> Int] /\ owned' = [owned EXCEPT ![o] = @ + 1]
    BY DEF Enq, QueueInv, QueueTypeOK
  <2>2. ASSUME NEW x \in Object
        PROVE  owned'[x] = Cardinality(Places(Elements', x))
    <3>1. Cardinality(Places(Elements', x))
             = Cardinality(Places(Elements, x)) + (IF o = x THEN 1 ELSE 0)
      BY <1>1, <1>2, PlacesAppend
    <3>2. Cardinality(Places(Elements, x)) = owned[x]
      BY <2>1 DEF RingInv, RefsMatch
    <3> QED
      BY <2>1, <3>1, <3>2
  <2> QED
    BY <2>2 DEF RefsMatch
<1>4. CASE EnqInPlace(o)
  <2>1. UNCHANGED <<index, position, seen, front, capacity>> /\ count' = count + 1
    BY <1>4 DEF EnqInPlace, iterVars, Enq
  <2>2. ASSUME index' # Nil
        PROVE  /\ position' \in 0 .. count'
               /\ index' = IF position' = 0 THEN front' ELSE (front' + position') % capacity'
               /\ seen' = SubSeq(Elements', 1, position')
    <3>1. /\ position \in 0 .. count /\ seen = SubSeq(Elements, 1, position)
          /\ index = IF position = 0 THEN front ELSE Slot(position)
      BY <2>1, <2>2 DEF RingInv, IterMatches
    <3>2. SubSeq(Elements', 1, position) = SubSeq(Elements, 1, position)
      BY <1>1, <1>2, <3>1, PrefixOfAppend
    <3>3. position \in 0 .. count + 1
      BY <1>2, <3>1
    <3> QED
      BY <2>1, <3>1, <3>2, <3>3 DEF Slot
  <2> QED
    BY <1>3, <2>2 DEF RingInv, IterMatches, Slot
<1>5. CASE EnqGrow(o)
  BY <1>3, <1>5 DEF EnqGrow, DropIter, RingInv, IterMatches
<1> QED
  BY <1>4, <1>5 DEF Enq

LEMMA DeqRing ==
  ASSUME QueueInv, RingInv, Deq
  PROVE  RingInv'
<1>1. Elements # << >> /\ taken' = Head(Elements) /\ Elements' = Tail(Elements)
  BY DeqStep
<1>2. Elements \in Seq(Object \cup {Nil})
  BY ElementsSeq DEF QueueInv
<1>3. ~destroyed /\ owned \in [Object -> Int] /\ owned' = [owned EXCEPT ![taken'] = @ - 1]
  BY DEF Deq, QueueInv, QueueTypeOK
<1>4. ASSUME NEW x \in Object
      PROVE  owned'[x] = Cardinality(Places(Elements', x))
  <2>1. Cardinality(Places(Elements, x))
           = Cardinality(Places(Elements', x)) + (IF taken' = x THEN 1 ELSE 0)
    BY <1>1, <1>2, PlacesTail
  <2>2. Elements' \in Seq(Object \cup {Nil})
    BY <1>1, <1>2, HeadTailProperties
  <2>3. Cardinality(Places(Elements', x)) \in Nat
    BY <2>2, PlacesFinite
  <2>4. Cardinality(Places(Elements, x)) = owned[x]
    BY <1>3 DEF RingInv, RefsMatch
  <2> QED
    BY <1>3, <2>1, <2>3, <2>4
<1> QED
  BY <1>4 DEF Deq, DropIter, RingInv, RefsMatch, IterMatches

LEMMA IterNextRing ==
  ASSUME QueueInv, RingInv, IterNext
  PROVE  RingInv'
<1>1. /\ capacity \in Nat \ {0} /\ front \in -1 .. capacity - 1 /\ count \in 0 .. capacity
      /\ Elements \in Seq(Object \cup {Nil}) /\ Len(Elements) = count
      /\ \A k \in 1 .. count : Elements[k] = data[Slot(k)]
  BY ElementsSeq DEF QueueInv, QueueTypeOK
<1>2. /\ position \in 0 .. count /\ position < count
      /\ index = IF position = 0 THEN front ELSE Slot(position)
      /\ seen = SubSeq(Elements, 1, position)
  BY DEF IterNext, RingInv, IterMatches
<1>3. /\ index' = (index + 1) % capacity /\ position' = position + 1
      /\ seen' = Append(seen, data[index']) /\ Elements' = Elements
      /\ UNCHANGED <<capacity, front, count, data, owned, destroyed>>
  BY DEF IterNext, queueVars, Elements, Slot
<1>4. index' = Slot(position + 1)
  <2>1. CASE position = 0
    BY <1>2, <1>3, <2>1 DEF Slot
  <2>2. CASE position # 0
    <3>1. index = (front + position) % capacity /\ position \in 1 .. capacity
      BY <1>1, <1>2, <2>2 DEF Slot
    <3>2. index = IF front + position < capacity THEN front + position
                  ELSE front + position - capacity
      BY <1>1, <3>1, Slots
    <3>3. (front + (position + 1)) % capacity = (index + 1) % capacity
      <4>1. CASE front + position < capacity
        BY <1>1, <3>1, <3>2, <4>1
      <4>2. CASE front + position >= capacity
        BY <1>1, <3>1, <3>2, <4>2
      <4> QED
        BY <1>1, <3>1, <4>1, <4>2
    <3> QED
      BY <1>3, <3>3 DEF Slot
  <2> QED
    BY <2>1, <2>2
<1>5. position + 1 \in 1 .. count /\ position + 1 \in 0 .. count /\ position + 1 # 0
  BY <1>1, <1>2
<1>6. seen' = SubSeq(Elements, 1, position + 1)
  <2>1. position \in 0 .. Len(Elements) /\ position # Len(Elements)
    BY <1>1, <1>2
  <2>2. SubSeq(Elements, 1, position + 1)
           = Append(SubSeq(Elements, 1, position), Elements[position + 1])
    BY <1>1, <2>1, PrefixGrows
  <2> QED
    BY <1>1, <1>2, <1>3, <1>4, <1>5, <2>2
<1>7. IterMatches'
  BY <1>3, <1>4, <1>5, <1>6 DEF IterMatches, Slot
<1> QED
  BY <1>3, <1>7 DEF RingInv, RefsMatch

(* The other steps: nothing is said of the references any more once the    *)
(* queue is destroyed.                                                     *)
LEMMA OtherRing ==
  ASSUME QueueInv, RingInv,
         \/ DeqEmpty \/ IterStart \/ Destroy
         \/ UNCHANGED <<queueVars, iterVars, destroyed>>
  PROVE  RingInv'
<1>1. /\ UNCHANGED <<capacity, front, count, data>> /\ Elements' = Elements
      /\ count \in Nat
  BY DEF DeqEmpty, IterStart, Destroy, queueVars, Elements, Slot, QueueInv, QueueTypeOK
<1>2. RefsMatch'
  BY <1>1 DEF DeqEmpty, IterStart, Destroy, queueVars, RingInv, RefsMatch
<1>3. CASE IterStart
  <2>1. index' = front /\ position' = 0 /\ seen' = << >>
    BY <1>3 DEF IterStart
  <2>2. SubSeq(Elements, 1, 0) = << >> /\ 0 \in 0 .. count
    BY <1>1, SubSeqEmpty
  <2> QED
    BY <1>1, <1>2, <2>1, <2>2 DEF RingInv, IterMatches
<1>4. CASE UNCHANGED iterVars
  BY <1>1, <1>2, <1>4 DEF iterVars, RingInv, IterMatches, Slot
<1> QED
  BY <1>3, <1>4 DEF DeqEmpty, Destroy, iterVars

LEMMA RingStep ==
  ASSUME QueueInv, RingInv, [QueueNext]_<<queueVars, iterVars, destroyed>>
  PROVE  RingInv'
BY EnqRing, DeqRing, IterNextRing, OtherRing DEF QueueNext

(* The queue owns one reference for each place of an object in it, an      *)
(* iterator returns the elements in sequence also while others are added,  *)
(* and first and last are the two ends (EndsCorrect): for every hint, and  *)
(* however often the buffer wraps around or grows.                         *)
THEOREM RingSoundHolds == QueueSpec => []RingSound
<1>1. QueueInit => QueueInv /\ RingInv
  BY InitStep, InitRing
<1>2. QueueInv /\ RingInv /\ [QueueNext]_<<queueVars, iterVars, destroyed>>
        => QueueInv' /\ RingInv'
  BY QueueStep, RingStep
<1>3. QueueInv /\ RingInv => OwnsElements /\ IterInOrder
  <2>1. ASSUME QueueInv PROVE DOMAIN Elements = 1 .. count
    BY <2>1 DEF Elements
  <2>2. ASSUME QueueInv, RingInv PROVE OwnsElements
    BY <2>1, <2>2 DEF RingInv, RefsMatch, OwnsElements, Places
  <2>3. ASSUME RingInv PROVE IterInOrder
    BY <2>3 DEF RingInv, IterMatches, IterInOrder
  <2> QED
    BY <2>2, <2>3
<1>4. OwnsElements /\ IterInOrder /\ EndsMatch => RingSound
  BY DEF RingSound
<1> QED
  BY <1>1, <1>2, <1>3, <1>4, EndsCorrect, PTL DEF QueueSpec
=============================================================================
