------------------------------- MODULE Lists -------------------------------
(***************************************************************************)
(* Facts about lists that the proofs of several components need: who is in *)
(* one, how often, and what Append and Tail do to that; and about the      *)
(* least of some numbers.                                                  *)
(***************************************************************************)
EXTENDS SequenceTheorems, FiniteSetTheorems, FunctionTheorems, WellFoundedInduction, TLAPS

-----------------------------------------------------------------------------
(* The members of a list, and lists that name nobody twice.                *)
Members(list) == {list[i] : i \in DOMAIN list}
Simple(list) == \A i, j \in DOMAIN list : list[i] = list[j] => i = j

LEMMA AppendMembers ==
  ASSUME NEW S, NEW list \in Seq(S), NEW e \in S
  PROVE  /\ Append(list, e) \in Seq(S)
         /\ Members(Append(list, e)) = Members(list) \cup {e}
         /\ Simple(list) /\ e \notin Members(list) => Simple(Append(list, e))
<1> DEFINE longer == Append(list, e)
<1>1. /\ longer \in Seq(S) /\ Len(list) \in Nat
      /\ DOMAIN list = 1 .. Len(list) /\ DOMAIN longer = 1 .. Len(list) + 1
      /\ \A i \in 1 .. Len(list) : longer[i] = list[i]
      /\ longer[Len(list) + 1] = e
  BY AppendProperties
<1> HIDE DEF longer
<1>2. Members(longer) = Members(list) \cup {e}
  BY <1>1 DEF Members
<1>3. Simple(list) /\ e \notin Members(list) => Simple(longer)
  BY <1>1 DEF Members, Simple
<1> QED
  BY <1>1, <1>2, <1>3 DEF longer

LEMMA TailMembers ==
  ASSUME NEW S, NEW list \in Seq(S), list # << >>
  PROVE  /\ Tail(list) \in Seq(S) /\ Head(list) \in S /\ Head(list) \in Members(list)
         /\ Members(Tail(list)) \subseteq Members(list)
         /\ Members(list) \ {Head(list)} \subseteq Members(Tail(list))
         /\ Simple(list) => Simple(Tail(list)) /\ Head(list) \notin Members(Tail(list))
<1> DEFINE rest == Tail(list)
<1>1. /\ rest \in Seq(S) /\ Len(list) \in Nat /\ Len(list) >= 1
      /\ DOMAIN list = 1 .. Len(list) /\ DOMAIN rest = 1 .. Len(list) - 1
      /\ \A i \in 1 .. Len(list) - 1 : rest[i] = list[i + 1]
      /\ Head(list) = list[1] /\ Head(list) \in S
  BY EmptySeq, HeadTailProperties
<1> HIDE DEF rest
<1>2. Members(rest) \subseteq Members(list) /\ Head(list) \in Members(list)
  BY <1>1 DEF Members
<1>3. ASSUME NEW e \in Members(list), e # Head(list) PROVE e \in Members(rest)
  <2>1. PICK i \in 1 .. Len(list) : e = list[i]
    BY <1>1 DEF Members
  <2>2. i - 1 \in 1 .. Len(list) - 1 /\ (i - 1) + 1 = i
    BY <1>1, <1>3, <2>1
  <2> QED
    BY <1>1, <2>1, <2>2 DEF Members
<1>4. ASSUME Simple(list) PROVE Simple(rest) /\ Head(list) \notin Members(rest)
  <2>1. \A i, j \in 1 .. Len(list) : list[i] = list[j] => i = j
    BY <1>1, <1>4 DEF Simple
  <2>2. \A i \in 1 .. Len(list) - 1 : i + 1 \in 1 .. Len(list) /\ i + 1 # 1
    BY <1>1
  <2>3. \A i, j \in 1 .. Len(list) - 1 : rest[i] = rest[j] => i = j
    <3>1. ASSUME NEW i \in 1 .. Len(list) - 1, NEW j \in 1 .. Len(list) - 1, rest[i] = rest[j]
          PROVE  i = j
      <4>1. i + 1 = j + 1
        BY <1>1, <2>1, <2>2, <3>1
      <4> QED
        BY <4>1
    <3> QED
      BY <3>1
  <2>4. \A i \in 1 .. Len(list) - 1 : rest[i] # list[1]
    BY <1>1, <2>1, <2>2
  <2> QED
    BY <1>1, <2>3, <2>4 DEF Members, Simple
<1> QED
  BY <1>1, <1>2, <1>3, <1>4 DEF rest

LEMMA EmptyMembers ==
  ASSUME NEW S, NEW list \in Seq(S)
  PROVE  list = << >> <=> Members(list) = {}
<1>1. DOMAIN list = 1 .. Len(list) /\ Len(list) \in Nat /\ (list = << >> <=> Len(list) = 0)
  BY EmptySeq
<1>2. Len(list) # 0 => 1 \in 1 .. Len(list)
  BY <1>1
<1>3. Len(list) = 0 => DOMAIN list = {}
  BY <1>1
<1> QED
  BY <1>1, <1>2, <1>3 DEF Members

-----------------------------------------------------------------------------
(* The places of an element in a list: how many there are.                 *)
Places(list, c) == {i \in DOMAIN list : list[i] = c}

LEMMA PlacesFinite ==
  ASSUME NEW S, NEW list \in Seq(S), NEW c
  PROVE  IsFiniteSet(Places(list, c)) /\ Cardinality(Places(list, c)) \in Nat
<1>1. Places(list, c) \subseteq 1 .. Len(list) /\ Len(list) \in Nat
  BY LenProperties DEF Places
<1>2. IsFiniteSet(1 .. Len(list))
  BY <1>1, FS_Interval
<1> QED
  BY <1>1, <1>2, FS_Subset, FS_CardinalityType

LEMMA PlacesAppend ==
  ASSUME NEW S, NEW list \in Seq(S), NEW e \in S, NEW c
  PROVE  Cardinality(Places(Append(list, e), c))
            = Cardinality(Places(list, c)) + (IF e = c THEN 1 ELSE 0)
<1> DEFINE longer == Append(list, e)
<1>1. /\ longer \in Seq(S) /\ Len(list) \in Nat
      /\ DOMAIN list = 1 .. Len(list) /\ DOMAIN longer = 1 .. Len(list) + 1
      /\ \A i \in 1 .. Len(list) : longer[i] = list[i]
      /\ longer[Len(list) + 1] = e
  BY AppendProperties
<1> HIDE DEF longer
<1>2. CASE e = c
  <2>1. Places(longer, c) = Places(list, c) \cup {Len(list) + 1}
    BY <1>1, <1>2 DEF Places
  <2>2. Len(list) + 1 \notin Places(list, c)
    BY <1>1 DEF Places
  <2>3. Cardinality(Places(longer, c)) = Cardinality(Places(list, c)) + 1
    BY <2>1, <2>2, PlacesFinite, FS_AddElement
  <2> QED
    BY <1>2, <2>3 DEF longer
<1>3. CASE e # c
  <2>1. Places(longer, c) = Places(list, c)
    BY <1>1, <1>3 DEF Places
  <2>2. Cardinality(Places(list, c)) \in Nat
    BY PlacesFinite
  <2> QED
    BY <1>3, <2>1, <2>2 DEF longer
<1> QED
  BY <1>2, <1>3

LEMMA PlacesTail ==
  ASSUME NEW S, NEW list \in Seq(S), list # << >>, NEW c
  PROVE  Cardinality(Places(list, c))
            = Cardinality(Places(Tail(list), c)) + (IF Head(list) = c THEN 1 ELSE 0)
<1> DEFINE rest == Tail(list)
<1>1. /\ rest \in Seq(S) /\ Len(list) \in Nat /\ Len(list) >= 1
      /\ DOMAIN list = 1 .. Len(list) /\ DOMAIN rest = 1 .. Len(list) - 1
      /\ \A i \in 1 .. Len(list) - 1 : rest[i] = list[i + 1]
      /\ Head(list) = list[1] /\ Head(list) \in S
  BY EmptySeq, HeadTailProperties
<1> HIDE DEF rest
<1> DEFINE later == {i \in 2 .. Len(list) : list[i] = c}
           shift == [i \in Places(rest, c) |-> i + 1]
<1>2. Cardinality(later) = Cardinality(Places(rest, c)) /\ IsFiniteSet(later)
  <2>1. shift \in Bijection(Places(rest, c), later)
    <3>1. \A i \in Places(rest, c) : shift[i] \in later
      BY <1>1 DEF Places
    <3>2. \A i, j \in Places(rest, c) : shift[i] = shift[j] => i = j
      BY <1>1 DEF Places
    <3>3. \A j \in later : j - 1 \in Places(rest, c) /\ shift[j - 1] = j
      BY <1>1 DEF Places
    <3> HIDE DEF later
    <3> QED
      BY <3>1, <3>2, <3>3, Fun_IsBij
  <2> HIDE DEF later, shift
  <2>2. IsFiniteSet(Places(rest, c))
    BY <1>1, PlacesFinite
  <2> QED
    BY <2>1, <2>2, FS_Bijection, Fun_ExistsBij
<1>3. CASE Head(list) = c
  <2>1. Places(list, c) = later \cup {1} /\ 1 \notin later
    BY <1>1, <1>3 DEF Places
  <2>2. Cardinality(Places(list, c)) = Cardinality(later) + 1
    BY <1>2, <2>1, FS_AddElement
  <2> QED
    BY <1>2, <1>3, <2>2 DEF rest
<1>4. CASE Head(list) # c
  <2>1. Places(list, c) = later
    BY <1>1, <1>4 DEF Places
  <2>2. Cardinality(Places(rest, c)) \in Nat
    BY <1>1, PlacesFinite
  <2> QED
    BY <1>2, <1>4, <2>1, <2>2 DEF rest
<1> QED
  BY <1>3, <1>4

-----------------------------------------------------------------------------
(* The first elements of a list: Append adds one, or leaves them alone.    *)
LEMMA Prefix ==
  ASSUME NEW S, NEW list \in Seq(S), NEW n \in 0 .. Len(list)
  PROVE  /\ SubSeq(list, 1, n) \in Seq(S) /\ Len(SubSeq(list, 1, n)) = n
         /\ \A i \in 1 .. n : SubSeq(list, 1, n)[i] = list[i]
<1>1. n \in Nat /\ \A i \in 1 .. n : list[i] \in S
  BY LenProperties
<1>2. /\ SubSeq(list, 1, n) \in Seq(S)
      /\ Len(SubSeq(list, 1, n)) = IF 1 <= n THEN n - 1 + 1 ELSE 0
      /\ \A i \in 1 .. n - 1 + 1 : SubSeq(list, 1, n)[i] = list[1 + i - 1]
  BY <1>1, SubSeqProperties
<1> QED
  BY <1>1, <1>2

LEMMA PrefixOfAppend ==
  ASSUME NEW S, NEW list \in Seq(S), NEW e \in S, NEW n \in 0 .. Len(list)
  PROVE  SubSeq(Append(list, e), 1, n) = SubSeq(list, 1, n)
<1> DEFINE longer == Append(list, e)
<1>1. /\ longer \in Seq(S) /\ Len(longer) = Len(list) + 1 /\ Len(list) \in Nat
      /\ \A i \in 1 .. Len(list) : longer[i] = list[i]
  BY AppendProperties
<1> HIDE DEF longer
<1>2. n \in 0 .. Len(longer)
  BY <1>1
<1>3. \A i \in 1 .. n : SubSeq(longer, 1, n)[i] = SubSeq(list, 1, n)[i]
  BY <1>1, <1>2, Prefix
<1>4. SubSeq(longer, 1, n) = SubSeq(list, 1, n)
  BY <1>1, <1>2, <1>3, Prefix, SeqEqual
<1> QED
  BY <1>4 DEF longer

LEMMA PrefixGrows ==
  ASSUME NEW S, NEW list \in Seq(S), NEW n \in 0 .. Len(list), n # Len(list)
  PROVE  SubSeq(list, 1, n + 1) = Append(SubSeq(list, 1, n), list[n + 1])
<1> DEFINE before == SubSeq(list, 1, n)
           after == SubSeq(list, 1, n + 1)
<1>1. n + 1 \in 0 .. Len(list) /\ n + 1 \in 1 .. Len(list) /\ n \in Nat /\ list[n + 1] \in S
  BY LenProperties
<1>2. /\ before \in Seq(S) /\ Len(before) = n /\ \A i \in 1 .. n : before[i] = list[i]
      /\ after \in Seq(S) /\ Len(after) = n + 1 /\ \A i \in 1 .. n + 1 : after[i] = list[i]
  BY <1>1, Prefix
<1> HIDE DEF before, after
<1>3. /\ Append(before, list[n + 1]) \in Seq(S) /\ Len(Append(before, list[n + 1])) = n + 1
      /\ \A i \in 1 .. n : Append(before, list[n + 1])[i] = before[i]
      /\ Append(before, list[n + 1])[n + 1] = list[n + 1]
  BY <1>1, <1>2, AppendProperties
<1>4. \A i \in 1 .. n + 1 : after[i] = Append(before, list[n + 1])[i]
  <2>1. \A i \in 1 .. n + 1 : i \in 1 .. n \/ i = n + 1
    BY <1>1
  <2> QED
    BY <1>2, <1>3, <2>1
<1>5. after = Append(before, list[n + 1])
  BY <1>2, <1>3, <1>4, SeqEqual
<1> QED
  BY <1>5 DEF before, after

-----------------------------------------------------------------------------
(* A set of numbers has a least one: where a search stops first, where a   *)
(* recursive function would go wrong first, which descriptor open() gives. *)
LEMMA LessWellFounded ==
  \E R : IsWellFoundedOn(R, Nat) /\ \A x, y \in Nat : x < y => <<x, y>> \in R
<1> DEFINE R == OpToRel(<, Nat)
<1>1. IsWellFoundedOn(R, Nat)
  BY NatLessThanWellFounded
<1>2. \A x, y \in Nat : x < y => <<x, y>> \in R
  BY DEF OpToRel
<1> HIDE DEF R
<1> QED
  BY <1>1, <1>2

LEMMA LeastNumber ==
  ASSUME NEW A \in SUBSET Nat, A # {}
  PROVE  \E m \in A : \A n \in A : m <= n
<1>1. PICK R : IsWellFoundedOn(R, Nat) /\ \A x, y \in Nat : x < y => <<x, y>> \in R
  BY LessWellFounded
<1>2. \E m \in A : \A n \in A : ~ (<<n, m>> \in R)
  <2>1. IsWellFoundedOn(R, Nat) /\ A \subseteq Nat /\ A # {}
    BY <1>1
  <2> QED
    BY <2>1, WFMin, Zenon
<1>3. PICK m \in A : \A n \in A : ~ (<<n, m>> \in R)
  BY <1>2, Zenon
<1>4. ASSUME NEW n \in A PROVE m <= n
  <2>1. ~ (<<n, m>> \in R) /\ n \in Nat /\ m \in Nat
    BY <1>3
  <2>2. n < m => <<n, m>> \in R
    BY <1>1, <2>1
  <2> QED
    BY <2>1, <2>2
<1> QED
  BY <1>3, <1>4

LEMMA LesserOfTwo ==
  ASSUME NEW m \in Nat, NEW n \in Nat
  PROVE  \E k \in {m, n} : (\A x \in {m, n} : k <= x) /\ k = CHOOSE x \in {m, n} : \A y \in {m, n} : x =< y
<1>1. PICK k \in {m, n} : \A x \in {m, n} : k <= x
  <2>1. m <= n \/ n <= m
    OBVIOUS
  <2> QED
    BY <2>1
<1>2. (\A y \in {m, n} : k =< y) /\ \A x \in {m, n} : (\A y \in {m, n} : x =< y) => x = k
  BY <1>1
<1> QED
  BY <1>1, <1>2

-----------------------------------------------------------------------------
(* What holds at the start of a count and after each step holds at its end,*)
(* and what is computed step by step is computed.                          *)
LEMMA Climb ==
  ASSUME NEW n \in Nat, NEW Good \in SUBSET (0 .. n), 0 \in Good,
         \A m \in 1 .. n : m - 1 \in Good => m \in Good
  PROVE  Good = 0 .. n
<1> DEFINE Bad == (0 .. n) \ Good
<1>1. Bad \in SUBSET Nat
  OBVIOUS
<1>2. SUFFICES ASSUME Bad # {} PROVE FALSE
  OBVIOUS
<1>3. PICK x \in Bad : \A y \in Bad : x <= y
  <2> HIDE DEF Bad
  <2> QED
    BY <1>1, <1>2, LeastNumber
<1>4. x \in 1 .. n /\ x - 1 \in 0 .. n /\ ~ (x <= x - 1)
  BY <1>3
<1>5. x - 1 \in Good
  BY <1>3, <1>4
<1> QED
  BY <1>3, <1>4, <1>5

Iteration(f, X, base, n, step) ==
    f \in [0 .. n -> X] /\ f[0] = base /\ \A m \in 1 .. n : f[m] = step[m][f[m - 1]]

LEMMA Iterates ==
  ASSUME NEW X, NEW base, NEW n, NEW step,
         base \in X, n \in Nat, step \in [1 .. n -> [X -> X]]
  PROVE  \E f : Iteration(f, X, base, n, step)
<1> DEFINE Upto(f, k) == f \in [0 .. k -> X] /\ f[0] = base /\ \A m \in 1 .. k : f[m] = step[m][f[m - 1]]
           Good == {k \in 0 .. n : \E f : Upto(f, k)}
<1>1. 0 \in Good
  <2>1. Upto([m \in 0 .. 0 |-> base], 0)
    OBVIOUS
  <2> HIDE DEF Upto
  <2> QED
    BY <2>1
<1>2. ASSUME NEW k \in 1 .. n, k - 1 \in Good PROVE k \in Good
  <2>1. PICK f : Upto(f, k - 1)
    BY <1>2
  <2> DEFINE g == [m \in 0 .. k |-> IF m = k THEN step[k][f[k - 1]] ELSE f[m]]
  <2>2. \A m \in 0 .. k : m # k => m \in 0 .. k - 1
    OBVIOUS
  <2>3. f[k - 1] \in X /\ step[k][f[k - 1]] \in X
    BY <2>1
  <2>4. g \in [0 .. k -> X] /\ g[0] = base
    BY <2>1, <2>2, <2>3
  <2>5. ASSUME NEW m \in 1 .. k PROVE g[m] = step[m][g[m - 1]]
    <3>1. g[m - 1] = f[m - 1] /\ m - 1 \in 0 .. k - 1
      OBVIOUS
    <3>2. CASE m = k
      BY <3>1, <3>2
    <3>3. CASE m # k
      <4>1. m \in 1 .. k - 1 /\ g[m] = f[m]
        BY <3>3
      <4> HIDE DEF g
      <4> QED
        BY <2>1, <3>1, <4>1
    <3> QED
      BY <3>2, <3>3
  <2>6. Upto(g, k)
    BY <2>4, <2>5
  <2> HIDE DEF Upto, g
  <2> QED
    BY <2>6
<1>3. n \in Good
  <2>1. Good \in SUBSET (0 .. n)
    OBVIOUS
  <2> HIDE DEF Good
  <2> QED
    BY <1>1, <1>2, <2>1, Climb
<1> QED
  BY <1>3 DEF Iteration

(* The values of a function on a finite set are finitely many.             *)
LEMMA ImageFinite ==
  ASSUME NEW S, IsFiniteSet(S), NEW f, DOMAIN f = S, f = [x \in S |-> f[x]]
  PROVE  IsFiniteSet({f[x] : x \in S})
<1> DEFINE T == {f[x] : x \in S}
<1>1. f \in Surjection(S, T)
  BY DEF Surjection
<1> QED
  BY <1>1, FS_Surjection
=============================================================================
