--------------------------- MODULE Stream_proofs ---------------------------
(***************************************************************************)
(* Buffered streams, for any number of coroutines, streams and descriptors *)
(* and buffers of any size.                                                *)
(***************************************************************************)
EXTENDS Stream, Lists

-----------------------------------------------------------------------------
(* Buffers.  The rest of the proofs knows of a buffer only what it holds,  *)
(* how much, and how much more would go in.                                *)
Buffers ==
    {b \in [cap : Nat, begin : Nat, end : Nat, data : UNION {[0 .. n - 1 -> Nat] : n \in Nat}] :
        BufferOK(b)}
Free(b) == b.cap - b.end

LEMMA BufferFields ==
  ASSUME NEW b \in Buffers
  PROVE  /\ b = [cap |-> b.cap, begin |-> b.begin, end |-> b.end, data |-> b.data]
         /\ b.cap \in Nat /\ b.begin \in Nat /\ b.end \in Nat
         /\ b.begin <= b.end /\ b.end <= b.cap
         /\ b.data \in [0 .. b.cap - 1 -> Nat]
<1>1. /\ b \in [cap : Nat, begin : Nat, end : Nat, data : UNION {[0 .. n - 1 -> Nat] : n \in Nat}]
      /\ BufferOK(b)
  BY DEF Buffers
<1>2. PICK n \in Nat : b.data \in [0 .. n - 1 -> Nat]
  BY <1>1
<1>3. DOMAIN b.data = 0 .. n - 1 /\ DOMAIN b.data = 0 .. b.cap - 1
  BY <1>1, <1>2 DEF BufferOK
<1>4. b.data \in [0 .. b.cap - 1 -> Nat]
  BY <1>2, <1>3
<1> QED
  BY <1>1, <1>4 DEF BufferOK

LEMMA BufferOf ==
  ASSUME NEW cap \in Nat, NEW begin \in Nat, NEW end \in Nat, begin <= end, end <= cap,
         NEW data \in [0 .. cap - 1 -> Nat],
         NEW b, b = [cap |-> cap, begin |-> begin, end |-> end, data |-> data]
  PROVE  b \in Buffers
<1>1. data \in UNION {[0 .. n - 1 -> Nat] : n \in Nat}
  OBVIOUS
<1>2. b.begin = begin /\ b.end = end /\ b.cap = cap /\ b.data = data
  OBVIOUS
<1>3. DOMAIN data = 0 .. cap - 1
  OBVIOUS
<1>4. BufferOK(b)
  BY <1>2, <1>3 DEF BufferOK
<1>5. b \in [cap : Nat, begin : Nat, end : Nat, data : UNION {[0 .. n - 1 -> Nat] : n \in Nat}]
  BY <1>1
<1> QED
  BY <1>4, <1>5 DEF Buffers

LEMMA BufferBytes ==
  ASSUME NEW b \in Buffers
  PROVE  /\ Size(b) \in Nat /\ Free(b) \in Nat /\ b.cap \in Nat
         /\ Bytes(b) \in Seq(Nat) /\ Len(Bytes(b)) = Size(b)
         /\ \A i \in 1 .. Size(b) : Bytes(b)[i] = b.data[b.begin + i - 1]
         /\ Size(b) = 0 <=> Bytes(b) = << >>
<1>1. Size(b) \in Nat /\ Free(b) \in Nat
  BY BufferFields DEF Size, Free
<1>2. \A i \in 1 .. Size(b) : b.data[b.begin + i - 1] \in Nat
  <2>1. ASSUME NEW i \in 1 .. Size(b) PROVE b.begin + i - 1 \in 0 .. b.cap - 1
    BY BufferFields DEF Size
  <2> QED
    BY <2>1, BufferFields
<1>3. Bytes(b) \in [1 .. Size(b) -> Nat]
  BY <1>2 DEF Bytes
<1>4. Bytes(b) \in Seq(Nat) /\ Len(Bytes(b)) = Size(b)
  BY <1>1, <1>3
<1>5. \A i \in 1 .. Size(b) : Bytes(b)[i] = b.data[b.begin + i - 1]
  BY DEF Bytes
<1>6. Size(b) = 0 <=> Bytes(b) = << >>
  BY <1>4, EmptySeq
<1> QED
  BY <1>1, <1>4, <1>5, <1>6, BufferFields

LEMMA BufferNew ==
  ASSUME NEW cap \in Nat
  PROVE  /\ Buffer(cap) \in Buffers /\ Buffer(cap).cap = cap /\ Free(Buffer(cap)) = cap
         /\ Size(Buffer(cap)) = 0
<1>1. Buffer(cap) = [cap |-> cap, begin |-> 0, end |-> 0, data |-> [i \in 0 .. cap - 1 |-> 0]]
  BY DEF Buffer
<1>2. [i \in 0 .. cap - 1 |-> 0] \in [0 .. cap - 1 -> Nat]
  OBVIOUS
<1>3. Buffer(cap) \in Buffers
  BY <1>1, <1>2, BufferOf
<1> QED
  BY <1>1, <1>3 DEF Free, Size

LEMMA BufferRewound ==
  ASSUME NEW b \in Buffers
  PROVE  /\ Rewound(b) \in Buffers /\ Rewound(b).cap = b.cap
         /\ Free(Rewound(b)) = b.cap /\ Size(Rewound(b)) = 0
<1>1. Rewound(b) = [cap |-> b.cap, begin |-> 0, end |-> 0, data |-> b.data]
  <2>1. PICK m : m = [b EXCEPT !.begin = 0]
    OBVIOUS
  <2>2. m = [cap |-> b.cap, begin |-> 0, end |-> b.end, data |-> b.data]
    BY <2>1, BufferFields
  <2>3. [m EXCEPT !.end = 0] = [cap |-> b.cap, begin |-> 0, end |-> 0, data |-> b.data]
    BY <2>2
  <2> QED
    BY <2>1, <2>3 DEF Rewound
<1>2. Rewound(b) \in Buffers
  BY <1>1, BufferFields, BufferOf, SMTT(30)
<1> QED
  BY <1>1, <1>2, BufferFields DEF Free, Size

LEMMA BufferSkip ==
  ASSUME NEW b \in Buffers, NEW k \in 0 .. Size(b)
  PROVE  /\ Skip(b, k) \in Buffers /\ Skip(b, k).cap = b.cap
         /\ Free(Skip(b, k)) = Free(b) /\ Size(Skip(b, k)) = Size(b) - k
         /\ SubSeq(Bytes(b), 1, k) \in Seq(Nat)
         /\ SubSeq(Bytes(b), 1, k) \o Bytes(Skip(b, k)) = Bytes(b)
<1> DEFINE c == Skip(b, k)
           x == SubSeq(Bytes(b), 1, k)
<1>1. c = [cap |-> b.cap, begin |-> b.begin + k, end |-> b.end, data |-> b.data]
  BY BufferFields DEF Skip
<1>2. k \in Nat /\ b.begin + k \in Nat /\ b.begin + k <= b.end
  BY BufferFields, BufferBytes DEF Size
<1>3. c \in Buffers
  BY <1>1, <1>2, BufferFields, BufferOf
<1>4. Free(c) = Free(b) /\ Size(c) = Size(b) - k /\ c.cap = b.cap
  BY <1>1, <1>2, BufferFields DEF Free, Size
<1>5. x \in Seq(Nat) /\ Len(x) = k /\ \A i \in 1 .. k : x[i] = Bytes(b)[i]
  BY BufferBytes, Prefix
<1> HIDE DEF c, x
<1>6. \A i \in 1 .. Size(b) - k : Bytes(c)[i] = b.data[b.begin + k + i - 1]
  <2>1. \A i \in 1 .. Size(c) : Bytes(c)[i] = c.data[c.begin + i - 1]
    BY <1>3, BufferBytes
  <2> QED
    BY <1>1, <1>4, <2>1
<1>7. /\ x \o Bytes(c) \in Seq(Nat) /\ Len(x \o Bytes(c)) = Size(b)
      /\ \A i \in 1 .. Size(b) : (x \o Bytes(c))[i] = IF i <= k THEN x[i] ELSE Bytes(c)[i - k]
  <2>1. Bytes(c) \in Seq(Nat) /\ Len(Bytes(c)) = Size(b) - k
    BY <1>3, <1>4, BufferBytes
  <2>2. Len(x) + Len(Bytes(c)) = Size(b)
    BY <1>2, <1>5, <2>1, BufferBytes
  <2>3. /\ x \o Bytes(c) \in Seq(Nat) /\ Len(x \o Bytes(c)) = Len(x) + Len(Bytes(c))
        /\ \A i \in 1 .. Len(x) + Len(Bytes(c)) :
              (x \o Bytes(c))[i] = IF i <= Len(x) THEN x[i] ELSE Bytes(c)[i - Len(x)]
    BY <1>5, <2>1, ConcatProperties
  <2> QED
    BY <1>5, <2>2, <2>3
<1>8. \A i \in 1 .. Size(b) : (x \o Bytes(c))[i] = Bytes(b)[i]
  <2>1. ASSUME NEW i \in 1 .. Size(b) PROVE (x \o Bytes(c))[i] = Bytes(b)[i]
    <3>0. i \in Int /\ k \in Int /\ Size(b) \in Int /\ b.begin \in Int /\ 1 <= i /\ i <= Size(b)
      BY <1>2, <2>1, BufferBytes, BufferFields
    <3>1. CASE i <= k
      BY <1>2, <1>5, <1>7, <3>1
    <3>2. CASE i > k
      <4>1. i - k \in 1 .. Size(b) - k /\ b.begin + k + (i - k) - 1 = b.begin + i - 1
        BY <3>0, <3>2
      <4>2. (x \o Bytes(c))[i] = Bytes(c)[i - k]
        BY <1>2, <1>7, <3>2
      <4> QED
        BY <1>6, <4>1, <4>2, BufferBytes
    <3> QED
      <4>1. i <= k \/ i > k
        BY <3>0
      <4> QED
        BY <3>1, <3>2, <4>1
  <2> QED
    BY <2>1
<1>9. x \o Bytes(c) = Bytes(b)
  BY <1>7, <1>8, BufferBytes, SeqEqual
<1> QED
  BY <1>3, <1>4, <1>5, <1>9 DEF c, x

LEMMA BufferFilled ==
  ASSUME NEW b \in Buffers, NEW x \in Seq(Nat), Len(x) <= Free(b)
  PROVE  /\ Filled(b, x) \in Buffers /\ Filled(b, x).cap = b.cap
         /\ Free(Filled(b, x)) = Free(b) - Len(x) /\ Size(Filled(b, x)) = Size(b) + Len(x)
         /\ Bytes(Filled(b, x)) = Bytes(b) \o x
<1> DEFINE data == [i \in DOMAIN b.data |->
                       IF i \in b.end .. b.end + Len(x) - 1 THEN x[i - b.end + 1] ELSE b.data[i]]
           c == Filled(b, x)
<1>1. /\ Len(x) \in Nat /\ \A i \in 1 .. Len(x) : x[i] \in Nat
      /\ b.cap \in Nat /\ b.begin \in Nat /\ b.end \in Nat
      /\ b.begin <= b.end /\ b.end + Len(x) <= b.cap
      /\ b.data \in [0 .. b.cap - 1 -> Nat]
  BY BufferFields, LenProperties DEF Free
<1>2. data \in [0 .. b.cap - 1 -> Nat]
  <2>1. ASSUME NEW i \in 0 .. b.cap - 1, i \in b.end .. b.end + Len(x) - 1
        PROVE  x[i - b.end + 1] \in Nat
    <3>1. i - b.end + 1 \in 1 .. Len(x)
      BY <1>1, <2>1, SMTT(30)
    <3> QED
      BY <1>1, <3>1
  <2> QED
    BY <1>1, <2>1
<1>3. c = [cap |-> b.cap, begin |-> b.begin, end |-> b.end + Len(x), data |-> data]
  <2>1. PICK m : m = [b EXCEPT !.end = @ + Len(x)]
    OBVIOUS
  <2>2. m = [cap |-> b.cap, begin |-> b.begin, end |-> b.end + Len(x), data |-> b.data]
    BY <2>1, BufferFields
  <2> HIDE DEF data
  <2>3. [m EXCEPT !.data = data] = [cap |-> b.cap, begin |-> b.begin, end |-> b.end + Len(x), data |-> data]
    BY <2>2
  <2>4. c = [m EXCEPT !.data = data]
    BY <2>1 DEF Filled, data
  <2> QED
    BY <2>3, <2>4
<1>4. \A i \in 0 .. b.cap - 1 :
         data[i] = IF i \in b.end .. b.end + Len(x) - 1 THEN x[i - b.end + 1] ELSE b.data[i]
  BY <1>1
<1> HIDE DEF data, c
<1>5. c \in Buffers
  <2>1. b.end + Len(x) \in Nat /\ b.begin <= b.end + Len(x)
    BY <1>1
  <2> QED
    BY <1>1, <1>2, <1>3, <2>1, BufferOf
<1>6. c.cap = b.cap /\ c.begin = b.begin /\ c.end = b.end + Len(x) /\ c.data = data
  BY <1>3
<1>7. Free(c) = Free(b) - Len(x) /\ Size(c) = Size(b) + Len(x)
  BY <1>1, <1>6 DEF Free, Size
<1>8. /\ Bytes(c) \in Seq(Nat) /\ Len(Bytes(c)) = Size(b) + Len(x)
      /\ \A i \in 1 .. Size(b) + Len(x) : Bytes(c)[i] = data[b.begin + i - 1]
  BY <1>5, <1>6, <1>7, BufferBytes
<1>9. /\ Bytes(b) \in Seq(Nat) /\ Len(Bytes(b)) = Size(b) /\ Size(b) \in Nat
      /\ \A i \in 1 .. Size(b) : Bytes(b)[i] = b.data[b.begin + i - 1]
  BY BufferBytes
<1>10. /\ Bytes(b) \o x \in Seq(Nat) /\ Len(Bytes(b) \o x) = Size(b) + Len(x)
       /\ \A i \in 1 .. Size(b) + Len(x) :
             (Bytes(b) \o x)[i] = IF i <= Size(b) THEN Bytes(b)[i] ELSE x[i - Size(b)]
  <2>1. PICK y \in Seq(Nat) : y = Bytes(b)
    BY <1>9
  <2>2. /\ y \o x \in Seq(Nat) /\ Len(y \o x) = Len(y) + Len(x)
        /\ \A i \in 1 .. Len(y) + Len(x) : (y \o x)[i] = IF i <= Len(y) THEN y[i] ELSE x[i - Len(y)]
    BY ConcatProperties
  <2> QED
    BY <1>9, <2>1, <2>2
<1>11. b.end = b.begin + Size(b)
  BY <1>1 DEF Size
<1>12. ASSUME NEW i \in 1 .. Size(b) + Len(x) PROVE Bytes(c)[i] = (Bytes(b) \o x)[i]
  <2>0. i \in Int /\ 1 <= i /\ i <= Size(b) + Len(x)
    BY <1>1, <1>9
  <2>5. /\ b.begin \in Nat /\ b.end = b.begin + Size(b) /\ Len(x) \in Nat /\ Size(b) \in Nat
        /\ b.cap \in Nat /\ b.end + Len(x) <= b.cap
    BY <1>1, <1>9, <1>11 DEF Free
  <2>1. b.begin + i - 1 \in 0 .. b.cap - 1 /\ (i <= Size(b) \/ i > Size(b))
    <3>1. b.begin + i - 1 <= b.cap - 1 /\ 0 <= b.begin + i - 1
      BY <2>0, <2>5, SMTT(30)
    <3> QED
      BY <2>0, <2>5, <3>1, SMTT(30)
  <2>2. Bytes(c)[i] = data[b.begin + i - 1]
    BY <1>8
  <2>3. CASE i <= Size(b)
    <3>1. b.begin + i - 1 \notin b.end .. b.end + Len(x) - 1 /\ i \in 1 .. Size(b)
      BY <2>0, <2>3, <2>5
    <3>2. (Bytes(b) \o x)[i] = Bytes(b)[i]
      BY <1>10, <2>3
    <3>3. data[b.begin + i - 1] = b.data[b.begin + i - 1]
      BY <1>4, <2>1, <3>1
    <3> QED
      BY <1>9, <2>2, <3>1, <3>2, <3>3
  <2>4. CASE i > Size(b)
    <3>1. b.begin + i - 1 \in b.end .. b.end + Len(x) - 1
      BY <2>0, <2>4, <2>5, SMTT(30)
    <3>2. (b.begin + i - 1) - b.end + 1 = i - Size(b) /\ ~ (i <= Size(b))
      BY <2>0, <2>4, <2>5, SMTT(30)
    <3>3. data[b.begin + i - 1] = x[i - Size(b)]
      BY <1>4, <2>1, <3>1, <3>2
    <3>4. (Bytes(b) \o x)[i] = x[i - Size(b)]
      BY <1>10, <3>2
    <3> QED
      BY <2>2, <3>3, <3>4
  <2> QED
    BY <2>1, <2>3, <2>4
<1>13. Bytes(c) = Bytes(b) \o x
  <2>1. Len(Bytes(c)) = Len(Bytes(b) \o x)
    BY <1>8, <1>10
  <2>2. \A i \in 1 .. Len(Bytes(c)) : Bytes(c)[i] = (Bytes(b) \o x)[i]
    BY <1>8, <1>12
  <2> QED
    BY <1>8, <1>10, <2>1, <2>2, SeqEqual
<1> QED
  BY <1>5, <1>6, <1>7, <1>13 DEF c

(* Compaction keeps the size; that is all that holds of it.                *)
LEMMA BufferCompact ==
  ASSUME NEW b \in Buffers
  PROVE  /\ Buffer_compact(b) \in Buffers /\ Buffer_compact(b).cap = b.cap
         /\ Free(Buffer_compact(b)) = b.cap - Size(b) /\ Size(Buffer_compact(b)) = Size(b)
<1> DEFINE data == [i \in DOMAIN b.data |->
                       IF i \in b.begin .. b.end - 1 THEN b.data[i - b.begin] ELSE b.data[i]]
           c == Buffer_compact(b)
<1>1. /\ b.cap \in Nat /\ b.begin \in Nat /\ b.end \in Nat /\ Size(b) = b.end - b.begin
      /\ b.begin <= b.end /\ b.end <= b.cap
      /\ b.data \in [0 .. b.cap - 1 -> Nat]
  BY BufferFields DEF Size
<1>2. data \in [0 .. b.cap - 1 -> Nat]
  <2>1. ASSUME NEW i \in 0 .. b.cap - 1, i \in b.begin .. b.end - 1
        PROVE  b.data[i - b.begin] \in Nat
    <3>1. i - b.begin \in 0 .. b.cap - 1
      BY <1>1, <2>1
    <3> QED
      BY <1>1, <3>1
  <2> QED
    BY <1>1, <2>1
<1>3. c = [cap |-> b.cap, begin |-> 0, end |-> Size(b), data |-> data]
  <2>1. PICK m, n : m = [b EXCEPT !.begin = 0] /\ n = [m EXCEPT !.end = Size(b)]
    OBVIOUS
  <2>2. m = [cap |-> b.cap, begin |-> 0, end |-> b.end, data |-> b.data]
    BY <2>1, BufferFields
  <2>3. n = [cap |-> b.cap, begin |-> 0, end |-> Size(b), data |-> b.data]
    BY <2>1, <2>2
  <2> HIDE DEF data
  <2>4. [n EXCEPT !.data = data] = [cap |-> b.cap, begin |-> 0, end |-> Size(b), data |-> data]
    BY <2>3
  <2>5. c = [n EXCEPT !.data = data]
    BY <2>1 DEF Buffer_compact, data
  <2> QED
    BY <2>4, <2>5
<1> HIDE DEF data, c
<1>4. Size(b) \in Nat /\ Size(b) <= b.cap
  BY <1>1
<1>5. c \in Buffers
  BY <1>1, <1>2, <1>3, <1>4, BufferOf
<1>6. c.cap = b.cap /\ c.begin = 0 /\ c.end = Size(b)
  BY <1>3
<1>7. Free(c) = b.cap - Size(b) /\ Size(c) = Size(b)
  BY <1>1, <1>4, <1>6 DEF Free, Size
<1> QED
  BY <1>5, <1>6, <1>7 DEF c

LEMMA BufferDoubled ==
  ASSUME NEW b \in Buffers
  PROVE  /\ Doubled(b) \in Buffers /\ Size(Doubled(b)) = Size(b) /\ Bytes(Doubled(b)) = Bytes(b)
         /\ Free(Doubled(b)) >= b.cap
<1>1. /\ b.cap \in Nat /\ 2 * b.cap \in Nat /\ Bytes(b) \in Seq(Nat) /\ Len(Bytes(b)) = Size(b)
      /\ Size(b) \in Nat /\ Size(b) <= b.cap
  BY BufferFields, BufferBytes DEF Size
<1>2. PICK e : e = Buffer(2 * b.cap)
  OBVIOUS
<1>3. e \in Buffers /\ Free(e) = 2 * b.cap /\ Size(e) = 0 /\ Bytes(e) = << >>
  BY <1>1, <1>2, BufferNew, BufferBytes
<1>4. PICK x \in Seq(Nat) : x = Bytes(b)
  BY <1>1
<1>5. Len(x) <= Free(e)
  BY <1>1, <1>3, <1>4
<1>6. /\ Filled(e, x) \in Buffers /\ Size(Filled(e, x)) = Size(e) + Len(x)
      /\ Free(Filled(e, x)) = Free(e) - Len(x) /\ Bytes(Filled(e, x)) = << >> \o x
  BY <1>3, <1>5, BufferFilled
<1>7. << >> \o x = x
  BY <1>4, ConcatEmptySeq
<1>8. Doubled(b) = Filled(e, x)
  BY <1>2, <1>4 DEF Doubled
<1> QED
  BY <1>1, <1>3, <1>4, <1>6, <1>7, <1>8

-----------------------------------------------------------------------------
(* Stacks of frames: which function calls which, and with what.            *)
Routines == {"read", "write", "fill", "get", "peek", "scan", "readall", "flush", "put", "print", "pipe",
             "end", "close", "destroy", "accept", "connect"}
Labels == {"start", "wait", "go", "filled", "peeked", "got", "more", "done", "emptied", "next", "flushed", "closed"}
Frames == [do : Routines, s : Streams \cup {NoOne}, n : Nat \cup Streams, at : Labels]

StreamsOf(f) ==
    IF f.do = "accept" THEN {} ELSE IF f.do \in {"pipe", "write"} THEN {f.s, f.n} ELSE {f.s}

Sound(f) ==
    /\ StreamsOf(f) \subseteq Streams
    /\ f.do = "pipe" => f.n # f.s
    /\ f.do \in {"get", "put", "fill"} => f.n \in 0 .. Capacity
    /\ f.do \in {"print", "readall"} => f.n \in Nat

CalledBy(f, g) ==
    \/ f.do = "read" /\ g.do \in {"fill", "peek", "readall"} /\ f.s = g.s
    \/ f.do = "read" /\ g.do = "pipe" /\ g.at = "next" /\ f.s = g.n
    \/ f.do = "write" /\ g.do = "flush" /\ f.s = g.s /\ f.n = g.s
    \/ f.do = "write" /\ g.do = "pipe" /\ g.at = "next" /\ f.s = g.s /\ f.n = g.n
    \/ f.do = "fill" /\ g.do = "get" /\ f.s = g.s /\ f.n = g.n
    \/ f.do = "get" /\ g.do = "scan" /\ f.s = g.s /\ f.n = 1
    \/ f.do = "put" /\ g.do = "print" /\ f.s = g.s /\ f.n = 1
    \/ f.do = "flush" /\ g.do \in {"put", "pipe", "end", "close"} /\ f.s = g.s
    \/ f.do = "close" /\ g.do = "destroy" /\ f.s = g.s

Chain(st) ==
    \A i \in 1 .. Len(st) :
        /\ Sound(st[i])
        /\ i < Len(st) => CalledBy(st[i], st[i + 1])
        /\ st[i].do \in {"read", "write", "fill"} => i < Len(st)

Used(st) == UNION {StreamsOf(st[i]) : i \in 1 .. Len(st)}

Pushable(f, st) ==
    /\ f \in Frames /\ Sound(f) /\ st \in Seq(Frames) /\ Chain(st)
    /\ st # << >> => CalledBy(f, Head(st))
    /\ f.do \in {"read", "write", "fill"} => st # << >>

LEMMA ChainPush ==
  ASSUME NEW f, NEW st, Pushable(f, st), NEW longer, longer = <<f>> \o st
  PROVE  /\ longer \in Seq(Frames) /\ longer # << >> /\ Head(longer) = f /\ Tail(longer) = st
         /\ Len(longer) = Len(st) + 1 /\ \A i \in 1 .. Len(st) : longer[i + 1] = st[i]
         /\ Chain(longer) /\ Used(longer) = StreamsOf(f) \cup Used(st)
<1> f \in Frames /\ Sound(f) /\ st \in Seq(Frames) /\ Chain(st)
  BY DEF Pushable
<1> (st # << >> => CalledBy(f, Head(st))) /\ (f.do \in {"read", "write", "fill"} => st # << >>)
  BY DEF Pushable
<1>1. Len(st) \in Nat /\ (st = << >> <=> Len(st) = 0) /\ (st # << >> => Head(st) = st[1])
  BY EmptySeq
<1>2. <<f>> \in Seq(Frames) /\ Len(<<f>>) = 1 /\ <<f>>[1] = f
  OBVIOUS
<1>3. /\ longer \in Seq(Frames) /\ Len(longer) = 1 + Len(st)
      /\ \A i \in 1 .. 1 + Len(st) : longer[i] = IF i <= 1 THEN <<f>>[i] ELSE st[i - 1]
  BY <1>2, ConcatProperties
<1>4. longer[1] = f /\ \A i \in 1 .. Len(st) : longer[i + 1] = st[i]
  <2>1. ASSUME NEW i \in 1 .. Len(st) PROVE longer[i + 1] = st[i]
    <3>1. i + 1 \in 1 .. 1 + Len(st) /\ ~ (i + 1 <= 1) /\ (i + 1) - 1 = i
      BY <1>1
    <3> QED
      BY <1>3, <3>1
  <2> QED
    BY <1>1, <1>2, <1>3, <2>1
<1>5. longer # << >> /\ Head(longer) = f
  BY <1>1, <1>3, <1>4, EmptySeq
<1>6. Tail(longer) = st
  <2>1. /\ Tail(longer) \in Seq(Frames) /\ Len(Tail(longer)) = Len(st)
        /\ \A i \in 1 .. Len(st) : Tail(longer)[i] = longer[i + 1]
    BY <1>1, <1>3, <1>5, HeadTailProperties
  <2> QED
    BY <1>4, <2>1, SeqEqual
<1>7. \A i \in 1 .. Len(longer) : i = 1 \/ (i - 1 \in 1 .. Len(st) /\ longer[i] = st[i - 1])
  <2>1. ASSUME NEW i \in 1 .. Len(longer), i # 1
        PROVE  i - 1 \in 1 .. Len(st) /\ longer[i] = st[i - 1]
    <3>1. i - 1 \in 1 .. Len(st) /\ (i - 1) + 1 = i
      BY <1>1, <1>3, <2>1
    <3> QED
      BY <1>4, <3>1
  <2> QED
    BY <2>1
<1>8. Chain(longer)
  <2> SUFFICES ASSUME NEW i \in 1 .. Len(longer)
               PROVE  /\ Sound(longer[i])
                      /\ i < Len(longer) => CalledBy(longer[i], longer[i + 1])
                      /\ longer[i].do \in {"read", "write", "fill"} => i < Len(longer)
    BY DEF Chain
  <2>1. CASE i = 1
    <3>1. i < Len(longer) <=> st # << >>
      BY <1>1, <1>3, <2>1
    <3>2. st # << >> => longer[i + 1] = Head(st)
      BY <1>1, <1>4, <2>1
    <3> QED
      BY <1>4, <2>1, <3>1, <3>2
  <2>2. CASE i # 1
    <3>1. i - 1 \in 1 .. Len(st) /\ longer[i] = st[i - 1]
      BY <1>7, <2>2
    <3>2. /\ Sound(st[i - 1]) /\ (i - 1 < Len(st) => CalledBy(st[i - 1], st[(i - 1) + 1]))
          /\ st[i - 1].do \in {"read", "write", "fill"} => i - 1 < Len(st)
      BY <3>1 DEF Chain
    <3>3. (i - 1) + 1 = i /\ (i - 1 < Len(st) <=> i < Len(longer))
      BY <1>1, <1>3, <3>1
    <3>4. i < Len(longer) => longer[i + 1] = st[i]
      BY <1>1, <1>3, <1>4, <3>1
    <3> QED
      BY <3>1, <3>2, <3>3, <3>4
  <2> QED
    BY <2>1, <2>2
<1>9. Used(longer) = StreamsOf(f) \cup Used(st)
  <2>1. ASSUME NEW x \in Used(longer) PROVE x \in StreamsOf(f) \cup Used(st)
    <3>1. PICK i \in 1 .. Len(longer) : x \in StreamsOf(longer[i])
      BY <2>1 DEF Used
    <3> QED
      BY <1>4, <1>7, <3>1 DEF Used
  <2>2. StreamsOf(f) \subseteq Used(longer)
    <3>1. 1 \in 1 .. Len(longer)
      BY <1>1, <1>3
    <3> QED
      BY <1>4, <3>1 DEF Used
  <2>3. ASSUME NEW x \in Used(st) PROVE x \in Used(longer)
    <3>1. PICK i \in 1 .. Len(st) : x \in StreamsOf(st[i])
      BY <2>3 DEF Used
    <3>2. i + 1 \in 1 .. Len(longer)
      BY <1>1, <1>3
    <3> QED
      BY <1>4, <3>1, <3>2 DEF Used
  <2> QED
    BY <2>1, <2>2, <2>3
<1> QED
  BY <1>1, <1>3, <1>4, <1>5, <1>6, <1>8, <1>9

LEMMA ChainPop ==
  ASSUME NEW st \in Seq(Frames), st # << >>, Chain(st)
  PROVE  /\ Head(st) \in Frames /\ Sound(Head(st)) /\ Tail(st) \in Seq(Frames) /\ Chain(Tail(st))
         /\ Tail(st) # << >> => CalledBy(Head(st), Head(Tail(st)))
         /\ Head(st).do \in {"read", "write", "fill"} => Tail(st) # << >>
         /\ Used(st) = StreamsOf(Head(st)) \cup Used(Tail(st))
         /\ Len(st) = Len(Tail(st)) + 1 /\ \A i \in 1 .. Len(Tail(st)) : Tail(st)[i] = st[i + 1]
<1> DEFINE rest == Tail(st)
<1>1. /\ Len(st) \in Nat /\ Len(st) >= 1 /\ Head(st) = st[1] /\ Head(st) \in Frames
      /\ rest \in Seq(Frames) /\ Len(rest) = Len(st) - 1
      /\ \A i \in 1 .. Len(st) - 1 : rest[i] = st[i + 1]
  BY EmptySeq, HeadTailProperties
<1> HIDE DEF rest
<1>2. 1 \in 1 .. Len(st) /\ (rest = << >> <=> Len(rest) = 0) /\ (rest # << >> => Head(rest) = rest[1])
  BY <1>1, EmptySeq
<1>3. rest # << >> => Head(rest) = st[1 + 1] /\ 1 < Len(st)
  BY <1>1, <1>2
<1>4. Sound(Head(st)) /\ (rest # << >> => CalledBy(Head(st), Head(rest)))
  BY <1>1, <1>2, <1>3 DEF Chain
<1>5. Head(st).do \in {"read", "write", "fill"} => rest # << >>
  <2>1. Head(st).do \in {"read", "write", "fill"} => 1 < Len(st)
    BY <1>1, <1>2 DEF Chain
  <2> QED
    BY <1>1, <1>2, <2>1
<1>6. \A i \in 1 .. Len(rest) : i + 1 \in 1 .. Len(st) /\ rest[i] = st[i + 1]
  BY <1>1
<1>7. Chain(rest)
  <2> SUFFICES ASSUME NEW i \in 1 .. Len(rest)
               PROVE  /\ Sound(rest[i])
                      /\ i < Len(rest) => CalledBy(rest[i], rest[i + 1])
                      /\ rest[i].do \in {"read", "write", "fill"} => i < Len(rest)
    BY DEF Chain
  <2>1. i + 1 \in 1 .. Len(st) /\ rest[i] = st[i + 1]
    BY <1>6
  <2>2. /\ Sound(st[i + 1]) /\ (i + 1 < Len(st) => CalledBy(st[i + 1], st[(i + 1) + 1]))
        /\ st[i + 1].do \in {"read", "write", "fill"} => i + 1 < Len(st)
    BY <2>1 DEF Chain
  <2>3. i + 1 < Len(st) <=> i < Len(rest)
    BY <1>1
  <2>4. i < Len(rest) => rest[i + 1] = st[(i + 1) + 1]
    <3>1. i < Len(rest) => i + 1 \in 1 .. Len(rest)
      BY <1>1
    <3> QED
      BY <1>6, <3>1
  <2> QED
    BY <2>1, <2>2, <2>3, <2>4
<1>8. Used(st) = StreamsOf(Head(st)) \cup Used(rest)
  <2>1. ASSUME NEW x \in Used(st) PROVE x \in StreamsOf(Head(st)) \cup Used(rest)
    <3>1. PICK i \in 1 .. Len(st) : x \in StreamsOf(st[i])
      BY <2>1 DEF Used
    <3>2. CASE i = 1
      BY <1>1, <3>1, <3>2
    <3>3. CASE i # 1
      <4>1. i - 1 \in 1 .. Len(rest) /\ (i - 1) + 1 = i
        BY <1>1, <3>3
      <4> QED
        BY <1>6, <3>1, <4>1 DEF Used
    <3> QED
      BY <3>2, <3>3
  <2>2. StreamsOf(Head(st)) \subseteq Used(st)
    BY <1>1, <1>2 DEF Used
  <2>3. Used(rest) \subseteq Used(st)
    BY <1>6 DEF Used
  <2> QED
    BY <2>1, <2>2, <2>3
<1> QED
  BY <1>1, <1>4, <1>5, <1>7, <1>8 DEF rest

LEMMA ChainEmpty == << >> \in Seq(Frames) /\ Chain(<< >>) /\ Used(<< >>) = {} /\ Len(<< >>) = 0
<1>1. << >> \in Seq(Frames) /\ Len(<< >>) = 0
  BY EmptySeq
<1>2. 1 .. Len(<< >>) = {}
  BY <1>1
<1> QED
  BY <1>1, <1>2 DEF Chain, Used

-----------------------------------------------------------------------------
(* The types of all variables.                                             *)
StreamObjects ==
    [life : {"unused", "new", "open", "gone"}, fd : Fds \cup {0}, status : {"OK", "ERROR", "EOF"},
     in : Buffers, out : Buffers, tmp : {<< >>} \cup {<<b>> : b \in Buffers}, closed : SUBSET Streams]
ConnObjects ==
    [phase : {"none", "backlog", "connecting", "up"}, wire : Seq(Nat), sent : 0 .. MaxSent, fin : BOOLEAN,
     err : {"none", "reset", "pipe", "over"}, shut : BOOLEAN, written : Seq(Nat), flight : 0 .. Room]

StreamsOK ==
    /\ stream \in [Streams -> StreamObjects]
    /\ \A s \in Streams : stream[s].in.cap = Capacity /\ stream[s].out.cap = Capacity
ConnsOK == conn \in [Streams -> ConnObjects]
HistoryOK == taken \in [Streams -> Seq(Nat)] /\ accepted \in [Streams -> Seq(Nat)]

TypesOK ==
    /\ cur \in Coro \cup {NoOne} /\ down \in {"no", "aborted", "killed"}
    /\ StreamsOK /\ ConnsOK /\ HistoryOK
    /\ file \in [Fds -> Streams \cup {NoOne}]
    /\ reg \in [Fds \cup {0} -> [who : Coro \cup {NoOne}, on : {"absent", "off", "none", "in", "out"}]]
    /\ stack \in [Coro -> Seq(Frames)]

(* The streams in the calls of a coroutine are open, and only its own.     *)
StacksOK ==
    /\ \A c \in Coro : Chain(stack[c]) /\ \A s \in Used(stack[c]) : stream[s].life = "open"
    /\ \A c, d \in Coro : c # d => Used(stack[c]) \cap Used(stack[d]) = {}

(* A descriptor in use is one stream's, which keeps its number.            *)
FilesOK ==
    /\ \A f \in Fds : file[f] = NoOne => reg[f] = Absent
    /\ \A f, g \in Fds : file[f] = file[g] /\ file[f] # NoOne => f = g
    /\ \A f \in Fds : file[f] # NoOne => stream[file[f]].life \notin {"unused", "new"}
    /\ \A s \in Streams : stream[s].life = "open" => stream[s].fd \in Fds
    /\ \A s \in Streams : conn[s].phase = "backlog" => stream[s].life = "new"

(* Whoever does not run waits, and no two registrations are for him.       *)
Armed(f) == reg[f].on \in {"in", "out"}
Suspended(c) == stack[c] # << >> /\ c # cur /\ Head(stack[c]).at = "wait"
WaitsOK ==
    /\ \A c \in Coro : Waits(c) => Head(stack[c]).at = "wait"
    /\ \A f \in Fds \cup {0} :
        /\ reg[f].on = "none" => reg[f].who = NoOne
        /\ Armed(f) => reg[f].who \in Coro /\ Suspended(reg[f].who)
    /\ \A f, g \in Fds \cup {0} : Armed(f) /\ Armed(g) /\ reg[f].who = reg[g].who => f = g

(* What fill() and flush() leave for those who called them.                *)
HeadOK(f) ==
    /\ f.do = "get" /\ f.at = "filled" => stream[f.s].status # "OK" \/ Size(stream[f.s].in) >= f.n
    /\ f.do = "put" /\ f.at = "emptied" => stream[f.s].status # "OK" \/ Free(stream[f.s].out) >= f.n
HeadsOK == \A c \in Coro : stack[c] # << >> => HeadOK(Head(stack[c]))

StreamInv == TypesOK /\ StacksOK /\ FilesOK /\ WaitsOK /\ HeadsOK

(* The steps of one coroutine, c, from its stack to st: nobody else's      *)
(* streams change their lives.                                             *)
SameLives == \A s \in Streams : stream'[s].life = stream[s].life /\ stream'[s].fd = stream[s].fd
SamePhases == \A s \in Streams : conn'[s].phase = conn[s].phase

StackStep(c, st) ==
    /\ st \in Seq(Frames) /\ Chain(st) /\ stack' = [stack EXCEPT ![c] = st]
    /\ cur = c \/ (cur = NoOne /\ stack[c] = << >>)
    /\ \A s \in Used(st) : stream'[s].life = "open" /\ \A d \in Coro \ {c} : s \notin Used(stack[d])
    /\ \A d \in Coro \ {c} : \A s \in Used(stack[d]) : stream'[s].life = "open"

LEMMA UsedStreams ==
  ASSUME StreamInv, NEW c \in Coro
  PROVE  Used(stack[c]) \subseteq Streams /\ \A s \in Used(stack[c]) : stream[s].life = "open"
BY DEF StreamInv, StacksOK, Used, Chain, Sound

LEMMA StackStepStacks ==
  ASSUME StreamInv, NEW c \in Coro, NEW st, StackStep(c, st)
  PROVE  /\ StacksOK' /\ stack'[c] = st
         /\ \A d \in Coro : d # c => stack'[d] = stack[d]
<1>1. /\ stack'[c] = st
      /\ \A d \in Coro : d # c => stack'[d] = stack[d]
  BY DEF StreamInv, TypesOK, StackStep
<1>2. \A d \in Coro : Chain(stack'[d]) /\ \A s \in Used(stack'[d]) : stream'[s].life = "open"
  BY <1>1 DEF StackStep, StreamInv, StacksOK
<1>3. \A d, e \in Coro : d # e => Used(stack'[d]) \cap Used(stack'[e]) = {}
  BY <1>1, ZenonT(60) DEF StackStep, StreamInv, StacksOK
<1> QED
  BY <1>1, <1>2, <1>3 DEF StacksOK

LEMMA RunStep ==
  ASSUME StreamInv, NEW c \in Coro, NEW st, StackStep(c, st), cur' = c, TypesOK', FilesOK',
         \A f \in Fds \cup {0} : Armed(f)' => Armed(f) /\ reg'[f] = reg[f],
         \A f \in Fds \cup {0} : reg'[f].on = "none" => reg'[f].who = NoOne,
         st # << >> => HeadOK(Head(st))'
  PROVE  StreamInv'
<1>1. /\ StacksOK' /\ stack'[c] = st
      /\ \A d \in Coro : d # c => stack'[d] = stack[d]
  BY StackStepStacks
<1>2. \A d \in Coro : Waits(d)' => Waits(d) /\ d # c /\ stack'[d] = stack[d]
  <2>1. \A d \in Coro : d # c => cur # d
    BY StreamAssumption DEF StackStep
  <2> QED
    BY <1>1, <2>1 DEF Waits
<1>3. WaitsOK'
  <2>1. \A d \in Coro : Suspended(d) => Suspended(d)'
    <3>1. ASSUME NEW d \in Coro, Suspended(d) PROVE Suspended(d)'
      <4>1. d # c
        BY <3>1 DEF Suspended, StackStep
      <4> QED
        BY <1>1, <3>1, <4>1 DEF Suspended
    <3> QED
      BY <3>1
  <2>2. \A d \in Coro : Waits(d)' => Head(stack'[d]).at = "wait"
    BY <1>2 DEF StreamInv, WaitsOK
  <2>3. \A f \in Fds \cup {0} : Armed(f)' => reg'[f].who \in Coro /\ Suspended(reg[f].who)'
    <3>1. ASSUME NEW f \in Fds \cup {0}, Armed(f)' PROVE reg'[f].who \in Coro /\ Suspended(reg[f].who)'
      <4>1. PICK d \in Coro : d = reg[f].who /\ Suspended(d) /\ reg'[f] = reg[f]
        BY <3>1 DEF StreamInv, WaitsOK
      <4>2. Suspended(d)' /\ reg'[f].who = d
        BY <2>1, <4>1
      <4> QED
        BY <4>2 DEF Suspended
    <3> QED
      BY <3>1
  <2>4. \A f, g \in Fds \cup {0} : Armed(f)' /\ Armed(g)' /\ reg'[f].who = reg'[g].who => f = g
    BY DEF StreamInv, WaitsOK
  <2> QED
    BY <2>2, <2>3, <2>4 DEF WaitsOK
<1>4. HeadsOK'
  <2> SUFFICES ASSUME NEW d \in Coro, stack'[d] # << >>, NEW f, f = Head(stack'[d])
               PROVE  HeadOK(f)'
    BY DEF HeadsOK, HeadOK
  <2>1. CASE d = c
    BY <1>1, <2>1
  <2>2. CASE d # c
    <3>1. Waits(d)
      BY <1>1, <2>2, StreamAssumption DEF Waits, StackStep
    <3>2. f.at = "wait"
      BY <1>1, <2>2, <3>1 DEF StreamInv, WaitsOK
    <3> QED
      BY <3>2 DEF HeadOK
  <2> QED
    BY <2>1, <2>2
<1> QED
  BY <1>1, <1>3, <1>4 DEF StreamInv

(* c waits for a descriptor; whoever was registered for it is forgotten.   *)
LEMMA SuspendStep ==
  ASSUME StreamInv, NEW c \in Coro, NEW st, StackStep(c, st), cur' = NoOne, TypesOK', FilesOK',
         st # << >>, Head(st).at = "wait",
         NEW f \in Fds \cup {0}, NEW on \in {"in", "out"}, reg' = [reg EXCEPT ![f] = [who |-> c, on |-> on]]
  PROVE  StreamInv'
<1>1. /\ StacksOK' /\ stack'[c] = st
      /\ \A d \in Coro : d # c => stack'[d] = stack[d]
  BY StackStepStacks
<1>2. \A d \in Coro : d # c => cur # d
  BY StreamAssumption DEF StackStep
<1>3. \A d \in Coro : Waits(d)' => Head(stack'[d]).at = "wait"
  BY <1>1, <1>2 DEF Waits, StreamInv, WaitsOK
<1>4. Suspended(c)' /\ \A d \in Coro : Suspended(d) => d # c /\ Suspended(d)'
  <2>1. Suspended(c)'
    BY <1>1, StreamAssumption DEF Suspended
  <2>2. ASSUME NEW d \in Coro, Suspended(d) PROVE d # c /\ Suspended(d)'
    <3>1. d # c
      BY <2>2 DEF Suspended, StackStep
    <3> QED
      BY <1>1, <2>2, <3>1, StreamAssumption DEF Suspended
  <2> QED
    BY <2>1, <2>2
<1>5. /\ reg'[f].who = c /\ reg'[f].on = on
      /\ \A g \in Fds \cup {0} : g # f => reg'[g] = reg[g]
  BY DEF StreamInv, TypesOK
<1>6. ASSUME NEW g \in Fds \cup {0}, Armed(g)', g # f
      PROVE  reg'[g].who \in Coro \ {c} /\ Suspended(reg[g].who)'
  <2>1. PICK d \in Coro : d = reg[g].who /\ Suspended(d)
    BY <1>5, <1>6 DEF StreamInv, WaitsOK, Armed
  <2>2. Suspended(d)' /\ d # c /\ reg'[g].who = d
    BY <1>4, <1>5, <1>6, <2>1
  <2> QED
    BY <2>2 DEF Suspended
<1>7. WaitsOK'
  <2>1. ASSUME NEW g \in Fds \cup {0}, reg'[g].on = "none" PROVE reg'[g].who = NoOne
    <3>1. g # f
      BY <1>5, <2>1
    <3> QED
      BY <1>5, <2>1, <3>1 DEF StreamInv, WaitsOK
  <2>2. ASSUME NEW g \in Fds \cup {0}, Armed(g)' PROVE reg'[g].who \in Coro /\ Suspended(reg[g].who)'
    <3>1. CASE g = f
      BY <1>4, <1>5, <3>1 DEF Suspended
    <3>2. CASE g # f
      BY <1>6, <2>2, <3>2
    <3> QED
      BY <3>1, <3>2
  <2>3. ASSUME NEW g \in Fds \cup {0}, NEW h \in Fds \cup {0}, Armed(g)', Armed(h)', reg'[g].who = reg'[h].who
        PROVE  g = h
    <3>1. CASE g = f \/ h = f
      BY <1>5, <1>6, <2>3, <3>1
    <3>2. CASE g # f /\ h # f
      BY <1>5, <2>3, <3>2 DEF StreamInv, WaitsOK, Armed
    <3> QED
      BY <3>1, <3>2
  <2> QED
    BY <1>3, <2>1, <2>2, <2>3 DEF WaitsOK
<1>8. HeadsOK'
  <2> SUFFICES ASSUME NEW d \in Coro, stack'[d] # << >>, NEW g, g = Head(stack'[d])
               PROVE  HeadOK(g)'
    BY DEF HeadsOK, HeadOK
  <2>1. g.at = "wait"
    BY <1>3, StreamAssumption DEF Waits
  <2> QED
    BY <2>1 DEF HeadOK
<1> QED
  BY <1>1, <1>7, <1>8 DEF StreamInv

(* The kind of step that most are: c runs on.                              *)
LEMMA InnerStack ==
  ASSUME StreamInv, NEW c \in Coro, cur = c, NEW st \in Seq(Frames), Chain(st),
         Used(st) \subseteq Used(stack[c]), stack' = [stack EXCEPT ![c] = st], SameLives
  PROVE  StackStep(c, st)
<1>1. \A d \in Coro : \A s \in Used(stack[d]) : stream'[s].life = "open"
  BY UsedStreams DEF SameLives
<1> QED
  BY <1>1 DEF StackStep, StreamInv, StacksOK

LEMMA SameFiles ==
  ASSUME StreamInv, UNCHANGED <<file, reg>>, SameLives, SamePhases
  PROVE  FilesOK'
<1>1. \A f \in Fds : file[f] # NoOne => file[f] \in Streams
  BY DEF StreamInv, TypesOK
<1> QED
  BY <1>1 DEF StreamInv, FilesOK, SameLives, SamePhases

LEMMA InnerStep ==
  ASSUME StreamInv, NEW c \in Coro, cur = c, NEW st \in Seq(Frames), Chain(st),
         Used(st) \subseteq Used(stack[c]), stack' = [stack EXCEPT ![c] = st],
         UNCHANGED <<cur, file, reg>>, down' \in {"no", "aborted", "killed"},
         StreamsOK', ConnsOK', HistoryOK', SameLives, SamePhases,
         st # << >> => HeadOK(Head(st))'
  PROVE  StreamInv'
<1>1. StackStep(c, st) /\ FilesOK'
  BY InnerStack, SameFiles
<1>2. TypesOK'
  BY DEF StreamInv, TypesOK
<1>3. /\ \A f \in Fds \cup {0} : Armed(f)' => Armed(f) /\ reg'[f] = reg[f]
      /\ \A f \in Fds \cup {0} : reg'[f].on = "none" => reg'[f].who = NoOne
  <2>1. \A f \in Fds \cup {0} : reg[f].on = "none" => reg[f].who = NoOne
    BY DEF StreamInv, WaitsOK
  <2> QED
    BY <2>1 DEF Armed
<1> QED
  BY <1>1, <1>2, <1>3, RunStep

(* What the three moves of a frame do to the stack.                        *)
At(h, at, n) == [do |-> h.do, s |-> h.s, n |-> n, at |-> at]

LEMMA GotoStack ==
  ASSUME StreamInv, NEW c \in Coro, stack[c] # << >>, NEW at \in Labels, Goto(c, at)
  PROVE  \E st \in Seq(Frames), h \in Frames :
            /\ h = Head(stack[c]) /\ Sound(h)
            /\ stack' = [stack EXCEPT ![c] = st] /\ Chain(st) /\ Used(st) = Used(stack[c])
            /\ st # << >> /\ Head(st) = At(h, at, h.n) /\ Tail(st) = Tail(stack[c])
<1>1. stack[c] \in Seq(Frames) /\ Chain(stack[c]) /\ stack \in [Coro -> Seq(Frames)]
  BY DEF StreamInv, TypesOK, StacksOK
<1>2. PICK h \in Frames, rest \in Seq(Frames) :
         /\ h = Head(stack[c]) /\ rest = Tail(stack[c]) /\ Sound(h) /\ Chain(rest)
         /\ rest # << >> => CalledBy(h, Head(rest))
         /\ h.do \in {"read", "write", "fill"} => rest # << >>
         /\ Used(stack[c]) = StreamsOf(h) \cup Used(rest)
  <2>1. PICK low \in Seq(Frames) : low = stack[c]
    BY <1>1
  <2>2. Chain(low) /\ low # << >>
    BY <1>1, <2>1
  <2>3. /\ Head(low) \in Frames /\ Sound(Head(low)) /\ Tail(low) \in Seq(Frames) /\ Chain(Tail(low))
        /\ Tail(low) # << >> => CalledBy(Head(low), Head(Tail(low)))
        /\ Head(low).do \in {"read", "write", "fill"} => Tail(low) # << >>
        /\ Used(low) = StreamsOf(Head(low)) \cup Used(Tail(low))
    BY <2>2, ChainPop
  <2> QED
    BY <2>1, <2>3
<1>3. PICK g \in Frames : g = At(h, at, h.n)
  BY DEF Frames, At
<1>4. g.do = h.do /\ g.s = h.s /\ g.n = h.n /\ [h EXCEPT !.at = at] = g
  BY <1>3 DEF At, Frames
<1>5. Sound(g) /\ StreamsOf(g) = StreamsOf(h) /\ (rest # << >> => CalledBy(g, Head(rest)))
  BY <1>2, <1>4 DEF Sound, StreamsOf, CalledBy
<1>6. PICK st : st = <<g>> \o rest
  OBVIOUS
<1>7. /\ st \in Seq(Frames) /\ st # << >> /\ Head(st) = g /\ Tail(st) = rest
      /\ Chain(st) /\ Used(st) = StreamsOf(g) \cup Used(rest)
  <2>1. Pushable(g, rest)
    BY <1>2, <1>4, <1>5 DEF Pushable
  <2> QED
    BY <1>6, <2>1, ChainPush
<1>8. stack' = [stack EXCEPT ![c] = st]
  BY <1>1, <1>2, <1>4, <1>6 DEF Goto
<1> QED
  BY <1>2, <1>3, <1>5, <1>7, <1>8

LEMMA ReturnStack ==
  ASSUME StreamInv, NEW c \in Coro, stack[c] # << >>, Return(c)
  PROVE  \E st \in Seq(Frames), h \in Frames :
            /\ h = Head(stack[c]) /\ Sound(h)
            /\ stack' = [stack EXCEPT ![c] = st] /\ Chain(st) /\ Used(st) \subseteq Used(stack[c])
            /\ st = Tail(stack[c])
            /\ st # << >> => CalledBy(h, Head(st)) /\ Head(st) \in Frames /\ Sound(Head(st))
            /\ h.do \in {"read", "write", "fill"} => st # << >>
<1>1. stack[c] \in Seq(Frames) /\ Chain(stack[c]) /\ stack \in [Coro -> Seq(Frames)]
  BY DEF StreamInv, TypesOK, StacksOK
<1>2. PICK h \in Frames, rest \in Seq(Frames) :
         /\ h = Head(stack[c]) /\ rest = Tail(stack[c]) /\ Sound(h) /\ Chain(rest)
         /\ rest # << >> => CalledBy(h, Head(rest))
         /\ h.do \in {"read", "write", "fill"} => rest # << >>
         /\ Used(stack[c]) = StreamsOf(h) \cup Used(rest)
  <2>1. PICK low \in Seq(Frames) : low = stack[c]
    BY <1>1
  <2>2. Chain(low) /\ low # << >>
    BY <1>1, <2>1
  <2>3. /\ Head(low) \in Frames /\ Sound(Head(low)) /\ Tail(low) \in Seq(Frames) /\ Chain(Tail(low))
        /\ Tail(low) # << >> => CalledBy(Head(low), Head(Tail(low)))
        /\ Head(low).do \in {"read", "write", "fill"} => Tail(low) # << >>
        /\ Used(low) = StreamsOf(Head(low)) \cup Used(Tail(low))
    BY <2>2, ChainPop
  <2> QED
    BY <2>1, <2>3
<1>3. rest # << >> => Head(rest) \in Frames /\ Sound(Head(rest))
  BY <1>2, ChainPop
<1>4. stack' = [stack EXCEPT ![c] = rest]
  BY <1>1, <1>2 DEF Return
<1> QED
  BY <1>2, <1>3, <1>4

LEMMA CallStack ==
  ASSUME StreamInv, NEW c \in Coro, stack[c] # << >>, NEW f \in Frames, NEW at \in Labels,
         NEW n \in Nat \cup Streams, CallWith(c, f, at, n),
         NEW h, h = Head(stack[c]), Sound(f), CalledBy(f, At(h, at, n)), StreamsOf(f) \subseteq StreamsOf(h),
         n = h.n \/ (n \in Nat /\ h.do \in {"print", "readall"})
  PROVE  \E st \in Seq(Frames), rest \in Seq(Frames) :
            /\ h \in Frames /\ Sound(h)
            /\ stack' = [stack EXCEPT ![c] = st] /\ Chain(st) /\ Used(st) = Used(stack[c])
            /\ st # << >> /\ Head(st) = f /\ rest = Tail(st)
            /\ rest # << >> /\ Head(rest) = At(h, at, n) /\ Tail(rest) = Tail(stack[c])
<1>1. stack[c] \in Seq(Frames) /\ Chain(stack[c]) /\ stack \in [Coro -> Seq(Frames)]
  BY DEF StreamInv, TypesOK, StacksOK
<1>2. PICK low \in Seq(Frames) :
         /\ low = Tail(stack[c]) /\ h \in Frames /\ Sound(h) /\ Chain(low)
         /\ low # << >> => CalledBy(h, Head(low))
         /\ h.do \in {"read", "write", "fill"} => low # << >>
         /\ Used(stack[c]) = StreamsOf(h) \cup Used(low)
  BY <1>1, ChainPop
<1>3. PICK g \in Frames : g = At(h, at, n)
  BY <1>2 DEF Frames, At
<1>4. g.do = h.do /\ g.s = h.s /\ g.n = n
  BY <1>3 DEF At
<1>5. [h EXCEPT !.at = at, !.n = n] = g
  <2>1. PICK m : m = [h EXCEPT !.at = at]
    OBVIOUS
  <2>2. m = [do |-> h.do, s |-> h.s, n |-> h.n, at |-> at]
    BY <1>2, <2>1 DEF Frames
  <2>3. [m EXCEPT !.n = n] = g
    BY <1>3, <2>2, SMTT(30) DEF At
  <2> QED
    BY <2>1, <2>3
<1>6. Sound(g) /\ StreamsOf(g) = StreamsOf(h) /\ (low # << >> => CalledBy(g, Head(low)))
  BY <1>2, <1>4, ZenonT(60) DEF Sound, StreamsOf, CalledBy
<1>7. PICK rest : rest = <<g>> \o low
  OBVIOUS
<1>8. /\ rest \in Seq(Frames) /\ rest # << >> /\ Head(rest) = g /\ Tail(rest) = low
      /\ Chain(rest) /\ Used(rest) = StreamsOf(g) \cup Used(low)
  <2>1. Pushable(g, low)
    BY <1>2, <1>4, <1>6 DEF Pushable
  <2> QED
    BY <1>7, <2>1, ChainPush, ZenonT(60)
<1>9. PICK st : st = <<f>> \o rest
  OBVIOUS
<1>10. /\ st \in Seq(Frames) /\ st # << >> /\ Head(st) = f /\ Tail(st) = rest
       /\ Chain(st) /\ Used(st) = StreamsOf(f) \cup Used(rest)
  <2>1. CalledBy(f, g)
    BY <1>3
  <2>2. Pushable(f, rest)
    BY <1>8, <2>1 DEF Pushable
  <2> QED
    BY <1>9, <2>2, ChainPush, ZenonT(60)
<1>11. st = <<f, g>> \o low
  <2>1. <<f>> \in Seq(Frames) /\ <<g>> \in Seq(Frames)
    OBVIOUS
  <2>2. (<<f>> \o <<g>>) \o low = <<f>> \o (<<g>> \o low)
    BY <2>1, ConcatAssociative
  <2>3. <<f>> \o <<g>> = <<f, g>>
    <3>0. <<f, g>> \in Seq(Frames)
      OBVIOUS
    <3>1. PICK x \in Seq(Frames), y \in Seq(Frames), z \in Seq(Frames) : x = <<f>> /\ y = <<g>> /\ z = <<f, g>>
      BY <2>1, <3>0
    <3>2. Len(x) = 1 /\ Len(y) = 1 /\ Len(z) = 2 /\ x[1] = f /\ y[1] = g /\ z[1] = f /\ z[2] = g
      BY <3>1
    <3>3. /\ x \o y \in Seq(Frames) /\ Len(x \o y) = Len(x) + Len(y)
          /\ \A i \in 1 .. Len(x) + Len(y) : (x \o y)[i] = IF i <= Len(x) THEN x[i] ELSE y[i - Len(x)]
      BY ConcatProperties
    <3>4. (x \o y)[1] = f /\ (x \o y)[2] = g
      BY <3>2, <3>3
    <3>5. ASSUME NEW i \in 1 .. 2 PROVE (x \o y)[i] = z[i]
      <4>1. i = 1 \/ i = 2
        OBVIOUS
      <4> QED
        BY <3>2, <3>4, <4>1
    <3>6. x \o y = z
      BY <3>2, <3>3, <3>5, SeqEqual
    <3> QED
      BY <3>1, <3>6
  <2> QED
    BY <1>7, <1>9, <2>2, <2>3
<1>12. stack' = [stack EXCEPT ![c] = st]
  BY <1>1, <1>2, <1>5, <1>11 DEF CallWith
<1>13. Used(st) = Used(stack[c])
  BY <1>2, <1>6, <1>8, <1>10
<1> QED
  BY <1>2, <1>3, <1>8, <1>10, <1>12, <1>13

(* The steps of a running coroutine: it goes on, returns, or calls.        *)
DataStep ==
    /\ UNCHANGED <<cur, file, reg>> /\ down' \in {"no", "aborted", "killed"}
    /\ StreamsOK' /\ ConnsOK' /\ HistoryOK' /\ SameLives /\ SamePhases

LEMMA GoOn ==
  ASSUME StreamInv, NEW c \in Coro, cur = c, stack[c] # << >>, NEW at \in Labels, Goto(c, at), DataStep,
         NEW h, h = Head(stack[c]), h.do # "get" \/ at # "filled",
         h.do = "put" /\ at = "emptied" => stream'[h.s].status # "OK" \/ Free(stream'[h.s].out) >= h.n
  PROVE  StreamInv'
<1>1. PICK st \in Seq(Frames) :
         /\ stack' = [stack EXCEPT ![c] = st] /\ Chain(st) /\ Used(st) = Used(stack[c])
         /\ st # << >> /\ Head(st) = At(h, at, h.n)
  BY GotoStack
<1>2. PICK g : g = Head(st)
  OBVIOUS
<1>3. g.do = h.do /\ g.s = h.s /\ g.n = h.n /\ g.at = at
  BY <1>1, <1>2 DEF At
<1>4. HeadOK(g)'
  BY <1>3 DEF HeadOK
<1> QED
  BY <1>1, <1>2, <1>4, InnerStep DEF DataStep

LEMMA GoBack ==
  ASSUME StreamInv, NEW c \in Coro, cur = c, stack[c] # << >>, Return(c), DataStep,
         NEW h, h = Head(stack[c]),
         h.do = "fill" => stream'[h.s].status # "OK" \/ Size(stream'[h.s].in) >= h.n,
         h.do = "flush" => stream'[h.s].status # "OK" \/ Free(stream'[h.s].out) >= Capacity
  PROVE  StreamInv'
<1>1. PICK st \in Seq(Frames) :
         /\ stack' = [stack EXCEPT ![c] = st] /\ Chain(st) /\ Used(st) \subseteq Used(stack[c])
         /\ st # << >> => CalledBy(h, Head(st)) /\ Head(st) \in Frames /\ Sound(Head(st))
         /\ h \in Frames /\ Sound(h)
  BY ReturnStack
<1>2. ASSUME st # << >>, NEW g, g = Head(st) PROVE HeadOK(g)'
  <2>1. CalledBy(h, g) /\ Sound(g) /\ Sound(h)
    BY <1>1, <1>2
  <2>2. CASE g.do = "get"
    <3>1. h.do = "fill" /\ h.s = g.s /\ h.n = g.n
      BY <2>1, <2>2 DEF CalledBy
    <3> QED
      BY <2>2, <3>1 DEF HeadOK
  <2>3. CASE g.do = "put"
    <3>1. h.do = "flush" /\ h.s = g.s /\ g.n \in 0 .. Capacity /\ Capacity \in Nat
      BY <2>1, <2>3, StreamAssumption DEF CalledBy, Sound
    <3>2. Free(stream'[h.s].out) \in Int
      <4>1. h.s \in Streams
        BY <2>1, <3>1 DEF Sound, StreamsOf
      <4>2. stream'[h.s].out \in Buffers
        BY <4>1 DEF DataStep, StreamsOK, StreamObjects
      <4> QED
        BY <4>2, BufferBytes
    <3>3. stream'[h.s].status # "OK" \/ Free(stream'[h.s].out) >= g.n
      BY <3>1, <3>2
    <3> QED
      BY <2>3, <3>1, <3>3 DEF HeadOK
  <2> QED
    BY <2>2, <2>3 DEF HeadOK
<1> QED
  BY <1>1, <1>2, InnerStep DEF DataStep

LEMMA GoIn ==
  ASSUME StreamInv, NEW c \in Coro, cur = c, stack[c] # << >>, NEW f \in Frames, NEW at \in Labels,
         NEW n \in Nat \cup Streams, CallWith(c, f, at, n), DataStep,
         NEW h, h = Head(stack[c]), Sound(f), CalledBy(f, At(h, at, n)), StreamsOf(f) \subseteq StreamsOf(h),
         n = h.n \/ (n \in Nat /\ h.do \in {"print", "readall"}), f.at = "start"
  PROVE  StreamInv'
<1>1. PICK st \in Seq(Frames) :
         /\ stack' = [stack EXCEPT ![c] = st] /\ Chain(st) /\ Used(st) = Used(stack[c])
         /\ st # << >> /\ Head(st) = f
  BY CallStack
<1>2. HeadOK(f)'
  BY DEF HeadOK
<1> QED
  BY <1>1, <1>2, InnerStep DEF DataStep

(* What may become of one stream.                                          *)
LEMMA StreamFields ==
  ASSUME StreamsOK, NEW s \in Streams
  PROVE  /\ stream[s] \in StreamObjects
         /\ stream[s].in \in Buffers /\ stream[s].out \in Buffers
         /\ stream[s].in.cap = Capacity /\ stream[s].out.cap = Capacity
         /\ stream[s].tmp # << >> => stream[s].tmp \in {<<b>> : b \in Buffers} /\ stream[s].tmp[1] \in Buffers
         /\ Into(s) \in Buffers
         /\ stream[s].fd \in Fds \cup {0} /\ stream[s].closed \subseteq Streams
         /\ stream[s].status \in {"OK", "ERROR", "EOF"}
         /\ stream[s].life \in {"unused", "new", "open", "gone"}
<1>1. stream[s] \in StreamObjects /\ stream[s].in.cap = Capacity /\ stream[s].out.cap = Capacity
  BY DEF StreamsOK
<1>2. /\ stream[s].in \in Buffers /\ stream[s].out \in Buffers
      /\ stream[s].tmp \in {<< >>} \cup {<<b>> : b \in Buffers}
      /\ stream[s].fd \in Fds \cup {0} /\ stream[s].closed \subseteq Streams
      /\ stream[s].status \in {"OK", "ERROR", "EOF"}
      /\ stream[s].life \in {"unused", "new", "open", "gone"}
  BY <1>1 DEF StreamObjects
<1>3. ASSUME stream[s].tmp # << >> PROVE stream[s].tmp[1] \in Buffers
  <2>1. PICK b \in Buffers : stream[s].tmp = <<b>>
    BY <1>2, <1>3
  <2> QED
    BY <2>1
<1> QED
  BY <1>1, <1>2, <1>3 DEF Into

Others(s) == \A t \in Streams : t # s => stream'[t] = stream[t]

LEMMA SetIn ==
  ASSUME StreamsOK, NEW s \in Streams, NEW b \in Buffers, b.cap = Capacity,
         stream' = [stream EXCEPT ![s].in = b]
  PROVE  /\ StreamsOK' /\ SameLives /\ Others(s)
         /\ stream'[s] = [stream[s] EXCEPT !.in = b] /\ stream'[s].in = b
         /\ stream'[s].out = stream[s].out /\ stream'[s].tmp = stream[s].tmp
         /\ stream'[s].status = stream[s].status /\ stream'[s].closed = stream[s].closed
<1>1. stream \in [Streams -> StreamObjects] /\ stream[s] \in StreamObjects
  BY DEF StreamsOK
<1>2. [stream[s] EXCEPT !.in = b] \in StreamObjects
  BY <1>1 DEF StreamObjects
<1>3. stream'[s] = [stream[s] EXCEPT !.in = b] /\ Others(s)
  BY <1>1 DEF Others
<1>4. stream' \in [Streams -> StreamObjects]
  BY <1>1, <1>2
<1>5. /\ stream'[s].in = b /\ stream'[s].out = stream[s].out /\ stream'[s].tmp = stream[s].tmp
      /\ stream'[s].status = stream[s].status /\ stream'[s].closed = stream[s].closed
      /\ stream'[s].life = stream[s].life /\ stream'[s].fd = stream[s].fd
  BY <1>1, <1>3 DEF StreamObjects
<1> QED
  BY <1>3, <1>4, <1>5 DEF StreamsOK, SameLives, Others

LEMMA SetOut ==
  ASSUME StreamsOK, NEW s \in Streams, NEW b \in Buffers, b.cap = Capacity,
         stream' = [stream EXCEPT ![s].out = b]
  PROVE  /\ StreamsOK' /\ SameLives /\ Others(s)
         /\ stream'[s].out = b
         /\ stream'[s].in = stream[s].in /\ stream'[s].tmp = stream[s].tmp
         /\ stream'[s].status = stream[s].status /\ stream'[s].closed = stream[s].closed
<1>1. stream \in [Streams -> StreamObjects] /\ stream[s] \in StreamObjects
  BY DEF StreamsOK
<1>2. [stream[s] EXCEPT !.out = b] \in StreamObjects
  BY <1>1 DEF StreamObjects
<1>3. stream'[s] = [stream[s] EXCEPT !.out = b] /\ Others(s)
  BY <1>1 DEF Others
<1>4. stream' \in [Streams -> StreamObjects]
  BY <1>1, <1>2
<1>5. /\ stream'[s].out = b /\ stream'[s].in = stream[s].in /\ stream'[s].tmp = stream[s].tmp
      /\ stream'[s].status = stream[s].status /\ stream'[s].closed = stream[s].closed
      /\ stream'[s].life = stream[s].life /\ stream'[s].fd = stream[s].fd
  BY <1>1, <1>3 DEF StreamObjects
<1> QED
  BY <1>3, <1>4, <1>5 DEF StreamsOK, SameLives, Others

LEMMA SetTmp ==
  ASSUME StreamsOK, NEW s \in Streams, NEW b \in Buffers,
         stream' = [stream EXCEPT ![s].tmp = <<b>>]
  PROVE  /\ StreamsOK' /\ SameLives /\ Others(s)
         /\ stream'[s].tmp = <<b>>
         /\ stream'[s].in = stream[s].in /\ stream'[s].out = stream[s].out
         /\ stream'[s].status = stream[s].status /\ stream'[s].closed = stream[s].closed
<1>1. stream \in [Streams -> StreamObjects] /\ stream[s] \in StreamObjects
  BY DEF StreamsOK
<1>2. [stream[s] EXCEPT !.tmp = <<b>>] \in StreamObjects
  BY <1>1 DEF StreamObjects
<1>3. stream'[s] = [stream[s] EXCEPT !.tmp = <<b>>] /\ Others(s)
  BY <1>1 DEF Others
<1>4. stream' \in [Streams -> StreamObjects]
  BY <1>1, <1>2
<1>5. /\ stream'[s].tmp = <<b>> /\ stream'[s].in = stream[s].in /\ stream'[s].out = stream[s].out
      /\ stream'[s].status = stream[s].status /\ stream'[s].closed = stream[s].closed
      /\ stream'[s].life = stream[s].life /\ stream'[s].fd = stream[s].fd
  BY <1>1, <1>3 DEF StreamObjects
<1> QED
  BY <1>3, <1>4, <1>5 DEF StreamsOK, SameLives, Others

LEMMA SetStatus ==
  ASSUME StreamsOK, NEW s \in Streams, NEW what \in {"OK", "ERROR", "EOF"}, Status(s, what)
  PROVE  /\ StreamsOK' /\ SameLives /\ Others(s)
         /\ stream'[s].status = what
         /\ stream'[s].in = stream[s].in /\ stream'[s].out = stream[s].out
         /\ stream'[s].tmp = stream[s].tmp /\ stream'[s].closed = stream[s].closed
<1>1. stream \in [Streams -> StreamObjects] /\ stream[s] \in StreamObjects
  BY DEF StreamsOK
<1>2. [stream[s] EXCEPT !.status = what] \in StreamObjects
  BY <1>1 DEF StreamObjects
<1>3. stream'[s] = [stream[s] EXCEPT !.status = what] /\ Others(s)
  BY <1>1 DEF Others, Status
<1>4. stream' \in [Streams -> StreamObjects]
  BY <1>1, <1>2 DEF Status
<1>5. /\ stream'[s].status = what /\ stream'[s].in = stream[s].in /\ stream'[s].out = stream[s].out
      /\ stream'[s].tmp = stream[s].tmp /\ stream'[s].closed = stream[s].closed
      /\ stream'[s].life = stream[s].life /\ stream'[s].fd = stream[s].fd
  BY <1>1, <1>3 DEF StreamObjects
<1>6. \A t \in Streams : stream'[t].in = stream[t].in /\ stream'[t].out = stream[t].out
  BY <1>3, <1>5 DEF Others
<1>7. StreamsOK'
  BY <1>4, <1>6 DEF StreamsOK
<1>8. SameLives
  BY <1>3, <1>5 DEF SameLives, Others
<1> QED
  BY <1>3, <1>5, <1>7, <1>8

LEMMA SameStreams ==
  ASSUME StreamsOK, UNCHANGED stream
  PROVE  StreamsOK' /\ SameLives
BY DEF StreamsOK, SameLives

-----------------------------------------------------------------------------
(* The actions.  What is known of the frame that runs:                     *)
Active(c, h, do, at) ==
    /\ h = Head(stack[c]) /\ h.do = do /\ h.at = at /\ S(c) = h.s /\ N(c) = h.n
    /\ cur = c /\ stack[c] # << >> /\ h \in Frames /\ Sound(h) /\ HeadOK(h)
    /\ \A s \in StreamsOf(h) : s \in Streams /\ stream[s].life = "open" /\ stream[s].fd \in Fds
    /\ h.do # "accept" => h.s \in StreamsOf(h)

LEMMA Running ==
  ASSUME StreamInv, NEW c \in Coro, NEW do, NEW at, Doing(c, do, at)
  PROVE  \E h \in Frames : Active(c, h, do, at)
<1>1. PICK st \in Seq(Frames) : st = stack[c] /\ Chain(st) /\ st # << >>
  BY DEF StreamInv, TypesOK, StacksOK, Doing
<1>2. PICK h \in Frames : h = Head(st) /\ Sound(h) /\ StreamsOf(h) \subseteq Used(st)
  BY <1>1, ChainPop
<1>3. HeadOK(h)
  BY <1>1, <1>2 DEF StreamInv, HeadsOK
<1>4. \A s \in StreamsOf(h) : s \in Streams /\ stream[s].life = "open" /\ stream[s].fd \in Fds
  <2>1. \A s \in Used(stack[c]) : s \in Streams /\ stream[s].life = "open"
    BY UsedStreams
  <2> QED
    BY <1>1, <1>2, <2>1 DEF StreamInv, FilesOK
<1>5. h.do # "accept" => h.s \in StreamsOf(h)
  BY DEF StreamsOf
<1> QED
  BY <1>1, <1>2, <1>3, <1>4, <1>5 DEF Active, Doing, S, N

LEMMA DataChanged ==
  ASSUME StreamInv, UNCHANGED <<cur, file, reg, conn, down, taken, accepted>>, StreamsOK', SameLives
  PROVE  DataStep
<1>1. ConnsOK' /\ HistoryOK' /\ SamePhases /\ down' \in {"no", "aborted", "killed"}
  BY DEF StreamInv, TypesOK, ConnsOK, HistoryOK, SamePhases
<1> QED
  BY <1>1 DEF DataStep

LEMMA NothingChanged ==
  ASSUME StreamInv, UNCHANGED <<cur, stream, file, reg, conn, down, taken, accepted>>
  PROVE  DataStep
<1>1. StreamsOK' /\ SameLives
  BY SameStreams DEF StreamInv, TypesOK
<1> QED
  BY <1>1, DataChanged

(* The calls that one function makes of the next.                          *)
LEMMA CallsFlush ==
  ASSUME StreamInv, NEW c \in Coro, NEW do \in {"put", "pipe", "end", "close"}, Doing(c, do, "start"),
         NEW at \in Labels, Call(c, Frame("flush", S(c), 0), at), DataStep
  PROVE  StreamInv'
<1>1. PICK h \in Frames : Active(c, h, do, "start")
  BY Running
<1>2. PICK f : f = Frame("flush", h.s, 0)
  OBVIOUS
<1>3. h.s \in StreamsOf(h) /\ h.s \in Streams
  BY <1>1 DEF Active
<1>4. /\ f \in Frames /\ f.at = "start" /\ f.do = "flush" /\ f.s = h.s /\ StreamsOf(f) = {h.s}
  BY <1>2, <1>3 DEF Frame, Frames, Routines, Labels, StreamsOf
<1>5. Sound(f) /\ CalledBy(f, At(h, at, h.n)) /\ StreamsOf(f) \subseteq StreamsOf(h)
  BY <1>1, <1>3, <1>4 DEF Active, Sound, CalledBy, At
<1>6. CallWith(c, f, at, h.n) /\ h.n \in Nat \cup Streams
  BY <1>1, <1>2 DEF Active, Call, Frames
<1> QED
  BY <1>1, <1>4, <1>5, <1>6, GoIn, ZenonT(60) DEF Active, Labels

LEMMA CallsRead ==
  ASSUME StreamInv, NEW c \in Coro, NEW do \in {"fill", "peek", "readall"}, Doing(c, do, "start"),
         NEW at \in Labels, NEW n \in Nat \cup Streams, n = N(c) \/ (n \in Nat /\ do = "readall"),
         CallWith(c, Frame("read", S(c), 0), at, n), DataStep
  PROVE  StreamInv'
<1>1. PICK h \in Frames : Active(c, h, do, "start")
  BY Running
<1>2. PICK f : f = Frame("read", h.s, 0)
  OBVIOUS
<1>3. h.s \in StreamsOf(h) /\ h.s \in Streams
  BY <1>1 DEF Active
<1>4. /\ f \in Frames /\ f.at = "start" /\ f.do = "read" /\ f.s = h.s /\ StreamsOf(f) = {h.s}
  BY <1>2, <1>3 DEF Frame, Frames, Routines, Labels, StreamsOf
<1>5. Sound(f) /\ CalledBy(f, At(h, at, n)) /\ StreamsOf(f) \subseteq StreamsOf(h)
  BY <1>1, <1>3, <1>4 DEF Active, Sound, CalledBy, At
<1>6. CallWith(c, f, at, n) /\ (n = h.n \/ (n \in Nat /\ h.do \in {"print", "readall"}))
  BY <1>1, <1>2 DEF Active
<1> QED
  BY <1>1, <1>4, <1>5, <1>6, GoIn DEF Active, Labels

LEMMA GetStep ==
  ASSUME StreamInv, NEW c \in Coro, Get(c)
  PROVE  StreamInv'
<1>1. PICK h \in Frames : Active(c, h, "get", "start")
  BY Running DEF Get
<1>2. DataStep
  BY NothingChanged DEF Get, Quiet, kernel, history
<1>3. PICK f : f = Frame("fill", h.s, h.n)
  OBVIOUS
<1>4. h.s \in StreamsOf(h) /\ h.s \in Streams
  BY <1>1 DEF Active
<1>5. /\ f \in Frames /\ f.at = "start" /\ f.do = "fill" /\ f.s = h.s /\ f.n = h.n /\ StreamsOf(f) = {h.s}
  BY <1>3, <1>4 DEF Frame, Frames, Routines, Labels, StreamsOf
<1>6. Sound(f) /\ CalledBy(f, At(h, "filled", h.n)) /\ StreamsOf(f) \subseteq StreamsOf(h)
  BY <1>1, <1>4, <1>5 DEF Active, Sound, CalledBy, At
<1>7. CallWith(c, f, "filled", h.n) /\ h.n \in Nat \cup Streams
  BY <1>1, <1>3 DEF Active, Get, Call, Frames
<1> QED
  BY <1>1, <1>2, <1>5, <1>6, <1>7, GoIn DEF Active, Labels

LEMMA ScanStep ==
  ASSUME StreamInv, NEW c \in Coro, Scan(c)
  PROVE  StreamInv'
<1>1. PICK h \in Frames : Active(c, h, "scan", "start")
  BY Running DEF Scan
<1>2. DataStep
  BY NothingChanged DEF Scan, Quiet, kernel, history
<1>3. PICK f : f = Frame("get", h.s, 1)
  OBVIOUS
<1>4. h.s \in StreamsOf(h) /\ h.s \in Streams
  BY <1>1 DEF Active
<1>5. /\ f \in Frames /\ f.at = "start" /\ f.do = "get" /\ f.s = h.s /\ f.n = 1 /\ StreamsOf(f) = {h.s}
  BY <1>3, <1>4 DEF Frame, Frames, Routines, Labels, StreamsOf
<1>6. Sound(f) /\ CalledBy(f, At(h, "got", h.n)) /\ StreamsOf(f) \subseteq StreamsOf(h)
  BY <1>1, <1>4, <1>5, StreamAssumption DEF Active, Sound, CalledBy, At
<1>7. CallWith(c, f, "got", h.n) /\ h.n \in Nat \cup Streams
  BY <1>1, <1>3 DEF Active, Scan, Call, Frames
<1> QED
  BY <1>1, <1>2, <1>5, <1>6, <1>7, GoIn DEF Active, Labels

LEMMA PutAllStep ==
  ASSUME StreamInv, NEW c \in Coro, PutAll(c)
  PROVE  StreamInv'
<1>1. PICK h \in Frames : Active(c, h, "print", "start")
  BY Running DEF PutAll
<1>2. DataStep
  BY NothingChanged DEF PutAll, Quiet, kernel, history
<1>3. CASE h.n = 0
  <2>1. Return(c)
    BY <1>1, <1>3 DEF PutAll, Active
  <2> QED
    BY <1>1, <1>2, <2>1, GoBack DEF Active
<1>4. CASE h.n # 0
  <2>1. h.n \in Nat /\ h.n - 1 \in Nat
    BY <1>1, <1>4 DEF Active, Sound
  <2>2. PICK f : f = Frame("put", h.s, 1)
    OBVIOUS
  <2>3. h.s \in StreamsOf(h) /\ h.s \in Streams
    BY <1>1 DEF Active
  <2>4. /\ f \in Frames /\ f.at = "start" /\ f.do = "put" /\ f.s = h.s /\ f.n = 1 /\ StreamsOf(f) = {h.s}
    BY <2>2, <2>3 DEF Frame, Frames, Routines, Labels, StreamsOf
  <2>5. Sound(f) /\ CalledBy(f, At(h, "start", h.n - 1)) /\ StreamsOf(f) \subseteq StreamsOf(h)
    BY <1>1, <2>3, <2>4, StreamAssumption DEF Active, Sound, CalledBy, At
  <2>6. CallWith(c, f, "start", h.n - 1)
    BY <1>1, <1>4, <2>2 DEF Active, PutAll
  <2> QED
    BY <1>1, <1>2, <2>1, <2>4, <2>5, <2>6, GoIn DEF Active, Labels
<1> QED
  BY <1>3, <1>4

LEMMA DestroyStep ==
  ASSUME StreamInv, NEW c \in Coro, Destroy(c)
  PROVE  StreamInv'
<1>1. PICK h \in Frames : Active(c, h, "destroy", "start")
  BY Running DEF Destroy
<1>2. DataStep
  BY NothingChanged DEF Destroy, Quiet, kernel, history
<1>3. PICK f : f = Frame("close", h.s, 0)
  OBVIOUS
<1>4. h.s \in StreamsOf(h) /\ h.s \in Streams
  BY <1>1 DEF Active
<1>5. /\ f \in Frames /\ f.at = "start" /\ f.do = "close" /\ f.s = h.s /\ StreamsOf(f) = {h.s}
  BY <1>3, <1>4 DEF Frame, Frames, Routines, Labels, StreamsOf
<1>6. Sound(f) /\ CalledBy(f, At(h, "closed", h.n)) /\ StreamsOf(f) \subseteq StreamsOf(h)
  BY <1>1, <1>4, <1>5 DEF Active, Sound, CalledBy, At
<1>7. CallWith(c, f, "closed", h.n) /\ h.n \in Nat \cup Streams
  BY <1>1, <1>3 DEF Active, Destroy, Call, Frames
<1> QED
  BY <1>1, <1>2, <1>5, <1>6, <1>7, GoIn DEF Active, Labels

(* The steps that leave the streams alone.                                 *)
LEMMA PlainSteps ==
  ASSUME StreamInv, NEW c \in Coro,
         ReadAgain(c) \/ GetFails(c) \/ PeekEnd(c) \/ ScanEnd(c) \/ ReadMore(c) \/ PutStart(c)
         \/ Pipe(c) \/ End(c) \/ Close(c)
  PROVE  StreamInv'
<1> DEFINE Plain == UNCHANGED <<cur, stream, file, reg, conn, down, taken, accepted>>
<1>1. ReadAgain(c) => Plain
  BY DEF ReadAgain, kernel, history
<1>2. GetFails(c) => Plain
  BY DEF GetFails, kernel, history
<1>3. PeekEnd(c) => Plain
  BY DEF PeekEnd, kernel, history
<1>4. /\ ScanEnd(c) => Plain
      /\ ReadMore(c) => Plain
      /\ PutStart(c) => Plain
      /\ Pipe(c) => Plain
      /\ End(c) => Plain
      /\ Close(c) => Plain
  BY DEF ScanEnd, ReadMore, PutStart, Pipe, End, Close, Quiet, kernel, history
<1>5. DataStep
  BY <1>1, <1>2, <1>3, <1>4, NothingChanged
<1> HIDE DEF Plain
<1>6. ASSUME ReadAgain(c) PROVE StreamInv'
  <2>1. PICK h \in Frames : Active(c, h, "read", "start")
    BY <1>6, Running DEF ReadAgain
  <2> QED
    BY <1>5, <1>6, <2>1, GoBack DEF Active, ReadAgain
<1>7. ASSUME GetFails(c) PROVE StreamInv'
  <2>1. PICK h \in Frames : Active(c, h, "get", "filled")
    BY <1>7, Running, SMTT(30) DEF GetFails
  <2> QED
    BY <1>5, <1>7, <2>1, GoBack DEF Active, GetFails
<1>8. ASSUME PeekEnd(c) PROVE StreamInv'
  <2>1. PICK h \in Frames : Active(c, h, "peek", "peeked")
    BY <1>8, Running DEF PeekEnd
  <2> QED
    BY <1>5, <1>8, <2>1, GoBack DEF Active, PeekEnd
<1>9. ASSUME ScanEnd(c) PROVE StreamInv'
  <2>1. PICK h \in Frames : Active(c, h, "scan", "got")
    BY <1>9, Running DEF ScanEnd
  <2>2. CASE Return(c)
    BY <1>5, <2>1, <2>2, GoBack DEF Active
  <2>3. CASE Goto(c, "start")
    BY <1>5, <2>1, <2>3, GoOn DEF Active, Labels
  <2> QED
    BY <1>9, <2>2, <2>3 DEF ScanEnd
<1>10. ASSUME ReadMore(c) PROVE StreamInv'
  <2>1. PICK h \in Frames : Active(c, h, "readall", "more")
    BY <1>10, Running DEF ReadMore
  <2>2. PICK at \in Labels : Goto(c, at)
    BY <1>10 DEF ReadMore, Labels
  <2> QED
    BY <1>5, <2>1, <2>2, GoOn DEF Active, Labels
<1>11. ASSUME PutStart(c) PROVE StreamInv'
  <2>1. PICK h \in Frames : Active(c, h, "put", "start")
    BY <1>11, Running DEF PutStart
  <2>2. CASE stream[h.s].out.cap - stream[h.s].out.end < h.n
    <3>1. Call(c, Frame("flush", S(c), 0), "emptied") /\ Doing(c, "put", "start")
      BY <1>11, <2>1, <2>2 DEF PutStart, Active
    <3> QED
      BY <1>5, <3>1, CallsFlush DEF Labels
  <2>3. CASE ~ (stream[h.s].out.cap - stream[h.s].out.end < h.n)
    <3>1. Goto(c, "emptied") /\ stream' = stream
      BY <1>11, <2>1, <2>3 DEF PutStart, Active
    <3>2. stream[h.s].out \in Buffers /\ h.n \in Nat
      BY <2>1, StreamFields, StreamAssumption DEF Active, Sound, StreamInv, TypesOK
    <3>3. Free(stream[h.s].out) >= h.n
      BY <2>3, <3>2, BufferFields DEF Free
    <3> QED
      BY <1>5, <2>1, <3>1, <3>3, GoOn DEF Active, Labels
  <2> QED
    BY <2>2, <2>3
<1>12. ASSUME Pipe(c) \/ End(c) \/ Close(c) PROVE StreamInv'
  <2>1. PICK do \in {"pipe", "end", "close"}, at \in Labels :
           Doing(c, do, "start") /\ Call(c, Frame("flush", S(c), 0), at)
    BY <1>12 DEF Pipe, End, Close, Labels
  <2> QED
    BY <1>5, <2>1, CallsFlush
<1> QED
  BY <1>6, <1>7, <1>8, <1>9, <1>10, <1>11, <1>12

(* The steps that change one buffer or the status.                         *)
LEMMA InChanged ==
  ASSUME StreamInv, NEW s \in Streams, NEW b \in Buffers, b.cap = Capacity, stream' = [stream EXCEPT ![s].in = b],
         UNCHANGED <<cur, file, reg, conn, down, taken, accepted>>
  PROVE  DataStep /\ stream'[s].in = b /\ stream'[s].status = stream[s].status /\ stream'[s].out = stream[s].out
<1>1. StreamsOK /\ stream' = [stream EXCEPT ![s].in = b]
  BY DEF StreamInv, TypesOK, InputChanged
<1>2. /\ StreamsOK' /\ SameLives
      /\ stream'[s].in = b /\ stream'[s].status = stream[s].status /\ stream'[s].out = stream[s].out
  BY <1>1, SetIn
<1> QED
  BY <1>2, DataChanged

LEMMA StatusChanged ==
  ASSUME StreamInv, NEW s \in Streams, NEW what \in {"OK", "ERROR", "EOF"}, Status(s, what),
         UNCHANGED <<cur, file, reg, conn, down, taken, accepted>>
  PROVE  DataStep /\ stream'[s].status = what
<1>1. StreamsOK
  BY DEF StreamInv, TypesOK
<1>2. StreamsOK' /\ SameLives /\ stream'[s].status = what
  BY <1>1, SetStatus
<1> QED
  BY <1>2, DataChanged

LEMMA HeadFields ==
  ASSUME StreamInv, NEW c \in Coro, NEW h, NEW do, NEW at, Active(c, h, do, at), do # "accept"
  PROVE  /\ h.s \in Streams
         /\ stream[h.s].in \in Buffers /\ stream[h.s].out \in Buffers
         /\ stream[h.s].in.cap = Capacity /\ stream[h.s].out.cap = Capacity
         /\ Into(h.s) \in Buffers
<1>1. h.s \in Streams /\ StreamsOK
  BY DEF Active, StreamInv, TypesOK
<1> QED
  BY <1>1, StreamFields

LEMMA FillStep ==
  ASSUME StreamInv, NEW c \in Coro, Fill(c)
  PROVE  StreamInv'
<1>1. PICK h \in Frames : Active(c, h, "fill", "start")
  BY Running DEF Fill
<1>2. /\ h.s \in Streams /\ stream[h.s].in \in Buffers /\ stream[h.s].in.cap = Capacity
      /\ h.n \in 0 .. Capacity /\ Capacity \in Nat
  BY <1>1, HeadFields, StreamAssumption DEF Active, Sound
<1>3. PICK b : b = IF Size(stream[h.s].in) < h.n THEN Buffer_compact(stream[h.s].in) ELSE stream[h.s].in
  OBVIOUS
<1>4. b \in Buffers /\ b.cap = Capacity /\ Size(b) = Size(stream[h.s].in) /\ Size(b) \in Nat
  BY <1>2, <1>3, BufferCompact, BufferBytes
<1>5. UNCHANGED <<cur, file, reg, conn, down, taken, accepted>>
  BY DEF Fill, Quiet, kernel, history
<1>6. CASE Size(b) < h.n
  <2>1. stream' = [stream EXCEPT ![h.s].in = b] /\ Call(c, Frame("read", h.s, 0), "filled") /\ Doing(c, "fill", "start")
    BY <1>1, <1>3, <1>6 DEF Fill, Active, InputChanged
  <2>2. DataStep
    BY <1>2, <1>4, <1>5, <2>1, InChanged
  <2>3. /\ CallWith(c, Frame("read", S(c), 0), "filled", N(c)) /\ N(c) \in Nat \cup Streams
        /\ Doing(c, "fill", "start")
    BY <1>1, <2>1 DEF Active, Call, Frames
  <2> QED
    BY <2>2, <2>3, CallsRead DEF Labels
<1>7. CASE ~ (Size(b) < h.n)
  <2>1. Return(c) /\ stream' = stream
    BY <1>1, <1>3, <1>7 DEF Fill, Active
  <2>2. DataStep
    BY <1>5, <2>1, NothingChanged
  <2>3. Size(stream'[h.s].in) >= h.n
    BY <1>2, <1>4, <1>7, <2>1
  <2> QED
    BY <1>1, <2>1, <2>2, <2>3, GoBack DEF Active
<1> QED
  BY <1>6, <1>7

LEMMA FillEndStep ==
  ASSUME StreamInv, NEW c \in Coro, FillEnd(c)
  PROVE  StreamInv'
<1>1. PICK h \in Frames : Active(c, h, "fill", "filled")
  BY Running DEF FillEnd
<1>2. h.s \in Streams /\ stream[h.s].in \in Buffers /\ h.n \in 0 .. Capacity /\ Capacity \in Nat
  BY <1>1, HeadFields, StreamAssumption DEF Active, Sound
<1>3. Size(stream[h.s].in) \in Nat
  BY <1>2, BufferBytes
<1>4. UNCHANGED <<cur, file, reg, conn, down, taken, accepted>> /\ Return(c)
  BY DEF FillEnd, Quiet, kernel, history
<1>5. CASE Size(stream[h.s].in) < h.n
  <2>1. Status(h.s, "EOF")
    BY <1>1, <1>5 DEF FillEnd, Active
  <2>2. DataStep /\ stream'[h.s].status = "EOF"
    BY <1>2, <1>4, <2>1, StatusChanged
  <2> QED
    BY <1>1, <1>4, <2>2, GoBack DEF Active
<1>6. CASE ~ (Size(stream[h.s].in) < h.n)
  <2>1. stream' = stream
    BY <1>1, <1>6 DEF FillEnd, Active
  <2>2. DataStep /\ Size(stream'[h.s].in) >= h.n
    BY <1>2, <1>3, <1>4, <1>6, <2>1, NothingChanged
  <2> QED
    BY <1>1, <1>4, <2>2, GoBack DEF Active
<1> QED
  BY <1>5, <1>6

LEMMA HistoryGrows ==
  ASSUME StreamInv, NEW s \in Streams, NEW x \in Seq(Nat),
         \/ taken' = [taken EXCEPT ![s] = @ \o x] /\ UNCHANGED accepted
         \/ accepted' = [accepted EXCEPT ![s] = @ \o x] /\ UNCHANGED taken
  PROVE  HistoryOK'
<1>1. taken \in [Streams -> Seq(Nat)] /\ accepted \in [Streams -> Seq(Nat)]
  BY DEF StreamInv, TypesOK, HistoryOK
<1>2. taken[s] \in Seq(Nat) /\ accepted[s] \in Seq(Nat)
  BY <1>1
<1>3. taken[s] \o x \in Seq(Nat) /\ accepted[s] \o x \in Seq(Nat)
  BY <1>2, ConcatProperties
<1> QED
  BY <1>1, <1>3 DEF HistoryOK

LEMMA DataTaken ==
  ASSUME StreamInv, UNCHANGED <<cur, file, reg, conn, down>>, StreamsOK', SameLives, HistoryOK'
  PROVE  DataStep
<1>1. ConnsOK' /\ SamePhases /\ down' \in {"no", "aborted", "killed"}
  BY DEF StreamInv, TypesOK, ConnsOK, SamePhases
<1> QED
  BY <1>1 DEF DataStep

LEMMA GetTakesStep ==
  ASSUME StreamInv, NEW c \in Coro, GetTakes(c)
  PROVE  StreamInv'
<1>1. PICK h \in Frames : Active(c, h, "get", "filled")
  BY Running DEF GetTakes
<1>2. /\ h.s \in Streams /\ stream[h.s].in \in Buffers /\ stream[h.s].in.cap = Capacity
      /\ h.n \in 0 .. Capacity /\ Capacity \in Nat
  BY <1>1, HeadFields, StreamAssumption DEF Active, Sound
<1>3. h.n \in 0 .. Size(stream[h.s].in)
  <2>1. Size(stream[h.s].in) >= h.n
    BY <1>1, ZenonT(60) DEF GetTakes, Active, HeadOK
  <2> QED
    BY <1>2, <2>1, BufferBytes, SMTT(30)
<1>4. PICK b, x : b = Skip(stream[h.s].in, h.n) /\ x = SubSeq(Bytes(stream[h.s].in), 1, h.n)
  OBVIOUS
<1>5. b \in Buffers /\ b.cap = Capacity /\ x \in Seq(Nat)
  BY <1>2, <1>3, <1>4, BufferSkip
<1>6. stream' = [stream EXCEPT ![h.s].in = b] /\ taken' = [taken EXCEPT ![h.s] = @ \o x] /\ UNCHANGED accepted
  BY <1>1, <1>4, ZenonT(60) DEF GetTakes, Active
<1>7. StreamsOK' /\ SameLives
  BY <1>2, <1>5, <1>6, SetIn DEF StreamInv, TypesOK
<1>8. HistoryOK'
  BY <1>2, <1>5, <1>6, HistoryGrows
<1>9. UNCHANGED <<cur, file, reg, conn, down>> /\ Return(c)
  BY DEF GetTakes, kernel
<1>10. DataStep
  BY <1>7, <1>8, <1>9, DataTaken
<1> QED
  BY <1>1, <1>9, <1>10, GoBack DEF Active

LEMMA PeekStep ==
  ASSUME StreamInv, NEW c \in Coro, Peek(c)
  PROVE  StreamInv'
<1>1. PICK h \in Frames : Active(c, h, "peek", "start")
  BY Running DEF Peek
<1>2. h.s \in Streams /\ stream[h.s].in \in Buffers /\ stream[h.s].in.cap = Capacity
  BY <1>1, HeadFields
<1>3. UNCHANGED <<cur, file, reg, conn, down, taken, accepted>>
  BY DEF Peek, Quiet, kernel, history
<1>4. CASE Size(stream[h.s].in) = 0
  <2>1. PICK b : b = Rewound(stream[h.s].in)
    OBVIOUS
  <2>2. /\ stream' = [stream EXCEPT ![h.s].in = b] /\ Doing(c, "peek", "start")
        /\ CallWith(c, Frame("read", S(c), 0), "peeked", N(c)) /\ N(c) \in Nat \cup Streams
    BY <1>1, <1>4, <2>1 DEF Peek, Active, InputChanged, Call, Frames
  <2>3. b \in Buffers /\ b.cap = Capacity
    BY <1>2, <2>1, BufferRewound
  <2>4. DataStep
    BY <1>2, <1>3, <2>2, <2>3, InChanged
  <2> QED
    BY <2>2, <2>4, CallsRead DEF Labels
<1>5. CASE Size(stream[h.s].in) # 0
  <2>1. Goto(c, "peeked") /\ UNCHANGED stream
    BY <1>1, <1>5 DEF Peek, Active
  <2>2. DataStep
    BY <1>3, <2>1, NothingChanged
  <2> QED
    BY <1>1, <2>1, <2>2, GoOn DEF Active, Labels
<1> QED
  BY <1>4, <1>5

LEMMA ReadAllStep ==
  ASSUME StreamInv, NEW c \in Coro, ReadAll(c)
  PROVE  StreamInv'
<1>1. PICK h \in Frames : Active(c, h, "readall", "start")
  BY Running DEF ReadAll
<1>2. h.s \in Streams /\ Into(h.s) \in Buffers
  BY <1>1, HeadFields
<1>3. UNCHANGED <<cur, file, reg, conn, down, taken, accepted>>
  BY DEF ReadAll, Quiet, kernel, history
<1>4. PICK b : b = Into(h.s)
  OBVIOUS
<1>5. CallWith(c, Frame("read", S(c), 0), "more", Size(b)) /\ Size(b) \in Nat /\ Doing(c, "readall", "start")
  BY <1>1, <1>2, <1>4, BufferBytes DEF ReadAll, Active
<1>6. DataStep
  <2>1. CASE b.end = b.cap
    <3>1. PICK d : d = Doubled(b)
      OBVIOUS
    <3>2. stream' = [stream EXCEPT ![h.s].tmp = <<d>>] /\ d \in Buffers
      BY <1>1, <1>2, <1>4, <2>1, <3>1, BufferDoubled DEF ReadAll, Active
    <3>3. StreamsOK' /\ SameLives
      BY <1>2, <3>2, SetTmp DEF StreamInv, TypesOK
    <3> QED
      BY <1>3, <3>3, DataChanged
  <2>2. CASE b.end # b.cap
    <3>1. UNCHANGED stream
      BY <1>1, <1>4, <2>2 DEF ReadAll, Active
    <3> QED
      BY <1>3, <3>1, NothingChanged
  <2> QED
    BY <2>1, <2>2
<1> QED
  BY <1>5, <1>6, CallsRead DEF Labels

LEMMA ReadAllEndStep ==
  ASSUME StreamInv, NEW c \in Coro, ReadAllEnd(c)
  PROVE  StreamInv'
<1>1. PICK h, at : Active(c, h, "readall", at)
  BY Running DEF ReadAllEnd
<1>2. /\ h.s \in Streams /\ stream[h.s].in \in Buffers /\ stream[h.s].in.cap = Capacity
      /\ Into(h.s) \in Buffers
  BY <1>1, HeadFields
<1>3. PICK b, x : b = Rewound(stream[h.s].in) /\ x = Bytes(Into(h.s))
  OBVIOUS
<1>4. b \in Buffers /\ b.cap = Capacity /\ x \in Seq(Nat)
  BY <1>2, <1>3, BufferRewound, BufferBytes, SMTT(30)
<1>5. /\ stream' = [stream EXCEPT ![h.s].in = b, ![h.s].tmp = << >>]
      /\ taken' = [taken EXCEPT ![h.s] = @ \o x] /\ UNCHANGED accepted
  BY <1>1, <1>3, ZenonT(60) DEF ReadAllEnd, Active
<1>6. StreamsOK' /\ SameLives
  <2>1. stream \in [Streams -> StreamObjects] /\ stream[h.s] \in StreamObjects
        /\ \A s \in Streams : stream[s].in.cap = Capacity /\ stream[s].out.cap = Capacity
    BY <1>2 DEF StreamInv, TypesOK, StreamsOK
  <2>2. PICK m, n : m = [stream[h.s] EXCEPT !.in = b] /\ n = [m EXCEPT !.tmp = << >>]
    OBVIOUS
  <2>3. /\ m \in StreamObjects /\ m.in = b /\ m.out = stream[h.s].out
        /\ m.life = stream[h.s].life /\ m.fd = stream[h.s].fd
    BY <1>4, <2>1, <2>2 DEF StreamObjects
  <2>4. /\ n \in StreamObjects /\ n.in = b /\ n.out = stream[h.s].out
        /\ n.life = stream[h.s].life /\ n.fd = stream[h.s].fd
    BY <2>2, <2>3 DEF StreamObjects
  <2>5. stream' = [stream EXCEPT ![h.s] = n]
    <3>1. PICK t : t = [stream EXCEPT ![h.s].in = b]
      OBVIOUS
    <3>2. t = [stream EXCEPT ![h.s] = m] /\ t[h.s] = m /\ stream' = [t EXCEPT ![h.s].tmp = << >>]
      BY <1>2, <1>5, <2>1, <2>2, <3>1
    <3>3. [t EXCEPT ![h.s].tmp = << >>] = [t EXCEPT ![h.s] = n]
      BY <2>2, <3>2
    <3> QED
      BY <1>2, <2>1, <3>2, <3>3
  <2>6. stream'[h.s] = n /\ \A s \in Streams : s # h.s => stream'[s] = stream[s]
    BY <1>2, <2>1, <2>5
  <2>7. StreamsOK'
    <3>1. stream' \in [Streams -> StreamObjects]
      BY <2>1, <2>4, <2>5
    <3>2. \A s \in Streams : stream'[s].in.cap = Capacity /\ stream'[s].out.cap = Capacity
      BY <1>2, <1>4, <2>1, <2>4, <2>6
    <3> QED
      BY <3>1, <3>2 DEF StreamsOK
  <2> QED
    BY <2>4, <2>6, <2>7 DEF SameLives
<1>7. HistoryOK'
  BY <1>2, <1>4, <1>5, HistoryGrows
<1>8. UNCHANGED <<cur, file, reg, conn, down>> /\ Return(c)
  BY DEF ReadAllEnd, kernel
<1>9. DataStep
  BY <1>6, <1>7, <1>8, DataTaken
<1> QED
  BY <1>1, <1>8, <1>9, GoBack DEF Active

LEMMA OutChanged ==
  ASSUME StreamInv, NEW s \in Streams, NEW b \in Buffers, b.cap = Capacity,
         stream' = [stream EXCEPT ![s].out = b],
         UNCHANGED <<cur, file, reg, conn, down, taken>>, HistoryOK'
  PROVE  DataStep /\ stream'[s].out = b /\ stream'[s].status = stream[s].status
<1>1. StreamsOK
  BY DEF StreamInv, TypesOK
<1>2. StreamsOK' /\ SameLives /\ stream'[s].out = b /\ stream'[s].status = stream[s].status
  BY <1>1, SetOut
<1> QED
  BY <1>2, DataTaken

LEMMA FlushStep ==
  ASSUME StreamInv, NEW c \in Coro, Flush(c)
  PROVE  StreamInv'
<1>1. PICK h \in Frames : Active(c, h, "flush", "start")
  BY Running DEF Flush
<1>2. h.s \in Streams /\ stream[h.s].out \in Buffers /\ stream[h.s].out.cap = Capacity
  BY <1>1, HeadFields
<1>3. UNCHANGED <<cur, file, reg, conn, down, taken, accepted>>
  BY DEF Flush, Quiet, kernel, history
<1>4. CASE Size(stream[h.s].out) = 0
  <2>1. PICK b : b = Rewound(stream[h.s].out)
    OBVIOUS
  <2>2. b \in Buffers /\ b.cap = Capacity /\ Free(b) = Capacity
    BY <1>2, <2>1, BufferRewound
  <2>3. Return(c) /\ stream' = [stream EXCEPT ![h.s].out = b]
    BY <1>1, <1>4, <2>1 DEF Flush, Active
  <2>4. DataStep /\ stream'[h.s].out = b
    BY <1>2, <1>3, <2>2, <2>3, OutChanged DEF StreamInv, TypesOK, HistoryOK
  <2>5. Free(stream'[h.s].out) >= Capacity
    BY <2>2, <2>4, StreamAssumption
  <2> QED
    BY <1>1, <2>3, <2>4, <2>5, GoBack DEF Active
<1>5. CASE Size(stream[h.s].out) # 0 /\ stream[h.s].status = "ERROR"
  <2>1. Return(c) /\ UNCHANGED stream
    BY <1>1, <1>5 DEF Flush, Active
  <2>2. DataStep /\ stream'[h.s].status # "OK"
    BY <1>3, <1>5, <2>1, NothingChanged
  <2> QED
    BY <1>1, <2>1, <2>2, GoBack DEF Active
<1>6. CASE Size(stream[h.s].out) # 0 /\ stream[h.s].status # "ERROR"
  <2>1. PICK f : f = Frame("write", h.s, h.s)
    OBVIOUS
  <2>2. CallWith(c, f, "start", h.n) /\ UNCHANGED stream /\ h.n \in Nat \cup Streams
    BY <1>1, <1>6, <2>1 DEF Flush, Active, Call, Frames
  <2>3. DataStep
    BY <1>3, <2>2, NothingChanged
  <2>4. /\ f \in Frames /\ f.at = "start" /\ f.do = "write" /\ f.s = h.s /\ f.n = h.s
        /\ StreamsOf(f) = {h.s}
    BY <1>2, <2>1 DEF Frame, Frames, Routines, Labels, StreamsOf
  <2>5. Sound(f) /\ CalledBy(f, At(h, "start", h.n)) /\ StreamsOf(f) \subseteq StreamsOf(h)
    BY <1>1, <1>2, <2>4 DEF Active, Sound, CalledBy, At
  <2> QED
    BY <1>1, <2>2, <2>3, <2>4, <2>5, GoIn DEF Active, Labels
<1> QED
  BY <1>4, <1>5, <1>6

LEMMA PutEndStep ==
  ASSUME StreamInv, NEW c \in Coro, PutEnd(c)
  PROVE  StreamInv'
<1>1. PICK h \in Frames : Active(c, h, "put", "emptied")
  BY Running DEF PutEnd
<1>2. /\ h.s \in Streams /\ stream[h.s].out \in Buffers /\ stream[h.s].out.cap = Capacity
      /\ h.n \in 0 .. Capacity /\ Capacity \in Nat /\ h.n \in Nat
  BY <1>1, HeadFields, StreamAssumption DEF Active, Sound
<1>3. UNCHANGED <<cur, file, reg, conn, down, taken>> /\ Return(c)
  BY DEF PutEnd, Quiet, kernel, history
<1>4. CASE stream[h.s].status # "OK"
  <2>1. UNCHANGED <<stream, accepted>>
    BY <1>1, <1>4 DEF PutEnd, Active
  <2>2. DataStep
    BY <1>3, <2>1, NothingChanged
  <2> QED
    BY <1>1, <1>3, <2>2, GoBack DEF Active
<1>5. CASE stream[h.s].status = "OK"
  <2>1. PICK x : x = Next_(h.s, h.n)
    OBVIOUS
  <2>2. x \in Seq(Nat) /\ Len(x) = h.n
    <3>1. Len(accepted[h.s]) \in Nat
      BY <1>2, LenProperties DEF StreamInv, TypesOK, HistoryOK
    <3>2. x = [i \in 1 .. h.n |-> Len(accepted[h.s]) + i]
      BY <2>1 DEF Next_
    <3> QED
      BY <1>2, <3>1, <3>2
  <2>3. PICK b : b = Filled(stream[h.s].out, x)
    BY Zenon
  <2>4. /\ stream' = [stream EXCEPT ![h.s].out = b]
        /\ accepted' = [accepted EXCEPT ![h.s] = @ \o x]
    <3>1. S(c) = h.s /\ N(c) = h.n
      BY <1>1 DEF Active
    <3>2. /\ stream' = [stream EXCEPT ![h.s].out = Filled(@, Next_(h.s, h.n))]
          /\ accepted' = [accepted EXCEPT ![h.s] = @ \o Next_(h.s, h.n)]
      BY <1>5, <3>1, Zenon DEF PutEnd
    <3> QED
      BY <2>1, <2>3, <3>2
  <2>5. Free(stream[h.s].out) >= h.n
    BY <1>1, <1>5 DEF Active, HeadOK
  <2>6. b \in Buffers /\ b.cap = Capacity
    <3>1. Len(x) <= Free(stream[h.s].out)
      BY <1>2, <2>2, <2>5, BufferBytes
    <3> QED
      BY <1>2, <2>2, <2>3, <3>1, BufferFilled
  <2>7. HistoryOK'
    BY <1>2, <1>3, <2>2, <2>4, HistoryGrows
  <2>8. DataStep
    BY <1>2, <1>3, <2>4, <2>6, <2>7, OutChanged
  <2> QED
    BY <1>1, <1>3, <2>8, GoBack DEF Active
<1> QED
  BY <1>4, <1>5

LEMMA PipeNextStep ==
  ASSUME StreamInv, NEW c \in Coro, PipeNext(c)
  PROVE  StreamInv'
<1>1. PICK h \in Frames : Active(c, h, "pipe", "next")
  BY Running DEF PipeNext
<1>2. PICK t : t = h.n
  OBVIOUS
<1>3. /\ h.s \in Streams /\ t \in Streams /\ t # h.s /\ StreamsOf(h) = {h.s, t}
      /\ stream[t].in \in Buffers /\ stream[t].in.cap = Capacity
  <2>1. StreamsOf(h) = {h.s, t} /\ h.s \in Streams /\ t \in Streams /\ t # h.s
    BY <1>1, <1>2 DEF Active, StreamsOf, Sound
  <2> QED
    BY <2>1, StreamFields DEF StreamInv, TypesOK
<1>4. UNCHANGED <<cur, file, reg, conn, down, taken, accepted>>
  BY DEF PipeNext, Quiet, kernel, history
<1>5. \/ Return(c) /\ UNCHANGED stream
      \/ Call(c, Frame("write", h.s, t), "next") /\ UNCHANGED stream
      \/ InputChanged(c, t, Rewound(stream[t].in)) /\ Call(c, Frame("read", t, 0), "next")
  BY <1>1, <1>2 DEF PipeNext, Active
<1>6. CASE Return(c) /\ UNCHANGED stream
  <2>1. DataStep
    BY <1>4, <1>6, NothingChanged
  <2> QED
    BY <1>1, <1>6, <2>1, GoBack DEF Active
<1>7. CASE Call(c, Frame("write", h.s, t), "next") /\ UNCHANGED stream
  <2>1. DataStep
    BY <1>4, <1>7, NothingChanged
  <2>2. PICK f : f = Frame("write", h.s, t)
    OBVIOUS
  <2>3. /\ f \in Frames /\ f.at = "start" /\ f.do = "write" /\ f.s = h.s /\ f.n = t
        /\ StreamsOf(f) = {h.s, t}
    BY <1>3, <2>2 DEF Frame, Frames, Routines, Labels, StreamsOf
  <2>4. Sound(f) /\ CalledBy(f, At(h, "next", h.n)) /\ StreamsOf(f) \subseteq StreamsOf(h)
    BY <1>1, <1>2, <1>3, <2>3 DEF Active, Sound, CalledBy, At
  <2>5. CallWith(c, f, "next", h.n) /\ h.n \in Nat \cup Streams
    BY <1>1, <1>7, <2>2 DEF Active, Call, Frames
  <2> QED
    BY <1>1, <2>1, <2>3, <2>4, <2>5, GoIn DEF Active, Labels
<1>8. CASE InputChanged(c, t, Rewound(stream[t].in)) /\ Call(c, Frame("read", t, 0), "next")
  <2>1. PICK b : b = Rewound(stream[t].in)
    OBVIOUS
  <2>2. b \in Buffers /\ b.cap = Capacity /\ stream' = [stream EXCEPT ![t].in = b]
    BY <1>3, <1>8, <2>1, BufferRewound DEF InputChanged
  <2>3. DataStep
    BY <1>3, <1>4, <2>2, InChanged
  <2>4. PICK f : f = Frame("read", t, 0)
    OBVIOUS
  <2>5. /\ f \in Frames /\ f.at = "start" /\ f.do = "read" /\ f.s = t /\ StreamsOf(f) = {t}
    BY <1>3, <2>4 DEF Frame, Frames, Routines, Labels, StreamsOf
  <2>6. Sound(f) /\ CalledBy(f, At(h, "next", h.n)) /\ StreamsOf(f) \subseteq StreamsOf(h)
    BY <1>1, <1>2, <1>3, <2>5 DEF Active, Sound, CalledBy, At
  <2>7. CallWith(c, f, "next", h.n) /\ h.n \in Nat \cup Streams
    BY <1>1, <1>8, <2>4 DEF Active, Call, Frames
  <2> QED
    BY <1>1, <2>3, <2>5, <2>6, <2>7, GoIn DEF Active, Labels
<1> QED
  BY <1>5, <1>6, <1>7, <1>8

(* The steps that change a connection.                                     *)
LEMMA ConnChanged ==
  ASSUME ConnsOK, NEW o \in Streams, NEW k \in ConnObjects, k.phase = conn[o].phase,
         conn' = [conn EXCEPT ![o] = k]
  PROVE  ConnsOK' /\ SamePhases
BY DEF ConnsOK, SamePhases

LEMMA ConnFields ==
  ASSUME ConnsOK, NEW o \in Streams
  PROVE  /\ conn[o] \in ConnObjects /\ conn[o].wire \in Seq(Nat) /\ conn[o].written \in Seq(Nat)
         /\ conn[o].flight \in 0 .. Room /\ conn[o].sent \in 0 .. MaxSent
         /\ conn[o].fin \in BOOLEAN
BY DEF ConnsOK, ConnObjects

LEMMA ErrorOver ==
  ASSUME ConnsOK, NEW o \in Streams, conn' = [conn EXCEPT ![o].err = "over"]
  PROVE  ConnsOK' /\ SamePhases
<1>1. PICK k : k = [conn[o] EXCEPT !.err = "over"]
  OBVIOUS
<1>2. conn[o] \in ConnObjects
  BY ConnFields
<1>3. k \in ConnObjects /\ k.phase = conn[o].phase
  BY <1>1, <1>2 DEF ConnObjects
<1>4. conn' = [conn EXCEPT ![o] = k]
  BY <1>1 DEF ConnsOK
<1> QED
  BY <1>3, <1>4, ConnChanged

LEMMA EndShutsStep ==
  ASSUME StreamInv, NEW c \in Coro, EndShuts(c)
  PROVE  StreamInv'
<1>1. PICK h \in Frames : Active(c, h, "end", "flushed")
  BY Running DEF EndShuts
<1>2. h.s \in Streams /\ stream[h.s].fd \in Fds
  BY <1>1 DEF Active
<1>3. ConnsOK' /\ SamePhases
  <2>1. CASE UNCHANGED conn
    BY <2>1 DEF StreamInv, TypesOK, ConnsOK, SamePhases
  <2>2. CASE ~ UNCHANGED conn
    <3>1. PICK o : o = file[stream[h.s].fd]
      OBVIOUS
    <3>2. o \in Streams /\ conn' = [conn EXCEPT ![o].shut = TRUE]
      BY <1>1, <1>2, <2>2, <3>1 DEF EndShuts, Active, StreamInv, TypesOK
    <3>3. PICK k : k = [conn[o] EXCEPT !.shut = TRUE]
      OBVIOUS
    <3>4. ConnsOK /\ conn[o] \in ConnObjects
      BY <3>2, ConnFields DEF StreamInv, TypesOK
    <3>5. k \in ConnObjects /\ k.phase = conn[o].phase
      BY <3>3, <3>4 DEF ConnObjects
    <3>6. conn' = [conn EXCEPT ![o] = k]
      BY <3>2, <3>3, <3>4 DEF ConnsOK
    <3> QED
      BY <3>2, <3>4, <3>5, <3>6, ConnChanged
  <2> QED
    BY <2>1, <2>2
<1>4. UNCHANGED <<cur, stream, file, reg, down, taken, accepted>> /\ Return(c)
  BY DEF EndShuts, history
<1>5. DataStep
  BY <1>3, <1>4, SameStreams DEF DataStep, StreamInv, TypesOK, HistoryOK
<1> QED
  BY <1>1, <1>4, <1>5, GoBack DEF Active

LEMMA ConnectedStep ==
  ASSUME StreamInv, NEW c \in Coro, Connected(c)
  PROVE  StreamInv'
<1>1. PICK h \in Frames : Active(c, h, "connect", "go")
  BY Running DEF Connected
<1>2. h.s \in Streams
  BY <1>1 DEF Active
<1>3. UNCHANGED <<cur, file, reg, down, taken, accepted>> /\ Return(c)
  BY DEF Connected, history
<1>4. CASE UNCHANGED <<stream, conn>>
  <2>1. DataStep
    BY <1>3, <1>4, NothingChanged
  <2> QED
    BY <1>1, <1>3, <2>1, GoBack DEF Active
<1>5. CASE Status(h.s, "ERROR") /\ conn' = [conn EXCEPT ![h.s].err = "over"]
  <2>1. StreamsOK' /\ SameLives /\ ConnsOK' /\ SamePhases
    BY <1>2, <1>5, SetStatus, ErrorOver DEF StreamInv, TypesOK
  <2>2. DataStep
    BY <1>3, <2>1 DEF DataStep, StreamInv, TypesOK, HistoryOK
  <2> QED
    BY <1>1, <1>3, <2>2, GoBack DEF Active
<1> QED
  BY <1>1, <1>4, <1>5 DEF Connected, Active

LEMMA MinOfTwo ==
  ASSUME NEW m \in Nat, NEW n \in Nat
  PROVE  Min({m, n}) \in {m, n} /\ Min({m, n}) \in Nat /\ Min({m, n}) <= m /\ Min({m, n}) <= n
<1>1. PICK k \in {m, n} : (\A x \in {m, n} : k <= x) /\ k = CHOOSE x \in {m, n} : \A y \in {m, n} : x =< y
  BY LesserOfTwo
<1>2. Min({m, n}) = k
  BY <1>1 DEF Min
<1> QED
  BY <1>1, <1>2

LEMMA SplitAt ==
  ASSUME NEW x \in Seq(Nat), NEW k \in 0 .. Len(x)
  PROVE  /\ SubSeq(x, 1, k) \in Seq(Nat) /\ Len(SubSeq(x, 1, k)) = k
         /\ SubSeq(x, k + 1, Len(x)) \in Seq(Nat) /\ Len(SubSeq(x, k + 1, Len(x))) = Len(x) - k
         /\ SubSeq(x, 1, k) \o SubSeq(x, k + 1, Len(x)) = x
<1> DEFINE a == SubSeq(x, 1, k)
           b == SubSeq(x, k + 1, Len(x))
<1>1. k \in Nat /\ Len(x) \in Nat /\ k <= Len(x) /\ k + 1 \in 1 .. Len(x) + 1
  BY LenProperties
<1>2. a \in Seq(Nat) /\ Len(a) = k /\ \A i \in 1 .. k : a[i] = x[i]
  BY Prefix
<1>3. b \in Seq(Nat) /\ Len(b) = Len(x) - k /\ \A i \in 1 .. Len(x) - k : b[i] = x[i + k]
  <2>1. \A i \in k + 1 .. Len(x) : x[i] \in Nat
    BY <1>1, ElementOfSeq
  <2>2. b \in Seq(Nat)
    BY <1>1, <2>1, SubSeqProperties
  <2>3. /\ Len(b) = IF k + 1 <= Len(x) THEN Len(x) - (k + 1) + 1 ELSE 0
        /\ \A i \in 1 .. Len(x) - (k + 1) + 1 : b[i] = x[k + 1 + i - 1]
    BY <1>1, SubSeqProperties
  <2>4. Len(x) - (k + 1) + 1 = Len(x) - k /\ (~ (k + 1 <= Len(x)) => Len(x) - k = 0)
    BY <1>1
  <2>5. \A i \in 1 .. Len(x) - k : k + 1 + i - 1 = i + k
    BY <1>1
  <2> QED
    BY <2>2, <2>3, <2>4, <2>5
<1> HIDE DEF a, b
<1>4. /\ a \o b \in Seq(Nat) /\ Len(a \o b) = Len(x)
      /\ \A i \in 1 .. Len(x) : (a \o b)[i] = IF i <= k THEN a[i] ELSE b[i - k]
  <2>1. Len(a) + Len(b) = Len(x)
    BY <1>1, <1>2, <1>3
  <2>2. /\ a \o b \in Seq(Nat) /\ Len(a \o b) = Len(a) + Len(b)
        /\ \A i \in 1 .. Len(a) + Len(b) : (a \o b)[i] = IF i <= Len(a) THEN a[i] ELSE b[i - Len(a)]
    BY <1>2, <1>3, ConcatProperties, SMTT(30)
  <2> QED
    BY <1>2, <2>1, <2>2
<1>5. ASSUME NEW i \in 1 .. Len(x) PROVE (a \o b)[i] = x[i]
  <2>1. i <= k \/ i > k
    BY <1>1
  <2>2. CASE i <= k
    BY <1>1, <1>2, <1>4, <2>2
  <2>3. CASE i > k
    <3>1. i - k \in 1 .. Len(x) - k /\ (i - k) + k = i /\ ~ (i <= k)
      BY <1>1, <2>3
    <3> QED
      BY <1>3, <1>4, <3>1
  <2> QED
    BY <2>1, <2>2, <2>3
<1>6. a \o b = x
  BY <1>4, <1>5, SeqEqual
<1> QED
  BY <1>2, <1>3, <1>6 DEF a, b

LEMMA WireCut ==
  ASSUME ConnsOK, NEW o \in Streams, NEW k \in 0 .. Len(conn[o].wire),
         conn' = [conn EXCEPT ![o].wire = SubSeq(@, k + 1, Len(@))]
  PROVE  ConnsOK' /\ SamePhases
<1>1. PICK g : g = [conn[o] EXCEPT !.wire = SubSeq(conn[o].wire, k + 1, Len(conn[o].wire))]
  OBVIOUS
<1>2. conn[o] \in ConnObjects /\ conn[o].wire \in Seq(Nat)
  BY ConnFields
<1>3. SubSeq(conn[o].wire, k + 1, Len(conn[o].wire)) \in Seq(Nat)
  BY <1>2, SplitAt
<1>4. g \in ConnObjects /\ g.phase = conn[o].phase
  BY <1>1, <1>2, <1>3 DEF ConnObjects
<1>5. conn' = [conn EXCEPT ![o] = g]
  BY <1>1 DEF ConnsOK
<1> QED
  BY <1>4, <1>5, ConnChanged

LEMMA ReadGoStep ==
  ASSUME StreamInv, NEW c \in Coro, ReadGo(c)
  PROVE  StreamInv'
<1>1. PICK h \in Frames : Active(c, h, "read", "go")
  BY Running DEF ReadGo
<1>2. /\ h.s \in Streams /\ stream[h.s].in \in Buffers /\ stream[h.s].in.cap = Capacity
      /\ Into(h.s) \in Buffers
  BY <1>1, HeadFields
<1>3. PICK o : o = file[stream[h.s].fd]
  OBVIOUS
<1>4. o \in Streams \cup {NoOne}
  BY <1>1, <1>2, <1>3 DEF Active, StreamInv, TypesOK
<1>5. UNCHANGED <<cur, file, reg, down, taken, accepted>> /\ Return(c)
  BY DEF ReadGo, history
<1>6. StreamsOK /\ ConnsOK
  BY DEF StreamInv, TypesOK
<1>7. /\ UNCHANGED conn => ConnsOK' /\ SamePhases
      /\ UNCHANGED stream => StreamsOK' /\ SameLives
      /\ \A what \in {"ERROR", "EOF"} : Status(h.s, what) => StreamsOK' /\ SameLives
  BY <1>2, <1>6, SameStreams, SetStatus, SMTT(30) DEF ConnsOK, SamePhases
<1>8. \/ o # NoOne /\ (ReadBytes(c, h.s, o) \/ ReadNothing(h.s, o) \/ ReadError(h.s, o))
      \/ o = NoOne /\ Status(h.s, "ERROR") /\ UNCHANGED conn
  BY <1>1, <1>3 DEF ReadGo, Active
<1>9. StreamsOK' /\ SameLives /\ ConnsOK' /\ SamePhases
  <2>1. CASE o # NoOne /\ ReadBytes(c, h.s, o)
    <3>1. o \in Streams /\ conn[o].wire \in Seq(Nat) /\ Len(conn[o].wire) \in Nat
      BY <1>4, <1>6, <2>1, ConnFields, LenProperties
    <3>2. PICK b : b = Into(h.s)
      OBVIOUS
    <3>3. b \in Buffers /\ b.cap - b.end = Free(b) /\ Free(b) \in Nat
      BY <1>2, <3>2, BufferBytes DEF Free
    <3>4. PICK k : k = Min({b.cap - b.end, Len(conn[o].wire)})
      OBVIOUS
    <3>5. k \in Nat /\ k <= Free(b) /\ k <= Len(conn[o].wire) /\ k \in 0 .. Len(conn[o].wire)
      BY <3>1, <3>3, <3>4, MinOfTwo
    <3>6. PICK x : x = SubSeq(conn[o].wire, 1, k)
      OBVIOUS
    <3>7. x \in Seq(Nat) /\ Len(x) = k
      BY <3>1, <3>5, <3>6, SplitAt
    <3>8. PICK d : d = Filled(b, x)
      OBVIOUS
    <3>9. d \in Buffers /\ d.cap = b.cap
      BY <3>3, <3>5, <3>7, <3>8, BufferFilled
    <3>10. /\ stream' = Put(h.s, d)
           /\ conn' = [conn EXCEPT ![o].wire = SubSeq(@, k + 1, Len(@))]
      BY <2>1, <3>2, <3>4, <3>6, <3>8 DEF ReadBytes
    <3>11. ConnsOK' /\ SamePhases
      BY <1>6, <3>1, <3>5, <3>10, WireCut
    <3>12. CASE stream[h.s].tmp = << >>
      <4>1. b = stream[h.s].in /\ stream' = [stream EXCEPT ![h.s].in = d]
        BY <3>2, <3>10, <3>12 DEF Into, Put
      <4>2. d.cap = Capacity
        BY <1>2, <3>9, <4>1
      <4> QED
        BY <1>2, <1>6, <3>9, <3>11, <4>1, <4>2, SetIn
    <3>13. CASE stream[h.s].tmp # << >>
      <4>1. stream' = [stream EXCEPT ![h.s].tmp = <<d>>]
        BY <3>10, <3>13 DEF Put
      <4> QED
        BY <1>2, <1>6, <3>9, <3>11, <4>1, SetTmp
    <3> QED
      BY <3>12, <3>13
  <2>2. CASE o # NoOne /\ ReadNothing(h.s, o)
    <3>1. UNCHANGED conn /\ (UNCHANGED stream \/ Status(h.s, "EOF"))
      BY <2>2 DEF ReadNothing, Status
    <3> QED
      BY <1>7, <3>1
  <2>3. CASE o # NoOne /\ ReadError(h.s, o)
    <3>1. conn' = [conn EXCEPT ![o].err = "over"] /\ Status(h.s, "ERROR") /\ o \in Streams
      BY <1>4, <2>3 DEF ReadError
    <3> QED
      BY <1>6, <1>7, <3>1, ErrorOver
  <2>4. CASE o = NoOne /\ Status(h.s, "ERROR") /\ UNCHANGED conn
    BY <1>7, <2>4
  <2> QED
    BY <1>8, <2>1, <2>2, <2>3, <2>4
<1>10. DataStep
  BY <1>5, <1>9 DEF DataStep, StreamInv, TypesOK, HistoryOK
<1> QED
  BY <1>1, <1>5, <1>10, GoBack DEF Active

(* A blocking write() stays where it is until all is written.              *)
LEMMA StayOn ==
  ASSUME StreamInv, NEW c \in Coro, NEW h, NEW do, NEW at, Active(c, h, do, at), do \notin {"get", "put"},
         UNCHANGED stack, DataStep
  PROVE  StreamInv'
<1>1. PICK st \in Seq(Frames) : st = stack[c] /\ Chain(st) /\ Head(st) = h
  BY DEF StreamInv, TypesOK, StacksOK, Active
<1>2. stack' = [stack EXCEPT ![c] = st] /\ Used(st) \subseteq Used(stack[c])
  BY <1>1 DEF StreamInv, TypesOK
<1>3. HeadOK(h)'
  BY DEF HeadOK, Active
<1> QED
  BY <1>1, <1>2, <1>3, InnerStep DEF Active, DataStep

LEMMA WriteGoStep ==
  ASSUME StreamInv, NEW c \in Coro, WriteGo(c)
  PROVE  StreamInv'
<1>1. PICK h \in Frames : Active(c, h, "write", "go")
  BY Running DEF WriteGo
<1>2. PICK t : t = h.n
  OBVIOUS
<1>3. /\ h.s \in Streams /\ t \in Streams
      /\ stream[h.s].out \in Buffers /\ stream[h.s].out.cap = Capacity
      /\ stream[t].in \in Buffers /\ stream[t].in.cap = Capacity
  <2>1. h.s \in Streams /\ t \in Streams
    BY <1>1, <1>2 DEF Active, StreamsOf
  <2> QED
    BY <2>1, StreamFields DEF StreamInv, TypesOK
<1>4. PICK o : o = file[stream[h.s].fd]
  OBVIOUS
<1>5. o \in Streams \cup {NoOne}
  BY <1>1, <1>3, <1>4 DEF Active, StreamInv, TypesOK, StreamsOf
<1>6. UNCHANGED <<cur, file, reg>>
  BY DEF WriteGo
<1>7. StreamsOK /\ ConnsOK /\ HistoryOK
  BY SMTT(30) DEF StreamInv, TypesOK
<1>8. \/ o # NoOne /\ (WriteBytes(c, h.s, o) \/ WriteError(c, h.s, o) \/ SigPipe(c, o))
      \/ o = NoOne /\ WriteClosed(c, h.s)
  BY <1>1, <1>4 DEF WriteGo, Active
<1>9. CASE o # NoOne /\ WriteBytes(c, h.s, o)
  <2>1. /\ o \in Streams /\ conn[o] \in ConnObjects /\ conn[o].written \in Seq(Nat)
        /\ conn[o].flight \in 0 .. Room /\ Room \in Nat /\ MaxSent \in Nat
    BY <1>5, <1>7, <1>9, ConnFields, StreamAssumption
  <2>2. PICK b : b = IF t = h.s THEN stream[h.s].out ELSE stream[t].in
    OBVIOUS
  <2>3. b = From(c) /\ b \in Buffers /\ b.cap = Capacity /\ Size(b) \in Nat
    BY <1>1, <1>2, <1>3, <2>2, BufferBytes DEF From, Active
  <2>4. PICK fits : fits = Fits(h.s, o)
    OBVIOUS
  <2>5. fits \in Nat /\ (Kind[o] # "file" => fits = Room - conn[o].flight)
    <3>1. Size(stream[h.s].out) \in Nat
      BY <1>3, BufferBytes
    <3> QED
      BY <2>1, <2>4, <3>1 DEF Fits
  <2>6. PICK k : k = Min({Size(b), fits})
    OBVIOUS
  <2>7. k \in 0 .. Size(b) /\ k \in Nat /\ k <= fits
    BY <2>3, <2>5, <2>6, MinOfTwo
  <2>8. PICK x : x = SubSeq(Bytes(b), 1, k)
    BY Zenon
  <2>9. PICK d : d = Skip(b, k)
    OBVIOUS
  <2>10. x \in Seq(Nat) /\ d \in Buffers /\ d.cap = Capacity
    BY <2>3, <2>7, <2>8, <2>9, BufferSkip
  <2>11. /\ stream' = Drop(c, k)
         /\ conn' = [conn EXCEPT ![o].written = @ \o x, ![o].flight = IF Kind[o] = "file" THEN 0 ELSE @ + k]
         /\ IF t = h.s THEN UNCHANGED history
            ELSE /\ accepted' = [accepted EXCEPT ![h.s] = @ \o x]
                 /\ taken' = [taken EXCEPT ![t] = @ \o x]
         /\ UNCHANGED stack \/ Return(c)
         /\ UNCHANGED down
    <3>1. N(c) = t
      BY <1>1, <1>2 DEF Active
    <3> QED
      BY <1>9, <2>3, <2>4, <2>6, <2>8, <3>1, Zenon DEF WriteBytes
  <2>12. StreamsOK' /\ SameLives
    <3>1. CASE t = h.s
      <4>0. N(c) = S(c) /\ S(c) = h.s /\ b = stream[h.s].out
        BY <1>1, <1>2, <2>2, <3>1 DEF Active
      <4>1. stream' = [stream EXCEPT ![h.s].out = d]
        BY <2>9, <2>11, <4>0 DEF Drop
      <4> QED
        BY <1>3, <1>7, <2>10, <4>1, SetOut
    <3>2. CASE t # h.s
      <4>1. stream' = [stream EXCEPT ![t].in = d]
        BY <1>1, <1>2, <2>2, <2>9, <2>11, <3>2 DEF Drop, Active, StreamInv, TypesOK, StreamsOK
      <4> QED
        BY <1>3, <1>7, <2>10, <4>1, SetIn
    <3> QED
      BY <3>1, <3>2
  <2>13. ConnsOK' /\ SamePhases
    <3>1. conn[o].written \o x \in Seq(Nat)
      BY <2>1, <2>10, ConcatProperties
    <3>2. PICK fl : fl = IF Kind[o] = "file" THEN 0 ELSE conn[o].flight + k
      OBVIOUS
    <3>3. fl \in 0 .. Room
      BY <2>1, <2>5, <2>7, <3>2, SMTT(30)
    <3>4. PICK m, n : m = [conn[o] EXCEPT !.written = conn[o].written \o x] /\ n = [m EXCEPT !.flight = fl]
      OBVIOUS
    <3>5. m \in ConnObjects /\ m.phase = conn[o].phase /\ m.flight = conn[o].flight
      BY <2>1, <3>1, <3>4 DEF ConnObjects
    <3>6. n \in ConnObjects /\ n.phase = conn[o].phase
      BY <3>3, <3>4, <3>5 DEF ConnObjects
    <3>7. conn' = [conn EXCEPT ![o] = n]
      <4>1. PICK g : g = [conn EXCEPT ![o].written = @ \o x]
        OBVIOUS
      <4>2. g = [conn EXCEPT ![o] = m] /\ g[o] = m
        BY <1>7, <2>1, <3>4, <4>1 DEF ConnsOK
      <4>3. conn' = [g EXCEPT ![o].flight = IF Kind[o] = "file" THEN 0 ELSE @ + k]
        BY <2>11, <4>1
      <4>4. conn' = [g EXCEPT ![o] = n]
        BY <3>2, <3>4, <3>5, <4>2, <4>3
      <4> QED
        BY <1>7, <2>1, <4>2, <4>4 DEF ConnsOK
    <3> QED
      BY <1>7, <2>1, <3>6, <3>7, ConnChanged
  <2>14. HistoryOK'
    <3>1. taken[t] \o x \in Seq(Nat) /\ accepted[h.s] \o x \in Seq(Nat)
      BY <1>3, <1>7, <2>10, ConcatProperties DEF HistoryOK
    <3> QED
      BY <1>3, <1>7, <2>11, <3>1 DEF HistoryOK, history
  <2>15. DataStep
    BY <1>6, <2>11, <2>12, <2>13, <2>14 DEF DataStep, StreamInv, TypesOK
  <2>16. CASE UNCHANGED stack
    BY <1>1, <2>15, <2>16, StayOn
  <2>17. CASE Return(c)
    BY <1>1, <2>15, <2>17, GoBack DEF Active
  <2> QED
    BY <2>11, <2>16, <2>17
<1>10. CASE o # NoOne /\ WriteError(c, h.s, o)
  <2>1. /\ o \in Streams /\ conn' = [conn EXCEPT ![o].err = "over"] /\ Status(h.s, "ERROR") /\ Return(c)
        /\ UNCHANGED <<down, taken, accepted>>
    BY <1>5, <1>10 DEF WriteError, history
  <2>2. StreamsOK' /\ SameLives /\ ConnsOK' /\ SamePhases
    BY <1>3, <1>7, <2>1, SetStatus, ErrorOver
  <2>3. DataStep
    BY <1>6, <2>1, <2>2 DEF DataStep, StreamInv, TypesOK, HistoryOK
  <2> QED
    BY <1>1, <2>1, <2>3, GoBack DEF Active
<1>11. CASE o # NoOne /\ SigPipe(c, o)
  <2>1. down' = "killed" /\ UNCHANGED <<stack, stream, conn, taken, accepted>>
    BY <1>11 DEF SigPipe, history
  <2>2. DataStep
    BY <1>6, <1>7, <2>1, SameStreams DEF DataStep, ConnsOK, SamePhases, HistoryOK
  <2> QED
    BY <1>1, <2>1, <2>2, StayOn
<1>12. CASE o = NoOne /\ WriteClosed(c, h.s)
  <2>1. Status(h.s, "ERROR") /\ Return(c) /\ UNCHANGED <<conn, down, taken, accepted>>
    BY <1>12 DEF WriteClosed, history
  <2>2. DataStep
    BY <1>3, <1>6, <2>1, StatusChanged
  <2> QED
    BY <1>1, <2>1, <2>2, GoBack DEF Active
<1> QED
  BY <1>8, <1>9, <1>10, <1>11, <1>12

(* Waiting for a descriptor.                                               *)
LEMMA BeginStep ==
  ASSUME StreamInv, NEW c \in Coro, NEW do \in {"read", "write"}, Doing(c, do, "start"),
         NEW on \in {"in", "out"}, Begin(c, on)
  PROVE  StreamInv'
<1>1. PICK h \in Frames : Active(c, h, do, "start")
  BY Running
<1>2. h.s \in Streams /\ stream[h.s].fd \in Fds
  BY <1>1 DEF Active
<1>3. UNCHANGED <<file, conn, down, taken, accepted>>
  BY DEF Begin, history
<1>4. PICK f \in Fds : f = stream[h.s].fd
  BY <1>2, SMTT(30)
<1>5. \/ Goto(c, "go") /\ UNCHANGED <<cur, stream, reg>>
      \/ reg[f].on = "absent" /\ Status(h.s, "ERROR") /\ Return(c) /\ UNCHANGED <<cur, reg>>
      \/ reg[f].on # "absent" /\ Wait(c, f, on) /\ UNCHANGED stream
  BY <1>1, <1>4 DEF Begin, Register, Active
<1>6. CASE Goto(c, "go") /\ UNCHANGED <<cur, stream, reg>>
  <2>1. DataStep
    BY <1>3, <1>6, NothingChanged
  <2> QED
    BY <1>1, <1>6, <2>1, GoOn DEF Active, Labels
<1>7. CASE Status(h.s, "ERROR") /\ Return(c) /\ UNCHANGED <<cur, reg>>
  <2>1. DataStep
    BY <1>2, <1>3, <1>7, StatusChanged
  <2> QED
    BY <1>1, <1>7, <2>1, GoBack DEF Active
<1>8. CASE reg[f].on # "absent" /\ Wait(c, f, on) /\ UNCHANGED stream
  <2>1. Goto(c, "wait") /\ cur' = NoOne /\ reg' = [reg EXCEPT ![f] = [who |-> c, on |-> on]]
    BY <1>8 DEF Wait
  <2>2. PICK st \in Seq(Frames) :
           /\ stack' = [stack EXCEPT ![c] = st] /\ Chain(st) /\ Used(st) = Used(stack[c])
           /\ st # << >> /\ Head(st) = At(h, "wait", h.n)
    BY <1>1, <2>1, GotoStack DEF Active, Labels
  <2>3. Head(st).at = "wait"
    BY <2>2 DEF At
  <2>4. StackStep(c, st)
    BY <1>1, <1>8, <2>2, InnerStack DEF Active, SameLives
  <2>5. TypesOK'
    <3>1. stack' \in [Coro -> Seq(Frames)]
      BY <2>2 DEF StreamInv, TypesOK
    <3>2. reg' \in [Fds \cup {0} -> [who : Coro \cup {NoOne}, on : {"absent", "off", "none", "in", "out"}]]
      <4>1. [who |-> c, on |-> on] \in [who : Coro \cup {NoOne}, on : {"absent", "off", "none", "in", "out"}]
        OBVIOUS
      <4> QED
        BY <2>1, <4>1 DEF StreamInv, TypesOK
    <3>3. StreamsOK' /\ ConnsOK' /\ HistoryOK'
      BY <1>3, <1>8 DEF StreamInv, TypesOK, StreamsOK, ConnsOK, HistoryOK
    <3> QED
      BY <1>3, <2>1, <3>1, <3>2, <3>3 DEF StreamInv, TypesOK
  <2>6. FilesOK'
    <3>1. file[f] # NoOne
      BY <1>8 DEF StreamInv, FilesOK, Absent
    <3>2. \A g \in Fds : g # f => reg'[g] = reg[g]
      BY <2>1 DEF StreamInv, TypesOK
    <3>3. \A g \in Fds : file'[g] = NoOne => reg'[g] = Absent
      BY <1>3, <3>1, <3>2 DEF StreamInv, FilesOK
    <3> QED
      BY <1>3, <1>8, <3>3 DEF StreamInv, FilesOK
  <2> QED
    BY <1>4, <2>1, <2>2, <2>3, <2>4, <2>5, <2>6, SuspendStep
<1> QED
  BY <1>5, <1>6, <1>7, <1>8

(* The end of a stream.                                                    *)
LEMMA CloseEndStep ==
  ASSUME StreamInv, NEW c \in Coro, CloseEnd(c)
  PROVE  StreamInv'
<1>1. PICK h \in Frames : Active(c, h, "close", "flushed")
  BY Running DEF CloseEnd
<1>2. /\ h.s \in Streams /\ stream[h.s].in \in Buffers /\ stream[h.s].in.cap = Capacity
      /\ stream[h.s].fd \in Fds
  BY <1>1, HeadFields DEF Active
<1>3. PICK f \in Fds : f = stream[h.s].fd
  BY <1>2
<1>4. PICK b, cl : b = Rewound(stream[h.s].in) /\ cl = stream[h.s].closed \cup ({file[f]} \ {NoOne})
  OBVIOUS
<1>5. /\ b \in Buffers /\ b.cap = Capacity /\ cl \subseteq Streams
  <2>1. stream[h.s].closed \subseteq Streams /\ file[f] \in Streams \cup {NoOne}
    <3>1. StreamsOK /\ file \in [Fds -> Streams \cup {NoOne}]
      BY DEF StreamInv, TypesOK
    <3> QED
      BY <1>2, <3>1, StreamFields
  <2> QED
    BY <1>2, <1>4, <2>1, BufferRewound
<1>6. /\ stream' = [stream EXCEPT ![h.s].in = b, ![h.s].closed = cl]
      /\ file' = [file EXCEPT ![f] = NoOne] /\ reg' = [reg EXCEPT ![f] = Absent]
      /\ Return(c) /\ UNCHANGED <<cur, conn, down, taken, accepted>>
  <2>1. S(c) = h.s
    BY <1>1 DEF Active
  <2>2. /\ stream' = [stream EXCEPT ![h.s].in = Rewound(@), ![h.s].closed = @ \cup ({file[stream[h.s].fd]} \ {NoOne})]
        /\ file' = [file EXCEPT ![stream[h.s].fd] = NoOne] /\ reg' = [reg EXCEPT ![stream[h.s].fd] = Absent]
        /\ Return(c) /\ UNCHANGED <<cur, conn, down, taken, accepted>>
    BY <2>1, Zenon DEF CloseEnd, history
  <2> QED
    BY <1>3, <1>4, <2>2
<1>7. StreamsOK' /\ SameLives
  <2>1. stream \in [Streams -> StreamObjects] /\ stream[h.s] \in StreamObjects
        /\ \A s \in Streams : stream[s].in.cap = Capacity /\ stream[s].out.cap = Capacity
    BY <1>2 DEF StreamInv, TypesOK, StreamsOK
  <2>2. PICK m, n : m = [stream[h.s] EXCEPT !.in = b] /\ n = [m EXCEPT !.closed = cl]
    OBVIOUS
  <2>3. /\ m \in StreamObjects /\ m.in = b /\ m.out = stream[h.s].out
        /\ m.life = stream[h.s].life /\ m.fd = stream[h.s].fd
    BY <1>5, <2>1, <2>2 DEF StreamObjects
  <2>4. /\ n \in StreamObjects /\ n.in = b /\ n.out = stream[h.s].out
        /\ n.life = stream[h.s].life /\ n.fd = stream[h.s].fd
    BY <1>5, <2>2, <2>3 DEF StreamObjects
  <2>5. stream' = [stream EXCEPT ![h.s] = n]
    <3>1. PICK t : t = [stream EXCEPT ![h.s].in = b]
      OBVIOUS
    <3>2. t = [stream EXCEPT ![h.s] = m] /\ t[h.s] = m /\ stream' = [t EXCEPT ![h.s].closed = cl]
      BY <1>2, <1>6, <2>1, <2>2, <3>1
    <3>3. [t EXCEPT ![h.s].closed = cl] = [t EXCEPT ![h.s] = n]
      BY <2>2, <3>2
    <3> QED
      BY <1>2, <2>1, <3>2, <3>3
  <2>6. stream'[h.s] = n /\ \A s \in Streams : s # h.s => stream'[s] = stream[s]
    BY <1>2, <2>1, <2>5
  <2>7. StreamsOK'
    <3>1. stream' \in [Streams -> StreamObjects]
      BY <2>1, <2>4, <2>5
    <3>2. \A s \in Streams : stream'[s].in.cap = Capacity /\ stream'[s].out.cap = Capacity
      BY <1>2, <1>5, <2>1, <2>4, <2>6
    <3> QED
      BY <3>1, <3>2 DEF StreamsOK
  <2> QED
    BY <2>4, <2>6, <2>7 DEF SameLives
<1>8. PICK st \in Seq(Frames) :
         /\ stack' = [stack EXCEPT ![c] = st] /\ Chain(st) /\ Used(st) \subseteq Used(stack[c])
         /\ st # << >> => CalledBy(h, Head(st))
  BY <1>1, <1>6, ReturnStack DEF Active
<1>9. StackStep(c, st) /\ cur' = c
  BY <1>1, <1>6, <1>7, <1>8, InnerStack DEF Active
<1>10. /\ file'[f] = NoOne /\ \A g \in Fds : g # f => file'[g] = file[g]
       /\ reg'[f] = Absent /\ \A g \in Fds \cup {0} : g # f => reg'[g] = reg[g]
  BY <1>6 DEF StreamInv, TypesOK
<1>11. TypesOK'
  <2>1. file' \in [Fds -> Streams \cup {NoOne}] /\ stack' \in [Coro -> Seq(Frames)]
    BY <1>6, <1>8 DEF StreamInv, TypesOK
  <2>2. reg' \in [Fds \cup {0} -> [who : Coro \cup {NoOne}, on : {"absent", "off", "none", "in", "out"}]]
    <3>1. Absent \in [who : Coro \cup {NoOne}, on : {"absent", "off", "none", "in", "out"}]
      BY DEF Absent
    <3> QED
      BY <1>6, <3>1 DEF StreamInv, TypesOK
  <2> QED
    BY <1>6, <1>7, <2>1, <2>2 DEF StreamInv, TypesOK, ConnsOK, HistoryOK
<1>12. FilesOK'
  <2>1. \A g \in Fds : file[g] # NoOne => file[g] \in Streams
    BY DEF StreamInv, TypesOK
  <2>2. \A g \in Fds : file'[g] = NoOne => reg'[g] = Absent
    BY <1>10 DEF StreamInv, FilesOK
  <2>3. \A g, e \in Fds : file'[g] = file'[e] /\ file'[g] # NoOne => g = e
    BY <1>10 DEF StreamInv, FilesOK
  <2>4. \A g \in Fds : file'[g] # NoOne => stream'[file'[g]].life \notin {"unused", "new"}
    BY <1>7, <1>10, <2>1 DEF StreamInv, FilesOK, SameLives
  <2>5. /\ \A s \in Streams : stream'[s].life = "open" => stream'[s].fd \in Fds
        /\ \A s \in Streams : conn'[s].phase = "backlog" => stream'[s].life = "new"
    BY <1>6, <1>7 DEF StreamInv, FilesOK, SameLives
  <2> QED
    BY <2>2, <2>3, <2>4, <2>5 DEF FilesOK
<1>13. /\ \A g \in Fds \cup {0} : Armed(g)' => Armed(g) /\ reg'[g] = reg[g]
       /\ \A g \in Fds \cup {0} : reg'[g].on = "none" => reg'[g].who = NoOne
  <2>1. reg'[f].on = "absent"
    BY <1>10 DEF Absent
  <2>2. \A g \in Fds \cup {0} : reg[g].on = "none" => reg[g].who = NoOne
    BY DEF StreamInv, WaitsOK
  <2> QED
    BY <1>10, <2>1, <2>2 DEF Armed
<1>14. ASSUME st # << >>, NEW g, g = Head(st) PROVE HeadOK(g)'
  BY <1>1, <1>8, <1>14 DEF HeadOK, CalledBy, Active
<1> QED
  BY <1>8, <1>9, <1>11, <1>12, <1>13, <1>14, RunStep

LEMMA DestroyEndStep ==
  ASSUME StreamInv, NEW c \in Coro, DestroyEnd(c)
  PROVE  StreamInv'
<1>1. PICK h \in Frames : Active(c, h, "destroy", "closed")
  BY Running DEF DestroyEnd
<1>2. h.s \in Streams /\ h.s \in StreamsOf(h)
  BY <1>1 DEF Active
<1>3. /\ stream' = [stream EXCEPT ![h.s].life = "gone"] /\ Return(c)
      /\ UNCHANGED <<cur, file, reg, conn, down, taken, accepted>>
  BY <1>1 DEF DestroyEnd, Active, Quiet, kernel, history
<1>4. PICK st \in Seq(Frames) :
         /\ stack' = [stack EXCEPT ![c] = st] /\ Chain(st) /\ Used(st) \subseteq Used(stack[c])
         /\ st # << >> => CalledBy(h, Head(st))
  BY <1>1, <1>3, ReturnStack DEF Active
<1>5. st = << >> /\ Used(st) = {}
  BY <1>1, <1>4, ChainEmpty DEF CalledBy, Active
<1>6. /\ stream' \in [Streams -> StreamObjects] /\ stream'[h.s].life = "gone"
      /\ stream'[h.s].in = stream[h.s].in /\ stream'[h.s].out = stream[h.s].out
      /\ \A s \in Streams : s # h.s => stream'[s] = stream[s]
  <2>1. stream \in [Streams -> StreamObjects] /\ stream[h.s] \in StreamObjects
    BY <1>2 DEF StreamInv, TypesOK, StreamsOK
  <2>2. PICK m : m = [stream[h.s] EXCEPT !.life = "gone"]
    OBVIOUS
  <2>3. m \in StreamObjects /\ m.life = "gone" /\ m.in = stream[h.s].in /\ m.out = stream[h.s].out
    BY <2>1, <2>2 DEF StreamObjects
  <2>4. stream' = [stream EXCEPT ![h.s] = m]
    BY <1>3, <2>2
  <2> QED
    BY <1>2, <2>1, <2>3, <2>4
<1>7. StreamsOK'
  BY <1>2, <1>6 DEF StreamInv, TypesOK, StreamsOK
<1>8. \A d \in Coro \ {c} : \A s \in Used(stack[d]) : stream'[s].life = "open"
  <2>1. h.s \in Used(stack[c])
    <3>1. PICK low \in Seq(Frames) : low = stack[c] /\ Chain(low) /\ low # << >> /\ h = Head(low)
      BY <1>1 DEF Active, StreamInv, TypesOK, StacksOK
    <3>2. Used(low) = StreamsOf(Head(low)) \cup Used(Tail(low))
      BY <3>1, ChainPop
    <3> QED
      BY <1>2, <3>1, <3>2
  <2>2. ASSUME NEW d \in Coro \ {c}, NEW s \in Used(stack[d]) PROVE stream'[s].life = "open"
    <3>1. s \in Streams /\ stream[s].life = "open" /\ s # h.s
      BY <2>1, <2>2, UsedStreams DEF StreamInv, StacksOK
    <3> QED
      BY <1>6, <3>1
  <2> QED
    BY <2>2
<1>9. StackStep(c, st) /\ cur' = c
  BY <1>1, <1>3, <1>4, <1>5, <1>8 DEF StackStep, Active
<1>10. TypesOK'
  BY <1>3, <1>4, <1>7 DEF StreamInv, TypesOK, ConnsOK, HistoryOK
<1>11. FilesOK'
  <2>1. \A g \in Fds : file[g] # NoOne => file[g] \in Streams
    BY DEF StreamInv, TypesOK
  <2>2. \A s \in Streams :
           /\ stream[s].life \notin {"unused", "new"} => stream'[s].life \notin {"unused", "new"}
           /\ stream'[s].life = "open" => stream[s].life = "open" /\ stream'[s] = stream[s]
           /\ stream[s].life = "new" => stream'[s].life = "new"
    <3>1. stream[h.s].life = "open"
      BY <1>1, <1>2 DEF Active
    <3> QED
      BY <1>6, <3>1
  <2> QED
    BY <1>3, <2>1, <2>2 DEF StreamInv, FilesOK
<1>12. /\ \A g \in Fds \cup {0} : Armed(g)' => Armed(g) /\ reg'[g] = reg[g]
       /\ \A g \in Fds \cup {0} : reg'[g].on = "none" => reg'[g].who = NoOne
  <2>1. \A g \in Fds \cup {0} : reg[g].on = "none" => reg[g].who = NoOne
    BY DEF StreamInv, WaitsOK
  <2> QED
    BY <1>3, <2>1 DEF Armed
<1> QED
  BY <1>5, <1>9, <1>10, <1>11, <1>12, RunStep

(* New streams.  While a stream is new a descriptor is free: the ones in   *)
(* use belong to other streams, no two to the same one.                    *)
LEMMA LowestFree ==
  ASSUME StreamInv, NEW s \in Streams, stream[s].life = "new"
  PROVE  Lowest \in Fds /\ file[Lowest] = NoOne
<1> DEFINE busy == {f \in Fds : file[f] # NoOne}
           free == {f \in Fds : file[f] = NoOne}
<1>1. /\ IsFiniteSet(Fds) /\ IsFiniteSet(Streams) /\ Fds \subseteq Nat
      /\ Cardinality(Fds) >= Cardinality(Streams)
  BY FdsAssumption
<1>2. free # {}
  <2> SUFFICES ASSUME free = {} PROVE FALSE
    OBVIOUS
  <2>1. \A f \in Fds : file[f] \in Streams \ {s}
    BY DEF StreamInv, TypesOK, FilesOK
  <2>2. \A f, g \in Fds : file[f] = file[g] => f = g
    BY DEF StreamInv, FilesOK
  <2>3. file \in Injection(Fds, Streams \ {s})
    <3>1. file \in [Fds -> Streams \ {s}]
      BY <2>1 DEF StreamInv, TypesOK
    <3> QED
      BY <2>2, <3>1 DEF Injection, IsInjective
  <2>4. IsFiniteSet(Streams \ {s}) /\ Cardinality(Streams \ {s}) = Cardinality(Streams) - 1
    BY <1>1, FS_RemoveElement
  <2>5. Cardinality(Fds) <= Cardinality(Streams \ {s})
    BY <2>3, <2>4, FS_Injection
  <2>6. Cardinality(Fds) \in Nat /\ Cardinality(Streams) \in Nat
    BY <1>1, FS_CardinalityType
  <2> QED
    BY <1>1, <2>4, <2>5, <2>6
<1>3. free \in SUBSET Nat
  BY <1>1
<1>4. \E m \in free : \A n \in free : m <= n
  BY <1>2, <1>3, LeastNumber
<1>5. PICK m : m = Min(free)
  OBVIOUS
<1>6. m \in free
  BY <1>4, <1>5 DEF Min
<1>7. Lowest = m
  BY <1>5 DEF Lowest
<1> QED
  BY <1>6, <1>7

OtherConns(s) == \A t \in Streams : t # s => conn'[t] = conn[t]
OtherRegs(f) == \A g \in Fds : g # f => reg'[g] = reg[g]

LEMMA Opens ==
  ASSUME StreamInv, NEW s \in Streams, stream[s].life = "new", NEW f, f = Lowest, Opened(s, f),
         file' = [file EXCEPT ![f] = s], ConnsOK', conn'[s].phase # "backlog", OtherConns(s), OtherRegs(f)
  PROVE  /\ f \in Fds /\ file[f] = NoOne /\ reg[f] = Absent
         /\ StreamsOK' /\ FilesOK' /\ file' \in [Fds -> Streams \cup {NoOne}]
         /\ stream'[s].life = "open" /\ \A t \in Streams : t # s => stream'[t] = stream[t]
<1>1. f \in Fds /\ file[f] = NoOne /\ reg[f] = Absent
  BY LowestFree DEF StreamInv, FilesOK
<1>2. stream \in [Streams -> StreamObjects] /\ stream[s] \in StreamObjects
  BY DEF StreamInv, TypesOK, StreamsOK
<1>3. PICK m, n : m = [stream[s] EXCEPT !.life = "open"] /\ n = [m EXCEPT !.fd = f]
  OBVIOUS
<1>4. m \in StreamObjects /\ m.life = "open" /\ m.in = stream[s].in /\ m.out = stream[s].out
  BY <1>2, <1>3 DEF StreamObjects
<1>5. n \in StreamObjects /\ n.life = "open" /\ n.in = stream[s].in /\ n.out = stream[s].out /\ n.fd = f
  BY <1>1, <1>3, <1>4 DEF StreamObjects
<1>6. stream' = [stream EXCEPT ![s] = n]
  <2>1. PICK t : t = [stream EXCEPT ![s].life = "open"]
    OBVIOUS
  <2>2. t = [stream EXCEPT ![s] = m] /\ t[s] = m /\ stream' = [t EXCEPT ![s].fd = f]
    BY <1>2, <1>3, <2>1 DEF Opened
  <2>3. [t EXCEPT ![s].fd = f] = [t EXCEPT ![s] = n]
    BY <1>3, <2>2
  <2> QED
    BY <1>2, <2>2, <2>3
<1>7. stream'[s] = n /\ \A t \in Streams : t # s => stream'[t] = stream[t]
  BY <1>2, <1>6
<1>8. StreamsOK'
  <2>1. stream' \in [Streams -> StreamObjects]
    BY <1>2, <1>5, <1>6
  <2>2. \A t \in Streams : stream'[t].in.cap = Capacity /\ stream'[t].out.cap = Capacity
    BY <1>5, <1>7 DEF StreamInv, TypesOK, StreamsOK
  <2> QED
    BY <2>1, <2>2 DEF StreamsOK
<1>9. /\ file \in [Fds -> Streams \cup {NoOne}] /\ file' \in [Fds -> Streams \cup {NoOne}]
      /\ file'[f] = s /\ \A g \in Fds : g # f => file'[g] = file[g]
  BY <1>1 DEF StreamInv, TypesOK
<1>10. FilesOK'
  <2>1. \A g \in Fds : file'[g] = NoOne => reg'[g] = Absent
    BY <1>9, StreamAssumption DEF StreamInv, FilesOK, OtherRegs
  <2>2. \A g \in Fds : g # f /\ file[g] # NoOne => file[g] \in Streams /\ file[g] # s
    BY <1>9 DEF StreamInv, FilesOK
  <2>3. \A g, e \in Fds : file'[g] = file'[e] /\ file'[g] # NoOne => g = e
    BY <1>9, <2>2 DEF StreamInv, FilesOK
  <2>4. \A g \in Fds : file'[g] # NoOne => stream'[file'[g]].life \notin {"unused", "new"}
    <3>1. ASSUME NEW g \in Fds, file'[g] # NoOne PROVE stream'[file'[g]].life \notin {"unused", "new"}
      <4>1. CASE g = f
        BY <1>5, <1>7, <1>9, <4>1
      <4>2. CASE g # f
        BY <1>7, <1>9, <2>2, <3>1, <4>2 DEF StreamInv, FilesOK
      <4> QED
        BY <4>1, <4>2
    <3> QED
      BY <3>1
  <2>5. \A t \in Streams : stream'[t].life = "open" => stream'[t].fd \in Fds
    BY <1>1, <1>5, <1>7 DEF StreamInv, FilesOK
  <2>6. \A t \in Streams : conn'[t].phase = "backlog" => stream'[t].life = "new"
    BY <1>7 DEF StreamInv, FilesOK, OtherConns
  <2> QED
    BY <2>1, <2>3, <2>4, <2>5, <2>6 DEF FilesOK
<1> QED
  BY <1>1, <1>5, <1>7, <1>8, <1>9, <1>10

(* A new stream is in nobody's calls.                                      *)
LEMMA NewUnused ==
  ASSUME StreamInv, NEW s \in Streams, stream[s].life = "new"
  PROVE  \A d \in Coro : s \notin Used(stack[d])
BY UsedStreams

LEMMA OpenStack ==
  ASSUME StreamInv, NEW s \in Streams, stream[s].life = "new",
         stream'[s].life = "open", \A t \in Streams : t # s => stream'[t] = stream[t]
  PROVE  /\ \A d \in Coro : \A t \in Used(stack[d]) : stream'[t].life = "open"
         /\ \A d \in Coro : s \notin Used(stack[d])
BY UsedStreams

LEMMA OpenFileStep ==
  ASSUME StreamInv, NEW c \in Coro, NEW s \in Streams, OpenFile(c, s)
  PROVE  StreamInv'
<1>1. PICK f : f = Lowest
  OBVIOUS
<1>2. /\ cur = c \/ cur = NoOne
      /\ stack[c] = << >> /\ stream[s].life = "new" /\ Opened(s, f)
      /\ file' = [file EXCEPT ![f] = s] /\ cur' = c /\ UNCHANGED <<stack, reg, down, taken, accepted>>
      /\ conn' = [conn EXCEPT ![s].phase = "up", ![s].fin = TRUE, ![s].sent = MaxSent, ![s].wire = [i \in 1 .. MaxSent |-> i]]
  BY <1>1 DEF OpenFile, Starts, history
<1>3. /\ ConnsOK' /\ conn'[s].phase # "backlog" /\ \A t \in Streams : t # s => conn'[t] = conn[t]
  <2>1. conn \in [Streams -> ConnObjects] /\ conn[s] \in ConnObjects
    BY ConnFields DEF StreamInv, TypesOK, ConnsOK
  <2>2. MaxSent \in Nat /\ MaxSent \in 0 .. MaxSent /\ [i \in 1 .. MaxSent |-> i] \in Seq(Nat)
    BY StreamAssumption
  <2>3. PICK w \in Seq(Nat) : w = [i \in 1 .. MaxSent |-> i]
    BY <2>2
  <2>4. PICK m, n, p, q : /\ m = [conn[s] EXCEPT !.phase = "up"] /\ n = [m EXCEPT !.fin = TRUE]
                          /\ p = [n EXCEPT !.sent = MaxSent] /\ q = [p EXCEPT !.wire = w]
    OBVIOUS
  <2>5. m \in ConnObjects /\ m.phase = "up"
    BY <2>1, <2>4 DEF ConnObjects
  <2>6. n \in ConnObjects /\ n.phase = "up"
    BY <2>4, <2>5 DEF ConnObjects
  <2>7. p \in ConnObjects /\ p.phase = "up"
    BY <2>2, <2>4, <2>6 DEF ConnObjects
  <2>8. q \in ConnObjects /\ q.phase = "up"
    BY <2>4, <2>7, ZenonT(60) DEF ConnObjects
  <2>9. conn' = [conn EXCEPT ![s] = q]
    <3>1. PICK t : t = [conn EXCEPT ![s].phase = "up"]
      OBVIOUS
    <3>2. PICK u : u = [t EXCEPT ![s].fin = TRUE]
      OBVIOUS
    <3>3. PICK v : v = [u EXCEPT ![s].sent = MaxSent]
      OBVIOUS
    <3>4. t = [conn EXCEPT ![s] = m] /\ t[s] = m
      BY <2>1, <2>4, <3>1
    <3>5. u = [conn EXCEPT ![s] = n] /\ u[s] = n
      <4>1. u = [t EXCEPT ![s] = n]
        BY <2>4, <3>2, <3>4
      <4> QED
        BY <2>1, <3>4, <4>1
    <3>6. v = [conn EXCEPT ![s] = p] /\ v[s] = p
      <4>1. v = [u EXCEPT ![s] = p]
        BY <2>4, <3>3, <3>5
      <4> QED
        BY <2>1, <3>5, <4>1
    <3>7. conn' = [v EXCEPT ![s].wire = w]
      BY <1>2, <2>3, <3>1, <3>2, <3>3
    <3>8. conn' = [v EXCEPT ![s] = q]
      BY <2>4, <3>6, <3>7
    <3> QED
      BY <2>1, <3>6, <3>8
  <2> QED
    BY <2>1, <2>8, <2>9 DEF ConnsOK
<1>4. /\ StreamsOK' /\ FilesOK' /\ file' \in [Fds -> Streams \cup {NoOne}]
      /\ stream'[s].life = "open" /\ \A t \in Streams : t # s => stream'[t] = stream[t]
  BY <1>1, <1>2, <1>3, Opens DEF OtherConns, OtherRegs
<1>5. \A d \in Coro : \A t \in Used(stack[d]) : stream'[t].life = "open"
  BY <1>2, <1>4, OpenStack
<1>6. PICK st \in Seq(Frames) : st = << >> /\ Chain(st) /\ Used(st) = {}
  BY ChainEmpty
<1>7. StackStep(c, st)
  BY <1>2, <1>5, <1>6 DEF StackStep, StreamInv, TypesOK
<1>8. TypesOK'
  BY <1>2, <1>3, <1>4 DEF StreamInv, TypesOK, HistoryOK
<1>9. /\ \A g \in Fds \cup {0} : Armed(g)' => Armed(g) /\ reg'[g] = reg[g]
      /\ \A g \in Fds \cup {0} : reg'[g].on = "none" => reg'[g].who = NoOne
  <2>1. \A g \in Fds \cup {0} : reg[g].on = "none" => reg[g].who = NoOne
    BY DEF StreamInv, WaitsOK
  <2> QED
    BY <1>2, <2>1 DEF Armed
<1> QED
  BY <1>2, <1>4, <1>6, <1>7, <1>8, <1>9, RunStep

LEMMA PhaseChanged ==
  ASSUME ConnsOK, NEW s \in Streams, NEW phase \in {"backlog", "connecting", "up"},
         conn' = [conn EXCEPT ![s].phase = phase]
  PROVE  ConnsOK' /\ conn'[s].phase = phase /\ \A t \in Streams : t # s => conn'[t] = conn[t]
<1>1. PICK k : k = [conn[s] EXCEPT !.phase = phase]
  OBVIOUS
<1>2. conn \in [Streams -> ConnObjects] /\ conn[s] \in ConnObjects
  BY ConnFields DEF ConnsOK
<1>3. k \in ConnObjects /\ k.phase = phase
  BY <1>1, <1>2 DEF ConnObjects
<1>4. conn' = [conn EXCEPT ![s] = k]
  BY <1>1
<1> QED
  BY <1>2, <1>3, <1>4 DEF ConnsOK

LEMMA AcceptedStep ==
  ASSUME StreamInv, NEW c \in Coro, NEW s \in Streams, Accepted(c, s)
  PROVE  StreamInv'
<1>1. PICK h \in Frames : Active(c, h, "accept", "go")
  BY Running DEF Accepted
<1>2. PICK f : f = Lowest
  OBVIOUS
<1>3. /\ Opened(s, f) /\ file' = [file EXCEPT ![f] = s] /\ conn' = [conn EXCEPT ![s].phase = "up"]
      /\ reg' = [reg EXCEPT ![f] = [who |-> NoOne, on |-> "none"]]
      /\ Return(c) /\ UNCHANGED <<cur, down, taken, accepted>> /\ stream[s].life = "new"
  BY <1>2 DEF Accepted, history, StreamInv, FilesOK
<1>4. f \in Fds
  BY <1>2, <1>3, LowestFree
<1>5. reg'[f] = [who |-> NoOne, on |-> "none"] /\ \A g \in Fds \cup {0} : g # f => reg'[g] = reg[g]
  BY <1>3, <1>4 DEF StreamInv, TypesOK
<1>6. ConnsOK' /\ conn'[s].phase # "backlog" /\ \A t \in Streams : t # s => conn'[t] = conn[t]
  <2>1. ConnsOK' /\ conn'[s].phase = "up" /\ \A t \in Streams : t # s => conn'[t] = conn[t]
    BY <1>3, PhaseChanged DEF StreamInv, TypesOK
  <2> QED
    BY <2>1
<1>7. /\ StreamsOK' /\ FilesOK' /\ file' \in [Fds -> Streams \cup {NoOne}]
      /\ stream'[s].life = "open" /\ \A t \in Streams : t # s => stream'[t] = stream[t]
  <2>1. OtherRegs(f) /\ OtherConns(s)
    BY <1>5, <1>6 DEF OtherRegs, OtherConns
  <2> QED
    BY <1>2, <1>3, <1>6, <2>1, Opens
<1>8. PICK st \in Seq(Frames) :
         /\ stack' = [stack EXCEPT ![c] = st] /\ Chain(st) /\ Used(st) \subseteq Used(stack[c])
         /\ st # << >> => CalledBy(h, Head(st))
  BY <1>1, <1>3, ReturnStack DEF Active
<1>9. st = << >>
  BY <1>1, <1>8 DEF CalledBy, Active
<1>10. StackStep(c, st) /\ cur' = c
  <2>1. \A d \in Coro : \A t \in Used(stack[d]) : stream'[t].life = "open"
    BY <1>3, <1>7, OpenStack
  <2> QED
    BY <1>1, <1>3, <1>8, <1>9, <2>1, ChainEmpty DEF StackStep, Active
<1>11. TypesOK'
  <2>1. reg' \in [Fds \cup {0} -> [who : Coro \cup {NoOne}, on : {"absent", "off", "none", "in", "out"}]]
    <3>1. [who |-> NoOne, on |-> "none"] \in [who : Coro \cup {NoOne}, on : {"absent", "off", "none", "in", "out"}]
      OBVIOUS
    <3> QED
      BY <1>3, <3>1 DEF StreamInv, TypesOK
  <2>2. stack' \in [Coro -> Seq(Frames)]
    BY <1>8 DEF StreamInv, TypesOK
  <2> QED
    BY <1>3, <1>6, <1>7, <2>1, <2>2 DEF StreamInv, TypesOK, HistoryOK
<1>12. /\ \A g \in Fds \cup {0} : Armed(g)' => Armed(g) /\ reg'[g] = reg[g]
       /\ \A g \in Fds \cup {0} : reg'[g].on = "none" => reg'[g].who = NoOne
  <2>1. \A g \in Fds \cup {0} : reg[g].on = "none" => reg[g].who = NoOne
    BY DEF StreamInv, WaitsOK
  <2>2. reg'[f].on = "none" /\ reg'[f].who = NoOne
    BY <1>5
  <2> QED
    BY <1>5, <2>1, <2>2 DEF Armed
<1> QED
  BY <1>7, <1>9, <1>10, <1>11, <1>12, RunStep

(* The first call of a coroutine.                                          *)
LEMMA OneFrame ==
  ASSUME NEW f \in Frames, Sound(f), f.do \notin {"read", "write", "fill"}, NEW st, st = <<f>>
  PROVE  st \in Seq(Frames) /\ Chain(st) /\ Used(st) = StreamsOf(f) /\ st # << >> /\ Head(st) = f
<1>1. st \in Seq(Frames) /\ Len(st) = 1 /\ st[1] = f /\ st # << >> /\ Head(st) = f
  OBVIOUS
<1>2. \A i \in 1 .. Len(st) : i = 1
  BY <1>1
<1>3. Chain(st)
  BY <1>1, <1>2 DEF Chain
<1>4. Used(st) = StreamsOf(f)
  BY <1>1, <1>2 DEF Used
<1> QED
  BY <1>1, <1>3, <1>4

LEMMA ConnectStep ==
  ASSUME StreamInv, NEW c \in Coro, NEW s \in Streams, Connect(c, s)
  PROVE  StreamInv'
<1>1. PICK f : f = Lowest
  OBVIOUS
<1>2. PICK g : g = [Frame("connect", s, 0) EXCEPT !.at = "wait"]
  OBVIOUS
<1>3. PICK st : st = <<g>>
  OBVIOUS
<1>4. /\ cur = c \/ cur = NoOne
      /\ stack[c] = << >> /\ stream[s].life = "new" /\ Opened(s, f)
      /\ file' = [file EXCEPT ![f] = s] /\ cur' = NoOne /\ UNCHANGED <<down, taken, accepted>>
      /\ conn' = [conn EXCEPT ![s].phase = "connecting"]
      /\ stack' = [stack EXCEPT ![c] = st] /\ reg' = [reg EXCEPT ![f] = [who |-> c, on |-> "out"]]
  BY <1>1, <1>2, <1>3 DEF Connect, Starts, history
<1>5. g \in Frames /\ g.do = "connect" /\ g.s = s /\ g.at = "wait"
  <2>1. g = [do |-> "connect", s |-> s, n |-> 0, at |-> "wait"]
    BY <1>2 DEF Frame
  <2> QED
    BY <2>1 DEF Frames, Routines, Labels
<1>6. Sound(g) /\ StreamsOf(g) = {s}
  BY <1>5 DEF Sound, StreamsOf
<1>7. st \in Seq(Frames) /\ Chain(st) /\ Used(st) = {s} /\ st # << >> /\ Head(st) = g
  BY <1>3, <1>5, <1>6, OneFrame
<1>8. f \in Fds
  BY <1>1, <1>4, LowestFree
<1>9. \A e \in Fds \cup {0} : e # f => reg'[e] = reg[e]
  BY <1>4, <1>8 DEF StreamInv, TypesOK
<1>10. ConnsOK' /\ conn'[s].phase # "backlog" /\ \A t \in Streams : t # s => conn'[t] = conn[t]
  <2>1. ConnsOK' /\ conn'[s].phase = "connecting" /\ \A t \in Streams : t # s => conn'[t] = conn[t]
    BY <1>4, PhaseChanged DEF StreamInv, TypesOK
  <2> QED
    BY <2>1
<1>11. /\ StreamsOK' /\ FilesOK' /\ file' \in [Fds -> Streams \cup {NoOne}]
       /\ stream'[s].life = "open" /\ \A t \in Streams : t # s => stream'[t] = stream[t]
  <2>1. OtherRegs(f) /\ OtherConns(s)
    BY <1>9, <1>10 DEF OtherRegs, OtherConns
  <2> QED
    BY <1>1, <1>4, <1>10, <2>1, Opens
<1>12. StackStep(c, st)
  <2>1. /\ \A d \in Coro : \A t \in Used(stack[d]) : stream'[t].life = "open"
        /\ \A d \in Coro : s \notin Used(stack[d])
    BY <1>4, <1>11, OpenStack
  <2> QED
    BY <1>4, <1>7, <1>11, <2>1 DEF StackStep
<1>13. TypesOK'
  <2>1. reg' \in [Fds \cup {0} -> [who : Coro \cup {NoOne}, on : {"absent", "off", "none", "in", "out"}]]
    <3>1. [who |-> c, on |-> "out"] \in [who : Coro \cup {NoOne}, on : {"absent", "off", "none", "in", "out"}]
      OBVIOUS
    <3> QED
      BY <1>4, <3>1 DEF StreamInv, TypesOK
  <2>2. stack' \in [Coro -> Seq(Frames)]
    BY <1>4, <1>7 DEF StreamInv, TypesOK
  <2> QED
    BY <1>4, <1>10, <1>11, <2>1, <2>2 DEF StreamInv, TypesOK, HistoryOK
<1> QED
  BY <1>4, <1>5, <1>7, <1>8, <1>11, <1>12, <1>13, SuspendStep

LEMMA AcceptStep ==
  ASSUME StreamInv, NEW c \in Coro, Accept(c)
  PROVE  StreamInv'
<1>1. PICK g : g = [Frame("accept", NoOne, 0) EXCEPT !.at = "wait"]
  OBVIOUS
<1>2. PICK st : st = <<g>>
  OBVIOUS
<1>3. /\ cur = c \/ cur = NoOne
      /\ stack[c] = << >> /\ cur' = NoOne /\ UNCHANGED <<stream, file, conn, down, taken, accepted>>
      /\ stack' = [stack EXCEPT ![c] = st] /\ reg' = [reg EXCEPT ![0] = [who |-> c, on |-> "in"]]
  BY <1>1, <1>2 DEF Accept, Starts, history
<1>4. g \in Frames /\ g.do = "accept" /\ g.at = "wait"
  <2>1. g = [do |-> "accept", s |-> NoOne, n |-> 0, at |-> "wait"]
    BY <1>1 DEF Frame
  <2> QED
    BY <2>1 DEF Frames, Routines, Labels
<1>5. Sound(g) /\ StreamsOf(g) = {}
  BY <1>4 DEF Sound, StreamsOf
<1>6. st \in Seq(Frames) /\ Chain(st) /\ Used(st) = {} /\ st # << >> /\ Head(st) = g
  BY <1>2, <1>4, <1>5, OneFrame
<1>7. StackStep(c, st)
  BY <1>3, <1>6, UsedStreams DEF StackStep
<1>8. \A e \in Fds : reg'[e] = reg[e]
  <2>1. \A e \in Fds : e # 0
    BY FdsAssumption
  <2> QED
    BY <1>3, <2>1 DEF StreamInv, TypesOK
<1>9. FilesOK'
  BY <1>3, <1>8 DEF StreamInv, FilesOK
<1>10. TypesOK'
  <2>1. reg' \in [Fds \cup {0} -> [who : Coro \cup {NoOne}, on : {"absent", "off", "none", "in", "out"}]]
    <3>1. [who |-> c, on |-> "in"] \in [who : Coro \cup {NoOne}, on : {"absent", "off", "none", "in", "out"}]
      OBVIOUS
    <3> QED
      BY <1>3, <3>1 DEF StreamInv, TypesOK
  <2>2. stack' \in [Coro -> Seq(Frames)]
    BY <1>3, <1>6 DEF StreamInv, TypesOK
  <2>3. StreamsOK' /\ ConnsOK' /\ HistoryOK'
    BY <1>3 DEF StreamInv, TypesOK, StreamsOK, ConnsOK, HistoryOK
  <2> QED
    BY <1>3, <2>1, <2>2, <2>3 DEF StreamInv, TypesOK
<1> QED
  BY <1>3, <1>4, <1>6, <1>7, <1>9, <1>10, SuspendStep

LEMMA FirstCall ==
  ASSUME StreamInv, NEW c \in Coro, Starts(c), NEW g \in Frames, Sound(g), g.at = "start",
         g.do \notin {"read", "write", "fill"}, \A s \in StreamsOf(g) : Mine(c, s),
         stack' = [stack EXCEPT ![c] = <<g>>], cur' = c,
         UNCHANGED <<stream, file, reg, conn, down, taken, accepted>>
  PROVE  StreamInv'
<1>1. PICK st : st = <<g>>
  OBVIOUS
<1>2. st \in Seq(Frames) /\ Chain(st) /\ Used(st) = StreamsOf(g) /\ st # << >> /\ Head(st) = g
  BY <1>1, OneFrame
<1>3. \A d \in Coro : Used(stack[d]) \subseteq Uses(d)
  <2>1. ASSUME NEW d \in Coro, NEW s \in Used(stack[d]) PROVE s \in Uses(d)
    <3>1. PICK low \in Seq(Frames) : low = stack[d]
      BY DEF StreamInv, TypesOK
    <3>2. PICK i \in 1 .. Len(low) : s \in StreamsOf(low[i])
      BY <2>1, <3>1 DEF Used
    <3>3. s \in {low[i].s, low[i].n}
      BY <3>2 DEF StreamsOf
    <3>4. i \in DOMAIN low
      BY <3>1, <3>2
    <3> QED
      BY <3>1, <3>3, <3>4 DEF Uses
  <2> QED
    BY <2>1
<1>4. StackStep(c, st)
  <2>1. \A s \in Used(st) : stream[s].life = "open" /\ \A d \in Coro \ {c} : s \notin Used(stack[d])
    BY <1>2, <1>3 DEF Mine
  <2> QED
    BY <1>1, <1>2, <2>1, UsedStreams DEF StackStep, Starts
<1>5. TypesOK'
  <2>1. StreamsOK' /\ ConnsOK' /\ HistoryOK'
    BY DEF StreamInv, TypesOK, StreamsOK, ConnsOK, HistoryOK
  <2>2. stack' \in [Coro -> Seq(Frames)]
    BY <1>1, <1>2 DEF StreamInv, TypesOK
  <2> QED
    BY <2>1, <2>2 DEF StreamInv, TypesOK
<1>6. FilesOK'
  BY SameFiles DEF SameLives, SamePhases
<1>7. /\ \A f \in Fds \cup {0} : Armed(f)' => Armed(f) /\ reg'[f] = reg[f]
      /\ \A f \in Fds \cup {0} : reg'[f].on = "none" => reg'[f].who = NoOne
  <2>1. \A f \in Fds \cup {0} : reg[f].on = "none" => reg[f].who = NoOne
    BY DEF StreamInv, WaitsOK
  <2> QED
    BY <2>1 DEF Armed
<1>8. HeadOK(g)'
  BY DEF HeadOK
<1> QED
  BY <1>2, <1>4, <1>5, <1>6, <1>7, <1>8, RunStep

LEMMA CallsStep ==
  ASSUME StreamInv, NEW c \in Coro, NEW s \in Streams, NEW op \in Ops[c] \ {<<"pipe", 0>>}, Calls(c, s, op)
  PROVE  StreamInv'
<1>1. /\ op[1] \in {"get", "peek", "scan", "readall", "put", "print", "flush", "end", "close", "destroy"}
      /\ op[2] \in 0 .. Capacity /\ Capacity \in Nat
  BY OpsAssumption, StreamAssumption
<1>2. PICK g : g = Frame(op[1], s, op[2])
  OBVIOUS
<1>3. g.do = op[1] /\ g.s = s /\ g.n = op[2] /\ g.at = "start" /\ g \in Frames
  <2>1. op[1] \in Routines /\ op[2] \in Nat
    BY <1>1 DEF Routines
  <2> QED
    BY <1>2, <2>1 DEF Frame, Frames, Labels
<1>4. StreamsOf(g) = {s} /\ g.do \notin {"read", "write", "fill"}
  BY <1>1, <1>3 DEF StreamsOf
<1>5. Sound(g)
  BY <1>1, <1>3, <1>4 DEF Sound
<1>6. /\ Starts(c) /\ Mine(c, s) /\ stack' = [stack EXCEPT ![c] = <<g>>] /\ cur' = c
      /\ UNCHANGED <<stream, file, reg, conn, down, taken, accepted>>
  BY <1>2 DEF Calls, kernel, history
<1> QED
  BY <1>3, <1>4, <1>5, <1>6, FirstCall

LEMMA PipesStep ==
  ASSUME StreamInv, NEW c \in Coro, NEW s \in Streams, NEW t \in Streams, Pipes(c, s, t)
  PROVE  StreamInv'
<1>1. PICK g : g = Frame("pipe", s, t)
  OBVIOUS
<1>2. g.do = "pipe" /\ g.s = s /\ g.n = t /\ g.at = "start" /\ g \in Frames /\ s # t
  BY <1>1 DEF Frame, Frames, Routines, Labels, Pipes
<1>3. StreamsOf(g) = {s, t} /\ Sound(g)
  BY <1>2 DEF StreamsOf, Sound
<1>4. /\ Starts(c) /\ Mine(c, s) /\ Mine(c, t) /\ stack' = [stack EXCEPT ![c] = <<g>>] /\ cur' = c
      /\ UNCHANGED <<stream, file, reg, conn, down, taken, accepted>>
  BY <1>1 DEF Pipes, kernel, history
<1> QED
  BY <1>2, <1>3, <1>4, FirstCall

LEMMA SameTypes ==
  ASSUME StreamInv, UNCHANGED <<stream, conn, taken, accepted>>
  PROVE  StreamsOK' /\ ConnsOK' /\ HistoryOK'
BY DEF StreamInv, TypesOK, StreamsOK, ConnsOK, HistoryOK

LEMMA LeaveStep ==
  ASSUME StreamInv, NEW c \in Coro, Leave(c)
  PROVE  StreamInv'
<1>1. /\ cur = c /\ stack[c] = << >> /\ cur' = NoOne
      /\ UNCHANGED <<stack, stream, file, reg, conn, down, taken, accepted>>
  BY DEF Leave, kernel, history
<1>2. TypesOK' /\ StacksOK' /\ FilesOK'
  BY <1>1, SameTypes DEF StreamInv, TypesOK, StacksOK, FilesOK
<1>3. \A d \in Coro : Waits(d)' => Waits(d)
  BY <1>1 DEF Waits
<1>4. \A d \in Coro : Suspended(d) => Suspended(d)'
  BY <1>1, StreamAssumption DEF Suspended
<1>5. WaitsOK'
  BY <1>1, <1>3, <1>4 DEF StreamInv, WaitsOK, Armed
<1>6. HeadsOK'
  BY <1>1 DEF StreamInv, HeadsOK, HeadOK
<1> QED
  BY <1>2, <1>5, <1>6 DEF StreamInv

(* The event loop.                                                         *)
LEMMA PollStep ==
  ASSUME StreamInv, NEW f \in Fds \cup {0}, Poll(f)
  PROVE  StreamInv'
<1>1. cur = NoOne /\ UNCHANGED <<stream, file, conn, taken, accepted>>
  BY DEF Poll, history
<1>2. CASE reg[f].who = NoOne
  <2>1. down' = "aborted" /\ UNCHANGED <<cur, stack, reg>>
    BY <1>2 DEF Poll
  <2>2. TypesOK' /\ StacksOK' /\ FilesOK'
    BY <1>1, <2>1, SameTypes DEF StreamInv, TypesOK, StacksOK, FilesOK
  <2>3. WaitsOK' /\ HeadsOK'
    BY <1>1, <2>1 DEF StreamInv, WaitsOK, Waits, Suspended, Armed, HeadsOK, HeadOK
  <2> QED
    BY <2>2, <2>3 DEF StreamInv
<1>3. CASE reg[f].who # NoOne
  <2>1. reg[f].on \in {"none", "in", "out"}
    BY DEF Poll, Ready
  <2>2. Armed(f) /\ reg[f].who \in Coro /\ Suspended(reg[f].who)
    BY <1>3, <2>1 DEF StreamInv, WaitsOK, Armed
  <2>3. PICK c \in Coro : c = reg[f].who /\ Suspended(c)
    BY <2>2
  <2>4. /\ cur' = c /\ Goto(c, "go") /\ UNCHANGED down
        /\ reg' = [reg EXCEPT ![f].on = "off"]
    BY <1>3, <2>3 DEF Poll
  <2>5. PICK st \in Seq(Frames), h \in Frames :
           /\ stack' = [stack EXCEPT ![c] = st] /\ Chain(st) /\ Used(st) = Used(stack[c])
           /\ st # << >> /\ Head(st) = At(h, "go", h.n)
    BY <2>3, <2>4, GotoStack DEF Suspended, Labels
  <2>6. Head(st).at = "go"
    BY <2>5 DEF At
  <2>7. /\ stack \in [Coro -> Seq(Frames)] /\ stack' \in [Coro -> Seq(Frames)] /\ stack'[c] = st
        /\ \A d \in Coro : d # c => stack'[d] = stack[d]
    BY <2>5 DEF StreamInv, TypesOK
  <2>8. /\ reg' \in [Fds \cup {0} -> [who : Coro \cup {NoOne}, on : {"absent", "off", "none", "in", "out"}]]
        /\ reg'[f].on = "off" /\ \A g \in Fds \cup {0} : g # f => reg'[g] = reg[g]
    <3>1. /\ reg \in [Fds \cup {0} -> [who : Coro \cup {NoOne}, on : {"absent", "off", "none", "in", "out"}]]
          /\ reg[f] \in [who : Coro \cup {NoOne}, on : {"absent", "off", "none", "in", "out"}]
      BY DEF StreamInv, TypesOK
    <3>2. PICK r : r = [reg[f] EXCEPT !.on = "off"]
      OBVIOUS
    <3>3. r \in [who : Coro \cup {NoOne}, on : {"absent", "off", "none", "in", "out"}] /\ r.on = "off"
      BY <3>1, <3>2
    <3>4. reg' = [reg EXCEPT ![f] = r]
      BY <2>4, <3>2
    <3> QED
      BY <3>1, <3>3, <3>4
  <2>9. TypesOK'
    BY <1>1, <2>4, <2>7, <2>8, SameTypes DEF StreamInv, TypesOK
  <2>10. StacksOK'
    <3>1. \A d \in Coro : Used(stack'[d]) = Used(stack[d]) /\ Chain(stack'[d])
      BY <2>5, <2>7 DEF StreamInv, StacksOK
    <3> QED
      BY <1>1, <3>1 DEF StreamInv, StacksOK
  <2>11. FilesOK'
    <3>1. f \in Fds => file[f] # NoOne
      BY <2>1 DEF StreamInv, FilesOK, Absent
    <3>2. \A g \in Fds : file[g] = NoOne => reg'[g] = Absent
      BY <2>8, <3>1 DEF StreamInv, FilesOK
    <3> QED
      BY <1>1, <3>2 DEF StreamInv, FilesOK
  <2>12. ASSUME NEW g \in Fds \cup {0}, Armed(g)' PROVE reg'[g].who \in Coro /\ Suspended(reg[g].who)'
    <3>1. g # f /\ Armed(g) /\ reg'[g] = reg[g]
      BY <2>8, <2>12 DEF Armed
    <3>2. PICK d \in Coro : d = reg[g].who /\ Suspended(d)
      BY <3>1 DEF StreamInv, WaitsOK
    <3>3. d # c
      BY <2>2, <2>3, <3>1, <3>2 DEF StreamInv, WaitsOK
    <3>4. Suspended(d)'
      BY <2>4, <2>7, <3>2, <3>3 DEF Suspended
    <3>5. reg'[g].who = d
      BY <3>1, <3>2
    <3> QED
      BY <3>4, <3>5 DEF Suspended
  <2>13. WaitsOK'
    <3>1. \A d \in Coro : Waits(d)' => Head(stack'[d]).at = "wait"
      <4>1. \A d \in Coro : Waits(d)' => Waits(d) /\ d # c
        BY <1>1, <2>4, <2>7, StreamAssumption DEF Waits
      <4> QED
        BY <2>7, <4>1 DEF StreamInv, WaitsOK
    <3>2. \A g \in Fds \cup {0} : reg'[g].on = "none" => reg'[g].who = NoOne
      <4>1. \A g \in Fds \cup {0} : reg'[g].on = "none" => g # f /\ reg'[g] = reg[g]
        BY <2>8
      <4> QED
        BY <4>1 DEF StreamInv, WaitsOK
    <3>3. \A g, e \in Fds \cup {0} : Armed(g)' /\ Armed(e)' /\ reg'[g].who = reg'[e].who => g = e
      <4>1. \A g \in Fds \cup {0} : Armed(g)' => Armed(g) /\ reg'[g] = reg[g]
        BY <2>8 DEF Armed
      <4> QED
        BY <4>1 DEF StreamInv, WaitsOK
    <3> QED
      BY <2>12, <3>1, <3>2, <3>3 DEF WaitsOK
  <2>14. HeadsOK'
    <3> SUFFICES ASSUME NEW d \in Coro, stack'[d] # << >>, NEW g, g = Head(stack'[d])
                 PROVE  HeadOK(g)'
      BY DEF HeadsOK, HeadOK
    <3>1. CASE d = c
      BY <2>6, <2>7, <3>1 DEF HeadOK
    <3>2. CASE d # c
      <4>1. g.at = "wait"
        BY <1>1, <2>7, <3>2, StreamAssumption DEF StreamInv, WaitsOK, Waits
      <4> QED
        BY <4>1 DEF HeadOK
    <3> QED
      BY <3>1, <3>2
  <2> QED
    BY <2>9, <2>10, <2>11, <2>13, <2>14 DEF StreamInv
<1> QED
  BY <1>2, <1>3

(* The peers.                                                              *)
LEMMA PeerStep ==
  ASSUME StreamInv, UNCHANGED <<cur, stack, stream, file, reg, down, taken, accepted>>, ConnsOK',
         \A t \in Streams : conn'[t].phase = "backlog" => stream[t].life = "new"
  PROVE  StreamInv'
<1>1. StreamsOK' /\ HistoryOK'
  BY DEF StreamInv, TypesOK, StreamsOK, HistoryOK
<1>2. TypesOK' /\ StacksOK'
  BY <1>1 DEF StreamInv, TypesOK, StacksOK
<1>3. FilesOK'
  BY DEF StreamInv, FilesOK
<1>4. WaitsOK' /\ HeadsOK'
  BY DEF StreamInv, WaitsOK, Waits, Suspended, Armed, HeadsOK, HeadOK
<1> QED
  BY <1>2, <1>3, <1>4 DEF StreamInv

LEMMA PeersStep ==
  ASSUME StreamInv, NEW s \in Streams, Peers(s)
  PROVE  StreamInv'
<1>1. /\ UNCHANGED <<cur, stack, stream, file, reg, down, taken, accepted>> /\ Kind[s] # "file"
      /\ ConnsOK /\ conn \in [Streams -> ConnObjects] /\ conn[s] \in ConnObjects
      /\ \A t \in Streams : conn[t].phase = "backlog" => stream[t].life = "new"
  BY ConnFields DEF Peers, PeerConnects, PeerAnswers, PeerSends, PeerEnds, PeerReceives, PeerResets,
     Peer, history, StreamInv, TypesOK, ConnsOK, FilesOK
<1>2. CASE PeerConnects(s)
  <2>1. ConnsOK' /\ \A t \in Streams : t # s => conn'[t] = conn[t]
    BY <1>1, <1>2, PhaseChanged DEF PeerConnects
  <2>2. stream[s].life = "new"
    BY <1>2 DEF PeerConnects
  <2> QED
    BY <1>1, <2>1, <2>2, PeerStep
<1>3. ASSUME NEW k \in ConnObjects, conn' = [conn EXCEPT ![s] = k], k.phase # "backlog" \/ k.phase = conn[s].phase
      PROVE  StreamInv'
  <2>1. ConnsOK' /\ conn'[s] = k /\ \A t \in Streams : t # s => conn'[t] = conn[t]
    BY <1>1, <1>3 DEF ConnsOK
  <2> QED
    BY <1>1, <1>3, <2>1, PeerStep
<1>4. CASE PeerAnswers(s)
  <2>1. PICK err \in {"none", "reset"} : conn' = [conn EXCEPT ![s].phase = "up", ![s].err = err]
    BY <1>4 DEF PeerAnswers
  <2>2. PICK m, n : m = [conn[s] EXCEPT !.phase = "up"] /\ n = [m EXCEPT !.err = err]
    OBVIOUS
  <2>3. m \in ConnObjects /\ m.phase = "up"
    BY <1>1, <2>2 DEF ConnObjects
  <2>4. n \in ConnObjects /\ n.phase = "up"
    BY <2>2, <2>3 DEF ConnObjects
  <2>5. conn' = [conn EXCEPT ![s] = n]
    <3>1. PICK t : t = [conn EXCEPT ![s].phase = "up"]
      OBVIOUS
    <3>2. t = [conn EXCEPT ![s] = m] /\ t[s] = m /\ conn' = [t EXCEPT ![s].err = err]
      BY <1>1, <2>1, <2>2, <3>1
    <3>3. [t EXCEPT ![s].err = err] = [t EXCEPT ![s] = n]
      BY <2>2, <3>2
    <3> QED
      BY <1>1, <3>2, <3>3
  <2> QED
    BY <1>3, <2>4, <2>5
<1>5. CASE PeerSends(s)
  <2>1. /\ conn' = [conn EXCEPT ![s].sent = @ + 1, ![s].wire = Append(@, conn[s].sent + 1)]
        /\ conn[s].sent < MaxSent /\ conn[s].sent \in 0 .. MaxSent /\ MaxSent \in Nat /\ conn[s].wire \in Seq(Nat)
    BY <1>1, <1>5, ConnFields, StreamAssumption DEF PeerSends
  <2>2. PICK w : w = Append(conn[s].wire, conn[s].sent + 1)
    OBVIOUS
  <2>3. w \in Seq(Nat) /\ conn[s].sent + 1 \in 0 .. MaxSent
    BY <2>1, <2>2, AppendProperties
  <2>4. PICK m, n : m = [conn[s] EXCEPT !.sent = conn[s].sent + 1] /\ n = [m EXCEPT !.wire = w]
    OBVIOUS
  <2>5. m \in ConnObjects /\ m.phase = conn[s].phase /\ m.wire = conn[s].wire
    BY <1>1, <2>3, <2>4 DEF ConnObjects
  <2>6. n \in ConnObjects /\ n.phase = conn[s].phase
    BY <2>3, <2>4, <2>5 DEF ConnObjects
  <2>7. conn' = [conn EXCEPT ![s] = n]
    <3>1. PICK t : t = [conn EXCEPT ![s].sent = @ + 1]
      OBVIOUS
    <3>2. t = [conn EXCEPT ![s] = m] /\ t[s] = m
      BY <1>1, <2>4, <3>1
    <3>3. conn' = [t EXCEPT ![s].wire = Append(@, conn[s].sent + 1)]
      BY <2>1, <3>1
    <3>4. conn' = [t EXCEPT ![s] = n]
      BY <2>2, <2>4, <2>5, <3>2, <3>3
    <3> QED
      BY <1>1, <3>2, <3>4
  <2> QED
    BY <1>3, <2>6, <2>7
<1>6. CASE PeerEnds(s)
  <2>1. PICK k : k = [conn[s] EXCEPT !.fin = TRUE]
    OBVIOUS
  <2>2. k \in ConnObjects /\ k.phase = conn[s].phase
    BY <1>1, <2>1 DEF ConnObjects
  <2>3. conn' = [conn EXCEPT ![s] = k]
    BY <1>6, <2>1 DEF PeerEnds
  <2> QED
    BY <1>3, <2>2, <2>3
<1>7. CASE PeerReceives(s)
  <2>1. PICK k : k = [conn[s] EXCEPT !.flight = conn[s].flight - 1]
    OBVIOUS
  <2>2. conn[s].flight - 1 \in 0 .. Room
    BY <1>1, <1>7, ConnFields, StreamAssumption DEF PeerReceives
  <2>3. k \in ConnObjects /\ k.phase = conn[s].phase
    BY <1>1, <2>1, <2>2 DEF ConnObjects
  <2>4. conn' = [conn EXCEPT ![s] = k]
    BY <1>1, <1>7, <2>1 DEF PeerReceives
  <2> QED
    BY <1>3, <2>3, <2>4
<1>8. CASE PeerResets(s)
  <2>1. PICK err \in {"pipe", "reset"} : err = IF conn[s].fin THEN "pipe" ELSE "reset"
    OBVIOUS
  <2>2. PICK m, n : m = [conn[s] EXCEPT !.err = err] /\ n = [m EXCEPT !.flight = 0]
    OBVIOUS
  <2>3. m \in ConnObjects /\ m.phase = conn[s].phase
    BY <1>1, <2>2 DEF ConnObjects
  <2>4. n \in ConnObjects /\ n.phase = conn[s].phase
    <3>1. 0 \in 0 .. Room
      BY StreamAssumption
    <3> QED
      BY <2>2, <2>3, <3>1 DEF ConnObjects
  <2>5. conn' = [conn EXCEPT ![s] = n]
    <3>1. PICK t : t = [conn EXCEPT ![s].err = err]
      OBVIOUS
    <3>2. t = [conn EXCEPT ![s] = m] /\ t[s] = m /\ conn' = [t EXCEPT ![s].flight = 0]
      BY <1>1, <1>8, <2>1, <2>2, <3>1 DEF PeerResets
    <3>3. [t EXCEPT ![s].flight = 0] = [t EXCEPT ![s] = n]
      BY <2>2, <3>2
    <3> QED
      BY <1>1, <3>2, <3>3
  <2> QED
    BY <1>3, <2>4, <2>5
<1> QED
  BY <1>2, <1>4, <1>5, <1>6, <1>7, <1>8 DEF Peers

LEMMA StreamInit ==
  ASSUME Init
  PROVE  StreamInv
<1>1. Capacity \in Nat /\ Room \in Nat /\ MaxSent \in Nat /\ 0 \in 0 .. Room /\ 0 \in 0 .. MaxSent
  BY StreamAssumption
<1>2. << >> \in Seq(Nat) /\ << >> \in Seq(Frames)
  BY EmptySeq
<1>3. PICK use : stream = [s \in Streams |-> [NewStream EXCEPT !.life = IF s \in use THEN "new" ELSE "unused"]]
  BY DEF Init
<1>4. Buffer(Capacity) \in Buffers /\ Buffer(Capacity).cap = Capacity
  BY <1>1, BufferNew
<1>5. ASSUME NEW s \in Streams
      PROVE  /\ stream[s] \in StreamObjects /\ stream[s].in.cap = Capacity /\ stream[s].out.cap = Capacity
             /\ stream[s].life \in {"new", "unused"}
  <2>1. PICK life \in {"new", "unused"} : life = IF s \in use THEN "new" ELSE "unused"
    OBVIOUS
  <2>2. PICK b : b = Buffer(Capacity)
    OBVIOUS
  <2>3. stream[s] = [life |-> life, fd |-> 0, status |-> "OK", in |-> b, out |-> b, tmp |-> << >>, closed |-> {}]
    BY <1>3, <2>1, <2>2 DEF NewStream
  <2> QED
    BY <1>4, <2>2, <2>3 DEF StreamObjects
<1>6. StreamsOK
  BY <1>3, <1>5 DEF StreamsOK
<1>7. ConnsOK /\ \A s \in Streams : conn[s].phase = "none"
  <2>1. NewConn \in ConnObjects /\ NewConn.phase = "none"
    BY <1>1, <1>2 DEF NewConn, ConnObjects
  <2> QED
    BY <2>1 DEF Init, ConnsOK
<1>8. HistoryOK
  BY <1>2 DEF Init, HistoryOK
<1>9. \A f \in Fds : f # 0
  BY FdsAssumption
<1>10. \A f \in Fds \cup {0} : /\ reg[f] \in [who : Coro \cup {NoOne}, on : {"absent", "off", "none", "in", "out"}]
                               /\ reg[f].on \in {"absent", "off"} /\ (f # 0 => reg[f] = Absent)
  BY DEF Init, Absent
<1>11. TypesOK
  <2>1. reg \in [Fds \cup {0} -> [who : Coro \cup {NoOne}, on : {"absent", "off", "none", "in", "out"}]]
    <3>1. DOMAIN reg = Fds \cup {0} /\ reg = [f \in DOMAIN reg |-> reg[f]]
      BY DEF Init
    <3> QED
      BY <1>10, <3>1
  <2>2. stack \in [Coro -> Seq(Frames)] /\ file \in [Fds -> Streams \cup {NoOne}]
    BY <1>2 DEF Init
  <2> QED
    BY <1>6, <1>7, <1>8, <2>1, <2>2 DEF Init, TypesOK
<1>12. StacksOK
  BY ChainEmpty DEF Init, StacksOK
<1>13. FilesOK
  BY <1>5, <1>7, <1>9, <1>10 DEF Init, FilesOK
<1>14. WaitsOK
  BY <1>10 DEF Init, WaitsOK, Waits, Armed
<1>15. HeadsOK
  BY DEF Init, HeadsOK
<1> QED
  BY <1>11, <1>12, <1>13, <1>14, <1>15 DEF StreamInv

LEMMA StreamNext ==
  ASSUME StreamInv, [Next]_vars
  PROVE  StreamInv'
<1>1. ASSUME NEW c \in Coro, Step(c)
      PROVE  StreamInv'
  <2>1. CASE ReadAgain(c) \/ GetFails(c) \/ PeekEnd(c) \/ ScanEnd(c) \/ ReadMore(c) \/ PutStart(c)
             \/ Pipe(c) \/ End(c) \/ Close(c)
    BY <2>1, PlainSteps
  <2>2. CASE ReadStart(c) \/ WriteStart(c)
    <3>1. PICK do \in {"read", "write"}, on \in {"in", "out"} : Doing(c, do, "start") /\ Begin(c, on)
      BY <2>2 DEF ReadStart, WriteStart
    <3> QED
      BY <3>1, BeginStep
  <2>3. CASE ReadGo(c)
    BY <2>3, ReadGoStep
  <2>4. CASE WriteGo(c)
    BY <2>4, WriteGoStep
  <2>5. CASE Fill(c)
    BY <2>5, FillStep
  <2>6. CASE FillEnd(c)
    BY <2>6, FillEndStep
  <2>7. CASE Get(c)
    BY <2>7, GetStep
  <2>8. CASE GetTakes(c)
    BY <2>8, GetTakesStep
  <2>9. CASE Peek(c)
    BY <2>9, PeekStep
  <2>10. CASE Scan(c)
    BY <2>10, ScanStep
  <2>11. CASE ReadAll(c)
    BY <2>11, ReadAllStep
  <2>12. CASE ReadAllEnd(c)
    BY <2>12, ReadAllEndStep
  <2>13. CASE Flush(c)
    BY <2>13, FlushStep
  <2>14. CASE PutEnd(c)
    BY <2>14, PutEndStep
  <2>15. CASE PutAll(c)
    BY <2>15, PutAllStep
  <2>16. CASE PipeNext(c)
    BY <2>16, PipeNextStep
  <2>17. CASE EndShuts(c)
    BY <2>17, EndShutsStep
  <2>18. CASE CloseEnd(c)
    BY <2>18, CloseEndStep
  <2>19. CASE Destroy(c)
    BY <2>19, DestroyStep
  <2>20. CASE DestroyEnd(c)
    BY <2>20, DestroyEndStep
  <2>21. CASE Connected(c)
    BY <2>21, ConnectedStep
  <2>22. CASE \E s \in Streams : Accepted(c, s)
    BY <2>22, AcceptedStep
  <2> QED
    BY <1>1, <2>1, <2>2, <2>3, <2>4, <2>5, <2>6, <2>7, <2>8, <2>9, <2>10, <2>11, <2>12, <2>13, <2>14,
       <2>15, <2>16, <2>17, <2>18, <2>19, <2>20, <2>21, <2>22 DEF Step
<1>2. ASSUME NEW c \in Coro, Program(c)
      PROVE  StreamInv'
  BY <1>2, AcceptStep, LeaveStep, OpenFileStep, ConnectStep, CallsStep, PipesStep DEF Program
<1>3. ASSUME Stop \/ UNCHANGED vars
      PROVE  StreamInv'
  <2>1. UNCHANGED <<cur, stack, stream, file, reg, conn, down, taken, accepted>>
    BY <1>3 DEF Stop, vars
  <2>2. ConnsOK' /\ \A t \in Streams : conn'[t].phase = "backlog" => stream[t].life = "new"
    BY <2>1 DEF StreamInv, TypesOK, ConnsOK, FilesOK
  <2> QED
    BY <2>1, <2>2, PeerStep
<1> QED
  BY <1>1, <1>2, <1>3, PollStep, PeersStep DEF Next, Up

LEMMA TypesFollow ==
  ASSUME StreamInv
  PROVE  StreamTypeOK
<1>1. ASSUME NEW s \in Streams
      PROVE  /\ BufferOK(stream[s].in) /\ BufferOK(stream[s].out)
             /\ stream[s].tmp # << >> => BufferOK(stream[s].tmp[1])
             /\ stream[s].status \in {"OK", "ERROR", "EOF"} /\ stream[s].life \in {"unused", "new", "open", "gone"}
  BY StreamFields DEF StreamInv, TypesOK, Buffers
<1>2. ASSUME NEW s \in Streams
      PROVE  conn[s].flight \in 0 .. Room /\ conn[s].sent \in 0 .. MaxSent
  BY ConnFields DEF StreamInv, TypesOK
<1>3. /\ cur \in Coro \cup {NoOne} /\ down \in {"no", "aborted", "killed"}
      /\ \A f \in Fds : file[f] \in Streams \cup {NoOne} /\ (file[f] = NoOne => reg[f] = Absent)
      /\ \A f, g \in Fds : file[f] = file[g] /\ file[f] # NoOne => f = g
  BY DEF StreamInv, TypesOK, FilesOK
<1>4. \A c \in Coro : Waits(c) => Head(stack[c]).at \in {"wait", "go"}
  BY DEF StreamInv, WaitsOK
<1> QED
  BY <1>1, <1>2, <1>3, <1>4 DEF StreamTypeOK

(* The variables of a stream keep their types: no index leaves its buffer, *)
(* whatever is read, put, scanned, piped or closed, an open stream has a   *)
(* descriptor and shares it with no other, and a coroutine that does not   *)
(* run waits in read(), write(), accept() or connect() (Io/Stream.c,       *)
(* Io/Buffer.c).                                                           *)
THEOREM StreamTypesHold == Spec => []StreamTypeOK
<1>1. Init => StreamInv
  BY StreamInit
<1>2. StreamInv /\ [Next]_vars => StreamInv'
  BY StreamNext
<1>3. StreamInv => StreamTypeOK
  BY TypesFollow
<1> QED
  BY <1>1, <1>2, <1>3, PTL DEF Spec
=============================================================================
