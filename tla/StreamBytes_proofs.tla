------------------------- MODULE StreamBytes_proofs -------------------------
(***************************************************************************)
(* The bytes of buffered streams keep their order, and the end of a stream *)
(* comes after its last byte: for any number of coroutines, streams and    *)
(* descriptors and buffers of any size, of programs that get single bytes  *)
(* and leave close() to the destructor of a stream, or close streams and   *)
(* do not use them after their numbers were given out again.               *)
(***************************************************************************)
EXTENDS Stream_proofs

(* Words of two bytes or more are not covered: Buffer_compact() loses      *)
(* bytes for them (run stream_compact).  And an object that is used after  *)
(* it was closed must not find somebody else's connection under its number *)
(* (NoClose, below, is enough for that).                                   *)
SingleBytes == \A c \in Coro : \A op \in Ops[c] : op[1] = "get" => op[2] <= 1
OwnFiles == \A s \in Streams : stream[s].life = "open" => file[stream[s].fd] \in {s, NoOne}

-----------------------------------------------------------------------------
(* What is known of one stream x, its connection k, and the bytes that the *)
(* program took and gave.                                                  *)
Begins(tk, all) == \E rest \in Seq(Nat) : tk \o rest = all
Input(closed, b, wire, sent, tk) ==
    /\ closed = {} => tk \o Bytes(b) \o wire = Count(sent)
    /\ closed # {} => Size(b) = 0 /\ Begins(tk, Count(sent))
Output(b, written, ac) == written \o Bytes(b) = ac

InOf(x) == IF x.tmp = << >> THEN x.in ELSE x.tmp[1]
OutDone(x) == x.status = "ERROR" \/ Size(x.out) = 0
Ended(k) == k.wire = << >> /\ (k.fin \/ k.err # "none")

Flow(x, k, tk, ac) ==
    /\ Input(x.closed, InOf(x), k.wire, k.sent, tk) /\ InOf(x).cap > 0
    /\ Output(x.out, k.written, ac)
    /\ x.status = "EOF" /\ x.closed = {} => Ended(k) /\ Size(x.in) = 0
    /\ x.life = "gone" => OutDone(x)
    /\ x.life \in {"unused", "new"} =>
          x.status = "OK" /\ x.closed = {} /\ k.sent = 0 /\ k.phase \in {"none", "backlog"}
    /\ k.phase # "up" => k.err = "none" /\ ~ k.fin
Flows == \A s \in Streams : Flow(stream[s], conn[s], taken[s], accepted[s])

(* An open stream has its descriptor, registered, until it is closed.      *)
OwnersOK ==
    /\ \A s \in Streams :
        /\ stream[s].closed \subseteq {s}
        /\ stream[s].life = "open" /\ stream[s].closed = {} => file[stream[s].fd] = s
    /\ \A f \in Fds :
        file[f] # NoOne => stream[file[f]].closed = {} /\ (Kind[file[f]] = "file" \/ reg[f].on # "absent")

(* Only readall() has a buffer of its own.                                 *)
Reading(st, s) ==
    /\ st # << >> /\ Head(st).s = s
    /\ \/ Head(st).do = "readall"
       \/ Head(st).do = "read" /\ Tail(st) # << >> /\ Head(Tail(st)).do = "readall"
TmpsOK == \A s \in Streams : stream[s].tmp # << >> => \E c \in Coro : Reading(stack[c], s)

(* What the running call of a coroutine relies on.                         *)
FrameOK(h) ==
    /\ h.do = "read" => Free(Into(h.s)) > 0
    /\ h.do \in {"fill", "get"} => h.n <= 1
    /\ h.do = "fill" /\ h.at = "filled" /\ Size(stream[h.s].in) = 0 /\ stream[h.s].closed = {} => Ended(conn[h.s])
    /\ h.do = "close" /\ h.at = "flushed" => OutDone(stream[h.s])
    /\ h.do = "destroy" /\ h.at = "closed" => OutDone(stream[h.s])
    /\ h.do = "pipe" /\ h.at = "next" => OutDone(stream[h.s])
    /\ h.do = "write" /\ h.n # h.s => Size(stream[h.s].out) = 0
    /\ h.do = "accept" => h.s = NoOne
UnderRead(g) == (g.do = "fill" => g.n <= 1) /\ (g.do = "pipe" => OutDone(stream[g.s]))
RunOK(st) == st # << >> => FrameOK(Head(st)) /\ (Head(st).do = "read" => UnderRead(Head(Tail(st))))
RunsOK == \A c \in Coro : RunOK(stack[c])

BytesInv == StreamInv /\ Flows /\ OwnersOK /\ TmpsOK /\ RunsOK

-----------------------------------------------------------------------------
(* The bytes of one stream.                                                *)
LEMMA EmptyJoin ==
  ASSUME NEW a \in Seq(Nat), NEW b \in Seq(Nat)
  PROVE  a \o b = << >> <=> a = << >> /\ b = << >>
<1>1. Len(a) \in Nat /\ Len(b) \in Nat /\ a \o b \in Seq(Nat) /\ Len(a \o b) = Len(a) + Len(b)
  BY ConcatProperties, LenProperties
<1>2. Len(a) + Len(b) = 0 <=> Len(a) = 0 /\ Len(b) = 0
  BY <1>1
<1> QED
  BY <1>1, <1>2, EmptySeq

Regroups(a, b, c) ==
    a \o b \in Seq(Nat) /\ b \o c \in Seq(Nat) /\ (a \o b) \o c = a \o (b \o c)

LEMMA Joined ==
  ASSUME NEW a \in Seq(Nat), NEW b \in Seq(Nat), NEW c \in Seq(Nat)
  PROVE  Regroups(a, b, c)
<1>1. a \in Seq(Nat) /\ b \in Seq(Nat) /\ c \in Seq(Nat)
  OBVIOUS
<1>2. a \o b \in Seq(Nat) /\ b \o c \in Seq(Nat)
  BY ConcatProperties
<1>3. (a \o b) \o c = a \o (b \o c)
  BY <1>1, ConcatAssociative, SMTT(30)
<1> QED
  BY <1>2, <1>3 DEF Regroups

LEMMA CountNext ==
  ASSUME NEW n \in Nat
  PROVE  Count(n) \in Seq(Nat) /\ Len(Count(n)) = n /\ Append(Count(n), n + 1) = Count(n + 1)
<1>1. \A m \in Nat : Count(m) \in Seq(Nat) /\ Len(Count(m)) = m /\ \A i \in 1 .. m : Count(m)[i] = i
  <2>1. ASSUME NEW m \in Nat
        PROVE  Count(m) \in Seq(Nat) /\ Len(Count(m)) = m /\ \A i \in 1 .. m : Count(m)[i] = i
    <3>1. Count(m) \in [1 .. m -> Nat] /\ \A i \in 1 .. m : Count(m)[i] = i
      BY DEF Count
    <3> QED
      BY <3>1
  <2> QED
    BY <2>1
<1>2. PICK x \in Seq(Nat), y \in Seq(Nat) : x = Count(n) /\ y = Append(x, n + 1)
  <2>1. PICK x \in Seq(Nat) : x = Count(n)
    BY <1>1
  <2>2. Append(x, n + 1) \in Seq(Nat)
    OBVIOUS
  <2> QED
    BY <2>1, <2>2
<1>3. PICK z \in Seq(Nat) : z = Count(n + 1)
  BY <1>1
<1>4. /\ Len(x) = n /\ Len(y) = n + 1 /\ y[n + 1] = n + 1 /\ \A i \in 1 .. n : y[i] = x[i] /\ x[i] = i
  BY <1>1, <1>2, AppendProperties
<1>5. Len(z) = n + 1 /\ \A i \in 1 .. n + 1 : z[i] = i
  BY <1>1, <1>3
<1>6. \A i \in 1 .. n + 1 : y[i] = z[i]
  <2>1. \A i \in 1 .. n + 1 : i \in 1 .. n \/ i = n + 1
    OBVIOUS
  <2> QED
    BY <1>4, <1>5, <2>1
<1>7. y = z
  BY <1>4, <1>5, <1>6, SeqEqual
<1> QED
  BY <1>1, <1>2, <1>3, <1>7

LEMMA InputSame ==
  ASSUME NEW closed, NEW b \in Buffers, NEW d \in Buffers, NEW wire, NEW sent, NEW tk,
         Bytes(d) = Bytes(b), Input(closed, b, wire, sent, tk)
  PROVE  Input(closed, d, wire, sent, tk)
BY BufferBytes DEF Input

LEMMA InputRead ==
  ASSUME NEW b \in Buffers, NEW wire \in Seq(Nat), NEW k \in 0 .. Len(wire), k <= Free(b),
         NEW sent \in Nat, NEW tk \in Seq(Nat), Input({}, b, wire, sent, tk)
  PROVE  Input({}, Filled(b, SubSeq(wire, 1, k)), SubSeq(wire, k + 1, Len(wire)), sent, tk)
<1>1. PICK x \in Seq(Nat), y \in Seq(Nat) :
         /\ x = SubSeq(wire, 1, k) /\ y = SubSeq(wire, k + 1, Len(wire)) /\ x \o y = wire /\ Len(x) = k
  <2>1. /\ SubSeq(wire, 1, k) \in Seq(Nat) /\ Len(SubSeq(wire, 1, k)) = k
        /\ SubSeq(wire, k + 1, Len(wire)) \in Seq(Nat)
        /\ SubSeq(wire, 1, k) \o SubSeq(wire, k + 1, Len(wire)) = wire
    BY SplitAt
  <2> QED
    BY <2>1, Zenon
<1>2. PICK z \in Seq(Nat) : z = Bytes(b)
  BY BufferBytes
<1>3. Bytes(Filled(b, x)) = z \o x
  BY <1>1, <1>2, BufferFilled
<1>4. tk \o z \in Seq(Nat) /\ z \o x \in Seq(Nat)
  BY ConcatProperties
<1>5. (tk \o (z \o x)) \o y = (tk \o z) \o (x \o y)
  <2>1. Regroups(tk, z, x) /\ Regroups(tk \o z, x, y)
    BY <1>4, Joined
  <2> QED
    BY <2>1 DEF Regroups
<1>6. tk \o z \o wire = Count(sent)
  BY <1>2 DEF Input
<1> QED
  BY <1>1, <1>3, <1>5, <1>6 DEF Input

LEMMA InputTaken ==
  ASSUME NEW closed, NEW b \in Buffers, NEW d \in Buffers, NEW x \in Seq(Nat), x \o Bytes(d) = Bytes(b),
         NEW wire \in Seq(Nat), NEW sent \in Nat, NEW tk \in Seq(Nat), Input(closed, b, wire, sent, tk)
  PROVE  Input(closed, d, wire, sent, tk \o x)
<1>1. PICK y \in Seq(Nat) : y = Bytes(d)
  BY BufferBytes
<1>2. (tk \o x) \o y = tk \o (x \o y)
  <2>1. Regroups(tk, x, y)
    BY Joined
  <2> QED
    BY <2>1 DEF Regroups
<1>3. ASSUME Size(b) = 0 PROVE Size(d) = 0 /\ x = << >>
  <2>1. x \o y = << >>
    BY <1>1, <1>3, BufferBytes
  <2>2. x = << >> /\ y = << >>
    BY <2>1, EmptyJoin
  <2> QED
    BY <1>1, <2>2, BufferBytes
<1>4. tk \o << >> = tk
  BY ConcatEmptySeq
<1> QED
  BY <1>1, <1>2, <1>3, <1>4 DEF Input

LEMMA InputClosed ==
  ASSUME NEW closed, NEW more, more # {}, NEW b \in Buffers, NEW d \in Buffers, Size(d) = 0,
         NEW wire \in Seq(Nat), NEW sent \in Nat, NEW tk \in Seq(Nat), Input(closed, b, wire, sent, tk)
  PROVE  Input(more, d, wire, sent, tk)
<1>1. ASSUME closed = {} PROVE Begins(tk, Count(sent))
  <2>1. PICK x \in Seq(Nat) : x = Bytes(b)
    BY BufferBytes
  <2>2. tk \o x \o wire = Count(sent)
    BY <1>1, <2>1 DEF Input
  <2>3. (tk \o x) \o wire = tk \o (x \o wire) /\ x \o wire \in Seq(Nat)
    <3>1. Regroups(tk, x, wire)
      BY Joined
    <3> QED
      BY <3>1 DEF Regroups
  <2> QED
    BY <2>2, <2>3 DEF Begins
<1> QED
  BY <1>1 DEF Input

LEMMA InputOpened ==
  ASSUME NEW b \in Buffers, NEW wire \in Seq(Nat), NEW tk \in Seq(Nat), Input({}, b, wire, 0, tk),
         NEW n \in Nat
  PROVE  Input({}, b, Count(n), n, tk)
<1>1. PICK x \in Seq(Nat) : x = Bytes(b)
  BY BufferBytes
<1>2. tk \o x \o wire = << >>
  <2>1. Len(Count(0)) = 0 /\ Count(0) \in Seq(Nat)
    BY CountNext
  <2> QED
    BY <1>1, <2>1, EmptySeq DEF Input
<1>3. tk = << >> /\ x = << >>
  <2>1. tk \o x \in Seq(Nat)
    BY ConcatProperties
  <2>2. tk \o x = << >>
    BY <1>2, <2>1, EmptyJoin
  <2> QED
    BY <2>2, EmptyJoin
<1>4. << >> \o << >> \o Count(n) = Count(n)
  BY CountNext, ConcatEmptySeq, EmptySeq
<1> QED
  BY <1>1, <1>3, <1>4 DEF Input

LEMMA InputSent ==
  ASSUME NEW b \in Buffers, NEW wire \in Seq(Nat), NEW sent \in Nat, NEW tk \in Seq(Nat),
         Input({}, b, wire, sent, tk)
  PROVE  Input({}, b, Append(wire, sent + 1), sent + 1, tk)
<1>1. PICK x \in Seq(Nat) : x = Bytes(b)
  BY BufferBytes
<1>2. PICK y \in Seq(Nat) : y = tk \o x
  BY ConcatProperties
<1>3. y \o wire = Count(sent)
  BY <1>1, <1>2 DEF Input
<1>4. PICK e \in Nat : e = sent + 1
  OBVIOUS
<1>5. y \o Append(wire, e) = Append(y \o wire, e)
  <2>1. Append(wire, e) = wire \o <<e>>
    BY AppendIsConcat
  <2>2. y \o wire \in Seq(Nat) /\ <<e>> \in Seq(Nat)
    BY ConcatProperties
  <2>3. Append(y \o wire, e) = (y \o wire) \o <<e>>
    BY <2>2, AppendIsConcat
  <2>4. (y \o wire) \o <<e>> = y \o (wire \o <<e>>)
    <3>1. Regroups(y, wire, <<e>>)
      BY <2>2, Joined
    <3> QED
      BY <3>1 DEF Regroups
  <2> QED
    BY <2>1, <2>3, <2>4
<1>6. Append(Count(sent), e) = Count(e)
  BY <1>4, CountNext
<1> QED
  BY <1>1, <1>2, <1>3, <1>4, <1>5, <1>6 DEF Input

LEMMA OutputPut ==
  ASSUME NEW b \in Buffers, NEW d \in Buffers, NEW x \in Seq(Nat), Bytes(d) = Bytes(b) \o x,
         NEW written \in Seq(Nat), NEW ac \in Seq(Nat), Output(b, written, ac)
  PROVE  Output(d, written, ac \o x)
<1>1. PICK y \in Seq(Nat) : y = Bytes(b)
  BY BufferBytes
<1>2. (written \o y) \o x = written \o (y \o x)
  <2>1. Regroups(written, y, x)
    BY Joined
  <2> QED
    BY <2>1 DEF Regroups
<1> QED
  BY <1>1, <1>2 DEF Output

LEMMA OutputWritten ==
  ASSUME NEW b \in Buffers, NEW d \in Buffers, NEW x \in Seq(Nat), x \o Bytes(d) = Bytes(b),
         NEW written \in Seq(Nat), NEW ac \in Seq(Nat), Output(b, written, ac)
  PROVE  Output(d, written \o x, ac)
<1>1. PICK y \in Seq(Nat) : y = Bytes(d)
  BY BufferBytes
<1>2. (written \o x) \o y = written \o (x \o y)
  <2>1. Regroups(written, x, y)
    BY Joined
  <2> QED
    BY <2>1 DEF Regroups
<1> QED
  BY <1>1, <1>2 DEF Output

LEMMA OutputEmpty ==
  ASSUME NEW b \in Buffers, NEW d \in Buffers, Size(b) = 0, Size(d) = 0,
         NEW written \in Seq(Nat), NEW ac \in Seq(Nat), Output(b, written, ac)
  PROVE  Output(d, written, ac) /\ \A x \in Seq(Nat) : Output(d, written \o x, ac \o x)
<1>1. Bytes(b) = << >> /\ Bytes(d) = << >>
  BY BufferBytes
<1>2. written \o << >> = written /\ \A x \in Seq(Nat) : (written \o x) \o << >> = written \o x
  BY ConcatEmptySeq, ConcatProperties
<1> QED
  BY <1>1, <1>2 DEF Output

-----------------------------------------------------------------------------
(* What a step of one coroutine leaves to the others.                      *)
LEMMA FrameSame ==
  ASSUME NEW h, FrameOK(h),
         h.do \in {"read", "fill", "get", "close", "destroy", "pipe", "write"} =>
             stream'[h.s] = stream[h.s] /\ (Ended(conn[h.s]) => Ended(conn'[h.s]))
  PROVE  FrameOK(h)'
<1>1. CASE h.do \in {"read", "fill", "get", "close", "destroy", "pipe", "write"}
  <2>1. Into(h.s)' = Into(h.s)
    BY <1>1 DEF Into
  <2>2. /\ h.do = "read" => Free(Into(h.s)') > 0
        /\ h.do \in {"fill", "get"} => h.n <= 1
        /\ h.do = "accept" => h.s = NoOne
    BY <2>1 DEF FrameOK
  <2>3. /\ h.do = "fill" /\ h.at = "filled" /\ Size(stream'[h.s].in) = 0 /\ stream'[h.s].closed = {} => Ended(conn'[h.s])
        /\ h.do = "close" /\ h.at = "flushed" => OutDone(stream'[h.s])
        /\ h.do = "destroy" /\ h.at = "closed" => OutDone(stream'[h.s])
        /\ h.do = "pipe" /\ h.at = "next" => OutDone(stream'[h.s])
        /\ h.do = "write" /\ h.n # h.s => Size(stream'[h.s].out) = 0
    BY <1>1 DEF FrameOK
  <2> QED
    BY <2>2, <2>3 DEF FrameOK
<1>2. CASE h.do \notin {"read", "fill", "get", "close", "destroy", "pipe", "write"}
  BY <1>2 DEF FrameOK
<1> QED
  BY <1>1, <1>2

LEMMA TopFrames ==
  ASSUME NEW st \in Seq(Frames), Chain(st), st # << >>
  PROVE  /\ Head(st) \in Frames /\ Sound(Head(st)) /\ StreamsOf(Head(st)) \subseteq Used(st)
         /\ Head(st).do # "accept" => Head(st).s \in Used(st)
         /\ Tail(st) \in Seq(Frames)
         /\ Tail(st) # << >> =>
               /\ CalledBy(Head(st), Head(Tail(st))) /\ Head(Tail(st)) \in Frames /\ Sound(Head(Tail(st)))
               /\ Head(Tail(st)).do # "accept" => Head(Tail(st)).s \in Used(st)
         /\ Head(st).do \in {"read", "write", "fill"} => Tail(st) # << >>
<1>1. /\ Head(st) \in Frames /\ Sound(Head(st)) /\ Tail(st) \in Seq(Frames) /\ Chain(Tail(st))
      /\ Tail(st) # << >> => CalledBy(Head(st), Head(Tail(st)))
      /\ Head(st).do \in {"read", "write", "fill"} => Tail(st) # << >>
      /\ Used(st) = StreamsOf(Head(st)) \cup Used(Tail(st))
  BY ChainPop
<1>2. PICK rest \in Seq(Frames) : rest = Tail(st)
  BY <1>1
<1>3. rest # << >> => Head(rest) \in Frames /\ Sound(Head(rest)) /\ Used(rest) = StreamsOf(Head(rest)) \cup Used(Tail(rest))
  BY <1>1, <1>2, ChainPop
<1>4. \A h : h.do # "accept" => h.s \in StreamsOf(h)
  BY DEF StreamsOf
<1> QED
  BY <1>1, <1>2, <1>3, <1>4

LEMMA ReadingUses ==
  ASSUME NEW st \in Seq(Frames), Chain(st), NEW s, Reading(st, s)
  PROVE  s \in Used(st) /\ Head(st).do \in {"read", "readall"} /\ StreamsOf(Head(st)) = {s}
BY TopFrames DEF Reading, StreamsOf

LEMMA StacksKnown ==
  ASSUME StreamInv, NEW c \in Coro
  PROVE  stack[c] \in Seq(Frames) /\ Chain(stack[c]) /\ stack \in [Coro -> Seq(Frames)]
         /\ Used(stack[c]) \subseteq Streams
BY UsedStreams DEF StreamInv, TypesOK, StacksOK

LEMMA TmpOwner ==
  ASSUME BytesInv, NEW c \in Coro, NEW s \in Used(stack[c]), stream[s].tmp # << >>
  PROVE  Reading(stack[c], s)
<1>1. StreamInv /\ s \in Streams
  BY UsedStreams DEF BytesInv
<1>2. PICK d \in Coro : Reading(stack[d], s)
  BY <1>1 DEF BytesInv, TmpsOK
<1>3. s \in Used(stack[d])
  BY <1>1, <1>2, StacksKnown, ReadingUses
<1>4. d = c
  BY <1>1, <1>3 DEF StreamInv, StacksOK
<1> QED
  BY <1>2, <1>4

LEMMA RunSame ==
  ASSUME NEW st \in Seq(Frames), Chain(st), RunOK(st),
         \A s \in Used(st) : stream'[s] = stream[s] /\ (Ended(conn[s]) => Ended(conn'[s]))
  PROVE  RunOK(st)'
<1> SUFFICES ASSUME st # << >>
             PROVE  FrameOK(Head(st))' /\ (Head(st).do = "read" => UnderRead(Head(Tail(st)))')
  BY DEF RunOK
<1>1. FrameOK(Head(st)) /\ (Head(st).do = "read" => UnderRead(Head(Tail(st))))
  BY DEF RunOK
<1>2. FrameOK(Head(st))'
  BY <1>1, TopFrames, FrameSame
<1>3. ASSUME Head(st).do = "read" PROVE UnderRead(Head(Tail(st)))'
  <2>1. PICK g : g = Head(Tail(st))
    OBVIOUS
  <2>2. UnderRead(g) /\ (g.do # "accept" => g.s \in Used(st))
    BY <1>1, <1>3, <2>1, TopFrames
  <2>3. UnderRead(g)'
    BY <2>2 DEF UnderRead
  <2> QED
    BY <2>1, <2>3
<1> QED
  BY <1>2, <1>3

(* Nobody but c works on what the step changes.                            *)
Apart(c) ==
    \A d \in Coro \ {c} : \A s \in Used(stack[d]) :
        stream'[s] = stream[s] /\ (Ended(conn[s]) => Ended(conn'[s]))

LEMMA StackBytes ==
  ASSUME BytesInv, StreamInv', Flows', OwnersOK', NEW c \in Coro, Apart(c),
         NEW st, stack' = [stack EXCEPT ![c] = st], RunOK(st)',
         \A s \in Streams : stream'[s].tmp # << >> => stream[s].tmp # << >> \/ s \in Used(stack[c]),
         \A s \in Used(stack[c]) : stream'[s].tmp # << >> => Reading(st, s)
  PROVE  BytesInv'
<1>1. /\ stack'[c] = st /\ StreamInv
      /\ \A d \in Coro : d # c => stack'[d] = stack[d]
  BY DEF BytesInv, StreamInv, TypesOK
<1>2. TmpsOK'
  <2> SUFFICES ASSUME NEW s \in Streams, stream'[s].tmp # << >>
               PROVE  \E d \in Coro : Reading(stack'[d], s)
    BY DEF TmpsOK, Reading
  <2>1. CASE s \in Used(stack[c])
    BY <1>1, <2>1
  <2>2. CASE s \notin Used(stack[c])
    <3>1. PICK d \in Coro : Reading(stack[d], s)
      BY <2>2 DEF BytesInv, TmpsOK
    <3>2. d # c
      BY <1>1, <2>2, <3>1, StacksKnown, ReadingUses
    <3> QED
      BY <1>1, <3>1, <3>2
  <2> QED
    BY <2>1, <2>2
<1>3. RunsOK'
  <2> SUFFICES ASSUME NEW d \in Coro, NEW e, e = stack'[d] PROVE RunOK(e)'
    BY DEF RunsOK, RunOK
  <2>1. CASE d = c
    BY <1>1, <2>1
  <2>2. CASE d # c
    <3>1. e = stack[d] /\ e \in Seq(Frames) /\ Chain(e)
      BY <1>1, <2>2, StacksKnown
    <3>2. RunOK(e)
      BY <3>1 DEF BytesInv, RunsOK
    <3> QED
      BY <2>2, <3>1, <3>2, RunSame DEF Apart
  <2> QED
    BY <2>1, <2>2
<1> QED
  BY <1>2, <1>3 DEF BytesInv

(* The steps of c that open and close nothing.                             *)
SameFlow(s) ==
    stream'[s] = stream[s] /\ conn'[s] = conn[s] /\ taken'[s] = taken[s] /\ accepted'[s] = accepted[s]
NextFlow(s) == Flow(stream'[s], conn'[s], taken'[s], accepted'[s])
InnerData(c) ==
    /\ UNCHANGED file /\ \A f \in Fds : reg[f].on # "absent" => reg'[f].on # "absent"
    /\ \A s \in Streams : /\ stream'[s].closed = stream[s].closed
                          /\ stream'[s].life = stream[s].life /\ stream'[s].fd = stream[s].fd
    /\ \A s \in Streams : SameFlow(s) \/ (s \in Used(stack[c]) /\ NextFlow(s))

LEMMA InnerFlows ==
  ASSUME BytesInv, NEW c \in Coro, InnerData(c)
  PROVE  /\ Flows' /\ OwnersOK' /\ Apart(c)
         /\ \A s \in Streams : stream'[s].tmp # << >> => stream[s].tmp # << >> \/ s \in Used(stack[c])
<1>1. Flows'
  BY DEF BytesInv, Flows, InnerData, SameFlow, NextFlow
<1>2. OwnersOK'
  <2>1. \A f \in Fds : file[f] # NoOne => file[f] \in Streams
    BY DEF BytesInv, StreamInv, TypesOK
  <2> QED
    BY <2>1 DEF BytesInv, OwnersOK, InnerData
<1>3. Apart(c)
  <2> SUFFICES ASSUME NEW d \in Coro \ {c}, NEW s \in Used(stack[d])
               PROVE  SameFlow(s)
    BY DEF Apart, SameFlow
  <2>1. s \in Streams /\ s \notin Used(stack[c])
    BY StacksKnown DEF BytesInv, StreamInv, StacksOK
  <2> QED
    BY <2>1 DEF InnerData
<1> QED
  BY <1>1, <1>2, <1>3 DEF InnerData, SameFlow

LEMMA NothingMoved ==
  ASSUME UNCHANGED <<stream, conn, taken, accepted, file>>,
         \A f \in Fds : reg[f].on # "absent" => reg'[f].on # "absent", NEW c \in Coro
  PROVE  InnerData(c)
BY DEF InnerData, SameFlow

(* It goes on: *)
LEMMA GoOnBytes ==
  ASSUME BytesInv, StreamInv', NEW c \in Coro, stack[c] # << >>,
         NEW at \in {"wait", "go", "peeked", "start", "done", "emptied"}, Goto(c, at),
         UNCHANGED <<stream, conn, taken, accepted, file>>,
         \A f \in Fds : reg[f].on # "absent" => reg'[f].on # "absent"
  PROVE  BytesInv'
<1>1. StreamInv /\ at \in Labels
  BY DEF BytesInv, Labels
<1>2. PICK st \in Seq(Frames), h \in Frames :
         /\ h = Head(stack[c]) /\ Sound(h)
         /\ stack' = [stack EXCEPT ![c] = st] /\ Chain(st) /\ Used(st) = Used(stack[c])
         /\ st # << >> /\ Head(st) = At(h, at, h.n) /\ Tail(st) = Tail(stack[c])
  BY <1>1, GotoStack
<1>3. InnerData(c)
  BY NothingMoved
<1>4. PICK g : g = At(h, at, h.n)
  OBVIOUS
<1>5. g.do = h.do /\ g.s = h.s /\ g.n = h.n /\ g.at = at
  BY <1>4 DEF At
<1>6. FrameOK(h) /\ (h.do = "read" => UnderRead(Head(Tail(stack[c]))))
  BY <1>2 DEF BytesInv, RunsOK, RunOK
<1>7. FrameOK(g)
  BY <1>5, <1>6 DEF FrameOK
<1>8. RunOK(st)
  BY <1>2, <1>4, <1>5, <1>6, <1>7 DEF RunOK
<1>9. RunOK(st)'
  BY <1>2, <1>8, RunSame
<1>10. \A s \in Used(stack[c]) : stream'[s].tmp # << >> => Reading(st, s)
  <2> SUFFICES ASSUME NEW s \in Used(stack[c]), stream[s].tmp # << >> PROVE Reading(st, s)
    OBVIOUS
  <2>1. Reading(stack[c], s)
    BY TmpOwner
  <2> QED
    BY <1>2, <1>4, <1>5, <2>1 DEF Reading
<1> QED
  BY <1>2, <1>3, <1>9, <1>10, InnerFlows, StackBytes

(* It returns: *)
Returned(h) ==
    /\ h.do = "read" =>
          /\ stream'[h.s].tmp = << >> /\ Size(stream'[h.s].in) = 0 /\ stream'[h.s].closed = {} => Ended(conn'[h.s])
          /\ \A t \in Streams : t # h.s => stream'[t] = stream[t]
    /\ h.do \in {"flush", "close"} \/ (h.do = "write" /\ h.n # h.s) => OutDone(stream'[h.s])
    /\ \A s \in Streams : stream'[s].tmp # << >> => stream[s].tmp # << >>

LEMMA BackRun ==
  ASSUME BytesInv, NEW c \in Coro, stack[c] # << >>, NEW h, h = Head(stack[c]), Returned(h),
         NEW st, st = Tail(stack[c])
  PROVE  RunOK(st)'
<1> SUFFICES ASSUME st # << >> PROVE FrameOK(Head(st))' /\ Head(st).do # "read"
  BY DEF RunOK
<1>1. PICK g : g = Head(st)
  OBVIOUS
<1>2. /\ stack[c] \in Seq(Frames) /\ Chain(stack[c]) /\ Used(stack[c]) \subseteq Streams
  BY StacksKnown DEF BytesInv
<1>3. /\ CalledBy(h, g) /\ g \in Frames /\ Sound(g) /\ Sound(h)
      /\ g.do # "accept" => g.s \in Used(stack[c])
  BY <1>1, <1>2, TopFrames
<1>4. FrameOK(h) /\ (h.do = "read" => UnderRead(g))
  BY <1>1 DEF BytesInv, RunsOK, RunOK
<1>5. g.do \notin {"read", "write", "accept"}
  BY <1>3 DEF CalledBy
<1>6. g.do \in {"fill", "get"} => g.n <= 1
  <2>1. g.do = "fill" => h.do = "read"
    BY <1>3 DEF CalledBy
  <2>2. g.do = "get" => h.do = "fill" /\ h.n = g.n
    BY <1>3 DEF CalledBy
  <2> QED
    BY <1>4, <2>1, <2>2 DEF FrameOK, UnderRead
<1>7. ASSUME g.do = "fill", Size(stream'[g.s].in) = 0, stream'[g.s].closed = {} PROVE Ended(conn'[g.s])
  <2>1. h.do = "read" /\ h.s = g.s /\ g.s \in Used(stack[c])
    BY <1>3, <1>7 DEF CalledBy
  <2>2. stream'[g.s].tmp = << >>
    <3>1. SUFFICES ASSUME stream[g.s].tmp # << >> PROVE FALSE
      BY <1>2, <2>1 DEF Returned
    <3>2. Reading(stack[c], g.s)
      BY <2>1, <3>1, TmpOwner
    <3> QED
      BY <1>1, <1>7, <2>1, <3>2 DEF Reading
  <2> QED
    BY <1>7, <2>1, <2>2 DEF Returned
<1>8. /\ g.do = "close" => OutDone(stream'[g.s])
      /\ g.do = "destroy" => OutDone(stream'[g.s])
  BY <1>3 DEF CalledBy, Returned
<1>9. ASSUME g.do = "pipe" PROVE OutDone(stream'[g.s])
  <2>1. g.n # g.s /\ g.s \in Streams
    BY <1>2, <1>3, <1>9 DEF Sound
  <2>2. \/ h.do = "flush" /\ h.s = g.s
        \/ h.do = "write" /\ h.s = g.s /\ h.n = g.n
        \/ h.do = "read" /\ h.s = g.n
    BY <1>3, <1>9 DEF CalledBy
  <2>3. CASE h.do = "read" /\ h.s = g.n
    <3>1. OutDone(stream[g.s]) /\ stream'[g.s] = stream[g.s]
      BY <1>4, <1>9, <2>1, <2>3 DEF UnderRead, Returned
    <3> QED
      BY <3>1
  <2> QED
    BY <2>1, <2>2, <2>3 DEF Returned
<1>10. FrameOK(g)'
  BY <1>5, <1>6, <1>7, <1>8, <1>9 DEF FrameOK
<1> QED
  BY <1>1, <1>5, <1>10

LEMMA GoBackBytes ==
  ASSUME BytesInv, StreamInv', NEW c \in Coro, stack[c] # << >>, Return(c), InnerData(c),
         NEW h, h = Head(stack[c]), Returned(h), h.do = "readall" => stream'[h.s].tmp = << >>
  PROVE  BytesInv'
<1>1. StreamInv
  BY DEF BytesInv
<1>2. PICK st \in Seq(Frames) :
         /\ stack' = [stack EXCEPT ![c] = st] /\ st = Tail(stack[c])
         /\ st # << >> => CalledBy(h, Head(st))
  BY <1>1, ReturnStack
<1>3. RunOK(st)'
  BY <1>2, BackRun
<1>4. \A s \in Used(stack[c]) : stream'[s].tmp # << >> => Reading(st, s)
  <2> SUFFICES ASSUME NEW s \in Used(stack[c]), stream'[s].tmp # << >> PROVE Reading(st, s)
    OBVIOUS
  <2>1. s \in Streams /\ stream[s].tmp # << >>
    BY <1>1, StacksKnown DEF Returned
  <2>2. Reading(stack[c], s)
    BY <2>1, TmpOwner
  <2>3. h.s = s /\ h.do = "read" /\ st # << >> /\ Head(st).do = "readall"
    BY <1>2, <2>2 DEF Reading
  <2>4. Head(st).s = s
    BY <1>2, <2>3 DEF CalledBy
  <2> QED
    BY <2>3, <2>4 DEF Reading
<1> QED
  BY <1>2, <1>3, <1>4, InnerFlows, StackBytes

(* It calls: *)
Enters(c, h, f, at, n) ==
    /\ stack[c] # << >> /\ h = Head(stack[c]) /\ f.at = "start" /\ Sound(f) /\ StreamsOf(f) \subseteq StreamsOf(h)
    /\ CallWith(c, f, at, n) /\ CalledBy(f, At(h, at, n))
    /\ n = h.n \/ (n \in Nat /\ h.do \in {"print", "readall"})

LEMMA EnterStack ==
  ASSUME StreamInv, NEW c \in Coro, NEW f \in Frames, NEW at \in Labels, NEW n \in Nat \cup Streams,
         NEW h, Enters(c, h, f, at, n)
  PROVE  \E st \in Seq(Frames), rest \in Seq(Frames) :
            /\ h \in Frames /\ Sound(h)
            /\ stack' = [stack EXCEPT ![c] = st] /\ Chain(st) /\ Used(st) = Used(stack[c])
            /\ st # << >> /\ Head(st) = f /\ rest = Tail(st)
            /\ rest # << >> /\ Head(rest) = At(h, at, n) /\ Tail(rest) = Tail(stack[c])
<1>1. /\ stack[c] # << >> /\ h = Head(stack[c]) /\ Sound(f) /\ StreamsOf(f) \subseteq StreamsOf(h)
      /\ CallWith(c, f, at, n) /\ CalledBy(f, At(h, at, n))
      /\ n = h.n \/ (n \in Nat /\ h.do \in {"print", "readall"})
  BY DEF Enters
<1> QED
  BY <1>1, CallStack

Entered(h, f) ==
    /\ f.do \in {"fill", "get"} => f.n <= 1
    /\ f.do = "read" => Free(Into(f.s)') > 0 /\ (h.do = "pipe" => OutDone(stream'[h.s]))
    /\ f.do = "write" /\ f.n # f.s => Size(stream'[f.s].out) = 0
    /\ \A s \in Streams : stream'[s].tmp # << >> => stream[s].tmp # << >> \/ (h.do = "readall" /\ h.s = s)

LEMMA GoInBytes ==
  ASSUME BytesInv, StreamInv', NEW c \in Coro, NEW f \in Frames, NEW at \in Labels, NEW n \in Nat \cup Streams,
         NEW h, Enters(c, h, f, at, n), InnerData(c), Entered(h, f)
  PROVE  BytesInv'
<1>1. StreamInv
  BY DEF BytesInv
<1>2. PICK st \in Seq(Frames), rest \in Seq(Frames) :
         /\ h \in Frames /\ Sound(h)
         /\ stack' = [stack EXCEPT ![c] = st] /\ Chain(st) /\ Used(st) = Used(stack[c])
         /\ st # << >> /\ Head(st) = f /\ rest = Tail(st)
         /\ rest # << >> /\ Head(rest) = At(h, at, n) /\ Tail(rest) = Tail(stack[c])
  BY <1>1, EnterStack
<1>3. PICK g : g = At(h, at, n)
  OBVIOUS
<1>4. /\ g.do = h.do /\ g.s = h.s /\ g.n = n /\ CalledBy(f, g) /\ f.at = "start"
      /\ stack[c] # << >> /\ h = Head(stack[c]) /\ (n = h.n \/ h.do \in {"print", "readall"})
  BY <1>3 DEF At, Enters
<1>5. FrameOK(h)
  BY <1>4 DEF BytesInv, RunsOK, RunOK
<1>6. FrameOK(f)'
  <2>1. f.do # "accept"
    BY <1>4 DEF CalledBy
  <2> QED
    BY <1>4, <2>1 DEF FrameOK, Entered
<1>7. f.do = "read" => UnderRead(g)'
  BY <1>4, <1>5 DEF FrameOK, UnderRead, Entered
<1>8. RunOK(st)'
  BY <1>2, <1>3, <1>6, <1>7 DEF RunOK
<1>9. \A s \in Used(stack[c]) : stream'[s].tmp # << >> => Reading(st, s)
  <2> SUFFICES ASSUME NEW s \in Used(stack[c]), stream'[s].tmp # << >> PROVE Reading(st, s)
    OBVIOUS
  <2>1. CASE h.do = "readall" /\ h.s = s
    <3>1. f.do = "read" /\ f.s = s
      BY <1>4, <2>1 DEF CalledBy
    <3> QED
      BY <1>2, <1>3, <1>4, <2>1, <3>1 DEF Reading
  <2>2. CASE ~ (h.do = "readall" /\ h.s = s)
    <3>1. stream[s].tmp # << >>
      BY <1>1, <2>2, StacksKnown DEF Entered
    <3>2. Reading(stack[c], s)
      BY <3>1, TmpOwner
    <3>3. h.do = "read"
      BY <1>4, <2>2, <3>2 DEF Reading
    <3> QED
      BY <1>4, <3>3 DEF CalledBy
  <2> QED
    BY <2>1, <2>2
<1> QED
  BY <1>2, <1>8, <1>9, InnerFlows, StackBytes

(* The calls on the stream of the caller.                                  *)
Serves(do, m, h, n) ==
    \/ do = "flush" /\ h.do \in {"put", "pipe", "end", "close"}
    \/ do = "fill" /\ h.do = "get" /\ m = h.n /\ n = h.n
    \/ do = "get" /\ h.do = "scan" /\ m = 1
    \/ do = "put" /\ h.do = "print" /\ m = 1
    \/ do = "close" /\ h.do = "destroy"
    \/ do = "read" /\ h.do \in {"fill", "peek", "readall"}

LEMMA Serving ==
  ASSUME StreamInv, NEW c \in Coro, NEW h \in Frames, NEW what, NEW lab, Active(c, h, what, lab),
         NEW at \in Labels, NEW n \in Nat \cup Streams, NEW m \in Nat, NEW do, Serves(do, m, h, n),
         CallWith(c, Frame(do, h.s, m), at, n), n = h.n \/ (n \in Nat /\ h.do \in {"print", "readall"})
  PROVE  \E f \in Frames : f.do = do /\ f.s = h.s /\ f.n = m /\ Enters(c, h, f, at, n)
<1>1. do \in {"flush", "fill", "get", "put", "close", "read"} /\ h.do # "accept" /\ h.s \in Streams /\ h.s \in StreamsOf(h)
  BY DEF Serves, Active
<1>2. PICK f : f = Frame(do, h.s, m)
  OBVIOUS
<1>3. f \in Frames /\ f.at = "start" /\ f.do = do /\ f.s = h.s /\ f.n = m /\ StreamsOf(f) = {h.s}
  BY <1>1, <1>2 DEF Frame, Frames, Routines, Labels, StreamsOf
<1>4. Sound(f)
  <2>1. f.do \in {"get", "put", "fill"} => f.n \in 0 .. Capacity
    BY <1>3, StreamAssumption DEF Serves, Active, Sound
  <2> QED
    BY <1>1, <1>3, <2>1 DEF Sound
<1>5. CalledBy(f, At(h, at, n))
  BY <1>3 DEF CalledBy, At, Serves
<1> QED
  BY <1>1, <1>2, <1>3, <1>4, <1>5 DEF Enters, Active

LEMMA HeadRun ==
  ASSUME BytesInv, NEW c \in Coro, NEW h \in Frames, NEW do, NEW at, Active(c, h, do, at)
  PROVE  /\ FrameOK(h) /\ (h.do = "read" => UnderRead(Head(Tail(stack[c]))))
         /\ h.do # "accept" => h.s \in Used(stack[c]) /\ h.s \in Streams
         /\ h.do \in {"write", "pipe"} => h.n \in Used(stack[c]) /\ h.n \in Streams
         /\ stack[c] # << >> /\ h = Head(stack[c]) /\ StreamsOf(h) \subseteq Used(stack[c])
<1>1. stack[c] # << >> /\ h = Head(stack[c])
  BY DEF Active
<1>2. FrameOK(h) /\ (h.do = "read" => UnderRead(Head(Tail(stack[c]))))
  BY <1>1 DEF BytesInv, RunsOK, RunOK
<1>3. StreamsOf(h) \subseteq Used(stack[c]) /\ Used(stack[c]) \subseteq Streams
  BY <1>1, StacksKnown, TopFrames DEF BytesInv
<1> QED
  BY <1>1, <1>2, <1>3 DEF StreamsOf

Still == UNCHANGED <<stream, conn, taken, accepted, file, reg>>

LEMMA PlainCall ==
  ASSUME BytesInv, StreamInv', Still, NEW c \in Coro, NEW h \in Frames, NEW what, NEW lab, Active(c, h, what, lab),
         NEW at \in Labels, NEW n \in Nat \cup Streams, NEW m \in Nat, NEW do, Serves(do, m, h, n), do # "read",
         CallWith(c, Frame(do, h.s, m), at, n), n = h.n \/ (n \in Nat /\ h.do \in {"print", "readall"})
  PROVE  BytesInv'
<1>1. PICK f \in Frames : f.do = do /\ f.s = h.s /\ f.n = m /\ Enters(c, h, f, at, n)
  BY Serving DEF BytesInv
<1>2. Entered(h, f)
  <2>1. f.do \in {"fill", "get"} => f.n <= 1
    BY <1>1, HeadRun DEF Serves, FrameOK
  <2>2. f.do \notin {"read", "write"}
    BY <1>1 DEF Serves
  <2> QED
    BY <2>1, <2>2 DEF Entered, Still
<1>3. InnerData(c)
  BY NothingMoved DEF Still
<1> QED
  BY <1>1, <1>2, <1>3, GoInBytes

LEMMA PlainReturn ==
  ASSUME BytesInv, StreamInv', Still, NEW c \in Coro, NEW h \in Frames, NEW what, NEW lab, Active(c, h, what, lab),
         h.do \notin {"read", "write", "readall", "flush", "close"}, Return(c)
  PROVE  BytesInv'
<1>1. Returned(h) /\ InnerData(c)
  BY NothingMoved DEF Returned, Still
<1> QED
  BY <1>1, GoBackBytes DEF Active

LEMMA PlainBytes ==
  ASSUME BytesInv, StreamInv', NEW c \in Coro,
         ReadAgain(c) \/ GetFails(c) \/ PeekEnd(c) \/ ScanEnd(c) \/ ReadMore(c) \/ PutStart(c)
         \/ Pipe(c) \/ End(c) \/ Close(c) \/ Get(c) \/ Scan(c) \/ PutAll(c) \/ Destroy(c)
  PROVE  BytesInv'
<1> USE DEF BytesInv
<1>1. Still
  <2>1. /\ ReadAgain(c) => Still
        /\ GetFails(c) => Still
        /\ PeekEnd(c) => Still
    BY DEF ReadAgain, GetFails, PeekEnd, kernel, history, Still
  <2>2. /\ ScanEnd(c) => Still
        /\ ReadMore(c) => Still
        /\ PutStart(c) => Still
        /\ Pipe(c) => Still
        /\ End(c) => Still
        /\ Close(c) => Still
    BY DEF ScanEnd, ReadMore, PutStart, Pipe, End, Close, Quiet, kernel, history, Still
  <2>3. /\ Get(c) => Still
        /\ Scan(c) => Still
        /\ PutAll(c) => Still
        /\ Destroy(c) => Still
    BY DEF Get, Scan, PutAll, Destroy, Quiet, kernel, history, Still
  <2> QED
    BY <2>1, <2>2, <2>3
<1>2. \A f \in Fds : reg[f].on # "absent" => reg'[f].on # "absent"
  BY <1>1 DEF Still
<1>3. ASSUME ReadAgain(c) PROVE BytesInv'
  <2>1. PICK h \in Frames : Active(c, h, "read", "start")
    BY <1>3, Running DEF ReadAgain
  <2>2. h.s \in Streams /\ stream[h.s].status = "EOF" /\ Return(c) /\ stack[c] # << >> /\ h = Head(stack[c]) /\ h.do = "read"
    BY <1>3, <2>1 DEF ReadAgain, Active
  <2>3. stream[h.s].closed = {} => Ended(conn[h.s])
    BY <2>2 DEF Flows, Flow
  <2>4. Returned(h)
    BY <1>1, <2>2, <2>3 DEF Returned, Still
  <2>5. InnerData(c)
    BY <1>1, NothingMoved DEF Still
  <2> QED
    BY <2>2, <2>4, <2>5, GoBackBytes
<1>4. ASSUME GetFails(c) PROVE BytesInv'
  <2>1. PICK h \in Frames : Active(c, h, "get", "filled")
    BY <1>4, Running DEF GetFails
  <2> QED
    BY <1>1, <1>4, <2>1, PlainReturn DEF GetFails, Active
<1>5. ASSUME PeekEnd(c) PROVE BytesInv'
  <2>1. PICK h \in Frames : Active(c, h, "peek", "peeked")
    BY <1>5, Running DEF PeekEnd
  <2> QED
    BY <1>1, <1>5, <2>1, PlainReturn DEF PeekEnd, Active
<1>6. ASSUME ScanEnd(c) PROVE BytesInv'
  <2>1. PICK h \in Frames : Active(c, h, "scan", "got")
    BY <1>6, Running DEF ScanEnd
  <2>2. CASE Return(c)
    BY <1>1, <2>1, <2>2, PlainReturn DEF Active
  <2>3. CASE Goto(c, "start")
    BY <1>1, <1>2, <2>1, <2>3, GoOnBytes DEF Active, Still
  <2> QED
    BY <1>6, <2>2, <2>3 DEF ScanEnd
<1>7. ASSUME ReadMore(c) PROVE BytesInv'
  <2>1. stack[c] # << >>
    BY <1>7 DEF ReadMore, Doing
  <2>2. PICK at \in {"done", "start"} : Goto(c, at)
    BY <1>7 DEF ReadMore
  <2> QED
    BY <1>1, <1>2, <2>1, <2>2, GoOnBytes DEF Still
<1>8. ASSUME PutStart(c) PROVE BytesInv'
  <2>1. PICK h \in Frames : Active(c, h, "put", "start")
    BY <1>8, Running DEF PutStart
  <2>2. CASE Call(c, Frame("flush", S(c), 0), "emptied")
    <3>1. CallWith(c, Frame("flush", h.s, 0), "emptied", h.n) /\ h.n \in Nat \cup Streams /\ Serves("flush", 0, h, h.n)
      BY <2>1, <2>2 DEF Active, Call, Frames, Serves
    <3> QED
      BY <1>1, <2>1, <3>1, PlainCall DEF Labels
  <2>3. CASE Goto(c, "emptied")
    BY <1>1, <1>2, <2>1, <2>3, GoOnBytes DEF Active, Still
  <2> QED
    BY <1>8, <2>2, <2>3 DEF PutStart
<1>9. ASSUME Pipe(c) \/ End(c) \/ Close(c) PROVE BytesInv'
  <2>1. PICK do \in {"pipe", "end", "close"}, at \in Labels :
           Doing(c, do, "start") /\ Call(c, Frame("flush", S(c), 0), at)
    BY <1>9 DEF Pipe, End, Close, Labels
  <2>2. PICK h \in Frames : Active(c, h, do, "start")
    BY <2>1, Running
  <2>3. CallWith(c, Frame("flush", h.s, 0), at, h.n) /\ h.n \in Nat \cup Streams /\ Serves("flush", 0, h, h.n)
    BY <2>1, <2>2 DEF Active, Call, Frames, Serves
  <2> QED
    BY <1>1, <2>2, <2>3, PlainCall
<1>10. ASSUME Get(c) PROVE BytesInv'
  <2>1. PICK h \in Frames : Active(c, h, "get", "start")
    BY <1>10, Running DEF Get
  <2>2. CallWith(c, Frame("fill", h.s, h.n), "filled", h.n) /\ h.n \in Nat /\ Serves("fill", h.n, h, h.n)
    BY <1>10, <2>1, StreamAssumption DEF Active, Get, Call, Serves, Sound
  <2> QED
    BY <1>1, <2>1, <2>2, PlainCall DEF Labels
<1>11. ASSUME Scan(c) PROVE BytesInv'
  <2>1. PICK h \in Frames : Active(c, h, "scan", "start")
    BY <1>11, Running DEF Scan
  <2>2. CallWith(c, Frame("get", h.s, 1), "got", h.n) /\ h.n \in Nat \cup Streams /\ Serves("get", 1, h, h.n)
    BY <1>11, <2>1 DEF Active, Scan, Call, Serves, Frames
  <2> QED
    BY <1>1, <2>1, <2>2, PlainCall DEF Labels
<1>12. ASSUME PutAll(c) PROVE BytesInv'
  <2>1. PICK h \in Frames : Active(c, h, "print", "start")
    BY <1>12, Running DEF PutAll
  <2>2. CASE h.n = 0
    BY <1>1, <1>12, <2>1, <2>2, PlainReturn DEF PutAll, Active
  <2>3. CASE h.n # 0
    <3>1. h.n \in Nat /\ h.n - 1 \in Nat
      BY <2>1, <2>3 DEF Active, Sound
    <3>2. CallWith(c, Frame("put", h.s, 1), "start", h.n - 1) /\ Serves("put", 1, h, h.n - 1)
      BY <1>12, <2>1, <2>3 DEF Active, PutAll, Serves
    <3> QED
      BY <1>1, <2>1, <3>1, <3>2, PlainCall DEF Labels, Active
  <2> QED
    BY <2>2, <2>3
<1>13. ASSUME Destroy(c) PROVE BytesInv'
  <2>1. PICK h \in Frames : Active(c, h, "destroy", "start")
    BY <1>13, Running DEF Destroy
  <2>2. CallWith(c, Frame("close", h.s, 0), "closed", h.n) /\ h.n \in Nat \cup Streams /\ Serves("close", 0, h, h.n)
    BY <1>13, <2>1 DEF Active, Destroy, Call, Serves, Frames
  <2> QED
    BY <1>1, <2>1, <2>2, PlainCall DEF Labels
<1> QED
  BY <1>3, <1>4, <1>5, <1>6, <1>7, <1>8, <1>9, <1>10, <1>11, <1>12, <1>13

-----------------------------------------------------------------------------
(* Steps that work on one stream, or on none.                              *)
OneMoved(s) ==
    /\ SameLives /\ Others(s) /\ stream'[s].closed = stream[s].closed
    /\ \A t \in Streams : t # s => conn'[t] = conn[t] /\ taken'[t] = taken[t] /\ accepted'[t] = accepted[t]
    /\ UNCHANGED file

LEMMA OneStream ==
  ASSUME NEW c \in Coro, NEW s \in Used(stack[c]), OneMoved(s), NextFlow(s),
         \A f \in Fds : reg[f].on # "absent" => reg'[f].on # "absent"
  PROVE  InnerData(c)
<1>1. \A t \in Streams : stream'[t].closed = stream[t].closed
  BY DEF OneMoved, Others
<1>2. \A t \in Streams : t # s => SameFlow(t)
  BY DEF OneMoved, Others, SameFlow
<1> QED
  BY <1>1, <1>2 DEF OneMoved, InnerData, SameLives

LEMMA FlowError ==
  ASSUME NEW s \in Streams, Flow(stream[s], conn[s], taken[s], accepted[s]), stream[s].life = "open",
         SameLives, stream'[s].status = "ERROR",
         stream'[s].in = stream[s].in, stream'[s].out = stream[s].out,
         stream'[s].tmp = stream[s].tmp, stream'[s].closed = stream[s].closed,
         conn'[s].wire = conn[s].wire, conn'[s].sent = conn[s].sent, conn'[s].written = conn[s].written,
         conn'[s].phase = conn[s].phase, conn'[s].fin = conn[s].fin,
         conn[s].err = "none" => conn'[s].err = "none",
         taken'[s] = taken[s], accepted'[s] = accepted[s]
  PROVE  NextFlow(s)
<1>1. InOf(stream'[s]) = InOf(stream[s])
  BY DEF InOf
<1>2. stream'[s].life = "open"
  BY DEF SameLives
<1> QED
  BY <1>1, <1>2 DEF NextFlow, Flow

LEMMA Joins ==
  ASSUME NEW old \in [Streams -> Seq(Nat)], NEW s \in Streams, NEW x,
         NEW new, new = [old EXCEPT ![s] = @ \o x]
  PROVE  new[s] = old[s] \o x /\ \A t \in Streams : t # s => new[t] = old[t]
<1>1. PICK y : y = old[s] \o x
  OBVIOUS
<1>2. new = [old EXCEPT ![s] = y]
  BY <1>1
<1>3. new[s] = y /\ \A t \in Streams : t # s => new[t] = old[t]
  BY <1>2
<1> QED
  BY <1>1, <1>3

LEMMA ConnSet ==
  ASSUME ConnsOK, NEW o \in Streams, NEW k, conn' = [conn EXCEPT ![o] = k]
  PROVE  conn'[o] = k /\ OtherConns(o)
BY DEF ConnsOK, OtherConns

LEMMA ErrFields ==
  ASSUME ConnsOK, NEW o \in Streams, NEW err, conn' = [conn EXCEPT ![o].err = err]
  PROVE  /\ OtherConns(o) /\ conn'[o].err = err
         /\ conn'[o].wire = conn[o].wire /\ conn'[o].sent = conn[o].sent /\ conn'[o].written = conn[o].written
         /\ conn'[o].phase = conn[o].phase /\ conn'[o].fin = conn[o].fin
<1>1. PICK k : k = [conn[o] EXCEPT !.err = err]
  OBVIOUS
<1>2. conn[o] \in ConnObjects
  BY ConnFields
<1>3. conn' = [conn EXCEPT ![o] = k]
  BY <1>1 DEF ConnsOK
<1>4. /\ k.err = err /\ k.wire = conn[o].wire /\ k.sent = conn[o].sent /\ k.written = conn[o].written
      /\ k.phase = conn[o].phase /\ k.fin = conn[o].fin
  BY <1>1, <1>2 DEF ConnObjects
<1> QED
  BY <1>3, <1>4, ConnSet

LEMMA WireFields ==
  ASSUME ConnsOK, NEW o \in Streams, NEW wire, conn' = [conn EXCEPT ![o].wire = wire]
  PROVE  /\ OtherConns(o) /\ conn'[o].wire = wire
         /\ conn'[o].err = conn[o].err /\ conn'[o].sent = conn[o].sent /\ conn'[o].written = conn[o].written
         /\ conn'[o].phase = conn[o].phase /\ conn'[o].fin = conn[o].fin
<1>1. PICK k : k = [conn[o] EXCEPT !.wire = wire]
  OBVIOUS
<1>2. conn[o] \in ConnObjects
  BY ConnFields
<1>3. conn' = [conn EXCEPT ![o] = k]
  BY <1>1 DEF ConnsOK
<1>4. /\ k.wire = wire /\ k.err = conn[o].err /\ k.sent = conn[o].sent /\ k.written = conn[o].written
      /\ k.phase = conn[o].phase /\ k.fin = conn[o].fin
  BY <1>1, <1>2 DEF ConnObjects
<1> QED
  BY <1>3, <1>4, ConnSet

(* The file of an open stream, if each has its own.                        *)
LEMMA FileOf ==
  ASSUME BytesInv, OwnFiles, NEW s \in Streams, stream[s].life = "open", NEW o, o = file[stream[s].fd]
  PROVE  /\ o \in {s, NoOne} /\ s # NoOne /\ stream[s].fd \in Fds /\ stream[s].closed \in {{}, {s}}
         /\ o = s <=> stream[s].closed = {}
         /\ o = s /\ Kind[s] # "file" => reg[stream[s].fd].on # "absent"
<1>1. o \in {s, NoOne} /\ stream[s].fd \in Fds /\ s # NoOne
  BY StreamAssumption DEF OwnFiles, BytesInv, StreamInv, FilesOK
<1> QED
  BY <1>1 DEF BytesInv, OwnersOK

-----------------------------------------------------------------------------
(* read() and write().                                                     *)
LEMMA ReadGoBytes ==
  ASSUME BytesInv, StreamInv', OwnFiles, NEW c \in Coro, ReadGo(c)
  PROVE  BytesInv'
<1>1. PICK h \in Frames : Active(c, h, "read", "go")
  BY Running DEF ReadGo, BytesInv
<1>2. PICK s : s = h.s
  OBVIOUS
<1>3. s \in Streams /\ s \in Used(stack[c]) /\ FrameOK(h) /\ h.do = "read" /\ stack[c] # << >> /\ h = Head(stack[c])
  BY <1>1, <1>2, HeadRun DEF Active
<1>4. stream[s].life = "open" /\ StreamsOK /\ ConnsOK /\ HistoryOK
  BY <1>1, <1>2 DEF Active, BytesInv, StreamInv, TypesOK
<1>5. PICK o : o = file[stream[s].fd]
  OBVIOUS
<1>6. o \in {s, NoOne} /\ s # NoOne /\ (o = s <=> stream[s].closed = {})
  BY <1>3, <1>4, <1>5, FileOf
<1>7. UNCHANGED <<file, reg, taken, accepted>> /\ Return(c)
  BY DEF ReadGo, history
<1>8. Flow(stream[s], conn[s], taken[s], accepted[s])
  BY <1>3 DEF BytesInv, Flows
<1>9. \/ o # NoOne /\ (ReadBytes(c, s, o) \/ ReadNothing(s, o) \/ ReadError(s, o))
      \/ o = NoOne /\ Status(s, "ERROR") /\ UNCHANGED conn
  BY <1>1, <1>2, <1>5 DEF ReadGo, Active
<1>10. PICK b \in Buffers : b = Into(s) /\ b = InOf(stream[s])
  BY <1>3, <1>4, StreamFields DEF Into, InOf
<1>11. Free(b) \in Nat /\ Free(b) > 0 /\ Free(b) = b.cap - b.end /\ Size(b) \in Nat /\ b.cap \in Nat /\ b.end \in Nat
  BY <1>2, <1>3, <1>10, BufferBytes, BufferFields DEF FrameOK, Free
<1>12. PICK wire \in Seq(Nat) : wire = conn[s].wire
  BY <1>3, <1>4, ConnFields
<1>13. /\ OneMoved(s) /\ NextFlow(s)
       /\ stream'[s].tmp # << >> => stream[s].tmp # << >>
       /\ stream'[s].tmp = << >> /\ Size(stream'[s].in) = 0 /\ stream'[s].closed = {} => Ended(conn'[s])
  <2>1. CASE o = s /\ ReadBytes(c, s, s)
    <3>1. PICK k : k = Min({b.cap - b.end, Len(wire)})
      OBVIOUS
    <3>2. k \in 0 .. Len(wire) /\ k <= Free(b) /\ k > 0
      <4>1. Len(wire) \in Nat
        OBVIOUS
      <4>2. k \in Nat /\ k <= Free(b) /\ k <= Len(wire)
        BY <1>11, <3>1, <4>1, MinOfTwo
      <4>3. k > 0
        BY <1>10, <1>12, <2>1, <3>1 DEF ReadBytes
      <4> QED
        BY <4>1, <4>2, <4>3
    <3>3. PICK x : x = SubSeq(wire, 1, k)
      OBVIOUS
    <3>4. x \in Seq(Nat) /\ Len(x) = k
      BY <3>2, <3>3, SplitAt
    <3>5. PICK d \in Buffers : d = Filled(b, x) /\ d.cap = b.cap /\ Size(d) = Size(b) + k
      BY <3>2, <3>4, BufferFilled
    <3>6. stream' = Put(s, d) /\ conn' = [conn EXCEPT ![s].wire = SubSeq(@, k + 1, Len(@))]
      BY <1>10, <1>12, <2>1, <3>1, <3>3, <3>5 DEF ReadBytes
    <3>7. conn' = [conn EXCEPT ![s].wire = SubSeq(wire, k + 1, Len(wire))]
      BY <1>12, <3>6
    <3>8. /\ OtherConns(s) /\ conn'[s].wire = SubSeq(wire, k + 1, Len(wire))
          /\ conn'[s].err = conn[s].err /\ conn'[s].sent = conn[s].sent /\ conn'[s].written = conn[s].written
          /\ conn'[s].phase = conn[s].phase /\ conn'[s].fin = conn[s].fin
      BY <1>3, <1>4, <3>7, WireFields
    <3>9. Size(d) # 0
      BY <1>11, <3>2, <3>5
    <3>10. /\ SameLives /\ Others(s) /\ InOf(stream'[s]) = d
           /\ stream'[s].status = stream[s].status /\ stream'[s].closed = stream[s].closed
           /\ stream'[s].out = stream[s].out
           /\ stream'[s].tmp # << >> => stream[s].tmp # << >>
           /\ stream'[s].tmp = << >> => stream'[s].in = d
      <4>1. CASE stream[s].tmp = << >>
        <5>1. b = stream[s].in /\ stream' = [stream EXCEPT ![s].in = d]
          BY <1>10, <3>6, <4>1 DEF Into, Put
        <5>2. d.cap = Capacity
          BY <1>3, <1>4, <3>5, <5>1, StreamFields
        <5> QED
          BY <1>3, <1>4, <4>1, <5>1, <5>2, SetIn DEF InOf
      <4>2. CASE stream[s].tmp # << >>
        <5>1. stream' = [stream EXCEPT ![s].tmp = <<d>>]
          BY <3>6, <4>2 DEF Put
        <5>2. <<d>> # << >> /\ <<d>>[1] = d
          OBVIOUS
        <5> QED
          BY <1>3, <1>4, <4>2, <5>1, <5>2, SetTmp DEF InOf
      <4> QED
        BY <4>1, <4>2
    <3>11. stream[s].closed = {}
      BY <1>6, <2>1
    <3>12. stream[s].status # "EOF"
      <4>1. Len(wire) # 0
        BY <3>2
      <4>2. wire # << >>
        BY <4>1
      <4> QED
        BY <1>8, <1>12, <3>11, <4>2 DEF Flow, Ended
    <3>13. Input({}, d, SubSeq(wire, k + 1, Len(wire)), conn[s].sent, taken[s])
      <4>1. Input({}, b, wire, conn[s].sent, taken[s])
        BY <1>8, <1>10, <1>12, <3>11 DEF Flow
      <4>2. conn[s].sent \in Nat /\ taken[s] \in Seq(Nat)
        BY <1>3, <1>4, ConnFields DEF HistoryOK
      <4> QED
        BY <3>2, <3>3, <3>5, <4>1, <4>2, InputRead
    <3>14. NextFlow(s)
      <4>1. stream'[s].life = "open"
        BY <1>3, <1>4, <3>10 DEF SameLives
      <4> QED
        BY <1>7, <1>8, <1>10, <3>5, <3>8, <3>10, <3>11, <3>12, <3>13, <4>1 DEF Flow, NextFlow
    <3>15. OneMoved(s)
      BY <1>7, <3>8, <3>10 DEF OneMoved, OtherConns
    <3> QED
      BY <3>9, <3>10, <3>14, <3>15
  <2>2. CASE o = s /\ ReadNothing(s, s)
    <3>1. Ended(conn[s]) /\ UNCHANGED conn
      <4>1. b.cap # b.end
        BY <1>11
      <4> QED
        BY <1>10, <2>2, <4>1 DEF ReadNothing, Ended
    <3>2. CASE Size(stream[s].in) = 0
      <4>1. Status(s, "EOF")
        BY <2>2, <3>2 DEF ReadNothing, Status
      <4>2. /\ SameLives /\ Others(s) /\ stream'[s].status = "EOF"
            /\ stream'[s].in = stream[s].in /\ stream'[s].out = stream[s].out
            /\ stream'[s].tmp = stream[s].tmp /\ stream'[s].closed = stream[s].closed
        BY <1>3, <1>4, <4>1, SetStatus
      <4>3. InOf(stream'[s]) = InOf(stream[s])
        BY <4>2 DEF InOf
      <4>4. stream'[s].life = "open"
        BY <1>3, <1>4, <4>2 DEF SameLives
      <4>5. NextFlow(s)
        BY <1>7, <1>8, <3>1, <3>2, <4>2, <4>3, <4>4 DEF Flow, NextFlow
      <4> QED
        BY <1>7, <3>1, <4>2, <4>5 DEF OneMoved
    <3>3. CASE Size(stream[s].in) # 0
      <4>1. UNCHANGED stream
        BY <2>2, <3>3 DEF ReadNothing
      <4> QED
        BY <1>7, <1>8, <3>1, <4>1 DEF OneMoved, NextFlow, Others, SameLives
    <3> QED
      BY <3>2, <3>3
  <2>3. CASE o = s /\ ReadError(s, s)
    <3>1. conn' = [conn EXCEPT ![s].err = "over"] /\ Status(s, "ERROR") /\ conn[s].wire = << >> /\ conn[s].err # "none"
      BY <2>3 DEF ReadError
    <3>2. /\ OtherConns(s) /\ conn'[s].err = "over"
          /\ conn'[s].wire = conn[s].wire /\ conn'[s].sent = conn[s].sent /\ conn'[s].written = conn[s].written
          /\ conn'[s].phase = conn[s].phase /\ conn'[s].fin = conn[s].fin
      BY <1>3, <1>4, <3>1, ErrFields
    <3>3. /\ SameLives /\ Others(s) /\ stream'[s].status = "ERROR"
          /\ stream'[s].in = stream[s].in /\ stream'[s].out = stream[s].out
          /\ stream'[s].tmp = stream[s].tmp /\ stream'[s].closed = stream[s].closed
      BY <1>3, <1>4, <3>1, SetStatus
    <3>4. NextFlow(s)
      BY <1>3, <1>4, <1>7, <1>8, <3>1, <3>2, <3>3, FlowError
    <3> QED
      BY <1>7, <3>1, <3>2, <3>3, <3>4 DEF OneMoved, OtherConns, Ended
  <2>4. CASE o = NoOne /\ Status(s, "ERROR") /\ UNCHANGED conn
    <3>1. /\ SameLives /\ Others(s) /\ stream'[s].status = "ERROR"
          /\ stream'[s].in = stream[s].in /\ stream'[s].out = stream[s].out
          /\ stream'[s].tmp = stream[s].tmp /\ stream'[s].closed = stream[s].closed
      BY <1>3, <1>4, <2>4, SetStatus
    <3>2. NextFlow(s)
      BY <1>3, <1>4, <1>7, <1>8, <2>4, <3>1, FlowError
    <3> QED
      BY <1>6, <1>7, <2>4, <3>1, <3>2 DEF OneMoved
  <2> QED
    BY <1>6, <1>9, <2>1, <2>2, <2>3, <2>4
<1>14. Returned(h)
  <2>1. Others(s)
    BY <1>13 DEF OneMoved
  <2> QED
    BY <1>2, <1>3, <1>13, <2>1 DEF Returned, Others
<1>15. InnerData(c)
  BY <1>3, <1>7, <1>13, OneStream
<1> QED
  BY <1>3, <1>7, <1>14, <1>15, GoBackBytes

(* An error ends the call.                                                 *)
LEMMA ErrorBytes ==
  ASSUME BytesInv, StreamInv', NEW c \in Coro, NEW h \in Frames, NEW do, NEW at, Active(c, h, do, at),
         do \notin {"accept", "readall"}, Status(h.s, "ERROR"),
         UNCHANGED conn \/ (conn[h.s].err # "none" /\ conn' = [conn EXCEPT ![h.s].err = "over"]),
         UNCHANGED <<file, reg, taken, accepted>>, Return(c),
         do = "read" => stream[h.s].closed # {} \/ Ended(conn[h.s])
  PROVE  BytesInv'
<1>1. PICK s : s = h.s
  OBVIOUS
<1>2. s \in Streams /\ s \in Used(stack[c]) /\ h.do = do /\ stack[c] # << >> /\ h = Head(stack[c])
  BY <1>1, HeadRun DEF Active
<1>3. stream[s].life = "open" /\ StreamsOK /\ ConnsOK
  BY <1>1 DEF Active, BytesInv, StreamInv, TypesOK
<1>4. Flow(stream[s], conn[s], taken[s], accepted[s])
  BY <1>2 DEF BytesInv, Flows
<1>5. /\ SameLives /\ Others(s) /\ stream'[s].status = "ERROR"
      /\ stream'[s].in = stream[s].in /\ stream'[s].out = stream[s].out
      /\ stream'[s].tmp = stream[s].tmp /\ stream'[s].closed = stream[s].closed
  BY <1>1, <1>2, <1>3, SetStatus
<1>6. /\ OtherConns(s)
      /\ conn'[s].wire = conn[s].wire /\ conn'[s].sent = conn[s].sent /\ conn'[s].written = conn[s].written
      /\ conn'[s].phase = conn[s].phase /\ conn'[s].fin = conn[s].fin
      /\ conn'[s].err = "none" <=> conn[s].err = "none"
  <2>1. CASE UNCHANGED conn
    BY <2>1 DEF OtherConns
  <2>2. CASE conn[s].err # "none" /\ conn' = [conn EXCEPT ![s].err = "over"]
    <3>1. /\ OtherConns(s) /\ conn'[s].err = "over"
          /\ conn'[s].wire = conn[s].wire /\ conn'[s].sent = conn[s].sent /\ conn'[s].written = conn[s].written
          /\ conn'[s].phase = conn[s].phase /\ conn'[s].fin = conn[s].fin
      BY <1>2, <1>3, <2>2, ErrFields
    <3> QED
      BY <2>2, <3>1
  <2> QED
    BY <1>1, <2>1, <2>2
<1>7. NextFlow(s)
  BY <1>2, <1>3, <1>4, <1>5, <1>6, FlowError
<1>8. OneMoved(s)
  BY <1>5, <1>6, Zenon DEF OneMoved, OtherConns
<1>9. Returned(h)
  <2>1. Ended(conn[s]) => Ended(conn'[s])
    BY <1>6 DEF Ended
  <2> QED
    BY <1>1, <1>2, <1>5, <2>1 DEF Returned, Others, OutDone
<1>10. InnerData(c)
  BY <1>2, <1>7, <1>8, OneStream
<1> QED
  BY <1>2, <1>9, <1>10, GoBackBytes

(* A blocking write() stays where it is until all is written.              *)
LEMMA StayBytes ==
  ASSUME BytesInv, StreamInv', NEW c \in Coro, NEW h \in Frames, NEW at, Active(c, h, "write", at),
         UNCHANGED stack, InnerData(c), FrameOK(h)',
         \A s \in Streams : stream'[s].tmp # << >> => stream[s].tmp # << >>
  PROVE  BytesInv'
<1>1. PICK st : st = stack[c] /\ st # << >> /\ h = Head(st) /\ h.do = "write"
  BY DEF Active
<1>2. stack' = [stack EXCEPT ![c] = st]
  BY <1>1 DEF BytesInv, StreamInv, TypesOK
<1>3. RunOK(st)'
  BY <1>1 DEF RunOK
<1>4. \A s \in Used(stack[c]) : stream'[s].tmp # << >> => Reading(st, s)
  <2>1. Used(stack[c]) \subseteq Streams
    BY StacksKnown DEF BytesInv
  <2> QED
    BY <1>1, <2>1, TmpOwner
<1> QED
  BY <1>2, <1>3, <1>4, InnerFlows, StackBytes

LEMMA WrittenFields ==
  ASSUME ConnsOK, NEW o \in Streams, NEW written, NEW flight,
         conn' = [conn EXCEPT ![o].written = written, ![o].flight = flight]
  PROVE  /\ OtherConns(o) /\ conn'[o].written = written
         /\ conn'[o].wire = conn[o].wire /\ conn'[o].sent = conn[o].sent /\ conn'[o].err = conn[o].err
         /\ conn'[o].phase = conn[o].phase /\ conn'[o].fin = conn[o].fin
<1>1. PICK m, n : m = [conn[o] EXCEPT !.written = written] /\ n = [m EXCEPT !.flight = flight]
  OBVIOUS
<1>2. conn[o] \in ConnObjects
  BY ConnFields
<1>3. /\ m.written = written /\ m.wire = conn[o].wire /\ m.sent = conn[o].sent /\ m.err = conn[o].err
      /\ m.phase = conn[o].phase /\ m.fin = conn[o].fin /\ DOMAIN m = DOMAIN conn[o]
  BY <1>1, <1>2 DEF ConnObjects
<1>4. /\ n.written = m.written /\ n.wire = m.wire /\ n.sent = m.sent /\ n.err = m.err
      /\ n.phase = m.phase /\ n.fin = m.fin
  BY <1>1, <1>2 DEF ConnObjects
<1>5. conn' = [conn EXCEPT ![o] = n]
  <2>1. PICK g : g = [conn EXCEPT ![o].written = written]
    OBVIOUS
  <2>2. g = [conn EXCEPT ![o] = m] /\ g[o] = m
    BY <1>1, <2>1 DEF ConnsOK
  <2>3. conn' = [g EXCEPT ![o].flight = flight]
    BY <2>1
  <2>4. conn' = [g EXCEPT ![o] = n]
    BY <1>1, <2>2, <2>3
  <2> QED
    BY <2>2, <2>4 DEF ConnsOK
<1> QED
  BY <1>3, <1>4, <1>5, ConnSet

LEMMA WriteGoBytes ==
  ASSUME BytesInv, StreamInv', OwnFiles, NEW c \in Coro, WriteGo(c)
  PROVE  BytesInv'
<1>1. PICK h \in Frames : Active(c, h, "write", "go")
  BY Running DEF WriteGo, BytesInv
<1>2. PICK s, t : s = h.s /\ t = h.n
  OBVIOUS
<1>3. /\ s \in Streams /\ s \in Used(stack[c]) /\ t \in Streams /\ t \in Used(stack[c])
      /\ FrameOK(h) /\ h.do = "write" /\ stack[c] # << >> /\ h = Head(stack[c])
  BY <1>1, <1>2, HeadRun DEF Active
<1>4. stream[s].life = "open" /\ stream[t].life = "open" /\ StreamsOK /\ ConnsOK /\ HistoryOK
  BY <1>1, <1>2 DEF Active, StreamsOf, BytesInv, StreamInv, TypesOK
<1>5. PICK o : o = file[stream[s].fd]
  OBVIOUS
<1>6. o \in {s, NoOne} /\ s # NoOne
  BY <1>3, <1>4, <1>5, FileOf
<1>7. UNCHANGED <<file, reg>>
  BY DEF WriteGo
<1>8. Flow(stream[s], conn[s], taken[s], accepted[s]) /\ Flow(stream[t], conn[t], taken[t], accepted[t])
  BY <1>3 DEF BytesInv, Flows
<1>9. \/ o # NoOne /\ (WriteBytes(c, s, o) \/ WriteError(c, s, o) \/ SigPipe(c, o))
      \/ o = NoOne /\ WriteClosed(c, s)
  BY <1>1, <1>2, <1>5 DEF WriteGo, Active
<1>10. CASE o = s /\ WriteBytes(c, s, s)
  <2>1. PICK b \in Buffers : b = (IF t = s THEN stream[s].out ELSE stream[t].in) /\ b.cap = Capacity /\ b = From(c)
    BY <1>1, <1>2, <1>3, <1>4, StreamFields DEF From, Active
  <2>2. PICK k : k = Min({Size(b), Fits(s, s)})
    OBVIOUS
  <2>3. k \in 0 .. Size(b) /\ k > 0 /\ Size(b) \in Nat
    <3>1. Size(b) \in Nat /\ Size(stream[s].out) \in Nat
      BY <1>3, <1>4, <2>1, BufferBytes, StreamFields
    <3>2. conn[s].flight \in 0 .. Room /\ Room \in Nat /\ MaxSent \in Nat
      BY <1>3, <1>4, ConnFields, StreamAssumption
    <3>3. Fits(s, s) \in Nat
      BY <3>1, <3>2 DEF Fits
    <3>4. k \in Nat /\ k <= Size(b)
      BY <2>2, <3>1, <3>3, MinOfTwo
    <3>5. k > 0
      BY <1>10, <2>1, <2>2 DEF WriteBytes
    <3> QED
      BY <3>1, <3>4, <3>5
  <2>4. PICK x \in Seq(Nat) : x = SubSeq(Bytes(b), 1, k)
    BY <2>3, BufferSkip
  <2>5. PICK d \in Buffers : d = Skip(b, k) /\ d.cap = Capacity /\ x \o Bytes(d) = Bytes(b)
    BY <2>1, <2>3, <2>4, BufferSkip
  <2>6. /\ stream' = Drop(c, k)
        /\ conn' = [conn EXCEPT ![s].written = @ \o x, ![s].flight = IF Kind[s] = "file" THEN 0 ELSE @ + k]
        /\ IF t = s THEN UNCHANGED history
           ELSE /\ accepted' = [accepted EXCEPT ![s] = @ \o x]
                /\ taken' = [taken EXCEPT ![t] = @ \o x]
        /\ UNCHANGED stack \/ Return(c)
    <3>1. N(c) = t
      BY <1>1, <1>2 DEF Active
    <3> QED
      BY <1>10, <2>1, <2>2, <2>4, <3>1, Zenon DEF WriteBytes
  <2>7. /\ OtherConns(s) /\ conn'[s].written = conn[s].written \o x
        /\ conn'[s].wire = conn[s].wire /\ conn'[s].sent = conn[s].sent /\ conn'[s].err = conn[s].err
        /\ conn'[s].phase = conn[s].phase /\ conn'[s].fin = conn[s].fin
    <3>1. PICK w, fl : w = conn[s].written \o x /\ fl = IF Kind[s] = "file" THEN 0 ELSE conn[s].flight + k
      OBVIOUS
    <3>2. conn' = [conn EXCEPT ![s].written = w, ![s].flight = fl]
      <4>1. PICK g, m : g = [conn EXCEPT ![s].written = @ \o x] /\ m = [conn[s] EXCEPT !.written = w]
        OBVIOUS
      <4>2. conn[s] \in ConnObjects
        BY <1>3, <1>4, ConnFields
      <4>3. m.flight = conn[s].flight
        BY <4>1, <4>2 DEF ConnObjects
      <4>4. g = [conn EXCEPT ![s].written = w] /\ g[s] = m
        BY <1>3, <1>4, <3>1, <4>1 DEF ConnsOK
      <4>5. conn' = [g EXCEPT ![s].flight = IF Kind[s] = "file" THEN 0 ELSE @ + k]
        BY <2>6, <4>1
      <4>6. conn' = [g EXCEPT ![s].flight = fl]
        BY <3>1, <4>3, <4>4, <4>5
      <4> QED
        BY <4>4, <4>6
    <3> QED
      BY <1>3, <1>4, <3>1, <3>2, WrittenFields
  <2>8. conn[s].written \in Seq(Nat) /\ accepted[s] \in Seq(Nat) /\ taken[t] \in Seq(Nat)
    BY <1>3, <1>4, ConnFields DEF HistoryOK
  <2>9. /\ InnerData(c)
        /\ \A r \in Streams : stream'[r].tmp = stream[r].tmp
        /\ t # s => Size(stream'[s].out) = 0
    <3>1. CASE t = s
      <4>1. stream' = [stream EXCEPT ![s].out = d]
        <5>1. N(c) = S(c) /\ S(c) = s /\ b = stream[s].out
          BY <1>1, <1>2, <2>1, <3>1 DEF Active
        <5> QED
          BY <2>5, <2>6, <5>1 DEF Drop
      <4>2. /\ SameLives /\ Others(s) /\ stream'[s].out = d
            /\ stream'[s].in = stream[s].in /\ stream'[s].tmp = stream[s].tmp
            /\ stream'[s].status = stream[s].status /\ stream'[s].closed = stream[s].closed
        BY <1>3, <1>4, <2>5, <4>1, SetOut
      <4>3. UNCHANGED <<taken, accepted>>
        BY <2>6, <3>1 DEF history
      <4>4. Output(d, conn[s].written \o x, accepted[s])
        BY <1>8, <2>1, <2>5, <2>8, <3>1, OutputWritten DEF Flow
      <4>5. InOf(stream'[s]) = InOf(stream[s]) /\ stream'[s].life = "open"
        BY <1>3, <1>4, <4>2 DEF InOf, SameLives
      <4>6. NextFlow(s)
        BY <1>8, <2>7, <4>2, <4>3, <4>4, <4>5 DEF Flow, NextFlow, Ended
      <4>7. OneMoved(s)
        BY <1>7, <2>7, <4>2, <4>3 DEF OneMoved, OtherConns
      <4>8. InnerData(c)
        BY <1>3, <1>7, <4>6, <4>7, OneStream
      <4> QED
        BY <3>1, <4>2, <4>8 DEF Others
    <3>2. CASE t # s
      <4>1. stream' = [stream EXCEPT ![t].in = d]
        <5>1. N(c) # S(c) /\ N(c) = t /\ b = stream[t].in
          BY <1>1, <1>2, <2>1, <3>2 DEF Active
        <5> QED
          BY <2>5, <2>6, <5>1 DEF Drop
      <4>2. /\ SameLives /\ Others(t) /\ stream'[t].in = d
            /\ stream'[t].out = stream[t].out /\ stream'[t].tmp = stream[t].tmp
            /\ stream'[t].status = stream[t].status /\ stream'[t].closed = stream[t].closed
        BY <1>3, <1>4, <2>5, <4>1, SetIn
      <4>3. /\ accepted' = [accepted EXCEPT ![s] = @ \o x]
            /\ taken' = [taken EXCEPT ![t] = @ \o x]
        BY <2>6, <3>2
      <4>4. /\ accepted'[s] = accepted[s] \o x /\ taken'[t] = taken[t] \o x
            /\ \A r \in Streams : (r # s => accepted'[r] = accepted[r]) /\ (r # t => taken'[r] = taken[r])
        BY <1>3, <1>4, <4>3, Joins DEF HistoryOK
      <4>5. stream'[s] = stream[s] /\ Size(stream[s].out) = 0 /\ conn'[t] = conn[t]
        BY <1>2, <1>3, <2>7, <3>2, <4>2, Zenon DEF Others, OtherConns, FrameOK
      <4>6. stream[t].tmp = << >>
        <5>1. h.do \notin {"read", "readall"}
          BY <1>3
        <5> QED
          BY <1>3, <5>1, TmpOwner DEF Reading
      <4>7. NextFlow(s)
        <5>1. PICK out \in Buffers : out = stream[s].out
          BY <1>3, <1>4, StreamFields
        <5>2. Output(out, conn[s].written \o x, accepted[s] \o x)
          BY <1>8, <2>8, <4>5, <5>1, OutputEmpty DEF Flow
        <5>3. taken'[s] = taken[s] /\ accepted'[s] = accepted[s] \o x
          BY <1>3, <3>2, <4>4
        <5>4. Input(stream[s].closed, InOf(stream[s]), conn'[s].wire, conn'[s].sent, taken[s]) /\ InOf(stream[s]).cap > 0
          BY <1>8, <2>7 DEF Flow
        <5>5. Output(stream[s].out, conn'[s].written, accepted[s] \o x)
          BY <2>7, <5>1, <5>2
        <5>6. /\ stream[s].status = "EOF" /\ stream[s].closed = {} => Ended(conn'[s]) /\ Size(stream[s].in) = 0
              /\ conn'[s].phase # "up" => conn'[s].err = "none" /\ ~ conn'[s].fin
          BY <1>8, <2>7 DEF Flow, Ended
        <5> QED
          BY <1>4, <4>5, <5>3, <5>4, <5>5, <5>6 DEF Flow, NextFlow
      <4>8. NextFlow(t)
        <5>1. InOf(stream[t]) = b /\ InOf(stream'[t]) = d /\ stream'[t].life = "open"
          BY <1>3, <1>4, <2>1, <3>2, <4>2, <4>6 DEF InOf, SameLives
        <5>2. Input(stream[t].closed, d, conn[t].wire, conn[t].sent, taken[t] \o x)
          <6>1. conn[t].wire \in Seq(Nat) /\ conn[t].sent \in Nat
            BY <1>3, <1>4, ConnFields
          <6> QED
            BY <1>8, <2>5, <2>8, <5>1, <6>1, InputTaken DEF Flow
        <5>3. Size(stream[t].in) # 0
          BY <2>1, <2>3, <3>2
        <5>4. d.cap > 0
          BY <2>5, StreamAssumption
        <5>5. Output(stream'[t].out, conn[t].written, accepted[t]) /\ accepted'[t] = accepted[t] /\ taken'[t] = taken[t] \o x
          BY <1>3, <1>8, <3>2, <4>2, <4>4 DEF Flow
        <5>6. /\ ~ (stream'[t].status = "EOF" /\ stream'[t].closed = {})
              /\ conn[t].phase # "up" => conn[t].err = "none" /\ ~ conn[t].fin
          BY <1>8, <4>2, <5>3 DEF Flow
        <5>7. Input(stream'[t].closed, d, conn[t].wire, conn[t].sent, taken'[t])
          BY <4>2, <5>2, <5>5
        <5> QED
          BY <4>5, <5>1, <5>4, <5>5, <5>6, <5>7 DEF Flow, NextFlow
      <4>9. InnerData(c)
        <5>1. \A r \in Streams : SameFlow(r) \/ (r \in Used(stack[c]) /\ NextFlow(r))
          BY <1>3, <2>7, <4>2, <4>4, <4>7, <4>8 DEF SameFlow, Others, OtherConns
        <5>2. \A r \in Streams : stream'[r].closed = stream[r].closed
          BY <4>2 DEF Others
        <5> QED
          BY <1>7, <4>2, <5>1, <5>2 DEF InnerData, SameLives
      <4> QED
        BY <4>2, <4>5, <4>9 DEF Others
    <3> QED
      BY <3>1, <3>2
  <2>10. CASE UNCHANGED stack
    <3>1. FrameOK(h)'
      BY <1>2, <1>3, <2>9 DEF FrameOK
    <3> QED
      BY <1>1, <2>9, <2>10, <3>1, StayBytes
  <2>11. CASE Return(c)
    <3>1. Returned(h)
      BY <1>2, <1>3, <2>9 DEF Returned, OutDone
    <3> QED
      BY <1>3, <2>9, <2>11, <3>1, GoBackBytes
  <2> QED
    BY <2>6, <2>10, <2>11
<1>11. CASE (o = s /\ WriteError(c, s, s)) \/ (o = NoOne /\ WriteClosed(c, s))
  <2>1. /\ Status(s, "ERROR") /\ Return(c) /\ UNCHANGED <<taken, accepted>>
        /\ UNCHANGED conn \/ (conn[s].err # "none" /\ conn' = [conn EXCEPT ![s].err = "over"])
    BY <1>11 DEF WriteError, WriteClosed, history
  <2> QED
    BY <1>1, <1>2, <1>7, <2>1, ErrorBytes
<1>12. CASE o = s /\ SigPipe(c, s)
  <2>1. UNCHANGED <<stack, stream, conn, taken, accepted>>
    BY <1>12 DEF SigPipe, history
  <2>2. InnerData(c)
    BY <1>7, <2>1, NothingMoved
  <2>3. FrameOK(h)'
    BY <1>3, <2>1, FrameSame
  <2> QED
    BY <1>1, <2>1, <2>2, <2>3, StayBytes
<1> QED
  BY <1>6, <1>9, <1>10, <1>11, <1>12

LEMMA BeginBytes ==
  ASSUME BytesInv, StreamInv', NEW c \in Coro, NEW do \in {"read", "write"}, Doing(c, do, "start"),
         NEW on \in {"in", "out"}, Begin(c, on)
  PROVE  BytesInv'
<1>1. PICK h \in Frames : Active(c, h, do, "start")
  BY Running DEF BytesInv
<1>2. h.s \in Streams /\ stream[h.s].life = "open" /\ stack[c] # << >>
  BY <1>1 DEF Active
<1>3. UNCHANGED <<file, conn, taken, accepted>>
  BY DEF Begin, history
<1>4. PICK f \in Fds : f = stream[h.s].fd
  BY <1>1, SMTT(30) DEF Active
<1>5. \/ Goto(c, "go") /\ UNCHANGED <<stream, reg>>
      \/ Kind[h.s] # "file" /\ reg[f].on = "absent" /\ Status(h.s, "ERROR") /\ Return(c) /\ UNCHANGED reg
      \/ Wait(c, f, on) /\ UNCHANGED stream
  BY <1>1, <1>4 DEF Begin, Register, Active
<1>6. CASE Goto(c, "go") /\ UNCHANGED <<stream, reg>>
  BY <1>2, <1>3, <1>6, GoOnBytes
<1>7. CASE Kind[h.s] # "file" /\ reg[f].on = "absent" /\ Status(h.s, "ERROR") /\ Return(c) /\ UNCHANGED reg
  <2>1. stream[h.s].closed # {}
    <3>1. h.s # NoOne
      BY <1>2, StreamAssumption
    <3>2. file[f] # h.s
      BY <1>7, <3>1 DEF BytesInv, OwnersOK
    <3> QED
      BY <1>2, <1>4, <3>2 DEF BytesInv, OwnersOK
  <2> QED
    BY <1>1, <1>3, <1>7, <2>1, ErrorBytes
<1>8. CASE Wait(c, f, on) /\ UNCHANGED stream
  <2>1. Goto(c, "wait") /\ reg' = [reg EXCEPT ![f] = [who |-> c, on |-> on]]
    BY <1>8 DEF Wait
  <2>2. \A g \in Fds : reg[g].on # "absent" => reg'[g].on # "absent"
    BY <2>1 DEF BytesInv, StreamInv, TypesOK
  <2> QED
    BY <1>2, <1>3, <1>8, <2>1, <2>2, GoOnBytes
<1> QED
  BY <1>5, <1>6, <1>7, <1>8

-----------------------------------------------------------------------------
(* Input.                                                                  *)
LEMMA NoTmp ==
  ASSUME BytesInv, NEW c \in Coro, NEW h \in Frames, NEW do, NEW at, Active(c, h, do, at),
         do \notin {"read", "readall"}, NEW s \in Used(stack[c])
  PROVE  stream[s].tmp = << >> /\ Into(s) = stream[s].in /\ InOf(stream[s]) = stream[s].in
<1>1. stream[s].tmp = << >>
  BY TmpOwner DEF Reading, Active
<1> QED
  BY <1>1 DEF Into, InOf

(* A buffer that holds nothing, and its memory is used again.              *)
LEMMA InputEmptied ==
  ASSUME BytesInv, NEW s \in Streams, stream[s].life = "open", stream[s].tmp = << >>,
         Size(stream[s].in) = 0, NEW d \in Buffers, d.cap = Capacity, Size(d) = 0, Free(d) = Capacity,
         stream' = [stream EXCEPT ![s].in = d], UNCHANGED <<conn, taken, accepted, file>>
  PROVE  /\ OneMoved(s) /\ NextFlow(s) /\ Others(s) /\ Free(Into(s)') > 0
         /\ \A t \in Streams : stream'[t].tmp = stream[t].tmp
<1>1. /\ SameLives /\ Others(s) /\ stream'[s].in = d
      /\ stream'[s].out = stream[s].out /\ stream'[s].tmp = stream[s].tmp
      /\ stream'[s].status = stream[s].status /\ stream'[s].closed = stream[s].closed
  BY SetIn DEF BytesInv, StreamInv, TypesOK
<1>2. InOf(stream[s]) = stream[s].in /\ InOf(stream'[s]) = d /\ Into(s)' = d /\ stream'[s].life = "open"
  BY <1>1 DEF InOf, Into, SameLives
<1>3. PICK b \in Buffers : b = stream[s].in
  BY StreamFields DEF BytesInv, StreamInv, TypesOK
<1>4. Bytes(d) = Bytes(b)
  BY <1>3, BufferBytes
<1>5. Flow(stream[s], conn[s], taken[s], accepted[s])
  BY DEF BytesInv, Flows
<1>6. Input(stream[s].closed, d, conn[s].wire, conn[s].sent, taken[s])
  BY <1>2, <1>3, <1>4, <1>5, InputSame DEF Flow
<1>7. Capacity \in Nat /\ Capacity > 0
  BY StreamAssumption
<1>8. NextFlow(s)
  BY <1>1, <1>2, <1>5, <1>6, <1>7 DEF Flow, NextFlow
<1> QED
  BY <1>1, <1>2, <1>7, <1>8 DEF OneMoved, Others

LEMMA ServingRead ==
  ASSUME BytesInv, NEW c \in Coro, NEW h \in Frames, NEW what, NEW lab, Active(c, h, what, lab),
         h.do \in {"fill", "peek", "readall"}, NEW at \in Labels, NEW n \in Nat \cup Streams,
         CallWith(c, Frame("read", h.s, 0), at, n), n = h.n \/ (n \in Nat /\ h.do = "readall")
  PROVE  \E f \in Frames : f.do = "read" /\ f.s = h.s /\ f.n = 0 /\ Enters(c, h, f, at, n)
<1>1. StreamInv /\ Serves("read", 0, h, n) /\ 0 \in Nat
  BY DEF BytesInv, Serves
<1> QED
  BY <1>1, Serving

LEMMA FillBytes ==
  ASSUME BytesInv, StreamInv', NEW c \in Coro, Fill(c)
  PROVE  BytesInv'
<1>1. PICK h \in Frames : Active(c, h, "fill", "start")
  BY Running DEF Fill, BytesInv
<1>2. /\ h.s \in Streams /\ h.s \in Used(stack[c]) /\ h.n \in Nat /\ h.n <= 1
      /\ stack[c] # << >> /\ h = Head(stack[c]) /\ h.do = "fill"
  BY <1>1, HeadRun, StreamAssumption DEF Active, Sound, FrameOK
<1>3. stream[h.s].life = "open" /\ stream[h.s].tmp = << >>
  BY <1>1, <1>2, NoTmp DEF Active
<1>4. PICK b \in Buffers : b = stream[h.s].in /\ b.cap = Capacity
  BY <1>1, HeadFields DEF BytesInv
<1>5. UNCHANGED <<file, reg, conn, taken, accepted>>
  BY DEF Fill, Quiet, kernel, history
<1>6. PICK e \in Buffers : e = Buffer_compact(b) /\ e.cap = Capacity /\ Size(e) = Size(b) /\ Free(e) = Capacity - Size(b)
  BY <1>4, BufferCompact
<1>7. Size(b) \in Nat
  BY BufferBytes
<1>8. CASE Size(b) < h.n
  <2>1. Size(b) = 0 /\ Capacity - 0 = Capacity
    BY <1>2, <1>7, <1>8, StreamAssumption
  <2>2. stream' = [stream EXCEPT ![h.s].in = e] /\ CallWith(c, Frame("read", h.s, 0), "filled", h.n)
    BY <1>1, <1>4, <1>6, <1>8, ZenonT(60) DEF Fill, InputChanged, Call, Active
  <2>3. /\ OneMoved(h.s) /\ NextFlow(h.s) /\ Free(Into(h.s)') > 0
        /\ \A t \in Streams : stream'[t].tmp = stream[t].tmp
    BY <1>2, <1>3, <1>4, <1>5, <1>6, <2>1, <2>2, InputEmptied, Zenon
  <2>4. InnerData(c)
    BY <1>2, <1>5, <2>3, OneStream
  <2>5. PICK f \in Frames : f.do = "read" /\ f.s = h.s /\ f.n = 0 /\ Enters(c, h, f, "filled", h.n)
    BY <1>1, <1>2, <2>2, ServingRead DEF Labels
  <2>6. Entered(h, f)
    BY <1>2, <2>3, <2>5 DEF Entered
  <2> QED
    BY <1>2, <2>4, <2>5, <2>6, GoInBytes DEF Labels
<1>9. CASE ~ (Size(b) < h.n)
  <2>1. Return(c) /\ UNCHANGED stream
    BY <1>1, <1>4, <1>9 DEF Fill, Active
  <2> QED
    BY <1>1, <1>2, <1>5, <2>1, PlainReturn DEF Still
<1> QED
  BY <1>8, <1>9

LEMMA FillEndBytes ==
  ASSUME BytesInv, StreamInv', NEW c \in Coro, FillEnd(c)
  PROVE  BytesInv'
<1>1. PICK h \in Frames : Active(c, h, "fill", "filled")
  BY Running DEF FillEnd, BytesInv
<1>2. PICK s : s = h.s
  OBVIOUS
<1>3. /\ s \in Streams /\ s \in Used(stack[c]) /\ h.n \in Nat /\ h.n <= 1 /\ FrameOK(h)
      /\ stack[c] # << >> /\ h = Head(stack[c]) /\ h.do = "fill" /\ h.at = "filled"
  BY <1>1, <1>2, HeadRun, StreamAssumption DEF Active, Sound, FrameOK
<1>4. UNCHANGED <<file, reg, conn, taken, accepted>> /\ Return(c)
  BY DEF FillEnd, Quiet, kernel, history
<1>5. Size(stream[s].in) \in Nat
  BY <1>1, <1>2, HeadFields, BufferBytes DEF BytesInv
<1>6. CASE Size(stream[s].in) < h.n
  <2>1. Status(s, "EOF") /\ Size(stream[s].in) = 0
    BY <1>1, <1>2, <1>3, <1>5, <1>6 DEF FillEnd, Active
  <2>2. /\ SameLives /\ Others(s) /\ stream'[s].status = "EOF"
        /\ stream'[s].in = stream[s].in /\ stream'[s].out = stream[s].out
        /\ stream'[s].tmp = stream[s].tmp /\ stream'[s].closed = stream[s].closed
    BY <1>3, <2>1, SetStatus DEF BytesInv, StreamInv, TypesOK
  <2>3. InOf(stream'[s]) = InOf(stream[s]) /\ stream'[s].life = "open"
    BY <1>1, <1>2, <1>3, <2>2 DEF InOf, SameLives, Active
  <2>4. stream[s].closed = {} => Ended(conn[s])
    BY <1>2, <1>3, <2>1 DEF FrameOK
  <2>5. Flow(stream[s], conn[s], taken[s], accepted[s])
    BY <1>3 DEF BytesInv, Flows
  <2>6. NextFlow(s)
    BY <1>4, <2>1, <2>2, <2>3, <2>4, <2>5 DEF Flow, NextFlow
  <2>7. OneMoved(s)
    BY <1>4, <2>2 DEF OneMoved
  <2>8. InnerData(c)
    BY <1>3, <1>4, <2>6, <2>7, OneStream
  <2>9. Returned(h)
    BY <1>3, <2>2 DEF Returned, Others
  <2> QED
    BY <1>3, <1>4, <2>8, <2>9, GoBackBytes
<1>7. CASE ~ (Size(stream[s].in) < h.n)
  <2>1. UNCHANGED stream
    BY <1>1, <1>2, <1>7 DEF FillEnd, Active
  <2> QED
    BY <1>1, <1>3, <1>4, <2>1, PlainReturn DEF Still
<1> QED
  BY <1>6, <1>7

LEMMA GetTakesBytes ==
  ASSUME BytesInv, StreamInv', NEW c \in Coro, GetTakes(c)
  PROVE  BytesInv'
<1>1. PICK h \in Frames : Active(c, h, "get", "filled")
  BY Running DEF GetTakes, BytesInv
<1>2. PICK s : s = h.s
  OBVIOUS
<1>3. /\ s \in Streams /\ s \in Used(stack[c]) /\ h.n \in Nat
      /\ stack[c] # << >> /\ h = Head(stack[c]) /\ h.do = "get" /\ h.at = "filled"
  <2>1. /\ s \in Streams /\ s \in Used(stack[c])
        /\ stack[c] # << >> /\ h = Head(stack[c]) /\ h.do = "get" /\ h.at = "filled"
    BY <1>1, <1>2, HeadRun DEF Active
  <2>2. h.n \in Nat
    BY <1>1, <2>1, StreamAssumption DEF Active, Sound
  <2> QED
    BY <2>1, <2>2
<1>4. /\ stream[s].life = "open" /\ stream[s].tmp = << >> /\ InOf(stream[s]) = stream[s].in
      /\ stream[s].status = "OK" /\ StreamsOK /\ ConnsOK /\ HistoryOK
  BY <1>1, <1>2, <1>3, NoTmp, Zenon DEF Active, GetTakes, BytesInv, StreamInv, TypesOK
<1>5. PICK b \in Buffers : b = stream[s].in /\ b.cap = Capacity
  BY <1>1, <1>2, HeadFields DEF BytesInv
<1>6. UNCHANGED <<file, reg, conn, accepted>> /\ Return(c)
  BY DEF GetTakes, kernel
<1>7. h.n \in 0 .. Size(b)
  <2>1. Size(b) >= h.n
    BY <1>1, <1>2, <1>3, <1>4, <1>5 DEF Active, HeadOK
  <2> QED
    BY <1>3, <2>1, BufferBytes
<1>8. PICK d \in Buffers, x \in Seq(Nat) :
         d = Skip(b, h.n) /\ d.cap = Capacity /\ x = SubSeq(Bytes(b), 1, h.n) /\ x \o Bytes(d) = Bytes(b)
  BY <1>5, <1>7, BufferSkip
<1>9. stream' = [stream EXCEPT ![s].in = d] /\ taken' = [taken EXCEPT ![s] = @ \o x]
  BY <1>1, <1>2, <1>5, <1>8, ZenonT(60) DEF GetTakes, Active
<1>10. taken'[s] = taken[s] \o x /\ \A t \in Streams : t # s => taken'[t] = taken[t]
  BY <1>3, <1>4, <1>9, Joins DEF HistoryOK
<1>11. /\ SameLives /\ Others(s) /\ stream'[s].in = d
       /\ stream'[s].out = stream[s].out /\ stream'[s].tmp = stream[s].tmp
       /\ stream'[s].status = stream[s].status /\ stream'[s].closed = stream[s].closed
  BY <1>3, <1>4, <1>8, <1>9, SetIn, Zenon
<1>12. InOf(stream'[s]) = d /\ stream'[s].life = "open"
  BY <1>3, <1>4, <1>11 DEF InOf, SameLives
<1>13. Flow(stream[s], conn[s], taken[s], accepted[s])
  BY <1>3 DEF BytesInv, Flows
<1>14. Input(stream[s].closed, d, conn[s].wire, conn[s].sent, taken[s] \o x)
  <2>1. conn[s].wire \in Seq(Nat) /\ conn[s].sent \in Nat /\ taken[s] \in Seq(Nat)
    BY <1>3, <1>4, ConnFields DEF HistoryOK
  <2> QED
    BY <1>4, <1>5, <1>8, <1>13, <2>1, InputTaken DEF Flow
<1>15. d.cap > 0
  BY <1>8, StreamAssumption
<1>16. NextFlow(s)
  BY <1>4, <1>6, <1>10, <1>11, <1>12, <1>13, <1>14, <1>15 DEF Flow, NextFlow
<1>17. OneMoved(s)
  BY <1>6, <1>10, <1>11 DEF OneMoved
<1>18. InnerData(c)
  BY <1>3, <1>6, <1>16, <1>17, OneStream
<1>19. Returned(h)
  BY <1>3, <1>11 DEF Returned, Others
<1> QED
  BY <1>3, <1>6, <1>18, <1>19, GoBackBytes

LEMMA PeekBytes ==
  ASSUME BytesInv, StreamInv', NEW c \in Coro, Peek(c)
  PROVE  BytesInv'
<1>1. PICK h \in Frames : Active(c, h, "peek", "start")
  BY Running DEF Peek, BytesInv
<1>2. h.s \in Streams /\ h.s \in Used(stack[c]) /\ stack[c] # << >> /\ h = Head(stack[c]) /\ h.do = "peek"
  BY <1>1, HeadRun DEF Active
<1>3. stream[h.s].life = "open" /\ stream[h.s].tmp = << >>
  BY <1>1, <1>2, NoTmp DEF Active
<1>4. PICK b \in Buffers : b = stream[h.s].in /\ b.cap = Capacity
  BY <1>1, HeadFields DEF BytesInv
<1>5. UNCHANGED <<file, reg, conn, taken, accepted>>
  BY DEF Peek, Quiet, kernel, history
<1>6. PICK e \in Buffers : e = Rewound(b) /\ e.cap = Capacity /\ Size(e) = 0 /\ Free(e) = Capacity
  BY <1>4, BufferRewound
<1>7. CASE Size(b) = 0
  <2>1. stream' = [stream EXCEPT ![h.s].in = e] /\ CallWith(c, Frame("read", h.s, 0), "peeked", h.n)
    BY <1>1, <1>4, <1>6, <1>7 DEF Peek, InputChanged, Call, Active
  <2>2. /\ OneMoved(h.s) /\ NextFlow(h.s) /\ Free(Into(h.s)') > 0
        /\ \A t \in Streams : stream'[t].tmp = stream[t].tmp
    BY <1>2, <1>3, <1>4, <1>5, <1>6, <1>7, <2>1, InputEmptied, Zenon
  <2>3. InnerData(c)
    BY <1>2, <1>5, <2>2, OneStream
  <2>4. h.n \in Nat \cup Streams
    BY DEF Frames
  <2>5. PICK f \in Frames : f.do = "read" /\ f.s = h.s /\ f.n = 0 /\ Enters(c, h, f, "peeked", h.n)
    BY <1>1, <1>2, <2>1, <2>4, ServingRead DEF Labels
  <2>6. Entered(h, f)
    BY <1>2, <2>2, <2>5 DEF Entered
  <2> QED
    BY <2>3, <2>4, <2>5, <2>6, GoInBytes DEF Labels
<1>8. CASE Size(b) # 0
  <2>1. Goto(c, "peeked") /\ UNCHANGED stream
    BY <1>1, <1>4, <1>8 DEF Peek, Active
  <2> QED
    BY <1>2, <1>5, <2>1, GoOnBytes
<1> QED
  BY <1>7, <1>8

LEMMA ReadAllBytes ==
  ASSUME BytesInv, StreamInv', NEW c \in Coro, ReadAll(c)
  PROVE  BytesInv'
<1>1. PICK h \in Frames : Active(c, h, "readall", "start")
  BY Running DEF ReadAll, BytesInv
<1>2. PICK s : s = h.s
  OBVIOUS
<1>3. s \in Streams /\ s \in Used(stack[c]) /\ stack[c] # << >> /\ h = Head(stack[c]) /\ h.do = "readall"
  BY <1>1, <1>2, HeadRun DEF Active
<1>4. stream[s].life = "open" /\ stream[s].status = "OK" /\ StreamsOK
  BY <1>1, <1>2 DEF Active, ReadAll, BytesInv, StreamInv, TypesOK
<1>5. UNCHANGED <<file, reg, conn, taken, accepted>>
  BY DEF ReadAll, Quiet, kernel, history
<1>6. PICK b \in Buffers : b = Into(s) /\ b = InOf(stream[s])
  BY <1>3, <1>4, StreamFields DEF Into, InOf
<1>7. Flow(stream[s], conn[s], taken[s], accepted[s])
  BY <1>3 DEF BytesInv, Flows
<1>8. /\ b.cap \in Nat /\ b.cap > 0 /\ b.end \in Nat /\ b.end <= b.cap /\ Free(b) = b.cap - b.end /\ Size(b) \in Nat
  BY <1>6, <1>7, BufferBytes, BufferFields DEF Flow, Free
<1>9. CallWith(c, Frame("read", h.s, 0), "more", Size(b))
  BY <1>1, <1>2, <1>6 DEF ReadAll, Active
<1>10. /\ OneMoved(s) /\ NextFlow(s) /\ Free(Into(s)') > 0
       /\ \A t \in Streams : t # s => stream'[t].tmp = stream[t].tmp
  <2>1. CASE b.end = b.cap
    <3>1. PICK d \in Buffers : d = Doubled(b) /\ Bytes(d) = Bytes(b) /\ Free(d) >= b.cap
      BY BufferDoubled
    <3>2. stream' = [stream EXCEPT ![s].tmp = <<d>>]
      BY <1>1, <1>2, <1>6, <2>1, <3>1 DEF ReadAll, Active
    <3>3. /\ SameLives /\ Others(s) /\ stream'[s].tmp = <<d>>
          /\ stream'[s].in = stream[s].in /\ stream'[s].out = stream[s].out
          /\ stream'[s].status = stream[s].status /\ stream'[s].closed = stream[s].closed
      BY <1>3, <1>4, <3>2, SetTmp
    <3>4. <<d>> # << >> /\ <<d>>[1] = d
      OBVIOUS
    <3>5. InOf(stream'[s]) = d /\ Into(s)' = d /\ stream'[s].life = "open"
      BY <1>3, <1>4, <3>3, <3>4 DEF InOf, Into, SameLives
    <3>6. Input(stream[s].closed, d, conn[s].wire, conn[s].sent, taken[s])
      BY <1>6, <1>7, <3>1, InputSame DEF Flow
    <3>7. d.cap > 0 /\ Free(d) > 0
      <4>1. Free(d) = d.cap - d.end /\ d.cap \in Nat /\ d.end \in Nat
        BY BufferFields DEF Free
      <4> QED
        BY <1>8, <3>1, <4>1
    <3>8. NextFlow(s)
      BY <1>4, <1>5, <1>7, <3>3, <3>5, <3>6, <3>7 DEF Flow, NextFlow
    <3> QED
      BY <1>5, <3>3, <3>5, <3>7, <3>8 DEF OneMoved, Others
  <2>2. CASE b.end # b.cap
    <3>1. UNCHANGED stream
      BY <1>1, <1>2, <1>6, <2>2 DEF ReadAll, Active
    <3>2. Free(b) > 0
      BY <1>8, <2>2
    <3>3. Into(s)' = b
      BY <1>6, <3>1 DEF Into
    <3> QED
      BY <1>5, <1>7, <3>1, <3>2, <3>3 DEF OneMoved, Others, SameLives, NextFlow
  <2> QED
    BY <2>1, <2>2
<1>11. InnerData(c)
  BY <1>3, <1>5, <1>10, OneStream
<1>12. PICK f \in Frames : f.do = "read" /\ f.s = h.s /\ f.n = 0 /\ Enters(c, h, f, "more", Size(b))
  BY <1>1, <1>3, <1>8, <1>9, ServingRead DEF Labels
<1>13. Entered(h, f)
  BY <1>2, <1>3, <1>10, <1>12 DEF Entered
<1> QED
  BY <1>8, <1>11, <1>12, <1>13, GoInBytes DEF Labels

LEMMA TmpLeft ==
  ASSUME StreamInv, NEW s \in Streams, NEW b \in Buffers, b.cap = Capacity,
         stream' = [stream EXCEPT ![s].in = b, ![s].tmp = << >>]
  PROVE  /\ SameLives /\ Others(s) /\ stream'[s].in = b /\ stream'[s].tmp = << >>
         /\ stream'[s].out = stream[s].out
         /\ stream'[s].status = stream[s].status /\ stream'[s].closed = stream[s].closed
<1>1. stream \in [Streams -> StreamObjects] /\ stream[s] \in StreamObjects
  BY DEF StreamInv, TypesOK, StreamsOK
<1>2. PICK m, n : m = [stream[s] EXCEPT !.in = b] /\ n = [m EXCEPT !.tmp = << >>]
  OBVIOUS
<1>3. /\ m \in StreamObjects /\ m.in = b /\ m.out = stream[s].out /\ m.status = stream[s].status
      /\ m.life = stream[s].life /\ m.fd = stream[s].fd /\ m.closed = stream[s].closed
  BY <1>1, <1>2 DEF StreamObjects
<1>4. /\ n \in StreamObjects /\ n.in = b /\ n.tmp = << >> /\ n.out = stream[s].out /\ n.status = stream[s].status
      /\ n.life = stream[s].life /\ n.fd = stream[s].fd /\ n.closed = stream[s].closed
  BY <1>2, <1>3 DEF StreamObjects
<1>5. stream' = [stream EXCEPT ![s] = n]
  <2>1. PICK t : t = [stream EXCEPT ![s].in = b]
    OBVIOUS
  <2>2. t = [stream EXCEPT ![s] = m] /\ t[s] = m /\ stream' = [t EXCEPT ![s].tmp = << >>]
    BY <1>1, <1>2, <2>1
  <2>3. [t EXCEPT ![s].tmp = << >>] = [t EXCEPT ![s] = n]
    BY <1>2, <2>2
  <2> QED
    BY <1>1, <2>2, <2>3
<1>6. stream'[s] = n /\ \A t \in Streams : t # s => stream'[t] = stream[t]
  BY <1>1, <1>5
<1> QED
  BY <1>4, <1>6 DEF SameLives, Others

LEMMA ReadAllEndBytes ==
  ASSUME BytesInv, StreamInv', NEW c \in Coro, ReadAllEnd(c)
  PROVE  BytesInv'
<1>0. PICK at : Doing(c, "readall", at)
  BY DEF ReadAllEnd
<1>1. PICK h \in Frames : Active(c, h, "readall", at)
  BY <1>0, Running DEF BytesInv
<1>2. PICK s : s = h.s
  OBVIOUS
<1>3. s \in Streams /\ s \in Used(stack[c]) /\ stack[c] # << >> /\ h = Head(stack[c]) /\ h.do = "readall"
  BY <1>1, <1>2, HeadRun DEF Active
<1>4. stream[s].life = "open" /\ StreamInv /\ StreamsOK /\ ConnsOK /\ HistoryOK
  BY <1>1, <1>2 DEF Active, BytesInv, StreamInv, TypesOK
<1>5. UNCHANGED <<file, reg, conn, accepted>> /\ Return(c)
  BY DEF ReadAllEnd, kernel
<1>6. PICK b \in Buffers : b = Into(s) /\ b = InOf(stream[s])
  BY <1>3, <1>4, StreamFields DEF Into, InOf
<1>7. PICK x \in Seq(Nat) : x = Bytes(b)
  BY BufferBytes
<1>8. PICK d \in Buffers : d = Rewound(stream[s].in) /\ d.cap = Capacity /\ Size(d) = 0
  BY <1>3, <1>4, StreamFields, BufferRewound
<1>9. /\ stream' = [stream EXCEPT ![s].in = d, ![s].tmp = << >>]
      /\ taken' = [taken EXCEPT ![s] = @ \o x]
  BY <1>1, <1>2, <1>6, <1>7, <1>8, ZenonT(60) DEF ReadAllEnd, Active
<1>10. taken'[s] = taken[s] \o x /\ \A t \in Streams : t # s => taken'[t] = taken[t]
  BY <1>3, <1>4, <1>9 DEF HistoryOK
<1>11. /\ SameLives /\ Others(s) /\ stream'[s].in = d /\ stream'[s].tmp = << >>
       /\ stream'[s].out = stream[s].out
       /\ stream'[s].status = stream[s].status /\ stream'[s].closed = stream[s].closed
  BY <1>3, <1>4, <1>8, <1>9, TmpLeft
<1>12. InOf(stream'[s]) = d /\ stream'[s].life = "open" /\ d.cap > 0
  BY <1>3, <1>4, <1>8, <1>11, StreamAssumption DEF InOf, SameLives
<1>13. Flow(stream[s], conn[s], taken[s], accepted[s])
  BY <1>3 DEF BytesInv, Flows
<1>14. Input(stream[s].closed, d, conn[s].wire, conn[s].sent, taken[s] \o x)
  <2>1. conn[s].wire \in Seq(Nat) /\ conn[s].sent \in Nat /\ taken[s] \in Seq(Nat)
    BY <1>3, <1>4, ConnFields DEF HistoryOK
  <2>2. Bytes(d) = << >> /\ x \o << >> = x
    BY <1>8, BufferBytes, ConcatEmptySeq
  <2> QED
    BY <1>6, <1>7, <1>13, <2>1, <2>2, InputTaken DEF Flow
<1>15. NextFlow(s)
  BY <1>5, <1>8, <1>10, <1>11, <1>12, <1>13, <1>14 DEF Flow, NextFlow
<1>16. OneMoved(s)
  BY <1>5, <1>10, <1>11 DEF OneMoved
<1>17. InnerData(c)
  BY <1>3, <1>5, <1>15, <1>16, OneStream
<1>18. Returned(h)
  BY <1>3, <1>11 DEF Returned, Others
<1> QED
  BY <1>2, <1>3, <1>5, <1>11, <1>17, <1>18, GoBackBytes

-----------------------------------------------------------------------------
(* Output.                                                                 *)
LEMMA ServingWrite ==
  ASSUME BytesInv, NEW c \in Coro, NEW h \in Frames, NEW what, NEW lab, Active(c, h, what, lab),
         NEW t \in Streams, NEW at \in Labels,
         (h.do = "flush" /\ t = h.s) \/ (h.do = "pipe" /\ t = h.n /\ at = "next"),
         CallWith(c, Frame("write", h.s, t), at, h.n)
  PROVE  \E f \in Frames : f.do = "write" /\ f.s = h.s /\ f.n = t /\ Enters(c, h, f, at, h.n)
<1>1. h.s \in Streams /\ {h.s, t} \subseteq StreamsOf(h)
  BY DEF Active, StreamsOf
<1>2. PICK f : f = Frame("write", h.s, t)
  OBVIOUS
<1>3. f \in Frames /\ f.at = "start" /\ f.do = "write" /\ f.s = h.s /\ f.n = t /\ StreamsOf(f) = {h.s, t}
  BY <1>1, <1>2 DEF Frame, Frames, Routines, Labels, StreamsOf
<1>4. Sound(f)
  BY <1>1, <1>3 DEF Sound
<1>5. CalledBy(f, At(h, at, h.n))
  BY <1>3 DEF CalledBy, At
<1> QED
  BY <1>1, <1>2, <1>3, <1>4, <1>5 DEF Enters, Active

LEMMA FlushBytes ==
  ASSUME BytesInv, StreamInv', NEW c \in Coro, Flush(c)
  PROVE  BytesInv'
<1>1. PICK h \in Frames : Active(c, h, "flush", "start")
  BY Running DEF Flush, BytesInv
<1>2. PICK s : s = h.s
  OBVIOUS
<1>3. s \in Streams /\ s \in Used(stack[c]) /\ stack[c] # << >> /\ h = Head(stack[c]) /\ h.do = "flush"
  BY <1>1, <1>2, HeadRun DEF Active
<1>4. stream[s].life = "open" /\ StreamsOK /\ ConnsOK /\ HistoryOK
  BY <1>1, <1>2 DEF Active, BytesInv, StreamInv, TypesOK
<1>5. UNCHANGED <<file, reg, conn, taken, accepted>>
  BY DEF Flush, Quiet, kernel, history
<1>6. PICK b \in Buffers : b = stream[s].out /\ b.cap = Capacity
  BY <1>1, <1>2, HeadFields DEF BytesInv
<1>7. CASE Size(b) = 0
  <2>1. PICK d \in Buffers : d = Rewound(b) /\ d.cap = Capacity /\ Size(d) = 0
    BY <1>6, BufferRewound
  <2>2. Return(c) /\ stream' = [stream EXCEPT ![s].out = d]
    BY <1>1, <1>2, <1>6, <1>7, <2>1 DEF Flush, Active
  <2>3. /\ SameLives /\ Others(s) /\ stream'[s].out = d
        /\ stream'[s].in = stream[s].in /\ stream'[s].tmp = stream[s].tmp
        /\ stream'[s].status = stream[s].status /\ stream'[s].closed = stream[s].closed
    BY <1>3, <1>4, <2>1, <2>2, SetOut
  <2>4. InOf(stream'[s]) = InOf(stream[s]) /\ stream'[s].life = "open"
    BY <1>3, <1>4, <2>3 DEF InOf, SameLives
  <2>5. Flow(stream[s], conn[s], taken[s], accepted[s])
    BY <1>3 DEF BytesInv, Flows
  <2>6. Output(d, conn[s].written, accepted[s])
    <3>1. conn[s].written \in Seq(Nat) /\ accepted[s] \in Seq(Nat)
      BY <1>3, <1>4, ConnFields DEF HistoryOK
    <3> QED
      BY <1>6, <1>7, <2>1, <2>5, <3>1, OutputEmpty DEF Flow
  <2>7. NextFlow(s)
    BY <1>5, <2>3, <2>4, <2>5, <2>6 DEF Flow, NextFlow
  <2>8. OneMoved(s)
    BY <1>5, <2>3 DEF OneMoved
  <2>9. InnerData(c)
    BY <1>3, <1>5, <2>7, <2>8, OneStream
  <2>10. Returned(h)
    BY <1>2, <1>3, <2>1, <2>3 DEF Returned, Others, OutDone
  <2> QED
    BY <1>3, <2>2, <2>9, <2>10, GoBackBytes
<1>8. CASE Size(b) # 0 /\ stream[s].status = "ERROR"
  <2>1. Return(c) /\ UNCHANGED stream
    BY <1>1, <1>2, <1>6, <1>8 DEF Flush, Active
  <2>2. Returned(h) /\ InnerData(c)
    BY <1>2, <1>3, <1>5, <1>8, <2>1, NothingMoved DEF Returned, OutDone
  <2> QED
    BY <1>3, <2>1, <2>2, GoBackBytes
<1>9. CASE Size(b) # 0 /\ stream[s].status # "ERROR"
  <2>1. CallWith(c, Frame("write", h.s, h.s), "start", h.n) /\ UNCHANGED stream /\ h.n \in Nat \cup Streams
    BY <1>1, <1>2, <1>6, <1>9 DEF Flush, Active, Call, Frames
  <2>2. PICK f \in Frames : f.do = "write" /\ f.s = h.s /\ f.n = h.s /\ Enters(c, h, f, "start", h.n)
    BY <1>1, <1>2, <1>3, <2>1, ServingWrite DEF Labels
  <2>3. Entered(h, f) /\ InnerData(c)
    BY <1>5, <2>1, <2>2, NothingMoved DEF Entered
  <2> QED
    BY <2>1, <2>2, <2>3, GoInBytes DEF Labels
<1> QED
  BY <1>7, <1>8, <1>9

LEMMA PutEndBytes ==
  ASSUME BytesInv, StreamInv', NEW c \in Coro, PutEnd(c)
  PROVE  BytesInv'
<1>1. PICK h \in Frames : Active(c, h, "put", "emptied")
  BY Running DEF PutEnd, BytesInv
<1>2. PICK s : s = h.s
  OBVIOUS
<1>3. /\ s \in Streams /\ s \in Used(stack[c]) /\ h.n \in Nat
      /\ stack[c] # << >> /\ h = Head(stack[c]) /\ h.do = "put" /\ h.at = "emptied"
  BY <1>1, <1>2, HeadRun, StreamAssumption DEF Active, Sound
<1>4. stream[s].life = "open" /\ StreamsOK /\ ConnsOK /\ HistoryOK
  BY <1>1, <1>2 DEF Active, BytesInv, StreamInv, TypesOK
<1>5. UNCHANGED <<file, reg, conn, taken>> /\ Return(c)
  BY DEF PutEnd, kernel
<1>6. PICK b \in Buffers : b = stream[s].out /\ b.cap = Capacity
  BY <1>1, <1>2, HeadFields DEF BytesInv
<1>7. CASE stream[s].status # "OK"
  <2>1. UNCHANGED <<stream, accepted>>
    BY <1>1, <1>2, <1>7 DEF PutEnd, Active
  <2> QED
    BY <1>1, <1>3, <1>5, <2>1, PlainReturn DEF Still
<1>8. CASE stream[s].status = "OK"
  <2>1. PICK x \in Seq(Nat) : x = Next_(s, h.n) /\ Len(x) = h.n
    <3>1. Len(accepted[s]) \in Nat
      BY <1>3, <1>4, LenProperties DEF HistoryOK
    <3>2. PICK x : x = Next_(s, h.n)
      OBVIOUS
    <3>3. x = [i \in 1 .. h.n |-> Len(accepted[s]) + i]
      BY <3>2 DEF Next_
    <3>4. x \in Seq(Nat) /\ Len(x) = h.n
      BY <1>3, <3>1, <3>3
    <3> QED
      BY <3>2, <3>4
  <2>2. Len(x) <= Free(b)
    <3>1. Free(b) >= h.n
      BY <1>1, <1>2, <1>3, <1>6, <1>8 DEF Active, HeadOK
    <3> QED
      BY <1>3, <2>1, <3>1, BufferBytes
  <2>3. PICK d \in Buffers : d = Filled(b, x) /\ d.cap = Capacity /\ Bytes(d) = Bytes(b) \o x
    BY <1>6, <2>2, BufferFilled
  <2>4. stream' = [stream EXCEPT ![s].out = d] /\ accepted' = [accepted EXCEPT ![s] = @ \o x]
    <3>1. S(c) = s /\ N(c) = h.n
      BY <1>1, <1>2 DEF Active
    <3>2. /\ stream' = [stream EXCEPT ![s].out = Filled(@, Next_(s, h.n))]
          /\ accepted' = [accepted EXCEPT ![s] = @ \o Next_(s, h.n)]
      BY <1>8, <3>1, Zenon DEF PutEnd
    <3> QED
      BY <1>6, <2>1, <2>3, <3>2
  <2>5. accepted'[s] = accepted[s] \o x /\ \A t \in Streams : t # s => accepted'[t] = accepted[t]
    BY <1>3, <1>4, <2>4 DEF HistoryOK
  <2>6. /\ SameLives /\ Others(s) /\ stream'[s].out = d
        /\ stream'[s].in = stream[s].in /\ stream'[s].tmp = stream[s].tmp
        /\ stream'[s].status = stream[s].status /\ stream'[s].closed = stream[s].closed
    BY <1>3, <1>4, <2>3, <2>4, SetOut
  <2>7. InOf(stream'[s]) = InOf(stream[s]) /\ stream'[s].life = "open"
    BY <1>3, <1>4, <2>6 DEF InOf, SameLives
  <2>8. Flow(stream[s], conn[s], taken[s], accepted[s])
    BY <1>3 DEF BytesInv, Flows
  <2>9. Output(d, conn[s].written, accepted[s] \o x)
    <3>1. conn[s].written \in Seq(Nat) /\ accepted[s] \in Seq(Nat)
      BY <1>3, <1>4, ConnFields DEF HistoryOK
    <3> QED
      BY <1>6, <2>3, <2>8, <3>1, OutputPut DEF Flow
  <2>10. NextFlow(s)
    BY <1>5, <2>5, <2>6, <2>7, <2>8, <2>9 DEF Flow, NextFlow
  <2>11. OneMoved(s)
    BY <1>5, <2>5, <2>6 DEF OneMoved
  <2>12. InnerData(c)
    BY <1>3, <1>5, <2>10, <2>11, OneStream
  <2>13. Returned(h)
    BY <1>3, <2>6 DEF Returned, Others
  <2> QED
    BY <1>3, <1>5, <2>12, <2>13, GoBackBytes
<1> QED
  BY <1>7, <1>8

LEMMA PipeNextBytes ==
  ASSUME BytesInv, StreamInv', NEW c \in Coro, PipeNext(c)
  PROVE  BytesInv'
<1>1. PICK h \in Frames : Active(c, h, "pipe", "next")
  BY Running DEF PipeNext, BytesInv
<1>2. PICK t : t = h.n
  OBVIOUS
<1>3. /\ h.s \in Streams /\ t \in Streams /\ t # h.s /\ t \in Used(stack[c]) /\ h.n \in Nat \cup Streams
      /\ stack[c] # << >> /\ h = Head(stack[c]) /\ h.do = "pipe" /\ h.at = "next" /\ OutDone(stream[h.s])
  BY <1>1, <1>2, HeadRun DEF Active, Sound, FrameOK, Frames
<1>4. stream[t].life = "open" /\ stream[t].tmp = << >> /\ StreamsOK
  BY <1>1, <1>2, <1>3, NoTmp DEF Active, StreamsOf, BytesInv, StreamInv, TypesOK
<1>5. UNCHANGED <<file, reg, conn, taken, accepted>>
  BY DEF PipeNext, Quiet, kernel, history
<1>6. \/ Return(c) /\ UNCHANGED stream
      \/ stream[h.s].status # "ERROR" /\ Call(c, Frame("write", h.s, t), "next") /\ UNCHANGED stream
      \/ Size(stream[t].in) = 0 /\ InputChanged(c, t, Rewound(stream[t].in)) /\ Call(c, Frame("read", t, 0), "next")
  BY <1>1, <1>2 DEF PipeNext, Active
<1>7. CASE Return(c) /\ UNCHANGED stream
  BY <1>1, <1>3, <1>5, <1>7, PlainReturn DEF Still
<1>8. CASE stream[h.s].status # "ERROR" /\ Call(c, Frame("write", h.s, t), "next") /\ UNCHANGED stream
  <2>1. CallWith(c, Frame("write", h.s, t), "next", h.n)
    BY <1>1, <1>8 DEF Active, Call
  <2>2. PICK f \in Frames : f.do = "write" /\ f.s = h.s /\ f.n = t /\ Enters(c, h, f, "next", h.n)
    BY <1>1, <1>2, <1>3, <2>1, ServingWrite DEF Labels
  <2>3. Size(stream[h.s].out) = 0
    BY <1>3, <1>8 DEF OutDone
  <2>4. Entered(h, f) /\ InnerData(c)
    BY <1>5, <1>8, <2>2, <2>3, NothingMoved DEF Entered
  <2> QED
    BY <1>3, <2>2, <2>4, GoInBytes DEF Labels
<1>9. CASE Size(stream[t].in) = 0 /\ InputChanged(c, t, Rewound(stream[t].in)) /\ Call(c, Frame("read", t, 0), "next")
  <2>1. PICK d \in Buffers : d = Rewound(stream[t].in) /\ d.cap = Capacity /\ Size(d) = 0 /\ Free(d) = Capacity
    BY <1>3, <1>4, StreamFields, BufferRewound
  <2>2. stream' = [stream EXCEPT ![t].in = d]
    BY <1>9, <2>1 DEF InputChanged
  <2>3. /\ OneMoved(t) /\ NextFlow(t) /\ Others(t) /\ Free(Into(t)') > 0
        /\ \A r \in Streams : stream'[r].tmp = stream[r].tmp
    BY <1>3, <1>4, <1>5, <1>9, <2>1, <2>2, InputEmptied
  <2>4. InnerData(c)
    BY <1>3, <1>5, <2>3, OneStream
  <2>5. PICK f : f = Frame("read", t, 0)
    OBVIOUS
  <2>6. /\ f \in Frames /\ f.at = "start" /\ f.do = "read" /\ f.s = t /\ StreamsOf(f) = {t}
    BY <1>3, <2>5 DEF Frame, Frames, Routines, Labels, StreamsOf
  <2>7. Sound(f) /\ CalledBy(f, At(h, "next", h.n)) /\ StreamsOf(f) \subseteq StreamsOf(h)
    BY <1>1, <1>2, <1>3, <2>6 DEF Active, Sound, CalledBy, At, StreamsOf
  <2>8. CallWith(c, f, "next", h.n)
    BY <1>1, <1>9, <2>5 DEF Active, Call
  <2>9. Enters(c, h, f, "next", h.n)
    BY <1>3, <2>6, <2>7, <2>8 DEF Enters
  <2>10. OutDone(stream'[h.s])
    BY <1>3, <2>3 DEF Others
  <2>11. Entered(h, f)
    BY <2>3, <2>6, <2>10 DEF Entered
  <2> QED
    BY <1>3, <2>4, <2>6, <2>9, <2>11, GoInBytes DEF Labels
<1> QED
  BY <1>6, <1>7, <1>8, <1>9

-----------------------------------------------------------------------------
(* The end of a stream.                                                    *)
LEMMA EndShutsBytes ==
  ASSUME BytesInv, StreamInv', OwnFiles, NEW c \in Coro, EndShuts(c)
  PROVE  BytesInv'
<1>1. PICK h \in Frames : Active(c, h, "end", "flushed")
  BY Running DEF EndShuts, BytesInv
<1>2. PICK s : s = h.s
  OBVIOUS
<1>3. s \in Streams /\ s \in Used(stack[c]) /\ stack[c] # << >> /\ h = Head(stack[c]) /\ h.do = "end"
  BY <1>1, <1>2, HeadRun DEF Active
<1>4. stream[s].life = "open" /\ ConnsOK
  BY <1>1, <1>2 DEF Active, BytesInv, StreamInv, TypesOK
<1>5. UNCHANGED <<stream, file, reg, taken, accepted>> /\ Return(c)
  BY Zenon DEF EndShuts, history
<1>6. UNCHANGED conn \/ conn' = [conn EXCEPT ![s].shut = TRUE]
  <2>1. PICK o : o = file[stream[s].fd]
    OBVIOUS
  <2>2. o \in {s, NoOne}
    BY <1>3, <1>4, <2>1, FileOf
  <2> QED
    BY <1>1, <1>2, <2>1, <2>2 DEF EndShuts, Active
<1>7. /\ OtherConns(s) /\ conn'[s].written = conn[s].written /\ conn'[s].err = conn[s].err
      /\ conn'[s].wire = conn[s].wire /\ conn'[s].sent = conn[s].sent
      /\ conn'[s].phase = conn[s].phase /\ conn'[s].fin = conn[s].fin
  <2>1. CASE UNCHANGED conn
    BY <2>1 DEF OtherConns
  <2>2. CASE conn' = [conn EXCEPT ![s].shut = TRUE]
    <3>1. PICK k : k = [conn[s] EXCEPT !.shut = TRUE]
      OBVIOUS
    <3>2. conn[s] \in ConnObjects
      BY <1>3, <1>4, ConnFields
    <3>3. /\ k.written = conn[s].written /\ k.err = conn[s].err /\ k.wire = conn[s].wire
          /\ k.sent = conn[s].sent /\ k.phase = conn[s].phase /\ k.fin = conn[s].fin
      BY <3>1, <3>2 DEF ConnObjects
    <3>4. conn' = [conn EXCEPT ![s] = k]
      BY <2>2, <3>1
    <3> QED
      BY <1>3, <1>4, <3>3, <3>4, ConnSet
  <2> QED
    BY <1>6, <2>1, <2>2
<1>8. NextFlow(s)
  BY <1>3, <1>5, <1>7 DEF BytesInv, Flows, Flow, NextFlow, Ended
<1>9. OneMoved(s)
  BY <1>5, <1>7 DEF OneMoved, OtherConns, SameLives, Others
<1>10. InnerData(c)
  BY <1>3, <1>5, <1>8, <1>9, OneStream
<1>11. Returned(h)
  BY <1>3, <1>5 DEF Returned
<1> QED
  BY <1>3, <1>5, <1>10, <1>11, GoBackBytes

LEMMA ConnectedBytes ==
  ASSUME BytesInv, StreamInv', NEW c \in Coro, Connected(c)
  PROVE  BytesInv'
<1>1. PICK h \in Frames : Active(c, h, "connect", "go")
  BY Running DEF Connected, BytesInv
<1>2. UNCHANGED <<file, reg, taken, accepted>> /\ Return(c)
  BY DEF Connected, history
<1>3. CASE conn[h.s].err = "none"
  <2>1. UNCHANGED <<stream, conn>>
    BY <1>1, <1>3 DEF Connected, Active
  <2> QED
    BY <1>1, <1>2, <2>1, PlainReturn DEF Still, Active
<1>4. CASE conn[h.s].err # "none"
  <2>1. Status(h.s, "ERROR") /\ conn' = [conn EXCEPT ![h.s].err = "over"]
    BY <1>1, <1>4 DEF Connected, Active
  <2>2. UNCHANGED conn \/ (conn[h.s].err # "none" /\ conn' = [conn EXCEPT ![h.s].err = "over"])
    BY <1>4, <2>1
  <2>3. PICK do : do = "connect"
    OBVIOUS
  <2>4. Active(c, h, do, "go") /\ do \notin {"accept", "readall"} /\ do # "read"
    BY <1>1, <2>3
  <2> QED
    BY <1>2, <2>1, <2>2, <2>4, ErrorBytes
<1> QED
  BY <1>3, <1>4

(* Only the stream of the call changed, and nobody else uses it.           *)
LEMMA OnlyMine ==
  ASSUME BytesInv, NEW c \in Coro, NEW s \in Used(stack[c]), Others(s), UNCHANGED conn
  PROVE  Apart(c)
<1> SUFFICES ASSUME NEW d \in Coro \ {c}, NEW t \in Used(stack[d])
             PROVE  stream'[t] = stream[t]
  BY DEF Apart
<1>1. t \in Streams /\ t # s
  BY StacksKnown DEF BytesInv, StreamInv, StacksOK
<1> QED
  BY <1>1 DEF Others

LEMMA DestroyEndBytes ==
  ASSUME BytesInv, StreamInv', NEW c \in Coro, DestroyEnd(c)
  PROVE  BytesInv'
<1>1. PICK h \in Frames : Active(c, h, "destroy", "closed")
  BY Running DEF DestroyEnd, BytesInv
<1>2. PICK s : s = h.s
  OBVIOUS
<1>3. /\ s \in Streams /\ s \in Used(stack[c]) /\ FrameOK(h)
      /\ stack[c] # << >> /\ h = Head(stack[c]) /\ h.do = "destroy" /\ h.at = "closed"
  BY <1>1, <1>2, HeadRun DEF Active
<1>4. /\ stream' = [stream EXCEPT ![s].life = "gone"] /\ Return(c)
      /\ UNCHANGED <<file, reg, conn, taken, accepted>>
  BY <1>1, <1>2 DEF DestroyEnd, Active, Quiet, kernel, history
<1>5. /\ Others(s) /\ stream'[s].life = "gone"
      /\ stream'[s].in = stream[s].in /\ stream'[s].out = stream[s].out /\ stream'[s].tmp = stream[s].tmp
      /\ stream'[s].status = stream[s].status /\ stream'[s].closed = stream[s].closed
  <2>1. stream \in [Streams -> StreamObjects] /\ stream[s] \in StreamObjects
    BY <1>3 DEF BytesInv, StreamInv, TypesOK, StreamsOK
  <2>2. PICK m : m = [stream[s] EXCEPT !.life = "gone"]
    OBVIOUS
  <2>3. /\ m.life = "gone" /\ m.in = stream[s].in /\ m.out = stream[s].out /\ m.tmp = stream[s].tmp
        /\ m.status = stream[s].status /\ m.closed = stream[s].closed
    BY <2>1, <2>2 DEF StreamObjects
  <2>4. stream' = [stream EXCEPT ![s] = m]
    BY <1>4, <2>2
  <2> QED
    BY <1>3, <2>1, <2>3, <2>4 DEF Others
<1>6. Flows'
  <2>1. InOf(stream'[s]) = InOf(stream[s]) /\ OutDone(stream'[s])
    BY <1>2, <1>3, <1>5 DEF InOf, FrameOK, OutDone
  <2>2. Flow(stream[s], conn[s], taken[s], accepted[s])
    BY <1>3 DEF BytesInv, Flows
  <2>3. Flow(stream'[s], conn[s], taken[s], accepted[s])
    BY <1>5, <2>1, <2>2 DEF Flow
  <2> QED
    BY <1>4, <1>5, <2>3 DEF BytesInv, Flows, Others
<1>7. OwnersOK'
  <2>1. \A t \in Streams : stream'[t].closed = stream[t].closed
    BY <1>5 DEF Others
  <2>2. \A t \in Streams : stream'[t].life = "open" => stream'[t] = stream[t]
    BY <1>5 DEF Others
  <2>3. \A f \in Fds : file[f] # NoOne => file[f] \in Streams
    BY DEF BytesInv, StreamInv, TypesOK
  <2> QED
    BY <1>4, <2>1, <2>2, <2>3 DEF BytesInv, OwnersOK
<1>8. PICK st \in Seq(Frames) : stack' = [stack EXCEPT ![c] = st] /\ st = Tail(stack[c])
  BY <1>3, <1>4, ReturnStack DEF BytesInv
<1>9. Returned(h)
  BY <1>3, <1>5 DEF Returned, Others
<1>10. RunOK(st)'
  BY <1>3, <1>8, <1>9, BackRun
<1>11. \A t \in Used(stack[c]) : stream'[t].tmp = << >>
  <2>1. \A t \in Used(stack[c]) : t \in Streams /\ stream[t].tmp = << >>
    BY <1>1, NoTmp, StacksKnown DEF BytesInv
  <2> QED
    BY <1>5, <2>1 DEF Others
<1>12. Apart(c)
  BY <1>3, <1>4, <1>5, OnlyMine
<1>13. \A t \in Streams : stream'[t].tmp # << >> => stream[t].tmp # << >>
  BY <1>5 DEF Others
<1> QED
  BY <1>6, <1>7, <1>8, <1>10, <1>11, <1>12, <1>13, StackBytes

LEMMA ClosedNow ==
  ASSUME StreamInv, NEW s \in Streams, NEW b \in Buffers, NEW cl,
         stream' = [stream EXCEPT ![s].in = b, ![s].closed = cl]
  PROVE  /\ SameLives /\ Others(s) /\ stream'[s].in = b /\ stream'[s].closed = cl
         /\ stream'[s].out = stream[s].out /\ stream'[s].tmp = stream[s].tmp
         /\ stream'[s].status = stream[s].status
<1>1. stream \in [Streams -> StreamObjects] /\ stream[s] \in StreamObjects
  BY DEF StreamInv, TypesOK, StreamsOK
<1>2. PICK m, n : m = [stream[s] EXCEPT !.in = b] /\ n = [m EXCEPT !.closed = cl]
  OBVIOUS
<1>3. /\ m \in StreamObjects /\ m.in = b /\ m.out = stream[s].out /\ m.status = stream[s].status
      /\ m.life = stream[s].life /\ m.fd = stream[s].fd /\ m.tmp = stream[s].tmp
  BY <1>1, <1>2 DEF StreamObjects
<1>4. /\ n.in = b /\ n.closed = cl /\ n.out = stream[s].out /\ n.status = stream[s].status
      /\ n.life = stream[s].life /\ n.fd = stream[s].fd /\ n.tmp = stream[s].tmp
  BY <1>2, <1>3 DEF StreamObjects
<1>5. stream' = [stream EXCEPT ![s] = n]
  <2>1. PICK t : t = [stream EXCEPT ![s].in = b]
    OBVIOUS
  <2>2. t = [stream EXCEPT ![s] = m] /\ t[s] = m /\ stream' = [t EXCEPT ![s].closed = cl]
    BY <1>1, <1>2, <2>1
  <2>3. [t EXCEPT ![s].closed = cl] = [t EXCEPT ![s] = n]
    BY <1>2, <2>2
  <2> QED
    BY <1>1, <2>2, <2>3
<1>6. stream'[s] = n /\ \A t \in Streams : t # s => stream'[t] = stream[t]
  BY <1>1, <1>5
<1> QED
  BY <1>4, <1>6 DEF SameLives, Others

LEMMA CloseEndBytes ==
  ASSUME BytesInv, StreamInv', OwnFiles, NEW c \in Coro, CloseEnd(c)
  PROVE  BytesInv'
<1>1. PICK h \in Frames : Active(c, h, "close", "flushed")
  BY Running DEF CloseEnd, BytesInv
<1>2. PICK s : s = h.s
  OBVIOUS
<1>3. /\ s \in Streams /\ s \in Used(stack[c]) /\ FrameOK(h)
      /\ stack[c] # << >> /\ h = Head(stack[c]) /\ h.do = "close" /\ h.at = "flushed"
  BY <1>1, <1>2, HeadRun DEF Active
<1>4. stream[s].life = "open" /\ StreamInv /\ StreamsOK /\ ConnsOK /\ HistoryOK
  BY <1>1, <1>2 DEF Active, BytesInv, StreamInv, TypesOK
<1>5. PICK f \in Fds : f = stream[s].fd
  BY <1>3, <1>4 DEF StreamInv, FilesOK
<1>6. PICK o : o = file[f]
  OBVIOUS
<1>7. o \in {s, NoOne} /\ s # NoOne /\ stream[s].closed \in {{}, {s}} /\ (o = s <=> stream[s].closed = {})
  BY <1>3, <1>4, <1>5, <1>6, FileOf
<1>8. PICK cl : cl = stream[s].closed \cup ({o} \ {NoOne})
  OBVIOUS
<1>9. cl = {s}
  BY <1>7, <1>8
<1>10. PICK d \in Buffers : d = Rewound(stream[s].in) /\ d.cap = Capacity /\ Size(d) = 0
  BY <1>3, <1>4, StreamFields, BufferRewound
<1>11. /\ stream' = [stream EXCEPT ![s].in = d, ![s].closed = cl]
       /\ file' = [file EXCEPT ![f] = NoOne] /\ reg' = [reg EXCEPT ![f] = Absent]
       /\ Return(c) /\ UNCHANGED <<conn, taken, accepted>>
  <2>1. S(c) = s
    BY <1>1, <1>2 DEF Active
  <2>2. /\ stream' = [stream EXCEPT ![s].in = Rewound(@), ![s].closed = @ \cup ({file[stream[s].fd]} \ {NoOne})]
        /\ file' = [file EXCEPT ![stream[s].fd] = NoOne] /\ reg' = [reg EXCEPT ![stream[s].fd] = Absent]
        /\ Return(c) /\ UNCHANGED <<conn, taken, accepted>>
    BY <2>1, Zenon DEF CloseEnd, history
  <2>3. stream' = [stream EXCEPT ![s].in = d, ![s].closed = cl]
    BY <1>5, <1>6, <1>8, <1>10, <2>2
  <2> QED
    BY <1>5, <2>2, <2>3
<1>12. /\ SameLives /\ Others(s) /\ stream'[s].in = d /\ stream'[s].closed = {s}
       /\ stream'[s].out = stream[s].out /\ stream'[s].tmp = stream[s].tmp
       /\ stream'[s].status = stream[s].status
  BY <1>3, <1>4, <1>9, <1>11, ClosedNow
<1>13. stream[s].tmp = << >> /\ InOf(stream[s]) = stream[s].in /\ InOf(stream'[s]) = d /\ stream'[s].life = "open"
  BY <1>1, <1>3, <1>4, <1>12, NoTmp DEF InOf, SameLives
<1>14. Flows'
  <2>1. Flow(stream[s], conn[s], taken[s], accepted[s])
    BY <1>3 DEF BytesInv, Flows
  <2>2. PICK b \in Buffers : b = stream[s].in
    BY <1>3, <1>4, StreamFields
  <2>3. Input({s}, d, conn[s].wire, conn[s].sent, taken[s])
    <3>1. conn[s].wire \in Seq(Nat) /\ conn[s].sent \in Nat /\ taken[s] \in Seq(Nat)
      BY <1>3, <1>4, ConnFields DEF HistoryOK
    <3>2. Input(stream[s].closed, b, conn[s].wire, conn[s].sent, taken[s])
      BY <1>13, <2>1, <2>2 DEF Flow
    <3>3. PICK more : more = {s} /\ more # {}
      OBVIOUS
    <3>4. PICK old \in SUBSET Streams, wire \in Seq(Nat), sent \in Nat, tk \in Seq(Nat) :
             old = stream[s].closed /\ wire = conn[s].wire /\ sent = conn[s].sent /\ tk = taken[s]
      BY <1>3, <1>4, <3>1, StreamFields
    <3>5. Input(old, b, wire, sent, tk)
      BY <3>2, <3>4
    <3>6. Input(more, d, wire, sent, tk)
      BY <1>10, <3>3, <3>5, InputClosed
    <3> QED
      BY <3>3, <3>4, <3>6
  <2>4. d.cap > 0
    BY <1>10, StreamAssumption
  <2>5. Flow(stream'[s], conn[s], taken[s], accepted[s])
    BY <1>12, <1>13, <2>1, <2>3, <2>4 DEF Flow
  <2> QED
    BY <1>11, <1>12, <2>5 DEF BytesInv, Flows, Others
<1>15. /\ file'[f] = NoOne /\ \A g \in Fds : g # f => file'[g] = file[g] /\ reg'[g] = reg[g]
  BY <1>11 DEF BytesInv, StreamInv, TypesOK
<1>16. \A g \in Fds : g # f /\ file[g] # NoOne => file[g] \in Streams \ {s}
  <2>1. \A g \in Fds : file[g] # NoOne => file[g] \in Streams /\ stream[file[g]].closed = {}
    BY DEF BytesInv, StreamInv, TypesOK, OwnersOK
  <2>2. \A g \in Fds : file[g] = s => g = f
    <3>1. \A g \in Fds : file[g] = s => o = s
      BY <1>3, <1>7, <2>1
    <3> QED
      BY <1>6, <1>7, <3>1 DEF BytesInv, StreamInv, FilesOK
  <2> QED
    BY <2>1, <2>2
<1>17. OwnersOK'
  <2>1. \A t \in Streams : stream'[t].closed \subseteq {t}
    BY <1>12 DEF BytesInv, OwnersOK, Others
  <2>2. ASSUME NEW t \in Streams, stream'[t].life = "open", stream'[t].closed = {}
        PROVE  file'[stream'[t].fd] = t
    <3>1. t # s /\ stream'[t] = stream[t]
      BY <1>12, <2>2 DEF Others
    <3>2. file[stream[t].fd] = t /\ stream[t].fd \in Fds
      BY <2>2, <3>1, <1>4 DEF BytesInv, OwnersOK, StreamInv, FilesOK
    <3>3. stream[t].fd # f
      BY <1>6, <1>7, <3>1, <3>2, StreamAssumption
    <3> QED
      BY <1>15, <3>1, <3>2, <3>3
  <2>3. ASSUME NEW g \in Fds, file'[g] # NoOne
        PROVE  stream'[file'[g]].closed = {} /\ (Kind[file'[g]] = "file" \/ reg'[g].on # "absent")
    <3>1. g # f /\ file'[g] = file[g] /\ reg'[g] = reg[g]
      BY <1>15, <2>3
    <3>2. stream'[file[g]] = stream[file[g]]
      BY <1>12, <1>16, <2>3, <3>1 DEF Others
    <3> QED
      BY <2>3, <3>1, <3>2 DEF BytesInv, OwnersOK
  <2> QED
    BY <2>1, <2>2, <2>3 DEF OwnersOK
<1>18. PICK st \in Seq(Frames) : stack' = [stack EXCEPT ![c] = st] /\ st = Tail(stack[c])
  BY <1>3, <1>4, <1>11, ReturnStack
<1>19. \A t \in Streams : stream'[t].tmp = stream[t].tmp
  BY <1>12 DEF Others
<1>20. Returned(h)
  BY <1>2, <1>3, <1>12, <1>19 DEF Returned, FrameOK, OutDone
<1>21. RunOK(st)'
  BY <1>3, <1>18, <1>20, BackRun
<1>22. \A t \in Used(stack[c]) : stream'[t].tmp = << >>
  <2>1. \A t \in Used(stack[c]) : t \in Streams /\ stream[t].tmp = << >>
    BY <1>1, NoTmp, StacksKnown DEF BytesInv
  <2> QED
    BY <1>19, <2>1
<1>23. Apart(c)
  BY <1>3, <1>11, <1>12, OnlyMine
<1> QED
  BY <1>14, <1>17, <1>18, <1>19, <1>21, <1>22, <1>23, StackBytes

-----------------------------------------------------------------------------
(* New streams.                                                            *)
LEMMA OpenedFields ==
  ASSUME StreamInv, NEW s \in Streams, NEW f \in Fds, Opened(s, f)
  PROVE  /\ Others(s) /\ stream'[s].life = "open" /\ stream'[s].fd = f
         /\ stream'[s].in = stream[s].in /\ stream'[s].out = stream[s].out /\ stream'[s].tmp = stream[s].tmp
         /\ stream'[s].status = stream[s].status /\ stream'[s].closed = stream[s].closed
<1>1. stream \in [Streams -> StreamObjects] /\ stream[s] \in StreamObjects
  BY DEF StreamInv, TypesOK, StreamsOK
<1>2. PICK m, n : m = [stream[s] EXCEPT !.life = "open"] /\ n = [m EXCEPT !.fd = f]
  OBVIOUS
<1>3. /\ m \in StreamObjects /\ m.life = "open" /\ m.in = stream[s].in /\ m.out = stream[s].out
      /\ m.tmp = stream[s].tmp /\ m.status = stream[s].status /\ m.closed = stream[s].closed
  BY <1>1, <1>2 DEF StreamObjects
<1>4. /\ n.life = "open" /\ n.fd = f /\ n.in = stream[s].in /\ n.out = stream[s].out
      /\ n.tmp = stream[s].tmp /\ n.status = stream[s].status /\ n.closed = stream[s].closed
  BY <1>2, <1>3 DEF StreamObjects
<1>5. stream' = [stream EXCEPT ![s] = n]
  <2>1. PICK t : t = [stream EXCEPT ![s].life = "open"]
    OBVIOUS
  <2>2. t = [stream EXCEPT ![s] = m] /\ t[s] = m /\ stream' = [t EXCEPT ![s].fd = f]
    BY <1>1, <1>2, <2>1 DEF Opened
  <2>3. [t EXCEPT ![s].fd = f] = [t EXCEPT ![s] = n]
    BY <1>2, <2>2
  <2> QED
    BY <1>1, <2>2, <2>3
<1>6. stream'[s] = n /\ \A t \in Streams : t # s => stream'[t] = stream[t]
  BY <1>1, <1>5
<1> QED
  BY <1>4, <1>6 DEF Others

(* What the kernel has for a stream when it opens.                         *)
Given(s, f) ==
    /\ OtherConns(s) /\ OtherRegs(f) /\ (Kind[s] = "file" \/ reg'[f].on # "absent")
    /\ Input({}, InOf(stream[s]), conn'[s].wire, conn'[s].sent, taken[s])
    /\ conn'[s].written = conn[s].written
    /\ conn'[s].phase # "up" => conn'[s].err = "none" /\ ~ conn'[s].fin

LEMMA OpensBytes ==
  ASSUME BytesInv, StreamInv', NEW c \in Coro, NEW s \in Streams, stream[s].life = "new",
         NEW f, f = Lowest, Opened(s, f), file' = [file EXCEPT ![f] = s], Given(s, f),
         UNCHANGED <<taken, accepted>>, Used(stack[c]) = {},
         NEW st, stack' = [stack EXCEPT ![c] = st], st # << >> => Head(st).do = "connect"
  PROVE  BytesInv'
<1>1. StreamInv /\ f \in Fds /\ file[f] = NoOne
  BY LowestFree DEF BytesInv
<1>2. /\ Others(s) /\ stream'[s].life = "open" /\ stream'[s].fd = f
      /\ stream'[s].in = stream[s].in /\ stream'[s].out = stream[s].out /\ stream'[s].tmp = stream[s].tmp
      /\ stream'[s].status = stream[s].status /\ stream'[s].closed = stream[s].closed
  BY <1>1, OpenedFields
<1>3. Flow(stream[s], conn[s], taken[s], accepted[s])
  BY DEF BytesInv, Flows
<1>4. stream[s].status = "OK" /\ stream[s].closed = {}
  BY <1>3 DEF Flow
<1>5. InOf(stream'[s]) = InOf(stream[s])
  BY <1>2 DEF InOf
<1>6. Flow(stream'[s], conn'[s], taken'[s], accepted'[s])
  <2>1. PICK x : x = stream'[s]
    OBVIOUS
  <2>2. Input(x.closed, InOf(x), conn'[s].wire, conn'[s].sent, taken[s]) /\ InOf(x).cap > 0
    BY <1>2, <1>3, <1>4, <1>5, <2>1 DEF Given, Flow
  <2>3. Output(x.out, conn'[s].written, accepted[s])
    BY <1>2, <1>3, <2>1 DEF Given, Flow
  <2>4. x.status = "OK" /\ x.life = "open" /\ (conn'[s].phase # "up" => conn'[s].err = "none" /\ ~ conn'[s].fin)
    BY <1>2, <1>4, <2>1 DEF Given
  <2>5. Flow(x, conn'[s], taken[s], accepted[s])
    BY <2>2, <2>3, <2>4 DEF Flow
  <2> QED
    BY <2>1, <2>5
<1>7. Flows'
  <2>1. ASSUME NEW t \in Streams PROVE Flow(stream'[t], conn'[t], taken'[t], accepted'[t])
    <3>1. CASE t = s
      BY <1>6, <3>1
    <3>2. CASE t # s
      <4>1. stream'[t] = stream[t] /\ conn'[t] = conn[t]
        BY <1>2, <3>2 DEF Others, Given, OtherConns
      <4> QED
        BY <4>1 DEF BytesInv, Flows
    <3> QED
      BY <3>1, <3>2
  <2> QED
    BY <2>1 DEF Flows
<1>8. /\ file'[f] = s /\ \A g \in Fds : g # f => file'[g] = file[g] /\ reg'[g] = reg[g]
  BY <1>1 DEF StreamInv, TypesOK, Given, OtherRegs
<1>9. \A g \in Fds : file[g] # NoOne => file[g] \in Streams \ {s}
  BY <1>1 DEF StreamInv, TypesOK, FilesOK
<1>10. OwnersOK'
  <2>1. \A t \in Streams : stream'[t].closed \subseteq {t}
    BY <1>2 DEF BytesInv, OwnersOK, Others
  <2>2. ASSUME NEW t \in Streams, stream'[t].life = "open", stream'[t].closed = {}
        PROVE  file'[stream'[t].fd] = t
    <3>1. CASE t = s
      BY <1>2, <1>8, <3>1
    <3>2. CASE t # s
      <4>1. stream'[t] = stream[t]
        BY <1>2, <3>2 DEF Others
      <4>2. file[stream[t].fd] = t /\ stream[t].fd \in Fds
        BY <1>1, <2>2, <4>1 DEF BytesInv, OwnersOK, StreamInv, FilesOK
      <4>3. stream[t].fd # f
        BY <1>1, <4>2, StreamAssumption
      <4> QED
        BY <1>8, <4>1, <4>2, <4>3
    <3> QED
      BY <3>1, <3>2
  <2>3. ASSUME NEW g \in Fds, file'[g] # NoOne
        PROVE  stream'[file'[g]].closed = {} /\ (Kind[file'[g]] = "file" \/ reg'[g].on # "absent")
    <3>1. CASE g = f
      BY <1>2, <1>4, <1>8, <3>1 DEF Given
    <3>2. CASE g # f
      <4>1. file'[g] = file[g] /\ reg'[g] = reg[g] /\ stream'[file[g]] = stream[file[g]]
        BY <1>2, <1>8, <1>9, <2>3, <3>2 DEF Others
      <4> QED
        BY <2>3, <4>1 DEF BytesInv, OwnersOK
    <3> QED
      BY <3>1, <3>2
  <2> QED
    BY <2>1, <2>2, <2>3 DEF OwnersOK
<1>11. \A t \in Streams : stream'[t].tmp = stream[t].tmp
  BY <1>2 DEF Others
<1>12. RunOK(st)'
  <2> SUFFICES ASSUME st # << >> PROVE FrameOK(Head(st))' /\ Head(st).do # "read"
    BY DEF RunOK
  <2>1. PICK h : h = Head(st) /\ h.do = "connect"
    OBVIOUS
  <2>2. FrameOK(h)'
    BY <2>1 DEF FrameOK
  <2> QED
    BY <2>1, <2>2
<1>13. Apart(c)
  <2> SUFFICES ASSUME NEW d \in Coro \ {c}, NEW t \in Used(stack[d])
               PROVE  stream'[t] = stream[t] /\ conn'[t] = conn[t]
    BY DEF Apart
  <2>1. t \in Streams /\ t # s
    BY <1>1, NewUnused, StacksKnown
  <2> QED
    BY <1>2, <2>1 DEF Others, Given, OtherConns
<1> QED
  BY <1>7, <1>10, <1>11, <1>12, <1>13, StackBytes

LEMMA PhaseFields ==
  ASSUME ConnsOK, NEW o \in Streams, NEW phase, conn' = [conn EXCEPT ![o].phase = phase]
  PROVE  /\ OtherConns(o) /\ conn'[o].phase = phase /\ conn'[o].err = conn[o].err
         /\ conn'[o].wire = conn[o].wire /\ conn'[o].sent = conn[o].sent /\ conn'[o].written = conn[o].written
         /\ conn'[o].fin = conn[o].fin
<1>1. PICK k : k = [conn[o] EXCEPT !.phase = phase]
  OBVIOUS
<1>2. conn[o] \in ConnObjects
  BY ConnFields
<1>3. conn' = [conn EXCEPT ![o] = k]
  BY <1>1 DEF ConnsOK
<1>4. /\ k.phase = phase /\ k.err = conn[o].err /\ k.wire = conn[o].wire /\ k.sent = conn[o].sent
      /\ k.written = conn[o].written /\ k.fin = conn[o].fin
  BY <1>1, <1>2 DEF ConnObjects
<1> QED
  BY <1>3, <1>4, ConnSet

LEMMA NewFlow ==
  ASSUME BytesInv, NEW s \in Streams, stream[s].life = "new"
  PROVE  /\ Input({}, InOf(stream[s]), conn[s].wire, conn[s].sent, taken[s])
         /\ conn[s].err = "none" /\ ~ conn[s].fin /\ conn[s].sent = 0 /\ StreamInv /\ ConnsOK
<1>1. Flow(stream[s], conn[s], taken[s], accepted[s])
  BY DEF BytesInv, Flows
<1>2. stream[s].closed = {} /\ conn[s].phase # "up"
  BY <1>1 DEF Flow
<1> QED
  BY <1>1, <1>2 DEF Flow, BytesInv, StreamInv, TypesOK

LEMMA AcceptedBytes ==
  ASSUME BytesInv, StreamInv', NEW c \in Coro, NEW s \in Streams, Accepted(c, s)
  PROVE  BytesInv'
<1>1. StreamInv /\ ConnsOK
  BY DEF BytesInv, StreamInv, TypesOK
<1>2. PICK h \in Frames : Active(c, h, "accept", "go")
  BY <1>1, Running DEF Accepted
<1>3. PICK f : f = Lowest
  OBVIOUS
<1>4. /\ Opened(s, f) /\ file' = [file EXCEPT ![f] = s] /\ conn' = [conn EXCEPT ![s].phase = "up"]
      /\ reg' = [reg EXCEPT ![f] = [who |-> NoOne, on |-> "none"]]
      /\ Return(c) /\ UNCHANGED <<taken, accepted>> /\ stream[s].life = "new"
  BY <1>1, <1>3 DEF Accepted, history, StreamInv, FilesOK
<1>5. f \in Fds
  BY <1>1, <1>3, <1>4, LowestFree
<1>6. reg'[f].on = "none" /\ OtherRegs(f)
  <2>1. reg'[f] = [who |-> NoOne, on |-> "none"] /\ OtherRegs(f)
    BY <1>1, <1>4, <1>5 DEF StreamInv, TypesOK, OtherRegs
  <2> QED
    BY <2>1
<1>7. PICK phase : phase = "up"
  OBVIOUS
<1>8. Given(s, f)
  <2>1. /\ OtherConns(s) /\ conn'[s].phase = "up" /\ conn'[s].wire = conn[s].wire
        /\ conn'[s].sent = conn[s].sent /\ conn'[s].written = conn[s].written
    BY <1>1, <1>4, <1>7, PhaseFields
  <2> QED
    BY <1>4, <1>6, <2>1, NewFlow DEF Given
<1>9. PICK low \in Seq(Frames) : low = stack[c] /\ Chain(low) /\ low # << >> /\ Head(low) = h
  BY <1>1, <1>2, StacksKnown DEF Active
<1>10. PICK st \in Seq(Frames) : stack' = [stack EXCEPT ![c] = st] /\ st = Tail(low)
  BY <1>1, <1>4, <1>9, ReturnStack
<1>11. st = << >>
  <2>1. st # << >> => CalledBy(h, Head(st))
    BY <1>9, <1>10, ChainPop
  <2> QED
    BY <1>2, <2>1 DEF CalledBy, Active
<1>12. Used(stack[c]) = {}
  <2>1. Used(low) = StreamsOf(h) \cup Used(st)
    BY <1>9, <1>10, ChainPop
  <2>2. StreamsOf(h) = {}
    BY <1>2 DEF Active, StreamsOf
  <2> QED
    BY <1>9, <1>11, <2>1, <2>2, ChainEmpty
<1> QED
  BY <1>3, <1>4, <1>8, <1>10, <1>11, <1>12, OpensBytes

LEMMA ConnectBytes ==
  ASSUME BytesInv, StreamInv', NEW c \in Coro, NEW s \in Streams, Connect(c, s)
  PROVE  BytesInv'
<1>1. StreamInv /\ ConnsOK
  BY DEF BytesInv, StreamInv, TypesOK
<1>2. PICK f : f = Lowest
  OBVIOUS
<1>3. PICK g : g = [Frame("connect", s, 0) EXCEPT !.at = "wait"]
  OBVIOUS
<1>4. PICK st : st = <<g>>
  OBVIOUS
<1>5. /\ Opened(s, f) /\ file' = [file EXCEPT ![f] = s] /\ UNCHANGED <<taken, accepted>>
      /\ conn' = [conn EXCEPT ![s].phase = "connecting"] /\ stack[c] = << >> /\ stream[s].life = "new"
      /\ stack' = [stack EXCEPT ![c] = st] /\ reg' = [reg EXCEPT ![f] = [who |-> c, on |-> "out"]]
  BY <1>2, <1>3, <1>4 DEF Connect, Starts, history
<1>6. f \in Fds
  BY <1>1, <1>2, <1>5, LowestFree
<1>7. reg'[f].on = "out" /\ OtherRegs(f)
  <2>1. reg'[f] = [who |-> c, on |-> "out"] /\ OtherRegs(f)
    BY <1>1, <1>5, <1>6 DEF StreamInv, TypesOK, OtherRegs
  <2> QED
    BY <2>1
<1>8. PICK phase : phase = "connecting"
  OBVIOUS
<1>9. Given(s, f)
  <2>1. /\ OtherConns(s) /\ conn'[s].err = conn[s].err /\ conn'[s].wire = conn[s].wire
        /\ conn'[s].sent = conn[s].sent /\ conn'[s].written = conn[s].written /\ conn'[s].fin = conn[s].fin
    BY <1>1, <1>5, <1>8, PhaseFields
  <2> QED
    BY <1>5, <1>7, <2>1, NewFlow DEF Given
<1>10. Head(st).do = "connect"
  <2>1. g = [do |-> "connect", s |-> s, n |-> 0, at |-> "wait"]
    BY <1>3 DEF Frame
  <2>2. g.do = "connect" /\ Head(st) = g
    BY <1>4, <2>1
  <2> QED
    BY <2>2
<1>11. Used(stack[c]) = {}
  BY <1>5, ChainEmpty
<1> QED
  BY <1>2, <1>5, <1>9, <1>10, <1>11, OpensBytes

LEMMA OpenFileBytes ==
  ASSUME BytesInv, StreamInv', NEW c \in Coro, NEW s \in Streams, OpenFile(c, s)
  PROVE  BytesInv'
<1>1. StreamInv /\ ConnsOK /\ StreamsOK /\ HistoryOK
  BY DEF BytesInv, StreamInv, TypesOK
<1>2. PICK f : f = Lowest
  OBVIOUS
<1>3. PICK w : w = [i \in 1 .. MaxSent |-> i]
  OBVIOUS
<1>4. /\ stack[c] = << >> /\ stream[s].life = "new" /\ Kind[s] = "file" /\ Opened(s, f)
      /\ file' = [file EXCEPT ![f] = s] /\ UNCHANGED <<stack, reg, taken, accepted>>
      /\ conn' = [conn EXCEPT ![s].phase = "up", ![s].fin = TRUE, ![s].sent = MaxSent, ![s].wire = w]
  BY <1>2, <1>3 DEF OpenFile, Starts, history
<1>5. /\ OtherConns(s) /\ conn'[s].phase = "up" /\ conn'[s].sent = MaxSent /\ conn'[s].wire = w
      /\ conn'[s].written = conn[s].written
  <2>1. conn \in [Streams -> ConnObjects] /\ conn[s] \in ConnObjects
    BY <1>1, ConnFields DEF ConnsOK
  <2>2. MaxSent \in Nat /\ MaxSent \in 0 .. MaxSent
    BY StreamAssumption
  <2>4. PICK m, n, p, q : /\ m = [conn[s] EXCEPT !.phase = "up"] /\ n = [m EXCEPT !.fin = TRUE]
                          /\ p = [n EXCEPT !.sent = MaxSent] /\ q = [p EXCEPT !.wire = w]
    OBVIOUS
  <2>5. m \in ConnObjects /\ m.phase = "up" /\ m.written = conn[s].written
    BY <2>1, <2>4 DEF ConnObjects
  <2>6. n \in ConnObjects /\ n.phase = "up" /\ n.written = conn[s].written
    BY <2>4, <2>5 DEF ConnObjects
  <2>7. p \in ConnObjects /\ p.phase = "up" /\ p.written = conn[s].written /\ p.sent = MaxSent
    BY <2>2, <2>4, <2>6 DEF ConnObjects
  <2>8. q.phase = "up" /\ q.written = conn[s].written /\ q.sent = MaxSent /\ q.wire = w
    BY <2>4, <2>7 DEF ConnObjects
  <2>9. conn' = [conn EXCEPT ![s] = q]
    <3>1. PICK t : t = [conn EXCEPT ![s].phase = "up"]
      OBVIOUS
    <3>2. PICK u : u = [t EXCEPT ![s].fin = TRUE]
      OBVIOUS
    <3>3. PICK v : v = [u EXCEPT ![s].sent = MaxSent]
      OBVIOUS
    <3>4. t = [conn EXCEPT ![s] = m] /\ t[s] = m
      BY <2>1, <2>4, <3>1
    <3>5. u = [conn EXCEPT ![s] = n] /\ u[s] = n
      <4>1. u = [t EXCEPT ![s] = n]
        BY <2>4, <3>2, <3>4
      <4> QED
        BY <2>1, <3>4, <4>1
    <3>6. v = [conn EXCEPT ![s] = p] /\ v[s] = p
      <4>1. v = [u EXCEPT ![s] = p]
        BY <2>4, <3>3, <3>5
      <4> QED
        BY <2>1, <3>5, <4>1
    <3>7. conn' = [v EXCEPT ![s].wire = w]
      BY <1>4, <3>1, <3>2, <3>3
    <3>8. conn' = [v EXCEPT ![s] = q]
      BY <2>4, <3>6, <3>7
    <3> QED
      BY <2>1, <3>6, <3>8
  <2> QED
    BY <1>1, <2>8, <2>9, ConnSet
<1>6. Input({}, InOf(stream[s]), w, MaxSent, taken[s])
  <2>1. Input({}, InOf(stream[s]), conn[s].wire, 0, taken[s])
    BY <1>4, NewFlow
  <2>2. PICK b \in Buffers, wire \in Seq(Nat), tk \in Seq(Nat) :
           b = InOf(stream[s]) /\ wire = conn[s].wire /\ tk = taken[s]
    BY <1>1, StreamFields, ConnFields DEF InOf, HistoryOK
  <2>3. PICK n \in Nat : n = MaxSent
    BY StreamAssumption
  <2>4. Input({}, b, wire, 0, tk)
    BY <2>1, <2>2
  <2>5. Input({}, b, Count(n), n, tk)
    BY <2>4, InputOpened
  <2>6. w = Count(n)
    BY <1>3, <2>3 DEF Count
  <2> QED
    BY <2>2, <2>3, <2>5, <2>6
<1>7. Given(s, f)
  BY <1>4, <1>5, <1>6 DEF Given, OtherRegs
<1>8. PICK st : st = << >>
  OBVIOUS
<1>9. stack' = [stack EXCEPT ![c] = st] /\ Used(stack[c]) = {}
  BY <1>1, <1>4, <1>8, ChainEmpty DEF StreamInv, TypesOK
<1> QED
  BY <1>2, <1>4, <1>7, <1>8, <1>9, OpensBytes

-----------------------------------------------------------------------------
(* The first call of a coroutine.                                          *)
First(g) ==
    /\ g \in Frames /\ Sound(g) /\ g.do \notin {"read", "write", "fill"} /\ g.at \in {"start", "wait"}
    /\ g.do = "get" => g.n <= 1
    /\ g.do = "accept" => g.s = NoOne

LEMMA FirstBytes ==
  ASSUME BytesInv, StreamInv', NEW c \in Coro, stack[c] = << >>, NEW g, First(g),
         NEW st, st = <<g>>, stack' = [stack EXCEPT ![c] = st],
         UNCHANGED <<stream, conn, taken, accepted, file>>,
         \A f \in Fds : reg[f].on # "absent" => reg'[f].on # "absent"
  PROVE  BytesInv'
<1>1. st \in Seq(Frames) /\ Chain(st) /\ st # << >> /\ Head(st) = g
  BY OneFrame DEF First
<1>2. FrameOK(g)
  BY DEF First, FrameOK
<1>3. RunOK(st)
  BY <1>1, <1>2 DEF RunOK, First
<1>4. RunOK(st)'
  BY <1>1, <1>3, RunSame
<1>5. InnerData(c)
  BY NothingMoved
<1>6. Used(stack[c]) = {}
  BY ChainEmpty
<1> QED
  BY <1>4, <1>5, <1>6, InnerFlows, StackBytes

LEMMA CallsBytes ==
  ASSUME SingleBytes, BytesInv, StreamInv', NEW c \in Coro, NEW s \in Streams,
         NEW op \in Ops[c] \ {<<"pipe", 0>>}, Calls(c, s, op)
  PROVE  BytesInv'
<1>1. /\ op[1] \in {"get", "peek", "scan", "readall", "put", "print", "flush", "end", "close", "destroy"}
      /\ op[2] \in 0 .. Capacity /\ Capacity \in Nat /\ (op[1] = "get" => op[2] <= 1)
  BY OpsAssumption, StreamAssumption DEF SingleBytes
<1>2. PICK g : g = Frame(op[1], s, op[2])
  OBVIOUS
<1>3. g.do = op[1] /\ g.s = s /\ g.n = op[2] /\ g.at = "start" /\ g \in Frames
  <2>1. op[1] \in Routines /\ op[2] \in Nat
    BY <1>1 DEF Routines
  <2> QED
    BY <1>2, <2>1 DEF Frame, Frames, Labels
<1>4. StreamsOf(g) = {s} /\ g.do \notin {"read", "write", "fill", "accept"}
  BY <1>1, <1>3 DEF StreamsOf
<1>5. Sound(g)
  BY <1>1, <1>3, <1>4 DEF Sound
<1>6. First(g)
  BY <1>1, <1>3, <1>4, <1>5 DEF First
<1>7. PICK st : st = <<g>>
  OBVIOUS
<1>8. /\ stack[c] = << >> /\ stack' = [stack EXCEPT ![c] = st]
      /\ UNCHANGED <<stream, conn, taken, accepted, file, reg>>
  BY <1>2, <1>7 DEF Calls, Starts, kernel, history
<1> QED
  BY <1>6, <1>7, <1>8, FirstBytes

LEMMA PipesBytes ==
  ASSUME BytesInv, StreamInv', NEW c \in Coro, NEW s \in Streams, NEW t \in Streams, Pipes(c, s, t)
  PROVE  BytesInv'
<1>1. PICK g : g = Frame("pipe", s, t)
  OBVIOUS
<1>2. g.do = "pipe" /\ g.s = s /\ g.n = t /\ g.at = "start" /\ g \in Frames /\ s # t
  BY <1>1 DEF Frame, Frames, Routines, Labels, Pipes
<1>3. First(g)
  BY <1>2 DEF First, StreamsOf, Sound
<1>4. PICK st : st = <<g>>
  OBVIOUS
<1>5. /\ stack[c] = << >> /\ stack' = [stack EXCEPT ![c] = st]
      /\ UNCHANGED <<stream, conn, taken, accepted, file, reg>>
  BY <1>1, <1>4 DEF Pipes, Starts, kernel, history
<1> QED
  BY <1>3, <1>4, <1>5, FirstBytes

LEMMA AcceptBytes ==
  ASSUME BytesInv, StreamInv', NEW c \in Coro, Accept(c)
  PROVE  BytesInv'
<1>1. PICK g : g = [Frame("accept", NoOne, 0) EXCEPT !.at = "wait"]
  OBVIOUS
<1>2. PICK st : st = <<g>>
  OBVIOUS
<1>3. /\ stack[c] = << >> /\ UNCHANGED <<stream, file, conn, taken, accepted>>
      /\ stack' = [stack EXCEPT ![c] = st] /\ reg' = [reg EXCEPT ![0] = [who |-> c, on |-> "in"]]
  BY <1>1, <1>2 DEF Accept, Starts, history
<1>4. g \in Frames /\ g.do = "accept" /\ g.at = "wait" /\ g.s = NoOne
  <2>1. g = [do |-> "accept", s |-> NoOne, n |-> 0, at |-> "wait"]
    BY <1>1 DEF Frame
  <2> QED
    BY <2>1 DEF Frames, Routines, Labels
<1>5. First(g)
  BY <1>4 DEF First, Sound, StreamsOf
<1>6. \A e \in Fds : reg'[e] = reg[e]
  <2>1. \A e \in Fds : e # 0
    BY FdsAssumption
  <2> QED
    BY <1>3, <2>1 DEF BytesInv, StreamInv, TypesOK
<1> QED
  BY <1>2, <1>3, <1>5, <1>6, FirstBytes

-----------------------------------------------------------------------------
(* The event loop and the peers.                                           *)
LEMMA WorldBytes ==
  ASSUME BytesInv, StreamInv', UNCHANGED <<stack, stream, file, reg>>, Flows',
         \A s \in Streams : Ended(conn[s]) => Ended(conn'[s])
  PROVE  BytesInv'
<1>1. OwnersOK' /\ TmpsOK'
  <2>1. OwnersOK'
    BY DEF BytesInv, OwnersOK
  <2>2. TmpsOK'
    BY DEF BytesInv, TmpsOK, Reading
  <2> QED
    BY <2>1, <2>2
<1>2. RunsOK'
  <2> SUFFICES ASSUME NEW d \in Coro, NEW e, e = stack[d] PROVE RunOK(e)'
    BY DEF RunsOK, RunOK
  <2>1. e \in Seq(Frames) /\ Chain(e) /\ Used(e) \subseteq Streams
    BY StacksKnown DEF BytesInv
  <2>2. RunOK(e)
    BY DEF BytesInv, RunsOK
  <2> QED
    BY <2>1, <2>2, RunSame
<1> QED
  BY <1>1, <1>2 DEF BytesInv

LEMMA StillBytes ==
  ASSUME BytesInv, StreamInv', UNCHANGED <<stack, stream, file, reg, conn, taken, accepted>>
  PROVE  BytesInv'
<1>1. Flows'
  BY DEF BytesInv, Flows
<1> QED
  BY <1>1, WorldBytes

LEMMA PollBytes ==
  ASSUME BytesInv, StreamInv', NEW f \in Fds \cup {0}, Poll(f)
  PROVE  BytesInv'
<1>1. StreamInv /\ UNCHANGED <<stream, file, conn, taken, accepted>>
  BY DEF BytesInv, Poll, history
<1>2. CASE reg[f].who = NoOne
  <2>1. UNCHANGED <<stack, reg>>
    BY <1>2 DEF Poll
  <2> QED
    BY <1>1, <2>1, StillBytes
<1>3. CASE reg[f].who # NoOne
  <2>1. reg[f].on \in {"none", "in", "out"}
    BY DEF Poll, Ready
  <2>2. PICK c \in Coro : c = reg[f].who /\ Suspended(c)
    BY <1>1, <1>3, <2>1 DEF StreamInv, WaitsOK, Armed
  <2>3. Goto(c, "go") /\ stack[c] # << >> /\ reg' = [reg EXCEPT ![f].on = "off"]
    BY <1>3, <2>2 DEF Poll, Suspended
  <2>4. \A g \in Fds : reg[g].on # "absent" => reg'[g].on # "absent"
    <3>1. /\ reg \in [Fds \cup {0} -> [who : Coro \cup {NoOne}, on : {"absent", "off", "none", "in", "out"}]]
          /\ reg[f] \in [who : Coro \cup {NoOne}, on : {"absent", "off", "none", "in", "out"}]
      BY <1>1 DEF StreamInv, TypesOK
    <3>2. PICK r : r = [reg[f] EXCEPT !.on = "off"]
      OBVIOUS
    <3>3. r.on = "off" /\ reg' = [reg EXCEPT ![f] = r]
      BY <2>3, <3>1, <3>2
    <3>4. reg'[f] = r /\ \A g \in Fds \cup {0} : g # f => reg'[g] = reg[g]
      BY <3>1, <3>3
    <3> QED
      BY <3>3, <3>4
  <2>5. PICK at \in {"wait", "go", "peeked", "start", "done", "emptied"} : at = "go"
    OBVIOUS
  <2> QED
    BY <1>1, <2>3, <2>4, <2>5, GoOnBytes
<1> QED
  BY <1>2, <1>3

LEMMA PeerBytes ==
  ASSUME BytesInv, StreamInv', NEW s \in Streams, UNCHANGED <<stack, stream, file, reg, taken, accepted>>,
         OtherConns(s), NextFlow(s), Ended(conn[s]) => Ended(conn'[s])
  PROVE  BytesInv'
<1>1. Flows'
  BY DEF BytesInv, Flows, NextFlow, OtherConns
<1>2. \A t \in Streams : Ended(conn[t]) => Ended(conn'[t])
  BY DEF OtherConns
<1> QED
  BY <1>1, <1>2, WorldBytes

(* A peer that talks has a stream that is open, and was never closed.      *)
LEMMA TalksOpen ==
  ASSUME BytesInv, NEW s \in Streams, Talks(s)
  PROVE  stream[s].closed = {} /\ conn[s].phase = "up" /\ conn[s].err = "none"
<1>1. \E f \in Fds : file[f] = s
  <2>1. CASE Polled(s)
    BY <2>1 DEF Polled
  <2>2. CASE Called(s)
    <3>1. PICK c \in Coro : stack[c] # << >> /\ S(c) # NoOne /\ file[stream[S(c)].fd] = s
      BY <2>2 DEF Called
    <3>2. PICK low \in Seq(Frames) : low = stack[c] /\ Chain(low) /\ low # << >>
      BY <3>1, StacksKnown DEF BytesInv
    <3>3. PICK h : h = Head(low) /\ h.s = S(c)
      BY <3>2 DEF S
    <3>4. h.do # "accept"
      <4>1. FrameOK(h)
        BY <3>2, <3>3 DEF BytesInv, RunsOK, RunOK
      <4> QED
        BY <3>1, <3>3, <4>1 DEF FrameOK
    <3>5. h.s \in Used(stack[c])
      BY <3>2, <3>3, <3>4, TopFrames
    <3>6. h.s \in Streams /\ stream[h.s].life = "open"
      BY <3>5, UsedStreams DEF BytesInv
    <3>7. stream[h.s].fd \in Fds
      BY <3>6 DEF BytesInv, StreamInv, FilesOK
    <3> QED
      BY <3>1, <3>3, <3>7
  <2> QED
    BY <2>1, <2>2 DEF Talks
<1>2. PICK f \in Fds : file[f] = s
  BY <1>1
<1>3. s # NoOne
  BY StreamAssumption
<1> QED
  BY <1>2, <1>3 DEF BytesInv, OwnersOK, Talks

(* Nothing was received or sent, and the end does not go away.             *)
LEMMA PeerFlow ==
  ASSUME NEW s \in Streams, Flow(stream[s], conn[s], taken[s], accepted[s]),
         UNCHANGED <<stream, taken, accepted>>,
         conn'[s].wire = conn[s].wire, conn'[s].sent = conn[s].sent, conn'[s].written = conn[s].written,
         Ended(conn[s]) => Ended(conn'[s]),
         conn'[s].phase # "up" => conn'[s].err = "none" /\ ~ conn'[s].fin,
         stream[s].life \in {"unused", "new"} => conn'[s].phase \in {"none", "backlog"}
  PROVE  NextFlow(s)
BY DEF NextFlow, Flow

LEMMA PeersBytes ==
  ASSUME BytesInv, StreamInv', NEW s \in Streams, Peers(s)
  PROVE  BytesInv'
<1>1. /\ UNCHANGED <<stack, stream, file, reg, taken, accepted>>
      /\ ConnsOK /\ conn \in [Streams -> ConnObjects] /\ conn[s] \in ConnObjects
  BY ConnFields DEF Peers, PeerConnects, PeerAnswers, PeerSends, PeerEnds, PeerReceives, PeerResets,
     Peer, history, BytesInv, StreamInv, TypesOK, ConnsOK
<1>2. Flow(stream[s], conn[s], taken[s], accepted[s])
  BY DEF BytesInv, Flows
<1>3. conn[s].phase # "up" => conn[s].err = "none" /\ ~ conn[s].fin
  BY <1>2 DEF Flow
<1>4. stream[s].life \in {"unused", "new"} => conn[s].phase \in {"none", "backlog"}
  BY <1>2 DEF Flow
<1>5. CASE PeerConnects(s)
  <2>1. PICK phase : phase = "backlog"
    OBVIOUS
  <2>2. conn' = [conn EXCEPT ![s].phase = phase] /\ conn[s].phase = "none"
    BY <1>5, <2>1 DEF PeerConnects
  <2>3. /\ OtherConns(s) /\ conn'[s].phase = "backlog" /\ conn'[s].err = conn[s].err
        /\ conn'[s].wire = conn[s].wire /\ conn'[s].sent = conn[s].sent /\ conn'[s].written = conn[s].written
        /\ conn'[s].fin = conn[s].fin
    BY <1>1, <2>1, <2>2, PhaseFields
  <2>4. NextFlow(s)
    BY <1>1, <1>2, <1>3, <2>2, <2>3, PeerFlow DEF Ended
  <2> QED
    BY <1>1, <2>3, <2>4, PeerBytes DEF Ended
<1>6. CASE PeerAnswers(s)
  <2>1. PICK err \in {"none", "reset"} : conn' = [conn EXCEPT ![s].phase = "up", ![s].err = err]
    BY <1>6 DEF PeerAnswers
  <2>2. conn[s].phase = "connecting"
    BY <1>6 DEF PeerAnswers
  <2>3. PICK m, n : m = [conn[s] EXCEPT !.phase = "up"] /\ n = [m EXCEPT !.err = err]
    OBVIOUS
  <2>4. /\ m \in ConnObjects /\ m.phase = "up" /\ m.wire = conn[s].wire /\ m.sent = conn[s].sent
        /\ m.written = conn[s].written
    BY <1>1, <2>3 DEF ConnObjects
  <2>5. n.phase = "up" /\ n.wire = conn[s].wire /\ n.sent = conn[s].sent /\ n.written = conn[s].written
    BY <2>3, <2>4 DEF ConnObjects
  <2>6. conn' = [conn EXCEPT ![s] = n]
    <3>1. PICK t : t = [conn EXCEPT ![s].phase = "up"]
      OBVIOUS
    <3>2. t = [conn EXCEPT ![s] = m] /\ t[s] = m /\ conn' = [t EXCEPT ![s].err = err]
      BY <1>1, <2>1, <2>3, <3>1
    <3>3. [t EXCEPT ![s].err = err] = [t EXCEPT ![s] = n]
      BY <2>3, <3>2
    <3> QED
      BY <1>1, <3>2, <3>3
  <2>7. OtherConns(s) /\ conn'[s] = n
    BY <1>1, <2>6, ConnSet
  <2>8. ~ Ended(conn[s]) /\ stream[s].life \notin {"unused", "new"}
    BY <1>3, <1>4, <2>2 DEF Ended
  <2>9. NextFlow(s)
    BY <1>1, <1>2, <2>5, <2>7, <2>8, PeerFlow
  <2> QED
    BY <1>1, <2>7, <2>8, <2>9, PeerBytes
<1>7. CASE PeerSends(s)
  <2>1. /\ conn' = [conn EXCEPT ![s].sent = @ + 1, ![s].wire = Append(@, conn[s].sent + 1)]
        /\ ~ conn[s].fin /\ Talks(s) /\ conn[s].sent \in 0 .. MaxSent /\ MaxSent \in Nat /\ conn[s].wire \in Seq(Nat)
        /\ conn[s].sent < MaxSent
    BY <1>1, <1>7, ConnFields, StreamAssumption DEF PeerSends
  <2>2. stream[s].closed = {} /\ conn[s].phase = "up" /\ conn[s].err = "none"
    BY <2>1, TalksOpen
  <2>3. PICK sent \in Nat, wire \in Seq(Nat), w \in Seq(Nat) :
           sent = conn[s].sent /\ wire = conn[s].wire /\ w = Append(wire, sent + 1)
    <3>1. conn[s].sent \in Nat /\ Append(conn[s].wire, conn[s].sent + 1) \in Seq(Nat)
      BY <2>1
    <3> QED
      BY <2>1, <3>1
  <2>4. PICK m, n : m = [conn[s] EXCEPT !.sent = sent + 1] /\ n = [m EXCEPT !.wire = w]
    OBVIOUS
  <2>5. /\ m \in ConnObjects /\ m.sent = sent + 1 /\ m.phase = "up" /\ m.written = conn[s].written
        /\ m.wire = wire /\ m.err = "none" /\ ~ m.fin
    <3>1. sent + 1 \in 0 .. MaxSent
      BY <2>1, <2>3
    <3> QED
      BY <1>1, <2>1, <2>2, <2>3, <2>4, <3>1 DEF ConnObjects
  <2>6. n.sent = sent + 1 /\ n.wire = w /\ n.phase = "up" /\ n.written = conn[s].written
    BY <2>4, <2>5 DEF ConnObjects
  <2>7. conn' = [conn EXCEPT ![s] = n]
    <3>1. PICK t : t = [conn EXCEPT ![s].sent = @ + 1]
      OBVIOUS
    <3>2. t = [conn EXCEPT ![s] = m] /\ t[s] = m
      BY <1>1, <2>3, <2>4, <3>1
    <3>3. conn' = [t EXCEPT ![s].wire = Append(@, conn[s].sent + 1)]
      BY <2>1, <3>1
    <3>4. conn' = [t EXCEPT ![s] = n]
      BY <2>3, <2>4, <2>5, <3>2, <3>3
    <3> QED
      BY <1>1, <3>2, <3>4
  <2>8. OtherConns(s) /\ conn'[s] = n
    BY <1>1, <2>7, ConnSet
  <2>9. ~ Ended(conn[s]) /\ stream[s].life \notin {"unused", "new"}
    BY <1>4, <2>1, <2>2 DEF Ended
  <2>10. Input({}, InOf(stream[s]), w, sent + 1, taken[s])
    <3>1. PICK b \in Buffers, tk \in Seq(Nat) : b = InOf(stream[s]) /\ tk = taken[s]
      BY StreamFields DEF InOf, BytesInv, StreamInv, TypesOK, HistoryOK
    <3>2. Input({}, b, wire, sent, tk)
      BY <1>2, <2>2, <2>3, <3>1 DEF Flow
    <3>3. Input({}, b, Append(wire, sent + 1), sent + 1, tk)
      BY <3>2, InputSent
    <3> QED
      BY <2>3, <3>1, <3>3
  <2>11. NextFlow(s)
    <3>1. PICK x : x = stream[s]
      OBVIOUS
    <3>2. Input(x.closed, InOf(x), n.wire, n.sent, taken[s]) /\ InOf(x).cap > 0 /\ Output(x.out, n.written, accepted[s])
      BY <1>2, <2>2, <2>6, <2>10, <3>1 DEF Flow
    <3>3. ~ (x.status = "EOF" /\ x.closed = {}) /\ x.life \notin {"unused", "new"} /\ (x.life = "gone" => OutDone(x))
      BY <1>2, <2>9, <3>1 DEF Flow
    <3>4. Flow(x, n, taken[s], accepted[s])
      BY <2>6, <3>2, <3>3 DEF Flow
    <3> QED
      BY <1>1, <2>8, <3>1, <3>4 DEF NextFlow
  <2> QED
    BY <1>1, <2>8, <2>9, <2>11, PeerBytes
<1>8. ASSUME NEW n, conn' = [conn EXCEPT ![s] = n], Talks(s), n.wire = conn[s].wire, n.sent = conn[s].sent,
             n.written = conn[s].written, n.phase = conn[s].phase, Ended(conn[s]) => Ended(n)
      PROVE  BytesInv'
  <2>1. OtherConns(s) /\ conn'[s] = n
    BY <1>1, <1>8, ConnSet
  <2>2. conn[s].phase = "up"
    BY <1>8 DEF Talks
  <2>3. NextFlow(s)
    BY <1>1, <1>2, <1>4, <1>8, <2>1, <2>2, PeerFlow
  <2> QED
    BY <1>1, <1>8, <2>1, <2>3, PeerBytes
<1>9. CASE PeerEnds(s)
  <2>1. PICK k : k = [conn[s] EXCEPT !.fin = TRUE]
    OBVIOUS
  <2>2. /\ k.phase = conn[s].phase /\ k.wire = conn[s].wire /\ k.sent = conn[s].sent
        /\ k.written = conn[s].written /\ k.fin
    BY <1>1, <2>1 DEF ConnObjects
  <2>3. conn' = [conn EXCEPT ![s] = k] /\ Talks(s)
    BY <1>9, <2>1 DEF PeerEnds
  <2>4. Ended(conn[s]) => Ended(k)
    BY <2>2 DEF Ended
  <2> QED
    BY <1>8, <2>2, <2>3, <2>4
<1>10. CASE PeerReceives(s)
  <2>1. PICK k : k = [conn[s] EXCEPT !.flight = conn[s].flight - 1]
    OBVIOUS
  <2>2. /\ k.phase = conn[s].phase /\ k.wire = conn[s].wire /\ k.sent = conn[s].sent
        /\ k.written = conn[s].written /\ k.fin = conn[s].fin /\ k.err = conn[s].err
    BY <1>1, <2>1 DEF ConnObjects
  <2>3. conn' = [conn EXCEPT ![s] = k] /\ Talks(s)
    BY <1>1, <1>10, <2>1 DEF PeerReceives
  <2>4. Ended(conn[s]) => Ended(k)
    BY <2>2 DEF Ended
  <2> QED
    BY <1>8, <2>2, <2>3, <2>4
<1>11. CASE PeerResets(s)
  <2>1. PICK err \in {"pipe", "reset"} : err = IF conn[s].fin THEN "pipe" ELSE "reset"
    OBVIOUS
  <2>2. PICK m, n : m = [conn[s] EXCEPT !.err = err] /\ n = [m EXCEPT !.flight = 0]
    OBVIOUS
  <2>3. /\ m \in ConnObjects /\ m.phase = conn[s].phase /\ m.wire = conn[s].wire /\ m.sent = conn[s].sent
        /\ m.written = conn[s].written /\ m.err = err
    BY <1>1, <2>2 DEF ConnObjects
  <2>4. /\ n.phase = conn[s].phase /\ n.wire = conn[s].wire /\ n.sent = conn[s].sent
        /\ n.written = conn[s].written /\ n.err # "none"
    BY <2>2, <2>3 DEF ConnObjects
  <2>5. conn' = [conn EXCEPT ![s] = n] /\ Talks(s)
    <3>1. PICK t : t = [conn EXCEPT ![s].err = err]
      OBVIOUS
    <3>2. t = [conn EXCEPT ![s] = m] /\ t[s] = m /\ conn' = [t EXCEPT ![s].flight = 0]
      BY <1>1, <1>11, <2>1, <2>2, <3>1 DEF PeerResets
    <3>3. [t EXCEPT ![s].flight = 0] = [t EXCEPT ![s] = n]
      BY <2>2, <3>2
    <3> QED
      BY <1>1, <1>11, <3>2, <3>3 DEF PeerResets
  <2>6. Ended(conn[s]) => Ended(n)
    BY <2>4 DEF Ended
  <2> QED
    BY <1>8, <2>4, <2>5, <2>6
<1> QED
  BY <1>5, <1>6, <1>7, <1>9, <1>10, <1>11 DEF Peers

-----------------------------------------------------------------------------
(* All together.                                                           *)
LEMMA BytesInit ==
  ASSUME Init
  PROVE  BytesInv
<1>1. StreamInv
  BY StreamInit
<1>2. PICK use : stream = [s \in Streams |-> [NewStream EXCEPT !.life = IF s \in use THEN "new" ELSE "unused"]]
  BY DEF Init
<1>3. PICK b \in Buffers : b = Buffer(Capacity) /\ b.cap = Capacity /\ Bytes(b) = << >> /\ Size(b) = 0 /\ b.cap > 0
  <2>1. Capacity \in Nat /\ Capacity > 0
    BY StreamAssumption
  <2> QED
    BY <2>1, BufferNew, BufferBytes
<1>4. << >> \o << >> = << >> /\ Count(0) = << >>
  <2>1. Len(Count(0)) = 0 /\ Count(0) \in Seq(Nat)
    BY CountNext
  <2> QED
    BY <2>1, EmptySeq
<1>5. ASSUME NEW s \in Streams
      PROVE  /\ Flow(stream[s], conn[s], taken[s], accepted[s])
             /\ stream[s].closed = {} /\ stream[s].tmp = << >> /\ stream[s].life # "open"
  <2>1. PICK life \in {"new", "unused"} : life = IF s \in use THEN "new" ELSE "unused"
    OBVIOUS
  <2>2. PICK x : x = [life |-> life, fd |-> 0, status |-> "OK", in |-> b, out |-> b, tmp |-> << >>, closed |-> {}]
    OBVIOUS
  <2>3. stream[s] = x
    BY <1>2, <1>3, <2>1, <2>2 DEF NewStream
  <2>4. /\ x.life = life /\ x.status = "OK" /\ x.in = b /\ x.out = b /\ x.tmp = << >> /\ x.closed = {}
    BY <2>2
  <2>5. PICK k : k = conn[s] /\ k.wire = << >> /\ k.sent = 0 /\ ~ k.fin /\ k.err = "none" /\ k.phase = "none"
                 /\ k.written = << >>
    <3>1. PICK k : k = [phase |-> "none", wire |-> << >>, sent |-> 0, fin |-> FALSE, err |-> "none",
                        shut |-> FALSE, written |-> << >>, flight |-> 0]
      OBVIOUS
    <3>2. conn[s] = k
      BY <3>1 DEF Init, NewConn
    <3> QED
      BY <3>1, <3>2
  <2>6. taken[s] = << >> /\ accepted[s] = << >>
    BY DEF Init
  <2>7. InOf(x) = b
    BY <2>4 DEF InOf
  <2>8. Input({}, b, << >>, 0, << >>)
    BY <1>3, <1>4 DEF Input
  <2>9. Output(b, << >>, << >>)
    BY <1>3, <1>4 DEF Output
  <2>10. Flow(x, k, << >>, << >>)
    BY <1>3, <2>1, <2>4, <2>5, <2>7, <2>8, <2>9 DEF Flow
  <2> QED
    BY <2>1, <2>3, <2>4, <2>5, <2>6, <2>10
<1>6. Flows
  BY <1>5 DEF Flows
<1>7. OwnersOK
  BY <1>5 DEF Init, OwnersOK
<1>8. TmpsOK /\ RunsOK
  BY <1>5 DEF Init, TmpsOK, RunsOK, RunOK
<1> QED
  BY <1>1, <1>6, <1>7, <1>8 DEF BytesInv

LEMMA BytesNext ==
  ASSUME SingleBytes, BytesInv, OwnFiles, [Next]_vars
  PROVE  BytesInv'
<1>1. StreamInv'
  BY StreamNext DEF BytesInv
<1>2. ASSUME NEW c \in Coro, Step(c)
      PROVE  BytesInv'
  <2>1. CASE ReadAgain(c) \/ GetFails(c) \/ PeekEnd(c) \/ ScanEnd(c) \/ ReadMore(c) \/ PutStart(c)
             \/ Pipe(c) \/ End(c) \/ Close(c) \/ Get(c) \/ Scan(c) \/ PutAll(c) \/ Destroy(c)
    BY <1>1, <2>1, PlainBytes
  <2>2. CASE ReadStart(c) \/ WriteStart(c)
    <3>1. PICK do \in {"read", "write"}, on \in {"in", "out"} : Doing(c, do, "start") /\ Begin(c, on)
      BY <2>2 DEF ReadStart, WriteStart
    <3> QED
      BY <1>1, <3>1, BeginBytes
  <2>3. CASE ReadGo(c)
    BY <1>1, <2>3, ReadGoBytes
  <2>4. CASE WriteGo(c)
    BY <1>1, <2>4, WriteGoBytes
  <2>5. CASE Fill(c)
    BY <1>1, <2>5, FillBytes
  <2>6. CASE FillEnd(c)
    BY <1>1, <2>6, FillEndBytes
  <2>7. CASE GetTakes(c)
    BY <1>1, <2>7, GetTakesBytes
  <2>8. CASE Peek(c)
    BY <1>1, <2>8, PeekBytes
  <2>9. CASE ReadAll(c)
    BY <1>1, <2>9, ReadAllBytes
  <2>10. CASE ReadAllEnd(c)
    BY <1>1, <2>10, ReadAllEndBytes
  <2>11. CASE Flush(c)
    BY <1>1, <2>11, FlushBytes
  <2>12. CASE PutEnd(c)
    BY <1>1, <2>12, PutEndBytes
  <2>13. CASE PipeNext(c)
    BY <1>1, <2>13, PipeNextBytes
  <2>14. CASE EndShuts(c)
    BY <1>1, <2>14, EndShutsBytes
  <2>15. CASE CloseEnd(c)
    BY <1>1, <2>15, CloseEndBytes
  <2>16. CASE DestroyEnd(c)
    BY <1>1, <2>16, DestroyEndBytes
  <2>17. CASE Connected(c)
    BY <1>1, <2>17, ConnectedBytes
  <2>18. CASE \E s \in Streams : Accepted(c, s)
    BY <1>1, <2>18, AcceptedBytes
  <2> QED
    BY <1>2, <2>1, <2>2, <2>3, <2>4, <2>5, <2>6, <2>7, <2>8, <2>9, <2>10, <2>11, <2>12, <2>13, <2>14,
       <2>15, <2>16, <2>17, <2>18 DEF Step
<1>3. ASSUME NEW c \in Coro, Program(c)
      PROVE  BytesInv'
  <2>1. CASE Accept(c)
    BY <1>1, <2>1, AcceptBytes
  <2>2. CASE Leave(c)
    BY <1>1, <2>2, StillBytes DEF Leave, kernel, history
  <2>3. CASE \E s \in Streams : OpenFile(c, s) \/ Connect(c, s)
    BY <1>1, <2>3, OpenFileBytes, ConnectBytes
  <2>4. CASE \E s \in Streams : \E op \in Ops[c] \ {<<"pipe", 0>>} : Calls(c, s, op)
    BY <1>1, <2>4, CallsBytes
  <2>5. CASE \E s, t \in Streams : Pipes(c, s, t)
    BY <1>1, <2>5, PipesBytes
  <2> QED
    BY <1>3, <2>1, <2>2, <2>3, <2>4, <2>5 DEF Program
<1>4. ASSUME Stop \/ UNCHANGED vars
      PROVE  BytesInv'
  BY <1>1, <1>4, StillBytes DEF Stop, vars
<1> QED
  BY <1>1, <1>2, <1>3, <1>4, PollBytes, PeersBytes DEF Next, Up

LEMMA BytesFollow ==
  ASSUME BytesInv
  PROVE  BytesInOrder /\ EofAfterLastByte
<1> SUFFICES ASSUME NEW s \in Streams
             PROVE  /\ IF IsClosed(s) THEN IsPrefix(taken[s], Count(conn[s].sent))
                       ELSE taken[s] \o Bytes(Into(s)) \o conn[s].wire = Count(conn[s].sent)
                    /\ conn[s].written \o Bytes(stream[s].out) = accepted[s]
                    /\ stream[s].life = "gone" /\ stream[s].status # "ERROR" => Size(stream[s].out) = 0
                    /\ stream[s].status = "EOF" /\ ~IsClosed(s) =>
                          /\ taken[s] \o Bytes(Into(s)) = Count(conn[s].sent) /\ Size(stream[s].in) = 0
                          /\ conn[s].fin \/ conn[s].err # "none"
  BY DEF BytesInOrder, EofAfterLastByte
<1>1. Flow(stream[s], conn[s], taken[s], accepted[s])
  BY DEF BytesInv, Flows
<1>2. StreamsOK /\ ConnsOK /\ HistoryOK
  BY DEF BytesInv, StreamInv, TypesOK
<1>3. IsClosed(s) <=> stream[s].closed # {}
  BY DEF BytesInv, OwnersOK, IsClosed
<1>4. PICK b \in Buffers : b = Into(s) /\ b = InOf(stream[s])
  BY <1>2, StreamFields DEF Into, InOf
<1>5. PICK tk \in Seq(Nat), sent \in Nat, x \in Seq(Nat) : tk = taken[s] /\ sent = conn[s].sent /\ x = Bytes(b)
  <2>1. taken[s] \in Seq(Nat) /\ conn[s].sent \in Nat
    BY <1>2, ConnFields DEF HistoryOK
  <2>2. Bytes(b) \in Seq(Nat)
    BY BufferBytes
  <2> QED
    BY <2>1, <2>2
<1>6. Input(stream[s].closed, b, conn[s].wire, sent, tk)
  BY <1>1, <1>4, <1>5 DEF Flow
<1>7. ASSUME IsClosed(s) PROVE IsPrefix(tk, Count(sent))
  <2>1. PICK rest \in Seq(Nat) : tk \o rest = Count(sent)
    BY <1>3, <1>6, <1>7 DEF Input, Begins
  <2>2. PICK all \in Seq(Nat) : all = tk \o rest
    BY ConcatProperties
  <2>3. /\ Len(all) = Len(tk) + Len(rest) /\ Len(tk) \in Nat /\ Len(rest) \in Nat
        /\ \A i \in 1 .. Len(tk) : all[i] = tk[i]
    <3>1. /\ Len(tk \o rest) = Len(tk) + Len(rest) /\ Len(tk) \in Nat /\ Len(rest) \in Nat
          /\ \A i \in 1 .. Len(tk) + Len(rest) :
                (tk \o rest)[i] = IF i <= Len(tk) THEN tk[i] ELSE rest[i - Len(tk)]
      BY ConcatProperties
    <3> QED
      BY <2>2, <3>1
  <2>4. PICK n \in Nat : n = Len(tk) /\ n \in 0 .. Len(tk) /\ n \in 0 .. Len(all)
    <3>1. Len(tk) \in 0 .. Len(tk) /\ Len(tk) \in 0 .. Len(all) /\ Len(tk) \in Nat
      BY <2>3
    <3> QED
      BY <3>1
  <2>5. PICK u, v : u = SubSeq(tk, 1, n) /\ v = SubSeq(all, 1, n)
    OBVIOUS
  <2>6. /\ u \in Seq(Nat) /\ Len(u) = n /\ \A i \in 1 .. n : u[i] = tk[i]
        /\ v \in Seq(Nat) /\ Len(v) = n /\ \A i \in 1 .. n : v[i] = all[i]
    BY <2>4, <2>5, Prefix
  <2>7. u = v
    BY <2>3, <2>4, <2>6, SeqEqual
  <2> QED
    BY <2>1, <2>2, <2>3, <2>4, <2>5, <2>7 DEF IsPrefix
<1>8. ASSUME ~ IsClosed(s) PROVE tk \o x \o conn[s].wire = Count(sent)
  BY <1>3, <1>5, <1>6, <1>8 DEF Input
<1>9. conn[s].written \o Bytes(stream[s].out) = accepted[s]
  BY <1>1 DEF Flow, Output
<1>10. stream[s].life = "gone" /\ stream[s].status # "ERROR" => Size(stream[s].out) = 0
  BY <1>1 DEF Flow, OutDone
<1>11. ASSUME stream[s].status = "EOF", ~IsClosed(s)
       PROVE  tk \o x = Count(sent) /\ Size(stream[s].in) = 0 /\ (conn[s].fin \/ conn[s].err # "none")
  <2>1. Ended(conn[s]) /\ Size(stream[s].in) = 0
    BY <1>1, <1>3, <1>11 DEF Flow
  <2>2. conn[s].wire = << >> /\ (conn[s].fin \/ conn[s].err # "none")
    BY <2>1 DEF Ended
  <2>3. (tk \o x) \o << >> = tk \o x
    <3>1. tk \o x \in Seq(Nat)
      BY ConcatProperties
    <3> QED
      BY <3>1, ConcatEmptySeq
  <2> QED
    BY <1>8, <1>11, <2>1, <2>2, <2>3
<1> QED
  BY <1>4, <1>5, <1>7, <1>8, <1>9, <1>10, <1>11

-----------------------------------------------------------------------------
(* Where programs leave close() to the destructor of a stream, a closed    *)
(* object is never used: the destructor frees it before anything else.     *)
(* The frame below a close() is a destroy() that waits for it (ClosesOK),  *)
(* so a closed object that is still there belongs to the destroy() that    *)
(* runs now (DyingOK).                                                     *)
NoClose == \A c \in Coro : \A op \in Ops[c] : op[1] # "close"

Closes(st) == \A i \in 1 .. Len(st) : st[i].do = "close" => i < Len(st) /\ st[i + 1].at = "closed"
ClosesOK == \A c \in Coro : Closes(stack[c])
Dying(s) == stream[s].life = "open" /\ stream[s].closed # {}
Destroyed(s) == \E c \in Coro : Doing(c, "destroy", "closed") /\ S(c) = s
DyingOK == \A s \in Streams : Dying(s) => file[stream[s].fd] = NoOne /\ Destroyed(s)
OwnInv == BytesInv /\ ClosesOK /\ DyingOK

(* What is pushed and popped keeps the frame below a close().              *)
LEMMA ClosesTail ==
  ASSUME NEW st \in Seq(Frames), st # << >>, Closes(st)
  PROVE  /\ Tail(st) \in Seq(Frames) /\ Closes(Tail(st))
         /\ Head(st).do = "close" => Tail(st) # << >> /\ Head(Tail(st)).at = "closed"
<1>1. /\ Len(st) \in Nat /\ Len(st) >= 1 /\ Head(st) = st[1]
      /\ Tail(st) \in Seq(Frames) /\ Len(Tail(st)) = Len(st) - 1
      /\ \A i \in 1 .. Len(st) - 1 : Tail(st)[i] = st[i + 1]
  BY EmptySeq, HeadTailProperties
<1>2. PICK rest \in Seq(Frames) : rest = Tail(st)
  BY <1>1
<1>3. Closes(rest)
  <2> SUFFICES ASSUME NEW i \in 1 .. Len(rest), rest[i].do = "close"
               PROVE  i < Len(rest) /\ rest[i + 1].at = "closed"
    BY DEF Closes
  <2>1. i + 1 \in 1 .. Len(st) /\ rest[i] = st[i + 1]
    BY <1>1, <1>2
  <2>2. i + 1 < Len(st) /\ st[i + 1 + 1].at = "closed"
    BY <2>1 DEF Closes
  <2>3. i + 1 \in 1 .. Len(st) - 1
    BY <1>1, <2>1, <2>2
  <2> QED
    BY <1>1, <1>2, <2>2, <2>3
<1>4. ASSUME st[1].do = "close" PROVE rest # << >> /\ Head(rest).at = "closed"
  <2>1. 1 < Len(st) /\ st[1 + 1].at = "closed"
    BY <1>1, <1>4 DEF Closes
  <2>2. Len(rest) >= 1 /\ rest[1] = st[1 + 1]
    BY <1>1, <1>2, <2>1
  <2>3. rest # << >> /\ Head(rest) = rest[1]
    BY <2>2, EmptySeq
  <2> QED
    BY <2>1, <2>2, <2>3
<1> QED
  BY <1>1, <1>2, <1>3, <1>4

LEMMA ClosesPush ==
  ASSUME NEW T, NEW low \in Seq(T), Closes(low), NEW f \in T,
         f.do = "close" => low # << >> /\ Head(low).at = "closed"
  PROVE  <<f>> \o low \in Seq(T) /\ Closes(<<f>> \o low) /\ <<f>> \o low # << >> /\ Head(<<f>> \o low) = f
<1>1. <<f>> \in Seq(T) /\ Len(<<f>>) = 1 /\ <<f>>[1] = f
  OBVIOUS
<1>2. PICK st : st = <<f>> \o low
  OBVIOUS
<1>3. /\ st \in Seq(T) /\ Len(st) = 1 + Len(low) /\ Len(low) \in Nat
      /\ \A i \in 1 .. 1 + Len(low) : st[i] = IF i <= 1 THEN f ELSE low[i - 1]
  <2>1. PICK x \in Seq(T) : x = <<f>> /\ Len(x) = 1 /\ x[1] = f
    BY <1>1
  <2>2. /\ x \o low \in Seq(T) /\ Len(x \o low) = Len(x) + Len(low) /\ Len(low) \in Nat
        /\ \A i \in 1 .. Len(x) + Len(low) : (x \o low)[i] = IF i <= Len(x) THEN x[i] ELSE low[i - Len(x)]
    BY ConcatProperties, LenProperties
  <2>3. \A i \in 1 .. 1 + Len(low) : i <= 1 => i = 1
    BY <2>2
  <2> QED
    BY <1>2, <2>1, <2>2, <2>3
<1>4. st[1] = f /\ st # << >> /\ Head(st) = f
  BY <1>3, EmptySeq
<1>5. ASSUME NEW i \in 1 .. Len(st), st[i].do = "close" PROVE i < Len(st) /\ st[i + 1].at = "closed"
  <2>1. CASE i = 1
    <3>1. low # << >> /\ Head(low).at = "closed"
      BY <1>4, <1>5, <2>1
    <3>2. Len(low) >= 1 /\ Head(low) = low[1]
      BY <1>3, <3>1, EmptySeq
    <3>3. st[2] = low[1]
      BY <1>3, <3>2
    <3> QED
      BY <1>3, <2>1, <3>1, <3>2, <3>3
  <2>2. CASE i # 1
    <3>1. PICK j \in 1 .. Len(low) : i = j + 1
      BY <1>3, <1>5, <2>2
    <3>2. st[i] = low[j]
      BY <1>3, <1>5, <3>1
    <3>3. j < Len(low) /\ low[j + 1].at = "closed"
      BY <1>5, <3>2 DEF Closes
    <3>4. i + 1 \in 1 .. 1 + Len(low) /\ ~ (i + 1 <= 1) /\ i + 1 - 1 = j + 1
      BY <1>3, <3>1, <3>3
    <3>5. st[i + 1] = low[j + 1]
      BY <1>3, <3>4
    <3> QED
      BY <1>3, <3>1, <3>3, <3>5
  <2> QED
    BY <2>1, <2>2
<1>6. Closes(st)
  BY <1>5 DEF Closes
<1> QED
  BY <1>2, <1>3, <1>4, <1>6

(* No move of a stack leaves a close() alone, but a first call.            *)
LEMMA Wider == ASSUME NEW T, NEW U, T \subseteq U, NEW st \in Seq(T) PROVE st \in Seq(U)
  OBVIOUS

LEMMA GotoCloses ==
  ASSUME StreamInv, ClosesOK, NEW c \in Coro, stack[c] # << >>, NEW at, Goto(c, at)
  PROVE  ClosesOK'
<1>1. stack \in [Coro -> Seq(Frames)]
  BY DEF StreamInv, TypesOK
<1>2. PICK low \in Seq(Frames), h \in Frames :
         /\ low = Tail(stack[c]) /\ h = Head(stack[c]) /\ Closes(low)
         /\ h.do = "close" => low # << >> /\ Head(low).at = "closed"
  BY <1>1, ClosesTail, EmptySeq, HeadTailProperties DEF ClosesOK
<1>3. PICK g : g = [h EXCEPT !.at = at]
  OBVIOUS
<1>4. g.do = h.do
  BY <1>2, <1>3 DEF Frames
<1>5. PICK T : T = Frames \cup {g}
  OBVIOUS
<1>6. low \in Seq(T) /\ g \in T
  BY <1>2, <1>5, Wider
<1>7. Closes(<<g>> \o low)
  BY <1>2, <1>4, <1>6, ClosesPush
<1>8. stack' = [stack EXCEPT ![c] = <<g>> \o low]
  BY <1>1, <1>2, <1>3 DEF Goto
<1> QED
  BY <1>1, <1>7, <1>8 DEF ClosesOK

LEMMA ReturnCloses ==
  ASSUME StreamInv, ClosesOK, NEW c \in Coro, stack[c] # << >>, Return(c)
  PROVE  ClosesOK'
<1>1. stack \in [Coro -> Seq(Frames)]
  BY DEF StreamInv, TypesOK
<1>2. Closes(Tail(stack[c]))
  BY <1>1, ClosesTail DEF ClosesOK
<1>3. PICK low : low = Tail(stack[c])
  OBVIOUS
<1>4. stack' = [stack EXCEPT ![c] = low]
  BY <1>3 DEF Return
<1> QED
  BY <1>1, <1>2, <1>3, <1>4 DEF ClosesOK

LEMMA CallCloses ==
  ASSUME StreamInv, ClosesOK, NEW c \in Coro, stack[c] # << >>, NEW f, NEW at, NEW n, CallWith(c, f, at, n),
         f.do = "close" => at = "closed"
  PROVE  ClosesOK'
<1>1. stack \in [Coro -> Seq(Frames)]
  BY DEF StreamInv, TypesOK
<1>2. PICK low \in Seq(Frames), h \in Frames :
         /\ low = Tail(stack[c]) /\ h = Head(stack[c]) /\ Closes(low)
         /\ h.do = "close" => low # << >> /\ Head(low).at = "closed"
  BY <1>1, ClosesTail, EmptySeq, HeadTailProperties DEF ClosesOK
<1>3. PICK g : g = [h EXCEPT !.at = at, !.n = n]
  OBVIOUS
<1>4. g.do = h.do /\ g.at = at
  <2>1. PICK m : m = [h EXCEPT !.at = at]
    OBVIOUS
  <2>2. m = [do |-> h.do, s |-> h.s, n |-> h.n, at |-> at]
    BY <1>2, <2>1 DEF Frames
  <2>3. g = [do |-> h.do, s |-> h.s, n |-> n, at |-> at]
    BY <1>3, <2>1, <2>2
  <2> QED
    BY <2>3
<1>5. PICK T : T = Frames \cup {f, g}
  OBVIOUS
<1>6. low \in Seq(T) /\ g \in T /\ f \in T
  BY <1>2, <1>5, Wider
<1>7. PICK mid : mid = <<g>> \o low
  OBVIOUS
<1>8. mid \in Seq(T) /\ Closes(mid) /\ mid # << >> /\ Head(mid) = g
  BY <1>2, <1>4, <1>6, <1>7, ClosesPush
<1>9. Closes(<<f>> \o mid)
  BY <1>4, <1>6, <1>8, ClosesPush
<1>10. <<f, g>> \o low = <<f>> \o mid
  <2>0. <<f>> \in Seq(T) /\ <<g>> \in Seq(T) /\ <<f, g>> \in Seq(T)
    BY <1>6
  <2>1. PICK x \in Seq(T), y \in Seq(T), z \in Seq(T) : x = <<f>> /\ y = <<g>> /\ z = <<f, g>>
    BY <2>0
  <2>2. Len(x) = 1 /\ Len(y) = 1 /\ Len(z) = 2 /\ x[1] = f /\ y[1] = g /\ z[1] = f /\ z[2] = g
    BY <2>1
  <2>3. /\ x \o y \in Seq(T) /\ Len(x \o y) = Len(x) + Len(y)
        /\ \A i \in 1 .. Len(x) + Len(y) : (x \o y)[i] = IF i <= Len(x) THEN x[i] ELSE y[i - Len(x)]
    BY ConcatProperties
  <2>4. (x \o y)[1] = f /\ (x \o y)[2] = g
    BY <2>2, <2>3
  <2>5. ASSUME NEW i \in 1 .. 2 PROVE (x \o y)[i] = z[i]
    <3>1. i = 1 \/ i = 2
      OBVIOUS
    <3> QED
      BY <2>2, <2>4, <3>1
  <2>6. x \o y = z
    BY <2>2, <2>3, <2>5, SeqEqual
  <2>7. (x \o y) \o low = x \o (y \o low)
    BY <1>6, ConcatAssociative
  <2> QED
    BY <1>7, <2>1, <2>6, <2>7
<1>11. stack' = [stack EXCEPT ![c] = <<f, g>> \o low]
  BY <1>1, <1>2, <1>3 DEF CallWith
<1> QED
  BY <1>1, <1>9, <1>10, <1>11 DEF ClosesOK

LEMMA FirstCloses ==
  ASSUME StreamInv, ClosesOK, NEW c \in Coro, NEW f, f.do # "close", stack' = [stack EXCEPT ![c] = <<f>>]
  PROVE  ClosesOK'
<1>1. Closes(<<f>>)
  BY DEF Closes
<1> QED
  BY <1>1 DEF StreamInv, TypesOK, ClosesOK

Moves(c) ==
    /\ stack[c] # << >>
    /\ \/ UNCHANGED stack \/ Return(c) \/ \E at : Goto(c, at)
       \/ \E f, at, n : CallWith(c, f, at, n) /\ (f.do = "close" => at = "closed")

LEMMA CallMoves ==
  ASSUME NEW c, stack[c] # << >>, NEW do, NEW s, NEW m, NEW at, Call(c, Frame(do, s, m), at),
         do = "close" => at = "closed"
  PROVE  Moves(c)
<1>1. PICK f, n : f = Frame(do, s, m) /\ n = N(c)
  OBVIOUS
<1>2. CallWith(c, f, at, n) /\ f.do = do
  BY <1>1 DEF Call, Frame
<1> QED
  BY <1>2, Zenon DEF Moves

LEMMA MovesClose ==
  ASSUME StreamInv, ClosesOK, NEW c \in Coro, Moves(c)
  PROVE  ClosesOK'
<1>1. UNCHANGED stack => ClosesOK'
  BY DEF ClosesOK
<1> QED
  BY <1>1, GotoCloses, ReturnCloses, CallCloses, Zenon DEF Moves

LEMMA StepMoves ==
  ASSUME NEW c \in Coro, Step(c)
  PROVE  Moves(c)
<1>1. CASE ReadAgain(c) \/ GetFails(c) \/ GetTakes(c) \/ PeekEnd(c) \/ FillEnd(c) \/ ReadAllEnd(c) \/ PutEnd(c) \/ ReadGo(c)
  BY <1>1, Zenon DEF ReadAgain, GetFails, GetTakes, PeekEnd, FillEnd, ReadAllEnd, PutEnd, ReadGo, Doing, Moves
<1>2. CASE EndShuts(c) \/ CloseEnd(c) \/ DestroyEnd(c) \/ Connected(c) \/ \E s \in Streams : Accepted(c, s)
  BY <1>2, Zenon DEF EndShuts, CloseEnd, DestroyEnd, Connected, Accepted, Doing, Moves
<1>3. CASE ScanEnd(c) \/ ReadMore(c)
  BY <1>3, Zenon DEF ScanEnd, ReadMore, Doing, Moves
<1>4. ASSUME ReadStart(c) \/ WriteStart(c) PROVE Moves(c)
  <2>1. stack[c] # << >> /\ (Begin(c, "in") \/ Begin(c, "out"))
    BY <1>4, Zenon DEF ReadStart, WriteStart, Doing
  <2> QED
    BY <2>1, Zenon DEF Begin, Register, Wait, Moves
<1>5. CASE WriteGo(c)
  <2>1. stack[c] # << >>
    BY <1>5 DEF WriteGo, Doing
  <2>2. Return(c) \/ UNCHANGED stack
    BY <1>5, Zenon DEF WriteGo, WriteBytes, WriteError, SigPipe, WriteClosed
  <2> QED
    BY <2>1, <2>2, Zenon DEF Moves
<1>6. CASE Fill(c)
  <2>1. stack[c] # << >> /\ (Return(c) \/ Call(c, Frame("read", S(c), 0), "filled"))
    BY <1>6, Zenon DEF Fill, Doing
  <2> QED
    BY <2>1, CallMoves, Zenon DEF Moves
<1>7. CASE Get(c) \/ Scan(c)
  BY <1>7, CallMoves DEF Get, Scan, Doing
<1>8. CASE Peek(c)
  <2>1. stack[c] # << >> /\ (Goto(c, "peeked") \/ Call(c, Frame("read", S(c), 0), "peeked"))
    BY <1>8, Zenon DEF Peek, Doing
  <2> QED
    BY <2>1, CallMoves, Zenon DEF Moves
<1>9. CASE ReadAll(c)
  <2>1. PICK f, n : CallWith(c, f, "more", n) /\ f = Frame("read", S(c), 0)
    BY <1>9 DEF ReadAll
  <2>2. f.do # "close" /\ stack[c] # << >>
    BY <1>9, <2>1 DEF Frame, ReadAll, Doing
  <2> QED
    BY <2>1, <2>2, Zenon DEF Moves
<1>10. CASE Flush(c)
  <2>1. stack[c] # << >> /\ (Return(c) \/ Call(c, Frame("write", S(c), S(c)), "start"))
    BY <1>10 DEF Flush, Doing
  <2> QED
    BY <2>1, CallMoves, Zenon DEF Moves
<1>11. CASE PutStart(c)
  <2>1. stack[c] # << >> /\ (Goto(c, "emptied") \/ Call(c, Frame("flush", S(c), 0), "emptied"))
    BY <1>11, Zenon DEF PutStart, Doing
  <2> QED
    BY <2>1, CallMoves, Zenon DEF Moves
<1>12. CASE PutAll(c)
  <2>1. stack[c] # << >> /\ (Return(c) \/ CallWith(c, Frame("put", S(c), 1), "start", N(c) - 1))
    BY <1>12, Zenon DEF PutAll, Doing
  <2>2. PICK f, n : f = Frame("put", S(c), 1) /\ n = N(c) - 1
    OBVIOUS
  <2>3. f.do # "close"
    BY <2>2 DEF Frame
  <2> QED
    BY <2>1, <2>2, <2>3, Zenon DEF Moves
<1>13. CASE Pipe(c) \/ End(c) \/ Close(c)
  BY <1>13, CallMoves DEF Pipe, End, Close, Doing
<1>14. CASE PipeNext(c)
  <2>1. /\ stack[c] # << >>
        /\ Return(c) \/ Call(c, Frame("write", S(c), N(c)), "next") \/ Call(c, Frame("read", N(c), 0), "next")
    BY <1>14 DEF PipeNext, Doing
  <2> QED
    BY <2>1, CallMoves, Zenon DEF Moves
<1>15. CASE Destroy(c)
  BY <1>15, CallMoves DEF Destroy, Doing
<1> QED
  BY <1>1, <1>2, <1>3, <1>4, <1>5, <1>6, <1>7, <1>8, <1>9, <1>10, <1>11, <1>12, <1>13, <1>14, <1>15 DEF Step

LEMMA NextCloses ==
  ASSUME StreamInv, ClosesOK, NoClose, [Next]_vars
  PROVE  ClosesOK'
<1>1. ASSUME UNCHANGED stack PROVE ClosesOK'
  BY <1>1 DEF ClosesOK
<1>2. ASSUME NEW c \in Coro, Step(c) PROVE ClosesOK'
  BY <1>2, StepMoves, MovesClose
<1>3. ASSUME NEW c \in Coro, Program(c) PROVE ClosesOK'
  <2>1. CASE Accept(c)
    <3>1. PICK f : f = [Frame("accept", NoOne, 0) EXCEPT !.at = "wait"]
      OBVIOUS
    <3>2. f.do # "close" /\ stack' = [stack EXCEPT ![c] = <<f>>]
      BY <2>1, <3>1 DEF Accept, Frame
    <3> QED
      BY <3>2, FirstCloses
  <2>2. CASE Leave(c)
    BY <1>1, <2>2 DEF Leave
  <2>3. CASE \E s \in Streams : OpenFile(c, s)
    BY <1>1, <2>3 DEF OpenFile
  <2>4. ASSUME NEW s \in Streams, Connect(c, s) PROVE ClosesOK'
    <3>1. PICK f : f = [Frame("connect", s, 0) EXCEPT !.at = "wait"]
      OBVIOUS
    <3>2. f.do # "close" /\ stack' = [stack EXCEPT ![c] = <<f>>]
      BY <2>4, <3>1 DEF Connect, Frame
    <3> QED
      BY <3>2, FirstCloses
  <2>5. ASSUME NEW s \in Streams, NEW op \in Ops[c], Calls(c, s, op) PROVE ClosesOK'
    <3>1. PICK f : f = Frame(op[1], s, op[2])
      OBVIOUS
    <3>2. f.do # "close" /\ stack' = [stack EXCEPT ![c] = <<f>>]
      BY <2>5, <3>1 DEF Calls, Frame, NoClose
    <3> QED
      BY <3>2, FirstCloses
  <2>6. ASSUME NEW s \in Streams, NEW t \in Streams, Pipes(c, s, t) PROVE ClosesOK'
    <3>1. PICK f : f = Frame("pipe", s, t)
      OBVIOUS
    <3>2. f.do # "close" /\ stack' = [stack EXCEPT ![c] = <<f>>]
      BY <2>6, <3>1 DEF Pipes, Frame
    <3> QED
      BY <3>2, FirstCloses
  <2> QED
    BY <1>3, <2>1, <2>2, <2>3, <2>4, <2>5, <2>6, Zenon DEF Program
<1>4. ASSUME NEW f \in Fds \cup {0}, Poll(f) PROVE ClosesOK'
  <2>1. CASE reg[f].who = NoOne
    BY <1>1, <1>4, <2>1 DEF Poll
  <2>2. CASE reg[f].who # NoOne
    <3>1. PICK c : c = reg[f].who
      OBVIOUS
    <3>2. Goto(c, "go") /\ reg[f].on \in {"none", "in", "out"}
      BY <1>4, <2>2, <3>1 DEF Poll, Ready
    <3>3. c \in Coro /\ stack[c] # << >>
      BY <1>4, <2>2, <3>1, <3>2 DEF StreamInv, WaitsOK, Armed, Suspended
    <3> QED
      BY <3>2, <3>3, GotoCloses
  <2> QED
    BY <2>1, <2>2
<1>5. ASSUME NEW s \in Streams, Peers(s) PROVE ClosesOK'
  BY <1>1, <1>5 DEF Peers, PeerConnects, PeerAnswers, PeerSends, PeerEnds, PeerReceives, PeerResets, Peer
<1>6. ASSUME Stop \/ UNCHANGED vars PROVE ClosesOK'
  BY <1>1, <1>6 DEF Stop, vars
<1> QED
  BY <1>2, <1>3, <1>4, <1>5, <1>6, Zenon DEF Next, Up

(* What a step makes of the streams: nobody else is opened or closed.      *)
Kept == \A s \in Streams : stream'[s].life = stream[s].life /\ stream'[s].fd = stream[s].fd /\ stream'[s].closed = stream[s].closed

LEMMA KeptField ==
  ASSUME StreamsOK, NEW s \in Streams, NEW b,
         \/ stream' = [stream EXCEPT ![s].in = b]
         \/ stream' = [stream EXCEPT ![s].out = b]
         \/ stream' = [stream EXCEPT ![s].tmp = b]
         \/ stream' = [stream EXCEPT ![s].status = b]
  PROVE  Kept
<1>1. stream \in [Streams -> StreamObjects] /\ stream[s] \in StreamObjects
  BY DEF StreamsOK
<1>2. PICK m : /\ m = [stream[s] EXCEPT !.in = b] \/ m = [stream[s] EXCEPT !.out = b]
                  \/ m = [stream[s] EXCEPT !.tmp = b] \/ m = [stream[s] EXCEPT !.status = b]
               /\ stream' = [stream EXCEPT ![s] = m]
  BY <1>1
<1>3. m.life = stream[s].life /\ m.fd = stream[s].fd /\ m.closed = stream[s].closed
  BY <1>1, <1>2 DEF StreamObjects
<1> QED
  BY <1>1, <1>2, <1>3 DEF Kept

LEMMA StepKeeps ==
  ASSUME StreamInv, NEW c \in Coro, Step(c), ~ CloseEnd(c), ~ DestroyEnd(c), \A s \in Streams : ~ Accepted(c, s)
  PROVE  Kept
<1>0. StreamsOK
  BY DEF StreamInv, TypesOK
<1>1. ASSUME UNCHANGED stream PROVE Kept
  BY <1>1 DEF Kept
<1>2. ASSUME NEW do, NEW at, Doing(c, do, at), do # "accept"
      PROVE  S(c) \in Streams /\ (do = "pipe" \/ do = "write" => N(c) \in Streams)
  <2>1. PICK h \in Frames : Active(c, h, do, at)
    BY <1>2, Running
  <2> QED
    BY <1>2, <2>1 DEF Active, StreamsOf
<1>3. CASE ReadAgain(c) \/ GetFails(c) \/ PeekEnd(c) \/ ScanEnd(c) \/ ReadMore(c) \/ PutStart(c)
           \/ Pipe(c) \/ End(c) \/ Close(c) \/ Get(c) \/ Scan(c) \/ PutAll(c) \/ Destroy(c) \/ EndShuts(c)
  BY <1>1, <1>3, Zenon DEF ReadAgain, GetFails, PeekEnd, ScanEnd, ReadMore, PutStart,
     Pipe, End, Close, Get, Scan, PutAll, Destroy, EndShuts
<1>4. CASE ReadStart(c) \/ WriteStart(c)
  <2>1. PICK do \in {"read", "write"}, on \in {"in", "out"} : Doing(c, do, "start") /\ Begin(c, on)
    BY <1>4 DEF ReadStart, WriteStart
  <2>2. S(c) \in Streams /\ (UNCHANGED stream \/ Status(S(c), "ERROR"))
    BY <1>2, <2>1 DEF Begin, Register
  <2> QED
    BY <1>0, <1>1, <2>2, KeptField, Zenon DEF Status
<1>5. CASE ReadGo(c)
  <2>1. PICK s \in Streams : s = S(c)
    BY <1>2, <1>5 DEF ReadGo
  <2>2. \/ UNCHANGED stream \/ \E b : stream' = Put(s, b) \/ \E what : Status(s, what)
    BY <1>5, <2>1, Zenon DEF ReadGo, ReadBytes, ReadNothing, ReadError, Status
  <2> QED
    BY <1>0, <1>1, <2>2, KeptField, Zenon DEF Status, Put
<1>6. CASE WriteGo(c)
  <2>1. S(c) \in Streams /\ N(c) \in Streams
    BY <1>2, <1>6 DEF WriteGo
  <2>2. UNCHANGED stream \/ Status(S(c), "ERROR") \/ \E k : stream' = Drop(c, k)
    BY <1>6, Zenon DEF WriteGo, WriteBytes, WriteError, SigPipe, WriteClosed
  <2>3. ASSUME NEW k, stream' = Drop(c, k)
        PROVE  Kept
    <3>1. PICK s \in Streams, t \in Streams : s = S(c) /\ t = N(c)
      BY <2>1
    <3>2. PICK x, y : x = Skip(stream[s].out, k) /\ y = Skip(stream[t].in, k)
      OBVIOUS
    <3>3. stream' = [stream EXCEPT ![s].out = x] \/ stream' = [stream EXCEPT ![t].in = y]
      BY <2>3, <3>1, <3>2 DEF Drop
    <3> QED
      BY <1>0, <3>3, KeptField, Zenon
  <2> QED
    BY <1>0, <1>1, <2>1, <2>2, <2>3, KeptField, Zenon DEF Status
<1>7. CASE Fill(c) \/ Peek(c)
  <2>1. PICK s \in Streams : s = S(c)
    BY <1>2, <1>7 DEF Fill, Peek
  <2>2. UNCHANGED stream \/ \E b : stream' = [stream EXCEPT ![s].in = b]
    BY <1>7, <2>1, Zenon DEF Fill, Peek, InputChanged
  <2> QED
    BY <1>0, <1>1, <2>2, KeptField, Zenon
<1>8. CASE FillEnd(c) \/ Connected(c)
  <2>1. PICK s \in Streams : s = S(c)
    BY <1>2, <1>8 DEF FillEnd, Connected
  <2>2. UNCHANGED stream \/ \E b : stream' = [stream EXCEPT ![s].status = b]
    BY <1>8, <2>1, Zenon DEF FillEnd, Connected, Status
  <2> QED
    BY <1>0, <1>1, <2>2, KeptField, Zenon
<1>9. CASE GetTakes(c)
  <2>1. PICK s \in Streams : s = S(c)
    BY <1>2, <1>9 DEF GetTakes
  <2>2. PICK b : b = Skip(stream[s].in, N(c))
    OBVIOUS
  <2>3. stream' = [stream EXCEPT ![s].in = b]
    BY <1>9, <2>1, <2>2 DEF GetTakes
  <2> QED
    BY <1>0, <2>3, KeptField, Zenon
<1>10. CASE ReadAll(c)
  <2>1. PICK s \in Streams : s = S(c)
    BY <1>2, <1>10 DEF ReadAll
  <2>2. UNCHANGED stream \/ \E b : stream' = [stream EXCEPT ![s].tmp = b]
    BY <1>10, <2>1, Zenon DEF ReadAll
  <2> QED
    BY <1>0, <1>1, <2>2, KeptField, Zenon
<1>11. CASE ReadAllEnd(c)
  <2>1. PICK s \in Streams : s = S(c)
    BY <1>2, <1>11, Zenon DEF ReadAllEnd
  <2>2. stream' = [stream EXCEPT ![s].in = Rewound(@), ![s].tmp = << >>]
    BY <1>11, <2>1 DEF ReadAllEnd
  <2>3. stream \in [Streams -> StreamObjects] /\ stream[s] \in StreamObjects
    BY <1>0 DEF StreamsOK
  <2>4. PICK b, m, n : b = Rewound(stream[s].in) /\ m = [stream[s] EXCEPT !.in = b] /\ n = [m EXCEPT !.tmp = << >>]
    OBVIOUS
  <2>5. m.life = stream[s].life /\ m.fd = stream[s].fd /\ m.closed = stream[s].closed
        /\ n.life = m.life /\ n.fd = m.fd /\ n.closed = m.closed
    BY <2>3, <2>4 DEF StreamObjects
  <2>6. stream' = [stream EXCEPT ![s] = n]
    <3>1. PICK mid : mid = [stream EXCEPT ![s] = m]
      OBVIOUS
    <3>2. mid[s] = m /\ stream' = [mid EXCEPT ![s] = n]
      BY <2>2, <2>3, <2>4, <3>1
    <3> QED
      BY <2>3, <3>1, <3>2
  <2> QED
    BY <2>3, <2>5, <2>6 DEF Kept
<1>12. CASE Flush(c)
  <2>1. PICK s \in Streams : s = S(c)
    BY <1>2, <1>12 DEF Flush
  <2>2. PICK b : b = Rewound(stream[s].out)
    OBVIOUS
  <2>3. UNCHANGED stream \/ stream' = [stream EXCEPT ![s].out = b]
    BY <1>12, <2>1, <2>2 DEF Flush
  <2> QED
    BY <1>0, <1>1, <2>3, KeptField, Zenon
<1>13. CASE PutEnd(c)
  <2>1. PICK s \in Streams : s = S(c)
    BY <1>2, <1>13 DEF PutEnd
  <2>2. PICK b : b = Filled(stream[s].out, Next_(s, N(c)))
    OBVIOUS
  <2>3. UNCHANGED stream \/ stream' = [stream EXCEPT ![s].out = b]
    BY <1>13, <2>1, <2>2 DEF PutEnd
  <2> QED
    BY <1>0, <1>1, <2>3, KeptField, Zenon
<1>14. CASE PipeNext(c)
  <2>1. PICK t \in Streams : t = N(c)
    BY <1>2, <1>14 DEF PipeNext
  <2>2. PICK b : b = Rewound(stream[t].in)
    OBVIOUS
  <2>3. UNCHANGED stream \/ stream' = [stream EXCEPT ![t].in = b]
    BY <1>14, <2>1, <2>2 DEF PipeNext, InputChanged
  <2> QED
    BY <1>0, <1>1, <2>3, KeptField, Zenon
<1> QED
  BY <1>3, <1>4, <1>5, <1>6, <1>7, <1>8, <1>9, <1>10, <1>11, <1>12, <1>13, <1>14 DEF Step

(* While a closed object is there, its destructor runs.                    *)
LEMMA StepOfDestroy ==
  ASSUME NEW c \in Coro, NEW d \in Coro, Doing(c, "destroy", "closed"), Step(d)
  PROVE  d = c /\ DestroyEnd(c)
<1>1. ASSUME NEW do, NEW at, Doing(d, do, at) PROVE d = c /\ do = "destroy" /\ at = "closed"
  BY <1>1 DEF Doing
<1>2. ~ (ReadAgain(d) \/ ReadStart(d) \/ ReadGo(d) \/ WriteStart(d) \/ WriteGo(d) \/ Fill(d) \/ FillEnd(d)
         \/ Get(d) \/ GetFails(d) \/ GetTakes(d) \/ Peek(d) \/ PeekEnd(d))
  BY <1>1 DEF ReadAgain, ReadStart, ReadGo, WriteStart, WriteGo, Fill, FillEnd, Get, GetFails, GetTakes, Peek, PeekEnd
<1>3. ~ (Scan(d) \/ ScanEnd(d) \/ ReadAll(d) \/ ReadMore(d) \/ ReadAllEnd(d)
         \/ Flush(d) \/ PutStart(d) \/ PutEnd(d) \/ PutAll(d) \/ Pipe(d) \/ PipeNext(d))
  BY <1>1 DEF Scan, ScanEnd, ReadAll, ReadMore, ReadAllEnd, Flush, PutStart, PutEnd, PutAll, Pipe, PipeNext
<1>4. ~ (End(d) \/ EndShuts(d) \/ Close(d) \/ CloseEnd(d) \/ Destroy(d) \/ Connected(d) \/ \E s \in Streams : Accepted(d, s))
  BY <1>1 DEF End, EndShuts, Close, CloseEnd, Destroy, Connected, Accepted
<1>5. DestroyEnd(d)
  BY <1>2, <1>3, <1>4, Zenon DEF Step
<1> QED
  BY <1>1, <1>5 DEF DestroyEnd

LEMMA FreedDying ==
  ASSUME StreamInv, DyingOK, NEW c \in Coro, DestroyEnd(c)
  PROVE  DyingOK'
<1>1. PICK h \in Frames : Active(c, h, "destroy", "closed")
  BY Running DEF DestroyEnd
<1>2. PICK s \in Streams : s = h.s
  BY <1>1 DEF Active
<1>3. stream' = [stream EXCEPT ![s].life = "gone"]
  BY <1>1, <1>2 DEF DestroyEnd, Active
<1>4. stream'[s].life = "gone" /\ \A t \in Streams : t # s => stream'[t] = stream[t]
  <2>1. stream \in [Streams -> StreamObjects] /\ stream[s] \in StreamObjects
    BY DEF StreamInv, TypesOK, StreamsOK
  <2>2. PICK m : m = [stream[s] EXCEPT !.life = "gone"]
    OBVIOUS
  <2>3. m.life = "gone"
    BY <2>1, <2>2 DEF StreamObjects
  <2> QED
    BY <1>3, <2>1, <2>2, <2>3
<1>5. \A t \in Streams : Dying(t) => t = s
  <2> SUFFICES ASSUME NEW t \in Streams, Dying(t) PROVE t = s
    OBVIOUS
  <2>1. PICK d \in Coro : Doing(d, "destroy", "closed") /\ S(d) = t
    BY DEF DyingOK, Destroyed
  <2>2. d = c
    BY <1>1, <2>1 DEF Doing, Active
  <2> QED
    BY <1>1, <1>2, <2>1, <2>2 DEF Active
<1>6. \A t \in Streams : ~ (stream'[t].life = "open" /\ stream'[t].closed # {})
  BY <1>4, <1>5 DEF Dying
<1> QED
  BY <1>6 DEF DyingOK, Dying

LEMMA ClosedDying ==
  ASSUME BytesInv, ClosesOK, \A s \in Streams : ~ Dying(s), NEW c \in Coro, CloseEnd(c)
  PROVE  DyingOK'
<1>1. PICK h \in Frames : Active(c, h, "close", "flushed")
  BY Running DEF CloseEnd, BytesInv
<1>2. PICK s \in Streams : s = h.s
  BY <1>1 DEF Active
<1>3. StreamInv /\ StreamsOK /\ stack \in [Coro -> Seq(Frames)] /\ Chain(stack[c]) /\ Closes(stack[c])
  BY DEF BytesInv, StreamInv, TypesOK, StacksOK, ClosesOK
<1>4. PICK st \in Seq(Frames), rest \in Seq(Frames) :
         /\ st = stack[c] /\ st # << >> /\ h = Head(st) /\ rest = Tail(st)
         /\ rest # << >> => CalledBy(h, Head(rest))
  <2>1. PICK st \in Seq(Frames) : st = stack[c] /\ st # << >> /\ h = Head(st) /\ Chain(st)
    BY <1>1, <1>3 DEF Active
  <2>2. Tail(st) \in Seq(Frames) /\ (Tail(st) # << >> => CalledBy(Head(st), Head(Tail(st))))
    BY <2>1, ChainPop
  <2> QED
    BY <2>1, <2>2
<1>5. rest # << >> /\ Head(rest).at = "closed"
  BY <1>1, <1>3, <1>4, ClosesTail DEF Active
<1>6. Head(rest).do = "destroy" /\ Head(rest).s = s
  BY <1>1, <1>2, <1>4, <1>5 DEF Active, CalledBy
<1>7. PICK f \in Fds : f = stream[s].fd
  BY <1>1, <1>2 DEF Active, StreamsOf
<1>8. /\ stream' = [stream EXCEPT ![s].in = Rewound(@), ![s].closed = @ \cup ({file[stream[s].fd]} \ {NoOne})]
      /\ file' = [file EXCEPT ![f] = NoOne] /\ Return(c) /\ cur' = cur
  <2>1. S(c) = s
    BY <1>1, <1>2 DEF Active
  <2> QED
    BY <1>7, <2>1, Zenon DEF CloseEnd
<1>9. PICK b \in Buffers : b = Rewound(stream[s].in)
  BY <1>3, StreamFields, BufferRewound
<1>10. SameLives /\ Others(s)
  <2>1. PICK cl : cl = stream[s].closed \cup ({file[f]} \ {NoOne})
    OBVIOUS
  <2>2. stream' = [stream EXCEPT ![s].in = b, ![s].closed = cl]
    BY <1>7, <1>8, <1>9, <2>1
  <2> QED
    BY <1>3, <2>2, ClosedNow
<1>11. file'[f] = NoOne
  BY <1>8 DEF BytesInv, StreamInv, TypesOK
<1>12. stack'[c] = rest /\ cur' = c
  BY <1>1, <1>3, <1>4, <1>8 DEF Return, Active
<1>13. Destroyed(s)'
  BY <1>5, <1>6, <1>12 DEF Destroyed, Doing, S
<1>14. stream'[s].fd = f
  BY <1>7, <1>10 DEF SameLives
<1>15. ASSUME NEW t \in Streams, Dying(t)' PROVE t = s
  <2>1. t # s => stream'[t] = stream[t]
    BY <1>10 DEF Others
  <2> QED
    BY <1>15, <2>1 DEF Dying
<1> QED
  BY <1>11, <1>13, <1>14, <1>15 DEF DyingOK

LEMMA KeptDying ==
  ASSUME \A s \in Streams : ~ Dying(s), Kept
  PROVE  DyingOK'
  BY DEF DyingOK, Dying, Kept

LEMMA OpenedDying ==
  ASSUME BytesInv, \A s \in Streams : ~ Dying(s), NEW s \in Streams, stream[s].life = "new", Opened(s, Lowest)
  PROVE  DyingOK'
<1>1. stream \in [Streams -> StreamObjects] /\ stream[s] \in StreamObjects
  BY DEF BytesInv, StreamInv, TypesOK, StreamsOK
<1>2. stream[s].closed = {}
  BY DEF BytesInv, Flows, Flow
<1>3. PICK f, m, n : f = Lowest /\ m = [stream[s] EXCEPT !.life = "open"] /\ n = [m EXCEPT !.fd = f]
  OBVIOUS
<1>4. n.closed = {}
  BY <1>1, <1>2, <1>3 DEF StreamObjects
<1>5. stream' = [stream EXCEPT ![s] = n]
  <2>1. stream' = [stream EXCEPT ![s].life = "open", ![s].fd = f]
    BY <1>3 DEF Opened
  <2>2. PICK mid : mid = [stream EXCEPT ![s] = m]
    OBVIOUS
  <2>3. mid[s] = m /\ stream' = [mid EXCEPT ![s] = n]
    BY <1>1, <1>3, <2>1, <2>2
  <2> QED
    BY <1>1, <2>2, <2>3
<1>6. stream'[s] = n /\ \A t \in Streams : t # s => stream'[t] = stream[t]
  BY <1>1, <1>5
<1> QED
  BY <1>4, <1>6 DEF DyingOK, Dying

LEMMA StillDying ==
  ASSUME DyingOK, UNCHANGED <<cur, stack, stream, file>>
  PROVE  DyingOK'
  BY DEF DyingOK, Dying, Destroyed, Doing, S

LEMMA DyingNext ==
  ASSUME BytesInv, ClosesOK, DyingOK, [Next]_vars
  PROVE  DyingOK'
<1>1. ASSUME NEW s \in Streams, Peers(s) PROVE DyingOK'
  BY <1>1, StillDying DEF Peers, PeerConnects, PeerAnswers, PeerSends, PeerEnds, PeerReceives, PeerResets, Peer
<1>2. ASSUME Stop \/ UNCHANGED vars PROVE DyingOK'
  BY <1>2, StillDying DEF Stop, vars
<1>3. ASSUME NEW s \in Streams, Dying(s), Up PROVE DyingOK'
  <2>1. PICK c \in Coro : Doing(c, "destroy", "closed")
    BY <1>3 DEF DyingOK, Destroyed
  <2>2. cur = c /\ stack[c] # << >> /\ c # NoOne
    BY <2>1, StreamAssumption DEF Doing
  <2>3. \A d \in Coro : ~ Starts(d) /\ ~ Leave(d)
    BY <2>2 DEF Starts, Leave
  <2>4. \A d \in Coro : ~ Program(d)
    BY <2>3, Zenon DEF Program, Accept, OpenFile, Connect, Calls, Pipes
  <2>5. \A f \in Fds \cup {0} : ~ Poll(f)
    BY <2>2 DEF Poll
  <2>6. ASSUME NEW d \in Coro, Step(d) PROVE DyingOK'
    BY <2>1, <2>6, StepOfDestroy, FreedDying DEF BytesInv
  <2> QED
    BY <1>1, <1>3, <2>4, <2>5, <2>6, Zenon DEF Up
<1>4. ASSUME \A s \in Streams : ~ Dying(s), Up PROVE DyingOK'
  <2>1. ASSUME UNCHANGED stream PROVE DyingOK'
    BY <1>4, <2>1 DEF DyingOK, Dying
  <2>2. ASSUME NEW c \in Coro, Step(c) PROVE DyingOK'
    <3>1. ASSUME NEW s \in Streams, Accepted(c, s) PROVE DyingOK'
      <4>1. stream[s].life = "new" /\ Opened(s, Lowest)
        BY <3>1 DEF Accepted, BytesInv, StreamInv, FilesOK
      <4> QED
        BY <1>4, <4>1, OpenedDying
    <3>2. CASE \A s \in Streams : ~ Accepted(c, s)
      <4>1. CASE CloseEnd(c)
        BY <1>4, <4>1, ClosedDying
      <4>2. CASE DestroyEnd(c)
        BY <4>2, FreedDying DEF BytesInv
      <4>3. CASE ~ CloseEnd(c) /\ ~ DestroyEnd(c)
        BY <1>4, <2>2, <3>2, <4>3, StepKeeps, KeptDying DEF BytesInv
      <4> QED
        BY <4>1, <4>2, <4>3
    <3> QED
      BY <3>1, <3>2
  <2>3. ASSUME NEW c \in Coro, Program(c) PROVE DyingOK'
    <3>1. ASSUME NEW s \in Streams, OpenFile(c, s) \/ Connect(c, s) PROVE DyingOK'
      BY <1>4, <3>1, OpenedDying DEF OpenFile, Connect
    <3>2. CASE Accept(c) \/ Leave(c)
      BY <2>1, <3>2 DEF Accept, Leave
    <3>3. ASSUME NEW s \in Streams, NEW op, Calls(c, s, op) PROVE DyingOK'
      BY <2>1, <3>3 DEF Calls
    <3>4. ASSUME NEW s \in Streams, NEW t \in Streams, Pipes(c, s, t) PROVE DyingOK'
      BY <2>1, <3>4 DEF Pipes
    <3> QED
      BY <2>3, <3>1, <3>2, <3>3, <3>4, Zenon DEF Program
  <2>4. ASSUME NEW f \in Fds \cup {0}, Poll(f) PROVE DyingOK'
    BY <2>1, <2>4 DEF Poll
  <2> QED
    BY <1>1, <1>4, <2>2, <2>3, <2>4, Zenon DEF Up
<1> QED
  BY <1>2, <1>3, <1>4, Zenon DEF Next

LEMMA OwnInit ==
  ASSUME Init
  PROVE  OwnInv
<1>1. BytesInv
  BY BytesInit
<1>2. ClosesOK
  BY DEF Init, ClosesOK, Closes
<1>3. \A s \in Streams : ~ Dying(s)
  <2>1. \A c \in Coro : stack[c] = << >>
    BY DEF Init
  <2>2. \A f \in Fds : file[f] = NoOne
    BY DEF Init
  <2>3. ASSUME NEW s \in Streams, stream[s].life = "open", stream[s].closed # {} PROVE FALSE
    <3>1. PICK use : stream = [t \in Streams |-> [NewStream EXCEPT !.life = IF t \in use THEN "new" ELSE "unused"]]
      BY DEF Init
    <3>2. PICK life \in {"new", "unused"} : stream[s] = [NewStream EXCEPT !.life = life]
      BY <3>1
    <3>3. stream[s].life = life
      BY <3>2 DEF NewStream
    <3> QED
      BY <2>3, <3>3
  <2> QED
    BY <2>3 DEF Dying
<1> QED
  BY <1>1, <1>2, <1>3 DEF OwnInv, DyingOK

LEMMA OwnFilesFollow ==
  ASSUME OwnInv
  PROVE  OwnFiles
  BY DEF OwnInv, BytesInv, OwnersOK, DyingOK, Dying, OwnFiles

LEMMA OwnNext ==
  ASSUME SingleBytes, NoClose, OwnInv, [Next]_vars
  PROVE  OwnInv'
<1>1. BytesInv'
  BY OwnFilesFollow, BytesNext DEF OwnInv
<1>2. ClosesOK'
  BY NextCloses DEF OwnInv, BytesInv
<1>3. DyingOK'
  BY DyingNext DEF OwnInv
<1> QED
  BY <1>1, <1>2, <1>3 DEF OwnInv

-----------------------------------------------------------------------------
(* What a peer sent is what the program got, what its buffer holds and     *)
(* what the kernel holds, in this order; what the program put is what was  *)
(* written and what the buffer holds (Io/Stream.c, Io/Buffer.c): whatever  *)
(* numbers the kernel gives out again, if programs get single bytes and    *)
(* leave close() to the destructor.                                        *)
THEOREM BytesInOrderHolds == ASSUME SingleBytes, NoClose PROVE Spec => []BytesInOrder
<1>1. Init => OwnInv
  BY OwnInit
<1>2. OwnInv /\ [Next]_vars => OwnInv'
  BY OwnNext
<1>3. OwnInv => BytesInOrder
  BY BytesFollow DEF OwnInv
<1> QED
  BY <1>1, <1>2, <1>3, PTL DEF Spec

(* A stream whose status is EOF has given every byte that its peer sent,   *)
(* and its peer sends no more (Io/Stream.jg:26, Io/Stream.c): of the same  *)
(* programs.                                                               *)
THEOREM EofAfterLastByteHolds == ASSUME SingleBytes, NoClose PROVE Spec => []EofAfterLastByte
<1>1. Init => OwnInv
  BY OwnInit
<1>2. OwnInv /\ [Next]_vars => OwnInv'
  BY OwnNext
<1>3. OwnInv => EofAfterLastByte
  BY BytesFollow DEF OwnInv
<1> QED
  BY <1>1, <1>2, <1>3, PTL DEF Spec

(* Programs that close streams themselves keep the order, too, and EOF     *)
(* comes last, as long as no object that is still there finds somebody     *)
(* else's connection under its number (Io/Stream.jg:81 closes a number     *)
(* again that another stream may have by then).                            *)
THEOREM ClosedStreamsKeepOrder ==
  ASSUME SingleBytes
  PROVE  Spec /\ []OwnFiles => [](BytesInOrder /\ EofAfterLastByte)
<1>1. Init => BytesInv
  BY BytesInit
<1>2. BytesInv /\ OwnFiles /\ [Next]_vars => BytesInv'
  BY BytesNext
<1>3. BytesInv => BytesInOrder /\ EofAfterLastByte
  BY BytesFollow
<1> QED
  BY <1>1, <1>2, <1>3, PTL DEF Spec
=============================================================================
