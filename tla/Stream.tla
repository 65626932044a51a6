------------------------------- MODULE Stream -------------------------------
(***************************************************************************)
(* Buffered streams on sockets and files (runtime/Io/Stream.c, Buffer.c,   *)
(* Socket/Listener.c and Socket/Stream.c, as built for Linux) and the      *)
(* kernel below them: descriptors, epoll registrations, connections whose  *)
(* peers send, stop, read and go away.                                     *)
(*                                                                         *)
(* A coroutine runs until it waits in iowait(), so a call is a stack of    *)
(* frames [do, s, n, at] that one coroutine at a time executes.  Bytes are *)
(* numbered: the i-th byte of a peer is i, and so is the i-th byte of a    *)
(* program.                                                                *)
(***************************************************************************)
EXTENDS Integers, SequencesExt, FiniteSetsExt

CONSTANTS
    Coro, Streams,      \* the coroutines, and the streams they may open
    Kind,               \* of each stream: "accepted", "connected" or "file"
    Fds,                \* descriptor numbers; 0 is the one of the listener
    NoOne,
    Capacity,           \* of a new buffer
    Room,               \* bytes the kernel holds for a peer
    Delim,              \* bytes that end a scan
    Ops,                \* what each coroutine may call, with a number of bytes
    MaxSent,            \* bound: bytes that a peer sends
    Plans               \* bound: how many calls each coroutine makes, which streams are used

ASSUME StreamAssumption ==
    /\ Capacity \in Nat \ {0} /\ Room \in Nat \ {0} /\ MaxSent \in Nat /\ Plans \subseteq [calls : [Coro -> Nat], use : SUBSET Streams]
    /\ NoOne \notin Coro \cup Streams /\ Kind \in [Streams -> {"accepted", "connected", "file"}]
ASSUME FdsAssumption ==
    /\ IsFiniteSet(Fds) /\ IsFiniteSet(Streams)
    /\ Fds \subseteq Nat \ {0} /\ Cardinality(Fds) >= Cardinality(Streams)
ASSUME OpsAssumption ==
    \A c \in Coro : \A op \in Ops[c] : \/ op = <<"pipe", 0>>
                                      \/ /\ op[1] \in {"get", "peek", "scan", "readall", "put", "print", "flush", "end", "close", "destroy"}
                                         /\ op[2] \in 0 .. Capacity

VARIABLES
    cur,        \* the coroutine that runs, or NoOne: the event loop
    stack,      \* of each coroutine, the calls it is in; the first is the innermost
    ret,        \* of each coroutine, the last byte it got; 0 for 0xff
    stream,     \* the stream objects
    file,       \* of each descriptor, whose connection or file it is
    reg,        \* of each descriptor, who is registered for what in epoll
    conn,       \* of each stream, the connection or file in the kernel
    down,       \* "no", "aborted" or "killed": the process
    taken, accepted,    \* of each stream, the bytes handed to the program and by it
    budget              \* of each coroutine, the calls it may still make

vars == <<cur, stack, ret, stream, file, reg, conn, down, taken, accepted, budget>>
history == <<taken, accepted>>
InCall == UNCHANGED budget
kernel == <<file, reg, conn, down>>

-----------------------------------------------------------------------------
(* Buffers.                                                                 *)
Buffer(cap) == [cap |-> cap, begin |-> 0, end |-> 0, data |-> [i \in 0 .. cap - 1 |-> 0]]
Size(b) == b.end - b.begin
Bytes(b) == [i \in 1 .. Size(b) |-> b.data[b.begin + i - 1]]
Rewound(b) == [b EXCEPT !.begin = 0, !.end = 0]
Skip(b, k) == [b EXCEPT !.begin = @ + k]
Filled(b, bytes) ==
    [b EXCEPT !.end = @ + Len(bytes),
              !.data = [i \in DOMAIN @ |-> IF i \in b.end .. b.end + Len(bytes) - 1 THEN bytes[i - b.end + 1] ELSE @[i]]]

\* The bytes are copied the wrong way: what is at the front comes again.
Buffer_compact(b) ==
    [b EXCEPT !.begin = 0, !.end = Size(b),
              !.data = [i \in DOMAIN @ |-> IF i \in b.begin .. b.end - 1 THEN @[i - b.begin] ELSE @[i]]]

\* readall() goes on in a buffer of twice the size.
Doubled(b) == Filled(Buffer(2 * b.cap), Bytes(b))

-----------------------------------------------------------------------------
(* Objects and frames.                                                      *)
NewStream == [life |-> "new", fd |-> 0, status |-> "OK", in |-> Buffer(Capacity), out |-> Buffer(Capacity), tmp |-> <<>>,
              closed |-> {}]
NewConn == [phase |-> "none", wire |-> <<>>, sent |-> 0, fin |-> FALSE, err |-> "none",
            shut |-> FALSE, written |-> <<>>, flight |-> 0]
Absent == [who |-> NoOne, on |-> "absent"]

Frame(do, s, n) == [do |-> do, s |-> s, n |-> n, at |-> "start"]
Doing(c, do, at) == cur = c /\ stack[c] # <<>> /\ Head(stack[c]).do = do /\ Head(stack[c]).at = at
S(c) == Head(stack[c]).s
N(c) == Head(stack[c]).n
Goto(c, at) == stack' = [stack EXCEPT ![c] = <<[Head(@) EXCEPT !.at = at]>> \o Tail(@)]
Return(c) == stack' = [stack EXCEPT ![c] = Tail(@)]
\* Calls f, and goes on at the label, with n, when it has returned.
CallWith(c, f, at, n) == stack' = [stack EXCEPT ![c] = <<f, [Head(@) EXCEPT !.at = at, !.n = n]>> \o Tail(@)]
Call(c, f, at) == CallWith(c, f, at, N(c))
Get1(c, b) == ret' = [ret EXCEPT ![c] = b]

Lowest == Min({f \in Fds : file[f] = NoOne})

Init ==
    /\ cur = NoOne /\ stack = [c \in Coro |-> <<>>] /\ ret = [c \in Coro |-> 0]
    /\ file = [f \in Fds |-> NoOne]
    /\ reg = [f \in Fds \cup {0} |-> IF f = 0 THEN [who |-> NoOne, on |-> "off"] ELSE Absent]
    /\ conn = [s \in Streams |-> NewConn] /\ down = "no"
    /\ taken = [s \in Streams |-> <<>>] /\ accepted = [s \in Streams |-> <<>>]
    /\ \E p \in Plans :
        /\ budget = p.calls
        /\ stream = [s \in Streams |-> [NewStream EXCEPT !.life = IF s \in p.use THEN "new" ELSE "unused"]]

-----------------------------------------------------------------------------
(* Io_Stream_read and Io_Stream_write.  On sockets the coroutine registers  *)
(* for the descriptor, one-shot, and waits; a second one would take the     *)
(* registration over.                                                       *)
Status(s, what) == stream' = [stream EXCEPT ![s].status = what]

\* Bug: a coroutine that registered once is taken to be registered.
WaitOnce(c, f, on) ==
    /\ reg' = IF reg[f].who = c THEN reg ELSE [reg EXCEPT ![f] = [who |-> c, on |-> on]]
    /\ Goto(c, "wait") /\ cur' = NoOne

Wait(c, f, on) ==
    /\ reg' = [reg EXCEPT ![f] = [who |-> c, on |-> on]]
    /\ Goto(c, "wait") /\ cur' = NoOne

Register(c, f, on) ==
    IF reg[f].on = "absent"
    THEN Status(S(c), "ERROR") /\ Return(c) /\ UNCHANGED <<cur, reg>>
    ELSE Wait(c, f, on) /\ UNCHANGED stream

Begin(c, on) ==
    /\ IF Kind[S(c)] = "file" THEN Goto(c, "go") /\ UNCHANGED <<cur, stream, reg>> ELSE Register(c, stream[S(c)].fd, on)
    /\ UNCHANGED <<ret, file, conn, down, history>>

ReadAgain(c) ==
    /\ Doing(c, "read", "start") /\ stream[S(c)].status = "EOF"
    /\ Return(c) /\ UNCHANGED <<cur, ret, stream, kernel, history>>
ReadStart(c) == Doing(c, "read", "start") /\ stream[S(c)].status # "EOF" /\ Begin(c, "in")
WriteStart(c) == Doing(c, "write", "start") /\ Begin(c, "out")

\* The buffer that read() fills, and the one that write() empties.
Into(s) == IF stream[s].tmp = <<>> THEN stream[s].in ELSE stream[s].tmp[1]
Put(s, b) == IF stream[s].tmp = <<>> THEN [stream EXCEPT ![s].in = b] ELSE [stream EXCEPT ![s].tmp = <<b>>]
From(c) == IF N(c) = S(c) THEN stream[S(c)].out ELSE stream[N(c)].in
\* Bug: what was not written is forgotten.
DropAll(c, k) ==
    LET b == From(c)
    IN  IF N(c) = S(c) THEN [stream EXCEPT ![S(c)].out = Skip(@, Size(b))] ELSE [stream EXCEPT ![N(c)].in = Skip(@, Size(b))]

Drop(c, k) ==
    IF N(c) = S(c) THEN [stream EXCEPT ![S(c)].out = Skip(@, k)] ELSE [stream EXCEPT ![N(c)].in = Skip(@, k)]

(* read() gives what has arrived; 0 at the end, and for a buffer without    *)
(* room; an error once.                                                     *)
ReadBytes(c, s, o) ==
    LET b == Into(s)
        k == Min({b.cap - b.end, Len(conn[o].wire)})
    IN  /\ k > 0
        /\ stream' = Put(s, Filled(b, SubSeq(conn[o].wire, 1, k)))
        /\ conn' = [conn EXCEPT ![o].wire = SubSeq(@, k + 1, Len(@))]

\* Bug: the end is noted while the buffer still holds bytes.
ReadEnds(s, o) ==
    /\ Into(s).cap = Into(s).end \/ (conn[o].wire = <<>> /\ conn[o].err # "reset" /\ (conn[o].fin \/ conn[o].err # "none"))
    /\ Status(s, "EOF") /\ UNCHANGED conn

ReadNothing(s, o) ==
    /\ Into(s).cap = Into(s).end \/ (conn[o].wire = <<>> /\ conn[o].err # "reset" /\ (conn[o].fin \/ conn[o].err # "none"))
    /\ stream' = IF Size(stream[s].in) = 0 THEN [stream EXCEPT ![s].status = "EOF"] ELSE stream
    /\ UNCHANGED conn

ReadError(s, o) ==
    /\ Into(s).cap > Into(s).end /\ conn[o].wire = <<>> /\ conn[o].err = "reset"
    /\ conn' = [conn EXCEPT ![o].err = "over"] /\ Status(s, "ERROR")

ReadGo(c) ==
    /\ Doing(c, "read", "go")
    /\ LET s == S(c)
           o == file[stream[s].fd]
       IN  \/ o # NoOne /\ (ReadBytes(c, s, o) \/ ReadNothing(s, o) \/ ReadError(s, o))
           \/ o = NoOne /\ Status(s, "ERROR") /\ UNCHANGED conn
    /\ Return(c) /\ UNCHANGED <<cur, ret, file, reg, down, history>>

(* write() to a socket that accept() made goes on until all is written (it  *)
(* is blocking), else it writes what fits.  Where nothing can be written    *)
(* any more the first call may report the error; then it is SIGPIPE.        *)
Blocking(s) == Kind[s] = "accepted"
Fits(s, o) == IF Kind[o] = "file" THEN Size(stream[s].out) + MaxSent ELSE Room - conn[o].flight

WriteBytes(c, s, o) ==
    LET b == From(c)
        k == Min({Size(b), Fits(s, o)})
        bytes == SubSeq(Bytes(b), 1, k)
    IN  /\ ~conn[o].shut /\ conn[o].err = "none" /\ k > 0
        /\ stream' = Drop(c, k)
        /\ conn' = [conn EXCEPT ![o].written = @ \o bytes, ![o].flight = IF Kind[o] = "file" THEN 0 ELSE @ + k]
        /\ IF N(c) = s THEN UNCHANGED history
           ELSE /\ accepted' = [accepted EXCEPT ![s] = @ \o bytes]
                /\ taken' = [taken EXCEPT ![N(c)] = @ \o bytes]
        /\ IF Blocking(s) /\ k < Size(b) THEN UNCHANGED stack ELSE Return(c)
        /\ UNCHANGED down

WriteError(c, s, o) ==
    /\ ~conn[o].shut /\ conn[o].err = "reset"
    /\ conn' = [conn EXCEPT ![o].err = "over"] /\ Status(s, "ERROR")
    /\ Return(c) /\ UNCHANGED <<down, history>>

SigPipe(c, o) ==
    /\ conn[o].shut \/ conn[o].err \in {"over", "pipe"}
    /\ down' = "killed" /\ UNCHANGED <<stack, stream, conn, history>>

WriteClosed(c, s) == Status(s, "ERROR") /\ Return(c) /\ UNCHANGED <<conn, down, history>>

WriteGo(c) ==
    /\ Doing(c, "write", "go")
    /\ LET s == S(c)
           o == file[stream[s].fd]
       IN  \/ o # NoOne /\ (WriteBytes(c, s, o) \/ WriteError(c, s, o) \/ SigPipe(c, o))
           \/ o = NoOne /\ WriteClosed(c, s)
    /\ UNCHANGED <<cur, ret, file, reg>>

-----------------------------------------------------------------------------
(* Input.                                                                   *)
InputChanged(c, s, b) == stream' = [stream EXCEPT ![s].in = b]
Quiet == UNCHANGED <<cur, ret, kernel, history>>

\* fillto(): one read, and what is missing after it is the end.
Fill(c) ==
    /\ Doing(c, "fill", "start")
    /\ LET s == S(c)
           b == IF Size(stream[s].in) < N(c) THEN Buffer_compact(stream[s].in) ELSE stream[s].in
       IN  IF Size(b) < N(c) THEN InputChanged(c, s, b) /\ Call(c, Frame("read", s, 0), "filled")
           ELSE Return(c) /\ UNCHANGED stream
    /\ Quiet
FillEnd(c) ==
    /\ Doing(c, "fill", "filled")
    /\ IF Size(stream[S(c)].in) < N(c) THEN Status(S(c), "EOF") ELSE UNCHANGED stream
    /\ Return(c) /\ Quiet

\* getbb() and getib(): n bytes, or nothing.
Get(c) == Doing(c, "get", "start") /\ Call(c, Frame("fill", S(c), N(c)), "filled") /\ Quiet /\ UNCHANGED stream
GetFails(c) ==
    /\ Doing(c, "get", "filled") /\ stream[S(c)].status # "OK"
    /\ Get1(c, 0) /\ Return(c) /\ UNCHANGED <<cur, stream, kernel, history>>
GetTakes(c) ==
    /\ Doing(c, "get", "filled") /\ stream[S(c)].status = "OK"
    /\ LET s == S(c)
           bytes == SubSeq(Bytes(stream[s].in), 1, N(c))
       IN  /\ taken' = [taken EXCEPT ![s] = @ \o bytes] /\ Get1(c, Last(bytes))
           /\ stream' = [stream EXCEPT ![s].in = Skip(@, N(c))]
    /\ Return(c) /\ UNCHANGED <<cur, kernel, accepted>>

Peek(c) ==
    /\ Doing(c, "peek", "start")
    /\ LET s == S(c)
       IN  IF Size(stream[s].in) = 0
           THEN InputChanged(c, s, Rewound(stream[s].in)) /\ Call(c, Frame("read", s, 0), "peeked")
           ELSE Goto(c, "peeked") /\ UNCHANGED stream
    /\ Quiet
PeekEnd(c) ==
    /\ Doing(c, "peek", "peeked")
    /\ Get1(c, IF Size(stream[S(c)].in) = 0 THEN 0 ELSE Head(Bytes(stream[S(c)].in)))
    /\ Return(c) /\ UNCHANGED <<cur, stream, kernel, history>>

\* scan(): bytes are taken up to the delimiter, or 0xff.
Scan(c) == Doing(c, "scan", "start") /\ Call(c, Frame("get", S(c), 1), "got") /\ Quiet /\ UNCHANGED stream
ScanEnd(c) ==
    /\ Doing(c, "scan", "got")
    /\ IF ret[c] \in Delim \cup {0} THEN Return(c) ELSE Goto(c, "start")
    /\ Quiet /\ UNCHANGED stream

\* readall(): until a read brings nothing.
ReadAll(c) ==
    /\ Doing(c, "readall", "start") /\ stream[S(c)].status = "OK"
    /\ LET s == S(c)
           b == Into(s)
       IN  /\ stream' = IF b.end = b.cap THEN [stream EXCEPT ![s].tmp = <<Doubled(b)>>] ELSE stream
           /\ CallWith(c, Frame("read", s, 0), "more", Size(b))
    /\ Quiet
ReadMore(c) ==
    /\ Doing(c, "readall", "more")
    /\ Goto(c, IF Size(Into(S(c))) = N(c) THEN "done" ELSE "start")
    /\ Quiet /\ UNCHANGED stream
ReadAllEnd(c) ==
    /\ Doing(c, "readall", "done") \/ (Doing(c, "readall", "start") /\ stream[S(c)].status # "OK")
    /\ LET s == S(c)
       IN  /\ taken' = [taken EXCEPT ![s] = @ \o Bytes(Into(s))]
           /\ stream' = [stream EXCEPT ![s].in = Rewound(@), ![s].tmp = <<>>]
    /\ Return(c) /\ UNCHANGED <<cur, ret, kernel, accepted>>

-----------------------------------------------------------------------------
(* Output.                                                                  *)
\* flush(): writes until nothing is left, or there was an error.
Flush(c) ==
    /\ Doing(c, "flush", "start")
    /\ LET s == S(c)
       IN  CASE Size(stream[s].out) = 0 -> Return(c) /\ stream' = [stream EXCEPT ![s].out = Rewound(@)]
             [] Size(stream[s].out) # 0 /\ stream[s].status = "ERROR" -> Return(c) /\ UNCHANGED stream
             [] OTHER -> Call(c, Frame("write", s, s), "start") /\ UNCHANGED stream
    /\ Quiet

\* putbb() and putib(): emptyto(), and nothing is put unless all is well.
\* Bug: the buffer is full before it is emptied.
PutLate(c) ==
    /\ Doing(c, "put", "start")
    /\ IF stream[S(c)].out.end > stream[S(c)].out.cap THEN Call(c, Frame("flush", S(c), 0), "emptied")
       ELSE Goto(c, "emptied")
    /\ Quiet /\ UNCHANGED stream
PutStart(c) ==
    /\ Doing(c, "put", "start")
    /\ IF stream[S(c)].out.cap - stream[S(c)].out.end < N(c) THEN Call(c, Frame("flush", S(c), 0), "emptied")
       ELSE Goto(c, "emptied")
    /\ Quiet /\ UNCHANGED stream
Next_(s, n) == [i \in 1 .. n |-> Len(accepted[s]) + i]
PutEnd(c) ==
    /\ Doing(c, "put", "emptied")
    /\ LET s == S(c)
       IN  IF stream[s].status # "OK" THEN UNCHANGED <<stream, accepted>>
           ELSE /\ stream' = [stream EXCEPT ![s].out = Filled(@, Next_(s, N(c)))]
                /\ accepted' = [accepted EXCEPT ![s] = @ \o Next_(s, N(c))]
    /\ Return(c) /\ UNCHANGED <<cur, ret, kernel, taken>>

\* print(): byte by byte.
PutAll(c) ==
    /\ Doing(c, "print", "start")
    /\ IF N(c) = 0 THEN Return(c) ELSE CallWith(c, Frame("put", S(c), 1), "start", N(c) - 1)
    /\ Quiet /\ UNCHANGED stream

\* pipe(): what input s gives, from its buffer, to n.
Pipe(c) == Doing(c, "pipe", "start") /\ Call(c, Frame("flush", S(c), 0), "next") /\ Quiet /\ UNCHANGED stream
PipeNext(c) ==
    /\ Doing(c, "pipe", "next")
    /\ LET s == S(c)
           t == N(c)
       IN  CASE stream[t].status # "OK" \/ (Size(stream[t].in) # 0 /\ stream[s].status = "ERROR") ->
                    Return(c) /\ UNCHANGED stream
             [] stream[t].status = "OK" /\ Size(stream[t].in) # 0 /\ stream[s].status # "ERROR" ->
                    Call(c, Frame("write", s, t), "next") /\ UNCHANGED stream
             [] OTHER -> InputChanged(c, t, Rewound(stream[t].in)) /\ Call(c, Frame("read", t, 0), "next")
    /\ Quiet

-----------------------------------------------------------------------------
(* The end of a stream.  A closed object keeps its descriptor number.       *)
End(c) == Doing(c, "end", "start") /\ Call(c, Frame("flush", S(c), 0), "flushed") /\ Quiet /\ UNCHANGED stream
EndShuts(c) ==
    /\ Doing(c, "end", "flushed")
    /\ LET o == file[stream[S(c)].fd]
       IN  conn' = IF Kind[S(c)] # "file" /\ o # NoOne /\ Kind[o] # "file" THEN [conn EXCEPT ![o].shut = TRUE] ELSE conn
    /\ Return(c) /\ UNCHANGED <<cur, ret, stream, file, reg, down, history>>

Close(c) == Doing(c, "close", "start") /\ Call(c, Frame("flush", S(c), 0), "flushed") /\ Quiet /\ UNCHANGED stream
CloseEnd(c) ==
    /\ Doing(c, "close", "flushed")
    /\ LET s == S(c)
       IN  /\ stream' = [stream EXCEPT ![s].in = Rewound(@), ![s].closed = @ \cup ({file[stream[s].fd]} \ {NoOne})]
           /\ file' = [file EXCEPT ![stream[s].fd] = NoOne]
           /\ reg' = [reg EXCEPT ![stream[s].fd] = Absent]
    /\ Return(c) /\ UNCHANGED <<cur, ret, conn, down, history>>

\* @destroy closes whatever the number means by now.
Destroy(c) == Doing(c, "destroy", "start") /\ Call(c, Frame("close", S(c), 0), "closed") /\ Quiet /\ UNCHANGED stream
DestroyEnd(c) ==
    /\ Doing(c, "destroy", "closed")
    /\ stream' = [stream EXCEPT ![S(c)].life = "gone"]
    /\ Return(c) /\ Quiet

-----------------------------------------------------------------------------
(* New streams.  Io_Stream__init registers a socket for nothing, with no    *)
(* coroutine; the kernel reports errors and hang-ups all the same.          *)
\* It is c that runs, or the event loop that resumes it.
Starts(c) ==
    /\ cur \in {c, NoOne} /\ stack[c] = <<>> /\ budget[c] > 0
    /\ budget' = [budget EXCEPT ![c] = @ - 1]
Opened(s, f) == stream' = [stream EXCEPT ![s].life = "open", ![s].fd = f]

OpenFile(c, s) ==
    /\ Starts(c) /\ Kind[s] = "file" /\ stream[s].life = "new"
    /\ Opened(s, Lowest) /\ file' = [file EXCEPT ![Lowest] = s]
    /\ conn' = [conn EXCEPT ![s].phase = "up", ![s].fin = TRUE, ![s].sent = MaxSent, ![s].wire = [i \in 1 .. MaxSent |-> i]]
    /\ cur' = c /\ UNCHANGED <<stack, ret, reg, down, history>>

Accept(c) ==
    /\ Starts(c) /\ reg[0].on # "in"
    /\ \E s \in Streams : Kind[s] = "accepted" /\ stream[s].life = "new"
    /\ stack' = [stack EXCEPT ![c] = <<[Frame("accept", NoOne, 0) EXCEPT !.at = "wait"]>>]
    /\ reg' = [reg EXCEPT ![0] = [who |-> c, on |-> "in"]] /\ cur' = NoOne
    /\ UNCHANGED <<ret, stream, file, conn, down, history>>
Accepted(c, s) ==
    /\ Doing(c, "accept", "go") /\ conn[s].phase = "backlog"
    /\ Opened(s, Lowest) /\ file' = [file EXCEPT ![Lowest] = s]
    /\ reg' = [reg EXCEPT ![Lowest] = [who |-> NoOne, on |-> "none"]]
    /\ conn' = [conn EXCEPT ![s].phase = "up"]
    /\ Return(c) /\ UNCHANGED <<cur, ret, down, history>>

Connect(c, s) ==
    /\ Starts(c) /\ Kind[s] = "connected" /\ stream[s].life = "new"
    /\ Opened(s, Lowest) /\ file' = [file EXCEPT ![Lowest] = s]
    /\ conn' = [conn EXCEPT ![s].phase = "connecting"]
    /\ stack' = [stack EXCEPT ![c] = <<[Frame("connect", s, 0) EXCEPT !.at = "wait"]>>]
    /\ reg' = [reg EXCEPT ![Lowest] = [who |-> c, on |-> "out"]] /\ cur' = NoOne
    /\ UNCHANGED <<ret, down, history>>
Connected(c) ==
    /\ Doing(c, "connect", "go")
    /\ IF conn[S(c)].err = "none" THEN UNCHANGED <<stream, conn>>
       ELSE Status(S(c), "ERROR") /\ conn' = [conn EXCEPT ![S(c)].err = "over"]
    /\ Return(c) /\ UNCHANGED <<cur, ret, file, reg, down, history>>

-----------------------------------------------------------------------------
(* The program calls; one coroutine at a time per stream.                   *)
Uses(c) == UNION {{stack[c][i].s, stack[c][i].n} : i \in DOMAIN stack[c]}
Mine(c, s) == stream[s].life = "open" /\ \A d \in Coro \ {c} : s \notin Uses(d)

Calls(c, s, op) ==
    /\ Starts(c) /\ Mine(c, s)
    /\ stack' = [stack EXCEPT ![c] = <<Frame(op[1], s, op[2])>>]
    /\ cur' = c /\ UNCHANGED <<ret, stream, kernel, history>>
Pipes(c, s, t) ==
    /\ Starts(c) /\ s # t /\ Mine(c, s) /\ Mine(c, t) /\ <<"pipe", 0>> \in Ops[c]
    /\ stack' = [stack EXCEPT ![c] = <<Frame("pipe", s, t)>>]
    /\ cur' = c /\ UNCHANGED <<ret, stream, kernel, history>>

\* A coroutine may give up the processor between two calls.
Leave(c) == cur = c /\ stack[c] = <<>> /\ cur' = NoOne /\ UNCHANGED <<stack, ret, stream, kernel, history>>
Waits(c) == stack[c] # <<>> /\ cur # c

HungUp(o) == conn[o].err # "none" \/ (conn[o].fin /\ conn[o].shut)
InReady(f) ==
    IF f = 0 THEN \E s \in Streams : conn[s].phase = "backlog"
    ELSE conn[file[f]].wire # <<>> \/ conn[file[f]].fin \/ conn[file[f]].err # "none"
OutReady(f) ==
    /\ conn[file[f]].phase = "up"
    /\ conn[file[f]].flight < Room \/ conn[file[f]].shut \/ conn[file[f]].err # "none"
Ready(f) ==
    \/ reg[f].on = "in" /\ InReady(f)
    \/ reg[f].on = "out" /\ OutReady(f)
    \/ reg[f].on \in {"none", "in", "out"} /\ f # 0 /\ HungUp(file[f])

\* poll(): one-shot.  The code asserts that an event has a coroutine.
Poll(f) ==
    /\ cur = NoOne /\ Ready(f)
    /\ IF reg[f].who = NoOne
       THEN (\E c \in Coro : Waits(c)) /\ down' = "aborted" /\ UNCHANGED <<cur, stack, reg>>
       ELSE /\ cur' = reg[f].who /\ Goto(reg[f].who, "go")
            /\ reg' = [reg EXCEPT ![f].on = "off"] /\ UNCHANGED down
    /\ UNCHANGED <<ret, stream, file, conn, history>>

-----------------------------------------------------------------------------
(* The peers.  What a peer does while nothing looks at its connection is    *)
(* the same as if it did it later: it acts before a call of the kernel, and *)
(* while the event loop may poll for the connection.                        *)
Called(s) ==
    \E c \in Coro : cur = c /\ stack[c] # <<>> /\ Head(stack[c]).at = "go" /\ S(c) # NoOne /\ file[stream[S(c)].fd] = s
Polled(s) == cur = NoOne /\ \E f \in Fds : file[f] = s /\ reg[f].on \in {"none", "in", "out"}
Peer(s) == Kind[s] # "file" /\ UNCHANGED <<cur, stack, ret, stream, file, reg, down, history>>

PeerConnects(s) ==
    /\ Peer(s) /\ Kind[s] = "accepted" /\ stream[s].life = "new" /\ conn[s].phase = "none" /\ cur = NoOne /\ reg[0].on = "in"
    /\ conn' = [conn EXCEPT ![s].phase = "backlog"]
PeerAnswers(s) ==
    /\ Peer(s) /\ conn[s].phase = "connecting"
    /\ \E err \in {"none", "reset"} : conn' = [conn EXCEPT ![s].phase = "up", ![s].err = err]
Talks(s) == conn[s].phase = "up" /\ conn[s].err = "none" /\ (Called(s) \/ Polled(s))
PeerSends(s) ==
    /\ Peer(s) /\ Talks(s) /\ ~conn[s].fin /\ conn[s].sent < MaxSent
    /\ conn' = [conn EXCEPT ![s].sent = @ + 1, ![s].wire = Append(@, conn[s].sent + 1)]
PeerEnds(s) == Peer(s) /\ Talks(s) /\ ~conn[s].fin /\ conn' = [conn EXCEPT ![s].fin = TRUE]
PeerReceives(s) == Peer(s) /\ Talks(s) /\ conn[s].flight > 0 /\ conn' = [conn EXCEPT ![s].flight = @ - 1]
PeerResets(s) ==
    /\ Peer(s) /\ Talks(s)
    /\ conn' = [conn EXCEPT ![s].err = IF conn[s].fin THEN "pipe" ELSE "reset", ![s].flight = 0]

-----------------------------------------------------------------------------
Step(c) ==
    /\ InCall
    /\ \/ ReadAgain(c) \/ ReadStart(c) \/ ReadGo(c) \/ WriteStart(c) \/ WriteGo(c)
       \/ Fill(c) \/ FillEnd(c) \/ Get(c) \/ GetFails(c) \/ GetTakes(c) \/ Peek(c) \/ PeekEnd(c)
       \/ Scan(c) \/ ScanEnd(c) \/ ReadAll(c) \/ ReadMore(c) \/ ReadAllEnd(c)
       \/ Flush(c) \/ PutStart(c) \/ PutEnd(c) \/ PutAll(c) \/ Pipe(c) \/ PipeNext(c)
       \/ End(c) \/ EndShuts(c) \/ Close(c) \/ CloseEnd(c) \/ Destroy(c) \/ DestroyEnd(c)
       \/ Connected(c) \/ \E s \in Streams : Accepted(c, s)

Program(c) ==
    \/ Accept(c)
    \/ InCall /\ Leave(c)
    \/ \E s \in Streams : OpenFile(c, s) \/ Connect(c, s)
    \/ \E s \in Streams : \E op \in Ops[c] \ {<<"pipe", 0>>} : Calls(c, s, op)
    \/ \E s, t \in Streams : Pipes(c, s, t)

Peers(s) ==
    PeerConnects(s) \/ PeerAnswers(s) \/ PeerSends(s) \/ PeerEnds(s) \/ PeerReceives(s) \/ PeerResets(s)

Up ==
    /\ down = "no"
    /\ \/ \E c \in Coro : Step(c) \/ Program(c)
       \/ InCall /\ \E f \in Fds \cup {0} : Poll(f)
       \/ InCall /\ \E s \in Streams : Peers(s)
Stop == down # "no" /\ UNCHANGED vars
Next == Up \/ Stop
Spec == Init /\ [][Next]_vars

(* What C code and the kernel owe: the running call goes on, a coroutine    *)
(* that calls nothing leaves, and the event loop polls.  The plan ends, so  *)
(* that no event can be passed over for ever.                               *)
Runs == down = "no" /\ InCall /\ ((\E c \in Coro : Step(c) \/ Leave(c)) \/ \E f \in Fds \cup {0} : Poll(f))
Fairness == WF_vars(Runs)
FairSpec == Spec /\ Fairness

-----------------------------------------------------------------------------
(* The variables keep their types: indices stay inside the buffers, one     *)
(* coroutine runs, a descriptor is one stream's.                            *)
BufferOK(b) == b.begin \in 0 .. b.end /\ b.end \in 0 .. b.cap /\ DOMAIN b.data = 0 .. b.cap - 1
StreamTypeOK ==
    /\ cur \in Coro \cup {NoOne} /\ down \in {"no", "aborted", "killed"}
    /\ \A s \in Streams :
        /\ BufferOK(stream[s].in) /\ BufferOK(stream[s].out) /\ (stream[s].tmp # <<>> => BufferOK(stream[s].tmp[1]))
        /\ stream[s].status \in {"OK", "ERROR", "EOF"} /\ stream[s].life \in {"unused", "new", "open", "gone"}
        /\ conn[s].flight \in 0 .. Room /\ conn[s].sent \in 0 .. MaxSent
    /\ \A f \in Fds : file[f] \in Streams \cup {NoOne} /\ (file[f] = NoOne => reg[f] = Absent)
    /\ \A f, g \in Fds : file[f] = file[g] /\ file[f] # NoOne => f = g
    /\ \A c \in Coro : Waits(c) => Head(stack[c]).at \in {"wait", "go"}

(* What the peer sent is what the program got, then what is in the buffer,  *)
(* then what the kernel holds; what the program put is what was written,    *)
(* then what is in the buffer.  Nothing is lost, repeated or out of order,  *)
(* by any path (get, scan, readall, pipe, flush, close), until the stream   *)
(* is closed; when it is freed all was written, unless there was an error.  *)
Count(n) == [i \in 1 .. n |-> i]
IsClosed(s) == \E t \in Streams : s \in stream[t].closed
BytesInOrder ==
    \A s \in Streams :
        /\ IF IsClosed(s) THEN IsPrefix(taken[s], Count(conn[s].sent))
           ELSE taken[s] \o Bytes(Into(s)) \o conn[s].wire = Count(conn[s].sent)
        /\ conn[s].written \o Bytes(stream[s].out) = accepted[s]
        /\ stream[s].life = "gone" /\ stream[s].status # "ERROR" => Size(stream[s].out) = 0

(* Io/Stream.jg:26: at EOF no more bytes may be read.  A stream never says  *)
(* so while something is left in the buffer or in the kernel, or may come.  *)
EofAfterLastByte ==
    \A s \in Streams :
        stream[s].status = "EOF" /\ ~IsClosed(s) =>
            /\ taken[s] \o Bytes(Into(s)) = Count(conn[s].sent) /\ Size(stream[s].in) = 0
            /\ conn[s].fin \/ conn[s].err # "none"

(* A coroutine that reads from a peer that has sent or has ended comes back *)
(* some time: no registration is lost or taken over.  (A peer that does not *)
(* read may stop the process in a blocking write.)                          *)
Reads(s) == \E c \in Coro : \E i \in DOMAIN stack[c] : stack[c][i].do = "read" /\ stack[c][i].s = s
Due(s) == conn[s].wire # <<>> \/ conn[s].fin \/ conn[s].err # "none"
Stalled == \E c \in Coro : Doing(c, "write", "go") /\ conn[S(c)].flight = Room /\ conn[S(c)].err = "none"
ReadersServed == \A s \in Streams : Reads(s) /\ Due(s) ~> ~Reads(s) \/ down # "no" \/ Stalled
=============================================================================
