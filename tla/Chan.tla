-------------------------------- MODULE Chan --------------------------------
(***************************************************************************)
(* The channel of runtime/Chan.jg, shared by coroutines.                   *)
(*                                                                         *)
(* A channel operation runs without interruption until it yields or        *)
(* resumes a coroutine, so a step is the code between two switches of the  *)
(* stack (CallStack).  Whoever is resumed runs inside the operation of its *)
(* resumer, and both may go on to any operation of the channel.            *)
(*                                                                         *)
(* An item is identified with the coroutine that put it.  A for loop over  *)
(* the channel calls more?() and then next().                              *)
(***************************************************************************)
EXTENDS CallStack, Integers, Sequences

CONSTANTS
    Tasks,      \* the coroutines that the event loop resumes, too
    MaxLimit    \* bound: the greatest buffer limit

ASSUME TasksAssumption == Tasks \subseteq Coro
ASSUME MaxLimitAssumption == MaxLimit \in Nat

VARIABLES
    limit, queue, state, reader, writer,    \* the fields of Chan
    pc      \* "run", or the loop a coroutine yields in: "await" or "put"

chan == <<limit, queue, state, reader, writer>>
chanVars == <<stackVars, chan, pc>>

ChanInit ==
    /\ life = [c \in Coro |-> "ready"] /\ under = [c \in Coro |-> Nil] /\ top = Main
    /\ limit \in 0 .. MaxLimit
    /\ queue = << >> /\ state = "OPEN" /\ reader = << >> /\ writer = << >>
    /\ pc = [c \in Coro |-> "run"]

At(c, p) == top = c /\ pc[c] = p

(* resume of a coroutine: nothing unless it is suspended.                  *)
Resume(c) == IF life[c] = "ready" THEN Call(c) ELSE UNCHANGED stackVars

(* The first of a list of waiting coroutines leaves it and is resumed.     *)
Wake(list) == IF list = << >> THEN UNCHANGED stackVars ELSE Resume(Head(list))
Woken(list) == IF list = << >> THEN list ELSE Tail(list)

YieldAt(c, p) == Leave(c, "ready") /\ pc' = [pc EXCEPT ![c] = p]

-----------------------------------------------------------------------------
(* await(): the caller waits while the channel is empty and open.          *)
(* Bug: the loop does not look at the state.                               *)
ReadBlocksClosed == queue = << >>
ReadBlocks == queue = << >> /\ state = "OPEN"

Await(c) ==
    /\ At(c, "run") /\ ReadBlocks
    /\ reader' = Append(reader, c)
    /\ YieldAt(c, "await")
    /\ UNCHANGED <<limit, queue, state, writer>>

AwaitAgain(c) ==
    /\ At(c, "await") /\ ReadBlocks
    /\ YieldAt(c, "await")
    /\ UNCHANGED chan

(* next(), after more?() or not: takes the item and wakes up a writer.     *)
(* Bug: no writer is woken up.                                             *)
NextSilent(c) ==
    /\ At(c, "run") \/ At(c, "await")
    /\ queue # << >>
    /\ queue' = Tail(queue)
    /\ pc' = [pc EXCEPT ![c] = "run"]
    /\ UNCHANGED <<stackVars, limit, state, reader, writer>>

Next(c) ==
    /\ At(c, "run") \/ At(c, "await")
    /\ queue # << >>
    /\ queue' = Tail(queue)
    /\ pc' = [pc EXCEPT ![c] = "run"]
    /\ writer' = Woken(writer)
    /\ Wake(writer)
    /\ UNCHANGED <<limit, state, reader>>

(* more?() is false on a closed, empty channel; next() there returns nil,  *)
(* and wakes up a writer all the same.                                     *)
NoMore(c) ==
    /\ At(c, "run") \/ At(c, "await")
    /\ queue = << >> /\ ~ReadBlocks
    /\ pc' = [pc EXCEPT ![c] = "run"]
    /\ \/ UNCHANGED <<stackVars, writer>>
       \/ writer' = Woken(writer) /\ Wake(writer)
    /\ UNCHANGED <<limit, queue, state, reader>>

-----------------------------------------------------------------------------
(* put(): waits for a reader, or for a place in the buffer.                *)
(* Bug: one item too many.                                                 *)
PutBlocksLate == IF limit = 0 THEN reader = << >> ELSE Len(queue) > limit
PutBlocks == IF limit = 0 THEN reader = << >> ELSE Len(queue) >= limit

PutWait(c) ==
    /\ At(c, "run") /\ state = "OPEN" /\ PutBlocks
    /\ writer' = Append(writer, c)
    /\ YieldAt(c, "put")
    /\ UNCHANGED <<limit, queue, state, reader>>

PutAgain(c) ==
    /\ At(c, "put") /\ PutBlocks
    /\ YieldAt(c, "put")
    /\ UNCHANGED chan

(* The item is posted, and notify() wakes up a reader.  A writer that had  *)
(* to wait does not look at the state again.                               *)
(* Bug: no reader is woken up.                                             *)
PostSilent(c) ==
    /\ (At(c, "run") /\ state = "OPEN") \/ At(c, "put")
    /\ ~PutBlocks
    /\ queue' = Append(queue, c)
    /\ pc' = [pc EXCEPT ![c] = "run"]
    /\ UNCHANGED <<stackVars, limit, state, reader, writer>>

Post(c) ==
    /\ (At(c, "run") /\ state = "OPEN") \/ At(c, "put")
    /\ ~PutBlocks
    /\ queue' = Append(queue, c)
    /\ pc' = [pc EXCEPT ![c] = "run"]
    /\ reader' = Woken(reader)
    /\ Wake(reader)
    /\ UNCHANGED <<limit, state, writer>>

(* close() wakes up one reader.                                            *)
Close(c) ==
    /\ At(c, "run")
    /\ state' = "CLOSED"
    /\ reader' = Woken(reader)
    /\ Wake(reader)
    /\ UNCHANGED <<limit, queue, writer, pc>>

-----------------------------------------------------------------------------
(* The rest of a program: a coroutine yields, ends, or resumes one that is *)
(* not inside a channel operation; the event loop resumes its tasks.       *)
Yield(c) == At(c, "run") /\ YieldAt(c, "run") /\ UNCHANGED chan

Exit(c) == At(c, "run") /\ Leave(c, "dead") /\ UNCHANGED <<chan, pc>>

Start(c) ==
    /\ top # Main => pc[top] = "run"
    /\ pc[c] = "run" \/ (c \in Tasks /\ top = Main)
    /\ Call(c)
    /\ UNCHANGED <<chan, pc>>

Op(c) ==
    \/ Await(c) \/ AwaitAgain(c) \/ Next(c) \/ NoMore(c)
    \/ PutWait(c) \/ PutAgain(c) \/ Post(c) \/ Close(c)

ChanNext == \E c \in Coro : Op(c) \/ Yield(c) \/ Exit(c) \/ Start(c)

ChanSpec == ChanInit /\ [][ChanNext]_chanVars

(* A coroutine that has the processor goes on, and gives it up some time;  *)
(* the event loop resumes each of its tasks again and again.               *)
Fairness ==
    \A c \in Coro :
        /\ WF_chanVars(Op(c))
        /\ SF_chanVars(Yield(c) \/ Exit(c))
        /\ c \in Tasks => SF_chanVars(top = Main /\ Start(c))

FairChanSpec == ChanSpec /\ Fairness

-----------------------------------------------------------------------------
InAwait == {c \in Coro : pc[c] = "await"}
InPut == {c \in Coro : pc[c] = "put"}

(* A list names no coroutine twice, all of the set that are suspended, and *)
(* nobody else.                                                            *)
Lists(list, set) ==
    /\ \A i, j \in DOMAIN list : list[i] = list[j] => i = j
    /\ {c \in set : life[c] = "ready"} \subseteq {list[i] : i \in DOMAIN list}
    /\ {list[i] : i \in DOMAIN list} \subseteq set

(* The variables keep their types, and the buffer its limit: an unbuffered *)
(* channel holds one item while it goes from writer to reader.             *)
ChanTypeOK ==
    /\ life \in [Coro -> {"ready", "running", "dead"}]
    /\ under \in [Coro -> Stacks \cup {Nil}] /\ top \in Stacks
    /\ limit \in 0 .. MaxLimit
    /\ queue \in Seq(Coro) /\ reader \in Seq(Coro) /\ writer \in Seq(Coro)
    /\ state \in {"OPEN", "CLOSED"}
    /\ pc \in [Coro -> {"run", "await", "put"}]
    /\ state = "OPEN" => Len(queue) <= IF limit = 0 THEN 1 ELSE limit

(* While the channel is open, notify() and next() resume only coroutines   *)
(* that wait, and everyone who waits is listed to be resumed: no entry is  *)
(* stale, lost or doubled, although the event loop resumes waiters too and *)
(* whoever is resumed goes on to other operations inside the resume.       *)
(* Writers of an unbuffered channel are left out, see PutMeetsReader.      *)
WaitersListed ==
    state = "OPEN" => /\ Lists(reader, InAwait)
                      /\ limit > 0 => Lists(writer, InPut)

(* Together, with the number of items a channel may hold.                  *)
WaitersSound == ChanTypeOK /\ WaitersListed

(* When every coroutine has stopped, no reader waits beside an item and no *)
(* writer waits beside a free place.                                       *)
NoLostWakeup ==
    top = Main => /\ InAwait # {} /\ state = "OPEN" => queue = << >>
                  /\ InPut # {} /\ limit > 0 => Len(queue) >= limit

(* On an unbuffered channel put() hands its item over: the reader that it  *)
(* resumes takes the item before anybody else goes on.                     *)
HandedOver ==
    state = "OPEN" /\ limit = 0 /\ queue # << >> => top \in InAwait

(* A reader and a writer do not wait for each other: put() waits until the *)
(* previous value was consumed, and then posts (Chan.jg:129-130).          *)
PutMeetsReader ==
    top = Main /\ state = "OPEN" => InPut = {} \/ InAwait = {}

(* A reader that the event loop schedules finds out, at least.             *)
TasksSeeClose ==
    \A c \in Tasks : (state = "CLOSED" /\ pc[c] = "await") ~> pc[c] # "await"
=============================================================================
