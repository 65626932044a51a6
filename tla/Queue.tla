------------------------------- MODULE Queue -------------------------------
(***************************************************************************)
(* runtime/Queue.c: a queue in a circular buffer that doubles when it is   *)
(* full.  front is the slot before the first element, back the slot of the *)
(* last one.  An iterator (QueueIter) goes over the queue at the same      *)
(* time; it is dropped when an element leaves or the buffer grows, after   *)
(* which nothing is said of it.                                            *)
(***************************************************************************)
EXTENDS Objects, Integers, Sequences, FiniteSets

CONSTANTS
    Hints,          \* the capacities that callers ask for
    DefaultSize,    \* QUEUE_DEFAULT_SIZE
    MaxCount        \* bound: elements of a queue

ASSUME HintsAssumption == Hints \subseteq Nat
ASSUME DefaultSizeAssumption == DefaultSize \in Nat \ {0}

VARIABLES
    capacity, front, back, count, data,     \* struct Queue
    taken,      \* what the last deq returned
    owned,      \* references to each object that the queue took and kept
    index, position, seen,  \* QueueIter: index, count, and what it returned
    destroyed   \* Queue__destroy has run

queueVars == <<capacity, front, back, count, data, taken, owned>>
iterVars == <<index, position, seen>>

(* Queue__init(hint), and no iterator yet.                                 *)
QueueInit ==
    /\ \E hint \in Hints :
        /\ capacity = IF hint = 0 THEN DefaultSize ELSE hint
        /\ back = hint - 1 /\ front = hint - 1
    /\ count = 0
    /\ data = [i \in 0 .. capacity - 1 |-> Nil]
    /\ taken = Nil
    /\ owned = [o \in Object |-> 0]
    /\ index = Nil /\ position = 0 /\ seen = << >>
    /\ destroyed = FALSE

(* The slot of the k-th element.                                           *)
Slot(k) == (front + k) % capacity

Elements == [k \in 1 .. count |-> data[Slot(k)]]

DropIter == index' = Nil /\ position' = 0 /\ seen' = << >>

-----------------------------------------------------------------------------
(* The new buffer when the old one is full.  Bug: copied slot by slot.     *)
GrownUnrotated ==
    [i \in 0 .. 2 * capacity - 1 |-> IF i < count THEN data[i] ELSE Nil]
Grown ==
    [i \in 0 .. 2 * capacity - 1 |-> IF i < count THEN data[Slot(i + 1)] ELSE Nil]

(* Queue_enq; enq(nil) has no effect.                                      *)
(* Bug: back runs past the buffer.                                         *)
EnqInPlaceUnwrapped(o) ==
    /\ count < capacity
    /\ back' = back + 1
    /\ data' = [data EXCEPT ![back' % capacity] = o]
    /\ UNCHANGED <<capacity, front, iterVars>>

EnqInPlace(o) ==
    /\ count < capacity
    /\ back' = (back + 1) % capacity
    /\ data' = [data EXCEPT ![back'] = o]
    /\ UNCHANGED <<capacity, front, iterVars>>

EnqGrow(o) ==
    /\ count = capacity
    /\ capacity' = 2 * capacity
    /\ front' = 2 * capacity - 1
    /\ back' = count
    /\ data' = [Grown EXCEPT ![count] = o]
    /\ DropIter

Enq(o) ==
    /\ ~destroyed /\ count < MaxCount
    /\ EnqInPlace(o) \/ EnqGrow(o)
    /\ count' = count + 1
    /\ owned' = [owned EXCEPT ![o] = @ + 1]
    /\ UNCHANGED <<taken, destroyed>>

(* Queue_deq.  The reference of the queue goes to the caller.              *)
(* Bug: it does not.                                                       *)
DeqKeeps ==
    /\ ~destroyed /\ count > 0
    /\ front' = Slot(1)
    /\ taken' = data[front']
    /\ data' = [data EXCEPT ![front'] = Nil]
    /\ count' = count - 1
    /\ DropIter
    /\ UNCHANGED <<capacity, back, owned, destroyed>>

Deq ==
    /\ ~destroyed /\ count > 0
    /\ front' = Slot(1)
    /\ taken' = data[front']
    /\ data' = [data EXCEPT ![front'] = Nil]
    /\ count' = count - 1
    /\ owned' = [owned EXCEPT ![data[front']] = @ - 1]
    /\ DropIter
    /\ UNCHANGED <<capacity, back, destroyed>>

DeqEmpty ==
    /\ ~destroyed /\ count = 0
    /\ taken' = Nil
    /\ UNCHANGED <<capacity, front, back, count, data, owned, iterVars, destroyed>>

(* Queue_first__g and Queue_last__g.                                       *)
First == data[Slot(1)]
Last == data[back]

-----------------------------------------------------------------------------
(* for o in queue: iter(), then more? and next.                            *)
IterStart ==
    /\ ~destroyed /\ index = Nil
    /\ index' = front /\ position' = 0 /\ seen' = << >>
    /\ UNCHANGED <<queueVars, destroyed>>

IterNext ==
    /\ ~destroyed /\ index # Nil /\ position < count
    /\ index' = (index + 1) % capacity
    /\ position' = position + 1
    /\ seen' = Append(seen, data[index'])
    /\ UNCHANGED <<queueVars, destroyed>>

(* Queue__destroy drops the references of the first count slots.           *)
Destroy ==
    /\ ~destroyed
    /\ destroyed' = TRUE
    /\ owned' = [o \in Object |->
                    owned[o] - Cardinality({i \in 0 .. count - 1 : data[i] = o})]
    /\ UNCHANGED <<capacity, front, back, count, data, taken, iterVars>>

QueueNext ==
    \/ \E o \in Object : Enq(o)
    \/ Deq \/ DeqEmpty \/ IterStart \/ IterNext \/ Destroy

QueueSpec == QueueInit /\ [][QueueNext]_<<queueVars, iterVars, destroyed>>

-----------------------------------------------------------------------------
(* The fields keep their types, and enq and deq stay inside the buffer.    *)
QueueTypeOK ==
    /\ capacity \in Nat \ {0}
    /\ front \in -1 .. capacity - 1
    /\ back \in -1 .. capacity - 1
    /\ count \in 0 .. capacity
    /\ data \in [0 .. capacity - 1 -> Object \cup {Nil}]
    /\ taken \in Object \cup {Nil}
    /\ owned \in [Object -> Int]
    /\ destroyed \in BOOLEAN

(* first and last are the ends of the queue, wherever its elements lie in  *)
(* the buffer and however often it has grown.                              *)
EndsMatch ==
    count > 0 => First = Elements[1] /\ Last = Elements[count]

(* The queue owns one reference for each place of an object in it, until   *)
(* it is destroyed.                                                        *)
OwnsElements ==
    ~destroyed => \A o \in Object :
        owned[o] = Cardinality({k \in 1 .. count : Elements[k] = o})

(* Queue.jg:67-69: an iterator returns the elements in sequence, from the  *)
(* next to be dequeued on, also while elements are added behind it.        *)
IterInOrder ==
    index # Nil => seen = SubSeq(Elements, 1, position)

(* Together: first and last, an iterator that lives beside the operations   *)
(* and the owner of the elements agree on what the ring holds.             *)
RingSound == OwnsElements /\ IterInOrder /\ EndsMatch

(* What the program gets: first in, first out.                             *)
Fifos == INSTANCE Fifo WITH elements <- Elements

IsFifo == Fifos!FifoSpec
=============================================================================
