-------------------------------- MODULE Fifo -------------------------------
(***************************************************************************)
(* What runtime/Queue.jg promises: the elements leave a queue in the order *)
(* in which they entered it.  Queue implements this specification.         *)
(***************************************************************************)
EXTENDS Objects, Sequences

VARIABLES
    elements,   \* what is in the queue, the next to leave first
    taken       \* what the last deq returned

FifoInit == elements = << >> /\ taken = Nil

Enter(o) == elements' = Append(elements, o) /\ UNCHANGED taken

Leave == elements # << >> /\ taken' = Head(elements) /\ elements' = Tail(elements)

LeaveEmpty == elements = << >> /\ taken' = Nil /\ UNCHANGED elements

FifoNext == (\E o \in Object : Enter(o)) \/ Leave \/ LeaveEmpty

FifoSpec == FifoInit /\ [][FifoNext]_<<elements, taken>>
=============================================================================
