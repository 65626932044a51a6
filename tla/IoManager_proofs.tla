-------------------------- MODULE IoManager_proofs --------------------------
(***************************************************************************)
(* The event loop, for any number of coroutines, tasks and events, when    *)
(* the destructors of objects at most resume coroutines: it never aborts,  *)
(* owns the tasks of its queue, and leaves no request behind.              *)
(*                                                                         *)
(* A step of the loop is a step of the coroutines, so all that holds of    *)
(* them (CoroInv) may be used for the loop.                                *)
(***************************************************************************)
EXTENDS IoManager, Coroutine_proofs, Lists

USE CoroAssumption, NilAssumption, MaxScheduledAssumption

-----------------------------------------------------------------------------
(* run() counts no more tasks than there are: it dequeues no entry that is *)
(* not there, and puts back what it took.                                  *)
LoopTypes ==
    /\ scheduled \in Seq(Coro) /\ ready \subseteq Coro
    /\ active \in Nat /\ loop \in LoopStates
    /\ IF loop = "resumed" THEN /\ next \in Coro /\ count \in 1 .. Len(scheduled) + 1
                                /\ Len(scheduled) <= MaxScheduled
                           ELSE /\ next = Nil /\ count \in 0 .. Len(scheduled)
                                /\ Len(scheduled) <= MaxScheduled + 1
    /\ loop = "boot" => count = 0

LEMMA InitLoopTypes == MgrInit => LoopTypes
  BY EmptySeq DEF MgrInit, LoopTypes, LoopStates

LEMMA NextLoopTypes == LoopTypes /\ [MgrNext]_mgrVars => LoopTypes'
<1> SUFFICES ASSUME LoopTypes, [MgrNext]_mgrVars PROVE LoopTypes'
  OBVIOUS
<1> USE DEF LoopTypes, LoopStates, Loop
<1>0. Len(scheduled) \in Nat /\ scheduled \in Seq(Coro)
  BY LenProperties
<1>1. CASE While
  <2>1. scheduled' = scheduled /\ count' \in {count, Len(scheduled)}
    BY <1>1 DEF While
  <2> QED
    BY <1>0, <1>1, <2>1 DEF While
<1>2. CASE Dequeue
  <2>1. /\ loop = "tasks" /\ count > 0 /\ next' = Head(scheduled)
        /\ scheduled' = Tail(scheduled) /\ loop' = "resumed"
        /\ UNCHANGED <<active, count, ready>>
    BY <1>2 DEF Dequeue
  <2>2. scheduled # << >>
    BY <1>0, <2>1, EmptySeq
  <2>3. /\ Tail(scheduled) \in Seq(Coro) /\ Len(Tail(scheduled)) = Len(scheduled) - 1
        /\ Head(scheduled) \in Coro
    BY <2>2, HeadTailProperties
  <2> QED
    BY <1>0, <2>1, <2>3
<1>3. CASE Requeue
  <2>1. /\ loop = "resumed" /\ loop' \in {"panic", "tasks"} /\ count' = count - 1
        /\ next' = Nil /\ active' \in {active, active + 1} /\ ready' = ready
        /\ scheduled' \in {scheduled, Append(scheduled, next)}
    BY <1>3 DEF Requeue, mgrVars
  <2>2. /\ Append(scheduled, next) \in Seq(Coro)
        /\ Len(Append(scheduled, next)) = Len(scheduled) + 1
    <3>1. scheduled \in Seq(Coro) /\ next \in Coro
      BY <2>1
    <3> QED
      BY <3>1, AppendProperties
  <2> QED
    BY <1>0, <2>1, <2>2, SMTT(20)
<1>4. CASE DropDead
  BY <1>0, <1>4 DEF DropDead
<1>5. CASE TasksDone \/ PollNothing \/ Shutdown
  BY <1>0, <1>5 DEF TasksDone, PollNothing, Shutdown
<1>6. ASSUME NEW c \in Coro, Boot(c) PROVE LoopTypes'
  <2>1. /\ loop = "boot" /\ scheduled' = Append(<< >>, c) /\ loop' = "while"
        /\ UNCHANGED <<active, count, next, ready>>
    BY <1>6 DEF Boot
  <2>2. Append(<< >>, c) \in Seq(Coro) /\ Len(Append(<< >>, c)) = 1
    BY EmptySeq, AppendProperties
  <2> QED
    BY <2>1, <2>2
<1>7. ASSUME NEW c \in Coro, PollEvent(c) PROVE LoopTypes'
  BY <1>0, <1>7 DEF PollEvent
<1>8. ASSUME NEW x \in Stacks, Finish(x) \/ Step(x) PROVE LoopTypes'
  BY <1>8 DEF Finish, Step, loopVars
<1>9. ASSUME NEW c \in Coro, Unwind(c) \/ Switch(c) \/ IoReady(c) PROVE LoopTypes'
  BY <1>9 DEF Unwind, Switch, IoReady, loopVars
<1>10. ASSUME NEW x \in Coro, NEW c \in Coro, Task(x, c) PROVE LoopTypes'
  <2>1. /\ Append(scheduled, c) \in Seq(Coro)
        /\ Len(Append(scheduled, c)) = Len(scheduled) + 1
    BY <1>0, AppendProperties
  <2>2. /\ Len(scheduled) < MaxScheduled /\ scheduled' = Append(scheduled, c)
        /\ UNCHANGED <<active, count, next, loop, ready>>
    BY <1>10 DEF Task
  <2> QED
    BY <1>0, <2>1, <2>2
<1>11. CASE UNCHANGED mgrVars
  BY <1>11 DEF mgrVars, loopVars
<1> HIDE DEF LoopTypes, LoopStates, Loop
<1> QED
  BY <1>1, <1>2, <1>3, <1>4, <1>5, <1>6, <1>7, <1>8, <1>9, <1>10, <1>11
     DEF MgrNext, EventLoop, Stop

-----------------------------------------------------------------------------
(* Every step of the loop is a step of the coroutines.                     *)
LEMMA MgrStep ==
  ASSUME LoopTypes, [MgrNext]_mgrVars
  PROVE  [Next]_vars
<1>1. ASSUME NEW x \in Stacks, NEW c \in Coro,
             Create(x, c, "NEW") \/ Retain(x, c) \/ Release(x, c) \/ Resume(x, c)
      PROVE  Next
  BY <1>1 DEF Next, Program
<1>2. ASSUME NEW c \in Coro, Boot(c) PROVE Next
  BY <1>1, <1>2 DEF Boot, Stacks
<1>3. CASE Dequeue
  <2>1. scheduled # << >>
    BY <1>3, EmptySeq DEF Dequeue, LoopTypes, Loop
  <2>2. Head(scheduled) \in Coro
    BY <2>1, HeadTailProperties DEF LoopTypes
  <2> QED
    BY <1>1, <1>3, <2>2 DEF Dequeue, Stacks
<1>4. CASE DropDead
  <2>1. next \in Coro
    BY <1>4 DEF DropDead, LoopTypes, Loop
  <2> QED
    BY <1>1, <1>4, <2>1 DEF DropDead, Stacks
<1>5. CASE While \/ Requeue \/ TasksDone \/ PollNothing \/ Shutdown
  BY <1>5 DEF While, Requeue, TasksDone, PollNothing, Shutdown
<1>6. ASSUME NEW c \in Coro, PollEvent(c) PROVE [Next]_vars
  BY <1>6 DEF PollEvent, Next
<1>7. ASSUME NEW x \in Stacks, Finish(x) PROVE Next
  BY <1>7 DEF Finish, Next, Stacks
<1>8. ASSUME NEW x \in Stacks, Step(x) PROVE Next
  BY <1>1, <1>8 DEF Step
<1>9. ASSUME NEW c \in Coro, Unwind(c) \/ Switch(c) \/ IoReady(c) PROVE [Next]_vars
  BY <1>9 DEF Unwind, Switch, IoReady, Next
<1>10. ASSUME NEW x \in Coro, NEW c \in Coro, Task(x, c) PROVE Next
  BY <1>1, <1>10 DEF Task, Stacks
<1>11. CASE UNCHANGED mgrVars
  BY <1>11 DEF mgrVars
<1> QED
  BY <1>2, <1>3, <1>4, <1>5, <1>6, <1>7, <1>8, <1>9, <1>10, <1>11
     DEF MgrNext, EventLoop, Stop

(* The event loop is a program of the coroutines.                          *)
LEMMA MgrIsProgram == MgrSpec => Spec /\ []LoopTypes
<1>1. MgrInit => Init
  BY DEF MgrInit
<1>2. LoopTypes /\ [MgrNext]_mgrVars => [Next]_vars
  BY MgrStep
<1> QED
  BY <1>1, <1>2, InitLoopTypes, NextLoopTypes, PTL DEF MgrSpec, Spec

(* What the modules before this one prove of the coroutines.               *)
CoroInv ==
    /\ TypeInv /\ Control /\ Counts /\ Flags /\ Unwinds
    /\ WaitingExact /\ NoPanic

LEMMA CoroInvariant ==
  ASSUME DestructorsResume
  PROVE  MgrSpec => []CoroInv
<1>1. Accounted => WaitingExact
  BY DEF Accounted
<1> QED
  BY <1>1, MgrIsProgram, UnwindingInvariant, AccountedHolds, NoPanicHolds, PTL DEF CoroInv

-----------------------------------------------------------------------------
(* While the main thread has the processor, no coroutine runs.             *)
LEMMA MainAlone ==
  ASSUME CoroInv, current = Main, NEW c \in Coro
  PROVE  status[c] # "RUNNING"
<1> SUFFICES ASSUME status[c] = "RUNNING" PROVE FALSE
  OBVIOUS
<1>1. PICK f \in [Stacks -> Nat] : Depth(f)
  BY DEF CoroInv, Flags, Nested
<1>2. Target(c) \in Stacks
  BY CountTypes DEF CoroInv, Control, StackTypes, Target
<1>3. f[c] = f[Target(c)] + 1 /\ f[c] <= f[Main] /\ f[Main] = 0
  BY <1>1 DEF Depth, Live, Stacks
<1>4. f[c] \in Nat /\ f[Target(c)] \in Nat
  BY <1>2 DEF Stacks
<1> QED
  BY <1>3, <1>4

(* What a step does to a coroutine: it becomes new only when it was free,  *)
(* is freed only when the program has no reference, and stops waiting only *)
(* for an event.                                                           *)
LEMMA StatusStep ==
  ASSUME CoroInv, [Next]_vars, NEW d \in Coro
  PROVE  /\ status'[d] = "NEW" => status[d] \in {"NEW", "FREE"}
         /\ status'[d] = "FREE" => status[d] = "FREE" \/ held[d] = 0
         /\ status[d] = "IO" => status'[d] = "IO" \/ IoResume(d)
<1> DEFINE Goal == /\ status'[d] = "NEW" => status[d] \in {"NEW", "FREE"}
                   /\ status'[d] = "FREE" => status[d] = "FREE" \/ held[d] = 0
                   /\ status[d] = "IO" => status'[d] = "IO" \/ IoResume(d)
<1>0. status \in [Stacks -> Statuses] /\ d \in Stacks
  BY CountTypes DEF CoroInv
<1>1. ASSUME NEW x \in Stacks, NEW c \in Coro, NEW st \in {"NEW", "DEAD"}, Create(x, c, st)
      PROVE  Goal
  BY <1>0, <1>1 DEF Create
<1>2. ASSUME NEW x \in Stacks, NEW c \in Coro, Retain(x, c) \/ Release(x, c) PROVE Goal
  BY <1>0, <1>2 DEF Retain, Release
<1>3. ASSUME NEW x \in Stacks, NEW c \in Coro, Resume(x, c) PROVE Goal
  BY <1>0, <1>3 DEF Resume, SwapInto
<1>4. ASSUME NEW x \in Stacks, ResumeReturn(x) PROVE Goal
  BY <1>0, <1>4 DEF ResumeReturn
<1>5. ASSUME NEW c \in Coro, Yield(c) \/ Exit(c) \/ IoWait(c) PROVE Goal
  <2>1. current = c
    BY <1>5 DEF Yield, Exit, IoWait, Does, At
  <2>2. status[c] = "RUNNING"
    BY <2>1 DEF CoroInv, Control, CurrentRuns
  <2>3. PICK st \in {"SUSPENDED", "DEAD", "IO"} : status' = [status EXCEPT ![c] = st]
    BY <1>5 DEF Yield, Exit, IoWait, SwapOut
  <2> QED
    BY <1>0, <2>2, <2>3
<1>6. ASSUME NEW c \in Coro, YieldReturn(c) \/ Catch(c) \/ IoWaitReturn(c) PROVE Goal
  BY <1>6 DEF YieldReturn, Catch, IoWaitReturn
<1>7. ASSUME NEW c \in Coro, IoResume(c) PROVE Goal
  BY <1>0, <1>7 DEF IoResume
<1>8. CASE IoResumeReturn
  BY <1>8 DEF IoResumeReturn
<1>9. ASSUME NEW x \in Stacks, DestroySuspended(x) PROVE Goal
  BY <1>0, <1>9 DEF DestroySuspended, SwapInto
<1>10. ASSUME NEW x \in Stacks, DestroyIdle(x) PROVE Goal
  <2>1. current = x /\ pc[x] = "destroy" /\ status[reaping[x]] # "SUSPENDED"
    BY <1>10 DEF DestroyIdle, At
  <2>2. status[reaping[x]] \in {"NEW", "DEAD"} /\ held[reaping[x]] = 0
    BY <2>1, DestroyFinds DEF CoroInv
  <2>3. status' = [status EXCEPT ![reaping[x]] = "FREE"]
    BY <1>10, <2>2 DEF DestroyIdle, Free
  <2> QED
    BY <1>0, <2>2, <2>3
<1>11. ASSUME NEW x \in Stacks, DestroyUnwound(x) PROVE Goal
  <2>1. current = x /\ pc[x] = "free"
    BY <1>11 DEF DestroyUnwound, At
  <2>2. status[reaping[x]] = "DEAD" /\ held[reaping[x]] = 0 /\ refcount[reaping[x]] = 1
    BY <2>1, UnwoundFinds DEF CoroInv
  <2>3. status' = [status EXCEPT ![reaping[x]] = "FREE"]
    BY <1>11, <2>2 DEF DestroyUnwound, Free
  <2> QED
    BY <1>0, <2>2, <2>3
<1>12. ASSUME NEW x \in Stacks, DestroyEnd(x) PROVE Goal
  BY <1>12 DEF DestroyEnd
<1>13. CASE UNCHANGED vars
  BY <1>13 DEF vars
<1> QED
  BY <1>1, <1>2, <1>3, <1>4, <1>5, <1>6, <1>7, <1>8, <1>9, <1>10, <1>11, <1>12, <1>13
     DEF Next, Program, Destroy

-----------------------------------------------------------------------------
LEMMA RefsType ==
  ASSUME LoopTypes, NEW c \in Coro
  PROVE  /\ Cardinality(Places(scheduled, c)) \in Nat
         /\ QueueRefs(c) = Cardinality(Places(scheduled, c)) + (IF next = c THEN 1 ELSE 0)
  BY PlacesFinite DEF LoopTypes, QueueRefs, Places

-----------------------------------------------------------------------------
(* The inductive invariant.  run() executes on the main stack: where it is *)
(* in no call, the main thread has the processor.  The task that it has    *)
(* just resumed is started, and is kept by its reference.                  *)
LoopInv ==
    /\ loop \in {"boot", "poll", "shutdown", "exited"} => current = Main /\ pc[Main] = "run"
    /\ loop # "panic" /\ (loop = "boot" => scheduled = << >>)
    /\ loop = "resumed" => status[next] \notin {"NEW", "FREE"}
    /\ QueueOwnsTasks /\ EventsHaveWaiters /\ NoIoAfterShutdown

(* A coroutine in the queue, or in next, exists.                           *)
LEMMA OwnedAllocated ==
  ASSUME CoroInv, LoopTypes, LoopInv, NEW c \in Coro, QueueRefs(c) > 0
  PROVE  held[c] > 0 /\ status[c] # "FREE"
<1>1. held[c] \in Nat /\ QueueRefs(c) \in Nat /\ refcount[c] \in Int
  BY RefsType, CountTypes DEF CoroInv
<1>2. held[c] > 0
  BY <1>1 DEF LoopInv, QueueOwnsTasks
<1>3. refcount[c] = 0 => held[c] = 0
  BY NoReferences DEF CoroInv, Counts
<1> QED
  BY <1>2, <1>3 DEF CoroInv, Counts, FreeUnreferenced

(* A step of the program while the loop is in a call keeps the invariant   *)
(* as long as it drops none of the references of the queue.                *)
LEMMA CallStep ==
  ASSUME CoroInv, LoopTypes, LoopInv, [Next]_vars, ~ (current = Main /\ pc[Main] = "run"),
         UNCHANGED <<next, loop, ready>>, \A c \in Coro : held'[c] >= QueueRefs(c)'
  PROVE  LoopInv'
<1>1. loop \notin {"boot", "poll", "shutdown", "exited"}
  BY DEF LoopInv
<1>2. ASSUME loop = "resumed" PROVE status'[next] \notin {"NEW", "FREE"}
  <2>1. next \in Coro /\ QueueRefs(next) > 0
    BY <1>2, RefsType DEF LoopTypes
  <2>2. held[next] > 0
    BY <2>1, OwnedAllocated
  <2> QED
    BY <1>2, <2>1, <2>2, StatusStep DEF LoopInv
<1>3. EventsHaveWaiters'
  <2>1. ASSUME NEW c \in Coro PROVE ~ IoResume(c)
    BY DEF IoResume, At
  <2> QED
    BY <2>1, StatusStep DEF LoopInv, EventsHaveWaiters, LoopTypes
<1>4. QueueOwnsTasks'
  BY DEF QueueOwnsTasks
<1> QED
  BY <1>1, <1>2, <1>3, <1>4 DEF LoopInv, NoIoAfterShutdown

(* The queue holds the same references as long as nobody touches it.       *)
LEMMA SameRefs ==
  ASSUME UNCHANGED <<scheduled, next>>, NEW c
  PROVE  QueueRefs(c)' = QueueRefs(c)
  BY DEF QueueRefs

LEMMA ProgramStep ==
  ASSUME CoroInv, LoopTypes, LoopInv,
         \/ \E x \in Stacks : Finish(x) \/ Step(x)
         \/ \E c \in Coro : Unwind(c) \/ Switch(c)
  PROVE  LoopInv'
<1>1. UNCHANGED <<scheduled, next, loop, ready>>
  BY DEF Finish, Step, Unwind, Switch, loopVars
<1>2. [Next]_vars
  BY MgrStep DEF MgrNext
<1>3. ~ (current = Main /\ pc[Main] = "run")
  <2>1. ASSUME NEW x \in Stacks, Finish(x)
        PROVE  current = x /\ (x = Main => pc[x] \in {"resume", "ioresume", "destroy", "free", "closure"})
    BY <2>1 DEF Finish, ResumeReturn, Destroy, DestroySuspended, DestroyIdle,
       DestroyUnwound, DestroyEnd, YieldReturn, IoWaitReturn, IoResumeReturn, At
  <2>2. ASSUME NEW x \in Stacks, Step(x) PROVE current = x /\ (x = Main => pc[x] = "closure")
    BY <2>2 DEF Step, Create, Resume, Release, Does, At
  <2>3. ASSUME NEW c \in Coro, Unwind(c) \/ Switch(c) PROVE current = c
    BY <2>3 DEF Unwind, Switch, Catch, Yield, Exit, IoWait, Does, At
  <2> QED
    BY <2>1, <2>2, <2>3
<1>4. \A c \in Coro : QueueRefs(c)' = QueueRefs(c) /\ QueueRefs(c) \in Nat /\ held[c] \in Nat
  BY <1>1, SameRefs, RefsType, CountTypes DEF CoroInv
<1>5. \A c \in Coro : held[c] >= QueueRefs(c)
  BY DEF LoopInv, QueueOwnsTasks
<1>6. \A c \in Coro : held'[c] >= QueueRefs(c)'
  <2>1. CASE held' = held
    BY <1>4, <1>5, <2>1
  <2>2. ASSUME NEW x \in Stacks, NEW d \in Coro, Create(x, d, "NEW")
        PROVE  \A c \in Coro : held'[c] >= QueueRefs(c)
    <3>1. status[d] = "FREE" /\ held' = [held EXCEPT ![d] = 1]
      BY <2>2 DEF Create
    <3>2. ~ (QueueRefs(d) > 0)
      BY <3>1, OwnedAllocated
    <3> QED
      BY <1>4, <1>5, <3>1, <3>2, CountTypes DEF CoroInv
  <2>3. ASSUME NEW x \in Stacks, NEW d \in Coro, held[d] > QueueRefs(d), Release(x, d)
        PROVE  \A c \in Coro : held'[c] >= QueueRefs(c)
    <3>1. held' = [held EXCEPT ![d] = @ - 1]
      BY <2>3 DEF Release
    <3> QED
      BY <1>4, <1>5, <2>3, <3>1, CountTypes DEF CoroInv
  <2>4. ASSUME NEW x \in Stacks, Step(x)
        PROVE  \/ held' = held
               \/ \E d \in Coro : \/ Create(x, d, "NEW")
                                  \/ held[d] > QueueRefs(d) /\ Release(x, d)
    BY <2>4 DEF Step, Resume
  <2>5. ASSUME NEW x \in Stacks, Finish(x) PROVE held' = held
    BY <2>5 DEF Finish, ResumeReturn, Destroy, DestroySuspended, DestroyIdle,
       DestroyUnwound, DestroyEnd, YieldReturn, IoWaitReturn, IoResumeReturn
  <2>6. ASSUME NEW c \in Coro, Unwind(c) \/ Switch(c) PROVE held' = held
    BY <2>6 DEF Unwind, Switch, Catch, Yield, Exit, IoWait
  <2>7. CASE held' # held
    <3>1. \A c \in Coro : held'[c] >= QueueRefs(c)
      BY <2>2, <2>3, <2>4, <2>5, <2>6, <2>7
    <3> QED
      BY <1>4, <3>1
  <2> QED
    BY <2>1, <2>7
<1> QED
  BY <1>1, <1>2, <1>3, <1>6, CallStep

(* task() takes the reference that the new entry of the queue owns.        *)
LEMMA TaskStep ==
  ASSUME CoroInv, LoopTypes, LoopInv, NEW x \in Coro, NEW d \in Coro, Task(x, d)
  PROVE  LoopInv'
<1>1. /\ Retain(x, d) /\ scheduled' = Append(scheduled, d)
      /\ UNCHANGED <<next, loop, ready>>
  BY DEF Task
<1>2. [Next]_vars /\ current = x /\ held' = [held EXCEPT ![d] = @ + 1]
  BY <1>1 DEF Next, Program, Retain, Does, At, Stacks
<1>3. \A c \in Coro : QueueRefs(c)' = QueueRefs(c) + (IF d = c THEN 1 ELSE 0)
  <2>1. LoopTypes'
    BY NextLoopTypes DEF MgrNext
  <2>2. scheduled \in Seq(Coro)
    BY DEF LoopTypes
  <2>3. ASSUME NEW c \in Coro
        PROVE  /\ Cardinality(Places(scheduled, c)) \in Nat
               /\ QueueRefs(c)' = Cardinality(Places(scheduled', c)) + (IF next = c THEN 1 ELSE 0)
    BY <1>1, <2>1, RefsType DEF QueueRefs, Places
  <2> QED
    BY <1>1, <2>2, <2>3, PlacesAppend, RefsType
<1>4. \A c \in Coro : held'[c] >= QueueRefs(c)'
  <2>1. held'[d] = held[d] + 1 /\ \A c \in Coro : c # d => held'[c] = held[c]
    BY <1>2, CountTypes DEF CoroInv
  <2>2. \A c \in Coro : held[c] >= QueueRefs(c) /\ held[c] \in Nat /\ QueueRefs(c) \in Nat
    BY RefsType, CountTypes DEF CoroInv, LoopInv, QueueOwnsTasks
  <2> QED
    BY <1>3, <2>1, <2>2
<1> QED
  BY <1>1, <1>2, <1>4, CallStep

(* The steps of the loop that call nothing.                                *)
LEMMA LoopStep ==
  ASSUME CoroInv, LoopTypes, LoopInv,
         While \/ TasksDone \/ PollNothing \/ Shutdown \/ \E c \in Coro : IoReady(c)
  PROVE  LoopInv'
<1>1. UNCHANGED <<vars, scheduled, next>>
  BY DEF While, TasksDone, PollNothing, Shutdown, IoReady, loopVars
<1>2. QueueOwnsTasks'
  BY <1>1, SameRefs DEF vars, LoopInv, QueueOwnsTasks
<1>3. EventsHaveWaiters'
  BY <1>1 DEF While, TasksDone, PollNothing, Shutdown, IoReady, vars, LoopInv, EventsHaveWaiters
<1>4. loop' \notin {"panic", "resumed"} \/ loop' = loop
  BY DEF While, TasksDone, PollNothing, Shutdown, IoReady, loopVars
<1>5. loop' = "boot" => loop = "boot"
  BY DEF While, TasksDone, PollNothing, Shutdown, IoReady, loopVars
<1>6. loop' \in {"poll", "shutdown", "exited"} => current = Main /\ pc[Main] = "run"
  BY DEF While, TasksDone, PollNothing, Shutdown, IoReady, loopVars, Loop, At, LoopInv
<1>7. NoIoAfterShutdown'
  <2>1. ASSUME waiting <= 0, NEW c \in Coro PROVE status[c] # "IO"
    <3>1. IsFiniteSet(Waiters)
      BY CoroAssumption, FS_Subset DEF Waiters
    <3>2. Cardinality(Waiters) \in Nat /\ waiting = Cardinality(Waiters)
      BY <3>1, FS_CardinalityType DEF CoroInv, WaitingExact, Waiters
    <3>3. Waiters = {}
      BY <2>1, <3>1, <3>2, FS_EmptySet
    <3> QED
      BY <3>3 DEF Waiters, CoroInv, Control, PlaceMatches
  <2>2. loop' = "shutdown" => loop = "shutdown" \/ ~ (waiting > 0)
    BY DEF While, TasksDone, PollNothing, Shutdown, IoReady, loopVars
  <2>3. loop' = "exited" => loop \in {"shutdown", "exited"}
    BY DEF While, TasksDone, PollNothing, Shutdown, IoReady, loopVars, Loop
  <2>4. waiting \in Int
    BY DEF CoroInv, TypeInv, TypeOK
  <2> QED
    BY <1>1, <2>1, <2>2, <2>3, <2>4 DEF vars, LoopInv, NoIoAfterShutdown
<1> QED
  BY <1>1, <1>2, <1>3, <1>4, <1>5, <1>6, <1>7 DEF vars, LoopInv

LEMMA BootStep ==
  ASSUME CoroInv, LoopTypes, LoopInv, NEW d \in Coro, Boot(d)
  PROVE  LoopInv'
<1>1. /\ loop = "boot" /\ Create(Main, d, "NEW") /\ scheduled' = Append(<< >>, d)
      /\ loop' = "while" /\ UNCHANGED <<next, ready>> /\ next = Nil /\ scheduled = << >>
  BY DEF Boot, Loop, LoopTypes, LoopInv
<1>2. [Next]_vars /\ held' = [held EXCEPT ![d] = 1]
  BY <1>1 DEF Next, Program, Create, Stacks
<1>3. \A c \in Coro : QueueRefs(c)' = (IF d = c THEN 1 ELSE 0)
  <2>1. ASSUME NEW c \in Coro PROVE Cardinality(Places(<< >>, c)) = 0
    <3>1. Places(<< >>, c) = {}
      BY DEF Places
    <3> QED
      BY <3>1, FS_EmptySet
  <2>2. << >> \in Seq(Coro)
    BY EmptySeq
  <2>3. ASSUME NEW c \in Coro
        PROVE  QueueRefs(c)' = Cardinality(Places(scheduled', c)) + 0
    BY <1>1 DEF QueueRefs, Places
  <2>4. ASSUME NEW c \in Coro
        PROVE  Cardinality(Places(Append(<< >>, d), c))
                 = Cardinality(Places(<< >>, c)) + (IF d = c THEN 1 ELSE 0)
    <3>1. ASSUME NEW list \in Seq(Coro)
          PROVE  Cardinality(Places(Append(list, d), c))
                   = Cardinality(Places(list, c)) + (IF d = c THEN 1 ELSE 0)
      BY PlacesAppend
    <3> QED
      BY <2>2, <3>1
  <2> QED
    BY <1>1, <2>1, <2>3, <2>4
<1>4. QueueOwnsTasks'
  <2>1. held \in [Coro -> Nat]
    BY CountTypes DEF CoroInv
  <2>2. \A c \in Coro : held'[c] = IF c = d THEN 1 ELSE held[c]
    BY <1>2, <2>1
  <2>3. \A c \in Coro : held'[c] >= QueueRefs(c)'
    BY <1>3, <2>1, <2>2
  <2> QED
    BY <2>3 DEF QueueOwnsTasks
<1>5. EventsHaveWaiters'
  <2>1. \A c \in Coro : status[c] = "IO" => status'[c] = "IO"
    BY <1>1, CountTypes DEF Create, CoroInv
  <2> QED
    BY <1>1, <2>1 DEF LoopInv, EventsHaveWaiters, LoopTypes
<1> QED
  BY <1>1, <1>4, <1>5 DEF LoopInv, NoIoAfterShutdown

(* The reference to a task goes from the queue to next.                    *)
LEMMA DequeueStep ==
  ASSUME CoroInv, LoopTypes, LoopInv, Dequeue
  PROVE  LoopInv'
<1>1. /\ loop = "tasks" /\ next = Nil /\ scheduled # << >> /\ loop' = "resumed"
      /\ scheduled \in Seq(Coro) /\ next' = Head(scheduled)
      /\ scheduled' = Tail(scheduled) /\ ready' = ready
  BY EmptySeq DEF Dequeue, Loop, LoopTypes
<1>2. Head(scheduled) \in Coro
  BY <1>1, HeadTailProperties
<1> DEFINE h == Head(scheduled)
<1>3. \/ status[h] \in {"NEW", "SUSPENDED"} /\ Resume(Main, h)
      \/ status[h] \notin {"NEW", "SUSPENDED"} /\ UNCHANGED vars
  BY DEF Dequeue
<1>4. held' = held /\ \A c \in Coro : status[c] = "IO" => status'[c] = "IO"
  BY <1>2, <1>3, CountTypes DEF Resume, SwapInto, vars, CoroInv
<1>5. \A c \in Coro : QueueRefs(c)' = QueueRefs(c)
  <2>1. ASSUME NEW c \in Coro
        PROVE  QueueRefs(c)' = Cardinality(Places(scheduled', c)) + (IF next' = c THEN 1 ELSE 0)
    BY DEF QueueRefs, Places
  <2>2. ASSUME NEW c \in Coro PROVE QueueRefs(c) = Cardinality(Places(scheduled, c))
    BY <1>1, RefsType
  <2> QED
    BY <1>1, <2>1, <2>2, PlacesTail
<1>6. QueueOwnsTasks'
  BY <1>4, <1>5 DEF LoopInv, QueueOwnsTasks
<1>7. EventsHaveWaiters'
  BY <1>1, <1>4 DEF LoopInv, EventsHaveWaiters, LoopTypes
<1>8. status'[next'] \notin {"NEW", "FREE"}
  <2>1. QueueRefs(h) > 0
    <3>1. Cardinality(Places(scheduled, h)) = Cardinality(Places(Tail(scheduled), h)) + 1
      BY <1>1, PlacesTail
    <3>2. Cardinality(Places(Tail(scheduled), h)) \in Nat
      BY <1>1, HeadTailProperties, PlacesFinite
    <3> QED
      BY <1>1, <1>2, <3>1, <3>2, RefsType
  <2>2. status[h] # "FREE"
    BY <1>2, <2>1, OwnedAllocated
  <2>3. status'[h] = status[h] \/ status'[h] = "RUNNING"
    BY <1>2, <1>3, CountTypes DEF Resume, SwapInto, vars, CoroInv
  <2>4. status[h] = "NEW" => status'[h] = "RUNNING"
    BY <1>2, <1>3, CountTypes DEF Resume, SwapInto, CoroInv
  <2> QED
    BY <1>1, <2>2, <2>3, <2>4
<1> QED
  BY <1>1, <1>6, <1>7, <1>8 DEF LoopInv, NoIoAfterShutdown

(* ... and back, or is dropped.                                            *)
LEMMA RequeueStep ==
  ASSUME CoroInv, LoopTypes, LoopInv, Requeue
  PROVE  LoopInv'
<1>1. /\ loop = "resumed" /\ next \in Coro /\ current = Main /\ next' = Nil
      /\ UNCHANGED <<vars, ready>> /\ scheduled \in Seq(Coro)
  BY DEF Requeue, Loop, At, LoopTypes
<1>2. status[next] \notin {"RUNNING", "NEW"}
  BY <1>1, MainAlone DEF LoopInv
<1>3. scheduled' = Append(scheduled, next) /\ loop' = "tasks"
  BY <1>2 DEF Requeue
<1>4. \A c \in Coro : QueueRefs(c)' = QueueRefs(c)
  <2>1. ASSUME NEW c \in Coro
        PROVE  QueueRefs(c)' = Cardinality(Places(scheduled', c)) + 0
    BY <1>1 DEF QueueRefs, Places
  <2> QED
    BY <1>1, <1>3, <2>1, PlacesAppend, RefsType
<1> QED
  BY <1>1, <1>3, <1>4 DEF LoopInv, QueueOwnsTasks, EventsHaveWaiters, NoIoAfterShutdown, vars

LEMMA DropDeadStep ==
  ASSUME CoroInv, LoopTypes, LoopInv, DropDead
  PROVE  LoopInv'
<1>1. /\ loop = "resumed" /\ next \in Coro /\ next' = Nil /\ loop' = "tasks"
      /\ scheduled' = scheduled /\ ready' = ready /\ Release(Main, next)
  BY DEF DropDead, Loop, LoopTypes
<1>2. held' = [held EXCEPT ![next] = @ - 1] /\ status' = status
  BY <1>1 DEF Release
<1>3. \A c \in Coro : QueueRefs(c)' = QueueRefs(c) - (IF next = c THEN 1 ELSE 0)
  <2>1. ASSUME NEW c \in Coro
        PROVE  QueueRefs(c)' = Cardinality(Places(scheduled, c)) + 0
    BY <1>1 DEF QueueRefs, Places
  <2> QED
    BY <2>1, RefsType
<1>4. QueueOwnsTasks'
  BY <1>1, <1>2, <1>3, RefsType, CountTypes DEF CoroInv, LoopInv, QueueOwnsTasks
<1> QED
  BY <1>1, <1>2, <1>4 DEF LoopInv, EventsHaveWaiters, NoIoAfterShutdown

(* An event is taken from the kernel when its coroutine goes on.           *)
LEMMA PollEventStep ==
  ASSUME CoroInv, LoopTypes, LoopInv, NEW d \in Coro, PollEvent(d)
  PROVE  LoopInv'
<1>1. /\ loop = "poll" /\ loop' = "while" /\ ready' = ready \ {d}
      /\ UNCHANGED <<scheduled, next>> /\ (IoResume(d) \/ UNCHANGED vars)
  BY DEF PollEvent, Loop
<1>2. held' = held /\ \A c \in Coro : c # d => status'[c] = status[c]
  BY <1>1, CountTypes DEF IoResume, vars, CoroInv
<1>3. QueueOwnsTasks'
  BY <1>1, <1>2, SameRefs DEF LoopInv, QueueOwnsTasks
<1>4. EventsHaveWaiters'
  BY <1>1, <1>2 DEF LoopInv, EventsHaveWaiters, LoopTypes
<1> QED
  BY <1>1, <1>3, <1>4 DEF LoopInv, NoIoAfterShutdown

LEMMA NextLoopInv == CoroInv /\ LoopTypes /\ LoopInv /\ [MgrNext]_mgrVars => LoopInv'
<1> SUFFICES ASSUME CoroInv, LoopTypes, LoopInv, [MgrNext]_mgrVars PROVE LoopInv'
  OBVIOUS
<1>1. CASE EventLoop
  BY <1>1, LoopStep, BootStep, DequeueStep, RequeueStep, DropDeadStep, PollEventStep
     DEF EventLoop
<1>2. CASE UNCHANGED mgrVars
  BY <1>2, SameRefs DEF mgrVars, loopVars, vars, LoopInv, QueueOwnsTasks, EventsHaveWaiters,
     NoIoAfterShutdown
<1> QED
  BY <1>1, <1>2, LoopStep, TaskStep, ProgramStep DEF MgrNext, Stop

LEMMA InitLoopInv == MgrInit => LoopInv
<1> SUFFICES ASSUME MgrInit PROVE LoopInv
  OBVIOUS
<1>1. /\ loop = "boot" /\ scheduled = << >> /\ ready = {} /\ next = Nil
      /\ current = Main /\ pc[Main] = "run" /\ \A c \in Coro : held[c] = 0
  BY DEF MgrInit, Init, Stacks
<1>2. \A c \in Coro : QueueRefs(c) = 0
  <2>1. LoopTypes
    BY InitLoopTypes
  <2>2. ASSUME NEW c \in Coro PROVE Cardinality(Places(scheduled, c)) = 0
    <3>1. Places(scheduled, c) = {}
      BY <1>1 DEF Places
    <3> QED
      BY <3>1, FS_EmptySet
  <2> QED
    BY <1>1, <2>1, <2>2, RefsType
<1> QED
  BY <1>1, <1>2 DEF LoopInv, QueueOwnsTasks, EventsHaveWaiters, NoIoAfterShutdown

LEMMA MgrInvariant ==
  ASSUME DestructorsResume
  PROVE  MgrSpec => [](CoroInv /\ LoopTypes /\ LoopInv)
<1>1. CoroInv /\ LoopTypes /\ LoopInv /\ [MgrNext]_mgrVars => LoopInv'
  BY NextLoopInv
<1> QED
  BY <1>1, InitLoopInv, CoroInvariant, MgrIsProgram, PTL DEF MgrSpec

-----------------------------------------------------------------------------
(* The event loop is a program of the runtime: whatever holds of the       *)
(* coroutines for any program holds under the loop, too.                   *)
THEOREM LoopUsesCoroutines == MgrSpec => Spec
  BY MgrIsProgram, PTL

(* No order of resumes, events and task() calls makes the loop abort, find *)
(* a task in an unexpected state, lose the reference to one, or receive an *)
(* event for a coroutine that does not wait.                               *)
THEOREM LoopSoundHolds ==
  ASSUME DestructorsResume
  PROVE  MgrSpec => []LoopSound
<1>1. ASSUME CoroInv, LoopTypes, LoopInv PROVE LoopSound
  <2>1. MgrTypeOK
    BY <1>1, LenProperties DEF CoroInv, TypeInv, LoopTypes, MgrTypeOK, One
  <2> QED
    BY <1>1, <2>1 DEF CoroInv, NoPanic, LoopInv, LoopSound, LoopNeverPanics
<1> QED
  BY <1>1, MgrInvariant, PTL

(* run() returns only when nobody waits for I/O: no event is left to be    *)
(* delivered after the poll handle is closed.                              *)
THEOREM NoIoAfterShutdownHolds ==
  ASSUME DestructorsResume
  PROVE  MgrSpec => []NoIoAfterShutdown
<1>1. LoopInv => NoIoAfterShutdown
  BY DEF LoopInv
<1> QED
  BY <1>1, MgrInvariant, PTL
=============================================================================
