----------------------------- MODULE IoManager -----------------------------
(***************************************************************************)
(* The event loop of a Jogo program: Io::Manager (runtime/Io/Manager.jg,   *)
(* Manager.c for Linux), started by Boot/Main.jg on the main thread.       *)
(*                                                                         *)
(* It composes with Coroutine: the event loop is what the Main stack of    *)
(* that module executes, and the coroutines may now hand coroutines to the *)
(* loop with task().  Every step is one step of Coroutine, or a step of    *)
(* the loop or of the kernel that leaves the coroutines as they are.       *)
(***************************************************************************)
EXTENDS Coroutine

CONSTANT MaxScheduled   \* bound: entries of the scheduled queue

ASSUME MaxScheduledAssumption == MaxScheduled \in Nat \ {0}

VARIABLES
    scheduled,  \* Manager.scheduled, a queue of coroutines
    active,     \* Manager.active
    count,      \* the local variable count of run()
    next,       \* the local variable next of run()
    loop,       \* where run() stands, see LoopStates
    ready       \* coroutines registered for an event that has occurred

loopVars == <<scheduled, active, count, next, loop>>
mgrVars == <<vars, loopVars, ready>>

(* "boot" before Boot::Main, then run(): its while condition, the inner    *)
(* loop over the tasks, the code after next.resume(), and poll().          *)
LoopStates == {"boot", "while", "tasks", "resumed", "poll", "shutdown",
               "exited", "panic"}

MgrInit ==
    /\ Init
    /\ scheduled = << >> /\ active = 0 /\ count = 0 /\ next = Nil
    /\ loop = "boot" /\ ready = {}

Loop(l) == At(Main, "run") /\ loop = l

(* References to c that the queue and the local variable next own.         *)
QueueRefs(c) ==
    Cardinality({i \in DOMAIN scheduled : scheduled[i] = c})
    + (IF next = c THEN 1 ELSE 0)

-----------------------------------------------------------------------------
(* Boot/Main.jg: main() becomes a coroutine and the first task.            *)
Boot(c) ==
    /\ Loop("boot")
    /\ Create(Main, c, "NEW")
    /\ scheduled' = <<c>>
    /\ loop' = "while"
    /\ UNCHANGED <<active, count, next, ready>>

(* while scheduled.count > 0 or waiting > 0                                *)
(* Bugs: the loop ends when it has no tasks; it dequeues one too many.     *)
WhileTasks ==
    /\ Loop("while")
    /\ IF scheduled # << >>
       THEN count' = Len(scheduled) /\ active' = 0 /\ loop' = "tasks"
       ELSE loop' = "shutdown" /\ UNCHANGED <<count, active>>
    /\ UNCHANGED <<vars, scheduled, next, ready>>

WhileOneMore ==
    /\ Loop("while")
    /\ IF scheduled # << >> \/ waiting > 0
       THEN count' = Len(scheduled) + 1 /\ active' = 0 /\ loop' = "tasks"
       ELSE loop' = "shutdown" /\ UNCHANGED <<count, active>>
    /\ UNCHANGED <<vars, scheduled, next, ready>>

While ==
    /\ Loop("while")
    /\ IF scheduled # << >> \/ waiting > 0
       THEN count' = Len(scheduled) /\ active' = 0 /\ loop' = "tasks"
       ELSE loop' = "shutdown" /\ UNCHANGED <<count, active>>
    /\ UNCHANGED <<vars, scheduled, next, ready>>

(* next = scheduled.deq() and next.resume(), which may return at once.     *)
Dequeue ==
    /\ Loop("tasks") /\ count > 0
    /\ next' = Head(scheduled)
    /\ scheduled' = Tail(scheduled)
    /\ loop' = "resumed"
    /\ IF status[Head(scheduled)] \in {"NEW", "SUSPENDED"}
       THEN Resume(Main, Head(scheduled))
       ELSE UNCHANGED vars
    /\ UNCHANGED <<active, count, ready>>

(* A task that is not DEAD goes back to the queue.                         *)
(* Bug: to its front.                                                      *)
RequeueFront ==
    /\ Loop("resumed") /\ status[next] # "DEAD"
    /\ scheduled' = <<next>> \o scheduled
    /\ active' = IF status[next] = "SUSPENDED" THEN active + 1 ELSE active
    /\ loop' = "tasks" /\ count' = count - 1 /\ next' = Nil
    /\ UNCHANGED <<vars, ready>>

Requeue ==
    /\ Loop("resumed") /\ status[next] # "DEAD"
    /\ IF status[next] \in {"RUNNING", "NEW"}
       THEN loop' = "panic" /\ UNCHANGED <<scheduled, active>>
       ELSE /\ scheduled' = Append(scheduled, next)
            /\ active' = IF status[next] = "SUSPENDED" THEN active + 1 ELSE active
            /\ loop' = "tasks"
    /\ count' = count - 1
    /\ next' = Nil
    /\ UNCHANGED <<vars, ready>>

(* The reference to a DEAD task is dropped.                                *)
DropDead ==
    /\ Loop("resumed") /\ status[next] = "DEAD"
    /\ Release(Main, next)
    /\ loop' = "tasks"
    /\ count' = count - 1
    /\ next' = Nil
    /\ UNCHANGED <<scheduled, active, ready>>

TasksDone ==
    /\ Loop("tasks") /\ count = 0
    /\ loop' = "poll"
    /\ UNCHANGED <<vars, scheduled, active, count, next, ready>>

(* poll() returns at once if nobody waits, or after epoll_wait found no    *)
(* event and some task is active (timeout 0).  Otherwise it blocks.        *)
PollNothing ==
    /\ Loop("poll")
    /\ waiting = 0 \/ (ready = {} /\ active > 0)
    /\ loop' = "while"
    /\ UNCHANGED <<vars, scheduled, active, count, next, ready>>

(* epoll_wait reports the event of c, and __ioresume ignores a coroutine   *)
(* that is DEAD or RUNNING.                                                *)
(* Bug: a registration that is not one-shot.                               *)
PollEventAgain(c) ==
    /\ Loop("poll")
    /\ waiting > 0 /\ c \in ready
    /\ IF status[c] = "IO" THEN IoResume(c) ELSE UNCHANGED vars
    /\ loop' = "while"
    /\ UNCHANGED <<scheduled, active, count, next, ready>>

PollEvent(c) ==
    /\ Loop("poll")
    /\ waiting > 0 /\ c \in ready
    /\ ready' = ready \ {c}
    /\ IF status[c] = "IO" THEN IoResume(c) ELSE UNCHANGED vars
    /\ loop' = "while"
    /\ UNCHANGED <<scheduled, active, count, next>>

(* Manager.shutdown closes the poll handle, and main returns.              *)
Shutdown ==
    /\ Loop("shutdown")
    /\ loop' = "exited"
    /\ UNCHANGED <<vars, scheduled, active, count, next, ready>>

(* The kernel: the event that c registered for occurs.                     *)
IoReady(c) ==
    /\ loop \notin {"exited", "panic"}
    /\ status[c] = "IO" /\ c \notin ready
    /\ ready' = ready \cup {c}
    /\ UNCHANGED <<vars, loopVars>>

-----------------------------------------------------------------------------

(* A coroutine x calls Io::manager().task(c).                              *)
Task(x, c) ==
    /\ Len(scheduled) < MaxScheduled
    /\ Retain(x, c)
    /\ scheduled' = Append(scheduled, c)
    /\ UNCHANGED <<active, count, next, loop, ready>>

(* Any other code of a coroutine, and the destructors that run on the main *)
(* stack; they own the references they drop.                               *)
Step(x) ==
    /\ x = Main => pc[Main] = "closure"
    /\ \E c \in Coro :
        \/ Create(x, c, "NEW") \/ Resume(x, c)
        \/ held[c] > QueueRefs(c) /\ Release(x, c)
    /\ UNCHANGED <<loopVars, ready>>

Unwind(c) == Catch(c) /\ UNCHANGED <<loopVars, ready>>

(* The rest of a call of the runtime, in whichever stack.                  *)
Finish(x) ==
    /\ \/ ResumeReturn(x) \/ Destroy(x)
       \/ x # Main /\ (YieldReturn(x) \/ IoWaitReturn(x))
       \/ x = Main /\ IoResumeReturn
    /\ UNCHANGED <<loopVars, ready>>

(* A coroutine gives up the processor.                                     *)
Switch(c) ==
    /\ Yield(c) \/ Exit(c) \/ IoWait(c)
    /\ UNCHANGED <<loopVars, ready>>

EventLoop ==
    \/ While \/ Dequeue \/ Requeue \/ DropDead \/ TasksDone \/ PollNothing
    \/ Shutdown
    \/ \E c \in Coro : Boot(c) \/ PollEvent(c)

Stop == loop = "exited" /\ UNCHANGED mgrVars

MgrNext ==
    \/ EventLoop
    \/ \E x \in Stacks : Finish(x) \/ Step(x)
    \/ \E c \in Coro : Unwind(c) \/ Switch(c) \/ IoReady(c)
    \/ \E x, c \in Coro : Task(x, c)
    \/ Stop

MgrSpec == MgrInit /\ [][MgrNext]_mgrVars

(* What the runtime and the kernel owe: the processor goes on with C code, *)
(* a yielded stack goes on, an event is reported some time.  And what a    *)
(* program owes in cooperative scheduling: destructors end, every coroutine *)
(* gives up the processor some time, and an event some time occurs.        *)
Fairness ==
    /\ WF_mgrVars(EventLoop)
    /\ \A x \in Stacks : SF_mgrVars(Finish(x))
    /\ \A c \in Coro :
        /\ SF_mgrVars(Switch(c))
        /\ WF_mgrVars(IoReady(c))
        /\ SF_mgrVars(PollEvent(c))

FairMgrSpec == MgrSpec /\ Fairness

-----------------------------------------------------------------------------
(* The event loop's variables keep their types.                            *)
MgrTypeOK ==
    /\ TypeOK
    /\ scheduled \in Seq(Coro) /\ Len(scheduled) <= MaxScheduled + 1
    /\ active \in Nat
    /\ count \in 0 .. Len(scheduled) + One(loop = "resumed")
    /\ next \in Coro \cup {Nil}
    /\ loop \in LoopStates
    /\ ready \subseteq Coro

(* No order of resumes, I/O events and task() calls makes run() find a     *)
(* task in a state it cannot be in when its resume has returned, or abort. *)
LoopNeverPanics == loop # "panic" /\ panic = "none"

(* The queue owns a reference to each of its entries, so that a task whose *)
(* starter forgot it is not freed while it is scheduled.                   *)
QueueOwnsTasks ==
    \A c \in Coro : held[c] >= QueueRefs(c)

(* An event is pending only for a coroutine that waits for one, or whose   *)
(* wait it is about to end: __ioresume never gets a stale coroutine.       *)
EventsHaveWaiters == \A c \in ready : status[c] = "IO"

(* Together: the loop only touches tasks it owns, never panics, and has no  *)
(* event for a coroutine that does not wait.                               *)
LoopSound == MgrTypeOK /\ LoopNeverPanics /\ QueueOwnsTasks /\ EventsHaveWaiters

(* run() returns only when no coroutine waits for I/O: no completion is    *)
(* left to be delivered after the poll handle is closed.                   *)
NoIoAfterShutdown ==
    loop \in {"shutdown", "exited"} => \A c \in Coro : status[c] # "IO"

(* A scheduled task gets the processor, or is found dead, some time, and a *)
(* completed I/O request is delivered to its coroutine: no task and no     *)
(* event waits for ever behind others.                                     *)
EveryTaskRuns ==
    \A c \in Coro : (\E i \in DOMAIN scheduled : scheduled[i] = c) ~> next = c
EventsDelivered == \A c \in Coro : c \in ready ~> status[c] # "IO"
Served == EveryTaskRuns /\ EventsDelivered
=============================================================================
