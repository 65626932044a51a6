----------------------------- MODULE Coroutine -----------------------------
(***************************************************************************)
(* The coroutines of the Jogo runtime: runtime/Coroutine.c, Coroutine.jg   *)
(* and the context switch of Coroutine.Intel64.asm.                        *)
(*                                                                         *)
(* Exactly one coroutine executes at a time, Coroutine__current.  Control  *)
(* moves only through Coroutine__swap, so a step of this specification is  *)
(* the C code between two swaps, and pc[x] says where the stack of x goes  *)
(* on when it gets the processor back:                                     *)
(*    "run"       in its own function, or not started yet                  *)
(*    "resume"    after the swap of Coroutine_resume(callee[x])            *)
(*    "ioresume"  after the swap of Coroutine__ioresume(callee[x])         *)
(*    "yield"     after the swap of Coroutine__yield                       *)
(*    "iowait"    after the swap of Coroutine__iowait                      *)
(*    "destroy"   at the start of Coroutine__destroy(reaping[x])           *)
(*    "free"      in that destructor, after the stack was unwound          *)
(*    "closure"   in that destructor, releasing the function of the        *)
(*                coroutine and what it refers to                          *)
(*    "exit"      after the swap of Coroutine__exit, never reached again   *)
(* The function a coroutine executes is any sequence of runtime calls.     *)
(***************************************************************************)
EXTENDS Integers, Sequences, FiniteSets

CONSTANTS
    Coro,           \* the coroutines a program can have at a time
    Main,           \* Coroutine__main, the thread the process starts with
    Nil,            \* the null pointer
    MaxHeld,        \* bound: references a program holds to one coroutine
    MaxNested,      \* bound: destructors of coroutines nested on one stack
    DestructorOps   \* what the destructors of objects may do

ASSUME CoroAssumption == IsFiniteSet(Coro) /\ Main \notin Coro
ASSUME NilAssumption == Nil \notin Coro \cup {Main}
ASSUME MaxHeldAssumption == MaxHeld \in Nat
ASSUME MaxNestedAssumption == MaxNested \in Nat
ASSUME DestructorAssumption == DestructorOps \subseteq {"resume", "iowait", "yield"}

VARIABLES
    status,     \* Coroutine.status; "FREE" when no such object exists
    caller,     \* Coroutine.caller
    refcount,   \* Coroutine._refcount
    index,      \* Coroutine.index, its place in coroutines()
    registry,   \* the array coroutines(), of weak references
    current,    \* Coroutine__current
    exception,  \* Exception__current
    waiting,    \* Io_manager()->waiting
    pc, callee, \* where each stack is suspended, and on which coroutine
    reaping,    \* the coroutine a stack is destroying
    saved,      \* save_except of the calls of Coroutine__destroy of a stack
    unwinding,  \* the stack is returning from function to function
    held,       \* references owned by the program: stacks, objects, queues
    panic       \* "none", or why the process aborted

heapVars == <<index, registry, saved, unwinding>>
vars == <<status, caller, refcount, index, registry, current, exception,
          waiting, pc, callee, reaping, saved, unwinding, held, panic>>

Stacks == Coro \cup {Main}
Allocated == {c \in Coro : status[c] # "FREE"}

(* Coroutine__main is static, its status field is 0 and never scheduled.   *)
Init ==
    /\ status = [c \in Stacks |-> IF c = Main THEN "NEW" ELSE "FREE"]
    /\ caller = [c \in Stacks |-> Nil]
    /\ refcount = [c \in Coro |-> 0]
    /\ index = [c \in Coro |-> 0]
    /\ registry = << >>
    /\ current = Main
    /\ exception = FALSE
    /\ waiting = 0
    /\ pc = [x \in Stacks |-> "run"]
    /\ callee = [x \in Stacks |-> Nil]
    /\ reaping = [x \in Stacks |-> Nil]
    /\ saved = [x \in Stacks |-> << >>]
    /\ unwinding = [c \in Stacks |-> FALSE]
    /\ held = [c \in Coro |-> 0]
    /\ panic = "none"

-----------------------------------------------------------------------------
(* Stack x has the processor and stands at p.                              *)
At(x, p) == panic = "none" /\ current = x /\ pc[x] = p

(* Where x goes on after a call: in the program, or in the destructor that *)
(* releases a closure.                                                     *)
Base(x) == IF saved[x] = << >> THEN "run" ELSE "closure"

(* x executes op.  A stack that unwinds or releases a closure executes     *)
(* nothing but destructors.                                                *)
Does(x, op) ==
    LET inDestructor == op = "release" \/ op \in DestructorOps IN
    \/ At(x, "run") /\ (unwinding[x] => inDestructor)
    \/ At(x, "closure") /\ inDestructor /\ Len(saved[x]) < MaxNested

(* Whom yield, exit and iowait give the processor to.                      *)
(* Bug: nobody to go to when an I/O event resumed c.                       *)
TargetCallerOnly(c) == caller[c]
Target(c) == IF caller[c] # Nil THEN caller[c] ELSE Main

(* The callers once the resume of c has returned.                          *)
(* Bug: the caller stays set.                                              *)
CallersKept(c) == caller
CallersAfter(c) == [caller EXCEPT ![c] = Nil]

(* Object__refcount_dec(c) by x: the last reference calls the destructor.  *)
Decref(x, c) ==
    /\ refcount' = [refcount EXCEPT ![c] = @ - 1]
    /\ reaping' = IF refcount[c] = 1 THEN [reaping EXCEPT ![x] = c] ELSE reaping
    /\ pc' = [pc EXCEPT ![x] = IF refcount[c] = 1 THEN "destroy" ELSE Base(x)]

(* The part of Coroutine_resume before its swap, in the caller x.          *)
SwapInto(x, c) ==
    /\ status' = [status EXCEPT ![c] = "RUNNING"]
    /\ caller' = [caller EXCEPT ![c] = x]
    /\ callee' = [callee EXCEPT ![x] = c]
    /\ pc' = [pc EXCEPT ![x] = "resume"]
    /\ current' = c

(* The part of yield, exit and iowait before their swap, in coroutine c.   *)
SwapOut(c, st, at) ==
    /\ status' = [status EXCEPT ![c] = st]
    /\ pc' = [pc EXCEPT ![c] = at]
    /\ current' = Target(c)

-----------------------------------------------------------------------------
(* Coroutine__init(func): a new object, DEAD at once if func is nil.       *)
Create(x, c, st) ==
    /\ Does(x, "create")
    /\ status[c] = "FREE" /\ MaxHeld > 0
    /\ status' = [status EXCEPT ![c] = st]
    /\ refcount' = [refcount EXCEPT ![c] = 1]
    /\ held' = [held EXCEPT ![c] = 1]
    /\ index' = [index EXCEPT ![c] = Len(registry)]
    /\ registry' = Append(registry, c)
    /\ pc' = [pc EXCEPT ![c] = "run"]
    /\ unwinding' = [unwinding EXCEPT ![c] = FALSE]
    /\ UNCHANGED <<caller, current, exception, waiting, callee, reaping, saved,
                   panic>>

(* The program copies a reference, or takes one to itself: coroutine().    *)
Retain(x, c) ==
    /\ Does(x, "retain")
    /\ c = x \/ held[c] > 0
    /\ held[c] < MaxHeld
    /\ refcount' = [refcount EXCEPT ![c] = @ + 1]
    /\ held' = [held EXCEPT ![c] = @ + 1]
    /\ UNCHANGED <<status, caller, current, exception, waiting, pc, callee,
                   reaping, heapVars, panic>>

(* The program drops a reference.                                          *)
Release(x, c) ==
    /\ Does(x, "release")
    /\ held[c] > 0
    /\ held' = [held EXCEPT ![c] = @ - 1]
    /\ Decref(x, c)
    /\ UNCHANGED <<status, caller, current, exception, waiting, callee,
                   heapVars, panic>>

(* Coroutine_resume(c).  It returns at once, and changes nothing, for a    *)
(* coroutine that is DEAD, RUNNING or IO.                                  *)
Resume(x, c) ==
    /\ Does(x, "resume")
    /\ held[c] > 0
    /\ status[c] \in {"NEW", "SUSPENDED"}
    /\ SwapInto(x, c)
    /\ refcount' = [refcount EXCEPT ![c] = @ + 1]
    /\ UNCHANGED <<exception, waiting, reaping, heapVars, held, panic>>

(* The rest of Coroutine_resume, when the processor is back.  A resume     *)
(* that Coroutine__destroy called goes on in Coroutine__destroy.           *)
ResumeReturn(x) ==
    LET c == callee[x] IN
    /\ At(x, "resume")
    /\ caller' = CallersAfter(c)
    /\ callee' = [callee EXCEPT ![x] = Nil]
    /\ IF reaping[x] = c
       THEN /\ refcount' = [refcount EXCEPT ![c] = @ - 1]
            /\ pc' = [pc EXCEPT ![x] = "free"]
            /\ UNCHANGED reaping
       ELSE Decref(x, c)
    /\ UNCHANGED <<status, current, exception, waiting, heapVars, held, panic>>

(* Coroutine__yield in a coroutine; the main thread never yields.          *)
Yield(c) ==
    /\ Does(c, "yield")
    /\ SwapOut(c, "SUSPENDED", "yield")
    /\ UNCHANGED <<caller, refcount, exception, waiting, callee, reaping,
                   heapVars, held, panic>>

(* Code compiled for yield tests Exception__current when it goes on, and   *)
(* returns from its function if it is set.                                 *)
(* Bug: no test after the yield.                                           *)
YieldReturnUntested(c) ==
    /\ At(c, "yield")
    /\ pc' = [pc EXCEPT ![c] = Base(c)]
    /\ UNCHANGED <<status, caller, refcount, current, exception, waiting, callee,
                   reaping, heapVars, held, panic>>

YieldReturn(c) ==
    /\ At(c, "yield")
    /\ pc' = [pc EXCEPT ![c] = Base(c)]
    /\ unwinding' = [unwinding EXCEPT ![c] = IF saved[c] = << >> THEN exception ELSE @]
    /\ UNCHANGED <<status, caller, refcount, index, registry, current,
                   exception, waiting, callee, reaping, saved, held, panic>>

(* So does the code compiled for a call of a function that can throw.      *)
Catch(c) ==
    /\ At(c, "run") /\ exception /\ ~unwinding[c]
    /\ unwinding' = [unwinding EXCEPT ![c] = TRUE]
    /\ UNCHANGED <<status, caller, refcount, index, registry, current,
                   exception, waiting, pc, callee, reaping, saved, held, panic>>

(* The coroutine's function returns, into Coroutine__exit.                 *)
Exit(c) ==
    /\ At(c, "run")
    /\ SwapOut(c, "DEAD", "exit")
    /\ UNCHANGED <<caller, refcount, exception, waiting, callee, reaping,
                   heapVars, held, panic>>

(* Coroutine__iowait, called with a registration for c at the poll handle. *)
(* Bug: the waiting coroutine takes no reference to itself.                *)
IoWaitUnowned(c) ==
    /\ Does(c, "iowait")
    /\ waiting' = waiting + 1
    /\ SwapOut(c, "IO", "iowait")
    /\ UNCHANGED <<caller, refcount, exception, callee, reaping, heapVars, held,
                   panic>>

IoWait(c) ==
    /\ Does(c, "iowait")
    /\ refcount' = [refcount EXCEPT ![c] = @ + 1]
    /\ waiting' = waiting + 1
    /\ SwapOut(c, "IO", "iowait")
    /\ UNCHANGED <<caller, exception, callee, reaping, heapVars, held, panic>>

(* Bugs: the reference of the wait is kept; the wait still counts.         *)
IoWaitReturnLeaks(c) ==
    /\ At(c, "iowait")
    /\ pc' = [pc EXCEPT ![c] = Base(c)]
    /\ waiting' = waiting - 1
    /\ UNCHANGED <<status, caller, refcount, current, exception, callee, reaping,
                   heapVars, held, panic>>

IoWaitReturn(c) ==
    /\ At(c, "iowait")
    /\ Decref(c, c)
    /\ waiting' = waiting - 1
    /\ UNCHANGED <<status, caller, current, exception, callee, heapVars, held,
                   panic>>

(* Coroutine__ioresume(c), called by poll in the main thread for the       *)
(* coroutine of an event.  It leaves caller[c] as it is.                   *)
IoResume(c) ==
    /\ At(Main, "run")
    /\ status[c] = "IO"
    /\ status' = [status EXCEPT ![c] = "RUNNING"]
    /\ refcount' = [refcount EXCEPT ![c] = @ + 1]
    /\ callee' = [callee EXCEPT ![Main] = c]
    /\ pc' = [pc EXCEPT ![Main] = "ioresume"]
    /\ current' = c
    /\ UNCHANGED <<caller, exception, waiting, reaping, heapVars, held, panic>>

IoResumeReturn ==
    /\ At(Main, "ioresume")
    /\ callee' = [callee EXCEPT ![Main] = Nil]
    /\ Decref(Main, callee[Main])
    /\ UNCHANGED <<status, caller, current, exception, waiting, heapVars, held,
                   panic>>

-----------------------------------------------------------------------------
(* Coroutine__destroy saves the exception flag, sets it, and restores it.  *)
(* Bug: the flag is cleared instead of restored.                           *)
RaiseFlag(x) ==
    /\ saved' = [saved EXCEPT ![x] = Append(@, exception)]
    /\ exception' = TRUE

LastSavedCleared(x) == FALSE
LastSaved(x) == saved[x][Len(saved[x])]

(* Coroutine__destroy(c) sets the exception flag and resumes a suspended   *)
(* c, whose stack then unwinds; two temporary references keep c.           *)
DestroySuspended(x) ==
    LET c == reaping[x] IN
    /\ At(x, "destroy")
    /\ status[c] = "SUSPENDED"
    /\ RaiseFlag(x)
    /\ SwapInto(x, c)
    /\ refcount' = [refcount EXCEPT ![c] = @ + 2]
    /\ UNCHANGED <<index, registry, waiting, reaping, unwinding, held, panic>>

(* The object leaves coroutines(), and the last entry takes its place.     *)
Unlist(c) ==
    LET n == Len(registry) IN
    /\ registry' = SubSeq([registry EXCEPT ![index[c] + 1] = registry[n]], 1, n - 1)
    /\ index' = [index EXCEPT ![registry[n]] = index[c]]

(* ... and with no reference left the object is gone but for its closure.  *)
Free(x, c) ==
    /\ Unlist(c)
    /\ status' = [status EXCEPT ![c] = "FREE"]
    /\ refcount' = [refcount EXCEPT ![c] = 0]
    /\ reaping' = [reaping EXCEPT ![x] = Nil]
    /\ pc' = [pc EXCEPT ![x] = "closure"]

(* A coroutine that never started, or is DEAD, has no stack to unwind; one  *)
(* that is in use aborts the process (Os_cpanic).                          *)
DestroyIdle(x) ==
    LET c == reaping[x] IN
    /\ At(x, "destroy")
    /\ status[c] # "SUSPENDED"
    /\ RaiseFlag(x)
    /\ IF status[c] \in {"RUNNING", "IO"}
       THEN /\ panic' = "inUse"
            /\ UNCHANGED <<status, refcount, index, registry, pc, reaping>>
       ELSE Free(x, c) /\ UNCHANGED panic
    /\ UNCHANGED <<caller, current, waiting, callee, unwinding, held>>

(* The rest of Coroutine__destroy after the unwinding: the temporary       *)
(* reference goes, and assert(self->_refcount == 0).                       *)
DestroyUnwound(x) ==
    LET c == reaping[x] IN
    /\ At(x, "free")
    /\ IF refcount[c] # 1
       THEN /\ panic' = "referenced"
            /\ UNCHANGED <<status, refcount, index, registry, pc, reaping>>
       ELSE Free(x, c) /\ UNCHANGED panic
    /\ UNCHANGED <<caller, current, exception, waiting, callee, saved, unwinding,
                   held>>

(* The closure is released, the memory is freed, the flag is restored.     *)
DestroyEnd(x) ==
    LET rest == SubSeq(saved[x], 1, Len(saved[x]) - 1) IN
    /\ At(x, "closure")
    /\ exception' = LastSaved(x)
    /\ saved' = [saved EXCEPT ![x] = rest]
    /\ pc' = [pc EXCEPT ![x] = IF rest = << >> THEN "run" ELSE "closure"]
    /\ UNCHANGED <<status, caller, refcount, index, registry, current, waiting,
                   callee, reaping, unwinding, held, panic>>

-----------------------------------------------------------------------------
Destroy(x) ==
    DestroySuspended(x) \/ DestroyIdle(x) \/ DestroyUnwound(x) \/ DestroyEnd(x)

Program(x) ==
    \E c \in Coro :
        \/ \E st \in {"NEW", "DEAD"} : Create(x, c, st)
        \/ Retain(x, c) \/ Release(x, c) \/ Resume(x, c)

Next ==
    \/ \E x \in Stacks : Program(x) \/ ResumeReturn(x) \/ Destroy(x)
    \/ \E c \in Coro :
        \/ Yield(c) \/ YieldReturn(c) \/ Catch(c) \/ Exit(c)
        \/ IoWait(c) \/ IoWaitReturn(c) \/ IoResume(c)
    \/ IoResumeReturn

Spec == Init /\ [][Next]_vars

-----------------------------------------------------------------------------
SavedTypeOK == saved \in [Stacks -> Seq(BOOLEAN)]

(* Every variable keeps its type (the fields of struct Coroutine).         *)
TypeOK ==
    /\ status \in [Stacks -> {"FREE", "NEW", "RUNNING", "SUSPENDED", "DEAD", "IO"}]
    /\ caller \in [Stacks -> Stacks \cup {Nil}]
    /\ refcount \in [Coro -> Int]
    /\ index \in [Coro -> Nat]
    /\ registry \in Seq(Coro)
    /\ current \in Stacks
    /\ exception \in BOOLEAN
    /\ waiting \in Int
    /\ pc \in [Stacks -> {"run", "resume", "ioresume", "yield", "iowait",
                          "destroy", "free", "closure", "exit"}]
    /\ callee \in [Stacks -> Coro \cup {Nil}]
    /\ reaping \in [Stacks -> Coro \cup {Nil}]
    /\ SavedTypeOK
    /\ unwinding \in [Stacks -> BOOLEAN]
    /\ held \in [Coro -> Nat]
    /\ panic \in {"none", "inUse", "referenced"}

(* Stack x is inside a call of resume or ioresume for c.                   *)
InCallOf(x, c) == pc[x] \in {"resume", "ioresume"} /\ callee[x] = c

(* Control returns to whoever resumed: the stack that a running coroutine  *)
(* would swap to is inside the very resume or ioresume of that coroutine,  *)
(* and no other stack is.  Were it not, yield would continue a stack that  *)
(* is suspended in another call.                                           *)
ReturnsToResumer ==
    \A c \in Coro : status[c] = "RUNNING" =>
        /\ InCallOf(Target(c), c)
        /\ \A x \in Stacks : InCallOf(x, c) => x = Target(c)
        /\ c # current => pc[c] = "resume"

(* The references of a coroutine are those of the program, one for a       *)
(* resume or ioresume in progress, one while it waits for I/O, one while   *)
(* its destructor runs it.  No increment is lost by a swap in between.     *)
One(b) == IF b THEN 1 ELSE 0
RefsAccounted ==
    \A c \in Coro :
        refcount[c] = held[c] + One(\E x \in Stacks : InCallOf(x, c))
                              + One(pc[c] = "iowait")
                              + One(\E x \in Stacks : /\ reaping[x] = c
                                                      /\ pc[x] # "destroy")

(* coroutines() lists exactly the allocated coroutines, each at its index, *)
(* although the destructor moves the last entry and may free others first. *)
RegistryExact ==
    /\ \A c \in Allocated : index[c] < Len(registry) /\ registry[index[c] + 1] = c
    /\ \A i \in 1 .. Len(registry) :
            registry[i] \in Allocated /\ index[registry[i]] = i - 1

(* Io_manager()->waiting, which keeps the event loop alive, is the number  *)
(* of stacks inside Coroutine__iowait.                                     *)
WaitingExact == waiting = Cardinality({c \in Coro : pc[c] = "iowait"})

(* What the three counts and lists say of the coroutines agrees with what  *)
(* the stacks are doing, after any order of switches.                      *)
Accounted == RefsAccounted /\ RegistryExact /\ WaitingExact

(* No order of calls frees a coroutine that is running or waits for I/O,   *)
(* nor leaves references to one whose destructor ends.                     *)
NoPanic == panic = "none"

(* Coroutine.c:180 asserts that nobody refers to a coroutine once its      *)
(* stack is unwound.                                                       *)
DestroyAssertion == panic # "referenced"

(* The exception flag is set exactly as long as some stack is inside       *)
(* Coroutine__destroy, whatever other destructors nest in it, on the same  *)
(* stack or on the one that it unwinds.                                    *)
ExceptionScoped == exception <=> \E x \in Stacks : saved[x] # << >>

(* A coroutine is freed only when its stack has ended or never started, so *)
(* that the objects on it were destroyed too (tests/CoroutineMem.jg).      *)
FreesEndedStacks ==
    [][\A c \in Coro : status[c] # "FREE" /\ status'[c] = "FREE" =>
           /\ status[c] \in {"NEW", "DEAD"}
           /\ held[c] = 0]_vars

(* What users rely on (CallStack): coroutines nest like calls.  The stack  *)
(* below a running coroutine is the one it would swap to.                  *)
Life(c) ==
    CASE status[c] = "FREE" -> "none"
      [] status[c] \in {"NEW", "SUSPENDED"} -> "ready"
      [] status[c] = "RUNNING" -> "running"
      [] status[c] = "IO" -> "waiting"
      [] status[c] = "DEAD" -> "dead"

Lives == [c \in Coro |-> Life(c)]
Under == [c \in Coro |-> IF status[c] = "RUNNING" THEN Target(c) ELSE Nil]

Calls == INSTANCE CallStack WITH life <- Lives, under <- Under, top <- current

CallStackSpec == Calls!StackSpec
=============================================================================
