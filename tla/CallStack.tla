----------------------------- MODULE CallStack -----------------------------
(***************************************************************************)
(* What the coroutines of runtime/Coroutine.c promise their users: they    *)
(* nest like calls.  A resume runs the coroutine, and whatever way the     *)
(* coroutine stops - it yields, ends, or waits for I/O - the processor     *)
(* goes back to the stack that resumed it and to no other.                 *)
(*                                                                         *)
(* Coroutine implements this specification (CallStackSpec there); modules  *)
(* about code that only resumes and yields are built on this one.          *)
(***************************************************************************)
CONSTANTS
    Coro,   \* the coroutines
    Main,   \* the thread the process starts with
    Nil     \* no stack

VARIABLES
    life,   \* "none", "ready", "running", "waiting" (for I/O) or "dead"
    under,  \* the stack below each running coroutine
    top     \* who has the processor

stackVars == <<life, under, top>>

Stacks == Coro \cup {Main}

ASSUME StackAssumption == Main \notin Coro /\ Nil \notin Stacks

StackInit ==
    /\ life = [c \in Coro |-> "none"]
    /\ under = [c \in Coro |-> Nil]
    /\ top = Main

-----------------------------------------------------------------------------
(* Coroutine__init.                                                        *)
Spawn(c) ==
    /\ life[c] = "none"
    /\ \E l \in {"ready", "dead"} : life' = [life EXCEPT ![c] = l]
    /\ UNCHANGED <<under, top>>

(* The stack at the top runs c above itself.                               *)
Enter(c) ==
    /\ life' = [life EXCEPT ![c] = "running"]
    /\ under' = [under EXCEPT ![c] = top]
    /\ top' = c

(* Coroutine_resume of a coroutine that can run; any other resume returns  *)
(* at once.                                                                *)
Call(c) == life[c] = "ready" /\ Enter(c)

(* Coroutine__ioresume, in the main thread only.                           *)
Complete(c) == life[c] = "waiting" /\ top = Main /\ Enter(c)

(* yield, exit and iowait: c stops as l, and control returns.              *)
Leave(c, l) ==
    /\ top = c
    /\ life' = [life EXCEPT ![c] = l]
    /\ under' = [under EXCEPT ![c] = Nil]
    /\ top' = under[c]

(* Coroutine__destroy, never of a coroutine that is running.               *)
Remove(c) ==
    /\ life[c] \notin {"none", "running"}
    /\ life' = [life EXCEPT ![c] = "none"]
    /\ UNCHANGED <<under, top>>

StackNext ==
    \E c \in Coro :
        \/ Spawn(c) \/ Call(c) \/ Complete(c) \/ Remove(c)
        \/ \E l \in {"ready", "waiting", "dead"} : Leave(c, l)

StackSpec == StackInit /\ [][StackNext]_stackVars
=============================================================================
