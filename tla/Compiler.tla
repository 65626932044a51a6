-------------------------------- MODULE Compiler --------------------------------
(***************************************************************************)
(* A function on its way through the compiler (Builder::irgen): generated  *)
(* from its syntax tree (IrGen), then optimised and given registers        *)
(* (RegAlloc) and written as machine code (X86).  What the generated code  *)
(* has to do is defined in IrMeaning, what machine code does in X86Meaning.*)
(***************************************************************************)
EXTENDS RegAlloc, IrMeaning, X86Meaning

CONSTANTS
    Functions,      \* the functions compiled
    Snippets,       \* code that has its registers already: [code, slots]
    Depth           \* how many branches in a row the comparisons follow

CompiledFrom(g) ==
    [fn |-> g.fn, code |-> CodeOf(g), floats |-> g.floats, slots |-> g.localSlots, locals |-> g.locals, args |-> g.argSlots]
Source(fn) == CompiledFrom(Generated(fn))

\* A function to compile, or a piece of final code to write out.
Written ==
    /\ \E x \in Snippets : src = [fn |-> [kind |-> "none"], code |-> x.code, floats |-> {}, slots |-> x.slots,
                                  locals |-> 0, args |-> 0]
    /\ prog = src.code /\ slots = src.slots
    /\ phase = "done" /\ optimize = FALSE
    /\ spilled = {} /\ graph = <<>> /\ work = <<>> /\ stack = <<>> /\ color = <<>>

CompilerSpec == (Init \/ Written) /\ [][Next]_vars

Fresh0 == phase = "optimize"
Runs == {Run(src.code, ch) : ch \in [1 .. Depth -> BOOLEAN]}
Complete(t) == Last(t)[1] = "ret"
HasStructs(fn) ==
    IsCompound(fn.type) \/ \E e \in UNION {{e \in Range(t) : BuiltBy(e) # {}} : t \in Runs} : TRUE

\* The code calls, stores, tests and returns what the tree says, in its order.
CodeMeansTree ==
    Fresh0 /\ ~HasStructs(src.fn) =>
        \A ch \in [1 .. Depth -> BOOLEAN] : MeansWhatItSays(src.fn, Run(src.code, ch), MeaningOf(src.fn, ch))

\* When a function returns it has given up every reference it took, once.
ReferencesBalanced ==
    Fresh0 /\ ~HasStructs(src.fn) =>
        \A ch \in [1 .. Depth -> BOOLEAN] :
            Complete(Run(src.code, ch)) => Balanced(src.fn, Run(src.code, ch), MeaningOf(src.fn, ch))

\* No object is used after the function gave up the last reference it has,
\* and values in the frame are built and destroyed in turn and never overlap.
ObjectsAlive ==
    Fresh0 => \A t \in Runs : AliveWhenUsed(src.fn, t) /\ (Complete(t) => ValuesOwned(src.fn, t))

\* The code whose passes are complete.
Whole == phase \in {"eliminate", "build", "clean", "done"}

\* The allocator does not give up, and after every pass the function does what
\* it did when it was generated, registers of the caller included.
SameMeaning == SpillingSucceeds /\ (Whole => SameMeaningUpTo(prog, src.code, Depth))

\* The machine code of the finished function does what was generated, and
\* leaves the stack and the registers of the caller as they were.
MachineCodeFaithful ==
    phase = "done" =>
        LET asm == Assembled(prog, slots + src.args)
        IN  \A ch \in [1 .. Depth -> BOOLEAN] : SameTrace(Run(src.code, ch), Run86(asm, ch))
=============================================================================
