------------------------------- MODULE RegAlloc -------------------------------
(***************************************************************************)
(* The passes that Builder::irgen runs over the code of one function       *)
(* (Builder.cpp): the optimiser when it is enabled, the register           *)
(* allocator (RegisterAllocator.cpp), which colours an interference graph  *)
(* and spills until that succeeds, and dead code elimination once more.    *)
(***************************************************************************)
EXTENDS Optimizer

CONSTANTS
    Sources     \* the functions compiled: [code, floats, slots]

ASSUME SourcesAssumption == \A f \in Sources : f.code \in Programs /\ f.slots \in Nat

VARIABLES
    src,        \* the function, as generated
    optimize,   \* whether the optimiser is enabled
    prog,       \* its code now
    phase,      \* the pass that runs next
    spilled,    \* registers and temporaries spilled so far: spilled_
    graph,      \* the interference graph: graph_[..].neighbors()
    work,       \* the temporaries still to be put on the stack: work
    stack,      \* the temporaries to colour: stack_
    color,      \* the registers given to them: graph_[..].reg(), 0 for none
    slots       \* slots of the stack frame: local_slots()

vars == <<src, optimize, prog, phase, spilled, graph, work, stack, color, slots>>

Phases == {"optimize", "eliminate", "build", "stack", "color", "spill", "clean", "done", "abort"}

IsFloat(r) == r \in Mach.floats \cup src.floats

Init ==
    /\ src \in Sources
    /\ optimize \in BOOLEAN
    /\ prog = src.code
    /\ phase = "optimize"
    /\ spilled = {}
    /\ graph = <<>> /\ work = <<>> /\ stack = <<>> /\ color = <<>>
    /\ slots = src.slots

Optimize ==
    /\ phase = "optimize"
    /\ IF optimize THEN prog' = CopyPropagate(prog) /\ phase' = "eliminate"
                   ELSE phase' = "build" /\ UNCHANGED prog
    /\ UNCHANGED <<src, optimize, spilled, graph, work, stack, color, slots>>

\* Removing code makes more of it dead: until nothing is removed.
DeadCodeEliminate(now, after) ==
    /\ phase = now
    /\ prog' = RemoveDead(prog)
    /\ phase' = IF prog' = prog THEN after ELSE now
    /\ UNCHANGED <<src, optimize, spilled, graph, work, stack, color, slots>>

Eliminate == DeadCodeEliminate("eliminate", "build")

-----------------------------------------------------------------------------
\* Mutant: calls keep every register.
InterferencesNoCalls(p, live, t) ==
    UNION {live[n].in \cup (IF IsTemp(At(p, n).result) THEN {At(p, n).result} ELSE {})
             : n \in {m \in Points(p) : t \in live[m].in}}

\* Everything live before an instruction interferes with what is live there
\* and with the temporary it writes, and a CALL takes the callee's registers.
Interferences(p, live, t) ==
    UNION {LET i == At(p, n) IN
           live[n].in \cup (IF IsTemp(i.result) THEN {i.result} ELSE {})
                      \cup (IF i.op = "CALL" THEN CalleeSet ELSE {})
             : n \in {m \in Points(p) : t \in live[m].in}}

BuildGraphOf(p) ==
    LET live == Liveness(p) IN [t \in Temps(p) |-> Interferences(p, live, t)]

Ascending(S) ==
    [k \in 1 .. Cardinality(S) |-> CHOOSE x \in S : Cardinality({y \in S : y < x}) = k - 1]

BuildGraph ==
    /\ phase = "build"
    /\ graph' = BuildGraphOf(prog)
    /\ work' = Ascending(DOMAIN graph') /\ stack' = <<>>
    /\ color' = [t \in DOMAIN graph' |-> 0]
    /\ phase' = "stack"
    /\ UNCHANGED <<src, optimize, prog, spilled, slots>>

\* The first temporary of the list that has few enough neighbours, or else the
\* first.  (The edges are removed from a copy of the graph that is never read.)
NextVertex ==
    LET easy == {k \in DOMAIN work : Cardinality(graph[work[k]]) < Regs - 1}
    IN  IF easy = {} THEN 1 ELSE Min(easy)

\* It goes on the stack, and the last one of the list takes its place.
PushVertex ==
    /\ phase = "stack" /\ work # <<>>
    /\ stack' = Append(stack, work[NextVertex])
    /\ work' = Front([work EXCEPT ![NextVertex] = Last(work)])
    /\ UNCHANGED <<src, optimize, prog, phase, spilled, graph, color, slots>>

StackBuilt ==
    /\ phase = "stack" /\ work = <<>>
    /\ phase' = "color"
    /\ UNCHANGED <<src, optimize, prog, spilled, graph, work, stack, color, slots>>

\* Mutant: the registers of the neighbours do not matter.
ColorOkAlone(t, r) ==
    /\ IsFloat(r) = IsFloat(t)
    /\ r \notin Mach.special
    /\ r \notin ReturnSet
    /\ r \notin graph[t]

ColorOk(t, r) ==
    /\ IsFloat(r) = IsFloat(t)
    /\ r \notin Mach.special
    /\ r \notin ReturnSet
    /\ r \notin graph[t]
    /\ \A u \in graph[t] \cap DOMAIN color : color[u] # r

\* Mutant: one register too many.
FittingTooMany(t) == {r \in 2 .. Regs : ColorOk(t, r)}

\* The machine registers that fit; the allocator starts at the second.
Fitting(t) == {r \in 2 .. Regs - 1 : ColorOk(t, r)}

\* The temporary on top of the stack gets the first register that fits.
ColorTop ==
    /\ phase = "color" /\ stack # <<>>
    /\ Fitting(Last(stack)) # {}
    /\ color' = [color EXCEPT ![Last(stack)] = Min(Fitting(Last(stack)))]
    /\ stack' = Front(stack)
    /\ UNCHANGED <<src, optimize, prog, phase, spilled, graph, work, slots>>

\* Or none does, and something has to be spilled.
ColorFail ==
    /\ phase = "color" /\ stack # <<>>
    /\ Fitting(Last(stack)) = {}
    /\ phase' = "spill"
    /\ UNCHANGED <<src, optimize, prog, spilled, graph, work, stack, color, slots>>

-----------------------------------------------------------------------------
\* The registers of the caller of the class wanted that are not spilled yet, by
\* their places in its list.
CallerVictims(float) ==
    {k \in DOMAIN Mach.caller : /\ Mach.caller[k] \notin Mach.special \cup spilled
                                /\ IsFloat(Mach.caller[k]) = float}

\* Otherwise the temporary with the most neighbours, the lowest of those.
TempVictims ==
    LET left == {t \in DOMAIN graph : t \notin spilled /\ graph[t] # {}}
    IN  {t \in left : \A u \in left : \/ Cardinality(graph[u]) < Cardinality(graph[t])
                                      \/ Cardinality(graph[u]) = Cardinality(graph[t]) /\ t <= u}

LoadSlot(r, a) == Instr("LOAD", r, Mem(0, a), Nil)
StoreSlot(r, a) == Instr("STORE", 0, Mem(0, a), R(r))

\* An instruction with the loads and stores of the spilled register around it.
Spill1(i, r, a, caller) ==
    (IF i.first.reg = r THEN <<LoadSlot(r, a)>> ELSE <<>>)
    \o (IF i.second.reg = r THEN <<LoadSlot(r, a)>> ELSE <<>>)
    \o (IF i.op = "RET" /\ caller THEN <<LoadSlot(r, a)>> ELSE <<>>)
    \o <<i>>
    \o (IF i.result = r THEN <<StoreSlot(r, a)>> ELSE <<>>)

SpillCode(code, r, a, caller) ==
    LET spill[k \in 0 .. Len(code)] ==
            IF k = 0 THEN <<>> ELSE spill[k - 1] \o Spill1(code[k], r, a, caller)
    IN  spill[Len(code)]

SpillEverywhere(p, r, a, caller) ==
    [b \in 1 .. Len(p) |-> [p[b] EXCEPT !.code =
        (IF b = 1 /\ caller THEN <<StoreSlot(r, a)>> ELSE <<>>) \o SpillCode(@, r, a, caller)]]

SpillRegister ==
    /\ phase = "spill"
    /\ LET callers == CallerVictims(IsFloat(Last(stack)))
           victim == IF callers # {} THEN Mach.caller[Min(callers)]
                     ELSE IF TempVictims # {} THEN CHOOSE t \in TempVictims : TRUE ELSE 0
       IN  IF victim = 0
           THEN phase' = "abort" /\ UNCHANGED <<prog, spilled, slots>>   \* assert(!!spilled)
           ELSE /\ spilled' = spilled \cup {victim}
                /\ slots' = slots + 1
                /\ prog' = SpillEverywhere(prog, victim, -slots', callers # {})
                /\ phase' = "build"
    /\ UNCHANGED <<src, optimize, graph, work, stack, color>>

\* Every temporary has its register: put them into the code.
ColorOf(r) == IF r # 0 /\ IsTemp(r) THEN color[r] ELSE r
Recolored(i) ==
    [i EXCEPT !.first = WithReg(@, ColorOf(@.reg)), !.second = WithReg(@, ColorOf(@.reg)),
              !.result = ColorOf(@)]
RewriteTemporaries ==
    /\ phase = "color" /\ stack = <<>>
    /\ prog' = [b \in 1 .. Len(prog) |-> [prog[b] EXCEPT !.code =
                  [k \in DOMAIN @ |-> Recolored(@[k])]]]
    /\ phase' = "clean"
    /\ UNCHANGED <<src, optimize, spilled, graph, work, stack, color, slots>>

\* The dead code eliminator removes the moves that became trivial.
Clean == DeadCodeEliminate("clean", "done")

Finished == phase \in {"done", "abort"} /\ UNCHANGED vars

Next == \/ Optimize \/ Eliminate \/ BuildGraph \/ PushVertex \/ StackBuilt
        \/ ColorTop \/ ColorFail \/ SpillRegister \/ RewriteTemporaries
        \/ Clean \/ Finished

Spec == Init /\ [][Next]_vars

-----------------------------------------------------------------------------
\* The registers given are of the machine, of the class of the temporary, and
\* neither reserved nor those of the value returned.
ColorsFit ==
    \A t \in DOMAIN color : color[t] # 0 =>
        /\ color[t] \in 2 .. Regs - 1 /\ IsFloat(color[t]) = IsFloat(t)
        /\ color[t] \notin Mach.special \cup ReturnSet

\* When the registers are allocated, every temporary has got one that fits,
\* and none is left in the code.
BackendTypeOK ==
    /\ phase \in Phases /\ optimize \in BOOLEAN
    /\ prog \in Programs /\ slots \in Nat
    /\ ColorsFit
    /\ phase \in {"clean", "done"} =>
          Temps(prog) = {} /\ \A t \in DOMAIN color : color[t] # 0

\* There always is a register or a temporary left to spill: assert(!!spilled).
SpillingSucceeds == phase # "abort"

\* What is needed at the same time is in different registers: a temporary that
\* has its register shares it with no other one alive before the same
\* instruction, with no machine register that is needed there, and with none
\* that a CALL destroys.
Apart(live, n, t) ==
    /\ color[t] \notin live[n].in
    /\ At(prog, n).op = "CALL" => color[t] \notin CalleeSet
    /\ \A u \in (live[n].in \cap DOMAIN color) \ {t} : color[u] # color[t]

RegistersApart ==
    phase = "color" =>
        LET live == Liveness(prog) IN
        \A n \in Points(prog) : \A t \in live[n].in \cap DOMAIN color :
            color[t] # 0 => Apart(live, n, t)

\* Liveness analysis finds what is needed on some path, no more and no less.
LivenessExact == phase \in {"build", "clean"} => ExactLiveness(prog)
=============================================================================
