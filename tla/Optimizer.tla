------------------------------ MODULE Optimizer ------------------------------
(***************************************************************************)
(* CopyPropagator.cpp and DeadCodeEliminator.cpp: the two optimisations of *)
(* intermediate code.  Copy propagation works block by block and keeps two *)
(* maps from a register to the register (eq) or literal (lit) it was       *)
(* copied from.                                                            *)
(***************************************************************************)
EXTENDS Liveness

Without(f, S) == [x \in DOMAIN f \ S |-> f[x]]
Recorded(f, r, o) == [x \in DOMAIN f \cup {r} |-> IF x = r THEN o ELSE f[x]]

\* An operand that names a copy names its source instead.
Substitute(eq, o) == IF o.reg \in DOMAIN eq THEN WithReg(o, eq[o.reg].reg) ELSE o

\* The instruction with its operands replaced: the MOV of a literal becomes a LOAD.
Propagated(i, eq, lit) ==
    LET second == Substitute(eq, i.second) IN
    IF i.op = "MOV" /\ i.first.reg \in DOMAIN lit
    THEN [i EXCEPT !.op = "LOAD", !.first = lit[i.first.reg], !.second = second]
    ELSE [i EXCEPT !.first = Substitute(eq, @), !.second = second]

\* The source that a MOV records: the alias of its operand, if that is a temporary.
AliasOf(eq, o) ==
    IF o.reg \in DOMAIN eq /\ ~IsMachineReg(eq[o.reg].reg) THEN eq[o.reg] ELSE o

\* What is known after the (already rewritten) instruction.  Only CALL
\* forgets anything, and only about the return registers.
Known(st, i) ==
    LET rhs == AliasOf(st.eq, i.first)
        moved == IF i.op = "MOV" /\ ~IsMachineReg(rhs.reg) /\ ~IsIndirect(rhs) /\ rhs.reg # 0
                 THEN [st EXCEPT !.eq = Recorded(@, i.result, rhs), !.lit = Without(@, {i.result})]
                 ELSE st
        loaded == IF i.op = "LOAD" /\ ~IsIndirect(i.first)
                  THEN [moved EXCEPT !.lit = Recorded(@, i.result, i.first), !.eq = Without(@, {i.result})]
                  ELSE moved
    IN  IF i.op = "CALL"
        THEN [loaded EXCEPT !.eq = Without(@, ReturnSet), !.lit = Without(@, ReturnSet)]
        ELSE loaded

CopyStep(st, i) ==
    LET j == Propagated(i, st.eq, st.lit) IN
    [Known(st, j) EXCEPT !.code = Append(@, j)]

\* A block, from its first instruction to its last.
NoneKnown == [r \in {} |-> Nil]
CopiesFollowed(code) ==
    LET copy[k \in 0 .. Len(code)] ==
            IF k = 0 THEN [code |-> <<>>, eq |-> NoneKnown, lit |-> NoneKnown]
            ELSE CopyStep(copy[k - 1], code[k])
    IN  copy[Len(code)].code

CopyPropagate(p) == [b \in 1 .. Len(p) |-> [p[b] EXCEPT !.code = CopiesFollowed(@)]]

-----------------------------------------------------------------------------
\* An instruction whose result nobody needs, or that copies a register to itself.
IsDead(live, n, i) ==
    \/ i.op = "MOV" /\ R(i.result) = i.first
    \/ i.result # 0 /\ i.result \notin live[n].out

RemoveDead(p) ==
    LET live == Liveness(p) IN
    [b \in 1 .. Len(p) |-> [p[b] EXCEPT !.code =
        [k \in DOMAIN @ |-> IF IsDead(live, <<b, k>>, @[k]) THEN Nop ELSE @[k]]]]
=============================================================================
