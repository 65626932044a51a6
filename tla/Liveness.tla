------------------------------- MODULE Liveness -------------------------------
(***************************************************************************)
(* LivenessAnalyzer.cpp: which registers hold a value that is still needed *)
(* before and after every instruction, computed in rounds over the blocks  *)
(* until nothing changes; and what "still needed" means, by paths.         *)
(***************************************************************************)
EXTENDS Ir

\* branch(block) and next(block): the first block with instructions.
NonEmpty(p, block) ==
    LET first[b \in 0 .. Len(p)] ==
            IF b # 0 /\ p[b].code = <<>> THEN first[p[b].next] ELSE b
    IN  first[block]

\* The sets of registers before and after each instruction.
LiveSets(p) ==
    LET Held == RegsIn(p) \cup 1 .. Regs - 1
    IN  [Points(p) -> [in : SUBSET Held, out : SUBSET Held]]
EmptySets(p) == [n \in Points(p) |-> [in |-> {}, out |-> {}]]

\* What an instruction reads, the conventions of calls and returns included.
Reads(p, n) ==
    LET i == At(p, n) IN
    Uses(i) \cup (IF n = <<1, 1>> THEN CallerSet ELSE {})
            \cup (IF i.op = "RET" THEN CallerSet \cup ReturnSet ELSE {})
            \cup (IF i.op = "CALL" THEN ArgSet ELSE {})

\* The instructions that may follow.
After(p, n) ==
    IF At(p, n).op = "RET" THEN {}
    ELSE IF n[2] < Len(p[n[1]].code) THEN {<<n[1], n[2] + 1>>}
    ELSE {<<b, 1>> : b \in {NonEmpty(p, p[n[1]].branch), NonEmpty(p, p[n[1]].next)} \ {0}}

\* Mutant: a write ends the need even if the same instruction reads.
VisitInstrKills(p, live, n) ==
    LET out == live[n].out \cup UNION {live[m].in : m \in After(p, n)}
    IN  [live EXCEPT ![n] = [in |-> (live[n].in \cup Reads(p, n) \cup out) \ {At(p, n).result}, out |-> out]]

\* One visit of an instruction: sets never lose members.
VisitInstr(p, live, n) ==
    LET i == At(p, n)
        out == live[n].out \cup UNION {live[m].in : m \in After(p, n)}
        in == live[n].in \cup Reads(p, n) \cup out
        killed == IF i.result \in Uses(i) THEN {} ELSE {i.result}
    IN  [live EXCEPT ![n] = [in |-> in \ killed, out |-> out]]

\* The blocks in the order of one round: those that follow a block before it.
VisitBlock(p) ==
    LET Blocks == 1 .. Len(p)
        visit[st \in [seen : SUBSET Blocks, order : Seq(Blocks)], b \in 0 .. Len(p)] ==
            IF b = 0 \/ b \in st.seen THEN st
            ELSE LET s0 == [st EXCEPT !.seen = @ \cup {b}]
                     s1 == IF IsRet(p[b]) THEN s0 ELSE visit[visit[s0, p[b].next], p[b].branch]
                 IN  [s1 EXCEPT !.order = Append(@, b)]
    IN  visit[[seen |-> {}, order |-> <<>>], 1].order

\* One round: each block from the back.
VisitCode(p, live, b) ==
    FoldLeft(LAMBDA l, k : VisitInstr(p, l, <<b, k>>), live, Reverse([k \in 1 .. Len(p[b].code) |-> k]))
Round(p, live) == FoldLeft(LAMBDA l, b : VisitCode(p, l, b), live, VisitBlock(p))

\* Rounds until one changes nothing.
Liveness(p) ==
    LET rounds[live \in LiveSets(p)] ==
            LET l == Round(p, live) IN IF l = live THEN l ELSE rounds[l]
    IN  IF p = <<>> THEN <<>> ELSE rounds[EmptySets(p)]

-----------------------------------------------------------------------------
(***************************************************************************)
(* The definition: a register is needed before n if a path from n reaches  *)
(* a read of it before a write.  A write of a register that the same       *)
(* instruction reads does not end the path.                                *)
(***************************************************************************)
Forward(points, succ, start) ==
    LET reach[S \in SUBSET points] ==
            LET T == S \cup UNION {succ[n] : n \in S} IN IF T = S THEN S ELSE reach[T]
    IN  reach[start]
Backward(points, edges, end) ==
    LET reach[S \in SUBSET points] ==
            LET T == S \cup {e[1] : e \in {f \in edges : f[2] \in S}} IN IF T = S THEN S ELSE reach[T]
    IN  reach[end]

\* The sets are exactly what the paths give, at every instruction reached.
ExactLiveness(p) ==
    LET points == Points(p)
        succ == [n \in points |-> After(p, n)]
        reads == [n \in points |-> Reads(p, n)]
        edges == UNION {{n} \X succ[n] : n \in points}
        reached == Forward(points, succ, {<<b, 1>> : b \in {NonEmpty(p, 1)}})
        live == Liveness(p)
    IN  \A r \in RegsIn(p) \cup CallerSet :
          LET reading == {n \in points : r \in reads[n]}
              open == {e \in edges : At(p, e[1]).result # r}
              need == Backward(points, open, reading)
          IN  \A n \in reached :
                /\ (r \in live[n].in) = (n \in need)
                /\ (r \in live[n].out) = (succ[n] \cap need # {})
=============================================================================
