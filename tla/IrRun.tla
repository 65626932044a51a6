-------------------------------- MODULE IrRun --------------------------------
(***************************************************************************)
(* What a function does, symbolically: registers hold terms, calls return  *)
(* fresh terms and destroy the registers of the callee, and ch tells which *)
(* of the conditions met on the way hold.  The trace has everything the    *)
(* rest of the program can observe: calls with their arguments, stores to  *)
(* objects, the conditions evaluated and what is returned, with the        *)
(* registers that belong to the caller.  Two functions with the same trace *)
(* for every ch compute the same for all inputs.                           *)
(*                                                                         *)
(* k counts the effects so far: a load depends on them, and they number    *)
(* the results of calls.  Reference counting is not an effect that a load  *)
(* could see.                                                              *)
(***************************************************************************)
EXTENDS Ir

Counting == {<<"obj", "Object__refcount_inc">>, <<"obj", "Object__refcount_dec">>}

Entry(p) ==
    [b |-> 1, i |-> 1, n |-> 1, k |-> 0, trace |-> <<>>, written |-> {},
     reg |-> [r \in (1 .. Regs - 1) \cup Temps(p) |-> <<"entry", r>>],
     mem |-> [a \in {} |-> <<>>]]

\* The address term of an operand.
Base(s, o) == IF o.reg = 0 THEN <<"frame", o.addr>> ELSE <<"at", s.reg[o.reg], o.addr>>

Loaded(s, o) ==
    CASE o.obj # NoObj -> IF IsIndirect(o) THEN <<"global", o.obj, s.k>> ELSE <<"obj", o.obj>>
      [] o.mode = "address" -> Base(s, o)
      [] o.reg = 0 -> IF o.addr \in DOMAIN s.mem THEN s.mem[o.addr] ELSE <<"stack", o.addr>>
      [] OTHER -> <<"load", Base(s, o), s.k>>

Value(s, o) == IF o.reg # 0 THEN s.reg[o.reg] ELSE <<"obj", o.obj>>

\* Terms of arithmetic: sums and products do not tell their operands apart,
\* and a sum with a negated term is a difference.
Negated(a) == <<"NEG", a>>
Combined(op, a, b) ==
    CASE op = "ADD" /\ a[1] = "NEG" -> <<"SUB", b, a[2]>>
      [] op \in {"ADD", "MUL"} -> <<op, {a, b}>>
      [] OTHER -> <<op, a, b>>

Write(s, r, v) ==
    [s EXCEPT !.reg = IF r = 0 THEN @ ELSE [@ EXCEPT ![r] = v], !.written = @ \cup {r}, !.i = @ + 1]

Observe(s, event) == [s EXCEPT !.trace = Append(@, event), !.i = @ + 1]

Effect(s, event) == [Observe(s, event) EXCEPT !.k = @ + 1]

\* A CALL: its arguments are the argument registers written since the last one.
Target(s, i) == IF i.first.reg = 0 THEN <<"obj", i.first.obj>> ELSE s.reg[i.first.reg]
Called(s, i) ==
    LET event == <<"call", Target(s, i), [r \in s.written \cap ArgSet |-> s.reg[r]], [r \in ArgSet |-> s.reg[r]]>>
        counting == Target(s, i) \in Counting
    IN  [(IF counting THEN Observe(s, event) ELSE Effect(s, event)) EXCEPT
            !.written = {},
            !.reg = [r \in DOMAIN @ |-> CASE r \in ReturnSet /\ ~counting -> <<"result", s.k + 1>>
                                          [] r \in CalleeSet -> <<"junk", r, Len(s.trace)>>
                                          [] OTHER -> @[r]]]

Returned(s) ==
    [Observe(s, <<"ret", [r \in s.written \cap ReturnSet |-> s.reg[r]],
                  [r \in ReturnSet |-> s.reg[r]], [r \in CallerSet |-> s.reg[r]]>>) EXCEPT !.b = 0]

\* The condition a branch tests and whether the branch is taken when it holds.
Condition(op) ==
    CASE op \in {"BE", "BNE"} -> "equal" [] op \in {"BL", "BGE"} -> "less"
      [] op \in {"BG", "BLE"} -> "greater" [] OTHER -> "true"
TakenIfSo(op) == op \in {"BE", "BL", "BG", "BNZ"}

Goto(s, b) == [s EXCEPT !.b = b, !.i = 1]

\* Code is laid out in the order of the blocks: a block that does not jump
\* runs into the one that follows it.
FallThrough(s, p) == Goto(s, IF s.b < Len(p) THEN s.b + 1 ELSE 0)

\* Constants decide a condition, anything else leaves it to ch.
Decided(t) == t \in {<<"obj", "0">>, <<"obj", "1">>}

Branched(s, p, i, ch) ==
    LET a == Value(s, i.first)
        fixed == i.second = Nil /\ Decided(a)
        t == IF fixed THEN s
             ELSE [Observe(s, <<"cond", Condition(i.op), a,
                                IF i.second = Nil THEN <<>> ELSE Value(s, i.second)>>) EXCEPT !.n = @ + 1]
        holds == IF fixed THEN a = <<"obj", "1">> ELSE ch[s.n]
    IN  IF ~fixed /\ s.n > Len(ch) THEN [t EXCEPT !.b = 0]
        ELSE IF holds = TakenIfSo(i.op) THEN Goto(t, p[s.b].branch) ELSE FallThrough(t, p)

StepOf(s, p, ch) ==
    LET i == p[s.b].code[s.i] IN
    CASE i.op = "NOP"   -> [s EXCEPT !.i = @ + 1]
      [] i.op = "MOV"   -> Write(s, i.result, Value(s, i.first))
      [] i.op = "LOAD"  -> Write(s, i.result, Loaded(s, i.first))
      [] i.op = "STORE" ->
            IF i.first.reg = 0 /\ i.first.obj = NoObj
            THEN [s EXCEPT !.mem = (i.first.addr :> Value(s, i.second)) @@ @, !.i = @ + 1]
            ELSE Effect(s, <<"store", Base(s, i.first), Value(s, i.second)>>)
      [] i.op = "CALL"  -> Called(s, i)
      [] i.op = "RET"   -> Returned(s)
      [] i.op = "JUMP"  -> Goto(s, p[s.b].branch)
      [] i.op \in Branches -> Branched(s, p, i, ch)
      [] i.op = "NEG"   -> Write(s, i.result, Negated(Value(s, i.first)))
      [] OTHER -> Write(s, i.result, Combined(i.op, Value(s, i.first), Value(s, i.second)))

RECURSIVE Execute(_, _, _)
Execute(s, p, ch) ==
    IF s.b = 0 THEN s.trace
    ELSE IF s.i > Len(p[s.b].code) THEN Execute(FallThrough(s, p), p, ch)
    ELSE Execute(StepOf(s, p, ch), p, ch)

Run(p, ch) == Execute(Entry(p), p, ch)

\* An event of the source function and what the compiled one does in its place.
SameEvent(e, f) ==
    CASE e[1] # f[1] -> FALSE
      [] e[1] = "call" -> e[2] = f[2] /\ \A r \in DOMAIN e[3] : e[3][r] = f[4][r]
      [] e[1] = "ret"  -> e[4] = f[4] /\ \A r \in DOMAIN e[2] : e[2][r] = f[3][r]
      [] OTHER -> e = f

SameTrace(t, u) == Len(t) = Len(u) /\ \A k \in 1 .. Len(t) : SameEvent(t[k], u[k])

\* p does what q does, whatever holds of the first depth conditions.
SameMeaningUpTo(p, q, depth) ==
    \A ch \in [1 .. depth -> BOOLEAN] : SameTrace(Run(p, ch), Run(q, ch))
=============================================================================
