------------------------------- MODULE X86Meaning -------------------------------
(***************************************************************************)
(* What bytes do on the machine: a decoder of the instructions, after the  *)
(* manual of the processor, and their effect on registers, flags and the   *)
(* stack.  The trace is that of IrRun.tla, so that the text of a function and *)
(* its intermediate code can be compared.                                  *)
(***************************************************************************)
EXTENDS X86, IrRun

\* Unit n of the text as a number; -1 if it is no byte.
ByteAt(text, n) == IF n \in DOMAIN text /\ Len(text[n]) = 1 THEN text[n][1] ELSE -1
Refers(text, n, width) == n \in DOMAIN text /\ Len(text[n]) = 2 /\ text[n][2] = width

Signed8(b) == IF b >= 128 THEN b - 256 ELSE b
Signed32(text, n) ==
    LET b == [k \in 0 .. 3 |-> ByteAt(text, n + k)]
    IN  b[0] + 256 * b[1] + 65536 * b[2] + 16777216 * Signed8(b[3])

\* The ModRM byte at n with what follows it: a register, memory at a
\* register, or memory at a label.
Bit1(rex, weight) == (rex \div weight) % 2
Operand(text, n, rex) ==
    LET b == ByteAt(text, n)
        mod == b \div 64
        code == b % 8
        rm == code + 8 * Bit1(rex, 1)
        sib == IF code = 4 THEN 1 ELSE 0
        form == CASE mod = 3 -> "register"
                  [] mod = 0 /\ code = 5 -> IF Refers(text, n + 1, 4) THEN "label" ELSE "invalid"
                  [] sib = 1 /\ ByteAt(text, n + 1) # 36 -> "invalid"      \* only a bare base register
                  [] OTHER -> "memory"
    IN  [form |-> form, rm |-> rm,
         reg |-> ((b \div 8) % 8) + (8 * Bit1(rex, 4)),
         label |-> IF form = "label" THEN text[n + 1][1] ELSE NoObj,
         offset |-> CASE form # "memory" \/ mod = 0 -> 0
                      [] mod = 1 -> Signed8(ByteAt(text, n + 1 + sib))
                      [] OTHER -> Signed32(text, n + 1 + sib),
         next |-> CASE form = "register" -> n + 1
                    [] form = "label" -> n + 2
                    [] mod = 0 -> n + 1 + sib
                    [] mod = 1 -> n + 2 + sib
                    [] OTHER -> n + 5 + sib]

\* Prefixes, REX, opcode: what an instruction starts with.
Start(text, n) ==
    LET prefix == IF ByteAt(text, n) \in {102, 242} THEN ByteAt(text, n) ELSE 0
        p == IF prefix = 0 THEN n ELSE n + 1
        rex == IF ByteAt(text, p) \in 64 .. 79 THEN ByteAt(text, p) - 64 ELSE 0
        q == IF rex = 0 /\ ByteAt(text, p) # 64 THEN p ELSE p + 1
        two == ByteAt(text, q) = 15
    IN  [prefix |-> prefix, rex |-> rex, two |-> two,
         op |-> ByteAt(text, IF two THEN q + 1 ELSE q), next |-> IF two THEN q + 2 ELSE q + 1]

Gpr(n) == RAX + n
Xmmr(n) == XMM0 + n

-----------------------------------------------------------------------------
\* The machine: registers hold the terms of Ir, RSP and RBP addresses
\* relative to the stack pointer at the entry.
Stack(n) == <<"sp", n>>
MachineEntry ==
    [at |-> 1, n |-> 1, k |-> 0, trace |-> <<>>, flags |-> <<>>,
     reg |-> [r \in 1 .. Regs - 1 |-> IF r = RSP THEN Stack(0) ELSE <<"entry", r>>],
     mem |-> [a \in {} |-> <<>>]]

Broken(s) == [s EXCEPT !.trace = Append(@, <<"broken", s.at>>), !.at = 0]
Set(s, r, v) == [s EXCEPT !.reg[r] = v]

\* The term of an address; words of the frame count down from the saved base pointer.
AddressOf(s, o) ==
    LET base == s.reg[Gpr(o.rm)]
    IN  IF base[1] = "sp" THEN <<"frame", (base[2] + o.offset + 8) \div 8>> ELSE <<"at", base, o.offset \div 8>>
InStack(s, o) == s.reg[Gpr(o.rm)][1] = "sp"
StackAt(s, o) == s.reg[Gpr(o.rm)][2] + o.offset

\* What the stack holds before anything is stored: below the saved base
\* pointer slots of the frame, above the return address arguments.
SlotOf(n) == IF n < 0 THEN (n + 8) \div 8 ELSE n \div 8
Fetch(s, o) ==
    CASE o.form = "label" -> <<"global", o.label, s.k>>
      [] InStack(s, o) -> IF StackAt(s, o) \in DOMAIN s.mem THEN s.mem[StackAt(s, o)]
                          ELSE <<"stack", SlotOf(StackAt(s, o))>>
      [] OTHER -> <<"load", AddressOf(s, o), s.k>>

\* A store through RSP passes an argument.
Put86(s, o, v) ==
    LET written == [s EXCEPT !.mem = (StackAt(s, o) :> v) @@ @]
        slot == IF InStack(s, o) THEN <<"at", <<"entry", RSP>>, o.offset \div 8>> ELSE AddressOf(s, o)
    IN  IF InStack(s, o) /\ Gpr(o.rm) # RSP THEN written
        ELSE [(IF InStack(s, o) THEN written ELSE s) EXCEPT
                 !.trace = Append(@, <<"store", slot, v>>), !.k = @ + 1]

Calls86(s, target) ==
    LET counting == target \in Counting
        event == <<"call", target, <<>>, [r \in ArgSet |-> s.reg[r]]>>
        sp == s.reg[RSP][2]
    IN  IF (sp - 8) % 16 # 0 THEN Broken(s)       \* the stack is aligned at a call
        ELSE [s EXCEPT !.trace = Append(@, event), !.k = IF counting THEN @ ELSE @ + 1, !.flags = <<>>,
                  !.mem = [a \in {x \in DOMAIN @ : x >= sp} |-> @[a]],
                  !.reg = [r \in DOMAIN @ |-> CASE r \in ReturnSet /\ ~counting -> <<"result", s.k + 1>>
                                                [] r \in CalleeSet -> <<"junk", r, Len(s.trace)>>
                                                [] OTHER -> @[r]]]

Returns86(s) ==
    IF s.reg[RSP] # Stack(0) \/ s.reg[RBP] # <<"entry", RBP>> THEN Broken(s)
    ELSE [s EXCEPT !.at = 0, !.trace = Append(@, <<"ret", <<>>, [r \in ReturnSet |-> s.reg[r]],
                                                  [r \in CallerSet |-> s.reg[r]]>>)]

PushValue(s, v) ==
    LET sp == s.reg[RSP][2] - 8 IN [Set(s, RSP, Stack(sp)) EXCEPT !.mem = (sp :> v) @@ @]
PopTo(s, r) == LET sp == s.reg[RSP][2] IN Set(Set(s, RSP, Stack(sp + 8)), r, s.mem[sp])

\* The condition a conditional jump tests after a comparison: name, operands
\* and whether it jumps when the condition holds.
Zero == <<"obj", "0">>
JumpTests(code, flags) ==
    LET pair == <<flags[2], flags[3]>>
        signed == code \in {140, 141, 142, 143}
        truth == flags[1] = "test" \/ (flags[3] = Zero /\ flags[1] = "comisd")
        less == code \in {130, 131, 140, 141}
    IN  CASE code \in {132, 133} ->
                IF truth THEN [c |-> "true", a |-> flags[2], b |-> <<>>, so |-> code = 133]
                ELSE [c |-> "equal", a |-> flags[2], b |-> flags[3], so |-> code = 132]
          [] signed = (flags[1] = "cmp") ->
                [c |-> IF less THEN "less" ELSE "greater", a |-> pair[1], b |-> pair[2], so |-> code \in {130, 135, 140, 143}]
          [] OTHER -> [c |-> "wrong sign", a |-> pair[1], b |-> pair[2], so |-> TRUE]

Jumps86(s, code, to, else, ch) ==
    LET t == JumpTests(code, s.flags)
        fixed == t.c = "true" /\ Decided(t.a)
        asked == IF fixed THEN s
                 ELSE [s EXCEPT !.trace = Append(@, <<"cond", t.c, t.a, t.b>>), !.n = @ + 1]
        holds == IF fixed THEN t.a = <<"obj", "1">> ELSE ch[s.n]
    IN  IF s.flags = <<>> THEN Broken(s)
        ELSE IF ~fixed /\ s.n > Len(ch) THEN [asked EXCEPT !.at = 0]
        ELSE [asked EXCEPT !.at = IF holds = t.so THEN to ELSE else]

\* Differences from zero are negations.
Minus(a, b) == IF a = <<"double", Zero>> THEN Negated(b) ELSE Combined("SUB", a, b)

\* Instructions with one opcode byte and a ModRM.
OneByte(s, i, o) ==
    LET reg == Gpr(o.reg)
        rm == Gpr(o.rm)
        value == IF o.form = "register" THEN s.reg[rm] ELSE Fetch(s, o)
        moved(t) == IF t.reg[RSP][1] = "sp" THEN t ELSE Broken(s)
    IN  CASE o.form = "invalid" -> Broken(s)
          [] i.op = 139 -> moved(Set(s, reg, value))
          [] i.op = 137 /\ o.form = "memory" -> Put86(s, o, s.reg[reg])
          [] i.op = 141 /\ o.form = "memory" -> Set(s, reg, AddressOf(s, o))
          [] i.op = 3 -> Set(s, reg, Combined("ADD", s.reg[reg], value))
          [] i.op = 43 -> Set(s, reg, Combined("SUB", s.reg[reg], value))
          [] i.op = 59 -> [s EXCEPT !.flags = <<"cmp", s.reg[reg], value>>]
          [] i.op = 133 /\ reg = rm -> [s EXCEPT !.flags = <<"test", value, value>>]
          [] i.op = 247 /\ o.reg = 3 -> Set(s, rm, Negated(value))
          [] i.op = 247 /\ o.reg = 7 ->
                Set(Set(s, RAX, IF s.reg[RDX] = <<"sign", s.reg[RAX]>> THEN Combined("DIV", s.reg[RAX], value)
                                ELSE <<"quotient", s.reg[RDX], s.reg[RAX], value>>), RDX, <<"remainder">>)
          [] i.op = 255 /\ o.reg = 2 -> Calls86(s, value)
          [] OTHER -> Broken(s)

\* And with two.
TwoBytes(s, i, o) ==
    LET x == Xmmr(o.reg)
        value == CASE o.form # "register" -> Fetch(s, o)
                   [] i.op \in {42, 110, 175} -> s.reg[Gpr(o.rm)]
                   [] OTHER -> s.reg[Xmmr(o.rm)]
    IN  CASE o.form = "invalid" -> Broken(s)
          [] i.prefix = 0 /\ i.op = 175 -> Set(s, Gpr(o.reg), Combined("MUL", s.reg[Gpr(o.reg)], value))
          [] i.prefix = 242 /\ i.op = 16 -> Set(s, x, value)
          [] i.prefix = 242 /\ i.op = 17 /\ o.form = "memory" -> Put86(s, o, s.reg[x])
          [] i.prefix = 242 /\ i.op = 42 -> Set(s, x, <<"double", value>>)
          [] i.prefix = 242 /\ i.op = 88 -> Set(s, x, Combined("ADD", s.reg[x], value))
          [] i.prefix = 242 /\ i.op = 89 -> Set(s, x, Combined("MUL", s.reg[x], value))
          [] i.prefix = 242 /\ i.op = 92 -> Set(s, x, Minus(s.reg[x], value))
          [] i.prefix = 242 /\ i.op = 94 -> Set(s, x, Combined("DIV", s.reg[x], value))
          [] i.prefix = 102 /\ i.op = 110 -> Set(s, x, value)
          [] i.prefix = 102 /\ i.op = 126 -> Set(s, Gpr(o.rm), s.reg[x])
          [] i.prefix = 102 /\ i.op = 47 -> [s EXCEPT !.flags = <<"comisd", s.reg[x], value>>]
          [] OTHER -> Broken(s)

\* Instructions without a ModRM: n is where the rest of the instruction is.
Plain86(s, text, at, i, ch) ==
    LET n == i.next
        width == IF Bit1(i.rex, 8) = 1 THEN 8 ELSE 4
        reg == (i.op % 8) + 8 * Bit1(i.rex, 1)
        target == IF Refers(text, n, 4) THEN text[n][1] ELSE NoObj
    IN  CASE i.op \in 184 .. 191 ->
                IF Refers(text, n, width) THEN [Set(s, Gpr(reg), <<"obj", text[n][1]>>) EXCEPT !.at = n + 1] ELSE Broken(s)
          [] i.op \in 80 .. 87 -> [PushValue(s, s.reg[Gpr(reg)]) EXCEPT !.at = n]
          [] i.op \in 88 .. 95 -> [PopTo(s, Gpr(reg)) EXCEPT !.at = n]
          [] i.op = 201 -> [PopTo(Set(s, RSP, s.reg[RBP]), RBP) EXCEPT !.at = n]
          [] i.op = 195 -> Returns86(s)
          [] i.op = 153 -> [Set(s, RDX, <<IF width = 8 THEN "sign" ELSE "sign32", s.reg[RAX]>>) EXCEPT !.at = n]
          [] i.op = 232 /\ Refers(text, n, 4) -> [Calls86(s, <<"obj", target>>) EXCEPT !.at = IF @ = 0 THEN 0 ELSE n + 1]
          [] i.op = 233 /\ Refers(text, n, 4) -> [s EXCEPT !.at = at[target[2]]]
          [] OTHER -> Broken(s)

IsPlain(i) == ~i.two /\ i.op \in (80 .. 95) \cup (184 .. 191) \cup {153, 195, 201, 232, 233}
IsJump(i) == i.two /\ i.op \in 128 .. 143

StepOf86(s, text, at, ch) ==
    LET i == Start(text, s.at)
        o == Operand(text, i.next, i.rex)
        imm == Signed32(text, o.next)
        done(t) == IF t.at = 0 THEN t ELSE [t EXCEPT !.at = o.next]
    IN  CASE IsPlain(i) -> Plain86(s, text, at, i, ch)
          [] IsJump(i) -> IF Refers(text, i.next, 4) THEN Jumps86(s, i.op, at[text[i.next][1][2]], i.next + 1, ch) ELSE Broken(s)
          [] i.two -> done(TwoBytes(s, i, o))
          [] Bit1(i.rex, 8) = 0 -> Broken(s)          \* half a register
          [] i.op = 129 /\ o.reg = 5 -> [Set(s, Gpr(o.rm), Stack(s.reg[Gpr(o.rm)][2] - imm)) EXCEPT !.at = o.next + 4]
          [] OTHER -> done(OneByte(s, i, o))

RECURSIVE Execute86(_, _, _, _)
Execute86(s, text, at, ch) ==
    IF s.at = 0 THEN s.trace
    ELSE IF s.at > Len(text) THEN Broken(s).trace
    ELSE Execute86(StepOf86(s, text, at, ch), text, at, ch)

\* What the text of a function does.
Run86(asm, ch) == Execute86(MachineEntry, asm.text, asm.at, ch)
=============================================================================
