---------------------------------- MODULE X86 ----------------------------------
(***************************************************************************)
(* Intel64Generator.cpp: from the code of a function, its registers given, *)
(* to the bytes of the machine.  Text is a sequence of units: a byte <<n>> *)
(* or what the linker or the literal fills in, <<label, width>>.           *)
(***************************************************************************)
EXTENDS Ir, Intel64

CONSTANTS
    Integers64,  \* literals that are integers or booleans
    Wide,        \* those of them above 2^32 - 1
    Doubles      \* literals that are floating point numbers

IsSse(r) == r >= XMM0
RegCode(r) == IF IsSse(r) THEN r - XMM0 ELSE r - RAX
IsExtended(r) == r # 0 /\ RegCode(r) >= 8

Byte(n) == <<<<n>>>>
Bytes2(a, b) == <<<<a>>, <<b>>>>
Ref(label, width) == <<<<label, width>>>>
Int32(n) == <<<<n % 256>>, <<(n \div 256) % 256>>, <<(n \div 65536) % 256>>, <<(n \div 16777216) % 256>>>>

\* The formats of instructions.
RexPrefix == 64
Rex(reg, rm) == Byte(RexPrefix + 8 + (IF IsExtended(reg) THEN 4 ELSE 0) + (IF IsExtended(rm) THEN 1 ELSE 0))
Modrm(mod, reg, rm) == Byte(mod + (8 * (reg % 8)) + (rm % 8))
Direct(reg, rm) == Modrm(192, RegCode(reg), RegCode(rm))

\* Mutant: the saved base pointer is forgotten.
DisplacementFlat(rm, addr) == addr * 8

\* Memory at a register and an offset in words.  Above the base pointer the
\* first word is the saved base pointer itself.
Displacement(rm, addr) == addr * 8 + (IF rm = RBP /\ addr > 0 THEN 8 ELSE 0)
MemoryOperand(reg, mem) ==
    LET rm == IF mem.reg = 0 THEN RBP ELSE mem.reg
        offset == Displacement(rm, mem.addr)
        none == offset = 0 /\ rm \notin {R13, RBP}
        far == offset \notin -128 .. 127
    IN  Modrm(IF none THEN 0 ELSE IF far THEN 128 ELSE 64, RegCode(reg), RegCode(rm))
        \o (IF rm = RSP THEN Byte(36) ELSE <<>>)
        \o (IF none THEN <<>> ELSE IF far THEN Int32(offset) ELSE Byte(offset % 256))
PcRelative(reg, label) == Modrm(0, RegCode(reg), RegCode(RBP)) \o Ref(label, 4)

Gp1(op, ext, rm) == Rex(0, rm) \o Byte(op) \o Modrm(192, ext, RegCode(rm))
Gp(op, reg, rm) == Rex(reg, rm) \o Byte(op) \o Direct(reg, rm)
GpLabel(op, reg, label) == Rex(reg, 0) \o Byte(op) \o PcRelative(reg, label)
GpMem(op, reg, mem) == Rex(reg, IF mem.reg = 0 THEN RBP ELSE mem.reg) \o Byte(op) \o MemoryOperand(reg, mem)
Gp2(op, reg, rm) == Rex(reg, rm) \o Bytes2(15, op) \o Direct(reg, rm)
Sse(prefix, op, reg, rm) == Byte(prefix) \o Gp2(op, reg, rm)
SseMem(op, reg, mem) ==
    Byte(242) \o Rex(reg, IF mem.reg = 0 THEN RBP ELSE mem.reg) \o Bytes2(15, op) \o MemoryOperand(reg, mem)
SseLabel(op, reg, label) == Byte(242) \o Rex(reg, 0) \o Bytes2(15, op) \o PcRelative(reg, label)

\* Instructions.
MovRR(dst, src) == IF dst = src THEN <<>> ELSE Gp(139, dst, src)
MovSd(dst, src) == Sse(242, 16, dst, src)
MovQ(dst, src) == IF IsSse(dst) THEN Sse(102, 110, dst, src) ELSE Sse(102, 126, src, dst)
CvtSi2Sd(dst, src) == Sse(242, 42, dst, src)
MovImm(reg, literal) ==
    LET rex == (IF literal \in Wide THEN 8 ELSE 0) + (IF IsExtended(reg) THEN 1 ELSE 0)
    IN  (IF rex = 0 THEN <<>> ELSE Byte(RexPrefix + rex)) \o Byte(184 + (RegCode(reg) % 8))
        \o Ref(literal, IF literal \in Wide THEN 8 ELSE 4)
MovAddress(reg, label) == Rex(0, reg) \o Byte(184 + (RegCode(reg) % 8)) \o Ref(label, 8)
Push(reg) == (IF IsExtended(reg) THEN Byte(RexPrefix + 9) ELSE <<>>) \o Byte(80 + (RegCode(reg) % 8))
Pop(reg) == (IF IsExtended(reg) THEN Byte(RexPrefix + 9) ELSE <<>>) \o Byte(88 + (RegCode(reg) % 8))
Neg(reg) == Gp1(247, 3, reg)
Idiv(reg) == Gp1(247, 7, reg)
Cqo == Byte(153)
Leave == Byte(201)
Return == Byte(195)
SubImm(reg, n) == Gp1(129, 5, reg) \o Int32(n)
Jump32(label) == Byte(233) \o Ref(label, 4)
Jcc(code, label) == Bytes2(15, code) \o Ref(label, 4)

-----------------------------------------------------------------------------
\* The operations of the intermediate code.
LoadOf(res, a) ==
    CASE a.obj \in Integers64 -> MovImm(res, a.obj)
      [] a.obj \in Doubles -> MovImm(RAX, a.obj) \o MovQ(res, RAX)
      [] a.obj # NoObj /\ IsIndirect(a) -> IF IsSse(res) THEN SseLabel(16, res, a.obj) ELSE GpLabel(139, res, a.obj)
      [] a.obj # NoObj -> MovAddress(res, a.obj)
      [] a.mode = "address" -> GpMem(141, res, a)
      [] OTHER -> IF IsSse(res) THEN SseMem(16, res, a) ELSE GpMem(139, res, a)

StoreOf(a, b) ==
    CASE b.obj \in Integers64 -> MovImm(RAX, b.obj) \o GpMem(137, RAX, a)
      [] a.obj # NoObj -> GpLabel(137, b.reg, a.obj)
      [] OTHER -> IF IsSse(b.reg) THEN SseMem(17, b.reg, a) ELSE GpMem(137, b.reg, a)

Compared(a, b) == IF IsSse(a) THEN Sse(102, 47, a, b) ELSE Gp(59, a, b)

\* Signed integers and doubles set different flags.
JumpCode == [op \in {"BE", "BNE", "BZ", "BNZ", "BG", "BGE", "BL", "BLE"} |->
    CASE op \in {"BE", "BZ"} -> [gp |-> 132, sse |-> 132]
      [] op \in {"BNE", "BNZ"} -> [gp |-> 133, sse |-> 133]
      [] op = "BG" -> [gp |-> 143, sse |-> 135]
      [] op = "BGE" -> [gp |-> 141, sse |-> 131]
      [] op = "BL" -> [gp |-> 140, sse |-> 130]
      [] OTHER -> [gp |-> 142, sse |-> 134]]

BranchOf(op, a, b, label) ==
    (CASE op \notin {"BZ", "BNZ"} -> Compared(a, b)
       [] IsSse(a) -> MovImm(RAX, "0") \o MovQ(XMM0, RAX) \o Compared(a, XMM0)
       [] OTHER -> Gp(133, a, a))
    \o Jcc(IF IsSse(a) THEN JumpCode[op].sse ELSE JumpCode[op].gp, label)

\* res may be one of the operands.
Commutes(res, a, b, mov(_, _), op(_, _)) ==
    IF res = a THEN op(res, b) ELSE IF res = b THEN op(res, a) ELSE mov(res, a) \o op(res, b)

AddOf(res, a, b) ==
    IF IsSse(res) THEN Commutes(res, a, b, MovSd, LAMBDA x, y : Sse(242, 88, x, y))
    ELSE Commutes(res, a, b, MovRR, LAMBDA x, y : Gp(3, x, y))
MulOf(res, a, b) ==
    IF IsSse(res) THEN Commutes(res, a, b, MovSd, LAMBDA x, y : Sse(242, 89, x, y))
    ELSE Commutes(res, a, b, MovRR, LAMBDA x, y : Gp2(175, x, y))
SubOf(res, a, b) ==
    LET sub(x, y) == IF IsSse(res) THEN Sse(242, 92, x, y) ELSE Gp(43, x, y)
        mov(x, y) == IF IsSse(res) THEN MovSd(x, y) ELSE MovRR(x, y)
    IN  CASE res = a -> sub(res, b)
          [] res = b -> IF IsSse(res) THEN MovSd(XMM0, a) \o sub(XMM0, res) \o MovSd(res, XMM0)
                        ELSE Neg(res) \o Gp(3, res, a)
          [] OTHER -> mov(res, a) \o sub(res, b)
DivOf(res, a, b) ==
    CASE ~IsSse(res) -> Push(RDX) \o Push(RBX) \o MovRR(RAX, a) \o MovRR(RBX, b) \o Cqo \o Idiv(RBX)
                        \o Pop(RBX) \o Pop(RDX) \o MovRR(res, RAX)
      [] res = a -> Sse(242, 94, res, b)
      [] res = b -> MovQ(RAX, a) \o Sse(242, 94, a, res) \o MovSd(res, a) \o MovQ(a, RAX)
      [] OTHER -> MovSd(res, a) \o Sse(242, 94, res, b)
NegOf(res, a) ==
    IF IsSse(res) THEN MovImm(RAX, "0") \o CvtSi2Sd(XMM0, RAX) \o Sse(242, 92, XMM0, a) \o MovSd(res, XMM0)
    ELSE MovRR(res, a) \o Neg(res)

Block2(n) == <<"block", n>>
Encoded(i, block) ==
    LET a == i.first.reg
        b == i.second.reg
        to == Block2(block.branch)
    IN  CASE i.op = "RET" -> Leave \o Return
          [] i.op = "MOV" -> IF IsSse(i.result) THEN MovSd(i.result, a) ELSE MovRR(i.result, a)
          [] i.op = "LOAD" -> LoadOf(i.result, i.first)
          [] i.op = "STORE" -> StoreOf(i.first, i.second)
          [] i.op \in Branches -> BranchOf(i.op, a, b, to)
          [] i.op = "CALL" -> IF a = 0 THEN Byte(232) \o Ref(i.first.obj, 4) ELSE Gp1(255, 2, a)
          [] i.op = "JUMP" -> Jump32(to)
          [] i.op = "ADD" -> AddOf(i.result, a, b)
          [] i.op = "SUB" -> SubOf(i.result, a, b)
          [] i.op = "MUL" -> MulOf(i.result, a, b)
          [] i.op = "DIV" -> DivOf(i.result, a, b)
          [] i.op = "NEG" -> NegOf(i.result, a)
          [] OTHER -> <<>>

\* The frame: the slots of the function rounded up to 16 bytes.
Frame(slots) == LET stack == slots * 8 IN IF stack % 16 = 0 THEN stack ELSE stack + 16 - (stack % 16)
Prolog(slots) == Push(RBP) \o MovRR(RBP, RSP) \o (IF slots = 0 THEN <<>> ELSE SubImm(RSP, Frame(slots)))

BlockText(block) == FoldLeft(LAMBDA text, i : text \o Encoded(i, block), <<>>, block.code)

\* The text of a function and where its blocks begin.
Assembled(p, slots) ==
    FoldLeft(LAMBDA s, block : [text |-> s.text \o BlockText(block), at |-> Append(s.at, Len(s.text) + 1)],
             [text |-> Prolog(slots), at |-> <<>>], p)
=============================================================================
