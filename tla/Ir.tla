---------------------------------- MODULE Ir ----------------------------------
(***************************************************************************)
(* The intermediate representation of the compiler (IrBlock.hpp,           *)
(* IrBlock.cpp, Machine.hpp, Machine.cpp): three-operand instructions in   *)
(* basic blocks, over the registers of a machine and the temporaries that  *)
(* follow them.  What a function made of such blocks computes is defined   *)
(* in IrRun.                                                               *)
(*                                                                         *)
(* A register is its id: 0 is "no register", 1 .. Regs-1 are the machine's *)
(* and everything from Regs on is a temporary.  The FLOAT flag belongs to  *)
(* the id: the float registers of the machine are Mach.floats, the float   *)
(* temporaries those of the function.                                      *)
(***************************************************************************)
EXTENDS Integers, Sequences, FiniteSets, SequencesExt, FiniteSetsExt, Functions

CONSTANTS
    Mach,    \* the machine description, see MachineAssumption
    Names    \* the labels and literals that operands name

\* The machine names disjoint classes of its own registers.
MachineAssumption ==
    /\ Mach.regs \in Nat \ {0}
    /\ \A k \in {"caller", "callee", "args", "fargs", "returns", "freturns"} :
          Mach[k] \in Seq(1 .. Mach.regs - 1)
    /\ Mach.special \cup Mach.floats \cup {Mach.sp} \subseteq 1 .. Mach.regs - 1
    /\ Range(Mach.caller) \cap Range(Mach.callee) = {}
ASSUME MachineAssumption

Regs == Mach.regs
CallerSet == Range(Mach.caller)         \* saved by the callee, kept across a CALL
CalleeSet == Range(Mach.callee)         \* lost in a CALL
ArgSet    == Range(Mach.args) \cup Range(Mach.fargs)
ReturnSet == Range(Mach.returns) \cup Range(Mach.freturns)

IsMachineReg(r) == r < Regs
IsTemp(r) == r >= Regs

-----------------------------------------------------------------------------
\* Operands: a register, a literal or label, an address; each may be absent.
\* mode tells a value from memory at the address and from the address itself.
NoObj == "none"
ASSUME NamesAssumption == NoObj \in Names

AnyOperand == [reg : Nat, obj : Names, addr : Int, mode : {"value", "memory", "address"}]
Nil == [reg |-> 0, obj |-> NoObj, addr |-> 0, mode |-> "value"]
R(r) == [Nil EXCEPT !.reg = r]
Obj(o) == [Nil EXCEPT !.obj = o]
Mem(r, a) == [Nil EXCEPT !.reg = r, !.addr = a, !.mode = "memory"]  \* [r + a]; r = 0: in the frame
Lea(r, a) == [Nil EXCEPT !.reg = r, !.addr = a, !.mode = "address"] \* r + a
Global(o) == [Nil EXCEPT !.obj = o, !.mode = "memory"]
IsIndirect(o) == o.mode = "memory"

\* Only the register of an operand is replaced, nothing else of it.
WithReg(o, r) == [o EXCEPT !.reg = r]

Instr(op, res, a, b) == [op |-> op, result |-> res, first |-> a, second |-> b]
Nop == Instr("NOP", 0, Nil, Nil)

Opcodes == {"MOV", "ADD", "SUB", "MUL", "DIV", "NEG", "ANDB", "ORB", "LOAD", "STORE", "NOTB", "CALL", "JUMP",
            "BNE", "BE", "BNZ", "BZ", "BG", "BL", "BGE", "BLE", "RET", "NOP"}
AnyInstr == [op : Opcodes, result : Nat, first : AnyOperand, second : AnyOperand]

Branches == {"BNE", "BE", "BNZ", "BZ", "BG", "BL", "BGE", "BLE"}

\* A block: its instructions and the blocks it falls through or branches to (0: none).
Block(code, nxt, br) == [code |-> code, next |-> nxt, branch |-> br]

IsTerminated(b) == b.code # <<>> /\ Last(b.code).op \in {"RET", "JUMP"} \cup Branches
IsRet(b) == b.code # <<>> /\ Last(b.code).op = "RET"

\* A function is a sequence of blocks, its first one the entry.
Programs == Seq([code : Seq(AnyInstr), next : Nat, branch : Nat])
Points(p) == UNION {{b} \X (1 .. Len(p[b].code)) : b \in 1 .. Len(p)}
At(p, n) == p[n[1]].code[n[2]]
Uses(i) == {i.first.reg, i.second.reg} \ {0}
RegsIn(p) == (UNION {Uses(At(p, n)) \cup {At(p, n).result} : n \in Points(p)}) \ {0}
Temps(p) == {r \in RegsIn(p) : IsTemp(r)}
=============================================================================
