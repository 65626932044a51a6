-------------------------------- MODULE Intel64 --------------------------------
(***************************************************************************)
(* The Intel64 machine description (Machine.cpp): registers in the order   *)
(* of their declaration, from 1, and the conventions of calls.             *)
(***************************************************************************)
EXTENDS Integers, Sequences

RAX == 1   RCX == 2   RDX == 3   RBX == 4   RSP == 5   RBP == 6   RSI == 7   RDI == 8
R8 == 9    R9 == 10   R10 == 11  R11 == 12  R12 == 13  R13 == 14  R14 == 15  R15 == 16
XMM0 == 17
XMMLAST == 32

Xmm(a, b) == [n \in 1 .. b - a + 1 |-> XMM0 + a + n - 1]

Intel64Machine ==
    [regs     |-> XMMLAST + 1,
     callee   |-> <<RAX, RCX, RDX, RSI, RDI, R8, R9, R10, R11>> \o Xmm(0, 15),
     caller   |-> <<RBX, R12, R13, R14, R15>>,
     args     |-> <<RDI, RSI, RDX, RCX, R8, R9>>,
     fargs    |-> Xmm(0, 7),
     returns  |-> <<RAX>>,
     freturns |-> <<XMM0>>,
     special  |-> {RSP, RBP, R12},
     floats   |-> XMM0 .. XMMLAST,
     sp       |-> RSP]
=============================================================================
