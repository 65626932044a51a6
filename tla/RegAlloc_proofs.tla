---------------------------- MODULE RegAlloc_proofs ----------------------------
(***************************************************************************)
(* The registers that RegisterAllocator.cpp gives to temporaries never     *)
(* clash, for any function, any machine and however often the code is      *)
(* optimised and spilled before: whatever is alive at the same time is an  *)
(* edge of the graph, seen from both ends, and a colour differs from those *)
(* at the other ends of its edges from the moment it is chosen.  Every     *)
(* pass leaves a program, and when they are through no temporary is left:  *)
(* until then the work list, the stack and the colours account for all.    *)
(***************************************************************************)
EXTENDS RegAlloc, Lists

USE NamesAssumption

-----------------------------------------------------------------------------
(* Operands and instructions are made of registers, names and numbers.     *)
LEMMA Parts ==
  /\ Nil \in AnyOperand /\ Nop \in AnyInstr
  /\ \A r \in Nat, a \in Int : Mem(r, a) \in AnyOperand /\ R(r) \in AnyOperand
  /\ \A o \in AnyOperand, r \in Nat : WithReg(o, r) \in AnyOperand /\ o.reg \in Nat /\ WithReg(o, r).reg = r
  /\ \A op \in Opcodes, r \in Nat, x, y \in AnyOperand : Instr(op, r, x, y) \in AnyInstr
  /\ \A i \in AnyInstr : /\ i.op \in Opcodes /\ i.result \in Nat
                         /\ i.first \in AnyOperand /\ i.second \in AnyOperand
<1>1. Nil \in AnyOperand
  BY DEF Nil, AnyOperand
<1>2. ASSUME NEW r \in Nat, NEW a \in Int PROVE Mem(r, a) \in AnyOperand /\ R(r) \in AnyOperand
  <2>1. ASSUME NEW o \in AnyOperand
        PROVE  /\ [o EXCEPT !.reg = r] \in AnyOperand
               /\ [o EXCEPT !.reg = r, !.addr = a, !.mode = "memory"] \in AnyOperand
    BY DEF AnyOperand
  <2> QED
    BY <1>1, <2>1 DEF Mem, R
<1>3. ASSUME NEW o \in AnyOperand, NEW r \in Nat
      PROVE  WithReg(o, r) \in AnyOperand /\ o.reg \in Nat /\ WithReg(o, r).reg = r
  BY DEF WithReg, AnyOperand
<1>4. ASSUME NEW op \in Opcodes, NEW r \in Nat, NEW x \in AnyOperand, NEW y \in AnyOperand
      PROVE  Instr(op, r, x, y) \in AnyInstr
  BY DEF Instr, AnyInstr
<1>5. ASSUME NEW i \in AnyInstr
      PROVE  i.op \in Opcodes /\ i.result \in Nat /\ i.first \in AnyOperand /\ i.second \in AnyOperand
  BY DEF AnyInstr
<1>6. Nop \in AnyInstr
  <2>1. "NOP" \in Opcodes
    BY DEF Opcodes
  <2> QED
    BY <1>1, <1>4, <2>1 DEF Nop
<1> QED
  BY <1>1, <1>2, <1>3, <1>4, <1>5, <1>6

(* A program with the code of its blocks replaced.                         *)
WithCode(p, new) == [b \in 1 .. Len(p) |-> [p[b] EXCEPT !.code = new[b]]]

(* It is a program again.                                                  *)
LEMMA NewCode ==
  ASSUME NEW p \in Programs, NEW new \in [1 .. Len(p) -> Seq(AnyInstr)]
  PROVE  /\ WithCode(p, new) \in Programs /\ Len(p) \in Nat /\ Len(WithCode(p, new)) = Len(p)
         /\ \A b \in 1 .. Len(p) : WithCode(p, new)[b].code = new[b] /\ p[b].code \in Seq(AnyInstr)
<1> DEFINE q == WithCode(p, new)
           B == [code : Seq(AnyInstr), next : Nat, branch : Nat]
<1>1. Len(p) \in Nat /\ p \in [1 .. Len(p) -> B]
  <2>1. p \in Seq(B)
    BY DEF Programs
  <2> HIDE DEF B
  <2> QED
    BY <2>1, LenProperties
<1>2. ASSUME NEW b \in 1 .. Len(p)
      PROVE  /\ [p[b] EXCEPT !.code = new[b]] \in B
             /\ [p[b] EXCEPT !.code = new[b]].code = new[b]
             /\ p[b].code \in Seq(AnyInstr)
  <2>1. p[b] \in B /\ new[b] \in Seq(AnyInstr)
    BY <1>1
  <2> QED
    BY <2>1
<1> HIDE DEF B
<1>3. q \in [1 .. Len(p) -> B] /\ \A b \in 1 .. Len(p) : q[b].code = new[b]
  BY <1>2 DEF WithCode
<1>4. q \in Seq(B) /\ Len(q) = Len(p)
  BY <1>1, <1>3
<1> QED
  BY <1>1, <1>2, <1>3, <1>4 DEF Programs, B

(* The instructions put around one that uses the spilled register.         *)
LEMMA SpillOne ==
  ASSUME NEW i \in AnyInstr, NEW r \in Nat, NEW a \in Int, NEW caller \in BOOLEAN
  PROVE  Spill1(i, r, a, caller) \in Seq(AnyInstr) /\ <<StoreSlot(r, a)>> \in Seq(AnyInstr)
<1>1. LoadSlot(r, a) \in AnyInstr /\ StoreSlot(r, a) \in AnyInstr
  <2>1. "LOAD" \in Opcodes /\ "STORE" \in Opcodes
    BY DEF Opcodes
  <2> QED
    BY <2>1, Parts DEF LoadSlot, StoreSlot
<1>2. ASSUME NEW j \in AnyInstr PROVE <<j>> \in Seq(AnyInstr)
  OBVIOUS
<1>3. << >> \in Seq(AnyInstr)
  OBVIOUS
<1>4. ASSUME NEW u \in Seq(AnyInstr), NEW v \in Seq(AnyInstr) PROVE u \o v \in Seq(AnyInstr)
  BY ConcatProperties
<1> QED
  BY <1>1, <1>2, <1>3, <1>4 DEF Spill1

(* The code that spill_register leaves of a block: instruction by          *)
(* instruction, by induction on their number (Climb).                      *)
LEMMA SpillCodeType ==
  ASSUME NEW code \in Seq(AnyInstr), NEW r \in Nat, NEW a \in Int, NEW caller \in BOOLEAN
  PROVE  SpillCode(code, r, a, caller) \in Seq(AnyInstr)
<1> DEFINE X == Seq(AnyInstr)
           n == Len(code)
           step == [k \in 1 .. n |-> [s \in X |-> s \o Spill1(code[k], r, a, caller)]]
           Body(k, f) == IF k = 0 THEN << >> ELSE f[k - 1] \o Spill1(code[k], r, a, caller)
           F == CHOOSE f : f = [k \in 0 .. n |-> Body(k, f)]
<1>1. n \in Nat /\ << >> \in X
  OBVIOUS
<1>2. ASSUME NEW k \in 1 .. n, NEW s \in X
      PROVE  s \o Spill1(code[k], r, a, caller) \in X
  <2>1. code[k] \in AnyInstr
    OBVIOUS
  <2> QED
    BY <2>1, SpillOne, ConcatProperties
<1>3. step \in [1 .. n -> [X -> X]]
  BY <1>2
<1>4. \A k \in 1 .. n : \A s \in X : step[k][s] = s \o Spill1(code[k], r, a, caller)
  OBVIOUS
<1>5. SpillCode(code, r, a, caller) = F[n]
  BY DEF SpillCode
<1> HIDE DEF X, step, n
<1>6. PICK f : Iteration(f, X, << >>, n, step)
  BY <1>1, <1>3, Iterates, Zenon
<1>7. \A k \in 0 .. n : k # 0 => k \in 1 .. n /\ k - 1 \in 0 .. n
  BY <1>1
<1>8. f = [k \in 0 .. n |-> Body(k, f)]
  <2>1. ASSUME NEW k \in 0 .. n PROVE f[k] = Body(k, f)
    <3>1. CASE k = 0
      BY <1>6, <3>1 DEF Iteration
    <3>2. CASE k # 0
      <4>1. f[k - 1] \in X
        BY <1>6, <1>7, <3>2 DEF Iteration
      <4> QED
        BY <1>4, <1>6, <1>7, <3>2, <4>1 DEF Iteration
    <3> QED
      BY <3>1, <3>2
  <2> QED
    BY <1>6, <2>1 DEF Iteration
<1>9. F = [k \in 0 .. n |-> Body(k, F)]
  BY <1>8, Zenon
<1> DEFINE Good == {k \in 0 .. n : F[k] \in X}
<1> HIDE DEF F
<1>10. \A k \in 0 .. n : F[k] = Body(k, F)
  BY <1>9
<1>11. 0 \in Good
  BY <1>1, <1>10
<1>12. ASSUME NEW k \in 1 .. n, k - 1 \in Good PROVE k \in Good
  BY <1>1, <1>2, <1>10, <1>12
<1>13. Good = 0 .. n
  <2>1. Good \in SUBSET (0 .. n)
    OBVIOUS
  <2> HIDE DEF Good
  <2> QED
    BY <1>1, <1>11, <1>12, <2>1, Climb
<1>14. F[n] \in X
  <2>1. n \in 0 .. n
    BY <1>1
  <2> QED
    BY <1>13, <2>1
<1> QED
  BY <1>5, <1>14 DEF X

(* Spilling leaves a program (spill_register of RegisterAllocator.cpp).    *)
LEMMA SpillType ==
  ASSUME NEW p \in Programs, NEW r \in Nat, NEW a \in Int, NEW caller \in BOOLEAN
  PROVE  SpillEverywhere(p, r, a, caller) \in Programs
<1> DEFINE new == [b \in 1 .. Len(p) |->
                    (IF b = 1 /\ caller THEN <<StoreSlot(r, a)>> ELSE << >>)
                    \o SpillCode(p[b].code, r, a, caller)]
           old == [b \in 1 .. Len(p) |-> << >>]
<1>1. \A b \in 1 .. Len(p) : p[b].code \in Seq(AnyInstr)
  <2>1. old \in [1 .. Len(p) -> Seq(AnyInstr)]
    OBVIOUS
  <2> HIDE DEF old
  <2> QED
    BY <2>1, NewCode
<1>2. ASSUME NEW b \in 1 .. Len(p) PROVE new[b] \in Seq(AnyInstr)
  <2>1. SpillCode(p[b].code, r, a, caller) \in Seq(AnyInstr)
    BY <1>1, SpillCodeType
  <2>2. (IF b = 1 /\ caller THEN <<StoreSlot(r, a)>> ELSE << >>) \in Seq(AnyInstr)
    <3>1. <<StoreSlot(r, a)>> \in Seq(AnyInstr)
      BY Parts, SpillOne
    <3> QED
      BY <3>1
  <2> QED
    BY <2>1, <2>2, ConcatProperties
<1>3. SpillEverywhere(p, r, a, caller) = WithCode(p, new)
  BY DEF SpillEverywhere, WithCode
<1>4. new \in [1 .. Len(p) -> Seq(AnyInstr)]
  BY <1>2
<1> HIDE DEF new
<1> QED
  BY <1>3, <1>4, NewCode

-----------------------------------------------------------------------------
(* What copy propagation knows: operands of some registers.                *)
Maps == UNION {[S -> AnyOperand] : S \in SUBSET Nat}
CopyStates == [code : Seq(AnyInstr), eq : Maps, lit : Maps]

(* The maps of the copy propagator stay maps to operands.                  *)
LEMMA MapFacts ==
  /\ \A m \in Maps : \A r \in DOMAIN m : m[r] \in AnyOperand
  /\ \A m \in Maps : \A S : Without(m, S) \in Maps
  /\ \A m \in Maps, r \in Nat, o \in AnyOperand : Recorded(m, r, o) \in Maps
  /\ NoneKnown \in Maps
<1>1. ASSUME NEW m \in Maps
      PROVE  /\ DOMAIN m \in SUBSET Nat /\ m \in [DOMAIN m -> AnyOperand]
             /\ \A r \in DOMAIN m : m[r] \in AnyOperand
  <2>1. PICK S \in SUBSET Nat : m \in [S -> AnyOperand]
    BY DEF Maps
  <2> QED
    BY <2>1
<1>2. ASSUME NEW S \in SUBSET Nat, NEW m \in [S -> AnyOperand] PROVE m \in Maps
  BY DEF Maps
<1>3. ASSUME NEW m \in Maps, NEW S PROVE Without(m, S) \in Maps
  <2>1. Without(m, S) \in [DOMAIN m \ S -> AnyOperand] /\ DOMAIN m \ S \in SUBSET Nat
    BY <1>1 DEF Without
  <2> QED
    BY <1>2, <2>1
<1>4. ASSUME NEW m \in Maps, NEW r \in Nat, NEW o \in AnyOperand PROVE Recorded(m, r, o) \in Maps
  <2> DEFINE S == DOMAIN m \cup {r}
  <2>1. Recorded(m, r, o) \in [S -> AnyOperand] /\ S \in SUBSET Nat
    BY <1>1 DEF Recorded
  <2> QED
    BY <1>2, <2>1
<1>5. NoneKnown \in Maps
  <2>1. NoneKnown \in [{} -> AnyOperand] /\ {} \in SUBSET Nat
    BY DEF NoneKnown
  <2> QED
    BY <1>2, <2>1
<1> QED
  BY <1>1, <1>3, <1>4, <1>5

(* One instruction of a block is propagated and recorded.                  *)
LEMMA CopyStepType ==
  ASSUME NEW st \in CopyStates, NEW i \in AnyInstr
  PROVE  CopyStep(st, i) \in CopyStates
<1>1. st.eq \in Maps /\ st.lit \in Maps /\ st.code \in Seq(AnyInstr)
  BY DEF CopyStates
<1>2. ASSUME NEW o \in AnyOperand PROVE Substitute(st.eq, o) \in AnyOperand
  BY <1>1, MapFacts, Parts DEF Substitute
<1>3. ASSUME NEW o \in AnyOperand PROVE AliasOf(st.eq, o) \in AnyOperand
  BY <1>1, MapFacts DEF AliasOf
<1> DEFINE j == Propagated(i, st.eq, st.lit)
<1>4. j \in AnyInstr
  <2>1. Substitute(st.eq, i.first) \in AnyOperand /\ Substitute(st.eq, i.second) \in AnyOperand
    BY <1>2, Parts
  <2>2. i.first.reg \in DOMAIN st.lit => st.lit[i.first.reg] \in AnyOperand
    BY <1>1, MapFacts
  <2>3. ASSUME NEW a \in AnyOperand, NEW b \in AnyOperand
        PROVE  /\ [i EXCEPT !.op = "LOAD", !.first = a, !.second = b] \in AnyInstr
               /\ [i EXCEPT !.first = a, !.second = b] \in AnyInstr
    <3>1. "LOAD" \in Opcodes
      BY DEF Opcodes
    <3> QED
      BY <3>1 DEF AnyInstr
  <2> QED
    BY <2>1, <2>2, <2>3 DEF Propagated
<1> HIDE DEF j
<1> DEFINE rhs == AliasOf(st.eq, j.first)
           moved == IF j.op = "MOV" /\ ~IsMachineReg(rhs.reg) /\ ~IsIndirect(rhs) /\ rhs.reg # 0
                    THEN [st EXCEPT !.eq = Recorded(@, j.result, rhs), !.lit = Without(@, {j.result})]
                    ELSE st
           loaded == IF j.op = "LOAD" /\ ~IsIndirect(j.first)
                     THEN [moved EXCEPT !.lit = Recorded(@, j.result, j.first), !.eq = Without(@, {j.result})]
                     ELSE moved
           known == IF j.op = "CALL"
                    THEN [loaded EXCEPT !.eq = Without(@, ReturnSet), !.lit = Without(@, ReturnSet)]
                    ELSE loaded
<1>5. rhs \in AnyOperand /\ j.first \in AnyOperand /\ j.result \in Nat
  BY <1>3, <1>4, Parts
<1>6. ASSUME NEW s \in CopyStates, NEW f \in Maps, NEW g \in Maps
      PROVE  /\ [s EXCEPT !.eq = f, !.lit = g] \in CopyStates
             /\ [s EXCEPT !.lit = f, !.eq = g] \in CopyStates
             /\ s.eq \in Maps /\ s.lit \in Maps /\ s.code \in Seq(AnyInstr)
  BY DEF CopyStates
<1>7. moved \in CopyStates
  <2>1. Recorded(st.eq, j.result, rhs) \in Maps /\ Without(st.lit, {j.result}) \in Maps
    BY <1>1, <1>5, MapFacts
  <2> QED
    BY <1>6, <2>1
<1> HIDE DEF rhs
<1>8. loaded \in CopyStates
  <2> HIDE DEF moved
  <2>1. Recorded(moved.lit, j.result, j.first) \in Maps /\ Without(moved.eq, {j.result}) \in Maps
    BY <1>5, <1>6, <1>7, MapFacts
  <2> QED
    BY <1>6, <1>7, <2>1
<1>9. known \in CopyStates
  <2> HIDE DEF loaded
  <2>1. Without(loaded.eq, ReturnSet) \in Maps /\ Without(loaded.lit, ReturnSet) \in Maps
    BY <1>6, <1>8, MapFacts
  <2> QED
    BY <1>6, <1>8, <2>1
<1>10. Known(st, j) = known
  BY DEF Known, rhs
<1>11. CopyStep(st, i) = [Known(st, j) EXCEPT !.code = Append(@, j)]
  BY DEF CopyStep, j
<1> HIDE DEF known
<1>12. Append(known.code, j) \in Seq(AnyInstr)
  <2>1. known.code \in Seq(AnyInstr)
    BY <1>6, <1>9, MapFacts
  <2> QED
    BY <1>4, <2>1, AppendProperties
<1>13. ASSUME NEW s \in CopyStates, NEW c \in Seq(AnyInstr) PROVE [s EXCEPT !.code = c] \in CopyStates
  BY DEF CopyStates
<1> QED
  BY <1>9, <1>10, <1>11, <1>12, <1>13

(* And all of them, one after the other.                                   *)
LEMMA CopiedType ==
  ASSUME NEW code \in Seq(AnyInstr)
  PROVE  CopiesFollowed(code) \in Seq(AnyInstr)
<1> DEFINE X == CopyStates
           n == Len(code)
           base == [code |-> << >>, eq |-> NoneKnown, lit |-> NoneKnown]
           step == [k \in 1 .. n |-> [s \in X |-> CopyStep(s, code[k])]]
           Body(k, f) == IF k = 0 THEN [code |-> << >>, eq |-> NoneKnown, lit |-> NoneKnown]
                         ELSE CopyStep(f[k - 1], code[k])
           F == CHOOSE f : f = [k \in 0 .. n |-> Body(k, f)]
<1>1. n \in Nat /\ base \in X
  <2>1. << >> \in Seq(AnyInstr)
    OBVIOUS
  <2> QED
    BY <2>1, MapFacts DEF CopyStates
<1>2. ASSUME NEW k \in 1 .. n, NEW s \in X
      PROVE  CopyStep(s, code[k]) \in X
  <2>1. code[k] \in AnyInstr
    OBVIOUS
  <2> QED
    BY <2>1, CopyStepType
<1>3. step \in [1 .. n -> [X -> X]]
  BY <1>2
<1>4. \A k \in 1 .. n : \A s \in X : step[k][s] = CopyStep(s, code[k])
  OBVIOUS
<1>5. CopiesFollowed(code) = F[n].code
  BY DEF CopiesFollowed
<1>6. \A f : Body(0, f) = base
  OBVIOUS
<1>7. \A f, k : k # 0 => Body(k, f) = CopyStep(f[k - 1], code[k])
  OBVIOUS
<1> HIDE DEF X, step, n, base, Body
<1>8. PICK f : Iteration(f, X, base, n, step)
  BY <1>1, <1>3, Iterates, Zenon
<1>9. \A k \in 0 .. n : k # 0 => k \in 1 .. n /\ k - 1 \in 0 .. n
  BY <1>1
<1>10. f = [k \in 0 .. n |-> Body(k, f)]
  <2>1. ASSUME NEW k \in 0 .. n PROVE f[k] = Body(k, f)
    <3>1. CASE k = 0
      BY <1>6, <1>8, <3>1 DEF Iteration
    <3>2. CASE k # 0
      <4>1. f[k - 1] \in X
        BY <1>8, <1>9, <3>2 DEF Iteration
      <4>2. k \in 1 .. n /\ f[k] = step[k][f[k - 1]]
        BY <1>8, <1>9, <3>2 DEF Iteration
      <4>3. f[k] = CopyStep(f[k - 1], code[k])
        BY <1>4, <4>1, <4>2, Zenon
      <4> QED
        BY <1>7, <3>2, <4>3, Zenon
    <3> QED
      BY <3>1, <3>2
  <2> QED
    BY <1>8, <2>1, Zenon DEF Iteration
<1>11. F = [k \in 0 .. n |-> Body(k, F)]
  BY <1>10, Zenon
<1> DEFINE Good == {k \in 0 .. n : F[k] \in X}
<1> HIDE DEF F
<1>12. \A k \in 0 .. n : F[k] = Body(k, F)
  BY <1>11
<1>13. 0 \in Good
  BY <1>1, <1>6, <1>12
<1>14. ASSUME NEW k \in 1 .. n, k - 1 \in Good PROVE k \in Good
  <2>1. k \in 0 .. n /\ k # 0 /\ F[k - 1] \in X
    BY <1>1, <1>14
  <2>2. F[k] = CopyStep(F[k - 1], code[k])
    BY <1>7, <1>12, <2>1
  <2> QED
    BY <1>2, <2>1, <2>2
<1>15. Good = 0 .. n
  <2>1. Good \in SUBSET (0 .. n)
    OBVIOUS
  <2> HIDE DEF Good
  <2> QED
    BY <1>1, <1>13, <1>14, <2>1, Climb
<1>16. F[n] \in X
  <2>1. n \in 0 .. n
    BY <1>1
  <2> QED
    BY <1>15, <2>1
<1> QED
  BY <1>5, <1>16 DEF X, CopyStates

(* The code of a block is a list of instructions.                          *)
LEMMA BlockCode ==
  ASSUME NEW p \in Programs, NEW b \in 1 .. Len(p)
  PROVE  p[b].code \in Seq(AnyInstr)
<1> DEFINE old == [c \in 1 .. Len(p) |-> << >>]
<1>1. old \in [1 .. Len(p) -> Seq(AnyInstr)]
  OBVIOUS
<1> HIDE DEF old
<1> QED
  BY <1>1, NewCode

(* Copy propagation leaves a program (CopyPropagator.cpp).                 *)
LEMMA CopyPropagateType ==
  ASSUME NEW p \in Programs
  PROVE  CopyPropagate(p) \in Programs
<1> DEFINE new == [b \in 1 .. Len(p) |-> CopiesFollowed(p[b].code)]
<1>1. new \in [1 .. Len(p) -> Seq(AnyInstr)]
  BY BlockCode, CopiedType
<1>2. CopyPropagate(p) = WithCode(p, new)
  BY DEF CopyPropagate, WithCode
<1> HIDE DEF new
<1> QED
  BY <1>1, <1>2, NewCode

-----------------------------------------------------------------------------
(* The temporaries of a program are finitely many numbers, and every       *)
(* register of an instruction that is one of a temporary is among them.    *)
LEMMA TempsType ==
  ASSUME NEW p \in Programs
  PROVE  /\ Temps(p) \in SUBSET Nat /\ IsFiniteSet(Temps(p))
         /\ \A n \in Points(p) : At(p, n) \in AnyInstr
         /\ \A n \in Points(p) : \A r \in {At(p, n).first.reg, At(p, n).second.reg, At(p, n).result} :
               r \in Nat /\ (r # 0 /\ IsTemp(r) => r \in Temps(p))
<1>0. \A k \in Nat : IsFiniteSet(1 .. k)
  BY FS_Interval
<1>1. ASSUME NEW n \in Points(p)
      PROVE  /\ n[1] \in 1 .. Len(p) /\ n[2] \in 1 .. Len(p[n[1]].code)
             /\ At(p, n) \in AnyInstr
  <2>1. PICK b \in 1 .. Len(p) : n \in {b} \X (1 .. Len(p[b].code))
    BY DEF Points
  <2>2. n[1] = b /\ n[2] \in 1 .. Len(p[b].code)
    BY <2>1
  <2>3. p[b].code \in Seq(AnyInstr)
    BY BlockCode
  <2> QED
    BY <2>2, <2>3 DEF At
<1>2. ASSUME NEW i \in AnyInstr
      PROVE  /\ i.first.reg \in Nat /\ i.second.reg \in Nat /\ i.result \in Nat
             /\ IsFiniteSet(Uses(i) \cup {i.result})
             /\ Uses(i) \cup {i.result} \subseteq Nat
  <2>1. i.first.reg \in Nat /\ i.second.reg \in Nat /\ i.result \in Nat
    BY Parts
  <2>2. IsFiniteSet({i.first.reg} \cup {i.second.reg} \cup {i.result})
    BY FS_Singleton, FS_Union
  <2>3. Uses(i) \cup {i.result} \in SUBSET ({i.first.reg} \cup {i.second.reg} \cup {i.result})
    BY DEF Uses
  <2> QED
    BY <2>1, <2>2, <2>3, FS_Subset
<1> DEFINE All(n) == Uses(At(p, n)) \cup {At(p, n).result}
           Code(b) == {b} \X (1 .. Len(p[b].code))
           all == [n \in Points(p) |-> All(n)]
           code == [b \in 1 .. Len(p) |-> Code(b)]
<1>3. IsFiniteSet(Points(p))
  <2>1. Len(p) \in Nat /\ IsFiniteSet(1 .. Len(p))
    <3> DEFINE old == [c \in 1 .. Len(p) |-> << >>]
    <3>1. old \in [1 .. Len(p) -> Seq(AnyInstr)]
      OBVIOUS
    <3> HIDE DEF old
    <3>2. Len(p) \in Nat
      BY <3>1, NewCode
    <3> QED
      BY <1>0, <3>2
  <2>2. ASSUME NEW b \in 1 .. Len(p) PROVE IsFiniteSet(Code(b))
    <3>1. Len(p[b].code) \in Nat
      BY BlockCode, LenProperties
    <3>2. IsFiniteSet(1 .. Len(p[b].code)) /\ IsFiniteSet({b})
      BY <1>0, <3>1, FS_Singleton
    <3> QED
      BY <3>2, FS_Product
  <2> HIDE DEF Code
  <2>3. DOMAIN code = 1 .. Len(p) /\ code = [b \in 1 .. Len(p) |-> code[b]]
    OBVIOUS
  <2>4. IsFiniteSet({code[b] : b \in 1 .. Len(p)})
    <3> HIDE DEF code
    <3> QED
      BY <2>1, <2>3, ImageFinite
  <2>5. Points(p) = UNION {code[b] : b \in 1 .. Len(p)}
    BY DEF Points, Code
  <2>6. \A T \in {code[b] : b \in 1 .. Len(p)} : IsFiniteSet(T)
    BY <2>2
  <2> QED
    BY <2>4, <2>5, <2>6, FS_UNION
<1>4. IsFiniteSet(UNION {All(n) : n \in Points(p)}) /\ UNION {All(n) : n \in Points(p)} \subseteq Nat
  <2>1. DOMAIN all = Points(p) /\ all = [n \in Points(p) |-> all[n]]
    OBVIOUS
  <2>2. IsFiniteSet({all[n] : n \in Points(p)})
    <3> HIDE DEF all
    <3> QED
      BY <1>3, <2>1, ImageFinite
  <2>3. \A n \in Points(p) : IsFiniteSet(All(n)) /\ All(n) \subseteq Nat
    BY <1>1, <1>2
  <2> HIDE DEF All
  <2>4. \A T \in {all[n] : n \in Points(p)} : IsFiniteSet(T) /\ T \subseteq Nat
    BY <2>3
  <2>5. {All(n) : n \in Points(p)} = {all[n] : n \in Points(p)}
    OBVIOUS
  <2> HIDE DEF all
  <2> QED
    BY <2>2, <2>4, <2>5, FS_UNION
<1>5. Temps(p) \in SUBSET (UNION {All(n) : n \in Points(p)})
  BY DEF Temps, RegsIn
<1>6. ASSUME NEW n \in Points(p), NEW r \in {At(p, n).first.reg, At(p, n).second.reg, At(p, n).result}
      PROVE  r \in Nat /\ (r # 0 /\ IsTemp(r) => r \in Temps(p))
  <2>1. r \in Nat
    BY <1>1, <1>2
  <2>2. r # 0 => r \in All(n)
    BY DEF Uses
  <2> HIDE DEF All
  <2>3. RegsIn(p) = (UNION {All(m) : m \in Points(p)}) \ {0}
    BY DEF RegsIn, All
  <2>4. r # 0 => r \in RegsIn(p)
    <3>1. \A x \in All(n) : x \in UNION {All(m) : m \in Points(p)}
      OBVIOUS
    <3>2. r # 0 => r \in UNION {All(m) : m \in Points(p)}
      BY <2>2, <3>1
    <3> QED
      BY <2>3, <3>2, Zenon
  <2> QED
    BY <2>1, <2>4 DEF Temps
<1> HIDE DEF All
<1> QED
  BY <1>1, <1>4, <1>5, <1>6, FS_Subset

(* The members of a finite set in order: its elements and no others.       *)
LEMMA AscendingAll ==
  ASSUME NEW S \in SUBSET Nat, IsFiniteSet(S)
  PROVE  Ascending(S) \in Seq(S) /\ Members(Ascending(S)) = S
<1> DEFINE Below(x) == {y \in S : y < x}
           n == Cardinality(S)
           rank == [x \in S |-> Cardinality(Below(x)) + 1]
<1>1. n \in Nat
  BY FS_CardinalityType
<1>2. ASSUME NEW x \in S
      PROVE  IsFiniteSet(Below(x)) /\ Cardinality(Below(x)) \in Nat /\ rank[x] \in 1 .. n
  <2>1. Below(x) \in SUBSET S /\ x \notin Below(x)
    OBVIOUS
  <2> HIDE DEF Below
  <2>2. /\ IsFiniteSet(Below(x)) /\ Cardinality(Below(x)) <= Cardinality(S)
        /\ Cardinality(S) # Cardinality(Below(x))
    BY <2>1, FS_Subset
  <2>3. Cardinality(Below(x)) \in Nat
    BY <2>2, FS_CardinalityType
  <2> QED
    BY <1>1, <2>2, <2>3
<1>3. ASSUME NEW x \in S, NEW z \in S, x < z
      PROVE  Cardinality(Below(x)) < Cardinality(Below(z))
  <2>1. x \in Below(z) /\ x \notin Below(x) /\ x \in Nat /\ z \in Nat
    BY <1>3
  <2>2. \A y \in Nat : y < x => y < z
    BY <1>3, <2>1
  <2>3. Below(x) \in SUBSET Below(z)
    BY <2>2
  <2> HIDE DEF Below
  <2>4. Cardinality(Below(x)) <= Cardinality(Below(z)) /\ Cardinality(Below(x)) # Cardinality(Below(z))
    BY <1>2, <2>1, <2>3, FS_Subset
  <2> QED
    BY <1>2, <2>4
<1> HIDE DEF Below
<1>4. ASSUME NEW x \in S, NEW z \in S, rank[x] = rank[z]
      PROVE  x = z
  <2>1. x < z \/ z < x \/ x = z
    OBVIOUS
  <2> QED
    BY <1>2, <1>3, <1>4, <2>1
<1>5. rank \in Injection(S, 1 .. n)
  <2>1. rank \in [S -> 1 .. n]
    BY <1>2
  <2> HIDE DEF rank
  <2> QED
    BY <1>4, <2>1 DEF Injection, IsInjective
<1>6. rank \in Surjection(S, 1 .. n)
  <2>1. IsFiniteSet(1 .. n) /\ Cardinality(1 .. n) = n
    BY <1>1, FS_Interval
  <2> HIDE DEF rank
  <2> QED
    BY <1>5, <2>1, FS_Injection
<1>7. ASSUME NEW k \in 1 .. n
      PROVE  Ascending(S)[k] \in S /\ rank[Ascending(S)[k]] = k
  <2>1. PICK x \in S : rank[x] = k
    BY <1>6 DEF Surjection
  <2>2. Cardinality(Below(x)) = k - 1
    BY <1>1, <1>2, <2>1
  <2>3. Ascending(S)[k] = CHOOSE y \in S : Cardinality(Below(y)) = k - 1
    BY DEF Ascending, Below
  <2>4. Ascending(S)[k] \in S /\ Cardinality(Below(Ascending(S)[k])) = k - 1
    BY <2>2, <2>3
  <2> QED
    BY <1>1, <1>2, <2>4
<1> DEFINE list == Ascending(S)
<1>8. list \in [1 .. n -> S]
  BY <1>7 DEF Ascending
<1> HIDE DEF list, n, rank
<1>9. list \in Seq(S) /\ DOMAIN list = 1 .. n
  BY <1>1, <1>8
<1>10. ASSUME NEW x \in S PROVE \E k \in DOMAIN list : list[k] = x
  <2>1. rank[x] \in 1 .. n
    BY <1>2 DEF rank
  <2> QED
    BY <1>4, <1>7, <1>9, <2>1 DEF list
<1> QED
  BY <1>8, <1>9, <1>10 DEF Members, list

-----------------------------------------------------------------------------
(* What the description of the machine says of its registers.              *)
LEMMA MachineRegs ==
  /\ Regs \in Nat \ {0}
  /\ Mach.caller \in Seq(1 .. Regs - 1)
<1>1. Regs = Mach.regs
  BY DEF Regs
<1> QED
  BY <1>1, MachineAssumption, Zenon DEF MachineAssumption

(* A function on 1 .. m is a list of length m.                             *)
LEMMA FunctionIsList ==
  ASSUME NEW S, NEW m \in Nat, NEW g \in [1 .. m -> S]
  PROVE  g \in Seq(S) /\ Len(g) = m
OBVIOUS

(* A rewriting of every instruction of a program in its place.             *)
LEMMA CodeReplaced ==
  ASSUME NEW p \in Programs, NEW f,
         DOMAIN f = Points(p),
         \A n \in Points(p) : f[n] \in AnyInstr,
         NEW q, q = [b \in 1 .. Len(p) |-> [p[b] EXCEPT !.code = [k \in DOMAIN p[b].code |-> f[<<b, k>>]]]]
  PROVE  /\ q \in Programs /\ Points(q) = Points(p)
         /\ \A n \in Points(p) : At(q, n) = f[n]
<1> DEFINE new == [b \in 1 .. Len(p) |-> [k \in DOMAIN p[b].code |-> f[<<b, k>>]]]
<1>1. q = WithCode(p, new)
  BY DEF WithCode
<1>2. ASSUME NEW b \in 1 .. Len(p)
      PROVE  /\ p[b].code \in Seq(AnyInstr) /\ Len(p[b].code) \in Nat
             /\ DOMAIN p[b].code = 1 .. Len(p[b].code)
  BY BlockCode, LenProperties
<1>3. \A b \in 1 .. Len(p) : \A k \in 1 .. Len(p[b].code) : <<b, k>> \in Points(p)
  <2> SUFFICES ASSUME NEW b \in 1 .. Len(p), NEW k \in 1 .. Len(p[b].code)
               PROVE  <<b, k>> \in Points(p)
    OBVIOUS
  <2>1. <<b, k>> \in {b} \X (1 .. Len(p[b].code))
    OBVIOUS
  <2> QED
    BY <2>1 DEF Points
<1>4. ASSUME NEW b \in 1 .. Len(p)
      PROVE  new[b] \in Seq(AnyInstr) /\ Len(new[b]) = Len(p[b].code)
  <2>1. new[b] \in [1 .. Len(p[b].code) -> AnyInstr]
    BY <1>2, <1>3
  <2> HIDE DEF new
  <2> QED
    BY <1>2, <2>1, FunctionIsList
<1>5. \A b \in 1 .. Len(p) : \A k \in 1 .. Len(p[b].code) : new[b][k] = f[<<b, k>>]
  BY <1>2
<1>6. new \in [1 .. Len(p) -> Seq(AnyInstr)]
  BY <1>4
<1> HIDE DEF new
<1>7. /\ q \in Programs /\ Len(q) = Len(p)
      /\ \A b \in 1 .. Len(p) : q[b].code = new[b]
  <2>1. /\ WithCode(p, new) \in Programs /\ Len(WithCode(p, new)) = Len(p)
        /\ \A b \in 1 .. Len(p) : WithCode(p, new)[b].code = new[b]
    BY <1>6, NewCode
  <2> QED
    BY <1>1, <2>1, Zenon
<1>8. Points(q) = Points(p)
  BY <1>4, <1>7 DEF Points
<1>9. ASSUME NEW n \in Points(p) PROVE At(q, n) = f[n]
  <2>1. PICK b \in 1 .. Len(p) : n \in {b} \X (1 .. Len(p[b].code))
    BY DEF Points
  <2>2. n = <<b, n[2]>> /\ n[1] = b /\ n[2] \in 1 .. Len(p[b].code)
    BY <2>1
  <2>3. At(q, n) = q[b].code[n[2]] /\ q[b].code = new[b]
    BY <1>7, <2>2 DEF At
  <2>4. new[b][n[2]] = f[<<b, n[2]>>]
    BY <1>5, <2>2
  <2>5. f[<<b, n[2]>>] = f[n]
    BY <2>2
  <2> QED
    BY <2>3, <2>4, <2>5, Zenon
<1> QED
  BY <1>7, <1>8, <1>9

(* Removing dead code brings no temporary in.                              *)
LEMMA RemoveDeadKeeps ==
  ASSUME NEW p \in Programs
  PROVE  RemoveDead(p) \in Programs /\ Temps(RemoveDead(p)) \subseteq Temps(p)
<1> DEFINE live == Liveness(p)
           f == [n \in Points(p) |-> IF IsDead(live, n, At(p, n)) THEN Nop ELSE At(p, n)]
           q == RemoveDead(p)
<1>1. q = [b \in 1 .. Len(p) |-> [p[b] EXCEPT !.code = [k \in DOMAIN p[b].code |-> f[<<b, k>>]]]]
  <2>1. ASSUME NEW b \in 1 .. Len(p), NEW k \in DOMAIN p[b].code
        PROVE  f[<<b, k>>] = IF IsDead(live, <<b, k>>, p[b].code[k]) THEN Nop ELSE p[b].code[k]
    <3>1. DOMAIN p[b].code = 1 .. Len(p[b].code)
      BY BlockCode, LenProperties
    <3>2. <<b, k>> \in Points(p)
      BY <3>1 DEF Points
    <3> QED
      BY <3>2 DEF At
  <2> HIDE DEF f, live
  <2> QED
    BY <2>1 DEF RemoveDead, live
<1>2. \A n \in Points(p) : f[n] \in AnyInstr /\ (f[n] = Nop \/ f[n] = At(p, n))
  BY TempsType, Parts
<1> HIDE DEF f, live, q
<1>3. DOMAIN f = Points(p)
  BY DEF f
<1>4. q \in Programs /\ Points(q) = Points(p) /\ \A n \in Points(p) : At(q, n) = f[n]
  BY <1>1, <1>2, <1>3, CodeReplaced
<1>5. Uses(Nop) \cup {Nop.result} = {0}
  BY DEF Nop, Instr, Nil, Uses
<1>6. RegsIn(q) \subseteq RegsIn(p)
  BY <1>2, <1>4, <1>5 DEF RegsIn
<1> QED
  BY <1>4, <1>6 DEF Temps, q

(* With the registers put in for the temporaries the code is a program,    *)
(* and none of them is left in it (rewrite_temporaries).                   *)
LEMMA RewriteType ==
  ASSUME prog \in Programs, RewriteTemporaries, DOMAIN color = Temps(prog),
         \A t \in DOMAIN color : color[t] \in 0 .. Regs - 1
  PROVE  prog' \in Programs /\ Temps(prog') = {}
<1> DEFINE f == [n \in Points(prog) |-> Recolored(At(prog, n))]
<1>1. prog' = [b \in 1 .. Len(prog) |->
                    [prog[b] EXCEPT !.code = [k \in DOMAIN prog[b].code |-> f[<<b, k>>]]]]
  <2>1. ASSUME NEW b \in 1 .. Len(prog), NEW k \in DOMAIN prog[b].code
        PROVE  f[<<b, k>>] = Recolored(prog[b].code[k])
    <3>1. DOMAIN prog[b].code = 1 .. Len(prog[b].code)
      BY BlockCode, LenProperties
    <3>2. <<b, k>> \in Points(prog)
      BY <3>1 DEF Points
    <3> QED
      BY <3>2 DEF At
  <2>2. prog' = [b \in 1 .. Len(prog) |->
                    [prog[b] EXCEPT !.code = [k \in DOMAIN prog[b].code |-> Recolored(prog[b].code[k])]]]
    BY DEF RewriteTemporaries
  <2> HIDE DEF f
  <2> QED
    BY <2>1, <2>2
<1>2. \A r \in Nat : (r # 0 /\ IsTemp(r) => r \in Temps(prog)) => ColorOf(r) \in 0 .. Regs - 1
  BY MachineRegs DEF ColorOf, IsTemp
<1>3. ASSUME NEW n \in Points(prog)
      PROVE  /\ f[n] \in AnyInstr
             /\ {f[n].first.reg, f[n].second.reg, f[n].result} \subseteq 0 .. Regs - 1
  <2> DEFINE i == At(prog, n)
  <2>1. /\ i \in AnyInstr /\ i.first \in AnyOperand /\ i.second \in AnyOperand
        /\ \A r \in {i.first.reg, i.second.reg, i.result} : ColorOf(r) \in 0 .. Regs - 1
    BY <1>2, TempsType, Parts
  <2> HIDE DEF i
  <2>2. ASSUME NEW a \in AnyOperand, NEW c \in AnyOperand, NEW r \in Nat
        PROVE  /\ [i EXCEPT !.first = a, !.second = c, !.result = r] \in AnyInstr
               /\ [i EXCEPT !.first = a, !.second = c, !.result = r].first = a
               /\ [i EXCEPT !.first = a, !.second = c, !.result = r].second = c
               /\ [i EXCEPT !.first = a, !.second = c, !.result = r].result = r
    BY <2>1 DEF AnyInstr
  <2>3. \A r \in 0 .. Regs - 1 : r \in Nat
    OBVIOUS
  <2>4. /\ WithReg(i.first, ColorOf(i.first.reg)) \in AnyOperand
        /\ WithReg(i.second, ColorOf(i.second.reg)) \in AnyOperand
        /\ WithReg(i.first, ColorOf(i.first.reg)).reg = ColorOf(i.first.reg)
        /\ WithReg(i.second, ColorOf(i.second.reg)).reg = ColorOf(i.second.reg)
    BY <2>1, <2>3, Parts
  <2>5. f[n] = Recolored(i)
    BY DEF i
  <2>6. Recolored(i) = [i EXCEPT !.first = WithReg(i.first, ColorOf(i.first.reg)),
                         !.second = WithReg(i.second, ColorOf(i.second.reg)),
                         !.result = ColorOf(i.result)]
    BY <2>1 DEF Recolored
  <2> DEFINE a == WithReg(i.first, ColorOf(i.first.reg))
             c == WithReg(i.second, ColorOf(i.second.reg))
             r == ColorOf(i.result)
  <2>7. /\ a \in AnyOperand /\ c \in AnyOperand /\ r \in Nat
        /\ a.reg = ColorOf(i.first.reg) /\ c.reg = ColorOf(i.second.reg)
    BY <2>1, <2>3, <2>4
  <2>8. f[n] = [i EXCEPT !.first = a, !.second = c, !.result = r]
    BY <2>5, <2>6
  <2> HIDE DEF a, c, r
  <2>9. f[n] \in AnyInstr /\ f[n].first = a /\ f[n].second = c /\ f[n].result = r
    <3>1. [i EXCEPT !.first = a, !.second = c, !.result = r] \in AnyInstr
      BY <2>2, <2>7
    <3>2. /\ [i EXCEPT !.first = a, !.second = c, !.result = r].first = a
          /\ [i EXCEPT !.first = a, !.second = c, !.result = r].second = c
          /\ [i EXCEPT !.first = a, !.second = c, !.result = r].result = r
      BY <2>1 DEF AnyInstr
    <3> QED
      BY <2>8, <3>1, <3>2, Zenon
  <2>10. /\ f[n].first.reg = ColorOf(i.first.reg) /\ f[n].second.reg = ColorOf(i.second.reg)
        /\ f[n].result = ColorOf(i.result)
    BY <2>9, <2>7 DEF r
  <2> QED
    BY <2>1, <2>9, <2>10
<1> HIDE DEF f
<1>4. DOMAIN f = Points(prog)
  BY DEF f
<1>5. /\ prog' \in Programs /\ Points(prog') = Points(prog)
      /\ \A n \in Points(prog) : At(prog', n) = f[n]
  <2> DEFINE q == prog'
  <2>1. q = [b \in 1 .. Len(prog) |->
                    [prog[b] EXCEPT !.code = [k \in DOMAIN prog[b].code |-> f[<<b, k>>]]]]
    BY <1>1
  <2> HIDE DEF q
  <2>2. \A n \in Points(prog) : f[n] \in AnyInstr
    BY <1>3
  <2>3. q \in Programs /\ Points(q) = Points(prog) /\ \A n \in Points(prog) : At(q, n) = f[n]
    BY <1>4, <2>1, <2>2, CodeReplaced
  <2> QED
    BY <2>3 DEF q
<1>6. \A r \in 0 .. Regs - 1 : ~IsTemp(r)
  BY MachineRegs DEF IsTemp
<1>7. \A r \in RegsIn(prog') : ~IsTemp(r)
  BY <1>3, <1>5, <1>6 DEF RegsIn, Uses
<1> QED
  BY <1>5, <1>7 DEF Temps

-----------------------------------------------------------------------------
(* The least of the registers that fit is one of them.                     *)
LEMMA LeastFits ==
  ASSUME NEW t, Fitting(t) # {}
  PROVE  Min(Fitting(t)) \in Fitting(t)
<1>1. Fitting(t) \in SUBSET Nat
  BY MachineRegs DEF Fitting
<1>2. \E m \in Fitting(t) : \A n \in Fitting(t) : m <= n
  BY <1>1, LeastNumber
<1> QED
  BY <1>2 DEF Min

(* What is alive before an instruction is next to everything else that is, *)
(* and to the registers that a CALL destroys.                              *)
LEMMA EdgesOfLive ==
  ASSUME NEW p, NEW live, NEW n \in Points(p), NEW t, t \in live[n].in
  PROVE  /\ live[n].in \subseteq Interferences(p, live, t)
         /\ At(p, n).op = "CALL" => CalleeSet \subseteq Interferences(p, live, t)
<1>1. n \in {m \in Points(p) : t \in live[m].in}
  OBVIOUS
<1> QED
  BY <1>1 DEF Interferences

-----------------------------------------------------------------------------
(* The edges are those of the code, no colour is among the registers that  *)
(* its temporary must avoid, and neighbours differ.                        *)
Coloring ==
    /\ graph = BuildGraphOf(prog)
    /\ DOMAIN color = DOMAIN graph
    /\ \A t \in DOMAIN color : color[t] # 0 => color[t] \notin graph[t]
    /\ \A t, u \in DOMAIN color :
          t # u /\ u \in graph[t] /\ t \in graph[u] /\ color[t] # 0 => color[t] # color[u]

AllocInv ==
    /\ color \in [DOMAIN color -> {0} \cup 2 .. Regs - 1]
    /\ ColorsFit
    /\ phase \in {"stack", "color"} => Coloring

(* Nothing is coloured yet.                                                *)
LEMMA AllocInit ==
  Init => AllocInv
<1> SUFFICES ASSUME Init PROVE AllocInv
  OBVIOUS
<1>1. DOMAIN color = {} /\ color = [t \in {} |-> 0]
  BY DEF Init
<1>2. phase \notin {"stack", "color"}
  BY DEF Init
<1> QED
  BY <1>1, <1>2 DEF AllocInv, ColorsFit

(* A new colour fits, and differs from those of the neighbours.            *)
LEMMA ColorTopKeeps ==
  ASSUME AllocInv, ColorTop
  PROVE  AllocInv'
<1> DEFINE top == Last(stack)
           r == Min(Fitting(top))
<1>1. /\ phase = "color" /\ phase' = "color" /\ Fitting(top) # {}
      /\ color' = [color EXCEPT ![top] = r]
      /\ graph' = graph /\ prog' = prog /\ src' = src
  BY DEF ColorTop
<1>2. r \in 2 .. Regs - 1 /\ ColorOk(top, r)
  BY <1>1, LeastFits DEF Fitting
<1>3. r # 0
  BY <1>2
<1> HIDE DEF top, r
<1>4. /\ DOMAIN color' = DOMAIN color
      /\ \A t \in DOMAIN color : color'[t] = IF t = top THEN r ELSE color[t]
      /\ color' \in [DOMAIN color' -> {0} \cup 2 .. Regs - 1]
  BY <1>1, <1>2 DEF AllocInv
<1>5. ColorsFit'
  BY <1>1, <1>2, <1>4 DEF AllocInv, ColorsFit, ColorOk, IsFloat
<1>6. Coloring'
  <2>1. (graph = BuildGraphOf(prog))' /\ (DOMAIN color = DOMAIN graph)'
    BY <1>1, <1>4 DEF AllocInv, Coloring, BuildGraphOf, Liveness, Interferences
  <2>2. (\A t \in DOMAIN color : color[t] # 0 => color[t] \notin graph[t])'
    BY <1>1, <1>2, <1>4 DEF AllocInv, Coloring, ColorOk
  <2>3. ASSUME NEW t \in DOMAIN color, NEW u \in DOMAIN color,
               t # u, u \in graph[t], t \in graph[u], color'[t] # 0
        PROVE  color'[t] # color'[u]
    <3>1. CASE t = top
      BY <1>2, <1>4, <2>3, <3>1 DEF ColorOk
    <3>2. CASE u = top
      BY <1>2, <1>4, <2>3, <3>2 DEF ColorOk
    <3>3. CASE t # top /\ u # top
      BY <1>1, <1>4, <2>3, <3>3 DEF AllocInv, Coloring
    <3> QED
      BY <3>1, <3>2, <3>3
  <2> QED
    BY <1>1, <1>4, <2>1, <2>2, <2>3 DEF Coloring
<1> QED
  BY <1>4, <1>5, <1>6 DEF AllocInv

(* Each pass keeps it: a new graph has no colours, and only the colouring  *)
(* gives some.                                                             *)
LEMMA AllocStep ==
  ASSUME AllocInv, [Next]_vars
  PROVE  AllocInv'
<1>1. ASSUME UNCHANGED <<src, color>>, phase' \notin {"stack", "color"} PROVE AllocInv'
  BY <1>1 DEF AllocInv, ColorsFit, IsFloat
<1>2. CASE Optimize
  <2>1. UNCHANGED <<src, color>> /\ phase' \notin {"stack", "color"}
    BY <1>2 DEF Optimize
  <2> QED
    BY <1>1, <2>1
<1>3. CASE Eliminate
  <2>1. UNCHANGED <<src, color>> /\ phase' \notin {"stack", "color"}
    BY <1>3 DEF Eliminate, DeadCodeEliminate
  <2> QED
    BY <1>1, <2>1
<1>4. CASE BuildGraph
  <2>1. /\ graph' = BuildGraphOf(prog) /\ prog' = prog
        /\ color' = [t \in DOMAIN graph' |-> 0]
    BY <1>4 DEF BuildGraph
  <2>2. DOMAIN color' = DOMAIN graph' /\ \A t \in DOMAIN color' : color'[t] = 0
    BY <2>1
  <2>3. Coloring'
    BY <2>1, <2>2 DEF Coloring, BuildGraphOf
  <2>4. color' \in [DOMAIN color' -> {0} \cup 2 .. Regs - 1]
    BY <2>1
  <2> QED
    BY <2>2, <2>3, <2>4 DEF AllocInv, ColorsFit
<1>5. CASE ColorTop
  BY <1>5, ColorTopKeeps
<1>6. CASE ColorFail
  <2>1. UNCHANGED <<src, color>> /\ phase' \notin {"stack", "color"}
    BY <1>6 DEF ColorFail
  <2> QED
    BY <1>1, <2>1
<1>7. CASE SpillRegister
  <2>1. UNCHANGED <<src, color>> /\ phase' \notin {"stack", "color"}
    BY <1>7 DEF SpillRegister
  <2> QED
    BY <1>1, <2>1
<1>8. CASE RewriteTemporaries
  <2>1. UNCHANGED <<src, color>> /\ phase' \notin {"stack", "color"}
    BY <1>8 DEF RewriteTemporaries
  <2> QED
    BY <1>1, <2>1
<1>9. CASE Clean
  <2>1. UNCHANGED <<src, color>> /\ phase' \notin {"stack", "color"}
    BY <1>9 DEF Clean, DeadCodeEliminate
  <2> QED
    BY <1>1, <2>1
<1>10. CASE PushVertex \/ StackBuilt
  <2>1. UNCHANGED <<src, prog, graph, color>> /\ phase \in {"stack", "color"}
    BY <1>10 DEF PushVertex, StackBuilt
  <2> QED
    BY <2>1 DEF AllocInv, ColorsFit, IsFloat, Coloring
<1>11. CASE Finished \/ UNCHANGED vars
  <2>1. UNCHANGED <<src, prog, phase, graph, color>>
    BY <1>11 DEF Finished, vars
  <2> QED
    BY <2>1 DEF AllocInv, ColorsFit, IsFloat, Coloring
<1> QED
  BY <1>2, <1>3, <1>4, <1>5, <1>6, <1>7, <1>8, <1>9, <1>10, <1>11 DEF Next

(* The colours are right in every state.                                   *)
LEMMA AllocAlways ==
  Spec => []AllocInv
<1> QED
  BY AllocInit, AllocStep, PTL DEF Spec

-----------------------------------------------------------------------------
(* Whatever the code, the machine and the registers spilled before, a      *)
(* temporary gets a register of the machine, of its own class, and neither *)
(* a reserved one nor one that returns a value (color_ok and color_reg of  *)
(* RegisterAllocator.cpp).                                                 *)
THEOREM RegistersFit == Spec => []ColorsFit
<1>1. AllocInv => ColorsFit
  BY DEF AllocInv
<1> QED
  BY <1>1, AllocAlways, PTL

(* Two temporaries that are alive before the same instruction never get    *)
(* the same register, and none gets a register that is needed there or     *)
(* that the call there destroys (build_graph and color_graph of            *)
(* RegisterAllocator.cpp).                                                 *)
THEOREM RegistersApartHolds == Spec => []RegistersApart
<1>1. ASSUME AllocInv PROVE RegistersApart
  <2> DEFINE live == Liveness(prog)
  <2> SUFFICES ASSUME phase = "color", NEW n \in Points(prog),
                      NEW t \in live[n].in \cap DOMAIN color, color[t] # 0
               PROVE  Apart(live, n, t)
    BY DEF RegistersApart
  <2>1. \A u \in DOMAIN color : u \in DOMAIN graph /\ graph[u] = Interferences(prog, live, u)
    BY <1>1 DEF AllocInv, Coloring, BuildGraphOf
  <2> HIDE DEF live
  <2>2. \A u \in live[n].in \cap DOMAIN color : live[n].in \subseteq graph[u]
    BY <2>1, EdgesOfLive
  <2>3. At(prog, n).op = "CALL" => CalleeSet \subseteq graph[t]
    BY <2>1, EdgesOfLive
  <2>4. color[t] \notin graph[t]
    BY <1>1 DEF AllocInv, Coloring
  <2>5. ASSUME NEW u \in (live[n].in \cap DOMAIN color) \ {t} PROVE color[u] # color[t]
    BY <1>1, <2>2 DEF AllocInv, Coloring
  <2> QED
    BY <2>2, <2>3, <2>4, <2>5 DEF Apart
<1> QED
  BY <1>1, AllocAlways, PTL

-----------------------------------------------------------------------------
(* A list loses its last element.                                          *)
LEMMA FrontMembers ==
  ASSUME NEW S, NEW list \in Seq(S), list # << >>
  PROVE  /\ Front(list) \in Seq(S) /\ Last(list) \in S
         /\ Members(list) \subseteq Members(Front(list)) \cup {Last(list)}
<1> DEFINE n == Len(list) - 1
           rest == SubSeq(list, 1, n)
<1>1. Len(list) \in Nat /\ Len(list) # 0 /\ DOMAIN list = 1 .. Len(list) /\ list[Len(list)] \in S
  BY EmptySeq, LenProperties
<1>2. n \in 0 .. Len(list)
  BY <1>1
<1>3. rest \in Seq(S) /\ Len(rest) = n /\ \A i \in 1 .. n : rest[i] = list[i]
  BY <1>2, Prefix
<1>4. DOMAIN rest = 1 .. n
  <2> HIDE DEF rest
  <2> QED
    BY <1>3, LenProperties
<1>5. \A i \in DOMAIN list : i = Len(list) \/ i \in 1 .. n
  BY <1>1
<1>6. Front(list) = rest /\ Last(list) = list[Len(list)]
  BY DEF Front, Last
<1> HIDE DEF rest, n
<1> QED
  BY <1>1, <1>3, <1>4, <1>5, <1>6 DEF Members

(* The list without one of its elements, in whose place the last one is    *)
(* put.                                                                    *)
LEMMA TakenOut ==
  ASSUME NEW S, NEW list \in Seq(S), list # << >>, NEW v \in DOMAIN list,
         NEW rest, rest = Front([list EXCEPT ![v] = Last(list)])
  PROVE  /\ rest \in Seq(S) /\ list[v] \in S
         /\ Members(list) \subseteq Members(rest) \cup {list[v]}
<1> DEFINE moved == [list EXCEPT ![v] = Last(list)]
<1>1. Last(list) \in S /\ DOMAIN list = 1 .. Len(list) /\ Len(list) \in Nat /\ Len(list) \in DOMAIN list
  BY FrontMembers, EmptySeq, LenProperties
<1>2. /\ moved \in Seq(S) /\ Len(moved) = Len(list) /\ DOMAIN moved = DOMAIN list
      /\ \A i \in DOMAIN list : moved[i] = IF i = v THEN Last(list) ELSE list[i]
  BY <1>1
<1>3. moved[Len(list)] = Last(list)
  BY <1>1, <1>2 DEF Last
<1> HIDE DEF moved
<1>4. moved # << >> /\ Last(moved) = Last(list)
  BY <1>1, <1>2, <1>3, EmptySeq DEF Last
<1>5. /\ Front(moved) \in Seq(S)
      /\ Members(moved) \subseteq Members(Front(moved)) \cup {Last(list)}
  BY <1>2, <1>4, FrontMembers
<1>6. Members(list) \subseteq Members(moved) \cup {list[v]}
  BY <1>2 DEF Members
<1>7. list[v] \in S
  BY <1>1
<1>8. CASE v = Len(list)
  BY <1>5, <1>6, <1>7, <1>8 DEF moved, Last
<1>9. CASE v # Len(list)
  <2>1. Last(list) \in Members(Front(moved))
    <3> DEFINE n == Len(list) - 1
    <3>1. n \in 0 .. Len(moved) /\ v \in 1 .. n
      BY <1>1, <1>2, <1>9
    <3>2. SubSeq(moved, 1, n)[v] = moved[v] /\ SubSeq(moved, 1, n) \in Seq(S) /\ Len(SubSeq(moved, 1, n)) = n
      BY <1>2, <3>1, Prefix
    <3>3. v \in DOMAIN SubSeq(moved, 1, n)
      BY <3>1, <3>2, LenProperties
    <3>4. Front(moved) = SubSeq(moved, 1, n)
      BY <1>2 DEF Front
    <3> QED
      BY <1>2, <3>2, <3>3, <3>4 DEF Members
  <2> QED
    BY <1>5, <1>6, <1>7, <2>1 DEF moved
<1> QED
  BY <1>8, <1>9

-----------------------------------------------------------------------------
(* While the graph is coloured its vertices are the temporaries of the     *)
(* code, the lists hold some of them, and together with the colours given  *)
(* all of them.                                                            *)
Stacked ==
    /\ DOMAIN graph = Temps(prog) /\ DOMAIN color = DOMAIN graph
    /\ work \in Seq(DOMAIN graph) /\ stack \in Seq(DOMAIN graph)

BackendInv ==
    /\ AllocInv
    /\ phase \in Phases /\ optimize \in BOOLEAN /\ prog \in Programs /\ slots \in Nat
    /\ phase \in {"stack", "color", "spill"} => Stacked
    /\ phase = "stack" => \A t \in DOMAIN color : t \in Members(work) \cup Members(stack)
    /\ phase = "color" => \A t \in DOMAIN color : color[t] # 0 \/ t \in Members(stack)
    /\ phase \in {"clean", "done"} => Temps(prog) = {} /\ \A t \in DOMAIN color : color[t] # 0

(* The function as generated is a program.                                 *)
LEMMA BackendInit ==
  Init => BackendInv
<1> SUFFICES ASSUME Init PROVE BackendInv
  OBVIOUS
<1>1. AllocInv
  BY AllocInit
<1>2. phase = "optimize" /\ optimize \in BOOLEAN /\ prog \in Programs /\ slots \in Nat
  BY SourcesAssumption DEF Init, SourcesAssumption
<1> QED
  BY <1>1, <1>2 DEF BackendInv, Phases

(* All temporaries are still to be put on the stack.                       *)
LEMMA BuildKeeps ==
  ASSUME BackendInv, BuildGraph
  PROVE  Stacked' /\ (\A t \in DOMAIN color : t \in Members(work) \cup Members(stack))'
<1> DEFINE S == Temps(prog)
<1>1. S \in SUBSET Nat /\ IsFiniteSet(S)
  BY TempsType DEF BackendInv
<1>2. /\ DOMAIN graph' = S /\ work' = Ascending(S) /\ stack' = << >> /\ prog' = prog
      /\ DOMAIN color' = S
  BY DEF BuildGraph, BuildGraphOf
<1>3. work' \in Seq(S) /\ Members(work') = S
  BY <1>1, <1>2, AscendingAll
<1>4. stack' \in Seq(S)
  BY <1>2
<1> HIDE DEF S
<1>5. Temps(prog') = S
  BY <1>2 DEF S
<1> QED
  BY <1>2, <1>3, <1>4, <1>5 DEF Stacked

(* The temporary taken from the list is on the stack.                      *)
LEMMA PushKeeps ==
  ASSUME BackendInv, PushVertex
  PROVE  Stacked' /\ (\A t \in DOMAIN color : t \in Members(work) \cup Members(stack))'
<1> DEFINE S == DOMAIN graph
           v == NextVertex
<1>1. /\ phase = "stack" /\ work # << >> /\ Stacked
      /\ \A t \in DOMAIN color : t \in Members(work) \cup Members(stack)
  BY DEF BackendInv, PushVertex
<1>2. work \in Seq(S) /\ stack \in Seq(S)
  BY <1>1 DEF Stacked
<1>3. DOMAIN work = 1 .. Len(work) /\ Len(work) \in Nat /\ Len(work) # 0
  BY <1>1, <1>2, EmptySeq, LenProperties
<1>4. v \in DOMAIN work
  <2> DEFINE easy == {k \in DOMAIN work : Cardinality(graph[work[k]]) < Regs - 1}
  <2>1. easy \in SUBSET Nat /\ easy \in SUBSET DOMAIN work
    BY <1>3
  <2>2. v = IF easy = {} THEN 1 ELSE Min(easy)
    BY DEF NextVertex
  <2> HIDE DEF easy, v
  <2>3. CASE easy = {}
    BY <1>3, <2>2, <2>3
  <2>4. CASE easy # {}
    <3>1. \E m \in easy : \A n \in easy : m <= n
      BY <2>1, <2>4, LeastNumber
    <3>2. Min(easy) \in easy
      BY <3>1 DEF Min
    <3> QED
      BY <2>1, <2>2, <2>4, <3>2
  <2> QED
    BY <2>3, <2>4
<1>5. /\ stack' = Append(stack, work[v]) /\ work' = Front([work EXCEPT ![v] = Last(work)])
      /\ UNCHANGED <<prog, graph, color>>
  BY DEF PushVertex
<1> HIDE DEF v, S
<1>6. work[v] \in S /\ work' \in Seq(S) /\ Members(work) \subseteq Members(work') \cup {work[v]}
  <2> DEFINE rest == work'
  <2>1. rest = Front([work EXCEPT ![v] = Last(work)])
    BY <1>5
  <2> HIDE DEF rest
  <2>2. work[v] \in S /\ rest \in Seq(S) /\ Members(work) \subseteq Members(rest) \cup {work[v]}
    BY <1>1, <1>2, <1>4, <2>1, TakenOut
  <2> QED
    BY <2>2 DEF rest
<1>7. stack' \in Seq(S) /\ Members(stack') = Members(stack) \cup {work[v]}
  BY <1>2, <1>5, <1>6, AppendMembers
<1>8. Stacked'
  BY <1>1, <1>5, <1>6, <1>7 DEF Stacked, S, Temps, RegsIn
<1>9. \A t \in DOMAIN color' : t \in Members(work') \cup Members(stack')
  BY <1>1, <1>5, <1>6, <1>7
<1> QED
  BY <1>8, <1>9 DEF Members

(* The temporary on top has its register.                                  *)
LEMMA ColorKeeps ==
  ASSUME BackendInv, ColorTop
  PROVE  Stacked' /\ (\A t \in DOMAIN color : color[t] # 0 \/ t \in Members(stack))'
<1> DEFINE S == DOMAIN graph
           top == Last(stack)
           r == Min(Fitting(top))
<1>1. /\ phase = "color" /\ Fitting(top) # {} /\ stack # << >>
      /\ color' = [color EXCEPT ![top] = r]
      /\ stack' = Front(stack) /\ UNCHANGED <<prog, graph, work>>
  BY DEF ColorTop
<1>2. r # 0
  <2>1. r \in Fitting(top)
    BY <1>1, LeastFits
  <2>2. \A t : \A x \in Fitting(t) : x # 0
    BY MachineRegs DEF Fitting
  <2> HIDE DEF r, top
  <2> QED
    BY <2>1, <2>2
<1>3. Stacked /\ \A t \in DOMAIN color : color[t] # 0 \/ t \in Members(stack)
  BY <1>1 DEF BackendInv
<1>4. stack' \in Seq(S) /\ Members(stack) \subseteq Members(stack') \cup {top}
  BY <1>1, <1>3, FrontMembers DEF Stacked
<1> HIDE DEF r, top
<1>5. DOMAIN color' = DOMAIN color /\ \A t \in DOMAIN color : color'[t] = IF t = top THEN r ELSE color[t]
  BY <1>1
<1>6. Stacked'
  BY <1>1, <1>3, <1>4, <1>5 DEF Stacked, Temps, RegsIn
<1>7. \A t \in DOMAIN color' : color'[t] # 0 \/ t \in Members(stack')
  BY <1>2, <1>3, <1>4, <1>5
<1> QED
  BY <1>6, <1>7 DEF Members

(* What is spilled is a register of the machine or a temporary, so the     *)
(* code with the loads and stores is a program again.                      *)
LEMMA SpillKeeps ==
  ASSUME BackendInv, SpillRegister
  PROVE  prog' \in Programs /\ slots' \in Nat /\ phase' \in {"build", "abort"}
<1>1. Stacked /\ prog \in Programs /\ slots \in Nat
  BY DEF BackendInv, SpillRegister
<1> DEFINE callers == CallerVictims(IsFloat(Last(stack)))
           victim == IF callers # {} THEN Mach.caller[Min(callers)]
                     ELSE IF TempVictims # {} THEN CHOOSE t \in TempVictims : TRUE ELSE 0
<1>2. \/ phase' = "abort" /\ UNCHANGED <<prog, slots>>
      \/ /\ slots' = slots + 1 /\ phase' = "build"
         /\ prog' = SpillEverywhere(prog, victim, -slots', callers # {})
  BY DEF SpillRegister
<1>3. victim \in Nat
  <2>1. ASSUME callers # {} PROVE Mach.caller[Min(callers)] \in Nat
    <3>1. DOMAIN Mach.caller \subseteq Nat /\ \A k \in DOMAIN Mach.caller : Mach.caller[k] \in Nat
      BY MachineRegs
    <3>2. callers \in SUBSET DOMAIN Mach.caller
      BY DEF CallerVictims
    <3> HIDE DEF callers
    <3>3. \E m \in callers : \A n \in callers : m <= n
      BY <2>1, <3>1, <3>2, LeastNumber
    <3>4. Min(callers) \in callers
      BY <3>3 DEF Min
    <3> QED
      BY <3>1, <3>2, <3>4
  <2>2. TempVictims \subseteq Nat
    <3>1. Temps(prog) \subseteq Nat
      BY <1>1, TempsType
    <3> QED
      BY <1>1, <3>1 DEF TempVictims, Stacked
  <2> HIDE DEF callers
  <2> QED
    BY <2>1, <2>2
<1> HIDE DEF victim, callers
<1>4. ASSUME NEW n \in Nat PROVE SpillEverywhere(prog, victim, -n, callers # {}) \in Programs
  <2>1. -n \in Int /\ (callers # {}) \in BOOLEAN
    OBVIOUS
  <2> QED
    BY <1>1, <1>3, <2>1, SpillType
<1> QED
  BY <1>1, <1>2, <1>4

(* Each pass leaves a program, and the lists and colours account for all   *)
(* of its temporaries.                                                     *)
LEMMA BackendStep ==
  ASSUME BackendInv, [Next]_vars
  PROVE  BackendInv'
<1>1. AllocInv'
  BY AllocStep DEF BackendInv
<1>2. phase \in Phases /\ optimize \in BOOLEAN /\ prog \in Programs /\ slots \in Nat
  BY DEF BackendInv
<1>3. ASSUME phase' \in Phases \ {"stack", "color", "spill", "clean", "done"},
             optimize' \in BOOLEAN, prog' \in Programs, slots' \in Nat
      PROVE  BackendInv'
  BY <1>1, <1>3 DEF BackendInv
<1>4. CASE Optimize
  BY <1>2, <1>3, <1>4, CopyPropagateType DEF Optimize, Phases
<1>5. CASE Eliminate
  BY <1>2, <1>3, <1>5, RemoveDeadKeeps DEF Eliminate, DeadCodeEliminate, Phases
<1>6. CASE BuildGraph
  <2>1. phase' = "stack" /\ UNCHANGED <<prog, optimize, slots>>
    BY <1>6 DEF BuildGraph
  <2> QED
    BY <1>1, <1>2, <1>6, <2>1, BuildKeeps DEF BackendInv, Phases
<1>7. CASE PushVertex
  <2>1. phase' = "stack" /\ UNCHANGED <<prog, optimize, slots>>
    BY <1>7 DEF PushVertex
  <2> QED
    BY <1>1, <1>2, <1>7, <2>1, PushKeeps DEF BackendInv, Phases
<1>8. CASE StackBuilt
  <2>1. /\ phase = "stack" /\ phase' = "color" /\ work = << >>
        /\ UNCHANGED <<prog, optimize, slots, graph, work, stack, color>>
    BY <1>8 DEF StackBuilt
  <2>2. Stacked /\ \A t \in DOMAIN color : t \in Members(stack)
    BY <2>1 DEF BackendInv, Members
  <2>3. Stacked'
    BY <2>1, <2>2 DEF Stacked, Temps, RegsIn
  <2>4. \A t \in DOMAIN color' : t \in Members(stack')
    BY <2>1, <2>2
  <2> QED
    BY <1>1, <1>2, <2>1, <2>3, <2>4 DEF BackendInv, Phases, Members
<1>9. CASE ColorTop
  <2>1. phase' = "color" /\ UNCHANGED <<prog, optimize, slots>>
    BY <1>9 DEF ColorTop
  <2> QED
    BY <1>1, <1>2, <1>9, <2>1, ColorKeeps DEF BackendInv, Phases
<1>10. CASE ColorFail
  <2>1. /\ phase = "color" /\ phase' = "spill"
        /\ UNCHANGED <<prog, optimize, slots, graph, work, stack, color>>
    BY <1>10 DEF ColorFail
  <2>2. Stacked
    BY <2>1 DEF BackendInv
  <2>3. Stacked'
    BY <2>1, <2>2 DEF Stacked, Temps, RegsIn
  <2> QED
    BY <1>1, <1>2, <2>1, <2>3 DEF BackendInv, Phases
<1>11. CASE SpillRegister
  <2>1. UNCHANGED optimize
    BY <1>11 DEF SpillRegister
  <2> QED
    BY <1>2, <1>3, <1>11, <2>1, SpillKeeps DEF Phases
<1>12. CASE RewriteTemporaries
  <2>1. /\ phase = "color" /\ phase' = "clean" /\ stack = << >>
        /\ UNCHANGED <<optimize, slots, color>>
    BY <1>12 DEF RewriteTemporaries
  <2>2. Members(stack) = {}
    BY <2>1 DEF Members
  <2>3. (\A t \in DOMAIN color : color[t] # 0) /\ DOMAIN color = Temps(prog)
    BY <2>1, <2>2 DEF BackendInv, Stacked
  <2>4. \A t \in DOMAIN color : color[t] \in 0 .. Regs - 1
    BY MachineRegs DEF BackendInv, AllocInv
  <2>5. prog' \in Programs /\ Temps(prog') = {}
    BY <1>2, <1>12, <2>3, <2>4, RewriteType
  <2> QED
    BY <1>1, <1>2, <2>1, <2>3, <2>5 DEF BackendInv, Phases
<1>13. CASE Clean
  <2>1. /\ phase = "clean" /\ phase' \in {"clean", "done"} /\ prog' = RemoveDead(prog)
        /\ UNCHANGED <<optimize, slots, color>>
    BY <1>13 DEF Clean, DeadCodeEliminate
  <2>2. Temps(prog) = {} /\ \A t \in DOMAIN color : color[t] # 0
    BY <2>1 DEF BackendInv
  <2>3. prog' \in Programs /\ Temps(prog') = {}
    BY <1>2, <2>1, <2>2, RemoveDeadKeeps
  <2> QED
    BY <1>1, <1>2, <2>1, <2>2, <2>3 DEF BackendInv, Phases
<1>14. CASE Finished \/ UNCHANGED vars
  <2>1. UNCHANGED vars
    BY <1>14 DEF Finished
  <2>2. UNCHANGED <<src, optimize, prog, phase, graph, work, stack, color, slots>>
    BY <2>1 DEF vars
  <2>3. Stacked => Stacked'
    BY <2>2 DEF Stacked, Temps, RegsIn
  <2> QED
    BY <1>1, <2>2, <2>3 DEF BackendInv, Members
<1> QED
  BY <1>4, <1>5, <1>6, <1>7, <1>8, <1>9, <1>10, <1>11, <1>12, <1>13, <1>14 DEF Next

(* The type invariant of the back end, for any function, any machine and   *)
(* as many spills as it takes: when Builder::irgen is through with the     *)
(* passes, every temporary has got a register that fits, and the code has  *)
(* no temporary left (rewrite_temporaries of RegisterAllocator.cpp).       *)
THEOREM BackendTyped == Spec => []BackendTypeOK
<1>1. BackendInv => BackendTypeOK
  BY DEF BackendInv, AllocInv, BackendTypeOK
<1> QED
  BY <1>1, BackendInit, BackendStep, PTL DEF Spec
=============================================================================
