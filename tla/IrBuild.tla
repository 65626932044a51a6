-------------------------------- MODULE IrBuild --------------------------------
(***************************************************************************)
(* The state of the intermediate code generator (IrGenerator.hpp and the   *)
(* helpers of IrGenerator.cpp): blocks under construction, the values that *)
(* expressions leave behind, scopes, and the calls of a function's prolog  *)
(* and epilog.  A generator is a record g and every method a function of   *)
(* it.                                                                     *)
(*                                                                         *)
(* A value (IrValue) is an index in g.vals and is counted like the         *)
(* intrusive pointers count it: return_, local variables of the methods,   *)
(* variables of a scope and the return value of a scope hold it.  When the *)
(* last holder lets go of a value that is not dead, the generator emits    *)
(* the code that drops it, then and there.                                 *)
(***************************************************************************)
EXTENDS Ir

CONSTANTS
    Classes,   \* name -> [kind, attrs: sequence of [name, type, weak, init]]
    WordSize   \* bytes in a word

Kind(t) == Classes[t].kind
IsPrimitive(t) == Kind(t) \in {"int", "bool", "float"}
IsRef(t) == Kind(t) = "ref"
IsCompound(t) == Kind(t) = "compound"
IsVoid(t) == Kind(t) = "void"

NoExpr == [k |-> "none"]
Literal(t, v) == [k |-> "lit", type |-> t, v |-> v]

\* The words of an object of the class, and where an attribute is in it.
RECURSIVE Slots(_)
SlotsOf(a) == IF IsCompound(a.type) THEN Slots(a.type) ELSE 1
HeaderSlots(c) == IF IsPrimitive(c) THEN WordSize ELSE IF IsRef(c) THEN 2 ELSE 0
SlotsBefore(c, n) == FoldLeft(LAMBDA s, a : s + SlotsOf(a), HeaderSlots(c), SubSeq(Classes[c].attrs, 1, n))
Slots(c) == SlotsBefore(c, Len(Classes[c].attrs))

AttrIndexes(c, id) == {n \in DOMAIN Classes[c].attrs : Classes[c].attrs[n].name = id}
AttrSlot(c, id) == SlotsBefore(c, Min(AttrIndexes(c, id)) - 1)
Attr(c, id) == Classes[c].attrs[Min(AttrIndexes(c, id))]

-----------------------------------------------------------------------------
\* Blocks and instructions.
NewBlock(g) == [g EXCEPT !.blocks = Append(@, Block(<<>>, 0, 0))]
Newest(g) == Len(g.blocks)

Label(g, b) ==
    [g EXCEPT !.blocks = IF g.cur = 0 THEN @ ELSE [@ EXCEPT ![g.cur].next = b],
              !.cur = b, !.order = Append(@, b)]

Terminated(g) == IsTerminated(g.blocks[g.cur])

\* An instruction with a float operand has a float result.
Put(g, i) ==
    [g EXCEPT !.blocks[g.cur].code = Append(@, i),
              !.floats = IF i.result # 0 /\ {i.first.reg, i.second.reg} \cap @ # {} THEN @ \cup {i.result} ELSE @]

\* Instructions with a result in a fresh temporary: g.out is its operand.
Fresh(g) == [g EXCEPT !.temp = @ + 1, !.out = R(g.temp + 1)]
Op(g, op, a, b) == Put(Fresh(g), Instr(op, g.temp + 1, a, b))
Mov(g, a) == Op(g, "MOV", a, Nil)
Load(g, a) == Op(g, "LOAD", a, Nil)

MovTo(g, res, a) == IF res = a THEN g ELSE Put(g, Instr("MOV", res.reg, a, Nil))
LoadTo(g, res, a) == Put(g, Instr("LOAD", res.reg, a, Nil))
Store(g, a, v) == Put(g, Instr("STORE", 0, a, v))
StoreOut(g, a) == Store(g, a, g.out)

AsFloat(g, t) == IF Kind(t) = "float" THEN [g EXCEPT !.floats = @ \cup {g.out.reg}] ELSE g

Branch(g, op, a, b, target, nxt) ==
    [Put(g, Instr(op, 0, a, b)) EXCEPT !.blocks[g.cur].branch = target, !.blocks[g.cur].next = nxt]
Jump(g, target) == [Put(g, Instr("JUMP", 0, Nil, Nil)) EXCEPT !.blocks[g.cur].branch = target]

-----------------------------------------------------------------------------
\* FuncMarshal: arguments to registers by class as far as they last, then
\* to the stack, and the CALL.
MarshalArg(st, a) ==
    LET float == a.reg \in st.g.floats
        regs == IF float THEN Mach.fargs ELSE Mach.args
        n == IF float THEN st.f ELSE st.i
    IN  [g |-> IF n < Len(regs) THEN MovTo(st.g, R(regs[n + 1]), a)
               ELSE StoreOut(Mov([st.g EXCEPT !.argSlots = Max({@, st.s + 1})], a), Mem(Mach.sp, st.s)),
         i |-> IF float THEN st.i ELSE st.i + 1,
         f |-> IF float THEN st.f + 1 ELSE st.f,
         s |-> IF n < Len(regs) THEN st.s ELSE st.s + 1]

Marshal(g, args, target) ==
    Put(FoldLeft(MarshalArg, [g |-> g, i |-> 0, f |-> 0, s |-> 0], args).g,
        Instr("CALL", 0, target, Nil))

RefcountInc(g, o) == Marshal(g, <<o>>, Obj("Object__refcount_inc"))
RefcountDec(g, o) == Marshal(g, <<o>>, Obj("Object__refcount_dec"))
ValueDtor(g, o, t) == Marshal(g, <<o>>, Obj(t \o "__dtor"))
ValueCopy(g, src, dst, t) == Marshal(g, <<dst, src>>, Obj(t \o "__copy"))

-----------------------------------------------------------------------------
\* Values.
NewVal(g, o, t, flags) ==
    [g EXCEPT !.vals = Append(@, [op |-> o, type |-> t, flags |-> flags, rc |-> 0])]
Val(g) == Len(g.vals)
OpOf(g, v) == g.vals[v].op
HasFlag(g, v, f) == f \in g.vals[v].flags
SetFlag(g, v, f) == [g EXCEPT !.vals[v].flags = @ \cup {f}]

Keep(g, v) == IF v = 0 THEN g ELSE [g EXCEPT !.vals[v].rc = @ + 1]

\* A reference is given back, a value in memory destroyed.
GiveUp(g, o, t) ==
    IF IsRef(t) \/ IsCompound(t)
    THEN Marshal(g, <<o>>, Obj(IF IsRef(t) THEN "Object__refcount_dec" ELSE t \o "__dtor")) ELSE g
DropValue(g, o, t) == [GiveUp(g, o, t) EXCEPT !.locals = IF IsCompound(t) THEN @ - Slots(t) ELSE @]

DropIfLast(g, v) ==
    IF g.vals[v].rc = 0 /\ ~HasFlag(g, v, "dead") THEN DropValue(g, OpOf(g, v), g.vals[v].type) ELSE g
Drop(g, v) == IF v = 0 THEN g ELSE DropIfLast([g EXCEPT !.vals[v].rc = @ - 1], v)
DropAll(g, vs) == FoldLeft(Drop, g, vs)

\* return_ = v, and return_ = new IrValue(..).
SetRet(g, v) == Drop([Keep(g, v) EXCEPT !.ret = v], g.ret)
Result(g, o, t, flags) == SetRet(NewVal(g, o, t, flags), Val(g) + 1)
FromOut(g, t, flags) == Result(g, g.out, t, flags)
VoidResult(g) == Result(g, Nil, "Void", {})

\* A constant, and the value a call left in its return register.
Const(g, t, v) == AsFloat(Load(g, Obj(v)), t)
PopRet(g, t) ==
    LET h == Mov(g, R(Head(IF Kind(t) = "float" THEN Mach.freturns ELSE Mach.returns)))
    IN  NewVal(h, h.out, t, {})

\* Mutant: the space is not taken.
StackValueShared(g, t) ==
    LET n == g.locals + Slots(t)
        h == Load([g EXCEPT !.localSlots = Max({@, n})], Lea(0, -n))
    IN  NewVal(h, h.out, t, {})

\* Space in the frame for a value: LEA of it.
StackValue(g, t) ==
    LET n == g.locals + Slots(t)
        h == Load([g EXCEPT !.locals = n, !.localSlots = Max({@, n})], Lea(0, -n))
    IN  NewVal(h, h.out, t, {})

StackValueTemp(g, t) ==
    [(IF g.aloc # Nil THEN NewVal(g, g.aloc, t, {"dead"}) ELSE StackValue(g, t)) EXCEPT !.aloc = Nil]

\* Somewhere for a value of the type.
AssignLocAlloc(g, t, flags) ==
    CASE IsCompound(t) -> LET h == StackValue(g, t) IN SetFlag(h, Val(h), "var")
      [] IsVoid(t) -> NewVal(g, Nil, "Void", flags)
      [] OTHER -> LET h == AsFloat(Fresh(g), t) IN NewVal(h, h.out, t, flags)

\* Mutant: a reference is moved out of a variable that keeps it.
AssignMoves(g, src, dst) ==
    IF dst = 0 \/ OpOf(g, src) = OpOf(g, dst) THEN SetRet(g, src)
    ELSE SetRet(MovTo(SetFlag(g, src, "dead"), OpOf(g, dst), OpOf(g, src)), dst)

\* The value of src goes to dst.
Assign(g, src, dst) ==
    LET t == g.vals[src].type
        from == OpOf(g, src)
        to == OpOf(g, dst)
        same == dst = 0 \/ from = to
        moved == ~HasFlag(g, src, "var") \/ IsPrimitive(t)
        given == CASE same -> g
                   [] moved -> MovTo(SetFlag(g, src, "dead"), to, from)
                   [] IsRef(t) -> MovTo(RefcountInc(g, from), to, from)
                   [] IsCompound(t) -> ValueCopy(g, from, to, t)
    IN  IF ~same /\ IsVoid(t) /\ ~moved THEN g ELSE SetRet(given, IF same THEN src ELSE dst)

-----------------------------------------------------------------------------
\* Scopes and variables: the innermost first.
EnterScope(g) == [g EXCEPT !.scopes = Append(@, [vars |-> <<>>, ret |-> 0])]

Declare(g, id, v) == [Keep(g, v) EXCEPT !.scopes[Len(g.scopes)].vars = Append(@, [name |-> id, val |-> v])]

Places(g, id) ==
    {p \in UNION {{n} \X DOMAIN g.scopes[n].vars : n \in DOMAIN g.scopes} : g.scopes[p[1]].vars[p[2]].name = id}

\* variable(name): 0 if there is none.
VariableNamed(g, id) ==
    IF Places(g, id) = {} THEN 0
    ELSE LET n == Max({p[1] : p \in Places(g, id)})
         IN  g.scopes[n].vars[Min({p[2] : p \in {q \in Places(g, id) : q[1] = n}})].val
Variable(g, id) ==
    LET v == VariableNamed(g, id)
    IN  IF v = 0 /\ id = "self" /\ g.fn.class # "none" THEN VariableNamed(g, "__self") ELSE v
Self(g) == OpOf(g, Variable(g, "__self"))

IsAttr(g, id) == g.fn.class # "none" /\ AttrIndexes(g.fn.class, id) # {}
AttrAt(g, id) == Mem(Self(g).reg, AttrSlot(g.fn.class, id))
AttrLea(g, id) == Lea(Self(g).reg, AttrSlot(g.fn.class, id))

\* id_operand(id): a variable, else an attribute loaded from self.
LoadAttr(g, id, t) ==
    FromOut(AsFloat(Load(g, IF IsCompound(t) THEN AttrLea(g, id) ELSE AttrAt(g, id)), t), t, {"dead", "var", "param"})
IdOperand(g, id) ==
    LET v == Variable(g, id) IN IF v # 0 THEN SetRet(g, v) ELSE LoadAttr(g, id, Attr(g.fn.class, id).type)

\* At the end of a destructor the attributes are released, last one first,
\* and the object is freed.
ReleaseOut(g, t) == GiveUp(g, g.out, t)
ReleaseAttr(g, a) == ReleaseOut(Load(g, IF IsRef(a.type) THEN AttrAt(g, a.name) ELSE AttrLea(g, a.name)), a.type)

FreeSelf(g) == IF IsRef(g.fn.class) THEN Marshal(g, <<Self(g)>>, Obj("Boot_free")) ELSE g
DtorEpilog(g) ==
    LET owned == SelectSeq(Classes[g.fn.class].attrs, LAMBDA a : IsCompound(a.type) \/ (IsRef(a.type) /\ ~a.weak))
    IN  FreeSelf(FoldLeft(ReleaseAttr, g, Reverse(owned)))

\* func_return: clean up every scope but the first, hand over the value, RET.
CleanVariable(g, v, retval) ==
    IF HasFlag(g, v, "dead") \/ (v = retval /\ IsRef(g.vals[v].type)) THEN g
    ELSE GiveUp(g, OpOf(g, v), g.vals[v].type)

CleanScopes(g, retval) ==
    FoldLeft(LAMBDA h, n : FoldLeft(LAMBDA k, x : CleanVariable(k, x.val, retval), h, Reverse(g.scopes[n].vars)),
             g, Reverse([n \in 1 .. Len(g.scopes) - 1 |-> n + 1]))

HandOver(g, v) ==
    LET o == OpOf(g, v)
        returns == IF o.reg \in g.floats THEN Mach.freturns ELSE Mach.returns
    IN  Put(IF v = 0 \/ IsVoid(g.vals[v].type) THEN g ELSE MovTo(g, R(Head(returns)), o), Instr("RET", 0, Nil, Nil))
Epilog(g) == IF g.fn.kind = "dtor" THEN DtorEpilog(g) ELSE g
FuncReturn(g, retval) == HandOver(Epilog(CleanScopes(VoidResult(g), retval)), retval)

ReturnFrom(g, ret) == FuncReturn(g, IF g.fn.kind = "ctor" THEN Variable(g, "__self") ELSE ret)
Left(g, ret) == IF ret = 0 THEN g ELSE Drop(ReturnFrom(Drop(g, ret), ret), ret)

\* The scope is gone before the function returns from within it.
ExitScope(g) ==
    LET s == Last(g.scopes)
        out == [g EXCEPT !.scopes = Front(@)]
    IN  Left(DropAll(Keep(out, s.ret), [n \in DOMAIN s.vars |-> Reverse(s.vars)[n].val]), s.ret)
=============================================================================
