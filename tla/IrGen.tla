--------------------------------- MODULE IrGen ---------------------------------
(***************************************************************************)
(* The intermediate code generator: one operator per kind of node of the   *)
(* syntax tree (IrGenerator.cpp), from a function to its basic blocks.     *)
(*                                                                         *)
(* A node is a record with its kind in k and its type in type.  The fields *)
(* of the generator that Visit passes around are those of IrGenerator.hpp: *)
(* tru and fls are the branches a condition goes to, invBranch and         *)
(* invGuard the two flags that 'or' and 'not' set, aloc is assign_loc_.    *)
(***************************************************************************)
EXTENDS IrBuild

RECURSIVE Visit(_, _, _)

\* emit(expr): the value of an expression; a condition becomes 1 or 0.
Emit(g, e) == Visit(g, e, Kind(e.type) = "bool" /\ e.k # "lit")

\* emit(expr, yes, no, inv): the node itself, with branches to go to.
EmitBranch(g, e, yes, no, inv) ==
    [Visit([g EXCEPT !.tru = yes, !.fls = no, !.invBranch = inv], e, FALSE)
        EXCEPT !.tru = g.tru, !.fls = g.fls, !.invBranch = g.invBranch]

\* The branch on a value that was not a comparison.
BranchOn(g, o, yes, no) ==
    IF Terminated(g) THEN g ELSE Branch(g, IF g.invGuard THEN "BNZ" ELSE "BZ", o, Nil, no, yes)

KeepRet(g) == Keep(g, g.ret)
KeepNew(g) == Keep(g, Val(g))
RetNew(g) == SetRet(g, Val(g))
MoveOut(g, to) == MovTo(g, to, g.out)
MoveConst(g, to, v) == MoveOut(Const(g, "Int", v), to)

\* bool_expr: a condition as a value, 1 or 0 in a temporary of its own.
BoolValue(g, out, done) == Label(Jump(MoveConst(Label(g, g.topTrue), out, "1"), done), g.topFalse)
BoolEnds(g, t, done) == Result(Label(MoveConst(BoolValue(g, g.out, done), g.out, "0"), done), g.out, t, {})
BoolFrom(g, t) ==
    IF g.topTrue = 0 THEN g
    ELSE BoolEnds(Fresh(BranchOn(NewBlock(g), OpOf(g, g.ret), g.topTrue, g.topFalse)), t, Newest(g) + 1)
BoolExpr(g, e) ==
    [BoolFrom(EmitBranch([g EXCEPT !.invGuard = FALSE, !.topTrue = 0, !.topFalse = 0], e, 0, 0, FALSE), e.type)
        EXCEPT !.topTrue = g.topTrue, !.topFalse = g.topFalse, !.invGuard = g.invGuard]

\* A local variable of the method holds the result.
EmitKept(g, e) == KeepRet(Emit(g, e))

Held(g, vals) == [g |-> g, vals |-> Append(vals, g.ret)]

\* Expressions in order, their values all held.
EmitAll(g, es) ==
    FoldLeft(LAMBDA st, e : Held(EmitKept(st.g, e), st.vals),
             [g |-> g, vals |-> <<>>], es)
Operands(g, vs) == [n \in DOMAIN vs |-> OpOf(g, vs[n])]

-----------------------------------------------------------------------------
\* Conditions.
TopBranches(g) ==
    IF g.tru # 0 THEN g
    ELSE LET n == Newest(g) IN
         [NewBlock(NewBlock(g)) EXCEPT !.fls = n + 1, !.topFalse = n + 1, !.tru = n + 2, !.topTrue = n + 2]

\* The right operand of 'and' or 'or', where the left one did not decide.
Decide(g, op, target, rest) == IF Terminated(g) THEN g ELSE Branch(g, op, OpOf(g, g.ret), Nil, target, rest)
RightOperand(g, e, t, at) ==
    EmitBranch(Label([g EXCEPT !.invGuard = FALSE], at), e.right, t.tru, t.fls, t.invBranch)
AndRight(g, e, t, at) ==
    Drop(RightOperand(Decide(g, IF g.invGuard THEN "BNZ" ELSE "BZ", t.fls, at), e, t, at), g.ret)
AndFrom(t, e, at) == AndRight(KeepRet(EmitBranch(t, e.left, at, t.fls, FALSE)), e, t, at)
VisitAnd(g, e) == AndFrom(TopBranches(NewBlock(g)), e, Newest(g) + 1)

OrRight(g, e, t, at) ==
    Drop(RightOperand(Decide(g, IF g.invGuard THEN "BZ" ELSE "BNZ", t.tru, at), e, t, at), g.ret)
OrFrom(t, e, at) == OrRight(KeepRet(EmitBranch(t, e.left, t.tru, at, TRUE)), e, t, at)
VisitOr(g, e) == OrFrom(TopBranches(NewBlock(g)), e, Newest(g) + 1)

\* Mutant: the branches stay where they are.
NotStraight(t, e) == [EmitBranch(t, e.child, t.tru, t.fls, ~t.invBranch) EXCEPT !.invGuard = ~@]
VisitNotStraight(g, e) == NotStraight(TopBranches(g), e)

NotFrom(t, e) == [EmitBranch(t, e.child, t.fls, t.tru, ~t.invBranch) EXCEPT !.invGuard = ~@]
VisitNot(g, e) == NotFrom(TopBranches(g), e)

\* Operators of the primitive types.
Arithmetic == [a \in {"@add", "@sub", "@mul", "@div"} |->
                  CASE a = "@add" -> "ADD" [] a = "@sub" -> "SUB" [] a = "@mul" -> "MUL" [] OTHER -> "DIV"]

CompareTo(t, taken, otherwise, a, b) ==
    Branch(t, IF t.invBranch THEN taken ELSE otherwise, a, b,
           IF t.invBranch THEN t.tru ELSE t.fls, IF t.invBranch THEN t.fls ELSE t.tru)
Compare(g, taken, otherwise, a, b) == CompareTo(TopBranches(g), taken, otherwise, a, b)

Operate(g, id, o, t) ==
    CASE id = "@equal" -> Compare(g, "BE", "BNE", o[1], o[2])
      [] id = "@less" -> Compare(g, "BL", "BGE", o[1], o[2])
      [] id = "@neg" -> FromOut(Op(g, "NEG", o[1], Nil), t, {})
      [] OTHER -> FromOut(Op(g, Arithmetic[id], o[1], o[2]), t, {})
OperateAll(st, id, t) == DropAll(Operate(st.g, id, Operands(st.g, st.vals), t), st.vals)
NativeOperator(g, e) == OperateAll(EmitAll(g, e.args), e.func.name, e.type)

-----------------------------------------------------------------------------
\* The landing pad after a call that may throw: return without a value.
Catch(g, except, done) ==
    Label(FuncReturn(Label(Branch(g, "BZ", g.out, Nil, done, except), except), 0), done)
ExceptionCatch(g) ==
    Catch(NewBlock(NewBlock(Load(g, Global("Exception__current")))), Newest(g) + 1, Newest(g) + 2)

\* Calls.  The value of a compound type is returned in memory the caller gives.
Memory(g, t) == IF IsCompound(t) THEN KeepNew(StackValueTemp(g, t)) ELSE [g EXCEPT !.aloc = Nil]
MemoryOf(g, t) == IF IsCompound(t) THEN Val(g) ELSE 0
InMemory(g, memory) == IF memory = 0 THEN <<>> ELSE <<OpOf(g, memory)>>

Lookup(g, o) == PopRet(Marshal(g, <<o, g.out>>, Obj("Object__dispatch")), "Int")
CallFound(g, ops) == Marshal(g, ops, OpOf(g, Val(g)))
CallFunction(g, f, ops) ==
    IF f.virtual THEN CallFound(Lookup(Const(g, "String", f.name), Head(ops)), ops) ELSE Marshal(g, ops, Obj(f.label))
CallValue(g, t) ==
    CASE IsVoid(t) -> NewVal(g, Nil, "Void", {})
      [] IsCompound(t) -> g
      [] OTHER -> PopRet(g, t)
MayRaise(g, f) == IF f.throws THEN ExceptionCatch(g) ELSE g
CallEnd(g, f, v, held, vals) == Drop(SetRet(MayRaise(DropAll(IF held THEN g ELSE Keep(g, v), vals), f), v), v)
CallReturned(g, f, memory, vals) == CallEnd(g, f, IF memory = 0 THEN Val(g) ELSE memory, memory # 0, vals)
CallWith(st, f, t, memory) ==
    CallReturned(CallValue(CallFunction(st.g, f, Operands(st.g, st.vals) \o InMemory(st.g, memory)), t), f, memory, st.vals)
CallInto(g, f, args, t) == CallWith(EmitAll(g, args), f, t, MemoryOf(g, t))
VisitCall(g, f, args, t) == CallInto(Memory(g, t), f, args, t)

Constructed(g, t, memory) == IF memory = 0 THEN RetNew(PopRet(g, t)) ELSE SetRet(g, memory)
ConstructWith(st, t, memory) ==
    Drop(DropAll(Constructed(Marshal(st.g, InMemory(st.g, memory) \o Operands(st.g, st.vals), Obj(t \o "__init")), t, memory),
                 st.vals), memory)
ConstructInto(g, e) == ConstructWith(EmitAll(g, e.args), e.type, MemoryOf(g, e.type))
VisitConstruct(g, e) == ConstructInto(Memory(g, e.type), e)

YieldAt(g) == ExceptionCatch(Marshal(g, <<g.out>>, Obj("Coroutine__yield_with_msg")))
VisitYield(g, e) == YieldAt(Const(g, "String", e.where))

\* Literals of collections: construct, then insert one by one.
NewCollection(g, t, ops) == KeepNew(PopRet(Marshal(g, ops, Obj(t \o "__init")), t))
CollectionEnd(g, v) == Drop(SetRet(g, v), v)
PushElement(g, t, array) == Drop(Marshal(g, <<OpOf(g, array), OpOf(g, g.ret)>>, Obj(t \o "__push")), g.ret)
ArrayFrom(g, e, array) == CollectionEnd(FoldLeft(LAMBDA h, a : PushElement(EmitKept(h, a), e.type, array), g, e.args), array)
ArraySized(g, e) == ArrayFrom(NewCollection(g, e.type, <<g.out>>), e, Val(g) + 1)
VisitArray(g, e) == ArraySized(Const(g, "Int", ToString(Len(e.args))), e)

Insert(st, t, hash) ==
    DropAll(Marshal(st.g, <<OpOf(st.g, hash)>> \o Operands(st.g, st.vals), Obj(t \o "__insert")), Reverse(st.vals))
HashFrom(g, e, hash) == CollectionEnd(FoldLeft(LAMBDA h, pair : Insert(EmitAll(h, pair), e.type, hash), g, e.pairs), hash)
VisitHash(g, e) == HashFrom(NewCollection(g, e.type, <<>>), e, Val(g) + 1)

-----------------------------------------------------------------------------
\* An object around a value: allocated, with vtable and a reference count of 1.
VTable(c) == Obj(c \o "__vtable")
Header(g, c) ==
    LET self == OpOf(g, Val(g)).reg
    IN  Store(StoreOut(Load(g, VTable(c)), Mem(self, 0)), Mem(self, 1), Obj("1"))
Calloc(g, size) == Marshal(g, <<size, g.out>>, Obj("Boot_calloc"))
Cleared(g) == Calloc(Const(g, "Int", "1"), g.out)
NewObject(g, t, c) == Header(PopRet(Cleared(Const(g, "Int", ToString(Slots(c) * WordSize))), t), c)

CopyToOut(g, o, c) == ValueCopy(g, o, g.out, c)
Fill(g, o, c) ==
    LET self == OpOf(g, g.ret).reg
    IN  IF IsCompound(c) THEN CopyToOut(Load(g, Lea(self, 2)), o, c) ELSE Store(g, Mem(self, 2), o)
BoxOf(g, t, c) == Drop(Fill(RetNew(NewObject(g, t, c)), OpOf(g, g.ret), c), g.ret)
VisitBox(g, e) ==
    [BoxOf(EmitKept([g EXCEPT !.aloc = Nil], e.child), e.type, e.child.type) EXCEPT !.aloc = g.aloc]

\* Comparison of the vtable of an object with that of a class: g.out is the
\* second of the two temporaries, which the caller writes again.
TableOf(g, c, v1) == [g |-> Fresh(Load(g, VTable(c))), v1 |-> v1]
LoadedTable(g, c) == TableOf(g, c, g.out)
CompareTables(g, o, c) == LoadedTable(Load(g, Mem(o.reg, 0)), c)

\* 0 if they differ; the last but one of the new blocks is for those that do not.
Missed(g, v1, out) ==
    LET ok == Newest(g) - 1
    IN  Label(Jump(MoveConst(Label(Branch(g, "BE", v1, out, ok, ok - 1), ok - 1), out, "0"), ok + 1), ok)
NewBlocks3(g) == NewBlock(NewBlock(NewBlock(g)))

CopyOut(g, out, memory, t) == MovTo(ValueCopy(g, g.out, memory, t), out, memory)
CastKept(g, o, out, memory, t) ==
    CASE IsPrimitive(t) -> LoadTo(g, out, Mem(o.reg, 2))
      [] IsRef(t) -> MovTo(g, out, o)
      [] OTHER -> CopyOut(Load(g, Lea(OpOf(g, g.ret).reg, 2)), out, memory, t)
CastResult(g, out, t, fs) == IF IsCompound(t) THEN Drop(SetRet(g, Val(g)), Val(g)) ELSE Result(g, out, t, fs)
CastInto(g, v1, out, o, t, fs) ==
    LET memory == IF IsCompound(t) THEN OpOf(g, Val(g)) ELSE Nil
    IN  CastResult(Label(CastKept(Missed(g, v1, out), o, out, memory, t), Newest(g)), out, t, fs)
CastMemory(g, t) == IF IsCompound(t) THEN KeepNew(StackValueTemp(g, t)) ELSE g
CastCompared(c, o, t, fs) == CastInto(CastMemory(NewBlocks3(c.g), t), c.v1, R(c.g.temp - 1), o, t, fs)
CastValue(g, t) ==
    LET o == OpOf(g, g.ret)
        fs == g.vals[g.ret].flags
    IN  Drop(SetFlag(IF t = "Any" THEN Result(g, o, t, fs) ELSE CastCompared(CompareTables(g, o, t), o, t, fs), g.ret, "dead"),
             g.ret)
VisitCast(g, e) == CastValue(EmitKept(g, e.child), e.type)

IsEqual(g, v1, out, t) == Result(Label(MoveConst(Missed(g, v1, out), out, "1"), Newest(g)), out, t, {})
IsCompared(c, t) == IsEqual(NewBlocks3(c.g), c.v1, R(c.g.temp - 1), t)
IsValue(g, e) == Drop(IsCompared(CompareTables(g, OpOf(g, g.ret), e.check), e.type), g.ret)
VisitIs(g, e) == IsValue(EmitKept(g, e.child), e)

-----------------------------------------------------------------------------
\* Statements.  out: where the value of a block or a branch goes.
OutValue(g, t) ==
    [KeepNew(IF g.aloc # Nil THEN NewVal(g, g.aloc, t, {"dead"}) ELSE AssignLocAlloc(g, t, {})) EXCEPT !.aloc = Nil]

\* e.void: the block has no parent, or one without a value.
Statement(g, last, out) == SetRet(IF last THEN Assign(g, g.ret, out) ELSE g, 0)
Statements(g, e, out) ==
    FoldLeft(LAMBDA h, n : LET last == ~e.void /\ n = Len(e.children)
                           IN  Statement(Emit(IF last THEN [h EXCEPT !.aloc = OpOf(h, out)] ELSE h, e.children[n]), last, out),
             EnterScope(g), [n \in DOMAIN e.children |-> n])
BlockValue(g, e, out) == IF e.void THEN Result(g, Nil, e.type, {"dead"}) ELSE SetRet(g, out)
BlockInto(g, e, out) == Drop(ExitScope(BlockValue(Statements(g, e, out), e, out)), out)
BlockFrom(g, e) == BlockInto(g, e, IF e.void THEN 0 ELSE Val(g))
VisitBlockNode(g, e) == BlockFrom(IF e.void THEN [g EXCEPT !.aloc = Nil] ELSE OutValue(g, e.type), e)

VisitLet(g, e) ==
    ExitScope(Emit([FoldLeft(Emit, EnterScope([g EXCEPT !.aloc = Nil]), e.vars) EXCEPT !.aloc = g.aloc], e.block))

\* The guard of a statement: its value is let go before the branch on it.
GuardEnd(g, o, yes, no) == BranchOn(Result(g, o, "Bool", {}), o, yes, no)
Guarded(g, yes, no) == GuardEnd(g, OpOf(g, g.ret), yes, no)
Guard(g, e, yes, no) == Guarded(EmitBranch([g EXCEPT !.invGuard = FALSE], e, yes, no, FALSE), yes, no)

LabelNew(g) == Label(g, Newest(g))
WhileFrom(g, e, body, done) ==
    VoidResult(Label(Jump(Emit(Label(Guard(g, e.guard, body, done), body), e.block), g.cur), done))
WhileStart(g, e, body, done) ==
    WhileFrom(IF g.blocks[g.cur].code = <<>> THEN g ELSE LabelNew(NewBlock(g)), e, body, done)
VisitWhile(g, e) == WhileStart(NewBlock(NewBlock(g)), e, Newest(g) + 1, Newest(g) + 2)

JumpOn(g, b) == IF Terminated(g) THEN g ELSE Jump(g, b)
Into(g, b, out) == [Label(g, b) EXCEPT !.aloc = out]
ValueEnd(g, t, v) == Drop(IF IsVoid(t) THEN VoidResult(g) ELSE g, v)
CondElse(g, e, out, done) == IF e.else.k = "none" THEN g ELSE Emit(Into(JumpOn(g, done), done + 1, out), e.else)
CondInto(g, e, out, then) ==
    LET done == then + 1
        else == IF e.else.k = "none" THEN done ELSE done + 1
    IN  Label(CondElse(Emit(Into(Guard(g, e.guard, then, else), then, out), e.then), e, out, done), done)
CondFrom(g, e, then) == ValueEnd(CondInto(g, e, OpOf(g, Val(g)), then), e.type, Val(g))
VisitCond(g, e) ==
    CondFrom(OutValue(IF e.else.k = "none" THEN NewBlock(NewBlock(g)) ELSE NewBlocks3(g), e.type), e, Newest(g) + 1)

\* A branch of a match; the wildcard ends the search and keeps its scope.
MatchHit(g, c, out, done, last) == IF Terminated(g) \/ last THEN g ELSE Jump(g, done)
MatchTest(g, c, guard, out, miss, true) ==
    Emit(Into(Branch(g, "BNE", guard, OpOf(g, g.ret), miss, true), true, out), c.block)
MatchGuarded(g, c, guard, out, done, last) ==
    LET true == Newest(g) + 1
        miss == IF last THEN done ELSE true + 1
    IN  [g |-> MatchHit(ExitScope(MatchTest(Emit(IF last THEN NewBlock(g) ELSE NewBlock(NewBlock(g)), c.guard),
                                            c, guard, out, miss, true)), c, out, done, last),
         next |-> miss, over |-> FALSE]
MatchCase(st, c, guard, out, done, last) ==
    CASE st.over -> st
      [] c.guard.k = "empty" ->
            [g |-> Emit([EnterScope(Label(st.g, st.next)) EXCEPT !.aloc = out], c.block), next |-> st.next, over |-> TRUE]
      [] OTHER -> MatchGuarded(EnterScope(Label(st.g, st.next)), c, guard, out, done, last)

MatchCases(g, e, guard, out, done) ==
    FoldLeft(LAMBDA st, n : MatchCase(st, e.cases[n], guard, out, done, n = Len(e.cases)),
             [g |-> g, next |-> done + 1, over |-> FALSE], [n \in DOMAIN e.cases |-> n]).g
MatchFrom(g, e, guard, done) ==
    ValueEnd(Label(MatchCases(g, e, guard, OpOf(g, Val(g)), done), done), e.type, Val(g))
MatchOn(g, e, guard) == MatchFrom(OutValue(NewBlock(NewBlock(Result(g, guard, "Bool", {}))), e.type), e, guard, Newest(g) + 1)
MatchGuard(g, e) == MatchOn(g, e, OpOf(g, g.ret))
VisitMatch(g, e) == MatchGuard(Emit(g, e.guard), e)

CountIf(g, o, b) == IF b THEN RefcountInc(g, o) ELSE g
ReturnValue(g, t, out) ==
    IF IsCompound(t) THEN VoidResult(SetFlag(Assign(g, g.ret, out), out, "dead"))
    ELSE VoidResult(SetFlag(CountIf(g, OpOf(g, g.ret), IsRef(t) /\ HasFlag(g, g.ret, "param")), g.ret, "dead"))
ReturnEnd(g, ret) ==
    LET n == Len(g.scopes) IN Drop(Drop([Keep(g, ret) EXCEPT !.scopes[n].ret = ret], g.scopes[n].ret), ret)
ReturnHeld(g, t, out) == ReturnEnd(ReturnValue(g, t, out), g.ret)
ReturnVoid(g) == ReturnEnd(KeepNew(g), Val(g))
VisitReturn(g, e) ==
    LET t == e.expr.type
        out == Variable(g, "ret")
    IN  IF e.expr.k = "empty" THEN ReturnVoid(VoidResult(g))
        ELSE ReturnHeld(EmitKept(IF IsCompound(t) THEN [g EXCEPT !.aloc = OpOf(g, out)] ELSE g, e.expr), t, out)

\* Assignment to an attribute, to a variable there is, or to a new one.
OldGivenUp(g) == RefcountDec(g, g.out)
DtorOut(g, t) == ValueDtor(NewVal(g, g.out, t, {"dead"}), g.out, t)
AttrTemp(g, t) == NewVal(g, g.out, t, {"dead", "var"})
AttrTarget(g, a) ==
    IF IsCompound(a.type) THEN DtorOut(Load(g, AttrLea(g, a.name)), a.type)
    ELSE AttrTemp(AsFloat(Fresh(IF IsRef(a.type) /\ ~a.weak THEN OldGivenUp(Load(g, AttrAt(g, a.name))) ELSE g), a.type), a.type)

\* Mutant: the object stored is not counted.
StoreAttrUncounted(g, a, var) ==
    IF IsCompound(a.type) THEN Assign(g, g.ret, var) ELSE Store(g, AttrAt(g, a.name), OpOf(g, g.ret))

StoreAttr(g, a, var) ==
    IF IsCompound(a.type) THEN Assign(g, g.ret, var)
    ELSE CountIf(Store(g, AttrAt(g, a.name), OpOf(g, g.ret)), OpOf(g, g.ret), IsRef(a.type) /\ ~a.weak)

RetVar(g) == SetFlag(g, g.ret, "var")
Copied(g, t) == FromOut(Mov(g, OpOf(g, g.ret)), t, {})
InitValue(g, t) == IF IsPrimitive(t) THEN Copied(g, g.vals[g.ret].type) ELSE g
Initialized(g, e, t) ==
    RetVar(IF e.init.k = "empty" THEN FromOut(Const(g, "Int", "0"), t, {"dead"}) ELSE InitValue(Emit(g, e.init), t))

Assigned(g, e, how, var) ==
    CASE how = "attr" -> StoreAttr(g, Attr(g.fn.class, e.name), var)
      [] how = "again" -> Assign(g, g.ret, var)
      [] how = "new" -> Declare(Assign(g, g.ret, var), e.name, var)
ReleaseOld(g, var, t) == IF g.ret # var /\ IsRef(t) THEN RefcountDec(g, OpOf(g, var)) ELSE g
AssignEnd(g, e, t, how, var) ==
    Drop([Assigned(IF how = "again" THEN ReleaseOld(g, var, t) ELSE g, e, how, var) EXCEPT !.aloc = Nil], var)
AssignTo(g, e, t, how, var) == AssignEnd(Initialized([Keep(g, var) EXCEPT !.aloc = OpOf(g, var)], e, t), e, t, how, var)
AssignNew(g, e, t, how) == AssignTo(g, e, t, how, Val(g))
AssignAgain(g, e, t, v) == AssignTo(IF IsCompound(t) THEN ValueDtor(g, OpOf(g, v), t) ELSE g, e, t, "again", v)
VisitAssign(g, e) ==
    LET v == Variable(g, e.name)
        again == v # 0 /\ ~e.let /\ e.decl = "Top"
        t == IF e.decl # "Top" THEN e.decl ELSE e.init.type
    IN  CASE IsAttr(g, e.name) -> AssignNew(AttrTarget(g, Attr(g.fn.class, e.name)), e, Attr(g.fn.class, e.name).type, "attr")
          [] ~IsAttr(g, e.name) /\ again -> AssignAgain(g, e, g.vals[v].type, v)
          [] OTHER -> AssignNew(AssignLocAlloc(g, t, {"var"}), e, t, "new")

-----------------------------------------------------------------------------
VisitConst(g, e) == FromOut(AsFloat(Load(g, Global(e.label)), e.type), e.type, {})
VisitLiteral(g, e) == FromOut(Const(g, e.type, e.v), e.type, {"dead"})
VisitEmpty(g, e) == FromOut(Const(g, "Int", "0"), e.type, {"dead"})

IsNative(e) == e.args # <<>> /\ e.func.operator /\ IsPrimitive(Head(e.args).type)

\* Code goes into the current block.  (Looking at it first also makes TLC
\* evaluate one node after the other instead of all of them at the last.)
Visit(g, e, bool) ==
    CASE g.cur = 0         -> g
      [] bool              -> BoolExpr(g, e)
      [] e.k = "lit"       -> VisitLiteral(g, e)
      [] e.k = "id"        -> IdOperand(g, e.name)
      [] e.k = "const"     -> VisitConst(g, e)
      [] e.k = "empty"     -> VisitEmpty(g, e)
      [] e.k = "call"      -> IF IsNative(e) THEN NativeOperator(g, e) ELSE VisitCall(g, e.func, e.args, e.type)
      [] e.k = "member"    -> VisitCall(g, e.func, <<e.object>>, e.type)
      [] e.k = "construct" -> VisitConstruct(g, e)
      [] e.k = "closure"   -> Emit(g, e.construct)
      [] e.k = "and"       -> VisitAnd(g, e)
      [] e.k = "or"        -> VisitOr(g, e)
      [] e.k = "not"       -> VisitNot(g, e)
      [] e.k = "box"       -> VisitBox(g, e)
      [] e.k = "cast"      -> VisitCast(g, e)
      [] e.k = "is"        -> VisitIs(g, e)
      [] e.k = "array"     -> VisitArray(g, e)
      [] e.k = "hash"      -> VisitHash(g, e)
      [] e.k = "block"     -> VisitBlockNode(g, e)
      [] e.k = "let"       -> VisitLet(g, e)
      [] e.k = "while"     -> VisitWhile(g, e)
      [] e.k = "cond"      -> VisitCond(g, e)
      [] e.k = "assign"    -> VisitAssign(g, e)
      [] e.k = "return"    -> VisitReturn(g, e)
      [] e.k = "match"     -> VisitMatch(g, e)
      [] e.k = "yield"     -> VisitYield(g, e)

-----------------------------------------------------------------------------
\* FuncUnmarshal: a formal parameter from its register or its place on the stack.
DeclareNew(g, id) == Declare(g, id, Val(g))
DeclareOut(g, f) == DeclareNew(NewVal(g, g.out, f.type, {"dead", "var", "param"}), f.name)
UnmarshalArg(st, f) ==
    LET float == Kind(f.type) = "float"
        regs == IF float THEN Mach.fargs ELSE Mach.args
        n == IF float THEN st.f ELSE st.i
        inReg == n < Len(regs)
    IN  [g |-> DeclareOut(IF inReg THEN Mov(st.g, R(regs[n + 1])) ELSE AsFloat(Load(st.g, Mem(0, st.s + 1)), f.type), f),
         i |-> IF float THEN st.i ELSE st.i + 1,
         f |-> IF float THEN st.f + 1 ELSE st.f,
         s |-> IF inReg THEN st.s ELSE st.s + 1]

Parameter(id, t) == [name |-> id, type |-> t]
Parameters(fn) ==
    (IF fn.kind = "ctor" /\ IsCompound(fn.class) THEN <<Parameter("__self", fn.class)>> ELSE <<>>)
    \o fn.formals
    \o (IF IsCompound(fn.type) THEN <<Parameter("ret", fn.type)>> ELSE <<>>)

\* A constructor allocates or clears the object and runs its initializers.
StoreCounted(g, at, o, t) == CountIf(Store(g, at, o), o, IsRef(t))
InitEnd(g, a, t) == Drop(IF IsCompound(t) THEN g ELSE StoreCounted(g, AttrAt(g, a.name), OpOf(g, g.ret), t), g.ret)
AlocOut(g) == [g EXCEPT !.aloc = g.out]
InitAttr(g, a) ==
    IF a.init.k \in {"none", "empty"} THEN g
    ELSE InitEnd(EmitKept(IF IsCompound(a.init.type) THEN AlocOut(Load(g, AttrLea(g, a.name))) ELSE g, a.init), a, a.init.type)

Bytes(c) == ToString(Slots(c) * WordSize)

BytesOut(g, c) == Const(g, "Int", Bytes(c))
DeclareSelf(g, self) == Declare(SetFlag(SetFlag(g, self, "var"), self, "dead"), "__self", self)
NewSelf(g) == DeclareSelf(g, Val(g))
ClearSelf(g) == Marshal(g, <<Self(g), g.out>>, Obj("Boot_mzero"))
CtorPreamble(g) ==
    LET c == g.fn.class
    IN  FoldLeft(InitAttr, IF IsCompound(c) THEN ClearSelf(BytesOut(g, c)) ELSE NewSelf(NewObject(g, c, c)), Classes[c].attrs)

\* A copy shares the objects its attributes refer to.
CopySelf(g) == Marshal(g, <<Self(g), OpOf(g, Variable(g, "val")), g.out>>, Obj("Boot_memcpy"))
CountOut(g) == RefcountInc(g, g.out)
CopierPreamble(g) ==
    FoldLeft(LAMBDA h, a : CountOut(Load(h, AttrAt(h, a.name))), CopySelf(BytesOut(g, g.fn.class)),
             SelectSeq(Classes[g.fn.class].attrs, LAMBDA a : IsRef(a.type)))

NewGenerator(fn) ==
    [fn |-> fn, blocks |-> <<>>, order |-> <<>>, cur |-> 0, temp |-> Regs, out |-> Nil, floats |-> Mach.floats,
     scopes |-> IF fn.class = "none" THEN <<>> ELSE <<[vars |-> <<>>, ret |-> 0]>>,
     vals |-> <<>>, ret |-> 0, aloc |-> Nil, tru |-> 0, fls |-> 0, topTrue |-> 0, topFalse |-> 0,
     invBranch |-> FALSE, invGuard |-> FALSE, locals |-> 0, localSlots |-> 0, argSlots |-> 0]

\* The whole function.
Preamble(g) ==
    CASE g.fn.kind = "ctor" -> CtorPreamble(g)
      [] g.fn.kind = "copier" -> CopierPreamble(g)
      [] OTHER -> g
Ended(g) ==
    IF IsRet(g.blocks[g.cur]) \/ ~(g.fn.kind = "ctor" \/ IsVoid(g.fn.type)) THEN g
    ELSE FuncReturn(g, IF g.fn.kind = "ctor" THEN Variable(g, "__self") ELSE 0)
Unmarshalled(g) ==
    FoldLeft(UnmarshalArg, [g |-> EnterScope(Label(g, 1)), i |-> 0, f |-> 0, s |-> 0], Parameters(g.fn)).g
Generated(fn) == ExitScope(Ended(Emit(Preamble(Unmarshalled(NewBlock(NewGenerator(fn)))), fn.body)))

\* Its blocks in the order they were labelled.
CodeOf(g) ==
    LET place(b) == IF b \in Range(g.order) THEN CHOOSE n \in DOMAIN g.order : g.order[n] = b ELSE 0
    IN  [n \in DOMAIN g.order |->
            LET b == g.blocks[g.order[n]] IN Block(b.code, place(b.next), place(b.branch))]
=============================================================================
