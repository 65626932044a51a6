-------------------------------- MODULE Semantics --------------------------------
(***************************************************************************)
(* The semantic analyser (compiler/SemanticAnalyzer.cpp): Visit(s, e, used) *)
(* checks an expression and returns the analyser's state with the typed    *)
(* expression in out; CheckFeature(s, id) checks a declaration and stores  *)
(* it.  `used` is what expr_parent() finds out.                            *)
(***************************************************************************)
EXTENDS Typing

RECURSIVE Visit(_, _, _), VisitFeature(_, _)
\* Declarations are visited like expressions.
CheckFeature(s, id) == Visit(s, [k |-> "feature", id |-> id], FALSE)
Value(s, e) == Visit(s, e, TRUE)
Collected(q, done) == [q EXCEPT !.out = Append(done, q.out)]
VisitAll(s, es) == FoldLeft(LAMBDA r, e : Collected(Value(r, e), r.out), Got(s, <<>>), es)
VisitArguments(s, formals, args, rec) ==
    [FoldLeft(LAMBDA r, i : Collected(Value(Suggest(r, formals, i, rec), args[i]), r.out),
              Got(s, <<>>), [i \in DOMAIN args |-> i]) EXCEPT !.push = NoType]

-----------------------------------------------------------------------------
(* Literals.                                                                *)
LiteralType == [INTEGER |-> "Int", FLOAT |-> "Float", STRING |-> "String", BOOL |-> "Bool", NIL |-> "Nil",
                CHAR |-> "Char", BYTE |-> "Byte"]
literal(s, e) == IF Typed(e) THEN Got(s, e) ELSE Give(s, e, Plain(LiteralType[e.t]))

\* The type of the elements: the last one, as long as each conforms to it.
Widened(q, t) == Got(q, IF q.yes THEN t ELSE AnyType)
Joined(r, t) == IF r.out = NoType THEN Got(r, t) ELSE Widened(Subtype(r, t, r.out), t)
Common(s, ts) == FoldLeft(Joined, Got(s, NoType), ts)
OrAny(t) == IF t = NoType THEN AnyType ELSE t
Suggested(s) == s.push # NoType /\ ~IsTop(s.push) /\ ~IsInterface(s, s.push)

\* push and @insert are called for the elements, to check them; the calls are
\* dropped, with what they box.
Bare(e) == IF e.k \in {"box", "cast"} THEN e.of ELSE e
Behind(call, es) == IF Len(call.args) = Len(es) + 1 THEN [i \in DOMAIN es |-> Bare(call.args[i + 1])] ELSE es
Filled(q, done, es) == [q EXCEPT !.out = [done EXCEPT !.es = Append(@, Behind(q.out, es))]]
Fill(r, es, name) == Filled(Value(r, P!Call(P!Member(r.out.made, name), es)), r.out, es)
Finish(r, e, t, es) == Give(r, [e EXCEPT !.es = es], t)
Made(q, t, name, rows) == FoldLeft(LAMBDA r, es : Fill(r, es, name), Got(q, [made |-> q.out, es |-> <<>>, type |-> t]), rows)
Make(s, t, args) == Value(s, P!Construct(t, args))

ArrayOf(r, e) == Finish(r, e, r.out.type, [i \in DOMAIN r.out.es |-> r.out.es[i][1]])
FillArray(s, e, es, t) ==
    ArrayOf(Made(Make(s, t, <<P!Lit("INTEGER", 0)>>), t, "push", [i \in DOMAIN es |-> <<es[i]>>]), e)
Generic(n, args) == [name |-> <<n>>, args |-> args]
TypeArray(q, e, es) == FillArray(q, e, es, Generic("Array", <<OrAny(q.out)>>))
InferArray(q, e) == TypeArray(Common(q, Types(q.out)), e, q.out)
array(s, e) ==
    IF Suggested(s) THEN FillArray([s EXCEPT !.push = NoType], e, e.es, s.push)
    ELSE InferArray(VisitAll([s EXCEPT !.push = NoType], e.es), e)

PairOf(e, kv) == [e EXCEPT !.args = kv]
HashOf(r, e) == Finish(r, e, r.out.type, [i \in DOMAIN r.out.es |-> PairOf(e.es[i], r.out.es[i])])
FillHash(s, e, rows, t) == HashOf(Made(Make(s, t, <<>>), t, "@insert", rows), e)
TypeHash(q, e, rows, keys) == FillHash(q, e, rows, Generic("Hash", <<OrAny(keys), OrAny(q.out)>>))
InferValues(q, e, rows) == TypeHash(Common(q, [i \in DOMAIN rows |-> rows[i][2].ty]), e, rows, q.out)
InferKeys(q, e, rows) == InferValues(Common(q, [i \in DOMAIN rows |-> rows[i][1].ty]), e, rows)
RowsOf(es) == [i \in 1 .. Len(es) \div 2 |-> <<es[2 * i - 1], es[2 * i]>>]
InferHash(q, e) == InferKeys(q, e, RowsOf(q.out))
hash(s, e) ==
    IF Suggested(s) THEN FillHash([s EXCEPT !.push = NoType], e, [i \in DOMAIN e.es |-> e.es[i].args], s.push)
    ELSE InferHash(VisitAll([s EXCEPT !.push = NoType], FlattenSeq([i \in DOMAIN e.es |-> e.es[i].args])), e)

-----------------------------------------------------------------------------
(* Expressions.                                                             *)
CheckedType(s, t) ==
    FailIf(FailIf(FailIf(FailIf(s, IsInterface(s, t), "is an interface"), IsUnion(s, t), "is a union"),
                  IsAny(s, t), "is Any"), t.args # <<>>, "is of a generic type")
IsOf(q, e) == Give(CheckedType(q, e.type), [e EXCEPT !.e = q.out], Bool)
is(s, e) == IsOf(Value(s, e.e), e)

\* A box that is checked once more never has the type of what is in it.
BoxOf(q, e) == Got(FailIf(q, q.out.ty # e.ty, "box type"), [e EXCEPT !.of = q.out])
box(s, e) == BoxOf(Value(s, e.of), e)
CastTo(q, e, of) == Got(FailIf(q, IsValue(q, q.out), "cast to a value type"), [e EXCEPT !.of = of])
CastOf(q, e) == CastTo(CheckType(q, e.ty), e, q.out)
cast(s, e) == CastOf(Value(s, e.of), e)

Boolifiable(s, e) == FailIf(s, ~IsBoolifiable(s, e.ty), "no Bool")
BinaryOf(q, e) == Give(Boolifiable(Boolifiable(q, q.out[1]), q.out[2]), [e EXCEPT !.a = q.out[1], !.b = q.out[2]], Bool)
binary(s, e) == BinaryOf(VisitAll(s, <<e.a, e.b>>), e)
UnaryOf(q, e) == Give(Boolifiable(q, q.out), [e EXCEPT !.e = q.out], Bool)
unary(s, e) == UnaryOf(Value(s, e.e), e)

\* A member that is not called is the accessor of the attribute.
Accessed(s, e, of, id) ==
    IF id = <<>> THEN Wrong(s, e, "attribute not found")
    ELSE Give(FailIf(Calling(s, id), Hidden(s, id), "private"), [e EXCEPT !.of = of],
              Canonical(At(s, id).type, Receiver(s, of.ty)))
Accessor(s, e, of, c) == Accessed(s, e, of, FunctionIn(s, c, e.name \o "?"))
Unchecked(s, id) == s
CheckAttribute(s, id) == IF id = <<>> THEN s ELSE CheckFeature(s, id)
InClass(s, e, of, c) ==
    IF Circular(s, AttributeIn(s, c, e.name)) THEN Wrong(s, e, "circular reference")
    ELSE Accessor(CheckAttribute(s, AttributeIn(s, c, e.name)), e, of, c)
MemberOfValue(q, e) ==
    CASE IsTop(q.out.ty) -> Give(q, e, Top)
      [] IsVoid(q, q.out.ty) -> Wrong(q, e, "attribute of Void")
      [] ClassOf(q, q.out.ty) = 0 -> Give(Abort(q), e, Top)
      [] OTHER -> InClass(q, e, q.out, ClassOf(q, q.out.ty))
member(s, e) == MemberOfValue(Value([s EXCEPT !.push = NoType], e.of), e)

\* What a call calls: callee is the function, recv its receiver.
Calls(s, call, id, recv) == [s EXCEPT !.out = call, !.callee = id, !.recv = recv]
NoCallee(s, call) == Calls(s, call, <<>>, Nothing)
Method(s, call, of, id) ==
    IF id = <<>> THEN NoCallee(Fail(s, "function not found"), call)
    ELSE Calls(s, [call EXCEPT !.fn.of = of], id, of)
MethodOf(q, call) ==
    CASE IsTop(q.out.ty) -> NoCallee(q, call)
      [] IsVoid(q, q.out.ty) -> NoCallee(Fail(q, "attribute of Void"), call)
      [] ClassOf(q, q.out.ty) = 0 -> NoCallee(Abort(q), call)
      [] OTHER -> Method(q, call, q.out, FunctionIn(q, ClassOf(q, q.out.ty), call.fn.name))
CallMember(s, call) == MethodOf(Value([s EXCEPT !.push = NoType], call.fn.of), call)

\* A name: a variable, else an attribute of the class.
NameType(s, e) ==
    IF Variable(s, e.name) # <<>> THEN Variable(s, e.name)[1].type
    ELSE IF s.cls = 0 \/ e.scope # <<>> THEN NoType
    ELSE TypeOf(s, AttributeIn(s, s.cls, e.name))
AttributeNamed(s, e) ==
    IF Variable(s, e.name) # <<>> \/ s.cls = 0 \/ e.scope # <<>> THEN <<>> ELSE AttributeIn(s, s.cls, e.name)
RefOf(s, e, t) == IF t = NoType THEN Wrong(s, e, "undefined variable") ELSE Give(s, e, t)
CheckedRef(s, e) == RefOf(s, e, NameType(s, e))
ref(s, e) ==
    CASE Typed(e) -> Got(s, e)
      [] ~Typed(e) /\ Circular(s, AttributeNamed(s, e)) -> Wrong(s, e, "circular reference")
      [] OTHER -> CheckedRef(CheckAttribute(s, AttributeNamed(s, e)), e)

\* A name that is called: something with @call, a function, or a function of
\* the class of the first argument.
CallObject(s, call, t, id) ==
    IF id = <<>> THEN NoCallee(Fail(s, "not callable"), call)
    ELSE Calls(s, [call EXCEPT !.fn = With(@, t)], id, With(call.fn, t))
Resolved(s, call, id) ==
    IF id = <<>> THEN NoCallee(Fail(s, "undefined function"), call) ELSE Calls(s, call, id, Nothing)
OfFirst(q, call, first) ==
    Resolved(q, [call EXCEPT !.args[1] = first],
             IF ClassOf(q, first.ty) = 0 THEN <<>> ELSE FunctionIn(q, ClassOf(q, first.ty), call.fn.name))
ByFirst(q, call) == OfFirst(q, call, q.out)
FunctionNamed(s, e) == LET id == Feature(s, e.scope, e.name) IN IF Kind(s, id) = "function" THEN id ELSE <<>>
CallFunction(s, call, id) ==
    IF id = <<>> /\ call.fn.scope = <<>> /\ call.args # <<>> THEN ByFirst(Value(s, call.args[1]), call)
    ELSE Resolved(s, call, id)
CallName(s, call, t) ==
    CASE t = NoType -> CallFunction(s, call, FunctionNamed(s, call.fn))
      [] t # NoType /\ ClassOf(s, t) = 0 -> CallObject(s, call, t, <<>>)
      [] OTHER -> CallObject(s, call, t, FunctionIn(s, ClassOf(s, t), "@call"))
CheckedName(s, call) == CallName(s, call, NameType(s, call.fn))
CallRef(s, call) ==
    CASE Typed(call.fn) -> NoCallee(s, call)
      [] ~Typed(call.fn) /\ Circular(s, AttributeNamed(s, call.fn)) -> NoCallee(Fail(s, "circular reference"), call)
      [] OTHER -> CheckedName(CheckAttribute(s, AttributeNamed(s, call.fn)), call)
CallValue(q, call) == NoCallee(q, [call EXCEPT !.fn = q.out])
Callee(s, call) ==
    CASE call.fn.k = "member" -> CallMember(s, call)
      [] call.fn.k = "ref" -> CallRef(s, call)
      [] OTHER -> CallValue(Value(s, call.fn), call)

\* The receiver is put before the arguments and checked once more with them.
CallEnd(q, call, id, rec) ==
    Give(Calling(q, id), ("to" :> id) @@ [call EXCEPT !.args = q.out], Canonical(At(q, id).type, Pairs(q, At(q, id).formals, q.out, rec)))
CallArgs(q, call, id, rec) == CallEnd(Passed(q, At(q, id).formals, rec), call, id, rec)
CallOf(s, call, id, args, rec) ==
    CallArgs(VisitArguments(FailIf(s, Hidden(s, id), "private"), At(s, id).formals, args, rec), call, id, rec)
Called(q) ==
    CASE q.callee = <<>> -> Give(q, q.out, Top)
      [] q.callee # <<>> /\ q.recv = Nothing -> CallOf(q, q.out, q.callee, q.out.args, NoType)
      [] OTHER -> CallOf(q, q.out, q.callee, <<q.recv>> \o q.out.args, q.recv.ty)
call_(s, e) == IF Typed(e) THEN Got(s, e) ELSE Called(Callee(s, e))

\* A constructor.  The test for a class without one comes after its use.
Constructed(q, e, id, t) == Give(Calling(q, id), [e EXCEPT !.args = q.out], t)
ConstructArgs(q, e, id, t) ==
    IF IsEnum(q, t) THEN Give(Calling(Fail(q, "constructor of an enum"), id), [e EXCEPT !.args = q.out], t)
    ELSE Constructed(Passed(q, At(q, id).formals, t), e, id, t)
ConstructOf(s, e, t, id) ==
    IF id = <<>> THEN Give(Abort(s), e, t)
    ELSE ConstructArgs(VisitArguments(FailIf(s, "PRIVATE" \in At(s, id).flags, "private constructor"), At(s, id).formals, e.args, t),
                       e, id, t)
ConstructType(s, e, t) ==
    CASE ClassOf(s, t) = 0 -> Give(s, e, Top)
      [] ClassOf(s, t) # 0 /\ IsInterface(s, t) -> Wrong(s, e, "constructor of an interface")
      [] OTHER -> ConstructOf(s, e, t, FunctionIn(s, ClassOf(s, t), "@init"))
ConstructNamed(q, e) == ConstructType(q, e, q.out)
construct(s, e) == ConstructNamed(CheckType(s, IF Typed(e) THEN e.ty ELSE e.type), e)

\* In a class only the constants of the class are found without a scope.
ConstantNamed(s, e) ==
    LET id == IF s.cls > 0 /\ e.scope = <<>> THEN Member(s, s.cls, e.name) ELSE Feature(s, e.scope, e.name)
    IN  IF Kind(s, id) = "constant" THEN id ELSE <<>>
ConstantRefOf(s, e, id) == Give(s, e, TypeOf(s, id))
ConstantRefTo(s, e, id) ==
    CASE id = <<>> -> Wrong(s, e, "undefined constant")
      [] id # <<>> /\ Circular(s, id) -> Wrong(s, e, "circular reference")
      [] OTHER -> ConstantRefOf(CheckFeature(s, id), e, id)
constref(s, e) == ConstantRefTo(s, e, ConstantNamed(s, e))

-----------------------------------------------------------------------------
(* Statements.                                                              *)
Last_(s, e) == IF e.es = <<>> THEN Void ELSE s.out[Len(s.out)].ty
BlockOf(q, e) == Give(Exit(q), [e EXCEPT !.es = q.out], Last_(q, e))
Statement(r, e, u, first) ==
    IF r.ret /\ first THEN Collected(Visit(Fail([r EXCEPT !.dead = TRUE], "unreachable"), e, u), r.out)
    ELSE Collected(Visit(r, e, u), r.out)
Statements(s, e, u) ==
    FoldLeft(LAMBDA r, i : Statement(r, e.es[i], u /\ i = Len(e.es), ~r.dead), Got(s, <<>>), [i \in DOMAIN e.es |-> i])
block(s, e, u) ==
    [BlockOf(Statements([Enter(s) EXCEPT !.ret = FALSE, !.dead = FALSE], e, u), e) EXCEPT !.dead = s.dead]

LetEnd(r, e, vars, u) == Give(Exit(r), [e EXCEPT !.vars = vars, !.block = r.out], IF u THEN r.out.ty ELSE Void)
LetBody(q, e, u) == LetEnd(Value(q, e.block), e, q.out, u)
let(s, e, u) == LetBody(VisitAll(Enter(s), [i \in DOMAIN e.vars |-> ("let" :> TRUE) @@ e.vars[i]]), e, u)

WhileEnd(r, e, g) == Give([Exit(r) EXCEPT !.ret = FALSE], [e EXCEPT !.guard = g, !.block = r.out], Void)
WhileBody(q, e) == WhileEnd(Value(Boolifiable(q, q.out), e.block), e, q.out)
while(s, e) == WhileBody(Value(Enter(s), e.guard), e)

\* The branches give a value when one conforms to the other.
Second(q, e, a, b) == Give(q, e, IF q.yes THEN a.ty ELSE Void)
First_(q, e, a, b) == IF q.yes THEN Give(q, e, b.ty) ELSE Second(Subtype(q, b.ty, a.ty), e, a, b)
Branches(r, e, a, b, u) == IF u THEN First_(Subtype(r, a.ty, b.ty), e, a, b) ELSE Give(r, e, Void)
IfElse(r, e, a, u) == Branches(r, [e EXCEPT !.then = a, !.else = r.out], a, r.out, u)
IfThen(r, e, u) ==
    IF e.else = P!NoBranch THEN Give([r EXCEPT !.ret = FALSE], [e EXCEPT !.then = r.out], Void)
    ELSE IfElse(Value(r, e.else), e, r.out, u)
If(q, e, u) == IfThen(Value(Boolifiable(q, q.out), e.then), [e EXCEPT !.guard = q.out], u)
conditional(s, e, u) == If(Visit(s, e.guard, FALSE), e, u)

\* match: every guard of a case has exactly the type of the guard.
CaseEnd(q, c, g) == Got(q, [c EXCEPT !.guard = g, !.block = q.out])
CaseBody(q, c) == CaseEnd(Value(q, c.block), c, q.out)
Case_(s, c) == CaseBody(Value(s, c.guard), c)
Narrow(q, t) == IF q.yes THEN q.ty ELSE Void
Narrowed(r, t) == [r EXCEPT !.ty = Narrow(r, t)]
Wide(q, t) == IF q.yes THEN [q EXCEPT !.ty = t] ELSE Narrowed(Subtype(q, t, q.ty), t)
Merge(r, t) == IF r.ty = NoType THEN [r EXCEPT !.ty = t] ELSE Wide(Subtype(r, r.ty, t), t)
CaseType(q, g, done) ==
    [Merge(FailIf(q, q.out.guard.k # "empty" /\ ~Equals(q, g.ty, q.out.guard.ty), "case does not conform"), q.out.block.ty)
        EXCEPT !.out = Append(done, q.out)]
MatchEnd(q, e, g) == Give(q, [e EXCEPT !.guard = g, !.cases = q.out], q.ty)
Cases(q, e, u) ==
    MatchEnd(FoldLeft(LAMBDA r, c : CaseType(Case_(r, c), q.out, r.out),
                      [Got(q, <<>>) EXCEPT !.ty = IF ~u THEN Void ELSE IF Typed(e) THEN e.ty ELSE NoType], e.cases),
             e, q.out)
match(s, e, u) == [Cases(Value(s, e.guard), e, u) EXCEPT !.ty = s.ty]

Assign(s, e) ==
    CASE ClassOf(s, e.type) = 0 /\ ~IsTop(e.type) -> Unknown(s, e)
      [] IsVoid(s, e.init.ty) -> Unknown(Fail(s, "Void value"), e)
      [] Declares(e) -> Assigned(initial_assignment(CheckAttribute(s, AttributeOf(s, e.name)), e), e)
      [] OTHER -> Assigned(secondary_assignment(CheckAttribute(s, AttributeOf(s, e.name)), e), e)
AssignTyped(q, e, init) == Assign(q, With([e EXCEPT !.init = init, !.type = q.out], IF IsTop(e.type) THEN init.ty ELSE e.type))
AssignInit(q, e) == AssignTyped(CheckType([q EXCEPT !.push = NoType], e.type), e, q.out)
assign(s, e) == AssignInit(Value([s EXCEPT !.push = PushFor(s, e)], e.init), e)

\* A return of nothing is not counted as one; what is returned may be boxed
\* but is never cast.
FunctionType(s) == At(s, s.fn).type
Returned(q, e, of) ==
    Give(FailIf(q, ~q.yes, "return does not conform"), [e EXCEPT !.e = Boxed(q, of, FunctionType(q))], Void)
ReturnOf(q, e) == Returned(Subtype([q EXCEPT !.ret = TRUE], q.out.ty, FunctionType(q)), e, q.out)
return(s, e) == IF e.e.k = "empty" THEN Give(s, e, Void) ELSE ReturnOf(Value(s, e.e), e)
yield_(s, e) == Give(Throws(s, s.fn, TRUE), e, Void)

ClosureEnd(q, e) == Give(q, ("constr" :> q.out) @@ e, q.out.ty)
ClosureArgs(s, c, ns) == P!Construct(TypeOfClass(s, c), [i \in DOMAIN ns |-> P!Ref(<<>>, ns[i])])
CaptureAll(s, e, c, ns) == ClosureEnd(Value(CheckFeature(Captured(s, c, ns), <<c>>), ClosureArgs(s, c, ns)), e)
closure(s, e) ==
    CaptureAll(s, e, ClassOf(s, e.func.formals[1].type), SetToSeq({n \in FreeVariables(e.func) : Variable(s, n) # <<>>}))

Visit(s, e, u) ==
    CASE e.k = "lit" -> literal(s, e)
      [] e.k = "array" -> array(s, e)
      [] e.k = "hash" -> hash(s, e)
      [] e.k = "let" -> let(s, e, u)
      [] e.k = "is" -> is(s, e)
      [] e.k = "box" -> box(s, e)
      [] e.k = "cast" -> cast(s, e)
      [] e.k = "binary" -> binary(s, e)
      [] e.k = "unary" -> unary(s, e)
      [] e.k = "member" -> member(s, e)
      [] e.k = "call" -> call_(s, e)
      [] e.k = "construct" -> construct(s, e)
      [] e.k = "constref" -> constref(s, e)
      [] e.k = "ref" -> ref(s, e)
      [] e.k = "block" -> block(s, e, u)
      [] e.k = "while" -> while(s, e)
      [] e.k = "cond" -> conditional(s, e, u)
      [] e.k = "assign" -> assign(s, e)
      [] e.k = "return" -> return(s, e)
      [] e.k = "yield" -> yield_(s, e)
      [] e.k = "match" -> match(s, e, u)
      [] e.k = "closure" -> closure(s, e)
      [] e.k = "feature" -> VisitFeature(s, e.id)
      [] OTHER -> Give(s, e, Top)

IsChecked(s, f) ==
    /\ HasBody(f)
    /\ f.body.es # <<>> \/ ("NATIVE" \notin f.flags /\ (s.cls = 0 \/ ~IsInterface(s, TypeOfClass(s, s.cls))))
BodyEnd(q, id, f) == Put(FailIf(q, f.type # Void /\ ~q.ret, "must return a value"), id, [At(q, id) EXCEPT !.body = q.out])
Body(s, id, f) == IF IsChecked(s, f) THEN BodyEnd(Visit(s, f.body, FALSE), id, f) ELSE s
FunctionIn_(s, id, f) == Body(BodyAllowed(CheckType(WithSelf(Formals(Enter(s), f.formals), f), f.type), f), id, f)
FunctionOf(s, id, f, c) ==
    FunctionIn_(FailIf([Anchored(s, c, id, Bound(s, c, f)) EXCEPT !.checked = @ \cup {id}], Twin(s, id), "duplicate function"), id, f)
Owner(id) == IF Len(id) = 2 THEN id[1] ELSE 0
CheckFunction(s, id) == IF id \in s.checked THEN s ELSE Restored(FunctionOf(s, id, At(s, id), Owner(id)), s)

ConstantEnd(q, id) == ConstantOf(q, id, ConstantType(q, At(q, id), q.out))
ConstantInit(s, id) ==
    ConstantEnd(Value(FailIf(SetType(s, id, Bottom), Twin(s, id), "duplicate constant"), At(s, id).init), id)
NeedsClass(s, id) == Len(id) = 2 /\ At(s, id).init = P!NoBranch
CheckConstant(s, id) ==
    CASE TypeOf(s, id) # NoType -> s
      [] TypeOf(s, id) = NoType /\ NeedsClass(s, id) -> ConstantInit(CheckFeature(s, <<id[1]>>), id)
      [] OTHER -> ConstantInit(s, id)

AttributeDeclared(q, id, a, init) == AttributeTyped(q, id, a, init, IF IsTop(a.type) THEN init.ty ELSE a.type)
AttributeInit(q, id, a) == AttributeDeclared(CheckType([q EXCEPT !.push = NoType], a.type), id, a, q.out)
AttributeIn_(s, id, a) == AttributeInit(Visit([SetType(s, id, Bottom) EXCEPT !.push = a.type], a.init, FALSE), id, a)
CheckAttribute_(s, id, a) ==
    AttributeIn_(AttributeErrors(Anchored(s, id[1], s.fn, GenericsOf(s, id[1])), id, a), id, a)
CheckAttributeAt(s, id) == IF TypeOf(s, id) # NoType THEN s ELSE Restored(CheckAttribute_(s, id, At(s, id)), s)

FeaturesOf(s, c, kinds) == SelectSeq([j \in DOMAIN Class(s, c).features |-> <<c, j>>], LAMBDA id : Kind(s, id) \in kinds)
CheckAll(s, ids) == FoldLeft(CheckFeature, s, ids)
\* The list of features grows while the attributes are checked.
CheckMembers(s, c) == CheckAll(s, FeaturesOf(s, c, {"function", "attribute", "constant"}))
ClassParts(s, c, t) == CheckMembers(CheckAll(s, FeaturesOf(s, c, {"attribute"})), c)
ClassBody(s, c, t) == ClassParts(assign_enums(Embeddings(AlternatesOf(Needed(s, t)), t), t), c, t)
CheckClass(s, c) == Restored(ClassBody(ClassErrors(Anchored(s, c, s.fn, {}), c), c, TypeOfClass(s, c)), s)

VisitFeature(s, id) ==
    CASE Kind(s, id) = "class" -> CheckClass(s, id[1])
      [] Kind(s, id) = "function" -> CheckFunction(s, id)
      [] Kind(s, id) = "attribute" -> CheckAttributeAt(s, id)
      [] Kind(s, id) = "constant" -> CheckConstant(s, id)

=============================================================================
