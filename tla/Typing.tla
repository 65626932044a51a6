---------------------------------- MODULE Typing ----------------------------------
(***************************************************************************)
(* What the semantic analyser does at a node, before and after it visits   *)
(* what is in it (compiler/SemanticAnalyzer.cpp, ClosureAnalyzer.cpp): the *)
(* local variables, types that are named, arguments against formals,       *)
(* assignment to a variable, what is generated for a class, throw_spec.    *)
(* The state is the one of Subtyping with errs, the messages; scopes, the  *)
(* local variables; push, the type that is suggested to a literal (type_); *)
(* ret (return_); cls and fn, what is being checked; bound, the type       *)
(* variables in sight; types, of attributes and constants; checked         *)
(* functions; calls, who calls whom; spec, what is known to throw.         *)
(***************************************************************************)
EXTENDS Subtyping

P == INSTANCE Parser

AnyType == Plain("Any")
Void == Plain("Void")
Bool == Plain("Bool")
Nothing == P!Empty

Got(s, x) == [s EXCEPT !.out = x]
Fail(s, what) == [s EXCEPT !.errs = Append(@, what)]
FailIf(s, wrong, what) == IF wrong THEN Fail(s, what) ELSE s
Abort(s) == [s EXCEPT !.aborted = TRUE]
Typed(e) == "ty" \in DOMAIN e
With(e, t) == ("ty" :> t) @@ e
Give(s, e, t) == [s EXCEPT !.out = With(e, t)]
Wrong(s, e, what) == Give(Fail(s, what), e, Top)

Types(es) == [i \in DOMAIN es |-> es[i].ty]

-----------------------------------------------------------------------------
(* Variables.  Of two definitions in one scope the first is found.          *)
Enter(s) == [s EXCEPT !.scopes = Append(@, <<>>)]
Exit(s) == [s EXCEPT !.scopes = Front(@)]
Var(t, const) == [type |-> t, const |-> const]
Define(s, n, v) == [s EXCEPT !.scopes[Len(s.scopes)] = @ @@ (n :> v)]
Innermost(s, n) == {i \in DOMAIN s.scopes : n \in DOMAIN s.scopes[i]}
IsClosure(s, c) == c > 0 /\ Head(Class(s, c).name) = "_Closure"
Known(s, n) == IF n = "self" /\ Innermost(s, n) = {} /\ s.cls # 0 /\ ~IsClosure(s, s.cls) THEN "__self" ELSE n
Found(s, n) == IF Innermost(s, n) = {} THEN <<>> ELSE <<s.scopes[Max(Innermost(s, n))][n]>>
Variable(s, n) == Found(s, Known(s, n))

TypeOf(s, id) == IF id \in DOMAIN s.types THEN s.types[id] ELSE NoType
SetType(s, id, t) == [s EXCEPT !.types = (id :> t) @@ @]
Circular(s, id) == TypeOf(s, id) = Bottom
Calling(s, id) == IF s.fn = <<>> THEN s ELSE [s EXCEPT !.calls = Append(@, <<s.fn, id>>)]
Throws(s, id, yes) == [s EXCEPT !.spec = (id :> yes) @@ @]
Hidden(s, id) == "PRIVATE" \in At(s, id).flags /\ (IF Len(id) = 2 THEN id[1] ELSE -2) # s.cls

\* operator()(Type*): a type that is wrong becomes Top.
RECURSIVE CheckType(_, _)
Arity(s, t) == Len(Class(s, ClassOf(s, t)).generics)
CheckArgument(r, t, g) ==
    LET q == CheckType(r, g)
    IN  [FailIf(q, ~IsInterface(q, t) /\ IsValue(q, q.out), "value in a generic class") EXCEPT !.out = t]
CheckType(s, t) ==
    CASE IsTop(t) \/ IsVoid(s, t) -> Got(s, t)
      [] IsGeneric(t) -> IF t.name \in s.bound THEN Got(s, t) ELSE Got(Fail(s, "unbound type variable"), Top)
      [] ClassOf(s, t) = 0 -> Got(Fail(s, "undefined type"), Top)
      [] Len(t.args) # Arity(s, t) -> Got(Fail(s, "number of type arguments"), Top)
      [] OTHER -> FoldLeft(LAMBDA r, g : CheckArgument(r, t, g), Got(s, t), t.args)

-----------------------------------------------------------------------------
(* What is passed where something else is expected: Any and unions hold     *)
(* boxes.  Wanted is what the place holds.                                  *)
Box(e, t) == [k |-> "box", of |-> e, ty |-> t]
Cast(e, t) == [k |-> "cast", of |-> e, ty |-> t]
NeverBoxed(s, e, wanted) == e
Boxed(s, e, wanted) == IF IsValue(s, e.ty) /\ IsAlt(s, wanted) THEN Box(e, wanted) ELSE e
Adapted(s, e, wanted) ==
    IF IsAlt(s, e.ty) /\ ~Equals(s, wanted, e.ty) THEN Cast(e, wanted) ELSE Boxed(s, e, wanted)

\* args(): each argument against its formal, as far as both go.
Pairs(s, formals, args, rec) ==
    (IF rec = NoType THEN <<>> ELSE Receiver(s, rec))
    \o [i \in 1 .. Min({Len(formals), Len(args)}) |-> <<formals[i].type, args[i].ty>>]
Conforming(q, formal, a, wanted) ==
    [FailIf(q, ~q.yes /\ formal.name # "__self", "argument does not conform") EXCEPT !.out = Append(@, Adapted(q, a, wanted))]
Argument(r, formal, a, wanted) == Conforming(Subtype(r, a.ty, wanted), formal, a, wanted)
AllArguments(s, formals, args, pairs) ==
    FoldLeft(LAMBDA r, i : Argument(r, formals[i], args[i], Canonical(formals[i].type, pairs)),
             Got(s, <<>>), [i \in 1 .. Min({Len(formals), Len(args)}) |-> i])
Arguments(s, formals, args, rec) ==
    FailIf(AllArguments(s, formals, args, Pairs(s, formals, args, rec)), Len(formals) # Len(args), "number of arguments")

\* The type of a formal is suggested to the argument that is checked for it.
Suggest(s, formals, i, rec) ==
    [s EXCEPT !.push = IF i \in DOMAIN formals
                       THEN Canonical(formals[i].type, IF rec = NoType THEN <<>> ELSE Receiver(s, rec)) ELSE NoType]
Passed(q, formals, rec) == Arguments(q, formals, q.out, rec)

\* Assignment.  Without a type the variable is defined, if it is not known;
\* so is one with the name of an attribute.
Declares(e) == ~IsTop(e.type) \/ "let" \in DOMAIN e
AttributeOf(s, n) == IF s.cls = 0 THEN <<>> ELSE AttributeIn(s, s.cls, n)
DeclaredOf(s, n) == IF AttributeOf(s, n) = <<>> THEN s.push ELSE At(s, AttributeOf(s, n)).type
PushFor(s, e) ==
    IF ~IsTop(e.type) THEN e.type ELSE IF Variable(s, e.name) # <<>> THEN Variable(s, e.name)[1].type ELSE DeclaredOf(s, e.name)
Constant_(s, e) == IF AttributeOf(s, e.name) # <<>> THEN "VAR" \notin At(s, AttributeOf(s, e.name)).flags ELSE ~e.var

Here(s, n) == n \in DOMAIN s.scopes[Len(s.scopes)]
AfterShadow(q, e) == FailIf(q, ~q.yes, "expression does not conform")
Initial(s, e, again) ==
    CASE again -> Fail(s, "duplicate variable")
      [] ~again /\ AttributeOf(s, e.name) # <<>> -> Fail(s, "shadows an attribute")
      [] OTHER -> FailIf(AfterShadow(Subtype(s, e.init.ty, e.type), e), IsCompound(s, e.type) /\ IsTop(e.init.ty), "no constructor")
initial_assignment(s, e) == Initial(Define(s, e.name, Var(e.ty, Constant_(s, e))), e, Here(s, Known(s, e.name)))

DefineNew(s, e) == IF Variable(s, e.name) # <<>> THEN s ELSE Define(s, e.name, Var(e.ty, Constant_(s, e)))
ToAttribute(q, e) == IF q.yes THEN DefineNew(q, e) ELSE Fail(q, "expression does not conform")
ToVariable(q, e, id) ==
    CASE ~q.yes -> Fail(q, "expression does not conform")
      [] q.yes /\ id # <<>> -> ToAttribute(Subtype(q, e.init.ty, TypeOf(q, id)), e)
      [] OTHER -> DefineNew(q, e)
Secondary(s, e, var, id) ==
    CASE var # <<>> /\ var[1].const -> Fail(s, "immutable variable")
      [] var # <<>> /\ ~var[1].const -> ToVariable(Subtype(s, e.init.ty, var[1].type), e, id)
      [] OTHER -> ToVariable([s EXCEPT !.yes = TRUE], e, id)
secondary_assignment(s, e) == Secondary(s, e, Variable(s, e.name), AttributeOf(s, e.name))

Stored(s, e, var) ==
    Got(s, IF var = <<>> THEN e ELSE ("to" :> var[1].type) @@ [e EXCEPT !.init = Adapted(s, @, var[1].type)])
Unknown(s, e) == Got(Define(s, e.name, Var(Top, ~e.var)), e)
Assigned(s, e) == Stored(s, e, Variable(s, e.name))
-----------------------------------------------------------------------------
(* A closure is an object of a class of its own: the variables of its       *)
(* function that are found outside become attributes and arguments.         *)
RECURSIVE Unbound(_, _)
UnboundIn(es, known) == UNION {Unbound(es[i], known) : i \in DOMAIN es}
Unbound(e, known) ==
    CASE e.k = "ref" -> {e.name} \ known
      [] e.k = "binary" -> UnboundIn(<<e.a, e.b>>, known)
      [] e.k \in {"unary", "return"} -> Unbound(e.e, known)
      [] e.k = "call" -> UnboundIn(<<e.fn>> \o e.args, known)
      [] e.k = "construct" -> UnboundIn(e.args, known)
      [] e.k = "member" -> Unbound(e.of, known)
      [] e.k = "block" -> UnboundIn(e.es, known)
      [] e.k = "let" -> UnboundIn(Append(e.vars, e.block), known)
      [] e.k = "while" -> UnboundIn(<<e.guard, e.block>>, known)
      [] e.k = "cond" -> UnboundIn(<<e.guard, e.then, e.else>>, known)
      [] e.k = "match" ->
             UnboundIn(<<e.guard>> \o FlattenSeq([i \in DOMAIN e.cases |-> <<e.cases[i].guard, e.cases[i].block>>]), known)
      [] e.k = "assign" -> Unbound(e.init, known) \cup ({e.name} \cap known)
      [] OTHER -> {}
FreeVariables(f) == Unbound(f.body, {f.formals[i].name : i \in DOMAIN f.formals})

AddFeature(s, c, f) == [s EXCEPT !.decls[c].of.features = Append(@, f)]
Reset(n) == P!Assignment(n, Top, FALSE, P!Ref(<<>>, "_" \o n))
Init_(s, ns) ==
    P!Function("@init", [i \in DOMAIN ns |-> [name |-> "_" \o ns[i], type |-> Variable(s, ns[i])[1].type]], {}, Void,
               P!Block([i \in DOMAIN ns |-> Reset(ns[i])]))
AddAttribute(r, c, f) == SetType(AddFeature(r, c, f), <<c, Len(Class(r, c).features) + 1>>, f.type)
Captured(s, c, ns) ==
    AddFeature(FoldLeft(LAMBDA r, n : AddAttribute(r, c, P!Attribute(n, {"PRIVATE"}, Variable(r, n)[1].type, Nothing)), s, ns),
               c, Init_(s, ns))
-----------------------------------------------------------------------------
(* Declarations.  ContextAnchor keeps what is being checked and puts it     *)
(* back.                                                                    *)
Anchored(s, c, fn, bound) == [s EXCEPT !.scopes = <<<<>>>>, !.bound = bound, !.cls = c, !.fn = fn]
Kept_(q, s) == q
Restored(q, s) == [q EXCEPT !.scopes = s.scopes, !.bound = s.bound, !.cls = s.cls, !.fn = s.fn, !.ret = s.ret]
RECURSIVE Variables(_)
Variables(t) == IF IsGeneric(t) THEN {t.name} ELSE UNION {Variables(t.args[i]) : i \in DOMAIN t.args}
GenericsOf(s, c) == IF c = 0 THEN {} ELSE UNION {Variables(g) : g \in Range(Class(s, c).generics)}
Twin(s, id) == IF Len(id) = 2 THEN Member(s, id[1], At(s, id).name) # id ELSE InModule(s, s.decls[id[1]].in, NameOf(At(s, id))) # id

Formal(q, f) == Define(q, f.name, Var(q.out, TRUE))
Formals(s, fs) == FoldLeft(LAMBDA r, f : Formal(CheckType(r, f.type), f), s, fs)
HasBody(f) == f.body # P!NoBranch
BodyAllowed(s, f) ==
    LET interface == s.cls # 0 /\ IsInterface(s, TypeOfClass(s, s.cls))
        native == "NATIVE" \in f.flags
    IN  CASE HasBody(f) /\ f.body.es # <<>> /\ interface -> Fail(s, "interface function has a body")
          [] HasBody(f) /\ f.body.es # <<>> /\ ~interface /\ native -> Fail(s, "native function has a body")
          [] ~HasBody(f) /\ ~interface /\ ~native -> Fail(s, "no body")
          [] OTHER -> s
WithSelf(s, f) == IF s.cls # 0 /\ f.name = "@init" THEN Define(s, "__self", Var(TypeOfClass(s, s.cls), TRUE)) ELSE s
Bound(s, c, f) == GenericsOf(s, c) \cup UNION {Variables(f.formals[i].type) : i \in DOMAIN f.formals}
\* A constant: a literal, or a primitive made of one.
Literal(e) == e.k = "lit" /\ e.t \in {"STRING", "INTEGER", "FLOAT"}
MadeOf(s, e) == e.k = "construct" /\ IsPrimitive(s, e.ty) /\ Len(e.args) = 1 /\ e.args[1].k = "lit"
ConstantType(q, c, e) ==
    CASE e.k \notin {"none", "empty"} -> e.ty
      [] e.k \in {"none", "empty"} /\ IsTop(c.type) -> NoType
      [] OTHER -> c.type
Literally(q, e) == e.k \in {"none", "empty"} \/ Literal(e) \/ MadeOf(q, e)
ConstantOf(q, id, t) ==
    Put(FailIf(FailIf(SetType(q, id, t), ~Literally(q, q.out), "non-literal constant"), t = NoType, "no type or initializer"),
        id, [At(q, id) EXCEPT !.init = q.out])
\* An attribute, with its accessor and mutator.
Self(s) == [name |-> "__self", type |-> TypeOfClass(s, s.cls)]
Component(a) == "COMPONENT" \in a.flags
Lacks(s, n) == FunctionIn(s, s.cls, n) = <<>>
accessor(s, a, t) ==
    IF Lacks(s, a.name \o "?") /\ {"PRIVATE", "COMPONENT"} \cap a.flags = {}
    THEN AddFeature(s, s.cls, P!Function(a.name \o "?", <<Self(s)>>, {}, t, P!Block(<<P!Return(P!Ref(<<>>, a.name))>>)))
    ELSE s
SetTo(n) == P!Block(<<P!Assignment(n, Top, FALSE, P!Ref(<<>>, "_arg0"))>>)
mutator(s, a, t) ==
    IF Lacks(s, a.name \o "=") /\ {"PRIVATE", "COMPONENT"} \cap a.flags = {} /\ "VAR" \in a.flags
    THEN AddFeature(s, s.cls, P!Function(a.name \o "=", <<Self(s), [name |-> "_arg0", type |-> t]>>, {}, Void, SetTo(a.name)))
    ELSE s
AttributeEnd(q, a, t) == accessor(mutator(FailIf(q, ~q.yes, "expression does not conform"), a, t), a, t)
Conformed(q, id, a, init, t) ==
    IF IsCompound(q, a.type) /\ IsTop(init.ty) /\ ~Component(a) THEN Fail(q, "uninitialized value")
    ELSE AttributeEnd(Subtype(Put(q, id, [At(q, id) EXCEPT !.init = init]), init.ty, a.type), a, t)
Embeds(s, t) == LET c == FunctionIn(s, ClassOf(s, t), "@init") IN ClassOf(s, t) # 0 /\ c # <<>> /\ At(s, c).formals # <<>>
AttributeTyped(q, id, a, init, t) ==
    Conformed(FailIf(SetType(q, id, t), Component(a) /\ Embeds(q, t), "constructor arguments"), id, a, init, t)
AttributeErrors(s, id, a) ==
    FailIf(FailIf(FailIf(s, IsEnum(s, TypeOfClass(s, s.cls)), "attribute of an enum"),
                  Component(a) /\ ClassOf(s, a.type) = s.cls, "self-embedded"),
           Twin(s, id), "duplicate attribute")
\* A class: what it needs is generated, then its features are checked.
OwnFunction(s, n) == LET id == FunctionIn(s, s.cls, n) IN id # <<>> /\ id[1] = s.cls
Generated(s, n, formals) == AddFeature(s, s.cls, P!Function(n, formals, {}, Void, P!Block(<<>>)))
constructor(s) == IF OwnFunction(s, "@init") THEN s ELSE Generated(s, "@init", <<>>)
destructor(s) == IF OwnFunction(s, "@destroy") THEN s ELSE Generated(s, "@destroy", <<Self(s)>>)
copier(s) ==
    IF FunctionIn(s, s.cls, "@copy") # <<>> THEN s
    ELSE Generated(s, "@copy", <<Self(s), [name |-> "val", type |-> TypeOfClass(s, s.cls)]>>)
Needed(s, t) ==
    CASE IsPrimitive(s, t) -> destructor(s)
      [] ~IsPrimitive(s, t) /\ IsObject(s, t) -> constructor(destructor(s))
      [] ~IsPrimitive(s, t) /\ ~IsObject(s, t) /\ IsRef(s, t) -> s
      [] OTHER -> destructor(copier(constructor(s)))

Misplaced(s, t, m) == IF IsInterface(s, t) THEN ~IsInterface(s, m) ELSE IsInterface(s, m)
Embedding(s, t, a) ==
    IF ClassOf(s, a.type) = 0 THEN Fail(s, "undefined type") ELSE FailIf(s, Misplaced(s, t, a.type), "embedded type")
Embeddings(s, t) ==
    FoldLeft(LAMBDA r, f : IF f.k = "attribute" /\ Component(f) THEN Embedding(r, t, f) ELSE r, s, Class(s, s.cls).features)
AlternatesOf(s) ==
    FoldLeft(LAMBDA r, a : FailIf(r, ClassOf(r, a) # 0 /\ IsInterface(r, a), "interface as an alternate"), s, Class(s, s.cls).alternates)

\* assign_enums(): numbers for the constants that have none.
Numbered(n, t) == With(P!Lit("INTEGER", n), t)
Explicit(f) == f.init.k = "lit" /\ f.init.t = "INTEGER"
Enumerate(r, f, t) ==
    CASE f.k = "constant" /\ f.init = P!NoBranch ->
             [r EXCEPT !.features = Append(@, [f EXCEPT !.init = Numbered(r.next, t)]), !.next = @ + 1, !.auto = TRUE]
      [] f.k = "constant" /\ Explicit(f) /\ r.enum ->
             [r EXCEPT !.features = Append(@, [f EXCEPT !.init = With(@, t)]), !.next = Max({@, f.init.v + 1}),
                       !.late = @ \/ r.auto]
      [] OTHER -> [r EXCEPT !.features = Append(@, f)]
Enumerated(s, t) ==
    FoldLeft(LAMBDA r, f : Enumerate(r, f, t),
             [features |-> <<>>, next |-> 0, auto |-> FALSE, late |-> FALSE, enum |-> IsEnum(s, t)], Class(s, s.cls).features)
Numbering(s, r) == FailIf([s EXCEPT !.decls[s.cls].of.features = r.features], r.late, "explicit after automatic constant")
assign_enums(s, t) == Numbering(s, Enumerated(s, t))

ClassErrors(s, c) ==
    FailIf(FailIf(FailIf(s, ~IsProto(s, Class(s, c).proto), "invalid prototype"), Twin(s, <<c>>), "duplicate type"),
           \E i \in DOMAIN s.decls : s.decls[i].in = Class(s, c).name, "name of a module")
-----------------------------------------------------------------------------
(* throw_spec(): can the function throw?  Computed when it is asked for and *)
(* kept; "no" is assumed while it is computed.                              *)
RECURSIVE ThrowSpec(_, _)
CalledBy(s, id) == SelectSeq(s.calls, LAMBDA c : c[1] = id)
Kept(q, id) == IF q.yes THEN Throws(q, id, TRUE) ELSE q
IsVirtual(s, id) == Len(id) = 2 /\ IsInterface(s, TypeOfClass(s, id[1]))
AnyThrows(s, id) ==
    Kept(FoldLeft(LAMBDA r, c : IF r.yes THEN r ELSE ThrowSpec(r, c[2]), [Throws(s, id, FALSE) EXCEPT !.yes = FALSE], CalledBy(s, id)), id)
ThrowSpec(s, id) ==
    CASE id \in DOMAIN s.spec -> [s EXCEPT !.yes = s.spec[id]]
      [] id \notin DOMAIN s.spec /\ IsVirtual(s, id) -> [Throws(s, id, TRUE) EXCEPT !.yes = TRUE]
      [] OTHER -> AnyThrows(s, id)
=============================================================================
