------------------------------- MODULE MCSemantics -------------------------------
\* Programs: a value of every kind of type where every kind is expected, in
\* every place; programs right and wrong by each rule; families of interfaces.
EXTENDS Checking

Decl(f) == [in |-> <<>>, of |-> f]
Decls(fs) == [i \in DOMAIN fs |-> Decl(fs[i])]
Function(n, formals, t, es) == P!Function(n, formals, {}, t, P!Block(es))
MethodOf_(c, n, formals, t, es) == Function(n, <<SelfOf(c)>> \o formals, t, es)
Abstract(c, n, formals, t) == P!Function(n, <<SelfOf(c)>> \o formals, {}, t, P!NoBranch)
N(n) == P!Ref(<<>>, n)
IntType == Plain("Int")
StringType == Plain("String")
One == P!Lit("INTEGER", 1)
Str == P!Lit("STRING", 7)
Nil == P!Lit("NIL", 0)
Invoke(n, args) == P!Call(N(n), args)
Send(e, n, args) == P!Call(P!Member(e, n), args)
Set(n, e) == P!Assignment(n, Top, FALSE, e)
SetVar(n, t, e) == P!Assignment(n, t, TRUE, e)
New(n, args) == P!Construct(Plain(n), args)

\* One class of each kind.
Foo == Of("Foo", "Object", <<MethodOf_("Foo", "size?", <<>>, IntType, <<P!Return(One)>>)>>)
Sized == Of("Sized", "Interface", <<Abstract("Sized", "size?", <<>>, IntType)>>)
Pt == Of("Pt", "Value", <<P!Attribute("x", {}, IntType, One)>>)
Either == P!Union(Plain("Either"), <<StringType, IntType>>)
Color == P!Enum(Plain("Color"), <<P!Constant("RED", {}, Top, P!NoBranch), P!Constant("BLUE", {}, Top, P!NoBranch)>>)
DeclOf == [Foo |-> Foo, Sized |-> Sized, Pt |-> Pt, Either |-> Either, Color |-> Color]
Kinds == {"Int", "String", "Any"} \cup DOMAIN DeclOf
Needs(names) == SetToSeq({Decl(DeclOf[n]) : n \in names \cap DOMAIN DeclOf})
AllKinds == Started(Decls(<<Foo, Sized, Pt, Either, Color>>))
Relation == Conforms(AllKinds, {Plain(n) : n \in Kinds})
Alt(a) == a \in {"Any", "Either"}

Program(decls, legal) == [decls |-> decls, legal |-> legal, ask |-> FALSE]
Uses(a, b, fs) == [decls |-> Needs({a, b}) \o Decls(fs), legal |-> FALSE, ask |-> FALSE, from |-> a, to |-> b]
Y(a) == Arg("y", Plain(a))
Passing(a, b) ==
    Uses(a, b, <<Function("f", <<Arg("x", Plain(b))>>, Void, <<>>), Function("g", <<Y(a)>>, Void, <<Invoke("f", <<N("y")>>)>>)>>)
Storing(a, b) == Uses(a, b, <<Function("g", <<Y(a)>>, Void, <<SetVar("z", Plain(b), N("y"))>>)>>)
Replacing(a, b) ==
    Uses(a, b, <<Function("g", <<Y(a), Arg("w", Plain(b))>>, Void, <<SetVar("z", Plain(b), N("w")), Set("z", N("y"))>>)>>)
Returning(a, b) == Uses(a, b, <<Function("g", <<Y(a)>>, Plain(b), <<P!Return(N("y"))>>)>>)
FlowPrograms ==
    {Passing(a, b) : a \in Kinds, b \in Kinds} \cup {Storing(a, b) : a \in Kinds, b \in Kinds}
    \cup {Replacing(a, b) : a \in Kinds, b \in Kinds}
    \* What is returned is not cast.
    \cup {Returning(p[1], p[2]) : p \in {p \in Kinds \X Kinds : Alt(p[1]) => Alt(p[2])}}

Labelled(fs, r) == {[decls |-> f.decls, ask |-> FALSE, legal |-> <<Plain(f.from), Plain(f.to)>> \in r] : f \in fs}
Flows == Labelled(FlowPrograms, Relation)

-----------------------------------------------------------------------------
\* One function each, right and wrong by a rule.
Main(es) == Function("g", <<>>, Void, es)
Good(fs) == Program(Decls(fs), TRUE)
Bad(fs) == Program(Decls(fs), FALSE)
Count == Function("count", <<Arg("n", IntType)>>, IntType, <<P!Return(N("n"))>>)
Yes == P!Lit("BOOL", 1)
When(g, a, b) == P!Conditional(g, P!Block(a), P!Block(b))
IfOnly(g, a) == P!Conditional(g, P!Block(a), P!NoBranch)
Let1(n, e, es) == P!Let(<<Set(n, e)>>, P!Block(es))
Add(a, b) == Send(a, "@add", <<b>>)
Case(g, es) == P!Case(g, P!Block(es))
Dict(kv) == [k |-> "hash", es |-> <<P!Call(Nothing, kv)>>]
Statements_ ==
    {Good(<<Main(<<Set("x", One), SetVar("y", Plain("Any"), N("x"))>>)>>),
     Good(<<Count, Main(<<Set("x", Invoke("count", <<One>>)), IfOnly(Send(N("x"), "@less", <<One>>), <<Set("y", N("x"))>>)>>)>>),
     Good(<<Main(<<Let1("x", One, <<Let1("x", Str, <<Set("y", Send(N("x"), "@add", <<Str>>))>>)>>)>>)>>),
     Good(<<Function("g", <<Arg("c", Plain("Bool"))>>, IntType, <<When(N("c"), <<P!Return(One)>>, <<P!Return(One)>>)>>)>>),
     Good(<<Main(<<Set("x", When(Yes, <<One>>, <<Add(One, One)>>)), Set("y", Add(N("x"), One))>>)>>),
     Good(<<Main(<<P!While(P!Unary("not", Yes), P!Block(<<Set("x", One)>>)), Set("x", Str)>>)>>),
     Good(<<Main(<<P!Match(One, <<Case(One, <<Set("x", One)>>), Case(Nothing, <<>>)>>), P!Return(Nothing)>>)>>),
     Good(<<Main(<<Set("x", [k |-> "array", es |-> <<Str, Str>>]), Set("y", Add(Send(N("x"), "@index", <<One>>), Str))>>)>>),
     Bad(<<Main(<<Set("x", [k |-> "array", es |-> <<One, One>>])>>)>>),
     Good(<<Main(<<Set("x", Dict(<<Str, Nil>>)), Set("y", Send(N("x"), "@index", <<Str>>))>>)>>),
     Bad(<<Main(<<Set("x", Dict(<<Str, Str>>)), Set("y", Send(N("x"), "@index", <<One>>))>>)>>),
     Good(<<Main(<<Set("x", P!Is(Str, StringType)), P!Yield, Set("y", P!Binary("and", N("x"), Nil))>>)>>),
     Good(<<Count, Main(<<Set("x", Send(Str, "size?", <<>>)), Set("y", P!Call(N("size?"), <<Str>>)), Invoke("count", <<Nil>>)>>)>>),
     Bad(<<Main(<<Set("x", N("y"))>>)>>),
     Bad(<<Main(<<Let1("x", One, <<>>), Set("y", N("x"))>>)>>),
     Bad(<<Main(<<IfOnly(Yes, <<Set("x", One)>>), Set("y", N("x"))>>)>>),
     Bad(<<Main(<<Set("x", Invoke("count", <<>>))>>)>>),
     Bad(<<Count, Main(<<Invoke("count", <<>>)>>)>>), Bad(<<Count, Main(<<Invoke("count", <<One, One>>)>>)>>),
     Bad(<<Count, Main(<<Invoke("count", <<Str>>)>>)>>),
     Bad(<<Main(<<Set("x", Main(<<>>))>>), Main(<<>>)>>),
     Bad(<<Main(<<Set("x", Send(One, "size?", <<>>))>>)>>),
     Bad(<<Function("g", <<Arg("c", IntType)>>, Void, <<Set("c", One)>>)>>),
     Bad(<<Main(<<SetVar("x", IntType, One), Set("x", Str)>>)>>),
     Bad(<<Main(<<SetVar("x", IntType, One), SetVar("x", IntType, One)>>)>>),
     Bad(<<Main(<<Set("x", Invoke("g", <<>>))>>)>>),
     Bad(<<Main(<<P!Return(One)>>)>>),
     Bad(<<Function("g", <<Arg("c", Plain("Bool"))>>, IntType, <<IfOnly(N("c"), <<P!Return(One)>>)>>)>>),
     Bad(<<Function("g", <<>>, IntType, <<P!While(Yes, P!Block(<<P!Return(One)>>))>>)>>),
     Bad(<<Function("g", <<>>, IntType, <<P!Return(One), Set("x", One)>>)>>),
     Bad(<<Main(<<P!Match(One, <<Case(Str, <<>>)>>)>>)>>),
     Bad(<<Main(<<SetVar("x", Plain("Nowhere"), One)>>)>>),
     Bad(<<Main(<<SetVar("x", P!Type(<<"Array">>, <<IntType, IntType>>), Nil)>>)>>)}

\* Classes: attributes, constants, closures, embedded objects.
Cls(n, fs) == Of(n, "Object", fs)
Attr(n, fs, t, e) == P!Attribute(n, fs, t, e)
InFoo(es) == MethodOf_("Foo", "f", <<>>, Void, es)
Closed(n, formals, es) == Function("@call", <<Arg("__self", P!Type(<<n>>, <<>>))>> \o formals, IntType, es)
ClosureClass(f) == P!Class(P!Type(<<"_Closure">>, <<>>), Plain("Object"), <<f>>)
AddsX == Closed("_Closure", <<Arg("n", IntType)>>, <<P!Return(Add(N("n"), N("x")))>>)
WithClosure(es) == <<ClosureClass(AddsX), Main(es)>>
ClassPrograms ==
    {Good(<<Cls("Foo", <<Attr("a", {"VAR"}, IntType, One), InFoo(<<Set("a", Add(N("a"), One))>>)>>),
            Main(<<Set("x", New("Foo", <<>>)), Send(N("x"), "a=", <<P!Member(N("x"), "a")>>)>>)>>),
     Good(<<Cls("Foo", <<Attr("a", {}, Top, New("Bar", <<>>)), InFoo(<<Send(N("a"), "h", <<>>)>>)>>),
            Cls("Bar", <<Attr("b", {}, Top, Str), MethodOf_("Bar", "h", <<>>, Void, <<Set("y", Send(N("b"), "size?", <<>>))>>)>>)>>),
     Good(<<Cls("Foo", <<Attr("a", {}, Top, Str)>>),
            Cls("Bar", <<MethodOf_("Bar", "h", <<>>, Void, <<Set("y", Send(P!Member(New("Foo", <<>>), "a"), "size?", <<>>))>>)>>)>>),
     Good(<<Cls("Foo", <<P!Constant("ONE", {}, Top, One), InFoo(<<Set("x", Add(P!ConstantRef(<<>>, "ONE"), One))>>)>>)>>),
     Good(<<Cls("Foo", <<Attr("Bar", {"EMBEDDED", "COMPONENT"}, Plain("Bar"), Nothing)>>),
            Cls("Bar", <<MethodOf_("Bar", "h", <<>>, Void, <<>>)>>), Main(<<Send(New("Foo", <<>>), "h", <<>>)>>)>>),
     Good(<<Color, Function("g", <<>>, Plain("Color"), <<P!Return(P!ConstantRef(<<"Color">>, "RED"))>>)>>),
     Good(<<P!Constant("TWO", {}, Top, One), Main(<<Set("x", Add(P!ConstantRef(<<>>, "TWO"), One))>>)>>),
     Good(WithClosure(<<Set("x", One), Set("f", P!Closure(AddsX)), Set("y", Invoke("f", <<N("x")>>))>>)),
     Good(<<Cls("Foo", <<P!Function("@init", <<Arg("n", IntType)>>, {}, Void, P!Block(<<Set("a", N("n"))>>)),
                         Attr("a", {"VAR"}, IntType, One)>>), Main(<<Set("x", New("Foo", <<One>>))>>)>>),
     Good(<<Pt, Main(<<Set("p", New("Pt", <<>>)), Set("y", Add(P!Member(N("p"), "x"), One))>>)>>),
     Bad(<<Cls("Foo", <<Attr("a", {}, Top, New("Bar", <<>>)), InFoo(<<Send(N("a"), "h", <<>>)>>)>>), Cls("Bar", <<>>)>>),
     Bad(<<Cls("Foo", <<Attr("a", {}, Top, N("b")), Attr("b", {}, Top, N("a"))>>)>>),
     Bad(<<Cls("Foo", <<Attr("a", {}, IntType, Str)>>)>>),
     Bad(<<Cls("Foo", <<Attr("a", {"VAR"}, IntType, One), InFoo(<<Set("a", Str)>>)>>)>>),
     Bad(<<Cls("Foo", <<Attr("a", {}, IntType, One), InFoo(<<SetVar("a", IntType, One)>>)>>)>>),
     Bad(<<Cls("Foo", <<Attr("a", {"PRIVATE"}, IntType, One)>>), Main(<<Set("x", P!Member(New("Foo", <<>>), "a"))>>)>>),
     Bad(<<Cls("Foo", <<>>), Cls("Foo", <<>>)>>),
     Bad(<<P!Constant("TWO", {}, Top, Add(One, One))>>),
     Bad(<<Cls("Foo", <<P!Constant("ONE", {}, Top, P!ConstantRef(<<>>, "ONE"))>>)>>),
     Bad(<<Color, Main(<<New("Color", <<One>>)>>)>>),
     Bad(<<Sized, Main(<<New("Sized", <<>>)>>)>>),
     Bad(<<Sized, Cls("Foo", <<Attr("Sized", {"EMBEDDED", "COMPONENT"}, Plain("Sized"), Nothing)>>)>>),
     Bad(<<Cls("Foo", <<Attr("Foo", {"EMBEDDED", "COMPONENT"}, Plain("Foo"), Nothing)>>)>>),
     Bad(<<Of("Foo", "Bar", <<>>), Cls("Bar", <<>>)>>),
     Bad(<<Of("Foo", "Value", <<>>), Main(<<IfOnly(New("Foo", <<>>), <<>>)>>)>>),
     Bad(WithClosure(<<Set("f", P!Closure(AddsX))>>)),
     Bad(WithClosure(<<Set("x", One), Set("f", P!Closure(AddsX)), Invoke("f", <<Str>>)>>))}

-----------------------------------------------------------------------------
\* Interfaces that return each other, and classes that have their functions.
Gives(c, n, t) == Abstract(c, n, <<>>, Plain(t))
Gave(c, n, t) == Function(n, <<SelfOf(c)>>, Plain(t), <<P!Return(Nil)>>)
A1 == Of("A1", "Interface", <<Gives("A1", "f", "Object")>>)
A2 == Of("A2", "Interface", <<Gives("A2", "f", "A1"), Gives("A2", "g", "A1")>>)
C1 == Cls("C1", <<Gave("C1", "f", "Object"), Gave("C1", "g", "C1")>>)
C2 == Cls("C2", <<Gave("C2", "f", "C1"), Gave("C2", "g", "C1")>>)
C3 == Cls("C3", <<Gave("C3", "f", "C3"), Gave("C3", "g", "Object")>>)
C4 == Cls("C4", <<Function("f", <<SelfOf("C4"), Arg("n", IntType)>>, Plain("Object"), <<P!Return(Nil)>>)>>)
Asking(fs) == [decls |-> Decls(fs), legal |-> TRUE, ask |-> TRUE]
Calling_(n, es) == Function(n, <<>>, Void, es)
Families ==
    {Asking(<<A1, A2, C1, C2>>), Asking(<<A1, A2, C1, C3>>), Asking(<<A1, C1, C4>>),
     Asking(<<Calling_("f", <<Invoke("g", <<>>), Invoke("h", <<>>)>>), Calling_("g", <<Invoke("h", <<>>)>>), Calling_("h", <<P!Yield>>),
              Calling_("i", <<>>)>>)}

MCInputs == Flows \cup Statements_ \cup ClassPrograms \cup Families
=================================================================================
