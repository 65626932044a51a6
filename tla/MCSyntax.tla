------------------------------- MODULE MCSyntax -------------------------------
\* Texts: all trees of two operators, statements, all short rows of tokens,
\* blocks with a wrong statement in each place, texts that make no sense.
EXTENDS Syntax, FiniteSets

A == Atom("a")
B == Atom("b")
C == Atom("f2")
Nothing == [k |-> "nothing"]
FooType == P!Type(<<"Foo">>, <<>>)
IntType == P!Type(<<"Int">>, <<>>)
Operators == DOMAIN Strength
\* A comparison with '<=' is not continued: it is no left operand of its level.
Chains(op, inner) == inner = "LESS_OR_EQ" /\ Strength[op] = Strength["LESS"]
BinaryTrees ==
    {Bin(op, Bin(inner, A, B), C) : <<op, inner>> \in {p \in Operators \X Operators : ~Chains(p[1], p[2])}}
    \cup {Bin(op, A, Bin(inner, B, C)) : <<op, inner>> \in Operators \X Operators}
UnaryTrees ==
    {Un(u, Bin(op, A, B)) : u \in {"NOT", "SUB", "COMPL"}, op \in Operators}
    \cup {Bin(op, Un(u, A), Un(u, B)) : u \in {"NOT", "SUB", "COMPL"}, op \in Operators}
PrimaryTrees ==
    {Apply(A, <<B, Bin("ADD", A, B)>>), Apply(Dot(A, "b"), <<>>), Apply(Dot(Dot(A, "b"), "f"), <<C>>),
     At(A, <<Bin("AND", A, B)>>), At(Dot(A, "b"), <<Atom("1"), B>>), Dot(At(A, <<B>>), "f"), Dot(Bin("ADD", A, B), "b"),
     Apply(At(A, <<B>>), <<C>>), Un("SUB", Dot(A, "b")), Bin("MUL", Dot(A, "b"), Apply(B, <<A>>)),
     At(Un("NOT", A), <<B>>), Apply(Apply(A, <<B>>), <<C>>)}
StatementTrees ==
    {Set("a", Bin("OR", A, B)), Set("a", Set("b", C)), Ret(Bin("ADD", A, B)), Ret(Apply(A, <<Set("b", C)>>)),
     If(A, <<B>>, <<>>), If(Bin("LESS", A, B), <<Ret(A), B>>, <<C>>), If(A, <<>>, <<If(B, <<C>>, <<>>), A>>),
     If(A, <<If(B, <<C>>, <<A>>)>>, <<B>>), Loop(Bin("AND", A, B), <<Set("a", B), C>>), Loop(A, <<Loop(B, <<>>)>>),
     Each("a", B, <<Apply(C, <<A>>)>>), Each("a", Bin("ADD", A, B), <<Each("b", A, <<C>>)>>),
     Set("b", If(A, <<B>>, <<C>>)), With("a", B, <<A>>), Cases(A, <<<<B, C>>, <<Atom("1"), Ret(A)>>>>),
     Cases(A, <<<<B, If(A, <<C>>, <<>>)>>, <<C, A>>>>), New(FooType, <<A, New(FooType, <<>>)>>), List(<<A, Bin("OR", A, B)>>),
     Dot(New(P!Type(<<"Array">>, <<FooType>>), <<>>), "a"), List(<<List(<<>>), A>>), Text("a", Bin("ADD", A, B), "b"),
     Text("a", At(A, <<Text("b", C, "f")>>), "b"), Fn(<<Formal("a", FooType)>>, <<Ret(A)>>),
     Apply(Text("a", B, "f"), <<C>>)}
\* Files: a class with members, functions of it before the brace and after.
Bar(fs, t, b) == Fun(<<>>, "f2", fs, t, b)
Behind(b) == Fun(<<"Foo", ":", ":">>, "f", <<Formal("a", IntType)>>, IntType, b)
Foo(fs) == Cls("Foo", P!Type(<<"Object">>, <<>>), fs)
Files ==
    {<<Foo(<<Attr("a", IntType, Atom("1")), Bar(<<Formal("b", FooType)>>, IntType, <<Ret(B)>>), Attr("b", FooType, Nothing)>>)>>,
     <<Foo(<<>>), Behind(<<A>>), Fun(<<>>, "f", <<>>, FooType, <<>>)>>,
     <<Foo(<<Bar(<<>>, P!VoidType, <<If(A, <<B>>, <<>>)>>)>>), Bar(<<>>, P!VoidType, <<C>>), Behind(<<Ret(A)>>)>>,
     <<Bar(<<Formal("a", P!Type(<<"Array">>, <<IntType>>)), Formal("b", IntType)>>, IntType, <<>>), Foo(<<>>), Behind(<<>>),
       Behind(<<B>>)>>}
Body(t) == <<Fun(<<>>, "f", <<>>, P!VoidType, <<t>>)>>
RECURSIVE Ops(_)
Ops(t) == CASE t.k = "bin" -> {t.op} \cup Ops(t.a) \cup Ops(t.b) [] t.k = "un" -> Ops(t.e) [] OTHER -> {}
Tree(ts, gap) == [kind |-> "tree", of |-> ts, text |-> Spelled(ts, gap)]
Trees ==
    {Tree(Body(t), " ") : t \in BinaryTrees \cup UnaryTrees \cup PrimaryTrees \cup StatementTrees}
    \cup {Tree(ts, " ") : ts \in Files}
    \* 'or' at the end of a line ends the statement.
    \cup {Tree(Body(t), "\n") : t \in {t \in BinaryTrees \cup UnaryTrees \cup PrimaryTrees : "OR" \notin Ops(t)}}
    \cup {Tree(Body(t), "\n") : t \in {If(A, <<B>>, <<C>>), If(A, <<>>, <<If(B, <<C>>, <<>>), A>>), Loop(A, <<B>>)}}

RowTokens == {"a", "+", "-", "(", ")", ",", "\n"}
Rows == {[kind |-> "row", of |-> s, text |-> Row(s)] : s \in UNION {[1 .. n -> RowTokens] : n \in 0 .. 4}}

\* Statements that are wrong before their line ends; and wrong behind a whole expression.
Wrong == {<<"a", " ", "=", ")">>, <<"(", "a">>, <<"a", "(", "b">>, <<"a", "[", "b">>, <<"+", " ", "a">>, <<"]">>,
          <<"ret", " ", "=", " ", "b">>, <<"99999999999999999999">>, <<"@">>,
          <<"a", ".", " ", "Foo">>, <<"1", " ", "+", " ", "!", "b">>, <<"+", "+", "1">>}
LinesOf(ts, wrong) ==
    FoldLeft(LAMBDA text, t : text \o (IF t = Bad THEN wrong ELSE Spell(t, " ")) \o <<"\n">>, <<"f", "(", ")", "{", "\n">>, ts)
    \o <<"}", "\n", "g", "(", ")", "{", "\n", "a", "\n", "}", "\n">>
GoodLines == {<<Bad, A, B>>, <<Set("a", B), Bad, Apply(A, <<B>>)>>, <<A, Ret(B), Bad>>, <<Bad, A, Bad>>}
WithWrong(wrong) == {[kind |-> "lines", of |-> ts, text |-> LinesOf(ts, w)] : <<ts, w>> \in GoodLines \X wrong}

Noise == {"\"", "#", "{", "}", "a", "with", "match", "\n", "\\", "Foo", ":", "="}
Garbage == {[kind |-> "any", of |-> <<>>, text |-> s] : s \in [1 .. 3 -> Noise]}

MCInputs == Trees \cup Rows \cup WithWrong(Wrong) \cup Garbage
===============================================================================
