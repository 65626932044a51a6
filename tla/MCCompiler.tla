------------------------------ MODULE MCCompiler ------------------------------
\* Small functions of the language, as the parser and the semantic analyser hand them over.
EXTENDS Compiler

Att(n, t) == [name |-> n, type |-> t, weak |-> FALSE, init |-> NoExpr]
Simple(kind) == [kind |-> kind, attrs |-> <<>>]
MCClasses ==
    ("Void" :> Simple("void")) @@ ("Int" :> Simple("int")) @@ ("Bool" :> Simple("bool"))
    @@ ("Float" :> Simple("float")) @@ ("String" :> Simple("ref")) @@ ("Any" :> Simple("ref"))
    @@ ("Array" :> Simple("ref")) @@ ("Hash" :> Simple("ref"))
    @@ ("Node" :> [kind |-> "ref", attrs |-> <<Att("n", "Int"), Att("next", "Node")>>])
    @@ ("Pair" :> [kind |-> "compound", attrs |-> <<Att("a", "Node"), Att("b", "Int")>>])

\* Syntax.
Num(v) == Literal("Int", v)
Id(t, n) == [k |-> "id", type |-> t, name |-> n]
I(n) == Id("Int", n)
Ob(n) == Id("Node", n)
Fn(n, op, virtual, throws) == [name |-> n, label |-> n, operator |-> op, virtual |-> virtual, throws |-> throws]
CallOf(t, f, args) == [k |-> "call", type |-> t, func |-> f, args |-> args]
Call(t, n, args) == CallOf(t, Fn(n, FALSE, FALSE, FALSE), args)
Native(t, n, a, b) == CallOf(t, Fn(n, TRUE, FALSE, FALSE), <<a, b>>)
Add(a, b) == Native("Int", "@add", a, b)
Sub(a, b) == Native("Int", "@sub", a, b)
Equal(a, b) == Native("Bool", "@equal", a, b)
Less(a, b) == Native("Bool", "@less", a, b)
And(a, b) == [k |-> "and", type |-> "Bool", left |-> a, right |-> b]
Or(a, b) == [k |-> "or", type |-> "Bool", left |-> a, right |-> b]
Not(a) == [k |-> "not", type |-> "Bool", child |-> a]
Do(es) == [k |-> "block", type |-> "Void", void |-> TRUE, children |-> es]
Give(t, es) == [k |-> "block", type |-> t, void |-> FALSE, children |-> es]
If(t, g, a, b) == [k |-> "cond", type |-> t, guard |-> g, then |-> a, else |-> b]
While(g, b) == [k |-> "while", type |-> "Void", guard |-> g, block |-> b]
Var(n, e) == [k |-> "assign", type |-> e.type, name |-> n, decl |-> "Top", let |-> FALSE, init |-> e]
Ret(e) == [k |-> "return", type |-> "Void", expr |-> e]
New(t, args) == [k |-> "construct", type |-> t, args |-> args]

Formal(n, t) == [name |-> n, type |-> t]
Plain(t, formals, body) ==
    [kind |-> "plain", class |-> "none", type |-> t, formals |-> formals, body |-> Do(body)]
Method(t, formals, body) ==
    [kind |-> "plain", class |-> "Node", type |-> t, formals |-> <<Formal("__self", "Node")>> \o formals, body |-> Do(body)]


Throwing(t, n, args) == CallOf(t, Fn(n, FALSE, FALSE, TRUE), args)
Virtual(t, n, args) == CallOf(t, Fn(n, FALSE, TRUE, FALSE), args)
Float(v) == Literal("Float", v)
Fl(n) == Id("Float", n)
None == [k |-> "empty", type |-> "Void"]
Cast(t, e) == [k |-> "cast", type |-> t, child |-> e]
Is(t, e) == [k |-> "is", type |-> "Bool", child |-> e, check |-> t]
Box(t, e) == [k |-> "box", type |-> t, child |-> e]
Match(t, g, cases) == [k |-> "match", type |-> t, guard |-> g, cases |-> cases]
Case(g, b) == [guard |-> g, block |-> b]
Let(vs, b) == [k |-> "let", type |-> b.type, vars |-> vs, block |-> b]
LetVar(n, e) == [Var(n, e) EXCEPT !.let = TRUE]
Array(es) == [k |-> "array", type |-> "Array", args |-> es]
Hash(ps) == [k |-> "hash", type |-> "Hash", pairs |-> ps]
Constant(t, l) == [k |-> "const", type |-> t, label |-> l]
Yield == [k |-> "yield", type |-> "Void", where |-> "here"]

\* Conditions inside and around values.
Conditions == Plain("Int", <<Formal("x", "Int"), Formal("y", "Int")>>,
    <<Var("z", Add(I("x"), I("y"))),
      Ret(If("Int", And(Less(I("x"), I("y")), Not(Or(Equal(I("z"), Num("3")), Call("Bool", "p", <<I("z")>>)))),
             Give("Int", <<Sub(I("x"), I("z"))>>), Give("Int", <<Call("Int", "f", <<I("z"), Num("2")>>)>>)))>>)
Flags == Plain("Bool", <<Formal("x", "Int"), Formal("y", "Int"), Formal("t", "Bool")>>,
    <<Var("a", Or(Not(Less(I("x"), I("y"))), And(Call("Bool", "p", <<I("x")>>), Id("Bool", "t")))),
      Ret(Not(And(Id("Bool", "a"), Equal(I("y"), Num("7")))))>>)
\* Objects in variables, a loop, an attribute.
List == Method("Node", <<Formal("m", "Node")>>,
    <<Var("a", New("Node", <<Ob("m")>>)),
      Var("b", Ob("a")),
      Var("next", Ob("b")),
      While(Call("Bool", "more", <<Ob("b")>>), Do(<<Var("c", Call("Node", "step", <<Ob("b")>>)), Var("b", Ob("c"))>>)),
      Ret(Ob("b"))>>)
\* Calls that may throw, virtual calls, many arguments, floats.
Throws == Plain("Node", <<Formal("m", "Node")>>,
    <<Var("a", New("Node", <<Ob("m")>>)), Throwing("Void", "use", <<Ob("a")>>), Yield, Ret(Ob("a"))>>)
Dispatch == Plain("Node", <<Formal("m", "Node"), Formal("x", "Int")>>,
    <<Var("a", Virtual("Node", "twin", <<Call("Node", "make", <<I("x")>>), Ob("m")>>)),
      Var("r", If("Node", Equal(I("x"), Num("0")), Give("Node", <<Ob("a")>>),
                  Give("Node", <<Virtual("Node", "twin", <<Ob("m"), Ob("a")>>)>>))),
      Ret(Ob("r"))>>)
Many == Plain("Int", [n \in 1 .. 8 |-> Formal("p" \o ToString(n), "Int")],
    <<Var("s", Call("Int", "f", [n \in 1 .. 8 |-> I("p" \o ToString(9 - n))])),
      Ret(Add(I("s"), Add(Add(I("p8"), I("p1")), Add(Add(I("p2"), I("p3")), Add(I("p4"), I("p5"))))))>>)
Floats == Plain("Float", <<Formal("u", "Float"), Formal("x", "Int"), Formal("v", "Float")>>,
    <<Var("w", Native("Float", "@add", Fl("u"), Float("0.5"))),
      While(Less(Fl("w"), Fl("v")),
            Do(<<Var("w", Native("Float", "@mul", Fl("w"), Call("Float", "g", <<I("x"), Fl("v")>>)))>>)),
      Ret(Native("Float", "@sub", Fl("v"), Native("Float", "@div", Fl("u"), Fl("w"))))>>)
Choose1 == Plain("Node", <<Formal("x", "Int"), Formal("m", "Node")>>,
    <<Var("r", Match("Node", I("x"), <<Case(Num("1"), Give("Node", <<Ob("m")>>)),
                                       Case(Add(I("x"), Num("2")), Give("Node", <<Call("Node", "make", <<I("x")>>)>>)),
                                       Case(None, Give("Node", <<New("Node", <<Ob("m")>>)>>))>>)),
      Ret(Ob("r"))>>)
Sort == Plain("Void", <<Formal("x", "Int")>>,
    <<Var("y", Sub(I("x"), Num("1"))),
      Match("Void", I("y"), <<Case(Num("1"), Do(<<Var("a", Call("Node", "make", <<I("y")>>)), Call("Void", "use", <<Ob("a")>>)>>)),
                              Case(I("x"), Do(<<Call("Void", "use", <<I("y")>>)>>))>>)>>)
Types == Plain("Bool", <<Formal("o", "Any"), Formal("x", "Int")>>,
    <<Var("n", Cast("Node", Id("Any", "o"))), Var("i", Cast("Int", Id("Any", "o"))),
      Var("b", Box("Any", Add(I("x"), I("i")))),
      Call("Void", "show", <<Id("Any", "b"), Ob("n")>>),
      Ret(And(Is("Node", Id("Any", "o")), Is("Int", Call("Any", "any", <<>>))))>>)
Literals == Plain("Hash", <<Formal("x", "Int"), Formal("m", "Node")>>,
    <<Let(<<LetVar("a", Array(<<I("x"), Call("Int", "f", <<I("x")>>)>>))>>,
          Do(<<Call("Void", "show", <<Id("Array", "a")>>)>>)),
      Ret(Hash(<<<<I("x"), Ob("m")>>, <<Constant("Int", "Limit"), Call("Node", "make", <<I("x")>>)>>>>))>>)
\* The members of classes: constructors, destructors, copies, attributes.
Make == [Method("Node", <<Formal("x", "Int")>>, <<Var("n", I("x")), Var("next", Call("Node", "make", <<I("n")>>))>>)
            EXCEPT !.kind = "ctor", !.formals = Tail(@)]
Destroy == [Method("Void", <<>>, <<Call("Void", "close", <<I("n")>>)>>) EXCEPT !.kind = "dtor"]
Copy == [kind |-> "copier", class |-> "Pair", type |-> "Void", body |-> Do(<<>>),
         formals |-> <<Formal("__self", "Pair"), Formal("val", "Pair")>>]
Swap == Plain("Pair", <<Formal("p", "Pair"), Formal("x", "Int")>>,
    <<Var("q", Call("Pair", "turn", <<Id("Pair", "p")>>)),
      Ret(If("Pair", Less(I("x"), Num("1")), Give("Pair", <<Id("Pair", "q")>>),
             Give("Pair", <<New("Pair", <<I("x")>>)>>)))>>)
Values == Plain("Int", <<Formal("p", "Pair"), Formal("x", "Int")>>,
    <<Var("q", Call("Pair", "turn", <<Call("Pair", "turn", <<Id("Pair", "p")>>)>>)),
      Var("r", Id("Pair", "q")),
      Call("Void", "show", <<New("Pair", <<I("x")>>), Call("Pair", "turn", <<Id("Pair", "r")>>)>>),
      While(Less(I("x"), Num("3")), Do(<<Var("t", New("Pair", <<I("x")>>)), Var("r", Id("Pair", "t"))>>)),
      Ret(Call("Int", "size", <<Id("Pair", "r")>>))>>)

MCNames == STRING
MCIntegers == {ToString(n) : n \in 0 .. 64} \cup {"0x1234567890"}
MCWide == {"0x1234567890"}
MCDoubles == {"0.5"}
MCMakers == "turn" :> "Pair"
MCGivers == {"make", "step", "Node__init", "Array__init", "Hash__init", "any", "Boot_calloc"}
MCFunctions == {Conditions, Flags, List, Throws, Dispatch, Many, Floats, Choose1, Sort, Types, Literals,
                Make, Destroy, Copy, Swap, Values}

MCSources == {Source(fn) : fn \in Functions}

\* One instruction on registers that the encoder treats differently.
GpRegs == {RBX, RSI, R9, R13, R15}
XmmRegs == {XMM0 + 1, XMM0 + 8, XMM0 + 15}
Offsets == {0, 1, -1, 15, -16, 16, -17, 200}
Shown(i) == <<i, IF i.result = 0 THEN Nop ELSE Instr("MOV", IF IsSse(i.result) THEN XMM0 ELSE RAX, R(i.result), Nil),
              Instr("RET", 0, Nil, Nil)>>
Straight(i) == [code |-> <<Block(Shown(i), 0, 0)>>, slots |-> 3]
Forked(i) == [code |-> <<Block(<<i>>, 2, 3), Block(Shown(Instr("MOV", RBX, R(RSI), Nil)), 0, 0),
                         Block(Shown(Instr("MOV", RBX, R(R9), Nil)), 0, 0)>>, slots |-> 0]
BinaryOn(regs, ops) == {Instr(op, r, R(a), R(b)) : op \in ops, r \in regs, a \in regs, b \in regs}
MemoryOn(regs) == {Instr("LOAD", r, Mem(b, o), Nil) : r \in regs, b \in GpRegs \cup {0}, o \in Offsets \ {0}}
                  \cup {Instr("STORE", 0, Mem(b, o), R(r)) : r \in regs, b \in GpRegs \cup {0, RSP}, o \in Offsets \ {0}}
MCSnippets ==
    {Straight(i) : i \in BinaryOn(GpRegs, {"ADD", "SUB", "MUL"}) \cup BinaryOn(XmmRegs, {"ADD", "SUB", "MUL", "DIV"})
                   \cup MemoryOn(GpRegs) \cup MemoryOn(XmmRegs)
                   \cup {Instr(op, r, R(a), Nil) : op \in {"MOV", "NEG"}, r \in GpRegs, a \in GpRegs}
                   \cup {Instr(op, r, R(a), Nil) : op \in {"MOV", "NEG"}, r \in XmmRegs, a \in XmmRegs}
                   \cup {Instr("LOAD", r, Mem(b, 0), Nil) : r \in GpRegs \cup XmmRegs, b \in GpRegs}
                   \cup {Instr("LOAD", r, Lea(b, o), Nil) : r \in GpRegs, b \in GpRegs, o \in Offsets}
                   \cup {Instr("LOAD", r, x, Nil) : r \in GpRegs, x \in {Obj("7"), Obj("0x1234567890"), Obj("label"), Global("Limit")}}
                   \cup {Instr("LOAD", r, x, Nil) : r \in XmmRegs, x \in {Obj("0.5"), Global("Limit")}}
                   \cup {Instr("STORE", 0, Mem(b, 1), Obj("7")) : b \in GpRegs}}
    \cup {Forked(i) : i \in {Instr(op, 0, R(a), R(b)) : op \in Branches \ {"BZ", "BNZ"}, a \in GpRegs, b \in GpRegs}
                        \cup {Instr(op, 0, R(a), R(b)) : op \in Branches \ {"BZ", "BNZ"}, a \in XmmRegs, b \in XmmRegs}
                        \cup {Instr(op, 0, R(a), Nil) : op \in {"BZ", "BNZ"}, a \in GpRegs \cup XmmRegs}}
=============================================================================
