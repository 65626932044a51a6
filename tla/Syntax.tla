--------------------------------- MODULE Syntax ---------------------------------
(***************************************************************************)
(* From a text to its declarations: the lexer gives the tokens one by one, *)
(* the parser turns them into what the file declares, one turn of its loop *)
(* at a time.  The parser never changes the lexer's state, so that all the *)
(* tokens are read first here.  An input is a text, and what the text was  *)
(* made from: a tree that was spelled, a row of tokens of a function body, *)
(* or statements with one that is wrong among them.                        *)
(***************************************************************************)
EXTENDS Integers, SequencesExt, TLC

CONSTANT Inputs         \* [text: what is read, kind: "tree" | "row" | "lines" | "any", of: what it was made from]

L == INSTANCE Lexer
P == INSTANCE Parser

VARIABLES input, lexer, toks, parser, phase
vars == <<input, lexer, toks, parser, phase>>

SyntaxTypeOK ==
    /\ lexer.at \in Nat /\ lexer.level \in Nat
    /\ \A i \in DOMAIN toks : toks[i].t # "NONE" /\ (toks[i].t = "END" <=> i = Len(toks) /\ phase \in {"parse", "done"})
    /\ parser.at \in Nat
    /\ phase \in {"lex", "parse", "done", "stuck"}

Init ==
    /\ input \in Inputs
    /\ lexer = L!Fresh
    /\ toks = <<>>
    /\ parser = P!Started(<<>>)
    /\ phase = "lex"

\* Of a quote that is never closed the lexer looks for the end forever.
LexNext ==
    /\ phase = "lex"
    /\ \E s \in {L!next(input.text, lexer)} :
          /\ lexer' = s
          /\ toks' = IF s.out.t = "HANG" THEN toks ELSE Append(toks, s.out)
          /\ phase' = CASE s.out.t = "HANG" -> "stuck" [] s.out.t = "END" -> "parse" [] OTHER -> "lex"
          /\ parser' = IF s.out.t = "END" THEN P!Started(toks') ELSE parser
    /\ UNCHANGED input

ParseNext ==
    /\ phase = "parse" /\ P!T(parser) # "END"
    /\ parser' = P!module(parser)
    /\ UNCHANGED <<input, lexer, toks, phase>>
EndOfFile ==
    /\ phase = "parse" /\ P!T(parser) = "END"
    /\ phase' = "done"
    /\ UNCHANGED <<input, lexer, toks, parser>>

Next == LexNext \/ ParseNext \/ EndOfFile
SyntaxSpec == Init /\ [][Next]_vars

-----------------------------------------------------------------------------
(* Trees and how they are spelled. *)
Atom(n) == [k |-> "atom", name |-> n]
Bin(op, a, b) == [k |-> "bin", op |-> op, a |-> a, b |-> b]
Un(op, e) == [k |-> "un", op |-> op, e |-> e]
Apply(e, args) == [k |-> "apply", e |-> e, args |-> args]
Dot(e, n) == [k |-> "dot", e |-> e, name |-> n]
At(e, args) == [k |-> "at", e |-> e, args |-> args]
Set(n, e) == [k |-> "set", name |-> n, e |-> e]
Ret(e) == [k |-> "ret", e |-> e]
If(g, a, b) == [k |-> "if", g |-> g, a |-> a, b |-> b]
Loop(g, b) == [k |-> "loop", g |-> g, b |-> b]
Each(n, g, b) == [k |-> "each", name |-> n, g |-> g, b |-> b]
With(n, e, b) == [k |-> "with", name |-> n, e |-> e, b |-> b]
Cases(g, cs) == [k |-> "cases", g |-> g, cs |-> cs]             \* cs: pairs of a guard and a body
New(t, args) == [k |-> "new", type |-> t, args |-> args]
List(es) == [k |-> "list", es |-> es]
Text(a, e, b) == [k |-> "text", a |-> a, e |-> e, b |-> b]
Fn(fs, b) == [k |-> "fn", formals |-> fs, b |-> b]
Formal(n, t) == [name |-> n, type |-> t]
Fun(scope, n, fs, t, b) == [k |-> "fun", scope |-> scope, name |-> n, formals |-> fs, type |-> t, b |-> b]
Attr(n, t, e) == [k |-> "attr", name |-> n, type |-> t, e |-> e]
Cls(n, proto, fs) == [k |-> "class", name |-> n, proto |-> proto, features |-> fs]

\* The levels of notes/Grammar.yy, weakest first.
Strength ==
    [OR |-> 1, AND |-> 2, ORB |-> 3, XORB |-> 4, ANDB |-> 5, EQUAL |-> 6, NOT_EQUAL |-> 6, LESS |-> 7, GREATER |-> 7,
     LESS_OR_EQ |-> 7, GREATER_OR_EQ |-> 7, LEFT_SHIFT |-> 8, RIGHT_SHIFT |-> 8, ADD |-> 9, SUB |-> 9, MUL |-> 10,
     DIV |-> 10, MOD |-> 10]
Unary == 11
Primary == 12
Binds(t) == CASE t.k = "bin" -> Strength[t.op] [] t.k = "un" -> Unary [] OTHER -> Primary

Sign == [OR |-> <<"or">>, AND |-> <<"and">>, ORB |-> <<"|">>, XORB |-> <<"xor">>, ANDB |-> <<"&">>, EQUAL |-> <<"=", "=">>,
         NOT_EQUAL |-> <<"!", "=">>, LESS |-> <<"<">>, GREATER |-> <<">">>, LESS_OR_EQ |-> <<"<", "=">>,
         GREATER_OR_EQ |-> <<">", "=">>, LEFT_SHIFT |-> <<"<", "<">>, RIGHT_SHIFT |-> <<">", ">">>, ADD |-> <<"+">>,
         SUB |-> <<"-">>, MUL |-> <<"*">>, DIV |-> <<"/">>, MOD |-> <<"%">>, NOT |-> <<"not">>, COMPL |-> <<"~">>]

\* Only the parentheses that the levels make necessary; gap is what stands
\* behind an operator, an opening bracket or a comma: a blank or a line feed.
RECURSIVE Spell(_, _), Items(_, _), TypeText(_)
TypeText(t) == t.name \o (IF t.args = <<>> THEN <<>> ELSE <<"[">> \o TypeText(t.args[1]) \o <<"]">>)
Joined(parts, between) == FoldLeft(LAMBDA all, x : IF all = <<>> THEN x ELSE all \o between \o x, <<>>, parts)
Formals(fs) ==
    <<"(">> \o Joined([i \in DOMAIN fs |-> <<fs[i].name, " ">> \o TypeText(fs[i].type)], <<",", " ">>) \o <<")", " ">>
Within(t, least, gap) ==
    IF Binds(t) < least THEN <<"(", gap>> \o Spell(t, gap) \o <<")">> ELSE Spell(t, gap)
Items(ts, gap) ==
    IF ts = <<>> THEN <<>>
    ELSE Spell(Head(ts), gap) \o (IF Len(ts) = 1 THEN <<>> ELSE <<",", gap>> \o Items(Tail(ts), gap))
Lines(ts, gap) == FoldLeft(LAMBDA text, t : text \o Spell(t, gap) \o <<"\n">>, <<"{", "\n">>, ts) \o <<"}">>
Spell(t, gap) ==
    CASE t.k = "atom" -> <<t.name>>
      [] t.k = "bin" -> Within(t.a, Strength[t.op], gap) \o <<" ">> \o Sign[t.op] \o <<gap>>
                        \o Within(t.b, Strength[t.op] + 1, gap)
      [] t.k = "un" -> Sign[t.op] \o <<gap>> \o Within(t.e, Unary, gap)
      [] t.k = "apply" -> Within(t.e, Primary, gap) \o <<"(", gap>> \o Items(t.args, gap) \o <<")">>
      [] t.k = "dot" -> Within(t.e, Primary, gap) \o <<".", t.name>>
      [] t.k = "at" -> Within(t.e, Primary, gap) \o <<"[", gap>> \o Items(t.args, gap) \o <<"]">>
      [] t.k = "set" -> <<t.name, " ", "=", gap>> \o Spell(t.e, gap)
      [] t.k = "ret" -> <<"ret", " ">> \o Spell(t.e, gap)
      [] t.k = "if" -> <<"if", gap>> \o Spell(t.g, gap) \o <<" ">> \o Lines(t.a, gap)
                       \o (IF t.b = <<>> THEN <<>> ELSE <<gap, "else", gap>> \o Lines(t.b, gap))
      [] t.k = "loop" -> <<"while", gap>> \o Spell(t.g, gap) \o <<" ">> \o Lines(t.b, gap)
      [] t.k = "each" -> <<"for", " ", t.name, " ", "in", " ">> \o Spell(t.g, gap) \o <<" ">> \o Lines(t.b, gap)
      [] t.k = "with" -> <<"let", " ", t.name, " ", "=", gap>> \o Spell(t.e, gap) \o <<" ">> \o Lines(t.b, gap)
      [] t.k = "cases" -> <<"match", " ">> \o Spell(t.g, gap) \o <<" ", "{", "\n">>
                          \o FoldLeft(LAMBDA all, c : all \o <<"with", " ">> \o Spell(c[1], gap) \o <<":", " ">>
                                                     \o Spell(c[2], gap) \o <<"\n">>, <<>>, t.cs) \o <<"}">>
      [] t.k = "new" -> TypeText(t.type) \o <<"(", gap>> \o Items(t.args, gap) \o <<")">>
      [] t.k = "list" -> <<"[", gap>> \o Items(t.es, gap) \o <<"]">>
      [] t.k = "text" -> <<"\"", t.a, "#", "{">> \o Spell(t.e, gap) \o <<"}", t.b, "\"">>
      [] t.k = "fn" -> <<"func">> \o Formals(t.formals) \o Lines(t.b, gap)
      [] t.k = "fun" -> t.scope \o <<t.name>> \o Formals(t.formals) \o TypeText(t.type) \o <<" ">> \o Lines(t.b, gap)
      [] t.k = "attr" -> <<t.name, " ">> \o TypeText(t.type)
                         \o (IF t.e.k = "nothing" THEN <<>> ELSE <<" ", "=", " ">> \o Spell(t.e, gap))
      [] t.k = "class" -> <<t.name, " ", "<", " ">> \o TypeText(t.proto) \o <<" ">> \o Lines(t.features, gap)
Spelled(ts, gap) == Joined([i \in DOMAIN ts |-> Spell(ts[i], gap) \o <<"\n">>], <<>>)

\* What the parser is to make of a tree.
RECURSIVE Meaning(_)
Many(ts) == [i \in DOMAIN ts |-> Meaning(ts[i])]
Called(n, t, self) ==
    P!Function(n, <<Formal("__self", self)>> \o t.formals, {}, P!VoidType, P!Block(Many(t.b)))
Methods(ts, self) == [i \in DOMAIN ts |-> P!ImplicitSelf(Meaning(ts[i]), self)]
ClassOf(t) == P!Class(P!Type(<<t.name>>, <<>>), t.proto, Methods(t.features, P!Type(<<t.name>>, <<>>)))
Compare(op, a, b) ==
    CASE op = "NOT_EQUAL" -> P!Unary("not", P!Op("@equal", a, b))
      [] op = "GREATER_OR_EQ" -> P!Unary("not", P!Op("@less", a, b))
      [] op = "LESS_OR_EQ" -> P!LessOrEqual(a, b)
      [] op = "GREATER" -> P!Unary("not", P!LessOrEqual(a, b))
      [] OTHER -> P!Op(P!OperatorName[op], a, b)
Meaning(t) ==
    CASE t.k = "atom" -> IF t.name \in L!Digits THEN P!Lit("INTEGER", t.name) ELSE P!Ref(<<>>, t.name)
      [] t.k = "bin" /\ t.op = "OR" -> P!Binary("or", Meaning(t.a), Meaning(t.b))
      [] t.k = "bin" /\ t.op = "AND" -> P!Binary("and", Meaning(t.a), Meaning(t.b))
      [] t.k = "bin" /\ t.op \notin {"OR", "AND"} -> Compare(t.op, Meaning(t.a), Meaning(t.b))
      [] t.k = "un" /\ t.op = "NOT" -> P!Unary("not", Meaning(t.e))
      [] t.k = "un" /\ t.op # "NOT" -> P!Op1(IF t.op = "SUB" THEN "@neg" ELSE "@compl", Meaning(t.e))
      [] t.k = "apply" -> P!Call(Meaning(t.e), Many(t.args))
      [] t.k = "dot" -> P!Member(Meaning(t.e), t.name)
      [] t.k = "at" -> P!Call(P!Member(Meaning(t.e), "@index"), Many(t.args))
      [] t.k = "set" -> P!Assignment(t.name, P!Top, FALSE, Meaning(t.e))
      [] t.k = "ret" -> P!Return(Meaning(t.e))
      [] t.k = "if" -> P!Conditional(Meaning(t.g), P!Block(Many(t.a)),
                                     IF t.b = <<>> THEN P!NoBranch ELSE P!Block(Many(t.b)))
      [] t.k = "loop" -> P!While(Meaning(t.g), P!Block(Many(t.b)))
      [] t.k = "each" -> P!Loop(t.name, Meaning(t.g), P!Block(Many(t.b)))
      [] t.k = "with" -> P!Let(<<P!Assignment(t.name, P!Top, FALSE, Meaning(t.e))>>, P!Block(Many(t.b)))
      [] t.k = "cases" -> P!Match(Meaning(t.g), [i \in DOMAIN t.cs |->
                              P!Case(Meaning(t.cs[i][1]), P!Block(<<Meaning(t.cs[i][2])>>))])
      [] t.k = "new" -> P!Construct(t.type, Many(t.args))
      [] t.k = "list" -> [k |-> "array", es |-> Many(t.es)]
      [] t.k = "text" -> P!Op("@add", P!Op("@add", P!Lit("STRING", t.a), P!Op1("str?", Meaning(t.e))), P!Lit("STRING", t.b))
      [] t.k = "fn" -> P!Closure(Called("@call", t, P!ClosureType))
      [] t.k = "fun" -> P!Function(t.name, t.formals, {}, t.type, P!Block(Many(t.b)))
      [] t.k = "attr" -> P!Attribute(t.name, {}, t.type, IF t.e.k = "nothing" THEN P!Empty ELSE Meaning(t.e))
      [] t.k = "class" -> ClassOf(t)

\* What a file declares: the class of each closure before the function it is
\* in, and in a class the functions that are written after it with its name.
ClosureClass(t) == P!Class(P!ClosureType, P!Type(<<"Object">>, <<>>), <<Called("@call", t, P!ClosureType)>>)
Lifted(t) ==
    LET fns == SelectSeq(IF t.k = "fun" THEN t.b ELSE <<>>, LAMBDA e : e.k = "fn")
    IN  [i \in DOMAIN fns |-> ClosureClass(fns[i])]
Belongs(t) == t.k = "fun" /\ t.scope # <<>>
WithMethods(t, ts) ==
    IF t.k = "class"
    THEN ClassOf([t EXCEPT !.features = @ \o SelectSeq(ts, LAMBDA u : Belongs(u) /\ u.scope[1] = t.name)])
    ELSE Meaning(t)
Declarations(ts) == FoldLeft(LAMBDA all, t : all \o Lifted(t) \o (IF Belongs(t) THEN <<>> ELSE <<WithMethods(t, ts)>>), <<>>, ts)

-----------------------------------------------------------------------------
(* Rows of tokens: a grammar of function bodies over a, +, -, (, ), comma and the line feed. *)
RECURSIVE IsList(_), IsExpression(_), IsTerm(_), IsPrimary(_)
Before(s, i) == SubSeq(s, 1, i - 1)
After(s, i) == SubSeq(s, i + 1, Len(s))
IsList(s) == IsExpression(s) \/ \E i \in DOMAIN s : s[i] = "," /\ IsExpression(Before(s, i)) /\ IsList(After(s, i))
IsExpression(s) ==
    IsTerm(s) \/ \E i \in DOMAIN s : s[i] \in {"+", "-"} /\ IsExpression(Before(s, i)) /\ IsTerm(After(s, i))
IsTerm(s) == IsPrimary(s) \/ (Len(s) > 1 /\ s[1] = "-" /\ IsTerm(Tail(s)))
Enclosed(s) == Len(s) > 1 /\ s[1] = "(" /\ Last(s) = ")"
Inside(s) == SubSeq(s, 2, Len(s) - 1)
IsPrimary(s) ==
    \/ s = <<"a">>
    \/ Enclosed(s) /\ IsExpression(Inside(s))
    \/ Len(s) > 1 /\ s[1] = "a" /\ s[2] = "a" /\ IsList(Tail(s))        \* a call without parentheses
    \/ \E i \in 2 .. Len(s) - 1 : LET args == SubSeq(s, i, Len(s)) IN
          Enclosed(args) /\ IsPrimary(Before(s, i)) /\ (Len(args) = 2 \/ IsList(Inside(args)))

\* A line feed ends a statement unless an operator, an opening parenthesis, a
\* comma or another line feed stands before it.
EndsLine(s, i) == s[i] = "\n" /\ i > 1 /\ s[i - 1] \in {"a", ")"}
Visible(s) == LET is == SetToSortSeq({i \in DOMAIN s : s[i] # "\n" \/ EndsLine(s, i)}, <) IN [j \in DOMAIN is |-> s[is[j]]]
RECURSIVE IsBody(_)
IsBody(s) ==
    \/ s = <<>> \/ IsExpression(s)
    \/ \E i \in DOMAIN s : s[i] = "\n" /\ IsExpression(Before(s, i)) /\ IsBody(After(s, i))

Row(s) == FoldLeft(LAMBDA text, u : text \o <<" ", u>>, <<"f", "(", ")", "{">>, s) \o <<" ", "}">>

-----------------------------------------------------------------------------
(* Statements on lines of their own, of which one is wrong. *)
Bad == [k |-> "bad"]
Functions(parsed) == [i \in DOMAIN parsed.decls |-> parsed.decls[i].of]

-----------------------------------------------------------------------------
Done == phase = "done"

\* A tree that is spelled with no more parentheses than the levels of the
\* operators ask for, on one line or with a line feed behind its operators and
\* brackets, is read back as that tree and without a message: the levels and
\* sides of all operators, calls, members and statements (Parser::logical_or to
\* member_or_call_or_index) and the lexer's rule for line feeds together.
ParsesBack ==
    Done /\ input.kind = "tree" => parser.reported = <<>> /\ Functions(parser) = Declarations(input.of)

\* A row of tokens is taken without a message exactly if the grammar has it:
\* the greedy calls without parentheses, the token looked at ahead and the line
\* feeds lose no body and let no other in (Parser::block, literal, call_suffix).
AcceptsGrammar == Done /\ input.kind = "row" => (parser.reported = <<>> <=> IsBody(Visible(input.of)))

\* Each wrong statement gives one message, the statements on the other lines of
\* the block are read as if it were not there, and so is the function after the
\* block (Parser::block: error_ is reset behind the end of the line).
ErrorsLocal ==
    Done /\ input.kind = "lines" =>
        LET good == SelectSeq(input.of, LAMBDA t : t # Bad)
            fs == Functions(parser)
        IN  /\ Len(parser.reported) = Len(input.of) - Len(good)
            /\ Len(fs) = 2 /\ fs[2] = Meaning(Fun(<<>>, "g", <<>>, P!VoidType, <<Atom("a")>>))
            /\ Len(fs[1].body.es) = Len(input.of)
            /\ \A i \in DOMAIN input.of : input.of[i] # Bad => fs[1].body.es[i] = Meaning(input.of[i])

\* Whatever is in a text, it is read to its end: the lexer is never stuck, each
\* token but the last takes some of the text, and each turn of the parser's loop
\* takes a token, also when it skips what is behind an error (Lexer::string,
\* Parser::module, block, feature_list, single_case).
ReadingAdvances ==
    [][/\ phase' # "stuck"
       /\ phase = "lex" /\ phase' = "lex" => lexer'.at > lexer.at
       /\ phase = "parse" /\ phase' = "parse" => parser'.at > parser.at]_vars
=============================================================================
