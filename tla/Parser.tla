--------------------------------- MODULE Parser ---------------------------------
(***************************************************************************)
(* The recursive descent parser (compiler/Parser.cpp): every routine takes *)
(* the parser's state and returns it with what the routine built in out.   *)
(* The state holds the tokens and the place in them, error_ (whether an    *)
(* error has been reported and not yet recovered from), the lines reported *)
(* and what the file declares.  A name with a scope is a sequence.         *)
(***************************************************************************)
EXTENDS Integers, SequencesExt

TooLarge == {"99999999999999999999"}
NotANumber == {"0x"}
TooLong == {"foo"}

T(p) == IF p.at <= Len(p.toks) THEN p.toks[p.at].t ELSE "END"
T1(p) == IF p.at < Len(p.toks) THEN p.toks[p.at + 1].t ELSE "END"
V(p) == IF p.at <= Len(p.toks) THEN p.toks[p.at].v ELSE ""
Got(p, x) == [p EXCEPT !.out = x]

\* error(), and the errors that are reported only when none is pending.
Report(p) == [p EXCEPT !.error = TRUE, !.reported = Append(@, p.toks[IF p.at <= Len(p.toks) THEN p.at ELSE Len(p.toks)].line)]
Unexpected(p) == IF p.error THEN p ELSE Report(p)
next(p) == LET p1 == [p EXCEPT !.at = @ + 1] IN IF T(p1) = "ERROR" THEN Report(p1) ELSE p1
expect(p, t) == IF T(p) = t THEN next(p) ELSE Unexpected(p)
Optional(p, t) == IF T(p) = t THEN next(p) ELSE p
RECURSIVE SkipTo(_, _)
SkipTo(p, ts) == IF T(p) \in ts \cup {"END"} THEN p ELSE SkipTo(next(p), ts)
KeepsError(p) == next(SkipTo(p, {"SEPARATOR", "RIGHT_BRACE"}))
\* What block() and feature_list() do after an error.
Recover(p) == [next(SkipTo(p, {"SEPARATOR", "RIGHT_BRACE"})) EXCEPT !.error = FALSE]

\* Syntax.
Top == [name |-> <<"Top">>, args |-> <<>>]
AnyType == [name |-> <<"Any">>, args |-> <<>>]
VoidType == [name |-> <<"Void">>, args |-> <<>>]
Type(n, gs) == [name |-> n, args |-> gs]
Empty == [k |-> "empty"]
NoBranch == [k |-> "none"]
ParseError == [k |-> "error"]
Lit(t, v) == [k |-> "lit", t |-> t, v |-> v]
Ref(scope, n) == [k |-> "ref", scope |-> scope, name |-> n]
ConstantRef(scope, n) == [k |-> "constref", scope |-> scope, name |-> n]
Member(e, n) == [k |-> "member", of |-> e, name |-> n]
Call(e, args) == [k |-> "call", fn |-> e, args |-> args]
Unary(n, e) == [k |-> "unary", op |-> n, e |-> e]
Binary(n, a, b) == [k |-> "binary", op |-> n, a |-> a, b |-> b]
Is(e, t) == [k |-> "is", e |-> e, type |-> t]
Construct(t, args) == [k |-> "construct", type |-> t, args |-> args]
Assignment(n, t, var, e) == [k |-> "assign", name |-> n, type |-> t, var |-> var, init |-> e]
Block(es) == [k |-> "block", es |-> es]
Conditional(g, a, b) == [k |-> "cond", guard |-> g, then |-> a, else |-> b]
While(g, b) == [k |-> "while", guard |-> g, block |-> b]
Let(as, b) == [k |-> "let", vars |-> as, block |-> b]
Match(g, cs) == [k |-> "match", guard |-> g, cases |-> cs]
Case(g, b) == [guard |-> g, block |-> b]
Closure(f) == [k |-> "closure", func |-> f]
Return(e) == [k |-> "return", e |-> e]
Yield == [k |-> "yield"]
Function(id, formals, flags, ret, body) ==
    [k |-> "function", name |-> id, formals |-> formals, flags |-> flags, type |-> ret, body |-> body]
Attribute(id, flags, t, e) == [k |-> "attribute", name |-> id, flags |-> flags, type |-> t, init |-> e]
Constant(id, flags, t, e) == [k |-> "constant", name |-> id, flags |-> flags, type |-> t, init |-> e]
\* An enum can be compared and a functor called.
Self(t) == [name |-> "__self", type |-> t]
Has(fs, n) == \E i \in DOMAIN fs : fs[i].name = n
BoolType == [name |-> <<"Bool">>, args |-> <<>>]
gen_equal_method(t, fs) ==
    IF Has(fs, "@equal") THEN fs
    ELSE Append(fs, Function("@equal", <<Self(t), [name |-> "other", type |-> t]>>, {"NATIVE"}, BoolType, NoBranch))
gen_functor_method(t, fs) ==
    IF Has(fs, "@call") THEN fs
    ELSE Append(fs, Function("@call", <<Self(t), [name |-> "obj", type |-> AnyType]>>, {}, VoidType, Block(<<>>)))
Generated(t, proto, fs) ==
    CASE proto.name = <<"Enum">> -> gen_equal_method(t, fs)
      [] proto.name = <<"Functor">> -> gen_functor_method(t, fs)
      [] OTHER -> fs
AnyClass(t, proto, fs, as) ==
    [k |-> "class", name |-> t.name, generics |-> t.args, proto |-> proto, alternates |-> as, features |-> Generated(t, proto, fs)]
Class(t, proto, fs) == AnyClass(t, proto, fs, <<>>)
Union(t, as) == AnyClass(t, [name |-> <<"Union">>, args |-> <<>>], <<>>, as)
Enum(t, fs) == Class(t, [name |-> <<"Enum">>, args |-> <<>>], fs)
Op(n, a, b) == Call(Member(a, n), <<b>>)
Op1(n, a) == Call(Member(a, n), <<>>)

\* Parse(rule, p): the routine of that name; every routine calls the others here.
RECURSIVE Parse(_, _)

-----------------------------------------------------------------------------
(* Types, names, flags. *)
Imports(p, scope) == IF scope = <<>> THEN p ELSE [p EXCEPT !.imports = @ \cup {scope}]
identifier(p) == IF T(p) = "IDENTIFIER" THEN Got(next(p), V(p)) ELSE Got(Report(p), "")

RECURSIVE Scope(_, _)
Scope(p, names) ==
    IF T(p) # "TYPE" THEN Got(p, names)
    ELSE LET p1 == next(p)
             all == Append(names, V(p))
         IN  IF T(p1) = "SCOPE" /\ T1(p1) = "TYPE" THEN Scope(next(p1), all) ELSE Got(p1, all)
scope(p) == LET q == Scope(p, <<>>) IN IF q.out = <<>> /\ ~q.error THEN Report(q) ELSE q

\* The names before a feature are run together: only one level has a meaning.
RECURSIVE maybe_scope(_, _)
maybe_scope(p, name) ==
    IF T(p) = "TYPE" /\ T1(p) = "SCOPE" THEN maybe_scope(next(next(p)), name \o V(p)) ELSE Got(p, name)

typevar(p) == LET q == identifier(next(p)) IN Got(q, Type(<<":", q.out>>, <<>>))

RECURSIVE generics(_, _)
generics(p, gs) ==
    LET q == IF T(p) = "COLON" THEN typevar(p) ELSE Parse("type", p)
        all == Append(gs, q.out)
    IN  IF T(p) \notin {"TYPE", "COLON"} THEN Got(p, gs)
        ELSE IF T(q) = "COMMA" THEN generics(next(q), all) ELSE Got(q, all)
Generics(n) == IF T(n) = "LEFT_BRACKET" THEN expect(generics(next(n), <<>>), "RIGHT_BRACKET") ELSE Got(n, <<>>)
Named(p, n) == IF n = <<>> THEN Got(p, Top) ELSE Got(Imports(p, Front(n)), Type(n, p.out))
TypeNamed(n) == Named(Generics(n), n.out)
type(p) == IF T(p) = "COLON" THEN typevar(p) ELSE TypeNamed(scope(p))

RECURSIVE GenericList(_, _)
GenericList(p, gs) ==
    LET q == typevar(p)
        all == Append(gs, q.out)
    IN  IF T(p) # "COLON" THEN Got(expect(IF gs = <<>> THEN Report(p) ELSE p, "RIGHT_BRACKET"), gs)
        ELSE IF T(q) = "COMMA" THEN GenericList(next(q), all)
        ELSE Got(expect(q, "RIGHT_BRACKET"), all)
generic_list(p) == IF T(p) = "LEFT_BRACKET" THEN GenericList(next(p), <<>>) ELSE Got(p, <<>>)

RECURSIVE flags(_, _)
flags(p, fs) ==
    IF T(p) \in {"NATIVE", "VAR", "EMBEDDED", "PRIVATE", "WEAK"} THEN flags(next(p), fs \cup {T(p)}) ELSE Got(p, fs)

\* comment(): any number of comments.
RECURSIVE comment(_)
comment(p) == IF T(p) = "COMMENT" THEN comment(next(p)) ELSE p

MaybeType(p, default) == IF T(p) \in {"TYPE", "COLON"} THEN Parse("type", p) ELSE Got(p, default)
RECURSIVE formal_list(_, _)
formal_list(p, fs) ==
    LET n == identifier(p)
        t == MaybeType(n, AnyType)
        all == Append(fs, [name |-> n.out, type |-> t.out])
    IN  IF T(p) # "IDENTIFIER" THEN Got(p, fs)
        ELSE IF T(t) = "COMMA" THEN formal_list(next(t), all) ELSE Got(t, all)

-----------------------------------------------------------------------------
(* Binary operators: the levels, weakest first, and what each kind builds. *)
logical_or == {"OR"}
logical_and == {"AND"}
bitwise_or == {"ORB"}
bitwise_xor == {"XORB"}
bitwise_and == {"ANDB"}
equality == {"EQUAL", "NOT_EQUAL", "IS", "MATCH_OP"}
relational == {"GREATER_OR_EQ", "GREATER", "LESS", "LESS_OR_EQ"}
shift == {"LEFT_SHIFT", "RIGHT_SHIFT"}
addition == {"ADD", "SUB"}
mult == {"MUL", "DIV", "MOD"}
SwappedLevels ==
    <<logical_or, logical_and, bitwise_or, bitwise_xor, bitwise_and, equality, shift, relational, addition, mult>>
Levels == <<logical_or, logical_and, bitwise_or, bitwise_xor, bitwise_and, equality, relational, shift, addition, mult>>
LevelNames == <<"logical_or", "logical_and", "bitwise_or", "bitwise_xor", "bitwise_and", "equality", "relational",
                "shift", "addition", "mult", "unary">>
\* relational() stops after a '<=': the case has no break.
Repeats(kind) == kind # "LESS_OR_EQ"

OperatorName == [ORB |-> "@bitor", XORB |-> "@bitxor", ANDB |-> "@bitand", EQUAL |-> "@equal", MATCH_OP |-> "@match",
                 LESS |-> "@less", LEFT_SHIFT |-> "@shift", RIGHT_SHIFT |-> "@unshift", ADD |-> "@add", SUB |-> "@sub",
                 MUL |-> "@mul", DIV |-> "@div", MOD |-> "@mod"]
LessOrEqual(a, b) == Binary("or", Op("@less", a, b), Op("@equal", a, b))
Build(kind, a, b) ==
    CASE kind = "OR" -> Binary("or", a, b)
      [] kind = "AND" -> Binary("and", a, b)
      [] kind = "NOT_EQUAL" -> Unary("not", Op("@equal", a, b))
      [] kind = "IS" -> Is(a, b)
      [] kind = "GREATER_OR_EQ" -> Unary("not", Op("@less", a, b))
      [] kind = "GREATER" -> Unary("not", LessOrEqual(a, b))
      [] kind = "LESS_OR_EQ" -> LessOrEqual(a, b)
      [] OTHER -> Op(OperatorName[kind], a, b)

LiteralKinds == {"FLOAT", "INTEGER", "STRING", "NIL", "EOF_LITERAL", "CHAR", "BYTE", "BOOL", "CONSTANT"}
\* What may begin the first argument of a call without parentheses.
is_literal(p) ==
    T(p) \in LiteralKinds \cup {"FUNC", "IF", "WHILE", "FOR", "LET", "MATCH", "REGEX", "IDENTIFIER", "LEFT_PARENS"}

\* One level: an operand, then operators of the level with their operands.
LevelOf == [n \in Range(Front(LevelNames)) |-> CHOOSE l \in DOMAIN Levels : LevelNames[l] = n]
Operand(p, l) == Parse(LevelNames[l], p)
RECURSIVE More(_, _)
Built(q, kind, a, l) ==
    IF Repeats(kind) THEN More(Got(q, Build(kind, a, q.out)), l) ELSE Got(q, Build(kind, a, q.out))
More(p, l) ==
    IF T(p) \notin Levels[l] THEN p
    ELSE Built(IF T(p) = "IS" THEN Parse("type", next(p)) ELSE Operand(next(p), l + 1), T(p), p.out, l)
binary(p, l) == More(Operand(p, l + 1), l)

assignment(p) ==
    LET id == identifier(p)
        var == Optional(id, "VAR")
        t == IF T(var) = "TYPE" THEN Parse("type", var) ELSE Got(var, Top)
        init == IF T(t) = "ASSIGN" THEN Parse("expression", next(t)) ELSE Got(t, Empty)
    IN  Got(init, Assignment(id.out, t.out, T(id) = "VAR", init.out))

expression(p) ==
    IF T(p) = "IDENTIFIER" /\ T1(p) \in {"ASSIGN", "TYPE", "VAR"} THEN assignment(p) ELSE Parse("logical_or", p)

increment(p) ==
    LET id == identifier(next(p))
        one == Op(IF T(p) = "INCREMENT" THEN "@add" ELSE "@sub", Ref(<<>>, id.out), Lit("INTEGER", "1"))
    IN  Got(id, Assignment(id.out, Top, FALSE, one))

unary(p) ==
    LET right == Parse("unary", next(p))
    IN  CASE T(p) = "NOT" -> Got(right, Unary("not", right.out))
          [] T(p) = "COMPL" -> Got(right, Op1("@compl", right.out))
          [] T(p) = "SUB" -> Got(right, Op1("@neg", right.out))
          [] T(p) \in {"INCREMENT", "DECREMENT"} -> increment(p)
          [] OTHER -> Parse("member_or_call_or_index", p)

RECURSIVE Expressions(_, _)
NextExpression(e, es) == IF T(e) = "COMMA" THEN Expressions(next(e), Append(es, e.out)) ELSE Got(e, Append(es, e.out))
Expressions(p, es) == NextExpression(Parse("expression", p), es)
ListNeedsOne(p) == Expressions(p, <<>>)
expression_list(p) == IF T(p) \in {"RIGHT_PARENS", "RIGHT_BRACKET"} THEN Got(p, <<>>) ELSE Expressions(p, <<>>)

\* Arguments in parentheses, with a closure after them if there is one, or up
\* to the end of the statement.
AndClosure(p, args, f) == Got(f, Append(args, f.out))
Closed(p, args) == IF T(p) = "FUNC" THEN AndClosure(p, args, Parse("closure", p)) ELSE Got(p, args)
InParens(p) == Closed(expect(p, "RIGHT_PARENS"), p.out)
Arguments(p) == IF T(p) = "LEFT_PARENS" THEN InParens(Parse("expression_list", next(p))) ELSE Parse("expression_list", p)
call_suffix(p) == LET args == Arguments(p) IN Got(args, Call(p.out, args.out))

Indexed(p, of, args) ==
    LET value == Parse("expression", next(p))
    IN  IF T(p) = "ASSIGN" THEN Got(value, Call(Member(of, "@insert"), Append(args, value.out)))
        ELSE Got(p, Call(Member(of, "@index"), args))
index_suffix(p) ==
    LET args == Parse("expression_list", expect(p, "LEFT_BRACKET"))
    IN  Indexed(expect(args, "RIGHT_BRACKET"), p.out, args.out)

\* Calls, indices and members after p.out; an assignment to a member or a call
\* of it without parentheses ends the chain.
RECURSIVE AfterPrimary(_)
AfterMember(id, of) ==
    LET value == Parse("expression", next(id))
    IN  CASE T(id) = "ASSIGN" -> Got(value, Call(Member(of, id.out \o "="), <<value.out>>))
          [] T(id) # "LEFT_PARENS" /\ is_literal(id) -> Parse("call_suffix", Got(id, Member(of, id.out)))
          [] OTHER -> AfterPrimary(Got(id, Member(of, id.out)))
AfterPrimary(p) ==
    CASE T(p) = "LEFT_PARENS" -> AfterPrimary(Parse("call_suffix", p))
      [] T(p) = "LEFT_BRACKET" -> AfterPrimary(index_suffix(p))
      [] T(p) = "DOT" -> AfterMember(identifier(next(p)), p.out)
      [] OTHER -> p
member_or_call_or_index(p) == AfterPrimary(Parse(IF T(p) = "TYPE" THEN "construct" ELSE "literal", p))

\* A type begins a constructor call, or the qualified name of something.
Qualified(p, s) ==
    LET id == identifier(p)
    IN  IF T(p) = "CONSTANT" THEN Got(Imports(next(p), s), ConstantRef(s, V(p))) ELSE Got(Imports(id, s), Ref(s, id.out))
Constructed(p, t) == Got(p, Construct(t, p.out))
construct(p) ==
    LET t == Parse("type", p)
    IN  IF T(t) = "SCOPE" THEN Qualified(next(t), t.out.name) ELSE Constructed(Arguments(t), t.out)

-----------------------------------------------------------------------------
(* Literals, closures and control structures. *)
integer_literal(p) == IF V(p) \in TooLarge \cup NotANumber THEN Report(p) ELSE p

\* Of a literal that holds more than one character there is a message but no error.
byte_or_char(p) == IF V(p) \in TooLong THEN "0" ELSE V(p)

identifier_or_call(p) ==
    LET id == Got(next(p), Ref(<<>>, V(p))) IN IF is_literal(id) THEN Parse("call_suffix", id) ELSE id

\* The element after a comma, up to the closing token.
RECURSIVE Elements(_, _, _, _)
AfterElement(e, rule, end, es) ==
    IF T(e) = "COMMA" THEN Elements(next(e), rule, end, Append(es, e.out)) ELSE Got(e, Append(es, e.out))
Elements(p, rule, end, es) == IF T(p) = end THEN Got(p, es) ELSE AfterElement(Parse(rule, p), rule, end, es)
Collection(k, p) == Got(p, [k |-> k, es |-> p.out])
array_literal(p) ==
    Collection("array", expect(Elements(expect(p, "LEFT_BRACKET"), "expression", "RIGHT_BRACKET", <<>>), "RIGHT_BRACKET"))
hash_literal(p) ==
    Collection("hash", expect(Elements(expect(p, "LEFT_BRACE"), "pair", "RIGHT_BRACE", <<>>), "RIGHT_BRACE"))
pair(p) ==
    LET key == Parse("expression", p)
        value == Parse("expression", expect(key, "COLON"))
    IN  Got(value, Construct(Type(<<"Pair">>, <<>>), <<key.out, value.out>>))

regex(p) ==
    Got(Imports(next(p), <<"Regex">>), Construct(Type(<<"Regex", "Regex">>, <<>>), <<Lit("STRING", V(p))>>))

\* A string with expressions in it: the parts are added up from the left.
RECURSIVE Interpolated(_, _)
StringPart(p, str) == Op("@add", str, Lit("STRING", V(p)))
AfterPart(sub, str) ==
    IF T(sub) = "STRING_BEGIN" THEN Interpolated(next(sub), StringPart(sub, str))
    ELSE Got(expect(sub, "STRING_END"), StringPart(sub, str))
PartOf(sub, str) == AfterPart(sub, Op("@add", str, Op1("str?", sub.out)))
Interpolated(p, str) == PartOf(Parse("expression", p), str)
string(p) == Interpolated(expect(p, "STRING_BEGIN"), Lit("STRING", V(p)))

parens(p) == expect(Parse("expression", next(p)), "RIGHT_PARENS")

\* The class of the closure is declared in the module.
ClosureType == Type(<<"_Closure">>, <<>>)
Declare(p, s, f) == [p EXCEPT !.decls = Append(@, [in |-> s, of |-> f])]
Declared(p, f) == Declare(p, "", Class(ClosureType, Type(<<"Object">>, <<>>), <<f>>))
WithSelf(f, t) == [f EXCEPT !.formals = <<[name |-> "__self", type |-> t]>> \o @]
ClosureOf(p, f) == Got(Declared(p, f), Closure(f))
closure(p) == LET q == Parse("function", p) IN ClosureOf(q, WithSelf(q.out, ClosureType))

literal(p) ==
    CASE T(p) = "FUNC" -> Parse("closure", p)
      [] T(p) = "IF" -> Parse("conditional", p)
      [] T(p) = "WHILE" -> Parse("while", p)
      [] T(p) = "FOR" -> Parse("for", p)
      [] T(p) = "LET" -> Parse("let", p)
      [] T(p) = "MATCH" -> Parse("match", p)
      [] T(p) = "LEFT_BRACKET" -> Parse("array_literal", p)
      [] T(p) = "LEFT_BRACE" -> Parse("hash_literal", p)
      [] T(p) = "STRING_BEGIN" -> Parse("string", p)
      [] T(p) = "REGEX" -> regex(p)
      [] T(p) = "INTEGER" -> Got(next(integer_literal(p)), Lit("INTEGER", V(p)))
      [] T(p) = "NIL" -> Got(next(p), Lit("NIL", ""))
      [] T(p) = "EOF_LITERAL" -> Got(next(p), Lit("CHAR", "-1"))
      [] T(p) = "BOOL" -> Got(next(p), Lit("BOOL", IF V(p) = "true" THEN "1" ELSE "0"))
      [] T(p) \in {"CHAR", "BYTE"} -> Got(next(p), Lit(T(p), byte_or_char(p)))
      [] T(p) \in {"FLOAT", "STRING"} -> Got(next(p), Lit(T(p), V(p)))
      [] T(p) = "CONSTANT" -> Got(next(p), ConstantRef(<<>>, V(p)))
      [] T(p) = "IDENTIFIER" -> identifier_or_call(p)
      [] T(p) = "LEFT_PARENS" -> Parse("parens", p)
      [] OTHER -> Got(Unexpected(p), ParseError)

\* The branch after 'else', which may be on the next line.
AfterThen(p) == IF T(p) = "SEPARATOR" /\ T1(p) = "ELSE" THEN next(p) ELSE p
ElseBranch(p) ==
    CASE T(p) # "ELSE" -> Got(p, NoBranch)
      [] T(next(p)) = "IF" -> Parse("conditional", next(p))
      [] OTHER -> Parse("block", next(p))
conditional(p) ==
    LET guard == Parse("expression", expect(p, "IF"))
        then == Parse("block", guard)
        else == ElseBranch(AfterThen(then))
    IN  Got(else, Conditional(guard.out, then.out, else.out))

RECURSIVE Assignments(_, _)
AfterAssignment(a, as) ==
    IF T(a) = "COMMA" THEN Assignments(next(a), Append(as, a.out)) ELSE Got(a, Append(as, a.out))
Assignments(p, as) == AfterAssignment(Parse("assignment", p), as)
let(p) ==
    LET vars == Assignments(expect(p, "LET"), <<>>)
        body == Parse("block", vars)
    IN  Got(body, Let(vars.out, body.out))

while_loop(p) ==
    LET guard == Parse("expression", expect(p, "WHILE"))
        body == Parse("block", guard)
    IN  Got(body, While(guard.out, body.out))

\* for id in guard: let _i = guard.iter() { while _i.more?() { let id = _i.next() {..} } }
Iterator == Ref(<<>>, "_i")
Loop(id, guard, body) ==
    Let(<<Assignment("_i", Top, FALSE, Op1("iter", guard))>>,
        While(Op1("more?", Iterator), Block(<<Let(<<Assignment(id, Top, FALSE, Op1("next", Iterator))>>, body)>>)))
for_loop(p) ==
    LET id == identifier(expect(p, "FOR"))
        guard == Parse("expression", expect(id, "IN"))
        body == Parse("block", guard)
    IN  Got(body, Loop(id.out, guard.out, body.out))

-----------------------------------------------------------------------------
(* Statements, and what happens after an error in one of them. *)
ReturnOf(p) == Got(p, Return(p.out))
statement(p) ==
    CASE T(p) = "RETURN" /\ T(next(p)) = "SEPARATOR" -> Got(next(p), Return(Empty))
      [] T(p) = "RETURN" -> ReturnOf(Parse("expression", next(p)))
      [] T(p) = "YIELD" -> Got(next(p), Yield)
      [] OTHER -> Parse("expression", p)

RECURSIVE Statements(_, _)
AfterStatement(s, es) ==
    CASE s.error -> Statements(Recover(s), es)
      [] ~s.error /\ T(s) = "SEPARATOR" -> Statements(next(s), es)
      [] OTHER -> Got(s, es)
StatementOf(s, es) == AfterStatement(s, Append(es, s.out))
Statements(p, es) ==
    IF T(p) \in {"RIGHT_BRACE", "END"} THEN Got(p, es) ELSE StatementOf(Parse("statement", p), es)
BlockOf(p) == Got(expect(p, "RIGHT_BRACE"), Block(p.out))
block(p) == BlockOf(Statements(comment(expect(p, "LEFT_BRACE")), <<>>))

\* The loop that skips the rest of a statement of a case goes on over '}' and
\* 'with' instead of up to them; then one more token is taken.
RECURSIVE SkipClosing(_)
SkipClosing(p) == IF T(p) \in {"RIGHT_BRACE", "WITH"} THEN SkipClosing(next(p)) ELSE p
SkipCase(s) == [next(SkipClosing(s)) EXCEPT !.error = FALSE]
RECURSIVE CaseStatements(_, _)
AfterCaseStatement(s, es) ==
    CASE s.error -> CaseStatements(SkipCase(s), es)
      [] ~s.error /\ T(s) = "SEPARATOR" -> CaseStatements(next(s), es)
      [] OTHER -> Got(s, es)
CaseStatementOf(s, es) == AfterCaseStatement(s, Append(es, s.out))
CaseStatements(p, es) ==
    IF T(p) \in {"RIGHT_BRACE", "WITH", "END"} THEN Got(p, es) ELSE CaseStatementOf(Parse("statement", p), es)
CaseGuard(p) == IF T(p) = "MUL" THEN Got(next(p), Empty) ELSE Parse("expression", p)
single_case(p) ==
    LET guard == CaseGuard(expect(p, "WITH"))
        body == CaseStatements(expect(guard, "COLON"), <<>>)
    IN  Got(body, Case(guard.out, Block(body.out)))
RECURSIVE case_list(_, _)
NextCase(c, cs) == case_list(c, Append(cs, c.out))
case_list(p, cs) == IF T(p) \in {"RIGHT_BRACE", "END"} THEN Got(p, cs) ELSE NextCase(single_case(p), cs)
match(p) ==
    LET guard == Parse("expression", expect(p, "MATCH"))
        cases == case_list(expect(guard, "LEFT_BRACE"), <<>>)
    IN  Got(expect(cases, "RIGHT_BRACE"), Match(guard.out, cases.out))

-----------------------------------------------------------------------------
(* Features: functions, attributes, constants, classes, imports. *)
\* A function called '@case' is named after the class of its first formal, if
\* that class has been read before.
ClassAt(p, n) == {i \in DOMAIN p.decls : p.decls[i].in = "" /\ p.decls[i].of.k = "class" /\ p.decls[i].of.name = n}
IsVariable(t) == Head(t.name) = ":"
Joined(t) == FoldLeft(LAMBDA s, n : s \o n, "", t.name)
CaseName(p, fs) ==
    IF fs # <<>> /\ (ClassAt(p, Head(fs).type.name) # {} \/ IsVariable(Head(fs).type))
    THEN "@case_" \o Joined(Head(fs).type) ELSE "@case_"
FunctionName(p) ==
    CASE T(p) = "IDENTIFIER" -> identifier(p)
      [] T(p) = "OPERATOR" -> Got(next(p), V(p))
      [] T(p) = "FUNC" -> Got(next(p), "@call")
      [] OTHER -> Got(p, "")
Body(p) == IF T(p) = "LEFT_BRACE" THEN Parse("block", p) ELSE Got(p, NoBranch)
function(p) ==
    LET id == FunctionName(p)
        formals == formal_list(expect(id, "LEFT_PARENS"), <<>>)
        fs == flags(expect(formals, "RIGHT_PARENS"), {})
        ret == MaybeType(fs, VoidType)
        body == Body(ret)
        n == IF id.out = "@case" THEN CaseName(p, formals.out) ELSE id.out
    IN  Got(body, Function(n, formals.out, fs.out, ret.out, body.out))

attribute(p) ==
    LET id == identifier(p)
        fs == flags(id, {})
        t == MaybeType(fs, Top)
        init == IF T(t) = "ASSIGN" THEN Parse("expression", next(t))
                ELSE Got(IF t.out = Top THEN Report(t) ELSE t, Empty)
    IN  Got(expect(init, "SEPARATOR"), Attribute(id.out, fs.out, t.out, init.out))

composite(p) == LET t == Parse("type", p) IN Got(t, Attribute(Last(t.out.name), {"EMBEDDED", "COMPONENT"}, t.out, Empty))

constant(p) ==
    LET id == IF T(p) = "CONSTANT" THEN Got(next(p), V(p)) ELSE Got(Report(p), "")
        fs == flags(id, {})
        t == IF T(fs) = "TYPE" THEN Parse("type", fs) ELSE Got(fs, Top)
        init == CASE T(fs) = "ASSIGN" -> Parse("expression", next(fs))
                  [] T(fs) = "TYPE" -> Got(t, Empty)
                  [] OTHER -> Got(t, NoBranch)
    IN  Got(init, Constant(id.out, fs.out, t.out, init.out))

ImplicitSelf(f, t) == IF f.k = "function" /\ f.name # "@init" THEN WithSelf(f, t) ELSE f
Method(q, self) == Got(q, ImplicitSelf(q.out, self))
\* The class comes in p.out.
FeatureOf(p, self) ==
    CASE T1(p) = "LEFT_PARENS" -> Method(Parse("function", p), self)
      [] T1(p) # "LEFT_PARENS" /\ T(p) = "TYPE" -> composite(p)
      [] T1(p) # "LEFT_PARENS" /\ T(p) = "CONSTANT" -> Parse("constant", p)
      [] OTHER -> attribute(p)
feature(p) == FeatureOf(p, p.out)

RECURSIVE feature_list(_, _, _)
AfterFeature(f, self, fs) ==
    feature_list(IF f.error THEN Recover(f) ELSE IF T(f) \in {"SEPARATOR", "COMMA"} THEN next(f) ELSE f,
                 self, Append(fs, f.out))
feature_list(p, self, fs) ==
    IF T(p) \in {"IDENTIFIER", "OPERATOR", "CONSTANT", "TYPE"} THEN AfterFeature(Parse("feature", Got(p, self)), self, fs) ELSE Got(p, fs)

\* Kind = A | B | C, of types or of constants.
RECURSIVE Alternates(_, _, _)
AfterAlternate(a, kind, as) ==
    IF T(a) = "ORB" THEN Alternates(next(a), kind, Append(as, a.out)) ELSE Got(a, Append(as, a.out))
Alternates(p, kind, as) ==
    IF T(p) # kind THEN Got(Report(p), as)
    ELSE AfterAlternate(IF kind = "TYPE" THEN Parse("type", p) ELSE Parse("constant", p), kind, as)
alternate_list(p) == Alternates(p, "TYPE", <<>>)
constant_list(p) == Alternates(p, "CONSTANT", <<>>)
UnionOf(t, as) == Got(as, Union(t, as.out))
EnumOf(t, cs) == Got(cs, Enum(t, cs.out))
alternate(p, t) ==
    CASE T(p) = "TYPE" -> UnionOf(t, alternate_list(p))
      [] T(p) = "CONSTANT" -> EnumOf(t, constant_list(p))
      [] OTHER -> Got(Report(p), NoBranch)

ClassOf(p, t) ==
    LET proto == Parse("type", expect(p, "LESS"))
        fs == feature_list(comment(expect(proto, "LEFT_BRACE")), t, <<>>)
    IN  Got(expect(fs, "RIGHT_BRACE"), Class(t, proto.out, fs.out))
ClassNamed(gs, n) == ClassOf(gs, Type(n, gs.out))
\* The scope comes in p.out.
clazz(p) ==
    LET n == IF p.out = "" THEN <<V(p)>> ELSE <<p.out, V(p)>>
    IN  IF T(next(p)) = "ASSIGN" THEN alternate(next(next(p)), Type(n, <<>>)) ELSE ClassNamed(generic_list(next(p)), n)

RECURSIVE ImportList(_)
ImportAfter(q) == IF T(q) = "COMMA" THEN ImportList(next(q)) ELSE q
Imported(q) == ImportAfter([q EXCEPT !.imports = @ \cup {q.out}])
ImportList(p) == IF T(p) = "TYPE" THEN Imported(scope(p)) ELSE p
import(p) == LET q == expect(p, "IMPORT") IN ImportList(IF T(q) = "TYPE" THEN q ELSE Report(q))

\* A feature with the name of a class before it belongs to the class, if the
\* class is there already; else to the module of that name.
AddTo(d, f) == [d EXCEPT !.of.features = Append(@, ImplicitSelf(f, Type(d.of.name, d.of.generics)))]
module_feature(p, s) ==
    CASE p.out.k = "none" -> p
      [] p.out.k # "none" /\ ClassAt(p, <<s>>) # {} ->
            [p EXCEPT !.decls[Min(ClassAt(p, <<s>>))] = AddTo(@, p.out)]
      [] OTHER -> Declare(p, s, p.out)

\* One turn of the loop of module().
StaysPut(p) == Unexpected(p)
Otherwise(p) == next(Unexpected(p))
Scoped(p, s) ==
    CASE T(p) \in {"IDENTIFIER", "OPERATOR"} -> module_feature(Parse("function", p), s)
      [] T(p) = "CONSTANT" -> module_feature(Parse("constant", p), s)
      [] T(p) = "TYPE" -> module_feature(Parse("class", Got(p, s)), s)
      [] T(p) = "IMPORT" -> import(p)
      [] OTHER -> Otherwise(p)
ScopedBy(p) == Scoped(p, p.out)
module(p) == Got(Optional(ScopedBy(maybe_scope(p, "")), "SEPARATOR"), NoBranch)

Started(toks) ==
    [toks |-> toks, at |-> 1, error |-> FALSE, reported |-> <<>>, imports |-> {}, decls |-> <<>>, out |-> NoBranch]

Parse(rule, p) ==
    CASE rule \in DOMAIN LevelOf -> binary(p, LevelOf[rule])
      [] rule = "unary" -> unary(p)
      [] rule = "member_or_call_or_index" -> member_or_call_or_index(p)
      [] rule = "construct" -> construct(p)
      [] rule = "literal" -> literal(p)
      [] rule = "expression" -> expression(p)
      [] rule = "expression_list" -> expression_list(p)
      [] rule = "call_suffix" -> call_suffix(p)
      [] rule = "assignment" -> assignment(p)
      [] rule = "type" -> type(p)
      [] rule = "closure" -> closure(p)
      [] rule = "conditional" -> conditional(p)
      [] rule = "while" -> while_loop(p)
      [] rule = "for" -> for_loop(p)
      [] rule = "let" -> let(p)
      [] rule = "match" -> match(p)
      [] rule = "array_literal" -> array_literal(p)
      [] rule = "hash_literal" -> hash_literal(p)
      [] rule = "pair" -> pair(p)
      [] rule = "string" -> string(p)
      [] rule = "parens" -> parens(p)
      [] rule = "block" -> block(p)
      [] rule = "statement" -> statement(p)
      [] rule = "function" -> function(p)
      [] rule = "constant" -> constant(p)
      [] rule = "feature" -> feature(p)
      [] rule = "class" -> clazz(p)
=============================================================================
