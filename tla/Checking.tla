--------------------------------- MODULE Checking ---------------------------------
(***************************************************************************)
(* The analysis of a program: its declarations are checked one after the   *)
(* other, classes before the functions of the modules; each check may      *)
(* check others first.  Nothing is said of the order of the classes, nor   *)
(* of the functions.  After the analysis, types of the program are         *)
(* compared, and functions asked whether they throw, in any order (the     *)
(* code generators do).                                                    *)
(***************************************************************************)
EXTENDS Semantics

CONSTANTS
    Inputs,     \* records: decls, the declarations; legal, whether it is a program; ask, whether questions are asked
    MaxQueries  \* the number of questions

VARIABLES
    input,      \* what is analysed
    pending,    \* the declarations that were not checked yet
    st,         \* the analyser
    answers     \* the questions with their answers
vars == <<input, pending, st, answers>>

\* The library, as its interface files declare it.
Fun(n, formals, t) == P!Function(n, formals, {"NATIVE"}, t, P!NoBranch)
Arg(n, t) == [name |-> n, type |-> t]
SelfOf(n) == Arg("__self", Plain(n))
Of(n, proto, fs) == P!Class(P!Type(<<n>>, <<>>), Plain(proto), fs)
OfAny(n, vs, fs) == P!Class(P!Type(<<n>>, vs), Plain("Object"), fs)
TypeVar(n) == P!Type(<<":", n>>, <<>>)
ArrayOfA == P!Type(<<"Array">>, <<TypeVar("a")>>)
HashOfKV == P!Type(<<"Hash">>, <<TypeVar("k"), TypeVar("v")>>)
Destroy(n) == Fun("@destroy", <<SelfOf(n)>>, Void)
Library ==
    <<Of("Object", "Object", <<Fun("same", <<SelfOf("Object"), Arg("other", Plain("Object"))>>, Bool),
                               Fun("@init", <<>>, Void), Destroy("Object")>>),
      Of("Any", "Object", <<>>), Of("Bool", "Value", <<>>), Of("Nil", "Object", <<>>), Of("Void", "Object", <<>>),
      Of("Int", "Value", <<Fun("@add", <<SelfOf("Int"), Arg("other", Plain("Int"))>>, Plain("Int")),
                           Fun("@less", <<SelfOf("Int"), Arg("other", Plain("Int"))>>, Bool)>>),
      Of("String", "Object", <<Fun("size?", <<SelfOf("String")>>, Plain("Int")),
                               Fun("@add", <<SelfOf("String"), Arg("other", Plain("String"))>>, Plain("String"))>>),
      OfAny("Array", <<TypeVar("a")>>,
            <<Fun("@init", <<Arg("size", Plain("Int"))>>, Void),
              Fun("push", <<Arg("__self", ArrayOfA), Arg("value", TypeVar("a"))>>, Void),
              Fun("@index", <<Arg("__self", ArrayOfA), Arg("index", Plain("Int"))>>, TypeVar("a"))>>),
      OfAny("Hash", <<TypeVar("k"), TypeVar("v")>>,
            <<Fun("@init", <<>>, Void),
              Fun("@insert", <<Arg("__self", HashOfKV), Arg("key", TypeVar("k")), Arg("value", TypeVar("v"))>>, Void),
              Fun("@index", <<Arg("__self", HashOfKV), Arg("key", TypeVar("k"))>>, TypeVar("v"))>>)>>
AllChecked == {<<i, j>> : i \in DOMAIN Library, j \in 1 .. 3}

Started(decls) ==
    [decls |-> [i \in DOMAIN Library |-> [in |-> <<>>, of |-> Library[i]]] \o decls,
     unit |-> <<>>, imports |-> {}, cache |-> <<>>, yes |-> FALSE, aborted |-> FALSE, errs |-> <<>>, scopes |-> <<>>,
     push |-> NoType, ret |-> FALSE, dead |-> FALSE, cls |-> 0, fn |-> <<>>, bound |-> {}, types |-> <<>>,
     checked |-> AllChecked, calls |-> <<>>, spec |-> <<>>, callee |-> <<>>, recv |-> Nothing, ty |-> NoType, out |-> Nothing]

CheckingInit ==
    /\ input \in Inputs
    /\ st = Started(input.decls)
    /\ pending = {i \in DOMAIN st.decls : i > Len(Library)}
    /\ answers = {}

Classes == {i \in pending : Kind(st, <<i>>) = "class"}
\* Module(): closures are checked where they are made.
Skipped(i) == Kind(st, <<i>>) = "class" /\ IsClosure(st, i)
Check(i) ==
    /\ Classes # {} => i \in Classes
    /\ pending' = pending \ {i}
    /\ st' = IF Skipped(i) THEN st ELSE [CheckFeature(st, <<i>>) EXCEPT !.out = Nothing, !.recv = Nothing]
    /\ UNCHANGED <<input, answers>>

FunctionIds(s) ==
    {<<i>> : i \in {i \in DOMAIN s.decls : i > Len(Library) /\ Kind(s, <<i>>) = "function"}}
    \cup UNION {{<<i, j>> : j \in {j \in DOMAIN Class(s, i).features : Kind(s, <<i, j>>) = "function"}} :
                i \in {i \in DOMAIN s.decls : i > Len(Library) /\ Kind(s, <<i>>) = "class"}}

MayAsk == pending = {} /\ input.ask /\ Cardinality(answers) < MaxQueries
Answered(s, question) ==
    /\ st' = [s EXCEPT !.yes = FALSE]
    /\ answers' = answers \cup {Append(question, s.yes)}
    /\ UNCHANGED <<input, pending>>
ProgramTypes == {TypeOfClass(st, i) : i \in {i \in DOMAIN st.decls : i > Len(Library) /\ Kind(st, <<i>>) = "class"}}
Compare(a, b) == Answered(Subtype(st, a, b), <<"subtype", a, b>>)
AskThrows(id) == Answered(ThrowSpec(st, id), <<"throws", id>>)

CheckingNext ==
    \/ \E i \in pending : Check(i)
    \/ MayAsk /\ \E a, b \in ProgramTypes : Compare(a, b)
    \/ MayAsk /\ \E id \in FunctionIds(st) : AskThrows(id)
CheckingSpec == CheckingInit /\ [][CheckingNext]_vars

-----------------------------------------------------------------------------
Accepted == st.errs = <<>> /\ ~st.aborted

\* The nodes of a tree.
RECURSIVE Nodes(_)
NodesIn(es) == UNION {Nodes(es[i]) : i \in DOMAIN es}
Nodes(e) ==
    {e} \cup
    CASE e.k \in {"box", "cast", "member"} -> Nodes(e.of)
      [] e.k = "binary" -> NodesIn(<<e.a, e.b>>)
      [] e.k \in {"unary", "return", "is"} -> Nodes(e.e)
      [] e.k = "call" -> NodesIn(e.args)
      [] e.k = "construct" -> NodesIn(e.args)
      [] e.k \in {"block", "array"} -> NodesIn(e.es)
      [] e.k = "let" -> NodesIn(Append(e.vars, e.block))
      [] e.k = "while" -> NodesIn(<<e.guard, e.block>>)
      [] e.k = "cond" -> NodesIn(<<e.guard, e.then, e.else>>)
      [] e.k = "match" -> NodesIn(<<e.guard>> \o FlattenSeq([i \in DOMAIN e.cases |-> <<e.cases[i].guard, e.cases[i].block>>]))
      [] e.k = "assign" -> Nodes(e.init)
      [] e.k = "closure" -> IF "constr" \in DOMAIN e THEN Nodes(e.constr) ELSE {}
      [] OTHER -> {}

Bodies(s) == {id \in FunctionIds(s) : HasBody(At(s, id))}

\* How a value of a type is held.
Held(s, t) ==
    CASE IsAlt(s, t) -> "box"
      [] IsCompound(s, t) -> "in place"
      [] IsPrimitive(s, t) -> "register"
      [] OTHER -> "reference"
\* A box holds what is no value as it is; nil is 0 everywhere.
Fits(s, t, wanted) ==
    \/ Held(s, t) = Held(s, wanted)
    \/ Held(s, t) = "reference" /\ Held(s, wanted) = "box"
    \/ IsNil(s, t) /\ IsPrimitive(s, wanted)
ArgumentsFit(s, e) ==
    LET formals == At(s, e.to).formals
        rec == IF formals # <<>> /\ formals[1].name = "__self" THEN e.args[1].ty ELSE NoType
    IN  /\ Len(e.args) = Len(formals)
        /\ \A i \in DOMAIN formals : Fits(s, e.args[i].ty, Canonical(formals[i].type, Pairs(s, formals, e.args, rec)))
NodeFits(s, f, e) ==
    CASE e.k = "call" -> "to" \in DOMAIN e /\ ArgumentsFit(s, e)
      [] e.k = "assign" -> "to" \in DOMAIN e /\ Fits(s, e.init.ty, e.to)
      [] e.k = "return" -> e.e.k # "empty" => Fits(s, e.e.ty, f.type)
      [] OTHER -> e.k \in {"none", "empty"} \/ Typed(e)

-----------------------------------------------------------------------------
\* Type invariant: between two checks no scope is open, nothing is suggested,
\* nothing is being checked; what was checked has no type that is still to be
\* found, and no assertion failed.
CheckingTypeOK ==
    /\ input \in Inputs /\ pending \subseteq DOMAIN st.decls
    /\ st.scopes = <<>> /\ st.push = NoType /\ st.cls = 0 /\ st.fn = <<>> /\ st.bound = {}
    /\ \A id \in DOMAIN st.types : st.types[id] # Bottom
    /\ pending = {} => FunctionIds(st) \ {id \in FunctionIds(st) : IsClosure(st, Owner(id)) } \subseteq st.checked
    /\ ~st.aborted

\* A program is accepted if and only if it is legal, in whatever order its
\* declarations are checked and whatever was asked before.
VerdictRight == pending = {} => (Accepted <=> input.legal)

\* In a program that is accepted every call has a function, as many arguments
\* as formals, and everything that is passed, returned or stored in a variable
\* is held the way it is expected there: boxed or not.
AcceptedIsSound ==
    (pending = {} /\ Accepted) => \A id \in Bodies(st) : \A e \in Nodes(At(st, id).body) : NodeFits(st, At(st, id), e)

\* Every answer about two types is the one of the largest relation in which a
\* class has the functions of the interfaces it conforms to.
SubtypesExact ==
    \A q \in {q \in answers : q[1] = "subtype"} : q[4] <=> <<q[2], q[3]>> \in Conforms(st, ProgramTypes \cup {Plain("Object")})

\* "Returns THROW if this function can throw an exception": what yields, what
\* is called through an interface, and what calls such a function.
RECURSIVE Callers(_)
Callers(ids) ==
    LET more == ids \cup {c[1] : c \in {c \in Range(st.calls) : c[2] \in ids}} IN IF more = ids THEN ids ELSE Callers(more)
Yielding(id) == HasBody(At(st, id)) /\ \E e \in Nodes(At(st, id).body) : e.k = "yield"
Sources == {id \in FunctionIds(st) : IsVirtual(st, id) \/ Yielding(id)}
ThrowsExact == \A q \in {q \in answers : q[1] = "throws"} : q[3] <=> q[2] \in Callers(Sources)

\* What is answered once is kept: no answer, of whichever kind, is wrong
\* because of what was asked before, or in which order.
AnswersExact == SubtypesExact /\ ThrowsExact
=============================================================================
