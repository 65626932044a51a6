------------------------------- MODULE Subtyping -------------------------------
(***************************************************************************)
(* Names, classes, types, and which type conforms to which (File.cpp,      *)
(* Feature.cpp, Type.cpp, SubtypeEval.cpp).  A type is what the parser     *)
(* makes of it: its name, a sequence that ends with the simple name, and   *)
(* its arguments.  Every operator takes the state of the compiler that it  *)
(* reads: decls, the declarations with the module each is in; imports, the *)
(* modules that are searched after the one of the file; cache, the answers *)
(* given so far; and, as results, yes and aborted (an assertion failed).   *)
(***************************************************************************)
EXTENDS Integers, SequencesExt, FiniteSetsExt, TLC

NoType == [name |-> <<>>, args |-> <<>>]
Plain(n) == [name |-> <<n>>, args |-> <<>>]
Top == Plain("Top")
Bottom == Plain("Bottom")
IsGeneric(t) == t.name # <<>> /\ Head(t.name) = ":"

-----------------------------------------------------------------------------
(* Declarations.  <<i>> is a declaration of a module, <<i, j>> a member of  *)
(* the class i, <<>> nothing; a type variable has a class of its own, -1.   *)
NameOf(d) == IF d.k = "class" THEN Last(d.name) ELSE d.name
First(S) == IF S = {} THEN <<>> ELSE <<Min(S)>>
InModule(s, m, n) == First({i \in DOMAIN s.decls : s.decls[i].in = m /\ NameOf(s.decls[i].of) = n})
Anonymous == [k |-> "class", name |-> <<":">>, generics |-> <<>>, proto |-> Plain("Interface"), alternates |-> <<>>, features |-> <<>>]
Class(s, c) == IF c = -1 THEN Anonymous ELSE s.decls[c].of
At(s, id) == IF Len(id) = 1 THEN s.decls[id[1]].of ELSE s.decls[id[1]].of.features[id[2]]
Kind(s, id) == IF id = <<>> THEN "none" ELSE At(s, id).k
Put(s, id, d) ==
    IF Len(id) = 1 THEN [s EXCEPT !.decls[id[1]].of = d] ELSE [s EXCEPT !.decls[id[1]].of.features[id[2]] = d]

RECURSIVE Feature(_, _, _), Member(_, _, _), ClassOf(_, _)
\* The module of the file, what it imports, and the root.
Searched(s) == <<s.unit>> \o SetToSeq(s.imports) \o <<<<>>>>
FirstOf(ids) == LET found == SelectSeq(ids, LAMBDA id : id # <<>>) IN IF found = <<>> THEN <<>> ELSE Head(found)
MemberOf(s, owner, n) == IF Kind(s, owner) = "class" THEN Member(s, owner[1], n) ELSE <<>>
Feature(s, scope, n) ==
    IF scope = <<>> THEN FirstOf([i \in DOMAIN Searched(s) |-> InModule(s, Searched(s)[i], n)])
    ELSE FirstOf(<<InModule(s, scope, n), MemberOf(s, Feature(s, Front(scope), Last(scope)), n)>>)

RootClass(s, n) == InModule(s, <<>>, n)
ClassAt(s, id) == IF Kind(s, id) = "class" THEN id[1] ELSE 0
ClassOf(s, t) ==
    CASE t.name = <<>> -> 0
      [] IsGeneric(t) -> -1
      [] OTHER -> ClassAt(s, Feature(s, Front(t.name), Last(t.name)))

\* A member of the class, of what is embedded in it, or of Object.
Protos == {"Object", "Interface", "Enum", "Value", "Union", "Functor"}
Embedded(s, c) == SelectSeq(Class(s, c).features, LAMBDA f : f.k = "attribute" /\ "EMBEDDED" \in f.flags)
Parts(s, c) ==
    SelectSeq([i \in DOMAIN Embedded(s, c) |-> ClassOf(s, Embedded(s, c)[i].type)] \o <<ClassAt(s, RootClass(s, "Object"))>>,
              LAMBDA d : d \notin {0, c})
Own(s, c, n) == {j \in DOMAIN Class(s, c).features : Class(s, c).features[j].name = n}
Member(s, c, n) ==
    IF Own(s, c, n) # {} THEN <<c, Min(Own(s, c, n))>>
    ELSE IF Last(Class(s, c).name) \in Protos THEN <<>>
    ELSE FirstOf([i \in DOMAIN Parts(s, c) |-> Member(s, Parts(s, c)[i], n)])
FunctionIn(s, c, n) == IF Kind(s, Member(s, c, n)) = "function" THEN Member(s, c, n) ELSE <<>>
AttributeIn(s, c, n) == IF c > 0 /\ Kind(s, Member(s, c, n)) = "attribute" THEN Member(s, c, n) ELSE <<>>

-----------------------------------------------------------------------------
(* Kinds of types.                                                          *)
RECURSIVE Equals(_, _, _)
Equals(s, a, b) ==
    /\ ClassOf(s, a) = ClassOf(s, b) /\ (a.name # <<>> /\ b.name # <<>> => Last(a.name) = Last(b.name))
    /\ \A i \in DOMAIN a.args \cap DOMAIN b.args : Equals(s, a.args[i], b.args[i])

Root(s, n) == ClassAt(s, RootClass(s, n))
\* What the name of a type says, when it is the class of that name in the root.
Named(s, t, c) == IF t.name # <<>> /\ (Last(t.name) \in {"Top", "Bottom"} \/ c = Root(s, Last(t.name))) THEN {Last(t.name)} ELSE {}
ProtoAs(s, p) == Named(s, p, ClassOf(s, p)) \cap Protos
ProtoSays(s, c) == IF c = 0 THEN {} ELSE ProtoAs(s, Class(s, c).proto)
\* What a type is: by its own name, and by the one of its prototype; "new" is
\* a class whose prototype is one of the program.
SaysOf(s, own, c, proto) == own \cup proto \cup (IF c # 0 /\ proto = {} THEN {"new"} ELSE {})
SaysIn(s, t, c) == IF c = -1 THEN {"Interface"} ELSE SaysOf(s, Named(s, t, c), c, ProtoSays(s, c))
Says(s, t) == SaysIn(s, t, ClassOf(s, t))
Is(s, t, n) == n \in Says(s, t)
IsAnyOf(s, t, names) == Says(s, t) \cap names # {}

Alts == {"Any", "Union"}
Primitives == {"Enum", "Float", "Int", "Byte", "Bool", "Char"}
Values == Primitives \cup {"Value"}
Refs == {"Interface", "Object", "Functor", "Nil", "new"} \cup Alts
IsTop(t) == t = Top
IsVoid(s, t) == Is(s, t, "Void")
IsNil(s, t) == Is(s, t, "Nil")
IsAny(s, t) == Is(s, t, "Any")
IsEnum(s, t) == Is(s, t, "Enum")
IsUnion(s, t) == Is(s, t, "Union")
IsInterface(s, t) == Is(s, t, "Interface")
IsAlt(s, t) == IsAnyOf(s, t, Alts)
IsPrimitive(s, t) == IsAnyOf(s, t, Primitives)
IsValue(s, t) == IsAnyOf(s, t, Values)
AreCompound(says) == says \cap Primitives = {} /\ "Value" \in says
IsCompound(s, t) == AreCompound(Says(s, t))
IsObject(s, t) == IsAnyOf(s, t, {"Object", "Functor", "new"})
IsRef(s, t) == IsAnyOf(s, t, Refs)
IsBoolifiable(s, t) == IsTop(t) \/ IsAnyOf(s, t, Primitives \cup Refs)
IsProto(s, t) == Named(s, t, ClassOf(s, t)) \cap Protos # {}

\* canonical(): type variables replaced; pairs are types with variables and
\* the types that stand for them, first the receiver, then the arguments.
BoundIn(v, p) ==
    IF IsGeneric(p[1]) THEN IF p[1] = v THEN <<p[2]>> ELSE <<>>
    ELSE LET at == {i \in DOMAIN p[1].args \cap DOMAIN p[2].args : p[1].args[i] = v} IN
         IF at = {} THEN <<>> ELSE <<p[2].args[Min(at)]>>
Binding(v, pairs) == Head(FlattenSeq([i \in DOMAIN pairs |-> BoundIn(v, pairs[i])]) \o <<v>>)
RECURSIVE Canonical(_, _)
Canonical(t, pairs) ==
    IF IsGeneric(t) THEN Binding(t, pairs) ELSE [t EXCEPT !.args = [i \in DOMAIN @ |-> Canonical(@[i], pairs)]]
TypeOfClass(s, c) == [name |-> Class(s, c).name, args |-> Class(s, c).generics]
Receiver(s, t) == IF ClassOf(s, t) = 0 THEN <<>> ELSE <<<<TypeOfClass(s, ClassOf(s, t)), t>>>>

-----------------------------------------------------------------------------
(* SubtypeEval: is a value of type a a value of type b?                     *)
SettledAs(s, a, b, isA, isB, c, d) ==
    CASE "Void" \in isA \cap isB -> "yes"
      [] "Void" \in isA \cup isB /\ "Void" \notin isA \cap isB -> "no"
      [] a = Bottom \/ b = Bottom -> "no"
      [] "Union" \in isB /\ "Any" \in isA -> "no"
      [] "Any" \in isA \cup isB \/ IsTop(a) \/ IsTop(b) -> "yes"
      [] "Nil" \in isA /\ ~AreCompound(isB) -> "yes"
      [] c = d -> IF Equals(s, a, b) THEN "yes" ELSE "no"
      [] d = 0 -> "no"
      [] c = 0 -> "abort"
      [] OTHER -> "ask"
SettledIn(s, a, b, c, d) == SettledAs(s, a, b, SaysIn(s, a, c), SaysIn(s, b, d), c, d)

RECURSIVE Subtype(_, _, _)
Answer(s, yes) == [s EXCEPT !.yes = yes]
Record(s, a, b, yes) == [s EXCEPT !.yes = yes, !.cache = (<<a, b>> :> yes) @@ @]
Alternates(s, c) == Class(s, c).alternates
Among(s, c, d) == \E i \in DOMAIN Alternates(s, c) : ClassOf(s, Alternates(s, c)[i]) = d
\* Those of the first that has some.
Alternate(s, c, d) == IF Alternates(s, c) # <<>> THEN Among(s, c, d) ELSE Among(s, d, c)

SameFormals(s, f, g, a, b) ==
    /\ Len(f.formals) = Len(g.formals)
    /\ \A i \in DOMAIN f.formals :
          \/ f.formals[i].name = "__self" /\ g.formals[i].name = "__self"
          \/ Equals(s, Canonical(f.formals[i].type, Receiver(s, a)), Canonical(g.formals[i].type, Receiver(s, b)))
Covariant(s, f, g, a, b) ==
    IF ~SameFormals(s, f, g, a, b) THEN Answer(s, FALSE)
    ELSE Subtype(s, Canonical(f.type, Receiver(s, a)), Canonical(g.type, Receiver(s, b)))
HasFunction(s, id, g, a, b) == IF id = <<>> THEN Answer(s, FALSE) ELSE Covariant(s, At(s, id), g, a, b)
Functions(c) == SelectSeq(c.features, LAMBDA f : f.k = "function")

\* The answer is yes until a function is missing; a no takes that back, but
\* not the answers that were given in between.
Stuck(s, a, b) == s
Retracted(s, a, b) == IF s.yes THEN s ELSE Record(s, a, b, FALSE)
ByFunctions(s, a, b, c, d) ==
    Retracted(FoldLeft(LAMBDA r, g : IF r.yes THEN HasFunction(r, FunctionIn(r, c, g.name), g, a, b) ELSE r,
                       Record(s, a, b, TRUE), Functions(Class(s, d))), a, b)
Ask(s, a, b, c, d) ==
    CASE <<a, b>> \in DOMAIN s.cache -> Answer(s, s.cache[<<a, b>>])
      [] Alternates(s, c) # <<>> \/ Alternates(s, d) # <<>> -> Record(s, a, b, Alternate(s, c, d))
      [] ~IsInterface(s, b) -> Answer(s, FALSE)
      [] OTHER -> ByFunctions(s, a, b, c, d)
SubtypeAs(s, a, b, c, d, settled) ==
    CASE settled = "ask" -> Ask(s, a, b, c, d)
      [] settled = "abort" -> [s EXCEPT !.yes = FALSE, !.aborted = TRUE]
      [] OTHER -> Answer(s, settled = "yes")
SubtypeIn(s, a, b, c, d) == SubtypeAs(s, a, b, c, d, SettledIn(s, a, b, c, d))
Subtype(s, a, b) == SubtypeIn(s, a, b, ClassOf(s, a), ClassOf(s, b))

-----------------------------------------------------------------------------
\* What conforms means: the largest relation in which a class has, for every
\* function of the interface, one of the same arguments whose result conforms.
Fulfils(s, R, a, b, g, f) == f # <<>> /\ SameFormals(s, At(s, f), g, a, b) /\ <<At(s, f).type, g.type>> \in R
HoldsAs(s, R, a, b, c, d, settled) ==
    CASE settled # "ask" -> settled = "yes"
      [] Alternates(s, c) # <<>> \/ Alternates(s, d) # <<>> -> Alternate(s, c, d)
      [] OTHER -> IsInterface(s, b) /\ \A g \in Range(Functions(Class(s, d))) : Fulfils(s, R, a, b, g, FunctionIn(s, c, g.name))
HoldsIn(s, R, a, b, c, d) == HoldsAs(s, R, a, b, c, d, SettledIn(s, a, b, c, d))
Holds(s, R, a, b) == HoldsIn(s, R, a, b, ClassOf(s, a), ClassOf(s, b))
RECURSIVE Shrink(_, _)
Shrunk(s, R, kept) == IF kept = R THEN R ELSE Shrink(s, kept)
Shrink(s, R) == Shrunk(s, R, {p \in R : Holds(s, R, p[1], p[2])})
Conforms(s, ts) == Shrink(s, ts \X ts)
================================================================================
