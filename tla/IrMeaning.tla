------------------------------- MODULE IrMeaning -------------------------------
(***************************************************************************)
(* What the intermediate code of a function has to do, defined on the      *)
(* syntax tree alone: the calls, stores and conditions in the order of the *)
(* language, and the ownership of objects by reference counts.  The traces *)
(* are those of IrRun.tla; ch decides the conditions.                         *)
(***************************************************************************)
EXTENDS IrGen, IrRun

RECURSIVE Eval(_, _)

Going(s) == ~s.done
Happens(s, event) == [s EXCEPT !.trace = Append(@, event), !.k = @ + 1]
Ends(s, v) == [s EXCEPT !.trace = Append(@, <<"ret", v>>), !.done = TRUE]
Nothing == <<"nothing">>
Outcome(s, v) == [s |-> s, v |-> v]

\* One condition: known, or decided by ch; past the end of ch nothing happens.
Ask(s, c, a, b) ==
    LET asked == [s EXCEPT !.trace = Append(@, <<"cond", c, a, b>>), !.n = @ + 1] IN
    IF ~Going(s) THEN [s |-> s, holds |-> FALSE]
    ELSE IF b = <<>> /\ Decided(a) THEN [s |-> s, holds |-> a = <<"obj", "1">>]
    ELSE IF s.n > Len(s.ch) THEN [s |-> [asked EXCEPT !.done = TRUE], holds |-> FALSE]
    ELSE [s |-> asked, holds |-> s.ch[s.n]]

Bit(b) == <<"obj", IF b THEN "1" ELSE "0">>

\* A condition, with short circuits.
RECURSIVE Test(_, _)
Test(s, e) ==
    CASE e.k = "and" -> LET a == Test(s, e.left) IN IF a.holds THEN Test(a.s, e.right) ELSE a
      [] e.k = "or" -> LET a == Test(s, e.left) IN IF a.holds THEN a ELSE Test(a.s, e.right)
      [] e.k = "not" -> LET a == Test(s, e.child) IN [a EXCEPT !.holds = ~@]
      [] e.k = "call" /\ IsNative(e) /\ e.func.name \in {"@equal", "@less"} ->
            LET a == Eval(s, e.args[1])
                b == Eval(a.s, e.args[2])
            IN  Ask(b.s, IF e.func.name = "@equal" THEN "equal" ELSE "less", a.v, b.v)
      [] OTHER -> LET a == Eval(s, e) IN Ask(a.s, "true", a.v, <<>>)

EvalAll(s, es) ==
    FoldLeft(LAMBDA st, e : LET x == Eval(st.s, e) IN [s |-> x.s, vals |-> Append(st.vals, <<x.v, Kind(e.type) = "float">>)],
             [s |-> s, vals |-> <<>>], es)

\* A call: the first arguments of either class in registers, the others on the stack.
PassArg(st, a) ==
    LET regs == IF a[2] THEN Mach.fargs ELSE Mach.args
        n == IF a[2] THEN st.f ELSE st.i
        inReg == n < Len(regs)
    IN  [s |-> IF inReg THEN st.s
               ELSE Happens(st.s, <<"store", <<"at", <<"entry", Mach.sp>>, st.n>>, a[1]>>),
         regs |-> IF inReg THEN (regs[n + 1] :> a[1]) @@ st.regs ELSE st.regs,
         i |-> IF a[2] THEN st.i ELSE st.i + 1, f |-> IF a[2] THEN st.f + 1 ELSE st.f,
         n |-> IF inReg THEN st.n ELSE st.n + 1]

Calls(s, target, vals) ==
    LET st == FoldLeft(PassArg, [s |-> s, regs |-> [r \in {} |-> <<>>], i |-> 0, f |-> 0, n |-> 0], vals)
        called == Happens(st.s, <<"call", target, st.regs>>)
    IN  IF Going(s) THEN Outcome(called, <<"result", called.k>>) ELSE Outcome(s, Nothing)

\* An exception ends the function without a value.
MayThrow(x) ==
    LET a == Ask(x.s, "true", <<"global", "Exception__current", x.s.k>>, <<>>)
    IN  IF a.holds /\ Going(a.s) THEN Outcome(Ends(a.s, Nothing), x.v) ELSE Outcome(a.s, x.v)

EvalCall(s, f, args) ==
    LET st == EvalAll(s, args)
        found == Calls(st.s, <<"obj", "Object__dispatch">>, <<Head(st.vals), <<<<"obj", f.name>>, FALSE>>>>)
        x == IF f.virtual THEN Calls(found.s, found.v, st.vals) ELSE Calls(st.s, <<"obj", f.label>>, st.vals)
    IN  IF f.throws THEN MayThrow(x) ELSE x

Vtable(t) == <<"obj", t \o "__vtable">>
Field(s, o, slot) == <<"load", <<"at", o, slot>>, s.k>>
HasTable(x, t) == Ask(x.s, "equal", Field(x.s, x.v, 0), Vtable(t))
StoreAt(s, o, slot, v) == IF Going(s) THEN Happens(s, <<"store", <<"at", o, slot>>, v>>) ELSE s

\* A new object: cleared memory, its vtable and one reference.
Allocates(s, c) ==
    LET o == Calls(s, <<"obj", "Boot_calloc">>, <<<<<<"obj", Bytes(c)>>, FALSE>>, <<<<"obj", "1">>, FALSE>>>>)
    IN  Outcome(StoreAt(StoreAt(o.s, o.v, 0, Vtable(c)), o.v, 1, <<"obj", "1">>), o.v)

EvalBox(s, e) ==
    LET x == Eval(s, e.child)
        o == Allocates(x.s, e.child.type)
    IN  Outcome(StoreAt(o.s, o.v, 2, x.v), o.v)

EvalMatch(s, e) ==
    LET x == Eval(s, e.guard)
        case(st, c) ==
            LET g == Eval(st.s, c.guard)
                a == Ask(g.s, "equal", x.v, g.v)
            IN  IF st.over THEN st
                ELSE IF c.guard.k = "empty" THEN LET b == Eval(st.s, c.block) IN [s |-> b.s, v |-> b.v, over |-> TRUE]
                ELSE IF a.holds THEN LET b == Eval(a.s, c.block) IN [s |-> b.s, v |-> b.v, over |-> TRUE]
                ELSE [st EXCEPT !.s = a.s]
        end == FoldLeft(case, [s |-> x.s, v |-> Nothing, over |-> FALSE], e.cases)
    IN  Outcome(end.s, end.v)

RECURSIVE Loop(_, _)
Loop(s, e) ==
    LET a == Test(s, e.guard)
    IN  IF a.holds /\ Going(a.s) THEN Loop(Eval(a.s, e.block).s, e) ELSE Outcome(a.s, Nothing)

EvalAssign(s, e) ==
    LET x == IF e.init.k = "empty" THEN Outcome(s, <<"obj", "0">>) ELSE Eval(s, e.init)
        isAttr == s.class # "none" /\ AttrIndexes(s.class, e.name) # {}
    IN  Outcome(IF isAttr THEN StoreAt(x.s, x.s.env["__self"], AttrSlot(s.class, e.name), x.v)
                ELSE [x.s EXCEPT !.env = (e.name :> x.v) @@ @], x.v)

EvalSeq(s, es) == FoldLeft(LAMBDA st, e : Eval(st.s, e), Outcome(s, Nothing), es)

EvalGoing(s, e) ==
    CASE e.k = "lit" -> Outcome(s, <<"obj", e.v>>)
      [] e.k = "id" -> Outcome(s, IF e.name \in DOMAIN s.env THEN s.env[e.name]
                                  ELSE Field(s, s.env["__self"], AttrSlot(s.class, e.name)))
      [] e.k = "const" -> Outcome(s, <<"global", e.label, s.k>>)
      [] e.k = "empty" -> Outcome(s, <<"obj", "0">>)
      [] e.k \in {"and", "or", "not"} -> LET a == Test(s, e) IN Outcome(a.s, Bit(a.holds))
      [] e.k = "call" /\ IsNative(e) ->
            IF e.func.name \in {"@equal", "@less"} THEN LET a == Test(s, e) IN Outcome(a.s, Bit(a.holds))
            ELSE LET st == EvalAll(s, e.args)
                 IN  Outcome(st.s, IF e.func.name = "@neg" THEN Negated(st.vals[1][1])
                                   ELSE Combined(Arithmetic[e.func.name], st.vals[1][1], st.vals[2][1]))
      [] e.k = "call" -> EvalCall(s, e.func, e.args)
      [] e.k = "member" -> EvalCall(s, e.func, <<e.object>>)
      [] e.k = "construct" -> LET st == EvalAll(s, e.args) IN Calls(st.s, <<"obj", e.type \o "__init">>, st.vals)
      [] e.k = "closure" -> Eval(s, e.construct)
      [] e.k = "box" -> EvalBox(s, e)
      [] e.k = "cast" -> LET x == Eval(s, e.child)
                             a == HasTable(x, e.type)
                         IN  IF e.type = "Any" THEN x
                             ELSE Outcome(a.s, IF ~a.holds THEN <<"obj", "0">>
                                               ELSE IF IsPrimitive(e.type) THEN Field(a.s, x.v, 2) ELSE x.v)
      [] e.k = "is" -> LET a == HasTable(Eval(s, e.child), e.check) IN Outcome(a.s, Bit(a.holds))
      [] e.k = "array" ->
            LET o == Calls(s, <<"obj", e.type \o "__init">>, <<<<<<"obj", ToString(Len(e.args))>>, FALSE>>>>)
                push(st, a) == LET x == Eval(st, a) IN Calls(x.s, <<"obj", e.type \o "__push">>, <<<<o.v, FALSE>>, <<x.v, FALSE>>>>).s
            IN  Outcome(FoldLeft(push, o.s, e.args), o.v)
      [] e.k = "hash" ->
            LET o == Calls(s, <<"obj", e.type \o "__init">>, <<>>)
                insert(st, p) == LET x == EvalAll(st, p) IN Calls(x.s, <<"obj", e.type \o "__insert">>, <<<<o.v, FALSE>>>> \o x.vals).s
            IN  Outcome(FoldLeft(insert, o.s, e.pairs), o.v)
      [] e.k = "block" -> EvalSeq(s, e.children)
      [] e.k = "let" -> Eval(EvalSeq(s, e.vars).s, e.block)
      [] e.k = "while" -> Loop(s, e)
      [] e.k = "cond" -> LET a == Test(s, e.guard)
                         IN  IF a.holds THEN Eval(a.s, e.then) ELSE Eval(a.s, IF e.else.k = "none" THEN [k |-> "empty"] ELSE e.else)
      [] e.k = "match" -> EvalMatch(s, e)
      [] e.k = "assign" -> EvalAssign(s, e)
      [] e.k = "return" -> IF e.expr.k = "empty" THEN Outcome(Ends(s, Nothing), Nothing)
                           ELSE LET x == Eval(s, e.expr) IN Outcome(IF Going(x.s) THEN Ends(x.s, x.v) ELSE x.s, Nothing)
      [] e.k = "yield" -> MayThrow(Calls(s, <<"obj", "Coroutine__yield_with_msg">>, <<<<<<"obj", e.where>>, FALSE>>>>))

Eval(s, e) == IF Going(s) THEN EvalGoing(s, e) ELSE Outcome(s, Nothing)

\* A function: its parameters where the convention passes them.
ParamTerms(fn) ==
    LET place(st, f) ==
            LET float == Kind(f.type) = "float"
                regs == IF float THEN Mach.fargs ELSE Mach.args
                n == IF float THEN st.f ELSE st.i
            IN  [env |-> (f.name :> IF n < Len(regs) THEN <<"entry", regs[n + 1]>> ELSE <<"stack", st.n + 1>>) @@ st.env,
                 i |-> IF float THEN st.i ELSE st.i + 1, f |-> IF float THEN st.f + 1 ELSE st.f,
                 n |-> IF n < Len(regs) THEN st.n ELSE st.n + 1]
    IN  FoldLeft(place, [env |-> [x \in {} |-> <<>>], i |-> 0, f |-> 0, n |-> 0], Parameters(fn)).env

\* What the members that the compiler completes do before and after their body.
StoreIn(x, a) == StoreAt(x.s, x.s.env["__self"], AttrSlot(x.s.class, a.name), x.v)
Initializes(s, a) == IF a.init.k = "none" THEN s ELSE StoreIn(Eval(s, a.init), a)
Becomes(o) == [o.s EXCEPT !.env = ("__self" :> o.v) @@ @]
Size(fn) == <<<<"obj", Bytes(fn.class)>>, FALSE>>
Makes(s, fn) ==
    IF IsRef(fn.class) THEN Becomes(Allocates(s, fn.class))
    ELSE Calls(s, <<"obj", "Boot_mzero">>, <<<<s.env["__self"], FALSE>>, Size(fn)>>).s
Begins(s, fn) ==
    CASE fn.kind = "copier" ->
            Calls(s, <<"obj", "Boot_memcpy">>, <<<<s.env["__self"], FALSE>>, <<s.env["val"], FALSE>>, Size(fn)>>).s
      [] fn.kind = "ctor" -> FoldLeft(Initializes, Makes(s, fn), Classes[fn.class].attrs)
      [] OTHER -> s

Completes(s, fn) ==
    CASE ~Going(s) -> s
      [] fn.kind = "ctor" -> Ends(s, s.env["__self"])
      [] fn.kind = "dtor" /\ IsRef(fn.class) -> Ends(Calls(s, <<"obj", "Boot_free">>, <<<<s.env["__self"], FALSE>>>>).s, Nothing)
      [] OTHER -> Ends(s, Nothing)

MeaningOf(fn, ch) ==
    LET s == [trace |-> <<>>, env |-> ParamTerms(fn), n |-> 1, k |-> 0, done |-> FALSE, ch |-> ch, class |-> fn.class]
    IN  Completes(Eval(Begins(s, fn), fn.body).s, fn).trace

-----------------------------------------------------------------------------
\* The trace of the code shows what the tree means, counting left aside.
Shows(e, f, fn) ==
    CASE f[1] = "call" -> e[2] = f[2] /\ \A r \in DOMAIN f[3] : e[4][r] = f[3][r]
      [] f[1] = "ret" -> \/ f[2] = Nothing
                         \/ e[3][Head(IF Kind(fn.type) = "float" THEN Mach.freturns ELSE Mach.returns)] = f[2]
      [] OTHER -> e = f

Effects(t) == SelectSeq(t, LAMBDA e : ~(e[1] = "call" /\ e[2] \in Counting))

MeansWhatItSays(fn, run, m) ==
    LET t == Effects(run)
    IN  Len(t) = Len(m) /\ \A n \in DOMAIN m : t[n][1] = m[n][1] /\ Shows(t[n], m[n], fn)

-----------------------------------------------------------------------------
(***************************************************************************)
(* Ownership.  A call of a giver returns an object with a reference for    *)
(* the function; increments and decrements add to it; a field keeps one    *)
(* for what is stored in it; the value returned takes one along.           *)
(***************************************************************************)
CONSTANT Givers     \* labels of the functions that return objects

Argument(e) == e[3][Head(Mach.args)]
Counted(e, what, x) == e[1] = "call" /\ e[2] = <<"obj", what>> /\ Argument(e) = x

\* References gained less those given up in the first p events.
Net(t, x, p) ==
    Cardinality({q \in 1 .. p : Counted(t[q], "Object__refcount_inc", x)})
    - Cardinality({q \in 1 .. p : Counted(t[q], "Object__refcount_dec", x)})

\* The fields that hold references, as (class, slot).
RefSlots == UNION {{AttrSlot(c, a.name) : a \in {b \in Range(Classes[c].attrs) : IsRef(b.type) /\ ~b.weak}}
                     : c \in DOMAIN Classes}
IsRefField(b) == b[1] = "at" /\ b[2] # <<"entry", Mach.sp>> /\ b[3] \in RefSlots
Keeps(t, x) == Cardinality({q \in DOMAIN t : t[q][1] = "store" /\ IsRefField(t[q][2]) /\ t[q][3] = x})

\* The objects a trace gets from calls, finds in parameters and in fields.
Gives(target) == target[1] # "obj" \/ target[2] \in Givers
Given(t) ==
    LET effects == SelectSeq(Effects(t), LAMBDA e : e[1] # "cond")
    IN  {<<"result", n>> : n \in {m \in DOMAIN effects : effects[m][1] = "call" /\ Gives(effects[m][2])}}
Borrowed(fn) == {ParamTerms(fn)[f.name] : f \in {h \in Range(fn.formals) : IsRef(h.type)}}
Found(t) == {Argument(e) : e \in {f \in Range(t) : f[1] = "call" /\ f[2] \in Counting}}
StoresTo(t, b) == {q \in DOMAIN t : t[q][1] = "store" /\ t[q][2] = b}

\* The exception that ends a trace took the result of its last call away.
Threw(t) == Len(t) > 1 /\ t[Len(t) - 1][1] = "cond" /\ t[Len(t) - 1][3][1] = "global" /\ Last(t)[2] = Nothing

\* Every reference is given up exactly once when the function returns: one of
\* what was in a field that is stored to, and of every field by a destructor.
Balanced(fn, t, m) ==
    LET returned(x) == IF Last(m)[2] = x THEN 1 ELSE 0
        net(x) == Net(t, x, Len(t)) - returned(x) - Keeps(t, x)
        lost == IF Threw(m) THEN {<<"result", m[Len(m) - 1][3][3]>>} ELSE {}
        fields == {x \in Found(t) : x[1] = "load" /\ IsRefField(x[2]) /\ x[2][2] \notin Given(t)}
        self == <<"entry", Head(Mach.args)>>
    IN  /\ \A x \in Given(t) \ lost : net(x) = -1
        /\ \A x \in Borrowed(fn) : net(x) = 0
        /\ \A x \in fields : net(x) = CASE fn.kind = "dtor" -> -1
                                      [] fn.kind = "copier" -> 1
                                      [] OTHER -> -Cardinality(StoresTo(t, x[2]))
        /\ \A q \in DOMAIN t : t[q][1] = "store" /\ IsRefField(t[q][2]) /\ t[q][2][2] \notin Given(t)
              => \E x \in fields : x[2] = t[q][2]
        /\ fn.kind \in {"dtor", "copier"} => {x[2] : x \in fields}
              = {<<"at", self, AttrSlot(fn.class, a.name)>> : a \in {b \in Range(Classes[fn.class].attrs) : IsRef(b.type) /\ ~b.weak}}

\* What an event needs to be alive.
Needs(e) ==
    CASE e[1] = "call" -> {e[3][r] : r \in DOMAIN e[3]} \cup {e[2]}
      [] e[1] = "store" -> {e[2][2], e[3]}
      [] e[1] = "cond" -> {e[3]} \cup (IF e[4] = <<>> THEN {} ELSE {e[4]})
      [] OTHER -> {}

\* Nothing is used after its last reference is gone, and nothing borrowed is given up.
AliveWhenUsed(fn, t) ==
    \A q \in DOMAIN t : \A x \in Needs(t[q]) :
        Net(t, x, q - 1) >= IF Counted(t[q], "Object__refcount_dec", x) /\ x \in Borrowed(fn) THEN 1 ELSE 0

-----------------------------------------------------------------------------
(***************************************************************************)
(* Values of compound types live in the frame: a constructor, a copy or a  *)
(* function that returns one builds a value there, its destructor ends it. *)
(***************************************************************************)
CONSTANT Makers     \* label -> type, for the functions that return such values

Compounds == {c \in DOMAIN Classes : IsCompound(c)}
Passed(e) == {n \in DOMAIN Mach.args : Mach.args[n] \in DOMAIN e[3]}
LastArgument(e) == e[3][Mach.args[Max(Passed(e))]]

BuiltBy(e) ==
    IF e[1] # "call" \/ e[2][1] # "obj" THEN {}
    ELSE {<<Argument(e), c>> : c \in {d \in Compounds : e[2][2] \in {d \o "__init", d \o "__copy"}}}
         \cup (IF e[2][2] \in DOMAIN Makers THEN {<<LastArgument(e), Makers[e[2][2]]>>} ELSE {})
EndedBy(e) == {<<Argument(e), c>> : c \in {d \in Compounds : e[1] = "call" /\ e[2] = <<"obj", d \o "__dtor">>}}

\* What an event uses, the place of a value it builds aside.
PlaceFor(e) ==
    IF BuiltBy(e) = {} THEN {}
    ELSE IF e[2][2] \in DOMAIN Makers THEN {Mach.args[Max(Passed(e))]} ELSE {Head(Mach.args)}
UsedBy(e) == IF e[1] = "call" THEN {e[3][r] : r \in DOMAIN e[3] \ PlaceFor(e)} ELSE Needs(e)

SlotsAt(v) == {v[1][2] + n : n \in 0 .. Slots(v[2]) - 1}
InFrame(x) == x[1] = "frame"

\* A value is built where no other one is, used and ended while it is there,
\* and in the end only the one to return is left.
ValuesOwned(fn, t) ==
    LET step(st, e) ==
            LET used == {x \in UsedBy(e) : InFrame(x)}
                overlap == \E v \in BuiltBy(e), w \in st.live :
                              \/ v[1] = w[1]
                              \/ InFrame(v[1]) /\ InFrame(w[1]) /\ SlotsAt(v) \cap SlotsAt(w) # {}
            IN  [live |-> (st.live \ EndedBy(e)) \cup BuiltBy(e),
                 ok |-> st.ok /\ ~overlap /\ EndedBy(e) \subseteq st.live /\ used \subseteq {v[1] : v \in st.live}]
        end == FoldLeft(step, [live |-> {}, ok |-> TRUE], t)
    IN  end.ok /\ end.live = IF IsCompound(fn.type) THEN {<<ParamTerms(fn)["ret"], fn.type>>} ELSE {}
=============================================================================
