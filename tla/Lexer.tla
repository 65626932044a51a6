--------------------------------- MODULE Lexer ---------------------------------
(***************************************************************************)
(* The lexer (compiler/Lexer.cpp).  A text is a sequence of units: a run   *)
(* of letters, a run of digits, one punctuation character, one blank or    *)
(* one line feed; two runs without a blank between them are read together, *)
(* as the characters they stand for would be.  The lexer's state is its    *)
(* place in the text and the three flags that make the same character mean *)
(* different things: whether a line feed ends a statement, whether a       *)
(* comment is kept, how deep it is inside interpolated strings.            *)
(***************************************************************************)
EXTENDS Integers, SequencesExt

Digits == {"0", "1", "2", "99999999999999999999"}
AllCapitals == {"A", "B"}               \* runs of letters that hold no small one
Capitalised == {"Foo", "Int", "Object", "Void", "Array", "Error"}
HexLetters == {"a", "b", "f", "A", "B"}
Punctuation == {",", ".", "/", "%", "^", "|", "&", "*", "[", "]", "(", ")", "~", "{", "}", ">", "<", "=", "!",
                "+", "-", ":", "@", "'", "\"", "#", "\\", "?", ";", "$", "_"}
EOF == "EOF"
Small(u) == u \notin Digits \cup AllCapitals \cup Capitalised \cup Punctuation \cup {" ", "\n", EOF}
Upper == AllCapitals \cup Capitalised
WordPart(u) == u \in Digits \cup Upper \cup {"_"} \/ Small(u)

keyword_ == [w \in {"and", "else", "for", "fork", "func", "if", "in", "var", "embedded", "import", "let", "match",
                    "native", "not", "or", "private", "public", "ret", "until", "weak", "with", "while", "xor",
                    "yield", "is"} |->
    CASE w = "and" -> "AND" [] w = "else" -> "ELSE" [] w = "for" -> "FOR" [] w = "fork" -> "FORK"
      [] w = "func" -> "FUNC" [] w = "if" -> "IF" [] w = "in" -> "IN" [] w = "var" -> "VAR"
      [] w = "embedded" -> "EMBEDDED" [] w = "import" -> "IMPORT" [] w = "let" -> "LET" [] w = "match" -> "MATCH"
      [] w = "native" -> "NATIVE" [] w = "not" -> "NOT" [] w = "or" -> "OR" [] w = "private" -> "PRIVATE"
      [] w = "public" -> "PUBLIC" [] w = "ret" -> "RETURN" [] w = "until" -> "UNTIL" [] w = "weak" -> "WEAK"
      [] w = "with" -> "WITH" [] w = "while" -> "WHILE" [] w = "xor" -> "XORB" [] w = "yield" -> "YIELD"
      [] w = "is" -> "IS"]

\* Token::is_operator: the kinds after which a '/' begins a regular expression
\* and, of the keywords, those after which a line may be broken.
is_operator(kind) ==
    kind \in {"AND", "XORB", "ANDB", "ASSIGN", "EQUAL", "LESS", "GREATER", "LESS_OR_EQ", "COMPARE", "LEFT_SHIFT",
              "RIGHT_SHIFT", "IS", "ADD", "SUB", "MUL", "DIV", "MOD", "NOT", "POW", "INCREMENT", "DECREMENT",
              "LEFT_PARENS", "RIGHT_PARENS", "COMPL", "IF", "WHILE", "ELSE"}

Single == (","  :> "COMMA") @@ ("/" :> "DIV") @@ ("%" :> "MOD") @@ ("^" :> "XORB") @@ ("|" :> "ORB") @@ ("&" :> "ANDB")
    @@ ("*" :> "MUL") @@ ("[" :> "LEFT_BRACKET") @@ ("]" :> "RIGHT_BRACKET") @@ ("(" :> "LEFT_PARENS")
    @@ (")" :> "RIGHT_PARENS") @@ ("~" :> "COMPL") @@ ("{" :> "LEFT_BRACE") @@ ("}" :> "RIGHT_BRACE")
    @@ (">" :> "GREATER") @@ ("<" :> "LESS") @@ ("=" :> "ASSIGN") @@ ("!" :> "ERROR") @@ ("+" :> "ADD")
    @@ ("-" :> "SUB") @@ (":" :> "COLON")
Double == (<<"*", "*">> :> "POW") @@ (<<">", "=">> :> "GREATER_OR_EQ") @@ (<<">", ">">> :> "RIGHT_SHIFT")
    @@ (<<"<", "=">> :> "LESS_OR_EQ") @@ (<<"<", "<">> :> "LEFT_SHIFT") @@ (<<"=", "=">> :> "EQUAL")
    @@ (<<"=", "~">> :> "MATCH_OP") @@ (<<"!", "=">> :> "NOT_EQUAL") @@ (<<"+", "+">> :> "INCREMENT")
    @@ (<<"-", "-">> :> "DECREMENT") @@ (<<":", ":">> :> "SCOPE")

-----------------------------------------------------------------------------
At(text, i) == IF i \in 1 .. Len(text) THEN text[i] ELSE EOF
Value(text, i, j) == FoldLeft(LAMBDA v, u : v \o u, "", SubSeq(text, i, IF j > Len(text) THEN Len(text) ELSE j))
\* The first place from i on that does not hold a unit of P; the first that does.
Past(text, i, P(_)) == CHOOSE j \in i .. Len(text) + 1 : ~P(At(text, j)) /\ \A k \in i .. j - 1 : P(At(text, k))
UpTo(text, i, P(_)) == CHOOSE j \in i .. Len(text) + 1 :
    /\ P(At(text, j)) \/ j = Len(text) + 1
    /\ \A k \in i .. j - 1 : ~P(At(text, k))
Line(text, i) == 1 + Cardinality({k \in 1 .. i - 1 : At(text, k) = "\n"})

Fresh == [at |-> 1, ignoreNewline |-> TRUE, expectComment |-> FALSE, level |-> 0, last |-> "NONE",
          out |-> [t |-> "NONE", v |-> "", line |-> 1]]

\* The token of kind t from the current place up to (not including) j.
Take(text, s, j, t) ==
    [s EXCEPT !.at = j, !.out = [t |-> t, v |-> Value(text, s.at, j - 1), line |-> Line(text, s.at)]]
Trim(text, s, n, front, back) == [s EXCEPT !.out.v = Value(text, n + front, s.at - 1 - back)]
Ignore(s, b) == [s EXCEPT !.ignoreNewline = b]

comment(text, s) ==
    LET end == UpTo(text, s.at, LAMBDA u : u = "\n")
        body == Past(text, s.at + 1, LAMBDA u : u = " ")
        s1 == Take(text, s, end, IF s.expectComment THEN "COMMENT" ELSE "NONE")
        s2 == [s1 EXCEPT !.out.v = Value(text, body, end - 1)]
    IN  IF s.ignoreNewline /\ end <= Len(text) THEN [s2 EXCEPT !.at = end + 1] ELSE s2

\* The place after the closing quote q: a backslash takes the next unit with it.
RECURSIVE Closing(_, _, _)
Closing(text, i, q) ==
    CASE i > Len(text) -> 0             \* the file ends first: the loop never stops
      [] text[i] = q -> i + 1
      [] text[i] = "\\" -> Closing(text, i + 2, q)
      [] OTHER -> Closing(text, i + 1, q)

\* In a regular expression the unit after a backslash is still looked at.
regex(text, s) ==
    LET end == UpTo(text, s.at + 1, LAMBDA u : u = "/") + 1
    IN  IF end > Len(text) + 1 THEN [s EXCEPT !.out.t = "HANG"]
        ELSE Ignore(Trim(text, Take(text, s, end, "REGEX"), s.at, 1, 1), FALSE)

number_or_dot(text, s) ==
    LET whole == Past(text, s.at, LAMBDA u : u \in Digits)
        after == Past(text, whole + 1, LAMBDA u : u \in Digits)
        hex == Past(text, whole + 1, LAMBDA u : u \in Digits \cup HexLetters)
    IN  CASE At(text, whole) = "." /\ At(text, whole + 1) \notin Digits /\ whole = s.at -> Take(text, s, whole + 1, "DOT")
          [] At(text, whole) = "." /\ Small(At(text, whole + 1)) -> Ignore(Take(text, s, whole, "INTEGER"), FALSE)
          [] At(text, whole) = "." -> Ignore(Take(text, s, after, "FLOAT"), FALSE)
          [] At(text, whole) = "x" /\ Value(text, s.at, whole - 1) = "0" -> Ignore(Take(text, s, hex, "INTEGER"), FALSE)
          [] OTHER -> Ignore(Take(text, s, whole, "INTEGER"), FALSE)

type_or_const(text, s) ==
    LET end == Past(text, s.at, WordPart)
        isConst == \A k \in s.at .. end - 1 : text[k] \in AllCapitals \cup Digits \cup {"_"}
    IN  Ignore(Take(text, s, end, IF isConst THEN "CONSTANT" ELSE "TYPE"), FALSE)

ident_or_keyword(text, s) ==
    LET end == Past(text, s.at, WordPart)
        all == IF At(text, end) \in {"?", "!", "="} THEN end + 1 ELSE end
        v == Value(text, s.at, all - 1)
        kind == CASE v \in DOMAIN keyword_ -> keyword_[v]
                  [] v \in {"true", "false"} -> "BOOL"
                  [] v = "nil" -> "NIL"
                  [] v = "eof" -> "EOF_LITERAL"
                  [] OTHER -> "IDENTIFIER"
    IN  Ignore(Take(text, s, all, kind), v \in DOMAIN keyword_ /\ is_operator(kind))

special(text, s) == Ignore(Take(text, s, Past(text, s.at + 1, WordPart), "OPERATOR"), FALSE)

string_or_char(text, s) ==
    LET end == Closing(text, s.at + 1, "'")
        kind == IF At(text, end) = "c" THEN "CHAR" ELSE IF At(text, end) = "b" THEN "BYTE" ELSE "STRING"
    IN  IF end = 0 THEN [s EXCEPT !.out.t = "HANG"]
        ELSE IF kind = "STRING" THEN Ignore(Trim(text, Take(text, s, end, kind), s.at, 1, 1), FALSE)
        ELSE Ignore(Trim(text, Take(text, s, end + 1, kind), s.at, 1, 2), FALSE)

\* Where a double-quoted string stops: its quote, the end of the file, or the
\* brace of "#{".  What follows any other '#' is not looked at.
RECURSIVE StringStop(_, _)
StringStop(text, i) ==
    CASE At(text, i) \in {"\"", EOF} -> i
      [] At(text, i) = "#" /\ At(text, i + 1) = "{" -> i + 1
      [] At(text, i) \in {"#", "\\"} -> StringStop(text, i + 2)
      [] OTHER -> StringStop(text, i + 1)

AlwaysLeaves(s, continues) == [s EXCEPT !.level = @ - 1]
Leave(s, continues) == IF continues THEN [s EXCEPT !.level = @ - 1] ELSE s
string(text, s) ==
    LET continues == At(text, s.at) = "}"
        s1 == Leave(s, continues)
        stop == StringStop(text, s.at + 1)
        opens == At(text, stop) = "{"
    IN  IF opens THEN Ignore([Trim(text, Take(text, s1, stop + 1, "STRING_BEGIN"), s.at, 1, 2) EXCEPT !.level = @ + 1], TRUE)
        ELSE Ignore(Trim(text, Take(text, s1, stop + 1, IF continues THEN "STRING_END" ELSE "STRING"), s.at, 1, 1), FALSE)

operator_or_typevar(text, s) ==
    LET u == At(text, s.at)
        two == <<u, At(text, s.at + 1)>>
        s1 == Ignore(s, TRUE)
    IN  CASE u = "." -> number_or_dot(text, s1)
          [] u = "}" /\ s.level > 0 -> Ignore([string(text, s1) EXCEPT !.expectComment = FALSE], FALSE)
          [] u = "}" -> Ignore([Take(text, s1, s.at + 1, "RIGHT_BRACE") EXCEPT !.expectComment = FALSE], FALSE)
          [] u = "{" -> [Take(text, s1, s.at + 1, "LEFT_BRACE") EXCEPT !.expectComment = TRUE]
          [] u \in {"]", ")"} -> Ignore(Take(text, s1, s.at + 1, Single[u]), FALSE)
          [] two \in DOMAIN Double -> Take(text, s1, s.at + 2, Double[two])
          [] u \in DOMAIN Single \ {"]", ")", "{", "}"} -> Take(text, s1, s.at + 1, Single[u])
          [] OTHER -> Ignore(Take(text, s1, s.at + 1, "ERROR"), FALSE)

-----------------------------------------------------------------------------
Uncommented(s) == [s EXCEPT !.expectComment = FALSE]

\* One turn of the loop of next(); its order decides what a character means.
Turn(text, s) ==
    LET u == At(text, s.at)
    IN  CASE u = "\n" /\ ~s.ignoreNewline ->
                Ignore([Take(text, s, s.at + 1, "SEPARATOR") EXCEPT !.out.v = "", !.out.line = @ + 1], TRUE)
          [] u = "/" /\ is_operator(s.last) /\ s.last # "RIGHT_PARENS" -> Uncommented(regex(text, s))
          [] u \in Digits -> Uncommented(number_or_dot(text, s))
          [] u \in Upper -> Uncommented(type_or_const(text, s))
          [] Small(u) \/ u = "_" -> Uncommented(ident_or_keyword(text, s))
          [] u = "@" -> Uncommented(special(text, s))
          [] u = "\"" -> Uncommented(string(text, s))
          [] u = "'" -> Uncommented(string_or_char(text, s))
          [] u = "#" -> comment(text, s)
          [] u \in Punctuation \ {"_", "@", "\"", "'", "#"} -> operator_or_typevar(text, s)
          [] u \in {" ", "\n"} -> [s EXCEPT !.at = @ + 1]
          [] u = EOF -> Take(text, s, s.at, "END")

\* Lexer::next: turns until there is a token.
RECURSIVE next(_, _)
next(text, s) ==
    LET s1 == Turn(text, [s EXCEPT !.out.t = "NONE"])
    IN  IF s1.out.t = "NONE" THEN next(text, s1) ELSE [s1 EXCEPT !.last = s1.out.t]
=============================================================================
