------------------------------ MODULE TrimNode ------------------------------
(***************************************************************************)
(* The reader of the configuration (common/json5/json5.go), which blanks   *)
(* comments and commas before a closing bracket so that what is left is    *)
(* JSON, against a definition by a lexer.  Texts are sequences of Chars:   *)
(* "q" is the quote, "e" the backslash, "n" the newline, "}" any closing   *)
(* bracket, "x" anything that has no meaning here.                         *)
(***************************************************************************)
EXTENDS Naturals, Sequences, SequencesExt, FiniteSetsExt

CONSTANT MaxLen  \* bound: length of the texts

Chars == {"q", "e", "/", "*", ",", "}", "n", "x"}

Blank == " "

Blanked(s, is) == [k \in DOMAIN s |-> IF k \in is THEN Blank ELSE s[k]]

----------------------------------------------------------------------------
(* The code.  Pairs of a text and a position.                              *)

\* After a star that does not end the comment the next character is passed over, and kept.
RECURSIVE Block(_, _)
Block(s, i) ==
    IF i > Len(s) THEN <<s, i>>
    ELSE IF s[i] # "*" THEN Block(Blanked(s, {i}), i + 1)
    ELSE IF i < Len(s) /\ s[i + 1] = "/" THEN <<Blanked(s, {i, i + 1}), i + 1>>
    ELSE Block(Blanked(s, {i}), i + 2)

\* i is the position after a slash.
consumeComment(s, i) ==
    IF i <= Len(s) /\ s[i] = "/"
    THEN LET nl == Min({j \in i..Len(s) : s[j] = "n"} \cup {Len(s) + 1})
         IN <<Blanked(s, (i - 1)..(nl - 1)), nl>>
    ELSE IF i <= Len(s) /\ s[i] = "*"
    THEN Block(Blanked(s, {i - 1, i}), i)
    ELSE <<s, i>>

\* Mutant: a backslash does not escape the quote.
StringEndPlain(s, i) == Min({j \in i..Len(s) : s[j] = "q"} \cup {Len(s)}) + 1

RECURSIVE StringEnd(_, _)
StringEnd(s, i) ==
    IF i > Len(s) THEN i
    ELSE IF s[i] = "q" THEN i + 1
    ELSE IF s[i] = "e" THEN StringEnd(s, i + 2)
    ELSE StringEnd(s, i + 1)

\* j is the comma, i the position looked at.
RECURSIVE Comma(_, _, _)
Comma(s, j, i) ==
    IF i > Len(s) THEN <<s, i>>
    ELSE IF s[i] = "}" THEN <<Blanked(s, {j}), i>>
    ELSE IF s[i] = "/" THEN LET r == consumeComment(s, i + 1) IN Comma(r[1], j, r[2] + 1)
    ELSE IF s[i] \in {"n", Blank} THEN Comma(s, j, i + 1)
    ELSE <<s, i>>

RECURSIVE prep(_, _)
prep(s, i) ==
    IF i > Len(s) THEN s
    ELSE IF s[i] = "q" THEN prep(s, StringEnd(s, i + 1))
    ELSE IF s[i] = "/" THEN LET r == consumeComment(s, i + 1) IN prep(r[1], r[2])
    ELSE IF s[i] = "," THEN LET r == Comma(s, i, i + 1) IN prep(r[1], r[2])
    ELSE prep(s, i + 1)

----------------------------------------------------------------------------
(* The reference: a lexer that marks every character as part of a string,  *)
(* of a comment, or of neither.  stars: a block comment has a star that    *)
(* does not end it; stray: a slash that begins no comment.                 *)

Start == [mode |-> "code", comment |-> {}, commas |-> {}, at |-> 1, stars |-> FALSE, stray |-> FALSE]

Lex(a, c) ==
    LET to(m) == [a EXCEPT !.mode = m, !.at = @ + 1]
        blank(m) == [to(m) EXCEPT !.comment = @ \cup {a.at}]
        code == CASE c = "q" -> to("string")
                  [] c = "/" -> to("slash")
                  [] c = "," -> [to("code") EXCEPT !.commas = @ \cup {a.at}]
                  [] OTHER -> to("code") IN
    CASE a.mode = "code" -> code
      [] a.mode = "string" -> to(CASE c = "q" -> "code" [] c = "e" -> "escape" [] OTHER -> "string")
      [] a.mode = "escape" -> to("string")
      [] a.mode = "slash" ->
            IF c \in {"/", "*"}
            THEN [blank(IF c = "/" THEN "line" ELSE "block") EXCEPT !.comment = @ \cup {a.at - 1}]
            ELSE [code EXCEPT !.stray = TRUE]
      [] a.mode = "line" -> IF c = "n" THEN to("code") ELSE blank("line")
      [] a.mode = "block" -> blank(IF c = "*" THEN "star" ELSE "block")
      [] a.mode = "star" ->
            [blank(CASE c = "/" -> "code" [] c = "*" -> "star" [] OTHER -> "block")
             EXCEPT !.stars = @ \/ c # "/"]

Lexed(s) == FoldLeft(Lex, Start, s)

\* Strings and comments are closed, and a slash begins a comment.
WellFormed(s) == LET l == Lexed(s) IN l.mode \in {"code", "line"} /\ ~l.stray

Reference(s) ==
    LET l == Lexed(s)
        t == Blanked(s, l.comment)
        trailing == {j \in l.commas :
                        \E k \in (j + 1)..Len(t) : t[k] = "}" /\ \A m \in (j + 1)..(k - 1) : t[m] \in {"n", Blank}} IN
    Blanked(t, trailing)

----------------------------------------------------------------------------
VARIABLES text, result, done

textVars == <<text, result, done>>

TextInit == (\E n \in 0..MaxLen : text \in [1..n -> Chars]) /\ result = text /\ done = FALSE

\* The first Read cleans the whole text.
Read == ~done /\ done' = TRUE /\ result' = prep(text, 1) /\ UNCHANGED text

TextSpec == TextInit /\ [][Read]_textVars

(* On a text without a star inside a block comment, the reader blanks       *)
(* exactly the comments and the trailing commas, also those with comments   *)
(* between them and the bracket, and nothing inside strings.                *)
TrimsCommentsAndCommas ==
    done /\ WellFormed(text) /\ ~Lexed(text).stars => result = Reference(text)
=============================================================================
