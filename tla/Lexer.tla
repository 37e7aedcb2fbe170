-------------------------------- MODULE Lexer --------------------------------
(***************************************************************************)
(* The character lexer of arnel (src/lexer.c: __next_token and what it     *)
(* calls, with view_chopn and view_chop_predicate of src/bytes.h), in the  *)
(* build the Makefile makes (ARNEL_DEBUG_BUILD). A step is one call of     *)
(* __next_token.                                                           *)
(*                                                                         *)
(* The lexer holds a pointer into the text and the length of the rest. It  *)
(* looks at the length once, before a token; all else it finds by reading  *)
(* on, also past the end of the text, for the buffer of comp_file is as    *)
(* long as the file and has no zero at its end. What lies behind it is     *)
(* `beyond', in which some byte is zero.                                   *)
(*                                                                         *)
(* Letters the keywords have no use for are all "x"; "#" is any character  *)
(* the lexer has no case for; "0" is every digit. Blanks, quotes, commas   *)
(* and a few others go by their names.                                     *)
(***************************************************************************)
EXTENDS Integers, Sequences, FiniteSets

CONSTANTS
  Texts,     \* the texts to cut, sequences of characters
  Beyonds,   \* what may lie behind the text
  SizeMod    \* 2^w for the w bits of a size_t

NUL == "zero"

ASSUME TextsAssumption == Texts \subseteq Seq(STRING)
ASSUME BeyondsAssumption ==
  \A b \in Beyonds : b \in Seq(STRING) /\ b # <<>> /\ b[Len(b)] = NUL
ASSUME SizeModAssumption ==
  SizeMod \in Nat \ {0} /\ \A t \in Texts, b \in Beyonds : Len(t) + Len(b) < SizeMod

Blank   == {"blank", "newline"}
Digit   == {"0"}
Letter  == {"a", "c", "d", "e", "f", "g", "h", "i", "l", "n", "o", "p", "r", "s",
            "t", "u", "v", "w", "x", "underscore"}
WordChar == Letter \cup Digit

\* The function with these pairs of argument and value.
Table(pairs) == [k \in {p[1] : p \in pairs} |-> (CHOOSE p \in pairs : p[1] = k)[2]]

\* one_char_token, and the first character of the longer ones alone.
OneChar ==
  { <<"@", "L_DOG">>, <<"%", "L_PERCENT">>, <<"backslash", "L_BACKSLASH">>,
    <<"semicolon", "L_SEMICOLON">>, <<")", "L_RPAREN">>, <<"(", "L_LPAREN">>,
    <<"]", "L_RBRACK">>, <<"[", "L_LBRACK">>, <<"~", "L_TILDA">>,
    <<"backtick", "L_BACKTICK">>, <<"rcurly", "L_RCURLY">>, <<"lcurly", "L_LCURLY">>,
    <<":", "L_COLON">>, <<"comma", "L_COMMA">>, <<".", "L_DOT">>, <<"quot", "L_QUOT">>,
    <<"<", "L_LESS">>, <<">", "L_GREATER">>, <<"!", "L_BANG">>, <<"=", "L_EQ">>,
    <<"?", "L_QUESTION">>, <<"*", "L_STAR">>, <<"/", "L_DIV">>, <<"^", "L_HAT">>,
    <<"&", "L_REF">>, <<"|", "L_PIPE">>, <<"+", "L_PLUS">>, <<"-", "L_MINUS">> }
Alone == Table(OneChar)

\* two_char_tokens, three_char_tokens and the case of '-'.
TwoChars ==
  { <<<<"<", "=">>, "L_EQ_LESS">>, <<<<">", "=">>, "L_EQ_GREATER">>,
    <<<<"!", "=">>, "L_BANG_EQ">>, <<<<"=", "=">>, "L_EQ2">>,
    <<<<"?", ".">>, "L_QDOT">>, <<<<"*", "=">>, "L_MULT_EQ">>,
    <<<<"/", "=">>, "L_DIV_EQ">>, <<<<"^", "=">>, "L_HAT_EQ">>,
    <<<<"&", "&">>, "L_BAND">>, <<<<"&", "=">>, "L_BANG_EQ">>,
    <<<<"|", "|">>, "L_BOR">>, <<<<"|", "=">>, "L_BOR_EQ">>,
    <<<<"+", "+">>, "L_PLUS2">>, <<<<"+", "=">>, "L_PLUS_EQ">>,
    <<<<"-", "-">>, "L_MINUS2">>, <<<<"-", ">">>, "L_ARROW_R">>,
    <<<<"-", "=">>, "L_MINUS_EQ">> }
Both == Table(TwoChars)

\* check_kw and ident_check_kw: the whole word is compared.
Keywords ==
  Table({ <<<<"c", "o", "n", "s", "t">>, "L_CONST">>, <<<<"e", "l", "s", "e">>, "L_ELSE">>,
    <<<<"e", "x", "p", "o", "r", "t">>, "L_EXPORT">>, <<<<"i", "f">>, "L_IF">>,
    <<<<"n", "o", "t", "h", "i", "n", "g">>, "L_NOTHING">>,
    <<<<"t", "r", "u", "e">>, "L_TRUE">>,
    <<<<"r", "e", "t", "u", "r", "n">>, "L_RETURN">>,
    <<<<"v", "a", "r">>, "L_VAR">>, <<<<"v", "o", "i", "d">>, "L_VOID">>,
    <<<<"w", "h", "i", "l", "e">>, "L_WHILE">>,
    <<<<"f", "a", "l", "s", "e">>, "L_FALSE">>, <<<<"f", "o", "r">>, "L_FOR">> })

WordType(word) == IF word \in DOMAIN Keywords THEN Keywords[word] ELSE "L_IDENT"

VARIABLES
  text,    \* the text, never changed
  beyond,  \* what lies behind it, never changed
  at,      \* text.chars: the place of the next character
  left,    \* text.len: a size_t
  line,    \* the lines counted
  tok,     \* the last token: its type, the places it was cut from, its line
  lost     \* a string has run past everything known

vars == <<text, beyond, at, left, line, tok, lost>>
mem == text \o beyond

-----------------------------------------------------------------------------
\* The first place from i on whose character is not in the set.
Stop(set, i) ==
  CHOOSE j \in i..Len(mem) : mem[j] \notin set /\ \A k \in i..j-1 : mem[k] \in set

LeftUntrimmed(i) == (left - (i - Stop(Blank, at))) % SizeMod   \* mutant: as view_trim_left
LeftAt(i) == (left - (i - at)) % SizeMod

Breaks(i, j) == Cardinality({k \in i..j : mem[k] = "newline"})

\* trim_left. The character is looked at after the pointer has moved, so the
\* first blank is not counted; the word before it may have counted it.
Start == Stop(Blank, at)
CountedBefore == line + Breaks(at, Start - 1)         \* mutant: looked at first
LineAtStart == line + Breaks(at + 1, Start - 1)

\* The token found at Start, the pointer left at i.
Cut(type, i) ==
  /\ at' = i
  /\ left' = LeftAt(i)
  /\ tok' = [type |-> type, from |-> Start, to |-> i, line |-> LineAtStart]
  /\ UNCHANGED <<text, beyond, lost>>

Found(type, i) == Cut(type, i) /\ line' = LineAtStart

AtEnd == LeftAt(Start) = 0
EndOfText == AtEnd /\ Found("L_EOF", Start)

Ahead == IF AtEnd THEN NUL ELSE mem[Start]

\* A string ends at the next quote, wherever that is.
Quotes == {i \in Start+1..Len(mem) : mem[i] = "dquot"}

String ==
  /\ Ahead = "dquot" /\ Quotes # {}
  /\ \E q \in Quotes : (\A i \in Quotes : q =< i) /\ Found("L_STRING", q + 1)

NoQuote ==
  /\ Ahead = "dquot" /\ Quotes = {}
  /\ lost' = TRUE
  /\ UNCHANGED <<text, beyond, at, left, line, tok>>

\* lex_num. With a second dot it returns before the type is written and before
\* anything is taken.
NumberEnd == Stop(Digit \cup {"."}, Start)
DotsTwice == 2 * Cardinality({i \in Start..NumberEnd-1 : mem[i] = "."})   \* mutant: is_float set first
Dots == Cardinality({i \in Start..NumberEnd-1 : mem[i] = "."})

Number ==
  /\ Ahead \in Digit /\ Dots < 2
  /\ Found(IF Dots = 1 THEN "L_FLOAT" ELSE "L_INTEGER", NumberEnd)

BadNumber ==
  /\ Ahead \in Digit /\ Dots > 1
  /\ Found("uninitialised", Start)

\* The operators. view_chopn takes nothing of an empty view, which the second
\* of two characters can meet; the type is that of both all the same.
NextChar == mem[Start + 1]
FirstOnly == Start + 1                  \* mutant: the second one is left there
SecondTaken == IF LeftAt(Start + 1) = 0 THEN Start + 1 ELSE Start + 2

Operator ==
  /\ Ahead \in DOMAIN Alone
  /\ IF <<Ahead, NextChar>> \in DOMAIN Both
     THEN Found(Both[<<Ahead, NextChar>>], SecondTaken)
     ELSE Found(Alone[Ahead], Start + 1)

\* lex_word; the predicate counts the line break it stops at. A character that
\* begins no word either is the end of the text.
NoUnderscore == Stop(WordChar \ {"underscore"}, Start)   \* mutant: isalnum alone
WordEnd == Stop(WordChar, Start)

Word ==
  /\ Ahead \in Letter
  /\ Cut(WordType(SubSeq(mem, Start, WordEnd - 1)), WordEnd)
  /\ line' = LineAtStart + Breaks(WordEnd, WordEnd)

Strange ==
  /\ ~ AtEnd
  /\ Ahead \notin WordChar \cup DOMAIN Alone \cup {"dquot"}
  /\ Found("L_EOF", Start)

\* lexer_init.
Init ==
  /\ text \in Texts
  /\ beyond \in Beyonds
  /\ at = 1
  /\ left = Len(text)
  /\ line = 0
  /\ tok = [type |-> "none", from |-> 1, to |-> 1, line |-> 0]
  /\ lost = FALSE

\* __next_token.
Next ==
  \/ EndOfText \/ String \/ NoQuote \/ Number \/ BadNumber
  \/ Operator \/ Word \/ Strange

\* The parser goes on taking tokens until it is given L_EOF.
Spec == Init /\ [][Next]_vars /\ WF_vars(Next)

-----------------------------------------------------------------------------
(***************************************************************************)
(* Properties.                                                             *)
(***************************************************************************)

\* The texts the lexer can cut without leaving them: every string is closed
\* and the byte behind the text is zero.
Contained ==
  /\ Cardinality({i \in 1..Len(text) : text[i] = "dquot"}) % 2 = 0
  /\ beyond[1] = NUL

\* The pointer and the length, moved by separate assignments in every handler,
\* agree: the length is that of the rest of the text, modulo the width of a
\* size_t once the lexer reads behind it, and in a text it can cut without
\* leaving it the lexer never does (lexer.c:127-128, 153-165, 35-36,
\* bytes.h:40-66).
ViewIsTheRest ==
  /\ left = (Len(text) + 1 - at) % SizeMod
  /\ Contained => at =< Len(text) + 1 /\ ~ lost

\* What is an operator, a word, a number or a string.
IsToken(s) ==
  \/ Len(s) = 1 /\ s[1] \in DOMAIN Alone
  \/ s \in DOMAIN Both
  \/ s[1] \in Letter /\ \A i \in 1..Len(s) : s[i] \in WordChar
  \/ /\ s[1] \in Digit /\ \A i \in 1..Len(s) : s[i] \in Digit \cup {"."}
     /\ Cardinality({i \in 1..Len(s) : s[i] = "."}) < 2
  \/ /\ Len(s) > 1
     /\ {i \in 1..Len(s) : s[i] = "dquot"} = {1, Len(s)}

\* The last character of the text and the one behind it read as one operator:
\* view_chopn takes the first only.
Split == tok.to = Len(text) + 1 /\ SubSeq(mem, tok.from, tok.to) \in DOMAIN Both

\* The place of the last character a token was told by.
LastRead == IF Split THEN tok.to ELSE tok.to - 1

\* A token is as long as it can be, in the text and in what is read behind it:
\* its characters are a token, and no longer piece from the same place is.
LongestMatch ==
  tok.type \notin {"none", "L_EOF", "uninitialised"} =>
    /\ IsToken(SubSeq(mem, tok.from, LastRead))
    /\ \A j \in LastRead+1..Len(mem) : ~ IsToken(SubSeq(mem, tok.from, j))

\* How the operators the grammar knows are written.
Spelling ==
  [ L_PLUS |-> <<"+">>, L_MINUS |-> <<"-">>, L_STAR |-> <<"*">>, L_DIV |-> <<"/">>,
    L_EQ |-> <<"=">>, L_EQ2 |-> <<"=", "=">>, L_BANG_EQ |-> <<"!", "=">>,
    L_ARROW_R |-> <<"-", ">">>, L_COLON |-> <<":">>, L_COMMA |-> <<"comma">>,
    L_SEMICOLON |-> <<"semicolon">>, L_LPAREN |-> <<"(">>, L_RPAREN |-> <<")">>,
    L_LCURLY |-> <<"lcurly">>, L_RCURLY |-> <<"rcurly">> ]

\* The parser is told an operator of its grammar only where it was read, and
\* where it was read nothing else is told; but for "&=", which is given the type
\* of "!=" (lexer.c:224).
SpelledAsTold ==
  tok.to > tok.from =>
    LET read == SubSeq(mem, tok.from, LastRead) IN
    \A t \in DOMAIN Spelling : (tok.type = t) <=>
      (read = Spelling[t] \/ (t = "L_BANG_EQ" /\ read = <<"&", "=">>))

\* The line told for a token is never beyond its own, and is its own if every
\* line break follows a blank or a word: the two places that count, trim_left
\* and the predicate of lex_word, never count one twice.
LineNumber ==
  Contained =>
    LET breaks == {i \in 1..tok.from-1 : text[i] = "newline"} IN
    /\ tok.line =< Cardinality(breaks)
    /\ (\A i \in breaks : i > 1 /\ text[i-1] \in Blank \cup Letter)
         /\ (\A i \in 1..tok.from-1 : text[i] # "dquot")
       => tok.line = Cardinality(breaks)

\* A number with a second dot begins here.
SecondDot(i) ==
  /\ mem[i] \in Digit
  /\ \E j, k \in i+1..Len(mem) :
       /\ j < k /\ mem[j] = "." /\ mem[k] = "."
       /\ \A n \in i..k : mem[n] \in Digit \cup {"."}

\* The lexer comes to the end of the text or to a character it has no case for,
\* which is told as the end (lexer.c:119); or it stays for ever at a number with
\* a second dot, whose type is never written (lexer.c:28-30), or in a string
\* that nothing closes (lexer.c:157).
ReachesTheEnd ==
  \/ <>(tok.type = "L_EOF" /\ (at > Len(text) \/ text[at] = "#"))
  \/ <>[](tok.type = "uninitialised" /\ SecondDot(at))
  \/ <>[](lost /\ Quotes = {})
=============================================================================
