------------------------------ MODULE MCTokens ------------------------------
(***************************************************************************)
(* All short strings over three sets of tokens, most of them no programs:  *)
(* those of expressions, of statements, and the remaining ones.            *)
(***************************************************************************)
EXTENDS Parser

MCLexemes == {"", "a", "1", "s"}

Spelling(t) ==
  CASE t = "L_IDENT" -> "a" [] t = "L_INTEGER" -> "1" [] t = "L_STRING" -> "s" [] OTHER -> ""

Alphabet ==
  << <<"L_IDENT", "L_LPAREN", "L_RPAREN", "L_EQ", "L_PLUS", "L_SEMICOLON", "L_COMMA">>,
     <<"L_IDENT", "L_IF", "L_ELSE", "L_RETURN", "L_LCURLY", "L_RCURLY", "L_SEMICOLON">>,
     <<"L_WHILE", "L_VAR", "L_EQ", "L_STRING", "L_INTEGER", "L_IDENT", "L_RPAREN">> >>

Program(ts) ==
  [params |-> <<"a">>, text |-> [i \in 1..Len(ts) |-> [t |-> ts[i], lexeme |-> Spelling(ts[i])]]]

\* All strings of five tokens over one of the alphabets, and three beginnings no
\* such string has: a condition, an else without one, and a call with too many
\* arguments.
Condition == <<"L_IF", "L_LPAREN", "L_IDENT", "L_RPAREN">>
ElseOfDeclaration == <<"L_VAR", "L_IDENT", "L_EQ", "L_ELSE">>
FourArguments == <<"L_IDENT", "L_LPAREN", "L_IDENT", "L_INTEGER", "L_INTEGER", "L_IDENT", "L_RPAREN">>
AnyPrograms ==
  {Program([i \in 1..5 |-> Alphabet[k][w[i]]]) : k \in 1..3, w \in [1..5 -> 1..7]}
  \cup {Program(s \o [i \in 1..3 |-> Alphabet[2][w[i]]]) :
           s \in {Condition, ElseOfDeclaration, FourArguments}, w \in [1..3 -> 1..7]}
=============================================================================
