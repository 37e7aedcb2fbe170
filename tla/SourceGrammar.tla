---------------------------- MODULE SourceGrammar ----------------------------
(***************************************************************************)
(* The source programs the runs of the parser start from, as trees in the  *)
(* layout the parser gives them (Parser.tla), with the way each tree is    *)
(* written down. Writing is the reference: parsing what Tokens(tree) gives *)
(* must build the tree again.                                              *)
(*                                                                         *)
(* The language is the one main.ar is written in: integer expressions with *)
(* explicit parentheses, calls, declarations, assignments, conditionals,   *)
(* loops and returns. Excluded(tree) names the forms of it the parser does *)
(* not take apart as written.                                              *)
(***************************************************************************)
EXTENDS Integers, Sequences, SequencesExt

LOCAL P == INSTANCE Parser WITH Lexemes <- {}, Programs <- {},
  program <- 0, at <- 0, nodes <- <<>>, values <- <<>>, operators <- <<>>,
  saved <- <<>>, strings <- <<>>, pc <- "", body <- <<>>

T(type, lexeme, kids) == [t |-> type, lexeme |-> lexeme, kids |-> kids]
None == T("NULL", "", <<>>)

Lit(n)         == T("A_INT_LITERAL", n, <<>>)
Str(s)         == T("A_STR_LITERAL", s, <<>>)
Name(x)        == T("A_IDENT", x, <<>>)
Bin(op, l, r)  == T(op, "", <<r, l>>)
Call(f, args)  == T("A_CALL_FINISHED", f, Reverse(args))
Void           == T("EXPR_TO_VOID", "", <<>>)
VarDecl(x)     == T("A_DECL_LOCAL", x, <<>>)
VarInit(x, e)  == T("A_DECL_ASSIGNMENT", x, <<e>>)
Set(x, e)      == T("A_ASSIGNMENT", "", <<Name(x), e>>)
Ret(e)         == T("A_RET", "", <<e>>)
Block(vs)      == T("A_BLOCK", "", vs)
IfThen(c, b)   == T("A_COND", "", <<c, b, None>>)
IfElse(c, b, d) == T("A_COND", "", <<c, b, d>>)
Loop(c, b)     == T("A_WHILE", "", <<c, b>>)

\* An expression used as a statement is followed by its void mark.
Discards(e) == e.t \in P!BinaryTypes \cup
  {"A_INT_LITERAL", "A_STR_LITERAL", "A_IDENT", "A_CALL_FINISHED", "A_ASSIGNMENT"}
Statement(e) == IF Discards(e) THEN <<e, Void>> ELSE <<e>>
Body(stmts)  == FlattenSeq([i \in 1..Len(stmts) |-> Statement(stmts[i])])
BlockOf(stmts) ==
  LET vs == Body(stmts) IN Block(IF Last(vs) = Void THEN Front(vs) ELSE vs)

-----------------------------------------------------------------------------
Tk(type) == <<[t |-> type, lexeme |-> ""]>>
Spelled(type, lexeme) == <<[t |-> type, lexeme |-> lexeme]>>

OperatorToken(op) == CHOOSE k \in DOMAIN P!BinaryNode : P!BinaryNode[k] = op
Paren(ts) == Tk("L_LPAREN") \o ts \o Tk("L_RPAREN")

\* Written precedence: comparisons are looser than the arithmetic operators,
\* which all bind alike; both kinds group to the left.
Level(e) == IF e.t \in P!BinaryTypes THEN P!Prec[e.t] ELSE P!PREC_PRIMARY

\* A comparison whose right side is bare arithmetic, to the left of another
\* comparison, is written in parentheses.
NeedsParen(op, e, side) ==
  \/ Level(e) < P!Prec[op]
  \/ side = "right" /\ Level(e) = P!Prec[op]
  \/ side = "left" /\ Level(e) = P!PREC_COMPARISON /\ P!Prec[op] = P!PREC_COMPARISON
                   /\ Level(e.kids[1]) = P!PREC_TERM

RECURSIVE Tokens(_), Separated(_)
Separated(ss) ==
  IF ss = <<>> THEN <<>>
  ELSE IF Len(ss) = 1 THEN ss[1]
  ELSE ss[1] \o Tk("L_COMMA") \o Separated(Tail(ss))

Written(op, e, side) ==
  IF NeedsParen(op, e, side) THEN Paren(Tokens(e)) ELSE Tokens(e)

\* An operator expression is parenthesised unless it is the last argument.
Arguments(args) ==
  Separated([i \in 1..Len(args) |->
     IF args[i].t \in P!BinaryTypes /\ i # Len(args)
     THEN Paren(Tokens(args[i])) ELSE Tokens(args[i])])

\* The statements of a body or block: a void mark and the end of a block
\* are written as the same semicolon.
Lines(vs) ==
  FlattenSeq([i \in 1..Len(vs) |->
    IF vs[i] = Void THEN Tk("L_SEMICOLON")
    ELSE IF Discards(vs[i]) /\ i < Len(vs) THEN Tokens(vs[i])
    ELSE Tokens(vs[i]) \o Tk("L_SEMICOLON")])

Tokens(e) ==
  CASE e.t \in P!BinaryTypes ->
         Written(e.t, e.kids[2], "left") \o Tk(OperatorToken(e.t))
           \o Written(e.t, e.kids[1], "right")
    [] e.t = "A_INT_LITERAL" -> Spelled("L_INTEGER", e.lexeme)
    [] e.t = "A_STR_LITERAL" -> Spelled("L_STRING", e.lexeme)
    [] e.t = "A_IDENT" -> Spelled("L_IDENT", e.lexeme)
    [] e.t = "A_CALL_FINISHED" ->
         Spelled("L_IDENT", e.lexeme) \o Paren(Arguments(Reverse(e.kids)))
    [] e.t = "A_ASSIGNMENT" -> Tokens(e.kids[1]) \o Tk("L_EQ") \o Tokens(e.kids[2])
    [] e.t = "A_DECL_LOCAL" -> Tk("L_VAR") \o Spelled("L_IDENT", e.lexeme)
    [] e.t = "A_DECL_ASSIGNMENT" ->
         Tk("L_VAR") \o Spelled("L_IDENT", e.lexeme) \o Tk("L_EQ") \o Tokens(e.kids[1])
    [] e.t = "A_RET" -> Tk("L_RETURN") \o Tokens(e.kids[1])
    [] e.t = "A_BLOCK" -> Tk("L_LCURLY") \o Lines(e.kids) \o Tk("L_RCURLY")
    [] e.t = "A_WHILE" ->
         Tk("L_WHILE") \o Paren(Tokens(e.kids[1])) \o Tokens(e.kids[2])
    [] e.t = "A_COND" ->
         Tk("L_IF") \o Paren(Tokens(e.kids[1])) \o Tokens(e.kids[2])
           \o (IF e.kids[3] = None THEN <<>> ELSE Tk("L_ELSE") \o Tokens(e.kids[3]))

(***************************************************************************)
(* Declarations. A type is a name, or a signature: parameters, each with a *)
(* name and a type, and one result.                                        *)
(***************************************************************************)
TypeNamed(x)              == [name |-> x, params |-> <<>>, result |-> <<>>]
SignatureOf(params, type) == [name |-> "", params |-> params, result |-> <<type>>]
Param(x, type)            == [name |-> x, type |-> type]
IsSignature(type)         == type.result # <<>>
IntType                   == TypeNamed("int")
NoType                    == TypeNamed("__bad_type")  \* written as a token that begins no type
Ints(names)               == [i \in 1..Len(names) |-> Param(names[i], IntType)]

\* Every parameter that is written in a type, also in a nested signature:
\* all of them are parameters of the body.
RECURSIVE Params(_), TypeTokens(_)
Params(type) ==
  IF IsSignature(type)
  THEN FlattenSeq([i \in 1..Len(type.params) |->
                     <<type.params[i].name>> \o Params(type.params[i].type)])
         \o Params(type.result[1])
  ELSE <<>>

TypeTokens(type) ==
  IF IsSignature(type)
  THEN Paren(Separated([i \in 1..Len(type.params) |->
               Spelled("L_IDENT", type.params[i].name) \o Tk("L_COLON")
                 \o TypeTokens(type.params[i].type)]))
         \o Tk("L_COLON") \o TypeTokens(type.result[1])
  ELSE IF type = NoType THEN Spelled("L_INTEGER", "1") ELSE Spelled("L_IDENT", type.name)

Declaration(name, exported, type, stmts) ==
  [ name |-> name, exported |-> exported, type |-> type,
    body |-> LET ps == Params(type) IN [i \in 1..Len(ps) |-> VarDecl(ps[i])] \o Body(stmts),
    text |-> (IF exported THEN Tk("L_EXPORT") ELSE <<>>)
               \o Spelled("L_IDENT", name) \o Tk("L_EQ") \o TypeTokens(type)
               \o Tk("L_ARROW_R") \o Tk("L_LCURLY")
               \o Lines(Body(stmts)) \o Tk("L_RCURLY") \o Tk("L_SEMICOLON") ]

\* A file, and the declarations it must be read as.
File(ds) ==
  [ params |-> <<>>, text |-> FlattenSeq([i \in 1..Len(ds) |-> ds[i].text]),
    tree |-> [i \in 1..Len(ds) |->
                [name |-> ds[i].name, exported |-> ds[i].exported, type |-> ds[i].type, body |-> ds[i].body]] ]

\* The file of one function of integers.
Function(params, stmts) ==
  File(<<Declaration("f", TRUE, SignatureOf(Ints(params), IntType), stmts)>>)

-----------------------------------------------------------------------------
(***************************************************************************)
(* Forms the parser does not read as written:                              *)
(*  - `x * (y + 1)': an identifier before `(' becomes a call, whatever     *)
(*    stands between them; the same for `f(x, (y + 1), z)';                *)
(*  - `var x = a + b': the initialiser is only the first operand;          *)
(*  - `x = if ...', `1 + if ...': the semicolon does not finish the        *)
(*    operators under a conditional.                                       *)
(***************************************************************************)
StartsWithParen(ts) == ts # <<>> /\ ts[1].t = "L_LPAREN"

NameBeforeParen(e) ==
  \/ /\ e.t \in P!BinaryTypes
     /\ e.kids[2].t = "A_IDENT"
     /\ StartsWithParen(Written(e.t, e.kids[1], "right"))
  \/ /\ e.t = "A_CALL_FINISHED"
     /\ LET args == Reverse(e.kids)
        IN \E i \in 1..Len(args)-1 :
             /\ args[i].t = "A_IDENT"
             /\ \/ args[i+1].t \in P!BinaryTypes /\ i + 1 # Len(args)
                \/ StartsWithParen(Tokens(args[i+1]))

RECURSIVE Excluded(_)
Excluded(e) ==
  \/ NameBeforeParen(e)
  \/ e.t = "A_DECL_ASSIGNMENT" /\ e.kids[1].t \in P!BinaryTypes
  \/ e.t \notin {"A_RET", "A_BLOCK"} /\ \E i \in 1..Len(e.kids) :
        e.kids[i].t = "A_COND"
  \/ \E i \in 1..Len(e.kids) : Excluded(e.kids[i])
=============================================================================
