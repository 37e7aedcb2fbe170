------------------------------- MODULE Parser -------------------------------
(***************************************************************************)
(* The body parser of arnel (src/parser.c: __parse, sub_expr and the loop  *)
(* of parse_top_level that calls them): Dijkstra's shunting yard over two  *)
(* stacks of AST node pointers, `values' and `operators'.                  *)
(*                                                                         *)
(* AST nodes are C objects the code shares by pointer and changes in       *)
(* place, so they live in a heap: the sequence `nodes', where a pointer    *)
(* is an index, NULL is 0 and a malloc-ed slot nobody wrote is Uninit.     *)
(*                                                                         *)
(* A step handles one token, or makes one round of a while loop of the     *)
(* handler of that token; a token is consumed by the last of these steps,  *)
(* as the next_token() under the label `out' does.                         *)
(***************************************************************************)
EXTENDS Integers, Sequences, SequencesExt

CONSTANTS
  Lexemes,   \* the spellings of identifiers, numbers and strings
  Programs   \* the function bodies to parse: parameter names and tokens

NULL   == 0
Uninit == -1

TokenTypes ==
  { "L_IDENT", "L_INTEGER", "L_STRING", "L_PLUS", "L_MINUS", "L_STAR",
    "L_DIV", "L_EQ2", "L_BANG_EQ", "L_EQ", "L_LPAREN", "L_RPAREN",
    "L_LCURLY", "L_RCURLY", "L_SEMICOLON", "L_COMMA", "L_IF", "L_ELSE",
    "L_WHILE", "L_RETURN", "L_VAR", "L_COLON", "L_ARROW_R", "L_EXPORT",
    "L_LOCAL", "L_EOF" }

Token == [t : TokenTypes, lexeme : Lexemes]

\* A program has at least the fields the parser reads.
ASSUME LexemesAssumption == "" \in Lexemes
ASSUME ProgramsAssumption ==
  \A p \in Programs : p.params \in Seq(Lexemes) /\ p.text \in Seq(Token)

(***************************************************************************)
(* enum ast_type_t and enum prec_t. Every node type is created with one    *)
(* precedence, so a node needs no field for it. The four types of prec     *)
(* PREC_STMT that reach the operator stack are all created with ready = 1. *)
(***************************************************************************)
PREC_STMT       == 0
PREC_NONE       == 1
PREC_ASSIGNMENT == 2
PREC_COMPARISON == 6
PREC_TERM       == 7
PREC_CALL       == 10
PREC_PRIMARY    == 11

Prec ==
  [ A_INT_PLUS |-> PREC_TERM, A_INT_MINUS |-> PREC_TERM,
    A_INT_MUL |-> PREC_TERM, A_INT_DIV |-> PREC_TERM,
    A_INT_EQ |-> PREC_COMPARISON, A_INT_NEQ |-> PREC_COMPARISON,
    A_ASSIGNMENT |-> PREC_ASSIGNMENT, A_DECL_ASSIGNMENT |-> PREC_PRIMARY,
    A_IDENT |-> PREC_PRIMARY, A_CALL |-> PREC_CALL,
    A_CALL_FINISHED |-> PREC_NONE, A_INT_LITERAL |-> PREC_NONE,
    A_STR_LITERAL |-> PREC_NONE, A_OPEN_PAREN |-> PREC_NONE,
    A_RET |-> PREC_STMT, A_COND |-> PREC_STMT, A_WHILE |-> PREC_STMT,
    A_ELSE_CLAUSE |-> PREC_STMT, A_BLOCK |-> PREC_STMT,
    A_DECL_LOCAL |-> PREC_STMT, EXPR_TO_VOID |-> PREC_STMT ]

AstTypes == DOMAIN Prec

\* The operator a token stands for (the instances of the BINARY macro).
BinaryNode ==
  [ L_PLUS |-> "A_INT_PLUS", L_STAR |-> "A_INT_MUL", L_EQ2 |-> "A_INT_EQ",
    L_BANG_EQ |-> "A_INT_NEQ", L_MINUS |-> "A_INT_MINUS",
    L_DIV |-> "A_INT_DIV" ]

BinaryTypes == { "A_INT_PLUS", "A_INT_MINUS", "A_INT_MUL", "A_INT_DIV",
                 "A_INT_EQ", "A_INT_NEQ" }

\* What sub_expr can finish; it leaves the process for anything else.
Reducible == BinaryTypes \cup {"A_ASSIGNMENT", "A_DECL_ASSIGNMENT", "A_RET"}

Node == [t : AstTypes, lexeme : Lexemes, kids : Seq(Int)]

\* How many children the code generator finds in a node of a type.
Arity ==
  [ A_INT_PLUS |-> 2, A_INT_MINUS |-> 2, A_INT_MUL |-> 2, A_INT_DIV |-> 2,
    A_INT_EQ |-> 2, A_INT_NEQ |-> 2, A_ASSIGNMENT |-> 2,
    A_DECL_ASSIGNMENT |-> 1, A_RET |-> 1, A_COND |-> 3, A_WHILE |-> 2 ]

VARIABLES
  program,    \* the function being parsed, never changed
  at,         \* how many of its tokens next_token() has delivered
  nodes,      \* the heap of ast_t
  values,     \* parser_t.values, bottom first
  operators,  \* parser_t.operators, bottom first
  saved,      \* the stacks put aside by the blocks now open, outermost first
  strings,    \* parser_t.block: the string literals, for the data section
  pc,         \* "parse", "closing" (inside the do-while of a semicolon), or
              \* how the parse ended: "done", "exit69", "segv", "corrupt"
  body        \* symbol_t.as.body.nodes, set when pc becomes "done"

vars == <<program, at, nodes, values, operators, saved, strings, pc, body>>

-----------------------------------------------------------------------------
\* The lexer, as the parser sees it: L_EOF for ever after the last token.
Peek(k) ==
  IF at + k <= Len(program.text) THEN program.text[at + k]
                                 ELSE [t |-> "L_EOF", lexeme |-> ""]
Tok == Peek(1).t
Consume(n) == at' = at + n

Fresh == Len(nodes) + 1
NewNode(t, lexeme, kids) == [t |-> t, lexeme |-> lexeme, kids |-> kids]

\* The heap after `id->children[k] = kid'.
SetKid(heap, id, k, kid) == [heap EXCEPT ![id].kids[k] = kid]

\* pop_ast, which answers NULL on an empty stack and then leaves it alone.
Popped(s) == IF s = <<>> THEN NULL ELSE Last(s)
Rest(s)   == IF s = <<>> THEN <<>> ELSE Front(s)

TypeOf(id) == nodes[id].t
TopIs(s, types) == s # <<>> /\ TypeOf(Last(s)) \in types
NotReturn  == {"A_COND", "A_WHILE", "A_ELSE_CLAUSE"}    \* mutant
Statements == {t \in AstTypes : Prec[t] = PREC_STMT}

Stop(how) ==
  /\ pc' = how
  /\ UNCHANGED <<program, at, nodes, values, operators, saved, strings, body>>

(***************************************************************************)
(* sub_expr: the top operator takes its operands from the value stack and  *)
(* becomes a value. The right operand is popped first: it is child 1.      *)
(***************************************************************************)
Operands(id) ==
  LET kids == nodes[id].kids
      t    == TypeOf(id)
  IN  CASE t \in BinaryTypes -> <<Popped(values), Popped(Rest(values))>>
        [] t = "A_ASSIGNMENT" -> <<kids[1], Popped(values)>>
        [] t \in {"A_DECL_ASSIGNMENT", "A_RET"} -> <<Popped(values)>>

LeftAfterOne(id) == Rest(values)      \* mutant: the left operand stays
LeftAfter(id) ==
  IF TypeOf(id) \in BinaryTypes THEN Rest(Rest(values)) ELSE Rest(values)

ResultOperand(prev) == Popped(values) \* mutant: the operand is pushed back
Result(prev) == prev

Reduced ==
  LET prev == Last(operators)
  IN  [ nodes     |-> [nodes EXCEPT ![prev].kids = Operands(prev)],
        values    |-> Append(LeftAfter(prev), Result(prev)),
        operators |-> Front(operators) ]

SubExpr ==
  /\ operators # <<>>
  /\ \/ /\ TopIs(operators, Reducible)
        /\ nodes' = Reduced.nodes
        /\ values' = Reduced.values
        /\ operators' = Reduced.operators
        /\ UNCHANGED <<program, at, saved, strings, pc, body>>
     \/ /\ ~ TopIs(operators, Reducible)
        /\ Stop("exit69")

-----------------------------------------------------------------------------
\* Tokens that only push a node on one of the stacks.
PushValue(node) ==
  /\ nodes' = Append(nodes, node)
  /\ values' = Append(values, Fresh)
  /\ UNCHANGED operators

PushOperator(node) ==
  /\ nodes' = Append(nodes, node)
  /\ operators' = Append(operators, Fresh)
  /\ UNCHANGED values

Reads(token) == pc = "parse" /\ Tok = token

Ident ==
  /\ Reads("L_IDENT")
  /\ PushValue(NewNode("A_IDENT", Peek(1).lexeme, <<>>))
  /\ Consume(1)
  /\ UNCHANGED <<program, saved, strings, pc, body>>

Integer ==
  /\ Reads("L_INTEGER")
  /\ PushValue(NewNode("A_INT_LITERAL", Peek(1).lexeme, <<>>))
  /\ Consume(1)
  /\ UNCHANGED <<program, saved, strings, pc, body>>

String ==
  /\ Reads("L_STRING")
  /\ PushValue(NewNode("A_STR_LITERAL", Peek(1).lexeme, <<>>))
  /\ strings' = Append(strings, Fresh)
  /\ Consume(1)
  /\ UNCHANGED <<program, saved, pc, body>>

If ==
  /\ Reads("L_IF")
  /\ PushOperator(NewNode("A_COND", "", <<NULL, NULL, NULL>>))
  /\ Consume(1)
  /\ UNCHANGED <<program, saved, strings, pc, body>>

Else ==
  /\ Reads("L_ELSE")
  /\ PushOperator(NewNode("A_ELSE_CLAUSE", "", <<>>))
  /\ Consume(1)
  /\ UNCHANGED <<program, saved, strings, pc, body>>

While ==
  /\ Reads("L_WHILE")
  /\ PushOperator(NewNode("A_WHILE", "", <<Uninit, Uninit>>))
  /\ Consume(1)
  /\ UNCHANGED <<program, saved, strings, pc, body>>

Return ==
  /\ Reads("L_RETURN")
  /\ PushOperator(NewNode("A_RET", "", <<Uninit>>))
  /\ Consume(1)
  /\ UNCHANGED <<program, saved, strings, pc, body>>

\* `x =': the value on top becomes the left side.
Assign ==
  /\ Reads("L_EQ")
  /\ nodes' = Append(nodes, NewNode("A_ASSIGNMENT", "", <<Popped(values), Uninit>>))
  /\ values' = Rest(values)
  /\ operators' = Append(operators, Fresh)
  /\ Consume(1)
  /\ UNCHANGED <<program, saved, strings, pc, body>>

\* `var x' and `var x ='.
VarLocal ==
  /\ Reads("L_VAR") /\ Peek(2).t = "L_IDENT" /\ Peek(3).t # "L_EQ"
  /\ PushValue(NewNode("A_DECL_LOCAL", Peek(2).lexeme, <<>>))
  /\ Consume(2)
  /\ UNCHANGED <<program, saved, strings, pc, body>>

VarAssignment ==
  /\ Reads("L_VAR") /\ Peek(2).t = "L_IDENT" /\ Peek(3).t = "L_EQ"
  /\ PushOperator(NewNode("A_DECL_ASSIGNMENT", Peek(2).lexeme, <<Uninit>>))
  /\ Consume(3)
  /\ UNCHANGED <<program, saved, strings, pc, body>>

VarPanic ==
  /\ Reads("L_VAR") /\ Peek(2).t # "L_IDENT"
  /\ Stop("exit69")

\* The BINARY macro: at most one waiting operator is finished first.
WaitsStronger(t) ==                   \* mutant: `>' for `>='
  operators # <<>> /\ Prec[TypeOf(Last(operators))] > Prec[t]
Waits(t) == operators # <<>> /\ Prec[TypeOf(Last(operators))] >= Prec[t]

Binary ==
  /\ pc = "parse" /\ Tok \in DOMAIN BinaryNode
  /\ LET t     == BinaryNode[Tok]
         waits == Waits(t)
         r     == IF waits THEN Reduced
                  ELSE [nodes |-> nodes, values |-> values, operators |-> operators]
     IN  \/ /\ waits => TopIs(operators, Reducible)
            /\ nodes' = Append(r.nodes, NewNode(t, "", <<Uninit, Uninit>>))
            /\ values' = r.values
            /\ operators' = Append(r.operators, Fresh)
            /\ Consume(1)
            /\ UNCHANGED <<program, saved, strings, pc, body>>
         \/ /\ waits /\ ~ TopIs(operators, Reducible)
            /\ Stop("exit69")

-----------------------------------------------------------------------------
(***************************************************************************)
(* `(': an identifier on top of the value stack becomes a call, and the    *)
(* same node also goes on the operator stack.                              *)
(***************************************************************************)
LParen ==
  /\ Reads("L_LPAREN")
  /\ LET call == TopIs(values, {"A_IDENT"})
         heap == IF call THEN [nodes EXCEPT ![Last(values)].t = "A_CALL"] ELSE nodes
         ops  == IF call THEN Append(operators, Last(values)) ELSE operators
     IN  /\ nodes' = Append(heap, NewNode("A_OPEN_PAREN", "", <<>>))
         /\ operators' = Append(ops, Fresh)
  /\ Consume(1)
  /\ UNCHANGED <<program, values, saved, strings, pc, body>>

RParenReduce ==
  /\ Reads("L_RPAREN")
  /\ operators # <<>> /\ ~ TopIs(operators, {"A_OPEN_PAREN"})
  /\ SubExpr

\* The loop is over, and popop() takes the parenthesis off.
ParenCloses ==
  /\ Reads("L_RPAREN")
  /\ operators = <<>> \/ TopIs(operators, {"A_OPEN_PAREN"})

UnderTheParen == operators            \* mutant: the parenthesis is not popped
Under == Rest(operators)

RParenGroup ==
  /\ ParenCloses
  /\ ~ TopIs(Under, {"A_COND", "A_WHILE", "A_CALL"})
  /\ operators' = Under
  /\ Consume(1)
  /\ UNCHANGED <<program, nodes, values, saved, strings, pc, body>>

RParenCond ==
  /\ ParenCloses
  /\ TopIs(Under, {"A_COND", "A_WHILE"})
  /\ nodes' = SetKid(nodes, Last(Under), 1, Popped(values))
  /\ operators' = Under
  /\ values' = Rest(values)
  /\ Consume(1)
  /\ UNCHANGED <<program, saved, strings, pc, body>>

\* The arguments are the values above the last A_CALL, last one first; that
\* A_CALL node gives its name to the finished call and is dropped.
IsCall(i) == TypeOf(values[i]) = "A_CALL"
LastCall  == {i \in DOMAIN values :
                IsCall(i) /\ \A j \in DOMAIN values : IsCall(j) => j <= i}

\* put_ast collects them in a stack that starts with capacity 0, which doubling
\* leaves at 0: it has room for what malloc(0) answers, 24 bytes with glibc.
ArgsRoom == 3

RParenCall ==
  /\ ParenCloses
  /\ TopIs(Under, {"A_CALL"})
  /\ operators' = Front(Under)
  /\ \E i \in LastCall :
       /\ Len(values) - i =< ArgsRoom
       /\ LET args == Reverse(SubSeq(values, i + 1, Len(values)))
              name == nodes[values[i]].lexeme
          IN  /\ nodes' = Append(nodes, NewNode("A_CALL_FINISHED", name, args))
              /\ values' = Append(SubSeq(values, 1, i - 1), Fresh)
  /\ Consume(1)
  /\ UNCHANGED <<program, saved, strings, pc, body>>

RParenOverrun ==
  /\ ParenCloses
  /\ TopIs(Under, {"A_CALL"})
  /\ \E i \in LastCall : Len(values) - i > ArgsRoom
  /\ Stop("corrupt")

\* Without an A_CALL among them every value is popped, and then NULL is followed.
RParenNoCall ==
  /\ ParenCloses
  /\ TopIs(Under, {"A_CALL"})
  /\ \A i \in DOMAIN values : ~ IsCall(i)
  /\ Stop(IF Len(values) > ArgsRoom THEN "corrupt" ELSE "segv")

-----------------------------------------------------------------------------
(***************************************************************************)
(* `;': first every operator above the innermost statement is finished,    *)
(* then each waiting statement takes its parts and becomes a value, and    *)
(* an expression that no statement waited for is marked as void.           *)
(***************************************************************************)
SemiReduce ==
  /\ Reads("L_SEMICOLON")
  /\ operators # <<>> /\ ~ TopIs(operators, Statements)
  /\ SubExpr

StatementWaits ==
  /\ pc \in {"parse", "closing"} /\ Tok = "L_SEMICOLON"
  /\ TopIs(operators, Statements)

\* A_COND and A_WHILE take their block, A_RET its value.
CloseStatement(types, k) ==
  /\ StatementWaits /\ TopIs(operators, types)
  /\ nodes' = SetKid(nodes, Last(operators), k, Popped(values))
  /\ values' = Append(Rest(values), Last(operators))
  /\ operators' = Front(operators)
  /\ pc' = "closing"
  /\ UNCHANGED <<program, at, saved, strings, body>>

CloseCond   == CloseStatement({"A_COND", "A_WHILE"}, 2)
CloseReturn == CloseStatement({"A_RET"}, 1)

\* A_ELSE_CLAUSE hands two values to the node under it, as its children 1 and 2
\* (here 2 and 3). They are the blocks of a conditional; in a declaration they
\* are the length of its name, which is no name any more, and its initialiser.
\* Any other node ends before child 2, and without one NULL is followed.
TakesBlocks(id) ==
  IF TypeOf(id) = "A_COND"
  THEN SetKid(SetKid(nodes, id, 2, Popped(Rest(values))), id, 3, Popped(values))
  ELSE SetKid([nodes EXCEPT ![id].lexeme = ""], id, 1, Popped(values))

CloseElse ==
  /\ StatementWaits /\ TopIs(operators, {"A_ELSE_CLAUSE"})
  /\ \/ /\ TopIs(Under, {"A_COND", "A_DECL_ASSIGNMENT"})
        /\ nodes' = TakesBlocks(Last(Under))
        /\ values' = Append(Rest(Rest(values)), Last(Under))
        /\ operators' = Front(Under)
        /\ pc' = "closing"
        /\ UNCHANGED <<program, at, saved, strings, body>>
     \/ /\ ~ TopIs(Under, {"A_COND", "A_DECL_ASSIGNMENT"})
        /\ Stop(IF Under = <<>> THEN "segv" ELSE "corrupt")

TwoTokens == 2                        \* mutant: next_token() twice
OneToken  == 1

SemiClosed ==
  /\ pc = "closing" /\ ~ TopIs(operators, Statements)
  /\ pc' = "parse"
  /\ Consume(OneToken)
  /\ UNCHANGED <<program, nodes, values, operators, saved, strings, body>>

SemiVoid ==
  /\ Reads("L_SEMICOLON") /\ operators = <<>>
  /\ \/ /\ values = <<>>
        /\ Stop("segv")
     \/ /\ TopIs(values, {"A_DECL_LOCAL", "A_DECL_ASSIGNMENT"})
        /\ Consume(1)
        /\ UNCHANGED <<program, nodes, values, operators, saved, strings, pc, body>>
     \/ /\ values # <<>> /\ ~ TopIs(values, {"A_DECL_LOCAL", "A_DECL_ASSIGNMENT"})
        /\ PushValue(NewNode("EXPR_TO_VOID", "", <<>>))
        /\ Consume(1)
        /\ UNCHANGED <<program, saved, strings, pc, body>>

-----------------------------------------------------------------------------
(***************************************************************************)
(* Blocks. `{' puts both stacks aside and parses with empty ones; `}'      *)
(* makes a node of the values found, without the void mark of the last     *)
(* expression (a block is worth its last value), and takes them back.      *)
(***************************************************************************)
OpenBlock ==
  /\ Reads("L_LCURLY")
  /\ saved' = Append(saved, [values |-> values, operators |-> operators])
  /\ values' = <<>>
  /\ operators' = <<>>
  /\ Consume(1)
  /\ UNCHANGED <<program, nodes, strings, pc, body>>

MarkedValues == values                \* mutant: the void mark of the last value stays
BlockValues ==
  IF TopIs(values, {"EXPR_TO_VOID"}) THEN Front(values) ELSE values

CloseBlock ==
  /\ Reads("L_RCURLY") /\ saved # <<>>
  /\ \/ /\ values = <<>>
        /\ Stop("segv")
     \/ /\ values # <<>>
        /\ nodes' = Append(nodes, NewNode("A_BLOCK", "", BlockValues))
        /\ values' = Append(Last(saved).values, Fresh)
        /\ operators' = Last(saved).operators
        /\ saved' = Front(saved)
        /\ Consume(1)
        /\ UNCHANGED <<program, strings, pc, body>>

\* The `}' of the function and the `;' that must follow: the values become the
\* body, and both stacks are emptied. Operators still waiting are forgotten.
KeptValues == values                  \* mutant: the values stay on the stack too
ValuesAfterBody == <<>>

EndBody ==
  /\ Reads("L_RCURLY") /\ saved = <<>>
  /\ \/ /\ Peek(2).t = "L_SEMICOLON"
        /\ pc' = "done"
        /\ body' = values
        /\ values' = ValuesAfterBody
        /\ operators' = <<>>
        /\ Consume(2)
        /\ UNCHANGED <<program, nodes, saved, strings>>
     \/ /\ Peek(2).t # "L_SEMICOLON"
        /\ Stop("exit69")

\* The default of the switch.
Skip ==
  /\ pc = "parse"
  /\ Tok \in {"L_COMMA", "L_COLON", "L_ARROW_R", "L_EXPORT", "L_LOCAL"}
  /\ Consume(1)
  /\ UNCHANGED <<program, nodes, values, operators, saved, strings, pc, body>>

\* Past the end of the text every token is L_EOF, which __parse skips: the
\* loop that waits for a `}' never ends.
EndOfText ==
  /\ Reads("L_EOF")
  /\ UNCHANGED vars

-----------------------------------------------------------------------------
Init ==
  /\ program \in Programs
  /\ at = 0
  /\ nodes = [i \in 1..Len(program.params) |->
                NewNode("A_DECL_LOCAL", program.params[i], <<>>)]
  /\ values = [i \in 1..Len(program.params) |-> i]
  /\ operators = <<>>
  /\ saved = <<>>
  /\ strings = <<>>
  /\ pc = "parse"
  /\ body = <<>>

Next ==
  \/ Ident \/ Integer \/ String \/ If \/ Else \/ While \/ Return
  \/ Assign \/ VarLocal \/ VarAssignment \/ VarPanic \/ Binary
  \/ LParen \/ RParenReduce \/ RParenGroup \/ RParenCond \/ RParenCall
  \/ RParenOverrun \/ RParenNoCall
  \/ SemiReduce \/ CloseCond \/ CloseReturn \/ CloseElse \/ SemiClosed \/ SemiVoid
  \/ OpenBlock \/ CloseBlock \/ EndBody \/ Skip \/ EndOfText

Spec == Init /\ [][Next]_vars

-----------------------------------------------------------------------------
(***************************************************************************)
(* Properties.                                                             *)
(***************************************************************************)
Pointer == 1..Len(nodes)

\* A child is a node, NULL or never written, and there are enough of them.
WellFormed(heap) ==
  /\ heap \in Seq(Node)
  /\ \A id \in DOMAIN heap :
       /\ heap[id].kids \in Seq(DOMAIN heap \cup {NULL, Uninit})
       /\ heap[id].t \in DOMAIN Arity => Len(heap[id].kids) = Arity[heap[id].t]

\* Every variable has its type. What is on a stack of the parser is a node
\* (never the NULL that pop_ast answers when the stack is empty: that may
\* only become a child).
TypeOK ==
  /\ program.params \in Seq(Lexemes)
  /\ program.text \in Seq(Token)
  /\ at \in Nat
  /\ WellFormed(nodes)
  /\ values \in Seq(Pointer)
  /\ operators \in Seq(Pointer)
  /\ saved \in Seq([values : Seq(Pointer), operators : Seq(Pointer)])
  /\ strings \in Seq(Pointer)
  /\ pc \in {"parse", "closing", "done", "exit69", "segv", "corrupt"}
  /\ body \in Seq(Pointer)

(***************************************************************************)
(* What holds a node: a place on a value stack or on an operator stack     *)
(* (those put aside by open blocks included), in one of the finished       *)
(* `bodies', or among the children of a node. An A_CALL on an operator     *)
(* stack is only a reminder of the node that is on the value stack, and    *)
(* `strings' holds string literals a second time on purpose, for the data. *)
(***************************************************************************)
Stacks == Append(saved, [values |-> values, operators |-> operators])

OnValueStacks ==
  UNION {{<<Stacks[s].values[i], "value", s, i>> : i \in DOMAIN Stacks[s].values}
           : s \in DOMAIN Stacks}
OnOperatorStacks ==
  UNION {{<<Stacks[s].operators[i], "operator", s, i>> :
             i \in {i \in DOMAIN Stacks[s].operators : TypeOf(Stacks[s].operators[i]) # "A_CALL"}}
           : s \in DOMAIN Stacks}
InNodes ==
  UNION {{<<nodes[id].kids[i], "child", id, i>> :
             i \in {i \in DOMAIN nodes[id].kids : nodes[id].kids[i] \in Pointer}}
           : id \in Pointer}
InBodies(bodies) ==
  UNION {{<<bodies[s][i], "body", s, i>> : i \in DOMAIN bodies[s]} : s \in DOMAIN bodies}

Holdings(bodies) == OnValueStacks \cup OnOperatorStacks \cup InNodes \cup InBodies(bodies)
SharesNothing(bodies) == \A p, q \in Holdings(bodies) : p[1] = q[1] => p = q

\* No node is held twice, whatever the tokens are, although handlers move
\* nodes between the stacks, into each other's children and into the body: the
\* result is a forest, and the code generator compiles every expression once.
HeldOnce == SharesNothing(<<body>>)

\* A semicolon leaves no operator behind: "semicolons terminate statements;
\* statement borders are delimeted by nodes with statement precedence value"
\* (parser.c:112-149).
SemicolonTerminates ==
  [][Tok = "L_SEMICOLON" /\ at' # at => operators' = <<>>]_vars

\* A statement begins where no operator of an expression waits. The parser does
\* not look: `x = if ..' is read, and SemicolonTerminates fails for it.
StatementsFirst ==
  pc = "parse" /\ Tok \in {"L_IF", "L_ELSE", "L_WHILE", "L_RETURN"} =>
    operators = <<>> \/ TopIs(operators, Statements)
=============================================================================
