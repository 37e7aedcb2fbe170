---------------------------- MODULE GeneratedCode ----------------------------
(***************************************************************************)
(* The state of the code generator (src/compiler.c), and what is asked of  *)
(* the code it prints. Codegen has the steps that change this state, on    *)
(* units given to it; Compiler has them after the parser. What follows is  *)
(* asked of both.                                                          *)
(***************************************************************************)
EXTENDS Integers, Sequences, FiniteSets, SequencesExt

VARIABLES
  unit,    \* the functions to compile
  fn,      \* index of the function being compiled
  mode,    \* "function" (between two functions), "eval", "return", or how
           \* it ended: "done", "exit69", "segv"
  cur,     \* the node __comp_expr was called with
  acc,     \* the value it returned
  frames,  \* the calls of __comp_expr under way, innermost last
  temps,   \* compiler_t.temps_stack
  ids,     \* compiler_t.ids
  locals,  \* compiler_t.locals: the slot of each variable of the function
  out      \* the instructions of the function being compiled

vars == <<unit, fn, mode, cur, acc, frames, temps, ids, locals, out>>

-----------------------------------------------------------------------------
\* The val_t that names slot %xn.
Slot(n) == [k |-> "slot", n |-> n, lexeme |-> ""]

\* The QBE operation of a binary node (the BINARY macro).
Operation ==
  [ A_INT_PLUS |-> "add", A_INT_MUL |-> "mul", A_INT_DIV |-> "div",
    A_INT_MINUS |-> "sub", A_INT_EQ |-> "ceqw", A_INT_NEQ |-> "cnew" ]
BinaryTypes == DOMAIN Operation

\* The innermost call of __comp_expr under way.
Top == Last(frames)

LookUp(x) == IF x \in DOMAIN locals THEN locals[x] ELSE -1

-----------------------------------------------------------------------------
\* The moment comp_sym returns: `out' holds the whole function.
FunctionCompiled == mode = "function" /\ fn > 0

Leaves(i) == out[i].op \in {"jmp", "jnz", "ret"}

\* The text is a list of QBE blocks: what follows a jump or a return is a
\* label, and the function does not run off its end.
BlocksWellFormed ==
  FunctionCompiled =>
    /\ Leaves(Len(out))
    /\ \A i \in 1..Len(out)-1 : Leaves(i) => out[i+1].op = "label"

\* When its first statement begins, a function finds its parameters in the slots
\* %x0, %x1 ... the header of comp_sym names, though temps_stack goes on from the
\* function compiled before. (A later declaration may hide a parameter.)
ParamsInPlace ==
  mode = "eval" /\ Len(frames) = 1 =>
    LET params == unit[fn].params
    IN  Len(frames[1].vals) = Len(params) =>
          \A i \in 1..Len(params) : LookUp(params[i]) = i - 1

\* The statements of the function begun so far have no branch, loop or return.
Straight ==
  \A i \in 1..Len(frames[1].vals) + 1 :
    frames[1].node.kids[i].t \notin {"A_COND", "A_WHILE", "A_RET"}

\* The declarations among them that are compiled.
Declared ==
  {i \in 1..Len(frames[1].vals) : frames[1].node.kids[i].t \in {"A_DECL_LOCAL", "A_DECL_ASSIGNMENT"}}

\* In straight code the mark after an expression statement gives back exactly
\* the slots of the expression: those left in use are the declarations', one each.
VoidRestores ==
  mode = "return" /\ Len(frames) = 1 =>
    LET statement == frames[1].node.kids[Len(frames[1].vals) + 1]
    IN  Straight /\ statement.t = "EXPR_TO_VOID" =>
          temps = Cardinality(Declared)

\* The instructions a step prints.
Printed == Len(out)+1..Len(out')

AssignsTo(x) == frames # <<>> /\ Top.node.t = "A_ASSIGNMENT" /\ Top.node.kids[1].lexeme = x

\* No instruction writes the slot of a variable declared before, except the
\* copy of an assignment to that variable. The slots of variables and of
\* intermediate values come from the same counter.
VariablesKept ==
  [][mode # "function" =>
       \A i \in Printed : \A x \in DOMAIN locals :
         out'[i].dst = locals[x] => AssignsTo(x)]_vars

\* No instruction writes a slot that an operator or a call waits to read.
OperandsKept ==
  [][\A i \in Printed : \A k \in DOMAIN frames' :
       LET f == frames'[k]
       IN  f.node.t \in BinaryTypes \cup {"A_CALL_FINISHED"} =>
             \A j \in DOMAIN f.vals : f.vals[j] # Slot(out'[i].dst)]_vars
=============================================================================
