------------------------------- MODULE Codegen -------------------------------
(***************************************************************************)
(* The code generator of arnel (src/compiler.c: comp_sym and __comp_expr   *)
(* with the functions it calls). It walks the tree of a function once and  *)
(* prints QBE instructions whose operands are numbered slots %x0, %x1 ...  *)
(* The slots are handed out from a counter, temps_stack, that each kind of *)
(* expression moves up and down by hand; declared variables keep the slot  *)
(* the counter stood at.                                                   *)
(*                                                                         *)
(* The recursion of __comp_expr is the stack `frames': a frame is a call   *)
(* of __comp_expr that waits for the value of a child, and the outermost   *)
(* one is the loop of comp_sym over the statements of the function. Either *)
(* `cur' is a node about to be compiled (mode "eval") or `acc' is the      *)
(* val_t just returned to the top frame (mode "return").                   *)
(***************************************************************************)
EXTENDS GeneratedCode, Functions

CONSTANTS
  Names,    \* spellings of names and literals
  Units,    \* the compilation units: sequences of functions
  Trees,    \* the trees in the units, down to the leaves
  Builtin,  \* the names in scope before any function is declared
  Word      \* temps_stack is a size_t: 2^64, a smaller power of 2 for TLC

\* A pointer that is NULL where a child is optional.
NoNode == [t |-> "NULL", lexeme |-> "", kids |-> <<>>]

(***************************************************************************)
(* val_t: a Slot, or something printed as it stands (v.imm is set): a      *)
(* number, the label of a string, or the mark `ret' of code that left.     *)
(***************************************************************************)
Imm(x)   == [k |-> "imm", n |-> 0, lexeme |-> x]
Data(x)  == [k |-> "data", n |-> 0, lexeme |-> x]
Returned == [k |-> "ret", n |-> 0, lexeme |-> ""]
IsImm(v) == v.k # "slot"

Val == [k : {"slot", "imm", "data", "ret"}, n : 0..Word-1, lexeme : Names]

\* An instruction: dst is the slot it writes (-1: none), labels are those
\* it defines ("label") or goes to ("jmp", "jnz").
Ins(op, dst, args, labels) ==
  [op |-> op, dst |-> dst, args |-> args, labels |-> labels]
Lab(name, id)    == <<name, id>>
Define(l)        == Ins("label", -1, <<>>, <<l>>)
Jmp(l)           == Ins("jmp", -1, <<>>, <<l>>)
Jnz(v, yes, no)  == Ins("jnz", -1, <<v>>, <<yes, no>>)
Copy(dst, v)     == Ins("copy", dst, <<v>>, <<>>)

\* What the parser has made: every child the compiler reads is there, NULL or a
\* tree, and a block is not empty. A declaration (A_DECL) is no part of a body.
HasChildren(node) ==
  /\ node.t \in BinaryTypes \cup {"A_ASSIGNMENT", "A_WHILE"} => Len(node.kids) = 2
  /\ node.t \in {"A_DECL_ASSIGNMENT", "A_RET"} => Len(node.kids) = 1
  /\ node.t = "A_COND" => Len(node.kids) = 3
  /\ node.t = "A_BLOCK" => node.kids # <<>>

ASSUME NamesAssumption == "" \in Names
ASSUME WordAssumption == Word \in Nat \ {0}
ASSUME TreesAssumption ==
  \A node \in Trees :
    /\ node \in [t : STRING, lexeme : Names, kids : Seq(Trees)]
    /\ node.t # "A_DECL" /\ HasChildren(node)
ASSUME UnitsAssumption ==
  \A u \in Units : u \in Seq([name : Names, params : Seq(Names), body : Seq(Trees)])

-----------------------------------------------------------------------------
Up(n)   == (n + 1) % Word
DownPlain(n) == n - 1                 \* mutant: no wrapping below zero
Down(n) == (n + Word - 1) % Word

\* if (!v.imm) comp->temps_stack -= 1
Release(n, v) == IF IsImm(v) THEN n ELSE Down(n)

\* vals: the values of the children compiled so far; labels: those of a
\* conditional or loop; dst: the slot an assignment goes to (-1: none).
Frame(node) == [node |-> node, vals |-> <<>>, labels |-> <<>>, dst |-> -1]
Below       == Front(frames)

\* The children in the order __comp_expr compiles them. The parser keeps the
\* last argument of a call first, and the compiler walks from the other end.
Children(node) ==
  CASE node.t = "A_CALL_FINISHED" -> Reverse(node.kids)
    [] node.t = "A_ASSIGNMENT" -> <<node.kids[2]>>
    [] node.t = "A_COND" /\ node.kids[3] = NoNode -> <<node.kids[1], node.kids[2]>>
    [] OTHER -> node.kids

Stop(how) ==
  /\ mode' = how
  /\ UNCHANGED <<unit, fn, cur, acc, frames, temps, ids, locals, out>>

\* The call returns v.
Return(v) == mode' = "return" /\ acc' = v /\ UNCHANGED cur

\* The call with frame f goes on to its child number n.
Descend(f, n) ==
  /\ mode' = "eval"
  /\ cur' = Children(f.node)[n]
  /\ frames' = Append(Below, f)
  /\ UNCHANGED acc

\* A call begins: its first child is compiled.
Enter(f) ==
  /\ mode' = "eval"
  /\ cur' = Children(f.node)[1]
  /\ frames' = Append(frames, f)
  /\ UNCHANGED acc

Evals(types) == mode = "eval" /\ cur.t \in types

\* The top frame is of one of these types and now has n values.
Delivers(types, n) ==
  /\ mode = "return" /\ frames # <<>>
  /\ Top.node.t \in types /\ Len(Top.vals) + 1 = n

\* The same for a node with any number of children: some child, or the last.
DeliversSome(types) ==
  /\ mode = "return" /\ frames # <<>>
  /\ Top.node.t \in types /\ Len(Top.vals) + 1 < Len(Top.node.kids)

DeliversLast(types) ==
  /\ mode = "return" /\ frames # <<>>
  /\ Top.node.t \in types /\ Len(Top.vals) + 1 = Len(Top.node.kids)

Kept == [Top EXCEPT !.vals = Append(@, acc)]

-----------------------------------------------------------------------------
\* Leaves.
VoidKeeps == temps                    \* mutant: nothing is given back
AfterVoid == Down(temps)

EvalVoid ==
  /\ Evals({"EXPR_TO_VOID"})
  /\ Return(Slot(temps))
  /\ temps' = AfterVoid
  /\ UNCHANGED <<unit, fn, frames, ids, locals, out>>

EvalLiteral ==
  /\ Evals({"A_INT_LITERAL", "A_STR_LITERAL"})
  /\ Return(IF cur.t = "A_INT_LITERAL" THEN Imm(cur.lexeme) ELSE Data(cur.lexeme))
  /\ UNCHANGED <<unit, fn, frames, temps, ids, locals, out>>

\* A name nobody declared: local is NULL, and local->arg is read.
EvalIdent ==
  /\ Evals({"A_IDENT"})
  /\ \/ /\ LookUp(cur.lexeme) # -1
        /\ Return(Slot(LookUp(cur.lexeme)))
        /\ temps' = Up(temps)
        /\ UNCHANGED <<unit, fn, frames, ids, locals, out>>
     \/ /\ LookUp(cur.lexeme) = -1
        /\ Stop("segv")

Declare(x, n) == locals' = [y \in DOMAIN locals \cup {x} |-> IF y = x THEN n ELSE locals[y]]

EvalDeclLocal ==
  /\ Evals({"A_DECL_LOCAL"})
  /\ Declare(cur.lexeme, temps)
  /\ temps' = Up(temps)
  /\ Return(Slot(Up(temps)))
  /\ UNCHANGED <<unit, fn, frames, ids, out>>

\* A node the compiler has no case for, or a child that was never parsed.
EvalUnknown ==
  /\ \/ Evals({"NULL"}) /\ Stop("segv")
     \/ Evals({"A_CALL", "A_ELSE_CLAUSE", "A_OPEN_PAREN"}) /\ Stop("exit69")

-----------------------------------------------------------------------------
\* Binary operators: child 1 is the right operand, compiled first.
EvalBinary ==
  /\ Evals(BinaryTypes)
  /\ Enter(Frame(cur))
  /\ UNCHANGED <<unit, fn, temps, ids, locals, out>>

ReleasedRight == Release(temps, acc)  \* mutant: its slot is given back at once
AfterRight == temps

BinaryRight ==
  /\ Delivers(BinaryTypes, 1)
  /\ Descend(Kept, 2)
  /\ temps' = AfterRight
  /\ UNCHANGED <<unit, fn, ids, locals, out>>

Swapped(l, r) == <<r, l>>             \* mutant: operands printed as compiled
Ordered(l, r) == <<l, r>>

BinaryLeft ==
  /\ Delivers(BinaryTypes, 2)
  /\ LET free == Release(Release(temps, Top.vals[1]), acc)
     IN  /\ out' = Append(out, Ins(Operation[Top.node.t], free, Ordered(acc, Top.vals[1]), <<>>))
         /\ Return(Slot(free))
         /\ temps' = Up(free)
  /\ frames' = Below
  /\ UNCHANGED <<unit, fn, ids, locals>>

\* Calls: a name must be in scope; each argument gives its slot back as soon
\* as it is compiled.
ScopeSoFar == Builtin \cup {unit[i].name : i \in 1..fn}    \* mutant: no later function
InScope    == Builtin \cup {unit[i].name : i \in 1..Len(unit)}

EvalCall ==
  /\ Evals({"A_CALL_FINISHED"})
  /\ \/ /\ cur.lexeme \notin InScope
        /\ Stop("exit69")
     \/ /\ cur.lexeme \in InScope /\ cur.kids # <<>>
        /\ Enter(Frame(cur))
        /\ UNCHANGED <<unit, fn, temps, ids, locals, out>>
     \/ /\ cur.lexeme \in InScope /\ cur.kids = <<>>
        /\ out' = Append(out, Ins("call", temps, <<>>, <<>>))
        /\ Return(Slot(temps))
        /\ temps' = Up(temps)
        /\ UNCHANGED <<unit, fn, frames, ids, locals>>

CallArgument ==
  /\ DeliversSome({"A_CALL_FINISHED"})
  /\ Descend(Kept, Len(Top.vals) + 2)
  /\ temps' = Release(temps, acc)
  /\ UNCHANGED <<unit, fn, ids, locals, out>>

CallLast ==
  /\ DeliversLast({"A_CALL_FINISHED"})
  /\ LET free == Release(temps, acc)
     IN  /\ out' = Append(out, Ins("call", free, Kept.vals, <<>>))
         /\ Return(Slot(free))
         /\ temps' = Up(free)
  /\ frames' = Below
  /\ UNCHANGED <<unit, fn, ids, locals>>

-----------------------------------------------------------------------------
\* Variables.
EvalDeclAssignment ==
  /\ Evals({"A_DECL_ASSIGNMENT"})
  /\ Enter(Frame(cur))
  /\ UNCHANGED <<unit, fn, temps, ids, locals, out>>

SharedSlot(n) == n                    \* mutant: the slot is not kept
SlotAfter(n) == Up(n)

DeclAssignment ==
  /\ Delivers({"A_DECL_ASSIGNMENT"}, 1)
  /\ LET slot == Release(temps, acc)
     IN  /\ Declare(Top.node.lexeme, slot)
         /\ out' = Append(out, Copy(slot, acc))
         /\ Return(Slot(slot))
         /\ temps' = SlotAfter(slot)
  /\ frames' = Below
  /\ UNCHANGED <<unit, fn, ids>>

\* The left side is looked up before the right side is compiled, by the first
\* two words of its node, whatever the node is: here it is a name or NULL.
EvalAssignment ==
  /\ Evals({"A_ASSIGNMENT"})
  /\ \/ /\ cur.kids[1] # NoNode
        /\ temps' = Up(temps)
        /\ Enter([Frame(cur) EXCEPT !.dst = LookUp(cur.kids[1].lexeme)])
        /\ UNCHANGED <<unit, fn, ids, locals, out>>
     \/ /\ cur.kids[1] = NoNode
        /\ Stop("segv")

Assignment ==
  /\ Delivers({"A_ASSIGNMENT"}, 1)
  /\ \/ /\ Top.dst # -1
        /\ out' = Append(out, Copy(Top.dst, acc))
        /\ temps' = Release(temps, acc)
        /\ Return(Slot(Top.dst))
        /\ frames' = Below
        /\ UNCHANGED <<unit, fn, ids, locals>>
     \/ /\ Top.dst = -1
        /\ Stop("segv")

-----------------------------------------------------------------------------
\* Conditionals.
EvalCond ==
  /\ Evals({"A_COND"})
  /\ Enter(Frame(cur))
  /\ UNCHANGED <<unit, fn, temps, ids, locals, out>>

HasElse == Top.node.kids[3] # NoNode

\* The branch on a condition, and the label of the code it comes to first.
Unlabelled(v, yes, no) == << Jnz(v, yes, no) >>      \* mutant: no label
Branch(v, yes, no)     == << Jnz(v, yes, no), Define(yes) >>

CondTest ==
  /\ Delivers({"A_COND"}, 1)
  /\ LET iftr == Lab("iftr", ids)
         iffl == Lab("iffl", ids + 1)
         exit == Lab("out", ids + 2)
     IN  /\ out' = out \o Branch(acc, iftr, IF HasElse THEN iffl ELSE exit)
         /\ Descend([Kept EXCEPT !.labels = <<iftr, iffl, exit>>], 2)
  /\ temps' = Release(temps, acc)
  /\ ids' = ids + 3
  /\ UNCHANGED <<unit, fn, locals>>

\* The value of a branch goes to the slot the counter stands at, unless the
\* branch returned.
BranchValue(slot, v) == IF v = Returned THEN <<>> ELSE <<Copy(slot, v)>>

CondThen ==
  /\ Delivers({"A_COND"}, 2)
  /\ LET free == Release(temps, acc)
         exit == Top.labels[3]
     IN  \/ /\ HasElse
            /\ out' = out \o BranchValue(free, acc)
                          \o (IF acc = Returned THEN <<>> ELSE <<Jmp(exit)>>)
                          \o << Define(Top.labels[2]) >>
            /\ temps' = free
            /\ Descend(Kept, 3)
         \/ /\ ~ HasElse
            /\ out' = out \o BranchValue(free, acc) \o << Define(exit) >>
            /\ Return(Slot(free))
            /\ temps' = Up(free)
            /\ frames' = Below
  /\ UNCHANGED <<unit, fn, ids, locals>>

ElseReturned == acc = Returned        \* mutant: the wrong branch decides
ThenReturned == Top.vals[2] = Returned

CondElse ==
  /\ Delivers({"A_COND"}, 3)
  /\ LET free == Release(temps, acc)
     IN  /\ out' = out \o BranchValue(free, acc)
                       \o (IF ThenReturned THEN <<>> ELSE << Define(Top.labels[3]) >>)
         /\ Return(Slot(free))
         /\ temps' = Up(free)
  /\ frames' = Below
  /\ UNCHANGED <<unit, fn, ids, locals>>

-----------------------------------------------------------------------------
\* Loops.
EvalWhile ==
  /\ Evals({"A_WHILE"})
  /\ LET start == Lab("start", ids)
     IN  /\ Enter([Frame(cur) EXCEPT
                     !.labels = <<start, Lab("loop", ids + 1), Lab("breac", ids + 2)>>])
         /\ out' = Append(out, Define(start))
  /\ ids' = ids + 3
  /\ UNCHANGED <<unit, fn, temps, locals>>

WhileTest ==
  /\ Delivers({"A_WHILE"}, 1)
  /\ out' = out \o Branch(acc, Top.labels[2], Top.labels[3])
  /\ Descend(Kept, 2)
  /\ UNCHANGED <<unit, fn, temps, ids, locals>>

WhileBody ==
  /\ Delivers({"A_WHILE"}, 2)
  /\ out' = out \o << Jmp(Top.labels[1]), Define(Top.labels[3]) >>
  /\ Return(acc)
  /\ frames' = Below
  /\ UNCHANGED <<unit, fn, temps, ids, locals>>

-----------------------------------------------------------------------------
\* Returns forget every slot in use.
EvalReturn ==
  /\ Evals({"A_RET"})
  /\ Enter(Frame(cur))
  /\ UNCHANGED <<unit, fn, temps, ids, locals, out>>

OnlyTheValue == Release(temps, acc)   \* mutant: the other slots stay in use
AfterReturn == 0

ReturnValue ==
  /\ Delivers({"A_RET"}, 1)
  /\ out' = Append(out, Ins("ret", -1, <<acc>>, <<>>))
  /\ temps' = AfterReturn
  /\ Return(Returned)
  /\ frames' = Below
  /\ UNCHANGED <<unit, fn, ids, locals>>

\* Blocks are worth their last value.
EvalBlock ==
  /\ Evals({"A_BLOCK"})
  /\ Enter(Frame(cur))
  /\ UNCHANGED <<unit, fn, temps, ids, locals, out>>

BlockLast ==
  /\ DeliversLast({"A_BLOCK"})
  /\ Return(acc)
  /\ frames' = Below
  /\ UNCHANGED <<unit, fn, temps, ids, locals, out>>

-----------------------------------------------------------------------------
(***************************************************************************)
(* comp_sym, called for each function of the unit in turn. The parameters  *)
(* are the first statements of the body, left there by the parser; the     *)
(* header numbers them from %x0. Neither temps_stack nor ids starts anew.  *)
(***************************************************************************)
FunctionNode(f) == [t |-> "A_DECL", lexeme |-> f.name, kids |-> f.body]

BeginFunction ==
  /\ mode = "function" /\ fn < Len(unit)
  /\ LET f == unit[fn + 1]
     IN  IF f.body = <<>> THEN UNCHANGED <<mode, cur, acc, frames>>
                          ELSE Enter(Frame(FunctionNode(f)))
  /\ fn' = fn + 1
  /\ locals' = <<>>
  /\ out' = << Define(Lab("start", -1)) >>
  /\ UNCHANGED <<unit, temps, ids>>

\* On to the next statement of the function, or of a block.
NextStatement ==
  /\ DeliversSome({"A_DECL", "A_BLOCK"})
  /\ Descend(Kept, Len(Top.vals) + 2)
  /\ UNCHANGED <<unit, fn, temps, ids, locals, out>>

EndFunction ==
  /\ DeliversLast({"A_DECL"})
  /\ mode' = "function"
  /\ frames' = Below
  /\ UNCHANGED <<unit, fn, cur, acc, temps, ids, locals, out>>

\* The lines of data between the functions depend on the text alone: see Compiler.
EndUnit ==
  /\ mode = "function" /\ fn = Len(unit)
  /\ Stop("done")

Init ==
  /\ unit \in Units
  /\ fn = 0
  /\ mode = "function"
  /\ cur = NoNode
  /\ acc = Returned
  /\ frames = <<>>
  /\ temps = 0
  /\ ids = 0
  /\ locals = <<>>
  /\ out = <<>>

Next ==
  \/ EvalVoid \/ EvalLiteral \/ EvalIdent \/ EvalDeclLocal \/ EvalUnknown
  \/ EvalBinary \/ BinaryRight \/ BinaryLeft
  \/ EvalCall \/ CallArgument \/ CallLast
  \/ EvalDeclAssignment \/ DeclAssignment \/ EvalAssignment \/ Assignment
  \/ EvalCond \/ CondTest \/ CondThen \/ CondElse
  \/ EvalWhile \/ WhileTest \/ WhileBody
  \/ EvalReturn \/ ReturnValue
  \/ EvalBlock \/ BlockLast
  \/ BeginFunction \/ NextStatement \/ EndFunction \/ EndUnit

Spec == Init /\ [][Next]_vars

-----------------------------------------------------------------------------
(***************************************************************************)
(* Properties of the walk. Those of the code are in GeneratedCode.         *)
(***************************************************************************)
SlotNumber == 0..Word-1

FrameOK(f) ==
  /\ DOMAIN f = {"node", "vals", "labels", "dst"}
  /\ Len(f.vals) < Len(Children(f.node))
  /\ \A i \in DOMAIN f.vals : f.vals[i] \in Val
  /\ f.dst \in SlotNumber \cup {-1}

\* Every variable has its type: in particular a call of __comp_expr under way
\* still waits for one of its children, and slot numbers fit in a size_t.
TypeOK ==
  /\ fn \in 0..Len(unit)
  /\ mode \in {"function", "eval", "return", "done", "exit69", "segv"}
  /\ acc \in Val
  /\ \A i \in DOMAIN frames : FrameOK(frames[i])
  /\ temps \in SlotNumber
  /\ ids \in Nat
  /\ \A x \in DOMAIN locals : locals[x] \in SlotNumber

Named(l) == {i \in DOMAIN out : out[i].op = "label" /\ out[i].labels[1] = l}

\* Each label that a jump of the function names stands before exactly one of
\* its instructions, though __comp_cond leaves out the exit label when the
\* first branch returned and prints each label in up to three places.
LabelsDefined ==
  FunctionCompiled =>
    \A i \in DOMAIN out : out[i].op \in {"jmp", "jnz"} =>
      \A k \in DOMAIN out[i].labels :
        \E j \in DOMAIN out : Named(out[i].labels[k]) = {j}

-----------------------------------------------------------------------------
(***************************************************************************)
(* What the slots of a function need of its trees. The compiler does not   *)
(* look: a literal that is discarded, a branch that returns or a variable  *)
(* declared in an operand moves temps_stack away from where it should be.  *)
(***************************************************************************)
Leaf       == {"A_INT_LITERAL", "A_STR_LITERAL", "A_IDENT"}
Expression == Leaf \cup BinaryTypes \cup {"A_CALL_FINISHED"}
Valued     == Expression \cup {"A_ASSIGNMENT", "A_COND", "A_WHILE", "A_BLOCK"}
Statement  == Valued \cup {"A_DECL_LOCAL", "A_DECL_ASSIGNMENT", "EXPR_TO_VOID"}

\* These leave their value in a slot, which a void mark can give back.
InSlot == BinaryTypes \cup {"A_IDENT", "A_CALL_FINISHED", "A_ASSIGNMENT"}

TidyStatements(kids) ==
  \A i \in 1..Len(kids) :
    /\ kids[i].t \in Statement
    /\ kids[i].t = "EXPR_TO_VOID" => i > 1 /\ kids[i-1].t \in InSlot

\* Operands are expressions, at most one argument of a call is computed, and a
\* block ends in a value. No statement but the last of a function returns.
TidyNode(node) ==
  /\ node.t \in BinaryTypes \cup {"A_CALL_FINISHED", "A_DECL_ASSIGNMENT"} =>
       \A i \in 1..Len(node.kids) : node.kids[i].t \in Expression
  /\ node.t = "A_CALL_FINISHED" =>
       \A i, j \in 1..Len(node.kids) : node.kids[i].t \in Leaf \/ node.kids[j].t \in Leaf \/ i = j
  /\ node.t = "A_ASSIGNMENT" => node.kids[2].t \in Expression
  /\ node.t \in {"A_WHILE", "A_RET"} => \A i \in 1..Len(node.kids) : node.kids[i].t \in Valued
  /\ node.t = "A_COND" => /\ node.kids[1].t \in Valued /\ node.kids[2].t \in Valued
                          /\ node.kids[3].t \in Valued \/ node.kids[3] = NoNode
  /\ node.t = "A_BLOCK" => TidyStatements(node.kids) /\ Last(node.kids).t \in Valued

TidyFunction(f) ==
  f.body # <<>> /\ Last(f.body).t = "A_RET" /\ TidyStatements(Front(f.body))

\* Where a function may return before its end: last in a block that is no body
\* of a loop, and in one branch of a conditional only.
Returning(node) == node.t = "A_RET" \/ (node.t = "A_BLOCK" /\ Last(node.kids).t = "A_RET")

ReturnsLast(kids) ==
  \A i \in 1..Len(kids) : Returning(kids[i]) => i = Len(kids) /\ kids[i].t = "A_RET"

EndsOnce(node) ==
  /\ node.t \in BinaryTypes \cup {"A_CALL_FINISHED", "A_DECL_ASSIGNMENT", "A_RET", "A_WHILE"} =>
       \A i \in 1..Len(node.kids) : ~ Returning(node.kids[i])
  /\ node.t = "A_ASSIGNMENT" => ~ Returning(node.kids[2])
  /\ node.t = "A_COND" => /\ ~ Returning(node.kids[1])
                          /\ ~ (Returning(node.kids[2]) /\ Returning(node.kids[3]))
  /\ node.t = "A_BLOCK" => ReturnsLast(node.kids)

EndsInReturn(f) ==
  f.body # <<>> /\ Last(f.body).t = "A_RET" /\ ReturnsLast(f.body)

\* The parameters are the first values of a body that ends in a return, each
\* under a name of its own.
ParamsFirst(f) ==
  /\ Len(f.params) < Len(f.body) /\ Last(f.body).t = "A_RET"
  /\ \A i \in 1..Len(f.params) : f.body[i].t = "A_DECL_LOCAL" /\ f.body[i].lexeme = f.params[i]
  /\ \A i, j \in 1..Len(f.params) : f.params[i] = f.params[j] => i = j

\* The values of expressions, assignments and blocks are voided.
ValuesVoided(f) ==
  \A i \in 1..Len(f.body)-1 :
    f.body[i].t \in Expression \cup {"A_ASSIGNMENT", "A_BLOCK"} => f.body[i+1].t = "EXPR_TO_VOID"

\* The counter does not wrap: a size_t is large enough for the function.
Room == temps < Word - 1
=============================================================================
