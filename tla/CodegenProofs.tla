---------------------------- MODULE CodegenProofs ----------------------------
(***************************************************************************)
(* Every call of __comp_expr under way still waits for a child that is     *)
(* there, and every label a jump names is printed exactly once, for all    *)
(* trees the parser can make of a function, tidy or not.                   *)
(***************************************************************************)
EXTENDS Codegen, SequenceTheorems, TLAPS

-----------------------------------------------------------------------------
(***************************************************************************)
(* Types. A frame compiles a tree of the unit or, outermost, a function.   *)
(***************************************************************************)
Nodes  == [t : STRING \cup {"A_DECL"}, lexeme : Names, kids : Seq(Trees)]
Stems  == {"iftr", "iffl", "out", "start", "loop", "breac"}
Label  == Stems \X Int
Frames == [node : Nodes, vals : Seq(Val), labels : Seq(Label), dst : SlotNumber \cup {-1}]

\* A conditional gets its labels with the value of its condition, a loop when it
\* is entered.
Labelled(f) == f.node.t = "A_WHILE" \/ (f.node.t = "A_COND" /\ Len(f.vals) > 0)

GoodFrame(f) ==
  /\ f \in Frames /\ HasChildren(f.node)
  /\ Len(f.vals) < Len(Children(f.node))
  /\ Labelled(f) => Len(f.labels) = 3 /\ f.labels[2] # f.labels[3]

Ops == {"label", "jmp", "jnz", "copy", "call", "ret", "add", "mul", "div", "sub", "ceqw", "cnew"}
Instructions ==
  {i \in [op : Ops, dst : Int, args : Seq(Val), labels : Seq(Label)] :
     i.op = "label" => Len(i.labels) = 1}
Code == Seq(Instructions)

-----------------------------------------------------------------------------
(***************************************************************************)
(* Labels. `Defines': the instruction prints the label; `Wants': it goes   *)
(* to it.                                                                  *)
(***************************************************************************)
Defines(i, l) == i.op = "label" /\ i.labels[1] = l
Wants(i, l)   == i.op \in {"jmp", "jnz"} /\ \E k \in 1..Len(i.labels) : i.labels[k] = l

Placed(code, l) == \E j \in 1..Len(code) : Defines(code[j], l)
Wanted(code, l) == \E j \in 1..Len(code) : Wants(code[j], l)
PlacedOnce(code) ==
  \A j, k \in 1..Len(code) : \A l : Defines(code[j], l) /\ Defines(code[k], l) => j = k

\* The labels a frame may still print, those of them it will print for certain,
\* and the label it has printed and still goes to.
Later(f) ==
  IF f.node.t \in {"A_COND", "A_WHILE"} /\ Labelled(f)
  THEN IF (f.node.t = "A_COND" /\ Len(f.vals) = 1) \/ (f.node.t = "A_WHILE" /\ Len(f.vals) = 0)
       THEN {f.labels[2], f.labels[3]}
       ELSE {f.labels[3]}
  ELSE {}

Owed(f) ==
  CASE f.node.t = "A_COND" /\ Len(f.vals) = 1 ->
         IF f.node.kids[3] # NoNode THEN {f.labels[2]} ELSE {f.labels[3]}
    [] f.node.t = "A_COND" /\ Len(f.vals) = 2 ->
         IF f.vals[2] = Returned THEN {} ELSE {f.labels[3]}
    [] f.node.t = "A_WHILE" /\ Len(f.vals) = 1 -> {f.labels[3]}
    [] OTHER -> {}

Gone(f) == IF f.node.t = "A_WHILE" THEN {f.labels[1]} ELSE {}

LaterAt(fs, k) == IF k \in 1..Len(fs) THEN Later(fs[k]) ELSE {}
OwedAt(fs, k)  == IF k \in 1..Len(fs) THEN Owed(fs[k]) ELSE {}
GoneAt(fs, k)  == IF k \in 1..Len(fs) THEN Gone(fs[k]) ELSE {}

\* The labels of the code and of the calls under way fit together, and none has
\* a number the counter n has yet to give.
Fit(code, fs, n) ==
  /\ PlacedOnce(code)
  /\ \A l : Placed(code, l) => l[2] < n
  /\ \A k \in 1..Len(fs) : \A l \in Later(fs[k]) : l[2] < n /\ ~ Placed(code, l)
  /\ \A j, k \in 1..Len(fs) : \A l : l \in Later(fs[j]) /\ l \in Later(fs[k]) => j = k
  /\ \A l : Wanted(code, l) => Placed(code, l) \/ \E k \in 1..Len(fs) : l \in Owed(fs[k])
  /\ \A k \in 1..Len(fs) : \A l \in Gone(fs[k]) : Placed(code, l)

Types ==
  /\ unit \in Units /\ fn \in 0..Len(unit)
  /\ mode \in {"function", "eval", "return", "done", "exit69", "segv"}
  /\ mode = "eval" => cur \in Trees
  /\ acc \in Val /\ temps \in SlotNumber /\ ids \in Nat
  /\ \A x \in DOMAIN locals : locals[x] \in SlotNumber
  /\ out \in Code

\* The stack: only the outermost call may be comp_sym's own loop.
Stack(fs) ==
  /\ fs \in Seq(Frames)
  /\ \A k \in 1..Len(fs) : GoodFrame(fs[k]) /\ (fs[k].node.t = "A_DECL" => k = 1)

Calls == Stack(frames) /\ (mode = "function" => frames = <<>>)

Inv == Types /\ Calls /\ Fit(out, frames, ids)

-----------------------------------------------------------------------------
(***************************************************************************)
(* Slots, values and nodes.                                                *)
(***************************************************************************)
\* The counter wraps: it stays a size_t.
LEMMA Counting == \A n \in SlotNumber : Up(n) \in SlotNumber /\ Down(n) \in SlotNumber
  BY WordAssumption DEF SlotNumber, Up, Down

\* Whatever is released, a slot number is left.
LEMMA Releasing == \A n \in SlotNumber, v \in Val : Release(n, v) \in SlotNumber
  BY Counting DEF Release

\* What the compiler returns is a val_t.
LEMMA Values ==
  /\ Returned \in Val
  /\ \A n \in SlotNumber : Slot(n) \in Val
  /\ \A x \in Names : Imm(x) \in Val /\ Data(x) \in Val
<1>1. 0 \in 0..Word-1
  BY WordAssumption
<1>2. Returned \in Val
  BY <1>1, NamesAssumption DEF Returned, Val
<1>3. ASSUME NEW n \in SlotNumber PROVE Slot(n) \in Val
  BY NamesAssumption DEF Slot, Val, SlotNumber
<1>4. ASSUME NEW x \in Names PROVE Imm(x) \in Val /\ Data(x) \in Val
  BY <1>1 DEF Imm, Data, Val
<1> QED BY <1>2, <1>3, <1>4

\* A tree of the unit is a node with its children.
LEMMA TreesAreNodes == \A node \in Trees : node \in Nodes /\ node.t # "A_DECL" /\ HasChildren(node)
  BY TreesAssumption DEF Nodes

\* What __comp_expr compiles of a node is trees, as many as the cases say.
LEMMA ChildrenAreTrees ==
  ASSUME NEW node \in Nodes, HasChildren(node)
  PROVE  /\ Children(node) \in Seq(Trees)
         /\ node.t = "A_ASSIGNMENT" => Len(Children(node)) = 1
         /\ node.t = "A_COND" => Len(Children(node)) = IF node.kids[3] = NoNode THEN 2 ELSE 3
         /\ node.t \notin {"A_ASSIGNMENT", "A_COND"} => Len(Children(node)) = Len(node.kids)
<1>1. node.kids \in Seq(Trees)
  BY DEF Nodes
<1>2. CASE node.t = "A_CALL_FINISHED"
  BY <1>1, <1>2 DEF Children, Reverse
<1>3. CASE node.t = "A_ASSIGNMENT"
  BY <1>1, <1>3 DEF Children, HasChildren
<1>4. CASE node.t = "A_COND"
  <2>1. Len(node.kids) = 3 /\ node.kids[1] \in Trees /\ node.kids[2] \in Trees
    BY <1>1, <1>4, ElementOfSeq DEF HasChildren
  <2>2. Children(node) = IF node.kids[3] = NoNode THEN <<node.kids[1], node.kids[2]>> ELSE node.kids
    BY <1>4 DEF Children
  <2>3. CASE node.kids[3] = NoNode
    <3>1. Children(node) = <<node.kids[1], node.kids[2]>>
      BY <2>2, <2>3
    <3>2. Children(node) \in Seq(Trees) /\ Len(Children(node)) = 2
      BY <3>1, <2>1
    <3> QED BY <3>2, <2>3, <1>4
  <2>4. CASE node.kids[3] # NoNode
    BY <1>1, <1>4, <2>1, <2>2, <2>4
  <2> QED BY <2>3, <2>4
<1>5. CASE node.t \notin {"A_CALL_FINISHED", "A_ASSIGNMENT", "A_COND"}
  BY <1>1, <1>5 DEF Children
<1> QED BY <1>2, <1>3, <1>4, <1>5

-----------------------------------------------------------------------------
(***************************************************************************)
(* Calls: what entering, going on and leaving do to the stack.             *)
(***************************************************************************)
\* One element more.
LEMMA Appended ==
  ASSUME NEW S, NEW s \in Seq(S), NEW v \in S
  PROVE  /\ Append(s, v) \in Seq(S) /\ Len(Append(s, v)) = Len(s) + 1 /\ Len(s) \in Nat
         /\ \A i \in 1..Len(s) : Append(s, v)[i] = s[i]
         /\ Append(s, v)[Len(s) + 1] = v
  OBVIOUS

\* A call that begins waits for its first child.
LEMMA FrameTyped ==
  \A node \in Nodes :
    /\ Frame(node) \in Frames
    /\ Frame(node).node = node /\ Frame(node).vals = <<>>
    /\ Frame(node).labels = <<>> /\ Frame(node).dst = -1
  BY DEF Frame, Frames

\* A value more, the rest as it was.
LEMMA KeptTyped ==
  ASSUME frames \in Seq(Frames), frames # <<>>, acc \in Val
  PROVE  /\ Kept \in Frames /\ Top \in Frames /\ Top = frames[Len(frames)]
         /\ Kept.node = Top.node /\ Kept.labels = Top.labels /\ Kept.dst = Top.dst
         /\ Kept.vals = Append(Top.vals, acc) /\ Len(Kept.vals) = Len(Top.vals) + 1
         /\ \A i \in 1..Len(Top.vals) : Kept.vals[i] = Top.vals[i]
         /\ Kept.vals[Len(Top.vals) + 1] = acc
<1>1. Top = frames[Len(frames)] /\ Len(frames) \in 1..Len(frames)
  BY DEF Top, Last
<1>2. Top \in Frames
  BY <1>1, ElementOfSeq
<1>3. Top.vals \in Seq(Val) /\ DOMAIN Top = {"node", "vals", "labels", "dst"}
  BY <1>2 DEF Frames
<1>4. Append(Top.vals, acc) \in Seq(Val)
  BY <1>3
<1>5. Kept = [Top EXCEPT !.vals = Append(Top.vals, acc)]
  BY DEF Kept
<1>6. Kept \in Frames
  BY <1>2, <1>4, <1>5 DEF Frames
<1>7. Kept.node = Top.node /\ Kept.labels = Top.labels /\ Kept.dst = Top.dst
      /\ Kept.vals = Append(Top.vals, acc)
  BY <1>2, <1>5 DEF Frames
<1>8. Len(Append(Top.vals, acc)) = Len(Top.vals) + 1
      /\ (\A i \in 1..Len(Top.vals) : Append(Top.vals, acc)[i] = Top.vals[i])
      /\ Append(Top.vals, acc)[Len(Top.vals) + 1] = acc
  BY <1>3, Appended
<1> QED BY <1>1, <1>2, <1>6, <1>7, <1>8

\* The top of a stack, and the stack below it.
LEMMA FrontIs ==
  ASSUME NEW S, NEW s \in Seq(S), s # <<>>
  PROVE  /\ Len(s) \in Nat \ {0} /\ Last(s) = s[Len(s)] /\ Last(s) \in S
         /\ Front(s) \in Seq(S) /\ Len(Front(s)) = Len(s) - 1
         /\ \A i \in 1..Len(s)-1 : Front(s)[i] = s[i]
<1>1. Len(s) \in Nat \ {0}
  BY EmptySeq, LenProperties
<1>2. /\ Len(SubSeq(s, 1, Len(s) - 1)) = Len(s) - 1
      /\ \A i \in 1..Len(s)-1 : SubSeq(s, 1, Len(s) - 1)[i] = s[i]
  <2> DEFINE n == Len(s) - 1
  <2>1. n \in Nat /\ \A i \in 1..n : s[i] \in S
    BY <1>1, ElementOfSeq
  <2> HIDE DEF n
  <2>2. Len(SubSeq(s, 1, n)) = n /\ \A i \in 1..n : SubSeq(s, 1, n)[i] = s[i]
    BY <2>1, SubSeqProperties
  <2> QED
    BY <2>2 DEF n
<1>3. Last(s) = s[Len(s)] /\ Last(s) \in S
  BY <1>1, ElementOfSeq DEF Last
<1>4. SubSeq(s, 1, Len(s) - 1) \in Seq(S)
  BY <1>1, SubSeqProperties
<1> QED
  BY <1>1, <1>2, <1>3, <1>4 DEF Front

\* The stack without its top.
LEMMA Leaving ==
  ASSUME NEW fs, Stack(fs), fs # <<>>
  PROVE  /\ Stack(Front(fs)) /\ Len(Front(fs)) = Len(fs) - 1
         /\ \A k \in 1..Len(fs)-1 : Front(fs)[k] = fs[k]
<1>1. fs \in Seq(Frames)
  BY DEF Stack
<1>4. /\ Front(fs) \in Seq(Frames) /\ Len(Front(fs)) = Len(fs) - 1
      /\ \A k \in 1..Len(fs)-1 : Front(fs)[k] = fs[k]
  BY <1>1, FrontIs
<1>5. \A k \in 1..Len(fs)-1 : k \in 1..Len(fs)
  BY <1>1
<1> QED BY <1>4, <1>5 DEF Stack

\* The stack with a call more.
LEMMA Calling ==
  ASSUME NEW fs, Stack(fs), NEW f, GoodFrame(f), f.node.t = "A_DECL" => fs = <<>>
  PROVE  /\ Stack(Append(fs, f)) /\ Len(Append(fs, f)) = Len(fs) + 1
         /\ Append(fs, f)[Len(fs) + 1] = f
         /\ \A k \in 1..Len(fs) : Append(fs, f)[k] = fs[k]
<1>1. f \in Frames
  BY DEF GoodFrame
<1>2. fs \in Seq(Frames)
  BY DEF Stack
<1> QED BY <1>1, <1>2 DEF Stack

\* The next child of a call.
LEMMA NextChild ==
  ASSUME NEW f, GoodFrame(f)
  PROVE  Children(f.node)[Len(f.vals) + 1] \in Trees
<1>1. f.node \in Nodes /\ f.vals \in Seq(Val) /\ HasChildren(f.node)
  BY DEF GoodFrame, Frames
<1>2. Children(f.node) \in Seq(Trees)
  BY <1>1, ChildrenAreTrees
<1>3. Len(f.vals) + 1 \in 1..Len(Children(f.node))
  BY <1>1, <1>2 DEF GoodFrame
<1> QED BY <1>2, <1>3, ElementOfSeq

\* A child is compiled: the stack is one call deeper.
LEMMA Entering ==
  ASSUME Calls, NEW f, GoodFrame(f), f.vals = <<>>, f.node.t = "A_DECL" => frames = <<>>, Enter(f)
  PROVE  Calls' /\ cur' \in Trees /\ mode' = "eval" /\ acc' = acc
<1>1. Stack(frames)'
  BY Calling DEF Calls, Enter
<1>2. Len(f.vals) = 0
  OBVIOUS
<1>3. cur' \in Trees
  BY NextChild, <1>2 DEF Enter
<1> QED BY <1>1, <1>3 DEF Calls, Enter

\* The call goes on to its next child.
LEMMA GoingOn ==
  ASSUME Calls, frames # <<>>, NEW f, GoodFrame(f), f.node = Top.node, Descend(f, Len(f.vals) + 1)
  PROVE  Calls' /\ cur' \in Trees /\ mode' = "eval" /\ acc' = acc
<1>1. Stack(frames) /\ Len(frames) \in Nat /\ Len(frames) > 0
  BY DEF Calls, Stack
<1>2. Stack(Below) /\ Len(Below) = Len(frames) - 1
  BY <1>1, Leaving DEF Below
<1>3. f.node.t = "A_DECL" => Below = <<>>
  BY <1>1, <1>2 DEF Stack, Top, Last
<1>4. Stack(frames)'
  BY <1>2, <1>3, Calling DEF Descend
<1>5. cur' \in Trees
  BY NextChild DEF Descend
<1> QED BY <1>4, <1>5 DEF Calls, Descend

\* The call returns.
LEMMA Popping ==
  ASSUME Calls, frames # <<>>, frames' = Below, mode' # "function" \/ Top.node.t = "A_DECL"
  PROVE  Calls'
<1>1. Stack(frames) /\ Len(frames) \in Nat /\ Len(frames) > 0
  BY DEF Calls, Stack
<1>2. Stack(Below) /\ Len(Below) = Len(frames) - 1
  BY <1>1, Leaving DEF Below
<1>3. Top.node.t = "A_DECL" => Below = <<>>
  BY <1>1, <1>2 DEF Stack, Top, Last
<1> QED BY <1>2, <1>3 DEF Calls

-----------------------------------------------------------------------------
(***************************************************************************)
(* The code: what is printed are instructions.                             *)
(***************************************************************************)
\* An instruction that is not a label has any number of labels, a label one.
LEMMA Printing ==
  /\ \A op \in Ops, dst \in Int, args \in Seq(Val), labels \in Seq(Label) :
       (op = "label" => Len(labels) = 1) => Ins(op, dst, args, labels) \in Instructions
  /\ \A l \in Label : Define(l) \in Instructions /\ Jmp(l) \in Instructions
  /\ \A v \in Val, l, m \in Label : Jnz(v, l, m) \in Instructions
  /\ \A v \in Val, dst \in Int : Copy(dst, v) \in Instructions
  /\ \A name \in Stems, n \in Int : Lab(name, n) \in Label
<1>1. ASSUME NEW op \in Ops, NEW dst \in Int, NEW args \in Seq(Val), NEW labels \in Seq(Label),
             op = "label" => Len(labels) = 1
      PROVE  Ins(op, dst, args, labels) \in Instructions
  BY <1>1 DEF Ins, Instructions
<1>2. ASSUME NEW l \in Label PROVE Define(l) \in Instructions /\ Jmp(l) \in Instructions
  <2>1. <<l>> \in Seq(Label) /\ Len(<<l>>) = 1 /\ <<>> \in Seq(Val)
    OBVIOUS
  <2>2. \A dst \in Int : Ins("label", dst, <<>>, <<l>>) \in Instructions
    BY <1>1, <2>1 DEF Ops
  <2>3. \A dst \in Int : Ins("jmp", dst, <<>>, <<l>>) \in Instructions
    BY <1>1, <2>1 DEF Ops
  <2> QED BY <2>2, <2>3 DEF Define, Jmp
<1>3. ASSUME NEW v \in Val, NEW l \in Label, NEW m \in Label PROVE Jnz(v, l, m) \in Instructions
  <2>1. <<l, m>> \in Seq(Label) /\ <<v>> \in Seq(Val)
    OBVIOUS
  <2>2. \A dst \in Int : Ins("jnz", dst, <<v>>, <<l, m>>) \in Instructions
    BY <1>1, <2>1 DEF Ops
  <2> QED BY <2>2 DEF Jnz
<1>4. ASSUME NEW v \in Val, NEW dst \in Int PROVE Copy(dst, v) \in Instructions
  <2>1. <<>> \in Seq(Label) /\ <<v>> \in Seq(Val)
    OBVIOUS
  <2>2. Ins("copy", dst, <<v>>, <<>>) \in Instructions
    BY <1>1, <2>1 DEF Ops
  <2> QED BY <2>2 DEF Copy
<1>5. \A name \in Stems, n \in Int : Lab(name, n) \in Label
  BY DEF Lab, Label
<1> QED BY <1>1, <1>2, <1>3, <1>4, <1>5

\* A binary operator has its instruction.
LEMMA Operations ==
  \A t \in BinaryTypes : Operation[t] \in Ops \ {"label", "jmp", "jnz"}
<1>1. BinaryTypes = {"A_INT_PLUS", "A_INT_MUL", "A_INT_DIV", "A_INT_MINUS", "A_INT_EQ", "A_INT_NEQ"}
  BY DEF BinaryTypes, Operation
<1> QED BY <1>1 DEF Operation, Ops

\* The text of a branch is code.
LEMMA Branching ==
  ASSUME NEW slot \in SlotNumber, NEW v \in Val, NEW l \in Label, NEW m \in Label
  PROVE  /\ Branch(v, l, m) \in Code /\ BranchValue(slot, v) \in Code
         /\ <<Jmp(l)>> \in Code /\ <<Define(l)>> \in Code /\ <<Jmp(l), Define(m)>> \in Code
         /\ <<>> \in Code
<1>1. Jnz(v, l, m) \in Instructions /\ Define(l) \in Instructions /\ Define(m) \in Instructions
      /\ Jmp(l) \in Instructions
  BY Printing
<1>2. slot \in Int
  BY WordAssumption DEF SlotNumber
<1>3. Copy(slot, v) \in Instructions
  BY <1>2, Printing
<1> QED BY <1>1, <1>3 DEF Code, Branch, BranchValue

\* What is printed after code makes code.
LEMMA CodeGrows ==
  ASSUME NEW o \in Code
  PROVE  /\ \A i \in Instructions : Append(o, i) \in Code
         /\ \A p \in Code : o \o p \in Code
  BY DEF Code

-----------------------------------------------------------------------------
(***************************************************************************)
(* Types: every step keeps them.                                           *)
(***************************************************************************)
\* The compiler ends.
LEMMA Stopping ==
  ASSUME Types, Calls, NEW how \in {"done", "exit69", "segv"}, Stop(how)
  PROVE  Types' /\ Calls'
  BY DEF Types, Calls, Stop

\* A name in scope has a slot.
LEMMA LookingUp ==
  ASSUME Types, NEW x
  PROVE  LookUp(x) \in SlotNumber \cup {-1}
  BY DEF Types, LookUp

\* A variable more, in a slot.
LEMMA Declaring ==
  ASSUME Types, NEW x, NEW n \in SlotNumber, Declare(x, n)
  PROVE  \A y \in DOMAIN locals' : locals'[y] \in SlotNumber
  BY DEF Types, Declare

\* The leaves.
LEMMA LeavesTyped ==
  ASSUME Types, Calls, EvalVoid \/ EvalLiteral \/ EvalIdent \/ EvalDeclLocal \/ EvalUnknown
  PROVE  Types' /\ Calls'
<1>1. acc \in Val /\ temps \in SlotNumber /\ Up(temps) \in SlotNumber /\ Down(temps) \in SlotNumber
  BY Counting DEF Types
<1>2. mode = "eval" => cur.lexeme \in Names
  BY TreesAreNodes DEF Types, Nodes
<1>3. CASE EvalVoid
  <2>1. acc' \in Val /\ temps' \in SlotNumber /\ mode' = "return"
    BY <1>1, <1>3, Values DEF EvalVoid, Return, AfterVoid
  <2> QED BY <1>3, <2>1 DEF EvalVoid, Types, Calls
<1>4. CASE EvalLiteral
  <2>1. acc' \in Val /\ mode' = "return"
    BY <1>2, <1>4, Values DEF EvalLiteral, Evals, Return
  <2> QED BY <1>4, <2>1 DEF EvalLiteral, Types, Calls
<1>5. CASE EvalIdent
  <2>1. CASE LookUp(cur.lexeme) # -1 /\ ~ Stop("segv")
    <3>1. LookUp(cur.lexeme) \in SlotNumber
      BY <2>1, LookingUp
    <3>2. acc' \in Val /\ temps' \in SlotNumber /\ mode' = "return"
      BY <1>1, <1>5, <2>1, <3>1, Values DEF EvalIdent, Return
    <3> QED BY <1>5, <2>1, <3>2 DEF EvalIdent, Types, Calls
  <2>2. CASE Stop("segv")
    BY <2>2, Stopping
  <2> QED BY <1>5, <2>1, <2>2 DEF EvalIdent
<1>6. CASE EvalDeclLocal
  <2>1. acc' \in Val /\ temps' \in SlotNumber /\ mode' = "return"
    BY <1>1, <1>6, Values DEF EvalDeclLocal, Return
  <2>2. \A y \in DOMAIN locals' : locals'[y] \in SlotNumber
    BY <1>1, <1>6, Declaring DEF EvalDeclLocal
  <2> QED BY <1>6, <2>1, <2>2 DEF EvalDeclLocal, Types, Calls
<1>7. CASE EvalUnknown
  BY <1>7, Stopping DEF EvalUnknown
<1> QED BY <1>3, <1>4, <1>5, <1>6, <1>7

\* A call of __comp_expr that begins: a conditional has no labels yet.
LEMMA NewCall ==
  ASSUME NEW node \in Nodes, HasChildren(node), node.t # "A_WHILE",
         node.t \in BinaryTypes \cup {"A_ASSIGNMENT", "A_DECL_ASSIGNMENT", "A_COND", "A_RET", "A_BLOCK"}
         \/ (node.t \in {"A_CALL_FINISHED", "A_DECL"} /\ node.kids # <<>>)
  PROVE  GoodFrame(Frame(node)) /\ Frame(node).node = node /\ Frame(node).vals = <<>>
<1>1. /\ Frame(node) \in Frames /\ Frame(node).node = node /\ Frame(node).vals = <<>>
      /\ Len(Frame(node).vals) = 0
  BY FrameTyped
<1>2. ~ Labelled(Frame(node))
  BY <1>1 DEF Labelled
<1>3. node.kids \in Seq(Trees)
  BY DEF Nodes
<1>4. Len(Children(node)) > 0
  <2>1. CASE node.t \in {"A_ASSIGNMENT", "A_COND"}
    <3>1. Len(Children(node)) \in {1, 2, 3}
      BY <2>1, ChildrenAreTrees
    <3> QED BY <3>1
  <2>2. CASE node.t \notin {"A_ASSIGNMENT", "A_COND"}
    <3>1. node.kids # <<>> => Len(node.kids) > 0
      BY <1>3
    <3>2. /\ node.t \in BinaryTypes => Len(node.kids) = 2
          /\ node.t \in {"A_DECL_ASSIGNMENT", "A_RET"} => Len(node.kids) = 1
      BY DEF HasChildren
    <3>3. node.t = "A_BLOCK" => node.kids # <<>>
      BY DEF HasChildren
    <3>4. CASE node.t \in BinaryTypes \cup {"A_DECL_ASSIGNMENT", "A_RET"}
      <4>1. node.t \in BinaryTypes \/ node.t \in {"A_DECL_ASSIGNMENT", "A_RET"}
        BY <3>4
      <4>2. Len(node.kids) = 1 \/ Len(node.kids) = 2
        BY <3>2, <4>1, Zenon
      <4>3. Len(node.kids) > 0
        BY <4>2, \A n : n = 1 \/ n = 2 => n > 0, Zenon
      <4> QED BY <2>2, <4>3, ChildrenAreTrees
    <3>5. CASE node.kids # <<>>
      <4>1. Len(node.kids) > 0
        BY <3>1, <3>5
      <4> QED BY <2>2, <4>1, ChildrenAreTrees
    <3>6. \/ node.t \in BinaryTypes \cup {"A_DECL_ASSIGNMENT", "A_RET"}
          \/ node.t = "A_BLOCK" \/ node.kids # <<>>
      BY <2>2
    <3> QED BY <3>3, <3>4, <3>5, <3>6
  <2> QED BY <2>1, <2>2
<1> QED BY <1>1, <1>2, <1>4 DEF GoodFrame

\* An assignment notes the slot of the left side.
LEMMA NotingSlot ==
  ASSUME NEW f, GoodFrame(f), NEW d \in SlotNumber \cup {-1}
  PROVE  LET g == [f EXCEPT !.dst = d]
         IN  GoodFrame(g) /\ g.node = f.node /\ g.vals = f.vals /\ g.labels = f.labels
<1> DEFINE g == [f EXCEPT !.dst = d]
<1>1. f \in Frames
  BY DEF GoodFrame
<1>2. g \in Frames /\ g.node = f.node /\ g.vals = f.vals /\ g.labels = f.labels
  BY <1>1 DEF Frames
<1> HIDE DEF g
<1>3. GoodFrame(g)
  BY <1>2 DEF GoodFrame, Labelled
<1> QED BY <1>2, <1>3 DEF g

\* A call gets its three labels.
LEMMA NotingLabels ==
  ASSUME NEW f \in Frames, HasChildren(f.node), Len(f.vals) < Len(Children(f.node)),
         NEW i \in Label, NEW j \in Label, NEW k \in Label, j # k
  PROVE  LET g == [f EXCEPT !.labels = <<i, j, k>>]
         IN  GoodFrame(g) /\ g.node = f.node /\ g.vals = f.vals /\ g.labels = <<i, j, k>>
<1> DEFINE g == [f EXCEPT !.labels = <<i, j, k>>]
<1>1. <<i, j, k>> \in Seq(Label)
  OBVIOUS
<1>2. g \in Frames /\ g.node = f.node /\ g.vals = f.vals /\ g.labels = <<i, j, k>>
  BY <1>1 DEF Frames
<1> HIDE DEF g
<1>3. Len(<<i, j, k>>) = 3 /\ <<i, j, k>>[2] # <<i, j, k>>[3]
  OBVIOUS
<1>4. GoodFrame(g)
  BY <1>2, <1>3 DEF GoodFrame
<1> QED BY <1>2, <1>4 DEF g

\* The three labels the counter gives are labels, and differ.
LEMMA NewLabels ==
  ASSUME NEW n \in Nat, NEW x \in Stems, NEW y \in Stems, NEW z \in Stems
  PROVE  /\ Lab(x, n) \in Label /\ Lab(y, n + 1) \in Label /\ Lab(z, n + 2) \in Label
         /\ Lab(x, n) # Lab(y, n + 1) /\ Lab(x, n) # Lab(z, n + 2) /\ Lab(y, n + 1) # Lab(z, n + 2)
<1>1. n \in Int /\ n + 1 \in Int /\ n + 2 \in Int /\ n # n + 1 /\ n # n + 2 /\ n + 1 # n + 2
  OBVIOUS
<1>2. Lab(x, n) \in Label /\ Lab(y, n + 1) \in Label /\ Lab(z, n + 2) \in Label
  BY <1>1, Printing
<1>3. Lab(x, n)[2] = n /\ Lab(y, n + 1)[2] = n + 1 /\ Lab(z, n + 2)[2] = n + 2
  BY DEF Lab
<1> QED BY <1>1, <1>2, <1>3

\* The beginning of a loop's call.
LoopCall ==
  [Frame(cur) EXCEPT !.labels = <<Lab("start", ids), Lab("loop", ids + 1), Lab("breac", ids + 2)>>]

LEMMA NewLoop ==
  ASSUME Types, EvalWhile
  PROVE  /\ GoodFrame(LoopCall) /\ LoopCall.node = cur /\ LoopCall.vals = <<>>
         /\ LoopCall.labels = <<Lab("start", ids), Lab("loop", ids + 1), Lab("breac", ids + 2)>>
<1>1. cur \in Nodes /\ HasChildren(cur) /\ cur.t = "A_WHILE" /\ ids \in Nat
  BY TreesAreNodes DEF Types, EvalWhile, Evals
<1>2. Frame(cur) \in Frames /\ Frame(cur).node = cur /\ Frame(cur).vals = <<>> /\ Len(Frame(cur).vals) = 0
  BY <1>1, FrameTyped
<1>3. Len(Children(cur)) = 2
  BY <1>1, ChildrenAreTrees DEF HasChildren
<1>4. {"start", "loop", "breac"} \subseteq Stems
  BY DEF Stems
<1>5. /\ Lab("start", ids) \in Label /\ Lab("loop", ids + 1) \in Label /\ Lab("breac", ids + 2) \in Label
      /\ Lab("loop", ids + 1) # Lab("breac", ids + 2)
  BY <1>1, <1>4, NewLabels
<1>6. Len(Frame(cur).vals) < Len(Children(Frame(cur).node)) /\ HasChildren(Frame(cur).node)
  BY <1>1, <1>2, <1>3
<1> DEFINE i == Lab("start", ids)
           j == Lab("loop", ids + 1)
           k == Lab("breac", ids + 2)
<1>7. LoopCall = [Frame(cur) EXCEPT !.labels = <<i, j, k>>]
  BY DEF LoopCall
<1>8. i \in Label /\ j \in Label /\ k \in Label /\ j # k
  BY <1>5
<1> HIDE DEF i, j, k
<1>9. /\ GoodFrame(LoopCall) /\ LoopCall.node = Frame(cur).node
      /\ LoopCall.vals = Frame(cur).vals /\ LoopCall.labels = <<i, j, k>>
  BY <1>2, <1>6, <1>7, <1>8, NotingLabels
<1> QED BY <1>2, <1>9 DEF i, j, k

\* A node with children begins.
LEMMA EntersTyped ==
  ASSUME Types, Calls,
         EvalBinary \/ EvalCall \/ EvalDeclAssignment \/ EvalAssignment \/ EvalCond
           \/ EvalReturn \/ EvalBlock
  PROVE  Types' /\ Calls'
<1>1. mode = "eval" /\ cur \in Trees /\ cur \in Nodes /\ HasChildren(cur) /\ cur.t # "A_DECL"
  BY TreesAreNodes DEF Types, EvalBinary, EvalCall, EvalDeclAssignment, EvalAssignment, EvalCond,
     EvalReturn, EvalBlock, Evals
<1>2. temps \in SlotNumber /\ Up(temps) \in SlotNumber /\ temps \in Int
  BY Counting, WordAssumption DEF Types, SlotNumber
<1>3. CASE EvalBinary \/ EvalDeclAssignment \/ EvalCond \/ EvalReturn \/ EvalBlock
  <2>1. cur.t \in BinaryTypes \cup {"A_DECL_ASSIGNMENT", "A_COND", "A_RET", "A_BLOCK"} /\ Enter(Frame(cur))
        /\ cur.t # "A_WHILE"
    BY <1>3, Operations DEF EvalBinary, EvalDeclAssignment, EvalCond, EvalReturn, EvalBlock, Evals,
       BinaryTypes, Operation
  <2>2. GoodFrame(Frame(cur)) /\ Frame(cur).node = cur /\ Frame(cur).vals = <<>>
    BY <1>1, <2>1, NewCall
  <2>3. Calls' /\ cur' \in Trees /\ mode' = "eval" /\ acc' = acc
    BY <1>1, <2>1, <2>2, Entering
  <2>4. UNCHANGED <<unit, fn, temps, ids, locals, out>>
    BY <1>3 DEF EvalBinary, EvalDeclAssignment, EvalCond, EvalReturn, EvalBlock
  <2> QED BY <2>3, <2>4 DEF Types
<1>4. CASE EvalCall
  <2>1. CASE Stop("exit69")
    BY <2>1, Stopping
  <2>2. CASE cur.kids # <<>> /\ Enter(Frame(cur)) /\ UNCHANGED <<unit, fn, temps, ids, locals, out>>
    <3>1. GoodFrame(Frame(cur)) /\ Frame(cur).node = cur /\ Frame(cur).vals = <<>>
      BY <1>1, <1>4, <2>2, NewCall DEF EvalCall, Evals
    <3>2. Calls' /\ cur' \in Trees /\ mode' = "eval" /\ acc' = acc
      BY <1>1, <2>2, <3>1, Entering
    <3> QED BY <2>2, <3>2 DEF Types
  <2>3. CASE /\ out' = Append(out, Ins("call", temps, <<>>, <<>>)) /\ Return(Slot(temps))
             /\ temps' = Up(temps) /\ UNCHANGED <<unit, fn, frames, ids, locals>>
    <3>1. Ins("call", temps, <<>>, <<>>) \in Instructions
      <4>1. "call" \in Ops /\ <<>> \in Seq(Val) /\ <<>> \in Seq(Label)
        BY DEF Ops
      <4> QED BY <4>1, <1>2, Printing
    <3>2. out' \in Code
      BY <3>1, <2>3, CodeGrows DEF Types
    <3>3. acc' \in Val /\ mode' = "return"
      BY <1>2, <2>3, Values DEF Return
    <3> QED BY <1>2, <2>3, <3>2, <3>3 DEF Types, Calls
  <2> QED BY <1>4, <2>1, <2>2, <2>3 DEF EvalCall
<1>5. CASE EvalAssignment
  <2>1. CASE Stop("segv")
    BY <2>1, Stopping
  <2>2. CASE /\ temps' = Up(temps) /\ Enter([Frame(cur) EXCEPT !.dst = LookUp(cur.kids[1].lexeme)])
             /\ UNCHANGED <<unit, fn, ids, locals, out>>
    <3> DEFINE f == [Frame(cur) EXCEPT !.dst = LookUp(cur.kids[1].lexeme)]
    <3>1. GoodFrame(Frame(cur)) /\ Frame(cur).node = cur /\ Frame(cur).vals = <<>>
      BY <1>1, <1>5, NewCall DEF EvalAssignment, Evals
    <3>2. GoodFrame(f) /\ f.node = cur /\ f.vals = <<>>
      BY <3>1, LookingUp, NotingSlot
    <3>3. Enter(f)
      BY <2>2
    <3> HIDE DEF f
    <3>4. Calls' /\ cur' \in Trees /\ mode' = "eval" /\ acc' = acc
      BY <1>1, <3>2, <3>3, Entering
    <3> QED BY <1>2, <2>2, <3>4 DEF Types
  <2> QED BY <1>5, <2>1, <2>2 DEF EvalAssignment
<1> QED BY <1>3, <1>4, <1>5

\* A loop begins.
LEMMA WhileTyped ==
  ASSUME Types, Calls, EvalWhile
  PROVE  Types' /\ Calls'
<1>1. cur \in Nodes /\ cur.t = "A_WHILE" /\ ids \in Nat
  BY TreesAreNodes DEF Types, EvalWhile, Evals
<1>2. GoodFrame(LoopCall) /\ LoopCall.node = cur /\ LoopCall.vals = <<>>
  BY NewLoop
<1>3. Enter(LoopCall) /\ out' = Append(out, Define(Lab("start", ids))) /\ ids' = ids + 3
  BY DEF EvalWhile, LoopCall
<1>4. Calls' /\ cur' \in Trees /\ mode' = "eval" /\ acc' = acc
  BY <1>1, <1>2, <1>3, Entering
<1>5. Define(Lab("start", ids)) \in Instructions
  <2>1. "start" \in Stems /\ ids \in Int
    BY <1>1 DEF Stems
  <2> QED BY <2>1, Printing
<1>6. out' \in Code
  BY <1>3, <1>5, CodeGrows DEF Types
<1> QED BY <1>1, <1>3, <1>4, <1>6 DEF Types, EvalWhile

\* A value arrives at a call under way, which has one of its children left for it.
Delivered ==
  /\ frames # <<>> /\ mode = "return"
  /\ Top \in Frames /\ GoodFrame(Top) /\ Top = frames[Len(frames)] /\ Len(frames) \in Nat \ {0}
  /\ Kept \in Frames /\ Kept.node = Top.node /\ Kept.labels = Top.labels /\ Kept.dst = Top.dst
  /\ Len(Kept.vals) = Len(Top.vals) + 1 /\ Len(Top.vals) \in Nat
  /\ Kept.vals \in Seq(Val) /\ Kept.vals[Len(Top.vals) + 1] = acc
  /\ (\A i \in 1..Len(Top.vals) : Kept.vals[i] = Top.vals[i] /\ Top.vals[i] \in Val)
  /\ acc \in Val /\ temps \in SlotNumber /\ Up(temps) \in SlotNumber
  /\ Release(temps, acc) \in SlotNumber

LEMMA Delivery ==
  ASSUME Types, Calls, mode = "return", frames # <<>>
  PROVE  Delivered
<1>1. frames \in Seq(Frames) /\ acc \in Val /\ temps \in SlotNumber
  BY DEF Types, Calls, Stack
<1>2. Len(frames) \in Nat \ {0}
  BY <1>1, FrontIs
<1>3. /\ Kept \in Frames /\ Top \in Frames /\ Top = frames[Len(frames)]
      /\ Kept.node = Top.node /\ Kept.labels = Top.labels /\ Kept.dst = Top.dst
      /\ Len(Kept.vals) = Len(Top.vals) + 1
      /\ (\A i \in 1..Len(Top.vals) : Kept.vals[i] = Top.vals[i])
      /\ Kept.vals[Len(Top.vals) + 1] = acc
  BY <1>1, KeptTyped
<1>4. GoodFrame(Top)
  BY <1>2, <1>3 DEF Calls, Stack
<1>5. Top.vals \in Seq(Val) /\ Kept.vals \in Seq(Val)
  BY <1>3 DEF Frames
<1>6. Len(Top.vals) \in Nat /\ \A i \in 1..Len(Top.vals) : Top.vals[i] \in Val
  BY <1>5, ElementOfSeq
<1> QED BY <1>1, <1>2, <1>3, <1>4, <1>5, <1>6, Counting, Releasing DEF Delivered

\* The call keeps the value while it has a child left.
LEMMA KeepsGood ==
  ASSUME Delivered, Len(Top.vals) + 1 < Len(Children(Top.node)),
         Top.node.t = "A_COND" => Len(Top.vals) > 0
  PROVE  GoodFrame(Kept)
  BY DEF Delivered, GoodFrame, Labelled

\* The conditional of a branch, with its labels.
Tested ==
  [Kept EXCEPT !.labels = <<Lab("iftr", ids), Lab("iffl", ids + 1), Lab("out", ids + 2)>>]

LEMMA NewTest ==
  ASSUME Delivered, CondTest, ids \in Nat
  PROVE  /\ GoodFrame(Tested) /\ Tested.node = Top.node /\ Tested.vals = Kept.vals
         /\ Tested.labels = <<Lab("iftr", ids), Lab("iffl", ids + 1), Lab("out", ids + 2)>>
<1>1. Kept \in Frames /\ HasChildren(Top.node) /\ Top.node \in Nodes /\ Kept.node = Top.node
  BY DEF Delivered, GoodFrame, Frames
<1>2. Len(Kept.vals) = 1 /\ 1 < Len(Children(Top.node))
  <2>1. Len(Kept.vals) = Len(Top.vals) + 1 /\ Len(Top.vals) + 1 = 1 /\ Top.node.t = "A_COND"
    BY DEF CondTest, Delivers, Delivered
  <2>2. Len(Children(Top.node)) \in {2, 3}
    BY <1>1, <2>1, ChildrenAreTrees
  <2>3. 1 < Len(Children(Top.node))
    BY <2>2
  <2> QED BY <2>1, <2>3
<1>3. {"iftr", "iffl", "out"} \subseteq Stems
  BY DEF Stems
<1> DEFINE i == Lab("iftr", ids)
           j == Lab("iffl", ids + 1)
           k == Lab("out", ids + 2)
<1>4. i \in Label /\ j \in Label /\ k \in Label /\ j # k
  BY <1>3, NewLabels
<1>5. Tested = [Kept EXCEPT !.labels = <<i, j, k>>]
  BY DEF Tested
<1> HIDE DEF i, j, k
<1>6. /\ GoodFrame(Tested) /\ Tested.node = Kept.node
      /\ Tested.vals = Kept.vals /\ Tested.labels = <<i, j, k>>
  <2>1. HasChildren(Kept.node) /\ Len(Kept.vals) < Len(Children(Kept.node))
    <3>1. Len(Kept.vals) < Len(Children(Top.node))
      BY <1>2
    <3> QED BY <1>1, <3>1
  <2> QED BY <1>1, <2>1, <1>4, <1>5, NotingLabels
<1> QED BY <1>1, <1>6 DEF i, j, k

\* The labels of a call that has them.
LEMMA ItsLabels ==
  ASSUME NEW f, GoodFrame(f), Labelled(f)
  PROVE  /\ f.labels \in Seq(Label) /\ Len(f.labels) = 3 /\ f.labels[2] # f.labels[3]
         /\ f.labels[1] \in Label /\ f.labels[2] \in Label /\ f.labels[3] \in Label
<1>1. f.labels \in Seq(Label) /\ Len(f.labels) = 3 /\ f.labels[2] # f.labels[3]
  BY DEF GoodFrame, Frames
<1>2. \A i \in 1..Len(f.labels) : f.labels[i] \in Label
  BY <1>1, ElementOfSeq
<1> QED BY <1>1, <1>2

\* The next child of a call.
LEMMA DescendsTyped ==
  ASSUME Types, Calls, BinaryRight \/ CallArgument \/ NextStatement \/ WhileTest
  PROVE  Types' /\ Calls'
<1>1. Delivered
  BY Delivery DEF BinaryRight, CallArgument, NextStatement, WhileTest, Delivers, DeliversSome
<1>2. Top.node \in Nodes /\ HasChildren(Top.node) /\ Top.node.t \notin {"A_ASSIGNMENT", "A_COND"}
  BY <1>1 DEF BinaryRight, CallArgument, NextStatement, WhileTest, Delivers, DeliversSome,
     Delivered, GoodFrame, Frames, BinaryTypes, Operation
<1>3. Len(Children(Top.node)) = Len(Top.node.kids)
  BY <1>2, ChildrenAreTrees
<1>4. Top.node.t \in BinaryTypes \cup {"A_WHILE"} => Len(Top.node.kids) = 2
  BY <1>2 DEF HasChildren
<1>5. Len(Top.vals) + 1 < Len(Children(Top.node)) /\ Descend(Kept, Len(Kept.vals) + 1)
  <2>1. Len(Kept.vals) = Len(Top.vals) + 1 /\ Len(Top.vals) \in Nat
    BY <1>1 DEF Delivered
  <2>2. CASE BinaryRight \/ WhileTest
    <3>1. Len(Top.vals) + 1 = 1 /\ Descend(Kept, 2) /\ Top.node.t \in BinaryTypes \cup {"A_WHILE"}
      BY <2>2 DEF BinaryRight, WhileTest, Delivers
    <3>2. Len(Kept.vals) + 1 = 2
      BY <2>1, <3>1
    <3>3. Descend(Kept, Len(Kept.vals) + 1)
      BY <3>1, <3>2, Zenon
    <3>4. Len(Children(Top.node)) = 2
      BY <3>1, <1>3, <1>4
    <3> QED BY <3>1, <3>3, <3>4
  <2>3. CASE CallArgument \/ NextStatement
    <3>1. Len(Top.vals) + 1 < Len(Top.node.kids) /\ Descend(Kept, Len(Top.vals) + 2)
      BY <2>3 DEF CallArgument, NextStatement, DeliversSome
    <3>2. Len(Top.vals) + 2 = Len(Kept.vals) + 1
      BY <2>1
    <3> QED BY <3>1, <3>2, <1>3
  <2> QED BY <2>2, <2>3
<1>6. GoodFrame(Kept) /\ Kept.node = Top.node /\ frames # <<>>
  BY <1>1, <1>2, <1>5, KeepsGood DEF Delivered
<1>7. Calls' /\ cur' \in Trees /\ mode' = "eval" /\ acc' = acc
  BY <1>5, <1>6, GoingOn
<1>8. temps' \in SlotNumber /\ UNCHANGED <<unit, fn, ids, locals>>
  BY <1>1 DEF BinaryRight, CallArgument, NextStatement, WhileTest, Delivered, AfterRight
<1>9. out' \in Code
  <2>1. CASE WhileTest
    <3>1. Labelled(Top) /\ GoodFrame(Top) /\ acc \in Val
      BY <1>1, <2>1 DEF WhileTest, Delivers, Delivered, Labelled
    <3>2. Top.labels[2] \in Label /\ Top.labels[3] \in Label
      BY <3>1, ItsLabels
    <3>3. Branch(acc, Top.labels[2], Top.labels[3]) \in Code
      BY <1>1, <3>1, <3>2, Branching DEF Delivered
    <3> QED BY <2>1, <3>3, CodeGrows DEF WhileTest, Types
  <2>2. CASE UNCHANGED out
    BY <2>2 DEF Types
  <2> QED BY <2>1, <2>2 DEF BinaryRight, CallArgument, NextStatement
<1> QED BY <1>7, <1>8, <1>9 DEF Types

\* The branch of a conditional is chosen, and the label after the then branch.
LEMMA CondTyped ==
  ASSUME Types, Calls, CondTest \/ CondThen \/ CondElse
  PROVE  Types' /\ Calls'
<1>1. Delivered /\ ids \in Nat
  BY Delivery DEF CondTest, CondThen, CondElse, Delivers, Types
<1>2. /\ Top.node \in Nodes /\ HasChildren(Top.node) /\ Top.node.t = "A_COND" /\ GoodFrame(Top)
      /\ frames # <<>> /\ acc \in Val /\ Release(temps, acc) \in SlotNumber
  BY <1>1 DEF CondTest, CondThen, CondElse, Delivers, Delivered, GoodFrame, Frames
<1>3. Len(Children(Top.node)) = IF HasElse THEN 3 ELSE 2
  BY <1>2, ChildrenAreTrees DEF HasElse
<1>4. CASE CondTest
  <2> DEFINE i == Lab("iftr", ids)
             j == Lab("iffl", ids + 1)
             k == Lab("out", ids + 2)
  <2>1. i \in Label /\ j \in Label /\ k \in Label
    BY <1>1, NewLabels DEF Stems
  <2>2. GoodFrame(Tested) /\ Tested.node = Top.node /\ Tested.vals = Kept.vals
    BY <1>1, <1>4, NewTest
  <2>3. Len(Tested.vals) + 1 = 2
    <3>1. Len(Kept.vals) = 1
      BY <1>1, <1>4 DEF CondTest, Delivers, Delivered
    <3> QED BY <2>2, <3>1
  <2>4. Descend(Tested, 2) /\ out' = out \o Branch(acc, i, IF HasElse THEN j ELSE k)
    BY <1>4 DEF CondTest, Tested
  <2>5. Descend(Tested, Len(Tested.vals) + 1)
    BY <2>3, <2>4, Zenon
  <2>6. Calls' /\ cur' \in Trees /\ mode' = "eval" /\ acc' = acc
    BY <1>2, <2>2, <2>5, GoingOn
  <2> HIDE DEF i, j, k
  <2>7. Branch(acc, i, IF HasElse THEN j ELSE k) \in Code
    BY <1>2, <2>1, Branching
  <2>8. out' \in Code
    BY <2>4, <2>7, CodeGrows DEF Types
  <2>9. temps' \in SlotNumber /\ ids' \in Nat /\ UNCHANGED <<unit, fn, locals>>
    BY <1>1, <1>2, <1>4 DEF CondTest
  <2> QED BY <2>6, <2>8, <2>9 DEF Types
<1>5. CASE CondThen \/ CondElse
  <2> DEFINE free == Release(temps, acc)
             exit == Top.labels[3]
  <2>1. Labelled(Top)
    <3>1. Len(Top.vals) + 1 \in {2, 3}
      BY <1>5 DEF CondThen, CondElse, Delivers
    <3>2. Len(Top.vals) \in Nat
      BY <1>2 DEF GoodFrame, Frames
    <3>3. Len(Top.vals) > 0
      BY <3>1, <3>2
    <3> QED BY <1>2, <3>3 DEF Labelled
  <2>2. Top.labels[2] \in Label /\ exit \in Label /\ free \in SlotNumber /\ Up(free) \in SlotNumber
    BY <1>2, <2>1, ItsLabels, Counting
  <2>3. /\ BranchValue(free, acc) \in Code /\ <<Define(exit)>> \in Code /\ <<Jmp(exit)>> \in Code
        /\ <<Define(Top.labels[2])>> \in Code /\ <<>> \in Code
    BY <1>2, <2>2, Branching
  <2>4. \A p, q \in Code : p \o q \in Code
    BY CodeGrows
  <2>5. UNCHANGED <<unit, fn, ids, locals>>
    BY <1>5 DEF CondThen, CondElse
  <2>6. CASE CondThen /\ Descend(Kept, 3)
    <3>1. HasElse /\ temps' = free /\ Len(Top.vals) + 1 = 2
          /\ out' = out \o BranchValue(free, acc)
                        \o (IF acc = Returned THEN <<>> ELSE <<Jmp(exit)>>)
                        \o << Define(Top.labels[2]) >>
      <4>1. CASE HasElse
        BY <4>1, <2>6 DEF CondThen, Delivers
      <4>2. CASE ~ HasElse
        BY <4>2, <2>6 DEF CondThen, Descend, Return
      <4> QED BY <4>1, <4>2
    <3>2. Len(Kept.vals) + 1 = 3 /\ Len(Top.vals) + 1 < Len(Children(Top.node)) /\ Len(Top.vals) > 0
      BY <1>1, <1>3, <3>1 DEF Delivered
    <3>3. Descend(Kept, Len(Kept.vals) + 1)
      BY <2>6, <3>2, Zenon
    <3>4. GoodFrame(Kept) /\ Kept.node = Top.node
      BY <1>1, <3>2, KeepsGood DEF Delivered
    <3>5. Calls' /\ cur' \in Trees /\ mode' = "eval" /\ acc' = acc
      BY <1>2, <3>3, <3>4, GoingOn
    <3>6. out' \in Code
      BY <2>3, <2>4, <3>1 DEF Types
    <3> QED BY <1>2, <2>2, <2>5, <3>1, <3>5, <3>6 DEF Types
  <2>7. CASE frames' = Below /\ Return(Slot(free))
    <3>1. temps' = Up(free) /\ (\/ out' = out \o BranchValue(free, acc) \o << Define(exit) >>
                                \/ out' = out \o BranchValue(free, acc)
                                              \o (IF ThenReturned THEN <<>> ELSE << Define(exit) >>))
      BY <1>5, <2>7 DEF CondThen, CondElse, Descend, Return
    <3>2. out' \in Code
      <4>1. out \o BranchValue(free, acc) \in Code
        BY <2>3, <2>4 DEF Types
      <4>2. (IF ThenReturned THEN <<>> ELSE << Define(exit) >>) \in Code
        BY <2>3
      <4> QED BY <2>3, <2>4, <3>1, <4>1, <4>2
    <3>3. acc' \in Val /\ mode' = "return"
      BY <2>2, <2>7, Values DEF Return
    <3>4. Calls'
      BY <1>2, <2>7, <3>3, Popping
    <3> QED BY <2>2, <2>5, <3>1, <3>2, <3>3, <3>4 DEF Types
  <2> QED BY <1>5, <2>6, <2>7 DEF CondThen, CondElse
<1> QED BY <1>4, <1>5

\* A call returns a value.
LEMMA ReturnsTyped ==
  ASSUME Types, Calls,
         BinaryLeft \/ CallLast \/ DeclAssignment \/ Assignment \/ WhileBody \/ ReturnValue \/ BlockLast
  PROVE  Types' /\ Calls'
<1>1. Delivered
  BY Delivery DEF BinaryLeft, CallLast, DeclAssignment, Assignment, WhileBody, ReturnValue, BlockLast,
     Delivers, DeliversLast
<1>2. /\ frames # <<>> /\ acc \in Val /\ temps \in SlotNumber /\ GoodFrame(Top) /\ out \in Code
      /\ Release(temps, acc) \in SlotNumber /\ Up(Release(temps, acc)) \in SlotNumber
  BY <1>1, Counting DEF Delivered, Types
<1>3. ASSUME NEW v \in Val, Return(v), frames' = Below
      PROVE  Calls' /\ acc' \in Val /\ mode' = "return"
  <2>1. acc' \in Val /\ mode' = "return"
    BY <1>3 DEF Return
  <2> QED BY <1>2, <1>3, <2>1, Popping
<1>4. CASE BinaryLeft
  <2> DEFINE free == Release(Release(temps, Top.vals[1]), acc)
  <2>1. Top.vals[1] \in Val /\ Top.node.t \in BinaryTypes
    BY <1>1, <1>4 DEF BinaryLeft, Delivers, Delivered
  <2>2. Release(temps, Top.vals[1]) \in SlotNumber
    BY <1>2, <2>1, Releasing
  <2>3. free \in SlotNumber /\ Up(free) \in SlotNumber /\ free \in Int
    <3>1. free \in SlotNumber
      BY <1>2, <2>2, Releasing
    <3> HIDE DEF free
    <3>2. Up(free) \in SlotNumber
      BY <3>1, Counting
    <3>3. free \in Int
      BY <3>1, WordAssumption DEF SlotNumber
    <3> QED BY <3>1, <3>2, <3>3
  <2>4. Operation[Top.node.t] \in Ops \ {"label", "jmp", "jnz"} /\ <<>> \in Seq(Label)
        /\ Ordered(acc, Top.vals[1]) \in Seq(Val)
    BY <1>2, <2>1, Operations DEF Ordered
  <2>5. Ins(Operation[Top.node.t], free, Ordered(acc, Top.vals[1]), <<>>) \in Instructions
    BY <2>3, <2>4, Printing
  <2>6. out' \in Code
    BY <1>2, <1>4, <2>5, CodeGrows DEF BinaryLeft
  <2>7. Calls' /\ acc' \in Val /\ mode' = "return"
    BY <1>3, <1>4, <2>3, Values DEF BinaryLeft
  <2> QED BY <1>4, <2>3, <2>6, <2>7 DEF BinaryLeft, Types
<1>5. CASE CallLast
  <2> DEFINE free == Release(temps, acc)
  <2>1. free \in SlotNumber /\ Up(free) \in SlotNumber /\ free \in Int
    BY <1>2, WordAssumption DEF SlotNumber
  <2>2. "call" \in Ops /\ Kept.vals \in Seq(Val) /\ <<>> \in Seq(Label)
    BY <1>1 DEF Ops, Delivered
  <2>3. Ins("call", free, Kept.vals, <<>>) \in Instructions
    BY <2>1, <2>2, Printing
  <2>4. out' \in Code
    BY <1>2, <1>5, <2>3, CodeGrows DEF CallLast
  <2>5. Calls' /\ acc' \in Val /\ mode' = "return"
    BY <1>3, <1>5, <2>1, Values DEF CallLast
  <2> QED BY <1>5, <2>1, <2>4, <2>5 DEF CallLast, Types
<1>6. CASE DeclAssignment
  <2> DEFINE slot == Release(temps, acc)
  <2>1. slot \in SlotNumber /\ SlotAfter(slot) \in SlotNumber /\ slot \in Int
    BY <1>2, WordAssumption DEF SlotNumber, SlotAfter
  <2>2. Copy(slot, acc) \in Instructions
    BY <1>2, <2>1, Printing
  <2>3. out' \in Code
    BY <1>2, <1>6, <2>2, CodeGrows DEF DeclAssignment
  <2>4. \A y \in DOMAIN locals' : locals'[y] \in SlotNumber
    BY <1>6, <2>1, Declaring DEF DeclAssignment
  <2>5. Calls' /\ acc' \in Val /\ mode' = "return"
    BY <1>3, <1>6, <2>1, Values DEF DeclAssignment
  <2> QED BY <1>6, <2>1, <2>3, <2>4, <2>5 DEF DeclAssignment, Types
<1>7. CASE Assignment
  <2>1. CASE Stop("segv")
    BY <2>1, Stopping
  <2>2. CASE /\ Top.dst # -1 /\ out' = Append(out, Copy(Top.dst, acc))
             /\ temps' = Release(temps, acc) /\ Return(Slot(Top.dst)) /\ frames' = Below
             /\ UNCHANGED <<unit, fn, ids, locals>>
    <3>1. Top.dst \in SlotNumber /\ Top.dst \in Int
      BY <1>2, <2>2, WordAssumption DEF GoodFrame, Frames, SlotNumber
    <3>2. Copy(Top.dst, acc) \in Instructions
      BY <1>2, <3>1, Printing
    <3>3. out' \in Code
      BY <1>2, <2>2, <3>2, CodeGrows
    <3>4. Calls' /\ acc' \in Val /\ mode' = "return"
      BY <1>3, <2>2, <3>1, Values
    <3> QED BY <1>2, <2>2, <3>3, <3>4 DEF Types
  <2> QED BY <1>7, <2>1, <2>2 DEF Assignment
<1>8. CASE WhileBody
  <2>1. Labelled(Top)
    BY <1>8 DEF WhileBody, Delivers, Labelled
  <2>2. Top.labels[1] \in Label /\ Top.labels[3] \in Label
    BY <1>2, <2>1, ItsLabels
  <2>3. << Jmp(Top.labels[1]), Define(Top.labels[3]) >> \in Code
    BY <1>2, <2>2, Branching
  <2>4. out' \in Code
    BY <1>2, <1>8, <2>3, CodeGrows DEF WhileBody
  <2>5. Calls' /\ acc' \in Val /\ mode' = "return"
    BY <1>2, <1>3, <1>8 DEF WhileBody
  <2> QED BY <1>8, <2>4, <2>5 DEF WhileBody, Types
<1>9. CASE ReturnValue
  <2>1. Ins("ret", -1, <<acc>>, <<>>) \in Instructions
    <3>1. "ret" \in Ops /\ <<acc>> \in Seq(Val) /\ <<>> \in Seq(Label)
      BY <1>2 DEF Ops
    <3>2. \A dst \in Int : Ins("ret", dst, <<acc>>, <<>>) \in Instructions
      BY <3>1, Printing
    <3> QED BY <3>2
  <2>2. out' \in Code
    BY <1>2, <1>9, <2>1, CodeGrows DEF ReturnValue
  <2>3. Calls' /\ acc' \in Val /\ mode' = "return"
    BY <1>3, <1>9, Values DEF ReturnValue
  <2>4. temps' \in SlotNumber
    BY <1>9, WordAssumption DEF ReturnValue, AfterReturn, SlotNumber
  <2> QED BY <1>9, <2>2, <2>3, <2>4 DEF ReturnValue, Types
<1>10. CASE BlockLast
  <2>1. Calls' /\ acc' \in Val /\ mode' = "return"
    BY <1>2, <1>3, <1>10 DEF BlockLast
  <2> QED BY <1>10, <2>1 DEF BlockLast, Types
<1> QED BY <1>4, <1>5, <1>6, <1>7, <1>8, <1>9, <1>10

\* comp_sym begins and ends a function.
LEMMA FunctionsTyped ==
  ASSUME Types, Calls, BeginFunction \/ EndFunction \/ EndUnit
  PROVE  Types' /\ Calls'
<1>1. CASE BeginFunction
  <2> DEFINE f == unit[fn + 1]
  <2>1. /\ fn \in 0..Len(unit) /\ fn < Len(unit) /\ frames = <<>> /\ mode = "function"
        /\ unit \in Seq([name : Names, params : Seq(Names), body : Seq(Trees)])
    BY <1>1, UnitsAssumption DEF BeginFunction, Types, Calls
  <2>2. fn + 1 \in 1..Len(unit)
    BY <2>1
  <2>3. f \in [name : Names, params : Seq(Names), body : Seq(Trees)]
    BY <2>1, <2>2, ElementOfSeq
  <2>4. /\ FunctionNode(f) \in Nodes /\ FunctionNode(f).t = "A_DECL"
        /\ FunctionNode(f).kids = f.body
    BY <2>3 DEF FunctionNode, Nodes
  <2>5. HasChildren(FunctionNode(f))
    BY <2>4 DEF HasChildren, BinaryTypes, Operation
  <2>6. out' \in Code
    <3>1. \A n \in Int : Lab("start", n) \in Label
      BY Printing DEF Stems
    <3>2. Lab("start", -1) \in Label
      BY <3>1
    <3>3. <<Define(Lab("start", -1))>> \in Code
      BY <3>2, Printing DEF Code
    <3> QED BY <1>1, <3>3 DEF BeginFunction
  <2>7. fn' \in 0..Len(unit)
    BY <1>1, <2>1, <2>2 DEF BeginFunction
  <2>8. CASE f.body = <<>>
    <3>1. UNCHANGED <<unit, mode, cur, acc, frames, temps, ids>> /\ locals' = <<>>
      BY <1>1, <2>8 DEF BeginFunction
    <3> QED BY <2>1, <2>6, <2>7, <3>1 DEF Types, Calls
  <2>9. CASE f.body # <<>>
    <3>1. Enter(Frame(FunctionNode(f))) /\ UNCHANGED <<unit, temps, ids>> /\ locals' = <<>>
      BY <1>1, <2>9 DEF BeginFunction
    <3>2. /\ GoodFrame(Frame(FunctionNode(f))) /\ Frame(FunctionNode(f)).node = FunctionNode(f)
          /\ Frame(FunctionNode(f)).vals = <<>>
      BY <2>4, <2>5, <2>9, NewCall
    <3>3. Calls' /\ cur' \in Trees /\ mode' = "eval" /\ acc' = acc
      BY <2>1, <3>1, <3>2, Entering
    <3> QED BY <2>6, <2>7, <3>1, <3>3 DEF Types
  <2> QED BY <2>8, <2>9
<1>2. CASE EndFunction
  <2>1. frames # <<>> /\ Top.node.t = "A_DECL" /\ frames' = Below
    BY <1>2 DEF EndFunction, DeliversLast
  <2>2. Calls'
    BY <2>1, Popping
  <2> QED BY <1>2, <2>2 DEF EndFunction, Types
<1>3. CASE EndUnit
  BY <1>3, Stopping DEF EndUnit
<1> QED BY <1>1, <1>2, <1>3

\* Every step of the compiler keeps the types and the calls.
LEMMA Typing ==
  ASSUME Types, Calls, [Next]_vars
  PROVE  Types' /\ Calls'
<1>1. CASE UNCHANGED vars
  BY <1>1 DEF vars, Types, Calls
<1>2. CASE EvalVoid \/ EvalLiteral \/ EvalIdent \/ EvalDeclLocal \/ EvalUnknown
  BY <1>2, LeavesTyped
<1>3. CASE EvalBinary \/ EvalCall \/ EvalDeclAssignment \/ EvalAssignment \/ EvalCond
           \/ EvalReturn \/ EvalBlock
  BY <1>3, EntersTyped
<1>4. CASE EvalWhile
  BY <1>4, WhileTyped
<1>5. CASE BinaryRight \/ CallArgument \/ NextStatement \/ WhileTest
  BY <1>5, DescendsTyped
<1>6. CASE CondTest \/ CondThen \/ CondElse
  BY <1>6, CondTyped
<1>7. CASE BinaryLeft \/ CallLast \/ DeclAssignment \/ Assignment \/ WhileBody \/ ReturnValue \/ BlockLast
  BY <1>7, ReturnsTyped
<1>8. CASE BeginFunction \/ EndFunction \/ EndUnit
  BY <1>8, FunctionsTyped
<1> QED BY <1>1, <1>2, <1>3, <1>4, <1>5, <1>6, <1>7, <1>8 DEF Next

\* The compiler starts with them.
LEMMA TypesAtFirst ==
  ASSUME Init
  PROVE  Types /\ Calls
<1>1. unit \in Seq([name : Names, params : Seq(Names), body : Seq(Trees)])
  BY UnitsAssumption DEF Init
<1>2. fn \in 0..Len(unit) /\ temps \in SlotNumber /\ ids \in Nat
  BY <1>1, WordAssumption DEF Init, SlotNumber
<1>3. acc \in Val
  BY Values DEF Init
<1>4. out \in Code /\ frames \in Seq(Frames) /\ Len(frames) = 0
  BY DEF Init, Code
<1> QED BY <1>2, <1>3, <1>4 DEF Init, Types, Calls, Stack

\* What the runs call the types follows.
LEMMA TypesSuffice ==
  ASSUME Types, Calls
  PROVE  TypeOK
<1>1. ASSUME NEW i \in DOMAIN frames PROVE FrameOK(frames[i])
  <2>1. i \in 1..Len(frames) /\ GoodFrame(frames[i])
    BY DEF Calls, Stack
  <2>2. frames[i] \in Frames /\ frames[i].vals \in Seq(Val)
    BY <2>1 DEF GoodFrame, Frames
  <2>3. \A j \in DOMAIN frames[i].vals : frames[i].vals[j] \in Val
    BY <2>2, ElementOfSeq
  <2> QED BY <2>1, <2>2, <2>3 DEF FrameOK, GoodFrame, Frames
<1> QED BY <1>1 DEF Types, TypeOK

\* Codegen.TypeOK, in every reachable state: each call of __comp_expr under way
\* waits for a child its node has, values are val_t's, and slots fit in a size_t.
THEOREM CodegenTyped == Spec => []TypeOK
<1>1. Init => Types /\ Calls
  BY TypesAtFirst
<1>2. Types /\ Calls /\ [Next]_vars => Types' /\ Calls'
  BY Typing
<1>3. Types /\ Calls => TypeOK
  BY TypesSuffice
<1> QED BY <1>1, <1>2, <1>3, PTL DEF Spec

-----------------------------------------------------------------------------
(***************************************************************************)
(* Labels: what is printed fits what the calls under way still owe.        *)
(***************************************************************************)
\* A label that is printed is a label.
LEMMA PlacedIsLabel ==
  ASSUME NEW o \in Code, NEW l, Placed(o, l)
  PROVE  l \in Label
<1>1. PICK j \in 1..Len(o) : Defines(o[j], l)
  BY DEF Placed
<1>2. o[j] \in Instructions
  BY ElementOfSeq DEF Code
<1>3. o[j].labels \in Seq(Label) /\ Len(o[j].labels) = 1 /\ o[j].labels[1] = l
  BY <1>1, <1>2 DEF Instructions, Defines
<1>4. 1 \in 1..Len(o[j].labels)
  BY <1>3
<1> QED BY <1>3, <1>4, ElementOfSeq

\* A label is a name and a number.
LEMMA LabelNumber == \A l \in Label : l[2] \in Int
  BY DEF Label

\* Code after code.
LEMMA CodeAfterCode ==
  ASSUME NEW o \in Code, NEW p \in Code
  PROVE  /\ \A l : Placed(o \o p, l) <=> Placed(o, l) \/ Placed(p, l)
         /\ \A l : Wanted(o \o p, l) <=> Wanted(o, l) \/ Wanted(p, l)
         /\ PlacedOnce(o) /\ PlacedOnce(p) /\ (\A l : ~ (Placed(o, l) /\ Placed(p, l)))
              => PlacedOnce(o \o p)
<1> DEFINE n == Len(o)
           m == Len(p)
           q == o \o p
<1>1. /\ n \in Nat /\ m \in Nat /\ Len(q) = n + m
      /\ (\A j \in 1..n : q[j] = o[j]) /\ (\A j \in 1..m : q[n + j] = p[j])
  BY DEF Code
<1>2. \A j \in 1..n+m : j \in 1..n \/ (j - n \in 1..m /\ j = n + (j - n))
  BY <1>1
<1>3. \A j \in 1..n : j \in 1..n+m
  BY <1>1
<1>4. \A j \in 1..m : n + j \in 1..n+m
  BY <1>1
<1>5. n = Len(o) /\ m = Len(p)
  OBVIOUS
<1> HIDE DEF n, m, q
<1>6. ASSUME NEW l PROVE Placed(q, l) <=> Placed(o, l) \/ Placed(p, l)
  <2>1. ASSUME Placed(q, l) PROVE Placed(o, l) \/ Placed(p, l)
    <3>1. PICK j \in 1..n+m : Defines(q[j], l)
      BY <1>1, <2>1 DEF Placed
    <3>2. CASE j \in 1..n
      BY <1>1, <1>5, <3>1, <3>2 DEF Placed
    <3>3. CASE j - n \in 1..m /\ j = n + (j - n)
      <4>1. Defines(p[j - n], l)
        BY <1>1, <3>1, <3>3
      <4> QED BY <1>5, <3>3, <4>1 DEF Placed
    <3> QED BY <1>2, <3>2, <3>3
  <2>2. Placed(o, l) => Placed(q, l)
    BY <1>1, <1>3, <1>5 DEF Placed
  <2>3. Placed(p, l) => Placed(q, l)
    BY <1>1, <1>4, <1>5 DEF Placed
  <2> QED BY <2>1, <2>2, <2>3
<1>7. ASSUME NEW l PROVE Wanted(q, l) <=> Wanted(o, l) \/ Wanted(p, l)
  <2>1. ASSUME Wanted(q, l) PROVE Wanted(o, l) \/ Wanted(p, l)
    <3>1. PICK j \in 1..n+m : Wants(q[j], l)
      BY <1>1, <2>1 DEF Wanted
    <3>2. CASE j \in 1..n
      BY <1>1, <1>5, <3>1, <3>2 DEF Wanted
    <3>3. CASE j - n \in 1..m /\ j = n + (j - n)
      <4>1. Wants(p[j - n], l)
        BY <1>1, <3>1, <3>3
      <4> QED BY <1>5, <3>3, <4>1 DEF Wanted
    <3> QED BY <1>2, <3>2, <3>3
  <2>2. Wanted(o, l) => Wanted(q, l)
    BY <1>1, <1>3, <1>5 DEF Wanted
  <2>3. Wanted(p, l) => Wanted(q, l)
    BY <1>1, <1>4, <1>5 DEF Wanted
  <2> QED BY <2>1, <2>2, <2>3
<1>8. ASSUME PlacedOnce(o), PlacedOnce(p), \A l : ~ (Placed(o, l) /\ Placed(p, l))
      PROVE  PlacedOnce(q)
  <2> SUFFICES ASSUME NEW j \in 1..Len(q), NEW k \in 1..Len(q), NEW l, Defines(q[j], l), Defines(q[k], l)
               PROVE  j = k
    BY DEF PlacedOnce
  <2>1. CASE j \in 1..n /\ k \in 1..n
    BY <1>1, <1>5, <1>8, <2>1 DEF PlacedOnce
  <2>2. CASE j - n \in 1..m /\ k - n \in 1..m /\ j = n + (j - n) /\ k = n + (k - n)
    <3>1. Defines(p[j - n], l) /\ Defines(p[k - n], l)
      BY <1>1, <2>2
    <3>2. j - n = k - n
      BY <1>5, <1>8, <2>2, <3>1 DEF PlacedOnce
    <3> QED BY <2>2, <3>2
  <2>3. CASE j \in 1..n /\ k - n \in 1..m /\ k = n + (k - n)
    BY <1>1, <1>5, <1>8, <2>3 DEF Placed
  <2>4. CASE k \in 1..n /\ j - n \in 1..m /\ j = n + (j - n)
    BY <1>1, <1>5, <1>8, <2>4 DEF Placed
  <2> QED BY <1>1, <1>2, <2>1, <2>2, <2>3, <2>4
<1> QED BY <1>6, <1>7, <1>8 DEF q

\* One instruction, and none.
LEMMA CodeOfOne ==
  /\ \A i : /\ \A l : (Placed(<<i>>, l) <=> Defines(i, l)) /\ (Wanted(<<i>>, l) <=> Wants(i, l))
            /\ PlacedOnce(<<i>>)
  /\ PlacedOnce(<<>>) /\ \A l : ~ Placed(<<>>, l) /\ ~ Wanted(<<>>, l)
<1>1. ASSUME NEW i PROVE /\ \A l : (Placed(<<i>>, l) <=> Defines(i, l)) /\ (Wanted(<<i>>, l) <=> Wants(i, l))
                         /\ PlacedOnce(<<i>>)
  <2>1. Len(<<i>>) = 1 /\ <<i>>[1] = i /\ 1..1 = {1}
    OBVIOUS
  <2> QED BY <2>1 DEF Placed, Wanted, PlacedOnce
<1>2. PlacedOnce(<<>>) /\ \A l : ~ Placed(<<>>, l) /\ ~ Wanted(<<>>, l)
  BY DEF PlacedOnce, Placed, Wanted
<1> QED BY <1>1, <1>2

\* What each instruction prints and goes to.
LEMMA Instructing ==
  ASSUME NEW l
  PROVE  /\ \A m : (Defines(Define(m), l) <=> l = m) /\ ~ Wants(Define(m), l)
         /\ \A m : ~ Defines(Jmp(m), l) /\ (Wants(Jmp(m), l) <=> l = m)
         /\ \A v, m, p : ~ Defines(Jnz(v, m, p), l) /\ (Wants(Jnz(v, m, p), l) <=> l = m \/ l = p)
         /\ \A v, d : ~ Defines(Copy(d, v), l) /\ ~ Wants(Copy(d, v), l)
<1>1. ASSUME NEW m PROVE (Defines(Define(m), l) <=> l = m) /\ ~ Wants(Define(m), l)
  BY DEF Define, Ins, Defines, Wants
<1>2. ASSUME NEW m PROVE ~ Defines(Jmp(m), l) /\ (Wants(Jmp(m), l) <=> l = m)
  <2>1. Len(<<m>>) = 1 /\ <<m>>[1] = m /\ 1..1 = {1}
    OBVIOUS
  <2> QED BY <2>1 DEF Jmp, Ins, Defines, Wants
<1>3. ASSUME NEW v, NEW m, NEW p
      PROVE  ~ Defines(Jnz(v, m, p), l) /\ (Wants(Jnz(v, m, p), l) <=> l = m \/ l = p)
  <2>1. Len(<<m, p>>) = 2 /\ <<m, p>>[1] = m /\ <<m, p>>[2] = p /\ 1..2 = {1, 2}
    OBVIOUS
  <2> QED BY <2>1 DEF Jnz, Ins, Defines, Wants
<1>4. ASSUME NEW v, NEW d PROVE ~ Defines(Copy(d, v), l) /\ ~ Wants(Copy(d, v), l)
  BY DEF Copy, Ins, Defines, Wants
<1> QED BY <1>1, <1>2, <1>3, <1>4

\* Two stacks that agree up to height b, and have at most one call more.
Shares(fs, gs, b) ==
  /\ b \in Nat /\ Len(fs) \in {b, b + 1} /\ Len(gs) \in {b, b + 1}
  /\ \A k \in 1..b : gs[k] = fs[k]

\* A call's labels are labels.
LEMMA CallLabels ==
  ASSUME NEW f, GoodFrame(f)
  PROVE  Later(f) \subseteq Label
  BY ItsLabels DEF Later

\* Labels already given have smaller numbers than those not given yet.
Between(l, n, m) == l \in Label /\ n <= l[2] /\ l[2] < m

\* The step of the proof: code `new' is printed while the top call goes from
\* fs[b+1] to gs[b+1], either of which may be missing, and the counter from n to m.
LEMMA Fitting ==
  ASSUME NEW o \in Code, NEW new \in Code, NEW fs, NEW gs, NEW b, Stack(fs), Stack(gs),
         Shares(fs, gs, b), NEW n \in Int, NEW m \in Int, n <= m, Fit(o, fs, n),
         PlacedOnce(new),
         \A l : Placed(new, l) => l \in LaterAt(fs, b + 1) \/ Between(l, n, m),
         \A l \in LaterAt(gs, b + 1) :
           ~ Placed(new, l) /\ (l \in LaterAt(fs, b + 1) \/ Between(l, n, m)),
         \A l \in OwedAt(fs, b + 1) : l \in OwedAt(gs, b + 1) \/ Placed(new, l),
         \A l : Wanted(new, l) => Placed(new, l) \/ l \in OwedAt(gs, b + 1) \/ Placed(o, l),
         \A l \in GoneAt(gs, b + 1) : Placed(o, l) \/ Placed(new, l)
  PROVE  Fit(o \o new, gs, m)
<1>1. /\ \A l : Placed(o \o new, l) <=> Placed(o, l) \/ Placed(new, l)
      /\ \A l : Wanted(o \o new, l) <=> Wanted(o, l) \/ Wanted(new, l)
  BY CodeAfterCode
<1>2. /\ \A k \in 1..Len(fs) : k \in 1..b \/ k = b + 1
      /\ \A k \in 1..Len(gs) : k \in 1..b \/ k = b + 1
      /\ \A k \in 1..b : k \in 1..Len(fs) /\ k \in 1..Len(gs) /\ k # b + 1 /\ gs[k] = fs[k]
  BY DEF Shares
<1>3. /\ \A l \in LaterAt(fs, b + 1) : b + 1 \in 1..Len(fs) /\ l \in Later(fs[b + 1])
      /\ b + 1 \in 1..Len(gs) => LaterAt(gs, b + 1) = Later(gs[b + 1])
      /\ b + 1 \in 1..Len(gs) => GoneAt(gs, b + 1) = Gone(gs[b + 1])
      /\ \A l \in OwedAt(gs, b + 1) : b + 1 \in 1..Len(gs) /\ l \in Owed(gs[b + 1])
      /\ b + 1 \in 1..Len(fs) => OwedAt(fs, b + 1) = Owed(fs[b + 1])
  BY DEF LaterAt, GoneAt, OwedAt
\* What the frames may still print has been given, and is not printed.
<1>4. \A k \in 1..Len(fs) : \A l \in Later(fs[k]) : l \in Label /\ l[2] \in Int /\ l[2] < n /\ ~ Placed(o, l)
  BY CallLabels, LabelNumber DEF Fit, Stack
<1>5. \A l : Placed(o, l) => l \in Label /\ l[2] \in Int /\ l[2] < n
  BY PlacedIsLabel, LabelNumber DEF Fit
<1>6. \A l : Between(l, n, m) => l[2] \in Int /\ ~ (l[2] < n) /\ l[2] < m
  BY LabelNumber DEF Between
<1>7. \A i \in Int : i < n => i < m
  OBVIOUS
<1>8. PlacedOnce(o \o new)
  <2>1. ASSUME NEW l, Placed(o, l), Placed(new, l) PROVE FALSE
    <3>1. CASE l \in LaterAt(fs, b + 1)
      BY <1>3, <1>4, <2>1, <3>1
    <3>2. CASE Between(l, n, m)
      BY <1>5, <1>6, <2>1, <3>2
    <3> QED BY <2>1, <3>1, <3>2
  <2>2. PlacedOnce(o)
    BY DEF Fit
  <2> QED BY <2>1, <2>2, CodeAfterCode
<1>9. \A l : Placed(o \o new, l) => l[2] < m
  <2> SUFFICES ASSUME NEW l, Placed(o \o new, l) PROVE l[2] < m
    OBVIOUS
  <2>1. CASE Placed(o, l)
    BY <1>5, <1>7, <2>1
  <2>2. CASE l \in LaterAt(fs, b + 1)
    BY <1>3, <1>4, <1>7, <2>2
  <2>3. CASE Between(l, n, m)
    BY <1>6, <2>3
  <2> QED BY <1>1, <2>1, <2>2, <2>3
<1>10. \A k \in 1..Len(gs) : \A l \in Later(gs[k]) : l[2] < m /\ ~ Placed(o \o new, l)
  <2> SUFFICES ASSUME NEW k \in 1..Len(gs), NEW l \in Later(gs[k])
               PROVE  l[2] < m /\ ~ Placed(o \o new, l)
    OBVIOUS
  <2>1. CASE k \in 1..b
    <3>1. k \in 1..Len(fs) /\ l \in Later(fs[k]) /\ k # b + 1
      BY <1>2, <2>1
    <3>2. l[2] \in Int /\ l[2] < n /\ l[2] < m /\ ~ Placed(o, l)
      BY <1>4, <1>7, <3>1
    <3>3. l \notin LaterAt(fs, b + 1)
      BY <1>3, <3>1 DEF Fit
    <3>4. ~ Between(l, n, m)
      BY <1>6, <3>2
    <3> QED BY <1>1, <3>2, <3>3, <3>4
  <2>2. CASE k = b + 1
    <3>1. l \in LaterAt(gs, b + 1)
      BY <1>3, <2>2
    <3>2. CASE l \in LaterAt(fs, b + 1)
      BY <1>1, <1>3, <1>4, <1>7, <3>1, <3>2
    <3>3. CASE Between(l, n, m)
      BY <1>1, <1>5, <1>6, <3>1, <3>3
    <3> QED BY <3>1, <3>2, <3>3
  <2> QED BY <1>2, <2>1, <2>2
<1>11. \A j, k \in 1..Len(gs) : \A l : l \in Later(gs[j]) /\ l \in Later(gs[k]) => j = k
  <2>1. ASSUME NEW j \in 1..b, NEW k \in 1..b, NEW l, l \in Later(gs[j]), l \in Later(gs[k])
        PROVE  j = k
    BY <1>2, <2>1 DEF Fit
  <2>2. ASSUME NEW j \in 1..b, NEW l, l \in Later(gs[j]), b + 1 \in 1..Len(gs), l \in Later(gs[b + 1])
        PROVE  FALSE
    <3>1. j \in 1..Len(fs) /\ l \in Later(fs[j]) /\ j # b + 1
      BY <1>2, <2>2
    <3>2. l[2] \in Int /\ l[2] < n
      BY <1>4, <3>1
    <3>3. l \notin LaterAt(fs, b + 1)
      BY <1>3, <3>1 DEF Fit
    <3>4. ~ Between(l, n, m)
      BY <1>6, <3>2
    <3> QED BY <1>3, <2>2, <3>3, <3>4
  <2> QED BY <1>2, <2>1, <2>2
<1>12. \A l : Wanted(o \o new, l) => Placed(o \o new, l) \/ \E k \in 1..Len(gs) : l \in Owed(gs[k])
  <2> SUFFICES ASSUME NEW l, Wanted(o \o new, l), ~ Placed(o, l), ~ Placed(new, l)
               PROVE  \E k \in 1..Len(gs) : l \in Owed(gs[k])
    BY <1>1
  <2>1. CASE l \in OwedAt(gs, b + 1)
    BY <1>3, <2>1
  <2>2. CASE Wanted(o, l)
    <3>1. PICK k \in 1..Len(fs) : l \in Owed(fs[k])
      BY <2>2 DEF Fit
    <3>2. CASE k \in 1..b
      BY <1>2, <3>1, <3>2
    <3>3. CASE k = b + 1
      BY <1>3, <2>1, <3>1, <3>3
    <3> QED BY <1>2, <3>2, <3>3
  <2>3. CASE Wanted(new, l)
    BY <2>1, <2>3
  <2> QED BY <1>1, <2>2, <2>3
<1>13. \A k \in 1..Len(gs) : \A l \in Gone(gs[k]) : Placed(o \o new, l)
  <2> SUFFICES ASSUME NEW k \in 1..Len(gs), NEW l \in Gone(gs[k]) PROVE Placed(o \o new, l)
    OBVIOUS
  <2>1. CASE k \in 1..b
    BY <1>1, <1>2, <2>1 DEF Fit
  <2>2. CASE k = b + 1
    BY <1>1, <1>3, <2>2
  <2> QED BY <1>2, <2>1, <2>2
<1> QED BY <1>8, <1>9, <1>10, <1>11, <1>12, <1>13 DEF Fit

\* The call at the top of a stack, and none there.
Holds(fs, k, f) == LaterAt(fs, k) = Later(f) /\ OwedAt(fs, k) = Owed(f) /\ GoneAt(fs, k) = Gone(f)
Bare(fs, k)     == LaterAt(fs, k) = {} /\ OwedAt(fs, k) = {} /\ GoneAt(fs, k) = {}

\* The three moves of the stack, and staying.
LEMMA Moves ==
  ASSUME NEW fs, Stack(fs)
  PROVE  /\ Shares(fs, fs, Len(fs)) /\ Bare(fs, Len(fs) + 1)
         /\ \A f : GoodFrame(f) => /\ Shares(fs, Append(fs, f), Len(fs))
                                   /\ Holds(Append(fs, f), Len(fs) + 1, f)
         /\ fs # <<>> => /\ Holds(fs, Len(fs), Last(fs)) /\ Shares(fs, Front(fs), Len(fs) - 1)
                         /\ Bare(Front(fs), Len(fs)) /\ Len(fs) - 1 \in Nat
         /\ fs # <<>> => \A f : GoodFrame(f) =>
                           /\ Shares(fs, Append(Front(fs), f), Len(fs) - 1)
                           /\ Holds(Append(Front(fs), f), Len(fs), f)
<1>1. fs \in Seq(Frames) /\ Len(fs) \in Nat
  BY DEF Stack
<1>2. Shares(fs, fs, Len(fs)) /\ Bare(fs, Len(fs) + 1)
  BY <1>1 DEF Shares, Bare, LaterAt, OwedAt, GoneAt
<1>3. ASSUME NEW f, GoodFrame(f)
      PROVE  /\ Shares(fs, Append(fs, f), Len(fs))
             /\ Holds(Append(fs, f), Len(fs) + 1, f)
  <2>1. f \in Frames
    BY <1>3 DEF GoodFrame
  <2>2. /\ Len(Append(fs, f)) = Len(fs) + 1 /\ Append(fs, f)[Len(fs) + 1] = f
        /\ \A k \in 1..Len(fs) : Append(fs, f)[k] = fs[k]
    BY <1>1, <2>1, Appended
  <2>3. Len(fs) + 1 \in 1..Len(Append(fs, f))
    BY <1>1, <2>2
  <2> QED BY <1>1, <2>2, <2>3 DEF Shares, Holds, LaterAt, OwedAt, GoneAt
<1>4. ASSUME fs # <<>>
      PROVE  /\ Holds(fs, Len(fs), Last(fs)) /\ Shares(fs, Front(fs), Len(fs) - 1)
             /\ Bare(Front(fs), Len(fs)) /\ Len(fs) - 1 \in Nat
  <2>1. /\ Len(fs) \in Nat \ {0} /\ Last(fs) = fs[Len(fs)] /\ Len(Front(fs)) = Len(fs) - 1
        /\ \A k \in 1..Len(fs)-1 : Front(fs)[k] = fs[k]
    BY <1>1, <1>4, FrontIs
  <2>2. Len(fs) \in 1..Len(fs) /\ Len(fs) \notin 1..Len(Front(fs))
    BY <2>1
  <2> QED BY <2>1, <2>2 DEF Shares, Holds, Bare, LaterAt, OwedAt, GoneAt
<1>5. ASSUME fs # <<>>, NEW f, GoodFrame(f)
      PROVE  /\ Shares(fs, Append(Front(fs), f), Len(fs) - 1)
             /\ Holds(Append(Front(fs), f), Len(fs), f)
  <2>1. /\ Len(fs) \in Nat \ {0} /\ Len(Front(fs)) = Len(fs) - 1 /\ Front(fs) \in Seq(Frames)
        /\ \A k \in 1..Len(fs)-1 : Front(fs)[k] = fs[k]
    BY <1>1, <1>5, FrontIs
  <2>2. f \in Frames
    BY <1>5 DEF GoodFrame
  <2> DEFINE gs == Append(Front(fs), f)
  <2>3. /\ Len(gs) = (Len(fs) - 1) + 1 /\ gs[(Len(fs) - 1) + 1] = f
        /\ \A k \in 1..Len(fs)-1 : gs[k] = Front(fs)[k]
    BY <2>1, <2>2, Appended
  <2>4. Len(gs) = Len(fs) /\ gs[Len(fs)] = f /\ \A k \in 1..Len(fs)-1 : gs[k] = fs[k]
    BY <2>1, <2>3
  <2> HIDE DEF gs
  <2>5. Len(fs) \in 1..Len(gs) /\ Len(fs) = (Len(fs) - 1) + 1
    BY <2>1, <2>4
  <2>6. Shares(fs, gs, Len(fs) - 1) /\ Holds(gs, Len(fs), f)
    BY <2>1, <2>4, <2>5 DEF Shares, Holds, LaterAt, OwedAt, GoneAt
  <2> QED BY <2>6 DEF gs
<1> QED BY <1>2, <1>3, <1>4, <1>5

\* A call that owes no label.
Idle(f) == Later(f) = {} /\ Owed(f) = {} /\ Gone(f) = {}

LEMMA Idling ==
  \A f : f.node.t \notin {"A_COND", "A_WHILE"} \/ (f.node.t = "A_COND" /\ Len(f.vals) = 0) => Idle(f)
  BY DEF Idle, Later, Owed, Gone, Labelled

\* Code without labels and jumps.
Silent(new) == PlacedOnce(new) /\ \A l : ~ Placed(new, l) /\ ~ Wanted(new, l)

LEMMA SilentCode ==
  /\ Silent(<<>>)
  /\ \A i : i.op \notin {"label", "jmp", "jnz"} => Silent(<<i>>)
  BY CodeOfOne DEF Silent, Defines, Wants

\* Code without labels leaves everything fitting, whatever move the stack makes
\* between calls that owe nothing.
LEMMA SilentFits ==
  ASSUME NEW o \in Code, NEW new \in Code, Silent(new), NEW fs, NEW gs, Stack(fs), Stack(gs),
         NEW n \in Nat, Fit(o, fs, n),
         \/ gs = fs
         \/ \E f : GoodFrame(f) /\ Idle(f) /\ gs = Append(fs, f)
         \/ fs # <<>> /\ Idle(Last(fs)) /\ gs = Front(fs)
         \/ fs # <<>> /\ Idle(Last(fs)) /\ \E f : GoodFrame(f) /\ Idle(f) /\ gs = Append(Front(fs), f)
  PROVE  Fit(o \o new, gs, n)
<1>1. ASSUME NEW b, Shares(fs, gs, b), OwedAt(fs, b + 1) = {}, LaterAt(gs, b + 1) = {}, GoneAt(gs, b + 1) = {}
      PROVE  Fit(o \o new, gs, n)
  <2>1. n \in Int /\ n <= n
    OBVIOUS
  <2>2. PlacedOnce(new) /\ \A l : ~ Placed(new, l) /\ ~ Wanted(new, l)
    BY DEF Silent
  <2> QED BY <1>1, <2>1, <2>2, Fitting
<1>2. Len(fs) \in Nat
  BY DEF Stack
<1>3. CASE gs = fs
  <2>1. Shares(fs, gs, Len(fs)) /\ Bare(fs, Len(fs) + 1)
    BY <1>3, Moves
  <2> QED BY <1>1, <1>3, <2>1 DEF Bare
<1>4. ASSUME NEW f, GoodFrame(f), Idle(f), gs = Append(fs, f) PROVE Fit(o \o new, gs, n)
  <2>1. Shares(fs, gs, Len(fs)) /\ Bare(fs, Len(fs) + 1) /\ Holds(gs, Len(fs) + 1, f)
    BY <1>4, Moves
  <2> QED BY <1>1, <1>4, <2>1 DEF Bare, Holds, Idle
<1>5. CASE fs # <<>> /\ Idle(Last(fs)) /\ gs = Front(fs)
  <2>1. Shares(fs, gs, Len(fs) - 1) /\ Holds(fs, Len(fs), Last(fs)) /\ Bare(gs, Len(fs))
    BY <1>5, Moves
  <2>2. (Len(fs) - 1) + 1 = Len(fs)
    BY <1>2
  <2> QED BY <1>1, <1>5, <2>1, <2>2 DEF Bare, Holds, Idle
<1>6. ASSUME fs # <<>>, Idle(Last(fs)), NEW f, GoodFrame(f), Idle(f), gs = Append(Front(fs), f)
      PROVE  Fit(o \o new, gs, n)
  <2>1. Shares(fs, gs, Len(fs) - 1) /\ Holds(fs, Len(fs), Last(fs)) /\ Holds(gs, Len(fs), f)
    BY <1>6, Moves
  <2>2. (Len(fs) - 1) + 1 = Len(fs)
    BY <1>2
  <2> QED BY <1>1, <1>6, <2>1, <2>2 DEF Holds, Idle
<1> QED BY <1>3, <1>4, <1>5, <1>6

\* The number of values a call had.
LEMMA OneLess == \A n \in Nat : (n + 1 = 2 => n = 1) /\ (n + 1 = 3 => n = 2)
  OBVIOUS

\* The last element of a sequence, whatever it is.
LEMMA LastOne ==
  ASSUME NEW S, NEW s \in Seq(S), NEW v
  PROVE  /\ Len(Append(s, v)) = Len(s) + 1 /\ Append(s, v)[Len(s) + 1] = v
         /\ Len(s) + 1 \in 1..Len(Append(s, v)) /\ Append(s, v) = s \o <<v>>
<1>1. \A T : S \subseteq T => Seq(S) \subseteq Seq(T)
  OBVIOUS
<1>2. s \in Seq(S \cup {v}) /\ v \in S \cup {v} /\ Len(s) \in Nat
  BY <1>1
<1>3. Len(Append(s, v)) = Len(s) + 1 /\ Append(s, v)[Len(s) + 1] = v
  BY <1>2, Appended
<1>4. Append(s, v) = s \o <<v>>
  BY <1>2
<1> QED BY <1>2, <1>3, <1>4

\* A call that is on a stack is a good one; an instruction that is in the code, one.
LEMMA OnTheStack ==
  ASSUME NEW fs \in Seq(Frames), NEW f, Stack(Append(fs, f))
  PROVE  GoodFrame(f)
  BY LastOne DEF Stack

LEMMA OneMore ==
  ASSUME NEW o \in Code, NEW i, Append(o, i) \in Code, i.op \notin {"label", "jmp", "jnz"}
  PROVE  <<i>> \in Code /\ Append(o, i) = o \o <<i>> /\ Silent(<<i>>)
<1>1. o \in Seq(Instructions) /\ Append(o, i) \in Seq(Instructions)
  BY DEF Code
<1>2. Append(o, i)[Len(o) + 1] \in Instructions
  BY <1>1, LastOne, ElementOfSeq
<1>3. i \in Instructions
  BY <1>1, <1>2, LastOne
<1>4. <<i>> \in Code
  BY <1>3 DEF Code
<1> QED BY <1>1, <1>4, LastOne, SilentCode

\* The steps that print no label and no jump.
Quiet ==
  \/ EvalVoid \/ EvalLiteral \/ EvalIdent \/ EvalDeclLocal \/ EvalUnknown
  \/ EvalBinary \/ EvalCall \/ EvalDeclAssignment \/ EvalAssignment \/ EvalCond \/ EvalReturn \/ EvalBlock
  \/ BinaryRight \/ CallArgument \/ NextStatement
  \/ BinaryLeft \/ CallLast \/ DeclAssignment \/ Assignment \/ ReturnValue \/ BlockLast
  \/ EndFunction \/ EndUnit

LEMMA QuietCode ==
  ASSUME Types, Types', Quiet
  PROVE  ids' = ids /\ \E new \in Code : Silent(new) /\ out' = out \o new
<1>0. ids' = ids
  BY DEF Quiet, EvalVoid, EvalLiteral, EvalIdent, EvalDeclLocal, EvalUnknown, EndUnit, Stop,
     EvalBinary, EvalCall, EvalDeclAssignment, EvalAssignment, EvalCond, EvalReturn, EvalBlock,
     BinaryRight, CallArgument, NextStatement, BlockLast, EndFunction,
     BinaryLeft, CallLast, DeclAssignment, Assignment, ReturnValue
<1> SUFFICES \E new \in Code : Silent(new) /\ out' = out \o new
  BY <1>0
<1>1. out \in Code /\ out' \in Code
  BY DEF Types
<1>2. CASE out' = out
  <2>1. out = out \o <<>> /\ <<>> \in Code
    BY <1>1 DEF Code
  <2> QED BY <1>2, <2>1, SilentCode
<1>3. ASSUME NEW i, i.op \notin {"label", "jmp", "jnz"}, out' = Append(out, i)
      PROVE  \E new \in Code : Silent(new) /\ out' = out \o new
  BY <1>1, <1>3, OneMore
<1>4. CASE BinaryLeft
  <2>1. Operation[Top.node.t] \notin {"label", "jmp", "jnz"}
    BY <1>4, Operations DEF BinaryLeft, Delivers
  <2> QED BY <1>3, <1>4, <2>1 DEF BinaryLeft, Ins
<1>5. CASE CallLast
  BY <1>3, <1>5 DEF CallLast, Ins
<1>6. CASE DeclAssignment
  BY <1>3, <1>6 DEF DeclAssignment, Copy, Ins
<1>7. CASE Assignment
  BY <1>2, <1>3, <1>7 DEF Assignment, Copy, Ins, Stop
<1>8. CASE ReturnValue
  BY <1>3, <1>8 DEF ReturnValue, Ins
<1>9. CASE EvalCall
  BY <1>2, <1>3, <1>9 DEF EvalCall, Ins, Stop
<1>10. CASE EvalVoid \/ EvalLiteral \/ EvalIdent \/ EvalDeclLocal \/ EvalUnknown \/ EndUnit
  BY <1>2, <1>10 DEF EvalVoid, EvalLiteral, EvalIdent, EvalDeclLocal, EvalUnknown, EndUnit, Stop
<1>11. CASE EvalBinary \/ EvalDeclAssignment \/ EvalAssignment \/ EvalCond \/ EvalReturn \/ EvalBlock
  BY <1>2, <1>11 DEF EvalBinary, EvalDeclAssignment, EvalAssignment, EvalCond, EvalReturn, EvalBlock, Stop
<1>12. CASE BinaryRight \/ CallArgument \/ NextStatement \/ BlockLast \/ EndFunction
  BY <1>2, <1>12 DEF BinaryRight, CallArgument, NextStatement, BlockLast, EndFunction
<1> QED BY <1>4, <1>5, <1>6, <1>7, <1>8, <1>9, <1>10, <1>11, <1>12 DEF Quiet

LEMMA QuietStack ==
  ASSUME Types, Calls, Calls', Quiet
  PROVE  \/ frames' = frames
         \/ \E f : GoodFrame(f) /\ Idle(f) /\ frames' = Append(frames, f)
         \/ frames # <<>> /\ Idle(Last(frames)) /\ frames' = Front(frames)
         \/ frames # <<>> /\ Idle(Last(frames))
            /\ \E f : GoodFrame(f) /\ Idle(f) /\ frames' = Append(Front(frames), f)
<1>1. frames \in Seq(Frames) /\ Stack(frames) /\ Stack(frames')
  BY DEF Calls, Stack
<1>2. ASSUME NEW f, f.node.t # "A_WHILE", f.vals = <<>>, Enter(f)
      PROVE  \E g : GoodFrame(g) /\ Idle(g) /\ frames' = Append(frames, g)
  <2>1. Len(f.vals) = 0
    BY <1>2
  <2>2. Idle(f)
    BY <1>2, <2>1, Idling
  <2>3. frames' = Append(frames, f)
    BY <1>2 DEF Enter
  <2>4. GoodFrame(f)
    BY <1>1, <2>3, OnTheStack
  <2> QED BY <2>2, <2>3, <2>4
<1>3. CASE EvalVoid \/ EvalLiteral \/ EvalIdent \/ EvalDeclLocal \/ EvalUnknown \/ EndUnit
  BY <1>3 DEF EvalVoid, EvalLiteral, EvalIdent, EvalDeclLocal, EvalUnknown, EndUnit, Stop
<1>4. CASE EvalBinary \/ EvalCall \/ EvalDeclAssignment \/ EvalAssignment \/ EvalCond \/ EvalReturn \/ EvalBlock
  <2>1. mode = "eval" /\ cur \in Nodes
    BY <1>4, TreesAreNodes DEF EvalBinary, EvalCall, EvalDeclAssignment, EvalAssignment, EvalCond,
       EvalReturn, EvalBlock, Evals, Types
  <2>2. Frame(cur) \in Frames /\ Frame(cur).node = cur /\ Frame(cur).vals = <<>>
    BY <2>1, FrameTyped
  <2>3. cur.t # "A_WHILE"
    BY <1>4 DEF EvalBinary, EvalCall, EvalDeclAssignment, EvalAssignment, EvalCond,
       EvalReturn, EvalBlock, Evals, BinaryTypes, Operation
  <2>4. CASE Enter(Frame(cur))
    BY <1>2, <2>2, <2>3, <2>4
  <2>5. CASE frames' = frames
    BY <2>5
  <2>6. CASE EvalAssignment
    <3> DEFINE f == [Frame(cur) EXCEPT !.dst = LookUp(cur.kids[1].lexeme)]
    <3>1. f.node = cur /\ f.vals = <<>>
      BY <2>2 DEF Frames
    <3>2. Enter(f) \/ frames' = frames
      BY <2>6 DEF EvalAssignment, Stop
    <3> HIDE DEF f
    <3> QED BY <1>2, <2>3, <3>1, <3>2
  <2> QED BY <1>4, <2>4, <2>5, <2>6 DEF EvalBinary, EvalCall, EvalDeclAssignment, EvalCond,
             EvalReturn, EvalBlock, Stop
<1>5. CASE BinaryRight \/ CallArgument \/ NextStatement
  <2>1. mode = "return" /\ frames # <<>> /\ Top.node.t \notin {"A_COND", "A_WHILE"}
    BY <1>5 DEF BinaryRight, CallArgument, NextStatement, Delivers, DeliversSome, BinaryTypes, Operation
  <2>2. Delivered
    BY <2>1, Delivery
  <2>3. Kept.node.t \notin {"A_COND", "A_WHILE"}
    BY <2>1, <2>2 DEF Delivered
  <2>4. Idle(Last(frames)) /\ Idle(Kept)
    BY <2>1, <2>3, Idling DEF Top
  <2>5. frames' = Append(Front(frames), Kept)
    BY <1>5 DEF BinaryRight, CallArgument, NextStatement, Descend, Below
  <2>6. Front(frames) \in Seq(Frames)
    BY <1>1, <2>1, FrontIs
  <2>7. GoodFrame(Kept)
    BY <1>1, <2>5, <2>6, OnTheStack
  <2> QED BY <2>1, <2>4, <2>5, <2>7
<1>6. CASE BinaryLeft \/ CallLast \/ DeclAssignment \/ Assignment \/ ReturnValue \/ BlockLast \/ EndFunction
  <2>1. frames # <<>> /\ Top.node.t \notin {"A_COND", "A_WHILE"}
    BY <1>6 DEF BinaryLeft, CallLast, DeclAssignment, Assignment, ReturnValue, BlockLast, EndFunction,
       Delivers, DeliversLast, BinaryTypes, Operation
  <2>2. Idle(Last(frames))
    BY <2>1, Idling DEF Top
  <2>3. frames' = Front(frames) \/ frames' = frames
    BY <1>6 DEF BinaryLeft, CallLast, DeclAssignment, Assignment, ReturnValue, BlockLast, EndFunction,
       Below, Stop
  <2> QED BY <2>1, <2>2, <2>3
<1> QED BY <1>3, <1>4, <1>5, <1>6 DEF Quiet

\* They leave the labels fitting.
LEMMA QuietFits ==
  ASSUME Types, Calls, Types', Calls', Fit(out, frames, ids), Quiet
  PROVE  Fit(out', frames', ids')
<1>1. PICK new \in Code : Silent(new) /\ out' = out \o new
  BY QuietCode
<1>2. ids' = ids /\ ids \in Nat /\ out \in Code
  BY QuietCode DEF Types
<1>3. Stack(frames) /\ Stack(frames')
  BY DEF Calls
<1>4. Fit(out \o new, frames', ids)
  BY <1>1, <1>2, <1>3, QuietStack, SilentFits
<1> QED BY <1>1, <1>2, <1>4

\* What the text of a branch prints and goes to, and the value of a branch nothing.
LEMMA BranchLabels ==
  ASSUME NEW v, NEW yes, NEW no, NEW l
  PROVE  /\ Placed(<<Jnz(v, yes, no), Define(yes)>>, l) <=> l = yes
         /\ Wanted(<<Jnz(v, yes, no), Define(yes)>>, l) <=> l = yes \/ l = no
<1> DEFINE code == <<Jnz(v, yes, no), Define(yes)>>
<1>1. Len(code) = 2 /\ code[1] = Jnz(v, yes, no) /\ code[2] = Define(yes) /\ 1..2 = {1, 2}
  OBVIOUS
<1> HIDE DEF code
<1>2. Placed(code, l) <=> Defines(Jnz(v, yes, no), l) \/ Defines(Define(yes), l)
  BY <1>1 DEF Placed
<1>3. Wanted(code, l) <=> Wants(Jnz(v, yes, no), l) \/ Wants(Define(yes), l)
  BY <1>1 DEF Wanted
<1> QED BY <1>2, <1>3, Instructing DEF code

LEMMA JumpLabels ==
  ASSUME NEW to, NEW next, NEW l
  PROVE  /\ Placed(<<Jmp(to), Define(next)>>, l) <=> l = next
         /\ Wanted(<<Jmp(to), Define(next)>>, l) <=> l = to
<1> DEFINE code == <<Jmp(to), Define(next)>>
<1>1. Len(code) = 2 /\ code[1] = Jmp(to) /\ code[2] = Define(next) /\ 1..2 = {1, 2}
  OBVIOUS
<1> HIDE DEF code
<1>2. Placed(code, l) <=> Defines(Jmp(to), l) \/ Defines(Define(next), l)
  BY <1>1 DEF Placed
<1>3. Wanted(code, l) <=> Wants(Jmp(to), l) \/ Wants(Define(next), l)
  BY <1>1 DEF Wanted
<1> QED BY <1>2, <1>3, Instructing DEF code

\* Two instructions of which one is a label.
LEMMA OneLabel ==
  /\ \A v, yes, no : PlacedOnce(<<Jnz(v, yes, no), Define(yes)>>)
  /\ \A to, next : PlacedOnce(<<Jmp(to), Define(next)>>)
<1>1. ASSUME NEW i, NEW d, \A l : ~ Defines(i, l) PROVE PlacedOnce(<<i, d>>)
  <2> DEFINE code == <<i, d>>
  <2>1. Len(code) = 2 /\ code[1] = i /\ 1..2 = {1, 2}
    OBVIOUS
  <2> HIDE DEF code
  <2>2. PlacedOnce(code)
    BY <1>1, <2>1 DEF PlacedOnce
  <2> QED BY <2>2 DEF code
<1>2. (\A v, yes, no, l : ~ Defines(Jnz(v, yes, no), l)) /\ \A to, l : ~ Defines(Jmp(to), l)
  BY Instructing
<1> QED BY <1>1, <1>2

\* A loop prints the label it starts at.
LEMMA WhileFits ==
  ASSUME Types, Calls, Calls', Fit(out, frames, ids), EvalWhile
  PROVE  Fit(out', frames', ids')
<1> DEFINE start == Lab("start", ids)
           loop  == Lab("loop", ids + 1)
           exit  == Lab("breac", ids + 2)
<1>1. GoodFrame(LoopCall) /\ LoopCall.node = cur /\ LoopCall.vals = <<>>
      /\ LoopCall.labels = <<start, loop, exit>>
  BY NewLoop
<1>2. /\ out' = Append(out, Define(start)) /\ frames' = Append(frames, LoopCall) /\ ids' = ids + 3
      /\ cur.t = "A_WHILE"
  BY DEF EvalWhile, Evals, Enter, LoopCall
<1>3. ids \in Nat /\ out \in Code /\ Stack(frames) /\ Stack(frames')
  BY DEF Types, Calls
<1>4. start \in Label /\ loop \in Label /\ exit \in Label /\ start # loop /\ start # exit /\ loop # exit
  BY <1>3, NewLabels DEF Stems
<1>5. start[2] = ids /\ loop[2] = ids + 1 /\ exit[2] = ids + 2
  BY DEF Lab
<1> HIDE DEF start, loop, exit
<1>6. Between(start, ids, ids + 3) /\ Between(loop, ids, ids + 3) /\ Between(exit, ids, ids + 3)
  BY <1>3, <1>4, <1>5 DEF Between
<1>7. /\ Later(LoopCall) = {loop, exit} /\ Owed(LoopCall) = {} /\ Gone(LoopCall) = {start}
  <2>1. /\ LoopCall.labels[1] = start /\ LoopCall.labels[2] = loop /\ LoopCall.labels[3] = exit
        /\ Len(LoopCall.vals) = 0 /\ LoopCall.node.t = "A_WHILE"
    BY <1>1, <1>2
  <2> QED BY <2>1 DEF Later, Owed, Gone, Labelled
<1> DEFINE new == <<Define(start)>>
<1>8. new \in Code /\ out' = out \o new
  <2>1. Define(start) \in Instructions
    BY <1>4, Printing
  <2> QED BY <1>2, <1>3, <2>1, LastOne DEF Code
<1>9. PlacedOnce(new) /\ \A l : (Placed(new, l) <=> l = start) /\ ~ Wanted(new, l)
  BY CodeOfOne, Instructing
<1> HIDE DEF new
<1> DEFINE b == Len(frames)
<1>10. Shares(frames, frames', b) /\ Bare(frames, b + 1) /\ Holds(frames', b + 1, LoopCall)
  BY <1>1, <1>2, <1>3, Moves
<1>11. ids \in Int /\ ids + 3 \in Int /\ ids <= ids + 3
  BY <1>3
<1> HIDE DEF b
<1>12. Fit(out \o new, frames', ids + 3)
  BY <1>3, <1>4, <1>6, <1>7, <1>8, <1>9, <1>10, <1>11, Fitting DEF Bare, Holds
<1> QED BY <1>2, <1>8, <1>12

\* The loop goes on after its condition, and ends.
LEMMA LoopFits ==
  ASSUME Types, Calls, Calls', Fit(out, frames, ids), WhileTest \/ WhileBody
  PROVE  Fit(out', frames', ids')
<1>1. Delivered /\ frames # <<>> /\ Stack(frames) /\ Stack(frames') /\ out \in Code /\ ids \in Nat
  BY Delivery DEF WhileTest, WhileBody, Delivers, Types, Calls
<1>2. /\ GoodFrame(Top) /\ Top = Last(frames) /\ Top.node.t = "A_WHILE" /\ Labelled(Top) /\ acc \in Val
  BY <1>1 DEF WhileTest, WhileBody, Delivers, Delivered, Labelled, Top
<1> DEFINE L1 == Top.labels[1]
           L2 == Top.labels[2]
           L3 == Top.labels[3]
           b  == Len(frames) - 1
<1>3. L1 \in Label /\ L2 \in Label /\ L3 \in Label /\ L2 # L3
  BY <1>2, ItsLabels
<1>4. b \in Nat /\ b + 1 = Len(frames)
  BY <1>1, Moves DEF Stack
<1>5. Holds(frames, b + 1, Top)
  BY <1>1, <1>2, <1>4, Moves
<1>6. ids' = ids /\ ids \in Int /\ ids <= ids
  BY <1>1 DEF WhileTest, WhileBody
<1>7. Gone(Top) = {L1}
  BY <1>2 DEF Gone
<1>8. Placed(out, L1)
  <2>1. L1 \in Gone(frames[Len(frames)]) /\ Len(frames) \in 1..Len(frames)
    BY <1>1, <1>7 DEF Delivered
  <2> QED BY <2>1 DEF Fit
<1>9. CASE WhileTest
  <2>1. /\ Len(Top.vals) = 0 /\ frames' = Append(Front(frames), Kept)
        /\ out' = out \o <<Jnz(acc, L2, L3), Define(L2)>>
    BY <1>1, <1>9 DEF WhileTest, Delivers, Delivered, Descend, Below, Branch
  <2>2. /\ Later(Top) = {L2, L3} /\ Owed(Top) = {}
    BY <1>2, <2>1 DEF Later, Owed
  <2>3. Kept.node = Top.node /\ Kept.labels = Top.labels /\ Len(Kept.vals) = 1
    BY <1>1, <2>1 DEF Delivered
  <2>4. Later(Kept) = {L3} /\ Owed(Kept) = {L3} /\ Gone(Kept) = {L1}
    BY <1>2, <2>3 DEF Later, Owed, Gone, Labelled
  <2>5. GoodFrame(Kept)
    <3>1. Front(frames) \in Seq(Frames)
      BY <1>1, FrontIs DEF Stack
    <3> QED BY <1>1, <2>1, <3>1, OnTheStack
  <2>6. Shares(frames, frames', b) /\ Holds(frames', b + 1, Kept)
    BY <1>1, <1>4, <2>1, <2>5, Moves
  <2> DEFINE new == <<Jnz(acc, L2, L3), Define(L2)>>
  <2>7. new \in Code
    BY <1>2, <1>3, Printing DEF Code
  <2>8. PlacedOnce(new) /\ \A l : (Placed(new, l) <=> l = L2) /\ (Wanted(new, l) <=> l = L2 \/ l = L3)
    BY BranchLabels, OneLabel
  <2>9. out' = out \o new
    BY <2>1
  <2> HIDE DEF new, b, L1, L2, L3
  <2>10. Fit(out \o new, frames', ids)
    BY <1>1, <1>3, <1>4, <1>5, <1>6, <1>7, <1>8, <2>2, <2>4, <2>6, <2>7, <2>8, Fitting DEF Holds
  <2> QED BY <1>6, <2>9, <2>10
<1>10. CASE WhileBody
  <2>1. /\ Len(Top.vals) = 1 /\ frames' = Front(frames)
        /\ out' = out \o <<Jmp(L1), Define(L3)>>
    <3>1. Len(Top.vals) + 1 = 2 /\ Len(Top.vals) \in Nat
      BY <1>1, <1>10 DEF WhileBody, Delivers, Delivered
    <3>2. frames' = Front(frames) /\ out' = out \o <<Jmp(L1), Define(L3)>>
      BY <1>10 DEF WhileBody, Below
    <3>3. Len(Top.vals) = 1
      BY <3>1, OneLess, Zenon
    <3> QED BY <3>2, <3>3
  <2>2. /\ Later(Top) = {L3} /\ Owed(Top) = {L3}
    BY <1>2, <2>1 DEF Later, Owed
  <2>3. Shares(frames, frames', b) /\ Bare(frames', b + 1)
    BY <1>1, <1>4, <2>1, Moves
  <2> DEFINE new == <<Jmp(L1), Define(L3)>>
  <2>4. new \in Code
    BY <1>3, Printing DEF Code
  <2>5. PlacedOnce(new) /\ \A l : (Placed(new, l) <=> l = L3) /\ (Wanted(new, l) <=> l = L1)
    BY JumpLabels, OneLabel
  <2>6. out' = out \o new
    BY <2>1
  <2> HIDE DEF new, b, L1, L2, L3
  <2>7. Fit(out \o new, frames', ids)
    BY <1>1, <1>3, <1>4, <1>5, <1>6, <1>8, <2>2, <2>3, <2>4, <2>5, Fitting DEF Holds, Bare
  <2> QED BY <1>6, <2>6, <2>7
<1> QED BY <1>9, <1>10

\* The value of a branch prints no label.
LEMMA BranchValueSilent ==
  ASSUME NEW slot \in SlotNumber, NEW v \in Val
  PROVE  BranchValue(slot, v) \in Code /\ Silent(BranchValue(slot, v))
<1>1. \A i \in Int : Copy(i, v) \in Instructions /\ Copy(i, v).op = "copy"
  BY Printing DEF Copy, Ins
<1>2. slot \in Int
  BY WordAssumption DEF SlotNumber
<1>3. <<Copy(slot, v)>> \in Code /\ Silent(<<Copy(slot, v)>>)
  BY <1>1, <1>2, SilentCode DEF Code
<1>4. <<>> \in Code
  BY DEF Code
<1> QED BY <1>3, <1>4, SilentCode DEF BranchValue

\* Code in three parts, of which the first prints no label.
LEMMA ThreeParts ==
  ASSUME NEW p \in Code, NEW q \in Code, NEW r \in Code, Silent(p), PlacedOnce(q), PlacedOnce(r),
         \A l : ~ Placed(q, l)
  PROVE  /\ p \o q \o r \in Code /\ PlacedOnce(p \o q \o r)
         /\ \A l : Placed(p \o q \o r, l) <=> Placed(r, l)
         /\ \A l : Wanted(p \o q \o r, l) <=> Wanted(q, l) \/ Wanted(r, l)
<1>1. p \o q \in Code
  BY CodeGrows
<1>2. /\ PlacedOnce(p \o q)
      /\ \A l : ~ Placed(p \o q, l) /\ (Wanted(p \o q, l) <=> Wanted(q, l))
  BY CodeAfterCode DEF Silent
<1> DEFINE s == p \o q
<1>3. s \in Code /\ PlacedOnce(s) /\ \A l : ~ Placed(s, l) /\ (Wanted(s, l) <=> Wanted(q, l))
  BY <1>1, <1>2
<1> HIDE DEF s
<1>4. s \o r \in Code
  BY <1>3, CodeGrows
<1>5. /\ \A l : Placed(s \o r, l) <=> Placed(r, l)
      /\ \A l : Wanted(s \o r, l) <=> Wanted(q, l) \/ Wanted(r, l)
      /\ PlacedOnce(s \o r)
  BY <1>3, CodeAfterCode
<1> QED BY <1>4, <1>5 DEF s

\* Code in parts, in one.
LEMMA Joining == \A o, p, q \in Code : (o \o p) \o q = o \o (p \o q)
  BY ConcatAssociative DEF Code

\* The branch of a conditional prints the label of its then branch, with two to
\* print later.
LEMMA TestFits ==
  ASSUME Types, Calls, Calls', Fit(out, frames, ids), CondTest
  PROVE  Fit(out', frames', ids')
<1>1. Delivered /\ frames # <<>> /\ Stack(frames) /\ Stack(frames') /\ out \in Code /\ ids \in Nat
  BY Delivery DEF CondTest, Delivers, Types, Calls
<1>2. /\ GoodFrame(Top) /\ Top = Last(frames) /\ Top.node.t = "A_COND" /\ acc \in Val
      /\ Len(Top.vals) = 0 /\ Len(Kept.vals) = 1
  <2>1. Len(Top.vals) + 1 = 1 /\ Len(Top.vals) \in Nat /\ Len(Kept.vals) = Len(Top.vals) + 1
    BY <1>1 DEF CondTest, Delivers, Delivered
  <2>2. GoodFrame(Top) /\ Top = Last(frames) /\ Top.node.t = "A_COND" /\ acc \in Val
    BY <1>1 DEF CondTest, Delivers, Delivered, Top
  <2> QED BY <2>1, <2>2
<1> DEFINE iftr == Lab("iftr", ids)
           iffl == Lab("iffl", ids + 1)
           exit == Lab("out", ids + 2)
           to   == IF HasElse THEN iffl ELSE exit
           b    == Len(frames) - 1
<1>3. /\ iftr \in Label /\ iffl \in Label /\ exit \in Label
      /\ iftr # iffl /\ iftr # exit /\ iffl # exit
  BY <1>1, NewLabels DEF Stems
<1>4. iftr[2] = ids /\ iffl[2] = ids + 1 /\ exit[2] = ids + 2
  BY DEF Lab
<1>5. /\ GoodFrame(Tested) /\ Tested.node = Top.node /\ Tested.vals = Kept.vals
      /\ Tested.labels = <<iftr, iffl, exit>>
  BY <1>1, NewTest
<1>6. /\ frames' = Append(Front(frames), Tested) /\ ids' = ids + 3
      /\ out' = out \o <<Jnz(acc, iftr, to), Define(iftr)>>
  BY DEF CondTest, Tested, Descend, Below, Branch
<1> DEFINE new == <<Jnz(acc, iftr, to), Define(iftr)>>
<1>7. to = (IF HasElse THEN iffl ELSE exit) /\ out' = out \o new
  BY <1>6
<1> HIDE DEF iftr, iffl, exit, to
<1>8. new \in Code
  BY <1>2, <1>3, <1>7, Printing DEF Code
<1>9. PlacedOnce(new) /\ \A l : (Placed(new, l) <=> l = iftr) /\ (Wanted(new, l) <=> l = iftr \/ l = to)
  BY BranchLabels, OneLabel
<1>10. Between(iftr, ids, ids + 3) /\ Between(iffl, ids, ids + 3) /\ Between(exit, ids, ids + 3)
  BY <1>1, <1>3, <1>4 DEF Between
<1>11. /\ Tested.labels[2] = iffl /\ Tested.labels[3] = exit /\ Len(Tested.vals) = 1
       /\ Tested.node.t = "A_COND"
  BY <1>2, <1>5
<1>12. Later(Tested) = {iffl, exit} /\ Owed(Tested) = {to} /\ Gone(Tested) = {}
  BY <1>5, <1>7, <1>11 DEF Later, Owed, Gone, Labelled, HasElse
<1>13. Idle(Top)
  BY <1>2, Idling
<1>14. b \in Nat /\ b + 1 = Len(frames)
  BY <1>1, Moves DEF Stack
<1>15. Holds(frames, b + 1, Top)
  BY <1>1, <1>2, <1>14, Moves
<1>16. Shares(frames, frames', b) /\ Holds(frames', b + 1, Tested)
  BY <1>1, <1>5, <1>6, <1>14, Moves
<1>17. ids \in Int /\ ids + 3 \in Int /\ ids <= ids + 3
  BY <1>1
<1> HIDE DEF new, b
<1>18. Fit(out \o new, frames', ids + 3)
  BY <1>1, <1>3, <1>8, <1>9, <1>10, <1>12, <1>13, <1>14, <1>15, <1>16, <1>17, Fitting DEF Holds, Idle
<1> QED BY <1>6, <1>7, <1>18

\* The else label is printed after the then branch, and the exit label after the
\* last branch, unless the then branch returned: then nothing goes there.
LEMMA BranchFits ==
  ASSUME Types, Calls, Calls', Fit(out, frames, ids), CondThen \/ CondElse
  PROVE  Fit(out', frames', ids')
<1>1. Delivered /\ frames # <<>> /\ Stack(frames) /\ Stack(frames') /\ out \in Code /\ ids \in Nat
  BY Delivery DEF CondThen, CondElse, Delivers, Types, Calls
<1>2. /\ GoodFrame(Top) /\ Top = Last(frames) /\ Top.node.t = "A_COND" /\ acc \in Val
      /\ Len(Top.vals) \in Nat /\ Len(Kept.vals) = Len(Top.vals) + 1
      /\ Kept.node = Top.node /\ Kept.labels = Top.labels /\ Kept.vals[Len(Top.vals) + 1] = acc
      /\ Release(temps, acc) \in SlotNumber
  BY <1>1 DEF CondThen, CondElse, Delivers, Delivered, Top
<1>3. (CondThen => Len(Top.vals) = 1) /\ (CondElse => Len(Top.vals) = 2)
  <2>1. (CondThen => Len(Top.vals) + 1 = 2) /\ (CondElse => Len(Top.vals) + 1 = 3)
    BY DEF CondThen, CondElse, Delivers
  <2> QED BY <1>2, <2>1, OneLess, Zenon
<1>4. Labelled(Top)
  <2>1. CASE Len(Top.vals) = 1
    BY <1>2, <2>1 DEF Labelled
  <2>2. CASE Len(Top.vals) = 2
    BY <1>2, <2>2 DEF Labelled
  <2> QED BY <1>3, <2>1, <2>2
<1> DEFINE L2 == Top.labels[2]
           L3 == Top.labels[3]
           b  == Len(frames) - 1
           value == BranchValue(Release(temps, acc), acc)
           jump  == IF acc = Returned THEN <<>> ELSE <<Jmp(L3)>>
<1>5. L2 \in Label /\ L3 \in Label /\ L2 # L3
  BY <1>2, <1>4, ItsLabels
<1>6. b \in Nat /\ b + 1 = Len(frames)
  BY <1>1, Moves DEF Stack
<1>7. Holds(frames, b + 1, Top)
  BY <1>1, <1>2, <1>6, Moves
<1>8. ids' = ids /\ ids \in Int /\ ids <= ids
  BY <1>1 DEF CondThen, CondElse
<1>9. value \in Code /\ Silent(value)
  BY <1>2, BranchValueSilent
<1>10. /\ jump \in Code /\ PlacedOnce(jump)
       /\ \A l : ~ Placed(jump, l) /\ (Wanted(jump, l) <=> acc # Returned /\ l = L3)
  <2>1. CASE acc = Returned
    <3>1. jump = <<>> /\ <<>> \in Code
      BY <2>1 DEF Code
    <3> QED BY <2>1, <3>1, CodeOfOne
  <2>2. CASE acc # Returned
    <3>1. jump = <<Jmp(L3)>>
      BY <2>2
    <3>2. <<Jmp(L3)>> \in Code
      BY <1>5, Printing DEF Code
    <3> QED BY <2>2, <3>1, <3>2, CodeOfOne, Instructing
  <2> QED BY <2>1, <2>2
<1>11. \A m \in Label : /\ <<Define(m)>> \in Code /\ PlacedOnce(<<Define(m)>>)
                        /\ \A l : (Placed(<<Define(m)>>, l) <=> l = m) /\ ~ Wanted(<<Define(m)>>, l)
  <2>1. \A m \in Label : <<Define(m)>> \in Code
    BY Printing DEF Code
  <2> QED BY <2>1, CodeOfOne, Instructing
<1>12. /\ <<>> \in Code /\ PlacedOnce(<<>>) /\ \A l : ~ Placed(<<>>, l) /\ ~ Wanted(<<>>, l)
  BY CodeOfOne DEF Code
<1>13. Gone(Top) = {} /\ Gone(Kept) = {}
  BY <1>2 DEF Gone
<1>14. CASE CondThen /\ HasElse
  <2>1. /\ frames' = Append(Front(frames), Kept)
        /\ out' = out \o value \o jump \o <<Define(L2)>>
    BY <1>14 DEF CondThen, Descend, Below
  <2> DEFINE tail == <<Define(L2)>>
             new  == value \o jump \o tail
  <2>2. tail \in Code /\ PlacedOnce(tail) /\ \A l : (Placed(tail, l) <=> l = L2) /\ ~ Wanted(tail, l)
    BY <1>5, <1>11
  <2>3. out' = out \o value \o jump \o tail
    BY <2>1
  <2> HIDE DEF tail, value, jump
  <2>4. out' = out \o new
    <3>1. out \in Code /\ value \in Code /\ jump \in Code /\ tail \in Code
      BY <1>1, <1>9, <1>10, <2>2
    <3>2. (out \o value) \o jump = out \o (value \o jump)
      BY <3>1, Joining
    <3> DEFINE half == value \o jump
    <3>3. half \in Code
      BY <3>1, CodeGrows
    <3>4. out' = (out \o half) \o tail
      BY <2>3, <3>2
    <3>5. new = half \o tail
      OBVIOUS
    <3> HIDE DEF half, new
    <3>6. (out \o half) \o tail = out \o (half \o tail)
      BY <3>1, <3>3, Joining, SMTT(30)
    <3> QED BY <3>4, <3>5, <3>6
  <2>5. /\ new \in Code /\ PlacedOnce(new)
        /\ \A l : (Placed(new, l) <=> l = L2) /\ (Wanted(new, l) <=> acc # Returned /\ l = L3)
    BY <1>9, <1>10, <2>2, ThreeParts
  <2>6. GoodFrame(Kept)
    <3>1. Front(frames) \in Seq(Frames)
      BY <1>1, FrontIs DEF Stack
    <3> QED BY <1>1, <2>1, <3>1, OnTheStack
  <2>7. Shares(frames, frames', b) /\ Holds(frames', b + 1, Kept)
    BY <1>1, <1>6, <2>1, <2>6, Moves
  <2>8. Len(Top.vals) = 1 /\ Len(Kept.vals) = 2 /\ Kept.vals[2] = acc
    <3>1. Len(Top.vals) = 1
      BY <1>3, <1>14
    <3>2. 1 + 1 = 2
      OBVIOUS
    <3> QED BY <1>2, <3>1, <3>2
  <2>9. Later(Top) = {L2, L3} /\ Owed(Top) = {L2}
    BY <1>2, <1>4, <1>14, <2>8 DEF Later, Owed, HasElse
  <2>10. Later(Kept) = {L3} /\ Owed(Kept) = IF acc = Returned THEN {} ELSE {L3}
    BY <1>2, <2>8 DEF Later, Owed, Labelled
  <2>11. \A l : Placed(new, l) => l \in LaterAt(frames, b + 1)
    BY <1>7, <2>5, <2>9 DEF Holds
  <2>12. \A l \in LaterAt(frames', b + 1) : ~ Placed(new, l) /\ l \in LaterAt(frames, b + 1)
    BY <1>5, <1>7, <2>5, <2>7, <2>9, <2>10 DEF Holds
  <2>13. \A l \in OwedAt(frames, b + 1) : Placed(new, l)
    BY <1>7, <2>5, <2>9 DEF Holds
  <2>14. \A l : Wanted(new, l) => l \in OwedAt(frames', b + 1)
    BY <2>5, <2>7, <2>10 DEF Holds
  <2>15. GoneAt(frames', b + 1) = {}
    BY <1>13, <2>7 DEF Holds
  <2> HIDE DEF new, b, L2, L3
  <2>16. Fit(out \o new, frames', ids)
    BY <1>1, <1>8, <2>5, <2>7, <2>11, <2>12, <2>13, <2>14, <2>15, Fitting
  <2> QED BY <1>8, <2>4, <2>16
<1>15. CASE ~ (CondThen /\ HasElse)
  <2> DEFINE exit == IF CondElse /\ ThenReturned THEN <<>> ELSE <<Define(L3)>>
             new  == value \o <<>> \o exit
  <2>1. frames' = Front(frames) /\ out' = out \o value \o exit
    <3>1. CASE CondElse
      BY <3>1 DEF CondElse, Below
    <3>2. CASE CondThen /\ ~ CondElse
      BY <1>15, <3>2 DEF CondThen, Below
    <3> QED BY <3>1, <3>2
  <2>2. Shares(frames, frames', b) /\ Bare(frames', b + 1)
    BY <1>1, <1>6, <2>1, Moves
  <2>3. /\ exit \in Code /\ PlacedOnce(exit)
        /\ \A l : (Placed(exit, l) <=> ~ (CondElse /\ ThenReturned) /\ l = L3) /\ ~ Wanted(exit, l)
    BY <1>5, <1>11, <1>12
  <2>4. out' = out \o value \o exit
    BY <2>1
  <2>5. /\ L3 \in Later(Top)
        /\ Owed(Top) = IF CondElse /\ ThenReturned THEN {} ELSE {L3}
    <3>1. CASE CondElse
      <4>1. Len(Top.vals) = 2
        BY <1>3, <3>1
      <4> QED BY <1>2, <1>4, <3>1, <4>1 DEF Later, Owed, ThenReturned
    <3>2. CASE CondThen /\ ~ CondElse
      <4>1. Len(Top.vals) = 1 /\ ~ HasElse
        BY <1>3, <1>15, <3>2
      <4> QED BY <1>2, <1>4, <3>2, <4>1 DEF Later, Owed, HasElse
    <3> QED BY <3>1, <3>2
  <2> HIDE DEF exit, value, jump
  <2>6. out' = out \o new
    <3>1. out \in Code /\ value \in Code /\ exit \in Code
      BY <1>1, <1>9, <2>3
    <3>2. (out \o value) \o exit = out \o (value \o exit)
      BY <3>1, Joining
    <3>3. value \o <<>> = value
      BY <3>1 DEF Code
    <3> QED BY <2>4, <3>2, <3>3
  <2>7. /\ new \in Code /\ PlacedOnce(new)
        /\ \A l : (Placed(new, l) <=> Placed(exit, l)) /\ ~ Wanted(new, l)
    BY <1>9, <1>12, <2>3, ThreeParts
  <2>8. \A l : Placed(new, l) => l \in LaterAt(frames, b + 1)
    BY <1>7, <2>3, <2>5, <2>7 DEF Holds
  <2>9. \A l \in OwedAt(frames, b + 1) : Placed(new, l)
    BY <1>7, <2>3, <2>5, <2>7 DEF Holds
  <2> HIDE DEF new, b, L2, L3
  <2>10. Fit(out \o new, frames', ids)
    BY <1>1, <1>8, <2>2, <2>7, <2>8, <2>9, Fitting DEF Bare
  <2> QED BY <1>8, <2>6, <2>10
<1> QED BY <1>14, <1>15

\* A function begins with the only label that has no number of its own.
LEMMA BeginFits ==
  ASSUME Types, Calls, Types', Calls', BeginFunction
  PROVE  Fit(out', frames', ids')
<1> DEFINE start == Lab("start", -1)
           code  == <<Define(start)>>
<1>1. /\ frames = <<>> /\ ids' = ids /\ ids \in Nat /\ out' = code /\ code \in Code
      /\ Stack(frames) /\ Stack(frames')
  BY DEF BeginFunction, Types, Calls
<1>2. start[2] = -1
  BY DEF Lab
<1>3. PlacedOnce(code) /\ \A l : (Placed(code, l) <=> l = start) /\ ~ Wanted(code, l)
  BY CodeOfOne, Instructing
<1> HIDE DEF start, code
<1>4. \A l : Placed(code, l) => l[2] < ids
  <2>1. \A n \in Nat : -1 < n
    OBVIOUS
  <2> QED BY <1>1, <1>2, <1>3, <2>1
<1>5. Len(frames) = 0
  BY <1>1
<1>6. Fit(code, frames, ids)
  BY <1>3, <1>4, <1>5 DEF Fit
<1>7. frames' = frames \/ \E f : GoodFrame(f) /\ Idle(f) /\ frames' = Append(frames, f)
  <2> DEFINE f == Frame(FunctionNode(unit[fn + 1]))
  <2>1. frames' = frames \/ frames' = Append(frames, f)
    BY DEF BeginFunction, Enter
  <2>2. f.node.t = "A_DECL"
    BY DEF Frame, FunctionNode
  <2> HIDE DEF f
  <2>3. Idle(f)
    BY <2>2, Idling
  <2>4. frames' = Append(frames, f) => GoodFrame(f)
    BY <1>1, OnTheStack DEF Stack
  <2> QED BY <2>1, <2>3, <2>4
<1>8. Silent(<<>>) /\ <<>> \in Code /\ code \o <<>> = code
  BY <1>1, SilentCode DEF Code
<1>9. Fit(code \o <<>>, frames', ids)
  BY <1>1, <1>6, <1>7, <1>8, SilentFits
<1> QED BY <1>1, <1>8, <1>9

\* Every step keeps the labels fitting.
LEMMA Labelling ==
  ASSUME Types, Calls, Fit(out, frames, ids), [Next]_vars
  PROVE  Fit(out', frames', ids')
<1>1. Types' /\ Calls'
  BY Typing
<1>2. CASE UNCHANGED vars
  BY <1>2 DEF vars
<1>3. CASE Quiet
  BY <1>1, <1>3, QuietFits
<1>4. CASE EvalWhile
  BY <1>1, <1>4, WhileFits
<1>5. CASE WhileTest \/ WhileBody
  BY <1>1, <1>5, LoopFits
<1>6. CASE CondTest
  BY <1>1, <1>6, TestFits
<1>7. CASE CondThen \/ CondElse
  BY <1>1, <1>7, BranchFits
<1>8. CASE BeginFunction
  BY <1>1, <1>8, BeginFits
<1> QED BY <1>2, <1>3, <1>4, <1>5, <1>6, <1>7, <1>8 DEF Next, Quiet

\* No label owed when the function is done: each one wanted is there, once.
LEMMA LabelsSuffice ==
  ASSUME Types, Calls, Fit(out, frames, ids)
  PROVE  LabelsDefined
<1> SUFFICES ASSUME FunctionCompiled, NEW i \in DOMAIN out, out[i].op \in {"jmp", "jnz"},
                    NEW k \in DOMAIN out[i].labels
             PROVE  \E j \in DOMAIN out : Named(out[i].labels[k]) = {j}
  BY DEF LabelsDefined
<1> DEFINE l == out[i].labels[k]
<1>1. out \in Seq(Instructions) /\ frames = <<>> /\ Len(frames) = 0
  BY DEF Types, Calls, Code, FunctionCompiled
<1>2. out[i] \in Instructions /\ DOMAIN out = 1..Len(out)
  BY <1>1, ElementOfSeq
<1>3. DOMAIN out[i].labels = 1..Len(out[i].labels)
  <2>1. out[i].labels \in Seq(Label)
    BY <1>2 DEF Instructions
  <2> QED BY <2>1
<1>4. Wanted(out, l)
  <2>1. Wants(out[i], l)
    BY <1>3 DEF Wants
  <2> QED BY <1>2, <2>1 DEF Wanted
<1> HIDE DEF l
<1>5. Placed(out, l)
  BY <1>1, <1>4 DEF Fit
<1>6. PICK j \in 1..Len(out) : Defines(out[j], l)
  BY <1>5 DEF Placed
<1>7. \A m \in 1..Len(out) : Defines(out[m], l) => m = j
  BY <1>6 DEF Fit, PlacedOnce
<1>8. Named(l) = {j}
  BY <1>2, <1>6, <1>7 DEF Named, Defines
<1> QED BY <1>2, <1>8 DEF l

\* Codegen.LabelsDefined, in every reachable state: whatever the tree, when
\* comp_sym has compiled a function every label its jumps name is printed once.
THEOREM CodegenLabels == Spec => []LabelsDefined
<1>1. Init => Inv
  <2> SUFFICES ASSUME Init PROVE Inv
    OBVIOUS
  <2>1. Types /\ Calls
    BY TypesAtFirst
  <2>2. out = <<>> /\ Len(frames) = 0
    BY DEF Init
  <2>3. Fit(out, frames, ids)
    BY <2>2, CodeOfOne DEF Fit
  <2> QED BY <2>1, <2>3 DEF Inv
<1>2. Inv /\ [Next]_vars => Inv'
  BY Typing, Labelling DEF Inv
<1>3. Inv => LabelsDefined
  BY LabelsSuffice DEF Inv
<1> QED BY <1>1, <1>2, <1>3, PTL DEF Spec

=============================================================================
