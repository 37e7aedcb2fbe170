------------------------------ MODULE TidyProofs ------------------------------
(***************************************************************************)
(* What the code generator promises for tidy trees: the text of a function *)
(* is a list of blocks, each of which leaves once; no instruction writes   *)
(* over a variable, an operand or an argument that is still needed; the    *)
(* parameters are where the header of the function says; and a void mark   *)
(* gives back what its statement took. Codegen names what tidy means, and  *)
(* MCCompiler checks it of the trees the parser hands over.                *)
(***************************************************************************)
EXTENDS CodegenProofs, FiniteSetTheorems

-----------------------------------------------------------------------------
(***************************************************************************)
(* The walk: the calls under way are a path in the tree of the function.   *)
(***************************************************************************)
\* The child a call waits for.
Awaited(f) == Children(f.node)[Len(f.vals) + 1]

Walk ==
  /\ mode \in {"eval", "return"} => frames # <<>>
  /\ mode = "eval" => cur = Awaited(Top)
  /\ frames # <<>> => fn \in 1..Len(unit) /\ frames[1].node = FunctionNode(unit[fn])
  /\ \A k \in 1..Len(frames)-1 : frames[k+1].node = Awaited(frames[k])

\* The outermost call is that of comp_sym; the others compile trees.
LEMMA OnThePath ==
  ASSUME Types, Calls, Walk, NEW k \in 1..Len(frames)
  PROVE  /\ GoodFrame(frames[k]) /\ Len(frames[k].vals) \in Nat
         /\ Awaited(frames[k]) \in Trees
         /\ k = 1 => frames[k].node = FunctionNode(unit[fn]) /\ frames[k].node.t = "A_DECL"
         /\ k # 1 => frames[k].node \in Trees /\ frames[k].node.t # "A_DECL"
<1>1. Len(frames) \in Nat /\ Len(frames) > 0 /\ \A j \in 1..Len(frames) : GoodFrame(frames[j])
  BY DEF Calls, Stack
<1>2. \A j \in 1..Len(frames) : Awaited(frames[j]) \in Trees
  BY <1>1, NextChild DEF Awaited
<1>3. Len(frames[k].vals) \in Nat
  BY <1>1 DEF GoodFrame, Frames
<1>4. CASE k = 1
  <2>1. frames # <<>>
    BY <1>1
  <2>2. frames[1].node = FunctionNode(unit[fn])
    BY <2>1 DEF Walk
  <2> QED BY <1>1, <1>2, <1>3, <1>4, <2>2 DEF FunctionNode
<1>5. CASE k # 1
  <2>1. k - 1 \in 1..Len(frames)-1 /\ k - 1 \in 1..Len(frames) /\ (k - 1) + 1 = k
    BY <1>1, <1>5
  <2>2. frames[k].node = Awaited(frames[k - 1])
    BY <2>1 DEF Walk
  <2>3. frames[k].node \in Trees
    BY <1>2, <2>1, <2>2
  <2> QED BY <1>1, <1>2, <1>3, <1>5, <2>3, TreesAreNodes
<1> QED BY <1>4, <1>5

\* The call on top, and the one below it.
LEMMA TopOfPath ==
  ASSUME Types, Calls, Walk, frames # <<>>
  PROVE  /\ Len(frames) \in Nat \ {0} /\ Top = frames[Len(frames)] /\ GoodFrame(Top)
         /\ Len(Top.vals) \in Nat /\ Awaited(Top) \in Trees
         /\ Top.node.t = "A_DECL" <=> Len(frames) = 1
         /\ Top.node.t = "A_DECL" => Top.node = FunctionNode(unit[fn])
         /\ Top.node.t # "A_DECL" => Top.node \in Trees
<1>1. frames \in Seq(Frames)
  BY DEF Calls, Stack
<1>2. Len(frames) \in Nat \ {0} /\ Top = frames[Len(frames)]
  BY <1>1, FrontIs DEF Top
<1>3. Len(frames) \in 1..Len(frames)
  BY <1>2
<1> QED BY <1>2, <1>3, OnThePath

\* A leaf answers, or a call stops.
LEMMA WalkStays ==
  ASSUME Walk, UNCHANGED <<unit, fn, frames>>, mode' # "eval", mode' = "return" => frames # <<>>
  PROVE  Walk'
  BY DEF Walk

\* A call begins.
LEMMA WalkEnters ==
  ASSUME Types, Calls, Walk, mode = "eval", NEW f \in Frames, f.node = cur, f.vals = <<>>, Enter(f),
         UNCHANGED <<unit, fn>>
  PROVE  /\ Walk' /\ Top' = f
         /\ Len(frames') = Len(frames) + 1 /\ frames'[Len(frames) + 1] = f
         /\ \A k \in 1..Len(frames) : frames'[k] = frames[k]
<1>1. /\ frames # <<>> /\ Len(frames) \in Nat \ {0} /\ Top = frames[Len(frames)] /\ cur = Awaited(Top)
      /\ frames \in Seq(Frames)
  BY TopOfPath DEF Walk, Calls, Stack
<1>2. /\ frames' = Append(frames, f) /\ Len(frames') = Len(frames) + 1 /\ frames'[Len(frames) + 1] = f
      /\ \A k \in 1..Len(frames) : frames'[k] = frames[k]
  BY <1>1, Appended DEF Enter
<1>3. Top' = f /\ frames' # <<>> /\ Len(f.vals) + 1 = 1
  BY <1>1, <1>2 DEF Top, Last
<1>4. cur' = Awaited(f) /\ mode' = "eval"
  BY <1>3 DEF Enter, Awaited
<1>5. ASSUME NEW k \in 1..Len(frames')-1
      PROVE  frames'[k+1].node = Awaited(frames'[k])
  <2>1. CASE k = Len(frames)
    BY <1>1, <1>2, <2>1
  <2>2. CASE k # Len(frames)
    <3>1. k \in 1..Len(frames)-1 /\ k + 1 \in 1..Len(frames) /\ k \in 1..Len(frames)
      BY <1>1, <1>2, <2>2
    <3> QED BY <1>2, <3>1 DEF Walk
  <2> QED BY <2>1, <2>2
<1>6. frames'[1].node = FunctionNode(unit'[fn']) /\ fn' \in 1..Len(unit')
  BY <1>1, <1>2 DEF Walk
<1> QED BY <1>2, <1>3, <1>4, <1>5, <1>6 DEF Walk

\* A call goes on.
LEMMA WalkGoesOn ==
  ASSUME Types, Calls, Walk, frames # <<>>, NEW f \in Frames, f.node = Top.node,
         Descend(f, Len(f.vals) + 1), UNCHANGED <<unit, fn>>
  PROVE  /\ Walk' /\ Top' = f /\ Len(frames') = Len(frames) /\ frames'[Len(frames)] = f
         /\ \A k \in 1..Len(frames)-1 : frames'[k] = frames[k]
<1>1. /\ Len(frames) \in Nat \ {0} /\ Top = frames[Len(frames)] /\ frames \in Seq(Frames)
  BY TopOfPath DEF Calls, Stack
<1>2. /\ Below \in Seq(Frames) /\ Len(Below) = Len(frames) - 1
      /\ \A k \in 1..Len(frames)-1 : Below[k] = frames[k]
  BY <1>1, FrontIs DEF Below
<1>3. /\ frames' = Append(Below, f) /\ Len(frames') = (Len(frames) - 1) + 1
      /\ frames'[(Len(frames) - 1) + 1] = f
      /\ \A k \in 1..Len(frames)-1 : frames'[k] = frames[k]
  BY <1>2, Appended DEF Descend
<1>4. Len(frames') = Len(frames) /\ frames'[Len(frames)] = f
  BY <1>1, <1>3
<1>5. Top' = f /\ frames' # <<>>
  BY <1>1, <1>4 DEF Top, Last
<1>6. cur' = Awaited(f) /\ mode' = "eval"
  BY DEF Descend, Awaited
<1>7. \A k \in 1..Len(frames) : frames'[k].node = frames[k].node
  <2>1. \A k \in 1..Len(frames) : k \in 1..Len(frames)-1 \/ k = Len(frames)
    BY <1>1
  <2> QED BY <1>1, <1>3, <1>4, <2>1
<1>8. ASSUME NEW k \in 1..Len(frames')-1
      PROVE  frames'[k+1].node = Awaited(frames'[k])
  <2>1. k \in 1..Len(frames)-1 /\ k + 1 \in 1..Len(frames)
    BY <1>1, <1>4
  <2> QED BY <1>3, <1>7, <2>1 DEF Walk
<1>9. frames'[1].node = FunctionNode(unit'[fn']) /\ fn' \in 1..Len(unit')
  BY <1>1, <1>7 DEF Walk
<1> QED BY <1>3, <1>4, <1>5, <1>6, <1>8, <1>9 DEF Walk

\* A call returns: the one below it waited for its tree.
LEMMA WalkReturns ==
  ASSUME Types, Calls, Walk, frames # <<>>, Top.node.t # "A_DECL", frames' = Below, mode' = "return",
         UNCHANGED <<unit, fn>>
  PROVE  /\ Walk' /\ frames' # <<>> /\ Awaited(Top)' = Top.node /\ Len(frames') = Len(frames) - 1
         /\ \A k \in 1..Len(frames)-1 : frames'[k] = frames[k]
<1>1. /\ Len(frames) \in Nat \ {0, 1} /\ Top = frames[Len(frames)] /\ frames \in Seq(Frames)
  BY TopOfPath DEF Calls, Stack
<1>2. /\ frames' \in Seq(Frames) /\ Len(frames') = Len(frames) - 1
      /\ \A k \in 1..Len(frames)-1 : frames'[k] = frames[k]
  BY <1>1, FrontIs DEF Below
<1>3. frames' # <<>> /\ Top' = frames[Len(frames) - 1] /\ Len(frames) - 1 \in 1..Len(frames)-1
  BY <1>1, <1>2 DEF Top, Last
<1>4. Awaited(Top)' = Top.node
  <2>1. frames[(Len(frames) - 1) + 1].node = Awaited(frames[Len(frames) - 1])
    BY <1>3 DEF Walk
  <2>2. (Len(frames) - 1) + 1 = Len(frames)
    BY <1>1
  <2> QED BY <1>1, <1>3, <2>1, <2>2 DEF Awaited
<1>5. ASSUME NEW k \in 1..Len(frames')-1
      PROVE  frames'[k+1].node = Awaited(frames'[k])
  <2>1. k \in 1..Len(frames)-1 /\ k + 1 \in 1..Len(frames)-1
    BY <1>1, <1>2
  <2> QED BY <1>2, <2>1 DEF Walk
<1>6. frames'[1].node = FunctionNode(unit'[fn']) /\ fn' \in 1..Len(unit')
  BY <1>1, <1>2 DEF Walk
<1> QED BY <1>2, <1>3, <1>4, <1>5, <1>6 DEF Walk

\* comp_sym begins a function with its first statement, and ends it.
LEMMA WalkBegins ==
  ASSUME Types, Calls, Walk, BeginFunction \/ EndFunction \/ EndUnit
  PROVE  Walk'
<1>1. CASE BeginFunction
  <2> DEFINE f == Frame(FunctionNode(unit[fn + 1]))
  <2>1. fn \in 0..Len(unit) /\ fn < Len(unit) /\ frames = <<>> /\ mode = "function" /\ unit' = unit /\ fn' = fn + 1
        /\ unit \in Seq([name : Names, params : Seq(Names), body : Seq(Trees)])
    BY <1>1, UnitsAssumption DEF BeginFunction, Types, Calls
  <2>2. fn + 1 \in 1..Len(unit)
    BY <2>1
  <2>3. CASE unit[fn + 1].body = <<>>
    <3>1. UNCHANGED <<mode, frames>> /\ Len(frames) = 0
      BY <1>1, <2>1, <2>3 DEF BeginFunction
    <3> QED BY <2>1, <3>1 DEF Walk
  <2>4. CASE unit[fn + 1].body # <<>>
    <3>1. Enter(f)
      BY <1>1, <2>4 DEF BeginFunction
    <3>2. f.node = FunctionNode(unit[fn + 1]) /\ f.vals = <<>>
      BY DEF Frame
    <3> HIDE DEF f
    <3>3. frames' = <<f>> /\ mode' = "eval" /\ cur' = Children(f.node)[1]
      <4>1. frames' = Append(<<>>, f)
        BY <2>1, <3>1 DEF Enter
      <4> QED BY <3>1, <4>1 DEF Enter
    <3>4. Len(frames') = 1 /\ frames'[1] = f /\ Top' = f /\ frames' # <<>> /\ Len(f.vals) + 1 = 1
      BY <3>2, <3>3 DEF Top, Last
    <3>5. cur' = Awaited(Top)'
      BY <3>3, <3>4 DEF Awaited
    <3>6. \A k \in 1..Len(frames')-1 : FALSE
      BY <3>4
    <3>7. fn' \in 1..Len(unit') /\ frames'[1].node = FunctionNode(unit'[fn'])
      BY <2>1, <2>2, <3>2, <3>4
    <3> QED BY <3>3, <3>4, <3>5, <3>6, <3>7 DEF Walk
  <2> QED BY <2>3, <2>4
<1>2. CASE EndFunction
  <2>1. mode' = "function" /\ frames' = Below /\ frames # <<>> /\ Top.node.t = "A_DECL"
    BY <1>2 DEF EndFunction, DeliversLast
  <2>2. Len(frames) = 1 /\ frames \in Seq(Frames)
    BY <2>1, TopOfPath DEF Calls, Stack
  <2>3. frames' \in Seq(Frames) /\ Len(frames') = 0
    <3>1. frames' \in Seq(Frames) /\ Len(frames') = Len(frames) - 1
      BY <2>1, <2>2, FrontIs DEF Below
    <3> QED BY <2>2, <3>1
  <2>4. frames' = <<>> /\ \A k \in 1..Len(frames')-1 : FALSE
    BY <2>3
  <2> QED BY <2>1, <2>4 DEF Walk
<1>3. CASE EndUnit
  BY <1>3, WalkStays DEF EndUnit, Stop
<1> QED BY <1>1, <1>2, <1>3

\* Every step follows the tree.
LEMMA Walking ==
  ASSUME Types, Calls, Walk, [Next]_vars
  PROVE  Walk'
<1>1. CASE UNCHANGED vars
  BY <1>1 DEF vars, Walk, Top, Awaited
<1>2. CASE mode = "eval" /\ mode' # "eval" /\ UNCHANGED <<unit, fn, frames>>
  BY <1>2, WalkStays DEF Walk
<1>3. CASE EvalBinary \/ EvalCall \/ EvalDeclAssignment \/ EvalAssignment \/ EvalCond
           \/ EvalReturn \/ EvalBlock \/ EvalWhile
  <2>1. mode = "eval" /\ cur \in Nodes
    BY <1>3, TreesAreNodes DEF Types, EvalBinary, EvalCall, EvalDeclAssignment, EvalAssignment, EvalCond,
       EvalReturn, EvalBlock, EvalWhile, Evals
  <2>2. Frame(cur) \in Frames /\ Frame(cur).node = cur /\ Frame(cur).vals = <<>>
    BY <2>1, FrameTyped
  <2>3. CASE Enter(Frame(cur)) /\ UNCHANGED <<unit, fn>>
    BY <2>1, <2>2, <2>3, WalkEnters
  <2>4. CASE EvalWhile
    <3>1. LoopCall \in Frames /\ LoopCall.node = cur /\ LoopCall.vals = <<>>
      BY <2>4, NewLoop DEF GoodFrame
    <3>2. Enter(LoopCall) /\ UNCHANGED <<unit, fn>>
      BY <2>4 DEF EvalWhile, LoopCall
    <3> QED BY <2>1, <3>1, <3>2, WalkEnters
  <2>5. CASE EvalAssignment /\ ~ Stop("segv")
    <3> DEFINE f == [Frame(cur) EXCEPT !.dst = LookUp(cur.kids[1].lexeme)]
    <3>1. Enter(f) /\ UNCHANGED <<unit, fn>>
      BY <2>5 DEF EvalAssignment
    <3>2. f \in Frames /\ f.node = cur /\ f.vals = <<>>
      BY <2>2, LookingUp DEF Frames
    <3> HIDE DEF f
    <3> QED BY <2>1, <3>1, <3>2, WalkEnters
  <2>6. CASE Stop("segv") \/ Stop("exit69")
    BY <1>2, <2>1, <2>6 DEF Stop
  <2>7. CASE EvalCall
    <3>1. (Enter(Frame(cur)) /\ UNCHANGED <<unit, fn>>) \/ Stop("exit69")
          \/ (mode' = "return" /\ UNCHANGED <<unit, fn, frames>>)
      BY <2>7 DEF EvalCall, Return
    <3> QED BY <1>2, <2>1, <2>3, <2>6, <3>1
  <2>8. CASE EvalBinary \/ EvalDeclAssignment \/ EvalCond \/ EvalReturn \/ EvalBlock
    BY <2>3, <2>8 DEF EvalBinary, EvalDeclAssignment, EvalCond, EvalReturn, EvalBlock
  <2> QED BY <1>3, <2>4, <2>5, <2>6, <2>7, <2>8
<1>4. CASE BinaryRight \/ CallArgument \/ NextStatement \/ WhileTest \/ CondTest \/ (CondThen /\ HasElse)
  <2>1. mode = "return" /\ frames # <<>> /\ UNCHANGED <<unit, fn>>
    BY <1>4 DEF BinaryRight, CallArgument, NextStatement, WhileTest, CondTest, CondThen, Delivers, DeliversSome
  <2>2. Kept \in Frames /\ Kept.node = Top.node /\ Len(Kept.vals) = Len(Top.vals) + 1 /\ Len(Top.vals) \in Nat
    BY <2>1, Delivery DEF Delivered
  <2>3. CASE BinaryRight \/ WhileTest \/ CallArgument \/ NextStatement \/ CondThen
    <3>1. \/ Len(Top.vals) + 1 = 1 /\ Descend(Kept, 2)
          \/ Len(Top.vals) + 1 = 2 /\ Descend(Kept, 3)
          \/ Descend(Kept, Len(Top.vals) + 2)
      <4>1. BinaryRight \/ WhileTest => Len(Top.vals) + 1 = 1 /\ Descend(Kept, 2)
        BY DEF BinaryRight, WhileTest, Delivers
      <4>2. CallArgument \/ NextStatement => Descend(Kept, Len(Top.vals) + 2)
        BY DEF CallArgument, NextStatement
      <4>3. CondThen /\ HasElse => Len(Top.vals) + 1 = 2 /\ Descend(Kept, 3)
        BY DEF CondThen, Delivers
      <4>4. CondThen => Top.node.t = "A_COND" /\ Len(Top.vals) + 1 = 2
        BY DEF CondThen, Delivers
      <4>5. BinaryRight \/ WhileTest \/ CallArgument \/ NextStatement \/ CondTest
              => Top.node.t # "A_COND" \/ Len(Top.vals) + 1 = 1
        BY DEF BinaryRight, WhileTest, CallArgument, NextStatement, CondTest, Delivers, DeliversSome, BinaryTypes, Operation
      <4>6. CondThen => HasElse
        BY <1>4, <4>4, <4>5, \A n : n = 1 => n # 2
      <4> QED BY <2>3, <4>1, <4>2, <4>3, <4>6, Zenon
    <3>2. /\ Len(Top.vals) + 1 = 1 => Len(Kept.vals) + 1 = 2
          /\ Len(Top.vals) + 1 = 2 => Len(Kept.vals) + 1 = 3
          /\ Len(Top.vals) + 2 = Len(Kept.vals) + 1
      BY <2>2
    <3>3. Descend(Kept, Len(Kept.vals) + 1)
      BY <3>1, <3>2, Zenon
    <3> QED BY <2>1, <2>2, <3>3, WalkGoesOn
  <2>4. CASE CondTest
    <3>1. Tested \in Frames /\ Tested.node = Top.node /\ Tested.vals = Kept.vals
      <4>1. ids \in Nat
        BY DEF Types
      <4> QED BY <2>1, <2>4, <4>1, Delivery, NewTest DEF GoodFrame
    <3>2. Descend(Tested, 2) /\ Len(Top.vals) + 1 = 1
      BY <2>4 DEF CondTest, Tested, Delivers
    <3>3. Len(Tested.vals) + 1 = 2
      BY <2>2, <3>1, <3>2
    <3>4. Descend(Tested, Len(Tested.vals) + 1)
      BY <3>2, <3>3, Zenon
    <3> QED BY <2>1, <3>1, <3>4, WalkGoesOn
  <2> QED BY <1>4, <2>3, <2>4
<1>5. CASE BinaryLeft \/ CallLast \/ DeclAssignment \/ Assignment \/ WhileBody \/ ReturnValue \/ BlockLast
           \/ CondElse \/ (CondThen /\ ~ HasElse)
  <2>1. mode = "return" /\ frames # <<>> /\ Top.node.t # "A_DECL"
    BY <1>5 DEF BinaryLeft, CallLast, DeclAssignment, Assignment, WhileBody, ReturnValue, BlockLast, CondThen, CondElse,
       Delivers, DeliversLast, BinaryTypes, Operation
  <2>2. CASE Stop("segv")
    BY <2>2, WalkStays DEF Stop
  <2>3. CASE ~ Stop("segv")
    <3>1. frames' = Below /\ mode' = "return" /\ UNCHANGED <<unit, fn>>
      BY <1>5, <2>3 DEF BinaryLeft, CallLast, DeclAssignment, Assignment, WhileBody, ReturnValue, BlockLast,
         CondThen, CondElse, Return
    <3> QED BY <2>1, <3>1, WalkReturns
  <2> QED BY <2>2, <2>3
<1>6. CASE EvalVoid \/ EvalLiteral \/ EvalIdent \/ EvalDeclLocal \/ EvalUnknown
  BY <1>2, <1>6 DEF EvalVoid, EvalLiteral, EvalIdent, EvalDeclLocal, EvalUnknown, Evals, Return, Stop
<1>7. CASE BeginFunction \/ EndFunction \/ EndUnit
  BY <1>7, WalkBegins
<1> QED BY <1>1, <1>3, <1>4, <1>5, <1>6, <1>7 DEF Next

-----------------------------------------------------------------------------
(***************************************************************************)
(* Blocks: a function that ends in a return, and returns early only where  *)
(* EndsOnce allows it, is a list of blocks.                                *)
(***************************************************************************)
TreesEndOnce ==
  /\ \A node \in Trees : EndsOnce(node)
  /\ \A u \in Units : \A i \in 1..Len(u) : EndsInReturn(u[i])

\* An instruction that ends a block, and code whose blocks end with one.
Ending(i)    == i.op \in {"jmp", "jnz", "ret"}
Blocks(code) == \A i \in 1..Len(code)-1 : Ending(code[i]) => code[i+1].op = "label"
Ended(code)  == Len(code) > 0 /\ Ending(code[Len(code)])

\* A conditional remembers that its first branch returned.
Marked(f) ==
  f.node.t = "A_COND" /\ Len(f.vals) = 2 /\ f.vals[2] = Returned => Returning(f.node.kids[2])

\* The code printed so far ends with a block exactly when the tree just compiled
\* returned, which only the last statement of a function or a branch does.
Flow ==
  /\ Blocks(out)
  /\ mode = "eval" => ~ Ended(out)
  /\ mode = "return" => /\ Ended(out) <=> acc = Returned
                        /\ acc = Returned => Returning(Awaited(Top))
                        /\ Awaited(Top).t = "A_RET" => acc = Returned
  /\ mode = "function" /\ fn > 0 => Ended(out)
  /\ \A k \in 1..Len(frames) : Marked(frames[k])

\* One instruction more: after the end of a block, a label.
LEMMA BlocksGrow ==
  ASSUME NEW S, NEW o \in Seq(S), NEW i, Blocks(o), Ended(o) => i.op = "label"
  PROVE  /\ Blocks(Append(o, i)) /\ (Ended(Append(o, i)) <=> Ending(i))
         /\ Append(o, i) = o \o <<i>> /\ Append(o, i) \in Seq(S \cup {i})
<1>1. o \in Seq(S \cup {i}) /\ i \in S \cup {i}
  BY SeqMonotonic
<1>2. /\ Len(Append(o, i)) = Len(o) + 1 /\ Len(o) \in Nat /\ Append(o, i)[Len(o) + 1] = i
      /\ \A k \in 1..Len(o) : Append(o, i)[k] = o[k]
  BY <1>1, Appended
<1>3. ASSUME NEW k \in 1..Len(o), Ending(o[k])
      PROVE  Append(o, i)[k+1].op = "label"
  <2>1. CASE k = Len(o)
    <3>1. Ended(o)
      BY <1>2, <1>3, <2>1 DEF Ended
    <3> QED BY <1>2, <2>1, <3>1
  <2>2. CASE k # Len(o)
    <3>1. k \in 1..Len(o)-1 /\ k + 1 \in 1..Len(o)
      BY <1>2, <2>2
    <3> QED BY <1>2, <1>3, <3>1 DEF Blocks
  <2> QED BY <2>1, <2>2
<1>4. Blocks(Append(o, i))
  BY <1>2, <1>3 DEF Blocks
<1>5. Ended(Append(o, i)) <=> Ending(i)
  BY <1>2 DEF Ended
<1>6. Append(o, i) = o \o <<i>> /\ Append(o, i) \in Seq(S \cup {i})
  BY <1>1
<1> QED BY <1>4, <1>5, <1>6

\* Two instructions more, of which the second is a label.
LEMMA BlocksGrowByTwo ==
  ASSUME NEW S, NEW o \in Seq(S), NEW i, NEW j, Blocks(o), ~ Ended(o), j.op = "label"
  PROVE  Blocks(o \o <<i, j>>) /\ ~ Ended(o \o <<i, j>>)
<1>1. Blocks(Append(o, i)) /\ Append(o, i) \in Seq(S \cup {i})
  BY BlocksGrow
<1>2. Blocks(Append(Append(o, i), j)) /\ (Ended(Append(Append(o, i), j)) <=> Ending(j))
  BY <1>1, BlocksGrow
<1>3. Append(Append(o, i), j) = o \o <<i, j>>
  <2>1. o \in Seq(S \cup {i, j}) /\ i \in S \cup {i, j} /\ j \in S \cup {i, j}
    BY SeqMonotonic
  <2> QED BY <2>1
<1> QED BY <1>2, <1>3 DEF Ending

\* The same, printed one by one.
LEMMA BlocksGrowTwice ==
  ASSUME NEW S, NEW o \in Seq(S), NEW i, NEW j, Blocks(o), ~ Ended(o), j.op = "label"
  PROVE  Blocks((o \o <<i>>) \o <<j>>) /\ ~ Ended((o \o <<i>>) \o <<j>>)
<1> DEFINE q == o \o <<i>>
<1>1. Blocks(q) /\ q \in Seq(S \cup {i})
  <2>1. /\ Blocks(Append(o, i)) /\ Append(o, i) = o \o <<i>>
        /\ Append(o, i) \in Seq(S \cup {i})
    BY BlocksGrow
  <2> QED BY <2>1
<1> HIDE DEF q
<1>2. Blocks(q \o <<j>>) /\ (Ended(q \o <<j>>) <=> Ending(j))
  BY <1>1, BlocksGrow
<1> QED BY <1>2 DEF Ending, q

\* The value of a branch more.
LEMMA BlocksGrowByValue ==
  ASSUME NEW S, NEW o \in Seq(S), NEW slot, NEW v, Blocks(o), Ended(o) <=> v = Returned
  PROVE  /\ Blocks(o \o BranchValue(slot, v))
         /\ Ended(o \o BranchValue(slot, v)) <=> v = Returned
         /\ o \o BranchValue(slot, v) \in Seq(S \cup {Copy(slot, v)})
<1>1. CASE v = Returned
  <2>1. o \in Seq(S \cup {Copy(slot, v)}) /\ o \o <<>> = o
    BY SeqMonotonic
  <2> QED BY <1>1, <2>1 DEF BranchValue
<1>2. CASE v # Returned
  <2>1. ~ Ending(Copy(slot, v))
    BY DEF Ending, Copy, Ins
  <2> QED BY <1>2, <2>1, BlocksGrow DEF BranchValue
<1> QED BY <1>1, <1>2

\* The kinds of steps. A leaf answers.
LEMMA FlowAnswers ==
  ASSUME Types, Calls, Walk, Flow, mode = "eval", mode' = "return", UNCHANGED <<unit, fn, frames>>,
         cur.t # "A_RET", acc' # Returned, Blocks(out'), ~ Ended(out')
  PROVE  Walk' /\ Flow'
<1>1. frames # <<>> /\ cur = Awaited(Top)
  BY DEF Walk
<1>2. Walk'
  BY <1>1, WalkStays
<1>3. Awaited(Top)' = cur
  BY <1>1 DEF Awaited, Top
<1> QED BY <1>2, <1>3 DEF Flow

\* The compiler stops.
LEMMA FlowStops ==
  ASSUME Types, Calls, Walk, Flow, NEW how \in {"done", "exit69", "segv"}, Stop(how)
  PROVE  Walk' /\ Flow'
<1>1. UNCHANGED <<unit, fn, frames, out>> /\ mode' \in {"done", "exit69", "segv"}
  BY DEF Stop
<1>2. Walk'
  BY <1>1, WalkStays
<1> QED BY <1>1, <1>2 DEF Flow

\* A call begins.
LEMMA FlowEnters ==
  ASSUME Types, Calls, Walk, Flow, mode = "eval", NEW f \in Frames, f.node = cur, f.vals = <<>>, Enter(f),
         UNCHANGED <<unit, fn>>, Blocks(out'), ~ Ended(out')
  PROVE  Walk' /\ Flow'
<1>1. /\ Walk' /\ Len(frames') = Len(frames) + 1 /\ frames'[Len(frames) + 1] = f
      /\ \A k \in 1..Len(frames) : frames'[k] = frames[k]
  BY WalkEnters
<1>2. mode' = "eval" /\ Len(frames) \in Nat /\ Marked(f)
  BY DEF Enter, Marked, Calls, Stack
<1>3. \A k \in 1..Len(frames') : k \in 1..Len(frames) \/ k = Len(frames) + 1
  BY <1>1, <1>2
<1>4. \A k \in 1..Len(frames') : Marked(frames'[k])
  BY <1>1, <1>2, <1>3 DEF Flow
<1> QED BY <1>1, <1>2, <1>4 DEF Flow

\* A call goes on to its next child.
LEMMA FlowGoesOn ==
  ASSUME Types, Calls, Walk, Flow, frames # <<>>, NEW f \in Frames, f.node = Top.node, Marked(f),
         Descend(f, Len(f.vals) + 1), UNCHANGED <<unit, fn>>, Blocks(out'), ~ Ended(out')
  PROVE  Walk' /\ Flow'
<1>1. /\ Walk' /\ Len(frames') = Len(frames) /\ frames'[Len(frames)] = f
      /\ \A k \in 1..Len(frames)-1 : frames'[k] = frames[k]
  BY WalkGoesOn
<1>2. mode' = "eval" /\ Len(frames) \in Nat
  BY DEF Descend, Calls, Stack
<1>3. \A k \in 1..Len(frames') : k \in 1..Len(frames)-1 \/ k = Len(frames)
  BY <1>1, <1>2
<1>4. \A k \in 1..Len(frames)-1 : k \in 1..Len(frames)
  BY <1>2
<1>5. \A k \in 1..Len(frames') : Marked(frames'[k])
  BY <1>1, <1>3, <1>4 DEF Flow
<1> QED BY <1>1, <1>2, <1>5 DEF Flow

\* A call returns.
LEMMA FlowReturns ==
  ASSUME Types, Calls, Walk, Flow, frames # <<>>, Top.node.t # "A_DECL", frames' = Below,
         mode' = "return", UNCHANGED <<unit, fn>>, Blocks(out'),
         Ended(out') <=> acc' = Returned,
         acc' = Returned => Returning(Top.node),
         Top.node.t = "A_RET" => acc' = Returned
  PROVE  Walk' /\ Flow'
<1>1. /\ Walk' /\ Awaited(Top)' = Top.node /\ Len(frames') = Len(frames) - 1
      /\ \A k \in 1..Len(frames)-1 : frames'[k] = frames[k]
  BY WalkReturns
<1>2. \A k \in 1..Len(frames') : k \in 1..Len(frames)-1 /\ k \in 1..Len(frames)
  BY <1>1 DEF Calls, Stack
<1>3. \A k \in 1..Len(frames') : Marked(frames'[k])
  BY <1>1, <1>2 DEF Flow
<1> QED BY <1>1, <1>3 DEF Flow

\* The numbers of the children, counted from either end.
LEMMA Counted ==
  /\ \A n, m \in Nat : m + 1 \in 1..n => (n - (m + 1)) + 1 = n - m /\ n - m \in 1..n
  /\ \A n \in Nat : (n < 2 => n \in {0, 1}) /\ (n < 3 => n \in {0, 1, 2})
  /\ \A n \in {0, 1, 2} : n + 1 \in 1..3
  OBVIOUS

\* Which child that is.
LEMMA AwaitedIs ==
  ASSUME NEW f, GoodFrame(f)
  PROVE  /\ f.node.t \notin {"A_CALL_FINISHED", "A_ASSIGNMENT"} =>
              /\ Awaited(f) = f.node.kids[Len(f.vals) + 1]
              /\ Len(f.vals) + 1 \in 1..Len(f.node.kids)
         /\ f.node.t = "A_ASSIGNMENT" => Awaited(f) = f.node.kids[2] /\ Len(f.vals) = 0
         /\ f.node.t = "A_CALL_FINISHED" =>
              /\ Awaited(f) = f.node.kids[Len(f.node.kids) - Len(f.vals)]
              /\ Len(f.node.kids) - Len(f.vals) \in 1..Len(f.node.kids)
         /\ Len(f.vals) \in Nat /\ Len(f.node.kids) \in Nat
<1>1. /\ f.node \in Nodes /\ HasChildren(f.node) /\ Len(f.vals) \in Nat
      /\ Len(f.vals) < Len(Children(f.node))
      /\ f.node.kids \in Seq(Trees) /\ Len(f.node.kids) \in Nat
  BY DEF GoodFrame, Frames, Nodes
<1>2. CASE f.node.t = "A_ASSIGNMENT"
  <2>1. Len(Children(f.node)) = 1 /\ Children(f.node) = <<f.node.kids[2]>>
    BY <1>1, <1>2, ChildrenAreTrees DEF Children
  <2>2. Len(f.vals) = 0
    BY <1>1, <2>1
  <2>3. <<f.node.kids[2]>>[0 + 1] = f.node.kids[2]
    OBVIOUS
  <2> QED BY <1>1, <1>2, <2>1, <2>2, <2>3 DEF Awaited
<1>3. CASE f.node.t = "A_CALL_FINISHED"
  <2>1. Children(f.node) = Reverse(f.node.kids) /\ Len(Children(f.node)) = Len(f.node.kids)
    BY <1>1, <1>3, ChildrenAreTrees DEF Children
  <2>2. Len(f.vals) + 1 \in 1..Len(f.node.kids)
    BY <1>1, <2>1
  <2>3. Reverse(f.node.kids)[Len(f.vals) + 1] = f.node.kids[(Len(f.node.kids) - (Len(f.vals) + 1)) + 1]
    BY <2>2 DEF Reverse
  <2>4. (Len(f.node.kids) - (Len(f.vals) + 1)) + 1 = Len(f.node.kids) - Len(f.vals)
        /\ Len(f.node.kids) - Len(f.vals) \in 1..Len(f.node.kids)
    BY <1>1, <2>2, Counted, Zenon
  <2> QED BY <1>1, <1>3, <2>1, <2>3, <2>4 DEF Awaited
<1>4. CASE f.node.t = "A_COND"
  <2>1. Len(f.node.kids) = 3
    BY <1>1, <1>4 DEF HasChildren
  <2>2. Len(f.vals) \in {0, 1} \/ (Len(f.vals) = 2 /\ f.node.kids[3] # NoNode)
    <3>1. Len(Children(f.node)) = IF f.node.kids[3] = NoNode THEN 2 ELSE 3
      BY <1>1, <1>4, ChildrenAreTrees
    <3>2. CASE f.node.kids[3] = NoNode
      <4>1. Len(f.vals) < 2
        BY <1>1, <3>1, <3>2
      <4> QED BY <1>1, <4>1, Counted, Zenon
    <3>3. CASE f.node.kids[3] # NoNode
      <4>1. Len(f.vals) < 3
        BY <1>1, <3>1, <3>3
      <4>2. Len(f.vals) \in {0, 1, 2}
        BY <1>1, <4>1, Counted, Zenon
      <4> QED BY <3>3, <4>2
    <3> QED BY <3>2, <3>3
  <2>3. Awaited(f) = f.node.kids[Len(f.vals) + 1]
    <3>1. CASE f.node.kids[3] = NoNode
      <4>1. Children(f.node) = <<f.node.kids[1], f.node.kids[2]>>
        BY <1>4, <3>1 DEF Children
      <4>2. Len(f.vals) = 0 \/ Len(f.vals) = 1
        BY <2>2, <3>1
      <4>3. /\ <<f.node.kids[1], f.node.kids[2]>>[0 + 1] = f.node.kids[0 + 1]
            /\ <<f.node.kids[1], f.node.kids[2]>>[1 + 1] = f.node.kids[1 + 1]
        OBVIOUS
      <4> QED BY <4>1, <4>2, <4>3 DEF Awaited
    <3>2. CASE f.node.kids[3] # NoNode
      BY <1>4, <3>2 DEF Children, Awaited
    <3> QED BY <3>1, <3>2
  <2>4. Len(f.vals) + 1 \in 1..Len(f.node.kids)
    <3>1. Len(f.vals) \in {0, 1, 2}
      BY <2>2
    <3> QED BY <2>1, <3>1, Counted, Zenon
  <2> QED BY <1>1, <1>4, <2>3, <2>4
<1>5. CASE f.node.t \notin {"A_CALL_FINISHED", "A_ASSIGNMENT", "A_COND"}
  <2>1. Children(f.node) = f.node.kids
    BY <1>5 DEF Children
  <2>2. Len(f.vals) + 1 \in 1..Len(f.node.kids)
    BY <1>1, <2>1
  <2> QED BY <1>1, <1>5, <2>1, <2>2 DEF Awaited
<1> QED BY <1>2, <1>3, <1>4, <1>5

\* A child that does not return: an operand, a condition, a statement before the last.
LEMMA NotReturning ==
  ASSUME TreesEndOnce, Types, Calls, Walk, frames # <<>>,
         \/ Top.node.t \in BinaryTypes \cup {"A_CALL_FINISHED", "A_DECL_ASSIGNMENT", "A_ASSIGNMENT", "A_RET", "A_WHILE"}
         \/ Top.node.t = "A_COND" /\ Len(Top.vals) = 0
         \/ Top.node.t \in {"A_DECL", "A_BLOCK"} /\ Len(Top.vals) + 1 < Len(Top.node.kids)
  PROVE  ~ Returning(Awaited(Top))
<1>1. /\ GoodFrame(Top)
      /\ Top.node.t # "A_DECL" => Top.node \in Trees
      /\ Top.node.t = "A_DECL" => Top.node = FunctionNode(unit[fn])
      /\ Len(Top.vals) \in Nat
  BY TopOfPath
<1>2. "A_DECL" \notin BinaryTypes \cup {"A_CALL_FINISHED", "A_DECL_ASSIGNMENT", "A_ASSIGNMENT", "A_RET", "A_WHILE"}
      /\ "A_ASSIGNMENT" \notin BinaryTypes /\ "A_COND" \notin BinaryTypes
      /\ "A_CALL_FINISHED" \notin BinaryTypes
  BY DEF BinaryTypes, Operation
<1> DEFINE n == Len(Top.node.kids)
           m == Len(Top.vals)
<1>a. /\ Top.node.t \notin {"A_CALL_FINISHED", "A_ASSIGNMENT"} =>
           Awaited(Top) = Top.node.kids[m + 1] /\ m + 1 \in 1..n
      /\ Top.node.t = "A_ASSIGNMENT" => Awaited(Top) = Top.node.kids[2]
      /\ Top.node.t = "A_CALL_FINISHED" => Awaited(Top) = Top.node.kids[n - m] /\ n - m \in 1..n
  BY <1>1, AwaitedIs, Zenon
<1> HIDE DEF m, n
<1>3. Top.node.t # "A_DECL" => EndsOnce(Top.node)
  BY <1>1 DEF TreesEndOnce
<1>4. CASE Top.node.t \in BinaryTypes \cup {"A_CALL_FINISHED", "A_DECL_ASSIGNMENT", "A_RET", "A_WHILE"}
  <2>0. EndsOnce(Top.node)
    BY <1>2, <1>3, <1>4, Zenon
  <2>1. \A i \in 1..n : ~ Returning(Top.node.kids[i])
    BY <1>4, <2>0, Zenon DEF EndsOnce, n
  <2>2. \E i \in 1..n : Awaited(Top) = Top.node.kids[i]
    BY <1>2, <1>4, <1>a
  <2> QED BY <2>1, <2>2, Zenon
<1>5. CASE Top.node.t = "A_ASSIGNMENT"
  BY <1>3, <1>5, <1>a DEF EndsOnce
<1>6. CASE Top.node.t = "A_COND" /\ Len(Top.vals) = 0
  <2>1. Awaited(Top) = Top.node.kids[0 + 1]
    BY <1>6, <1>a DEF m
  <2>2. Awaited(Top) = Top.node.kids[1]
    BY <2>1
  <2>3. EndsOnce(Top.node)
    BY <1>3, <1>6
  <2> QED BY <1>6, <2>2, <2>3, Zenon DEF EndsOnce
<1>7. CASE Top.node.t \in {"A_DECL", "A_BLOCK"} /\ Len(Top.vals) + 1 < Len(Top.node.kids)
  <2>1. ReturnsLast(Top.node.kids)
    <3>1. CASE Top.node.t = "A_BLOCK"
      BY <1>3, <3>1 DEF EndsOnce
    <3>2. CASE Top.node.t = "A_DECL"
      <4>1. fn \in 1..Len(unit) /\ unit \in Units
        BY DEF Walk, Types
      <4>2. EndsInReturn(unit[fn])
        BY <4>1 DEF TreesEndOnce
      <4> QED BY <1>1, <3>2, <4>2 DEF EndsInReturn, FunctionNode
    <3> QED BY <1>7, <3>1, <3>2
  <2>2. Awaited(Top) = Top.node.kids[m + 1] /\ m + 1 \in 1..n
    BY <1>7, <1>a
  <2>3. m + 1 < n /\ m \in Nat
    BY <1>1, <1>7 DEF m, n
  <2>4. m + 1 # n
    BY <2>3
  <2> QED BY <2>1, <2>2, <2>4, Zenon DEF ReturnsLast, n
<1> QED BY <1>4, <1>5, <1>6, <1>7

\* A value is no mark.
LEMMA AnswersNot ==
  (\A k : Slot(k) # Returned) /\ (\A x : Imm(x) # Returned /\ Data(x) # Returned)
  BY DEF Slot, Imm, Data, Returned

\* The leaves.
LEMMA LeavesFlow ==
  ASSUME Types, Calls, Walk, Flow, EvalVoid \/ EvalLiteral \/ EvalIdent \/ EvalDeclLocal \/ EvalUnknown
  PROVE  Walk' /\ Flow'
<1>1. CASE Stop("segv") \/ Stop("exit69")
  BY <1>1, FlowStops
<1>2. CASE ~ (Stop("segv") \/ Stop("exit69"))
  <2>1. mode = "eval" /\ mode' = "return" /\ UNCHANGED <<unit, fn, frames, out>> /\ cur.t # "A_RET"
    BY <1>2 DEF EvalVoid, EvalLiteral, EvalIdent, EvalDeclLocal, EvalUnknown, Evals, Return
  <2>2. /\ \A k : Slot(k) # Returned
        /\ \A x : Imm(x) # Returned /\ Data(x) # Returned
    BY AnswersNot
  <2>3. acc' # Returned
    <3>1. CASE EvalVoid
      BY <2>2, <3>1, Zenon DEF EvalVoid, Return
    <3>2. CASE EvalLiteral
      BY <2>2, <3>2 DEF EvalLiteral, Return
    <3>3. CASE EvalIdent
      BY <1>2, <2>2, <3>3, Zenon DEF EvalIdent, Return
    <3>4. CASE EvalDeclLocal
      BY <2>2, <3>4, Zenon DEF EvalDeclLocal, Return
    <3>5. CASE EvalUnknown
      BY <1>2, <3>5, Zenon DEF EvalUnknown
    <3> QED BY <3>1, <3>2, <3>3, <3>4, <3>5
  <2> QED BY <2>1, <2>3, FlowAnswers DEF Flow
<1> QED BY <1>1, <1>2

\* The code is a sequence, and a call that begins or goes on remembers no return.
LEMMA CodeIs == ASSUME Types PROVE out \in Seq(Instructions)
  BY DEF Types, Code

\* A conditional whose branches are not both compiled has no return behind it.
LEMMA NothingMarked ==
  ASSUME NEW f, f.node.t # "A_COND" \/ Len(f.vals) < 2
  PROVE  Marked(f)
  BY DEF Marked

\* A node with children begins.
LEMMA EntersFlow ==
  ASSUME Types, Calls, Walk, Flow,
         EvalBinary \/ EvalCall \/ EvalDeclAssignment \/ EvalAssignment \/ EvalCond
           \/ EvalReturn \/ EvalBlock
  PROVE  Walk' /\ Flow'
<1>1. mode = "eval" /\ cur \in Nodes
  BY TreesAreNodes DEF Types, EvalBinary, EvalCall, EvalDeclAssignment, EvalAssignment, EvalCond,
     EvalReturn, EvalBlock, Evals
<1>2. Frame(cur) \in Frames /\ Frame(cur).node = cur /\ Frame(cur).vals = <<>>
  BY <1>1, FrameTyped
<1>3. Blocks(out) /\ ~ Ended(out)
  BY <1>1 DEF Flow
<1>4. CASE Enter(Frame(cur)) /\ UNCHANGED <<unit, fn, out>>
  BY <1>1, <1>2, <1>3, <1>4, FlowEnters
<1>5. CASE Stop("exit69") \/ Stop("segv")
  BY <1>5, FlowStops
<1>6. CASE EvalCall /\ ~ Enter(Frame(cur)) /\ ~ Stop("exit69")
  <2>1. /\ out' = Append(out, Ins("call", temps, <<>>, <<>>)) /\ Return(Slot(temps))
        /\ UNCHANGED <<unit, fn, frames>> /\ cur.t = "A_CALL_FINISHED"
    BY <1>6 DEF EvalCall, Evals
  <2>2. ~ Ending(Ins("call", temps, <<>>, <<>>))
    BY DEF Ending, Ins
  <2>3. Blocks(out') /\ ~ Ended(out')
    BY <1>3, <2>1, <2>2, CodeIs, BlocksGrow
  <2>4. acc' # Returned /\ mode' = "return"
    BY <2>1, AnswersNot DEF Return
  <2> QED BY <1>1, <2>1, <2>3, <2>4, FlowAnswers
<1>7. CASE EvalAssignment /\ ~ Stop("segv")
  <2> DEFINE f == [Frame(cur) EXCEPT !.dst = LookUp(cur.kids[1].lexeme)]
  <2>1. Enter(f) /\ UNCHANGED <<unit, fn, out>>
    BY <1>7 DEF EvalAssignment
  <2>2. f \in Frames /\ f.node = cur /\ f.vals = <<>>
    BY <1>2, LookingUp DEF Frames
  <2> HIDE DEF f
  <2> QED BY <1>1, <1>3, <2>1, <2>2, FlowEnters
<1>8. EvalCall => (Enter(Frame(cur)) => UNCHANGED <<unit, fn, out>>)
  BY DEF EvalCall, Enter, Return, Stop
<1>9. EvalBinary \/ EvalDeclAssignment \/ EvalCond \/ EvalReturn \/ EvalBlock
        => Enter(Frame(cur)) /\ UNCHANGED <<unit, fn, out>>
  BY DEF EvalBinary, EvalDeclAssignment, EvalCond, EvalReturn, EvalBlock
<1> QED BY <1>4, <1>5, <1>6, <1>7, <1>8, <1>9, Zenon

\* A loop begins with a label.
LEMMA WhileFlow ==
  ASSUME Types, Calls, Walk, Flow, EvalWhile
  PROVE  Walk' /\ Flow'
<1>1. mode = "eval" /\ Enter(LoopCall) /\ UNCHANGED <<unit, fn>>
      /\ out' = Append(out, Define(Lab("start", ids)))
  BY DEF EvalWhile, Evals, LoopCall
<1>2. LoopCall \in Frames /\ LoopCall.node = cur /\ LoopCall.vals = <<>>
  BY NewLoop DEF GoodFrame
<1>3. Define(Lab("start", ids)).op = "label"
  BY DEF Define, Ins
<1>4. Blocks(out') /\ ~ Ended(out')
  BY <1>1, <1>3, CodeIs, BlocksGrow DEF Flow, Ending
<1> QED BY <1>1, <1>2, <1>4, FlowEnters

\* What a value leaves when it is not that of a return.
LEMMA Continues ==
  ASSUME TreesEndOnce, Types, Calls, Walk, Flow, mode = "return", frames # <<>>,
         \/ Top.node.t \in BinaryTypes \cup {"A_CALL_FINISHED", "A_DECL_ASSIGNMENT", "A_ASSIGNMENT", "A_RET", "A_WHILE"}
         \/ Top.node.t = "A_COND" /\ Len(Top.vals) = 0
         \/ Top.node.t \in {"A_DECL", "A_BLOCK"} /\ Len(Top.vals) + 1 < Len(Top.node.kids)
  PROVE  acc # Returned /\ ~ Ended(out) /\ Blocks(out)
<1>1. ~ Returning(Awaited(Top))
  BY NotReturning, Zenon
<1> QED BY <1>1 DEF Flow

\* A call goes on.
LEMMA DescendsFlow ==
  ASSUME TreesEndOnce, Types, Calls, Walk, Flow, BinaryRight \/ CallArgument \/ NextStatement \/ WhileTest
  PROVE  Walk' /\ Flow'
<1>1. mode = "return" /\ frames # <<>> /\ Delivered
  BY Delivery DEF BinaryRight, CallArgument, NextStatement, WhileTest, Delivers, DeliversSome
<1>2. acc # Returned /\ ~ Ended(out) /\ Blocks(out)
  <2>1. CASE BinaryRight
    BY <1>1, <2>1, Continues DEF BinaryRight, Delivers
  <2>2. CASE CallArgument
    BY <1>1, <2>2, Continues DEF CallArgument, DeliversSome
  <2>3. CASE NextStatement
    BY <1>1, <2>3, Continues DEF NextStatement, DeliversSome
  <2>4. CASE WhileTest
    BY <1>1, <2>4, Continues DEF WhileTest, Delivers
  <2> QED BY <2>1, <2>2, <2>3, <2>4
<1>3. /\ Kept \in Frames /\ Kept.node = Top.node /\ Len(Kept.vals) = Len(Top.vals) + 1
      /\ Len(Top.vals) \in Nat
  BY <1>1 DEF Delivered
<1>4. Descend(Kept, Len(Kept.vals) + 1) /\ Marked(Kept) /\ UNCHANGED <<unit, fn>>
  <2>1. Top.node.t # "A_COND"
    BY DEF BinaryRight, CallArgument, NextStatement, WhileTest, Delivers, DeliversSome, BinaryTypes, Operation
  <2>2. Marked(Kept)
    BY <1>3, <2>1, NothingMarked
  <2>3. CASE BinaryRight \/ WhileTest
    <3>1. Len(Top.vals) + 1 = 1 /\ Descend(Kept, 2)
      BY <2>3 DEF BinaryRight, WhileTest, Delivers
    <3>2. Len(Kept.vals) + 1 = 2
      BY <1>3, <3>1
    <3> QED BY <2>2, <2>3, <3>1, <3>2, Zenon DEF BinaryRight, WhileTest
  <2>4. CASE CallArgument \/ NextStatement
    <3>1. Len(Top.vals) + 2 = Len(Kept.vals) + 1
      BY <1>3
    <3> QED BY <2>2, <2>4, <3>1, Zenon DEF CallArgument, NextStatement
  <2> QED BY <2>3, <2>4
<1>5. Blocks(out') /\ ~ Ended(out')
  <2>1. CASE WhileTest
    <3>1. out' = out \o <<Jnz(acc, Top.labels[2], Top.labels[3]), Define(Top.labels[2])>>
      BY <2>1 DEF WhileTest, Branch
    <3>2. Define(Top.labels[2]).op = "label"
      BY DEF Define, Ins
    <3> QED BY <1>2, <3>1, <3>2, CodeIs, BlocksGrowByTwo
  <2>2. CASE UNCHANGED out
    BY <1>2, <2>2
  <2> QED BY <2>1, <2>2 DEF BinaryRight, CallArgument, NextStatement
<1> QED BY <1>1, <1>3, <1>4, <1>5, FlowGoesOn

\* The branch on a condition.
LEMMA TestFlow ==
  ASSUME TreesEndOnce, Types, Calls, Walk, Flow, CondTest
  PROVE  Walk' /\ Flow'
<1>1. mode = "return" /\ frames # <<>> /\ Delivered /\ Top.node.t = "A_COND" /\ Len(Top.vals) + 1 = 1
  BY Delivery DEF CondTest, Delivers
<1>2. Len(Top.vals) = 0 /\ Len(Kept.vals) = 1
  BY <1>1 DEF Delivered
<1>3. acc # Returned /\ ~ Ended(out) /\ Blocks(out)
  BY <1>1, <1>2, Continues
<1>4. Tested \in Frames /\ Tested.node = Top.node /\ Tested.vals = Kept.vals
  <2>1. ids \in Nat
    BY DEF Types
  <2> QED BY <1>1, <2>1, NewTest DEF GoodFrame
<1>5. Descend(Tested, 2) /\ UNCHANGED <<unit, fn>>
      /\ \E yes, no : out' = out \o <<Jnz(acc, yes, no), Define(yes)>>
  BY DEF CondTest, Tested, Branch
<1>6. Descend(Tested, Len(Tested.vals) + 1) /\ Marked(Tested)
  <2>1. Len(Tested.vals) = 1
    BY <1>2, <1>4, Zenon
  <2>2. Len(Tested.vals) + 1 = 2 /\ Len(Tested.vals) < 2
    BY <2>1
  <2> QED BY <1>5, <2>2, NothingMarked, Zenon
<1>7. Blocks(out') /\ ~ Ended(out')
  <2>1. PICK yes, no : out' = out \o <<Jnz(acc, yes, no), Define(yes)>>
    BY <1>5
  <2>2. Define(yes).op = "label"
    BY DEF Define, Ins
  <2> QED BY <1>3, <2>1, <2>2, CodeIs, BlocksGrowByTwo
<1> QED BY <1>1, <1>4, <1>5, <1>6, <1>7, FlowGoesOn

\* The end of a branch: its value, unless it returned, and a label.
LEMMA ThenFlow ==
  ASSUME TreesEndOnce, Types, Calls, Walk, Flow, CondThen
  PROVE  Walk' /\ Flow'
<1> DEFINE free == Release(temps, acc)
           p == out \o BranchValue(free, acc)
<1>1. /\ mode = "return" /\ frames # <<>> /\ Delivered /\ Top.node.t = "A_COND"
      /\ Len(Top.vals) + 1 = 2 /\ UNCHANGED <<unit, fn>>
  BY Delivery DEF CondThen, Delivers
<1>2. Len(Top.vals) = 1 /\ Len(Kept.vals) = 2 /\ Kept.node = Top.node /\ Kept \in Frames
      /\ Kept.vals[2] = acc
  <2>1. \A n \in Nat : n + 1 = 2 => n = 1
    OBVIOUS
  <2>2. Len(Top.vals) = 1 /\ Len(Kept.vals) = Len(Top.vals) + 1 /\ Kept.node = Top.node /\ Kept \in Frames
        /\ Kept.vals[Len(Top.vals) + 1] = acc
    BY <1>1, <2>1 DEF Delivered
  <2> QED BY <2>2
<1>3. Blocks(out) /\ (Ended(out) <=> acc = Returned) /\ (acc = Returned => Returning(Awaited(Top)))
  BY <1>1 DEF Flow
<1> DEFINE S == Instructions \cup {Copy(free, acc)}
<1> HIDE DEF free
<1>4. Blocks(out) /\ (Ended(out) <=> acc = Returned) /\ out \in Seq(Instructions)
  BY <1>3, CodeIs
<1>5. /\ Blocks(out \o BranchValue(free, acc))
      /\ Ended(out \o BranchValue(free, acc)) <=> acc = Returned
      /\ out \o BranchValue(free, acc) \in Seq(S)
  BY <1>4, BlocksGrowByValue
<1>6. Blocks(p) /\ (Ended(p) <=> acc = Returned) /\ p \in Seq(S)
  BY <1>5, Zenon
<1> HIDE DEF p, S
<1>7. \A l : Define(l).op = "label"
  BY DEF Define, Ins
<1>8. \A l : Blocks(p \o <<Define(l)>>) /\ ~ Ended(p \o <<Define(l)>>)
  <2> TAKE l
  <2>1. Blocks(Append(p, Define(l))) /\ (Ended(Append(p, Define(l))) <=> Ending(Define(l)))
        /\ Append(p, Define(l)) = p \o <<Define(l)>>
    BY <1>6, <1>7, BlocksGrow
  <2>2. ~ Ending(Define(l))
    BY <1>7 DEF Ending
  <2> QED BY <2>1, <2>2
<1>9. CASE HasElse
  <2>1. /\ out' = p \o (IF acc = Returned THEN <<>> ELSE <<Jmp(Top.labels[3])>>) \o <<Define(Top.labels[2])>>
        /\ Descend(Kept, 3)
    BY <1>9 DEF CondThen, p, free
  <2>2. Blocks(out') /\ ~ Ended(out')
    <3>1. CASE acc = Returned
      <4>1. out' = (p \o <<>>) \o <<Define(Top.labels[2])>>
        BY <2>1, <3>1
      <4>2. p \o <<>> = p
        BY <1>6
      <4> QED BY <1>8, <4>1, <4>2
    <3>2. CASE acc # Returned
      <4> DEFINE i == Jmp(Top.labels[3])
                 j == Define(Top.labels[2])
      <4>1. out' = (p \o <<i>>) \o <<j>>
        BY <2>1, <3>2
      <4>2. j.op = "label"
        BY <1>7
      <4> HIDE DEF i, j
      <4>3. Blocks((p \o <<i>>) \o <<j>>) /\ ~ Ended((p \o <<i>>) \o <<j>>)
        BY <1>6, <3>2, <4>2, BlocksGrowTwice
      <4> QED BY <4>1, <4>3
    <3> QED BY <3>1, <3>2
  <2>3. Marked(Kept)
    <3>1. Awaited(Top) = Top.node.kids[Len(Top.vals) + 1] /\ Len(Top.vals) + 1 = 2
      <4>1. GoodFrame(Top)
        BY <1>1 DEF Delivered
      <4> QED BY <1>1, <4>1, AwaitedIs, Zenon
    <3>2. Awaited(Top) = Top.node.kids[2]
      BY <3>1, Zenon
    <3> QED BY <1>2, <1>3, <3>2 DEF Marked
  <2>4. Descend(Kept, Len(Kept.vals) + 1)
    BY <1>2, <2>1
  <2> QED BY <1>1, <1>2, <2>2, <2>3, <2>4, FlowGoesOn
<1>10. CASE ~ HasElse
  <2>1. /\ out' = p \o <<Define(Top.labels[3])>> /\ Return(Slot(free)) /\ frames' = Below
    BY <1>10 DEF CondThen, p, free
  <2>2. Blocks(out') /\ ~ Ended(out') /\ acc' # Returned /\ mode' = "return"
    BY <1>8, <2>1, AnswersNot DEF Return
  <2> QED BY <1>1, <2>1, <2>2, FlowReturns
<1> QED BY <1>9, <1>10

\* The second branch of a conditional: the blocks join, or the one that goes on does.
LEMMA ElseFlow ==
  ASSUME TreesEndOnce, Types, Calls, Walk, Flow, CondElse
  PROVE  Walk' /\ Flow'
<1> DEFINE free == Release(temps, acc)
           p == out \o BranchValue(free, acc)
           S == Instructions \cup {Copy(free, acc)}
<1>1. /\ mode = "return" /\ frames # <<>> /\ Delivered /\ Top.node.t = "A_COND"
      /\ Len(Top.vals) + 1 = 3 /\ UNCHANGED <<unit, fn>>
      /\ Return(Slot(free)) /\ frames' = Below
      /\ out' = p \o (IF ThenReturned THEN <<>> ELSE <<Define(Top.labels[3])>>)
  BY Delivery DEF CondElse, Delivers
<1> HIDE DEF free
<1>2. Blocks(out) /\ (Ended(out) <=> acc = Returned) /\ (acc = Returned => Returning(Awaited(Top)))
      /\ out \in Seq(Instructions)
  BY <1>1, CodeIs DEF Flow
<1>3. /\ Blocks(out \o BranchValue(free, acc))
      /\ Ended(out \o BranchValue(free, acc)) <=> acc = Returned
      /\ out \o BranchValue(free, acc) \in Seq(S)
  BY <1>2, BlocksGrowByValue
<1>4. Blocks(p) /\ (Ended(p) <=> acc = Returned) /\ p \in Seq(S)
  BY <1>3, Zenon
<1>5. ThenReturned => acc # Returned
  <2> SUFFICES ASSUME ThenReturned PROVE acc # Returned
    OBVIOUS
  <2>1. Len(Top.vals) = 2 /\ Top \in Frames /\ GoodFrame(Top)
    <3>1. \A n \in Nat : n + 1 = 3 => n = 2
      OBVIOUS
    <3> QED BY <1>1, <3>1 DEF Delivered
  <2>2. Marked(Top)
    BY <1>1 DEF Flow, Delivered
  <2>3. Returning(Top.node.kids[2])
    BY <1>1, <2>1, <2>2 DEF Marked, ThenReturned
  <2>4. Top.node \in Trees
    BY <1>1, TopOfPath
  <2>5. ~ Returning(Top.node.kids[3])
    BY <1>1, <2>3, <2>4 DEF TreesEndOnce, EndsOnce
  <2>6. Awaited(Top) = Top.node.kids[3]
    <3>1. Awaited(Top) = Top.node.kids[Len(Top.vals) + 1]
      BY <1>1, <2>1, AwaitedIs, Zenon
    <3> QED BY <1>1, <3>1, Zenon
  <2> QED BY <1>2, <2>5, <2>6
<1>6. Blocks(out') /\ ~ Ended(out')
  <2> HIDE DEF p, S
  <2>1. CASE ThenReturned
    <3>1. out' = p
      BY <1>1, <1>4, <2>1
    <3> QED BY <1>4, <1>5, <2>1, <3>1
  <2>2. CASE ~ ThenReturned
    <3> DEFINE i == Define(Top.labels[3])
    <3>1. out' = p \o <<i>>
      BY <1>1, <2>2
    <3>2. i.op = "label"
      BY DEF Define, Ins
    <3> HIDE DEF i
    <3>3. Blocks(Append(p, i)) /\ (Ended(Append(p, i)) <=> Ending(i)) /\ Append(p, i) = p \o <<i>>
      BY <1>4, <3>2, BlocksGrow
    <3> QED BY <3>1, <3>2, <3>3 DEF Ending
  <2> QED BY <2>1, <2>2
<1>7. acc' # Returned /\ mode' = "return"
  BY <1>1, AnswersNot DEF Return
<1> QED BY <1>1, <1>6, <1>7, FlowReturns

\* A call returns: the last statement of a block with what it left, a return with
\* the mark, the others with a value.
LEMMA ReturnsFlow ==
  ASSUME TreesEndOnce, Types, Calls, Walk, Flow,
         BinaryLeft \/ CallLast \/ DeclAssignment \/ Assignment \/ WhileBody \/ ReturnValue \/ BlockLast
  PROVE  Walk' /\ Flow'
<1>1. mode = "return" /\ frames # <<>> /\ Delivered /\ Top.node.t # "A_DECL"
  BY Delivery DEF BinaryLeft, CallLast, DeclAssignment, Assignment, WhileBody, ReturnValue, BlockLast,
     Delivers, DeliversLast, BinaryTypes, Operation
<1>2. CASE BlockLast
  <2>1. /\ Top.node.t = "A_BLOCK" /\ Len(Top.vals) + 1 = Len(Top.node.kids) /\ UNCHANGED <<unit, fn, out>>
        /\ frames' = Below /\ acc' = acc /\ mode' = "return"
    BY <1>2 DEF BlockLast, DeliversLast, Return
  <2>2. acc = Returned => Returning(Top.node)
    <3> SUFFICES ASSUME acc = Returned PROVE Returning(Top.node)
      OBVIOUS
    <3>1. GoodFrame(Top) /\ Top.node \in Trees
      BY <1>1, TopOfPath
    <3>2. Awaited(Top) = Top.node.kids[Len(Top.vals) + 1] /\ Len(Top.vals) + 1 \in 1..Len(Top.node.kids)
      <4>1. Top.node.t \notin {"A_CALL_FINISHED", "A_ASSIGNMENT"}
        BY <2>1
      <4> QED BY <3>1, <4>1, AwaitedIs, Zenon
    <3>3. Awaited(Top) = Last(Top.node.kids)
      BY <2>1, <3>2, Zenon DEF Last
    <3>4. ReturnsLast(Top.node.kids)
      BY <2>1, <3>1 DEF TreesEndOnce, EndsOnce
    <3>5. Returning(Awaited(Top))
      BY <1>1 DEF Flow
    <3>6. Awaited(Top).t = "A_RET"
      BY <3>2, <3>4, <3>5, Zenon DEF ReturnsLast
    <3> QED BY <2>1, <3>3, <3>6 DEF Returning
  <2>3. Blocks(out) /\ (Ended(out) <=> acc = Returned)
    BY <1>1 DEF Flow
  <2> QED BY <1>1, <2>1, <2>2, <2>3, FlowReturns
<1>3. (acc # Returned /\ ~ Ended(out) /\ Blocks(out) /\ out \in Seq(Instructions)) \/ BlockLast
  <2>1. Top.node.t \in BinaryTypes \cup {"A_CALL_FINISHED", "A_DECL_ASSIGNMENT", "A_ASSIGNMENT", "A_RET", "A_WHILE"}
        \/ BlockLast
    BY DEF BinaryLeft, CallLast, DeclAssignment, Assignment, WhileBody, ReturnValue, Delivers, DeliversLast
  <2> QED BY <1>1, <2>1, Continues, CodeIs, Zenon
<1>4. CASE ReturnValue
  <2>1. /\ out' = Append(out, Ins("ret", -1, <<acc>>, <<>>)) /\ Return(Returned) /\ frames' = Below
        /\ UNCHANGED <<unit, fn>> /\ Top.node.t = "A_RET"
    BY <1>4 DEF ReturnValue, Delivers
  <2>2. Ending(Ins("ret", -1, <<acc>>, <<>>))
    BY DEF Ending, Ins
  <2>3. ~ BlockLast
    BY <2>1 DEF BlockLast, DeliversLast
  <2>4. Blocks(out') /\ Ended(out')
    BY <1>3, <2>1, <2>2, <2>3, BlocksGrow
  <2>5. acc' = Returned /\ mode' = "return" /\ Returning(Top.node)
    BY <2>1 DEF Return, Returning
  <2> QED BY <1>1, <2>1, <2>4, <2>5, FlowReturns
<1>5. CASE WhileBody
  <2>1. /\ out' = out \o <<Jmp(Top.labels[1]), Define(Top.labels[3])>> /\ acc' = acc /\ mode' = "return"
        /\ frames' = Below /\ UNCHANGED <<unit, fn>> /\ Top.node.t = "A_WHILE"
    BY <1>5 DEF WhileBody, Delivers, Return
  <2>2. Define(Top.labels[3]).op = "label"
    BY DEF Define, Ins
  <2>3. ~ BlockLast
    BY <2>1 DEF BlockLast, DeliversLast
  <2>4. Blocks(out') /\ ~ Ended(out')
    BY <1>3, <2>1, <2>2, <2>3, BlocksGrowByTwo
  <2> QED BY <1>1, <1>3, <2>1, <2>3, <2>4, FlowReturns
<1>6. CASE Stop("segv")
  BY <1>6, FlowStops
<1>7. CASE (BinaryLeft \/ CallLast \/ DeclAssignment \/ Assignment) /\ ~ Stop("segv")
  <2>1. Top.node.t \in BinaryTypes \cup {"A_CALL_FINISHED", "A_DECL_ASSIGNMENT", "A_ASSIGNMENT"}
    BY <1>7 DEF BinaryLeft, CallLast, DeclAssignment, Assignment, Delivers, DeliversLast
  <2>2. Top.node.t # "A_RET" /\ ~ BlockLast
    BY <2>1 DEF BlockLast, DeliversLast, BinaryTypes, Operation
  <2>3. \E i, n : out' = Append(out, i) /\ ~ Ending(i) /\ Return(Slot(n)) /\ frames' = Below
                 /\ UNCHANGED <<unit, fn>>
    <3>1. /\ \A n, v : ~ Ending(Copy(n, v))
          /\ \A n, args : ~ Ending(Ins("call", n, args, <<>>))
          /\ \A t \in BinaryTypes : \A n, args : ~ Ending(Ins(Operation[t], n, args, <<>>))
      <4>1. \A t \in BinaryTypes : Operation[t] \notin {"jmp", "jnz", "ret"}
        BY DEF BinaryTypes, Operation
      <4> QED BY <4>1 DEF Ending, Copy, Ins
    <3>2. CASE BinaryLeft
      BY <3>1, <3>2 DEF BinaryLeft, Delivers
    <3>3. CASE CallLast
      BY <3>1, <3>3 DEF CallLast
    <3>4. CASE DeclAssignment
      BY <3>1, <3>4 DEF DeclAssignment
    <3>5. CASE Assignment
      BY <1>7, <3>1, <3>5 DEF Assignment
    <3> QED BY <1>7, <3>2, <3>3, <3>4, <3>5
  <2>4. Blocks(out') /\ ~ Ended(out')
    BY <1>3, <2>2, <2>3, BlocksGrow
  <2>5. acc' # Returned /\ mode' = "return"
    BY <2>3, AnswersNot DEF Return
  <2> QED BY <1>1, <2>2, <2>3, <2>4, <2>5, FlowReturns
<1> QED BY <1>2, <1>4, <1>5, <1>6, <1>7

\* comp_sym begins a function, which has a body, with a label, and ends it after
\* a return.
LEMMA FunctionsFlow ==
  ASSUME TreesEndOnce, Types, Calls, Walk, Flow, BeginFunction \/ EndFunction \/ EndUnit
  PROVE  Walk' /\ Flow'
<1>1. CASE BeginFunction
  <2> DEFINE f == Frame(FunctionNode(unit[fn + 1]))
             i == Define(Lab("start", -1))
  <2>1. /\ fn \in 0..Len(unit) /\ fn < Len(unit) /\ frames = <<>> /\ unit \in Units
        /\ unit \in Seq([name : Names, params : Seq(Names), body : Seq(Trees)])
        /\ unit' = unit /\ fn' = fn + 1 /\ out' = <<i>>
    BY <1>1, UnitsAssumption DEF BeginFunction, Types, Calls
  <2>2. fn + 1 \in 1..Len(unit)
    BY <2>1
  <2>3. unit[fn + 1].body # <<>>
    BY <2>1, <2>2 DEF TreesEndOnce, EndsInReturn
  <2>4. Enter(f)
    BY <1>1, <2>3 DEF BeginFunction
  <2>5. f.node = FunctionNode(unit[fn + 1]) /\ f.vals = <<>> /\ f.node.t = "A_DECL"
    BY DEF Frame, FunctionNode
  <2>6. i.op = "label" /\ ~ Ending(i)
    BY DEF Define, Ins, Ending
  <2> HIDE DEF f, i
  <2>7. frames' = <<f>> /\ mode' = "eval" /\ cur' = Children(f.node)[1]
    <3>1. frames' = Append(<<>>, f)
      BY <2>1, <2>4 DEF Enter
    <3> QED BY <2>4, <3>1 DEF Enter
  <2>8. Len(frames') = 1 /\ frames'[1] = f /\ Top' = f /\ frames' # <<>> /\ Len(f.vals) + 1 = 1
    BY <2>5, <2>7 DEF Top, Last
  <2>9. Walk'
    <3>1. cur' = Awaited(Top)'
      BY <2>7, <2>8 DEF Awaited
    <3>2. \A k \in 1..Len(frames')-1 : FALSE
      BY <2>8
    <3>3. fn' \in 1..Len(unit') /\ frames'[1].node = FunctionNode(unit'[fn'])
      BY <2>1, <2>2, <2>5, <2>8
    <3> QED BY <2>7, <2>8, <3>1, <3>2, <3>3 DEF Walk
  <2>10. Blocks(out') /\ ~ Ended(out')
    <3>1. Len(<<i>>) = 1 /\ <<i>>[1] = i
      OBVIOUS
    <3> QED BY <2>1, <2>6, <3>1 DEF Blocks, Ended
  <2>11. \A k \in 1..Len(frames') : Marked(frames'[k])
    BY <2>5, <2>8, NothingMarked
  <2> QED BY <2>7, <2>9, <2>10, <2>11 DEF Flow
<1>2. CASE EndFunction
  <2>1. /\ mode = "return" /\ frames # <<>> /\ Top.node.t = "A_DECL"
        /\ Len(Top.vals) + 1 = Len(Top.node.kids)
        /\ mode' = "function" /\ frames' = Below /\ UNCHANGED <<unit, fn, out>>
    BY <1>2 DEF EndFunction, DeliversLast
  <2>2. /\ Len(frames) = 1 /\ GoodFrame(Top) /\ Top.node = FunctionNode(unit[fn]) /\ fn \in 1..Len(unit)
    BY <2>1, TopOfPath DEF Walk
  <2>3. Len(frames') = 0
    <3>1. Stack(frames)
      BY DEF Calls
    <3>2. Len(Front(frames)) = Len(frames) - 1
      BY <2>1, <3>1, Leaving, Zenon
    <3> QED BY <2>1, <2>2, <3>2 DEF Below
  <2>4. frames' = <<>>
    <3>1. frames' \in Seq(Frames)
      <4>1. frames \in Seq(Frames)
        BY DEF Calls, Stack
      <4> QED BY <2>1, <4>1, FrontIs DEF Below
    <3> QED BY <2>3, <3>1
  <2>5. Awaited(Top) = Last(Top.node.kids)
    <3>1. Awaited(Top) = Top.node.kids[Len(Top.vals) + 1]
      <4>1. Top.node.t \notin {"A_CALL_FINISHED", "A_ASSIGNMENT"}
        BY <2>1
      <4> QED BY <2>2, <4>1, AwaitedIs, Zenon
    <3> QED BY <2>1, <3>1, Zenon DEF Last
  <2>6. Last(Top.node.kids).t = "A_RET"
    <3>1. unit \in Units
      BY DEF Types
    <3>2. EndsInReturn(unit[fn])
      BY <2>2, <3>1 DEF TreesEndOnce
    <3> QED BY <2>2, <3>2 DEF EndsInReturn, FunctionNode
  <2>7. Ended(out) /\ Blocks(out)
    BY <2>1, <2>5, <2>6 DEF Flow
  <2>8. Walk'
    <3>1. \A k \in 1..Len(frames')-1 : FALSE
      BY <2>3
    <3> QED BY <2>1, <2>4, <3>1 DEF Walk
  <2>9. \A k \in 1..Len(frames') : FALSE
    BY <2>3
  <2> QED BY <2>1, <2>7, <2>8, <2>9 DEF Flow
<1>3. CASE EndUnit
  BY <1>3, FlowStops DEF EndUnit
<1> QED BY <1>1, <1>2, <1>3

\* Every step keeps the walk and the blocks.
LEMMA Flowing ==
  ASSUME TreesEndOnce, Types, Calls, Walk, Flow, [Next]_vars
  PROVE  Walk' /\ Flow'
<1>1. CASE UNCHANGED vars
  <2>1. UNCHANGED <<unit, fn, mode, cur, acc, frames, out>>
    BY <1>1 DEF vars
  <2> QED BY <2>1 DEF Walk, Flow, Top, Awaited
<1>2. CASE EvalVoid \/ EvalLiteral \/ EvalIdent \/ EvalDeclLocal \/ EvalUnknown
  BY <1>2, LeavesFlow
<1>3. CASE EvalBinary \/ EvalCall \/ EvalDeclAssignment \/ EvalAssignment \/ EvalCond
           \/ EvalReturn \/ EvalBlock
  BY <1>3, EntersFlow
<1>4. CASE EvalWhile
  BY <1>4, WhileFlow
<1>5. CASE BinaryRight \/ CallArgument \/ NextStatement \/ WhileTest
  BY <1>5, DescendsFlow
<1>6. CASE CondTest \/ CondThen \/ CondElse
  BY <1>6, TestFlow, ThenFlow, ElseFlow
<1>7. CASE BinaryLeft \/ CallLast \/ DeclAssignment \/ Assignment \/ WhileBody \/ ReturnValue \/ BlockLast
  BY <1>7, ReturnsFlow
<1>8. CASE BeginFunction \/ EndFunction \/ EndUnit
  BY <1>8, FunctionsFlow
<1> QED BY <1>1, <1>2, <1>3, <1>4, <1>5, <1>6, <1>7, <1>8 DEF Next

\* Codegen.BlocksWellFormed, in every reachable state: the text of a function is a
\* list of QBE blocks, each of which ends in a jump or a return and is followed
\* by a label, and the last ends in a return, whenever no operand, condition or
\* loop returns, a conditional in one branch at most, and every function at its end.
THEOREM CodegenBlocks == TreesEndOnce /\ Spec => []BlocksWellFormed
<1>1. Init => Types /\ Calls /\ Walk /\ Flow
  <2> SUFFICES ASSUME Init PROVE Types /\ Calls /\ Walk /\ Flow
    OBVIOUS
  <2>1. Types /\ Calls
    BY TypesAtFirst
  <2>2. mode = "function" /\ frames = <<>> /\ fn = 0 /\ out = <<>> /\ Len(frames) = 0 /\ Len(out) = 0
    BY DEF Init
  <2>3. Walk
    BY <2>2 DEF Walk
  <2>4. Flow
    BY <2>2 DEF Flow, Blocks
  <2> QED BY <2>1, <2>3, <2>4
<1>2. TreesEndOnce /\ Types /\ Calls /\ Walk /\ Flow /\ [Next]_vars
        => Types' /\ Calls' /\ Walk' /\ Flow'
  BY Typing, Flowing
<1>3. Types /\ Flow => BlocksWellFormed
  <2> SUFFICES ASSUME Types, Flow, FunctionCompiled
               PROVE  /\ Leaves(Len(out))
                      /\ \A i \in 1..Len(out)-1 : Leaves(i) => out[i+1].op = "label"
    BY DEF BlocksWellFormed
  <2>1. Ended(out) /\ Blocks(out)
    BY DEF Flow, FunctionCompiled
  <2> QED BY <2>1 DEF Ended, Blocks, Ending, Leaves
<1>4. TreesEndOnce => TreesEndOnce'
  BY DEF TreesEndOnce
<1> QED BY <1>1, <1>2, <1>3, <1>4, PTL DEF Spec

-----------------------------------------------------------------------------
(***************************************************************************)
(* Slots: in tidy trees the counter stands where the operators, calls and  *)
(* assignments under way say, above every variable and every value that    *)
(* waits to be read.                                                       *)
(***************************************************************************)
TreesTidy ==
  /\ \A node \in Trees : TidyNode(node)
  /\ \A u \in Units : \A i \in 1..Len(u) : TidyFunction(u[i])

\* Calls that give back all the slots of their children but that of their result;
\* those of an expression are inside nothing else but each other.
Rigid(f) == f.node.t \in BinaryTypes \cup {"A_CALL_FINISHED"}
Exact(f) == Rigid(f) \/ f.node.t \in {"A_ASSIGNMENT", "A_DECL_ASSIGNMENT"}

\* The slots such a call has in use besides those of the child it waits for.
Held(f) ==
  IF \/ f.node.t = "A_ASSIGNMENT"
     \/ f.node.t \in BinaryTypes /\ Len(f.vals) = 1 /\ ~ IsImm(f.vals[1])
  THEN 1 ELSE 0

Under(locs, n)    == \A x \in DOMAIN locs : locs[x] < n
ValuesUnder(f, n) == \A i \in 1..Len(f.vals) : IsImm(f.vals[i]) \/ f.vals[i].n < n

\* What a call that began when the counter stood at n waits to read is out of the
\* way of its child: an operand is below the slots of the other one, arguments
\* are below those of the next unless all to come are leaves, and an assignment
\* has the slot of its variable.
Waits(f, n, locs) ==
  /\ f.node.t \in BinaryTypes => ValuesUnder(f, n + Held(f))
  /\ f.node.t = "A_CALL_FINISHED" =>
       \/ ValuesUnder(f, n)
       \/ \A j \in Len(f.vals)+1..Len(f.node.kids) : Children(f.node)[j].t \in Leaf
  /\ f.node.t = "A_ASSIGNMENT" =>
       LET x == f.node.kids[1].lexeme
       IN  f.dst = IF x \in DOMAIN locs THEN locs[x] ELSE -1

\* Where the counter stood when each call began: each starts where the call below
\* it left off, and `level' is where the child of the top call starts or started.
Chain(lv, fs, locs, level) ==
  /\ lv \in Seq(Nat) /\ Len(lv) = Len(fs)
  /\ \A k \in 1..Len(fs) : Exact(fs[k]) =>
       /\ Waits(fs[k], lv[k], locs) /\ Under(locs, lv[k])
       /\ lv[k] + Held(fs[k]) = IF k = Len(fs) THEN level ELSE lv[k+1]
  /\ \A j, k \in 1..Len(fs) : j < k /\ Exact(fs[j]) => Rigid(fs[k]) /\ lv[j] + Held(fs[j]) <= lv[k]

\* The counter without the slot of a value.
Freed(n, v) == IF IsImm(v) THEN n ELSE n - 1
Level == IF mode = "return" THEN Freed(temps, acc) ELSE temps

\* The counter is above the variables, and still is when a void mark has taken a
\* slot from it; what a value is follows from the tree it is the value of.
Counter ==
  /\ mode = "eval" => /\ cur.t # "EXPR_TO_VOID" => Under(locals, temps)
                      /\ cur.t = "EXPR_TO_VOID" => temps > 0 /\ Under(locals, temps - 1)
  /\ mode = "return" =>
       LET t == Awaited(Top).t
       IN  /\ t \in Valued => Level >= 0 /\ Under(locals, Level)
           /\ t \in InSlot => ~ IsImm(acc)
           /\ t \in Expression /\ ~ IsImm(acc) => acc.n <= Level /\ (t \in Leaf => acc.n < Level)
           /\ t \in Statement => Under(locals, temps)

Distinct == \A x, y \in DOMAIN locals : locals[x] = locals[y] => x = y

Slots ==
  /\ mode \in {"eval", "return"} => Counter /\ \E lv : Chain(lv, frames, locals, Level)
  /\ Distinct

\* A binary operator and the others.
LEMMA Kinds ==
  /\ BinaryTypes = {"A_INT_PLUS", "A_INT_MUL", "A_INT_DIV", "A_INT_MINUS", "A_INT_EQ", "A_INT_NEQ"}
  /\ Leaf \subseteq Expression /\ Expression \subseteq Valued /\ InSlot \subseteq Valued /\ Valued \subseteq Statement
  BY DEF BinaryTypes, Operation, Leaf, Expression, Valued, InSlot, Statement

\* The counter while there is room.
LEMMA UpDown ==
  /\ \A n \in Nat : n < Word - 1 => Up(n) = n + 1
  /\ \A n \in SlotNumber : n > 0 => Down(n) = n - 1
<1>1. \A n \in Nat : n < Word - 1 => Up(n) = n + 1
  BY WordAssumption DEF Up
<1>2. \A n \in SlotNumber : n > 0 => Down(n) = n - 1
  BY WordAssumption DEF Down, SlotNumber
<1> QED BY <1>1, <1>2

\* One slot or none.
LEMMA HeldIs == \A f : Held(f) \in {0, 1}
  BY DEF Held

\* A call more, where the one below it left off.
LEMMA ChainGrows ==
  ASSUME NEW fs \in Seq(Frames), NEW f \in Frames, NEW lv, NEW locs, NEW level, NEW n \in Nat,
         Chain(lv, fs, locs, level),
         \A k \in 1..Len(fs) : Exact(fs[k]) => Rigid(f) /\ level = n,
         Exact(f) => Waits(f, n, locs) /\ Under(locs, n)
  PROVE  Chain(Append(lv, n), Append(fs, f), locs, n + Held(f))
<1> DEFINE m  == Len(fs)
           gs == Append(fs, f)
           mv == Append(lv, n)
<1>1. lv \in Seq(Nat) /\ Len(lv) = m /\ m \in Nat
  BY DEF Chain
<1>2. /\ Len(gs) = m + 1 /\ gs[m + 1] = f /\ \A k \in 1..m : gs[k] = fs[k]
  BY Appended
<1>3. /\ mv \in Seq(Nat) /\ Len(mv) = m + 1 /\ mv[m + 1] = n /\ \A k \in 1..m : mv[k] = lv[k]
  BY <1>1, Appended
<1>4. \A k \in 1..m+1 : k \in 1..m \/ k = m + 1
  BY <1>1
<1>5. \A k \in 1..m : lv[k] \in Nat /\ k # m + 1
  BY <1>1, ElementOfSeq
<1>6. \A g : Held(g) \in Nat
  BY HeldIs
<1> HIDE DEF gs, mv
<1>7. ASSUME NEW k \in 1..m, Exact(fs[k])
      PROVE  lv[k] + Held(fs[k]) = mv[k+1] /\ lv[k] + Held(fs[k]) <= n
  <2>0. m \in 1..m
    BY <1>1
  <2>1. Rigid(f) /\ level = n
    BY <1>7
  <2>2. CASE k = m
    <3>1. lv[k] + Held(fs[k]) = level
      BY <1>7, <2>2 DEF Chain
    <3> QED BY <1>3, <1>5, <1>6, <2>1, <2>2, <3>1
  <2>3. CASE k # m
    <3>1. k + 1 \in 1..m /\ k < m
      BY <1>1, <2>3
    <3>2. lv[k] + Held(fs[k]) = lv[k+1]
      BY <1>7, <2>3 DEF Chain
    <3>3. Rigid(fs[m]) /\ lv[k] + Held(fs[k]) <= lv[m]
      BY <1>7, <2>0, <3>1 DEF Chain
    <3>4. lv[m] + Held(fs[m]) = level
      BY <2>0, <3>3 DEF Chain, Exact
    <3>5. lv[m] + Held(fs[m]) >= lv[m]
      BY <1>5, <1>6, <2>0
    <3>6. mv[k+1] = lv[k+1]
      BY <1>3, <3>1
    <3> QED BY <1>5, <1>6, <2>0, <2>1, <3>2, <3>3, <3>4, <3>5, <3>6
  <2> QED BY <2>2, <2>3
<1>8. ASSUME NEW k \in 1..m+1, Exact(gs[k])
      PROVE  /\ Waits(gs[k], mv[k], locs) /\ Under(locs, mv[k])
             /\ mv[k] + Held(gs[k]) = IF k = m + 1 THEN n + Held(f) ELSE mv[k+1]
  <2>1. CASE k = m + 1
    BY <1>2, <1>3, <1>8, <2>1
  <2>2. CASE k \in 1..m
    <3>1. gs[k] = fs[k] /\ mv[k] = lv[k] /\ k # m + 1
      BY <1>2, <1>3, <1>5, <2>2
    <3>2. Waits(fs[k], lv[k], locs) /\ Under(locs, lv[k])
      BY <1>8, <2>2, <3>1 DEF Chain
    <3>3. lv[k] + Held(fs[k]) = mv[k+1]
      BY <1>7, <1>8, <2>2, <3>1
    <3> QED BY <3>1, <3>2, <3>3
  <2> QED BY <1>4, <2>1, <2>2
<1>9. ASSUME NEW j \in 1..m+1, NEW k \in 1..m+1, j < k, Exact(gs[j])
      PROVE  Rigid(gs[k]) /\ mv[j] + Held(gs[j]) <= mv[k]
  <2>0. j \in 1..m
    <3>1. j < k
      BY <1>9
    <3> QED BY <1>1, <3>1
  <2>1. j \in 1..m /\ gs[j] = fs[j] /\ mv[j] = lv[j]
    BY <1>2, <1>3, <2>0
  <2>2. CASE k = m + 1
    BY <1>2, <1>3, <1>7, <1>9, <2>1, <2>2
  <2>3. CASE k \in 1..m
    BY <1>2, <1>3, <1>9, <2>1, <2>3 DEF Chain
  <2> QED BY <1>4, <2>2, <2>3
<1>10. Chain(mv, gs, locs, n + Held(f))
  BY <1>2, <1>3, <1>8, <1>9 DEF Chain
<1> QED BY <1>10 DEF gs, mv

\* A call less.
LEMMA ChainShrinks ==
  ASSUME NEW fs \in Seq(Frames), fs # <<>>, NEW lv, NEW locs, NEW level, Chain(lv, fs, locs, level)
  PROVE  /\ Chain(Front(lv), Front(fs), locs, lv[Len(fs)]) /\ lv[Len(fs)] \in Nat
         /\ \A k \in 1..Len(fs)-1 : Exact(fs[k]) => Rigid(Last(fs))
         /\ Exact(Last(fs)) => /\ Waits(Last(fs), lv[Len(fs)], locs) /\ Under(locs, lv[Len(fs)])
                               /\ lv[Len(fs)] + Held(Last(fs)) = level
<1> DEFINE m  == Len(fs)
           gs == Front(fs)
           mv == Front(lv)
<1>1. lv \in Seq(Nat) /\ Len(lv) = m /\ m \in Nat \ {0} /\ Last(fs) = fs[m] /\ lv # <<>>
  BY FrontIs DEF Chain
<1>2. Len(gs) = m - 1 /\ \A k \in 1..m-1 : gs[k] = fs[k]
  BY FrontIs
<1>3. mv \in Seq(Nat) /\ Len(mv) = m - 1 /\ \A k \in 1..m-1 : mv[k] = lv[k]
  BY <1>1, FrontIs
<1>4. \A k \in 1..m-1 : k \in 1..m /\ k < m /\ k # m /\ (k = m - 1 => k + 1 = m) /\ (k # m - 1 => k + 1 \in 1..m-1)
  BY <1>1
<1>5. m \in 1..m
  BY <1>1
<1> HIDE DEF gs, mv
<1>6. lv[m] \in Nat
  BY <1>1, <1>5, ElementOfSeq
<1>7. ASSUME NEW k \in 1..m-1, Exact(gs[k])
      PROVE  /\ Waits(gs[k], mv[k], locs) /\ Under(locs, mv[k])
             /\ mv[k] + Held(gs[k]) = IF k = m - 1 THEN lv[m] ELSE mv[k+1]
  <2>1. gs[k] = fs[k] /\ mv[k] = lv[k] /\ k \in 1..m /\ k # m
    BY <1>2, <1>3, <1>4
  <2>2. /\ Waits(fs[k], lv[k], locs) /\ Under(locs, lv[k]) /\ lv[k] + Held(fs[k]) = lv[k+1]
    BY <1>7, <2>1 DEF Chain
  <2>3. lv[k+1] = IF k = m - 1 THEN lv[m] ELSE mv[k+1]
    BY <1>3, <1>4
  <2> QED BY <2>1, <2>2, <2>3
<1>8. ASSUME NEW j \in 1..m-1, NEW k \in 1..m-1, j < k, Exact(gs[j])
      PROVE  Rigid(gs[k]) /\ mv[j] + Held(gs[j]) <= mv[k]
  BY <1>2, <1>3, <1>4, <1>8 DEF Chain
<1>9. Chain(mv, gs, locs, lv[m])
  BY <1>2, <1>3, <1>7, <1>8 DEF Chain
<1>10. \A k \in 1..m-1 : Exact(fs[k]) => Rigid(Last(fs))
  BY <1>1, <1>4, <1>5 DEF Chain
<1>11. Exact(fs[m]) => Waits(fs[m], lv[m], locs) /\ Under(locs, lv[m]) /\ lv[m] + Held(fs[m]) = level
  BY <1>5 DEF Chain
<1> QED BY <1>1, <1>6, <1>9, <1>10, <1>11 DEF gs, mv

\* Statements have no such call under way, and the counter is free.
LEMMA ChainFree ==
  ASSUME NEW fs \in Seq(Frames), NEW locs, NEW level, \A k \in 1..Len(fs) : ~ Exact(fs[k])
  PROVE  \E lv : Chain(lv, fs, locs, level)
<1> DEFINE lv == [k \in 1..Len(fs) |-> 0]
<1>1. lv \in Seq(Nat) /\ Len(lv) = Len(fs)
  OBVIOUS
<1> HIDE DEF lv
<1>2. Chain(lv, fs, locs, level)
  BY <1>1 DEF Chain
<1> QED BY <1>2

\* What waits in a stack of calls is below the level of the child of the top call,
\* if that is no leaf.
LEMMA Spared ==
  ASSUME NEW fs \in Seq(Frames), NEW lv, NEW locs, NEW level \in Int, Chain(lv, fs, locs, level),
         \A k \in 1..Len(fs) : GoodFrame(fs[k]) /\ (Rigid(fs[k]) => Awaited(fs[k]).t \notin Leaf),
         NEW k \in 1..Len(fs), Rigid(fs[k])
  PROVE  ValuesUnder(fs[k], level)
<1> DEFINE m == Len(fs)
<1>1. lv \in Seq(Nat) /\ Len(lv) = m /\ m \in Nat /\ m \in 1..m
  BY DEF Chain
<1>2. \A i \in 1..m : lv[i] \in Nat
  BY <1>1, ElementOfSeq
<1>3. \A g : Held(g) \in {0, 1}
  BY HeldIs
<1>4. lv[k] + Held(fs[k]) <= level
  <2>1. CASE k = m
    <3>1. lv[k] + Held(fs[k]) = level
      BY <2>1 DEF Chain, Exact
    <3> QED BY <1>2, <1>3, <3>1
  <2>2. CASE k # m
    <3>1. k < m
      BY <1>1, <2>2
    <3>2. Rigid(fs[m]) /\ lv[k] + Held(fs[k]) <= lv[m]
      BY <1>1, <3>1 DEF Chain, Exact
    <3>3. lv[m] + Held(fs[m]) = level
      BY <1>1, <3>2 DEF Chain, Exact
    <3> QED BY <1>1, <1>2, <1>3, <3>2, <3>3
  <2> QED BY <2>1, <2>2
<1>5. Waits(fs[k], lv[k], locs)
  BY DEF Chain, Exact
<1>6. ValuesUnder(fs[k], lv[k] + Held(fs[k]))
  <2>1. CASE fs[k].node.t \in BinaryTypes
    BY <1>5, <2>1 DEF Waits
  <2>2. CASE fs[k].node.t = "A_CALL_FINISHED"
    <3>1. fs[k].node.t \notin BinaryTypes
      BY <2>2, Kinds
    <3>2. Held(fs[k]) = 0
      BY <2>2, <3>1 DEF Held
    <3>3. ValuesUnder(fs[k], lv[k])
      <4>1. GoodFrame(fs[k]) /\ Awaited(fs[k]).t \notin Leaf
        OBVIOUS
      <4>2. Len(fs[k].vals) \in Nat /\ Len(fs[k].vals) < Len(fs[k].node.kids) /\ Len(fs[k].node.kids) \in Nat
        <5>1. fs[k].node \in Nodes /\ HasChildren(fs[k].node) /\ fs[k].vals \in Seq(Val)
          BY <4>1 DEF GoodFrame, Frames
        <5>2. Len(Children(fs[k].node)) = Len(fs[k].node.kids)
          BY <2>2, <5>1, ChildrenAreTrees
        <5>3. fs[k].node.kids \in Seq(Trees)
          BY <5>1 DEF Nodes
        <5> QED BY <4>1, <5>1, <5>2, <5>3 DEF GoodFrame
      <4>3. Len(fs[k].vals)+1 \in Len(fs[k].vals)+1..Len(fs[k].node.kids)
        BY <4>2
      <4> QED BY <1>5, <2>2, <4>1, <4>3 DEF Waits, Awaited
    <3>4. lv[k] + Held(fs[k]) = lv[k]
      BY <1>2, <3>2
    <3> QED BY <3>3, <3>4
  <2> QED BY <2>1, <2>2 DEF Rigid
<1>7. ASSUME NEW i \in 1..Len(fs[k].vals), ~ IsImm(fs[k].vals[i])
      PROVE  fs[k].vals[i].n < level
  <2>1. fs[k].vals[i].n < lv[k] + Held(fs[k])
    BY <1>6, <1>7 DEF ValuesUnder
  <2>2. fs[k].vals[i].n \in Int /\ level \in Int
    <3>1. fs[k].vals \in Seq(Val)
      BY DEF GoodFrame, Frames
    <3>2. fs[k].vals[i] \in Val
      BY <3>1, ElementOfSeq
    <3>3. fs[k].vals[i].n \in Int
      BY <3>2, WordAssumption DEF Val
    <3> QED BY <3>3
  <2> QED BY <1>2, <1>3, <1>4, <2>1, <2>2
<1> QED BY <1>7 DEF ValuesUnder

\* The child a call waits for in a tidy tree, and what a void mark comes after.
LEMMA TidyChild ==
  ASSUME NEW f, GoodFrame(f), TidyNode(f.node)
  PROVE  /\ Exact(f) => Awaited(f).t \in Expression
         /\ f.node.t \in {"A_WHILE", "A_RET", "A_COND"} => Awaited(f).t \in Valued
         /\ f.node.t = "A_BLOCK" =>
              /\ Awaited(f).t \in Statement
              /\ Len(f.vals) + 1 = Len(f.node.kids) => Awaited(f).t \in Valued
              /\ Awaited(f).t = "EXPR_TO_VOID" => Len(f.vals) > 0 /\ f.node.kids[Len(f.vals)].t \in InSlot
<1> DEFINE n == Len(f.node.kids)
           m == Len(f.vals)
<1>1. /\ f.node.t \notin {"A_CALL_FINISHED", "A_ASSIGNMENT"} =>
           Awaited(f) = f.node.kids[m + 1] /\ m + 1 \in 1..n
      /\ f.node.t = "A_ASSIGNMENT" => Awaited(f) = f.node.kids[2]
      /\ f.node.t = "A_CALL_FINISHED" => Awaited(f) = f.node.kids[n - m] /\ n - m \in 1..n
      /\ m \in Nat
  BY AwaitedIs, Zenon
<1>2. "A_CALL_FINISHED" \notin BinaryTypes /\ "A_ASSIGNMENT" \notin BinaryTypes
  BY Kinds
<1>3. m < Len(Children(f.node)) /\ f.node \in Nodes /\ HasChildren(f.node)
  BY DEF GoodFrame, Frames
<1> HIDE DEF m, n
<1>4. CASE f.node.t \in BinaryTypes \cup {"A_CALL_FINISHED", "A_DECL_ASSIGNMENT"}
  <2>1. \A i \in 1..n : f.node.kids[i].t \in Expression
    BY <1>4, Zenon DEF TidyNode, n
  <2>2. \E i \in 1..n : Awaited(f) = f.node.kids[i]
    BY <1>1, <1>2, <1>4
  <2>3. f.node.t \notin {"A_WHILE", "A_RET", "A_COND", "A_BLOCK"}
    BY <1>4, Kinds
  <2> QED BY <2>1, <2>2, <2>3
<1>5. CASE f.node.t = "A_ASSIGNMENT"
  BY <1>1, <1>5 DEF TidyNode
<1>6. CASE f.node.t \in {"A_WHILE", "A_RET"}
  <2>1. \A i \in 1..n : f.node.kids[i].t \in Valued
    BY <1>6, Zenon DEF TidyNode, n
  <2>2. Awaited(f).t \in Valued
    BY <1>1, <1>6, <2>1
  <2>3. ~ Exact(f) /\ f.node.t # "A_BLOCK"
    BY <1>6, Kinds DEF Exact, Rigid
  <2> QED BY <2>2, <2>3
<1>7. CASE f.node.t = "A_COND"
  <2>1. /\ f.node.kids[1].t \in Valued /\ f.node.kids[2].t \in Valued
        /\ f.node.kids[3].t \in Valued \/ f.node.kids[3] = NoNode
    BY <1>7 DEF TidyNode
  <2>2. Len(Children(f.node)) = IF f.node.kids[3] = NoNode THEN 2 ELSE 3
    BY <1>3, <1>7, ChildrenAreTrees
  <2>3. m = 0 \/ m = 1 \/ (m = 2 /\ f.node.kids[3] # NoNode)
    <3>1. CASE f.node.kids[3] = NoNode
      <4>1. m < 2
        BY <1>3, <2>2, <3>1
      <4>2. m \in {0, 1}
        BY <1>1, <4>1, Counted, Zenon
      <4> QED BY <4>2
    <3>2. CASE f.node.kids[3] # NoNode
      <4>1. m < 3
        BY <1>3, <2>2, <3>2
      <4>2. m \in {0, 1, 2}
        BY <1>1, <4>1, Counted, Zenon
      <4> QED BY <3>2, <4>2
    <3> QED BY <3>1, <3>2
  <2>4. Awaited(f) = f.node.kids[m + 1]
    BY <1>1, <1>7
  <2>5. Awaited(f).t \in Valued
    <3>1. CASE m = 0
      <4>1. Awaited(f) = f.node.kids[1]
        BY <2>4, <3>1
      <4> QED BY <2>1, <4>1
    <3>2. CASE m = 1
      <4>1. Awaited(f) = f.node.kids[2]
        BY <2>4, <3>2
      <4> QED BY <2>1, <4>1
    <3>3. CASE m = 2 /\ f.node.kids[3] # NoNode
      <4>1. Awaited(f) = f.node.kids[3]
        BY <2>4, <3>3
      <4> QED BY <2>1, <3>3, <4>1
    <3> QED BY <2>3, <3>1, <3>2, <3>3
  <2>6. ~ Exact(f) /\ f.node.t # "A_BLOCK"
    BY <1>7, Kinds DEF Exact, Rigid
  <2> QED BY <2>5, <2>6
<1>8. CASE f.node.t = "A_BLOCK"
  <2>1. Awaited(f) = f.node.kids[m + 1] /\ m + 1 \in 1..n /\ TidyStatements(f.node.kids) /\ Last(f.node.kids).t \in Valued
    BY <1>1, <1>8 DEF TidyNode
  <2>2. /\ Awaited(f).t \in Statement
        /\ Awaited(f).t = "EXPR_TO_VOID" => m + 1 > 1 /\ f.node.kids[(m + 1) - 1].t \in InSlot
    BY <2>1, Zenon DEF TidyStatements, n
  <2>3. m + 1 = n => Awaited(f).t \in Valued
    BY <2>1, Zenon DEF Last, n
  <2>4. (m + 1) - 1 = m /\ (m + 1 > 1 => m > 0)
    BY <1>1
  <2>5. f.node.kids[(m + 1) - 1] = f.node.kids[m]
    BY <2>4, Zenon
  <2>6. Awaited(f).t = "EXPR_TO_VOID" => m > 0 /\ f.node.kids[m].t \in InSlot
    BY <2>2, <2>4, <2>5, Zenon
  <2>7. ~ Exact(f)
    BY <1>8, Kinds DEF Exact, Rigid
  <2> QED BY <1>8, <2>2, <2>3, <2>6, <2>7 DEF m, n
<1>9. CASE f.node.t \notin BinaryTypes \cup {"A_CALL_FINISHED", "A_DECL_ASSIGNMENT", "A_ASSIGNMENT", "A_WHILE", "A_RET", "A_COND", "A_BLOCK"}
  BY <1>9 DEF Exact, Rigid
<1> QED BY <1>4, <1>5, <1>6, <1>7, <1>8, <1>9

\* The same of the statements of a function, of which the last is a return.
LEMMA TidyBody ==
  ASSUME NEW g, g.body \in Seq(Trees), TidyFunction(g), NEW f, GoodFrame(f), f.node = FunctionNode(g)
  PROVE  /\ Len(f.vals) + 1 = Len(f.node.kids) => Awaited(f).t = "A_RET"
         /\ Len(f.vals) + 1 # Len(f.node.kids) => Awaited(f).t \in Statement
         /\ Awaited(f).t = "EXPR_TO_VOID" => Len(f.vals) > 0 /\ f.node.kids[Len(f.vals)].t \in InSlot
         /\ ~ Exact(f)
<1> DEFINE n == Len(f.node.kids)
           m == Len(f.vals)
<1>1. f.node.t = "A_DECL" /\ f.node.kids = g.body
  BY DEF FunctionNode
<1>2. ~ Exact(f) /\ f.node.t \notin {"A_CALL_FINISHED", "A_ASSIGNMENT"}
  BY <1>1, Kinds DEF Exact, Rigid
<1>3. Awaited(f) = f.node.kids[m + 1] /\ m + 1 \in 1..n /\ m \in Nat /\ n \in Nat
  BY <1>2, AwaitedIs, Zenon
<1>4. /\ Len(Front(g.body)) = n - 1 /\ \A i \in 1..n-1 : Front(g.body)[i] = g.body[i]
      /\ Last(g.body).t = "A_RET" /\ TidyStatements(Front(g.body))
  BY <1>1, FrontIs DEF TidyFunction
<1> HIDE DEF m, n
<1>5. m + 1 = n => Awaited(f).t = "A_RET"
  BY <1>1, <1>3, <1>4, Zenon DEF Last, n
<1>6. ASSUME m + 1 # n
      PROVE  /\ Awaited(f).t \in Statement
             /\ Awaited(f).t = "EXPR_TO_VOID" => m > 0 /\ f.node.kids[m].t \in InSlot
  <2>1. m + 1 \in 1..n-1 /\ (m + 1 > 1 => m > 0 /\ m \in 1..n-1) /\ (m + 1) - 1 = m
    BY <1>3, <1>6
  <2>2. /\ Front(g.body)[m + 1].t \in Statement
        /\ Front(g.body)[m + 1].t = "EXPR_TO_VOID" => m + 1 > 1 /\ Front(g.body)[(m + 1) - 1].t \in InSlot
    BY <1>4, <2>1, Zenon DEF TidyStatements
  <2>3. Front(g.body)[m + 1] = Awaited(f)
    BY <1>1, <1>3, <1>4, <2>1, Zenon
  <2>4. m + 1 > 1 => Front(g.body)[(m + 1) - 1] = f.node.kids[m]
    BY <1>1, <1>4, <2>1, Zenon
  <2> QED BY <2>1, <2>2, <2>3, <2>4, Zenon
<1>7. "EXPR_TO_VOID" # "A_RET"
  OBVIOUS
<1> QED BY <1>2, <1>5, <1>6, <1>7 DEF m, n

\* What a call compiles: a tree, or a function of a unit.
Compiles(f) == f.node \in Trees \/ \E u \in Units : \E i \in 1..Len(u) : f.node = FunctionNode(u[i])

\* The children of either, in tidy trees.
LEMMA TidyFrame ==
  ASSUME TreesTidy, NEW f, GoodFrame(f), Compiles(f)
  PROVE  /\ Exact(f) => Awaited(f).t \in Expression /\ TidyNode(f.node)
         /\ f.node.t \in {"A_WHILE", "A_RET", "A_COND"} => Awaited(f).t \in Valued
         /\ f.node.t = "A_BLOCK" /\ Len(f.vals) + 1 = Len(f.node.kids) => Awaited(f).t \in Valued
         /\ f.node.t \in {"A_DECL", "A_BLOCK"} /\ Len(f.vals) + 1 # Len(f.node.kids) => Awaited(f).t \in Statement
         /\ f.node.t \in {"A_DECL", "A_BLOCK"} /\ Awaited(f).t = "EXPR_TO_VOID" =>
              Len(f.vals) > 0 /\ f.node.kids[Len(f.vals)].t \in InSlot
<1>1. CASE f.node \in Trees
  <2>1. TidyNode(f.node) /\ f.node.t # "A_DECL"
    BY <1>1, TreesAreNodes DEF TreesTidy
  <2> QED BY <2>1, TidyChild
<1>2. CASE \E u \in Units : \E i \in 1..Len(u) : f.node = FunctionNode(u[i])
  <2>0. PICK u \in Units : \E i \in 1..Len(u) : f.node = FunctionNode(u[i])
    BY <1>2
  <2>1. PICK i \in 1..Len(u) : f.node = FunctionNode(u[i])
    BY <2>0
  <2>2. TidyFunction(u[i]) /\ u[i].body \in Seq(Trees) /\ f.node.t = "A_DECL"
    <3>1. u \in Seq([name : Names, params : Seq(Names), body : Seq(Trees)])
      BY UnitsAssumption
    <3>2. u[i] \in [name : Names, params : Seq(Names), body : Seq(Trees)]
      BY <3>1, ElementOfSeq
    <3>3. f.node.t = "A_DECL"
      BY <2>1 DEF FunctionNode
    <3> QED BY <3>2, <3>3 DEF TreesTidy
  <2>3. /\ Len(f.vals) + 1 # Len(f.node.kids) => Awaited(f).t \in Statement
        /\ Awaited(f).t = "EXPR_TO_VOID" => Len(f.vals) > 0 /\ f.node.kids[Len(f.vals)].t \in InSlot
        /\ ~ Exact(f)
    BY <2>1, <2>2, TidyBody
  <2> QED BY <2>2, <2>3
<1> QED BY <1>1, <1>2 DEF Compiles

\* The top call compiles one of them.
LEMMA TopCompiles ==
  ASSUME Types, Calls, Walk, frames # <<>>
  PROVE  /\ GoodFrame(Top) /\ Compiles(Top) /\ Top = frames[Len(frames)] /\ Len(frames) \in Nat \ {0}
         /\ frames \in Seq(Frames)
<1>1. /\ GoodFrame(Top) /\ Top = frames[Len(frames)] /\ Len(frames) \in Nat \ {0}
      /\ Top.node.t = "A_DECL" => Top.node = FunctionNode(unit[fn])
      /\ Top.node.t # "A_DECL" => Top.node \in Trees
  BY TopOfPath
<1>2. fn \in 1..Len(unit) /\ unit \in Units
  BY DEF Walk, Types
<1>3. Compiles(Top)
  BY <1>1, <1>2 DEF Compiles
<1> QED BY <1>1, <1>3 DEF Calls, Stack

\* Above a call of an expression there is only another.
LEMMA NoneBelow ==
  ASSUME NEW fs \in Seq(Frames), fs # <<>>, NEW lv, NEW locs, NEW level, Chain(lv, fs, locs, level)
  PROVE  /\ ~ Exact(Last(fs)) => \A k \in 1..Len(fs) : ~ Exact(fs[k])
         /\ ~ Rigid(Last(fs)) => \A k \in 1..Len(fs)-1 : ~ Exact(fs[k])
<1>1. \A k \in 1..Len(fs)-1 : Exact(fs[k]) => Rigid(Last(fs))
  BY ChainShrinks
<1>2. Len(fs) \in Nat \ {0} /\ Last(fs) = fs[Len(fs)]
  BY FrontIs
<1>3. \A k \in 1..Len(fs) : k \in 1..Len(fs)-1 \/ k = Len(fs)
  BY <1>2
<1> QED BY <1>1, <1>2, <1>3 DEF Exact

\* The level is where the counter stands, or stood.
LEMMA LevelIs ==
  ASSUME Types
  PROVE  /\ temps \in Nat /\ acc.n \in Nat /\ Level \in Int
         /\ mode = "eval" => Level = temps
         /\ mode = "return" /\ IsImm(acc) => Level = temps
         /\ mode = "return" /\ ~ IsImm(acc) => Level = temps - 1
         /\ mode = "return" /\ Level >= 0 => Release(temps, acc) = Level
<1>1. temps \in SlotNumber /\ temps \in Nat
  BY WordAssumption DEF Types, SlotNumber
<1>2. acc.n \in Nat
  BY WordAssumption DEF Types, Val
<1>3. /\ mode = "eval" => Level = temps
      /\ mode = "return" /\ IsImm(acc) => Level = temps
      /\ mode = "return" /\ ~ IsImm(acc) => Level = temps - 1
      /\ mode # "return" => Level = temps
  BY DEF Level, Freed
<1>4. Level \in Int
  BY <1>1, <1>3 DEF Level, Freed
<1>5. ASSUME mode = "return", Level >= 0 PROVE Release(temps, acc) = Level
  <2>1. CASE IsImm(acc)
    BY <1>3, <1>5, <2>1 DEF Release
  <2>2. CASE ~ IsImm(acc)
    <3>1. temps > 0
      BY <1>1, <1>3, <1>5, <2>2
    <3>2. Down(temps) = temps - 1
      BY <1>1, <3>1, UpDown
    <3> QED BY <1>3, <1>5, <2>2, <3>2 DEF Release
  <2> QED BY <2>1, <2>2
<1> QED BY <1>1, <1>2, <1>3, <1>4, <1>5

-----------------------------------------------------------------------------
(***************************************************************************)
(* What is printed.                                                        *)
(***************************************************************************)
\* An instruction that writes slot d leaves alone every variable but that of the
\* assignment it ends, and every value that waits.
SparesVariables(d) == \A x \in DOMAIN locals : d = locals[x] => AssignsTo(x)
SparesOperands(d) ==
  \A k \in 1..Len(frames') : Rigid(frames'[k]) =>
    \A j \in 1..Len(frames'[k].vals) : frames'[k].vals[j] # Slot(d)
Spares == \A i \in Printed : SparesVariables(out'[i].dst) /\ SparesOperands(out'[i].dst)

\* No slot is none.
LEMMA NoSlot ==
  ASSUME Types, Calls'
  PROVE  SparesVariables(-1) /\ SparesOperands(-1)
<1>1. \A x \in DOMAIN locals : -1 # locals[x]
  BY WordAssumption DEF Types, SlotNumber
<1>2. ASSUME NEW k \in 1..Len(frames'), NEW j \in 1..Len(frames'[k].vals)
      PROVE  frames'[k].vals[j] # Slot(-1)
  <2>1. frames'[k].vals \in Seq(Val)
    BY DEF Calls, Stack, GoodFrame, Frames
  <2>2. frames'[k].vals[j].n \in Nat
    <3>1. frames'[k].vals[j] \in Val
      BY <2>1, ElementOfSeq
    <3> QED BY <3>1, WordAssumption DEF Val
  <2>3. Slot(-1).n = -1
    BY DEF Slot
  <2> QED BY <2>2, <2>3
<1> QED BY <1>1, <1>2 DEF SparesVariables, SparesOperands

\* The instructions of a step.
LEMMA PrintedOne ==
  ASSUME Types, NEW i, out' = Append(out, i), SparesVariables(i.dst) /\ SparesOperands(i.dst)
  PROVE  Spares
<1>1. out \in Seq(Instructions) /\ Len(out) \in Nat
  BY CodeIs
<1>2. Len(out') = Len(out) + 1 /\ out'[Len(out) + 1] = i
  BY <1>1
<1>3. \A k \in Printed : k = Len(out) + 1
  BY <1>1, <1>2 DEF Printed
<1> QED BY <1>2, <1>3 DEF Spares

\* A step that prints a sequence spares what its instructions spare,
LEMMA PrintedMore ==
  ASSUME Types, NEW S, NEW p \in Seq(S), out' = out \o p,
         \A k \in 1..Len(p) : SparesVariables(p[k].dst) /\ SparesOperands(p[k].dst)
  PROVE  Spares
<1>1. out \in Seq(Instructions) /\ Len(out) \in Nat /\ Len(p) \in Nat
  BY CodeIs
<1>2. Len(out') = Len(out) + Len(p)
  BY <1>1
<1>3. ASSUME NEW k \in Printed PROVE k - Len(out) \in 1..Len(p) /\ out'[k] = p[k - Len(out)]
  BY <1>1, <1>2 DEF Printed
<1> QED BY <1>3 DEF Spares

\* and one that prints nothing spares everything.
LEMMA PrintedNothing ==
  ASSUME Types, out' = out
  PROVE  Spares
<1>1. out \in Seq(Instructions) /\ Len(out) \in Nat
  BY CodeIs
<1>2. \A k \in Printed : FALSE
  BY <1>1 DEF Printed
<1> QED BY <1>2 DEF Spares

-----------------------------------------------------------------------------
(***************************************************************************)
(* Where the slots are after each step.                                    *)
(***************************************************************************)
\* A tree is about to be compiled.
LEMMA Evaluates ==
  ASSUME TreesTidy, Types, Calls, Walk, Slots, mode = "eval"
  PROVE  /\ frames # <<>> /\ frames \in Seq(Frames) /\ cur = Awaited(Top) /\ cur \in Nodes
         /\ temps \in Nat /\ \E lv : Chain(lv, frames, locals, temps)
         /\ cur.t # "EXPR_TO_VOID" => Under(locals, temps)
         /\ cur.t = "EXPR_TO_VOID" => temps > 0 /\ Under(locals, temps - 1)
         /\ cur.t \notin Expression => \A k \in 1..Len(frames) : ~ Exact(frames[k])
         /\ \A k \in 1..Len(frames) : Exact(frames[k]) => cur.t \in Expression
         /\ Distinct
<1>1. frames # <<>> /\ cur = Awaited(Top) /\ cur \in Nodes
  BY TreesAreNodes DEF Walk, Types
<1>2. GoodFrame(Top) /\ Compiles(Top) /\ Top = Last(frames) /\ frames \in Seq(Frames)
  BY <1>1, TopCompiles DEF Top
<1>3. PICK lv : Chain(lv, frames, locals, temps)
  BY DEF Slots, Level
<1>4. ~ Exact(Top) => \A k \in 1..Len(frames) : ~ Exact(frames[k])
  BY <1>1, <1>2, <1>3, NoneBelow
<1>5. Exact(Top) => cur.t \in Expression
  BY <1>1, <1>2, TidyFrame
<1>6. temps \in Nat
  BY LevelIs
<1>7. /\ cur.t # "EXPR_TO_VOID" => Under(locals, temps)
      /\ cur.t = "EXPR_TO_VOID" => temps > 0 /\ Under(locals, temps - 1)
      /\ Distinct
  BY DEF Slots, Counter
<1> QED BY <1>1, <1>2, <1>3, <1>4, <1>5, <1>6, <1>7

\* A tree has just been compiled.
LEMMA Answered ==
  ASSUME TreesTidy, Types, Calls, Walk, Slots, mode = "return"
  PROVE  /\ frames # <<>> /\ frames \in Seq(Frames) /\ GoodFrame(Top) /\ Compiles(Top)
         /\ Top = Last(frames) /\ Top = frames[Len(frames)] /\ Len(frames) \in Nat \ {0}
         /\ \E lv : Chain(lv, frames, locals, Level)
         /\ ~ Exact(Top) => \A k \in 1..Len(frames) : ~ Exact(frames[k])
         /\ ~ Rigid(Top) => \A k \in 1..Len(frames)-1 : ~ Exact(frames[k])
         /\ Awaited(Top).t \in Valued => Level >= 0 /\ Under(locals, Level)
         /\ Awaited(Top).t \in InSlot => ~ IsImm(acc)
         /\ Awaited(Top).t \in Expression /\ ~ IsImm(acc) =>
              acc.n <= Level /\ (Awaited(Top).t \in Leaf => acc.n < Level)
         /\ Awaited(Top).t \in Statement => Under(locals, temps)
         /\ Distinct
<1>1. frames # <<>>
  BY DEF Walk
<1>2. /\ GoodFrame(Top) /\ Compiles(Top) /\ Top = Last(frames) /\ frames \in Seq(Frames)
      /\ Top = frames[Len(frames)] /\ Len(frames) \in Nat \ {0}
  BY <1>1, TopCompiles DEF Top
<1>3. PICK lv : Chain(lv, frames, locals, Level)
  BY DEF Slots
<1>4. /\ ~ Exact(Top) => \A k \in 1..Len(frames) : ~ Exact(frames[k])
      /\ ~ Rigid(Top) => \A k \in 1..Len(frames)-1 : ~ Exact(frames[k])
  BY <1>1, <1>2, <1>3, NoneBelow
<1>5. Counter /\ Distinct
  BY DEF Slots
<1>6. /\ Awaited(Top).t \in Valued => Level >= 0 /\ Under(locals, Level)
      /\ Awaited(Top).t \in InSlot => ~ IsImm(acc)
      /\ Awaited(Top).t \in Expression /\ ~ IsImm(acc) =>
           acc.n <= Level /\ (Awaited(Top).t \in Leaf => acc.n < Level)
      /\ Awaited(Top).t \in Statement => Under(locals, temps)
  BY <1>5 DEF Counter
<1> QED BY <1>1, <1>2, <1>3, <1>4, <1>5, <1>6

\* No call of an expression is left.
LEMMA Unbound ==
  ASSUME frames' \in Seq(Frames), \A k \in 1..Len(frames') : ~ Exact(frames'[k]), Counter', Distinct'
  PROVE  Slots'
<1>1. \E lv : Chain(lv, frames', locals', Level')
  BY ChainFree
<1> QED BY <1>1 DEF Slots

\* What is left of the counter without the slot of a value.
LEMMA FreedIs == \A n, k, x : Freed(n, Slot(k)) = n - 1 /\ Freed(n, Imm(x)) = n /\ Freed(n, Data(x)) = n
  BY DEF Freed, IsImm, Slot, Imm, Data

\* A slot is no immediate value.
LEMMA ValueIs ==
  /\ \A k : ~ IsImm(Slot(k)) /\ Slot(k).n = k
  /\ \A x : IsImm(Imm(x)) /\ IsImm(Data(x))
  BY DEF IsImm, Slot, Imm, Data

\* A variable more, above the others.
LEMMA DeclaredAt ==
  ASSUME Types, NEW x, NEW n \in Nat, Declare(x, n), Under(locals, n), Distinct
  PROVE  Distinct' /\ Under(locals', n + 1)
<1>1. /\ DOMAIN locals' = DOMAIN locals \cup {x} /\ locals'[x] = n
      /\ \A y \in DOMAIN locals : y # x => locals'[y] = locals[y]
  BY DEF Declare
<1>2. \A y \in DOMAIN locals : locals[y] < n /\ locals[y] \in Int
  BY WordAssumption DEF Under, Types, SlotNumber
<1>3. Under(locals', n + 1)
  BY <1>1, <1>2 DEF Under
<1>4. Distinct'
  BY <1>1, <1>2 DEF Distinct
<1> QED BY <1>3, <1>4

\* Variables under the counter are under a larger one.
LEMMA Higher ==
  ASSUME Types, NEW n \in Int, NEW m \in Int, n <= m, Under(locals, n)
  PROVE  Under(locals, m)
<1>1. \A y \in DOMAIN locals : locals[y] < n /\ locals[y] \in Int
  BY WordAssumption DEF Under, Types, SlotNumber
<1> QED BY <1>1 DEF Under

\* The kinds of tree that give no value to an operator, and those that do.
LEMMA Sorts ==
  /\ "EXPR_TO_VOID" \notin Valued /\ "A_DECL_LOCAL" \notin Valued /\ "A_DECL_ASSIGNMENT" \notin Valued
  /\ "A_RET" \notin Statement
  /\ \A t \in {"A_ASSIGNMENT", "A_COND", "A_WHILE", "A_BLOCK"} : t \in Valued /\ t \notin Expression
  /\ \A t \in BinaryTypes \cup {"A_CALL_FINISHED"} : t \in Expression /\ t \notin Leaf /\ t \in InSlot /\ t # "EXPR_TO_VOID"
  /\ "A_ASSIGNMENT" \in InSlot
  /\ "A_COND" \notin InSlot /\ "A_WHILE" \notin InSlot /\ "A_BLOCK" \notin InSlot
  /\ Leaf = {"A_INT_LITERAL", "A_STR_LITERAL", "A_IDENT"} /\ "A_INT_LITERAL" \notin InSlot /\ "A_STR_LITERAL" \notin InSlot
  /\ InSlot \cup Expression \subseteq Valued /\ Valued \subseteq Statement
  BY Kinds DEF Leaf, Expression, Valued, InSlot, Statement

\* The void mark takes a slot from the counter.
LEMMA VoidSlots ==
  ASSUME TreesTidy, Types, Calls, Walk, Slots, EvalVoid
  PROVE  Slots'
<1>1. /\ mode = "eval" /\ cur.t = "EXPR_TO_VOID" /\ mode' = "return" /\ acc' = Slot(temps)
      /\ temps' = Down(temps) /\ UNCHANGED <<frames, locals>>
  BY DEF EvalVoid, Evals, Return, AfterVoid
<1>2. /\ frames \in Seq(Frames) /\ cur = Awaited(Top) /\ temps \in Nat /\ temps > 0
      /\ Under(locals, temps - 1) /\ Distinct
      /\ cur.t \notin Expression => \A k \in 1..Len(frames) : ~ Exact(frames[k])
  BY <1>1, Evaluates
<1>3. cur.t \notin Valued /\ cur.t \notin Expression /\ cur.t \notin InSlot
  BY <1>1, Sorts
<1>4. temps' = temps - 1
  BY <1>1, <1>2, UpDown DEF Types
<1>5. Awaited(Top)' = cur
  BY <1>1, <1>2 DEF Top, Awaited
<1>6. Counter'
  BY <1>1, <1>2, <1>3, <1>4, <1>5 DEF Counter
<1>7. Distinct'
  BY <1>1, <1>2 DEF Distinct
<1> QED BY <1>1, <1>2, <1>3, <1>6, <1>7, Unbound

\* A leaf or a call without arguments answers: the counter stands where it stood,
\* with the slot of the value on top.
LEMMA AnswerSlots ==
  ASSUME TreesTidy, Types, Calls, Walk, Slots, mode = "eval", cur.t \in Expression,
         mode' = "return", UNCHANGED <<frames, locals>>, Level' = temps, temps' \in Nat, temps' >= temps,
         cur.t \in InSlot => ~ IsImm(acc'),
         ~ IsImm(acc') => acc'.n <= temps /\ (cur.t \in Leaf => acc'.n < temps)
  PROVE  Slots'
<1>1. cur.t # "EXPR_TO_VOID" /\ cur.t \in Valued
  BY Sorts
<1>2. /\ frames \in Seq(Frames) /\ cur = Awaited(Top) /\ temps \in Nat
      /\ Under(locals, temps) /\ Distinct /\ \E lv : Chain(lv, frames, locals, temps)
  BY <1>1, Evaluates
<1>3. Awaited(Top)' = cur
  BY <1>2 DEF Top, Awaited
<1>4. Under(locals, temps')
  BY <1>2, Higher
<1>5. Level' >= 0
  BY <1>2
<1>6. Counter'
  BY <1>1, <1>2, <1>3, <1>4, <1>5 DEF Counter
<1>7. Distinct'
  BY <1>2 DEF Distinct
<1> QED BY <1>2, <1>6, <1>7 DEF Slots

\* The leaves.
LEMMA LeavesSlots ==
  ASSUME TreesTidy, Room, Types, Calls, Walk, Slots,
         EvalVoid \/ EvalLiteral \/ EvalIdent \/ EvalDeclLocal \/ EvalUnknown
  PROVE  Slots'
<1>0. temps \in Nat /\ temps < Word - 1
  BY LevelIs DEF Room
<1>1. Up(temps) = temps + 1
  BY <1>0, UpDown
<1>2. CASE EvalVoid
  BY <1>2, VoidSlots
<1>3. CASE EvalLiteral
  <2>1. /\ mode = "eval" /\ cur.t \in {"A_INT_LITERAL", "A_STR_LITERAL"} /\ mode' = "return"
        /\ temps' = temps /\ UNCHANGED <<frames, locals>>
        /\ acc' = IF cur.t = "A_INT_LITERAL" THEN Imm(cur.lexeme) ELSE Data(cur.lexeme)
    BY <1>3 DEF EvalLiteral, Evals, Return
  <2>2. IsImm(acc') /\ Level' = temps
    BY <2>1, FreedIs, ValueIs DEF Level
  <2>3. cur.t \in Expression /\ cur.t \notin InSlot
    BY <2>1, Sorts, Kinds
  <2> QED BY <1>0, <2>1, <2>2, <2>3, AnswerSlots
<1>4. CASE EvalIdent /\ ~ Stop("segv")
  <2>1. /\ mode = "eval" /\ cur.t = "A_IDENT" /\ mode' = "return" /\ LookUp(cur.lexeme) # -1
        /\ acc' = Slot(LookUp(cur.lexeme)) /\ temps' = Up(temps) /\ UNCHANGED <<frames, locals>>
    BY <1>4 DEF EvalIdent, Evals, Return
  <2>2. ~ IsImm(acc') /\ acc'.n = LookUp(cur.lexeme) /\ Level' = temps
    <3>1. (temps + 1) - 1 = temps
      BY <1>0
    <3> QED BY <1>1, <2>1, <3>1, FreedIs, ValueIs DEF Level
  <2>3. cur.t \in Expression /\ cur.t \in Leaf /\ cur.t # "EXPR_TO_VOID"
    BY <2>1, Sorts, Kinds
  <2>4. LookUp(cur.lexeme) < temps
    <3>1. Under(locals, temps)
      BY <2>1, <2>3, Evaluates
    <3> QED BY <2>1, <3>1 DEF LookUp, Under
  <2>5. LookUp(cur.lexeme) <= temps
    <3>1. LookUp(cur.lexeme) \in Int
      BY LookingUp, WordAssumption DEF SlotNumber
    <3> QED BY <1>0, <2>4, <3>1
  <2>6. temps + 1 >= temps /\ temps + 1 \in Nat
    BY <1>0
  <2> QED BY <1>1, <2>1, <2>2, <2>3, <2>4, <2>5, <2>6, AnswerSlots
<1>5. CASE EvalDeclLocal
  <2>1. /\ mode = "eval" /\ cur.t = "A_DECL_LOCAL" /\ mode' = "return"
        /\ Declare(cur.lexeme, temps) /\ temps' = Up(temps) /\ UNCHANGED frames
    BY <1>5 DEF EvalDeclLocal, Evals, Return
  <2>2. cur.t \notin Valued /\ cur.t \notin Expression /\ cur.t \notin InSlot /\ cur.t # "EXPR_TO_VOID"
    BY <2>1, Sorts
  <2>3. /\ frames \in Seq(Frames) /\ cur = Awaited(Top) /\ Under(locals, temps) /\ Distinct
        /\ \A k \in 1..Len(frames) : ~ Exact(frames[k])
    BY <2>1, <2>2, Evaluates
  <2>4. Distinct' /\ Under(locals', temps + 1)
    BY <1>0, <2>1, <2>3, DeclaredAt
  <2>5. Awaited(Top)' = cur
    BY <2>1, <2>3 DEF Top, Awaited
  <2>6. Counter'
    BY <1>1, <2>1, <2>2, <2>4, <2>5 DEF Counter
  <2> QED BY <2>1, <2>3, <2>4, <2>6, Unbound
<1>6. CASE Stop("segv") \/ Stop("exit69")
  BY <1>6 DEF Stop, Slots, Distinct
<1> QED BY <1>2, <1>3, <1>4, <1>5, <1>6 DEF EvalUnknown

\* A node with children begins: its first child is no void mark.
LEMMA EnterSlots ==
  ASSUME TreesTidy, Types, Calls, Walk, Slots, mode = "eval", cur.t # "EXPR_TO_VOID",
         cur.t \in Expression => Rigid(Frame(cur)),
         NEW f \in Frames, f.node = cur, f.vals = <<>>, Enter(f), GoodFrame(f),
         Exact(f) \/ f.node.t \in {"A_WHILE", "A_RET", "A_COND", "A_BLOCK"},
         f.node.t = "A_ASSIGNMENT" => f.dst = LookUp(cur.kids[1].lexeme),
         UNCHANGED locals, temps' = temps + Held(f)
  PROVE  Slots'
<1>1. /\ frames \in Seq(Frames) /\ temps \in Nat /\ Under(locals, temps) /\ Distinct
      /\ \A k \in 1..Len(frames) : Exact(frames[k]) => cur.t \in Expression
  BY Evaluates
<1>2. PICK lv : Chain(lv, frames, locals, temps)
  BY Evaluates
<1>3. \A k \in 1..Len(frames) : Exact(frames[k]) => Rigid(f)
  BY <1>1, FrameTyped, Evaluates DEF Rigid
<1>4. Len(f.vals) = 0 /\ \A n : ValuesUnder(f, n)
  BY DEF ValuesUnder
<1>5. Exact(f) => Waits(f, temps, locals)
  BY <1>4 DEF Waits, LookUp
<1>6. Chain(Append(lv, temps), Append(frames, f), locals, temps + Held(f))
  BY <1>1, <1>2, <1>3, <1>5, ChainGrows
<1>7. frames' = Append(frames, f) /\ mode' = "eval" /\ cur' = Awaited(f)
  BY <1>4 DEF Enter, Awaited
<1>8. \E mv : Chain(mv, frames', locals', Level')
  BY <1>6, <1>7 DEF Level
<1>9. cur'.t # "EXPR_TO_VOID"
  <2>1. Compiles(f) /\ f.node.t # "A_DECL"
    BY TreesAreNodes DEF Types, Compiles
  <2>2. CASE Exact(f) \/ f.node.t \in {"A_WHILE", "A_RET", "A_COND"}
    <3>1. Awaited(f).t \in Valued
      BY <2>1, <2>2, TidyFrame, Sorts
    <3> QED BY <1>7, <3>1, Sorts
  <2>3. CASE f.node.t = "A_BLOCK"
    BY <1>4, <1>7, <2>1, <2>3, TidyFrame
  <2> QED BY <2>2, <2>3
<1>10. Under(locals, temps')
  <2>1. Held(f) \in {0, 1}
    BY HeldIs
  <2>2. temps' \in Int /\ temps <= temps'
    BY <1>1, <2>1
  <2> QED BY <1>1, <2>2, Higher
<1>11. Counter'
  BY <1>7, <1>9, <1>10 DEF Counter
<1>12. Distinct'
  BY <1>1 DEF Distinct
<1> QED BY <1>8, <1>11, <1>12 DEF Slots

\* Which nodes have children.
LEMMA EntersSlots ==
  ASSUME TreesTidy, Room, Types, Calls, Walk, Slots,
         EvalBinary \/ EvalCall \/ EvalDeclAssignment \/ EvalAssignment \/ EvalCond
           \/ EvalReturn \/ EvalBlock \/ EvalWhile
  PROVE  Slots'
<1>0. temps \in Nat /\ Up(temps) = temps + 1
  <2>1. temps \in Nat /\ temps < Word - 1
    BY LevelIs DEF Room
  <2> QED BY <2>1, UpDown
<1>1. mode = "eval" /\ cur \in Nodes /\ HasChildren(cur)
  BY TreesAreNodes DEF Types, EvalBinary, EvalCall, EvalDeclAssignment, EvalAssignment, EvalCond,
     EvalReturn, EvalBlock, EvalWhile, Evals
<1>2. Frame(cur) \in Frames /\ Frame(cur).node = cur /\ Frame(cur).vals = <<>> /\ Len(<<>>) = 0
  BY <1>1, FrameTyped
<1>3. CASE EvalBinary \/ EvalDeclAssignment \/ EvalCond \/ EvalReturn \/ EvalBlock
           \/ (EvalCall /\ cur.kids # <<>> /\ Enter(Frame(cur)))
  <2>1. /\ cur.t \in BinaryTypes \cup {"A_DECL_ASSIGNMENT", "A_COND", "A_RET", "A_BLOCK"}
           \/ (cur.t = "A_CALL_FINISHED" /\ cur.kids # <<>>)
        /\ Enter(Frame(cur))
    BY <1>3 DEF EvalBinary, EvalDeclAssignment, EvalCond, EvalReturn, EvalBlock, EvalCall, Evals
  <2>2. UNCHANGED <<temps, locals>>
    <3>1. Enter(Frame(cur)) => mode' = "eval"
      BY DEF Enter
    <3>2. EvalCall => (Enter(Frame(cur)) => UNCHANGED <<temps, locals>>)
      BY <3>1 DEF EvalCall, Return, Stop
    <3> QED BY <1>3, <3>2 DEF EvalBinary, EvalDeclAssignment, EvalCond, EvalReturn, EvalBlock
  <2>3. cur.t \notin {"A_WHILE", "A_ASSIGNMENT", "EXPR_TO_VOID"}
        /\ (cur.t \in Expression => Rigid(Frame(cur)))
        /\ (Exact(Frame(cur)) \/ cur.t \in {"A_WHILE", "A_RET", "A_COND", "A_BLOCK"})
    <3>1. cur.t \in {"A_DECL_ASSIGNMENT", "A_COND", "A_RET", "A_BLOCK"} => cur.t \notin Expression
      BY Sorts
    <3> QED BY <1>2, <2>1, <3>1, Kinds DEF Rigid, Exact
  <2>4. GoodFrame(Frame(cur))
    BY <1>1, <2>1, <2>3, NewCall
  <2>5. temps + Held(Frame(cur)) = temps
    <3>1. Held(Frame(cur)) = 0
      BY <1>2, <2>3 DEF Held
    <3> QED BY <1>0, <3>1
  <2> QED BY <1>1, <1>2, <2>1, <2>2, <2>3, <2>4, <2>5, EnterSlots
<1>4. CASE EvalWhile
  <2>1. LoopCall \in Frames /\ LoopCall.node = cur /\ LoopCall.vals = <<>> /\ GoodFrame(LoopCall)
    BY <1>4, NewLoop DEF GoodFrame
  <2>2. cur.t = "A_WHILE" /\ Enter(LoopCall) /\ UNCHANGED <<temps, locals>>
    BY <1>4 DEF EvalWhile, Evals, LoopCall
  <2>3. cur.t \notin Expression
    BY <2>2, Sorts
  <2>4. temps + Held(LoopCall) = temps
    <3>1. Held(LoopCall) = 0
      BY <2>1, <2>2, Kinds DEF Held
    <3> QED BY <1>0, <3>1
  <2> QED BY <1>1, <2>1, <2>2, <2>3, <2>4, EnterSlots
<1>5. CASE EvalAssignment /\ ~ Stop("segv")
  <2> DEFINE f == [Frame(cur) EXCEPT !.dst = LookUp(cur.kids[1].lexeme)]
  <2>1. cur.t = "A_ASSIGNMENT" /\ Enter(f) /\ UNCHANGED locals /\ temps' = Up(temps)
    BY <1>5 DEF EvalAssignment, Evals
  <2>2. GoodFrame(Frame(cur))
    BY <1>1, <2>1, NewCall
  <2>3. GoodFrame(f) /\ f.node = cur /\ f.vals = <<>>
    BY <1>2, <2>2, LookingUp, NotingSlot
  <2>4. f.dst = LookUp(cur.kids[1].lexeme) /\ f \in Frames
    BY <1>2, <2>3 DEF Frames, GoodFrame
  <2> HIDE DEF f
  <2>5. cur.t \notin Expression
    BY <2>1, Sorts
  <2>6. temps' = temps + Held(f) /\ Exact(f)
    BY <1>0, <2>1, <2>3 DEF Held, Exact
  <2> QED BY <1>1, <2>1, <2>3, <2>4, <2>5, <2>6, EnterSlots
<1>6. CASE EvalCall /\ ~ Enter(Frame(cur)) /\ ~ Stop("exit69")
  <2>1. /\ cur.t = "A_CALL_FINISHED" /\ mode' = "return" /\ acc' = Slot(temps) /\ temps' = Up(temps)
        /\ UNCHANGED <<frames, locals>>
    BY <1>6 DEF EvalCall, Evals, Return
  <2>2. cur.t \in Expression /\ cur.t \notin Leaf
    BY <2>1, Sorts
  <2>3. ~ IsImm(acc') /\ acc'.n = temps
    BY <2>1, ValueIs
  <2>4. Level' = temps
    <3>1. (temps + 1) - 1 = temps
      BY <1>0
    <3> QED BY <1>0, <2>1, <3>1, FreedIs DEF Level
  <2>5. temps + 1 >= temps /\ temps <= temps /\ temps + 1 \in Nat
    BY <1>0
  <2> QED BY <1>0, <1>1, <2>1, <2>2, <2>3, <2>4, <2>5, AnswerSlots
<1>7. CASE Stop("segv") \/ Stop("exit69")
  BY <1>7 DEF Stop, Slots, Distinct
<1>8. EvalCall => cur.kids # <<>> \/ ~ Enter(Frame(cur)) \/ Stop("exit69")
  <2>1. EvalCall => Stop("exit69") \/ cur.kids # <<>> \/ mode' = "return"
    BY DEF EvalCall, Return
  <2>2. Enter(Frame(cur)) => mode' = "eval"
    BY DEF Enter
  <2> QED BY <2>1, <2>2
<1> QED BY <1>3, <1>4, <1>5, <1>6, <1>7, <1>8

\* A call goes on to its next child.
LEMMA GoesOnSlots ==
  ASSUME TreesTidy, Types, Calls, Walk, Slots, mode = "return",
         NEW f \in Frames, f.node = Top.node, NEW j, Descend(f, j), UNCHANGED locals, temps' \in Int,
         Exact(Top) => \A n \in Nat : Waits(Top, n, locals) /\ n + Held(Top) = Level
                         => Waits(f, n, locals) /\ n + Held(f) = temps',
         cur'.t # "EXPR_TO_VOID" => Under(locals, temps'),
         cur'.t = "EXPR_TO_VOID" => temps' > 0 /\ Under(locals, temps' - 1)
  PROVE  Slots'
<1>1. frames # <<>> /\ frames \in Seq(Frames) /\ Top = Last(frames) /\ Distinct /\ Len(frames) \in Nat \ {0}
  BY Answered
<1>2. PICK lv : Chain(lv, frames, locals, Level)
  BY Answered
<1>3. frames' = Append(Front(frames), f) /\ mode' = "eval"
  BY DEF Descend, Below
<1>4. /\ Front(frames) \in Seq(Frames) /\ Len(Front(frames)) = Len(frames) - 1
      /\ \A k \in 1..Len(frames)-1 : Front(frames)[k] = frames[k]
  BY <1>1, FrontIs
<1> DEFINE n == lv[Len(frames)]
<1>5. /\ Chain(Front(lv), Front(frames), locals, n) /\ n \in Nat
      /\ \A k \in 1..Len(frames)-1 : Exact(frames[k]) => Rigid(Top)
      /\ Exact(Top) => Waits(Top, n, locals) /\ Under(locals, n) /\ n + Held(Top) = Level
  BY <1>1, <1>2, ChainShrinks
<1> HIDE DEF n
<1>6. Exact(f) <=> Exact(Top)
  BY DEF Exact, Rigid
<1>7. Rigid(f) <=> Rigid(Top)
  BY DEF Rigid
<1>8. \E mv : Chain(mv, frames', locals', Level')
  <2>1. Level' = temps'
    BY <1>3 DEF Level
  <2>2. CASE Exact(Top)
    <3>1. Waits(f, n, locals) /\ n + Held(f) = temps' /\ Under(locals, n)
      BY <1>5, <2>2
    <3>2. \A k \in 1..Len(Front(frames)) : Exact(Front(frames)[k]) => Rigid(f) /\ n = n
      BY <1>4, <1>5, <1>7
    <3>3. Chain(Append(Front(lv), n), Append(Front(frames), f), locals, n + Held(f))
      BY <1>4, <1>5, <3>1, <3>2, ChainGrows
    <3> QED BY <1>3, <2>1, <3>1, <3>3
  <2>3. CASE ~ Exact(Top)
    <3>1. /\ Len(frames') = (Len(frames) - 1) + 1 /\ frames'[(Len(frames) - 1) + 1] = f /\ frames' \in Seq(Frames)
          /\ \A k \in 1..Len(frames)-1 : frames'[k] = frames[k]
      BY <1>3, <1>4, Appended
    <3>2. \A k \in 1..Len(frames) : ~ Exact(frames[k])
      BY <2>3, Answered
    <3>3. \A k \in 1..Len(frames') : k \in 1..Len(frames)-1 \/ k = (Len(frames) - 1) + 1
      BY <1>1, <3>1
    <3>4. \A k \in 1..Len(frames)-1 : k \in 1..Len(frames)
      BY <1>1
    <3>5. \A k \in 1..Len(frames') : ~ Exact(frames'[k])
      BY <1>6, <2>3, <3>1, <3>2, <3>3, <3>4
    <3> QED BY <3>1, <3>5, ChainFree
  <2> QED BY <2>2, <2>3
<1>9. Counter'
  BY <1>3 DEF Counter
<1>10. Distinct'
  BY <1>1 DEF Distinct
<1> QED BY <1>8, <1>9, <1>10 DEF Slots

\* The call that goes on compiles what it compiled.
LEMMA StillCompiles ==
  ASSUME Types, Calls, Walk, frames # <<>>, Calls', NEW f \in Frames, f.node = Top.node,
         Descend(f, Len(f.vals) + 1), UNCHANGED <<unit, fn>>
  PROVE  GoodFrame(f) /\ Compiles(f) /\ cur' = Awaited(f)
<1>1. Len(frames') = Len(frames) /\ frames'[Len(frames)] = f
  BY WalkGoesOn
<1>2. Compiles(Top) /\ Len(frames) \in Nat \ {0}
  BY TopCompiles
<1>3. GoodFrame(f)
  BY <1>1, <1>2 DEF Calls, Stack
<1> QED BY <1>2, <1>3 DEF Compiles, Descend, Awaited

\* The left operand comes after the right one, and above its slot.
LEMMA BinaryRightSlots ==
  ASSUME TreesTidy, Types, Calls, Walk, Slots, Calls', BinaryRight
  PROVE  Slots'
<1>1. /\ mode = "return" /\ Top.node.t \in BinaryTypes /\ Len(Top.vals) + 1 = 1
      /\ Descend(Kept, 2) /\ temps' = temps /\ UNCHANGED <<unit, fn, locals>>
  BY DEF BinaryRight, Delivers, AfterRight
<1>2. /\ frames # <<>> /\ GoodFrame(Top) /\ Compiles(Top)
      /\ Awaited(Top).t \in Valued => Level >= 0 /\ Under(locals, Level)
      /\ Awaited(Top).t \in Expression /\ ~ IsImm(acc) => acc.n <= Level
  BY <1>1, Answered
<1>3. Awaited(Top).t \in Expression
  BY <1>1, <1>2, TidyFrame DEF Exact, Rigid
<1>4. /\ Kept \in Frames /\ Kept.node = Top.node /\ Len(Top.vals) \in Nat
      /\ Len(Kept.vals) = Len(Top.vals) + 1 /\ Kept.vals[Len(Top.vals) + 1] = acc
  BY <1>1, <1>2, Delivery DEF Delivered
<1>5. Len(Top.vals) = 0 /\ Len(Kept.vals) = 1 /\ Kept.vals[1] = acc /\ Len(Kept.vals) + 1 = 2
  BY <1>1, <1>4
<1>6. GoodFrame(Kept) /\ Compiles(Kept) /\ cur' = Awaited(Kept)
  BY <1>1, <1>2, <1>4, <1>5, StillCompiles
<1>7. cur'.t # "EXPR_TO_VOID"
  BY <1>1, <1>4, <1>6, TidyFrame, Sorts DEF Exact, Rigid
<1>8. Level \in Int /\ temps \in Nat /\ acc.n \in Nat
      /\ (IsImm(acc) => Level = temps) /\ (~ IsImm(acc) => Level = temps - 1)
  BY <1>1, LevelIs
<1>9. Level <= temps /\ Under(locals, temps)
  <2>1. Level <= temps
    BY <1>8
  <2> QED BY <1>2, <1>3, <1>8, <2>1, Sorts, Higher
<1>10. Held(Top) = 0 /\ Held(Kept) = IF IsImm(acc) THEN 0 ELSE 1
  BY <1>1, <1>4, <1>5, Kinds DEF Held
<1>11. Top.node.t \notin {"A_CALL_FINISHED", "A_ASSIGNMENT"}
  BY <1>1, Kinds
<1>12. ASSUME NEW n \in Nat, n + Held(Top) = Level
       PROVE  Waits(Kept, n, locals) /\ n + Held(Kept) = temps'
  <2>1. n = Level /\ n + Held(Kept) = temps
    BY <1>8, <1>10, <1>12
  <2>2. ~ IsImm(acc) => acc.n < n + Held(Kept)
    <3>1. ~ IsImm(acc) => acc.n <= Level /\ temps = Level + 1
      BY <1>2, <1>3, <1>8
    <3> QED BY <1>8, <2>1, <3>1
  <2>3. ValuesUnder(Kept, n + Held(Kept))
    BY <1>5, <2>2 DEF ValuesUnder
  <2> QED BY <1>1, <1>4, <1>11, <2>1, <2>3 DEF Waits
<1>13. temps' \in Int
  BY <1>1, <1>8
<1> QED BY <1>1, <1>4, <1>7, <1>9, <1>12, <1>13, GoesOnSlots

\* An argument gives its slot back; in a tidy call it is a leaf or all the others are.
LEMMA CallArgumentSlots ==
  ASSUME TreesTidy, Types, Calls, Walk, Slots, Calls', CallArgument
  PROVE  Slots'
<1>1. /\ mode = "return" /\ Top.node.t = "A_CALL_FINISHED" /\ Descend(Kept, Len(Top.vals) + 2)
      /\ temps' = Release(temps, acc) /\ UNCHANGED <<unit, fn, locals>>
  BY DEF CallArgument, DeliversSome
<1>2. /\ frames # <<>> /\ GoodFrame(Top) /\ Compiles(Top)
      /\ Awaited(Top).t \in Valued => Level >= 0 /\ Under(locals, Level)
      /\ Awaited(Top).t \in Expression /\ ~ IsImm(acc) => (Awaited(Top).t \in Leaf => acc.n < Level)
  BY <1>1, Answered
<1>3. Awaited(Top).t \in Expression /\ TidyNode(Top.node)
  BY <1>1, <1>2, TidyFrame DEF Exact, Rigid
<1>4. /\ Kept \in Frames /\ Kept.node = Top.node /\ Len(Top.vals) \in Nat
      /\ Len(Kept.vals) = Len(Top.vals) + 1 /\ Kept.vals[Len(Top.vals) + 1] = acc
      /\ \A i \in 1..Len(Top.vals) : Kept.vals[i] = Top.vals[i]
  BY <1>1, <1>2, Delivery DEF Delivered
<1>5. Descend(Kept, Len(Kept.vals) + 1)
  <2>1. Len(Top.vals) + 2 = Len(Kept.vals) + 1
    BY <1>4
  <2> QED BY <1>1, <2>1, Zenon
<1>6. GoodFrame(Kept) /\ Compiles(Kept) /\ cur' = Awaited(Kept)
  BY <1>1, <1>2, <1>4, <1>5, StillCompiles
<1>7. cur'.t # "EXPR_TO_VOID"
  BY <1>1, <1>4, <1>6, TidyFrame, Sorts DEF Exact, Rigid
<1>8. Level \in Int /\ Level >= 0 /\ Under(locals, Level) /\ Release(temps, acc) = Level
  <2>1. Level >= 0 /\ Under(locals, Level)
    BY <1>2, <1>3, Sorts
  <2> QED BY <1>1, <2>1, LevelIs
<1>9. Held(Top) = 0 /\ Held(Kept) = 0 /\ Top.node.t \notin BinaryTypes
  BY <1>1, <1>4, Kinds DEF Held
<1>10. Awaited(Top).t \notin Leaf => \A j \in Len(Kept.vals)+1..Len(Top.node.kids) : Children(Top.node)[j].t \in Leaf
  <2> SUFFICES ASSUME Awaited(Top).t \notin Leaf, NEW j \in Len(Kept.vals)+1..Len(Top.node.kids)
               PROVE  Children(Top.node)[j].t \in Leaf
    OBVIOUS
  <2> DEFINE n == Len(Top.node.kids)
             m == Len(Top.vals)
  <2>1. Awaited(Top) = Top.node.kids[n - m] /\ n - m \in 1..n /\ m \in Nat /\ n \in Nat
    BY <1>1, <1>2, AwaitedIs, Zenon
  <2>2. Len(Kept.vals) = m + 1
    BY <1>4
  <2>3. j \in (m + 1) + 1..n
    BY <2>2
  <2>4. Children(Top.node) = Reverse(Top.node.kids)
    BY <1>1 DEF Children
  <2> HIDE DEF m
  <2>5. j \in 1..n /\ (n - j) + 1 \in 1..n /\ (n - j) + 1 # n - m
    <3> HIDE DEF n
    <3> QED BY <2>1, <2>3
  <2>6. Reverse(Top.node.kids)[j] = Top.node.kids[(n - j) + 1]
    BY <2>5 DEF Reverse
  <2>7. \A i, k \in 1..n : Top.node.kids[i].t \in Leaf \/ Top.node.kids[k].t \in Leaf \/ i = k
    BY <1>1, <1>3, Zenon DEF TidyNode
  <2> HIDE DEF n
  <2> QED BY <2>1, <2>4, <2>5, <2>6, <2>7
<1>11. ASSUME NEW n \in Nat, Waits(Top, n, locals), n + Held(Top) = Level
       PROVE  Waits(Kept, n, locals) /\ n + Held(Kept) = temps'
  <2>1. n = Level /\ n + Held(Kept) = temps'
    BY <1>1, <1>8, <1>9, <1>11
  <2>2. \/ ValuesUnder(Top, n)
        \/ \A j \in Len(Top.vals)+1..Len(Top.node.kids) : Children(Top.node)[j].t \in Leaf
    BY <1>1, <1>11 DEF Waits
  <2>3. CASE \A j \in Len(Top.vals)+1..Len(Top.node.kids) : Children(Top.node)[j].t \in Leaf
    <3>1. \A j \in Len(Kept.vals)+1..Len(Top.node.kids) : j \in Len(Top.vals)+1..Len(Top.node.kids)
      <4>1. Len(Top.node.kids) \in Nat
        BY <1>2, AwaitedIs
      <4> QED BY <1>4, <4>1
    <3> QED BY <1>1, <1>4, <1>9, <2>1, <2>3, <3>1 DEF Waits
  <2>4. CASE ValuesUnder(Top, n) /\ Awaited(Top).t \in Leaf
    <3>1. IsImm(acc) \/ acc.n < n
      BY <1>2, <1>3, <2>1, <2>4
    <3>2. \A i \in 1..Len(Kept.vals) : i \in 1..Len(Top.vals) \/ i = Len(Top.vals) + 1
      BY <1>4
    <3>3. ValuesUnder(Kept, n)
      BY <1>4, <2>4, <3>1, <3>2 DEF ValuesUnder
    <3> QED BY <1>1, <1>4, <1>9, <2>1, <3>3 DEF Waits
  <2>5. CASE Awaited(Top).t \notin Leaf
    BY <1>1, <1>4, <1>9, <1>10, <2>1, <2>5 DEF Waits
  <2> QED BY <2>2, <2>3, <2>4, <2>5
<1> QED BY <1>1, <1>4, <1>7, <1>8, <1>11, GoesOnSlots

\* The next statement: a void mark comes after a value in a slot.
LEMMA NextStatementSlots ==
  ASSUME TreesTidy, Types, Calls, Walk, Slots, Calls', NextStatement
  PROVE  Slots'
<1>1. /\ mode = "return" /\ Top.node.t \in {"A_DECL", "A_BLOCK"} /\ Len(Top.vals) + 1 < Len(Top.node.kids)
      /\ Descend(Kept, Len(Top.vals) + 2) /\ UNCHANGED <<unit, fn, temps, locals>>
  BY DEF NextStatement, DeliversSome
<1>2. /\ frames # <<>> /\ GoodFrame(Top) /\ Compiles(Top)
      /\ Awaited(Top).t \in Valued => Level >= 0 /\ Under(locals, Level)
      /\ Awaited(Top).t \in InSlot => ~ IsImm(acc)
      /\ Awaited(Top).t \in Statement => Under(locals, temps)
  BY <1>1, Answered
<1>3. /\ Kept \in Frames /\ Kept.node = Top.node /\ Len(Top.vals) \in Nat /\ Len(Kept.vals) = Len(Top.vals) + 1
  BY <1>1, <1>2, Delivery DEF Delivered
<1>4. Descend(Kept, Len(Kept.vals) + 1)
  <2>1. Len(Top.vals) + 2 = Len(Kept.vals) + 1
    BY <1>3
  <2> QED BY <1>1, <2>1, Zenon
<1>5. GoodFrame(Kept) /\ Compiles(Kept) /\ cur' = Awaited(Kept)
  BY <1>1, <1>2, <1>3, <1>4, StillCompiles
<1>6. ~ Exact(Top) /\ Top.node.t \notin {"A_CALL_FINISHED", "A_ASSIGNMENT"}
  BY <1>1, Kinds DEF Exact, Rigid
<1>7. Awaited(Top).t \in Statement /\ Awaited(Top) = Top.node.kids[Len(Top.vals) + 1]
  <2>1. Len(Top.vals) + 1 # Len(Top.node.kids)
    <3>1. \A m \in Nat, n \in Nat : m < n => m # n
      OBVIOUS
    <3>2. Len(Top.node.kids) \in Nat /\ Len(Top.vals) + 1 \in Nat
      BY <1>2, <1>3, AwaitedIs
    <3> QED BY <1>1, <3>1, <3>2, Zenon
  <2>2. Awaited(Top).t \in Statement
    BY <1>1, <1>2, <2>1, TidyFrame
  <2>3. Awaited(Top) = Top.node.kids[Len(Top.vals) + 1]
    BY <1>2, <1>6, AwaitedIs, Zenon
  <2> QED BY <2>2, <2>3
<1>8. temps \in Nat /\ (~ IsImm(acc) => Level = temps - 1)
  BY <1>1, LevelIs
<1>9. cur'.t = "EXPR_TO_VOID" => temps > 0 /\ Under(locals, temps - 1)
  <2> SUFFICES ASSUME cur'.t = "EXPR_TO_VOID" PROVE temps > 0 /\ Under(locals, temps - 1)
    OBVIOUS
  <2>1. Kept.node.kids[Len(Kept.vals)].t \in InSlot
    BY <1>1, <1>3, <1>5, TidyFrame
  <2>2. Kept.node.kids[Len(Kept.vals)] = Awaited(Top)
    BY <1>3, <1>7, Zenon
  <2>3. Awaited(Top).t \in InSlot /\ Awaited(Top).t \in Valued
    BY <2>1, <2>2, Sorts
  <2>4. Level = temps - 1 /\ Level >= 0 /\ Under(locals, Level)
    BY <1>2, <1>8, <2>3
  <2>5. temps - 1 >= 0 /\ Under(locals, temps - 1)
    BY <2>4
  <2> QED BY <1>8, <2>5
<1>10. Under(locals, temps)
  BY <1>2, <1>7
<1>11. temps' \in Int
  BY <1>1, <1>8
<1> QED BY <1>1, <1>3, <1>4, <1>6, <1>9, <1>10, <1>11, GoesOnSlots

\* The body of a loop and the branches of a conditional, which begin above the
\* variables.
LEMMA BranchSlots ==
  ASSUME TreesTidy, Types, Calls, Walk, Slots, Calls', mode = "return",
         NEW f \in Frames, f.node = Top.node, Top.node.t \in {"A_WHILE", "A_COND"},
         Descend(f, Len(f.vals) + 1), UNCHANGED <<unit, fn, locals>>,
         temps' = temps \/ temps' = Release(temps, acc)
  PROVE  Slots'
<1>1. /\ frames # <<>> /\ GoodFrame(Top) /\ Compiles(Top)
      /\ Awaited(Top).t \in Valued => Level >= 0 /\ Under(locals, Level)
      /\ Awaited(Top).t \in Statement => Under(locals, temps)
  BY Answered
<1>2. ~ Exact(Top)
  BY Kinds DEF Exact, Rigid
<1>3. Awaited(Top).t \in Valued
  BY <1>1, TidyFrame
<1>4. Under(locals, temps) /\ Under(locals, Level) /\ Level \in Int /\ Release(temps, acc) = Level /\ temps \in Nat
  BY <1>1, <1>3, Sorts, LevelIs
<1>5. Under(locals, temps') /\ temps' \in Int
  BY <1>4
<1>6. GoodFrame(f) /\ Compiles(f) /\ cur' = Awaited(f)
  BY <1>1, StillCompiles
<1>7. cur'.t # "EXPR_TO_VOID"
  BY <1>6, TidyFrame, Sorts
<1> QED BY <1>2, <1>5, <1>7, GoesOnSlots

\* An operator or a call leaves its result where it began.
LEMMA RigidReturns ==
  ASSUME TreesTidy, Room, Types, Calls, Walk, Slots, mode = "return", Rigid(Top),
         frames' = Below, mode' = "return", UNCHANGED <<unit, fn, locals>>,
         NEW free, \A n \in Nat : n + Held(Top) = Level => free = n,
         acc' = Slot(free), temps' = Up(free)
  PROVE  /\ Slots' /\ Under(locals, free) /\ free \in Nat /\ \E lv : Chain(lv, frames', locals, free)
         /\ free + Held(Top) = Level /\ temps' = free + 1 /\ Level' = free
<1>1. /\ frames # <<>> /\ frames \in Seq(Frames) /\ GoodFrame(Top) /\ Top = Last(frames) /\ Distinct
  BY Answered
<1>2. PICK lv : Chain(lv, frames, locals, Level)
  BY Answered
<1> DEFINE n == lv[Len(frames)]
<1>3. /\ Chain(Front(lv), Front(frames), locals, n) /\ n \in Nat
      /\ Exact(Top) => Under(locals, n) /\ n + Held(Top) = Level
      /\ \A k \in 1..Len(frames)-1 : Exact(frames[k]) => Rigid(Top)
  BY <1>1, <1>2, ChainShrinks
<1> HIDE DEF n
<1>4. Under(locals, n) /\ n + Held(Top) = Level
  BY <1>3 DEF Exact
<1>5. free = n /\ Held(Top) \in {0, 1} /\ temps \in Nat /\ temps < Word - 1 /\ Level <= temps
  <2>1. temps \in Nat /\ temps < Word - 1
    BY LevelIs DEF Room
  <2>2. (IsImm(acc) => Level = temps) /\ (~ IsImm(acc) => Level = temps - 1)
    BY LevelIs
  <2>3. Level <= temps
    BY <2>1, <2>2
  <2> QED BY <1>3, <1>4, <2>1, <2>3, HeldIs
<1>6. temps' = n + 1
  <2>1. n < Word - 1
    BY <1>3, <1>4, <1>5, WordAssumption
  <2> QED BY <1>3, <1>5, <2>1, UpDown
<1>7. Level' = n /\ ~ IsImm(acc') /\ acc'.n = n
  <2>1. (n + 1) - 1 = n
    BY <1>3
  <2> QED BY <1>5, <1>6, <2>1, FreedIs, ValueIs DEF Level
<1>8. Top.node.t # "A_DECL"
  BY Kinds DEF Rigid
<1>9. Awaited(Top)' = Top.node
  BY <1>1, <1>8, WalkReturns
<1>10. Chain(Front(lv), frames', locals, n)
  BY <1>3 DEF Below
<1>11. Counter'
  <2>1. Top.node.t \in Expression /\ Top.node.t \notin Leaf /\ Top.node.t # "EXPR_TO_VOID"
    BY Sorts DEF Rigid
  <2>2. n >= 0 /\ n <= n /\ n <= n + 1 /\ n + 1 \in Int
    BY <1>3
  <2>3. Under(locals, n + 1)
    BY <1>3, <1>4, <2>2, Higher
  <2> QED BY <1>4, <1>6, <1>7, <1>9, <2>1, <2>2, <2>3 DEF Counter
<1>12. Distinct'
  BY <1>1 DEF Distinct
<1>13. Slots'
  BY <1>7, <1>10, <1>11, <1>12 DEF Slots
<1> QED BY <1>3, <1>4, <1>5, <1>6, <1>7, <1>10, <1>13

\* A statement leaves the counter above the variables.
LEMMA OtherReturns ==
  ASSUME TreesTidy, Types, Calls, Walk, Slots, mode = "return", ~ Rigid(Top), Top.node.t # "A_DECL",
         frames' = Below, mode' = "return", UNCHANGED <<unit, fn>>, Distinct',
         Top.node.t \notin Expression, Top.node.t \in InSlot => ~ IsImm(acc'),
         Top.node.t \in Valued => Level' >= 0 /\ Under(locals', Level'),
         Top.node.t \in Statement => Under(locals', temps')
  PROVE  Slots' /\ \A k \in 1..Len(frames') : ~ Exact(frames'[k])
<1>1. /\ frames # <<>> /\ frames \in Seq(Frames)
      /\ \A k \in 1..Len(frames)-1 : ~ Exact(frames[k])
  BY Answered
<1>2. /\ frames' \in Seq(Frames) /\ Len(frames') = Len(frames) - 1
      /\ \A k \in 1..Len(frames)-1 : frames'[k] = frames[k]
  BY <1>1, FrontIs DEF Below
<1>3. \A k \in 1..Len(frames') : ~ Exact(frames'[k])
  BY <1>1, <1>2
<1>4. Awaited(Top)' = Top.node
  BY <1>1, WalkReturns
<1>5. Counter'
  BY <1>4, Sorts DEF Counter
<1> QED BY <1>2, <1>3, <1>5, Unbound

\* The copy that declares a variable, in the slot of its value.
LEMMA DeclAssignmentSlots ==
  ASSUME TreesTidy, Room, Types, Calls, Walk, Slots, DeclAssignment
  PROVE  /\ Slots' /\ \A k \in 1..Len(frames') : ~ Exact(frames'[k])
         /\ Under(locals, Release(temps, acc)) /\ Release(temps, acc) \in Nat /\ temps' = Level + 1
<1> DEFINE n == Release(temps, acc)
<1>1. /\ mode = "return" /\ Top.node.t = "A_DECL_ASSIGNMENT" /\ Declare(Top.node.lexeme, n)
      /\ acc' = Slot(n) /\ temps' = Up(n) /\ frames' = Below /\ mode' = "return" /\ UNCHANGED <<unit, fn>>
  BY DEF DeclAssignment, Delivers, Return, SlotAfter
<1>2. /\ frames # <<>> /\ GoodFrame(Top) /\ Compiles(Top) /\ Distinct
      /\ Awaited(Top).t \in Valued => Level >= 0 /\ Under(locals, Level)
  BY <1>1, Answered
<1>3. Exact(Top) /\ ~ Rigid(Top)
  BY <1>1, Kinds DEF Exact, Rigid
<1>4. Awaited(Top).t \in Valued
  BY <1>2, <1>3, TidyFrame, Sorts
<1>5. /\ n = Level /\ Level >= 0 /\ Level \in Int /\ Under(locals, Level) /\ temps < Word - 1 /\ temps \in Nat
      /\ (IsImm(acc) => Level = temps) /\ (~ IsImm(acc) => Level = temps - 1)
  BY <1>1, <1>2, <1>4, LevelIs DEF Room
<1> HIDE DEF n
<1>6. n \in Nat /\ n < Word - 1 /\ Under(locals, n)
  <2>1. Level \in Nat /\ Level < Word - 1
    BY <1>5, WordAssumption
  <2> QED BY <1>5, <2>1
<1>7. Up(n) = n + 1
  BY <1>6, UpDown
<1>8. Distinct' /\ Under(locals', n + 1)
  BY <1>1, <1>2, <1>6, DeclaredAt
<1>9. Top.node.t \notin Expression /\ Top.node.t \notin InSlot /\ Top.node.t \notin Valued /\ Top.node.t # "A_DECL"
  BY <1>1, Sorts
<1>10. Slots' /\ \A k \in 1..Len(frames') : ~ Exact(frames'[k])
  BY <1>1, <1>3, <1>7, <1>8, <1>9, OtherReturns
<1>11. temps' = Level + 1
  BY <1>1, <1>5, <1>7
<1> QED BY <1>6, <1>10, <1>11 DEF n

\* The copy of an assignment: the slot is that of the variable named on the left.
LEMMA AssignmentSlots ==
  ASSUME TreesTidy, Room, Types, Calls, Walk, Slots, Assignment, Top.dst # -1
  PROVE  /\ Slots' /\ \A k \in 1..Len(frames') : ~ Exact(frames'[k])
         /\ LookUp(Top.node.kids[1].lexeme) = Top.dst /\ temps' = Level
<1>1. /\ mode = "return" /\ Top.node.t = "A_ASSIGNMENT"
      /\ acc' = Slot(Top.dst) /\ temps' = Release(temps, acc) /\ frames' = Below /\ mode' = "return"
      /\ UNCHANGED <<unit, fn, locals>>
  BY DEF Assignment, Delivers, Return
<1>2. /\ frames # <<>> /\ frames \in Seq(Frames) /\ GoodFrame(Top) /\ Compiles(Top) /\ Distinct /\ Top = Last(frames)
      /\ Awaited(Top).t \in Valued => Level >= 0 /\ Under(locals, Level)
  BY <1>1, Answered
<1>3. Exact(Top) /\ ~ Rigid(Top) /\ Held(Top) = 1
  BY <1>1, Kinds DEF Exact, Rigid, Held
<1>4. Awaited(Top).t \in Valued
  BY <1>2, <1>3, TidyFrame, Sorts
<1>5. Level >= 0 /\ Under(locals, Level) /\ Level \in Int /\ Release(temps, acc) = Level
  BY <1>1, <1>2, <1>4, LevelIs
<1>6. PICK lv : Chain(lv, frames, locals, Level)
  BY <1>1, Answered
<1> DEFINE n == lv[Len(frames)]
<1>7. n \in Nat /\ Waits(Top, n, locals) /\ Under(locals, n) /\ n + Held(Top) = Level
  BY <1>2, <1>3, <1>6, ChainShrinks
<1> HIDE DEF n
<1>8. ~ IsImm(acc') /\ Level' = n
  <2>1. Level - 1 = n
    BY <1>3, <1>5, <1>7
  <2> QED BY <1>1, <1>5, <2>1, FreedIs, ValueIs DEF Level
<1>9. Distinct'
  BY <1>1, <1>2 DEF Distinct
<1>10. Top.node.t \notin Expression /\ Top.node.t # "A_DECL"
  BY <1>1, Sorts
<1>11. Slots' /\ \A k \in 1..Len(frames') : ~ Exact(frames'[k])
  <2>1. n >= 0
    BY <1>7
  <2> QED BY <1>1, <1>3, <1>5, <1>7, <1>8, <1>9, <1>10, <2>1, OtherReturns
<1>12. LookUp(Top.node.kids[1].lexeme) = Top.dst
  BY <1>1, <1>7 DEF Waits, LookUp
<1> QED BY <1>1, <1>5, <1>11, <1>12

\* The end of a conditional leaves its value where the counter stood after that of
\* the branch.
LEMMA CondReturns ==
  ASSUME TreesTidy, Room, Types, Calls, Walk, Slots, mode = "return", Top.node.t = "A_COND",
         frames' = Below, mode' = "return", UNCHANGED <<unit, fn, locals>>,
         acc' = Slot(Release(temps, acc)), temps' = Up(Release(temps, acc))
  PROVE  Slots' /\ \A k \in 1..Len(frames') : ~ Exact(frames'[k])
<1> DEFINE n == Release(temps, acc)
<1>1. /\ frames # <<>> /\ GoodFrame(Top) /\ Compiles(Top) /\ Distinct
      /\ Awaited(Top).t \in Valued => Level >= 0 /\ Under(locals, Level)
  BY Answered
<1>2. Awaited(Top).t \in Valued
  BY <1>1, TidyFrame
<1>3. /\ n = Level /\ Level >= 0 /\ Level \in Int /\ Under(locals, Level) /\ temps < Word - 1 /\ temps \in Nat
      /\ (IsImm(acc) => Level = temps) /\ (~ IsImm(acc) => Level = temps - 1)
  BY <1>1, <1>2, LevelIs DEF Room
<1> HIDE DEF n
<1>4. n \in Nat /\ n < Word - 1 /\ Under(locals, n)
  <2>1. Level \in Nat /\ Level < Word - 1
    BY <1>3, WordAssumption
  <2> QED BY <1>3, <2>1
<1>5. Up(n) = n + 1 /\ (n + 1) - 1 = n /\ n <= n + 1 /\ n + 1 \in Int /\ n >= 0
  BY <1>4, UpDown
<1>6. Level' = n /\ Under(locals, n + 1)
  <2>1. temps' = n + 1 /\ acc' = Slot(n)
    BY <1>5 DEF n
  <2> QED BY <1>4, <1>5, <2>1, FreedIs, Higher DEF Level
<1>7. Distinct'
  BY <1>1 DEF Distinct
<1>8. ~ Rigid(Top) /\ Top.node.t \notin Expression /\ Top.node.t \notin InSlot
  BY Kinds, Sorts DEF Rigid
<1> QED BY <1>4, <1>5, <1>6, <1>7, <1>8, OtherReturns DEF n

\* What the branch of a conditional gives back.
LEMMA CondValue ==
  ASSUME TreesTidy, Types, Calls, Walk, Slots, mode = "return", Top.node.t = "A_COND"
  PROVE  Under(locals, Release(temps, acc)) /\ Release(temps, acc) \in Nat
<1>1. /\ GoodFrame(Top) /\ Compiles(Top)
      /\ Awaited(Top).t \in Valued => Level >= 0 /\ Under(locals, Level)
  BY Answered
<1>2. Awaited(Top).t \in Valued
  BY <1>1, TidyFrame
<1> QED BY <1>1, <1>2, LevelIs

\* A loop and a block are worth their last value, a return nothing.
LEMMA LastReturns ==
  ASSUME TreesTidy, Types, Calls, Walk, Slots, WhileBody \/ BlockLast \/ ReturnValue
  PROVE  Slots' /\ \A k \in 1..Len(frames') : ~ Exact(frames'[k])
<1>1. mode = "return" /\ frames' = Below /\ mode' = "return" /\ UNCHANGED <<unit, fn, locals>>
  BY DEF WhileBody, BlockLast, ReturnValue, Return, Delivers, DeliversLast
<1>2. /\ frames # <<>> /\ GoodFrame(Top) /\ Compiles(Top) /\ Distinct
      /\ Awaited(Top).t \in Valued => Level >= 0 /\ Under(locals, Level)
      /\ Awaited(Top).t \in Statement => Under(locals, temps)
  BY <1>1, Answered
<1>3. Distinct'
  BY <1>1, <1>2 DEF Distinct
<1>4. CASE WhileBody \/ BlockLast
  <2>1. /\ Top.node.t = "A_WHILE" \/ (Top.node.t = "A_BLOCK" /\ Len(Top.vals) + 1 = Len(Top.node.kids))
        /\ acc' = acc /\ temps' = temps
    BY <1>4 DEF WhileBody, BlockLast, Delivers, DeliversLast, Return
  <2>2. Awaited(Top).t \in Valued
    BY <1>2, <2>1, TidyFrame
  <2>3. Level' = Level
    BY <1>1, <2>1 DEF Level
  <2>4. /\ ~ Rigid(Top) /\ Top.node.t # "A_DECL" /\ Top.node.t \notin Expression /\ Top.node.t \notin InSlot
    BY <2>1, Kinds, Sorts DEF Rigid
  <2>5. Level >= 0 /\ Under(locals, Level) /\ Under(locals, temps)
    BY <1>2, <2>2, Sorts
  <2> QED BY <1>1, <1>3, <2>1, <2>3, <2>4, <2>5, OtherReturns
<1>5. CASE ReturnValue
  <2>1. Top.node.t = "A_RET"
    BY <1>5 DEF ReturnValue, Delivers
  <2>2. /\ ~ Rigid(Top) /\ Top.node.t # "A_DECL" /\ Top.node.t \notin Statement
    BY <2>1, Kinds, Sorts DEF Rigid
  <2>3. Top.node.t \notin Expression /\ Top.node.t \notin InSlot /\ Top.node.t \notin Valued
    BY <2>2, Sorts
  <2> QED BY <1>1, <1>3, <2>2, <2>3, OtherReturns
<1> QED BY <1>4, <1>5

\* comp_sym begins a function, without variables and with a statement that is no
\* void mark, and ends it.
LEMMA FunctionsSlots ==
  ASSUME TreesTidy, Types, Calls, Walk, Slots, Calls', BeginFunction \/ EndFunction \/ EndUnit
  PROVE  Slots'
<1>1. CASE BeginFunction
  <2> DEFINE f == Frame(FunctionNode(unit[fn + 1]))
  <2>1. /\ fn \in 0..Len(unit) /\ fn < Len(unit) /\ frames = <<>> /\ unit \in Units
        /\ unit \in Seq([name : Names, params : Seq(Names), body : Seq(Trees)])
        /\ locals' = <<>>
    BY <1>1, UnitsAssumption DEF BeginFunction, Types, Calls
  <2>2. fn + 1 \in 1..Len(unit)
    BY <2>1
  <2>3. unit[fn + 1].body # <<>>
    BY <2>1, <2>2 DEF TreesTidy, TidyFunction
  <2>4. Enter(f)
    BY <1>1, <2>3 DEF BeginFunction
  <2>5. f.node = FunctionNode(unit[fn + 1]) /\ f.vals = <<>> /\ f.node.t = "A_DECL"
    BY DEF Frame, FunctionNode
  <2> HIDE DEF f
  <2>6. frames' = <<f>> /\ mode' = "eval" /\ cur' = Children(f.node)[1]
    <3>1. frames' = Append(<<>>, f)
      BY <2>1, <2>4 DEF Enter
    <3> QED BY <2>4, <3>1 DEF Enter
  <2>7. Len(frames') = 1 /\ frames'[1] = f /\ Len(f.vals) = 0 /\ 0 + 1 = 1 /\ 1 \in 1..1
    BY <2>5, <2>6
  <2>8. GoodFrame(f) /\ Compiles(f)
    BY <2>1, <2>2, <2>5, <2>7 DEF Calls, Stack, Compiles
  <2>9. cur'.t # "EXPR_TO_VOID"
    <3>1. cur' = Awaited(f)
      BY <2>6, <2>7 DEF Awaited
    <3>2. ~ (Len(f.vals) > 0)
      BY <2>7
    <3> QED BY <2>5, <2>8, <3>1, <3>2, TidyFrame
  <2>10. \A n : Under(locals', n)
    BY <2>1 DEF Under
  <2>11. Counter' /\ Distinct'
    BY <2>1, <2>6, <2>9, <2>10 DEF Counter, Distinct
  <2>12. frames' \in Seq(Frames) /\ \A k \in 1..Len(frames') : ~ Exact(frames'[k])
    <3>1. frames' \in Seq(Frames)
      BY DEF Calls, Stack
    <3>2. ~ Exact(f)
      BY <2>5, Kinds DEF Exact, Rigid
    <3> QED BY <2>7, <3>1, <3>2
  <2> QED BY <2>11, <2>12, Unbound
<1>2. CASE EndFunction \/ EndUnit
  BY <1>2 DEF EndFunction, EndUnit, Stop, Slots, Distinct
<1> QED BY <1>1, <1>2

-----------------------------------------------------------------------------
(***************************************************************************)
(* What each step prints.                                                  *)
(***************************************************************************)
\* Nothing above the level waits, when the top call waits for a tree that is no leaf.
LEMMA SparesAbove ==
  ASSUME Calls', Walk', NEW lv, NEW locs, NEW level \in Int, Chain(lv, frames', locs, level),
         frames' # <<>> => Awaited(Top)'.t \notin Leaf
  PROVE  SparesOperands(level)
<1>1. frames' \in Seq(Frames) /\ \A k \in 1..Len(frames') : GoodFrame(frames'[k])
  BY DEF Calls, Stack
<1>2. ASSUME NEW k \in 1..Len(frames'), Rigid(frames'[k])
      PROVE  Awaited(frames'[k]).t \notin Leaf
  <2>1. Len(frames') \in Nat /\ frames' # <<>>
    BY <1>1
  <2>2. CASE k = Len(frames')
    BY <2>1, <2>2 DEF Top, Last, Awaited
  <2>3. CASE k # Len(frames')
    <3>1. k \in 1..Len(frames')-1 /\ k + 1 \in 1..Len(frames') /\ k < k + 1
      BY <2>1, <2>3
    <3>2. Awaited(frames'[k]) = frames'[k+1].node
      BY <3>1 DEF Walk, Awaited
    <3>3. Rigid(frames'[k+1])
      BY <1>2, <3>1 DEF Chain, Exact
    <3> QED BY <3>2, <3>3, Sorts DEF Rigid
  <2> QED BY <2>2, <2>3
<1>3. ASSUME NEW k \in 1..Len(frames'), Rigid(frames'[k]), NEW j \in 1..Len(frames'[k].vals)
      PROVE  frames'[k].vals[j] # Slot(level)
  <2>1. ValuesUnder(frames'[k], level)
    <3>1. \A i \in 1..Len(frames') : GoodFrame(frames'[i]) /\ (Rigid(frames'[i]) => Awaited(frames'[i]).t \notin Leaf)
      BY <1>1, <1>2
    <3> QED BY <1>1, <1>3, <3>1, Spared
  <2>2. IsImm(frames'[k].vals[j]) \/ frames'[k].vals[j].n < level
    BY <2>1 DEF ValuesUnder
  <2>3. ~ IsImm(Slot(level)) /\ Slot(level).n = level /\ ~ (level < level)
    BY ValueIs
  <2> QED BY <2>2, <2>3
<1> QED BY <1>3 DEF SparesOperands

\* Nothing waits where no operator or call is under way.
LEMMA SparesAll ==
  ASSUME \A k \in 1..Len(frames') : ~ Exact(frames'[k]), NEW d
  PROVE  SparesOperands(d)
  BY DEF SparesOperands, Exact

\* No variable is above the counter.
LEMMA SparesUnder ==
  ASSUME Types, NEW d \in Int, Under(locals, d)
  PROVE  SparesVariables(d)
<1>1. \A x \in DOMAIN locals : locals[x] < d /\ locals[x] \in Int
  BY WordAssumption DEF Under, Types, SlotNumber
<1> QED BY <1>1 DEF SparesVariables

\* A step that prints no slot.
LEMMA PrintedLabels ==
  ASSUME Types, Calls', NEW S, NEW p \in Seq(S), out' = out \o p, \A k \in 1..Len(p) : p[k].dst = -1
  PROVE  Spares
<1>1. SparesVariables(-1) /\ SparesOperands(-1)
  BY NoSlot
<1>2. \A k \in 1..Len(p) : SparesVariables(p[k].dst) /\ SparesOperands(p[k].dst)
  BY <1>1
<1> QED BY <1>2, PrintedMore

\* The slots of the instructions.
LEMMA Targets ==
  /\ \A op, d, args, labels : Ins(op, d, args, labels).dst = d
  /\ \A d, v : Copy(d, v).dst = d
  /\ \A l, m, v : Define(l).dst = -1 /\ Jmp(l).dst = -1 /\ Jnz(v, l, m).dst = -1
  BY DEF Ins, Copy, Define, Jmp, Jnz

\* A call without arguments.
LEMMA CallSpares ==
  ASSUME TreesTidy, Types, Calls, Walk, Slots, Calls', Walk',
         mode = "eval", cur.t = "A_CALL_FINISHED", UNCHANGED frames,
         out' = Append(out, Ins("call", temps, <<>>, <<>>))
  PROVE  Spares
<1>1. cur.t # "EXPR_TO_VOID" /\ cur.t \notin Leaf
  BY Sorts
<1>2. cur = Awaited(Top) /\ temps \in Nat /\ Under(locals, temps) /\ \E lv : Chain(lv, frames, locals, temps)
  BY <1>1, Evaluates
<1>3. Awaited(Top)' = cur
  BY <1>2 DEF Top, Awaited
<1>4. PICK lv : Chain(lv, frames', locals, temps)
  BY <1>2
<1>5. SparesOperands(temps) /\ SparesVariables(temps)
  BY <1>1, <1>2, <1>3, <1>4, SparesAbove, SparesUnder
<1> QED BY <1>5, Targets, PrintedOne

\* An operator or a call with arguments gives back what it has in use, and takes
\* the next slot.
LEMMA RigidFrees ==
  ASSUME TreesTidy, Types, Calls, Walk, Slots, BinaryLeft \/ CallLast
  PROVE  /\ mode = "return" /\ Rigid(Top) /\ frames # <<>> /\ frames' = Below /\ mode' = "return"
         /\ UNCHANGED <<unit, fn, locals>>
         /\ \E free : /\ acc' = Slot(free) /\ temps' = Up(free)
                      /\ \E op, args : out' = Append(out, Ins(op, free, args, <<>>))
                      /\ \A n \in Nat : n + Held(Top) = Level => free = n
<1> DEFINE once == Release(Release(temps, Top.vals[1]), acc)
           free == IF BinaryLeft THEN once ELSE Release(temps, acc)
<1>1. /\ mode = "return" /\ Rigid(Top) /\ frames' = Below /\ mode' = "return" /\ UNCHANGED <<unit, fn, locals>>
      /\ acc' = Slot(free) /\ temps' = Up(free)
      /\ \E op, args : out' = Append(out, Ins(op, free, args, <<>>))
  <2>1. CASE BinaryLeft
    BY <2>1 DEF BinaryLeft, Delivers, Return, Rigid
  <2>2. CASE CallLast /\ ~ BinaryLeft
    BY <2>2 DEF CallLast, DeliversLast, Return, Rigid
  <2> QED BY <2>1, <2>2
<1>2. /\ frames # <<>> /\ GoodFrame(Top) /\ Compiles(Top)
      /\ Awaited(Top).t \in Valued => Level >= 0
  BY <1>1, Answered
<1>3. Level >= 0 /\ Level \in Int
  <2>1. Awaited(Top).t \in Expression
    BY <1>1, <1>2, TidyFrame DEF Exact
  <2> QED BY <1>2, <2>1, Sorts, LevelIs
<1>4. ASSUME NEW n \in Nat, n + Held(Top) = Level
      PROVE  free = n
  <2>1. CASE BinaryLeft
    <3>1. Top.node.t \in BinaryTypes /\ Len(Top.vals) + 1 = 2 /\ free = once
      BY <2>1 DEF BinaryLeft, Delivers
    <3>2. Len(Top.vals) = 1
      <4>1. Len(Top.vals) \in Nat
        BY <1>1, <1>2, Delivery DEF Delivered
      <4> QED BY <3>1, <4>1, OneLess
    <3>3. /\ temps \in SlotNumber /\ temps \in Nat
          /\ (IsImm(acc) => Level = temps) /\ (~ IsImm(acc) => Level = temps - 1)
      BY <1>1, LevelIs DEF Types
    <3>4. CASE IsImm(Top.vals[1])
      <4>1. Held(Top) = 0
        BY <1>1, <3>1, <3>2, <3>4, Kinds DEF Held
      <4>2. n = Level
        BY <1>4, <4>1
      <4>3. once = Release(temps, acc)
        BY <3>4 DEF Release
      <4> QED BY <1>1, <1>3, <3>1, <4>2, <4>3, LevelIs
    <3>5. CASE ~ IsImm(Top.vals[1])
      <4>1. Held(Top) = 1
        BY <3>1, <3>2, <3>5 DEF Held
      <4>2. n + 1 = Level
        BY <1>4, <4>1
      <4>3. temps > 0 /\ (~ IsImm(acc) => temps - 1 > 0)
        BY <3>3, <4>2
      <4>4. Release(temps, Top.vals[1]) = temps - 1
        BY <3>3, <3>5, <4>3, UpDown DEF Release
      <4>5. CASE IsImm(acc)
        <5>1. once = temps - 1
          BY <4>4, <4>5 DEF Release
        <5> QED BY <3>1, <3>3, <4>2, <4>5, <5>1
      <4>6. CASE ~ IsImm(acc)
        <5>1. temps - 1 \in SlotNumber /\ temps - 1 > 0
          BY <3>3, <4>3, <4>6, WordAssumption DEF SlotNumber
        <5>2. once = (temps - 1) - 1
          BY <4>4, <4>6, <5>1, UpDown DEF Release
        <5> QED BY <3>1, <3>3, <4>2, <4>6, <5>2
      <4> QED BY <4>5, <4>6
    <3> QED BY <3>4, <3>5
  <2>2. CASE ~ BinaryLeft
    <3>1. CallLast /\ Top.node.t = "A_CALL_FINISHED"
      BY <2>2 DEF CallLast, DeliversLast
    <3>2. Held(Top) = 0
      BY <3>1, Kinds DEF Held
    <3>3. free = Level
      BY <1>1, <1>3, <2>2, LevelIs
    <3> QED BY <1>3, <1>4, <3>2, <3>3
  <2> QED BY <2>1, <2>2
<1> HIDE DEF free
<1> QED BY <1>1, <1>2, <1>4, Zenon

\* It writes to that slot.
LEMMA RigidSpares ==
  ASSUME TreesTidy, Room, Types, Calls, Walk, Slots, Calls', Walk', BinaryLeft \/ CallLast
  PROVE  Slots' /\ Spares
<1>1. /\ mode = "return" /\ Rigid(Top) /\ frames # <<>> /\ frames' = Below /\ mode' = "return"
      /\ UNCHANGED <<unit, fn, locals>>
  BY RigidFrees
<1>2. PICK free : /\ acc' = Slot(free) /\ temps' = Up(free)
                  /\ \E op, args : out' = Append(out, Ins(op, free, args, <<>>))
                  /\ \A n \in Nat : n + Held(Top) = Level => free = n
  BY RigidFrees
<1>3. Slots' /\ Under(locals, free) /\ free \in Nat /\ \E lv : Chain(lv, frames', locals, free)
  BY <1>1, <1>2, RigidReturns
<1>4. Awaited(Top)'.t \notin Leaf
  <2>1. Top.node.t # "A_DECL" /\ Top.node.t \notin Leaf
    BY <1>1, Kinds, Sorts DEF Rigid
  <2>2. Awaited(Top)' = Top.node
    BY <1>1, <2>1, WalkReturns
  <2> QED BY <2>1, <2>2
<1>5. PICK lv : Chain(lv, frames', locals, free)
  BY <1>3
<1>6. SparesOperands(free) /\ SparesVariables(free)
  BY <1>3, <1>4, <1>5, SparesAbove, SparesUnder
<1>7. PICK op, args : out' = Append(out, Ins(op, free, args, <<>>))
  BY <1>2
<1>8. Spares
  BY <1>6, <1>7, Targets, PrintedOne
<1> QED BY <1>3, <1>8

\* A copy to a variable.
LEMMA CopySpares ==
  ASSUME TreesTidy, Room, Types, Calls, Walk, Slots, DeclAssignment \/ Assignment
  PROVE  Slots' /\ (Calls' => Spares)
<1>1. CASE DeclAssignment
  <2>1. /\ Slots' /\ \A k \in 1..Len(frames') : ~ Exact(frames'[k])
        /\ Under(locals, Release(temps, acc)) /\ Release(temps, acc) \in Nat
    BY <1>1, DeclAssignmentSlots
  <2>2. out' = Append(out, Copy(Release(temps, acc), acc))
    BY <1>1 DEF DeclAssignment
  <2> DEFINE n == Release(temps, acc)
  <2>3. SparesOperands(n) /\ SparesVariables(n)
    <3> HIDE DEF n
    <3>1. n \in Nat /\ Under(locals, n)
      BY <2>1 DEF n
    <3> QED BY <2>1, <3>1, SparesAll, SparesUnder
  <2> QED BY <2>1, <2>2, <2>3, Targets, PrintedOne
<1>2. CASE Assignment /\ Top.dst # -1
  <2>1. /\ Slots' /\ \A k \in 1..Len(frames') : ~ Exact(frames'[k])
        /\ LookUp(Top.node.kids[1].lexeme) = Top.dst
    BY <1>2, AssignmentSlots
  <2>2. out' = Append(out, Copy(Top.dst, acc)) /\ frames # <<>> /\ Top.node.t = "A_ASSIGNMENT"
    BY <1>2 DEF Assignment, Delivers
  <2>3. ASSUME NEW x \in DOMAIN locals, Top.dst = locals[x]
        PROVE  AssignsTo(x)
    <3> DEFINE y == Top.node.kids[1].lexeme
    <3>1. y \in DOMAIN locals /\ locals[y] = Top.dst
      BY <1>2, <2>1 DEF LookUp
    <3>2. x = y
      BY <2>3, <3>1 DEF Slots, Distinct
    <3> QED BY <2>2, <3>2 DEF AssignsTo
  <2>4. SparesOperands(Top.dst) /\ SparesVariables(Top.dst)
    BY <2>1, <2>3, SparesAll DEF SparesVariables
  <2> QED BY <2>1, <2>2, <2>4, Targets, PrintedOne
<1>3. CASE Assignment /\ Top.dst = -1
  <2>1. Stop("segv")
    BY <1>3 DEF Assignment
  <2>2. Slots' /\ out' = out
    BY <2>1 DEF Stop, Slots, Distinct
  <2> QED BY <2>2, PrintedNothing
<1> QED BY <1>1, <1>2, <1>3

\* Code that writes to one slot at most.
Into(p, d) == \A k \in 1..Len(p) : p[k].dst \in {-1, d}

\* Two pieces of such code make one.
LEMMA IntoJoined ==
  ASSUME NEW p \in Code, NEW q \in Code, NEW d, Into(p, d), Into(q, d)
  PROVE  Into(p \o q, d) /\ p \o q \in Code
<1>1. /\ p \o q \in Code /\ Len(p \o q) = Len(p) + Len(q) /\ Len(p) \in Nat /\ Len(q) \in Nat
      /\ \A k \in 1..Len(p) + Len(q) : (p \o q)[k] = IF k <= Len(p) THEN p[k] ELSE q[k - Len(p)]
  BY DEF Code
<1>2. \A k \in 1..Len(p) + Len(q) : k \in 1..Len(p) \/ (~ (k <= Len(p)) /\ k - Len(p) \in 1..Len(q))
  BY <1>1
<1>3. \A k \in 1..Len(p) : k \in 1..Len(p) + Len(q) /\ k <= Len(p)
  BY <1>1
<1> QED BY <1>1, <1>2, <1>3 DEF Into

\* The parts of a branch.
LEMMA IntoParts ==
  ASSUME NEW d, NEW v, NEW l, NEW m
  PROVE  /\ Into(BranchValue(d, v), d) /\ Into(<<>>, d) /\ Into(<<Jmp(l)>>, d) /\ Into(<<Define(l)>>, d)
         /\ Into(<<Jmp(l), Define(m)>>, d) /\ Into(Branch(v, l, m), d)
<1>1. \A i, j : (i.dst \in {-1, d} => Into(<<i>>, d)) /\ (i.dst \in {-1, d} /\ j.dst \in {-1, d} => Into(<<i, j>>, d))
  BY DEF Into
<1>2. Into(<<>>, d)
  BY DEF Into
<1>3. Into(BranchValue(d, v), d)
  BY <1>1, <1>2, Targets DEF BranchValue
<1>4. Into(<<Jmp(l)>>, d) /\ Into(<<Define(l)>>, d)
  <2>1. Jmp(l).dst \in {-1, d} /\ Define(l).dst \in {-1, d}
    BY Targets
  <2> QED BY <1>1, <2>1
<1>5. Into(<<Jmp(l), Define(m)>>, d)
  <2>1. Jmp(l).dst \in {-1, d} /\ Define(m).dst \in {-1, d}
    BY Targets
  <2> QED BY <1>1, <2>1
<1>6. Into(Branch(v, l, m), d)
  <2>1. Jnz(v, l, m).dst \in {-1, d} /\ Define(l).dst \in {-1, d}
    BY Targets
  <2> QED BY <1>1, <2>1 DEF Branch
<1> QED BY <1>2, <1>3, <1>4, <1>5, <1>6

\* A step that prints such code.
LEMMA PrintedInto ==
  ASSUME Types, Calls', NEW p \in Code, NEW d, out' = out \o p, Into(p, d),
         SparesVariables(d) /\ SparesOperands(d)
  PROVE  Spares
<1>1. SparesVariables(-1) /\ SparesOperands(-1)
  BY NoSlot
<1>2. \A k \in 1..Len(p) : SparesVariables(p[k].dst) /\ SparesOperands(p[k].dst)
  BY <1>1 DEF Into
<1> QED BY <1>2, PrintedMore DEF Code

\* The value of a branch, which goes where no variable is, and its labels.
LEMMA CondSpares ==
  ASSUME TreesTidy, Room, Types, Calls, Walk, Slots, Calls', CondTest \/ CondThen \/ CondElse
  PROVE  Slots' /\ Spares
<1> DEFINE free == Release(temps, acc)
           exit == Top.labels[3]
<1>1. mode = "return" /\ frames # <<>> /\ Top.node.t = "A_COND" /\ UNCHANGED <<unit, fn, locals>> /\ Delivered
  BY Delivery DEF CondTest, CondThen, CondElse, Delivers
<1>2. Under(locals, free) /\ free \in Nat /\ free \in SlotNumber
  BY <1>1, CondValue DEF Delivered
<1>3. SparesVariables(free)
  BY <1>2, SparesUnder
<1>4. out \in Code /\ acc \in Val
  BY DEF Types
<1>5. CASE CondTest
  <2>1. Tested \in Frames /\ Tested.node = Top.node /\ Tested.vals = Kept.vals
    <3>1. ids \in Nat
      BY DEF Types
    <3> QED BY <1>1, <1>5, <3>1, NewTest DEF GoodFrame
  <2>2. Descend(Tested, 2) /\ Len(Top.vals) + 1 = 1 /\ temps' = Release(temps, acc)
        /\ \E yes, no : out' = out \o Branch(acc, yes, no)
    BY <1>5 DEF CondTest, Tested, Delivers
  <2>3. Len(Tested.vals) + 1 = 2
    <3>1. Len(Tested.vals) = Len(Top.vals) + 1
      BY <1>1, <2>1 DEF Delivered
    <3> QED BY <2>2, <3>1
  <2>4. Descend(Tested, Len(Tested.vals) + 1)
    BY <2>2, <2>3, Zenon
  <2>5. Slots'
    BY <1>1, <2>1, <2>2, <2>4, BranchSlots
  <2>6. PICK yes, no : out' = out \o Branch(acc, yes, no)
    BY <2>2
  <2>7. out' = out \o <<Jnz(acc, yes, no), Define(yes)>>
    BY <2>6 DEF Branch
  <2>8. Spares
    <3> DEFINE p == <<Jnz(acc, yes, no), Define(yes)>>
    <3>1. p \in Seq({Jnz(acc, yes, no), Define(yes)}) /\ Len(p) = 2
          /\ p[1] = Jnz(acc, yes, no) /\ p[2] = Define(yes)
      OBVIOUS
    <3>2. out' = out \o p
      BY <2>7
    <3> HIDE DEF p
    <3>3. \A k \in 1..Len(p) : p[k].dst = -1
      <4>1. \A k \in 1..Len(p) : k = 1 \/ k = 2
        BY <3>1
      <4> QED BY <3>1, <4>1, Targets
    <3> QED BY <3>1, <3>2, <3>3, PrintedLabels
  <2> QED BY <2>5, <2>8
<1>6. CASE CondThen \/ CondElse
  <2>1. Labelled(Top) /\ GoodFrame(Top)
    <3>1. Len(Top.vals) + 1 \in {2, 3}
      BY <1>6 DEF CondThen, CondElse, Delivers
    <3>2. Len(Top.vals) \in Nat
      BY <1>1 DEF Delivered
    <3>3. Len(Top.vals) > 0
      BY <3>1, <3>2
    <3> QED BY <1>1, <3>3 DEF Labelled, Delivered
  <2>2. Top.labels[2] \in Label /\ exit \in Label
    BY <2>1, ItsLabels
  <2>3. /\ BranchValue(free, acc) \in Code /\ <<Define(exit)>> \in Code /\ <<Jmp(exit)>> \in Code
        /\ <<Define(Top.labels[2])>> \in Code /\ <<>> \in Code
    BY <1>2, <1>4, <2>2, Branching
  <2> HIDE DEF free
  <2>4. /\ Into(BranchValue(free, acc), free) /\ Into(<<>>, free) /\ Into(<<Jmp(exit)>>, free)
        /\ Into(<<Define(exit)>>, free) /\ Into(<<Define(Top.labels[2])>>, free)
    BY IntoParts
  <2>5. Slots' /\ \A k \in 1..Len(frames') : ~ Exact(frames'[k])
    <3>1. CASE CondThen /\ HasElse
      <4>1. Descend(Kept, 3) /\ temps' = Release(temps, acc) /\ Len(Top.vals) + 1 = 2
        BY <3>1 DEF CondThen, Delivers
      <4>2. Len(Kept.vals) + 1 = 3 /\ Kept \in Frames /\ Kept.node = Top.node
        BY <1>1, <4>1 DEF Delivered
      <4>3. Descend(Kept, Len(Kept.vals) + 1)
        BY <4>1, <4>2, Zenon
      <4>4. Slots'
        BY <1>1, <4>1, <4>2, <4>3, BranchSlots
      <4>5. \A k \in 1..Len(frames') : ~ Exact(frames'[k])
        <5>1. ~ Exact(Kept) /\ \A k \in 1..Len(frames) : ~ Exact(frames[k])
          <6>1. ~ Exact(Top) /\ ~ Exact(Kept)
            BY <1>1, <4>2, Kinds DEF Exact, Rigid
          <6> QED BY <1>1, <6>1, Answered
        <5>2. frames' = Append(Front(frames), Kept) /\ frames \in Seq(Frames)
          BY <4>1 DEF Descend, Below, Calls, Stack
        <5>3. /\ Len(frames) \in Nat \ {0} /\ Front(frames) \in Seq(Frames) /\ Len(Front(frames)) = Len(frames) - 1
              /\ \A k \in 1..Len(frames)-1 : Front(frames)[k] = frames[k]
          BY <1>1, <5>2, FrontIs
        <5>4. /\ Len(frames') = (Len(frames) - 1) + 1 /\ frames'[(Len(frames) - 1) + 1] = Kept
              /\ \A k \in 1..Len(frames)-1 : frames'[k] = frames[k]
          BY <4>2, <5>2, <5>3, Appended
        <5>5. \A k \in 1..(Len(frames) - 1) + 1 : k \in 1..Len(frames)-1 \/ k = (Len(frames) - 1) + 1
          BY <5>3
        <5>6. \A k \in 1..Len(frames)-1 : k \in 1..Len(frames)
          BY <5>3
        <5> QED BY <5>1, <5>4, <5>5, <5>6
      <4> QED BY <4>4, <4>5
    <3>2. CASE CondElse \/ (CondThen /\ ~ HasElse)
      <4>1. frames' = Below /\ mode' = "return" /\ acc' = Slot(Release(temps, acc)) /\ temps' = Up(Release(temps, acc))
        BY <3>2 DEF CondThen, CondElse, Return
      <4> QED BY <1>1, <4>1, CondReturns
    <3> QED BY <1>6, <3>1, <3>2
  <2>6. \E p \in Code : out' = out \o p /\ Into(p, free)
    <3> DEFINE v == BranchValue(free, acc)
               j == IF acc = Returned THEN <<>> ELSE <<Jmp(exit)>>
               e == IF ThenReturned THEN <<>> ELSE <<Define(exit)>>
               d == <<Define(Top.labels[2])>>
               x == <<Define(exit)>>
    <3>1. out' = ((out \o v) \o j) \o d \/ out' = (out \o v) \o x \/ out' = (out \o v) \o e
      <4>1. CASE CondThen /\ HasElse
        BY <4>1 DEF CondThen, free
      <4>2. CASE CondThen /\ ~ HasElse
        BY <4>2 DEF CondThen, free
      <4>3. CASE CondElse
        BY <4>3 DEF CondElse, free
      <4> QED BY <1>6, <4>1, <4>2, <4>3
    <3>2. /\ v \in Code /\ j \in Code /\ d \in Code /\ x \in Code /\ e \in Code
          /\ Into(v, free) /\ Into(j, free) /\ Into(d, free) /\ Into(x, free) /\ Into(e, free)
      BY <2>3, <2>4
    <3> HIDE DEF v, j, e, d, x
    <3>3. v \o j \in Code /\ Into(v \o j, free)
      BY <3>2, IntoJoined
    <3>4. /\ (v \o j) \o d \in Code /\ v \o x \in Code /\ v \o e \in Code
          /\ Into((v \o j) \o d, free) /\ Into(v \o x, free) /\ Into(v \o e, free)
      BY <3>2, <3>3, IntoJoined
    <3>5. /\ (out \o v) \o j = out \o (v \o j) /\ (out \o (v \o j)) \o d = out \o ((v \o j) \o d)
          /\ (out \o v) \o x = out \o (v \o x) /\ (out \o v) \o e = out \o (v \o e)
      <4>1. (out \o v) \o j = out \o (v \o j)
        BY <1>4, <3>2, Joining
      <4>2. (out \o (v \o j)) \o d = out \o ((v \o j) \o d)
        <5>1. out \in Code /\ v \o j \in Code /\ d \in Code
          BY <1>4, <3>2, <3>3
        <5> QED BY <5>1, Joining, Zenon
      <4>3. (out \o v) \o x = out \o (v \o x)
        BY <1>4, <3>2, Joining
      <4>4. (out \o v) \o e = out \o (v \o e)
        BY <1>4, <3>2, Joining
      <4> QED BY <4>1, <4>2, <4>3, <4>4, Zenon
    <3> QED BY <3>1, <3>4, <3>5
  <2>7. PICK p \in Code : out' = out \o p /\ Into(p, free)
    BY <2>6
  <2>8. SparesOperands(free)
    BY <2>5, SparesAll
  <2> QED BY <1>3, <2>5, <2>7, <2>8, PrintedInto
<1> QED BY <1>5, <1>6

\* Loops and returns print no slot.
LEMMA LoopSpares ==
  ASSUME TreesTidy, Types, Calls, Walk, Slots, Calls', WhileTest \/ WhileBody \/ ReturnValue \/ EvalWhile \/ BeginFunction
  PROVE  Spares
<1>1. CASE WhileTest \/ WhileBody
  <2>1. \E i, j : out' = out \o <<i, j>> /\ i.dst = -1 /\ j.dst = -1
    <3>1. CASE WhileTest
      <4> DEFINE a == Jnz(acc, Top.labels[2], Top.labels[3])
                 b == Define(Top.labels[2])
      <4>1. out' = out \o <<a, b>>
        BY <3>1 DEF WhileTest, Branch
      <4>2. a.dst = -1 /\ b.dst = -1
        BY Targets
      <4> HIDE DEF a, b
      <4> QED BY <4>1, <4>2
    <3>2. CASE WhileBody
      <4> DEFINE a == Jmp(Top.labels[1])
                 b == Define(Top.labels[3])
      <4>1. out' = out \o <<a, b>>
        BY <3>2 DEF WhileBody
      <4>2. a.dst = -1 /\ b.dst = -1
        BY Targets
      <4> HIDE DEF a, b
      <4> QED BY <4>1, <4>2
    <3> QED BY <1>1, <3>1, <3>2
  <2>2. PICK i, j : out' = out \o <<i, j>> /\ i.dst = -1 /\ j.dst = -1
    BY <2>1
  <2> DEFINE p == <<i, j>>
  <2>3. p \in Seq({i, j}) /\ Len(p) = 2 /\ p[1] = i /\ p[2] = j
    OBVIOUS
  <2>4. out' = out \o p
    BY <2>2
  <2> HIDE DEF p
  <2>5. \A k \in 1..Len(p) : p[k].dst = -1
    <3>1. \A k \in 1..Len(p) : k = 1 \/ k = 2
      BY <2>3
    <3> QED BY <2>2, <2>3, <3>1
  <2> QED BY <2>3, <2>4, <2>5, PrintedLabels
<1>2. CASE ReturnValue \/ EvalWhile
  <2>1. \E i : out' = Append(out, i) /\ i.dst = -1
    BY <1>2, Targets DEF ReturnValue, EvalWhile
  <2> QED BY <2>1, NoSlot, PrintedOne
<1>3. CASE BeginFunction
  <2>1. out' = <<Define(Lab("start", -1))>>
    BY <1>3 DEF BeginFunction
  <2>2. Len(out) \in Nat /\ Len(out') = 1 /\ out'[1].dst = -1
    BY <2>1, CodeIs, Targets
  <2>3. \A k \in Printed : k = 1
    BY <2>2 DEF Printed
  <2> QED BY <2>2, <2>3, NoSlot DEF Spares
<1> QED BY <1>1, <1>2, <1>3

\* Every step keeps the slots, and spares what is in them.
LEMMA Stepping ==
  ASSUME TreesTidy, Room, Types, Calls, Walk, Slots, Calls', Walk', [Next]_vars
  PROVE  Slots' /\ Spares
<1>1. CASE UNCHANGED vars
  <2>1. UNCHANGED <<mode, cur, acc, frames, temps, locals, out>>
    BY <1>1 DEF vars
  <2>2. Slots'
    BY <2>1 DEF Slots, Counter, Distinct, Level, Top, Awaited
  <2> QED BY <2>1, <2>2, PrintedNothing
<1>2. CASE EvalVoid \/ EvalLiteral \/ EvalIdent \/ EvalDeclLocal \/ EvalUnknown
  <2>1. out' = out
    BY <1>2 DEF EvalVoid, EvalLiteral, EvalIdent, EvalDeclLocal, EvalUnknown, Stop
  <2> QED BY <1>2, <2>1, LeavesSlots, PrintedNothing
<1>3. CASE EvalBinary \/ EvalDeclAssignment \/ EvalAssignment \/ EvalCond \/ EvalReturn \/ EvalBlock
  <2>1. out' = out
    BY <1>3 DEF EvalBinary, EvalDeclAssignment, EvalAssignment, EvalCond, EvalReturn, EvalBlock, Stop
  <2> QED BY <1>3, <2>1, EntersSlots, PrintedNothing
<1>4. CASE EvalCall
  <2>1. \/ out' = out
        \/ /\ mode = "eval" /\ cur.t = "A_CALL_FINISHED" /\ UNCHANGED frames
           /\ out' = Append(out, Ins("call", temps, <<>>, <<>>))
    BY <1>4 DEF EvalCall, Evals, Stop
  <2> QED BY <1>4, <2>1, EntersSlots, PrintedNothing, CallSpares
<1>5. CASE EvalWhile
  BY <1>5, EntersSlots, LoopSpares
<1>6. CASE BinaryRight \/ CallArgument \/ NextStatement
  <2>1. out' = out
    BY <1>6 DEF BinaryRight, CallArgument, NextStatement
  <2> QED BY <1>6, <2>1, BinaryRightSlots, CallArgumentSlots, NextStatementSlots, PrintedNothing
<1>7. CASE WhileTest
  <2>1. /\ mode = "return" /\ frames # <<>> /\ Top.node.t = "A_WHILE" /\ Len(Top.vals) + 1 = 1 /\ Descend(Kept, 2)
        /\ UNCHANGED <<unit, fn, temps, locals>>
    BY <1>7 DEF WhileTest, Delivers
  <2>2. Kept \in Frames /\ Kept.node = Top.node /\ Len(Kept.vals) + 1 = 2
    BY <2>1, Delivery DEF Delivered
  <2>3. Descend(Kept, Len(Kept.vals) + 1)
    BY <2>1, <2>2, Zenon
  <2> QED BY <1>7, <2>1, <2>2, <2>3, BranchSlots, LoopSpares
<1>8. CASE CondTest \/ CondThen \/ CondElse
  BY <1>8, CondSpares
<1>9. CASE BinaryLeft \/ CallLast
  BY <1>9, RigidSpares
<1>10. CASE DeclAssignment \/ Assignment
  BY <1>10, CopySpares
<1>11. CASE WhileBody \/ ReturnValue
  BY <1>11, LastReturns, LoopSpares
<1>12. CASE BlockLast
  <2>1. out' = out
    BY <1>12 DEF BlockLast
  <2> QED BY <1>12, <2>1, LastReturns, PrintedNothing
<1>13. CASE BeginFunction
  BY <1>13, FunctionsSlots, LoopSpares
<1>14. CASE EndFunction \/ EndUnit
  <2>1. out' = out
    BY <1>14 DEF EndFunction, EndUnit, Stop
  <2> QED BY <1>14, <2>1, FunctionsSlots, PrintedNothing
<1> QED BY <1>1, <1>2, <1>3, <1>4, <1>5, <1>6, <1>7, <1>8, <1>9, <1>10, <1>11, <1>12, <1>13, <1>14 DEF Next

\* The slots are in place in every state of tidy trees, as long as the counter has
\* room.
Placing == Types /\ Calls /\ Walk /\ Slots

\* At first nothing is under way and no variable is declared.
LEMMA PlacedFirst == Init => Placing
<1> SUFFICES ASSUME Init PROVE Placing
  OBVIOUS
<1>1. Types /\ Calls
  BY TypesAtFirst
<1>2. mode = "function" /\ frames = <<>> /\ locals = <<>> /\ Len(frames) = 0
  BY DEF Init
<1>3. Walk /\ Slots
  BY <1>2 DEF Walk, Slots, Distinct
<1> QED BY <1>1, <1>3 DEF Placing

\* Every step keeps it, and spares the variables and the operands.
LEMMA PlacedStill ==
  ASSUME TreesTidy, Room, Placing, [Next]_vars
  PROVE  Placing' /\ Spares
<1>1. Types' /\ Calls' /\ Walk'
  BY Typing, Walking DEF Placing
<1> QED BY <1>1, Stepping DEF Placing

\* Codegen.VariablesKept: no instruction writes the slot of a variable declared
\* before but the copy of an assignment to it, whatever tidy trees are compiled, as
\* long as the counter does not wrap.
THEOREM CodegenVariables == TreesTidy /\ Spec /\ []Room => VariablesKept
<1>1. TreesTidy /\ Room /\ Placing /\ [Next]_vars => Placing'
  BY PlacedStill
<1>2. TreesTidy /\ Room /\ Placing /\ [Next]_vars =>
        [mode # "function" =>
           \A i \in Printed : \A x \in DOMAIN locals : out'[i].dst = locals[x] => AssignsTo(x)]_vars
  BY PlacedStill DEF Spares, SparesVariables
<1>3. TreesTidy => TreesTidy'
  BY DEF TreesTidy
<1> QED BY <1>1, <1>2, <1>3, PlacedFirst, PTL DEF Spec, VariablesKept

\* Codegen.OperandsKept: nor does one write the slot of an operand or an argument
\* that is still to be read.
THEOREM CodegenOperands == TreesTidy /\ Spec /\ []Room => OperandsKept
<1>1. TreesTidy /\ Room /\ Placing /\ [Next]_vars => Placing'
  BY PlacedStill
<1>2. TreesTidy /\ Room /\ Placing /\ [Next]_vars =>
        [\A i \in Printed : \A k \in DOMAIN frames' :
           LET f == frames'[k]
           IN  f.node.t \in BinaryTypes \cup {"A_CALL_FINISHED"} =>
                 \A j \in DOMAIN f.vals : f.vals[j] # Slot(out'[i].dst)]_vars
  <2> SUFFICES ASSUME TreesTidy, Room, Placing, [Next]_vars, NEW i \in Printed, NEW k \in DOMAIN frames',
                      frames'[k].node.t \in BinaryTypes \cup {"A_CALL_FINISHED"},
                      NEW j \in DOMAIN frames'[k].vals
               PROVE  frames'[k].vals[j] # Slot(out'[i].dst)
    OBVIOUS
  <2>1. Placing' /\ Spares
    BY PlacedStill
  <2>2. frames' \in Seq(Frames)
    BY <2>1 DEF Placing, Calls, Stack
  <2>3. k \in 1..Len(frames')
    BY <2>2
  <2>4. frames'[k].vals \in Seq(Val)
    <3>1. frames'[k] \in Frames
      BY <2>2, <2>3, ElementOfSeq
    <3> QED BY <3>1 DEF Frames
  <2>5. j \in 1..Len(frames'[k].vals)
    BY <2>4
  <2> QED BY <2>1, <2>3, <2>5 DEF Spares, SparesOperands, Rigid
<1>3. TreesTidy => TreesTidy'
  BY DEF TreesTidy
<1> QED BY <1>1, <1>2, <1>3, PlacedFirst, PTL DEF Spec, OperandsKept

-----------------------------------------------------------------------------
(***************************************************************************)
(* Parameters: each function begins with the counter at zero, because the  *)
(* one before it ended in a return.                                        *)
(***************************************************************************)
UnitsBegin == \A u \in Units : \A i \in 1..Len(u) : ParamsFirst(u[i])

\* The statements of the function compiled so far.
Begun == Len(frames[1].vals) + (IF mode = "return" THEN 1 ELSE 0)

\* As long as only parameters have been compiled, the counter counts them and
\* each has the slot of its place; a return leaves the counter at zero.
Starts ==
  /\ mode = "function" => temps = 0
  /\ mode \in {"eval", "return"} /\ Len(frames) = 1 =>
       /\ Begun <= Len(unit[fn].params) =>
            temps = Begun /\ \A i \in 1..Begun : LookUp(unit[fn].params[i]) = i - 1
       /\ mode = "return" /\ Awaited(frames[1]).t = "A_RET" => temps = 0

\* What a function waits for: its statements in turn, the parameters first.
LEMMA StatementAwaited ==
  ASSUME UnitsBegin, Types, Calls, Walk, frames # <<>>
  PROVE  /\ fn \in 1..Len(unit) /\ ParamsFirst(unit[fn]) /\ unit[fn].params \in Seq(Names)
         /\ unit[fn].body \in Seq(Trees)
         /\ frames \in Seq(Frames) /\ Len(frames) \in Nat \ {0} /\ frames[1].node = FunctionNode(unit[fn])
         /\ Len(frames[1].vals) \in Nat
         /\ Len(frames[1].vals) + 1 \in 1..Len(unit[fn].body)
         /\ Awaited(frames[1]) = unit[fn].body[Len(frames[1].vals) + 1]
         /\ Len(frames[1].vals) + 1 <= Len(unit[fn].params) =>
              /\ Awaited(frames[1]).t = "A_DECL_LOCAL"
              /\ Awaited(frames[1]).lexeme = unit[fn].params[Len(frames[1].vals) + 1]
<1>1. /\ fn \in 1..Len(unit) /\ frames[1].node = FunctionNode(unit[fn])
      /\ unit \in Units /\ unit \in Seq([name : Names, params : Seq(Names), body : Seq(Trees)])
  BY UnitsAssumption DEF Walk, Types
<1>2. ParamsFirst(unit[fn])
  BY <1>1 DEF UnitsBegin
<1>3. unit[fn] \in [name : Names, params : Seq(Names), body : Seq(Trees)]
  BY <1>1, ElementOfSeq
<1>4. frames \in Seq(Frames) /\ Len(frames) \in Nat \ {0}
  BY FrontIs DEF Calls, Stack
<1>5. 1 \in 1..Len(frames)
  BY <1>4
<1>6. GoodFrame(frames[1]) /\ Len(frames[1].vals) \in Nat
  BY <1>5, OnThePath
<1>7. Children(frames[1].node) = unit[fn].body
  BY <1>1 DEF Children, FunctionNode
<1>8. Len(frames[1].vals) + 1 \in 1..Len(unit[fn].body)
  <2>1. Len(frames[1].vals) < Len(unit[fn].body) /\ Len(unit[fn].body) \in Nat
    BY <1>3, <1>6, <1>7 DEF GoodFrame
  <2> QED BY <1>6, <2>1
<1>9. Awaited(frames[1]) = unit[fn].body[Len(frames[1].vals) + 1]
  BY <1>7 DEF Awaited
<1>10. Len(frames[1].vals) + 1 <= Len(unit[fn].params) => Len(frames[1].vals) + 1 \in 1..Len(unit[fn].params)
  BY <1>3, <1>6
<1> QED BY <1>1, <1>2, <1>3, <1>4, <1>6, <1>8, <1>9, <1>10 DEF ParamsFirst

\* A call more, or one that goes on above the function, says nothing of it.
LEMMA StartsAbove ==
  ASSUME mode' \in {"eval", "return"}, Len(frames') # 1
  PROVE  Starts'
  BY DEF Starts

\* Nor does a call that stops.
LEMMA StartsStop ==
  ASSUME mode' \in {"done", "exit69", "segv"}
  PROVE  Starts'
  BY DEF Starts

\* A call returns to the function: what it compiled is no parameter.
LEMMA StartsReturns ==
  ASSUME UnitsBegin, Types, Calls, Walk, Types', Calls', frames # <<>>,
         Top.node.t # "A_DECL", Top.node.t # "A_DECL_LOCAL",
         frames' = Below, mode' = "return", UNCHANGED <<unit, fn>>, Top.node.t = "A_RET" => temps' = 0
  PROVE  Starts'
<1>1. CASE Len(frames') # 1
  BY <1>1, StartsAbove
<1>2. CASE Len(frames') = 1
  <2>1. /\ frames' # <<>> /\ Awaited(Top)' = Top.node /\ Len(frames') = Len(frames) - 1
        /\ \A k \in 1..Len(frames)-1 : frames'[k] = frames[k]
    BY WalkReturns
  <2>2. frames'[1] = frames[1]
    <3>1. 1 \in 1..Len(frames)-1
      BY <1>2, <2>1
    <3> QED BY <2>1, <3>1
  <2>3. Top' = frames'[1]
    BY <1>2, <2>1 DEF Top, Last
  <2>4. Awaited(frames'[1]) = Top.node
    BY <2>1, <2>3 DEF Awaited
  <2>6. /\ Len(frames'[1].vals) \in Nat /\ unit'[fn'].params \in Seq(Names)
        /\ Len(frames'[1].vals) + 1 <= Len(unit'[fn'].params) => Awaited(frames'[1]).t = "A_DECL_LOCAL"
    BY <2>2, StatementAwaited
  <2>7. Begun' = Len(frames'[1].vals) + 1
    BY DEF Begun
  <2> QED BY <2>4, <2>6, <2>7 DEF Starts
<1> QED BY <1>1, <1>2

\* A leaf, or a call without arguments, answers; among the parameters only their
\* declarations do.
LEMMA StartsAnswers ==
  ASSUME UnitsBegin, Room, Types, Calls, Walk, Starts, mode = "eval",
         mode' = "return", UNCHANGED <<unit, fn, frames>>, cur.t # "A_RET",
         cur.t = "A_DECL_LOCAL" => EvalDeclLocal
  PROVE  Starts'
<1>1. CASE Len(frames') # 1
  BY <1>1, StartsAbove
<1>2. CASE Len(frames') = 1
  <2> DEFINE n == Len(frames[1].vals)
             params == unit[fn].params
  <2>1. frames # <<>> /\ cur = Awaited(Top)
    BY DEF Walk
  <2>2. Top = frames[1] /\ Len(frames) = 1
    BY <1>2, <2>1 DEF Top, Last
  <2>3. /\ ParamsFirst(unit[fn]) /\ params \in Seq(Names) /\ n \in Nat
        /\ n + 1 <= Len(params) => cur.t = "A_DECL_LOCAL" /\ cur.lexeme = params[n + 1]
    BY <2>1, <2>2, StatementAwaited
  <2>4. Begun = n + 0 /\ Begun' = n + 1
    BY <2>2 DEF Begun
  <2>5. Awaited(frames'[1]).t # "A_RET"
    BY <2>1, <2>2
  <2>6. ASSUME n + 1 <= Len(params)
        PROVE  temps' = n + 1 /\ \A i \in 1..n+1 : LookUp(params[i])' = i - 1
    <3>1. cur.lexeme = params[n + 1] /\ Declare(cur.lexeme, temps) /\ temps' = Up(temps)
      BY <2>3, <2>6 DEF EvalDeclLocal
    <3>2. temps = n /\ \A i \in 1..n : LookUp(params[i]) = i - 1
      <4>1. Begun = n /\ n <= Len(params)
        BY <2>3, <2>4, <2>6
      <4> QED BY <2>2, <4>1 DEF Starts
    <3>3. temps' = n + 1
      BY <2>3, <3>1, <3>2, UpDown DEF Room
    <3>4. /\ DOMAIN locals' = DOMAIN locals \cup {params[n + 1]}
          /\ locals'[params[n + 1]] = n
          /\ \A y \in DOMAIN locals : y # params[n + 1] => locals'[y] = locals[y]
      BY <3>1, <3>2 DEF Declare
    <3>5. ASSUME NEW i \in 1..n+1
          PROVE  LookUp(params[i])' = i - 1
      <4>1. CASE i = n + 1
        BY <2>3, <3>4, <4>1 DEF LookUp
      <4>2. CASE i # n + 1
        <5>1. i \in 1..n /\ i \in 1..Len(params) /\ n + 1 \in 1..Len(params)
          <6>1. n \in Nat /\ Len(params) \in Nat
            BY <2>3
          <6> HIDE DEF n, params
          <6> QED BY <2>6, <4>2, <6>1
        <5>2. params[i] # params[n + 1]
          BY <2>3, <4>2, <5>1 DEF ParamsFirst
        <5>3. LookUp(params[i]) = i - 1 /\ i - 1 # -1
          BY <3>2, <5>1
        <5>4. params[i] \in DOMAIN locals /\ locals[params[i]] = i - 1
          BY <5>3 DEF LookUp
        <5> QED BY <3>4, <5>2, <5>4 DEF LookUp
      <4> QED BY <4>1, <4>2
    <3> QED BY <3>3, <3>5
  <2>7. mode' # "function" /\ params' = params
    BY <2>1
  <2> QED BY <2>4, <2>5, <2>6, <2>7 DEF Starts
<1> QED BY <1>1, <1>2

\* A function begins where the one before it has returned,
LEMMA StartsBegins ==
  ASSUME UnitsBegin, Types, Calls, Walk, Starts, BeginFunction
  PROVE  Starts'
<1> DEFINE f == Frame(FunctionNode(unit[fn + 1]))
<1>1. /\ fn \in 0..Len(unit) /\ fn < Len(unit) /\ frames = <<>> /\ mode = "function"
      /\ unit' = unit /\ fn' = fn + 1 /\ temps' = temps /\ unit \in Units
      /\ unit \in Seq([name : Names, params : Seq(Names), body : Seq(Trees)])
  BY UnitsAssumption DEF BeginFunction, Types, Calls
<1>2. fn + 1 \in 1..Len(unit)
  BY <1>1
<1>3. ParamsFirst(unit[fn + 1]) /\ unit[fn + 1].params \in Seq(Names)
  <2>1. unit[fn + 1] \in [name : Names, params : Seq(Names), body : Seq(Trees)]
    BY <1>1, <1>2, ElementOfSeq
  <2> QED BY <1>1, <1>2, <2>1 DEF UnitsBegin
<1>4. unit[fn + 1].body # <<>>
  BY <1>3 DEF ParamsFirst
<1>5. mode' = "eval" /\ frames' = Append(frames, f)
  BY <1>4 DEF BeginFunction, Enter
<1>6. f.vals = <<>>
  BY DEF Frame
<1> HIDE DEF f
<1>7. frames' = <<f>>
  BY <1>1, <1>5
<1>8. Len(frames') = 1 /\ frames'[1] = f
  BY <1>7
<1>9. Begun' = 0
  BY <1>5, <1>6, <1>8 DEF Begun
<1>10. temps' = 0
  BY <1>1 DEF Starts
<1> QED BY <1>5, <1>9, <1>10 DEF Starts

\* and ends with its last statement, a return.
LEMMA StartsEnds ==
  ASSUME UnitsBegin, Types, Calls, Walk, Starts, EndFunction
  PROVE  Starts'
<1>1. /\ mode = "return" /\ frames # <<>> /\ Top.node.t = "A_DECL" /\ Len(Top.vals) + 1 = Len(Top.node.kids)
      /\ mode' = "function" /\ temps' = temps
  BY DEF EndFunction, DeliversLast
<1>2. Len(frames) = 1 /\ Top.node = FunctionNode(unit[fn])
  BY <1>1, TopOfPath
<1>3. Top = frames[1] /\ Len(frames[1].vals) + 1 = Len(unit[fn].body)
  BY <1>1, <1>2 DEF Top, Last, FunctionNode
<1>4. Awaited(frames[1]) = Last(unit[fn].body) /\ ParamsFirst(unit[fn])
  BY <1>1, <1>3, StatementAwaited DEF Last
<1>5. temps = 0
  BY <1>1, <1>2, <1>4 DEF Starts, ParamsFirst
<1> QED BY <1>1, <1>5 DEF Starts

\* The next statement.
LEMMA StartsNext ==
  ASSUME UnitsBegin, Types, Calls, Walk, Starts, NextStatement
  PROVE  Starts'
<1>1. /\ mode = "return" /\ frames # <<>> /\ Descend(Kept, Len(Top.vals) + 2)
      /\ UNCHANGED <<unit, fn, temps, locals>>
  BY DEF NextStatement, DeliversSome
<1>2. Kept \in Frames /\ Kept.node = Top.node /\ Len(Kept.vals) = Len(Top.vals) + 1 /\ Len(Top.vals) \in Nat
  BY <1>1, Delivery DEF Delivered
<1>3. Descend(Kept, Len(Kept.vals) + 1)
  <2>1. Len(Kept.vals) + 1 = Len(Top.vals) + 2
    BY <1>2
  <2> QED BY <1>1, <2>1, Zenon
<1>4. Len(frames') = Len(frames) /\ frames'[Len(frames)] = Kept /\ mode' = "eval"
  BY <1>1, <1>2, <1>3, WalkGoesOn DEF Descend
<1>5. CASE Len(frames') # 1
  BY <1>4, <1>5, StartsAbove
<1>6. CASE Len(frames') = 1
  <2>1. Len(frames) = 1 /\ Top = frames[1] /\ frames'[1] = Kept
    BY <1>1, <1>4, <1>6 DEF Top, Last
  <2>2. Begun' = Begun
    BY <1>1, <1>2, <1>4, <2>1 DEF Begun
  <2>3. \A x : LookUp(x)' = LookUp(x)
    BY <1>1 DEF LookUp
  <2> QED BY <1>1, <1>4, <2>1, <2>2, <2>3 DEF Starts
<1> QED BY <1>5, <1>6

\* Every step keeps it.
LEMMA Starting ==
  ASSUME UnitsBegin, Room, Types, Calls, Walk, Starts, Types', Calls', Walk', [Next]_vars
  PROVE  Starts'
<1>1. CASE UNCHANGED vars
  <2>1. UNCHANGED <<unit, fn, mode, frames, temps, locals>>
    BY <1>1 DEF vars
  <2> QED BY <2>1 DEF Starts, Begun, LookUp, Awaited
<1>2. CASE EvalVoid \/ EvalLiteral \/ EvalIdent \/ EvalDeclLocal \/ EvalUnknown
  <2>1. mode = "eval" /\ cur.t # "A_RET" /\ (cur.t = "A_DECL_LOCAL" => EvalDeclLocal)
    BY <1>2 DEF EvalVoid, EvalLiteral, EvalIdent, EvalDeclLocal, EvalUnknown, Evals
  <2>2. \/ mode' \in {"exit69", "segv"}
        \/ mode' = "return" /\ UNCHANGED <<unit, fn, frames>>
    BY <1>2 DEF EvalVoid, EvalLiteral, EvalIdent, EvalDeclLocal, EvalUnknown, Return, Stop
  <2> QED BY <2>1, <2>2, StartsAnswers, StartsStop
<1>3. CASE EvalBinary \/ EvalDeclAssignment \/ EvalAssignment \/ EvalCond \/ EvalReturn \/ EvalBlock \/ EvalWhile
           \/ EvalCall
  <2>1. /\ mode = "eval" /\ frames # <<>>
        /\ EvalCall => cur.t # "A_RET" /\ cur.t # "A_DECL_LOCAL"
    BY <1>3 DEF EvalBinary, EvalCall, EvalDeclAssignment, EvalAssignment, EvalCond, EvalReturn, EvalBlock, EvalWhile,
                Evals, Walk
  <2>2. \/ mode' \in {"exit69", "segv"}
        \/ mode' = "eval" /\ \E g : frames' = Append(frames, g)
        \/ EvalCall /\ mode' = "return" /\ UNCHANGED <<unit, fn, frames>>
    BY <1>3, Zenon DEF EvalBinary, EvalCall, EvalDeclAssignment, EvalAssignment, EvalCond, EvalReturn, EvalBlock,
                       EvalWhile, Enter, Return, Stop
  <2>3. ASSUME mode' = "eval", NEW g, frames' = Append(frames, g) PROVE Len(frames') # 1
    <3>1. frames \in Seq(Frames) /\ Len(frames) \in Nat \ {0}
      BY <2>1, TopOfPath DEF Calls, Stack
    <3>2. Len(frames') = Len(frames) + 1
      BY <2>3, <3>1, LastOne
    <3> QED BY <3>1, <3>2
  <2> QED BY <2>1, <2>2, <2>3, StartsAnswers, StartsStop, StartsAbove
<1>4. CASE BinaryRight \/ CallArgument \/ WhileTest \/ CondTest \/ (CondThen /\ HasElse)
  <2>1. mode = "return" /\ frames # <<>> /\ Top.node.t # "A_DECL"
    BY <1>4 DEF BinaryRight, CallArgument, WhileTest, CondTest, CondThen, Delivers, DeliversSome, BinaryTypes, Operation
  <2>2. mode' = "eval" /\ \E g : frames' = Append(Below, g)
    BY <1>4, Zenon DEF BinaryRight, CallArgument, WhileTest, CondTest, CondThen, Descend
  <2>3. Len(frames') # 1
    <3>1. Below \in Seq(Frames) /\ Len(Below) = Len(frames) - 1 /\ Len(frames) \in Nat \ {0, 1}
      BY <2>1, TopOfPath, FrontIs DEF Calls, Stack, Below
    <3>2. Len(frames') = Len(Below) + 1
      BY <2>2, <3>1, LastOne
    <3> QED BY <3>1, <3>2
  <2> QED BY <2>2, <2>3, StartsAbove
<1>5. CASE BinaryLeft \/ CallLast \/ DeclAssignment \/ Assignment \/ WhileBody \/ ReturnValue \/ BlockLast
           \/ CondElse \/ (CondThen /\ ~ HasElse)
  <2>1. /\ mode = "return" /\ frames # <<>> /\ Top.node.t # "A_DECL" /\ Top.node.t # "A_DECL_LOCAL"
        /\ Top.node.t = "A_RET" => ReturnValue
    BY <1>5 DEF BinaryLeft, CallLast, DeclAssignment, Assignment, WhileBody, ReturnValue, BlockLast, CondThen, CondElse,
       Delivers, DeliversLast, BinaryTypes, Operation
  <2>2. \/ mode' = "segv"
        \/ frames' = Below /\ mode' = "return" /\ UNCHANGED <<unit, fn>>
    BY <1>5 DEF BinaryLeft, CallLast, DeclAssignment, Assignment, WhileBody, ReturnValue, BlockLast,
       CondThen, CondElse, Return, Stop
  <2>3. ReturnValue => temps' = 0
    BY DEF ReturnValue, AfterReturn
  <2> QED BY <2>1, <2>2, <2>3, StartsReturns, StartsStop
<1>6. CASE EndUnit
  BY <1>6, StartsStop DEF EndUnit, Stop
<1> QED BY <1>1, <1>2, <1>3, <1>4, <1>5, <1>6, StartsBegins, StartsEnds, StartsNext DEF Next

\* Codegen.ParamsInPlace, in every reachable state: the parameters of each function
\* are where its header says when its first statement begins, although the slots
\* go on from the function before, because that one ended in a return.
THEOREM CodegenParams == UnitsBegin /\ Spec /\ []Room => []ParamsInPlace
<1>1. Init => Types /\ Calls /\ Walk /\ Starts
  <2> SUFFICES ASSUME Init PROVE Types /\ Calls /\ Walk /\ Starts
    OBVIOUS
  <2>1. Placing /\ mode = "function" /\ temps = 0
    BY PlacedFirst DEF Init
  <2> QED BY <2>1 DEF Placing, Starts
<1>2. UnitsBegin /\ Room /\ Types /\ Calls /\ Walk /\ Starts /\ [Next]_vars
        => Types' /\ Calls' /\ Walk' /\ Starts'
  BY Typing, Walking, Starting
<1>3. Types /\ Calls /\ Walk /\ Starts => ParamsInPlace
  <2> SUFFICES ASSUME Types, Calls, Walk, Starts, mode = "eval", Len(frames) = 1,
                      Len(frames[1].vals) = Len(unit[fn].params)
               PROVE  \A i \in 1..Len(unit[fn].params) : LookUp(unit[fn].params[i]) = i - 1
    BY DEF ParamsInPlace
  <2>1. Begun = Len(frames[1].vals) + 0
    BY DEF Begun
  <2>2. Len(frames[1].vals) \in Nat
    BY TopOfPath DEF Walk, Top, Last
  <2> QED BY <2>1, <2>2 DEF Starts
<1>4. UnitsBegin => UnitsBegin'
  BY DEF UnitsBegin
<1> QED BY <1>1, <1>2, <1>3, <1>4, PTL DEF Spec

-----------------------------------------------------------------------------
(***************************************************************************)
(* Void marks: in straight code the counter stands above the variables by  *)
(* exactly what the calls under way hold.                                  *)
(***************************************************************************)
UnitsVoided == \A u \in Units : \A i \in 1..Len(u) : ValuesVoided(u[i])

Declares(node) == node.t \in {"A_DECL_LOCAL", "A_DECL_ASSIGNMENT"}

\* Where the counter stood when each call but the outermost took what it holds.
Ladder(lv, fs, base, level) ==
  /\ lv \in Seq(Int) /\ Len(lv) = Len(fs)
  /\ lv[1] = base /\ lv[Len(fs)] = level
  /\ \A k \in 2..Len(fs) : lv[k] = lv[k-1] + Held(fs[k])

\* A statement of straight code begins at the number of declarations before it,
\* a mark one above, and one that leaves a value or a variable adds one.
Balanced ==
  mode \in {"eval", "return"} /\ Straight =>
    /\ \A k \in 2..Len(frames) : Exact(frames[k])
    /\ Len(frames) # 1 => \E lv : Ladder(lv, frames, Cardinality(Declared), Level)
    /\ Len(frames) = 1 =>
         /\ mode = "eval" => temps = Cardinality(Declared) + (IF cur.t = "EXPR_TO_VOID" THEN 1 ELSE 0)
         /\ mode = "return" =>
              temps = Cardinality(Declared) + (IF Awaited(frames[1]).t = "EXPR_TO_VOID" THEN 0 ELSE 1)

\* A call more.
LEMMA LadderGrows ==
  ASSUME NEW fs \in Seq(Frames), fs # <<>>, NEW f \in Frames, NEW lv, NEW base, NEW level \in Int,
         Ladder(lv, fs, base, level)
  PROVE  Ladder(Append(lv, level + Held(f)), Append(fs, f), base, level + Held(f))
<1> DEFINE m  == Len(fs)
           n  == level + Held(f)
           gs == Append(fs, f)
           mv == Append(lv, n)
<1>1. lv \in Seq(Int) /\ Len(lv) = m /\ m \in Nat \ {0} /\ n \in Int
  BY HeldIs, FrontIs DEF Ladder
<1>2. /\ Len(gs) = m + 1 /\ gs[m + 1] = f /\ \A k \in 1..m : gs[k] = fs[k]
  BY Appended
<1>3. /\ mv \in Seq(Int) /\ Len(mv) = m + 1 /\ mv[m + 1] = n /\ \A k \in 1..m : mv[k] = lv[k]
  BY <1>1, Appended
<1> HIDE DEF gs, mv
<1>4. mv[1] = base /\ mv[m] = level
  <2>1. 1 \in 1..m /\ m \in 1..m
    BY <1>1
  <2> QED BY <1>3, <2>1 DEF Ladder
<1>5. ASSUME NEW k \in 2..m+1
      PROVE  mv[k] = mv[k-1] + Held(gs[k])
  <2>1. CASE k = m + 1
    <3>1. k - 1 = m
      BY <1>1, <2>1
    <3> QED BY <1>2, <1>3, <1>4, <2>1, <3>1
  <2>2. CASE k # m + 1
    <3>1. k \in 2..m /\ k \in 1..m /\ k - 1 \in 1..m
      BY <1>1, <2>2
    <3> QED BY <1>2, <1>3, <3>1 DEF Ladder
  <2> QED BY <2>1, <2>2
<1>6. Ladder(mv, gs, base, n)
  BY <1>2, <1>3, <1>4, <1>5 DEF Ladder
<1> QED BY <1>6 DEF gs, mv

\* A call less.
LEMMA LadderShrinks ==
  ASSUME NEW fs \in Seq(Frames), fs # <<>>, Len(fs) # 1, NEW lv, NEW base, NEW level \in Int,
         Ladder(lv, fs, base, level)
  PROVE  Ladder(Front(lv), Front(fs), base, level - Held(Last(fs)))
<1> DEFINE m  == Len(fs)
           gs == Front(fs)
           mv == Front(lv)
           n  == level - Held(Last(fs))
<1>1. lv \in Seq(Int) /\ Len(lv) = m /\ m \in Nat \ {0, 1} /\ lv # <<>> /\ Last(fs) = fs[m]
  BY FrontIs DEF Ladder
<1>2. Len(gs) = m - 1 /\ \A k \in 1..m-1 : gs[k] = fs[k]
  BY FrontIs
<1>3. mv \in Seq(Int) /\ Len(mv) = m - 1 /\ \A k \in 1..m-1 : mv[k] = lv[k]
  BY <1>1, FrontIs
<1>4. lv[m - 1] = n
  <2>1. m \in 2..m /\ m - 1 \in 1..m
    BY <1>1
  <2>2. lv[m] = lv[m-1] + Held(fs[m]) /\ lv[m] = level
    BY <2>1 DEF Ladder
  <2>3. lv[m - 1] \in Int /\ Held(fs[m]) \in Int
    BY <1>1, <2>1, ElementOfSeq, HeldIs
  <2> QED BY <1>1, <2>2, <2>3
<1> HIDE DEF gs, mv
<1>5. mv[1] = base /\ mv[m - 1] = n
  <2>1. 1 \in 1..m-1 /\ m - 1 \in 1..m-1
    BY <1>1
  <2> QED BY <1>3, <1>4, <2>1 DEF Ladder
<1>6. ASSUME NEW k \in 2..m-1
      PROVE  mv[k] = mv[k-1] + Held(gs[k])
  <2>1. k \in 2..m /\ k \in 1..m-1 /\ k - 1 \in 1..m-1
    BY <1>1
  <2> QED BY <1>2, <1>3, <2>1 DEF Ladder
<1>7. Ladder(mv, gs, base, n)
  BY <1>2, <1>3, <1>5, <1>6 DEF Ladder
<1> QED BY <1>7 DEF gs, mv

\* What the function waits for in straight code, and that its mark follows a value.
LEMMA StraightStatement ==
  ASSUME TreesTidy, UnitsBegin, UnitsVoided, Types, Calls, Walk, frames # <<>>, Straight
  PROVE  LET n == Len(frames[1].vals)
             body == unit[fn].body
             t == Awaited(frames[1]).t
         IN  /\ n \in Nat /\ frames[1].node.kids = body /\ n + 1 \in 1..Len(body) /\ n + 2 \in 1..Len(body)
             /\ Awaited(frames[1]) = body[n + 1]
             /\ t \in BinaryTypes \cup {"A_CALL_FINISHED", "A_IDENT", "A_ASSIGNMENT"}
                      \cup {"A_DECL_LOCAL", "A_DECL_ASSIGNMENT", "EXPR_TO_VOID"}
             /\ body[n + 2].t = "EXPR_TO_VOID" <=> t \notin {"A_DECL_LOCAL", "A_DECL_ASSIGNMENT", "EXPR_TO_VOID"}
<1> DEFINE n == Len(frames[1].vals)
           body == unit[fn].body
           t == Awaited(frames[1]).t
<1>1. /\ fn \in 1..Len(unit) /\ ParamsFirst(unit[fn]) /\ body \in Seq(Trees) /\ frames[1].node = FunctionNode(unit[fn])
      /\ n \in Nat /\ n + 1 \in 1..Len(body) /\ Awaited(frames[1]) = body[n + 1]
  BY StatementAwaited
<1>2. TidyFunction(unit[fn]) /\ ValuesVoided(unit[fn])
  BY <1>1 DEF TreesTidy, UnitsVoided, Types
<1>3. body # <<>> /\ Last(body).t = "A_RET" /\ TidyStatements(Front(body)) /\ Len(body) \in Nat \ {0} /\ Last(body) = body[Len(body)]
      /\ Len(Front(body)) = Len(body) - 1 /\ \A i \in 1..Len(body)-1 : Front(body)[i] = body[i]
  BY <1>1, <1>2, FrontIs DEF TidyFunction
<1>4. frames[1].node.kids = body
  BY <1>1 DEF FunctionNode
<1>5. t \notin {"A_COND", "A_WHILE", "A_RET"}
  <2>1. n + 1 \in 1..n + 1
    BY <1>1
  <2> QED BY <1>1, <1>4, <2>1 DEF Straight
<1>6. n + 1 # Len(body)
  BY <1>1, <1>3, <1>5
<1> HIDE DEF n, body
<1>7. n + 2 \in 1..Len(body) /\ n + 1 \in 1..Len(body)-1 /\ (n + 1) + 1 = n + 2 /\ (n + 2) - 1 = n + 1
  BY <1>1, <1>3, <1>6
<1>8. t \in Statement
  BY <1>1, <1>3, <1>7 DEF TidyStatements
<1>9. body[n + 2].t = "EXPR_TO_VOID" => t \in InSlot
  <2> SUFFICES ASSUME body[n + 2].t = "EXPR_TO_VOID" PROVE t \in InSlot
    OBVIOUS
  <2>1. n + 2 # Len(body)
    BY <1>3
  <2>2. n + 2 \in 1..Len(body)-1
    BY <1>1, <1>3, <1>7, <2>1
  <2>3. Front(body)[(n + 2) - 1].t \in InSlot
    BY <1>3, <2>2 DEF TidyStatements
  <2> QED BY <1>1, <1>3, <1>7, <2>3
<1>10. t \in Expression \cup {"A_ASSIGNMENT", "A_BLOCK"} => body[n + 2].t = "EXPR_TO_VOID"
  BY <1>1, <1>2, <1>7 DEF ValuesVoided, body
<1>11. "A_BLOCK" \notin InSlot /\ "A_INT_LITERAL" \notin InSlot /\ "A_STR_LITERAL" \notin InSlot
       /\ "A_DECL_LOCAL" \notin InSlot /\ "A_DECL_ASSIGNMENT" \notin InSlot /\ "EXPR_TO_VOID" \notin InSlot
  BY Sorts
<1>12. t \in BinaryTypes \cup {"A_CALL_FINISHED", "A_IDENT", "A_ASSIGNMENT"}
             \cup {"A_DECL_LOCAL", "A_DECL_ASSIGNMENT", "EXPR_TO_VOID"}
  BY <1>5, <1>8, <1>9, <1>10, <1>11 DEF Statement, Valued, Expression, Leaf
<1>13. body[n + 2].t = "EXPR_TO_VOID" <=> t \notin {"A_DECL_LOCAL", "A_DECL_ASSIGNMENT", "EXPR_TO_VOID"}
  BY <1>9, <1>10, <1>11, <1>12 DEF Expression, Leaf
<1> QED BY <1>1, <1>4, <1>7, <1>12, <1>13 DEF n, body

\* More than one call.
LEMMA MoreThanOne == \A n \in Nat \ {0} : n # 1 => 1 \in 1..n-1 /\ n \in 2..n
  OBVIOUS

\* The declarations that are compiled are finitely many.
LEMMA DeclaredIs ==
  ASSUME Types, Calls, Walk, frames # <<>>
  PROVE  IsFiniteSet(Declared) /\ Cardinality(Declared) \in Nat
<1>1. Len(frames[1].vals) \in Nat
  <2>1. 1 \in 1..Len(frames)
    BY TopOfPath
  <2> QED BY <2>1, OnThePath
<1>2. IsFiniteSet(1..Len(frames[1].vals))
  BY <1>1, FS_Interval
<1>3. Declared \subseteq 1..Len(frames[1].vals)
  BY DEF Declared
<1>4. IsFiniteSet(Declared)
  BY <1>2, <1>3, FS_Subset
<1> QED BY <1>4, FS_CardinalityType

\* As long as the function waits for the same statement, its code is as straight as
\* it was and declares as much.
LEMMA SameStatement ==
  ASSUME frames'[1] = frames[1]
  PROVE  /\ Straight' = Straight /\ Cardinality(Declared)' = Cardinality(Declared)
         /\ Awaited(frames[1])' = Awaited(frames[1])
<1>1. Straight' = Straight /\ Awaited(frames[1])' = Awaited(frames[1])
  BY DEF Straight, Awaited
<1>2. Declared' = Declared
  BY DEF Declared
<1> QED BY <1>1, <1>2

\* The calls above the function in straight code are those of an expression, an
\* assignment or a declaration, and the innermost compiles an expression.
LEMMA StraightTop ==
  ASSUME TreesTidy, Types, Calls, Walk, Slots, Balanced, Straight, mode \in {"eval", "return"}, Len(frames) # 1
  PROVE  /\ frames # <<>> /\ frames \in Seq(Frames) /\ Len(frames) \in Nat \ {0, 1}
         /\ Top = frames[Len(frames)] /\ Top = Last(frames) /\ Exact(Top) /\ Awaited(Top).t \in Expression
         /\ \A k \in 2..Len(frames) : Exact(frames[k])
         /\ Level \in Int /\ \E lv : Ladder(lv, frames, Cardinality(Declared), Level)
<1>1. frames # <<>>
  BY DEF Walk
<1>2. /\ GoodFrame(Top) /\ Compiles(Top) /\ Top = frames[Len(frames)] /\ Len(frames) \in Nat \ {0}
      /\ frames \in Seq(Frames)
  BY <1>1, TopCompiles
<1>3. Len(frames) \in 2..Len(frames)
  BY <1>2, MoreThanOne
<1>4. Exact(Top)
  BY <1>2, <1>3 DEF Balanced
<1> QED BY <1>1, <1>2, <1>4, TidyFrame, LevelIs DEF Balanced, Top

\* A call that stops says nothing of its code.
LEMMA BalanceStops ==
  ASSUME mode' \notin {"eval", "return"}
  PROVE  Balanced'
  BY DEF Balanced

\* A leaf, or a call without arguments: the mark gives a slot back, the others take one,
\* unless they are immediate.
LEMMA BalanceAnswers ==
  ASSUME TreesTidy, UnitsBegin, UnitsVoided, Types, Calls, Walk, Slots, Balanced, mode = "eval",
         mode' = "return", UNCHANGED <<unit, fn, frames>>,
         cur.t \in Expression => Level' = temps,
         cur.t \in InSlot \cup {"A_DECL_LOCAL"} => temps' = temps + 1,
         cur.t \in InSlot \cup {"A_DECL_LOCAL", "A_INT_LITERAL", "A_STR_LITERAL", "EXPR_TO_VOID"},
         cur.t = "EXPR_TO_VOID" => temps' = temps - 1
  PROVE  Balanced'
<1> SUFFICES ASSUME Straight PROVE Balanced'
  BY SameStatement DEF Balanced
<1>1. frames # <<>> /\ cur = Awaited(Top) /\ temps \in Nat
  BY Evaluates
<1>2. /\ Straight' = Straight /\ Cardinality(Declared)' = Cardinality(Declared)
      /\ Awaited(frames[1])' = Awaited(frames[1])
  BY SameStatement
<1>3. CASE Len(frames) # 1
  <2>1. /\ cur.t \in Expression /\ \A k \in 2..Len(frames) : Exact(frames[k])
        /\ \E lv : Ladder(lv, frames, Cardinality(Declared), Level)
    BY <1>1, <1>3, StraightTop
  <2>2. Level' = Level
    BY <2>1, LevelIs
  <2> QED BY <1>2, <1>3, <2>1, <2>2 DEF Balanced
<1>4. CASE Len(frames) = 1
  <2>1. Top = frames[1]
    BY <1>1, <1>4 DEF Top, Last
  <2>2. cur.t \notin {"A_INT_LITERAL", "A_STR_LITERAL"}
    BY <1>1, <2>1, StraightStatement, Kinds
  <2>3. temps = Cardinality(Declared) + (IF cur.t = "EXPR_TO_VOID" THEN 1 ELSE 0)
    BY <1>4 DEF Balanced
  <2>4. temps' = Cardinality(Declared) + (IF cur.t = "EXPR_TO_VOID" THEN 0 ELSE 1)
    <3>1. Cardinality(Declared) \in Nat
      BY <1>1, DeclaredIs
    <3>2. CASE cur.t = "EXPR_TO_VOID"
      BY <2>3, <3>1, <3>2
    <3>3. CASE cur.t # "EXPR_TO_VOID"
      BY <2>2, <2>3, <3>1, <3>3
    <3> QED BY <3>2, <3>3
  <2>5. \A k \in 2..Len(frames) : FALSE
    BY <1>4
  <2> QED BY <1>1, <1>2, <1>4, <2>1, <2>4, <2>5 DEF Balanced
<1> QED BY <1>3, <1>4

\* A call begins, with what it takes at once.
LEMMA BalanceEnters ==
  ASSUME TreesTidy, UnitsBegin, UnitsVoided, Types, Calls, Walk, Slots, Balanced, mode = "eval",
         NEW f \in Frames, f.node = cur, f.vals = <<>>, Enter(f), UNCHANGED <<unit, fn>>,
         Exact(f) \/ cur.t \in {"A_WHILE", "A_RET", "A_COND", "A_BLOCK"}, temps' = temps + Held(f)
  PROVE  Balanced'
<1>1. /\ frames # <<>> /\ frames \in Seq(Frames) /\ cur = Awaited(Top) /\ temps \in Nat
      /\ Len(frames) \in Nat \ {0}
  BY Evaluates, TopOfPath
<1>2. /\ Len(frames') = Len(frames) + 1 /\ frames'[Len(frames) + 1] = f
      /\ \A k \in 1..Len(frames) : frames'[k] = frames[k]
  BY WalkEnters
<1>3. frames' = Append(frames, f) /\ mode' = "eval" /\ Level' = temps + Held(f)
  BY DEF Enter, Level
<1>4. /\ Straight' = Straight /\ Cardinality(Declared)' = Cardinality(Declared)
  <2>1. 1 \in 1..Len(frames)
    BY <1>1
  <2> QED BY <1>2, <2>1, SameStatement
<1> DEFINE D == Cardinality(Declared)
<1>5. ASSUME Straight
      PROVE  Exact(f) /\ \E lv : Ladder(lv, frames, D, temps)
  <2>1. CASE Len(frames) # 1
    <3>1. cur.t \in Expression /\ \E lv : Ladder(lv, frames, D, Level)
      BY <1>1, <1>5, <2>1, StraightTop
    <3>2. Level = temps
      BY LevelIs
    <3> QED BY <3>1, <3>2, Sorts
  <2>2. CASE Len(frames) = 1
    <3>1. Top = frames[1]
      BY <1>1, <2>2 DEF Top, Last
    <3>2. cur.t \notin {"A_WHILE", "A_RET", "A_COND", "A_BLOCK"}
      BY <1>1, <1>5, <3>1, StraightStatement, Kinds
    <3>3. Exact(f) /\ cur.t # "EXPR_TO_VOID"
      BY <3>2, Kinds DEF Exact, Rigid
    <3>4. temps = D + 0 /\ D \in Nat
      BY <1>1, <1>5, <2>2, <3>3, DeclaredIs DEF Balanced
    <3> HIDE DEF D
    <3>5. Ladder(<<D>>, frames, D, temps)
      <4>1. <<D>> \in Seq(Int) /\ Len(<<D>>) = 1 /\ <<D>>[1] = D
        BY <3>4
      <4>2. \A k \in 2..Len(frames) : FALSE
        BY <2>2
      <4>3. temps = D
        BY <3>4
      <4> QED BY <2>2, <4>1, <4>2, <4>3 DEF Ladder
    <3> QED BY <3>3, <3>5
  <2> QED BY <2>1, <2>2
<1>6. ASSUME Straight
      PROVE  /\ \A k \in 2..Len(frames') : Exact(frames'[k])
             /\ \E lv : Ladder(lv, frames', D, Level')
  <2>1. PICK lv : Ladder(lv, frames, D, temps)
    BY <1>5, <1>6
  <2>2. Ladder(Append(lv, temps + Held(f)), Append(frames, f), D, temps + Held(f))
    BY <1>1, <2>1, LadderGrows
  <2>3. \A k \in 2..Len(frames) : Exact(frames[k]) /\ k \in 1..Len(frames)
    BY <1>1, <1>6 DEF Balanced
  <2>4. \A k \in 2..Len(frames') : k = Len(frames) + 1 \/ k \in 2..Len(frames)
    BY <1>1, <1>2
  <2> QED BY <1>2, <1>3, <1>5, <1>6, <2>2, <2>3, <2>4
<1>7. Len(frames') # 1
  BY <1>1, <1>2
<1> QED BY <1>4, <1>6, <1>7 DEF Balanced

\* A call goes on: what it takes for its next child is on top of what the calls below
\* it hold.
LEMMA BalanceGoesOn ==
  ASSUME TreesTidy, Types, Calls, Walk, Slots, Balanced, mode = "return", Top.node.t # "A_DECL",
         NEW f \in Frames, f.node = Top.node, Descend(f, Len(f.vals) + 1), UNCHANGED <<unit, fn>>,
         Exact(Top) => temps' = (Level - Held(Top)) + Held(f)
  PROVE  Balanced'
<1>1. /\ frames # <<>> /\ frames \in Seq(Frames) /\ Len(frames) \in Nat \ {0} /\ Len(frames) # 1
  BY Answered, TopOfPath
<1>2. /\ Len(frames') = Len(frames) /\ frames'[Len(frames)] = f
      /\ \A k \in 1..Len(frames)-1 : frames'[k] = frames[k]
  BY <1>1, WalkGoesOn
<1>3. frames' = Append(Front(frames), f) /\ mode' = "eval" /\ Level' = temps'
  BY DEF Descend, Level, Below
<1>4. Straight' = Straight /\ Cardinality(Declared)' = Cardinality(Declared)
  <2>1. 1 \in 1..Len(frames)-1
    BY <1>1, MoreThanOne
  <2> QED BY <1>2, <2>1, SameStatement
<1> DEFINE D == Cardinality(Declared)
<1>5. ASSUME Straight
      PROVE  /\ \A k \in 2..Len(frames') : Exact(frames'[k])
             /\ \E lv : Ladder(lv, frames', D, Level')
  <2>1. /\ Exact(Top) /\ Top = Last(frames) /\ \A k \in 2..Len(frames) : Exact(frames[k])
        /\ Level \in Int /\ \E lv : Ladder(lv, frames, D, Level)
    BY <1>1, <1>5, StraightTop
  <2>2. PICK lv : Ladder(lv, frames, D, Level)
    BY <2>1
  <2>3. Exact(f)
    BY <2>1 DEF Exact, Rigid
  <2> DEFINE n == Level - Held(Top)
  <2>4. Ladder(Front(lv), Front(frames), D, n) /\ n \in Int
    <3>1. Ladder(Front(lv), Front(frames), D, Level - Held(Last(frames)))
      BY <1>1, <2>1, <2>2, LadderShrinks
    <3> QED BY <2>1, <3>1, HeldIs
  <2>5. Front(frames) \in Seq(Frames) /\ Front(frames) # <<>>
    <3>1. Front(frames) \in Seq(Frames) /\ Len(Front(frames)) = Len(frames) - 1
      BY <1>1, FrontIs
    <3> QED BY <1>1, <3>1
  <2> HIDE DEF n
  <2>6. Ladder(Append(Front(lv), n + Held(f)), Append(Front(frames), f), D, n + Held(f))
    BY <2>4, <2>5, LadderGrows
  <2>7. Level' = n + Held(f)
    BY <1>3, <2>1 DEF n
  <2>8. \A k \in 2..Len(frames') : k = Len(frames) \/ (k \in 1..Len(frames)-1 /\ k \in 2..Len(frames))
    BY <1>1, <1>2
  <2> QED BY <1>2, <1>3, <2>1, <2>3, <2>6, <2>7, <2>8
<1> QED BY <1>1, <1>2, <1>4, <1>5 DEF Balanced

\* A call returns, with a slot more than it found.
LEMMA BalanceReturns ==
  ASSUME TreesTidy, Types, Calls, Walk, Slots, Balanced, mode = "return", Top.node.t # "A_DECL",
         frames' = Below, mode' = "return", UNCHANGED <<unit, fn>>,
         Exact(Top) => temps' = (Level - Held(Top)) + 1,
         Rigid(Top) => Level' = Level - Held(Top)
  PROVE  Balanced'
<1>1. /\ frames # <<>> /\ frames \in Seq(Frames) /\ Len(frames) \in Nat \ {0} /\ Len(frames) # 1
  BY Answered, TopOfPath
<1>2. /\ frames' # <<>> /\ Awaited(Top)' = Top.node /\ Len(frames') = Len(frames) - 1
      /\ \A k \in 1..Len(frames)-1 : frames'[k] = frames[k]
  BY <1>1, WalkReturns
<1>3. Straight' = Straight /\ Cardinality(Declared)' = Cardinality(Declared)
  <2>1. 1 \in 1..Len(frames)-1
    BY <1>1, MoreThanOne
  <2> QED BY <1>2, <2>1, SameStatement
<1> DEFINE D == Cardinality(Declared)
<1> SUFFICES ASSUME Straight PROVE Balanced'
  BY <1>3 DEF Balanced
<1>4. /\ Exact(Top) /\ Top = Last(frames) /\ \A k \in 2..Len(frames) : Exact(frames[k])
      /\ Level \in Int /\ \E lv : Ladder(lv, frames, D, Level)
  BY <1>1, StraightTop
<1>5. PICK lv : Ladder(lv, frames, D, Level)
  BY <1>4
<1> DEFINE n == Level - Held(Top)
<1>6. Ladder(Front(lv), frames', D, n)
  BY <1>1, <1>4, <1>5, LadderShrinks DEF Below
<1> HIDE DEF n
<1>7. \A k \in 2..Len(frames') : Exact(frames'[k])
  <2>1. \A k \in 2..Len(frames') : k \in 1..Len(frames)-1 /\ k \in 2..Len(frames)
    BY <1>1, <1>2
  <2> QED BY <1>2, <1>4, <2>1
<1>8. CASE Len(frames') = 1
  <2>1. n = D
    BY <1>6, <1>8 DEF Ladder
  <2>2. temps' = D + 1
    BY <1>4, <2>1 DEF n
  <2>3. Top' = frames'[1]
    BY <1>2, <1>8 DEF Top, Last
  <2>4. Awaited(frames[1])' = Top.node
    BY <1>2, <2>3 DEF Awaited
  <2>5. Top.node.t # "EXPR_TO_VOID"
    BY <1>4, Kinds DEF Exact, Rigid
  <2> QED BY <1>3, <1>7, <1>8, <2>2, <2>4, <2>5 DEF Balanced
<1>9. CASE Len(frames') # 1
  <2>1. Len(frames) - 1 \in 2..Len(frames) /\ Len(frames) - 1 \in 1..Len(frames)-1
    BY <1>1, <1>2, <1>9
  <2>2. Exact(frames[Len(frames) - 1])
    BY <1>4, <2>1
  <2>3. Rigid(Top)
    BY <2>1, <2>2, Answered
  <2>4. Level' = n
    BY <2>3 DEF n
  <2> QED BY <1>3, <1>6, <1>7, <1>9, <2>4 DEF Balanced
<1> QED BY <1>8, <1>9

\* The next statement begins with the mark of the one before it, if that left a value,
\* and a slot more in use if it was a declaration.
LEMMA BalanceNext ==
  ASSUME TreesTidy, UnitsBegin, UnitsVoided, Types, Calls, Walk, Slots, Balanced, NextStatement
  PROVE  Balanced'
<1>1. /\ mode = "return" /\ frames # <<>> /\ Top.node.t \in {"A_DECL", "A_BLOCK"} /\ Descend(Kept, Len(Top.vals) + 2)
      /\ UNCHANGED <<unit, fn, temps, locals>>
  BY DEF NextStatement, DeliversSome
<1>2. Kept \in Frames /\ Kept.node = Top.node /\ Len(Kept.vals) = Len(Top.vals) + 1 /\ Len(Top.vals) \in Nat
  BY <1>1, Delivery DEF Delivered
<1>3. Descend(Kept, Len(Kept.vals) + 1)
  <2>1. Len(Kept.vals) + 1 = Len(Top.vals) + 2
    BY <1>2
  <2> QED BY <1>1, <2>1, Zenon
<1>4. CASE Top.node.t # "A_DECL"
  <2>1. ~ Exact(Top)
    BY <1>1, Kinds DEF Exact, Rigid
  <2> QED BY <1>1, <1>2, <1>3, <1>4, <2>1, BalanceGoesOn
<1>5. CASE Top.node.t = "A_DECL"
  <2> DEFINE n == Len(frames[1].vals)
             kids == frames[1].node.kids
             D == Cardinality(Declared)
  <2>1. Len(frames) = 1 /\ Top = frames[1]
    BY <1>1, <1>5, TopOfPath
  <2>2. /\ Len(frames') = 1 /\ frames'[1] = Kept /\ mode' = "eval"
        /\ cur' = Awaited(Kept)
    <3>1. Len(frames') = Len(frames) /\ frames'[Len(frames)] = Kept
      BY <1>1, <1>2, <1>3, WalkGoesOn
    <3> QED BY <1>3, <2>1, <3>1 DEF Descend, Awaited
  <2>3. frames'[1].node = frames[1].node /\ Len(frames'[1].vals) = n + 1 /\ n \in Nat
    BY <1>2, <2>1, <2>2
  <2> SUFFICES ASSUME Straight' PROVE Balanced'
    BY DEF Balanced
  <2>4. Straight
    <3>1. \A i \in 1..n+1 : i \in 1..(n+1)+1
      BY <2>3
    <3>2. \A i \in 1..(n+1)+1 : kids[i].t \notin {"A_COND", "A_WHILE", "A_RET"}
      BY <2>3 DEF Straight
    <3> QED BY <3>1, <3>2 DEF Straight
  <2>5. LET t == Awaited(frames[1]).t
        IN  /\ Awaited(frames[1]) = kids[n + 1]
            /\ kids[n + 2].t = "EXPR_TO_VOID" <=> t \notin {"A_DECL_LOCAL", "A_DECL_ASSIGNMENT", "EXPR_TO_VOID"}
    BY <1>1, <2>4, StraightStatement
  <2>6. cur' = kids[n + 2]
    <3>1. Children(Top.node) = kids
      BY <1>5, <2>1 DEF Children
    <3>2. cur' = kids[Len(Top.vals) + 2]
      BY <1>1, <1>2, <3>1 DEF Descend
    <3> QED BY <2>1, <3>2
  <2>7. temps = D + (IF kids[n + 1].t = "EXPR_TO_VOID" THEN 0 ELSE 1)
    BY <1>1, <2>1, <2>4, <2>5 DEF Balanced
  <2>8. Declared' = IF kids[n + 1].t \in {"A_DECL_LOCAL", "A_DECL_ASSIGNMENT"} THEN Declared \cup {n + 1} ELSE Declared
    <3>1. Declared' = {i \in 1..n+1 : kids[i].t \in {"A_DECL_LOCAL", "A_DECL_ASSIGNMENT"}}
      BY <2>3 DEF Declared
    <3>2. \A i : i \in 1..n+1 <=> i \in 1..n \/ i = n + 1
      BY <2>3
    <3> QED BY <3>1, <3>2 DEF Declared
  <2>9. IsFiniteSet(Declared) /\ D \in Nat /\ n + 1 \notin Declared
    <3>1. n + 1 \notin 1..n
      BY <2>3
    <3> QED BY <1>1, <3>1, DeclaredIs DEF Declared
  <2>10. Cardinality(Declared') = D + (IF kids[n + 1].t \in {"A_DECL_LOCAL", "A_DECL_ASSIGNMENT"} THEN 1 ELSE 0)
    <3>1. Cardinality(Declared \cup {n + 1}) = D + 1
      BY <2>9, FS_AddElement
    <3>2. D + 0 = D
      BY <2>9
    <3> QED BY <2>8, <3>1, <3>2
  <2> HIDE DEF D, n, kids
  <2>11. temps = Cardinality(Declared') + (IF kids[n + 2].t = "EXPR_TO_VOID" THEN 1 ELSE 0)
    <3>1. CASE kids[n + 1].t \in {"A_DECL_LOCAL", "A_DECL_ASSIGNMENT"}
      BY <2>5, <2>7, <2>9, <2>10, <3>1
    <3>2. CASE kids[n + 1].t = "EXPR_TO_VOID"
      BY <2>5, <2>7, <2>9, <2>10, <3>2
    <3>3. CASE kids[n + 1].t \notin {"A_DECL_LOCAL", "A_DECL_ASSIGNMENT", "EXPR_TO_VOID"}
      BY <2>5, <2>7, <2>9, <2>10, <3>3
    <3> QED BY <3>1, <3>2, <3>3
  <2>12. \A k \in 2..Len(frames') : FALSE
    BY <2>2
  <2> QED BY <1>1, <2>2, <2>6, <2>11, <2>12 DEF Balanced
<1> QED BY <1>4, <1>5

\* A function begins with no declaration, and the counter at zero.
LEMMA BalanceBegins ==
  ASSUME TreesTidy, UnitsBegin, Types, Calls, Walk, Starts, BeginFunction
  PROVE  Balanced'
<1> DEFINE f == Frame(FunctionNode(unit[fn + 1]))
<1>1. /\ fn \in 0..Len(unit) /\ fn < Len(unit) /\ frames = <<>> /\ mode = "function" /\ temps' = temps /\ unit \in Units
      /\ unit \in Seq([name : Names, params : Seq(Names), body : Seq(Trees)])
  BY UnitsAssumption DEF BeginFunction, Types, Calls
<1>2. fn + 1 \in 1..Len(unit)
  BY <1>1
<1>3. TidyFunction(unit[fn + 1]) /\ unit[fn + 1].body \in Seq(Trees)
  <2>1. unit[fn + 1] \in [name : Names, params : Seq(Names), body : Seq(Trees)]
    BY <1>1, <1>2, ElementOfSeq
  <2> QED BY <1>1, <1>2, <2>1 DEF TreesTidy
<1>4. unit[fn + 1].body # <<>> /\ Last(unit[fn + 1].body).t = "A_RET" /\ TidyStatements(Front(unit[fn + 1].body))
  BY <1>3 DEF TidyFunction
<1>5. mode' = "eval" /\ frames' = Append(frames, f) /\ cur' = Children(f.node)[1]
  BY <1>4 DEF BeginFunction, Enter
<1>6. f.vals = <<>> /\ f.node = FunctionNode(unit[fn + 1])
  BY DEF Frame
<1>7. Children(f.node) = unit[fn + 1].body
  BY <1>6 DEF Children, FunctionNode
<1> HIDE DEF f
<1>8. frames' = <<f>>
  BY <1>1, <1>5
<1>9. Len(frames') = 1 /\ frames'[1] = f /\ Len(f.vals) = 0
  BY <1>6, <1>8
<1>10. Declared' = {}
  BY <1>9 DEF Declared
<1>11. Cardinality(Declared') = 0
  BY <1>10, FS_EmptySet
<1>12. temps' = 0
  BY <1>1 DEF Starts
<1>13. cur'.t # "EXPR_TO_VOID"
  <2> DEFINE body == unit[fn + 1].body
  <2>1. /\ Len(body) \in Nat \ {0} /\ Last(body) = body[Len(body)] /\ Len(Front(body)) = Len(body) - 1
        /\ \A i \in 1..Len(body)-1 : Front(body)[i] = body[i]
    BY <1>3, <1>4, FrontIs
  <2>2. cur' = body[1]
    BY <1>5, <1>7
  <2>3. CASE Len(body) = 1
    BY <1>4, <2>1, <2>2, <2>3
  <2>4. CASE Len(body) # 1
    <3>1. 1 \in 1..Len(body)-1
      BY <2>1, <2>4, MoreThanOne
    <3>2. Front(body)[1].t = "EXPR_TO_VOID" => 1 > 1
      BY <1>4, <2>1, <3>1 DEF TidyStatements
    <3> QED BY <2>1, <2>2, <3>1, <3>2
  <2> QED BY <2>3, <2>4
<1>14. \A k \in 2..Len(frames') : FALSE
  BY <1>9
<1> QED BY <1>5, <1>9, <1>11, <1>12, <1>13, <1>14 DEF Balanced

\* The leaves.
LEMMA LeavesBalance ==
  ASSUME TreesTidy, UnitsBegin, UnitsVoided, Room, Types, Calls, Walk, Slots, Balanced,
         EvalVoid \/ EvalLiteral \/ EvalIdent \/ EvalDeclLocal \/ EvalUnknown
  PROVE  Balanced'
<1>0. mode = "eval" /\ temps \in Nat /\ Up(temps) = temps + 1
  <2>1. temps \in Nat /\ temps < Word - 1
    BY LevelIs DEF Room
  <2> QED BY <2>1, UpDown DEF EvalVoid, EvalLiteral, EvalIdent, EvalDeclLocal, EvalUnknown, Evals
<1>1. CASE EvalVoid
  <2>1. cur.t = "EXPR_TO_VOID" /\ mode' = "return" /\ temps' = Down(temps) /\ UNCHANGED <<unit, fn, frames>>
    BY <1>1 DEF EvalVoid, Evals, Return, AfterVoid
  <2>2. cur.t \notin Expression /\ cur.t \notin InSlot
    BY <2>1, Sorts
  <2>3. temps' = temps - 1
    <3>1. temps > 0
      BY <1>0, <2>1, Evaluates
    <3> QED BY <1>0, <2>1, <3>1, UpDown DEF Types
  <2> QED BY <1>0, <2>1, <2>2, <2>3, BalanceAnswers
<1>2. CASE EvalLiteral
  <2>1. /\ cur.t \in {"A_INT_LITERAL", "A_STR_LITERAL"} /\ mode' = "return"
        /\ temps' = temps /\ UNCHANGED <<unit, fn, frames>>
        /\ acc' = IF cur.t = "A_INT_LITERAL" THEN Imm(cur.lexeme) ELSE Data(cur.lexeme)
    BY <1>2 DEF EvalLiteral, Evals, Return
  <2>2. Level' = temps
    BY <2>1, FreedIs DEF Level
  <2>3. cur.t \notin InSlot
    BY <2>1, Sorts
  <2> QED BY <1>0, <2>1, <2>2, <2>3, BalanceAnswers
<1>3. CASE EvalIdent /\ ~ Stop("segv")
  <2>1. /\ cur.t = "A_IDENT" /\ mode' = "return" /\ UNCHANGED <<unit, fn, frames>>
        /\ acc' = Slot(LookUp(cur.lexeme)) /\ temps' = temps + 1
    BY <1>0, <1>3 DEF EvalIdent, Evals, Return
  <2>2. Level' = temps
    <3>1. (temps + 1) - 1 = temps
      BY <1>0
    <3> QED BY <2>1, <3>1, FreedIs DEF Level
  <2>3. cur.t \in InSlot
    BY <2>1 DEF InSlot
  <2> QED BY <1>0, <2>1, <2>2, <2>3, BalanceAnswers
<1>4. CASE EvalDeclLocal
  <2>1. /\ cur.t = "A_DECL_LOCAL" /\ mode' = "return" /\ UNCHANGED <<unit, fn, frames>> /\ temps' = temps + 1
    BY <1>0, <1>4 DEF EvalDeclLocal, Evals, Return
  <2>2. cur.t \notin Expression
    BY <2>1, Sorts
  <2> QED BY <1>0, <2>1, <2>2, BalanceAnswers
<1>5. CASE Stop("segv") \/ Stop("exit69")
  BY <1>5, BalanceStops DEF Stop
<1> QED BY <1>1, <1>2, <1>3, <1>4, <1>5 DEF EvalUnknown

\* The nodes with children.
LEMMA EntersBalance ==
  ASSUME TreesTidy, UnitsBegin, UnitsVoided, Room, Types, Calls, Walk, Slots, Balanced,
         EvalBinary \/ EvalCall \/ EvalDeclAssignment \/ EvalAssignment \/ EvalCond
           \/ EvalReturn \/ EvalBlock \/ EvalWhile
  PROVE  Balanced'
<1>0. temps \in Nat /\ Up(temps) = temps + 1
  <2>1. temps \in Nat /\ temps < Word - 1
    BY LevelIs DEF Room
  <2> QED BY <2>1, UpDown
<1>1. mode = "eval" /\ cur \in Nodes
  BY TreesAreNodes DEF Types, EvalBinary, EvalCall, EvalDeclAssignment, EvalAssignment, EvalCond,
     EvalReturn, EvalBlock, EvalWhile, Evals
<1>2. Frame(cur) \in Frames /\ Frame(cur).node = cur /\ Frame(cur).vals = <<>> /\ Len(<<>>) = 0
  BY <1>1, FrameTyped
<1>3. CASE EvalBinary \/ EvalDeclAssignment \/ EvalCond \/ EvalReturn \/ EvalBlock
           \/ (EvalCall /\ Enter(Frame(cur)))
  <2>1. /\ cur.t \in BinaryTypes \cup {"A_DECL_ASSIGNMENT", "A_COND", "A_RET", "A_BLOCK", "A_CALL_FINISHED"}
        /\ Enter(Frame(cur))
    BY <1>3 DEF EvalBinary, EvalDeclAssignment, EvalCond, EvalReturn, EvalBlock, EvalCall, Evals
  <2>2. UNCHANGED <<unit, fn, temps>>
    <3>1. Enter(Frame(cur)) => mode' = "eval"
      BY DEF Enter
    <3>2. EvalCall => (Enter(Frame(cur)) => UNCHANGED <<unit, fn, temps>>)
      BY <3>1 DEF EvalCall, Return, Stop
    <3> QED BY <1>3, <3>2 DEF EvalBinary, EvalDeclAssignment, EvalCond, EvalReturn, EvalBlock
  <2>3. /\ Exact(Frame(cur)) \/ cur.t \in {"A_WHILE", "A_RET", "A_COND", "A_BLOCK"}
        /\ Held(Frame(cur)) = 0
    <3>1. cur.t # "A_ASSIGNMENT"
      BY <2>1, Kinds
    <3> QED BY <1>2, <2>1, <3>1 DEF Rigid, Exact, Held
  <2>4. temps + Held(Frame(cur)) = temps
    BY <1>0, <2>3
  <2> QED BY <1>1, <1>2, <2>1, <2>2, <2>3, <2>4, BalanceEnters
<1>4. CASE EvalWhile
  <2>1. LoopCall \in Frames /\ LoopCall.node = cur /\ LoopCall.vals = <<>>
    BY <1>4, NewLoop DEF GoodFrame
  <2>2. cur.t = "A_WHILE" /\ Enter(LoopCall) /\ UNCHANGED <<unit, fn, temps>>
    BY <1>4 DEF EvalWhile, Evals, LoopCall
  <2>3. temps + Held(LoopCall) = temps
    <3>1. Held(LoopCall) = 0
      BY <2>1, <2>2, Kinds DEF Held
    <3> QED BY <1>0, <3>1
  <2> QED BY <1>1, <2>1, <2>2, <2>3, BalanceEnters
<1>5. CASE EvalAssignment /\ ~ Stop("segv")
  <2> DEFINE f == [Frame(cur) EXCEPT !.dst = LookUp(cur.kids[1].lexeme)]
  <2>1. cur.t = "A_ASSIGNMENT" /\ Enter(f) /\ UNCHANGED <<unit, fn>> /\ temps' = Up(temps)
    BY <1>5 DEF EvalAssignment, Evals
  <2>2. f \in Frames /\ f.node = cur /\ f.vals = <<>>
    BY <1>2, LookingUp DEF Frames
  <2> HIDE DEF f
  <2>3. temps' = temps + Held(f) /\ Exact(f)
    BY <1>0, <2>1, <2>2 DEF Held, Exact
  <2> QED BY <1>1, <2>1, <2>2, <2>3, BalanceEnters
<1>6. CASE EvalCall /\ ~ Enter(Frame(cur)) /\ ~ Stop("exit69")
  <2>1. /\ cur.t = "A_CALL_FINISHED" /\ mode' = "return" /\ acc' = Slot(temps) /\ temps' = temps + 1
        /\ UNCHANGED <<unit, fn, frames>>
    BY <1>0, <1>6 DEF EvalCall, Evals, Return
  <2>2. Level' = temps
    <3>1. (temps + 1) - 1 = temps
      BY <1>0
    <3> QED BY <2>1, <3>1, FreedIs DEF Level
  <2>3. cur.t \in InSlot
    BY <2>1, Sorts
  <2> QED BY <1>1, <2>1, <2>2, <2>3, BalanceAnswers
<1>7. CASE Stop("segv") \/ Stop("exit69")
  BY <1>7, BalanceStops DEF Stop
<1> QED BY <1>3, <1>4, <1>5, <1>6, <1>7

\* An operator keeps the slot of its right operand, a call gives back that of an argument.
LEMMA GoesOnBalance ==
  ASSUME TreesTidy, Types, Calls, Walk, Slots, Balanced,
         BinaryRight \/ CallArgument \/ WhileTest \/ CondTest \/ (CondThen /\ HasElse)
  PROVE  Balanced'
<1>1. /\ mode = "return" /\ frames # <<>> /\ UNCHANGED <<unit, fn>> /\ Top.node.t # "A_DECL"
  BY DEF BinaryRight, CallArgument, WhileTest, CondTest, CondThen, Delivers, DeliversSome, BinaryTypes, Operation
<1>2. /\ Kept \in Frames /\ Kept.node = Top.node /\ Len(Kept.vals) = Len(Top.vals) + 1 /\ Len(Top.vals) \in Nat
      /\ Kept.vals[Len(Top.vals) + 1] = acc
  BY <1>1, Delivery DEF Delivered
<1>3. CASE BinaryRight
  <2>1. Top.node.t \in BinaryTypes /\ Len(Top.vals) + 1 = 1 /\ Descend(Kept, 2) /\ temps' = temps
    BY <1>3 DEF BinaryRight, Delivers, AfterRight
  <2>2. Len(Top.vals) = 0 /\ Len(Kept.vals) = 1 /\ Kept.vals[1] = acc /\ Len(Kept.vals) + 1 = 2
    BY <1>2, <2>1
  <2>3. Descend(Kept, Len(Kept.vals) + 1)
    BY <2>1, <2>2, Zenon
  <2>4. Held(Top) = 0 /\ Held(Kept) = IF IsImm(acc) THEN 0 ELSE 1
    BY <1>2, <2>1, <2>2, Kinds DEF Held
  <2>5. /\ temps \in Nat /\ (IsImm(acc) => Level = temps) /\ (~ IsImm(acc) => Level = temps - 1)
    BY <1>1, LevelIs
  <2>6. temps' = (Level - Held(Top)) + Held(Kept)
    BY <2>1, <2>4, <2>5
  <2> QED BY <1>1, <1>2, <2>3, <2>6, BalanceGoesOn
<1>4. CASE CallArgument
  <2>1. Top.node.t = "A_CALL_FINISHED" /\ Descend(Kept, Len(Top.vals) + 2) /\ temps' = Release(temps, acc)
    BY <1>4 DEF CallArgument, DeliversSome
  <2>2. Descend(Kept, Len(Kept.vals) + 1)
    <3>1. Len(Top.vals) + 2 = Len(Kept.vals) + 1
      BY <1>2
    <3> QED BY <2>1, <3>1, Zenon
  <2>3. Held(Top) = 0 /\ Held(Kept) = 0
    BY <1>2, <2>1, Kinds DEF Held
  <2>4. Level \in Int /\ Level >= 0
    <3>1. GoodFrame(Top) /\ Compiles(Top) /\ (Awaited(Top).t \in Valued => Level >= 0)
      BY <1>1, Answered
    <3>2. Awaited(Top).t \in Expression
      BY <2>1, <3>1, TidyFrame DEF Exact, Rigid
    <3> QED BY <3>1, <3>2, Sorts, LevelIs
  <2>5. temps' = (Level - Held(Top)) + Held(Kept)
    BY <1>1, <2>1, <2>3, <2>4, LevelIs
  <2> QED BY <1>1, <1>2, <2>2, <2>5, BalanceGoesOn
<1>5. CASE WhileTest \/ (CondThen /\ HasElse)
  <2>1. /\ Top.node.t \in {"A_WHILE", "A_COND"}
        /\ \/ Len(Top.vals) + 1 = 1 /\ Descend(Kept, 2)
           \/ Len(Top.vals) + 1 = 2 /\ Descend(Kept, 3)
    <3>1. CASE WhileTest
      BY <3>1 DEF WhileTest, Delivers
    <3>2. CASE CondThen /\ HasElse
      BY <3>2 DEF CondThen, Delivers
    <3> QED BY <1>5, <3>1, <3>2
  <2>2. /\ Len(Top.vals) + 1 = 1 => Len(Kept.vals) + 1 = 2
        /\ Len(Top.vals) + 1 = 2 => Len(Kept.vals) + 1 = 3
    BY <1>2
  <2>3. Descend(Kept, Len(Kept.vals) + 1)
    BY <2>1, <2>2, Zenon
  <2>4. ~ Exact(Top)
    BY <2>1, Kinds DEF Exact, Rigid
  <2> QED BY <1>1, <1>2, <2>3, <2>4, BalanceGoesOn
<1>6. CASE CondTest
  <2>1. Tested \in Frames /\ Tested.node = Top.node /\ Tested.vals = Kept.vals
    <3>1. ids \in Nat
      BY DEF Types
    <3> QED BY <1>1, <1>6, <3>1, Delivery, NewTest DEF GoodFrame
  <2>2. Descend(Tested, 2) /\ Len(Top.vals) + 1 = 1 /\ Top.node.t = "A_COND"
    BY <1>6 DEF CondTest, Tested, Delivers
  <2>3. Len(Tested.vals) + 1 = 2
    BY <1>2, <2>1, <2>2
  <2>4. Descend(Tested, Len(Tested.vals) + 1)
    BY <2>2, <2>3, Zenon
  <2>5. ~ Exact(Top)
    BY <2>2, Kinds DEF Exact, Rigid
  <2> QED BY <1>1, <2>1, <2>4, <2>5, BalanceGoesOn
<1> QED BY <1>3, <1>4, <1>5, <1>6

\* An operator and a call end with the slot of their result, a declaration with that of
\* its variable, and an assignment with the one it took for the mark to give back.
LEMMA ReturnsBalance ==
  ASSUME TreesTidy, Room, Types, Calls, Walk, Slots, Balanced,
         BinaryLeft \/ CallLast \/ DeclAssignment \/ Assignment \/ WhileBody \/ ReturnValue \/ BlockLast
           \/ CondElse \/ (CondThen /\ ~ HasElse)
  PROVE  Balanced'
<1>1. CASE BinaryLeft \/ CallLast
  <2>1. /\ mode = "return" /\ Rigid(Top) /\ frames # <<>> /\ frames' = Below /\ mode' = "return"
        /\ UNCHANGED <<unit, fn, locals>>
    BY <1>1, RigidFrees
  <2>2. PICK free : /\ acc' = Slot(free) /\ temps' = Up(free)
                    /\ \A n \in Nat : n + Held(Top) = Level => free = n
    BY <1>1, RigidFrees
  <2>3. free \in Nat /\ free + Held(Top) = Level /\ temps' = free + 1 /\ Level' = free
    BY <2>1, <2>2, RigidReturns
  <2>4. Held(Top) \in {0, 1} /\ Level \in Int
    BY HeldIs, LevelIs
  <2>5. Level' = Level - Held(Top) /\ temps' = (Level - Held(Top)) + 1
    BY <2>3, <2>4
  <2>6. Top.node.t # "A_DECL"
    BY <2>1, Kinds DEF Rigid
  <2> QED BY <2>1, <2>5, <2>6, BalanceReturns
<1>2. CASE DeclAssignment
  <2>1. /\ mode = "return" /\ Top.node.t = "A_DECL_ASSIGNMENT" /\ frames' = Below /\ mode' = "return"
        /\ UNCHANGED <<unit, fn>>
    BY <1>2 DEF DeclAssignment, Delivers, Return
  <2>2. Held(Top) = 0 /\ ~ Rigid(Top)
    BY <2>1, Kinds DEF Held, Rigid
  <2>3. temps' = (Level - Held(Top)) + 1
    <3>1. temps' = Level + 1 /\ Level \in Int
      BY <1>2, DeclAssignmentSlots, LevelIs
    <3> QED BY <2>2, <3>1
  <2> QED BY <2>1, <2>2, <2>3, BalanceReturns
<1>3. CASE Assignment /\ Top.dst # -1
  <2>1. /\ mode = "return" /\ Top.node.t = "A_ASSIGNMENT" /\ frames' = Below /\ mode' = "return"
        /\ UNCHANGED <<unit, fn>>
    BY <1>3 DEF Assignment, Delivers, Return
  <2>2. Held(Top) = 1 /\ ~ Rigid(Top)
    BY <2>1, Kinds DEF Held, Rigid
  <2>3. temps' = (Level - Held(Top)) + 1
    <3>1. temps' = Level /\ Level \in Int
      BY <1>3, AssignmentSlots, LevelIs
    <3> QED BY <2>2, <3>1
  <2> QED BY <2>1, <2>2, <2>3, BalanceReturns
<1>4. CASE Assignment /\ Top.dst = -1
  BY <1>4, BalanceStops DEF Assignment, Stop
<1>5. CASE WhileBody \/ ReturnValue \/ BlockLast \/ CondElse \/ (CondThen /\ ~ HasElse)
  <2>1. /\ mode = "return" /\ Top.node.t \in {"A_WHILE", "A_RET", "A_BLOCK", "A_COND"} /\ frames' = Below
        /\ mode' = "return" /\ UNCHANGED <<unit, fn>>
    BY <1>5 DEF WhileBody, ReturnValue, BlockLast, CondElse, CondThen, Delivers, DeliversLast, Return
  <2>2. ~ Exact(Top) /\ ~ Rigid(Top)
    BY <2>1, Kinds DEF Exact, Rigid
  <2> QED BY <2>1, <2>2, BalanceReturns
<1> QED BY <1>1, <1>2, <1>3, <1>4, <1>5

\* Every step keeps the balance.
LEMMA Balancing ==
  ASSUME TreesTidy, UnitsBegin, UnitsVoided, Room, Types, Calls, Walk, Slots, Starts, Balanced, [Next]_vars
  PROVE  Balanced'
<1>1. CASE UNCHANGED vars
  <2>1. UNCHANGED <<mode, cur, acc, frames, temps>>
    BY <1>1 DEF vars
  <2>2. Level' = Level
    BY <2>1 DEF Level
  <2> QED BY <2>1, <2>2, SameStatement DEF Balanced
<1>2. CASE EndFunction \/ EndUnit
  BY <1>2, BalanceStops DEF EndFunction, EndUnit, Stop
<1> QED BY <1>1, <1>2, LeavesBalance, EntersBalance, GoesOnBalance, ReturnsBalance, BalanceBegins, BalanceNext DEF Next

\* Codegen.VoidRestores, in every reachable state: in straight code the mark after a
\* statement leaves exactly the slots of the declarations in use, so that what an
\* expression took comes back whatever it is made of.
THEOREM CodegenVoid == TreesTidy /\ UnitsBegin /\ UnitsVoided /\ Spec /\ []Room => []VoidRestores
<1> DEFINE IInv == Placing /\ Starts /\ Balanced
<1>1. Init => IInv
  <2> SUFFICES ASSUME Init PROVE IInv
    OBVIOUS
  <2>1. Placing /\ mode = "function" /\ temps = 0
    BY PlacedFirst DEF Init
  <2> QED BY <2>1 DEF Starts, Balanced
<1>2. TreesTidy /\ UnitsBegin /\ UnitsVoided /\ Room /\ IInv /\ [Next]_vars => IInv'
  <2> SUFFICES ASSUME TreesTidy, UnitsBegin, UnitsVoided, Room, IInv, [Next]_vars PROVE IInv'
    OBVIOUS
  <2>1. Placing'
    BY PlacedStill
  <2> QED BY <2>1, Starting, Balancing DEF Placing
<1>3. TreesTidy /\ IInv => VoidRestores
  <2> SUFFICES ASSUME TreesTidy, IInv, mode = "return", Len(frames) = 1, Straight,
                      frames[1].node.kids[Len(frames[1].vals) + 1].t = "EXPR_TO_VOID"
               PROVE  temps = Cardinality(Declared)
    BY DEF VoidRestores
  <2>1. Types /\ Calls /\ Walk /\ frames # <<>>
    BY DEF Placing, Walk
  <2>2. Top = frames[1] /\ Top.node.t = "A_DECL"
    BY <2>1, TopOfPath DEF Top, Last
  <2>3. Awaited(frames[1]) = frames[1].node.kids[Len(frames[1].vals) + 1]
    BY <2>2 DEF Awaited, Children
  <2>4. temps = Cardinality(Declared) + 0 /\ Cardinality(Declared) \in Nat
    BY <2>1, <2>3, DeclaredIs DEF Balanced
  <2> QED BY <2>4
<1>4. TreesTidy /\ UnitsBegin /\ UnitsVoided => (TreesTidy /\ UnitsBegin /\ UnitsVoided)'
  BY DEF TreesTidy, UnitsBegin, UnitsVoided
<1> QED BY <1>1, <1>2, <1>3, <1>4, PTL DEF Spec
=============================================================================
