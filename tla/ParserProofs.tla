----------------------------- MODULE ParserProofs -----------------------------
(***************************************************************************)
(* The body parser, for every program, the ill-formed ones included:       *)
(*  - it never puts anything but a node on its stacks, and gives every     *)
(*    node the children the code generator reads;                          *)
(*  - no AST node is held twice: the handlers move nodes between the       *)
(*    stacks and into each other's children, and the result stays a        *)
(*    forest;                                                              *)
(*  - a semicolon leaves no operator behind, as long as statements begin   *)
(*    where no operator of an expression waits.                            *)
(***************************************************************************)
EXTENDS Parser, SequenceTheorems, TLAPS

-----------------------------------------------------------------------------
\* Lemmas about sequences and stacks.

\* Last and Front take a stack that is not empty apart.
LEMMA LastFront ==
  ASSUME NEW S, NEW s \in Seq(S), s # <<>>
  PROVE  Last(s) \in S /\ Front(s) \in Seq(S)
<1>1. Len(s) \in Nat \ {0} /\ s \in [1..Len(s) -> S]
  BY EmptySeq, LenProperties
<1>2. Last(s) \in S
  BY <1>1 DEF Last
<1>3. SubSeq(s, 1, Len(s) - 1) \in Seq(S)
  BY <1>1, SubSeqProperties
<1> QED
  BY <1>2, <1>3 DEF Front

\* pop_ast leaves a stack and answers an element of it, or NULL.
LEMMA Pop ==
  ASSUME NEW S, NEW s \in Seq(S)
  PROVE  Popped(s) \in S \cup {NULL} /\ Rest(s) \in Seq(S)
  BY LastFront DEF Popped, Rest

\* The arguments of a call are the values above it, turned round.
LEMMA ReverseSeq ==
  ASSUME NEW S, NEW s \in Seq(S)
  PROVE  Reverse(s) \in Seq(S)
<1>1. Len(s) \in Nat /\ s \in [1..Len(s) -> S]
  BY LenProperties
<1>2. \A i \in 1..Len(s) : s[(Len(s) - i) + 1] \in S
  BY <1>1
<1>3. Reverse(s) \in [1..Len(s) -> S]
  BY <1>2 DEF Reverse
<1> QED
  BY <1>1, <1>3, SeqDef

\* A short tuple is a sequence of its elements.
LEMMA Tuples ==
  ASSUME NEW S
  PROVE  /\ <<>> \in Seq(S)
         /\ \A a \in S : <<a>> \in Seq(S) /\ Len(<<a>>) = 1
         /\ \A a, b \in S : <<a, b>> \in Seq(S) /\ Len(<<a, b>>) = 2
         /\ \A a, b, c \in S : <<a, b, c>> \in Seq(S) /\ Len(<<a, b, c>>) = 3
  OBVIOUS

-----------------------------------------------------------------------------
\* Lemmas about the heap.
Stack(n) == Seq(1..n)
Saved(n) == Seq([values : Stack(n), operators : Stack(n)])
Child(n) == 1..n \cup {NULL, Uninit}

\* A node that can join a heap of n nodes.
Joins(n, node) ==
  /\ node \in Node
  /\ node.kids \in Seq(Child(n))
  /\ node.t \in DOMAIN Arity => Len(node.kids) = Arity[node.t]

\* A pointer stays a pointer when the heap grows.
LEMMA Grows ==
  ASSUME NEW n \in Nat
  PROVE  /\ Stack(n) \subseteq Stack(n + 1)
         /\ Saved(n) \subseteq Saved(n + 1)
         /\ Seq(Child(n)) \subseteq Seq(Child(n + 1))
<1>1. 1..n \subseteq 1..(n + 1) /\ Child(n) \subseteq Child(n + 1)
  BY DEF Child
<1>2. Stack(n) \subseteq Stack(n + 1) /\ Seq(Child(n)) \subseteq Seq(Child(n + 1))
  BY <1>1, SeqMonotonic DEF Stack
<1>3. [values : Stack(n), operators : Stack(n)]
        \subseteq [values : Stack(n + 1), operators : Stack(n + 1)]
  BY <1>2
<1>4. Saved(n) \subseteq Saved(n + 1)
  BY <1>3, SeqMonotonic DEF Saved
<1> QED
  BY <1>2, <1>4

\* The heap is a sequence of nodes that could all join it.
LEMMA HeapOf ==
  ASSUME NEW h
  PROVE  WellFormed(h) <=>
           h \in Seq(Node) /\ \A id \in 1..Len(h) : Joins(Len(h), h[id])
<1>1. h \in Seq(Node) => DOMAIN h = 1..Len(h) /\ \A id \in 1..Len(h) : h[id] \in Node
  BY LenProperties, ElementOfSeq
<1> QED
  BY <1>1 DEF WellFormed, Joins, Child

\* malloc and fill a node.
LEMMA HeapAppend ==
  ASSUME NEW h, WellFormed(h), NEW node, Joins(Len(h), node)
  PROVE  WellFormed(Append(h, node)) /\ Len(Append(h, node)) = Len(h) + 1
<1> DEFINE g == Append(h, node)
<1>1. h \in Seq(Node) /\ Len(h) \in Nat /\ node \in Node
  BY HeapOf, LenProperties DEF Joins
<1>2. /\ g \in Seq(Node) /\ Len(g) = Len(h) + 1 /\ g[Len(h) + 1] = node
      /\ \A id \in 1..Len(h) : g[id] = h[id]
  BY <1>1, AppendProperties
<1>3. \A id \in 1..Len(g) : Joins(Len(h), g[id])
  BY <1>1, <1>2, HeapOf
<1>4. \A id \in 1..Len(g) : Joins(Len(g), g[id])
  BY <1>1, <1>2, <1>3, Grows DEF Joins
<1> QED
  BY <1>2, <1>4, HeapOf

\* Write a node that is there already.
LEMMA HeapWrite ==
  ASSUME NEW h, WellFormed(h), NEW id \in 1..Len(h), NEW node, Joins(Len(h), node),
         NEW g, g = [h EXCEPT ![id] = node]
  PROVE  WellFormed(g) /\ Len(g) = Len(h)
<1>1. h \in Seq(Node) /\ node \in Node
  BY HeapOf DEF Joins
<1>2. /\ g \in Seq(Node) /\ Len(g) = Len(h)
      /\ \A j \in 1..Len(h) : g[j] = IF j = id THEN node ELSE h[j]
  BY <1>1, ExceptSeq
<1>3. \A j \in 1..Len(g) : Joins(Len(g), g[j])
  BY <1>2, HeapOf
<1> QED
  BY <1>2, <1>3, HeapOf

\* Write one child of a node.
LEMMA HeapWriteKid ==
  ASSUME NEW h, WellFormed(h), NEW id \in 1..Len(h), NEW k \in Nat,
         NEW kid \in Child(Len(h))
  PROVE  /\ WellFormed(SetKid(h, id, k, kid))
         /\ Len(SetKid(h, id, k, kid)) = Len(h)
<1> DEFINE kids == [h[id].kids EXCEPT ![k] = kid]
           node == [h[id] EXCEPT !.kids = kids]
<1>1. Joins(Len(h), h[id])
  BY HeapOf
<1>2. h[id].kids \in Seq(Child(Len(h))) /\ Child(Len(h)) \subseteq Int
  BY <1>1, HeapOf, LenProperties DEF Joins, Child, NULL, Uninit
<1>3. /\ node.kids \in Seq(Child(Len(h))) /\ Len(node.kids) = Len(h[id].kids)
      /\ node.kids \in Seq(Int) /\ node.t = h[id].t /\ node \in Node
  <2>1. DOMAIN h[id].kids = 1..Len(h[id].kids) /\ h[id] \in Node
    BY <1>1, <1>2, LenProperties DEF Joins
  <2>2. CASE k \in DOMAIN h[id].kids
    <3>1. [h[id].kids EXCEPT ![k] = kid] \in Seq(Child(Len(h)))
          /\ Len([h[id].kids EXCEPT ![k] = kid]) = Len(h[id].kids)
      BY <1>2, <2>1, <2>2, ExceptSeq
    <3> QED
      BY <1>2, <2>1, <3>1, SeqMonotonic DEF Node
  <2>3. CASE k \notin DOMAIN h[id].kids
    <3>1. [h[id].kids EXCEPT ![k] = kid] = h[id].kids
      BY <1>2, <2>1, <2>3
    <3> QED
      BY <1>2, <2>1, <3>1, SeqMonotonic DEF Node
  <2> QED
    BY <2>2, <2>3
<1>4. Joins(Len(h), node)
  BY <1>1, <1>3 DEF Joins
<1>5. SetKid(h, id, k, kid) = [h EXCEPT ![id] = node]
  BY DEF SetKid
<1> HIDE DEF node
<1> QED
  BY <1>4, <1>5, HeapWrite

\* Write the spelling of a node.
Nameless(h, id) == [h EXCEPT ![id].lexeme = ""]

\* Nothing but the spelling changes.
LEMMA HeapRename ==
  ASSUME NEW h, WellFormed(h), NEW id \in 1..Len(h)
  PROVE  /\ WellFormed(Nameless(h, id)) /\ Len(Nameless(h, id)) = Len(h)
         /\ \A a \in 1..Len(h) : /\ Nameless(h, id)[a].t = h[a].t
                                /\ Nameless(h, id)[a].kids = h[a].kids
<1> DEFINE node == [h[id] EXCEPT !.lexeme = ""]
           g == [h EXCEPT ![id] = node]
<1>1. h \in Seq(Node) /\ h[id] \in Node /\ Joins(Len(h), h[id])
  BY HeapOf DEF Joins
<1>2. node \in Node /\ node.kids = h[id].kids /\ node.t = h[id].t
  BY <1>1, LexemesAssumption DEF Node
<1>3. Joins(Len(h), node)
  BY <1>1, <1>2 DEF Joins
<1>4. g = Nameless(h, id)
  BY DEF Nameless
<1> HIDE DEF node
<1>5. WellFormed(g) /\ Len(g) = Len(h)
  BY <1>3, HeapWrite
<1>6. \A a \in 1..Len(h) : g[a] = IF a = id THEN node ELSE h[a]
  BY <1>1, <1>2, ExceptSeq
<1> HIDE DEF g
<1>7. \A a \in 1..Len(h) : g[a].t = h[a].t /\ g[a].kids = h[a].kids
  BY <1>2, <1>6
<1> QED
  BY <1>4, <1>5, <1>7

-----------------------------------------------------------------------------
\* What the invariant says, in the words of the lemmas above.
LEMMA Facts ==
  ASSUME TypeOK
  PROVE  /\ WellFormed(nodes) /\ nodes \in Seq(Node) /\ Len(nodes) \in Nat
         /\ \A id \in Pointer : nodes[id] \in Node /\ Joins(Len(nodes), nodes[id])
         /\ values \in Seq(Pointer) /\ operators \in Seq(Pointer)
<1>1. WellFormed(nodes) /\ nodes \in Seq(Node)
  BY DEF TypeOK, WellFormed
<1> QED
  BY <1>1, HeapOf, LenProperties DEF TypeOK, Pointer, Joins

\* A handler that writes nodes and stacks but makes no node.
LEMMA Keeps ==
  ASSUME TypeOK,
         WellFormed(nodes'), Len(nodes') = Len(nodes),
         values' \in Seq(Pointer), operators' \in Seq(Pointer),
         at' \in Nat,
         pc' \in {"parse", "closing", "done", "exit69", "segv", "corrupt"},
         UNCHANGED <<program, saved, strings, body>>
  PROVE  TypeOK'
  BY DEF TypeOK, Pointer

\* A handler that makes one node: what was a pointer still is, and so is Fresh.
LEMMA Grown ==
  ASSUME TypeOK, NEW h, WellFormed(h), Len(h) = Len(nodes),
         NEW node, Joins(Len(nodes), node), nodes' = Append(h, node)
  PROVE  /\ WellFormed(nodes')
         /\ Fresh \in Pointer'
         /\ Seq(Pointer) \subseteq Seq(Pointer')
         /\ Saved(Len(nodes)) \subseteq Saved(Len(nodes'))
<1>1. WellFormed(nodes') /\ Len(nodes') = Len(nodes) + 1 /\ Len(nodes) \in Nat
  BY HeapAppend, Facts
<1> QED
  BY <1>1, Grows DEF Stack, Pointer, Fresh

\* With stacks of pointers into the grown heap, the types hold again.
LEMMA Makes ==
  ASSUME TypeOK, NEW h, WellFormed(h), Len(h) = Len(nodes),
         NEW node, Joins(Len(nodes), node), nodes' = Append(h, node),
         values' \in Seq(Pointer'), operators' \in Seq(Pointer'),
         saved' = saved, strings' \in Seq(Pointer'),
         at' \in Nat, UNCHANGED <<program, pc, body>>
  PROVE  TypeOK'
<1>1. /\ WellFormed(nodes') /\ Seq(Pointer) \subseteq Seq(Pointer')
      /\ Saved(Len(nodes)) \subseteq Saved(Len(nodes'))
  BY Grown
<1>2. saved' \in Saved(Len(nodes')) /\ body' \in Seq(Pointer')
  BY <1>1 DEF TypeOK, Saved, Stack, Pointer
<1> QED
  BY <1>1, <1>2 DEF TypeOK, Saved, Stack, Pointer

\* A token of the text, or the L_EOF after it.
LEMMA Lookahead ==
  ASSUME TypeOK, NEW k \in Nat \ {0}
  PROVE  Peek(k) \in Token
<1>1. at \in Nat /\ program.text \in Seq(Token)
  BY DEF TypeOK
<1>2. CASE at + k <= Len(program.text)
  BY <1>1, <1>2, ElementOfSeq, LenProperties DEF Peek
<1>3. CASE ~ at + k <= Len(program.text)
  BY <1>3, LexemesAssumption DEF Peek, Token, TokenTypes
<1> QED
  BY <1>2, <1>3

\* A node as the handlers make it.
LEMMA NewNodeJoins ==
  ASSUME NEW n \in Nat, NEW t \in AstTypes, NEW lexeme \in Lexemes,
         NEW kids \in Seq(Child(n)), t \in DOMAIN Arity => Len(kids) = Arity[t]
  PROVE  Joins(n, NewNode(t, lexeme, kids))
<1>1. Child(n) \subseteq Int
  BY DEF Child, NULL, Uninit
<1>2. kids \in Seq(Int)
  BY <1>1, SeqMonotonic
<1> QED
  BY <1>2 DEF Joins, Node, NewNode

\* A node that has no children yet.
Leaf == { "A_IDENT", "A_INT_LITERAL", "A_STR_LITERAL", "A_OPEN_PAREN",
          "A_ELSE_CLAUSE", "A_DECL_LOCAL", "EXPR_TO_VOID", "A_CALL" }

\* These types exist, and the code generator expects no children of them.
LEMMA LeafTypes == Leaf \subseteq AstTypes /\ Leaf \cap DOMAIN Arity = {}
  BY DEF Leaf, AstTypes, Prec, Arity

\* So such a node can join any heap.
LEMMA LeafJoins ==
  ASSUME NEW n \in Nat, NEW t \in Leaf, NEW lexeme \in Lexemes
  PROVE  Joins(n, NewNode(t, lexeme, <<>>))
  BY LeafTypes, Tuples, NewNodeJoins

\* A node whose children are to be filled in.
LEMMA BranchJoins ==
  ASSUME NEW n \in Nat, NEW lexeme \in Lexemes
  PROVE  /\ Joins(n, NewNode("A_COND", lexeme, <<NULL, NULL, NULL>>))
         /\ Joins(n, NewNode("A_WHILE", lexeme, <<Uninit, Uninit>>))
         /\ Joins(n, NewNode("A_RET", lexeme, <<Uninit>>))
         /\ Joins(n, NewNode("A_DECL_ASSIGNMENT", lexeme, <<Uninit>>))
         /\ \A t \in BinaryTypes : Joins(n, NewNode(t, lexeme, <<Uninit, Uninit>>))
         /\ \A c \in Child(n) : Joins(n, NewNode("A_ASSIGNMENT", lexeme, <<c, Uninit>>))
<1>1. /\ {"A_COND", "A_WHILE", "A_RET", "A_DECL_ASSIGNMENT", "A_ASSIGNMENT"}
           \cup BinaryTypes \subseteq AstTypes
      /\ \A t \in BinaryTypes \cup {"A_WHILE", "A_ASSIGNMENT"} : Arity[t] = 2
      /\ Arity["A_COND"] = 3
      /\ \A t \in {"A_RET", "A_DECL_ASSIGNMENT"} : Arity[t] = 1
  BY DEF AstTypes, Prec, Arity, BinaryTypes
<1>2. NULL \in Child(n) /\ Uninit \in Child(n)
  BY DEF Child
<1>3. /\ <<NULL, NULL, NULL>> \in Seq(Child(n)) /\ Len(<<NULL, NULL, NULL>>) = 3
      /\ <<Uninit>> \in Seq(Child(n)) /\ Len(<<Uninit>>) = 1
      /\ \A c \in Child(n) : <<c, Uninit>> \in Seq(Child(n)) /\ Len(<<c, Uninit>>) = 2
  BY <1>2, Tuples
<1> QED
  BY <1>1, <1>2, <1>3, NewNodeJoins

\* Pushing a new node on one of the stacks.
LEMMA PushValueType ==
  ASSUME TypeOK, NEW node, Joins(Len(nodes), node), PushValue(node),
         at' \in Nat, UNCHANGED <<program, saved, strings, pc, body>>
  PROVE  TypeOK'
<1>1. Fresh \in Pointer' /\ Seq(Pointer) \subseteq Seq(Pointer')
  BY Facts, Grown DEF PushValue
<1>2. values' \in Seq(Pointer') /\ operators' \in Seq(Pointer')
  BY <1>1, Facts, AppendProperties DEF PushValue
<1>3. strings' \in Seq(Pointer')
  BY <1>1 DEF TypeOK
<1> QED
  BY <1>2, <1>3, Facts, Makes DEF PushValue

\* The same for the operator stack.
LEMMA PushOperatorType ==
  ASSUME TypeOK, NEW node, Joins(Len(nodes), node), PushOperator(node),
         at' \in Nat, UNCHANGED <<program, saved, strings, pc, body>>
  PROVE  TypeOK'
<1>1. Fresh \in Pointer' /\ Seq(Pointer) \subseteq Seq(Pointer')
  BY Facts, Grown DEF PushOperator
<1>2. values' \in Seq(Pointer') /\ operators' \in Seq(Pointer')
  BY <1>1, Facts, AppendProperties DEF PushOperator
<1>3. strings' \in Seq(Pointer')
  BY <1>1 DEF TypeOK
<1> QED
  BY <1>2, <1>3, Facts, Makes DEF PushOperator

\* Finishing an operator (sub_expr).
LEMMA ReducedType ==
  ASSUME TypeOK, TopIs(operators, Reducible)
  PROVE  /\ WellFormed(Reduced.nodes) /\ Len(Reduced.nodes) = Len(nodes)
         /\ Reduced.values \in Seq(Pointer) /\ Reduced.operators \in Seq(Pointer)
<1> DEFINE prev == Last(operators)
<1>1. /\ prev \in Pointer /\ Front(operators) \in Seq(Pointer)
      /\ TypeOf(prev) \in Reducible
  BY Facts, LastFront DEF TopIs
<1>2. Joins(Len(nodes), nodes[prev]) /\ Len(nodes) \in Nat
  BY <1>1, Facts
<1>3. /\ Popped(values) \in Child(Len(nodes)) /\ Rest(values) \in Seq(Pointer)
      /\ Popped(Rest(values)) \in Child(Len(nodes))
      /\ Rest(Rest(values)) \in Seq(Pointer)
  BY Facts, Pop DEF Child, Pointer
<1>4. /\ Operands(prev) \in Seq(Child(Len(nodes)))
      /\ Len(Operands(prev)) = Arity[TypeOf(prev)]
  <2>1. CASE TypeOf(prev) \in BinaryTypes
    <3>1. Operands(prev) = <<Popped(values), Popped(Rest(values))>>
      BY <2>1 DEF Operands, BinaryTypes
    <3>2. Arity[TypeOf(prev)] = 2
      BY <2>1 DEF BinaryTypes, Arity
    <3> QED
      BY <1>3, <3>1, <3>2, Tuples
  <2>2. CASE TypeOf(prev) = "A_ASSIGNMENT"
    <3>1. Operands(prev) = <<nodes[prev].kids[1], Popped(values)>>
      BY <2>2 DEF Operands, BinaryTypes
    <3>2. nodes[prev].kids \in Seq(Child(Len(nodes))) /\ Len(nodes[prev].kids) = 2
      BY <1>2, <2>2 DEF Joins, TypeOf, Arity
    <3>3. nodes[prev].kids[1] \in Child(Len(nodes))
      BY <3>2, ElementOfSeq
    <3>4. Arity[TypeOf(prev)] = 2
      BY <2>2 DEF Arity
    <3> QED
      BY <1>3, <3>1, <3>3, <3>4, Tuples
  <2>3. CASE TypeOf(prev) \in {"A_DECL_ASSIGNMENT", "A_RET"}
    <3>1. Operands(prev) = <<Popped(values)>>
      BY <2>3 DEF Operands, BinaryTypes
    <3>2. Arity[TypeOf(prev)] = 1
      BY <2>3 DEF Arity
    <3> QED
      BY <1>3, <3>1, <3>2, Tuples
  <2> QED
    BY <1>1, <2>1, <2>2, <2>3 DEF Reducible
<1>5. WellFormed(Reduced.nodes) /\ Len(Reduced.nodes) = Len(nodes)
  <2> DEFINE node == [nodes[prev] EXCEPT !.kids = Operands(prev)]
  <2>1. Child(Len(nodes)) \subseteq Int
    BY <1>2 DEF Child, NULL, Uninit
  <2>2. Operands(prev) \in Seq(Int)
    BY <1>4, <2>1, SeqMonotonic
  <2>3. node \in Node /\ node.kids = Operands(prev) /\ node.t = TypeOf(prev)
    BY <1>2, <2>2 DEF Joins, Node, TypeOf
  <2>4. Joins(Len(nodes), node)
    BY <1>4, <2>3 DEF Joins
  <2>5. Reduced.nodes = [nodes EXCEPT ![prev] = node]
    BY <1>1, Facts DEF Reduced
  <2>6. WellFormed(nodes) /\ prev \in 1..Len(nodes)
    BY <1>1, Facts DEF Pointer
  <2> HIDE DEF node, prev
  <2> QED
    BY <2>4, <2>5, <2>6, HeapWrite
<1>6. LeftAfter(prev) \in Seq(Pointer)
  BY <1>3 DEF LeftAfter
<1> QED
  BY <1>1, <1>5, <1>6, AppendProperties DEF Reduced, Result

\* sub_expr finishes the operator or leaves the process.
LEMMA SubExprType ==
  ASSUME TypeOK, SubExpr
  PROVE  TypeOK'
<1>1. CASE TopIs(operators, Reducible)
  <2>1. /\ nodes' = Reduced.nodes /\ values' = Reduced.values
        /\ operators' = Reduced.operators
        /\ UNCHANGED <<program, at, saved, strings, pc, body>>
    BY <1>1 DEF SubExpr
  <2> QED
    BY <1>1, <2>1, ReducedType, Keeps DEF TypeOK
<1>2. CASE ~ TopIs(operators, Reducible)
  BY <1>2 DEF SubExpr, Stop, TypeOK, Pointer
<1> QED
  BY <1>1, <1>2

-----------------------------------------------------------------------------
\* The actions, one lemma each or one for those of a kind.
Ends == {"exit69", "segv", "corrupt"}

\* The ends of the process change nothing else.
LEMMA StopType == ASSUME TypeOK, NEW how \in Ends, Stop(how) PROVE TypeOK'
  BY DEF Stop, Ends, TypeOK, Pointer

\* next_token().
LEMMA Moves == ASSUME TypeOK, NEW n \in Nat, Consume(n) PROVE at' \in Nat
  BY DEF TypeOK, Consume

\* Tokens that push a new node without changing another.
LEMMA PushType ==
  ASSUME TypeOK,
         \/ Ident \/ Integer \/ If \/ Else \/ While \/ Return
         \/ VarLocal \/ VarAssignment
  PROVE  TypeOK'
<1>1. /\ Len(nodes) \in Nat /\ Peek(1).lexeme \in Lexemes
      /\ Peek(2).lexeme \in Lexemes /\ "" \in Lexemes
  <2>1. Peek(1) \in Token /\ Peek(2) \in Token
    BY Lookahead
  <2> QED
    BY <2>1, Facts, LexemesAssumption DEF Token
<1>2. CASE Ident
  <2>1. Joins(Len(nodes), NewNode("A_IDENT", Peek(1).lexeme, <<>>))
    BY <1>1, LeafJoins DEF Leaf
  <2>2. at' \in Nat
    BY <1>2, Moves DEF Ident
  <2> QED
    BY <1>2, <2>1, <2>2, PushValueType DEF Ident
<1>3. CASE Integer
  <2>1. Joins(Len(nodes), NewNode("A_INT_LITERAL", Peek(1).lexeme, <<>>))
    BY <1>1, LeafJoins DEF Leaf
  <2>2. at' \in Nat
    BY <1>3, Moves DEF Integer
  <2> QED
    BY <1>3, <2>1, <2>2, PushValueType DEF Integer
<1>4. CASE If
  <2>1. Joins(Len(nodes), NewNode("A_COND", "", <<NULL, NULL, NULL>>))
    BY <1>1, BranchJoins
  <2>2. at' \in Nat
    BY <1>4, Moves DEF If
  <2> QED
    BY <1>4, <2>1, <2>2, PushOperatorType DEF If
<1>5. CASE Else
  <2>1. Joins(Len(nodes), NewNode("A_ELSE_CLAUSE", "", <<>>))
    BY <1>1, LeafJoins DEF Leaf
  <2>2. at' \in Nat
    BY <1>5, Moves DEF Else
  <2> QED
    BY <1>5, <2>1, <2>2, PushOperatorType DEF Else
<1>6. CASE While
  <2>1. Joins(Len(nodes), NewNode("A_WHILE", "", <<Uninit, Uninit>>))
    BY <1>1, BranchJoins
  <2>2. at' \in Nat
    BY <1>6, Moves DEF While
  <2> QED
    BY <1>6, <2>1, <2>2, PushOperatorType DEF While
<1>7. CASE Return
  <2>1. Joins(Len(nodes), NewNode("A_RET", "", <<Uninit>>))
    BY <1>1, BranchJoins
  <2>2. at' \in Nat
    BY <1>7, Moves DEF Return
  <2> QED
    BY <1>7, <2>1, <2>2, PushOperatorType DEF Return
<1>8. CASE VarLocal
  <2>1. Joins(Len(nodes), NewNode("A_DECL_LOCAL", Peek(2).lexeme, <<>>))
    BY <1>1, LeafJoins DEF Leaf
  <2>2. at' \in Nat
    BY <1>8, Moves DEF VarLocal
  <2> QED
    BY <1>8, <2>1, <2>2, PushValueType DEF VarLocal
<1>9. CASE VarAssignment
  <2>1. Joins(Len(nodes), NewNode("A_DECL_ASSIGNMENT", Peek(2).lexeme, <<Uninit>>))
    BY <1>1, BranchJoins
  <2>2. at' \in Nat
    BY <1>9, Moves DEF VarAssignment
  <2> QED
    BY <1>9, <2>1, <2>2, PushOperatorType DEF VarAssignment
<1> QED
  BY <1>2, <1>3, <1>4, <1>5, <1>6, <1>7, <1>8, <1>9

\* A string literal also goes to the list of the data section.
LEMMA StringType == ASSUME TypeOK, String PROVE TypeOK'
<1> DEFINE node == NewNode("A_STR_LITERAL", Peek(1).lexeme, <<>>)
<1>1. Joins(Len(nodes), node)
  <2>1. Peek(1) \in Token
    BY Lookahead
  <2> QED
    BY <2>1, Facts, LeafJoins DEF Leaf, Token
<1>2. /\ nodes' = Append(nodes, node) /\ values' = Append(values, Fresh)
      /\ operators' = operators /\ strings' = Append(strings, Fresh)
      /\ UNCHANGED <<program, saved, pc, body>>
  BY DEF String, PushValue
<1> HIDE DEF node
<1>3. Fresh \in Pointer' /\ Seq(Pointer) \subseteq Seq(Pointer')
  BY <1>1, <1>2, Facts, Grown
<1>4. values' \in Seq(Pointer') /\ operators' \in Seq(Pointer')
  BY <1>2, <1>3, Facts, AppendProperties
<1>5. strings' \in Seq(Pointer')
  BY <1>2, <1>3, AppendProperties DEF TypeOK
<1>6. at' \in Nat
  BY Moves DEF String
<1> QED
  BY <1>1, <1>2, <1>4, <1>5, <1>6, Facts, Makes

\* `=' takes the value on top for its left side.
LEMMA AssignType == ASSUME TypeOK, Assign PROVE TypeOK'
<1> DEFINE node == NewNode("A_ASSIGNMENT", "", <<Popped(values), Uninit>>)
<1>1. Popped(values) \in Child(Len(nodes)) /\ Rest(values) \in Seq(Pointer)
  BY Facts, Pop DEF Child, Pointer
<1>2. Joins(Len(nodes), node)
  BY <1>1, Facts, BranchJoins, LexemesAssumption
<1>3. /\ nodes' = Append(nodes, node) /\ values' = Rest(values)
      /\ operators' = Append(operators, Fresh)
      /\ UNCHANGED <<program, saved, strings, pc, body>>
  BY DEF Assign
<1> HIDE DEF node
<1>4. Fresh \in Pointer' /\ Seq(Pointer) \subseteq Seq(Pointer')
  BY <1>2, <1>3, Facts, Grown
<1>5. values' \in Seq(Pointer') /\ operators' \in Seq(Pointer')
  BY <1>1, <1>3, <1>4, Facts, AppendProperties
<1>6. strings' \in Seq(Pointer')
  BY <1>3, <1>4 DEF TypeOK
<1>7. at' \in Nat
  BY Moves DEF Assign
<1> QED
  BY <1>2, <1>3, <1>5, <1>6, <1>7, Facts, Makes

\* A binary operator, after the one operator that may be finished before it.
LEMMA BinaryType == ASSUME TypeOK, Binary PROVE TypeOK'
<1> DEFINE t == BinaryNode[Tok]
           r == IF Waits(t) THEN Reduced
                ELSE [nodes |-> nodes, values |-> values, operators |-> operators]
           node == NewNode(t, "", <<Uninit, Uninit>>)
<1>1. CASE Stop("exit69")
  BY <1>1, StopType DEF Ends
<1>2. CASE ~ Stop("exit69")
  <2>1. /\ Waits(t) => TopIs(operators, Reducible)
        /\ nodes' = Append(r.nodes, node) /\ values' = r.values
        /\ operators' = Append(r.operators, Fresh) /\ Consume(1)
        /\ UNCHANGED <<program, saved, strings, pc, body>>
        /\ Tok \in DOMAIN BinaryNode
    BY <1>2 DEF Binary
  <2>2. /\ WellFormed(r.nodes) /\ Len(r.nodes) = Len(nodes)
        /\ r.values \in Seq(Pointer) /\ r.operators \in Seq(Pointer)
    <3>1. CASE Waits(t)
      <4>1. r = Reduced /\ TopIs(operators, Reducible)
        BY <2>1, <3>1
      <4> HIDE DEF r
      <4> QED
        BY <4>1, ReducedType
    <3>2. CASE ~ Waits(t)
      <4>1. r.nodes = nodes /\ r.values = values /\ r.operators = operators
        BY <3>2
      <4> HIDE DEF r
      <4> QED
        BY <4>1, Facts
    <3> QED
      BY <3>1, <3>2
  <2>3. t \in BinaryTypes
    <3>1. \A token \in DOMAIN BinaryNode : BinaryNode[token] \in BinaryTypes
      BY DEF BinaryNode, BinaryTypes
    <3> QED
      BY <2>1, <3>1
  <2>4. Joins(Len(nodes), node)
    BY <2>3, Facts, BranchJoins, LexemesAssumption
  <2>5. at' \in Nat
    BY <2>1, Moves
  <2> HIDE DEF node, r
  <2>6. Fresh \in Pointer' /\ Seq(Pointer) \subseteq Seq(Pointer')
    BY <2>1, <2>2, <2>4, Grown
  <2>7. values' \in Seq(Pointer') /\ operators' \in Seq(Pointer')
    BY <2>1, <2>2, <2>6, AppendProperties
  <2>8. strings' \in Seq(Pointer')
    BY <2>1, <2>6 DEF TypeOK
  <2> QED
    BY <2>1, <2>2, <2>4, <2>5, <2>7, <2>8, Makes
<1> QED
  BY <1>1, <1>2

\* `(' after an identifier turns that node into a call.
LEMMA LParenType == ASSUME TypeOK, LParen PROVE TypeOK'
<1> DEFINE call == TopIs(values, {"A_IDENT"})
           heap == IF call THEN [nodes EXCEPT ![Last(values)].t = "A_CALL"] ELSE nodes
           ops  == IF call THEN Append(operators, Last(values)) ELSE operators
           node == NewNode("A_OPEN_PAREN", "", <<>>)
<1>1. WellFormed(heap) /\ Len(heap) = Len(nodes) /\ ops \in Seq(Pointer)
  <2>1. CASE ~ call
    BY <2>1, Facts
  <2>2. CASE call
    <3> DEFINE id == Last(values)
               named == [nodes[id] EXCEPT !.t = "A_CALL"]
    <3>1. id \in Pointer /\ nodes[id].t = "A_IDENT"
      BY <2>2, Facts, LastFront DEF TopIs, TypeOf
    <3>2. nodes[id] \in Node /\ Joins(Len(nodes), nodes[id])
      BY <3>1, Facts
    <3>3. "A_CALL" \in AstTypes /\ "A_CALL" \notin DOMAIN Arity
      BY DEF AstTypes, Prec, Arity
    <3>4. named \in Node /\ named.kids = nodes[id].kids /\ named.t = "A_CALL"
      BY <3>2, <3>3 DEF Node
    <3>5. Joins(Len(nodes), named)
      BY <3>2, <3>3, <3>4 DEF Joins
    <3>6. heap = [nodes EXCEPT ![id] = named]
      BY <2>2
    <3>7. ops \in Seq(Pointer)
      BY <2>2, <3>1, Facts, AppendProperties
    <3>8. WellFormed(nodes) /\ id \in 1..Len(nodes)
      BY <3>1, Facts DEF Pointer
    <3> HIDE DEF named, id
    <3>9. WellFormed([nodes EXCEPT ![id] = named])
          /\ Len([nodes EXCEPT ![id] = named]) = Len(nodes)
      BY <3>5, <3>8, HeapWrite
    <3> QED
      BY <3>6, <3>7, <3>9
  <2> QED
    BY <2>1, <2>2
<1>2. Joins(Len(nodes), node)
  BY Facts, LeafJoins, LexemesAssumption DEF Leaf
<1>3. /\ nodes' = Append(heap, node) /\ operators' = Append(ops, Fresh)
      /\ UNCHANGED <<program, values, saved, strings, pc, body>>
  BY DEF LParen
<1>4. at' \in Nat
  BY Moves DEF LParen
<1> HIDE DEF node, heap, ops
<1>5. Fresh \in Pointer' /\ Seq(Pointer) \subseteq Seq(Pointer')
  BY <1>1, <1>2, <1>3, Grown
<1>6. values' \in Seq(Pointer') /\ operators' \in Seq(Pointer')
  BY <1>1, <1>3, <1>5, Facts, AppendProperties
<1>7. strings' \in Seq(Pointer')
  BY <1>3, <1>5 DEF TypeOK
<1> QED
  BY <1>1, <1>2, <1>3, <1>4, <1>6, <1>7, Makes

\* The parenthesis taken off the operator stack.
LEMMA UnderType == ASSUME TypeOK PROVE Under \in Seq(Pointer)
  BY Facts, Pop DEF Under

\* Writing one child of a node moves no node.
LEMMA KidType ==
  ASSUME TypeOK, NEW id \in Pointer, NEW k \in Nat,
         NEW kid \in Child(Len(nodes)), nodes' = SetKid(nodes, id, k, kid)
  PROVE  WellFormed(nodes') /\ Len(nodes') = Len(nodes)
<1>1. WellFormed(nodes) /\ id \in 1..Len(nodes)
  BY Facts DEF Pointer
<1> QED
  BY <1>1, HeapWriteKid

\* The condition of an if or a while.
LEMMA RParenCondType == ASSUME TypeOK, RParenCond PROVE TypeOK'
<1>1. Last(Under) \in Pointer
  BY UnderType, LastFront DEF RParenCond, TopIs
<1>2. Popped(values) \in Child(Len(nodes)) /\ Rest(values) \in Seq(Pointer)
  BY Facts, Pop DEF Child, Pointer
<1>3. WellFormed(nodes') /\ Len(nodes') = Len(nodes)
  BY <1>1, <1>2, KidType DEF RParenCond
<1>4. at' \in Nat
  BY Moves DEF RParenCond
<1> QED
  BY <1>2, <1>3, <1>4, UnderType, Keeps DEF RParenCond, TypeOK

\* The end of a call: its arguments leave the value stack.
LEMMA RParenCallType == ASSUME TypeOK, RParenCall PROVE TypeOK'
<1>1. PICK i \in LastCall :
        /\ nodes' = Append(nodes, NewNode("A_CALL_FINISHED", nodes[values[i]].lexeme,
                                          Reverse(SubSeq(values, i + 1, Len(values)))))
        /\ values' = Append(SubSeq(values, 1, i - 1), Fresh)
  BY DEF RParenCall
<1> DEFINE args == Reverse(SubSeq(values, i + 1, Len(values)))
           node == NewNode("A_CALL_FINISHED", nodes[values[i]].lexeme, args)
<1>2. /\ i \in 1..Len(values) /\ Len(values) \in Nat /\ values[i] \in Pointer
      /\ \A j \in 1..Len(values) : values[j] \in Pointer
  BY Facts, LenProperties DEF LastCall
<1>3. /\ SubSeq(values, 1, i - 1) \in Seq(Pointer)
      /\ SubSeq(values, i + 1, Len(values)) \in Seq(Pointer)
  BY <1>2, SubSeqProperties
<1>4. args \in Seq(Child(Len(nodes)))
  <2>1. args \in Seq(Pointer)
    BY <1>3, ReverseSeq
  <2>2. Pointer \subseteq Child(Len(nodes))
    BY DEF Pointer, Child
  <2> QED
    BY <2>1, <2>2, SeqMonotonic
<1>5. Joins(Len(nodes), node)
  <2>1. nodes[values[i]].lexeme \in Lexemes /\ Len(nodes) \in Nat
    BY <1>2, Facts DEF Node
  <2>2. "A_CALL_FINISHED" \in AstTypes /\ "A_CALL_FINISHED" \notin DOMAIN Arity
    BY DEF AstTypes, Prec, Arity
  <2> QED
    BY <1>4, <2>1, <2>2, NewNodeJoins
<1>6. nodes' = Append(nodes, node)
  BY <1>1
<1> HIDE DEF node
<1>7. Fresh \in Pointer' /\ Seq(Pointer) \subseteq Seq(Pointer')
  BY <1>5, <1>6, Facts, Grown
<1>8. Front(Under) \in Seq(Pointer)
  BY UnderType, LastFront DEF RParenCall, TopIs
<1>9. values' \in Seq(Pointer') /\ operators' \in Seq(Pointer')
  BY <1>1, <1>3, <1>7, <1>8, AppendProperties DEF RParenCall
<1>10. strings' \in Seq(Pointer')
  BY <1>7 DEF RParenCall, TypeOK
<1>11. at' \in Nat
  BY Moves DEF RParenCall
<1> QED
  BY <1>5, <1>6, <1>9, <1>10, <1>11, Facts, Makes DEF RParenCall

\* The other handlers of `)'.
LEMMA RParenType ==
  ASSUME TypeOK, RParenReduce \/ RParenGroup \/ RParenOverrun \/ RParenNoCall
  PROVE  TypeOK'
<1>1. CASE RParenReduce
  BY <1>1, SubExprType DEF RParenReduce
<1>2. CASE RParenGroup
  <2>1. at' \in Nat
    BY <1>2, Moves DEF RParenGroup
  <2> QED
    BY <1>2, <2>1, UnderType, Facts, Keeps DEF RParenGroup, TypeOK
<1>3. CASE RParenOverrun
  BY <1>3, StopType DEF RParenOverrun, Ends
<1>4. CASE RParenNoCall
  BY <1>4, StopType DEF RParenNoCall, Ends
<1> QED
  BY <1>1, <1>2, <1>3, <1>4

\* A conditional, a loop or a return takes what it waited for.
LEMMA CloseStatementType ==
  ASSUME TypeOK, NEW types, NEW k \in Nat, CloseStatement(types, k)
  PROVE  TypeOK'
<1>1. Last(operators) \in Pointer /\ Front(operators) \in Seq(Pointer)
  BY Facts, LastFront DEF CloseStatement, TopIs
<1>2. Popped(values) \in Child(Len(nodes)) /\ Rest(values) \in Seq(Pointer)
  BY Facts, Pop DEF Child, Pointer
<1>3. WellFormed(nodes') /\ Len(nodes') = Len(nodes)
  BY <1>1, <1>2, KidType DEF CloseStatement
<1>4. values' \in Seq(Pointer) /\ operators' \in Seq(Pointer)
  BY <1>1, <1>2, AppendProperties DEF CloseStatement
<1> QED
  BY <1>3, <1>4, Keeps DEF CloseStatement, TypeOK

\* An else hands two blocks to the conditional under it, or breaks a declaration.
LEMMA CloseElseType == ASSUME TypeOK, CloseElse PROVE TypeOK'
<1>1. CASE TopIs(Under, {"A_COND", "A_DECL_ASSIGNMENT"})
  <2> DEFINE id == Last(Under)
             heap == IF TypeOf(id) = "A_COND" THEN SetKid(nodes, id, 2, Popped(Rest(values)))
                                              ELSE Nameless(nodes, id)
             k == IF TypeOf(id) = "A_COND" THEN 3 ELSE 1
  <2>1. id \in Pointer /\ Front(Under) \in Seq(Pointer)
    BY <1>1, UnderType, LastFront DEF TopIs
  <2>2. /\ Popped(values) \in Child(Len(nodes)) /\ Rest(values) \in Seq(Pointer)
        /\ Popped(Rest(values)) \in Child(Len(nodes))
        /\ Rest(Rest(values)) \in Seq(Pointer)
    BY Facts, Pop DEF Child, Pointer
  <2>3. /\ nodes' = SetKid(heap, id, k, Popped(values)) /\ k \in Nat
        /\ values' = Append(Rest(Rest(values)), id) /\ operators' = Front(Under)
        /\ pc' = "closing" /\ UNCHANGED <<program, at, saved, strings, body>>
    BY <1>1 DEF CloseElse, TakesBlocks, Nameless
  <2>4. WellFormed(heap) /\ Len(heap) = Len(nodes)
    BY <2>1, <2>2, Facts, HeapWriteKid, HeapRename DEF Pointer
  <2> HIDE DEF heap, k
  <2>5. WellFormed(nodes') /\ Len(nodes') = Len(nodes)
    BY <2>1, <2>2, <2>3, <2>4, HeapWriteKid DEF Pointer
  <2>6. values' \in Seq(Pointer) /\ operators' \in Seq(Pointer)
    BY <2>1, <2>2, <2>3, AppendProperties
  <2> QED
    BY <2>3, <2>5, <2>6, Keeps DEF TypeOK
<1>2. CASE ~ TopIs(Under, {"A_COND", "A_DECL_ASSIGNMENT"})
  <2>1. Stop("segv") \/ Stop("corrupt")
    BY <1>2 DEF CloseElse
  <2> QED
    BY <2>1, StopType DEF Ends
<1> QED
  BY <1>1, <1>2

\* An expression statement is followed by its void mark.
LEMMA SemiVoidType == ASSUME TypeOK, SemiVoid PROVE TypeOK'
<1> DEFINE node == NewNode("EXPR_TO_VOID", "", <<>>)
<1>1. at' \in Nat \/ Stop("segv")
  BY Moves DEF SemiVoid
<1>2. CASE Stop("segv")
  BY <1>2, StopType DEF Ends
<1>3. CASE UNCHANGED <<program, nodes, values, operators, saved, strings, pc, body>>
           /\ ~ Stop("segv")
  BY <1>1, <1>3 DEF TypeOK, Pointer
<1>4. CASE PushValue(node) /\ UNCHANGED <<program, saved, strings, pc, body>>
           /\ ~ Stop("segv")
  <2>1. Joins(Len(nodes), node)
    BY Facts, LeafJoins, LexemesAssumption DEF Leaf
  <2> HIDE DEF node
  <2> QED
    BY <1>1, <1>4, <2>1, PushValueType
<1> QED
  BY <1>2, <1>3, <1>4 DEF SemiVoid

\* All handlers of `;'.
LEMMA SemicolonType ==
  ASSUME TypeOK,
         SemiReduce \/ CloseCond \/ CloseReturn \/ CloseElse \/ SemiClosed \/ SemiVoid
  PROVE  TypeOK'
<1>1. CASE SemiReduce
  BY <1>1, SubExprType DEF SemiReduce
<1>2. CASE CloseCond
  BY <1>2, CloseStatementType DEF CloseCond
<1>3. CASE CloseReturn
  BY <1>3, CloseStatementType DEF CloseReturn
<1>4. CASE CloseElse
  BY <1>4, CloseElseType
<1>5. CASE SemiClosed
  <2>1. at' \in Nat
    BY <1>5, Moves DEF SemiClosed, OneToken
  <2> QED
    BY <1>5, <2>1 DEF SemiClosed, TypeOK, Pointer
<1>6. CASE SemiVoid
  BY <1>6, SemiVoidType
<1> QED
  BY <1>1, <1>2, <1>3, <1>4, <1>5, <1>6

\* `{' saves both stacks.
LEMMA OpenBlockType == ASSUME TypeOK, OpenBlock PROVE TypeOK'
<1>1. saved' \in Seq([values : Seq(Pointer), operators : Seq(Pointer)])
  BY AppendProperties DEF OpenBlock, TypeOK
<1>2. values' \in Seq(Pointer) /\ operators' \in Seq(Pointer)
  BY EmptySeq DEF OpenBlock
<1>3. at' \in Nat
  BY Moves DEF OpenBlock
<1> QED
  BY <1>1, <1>2, <1>3 DEF OpenBlock, TypeOK, Pointer

\* `}' takes them back and pushes the block.
LEMMA CloseBlockType == ASSUME TypeOK, CloseBlock PROVE TypeOK'
<1> DEFINE node == NewNode("A_BLOCK", "", BlockValues)
<1>1. CASE Stop("segv")
  BY <1>1, StopType DEF Ends
<1>2. CASE ~ Stop("segv")
  <2>1. /\ nodes' = Append(nodes, node)
        /\ values' = Append(Last(saved).values, Fresh)
        /\ operators' = Last(saved).operators /\ saved' = Front(saved)
        /\ Consume(1) /\ UNCHANGED <<program, strings, pc, body>>
        /\ values # <<>> /\ saved # <<>>
    BY <1>2 DEF CloseBlock
  <2>2. BlockValues \in Seq(Pointer)
    BY <2>1, Facts, LastFront DEF BlockValues
  <2>3. BlockValues \in Seq(Child(Len(nodes)))
    <3>1. Pointer \subseteq Child(Len(nodes))
      BY DEF Pointer, Child
    <3> QED
      BY <2>2, <3>1, SeqMonotonic
  <2>4. Joins(Len(nodes), node)
    <3>1. "A_BLOCK" \in AstTypes /\ "A_BLOCK" \notin DOMAIN Arity
      BY DEF AstTypes, Prec, Arity
    <3> QED
      BY <2>3, <3>1, Facts, NewNodeJoins, LexemesAssumption
  <2> HIDE DEF node
  <2>5. /\ WellFormed(nodes') /\ Fresh \in Pointer'
        /\ Seq(Pointer) \subseteq Seq(Pointer')
        /\ Saved(Len(nodes)) \subseteq Saved(Len(nodes'))
    BY <2>1, <2>4, Facts, Grown
  <2>6. /\ Last(saved) \in [values : Seq(Pointer), operators : Seq(Pointer)]
        /\ Front(saved) \in Saved(Len(nodes))
    BY <2>1, LastFront DEF TypeOK, Saved, Stack, Pointer
  <2>7. values' \in Seq(Pointer') /\ operators' \in Seq(Pointer')
    BY <2>1, <2>5, <2>6, AppendProperties
  <2>8. saved' \in Saved(Len(nodes'))
    BY <2>1, <2>5, <2>6
  <2>9. at' \in Nat
    BY <2>1, Moves
  <2>10. strings' \in Seq(Pointer') /\ body' \in Seq(Pointer')
    BY <2>1, <2>5 DEF TypeOK
  <2> QED
    BY <2>1, <2>5, <2>7, <2>8, <2>9, <2>10 DEF TypeOK, Saved, Stack, Pointer
<1> QED
  BY <1>1, <1>2

\* The end of the function.
LEMMA EndBodyType == ASSUME TypeOK, EndBody PROVE TypeOK'
<1>1. CASE Stop("exit69")
  BY <1>1, StopType DEF Ends
<1>2. CASE ~ Stop("exit69")
  <2>1. /\ pc' = "done" /\ body' = values /\ values' = <<>> /\ operators' = <<>>
        /\ Consume(2) /\ UNCHANGED <<program, nodes, saved, strings>>
    BY <1>2 DEF EndBody, ValuesAfterBody
  <2>2. at' \in Nat
    BY <2>1, Moves
  <2> QED
    BY <2>1, <2>2, EmptySeq DEF TypeOK, Pointer
<1> QED
  BY <1>1, <1>2

\* Handlers that change no node and no stack.
LEMMA OtherType ==
  ASSUME TypeOK, VarPanic \/ Skip \/ EndOfText
  PROVE  TypeOK'
<1>1. CASE VarPanic
  BY <1>1, StopType DEF VarPanic, Ends
<1>2. CASE Skip
  <2>1. at' \in Nat
    BY <1>2, Moves DEF Skip
  <2> QED
    BY <1>2, <2>1 DEF Skip, TypeOK, Pointer
<1>3. CASE EndOfText
  BY <1>3 DEF EndOfText, vars, TypeOK, Pointer
<1> QED
  BY <1>1, <1>2, <1>3

-----------------------------------------------------------------------------
\* The parameters are nodes, and they are the first values.
LEMMA InitType == Init => TypeOK
<1> SUFFICES ASSUME Init PROVE TypeOK
  OBVIOUS
<1> DEFINE n == Len(program.params)
           node(i) == NewNode("A_DECL_LOCAL", program.params[i], <<>>)
<1>1. /\ program.params \in Seq(Lexemes) /\ program.text \in Seq(Token)
      /\ n \in Nat /\ \A i \in 1..n : program.params[i] \in Lexemes
  BY ProgramsAssumption, LenProperties, ElementOfSeq DEF Init
<1>2. \A i \in 1..n : Joins(n, node(i)) /\ node(i) \in Node
  <2>1. \A i \in 1..n : Joins(n, node(i))
    BY <1>1, LeafJoins DEF Leaf
  <2> QED
    BY <2>1 DEF Joins
<1>3. nodes \in Seq(Node) /\ Len(nodes) = n /\ \A i \in 1..n : nodes[i] = node(i)
  <2>1. nodes = [i \in 1..n |-> node(i)]
    BY DEF Init
  <2> HIDE DEF node
  <2>2. nodes \in [1..n -> Node] /\ DOMAIN nodes = 1..n
    BY <1>2, <2>1
  <2>3. nodes \in Seq(Node)
    BY <1>1, <2>2, SeqDef
  <2>4. Len(nodes) = n
    <3>1. DOMAIN nodes = 1..Len(nodes) /\ Len(nodes) \in Nat
      BY <2>3, LenProperties
    <3> HIDE DEF n
    <3> QED
      BY <1>1, <2>2, <3>1
  <2> QED
    BY <2>1, <2>3, <2>4
<1>4. WellFormed(nodes)
  BY <1>2, <1>3, HeapOf
<1>5. values \in Seq(Pointer)
  <2>1. values = [i \in 1..n |-> i]
    BY DEF Init
  <2>2. values \in [1..n -> 1..n]
    BY <2>1
  <2>3. Pointer = 1..n /\ n \in Nat
    BY <1>1, <1>3 DEF Pointer
  <2> HIDE DEF n
  <2> QED
    BY <2>2, <2>3, SeqDef
<1> QED
  BY <1>1, <1>4, <1>5, EmptySeq DEF Init, TypeOK

\* Every step keeps the types.
LEMMA StepType == TypeOK /\ [Next]_vars => TypeOK'
<1> SUFFICES ASSUME TypeOK, [Next]_vars PROVE TypeOK'
  OBVIOUS
<1>1. CASE \/ Ident \/ Integer \/ If \/ Else \/ While \/ Return
           \/ VarLocal \/ VarAssignment
  BY <1>1, PushType
<1>2. CASE String
  BY <1>2, StringType
<1>3. CASE Assign
  BY <1>3, AssignType
<1>4. CASE Binary
  BY <1>4, BinaryType
<1>5. CASE LParen
  BY <1>5, LParenType
<1>6. CASE RParenReduce \/ RParenGroup \/ RParenOverrun \/ RParenNoCall
  BY <1>6, RParenType
<1>7. CASE RParenCond
  BY <1>7, RParenCondType
<1>8. CASE RParenCall
  BY <1>8, RParenCallType
<1>9. CASE SemiReduce \/ CloseCond \/ CloseReturn \/ CloseElse \/ SemiClosed \/ SemiVoid
  BY <1>9, SemicolonType
<1>10. CASE OpenBlock
  BY <1>10, OpenBlockType
<1>11. CASE CloseBlock
  BY <1>11, CloseBlockType
<1>12. CASE EndBody
  BY <1>12, EndBodyType
<1>13. CASE VarPanic \/ Skip \/ EndOfText
  BY <1>13, OtherType
<1>14. CASE UNCHANGED vars
  BY <1>14 DEF vars, TypeOK, Pointer
<1> QED
  BY <1>1, <1>2, <1>3, <1>4, <1>5, <1>6, <1>7, <1>8, <1>9, <1>10, <1>11, <1>12,
     <1>13, <1>14 DEF Next

\* Whatever the tokens are, the stacks of __parse hold nodes, never NULL, and
\* every node has as many children as the code generator reads.
THEOREM ParserTypeOK == Spec => []TypeOK
  BY InitType, StepType, PTL DEF Spec

-----------------------------------------------------------------------------
(***************************************************************************)
(* The forest. A handler is a sequence of moves of one node each. HeldOnce *)
(* is restated for any heap and stacks, so that it can be followed from    *)
(* move to move inside a handler; types are kept by the lemmas above.      *)
(***************************************************************************)
\* A heap h, the two stacks v and o in use, and the stacks s put aside.
Typed(h, v, o, s) ==
  /\ WellFormed(h)
  /\ v \in Stack(Len(h)) /\ o \in Stack(Len(h)) /\ s \in Saved(Len(h))

Top(s) == Len(s) + 1
ValuesAt(v, s, a)    == IF a = Top(s) THEN v ELSE s[a].values
OperatorsAt(o, s, a) == IF a = Top(s) THEN o ELSE s[a].operators

\* The place <<kind, a, i>> holds the node x.
Held(h, v, o, s, kind, a, i, x) ==
  /\ x \in 1..Len(h)
  /\ \/ /\ kind = "value" /\ a \in 1..Top(s)
        /\ i \in 1..Len(ValuesAt(v, s, a)) /\ ValuesAt(v, s, a)[i] = x
     \/ /\ kind = "operator" /\ a \in 1..Top(s)
        /\ i \in 1..Len(OperatorsAt(o, s, a)) /\ OperatorsAt(o, s, a)[i] = x
        /\ h[x].t # "A_CALL"
     \/ /\ kind = "child" /\ a \in 1..Len(h)
        /\ i \in 1..Len(h[a].kids) /\ h[a].kids[i] = x

Once(h, v, o, s) ==
  \A k, a, i, l, b, j, x :
     Held(h, v, o, s, k, a, i, x) /\ Held(h, v, o, s, l, b, j, x)
       => k = l /\ a = b /\ i = j

\* The parser's own heap and stacks are typed.
LEMMA ParserTyped ==
  ASSUME TypeOK
  PROVE  Typed(nodes, values, operators, saved)
  BY Facts DEF TypeOK, Typed, Stack, Saved, Pointer

\* And so are all stacks there are, below which the bodies `done' are put.
LEMMA AllTyped ==
  ASSUME TypeOK, NEW done \in Saved(Len(nodes))
  PROVE  Typed(nodes, values, operators, done \o saved)
  BY ParserTyped, ConcatProperties DEF Typed, Saved

\* What the types say of lengths and of the elements of the stacks.
LEMMA TypedFacts ==
  ASSUME NEW h, NEW v, NEW o, NEW s, Typed(h, v, o, s)
  PROVE  /\ Len(h) \in Nat /\ Len(s) \in Nat /\ Len(v) \in Nat /\ Len(o) \in Nat
         /\ h \in Seq(Node) /\ v \in Seq(1..Len(h)) /\ o \in Seq(1..Len(h))
         /\ \A i \in 1..Len(v) : v[i] \in 1..Len(h)
         /\ \A i \in 1..Len(o) : o[i] \in 1..Len(h)
         /\ \A a \in 1..Len(s) :
              /\ s[a].values \in Seq(1..Len(h)) /\ s[a].operators \in Seq(1..Len(h))
              /\ Len(s[a].values) \in Nat /\ Len(s[a].operators) \in Nat
              /\ \A i \in 1..Len(s[a].values) : s[a].values[i] \in 1..Len(h)
              /\ \A i \in 1..Len(s[a].operators) : s[a].operators[i] \in 1..Len(h)
         /\ \A a \in 1..Len(h) :
              /\ h[a] \in Node
              /\ h[a].kids \in Seq(Child(Len(h))) /\ Len(h[a].kids) \in Nat
              /\ \A i \in 1..Len(h[a].kids) : h[a].kids[i] \in Child(Len(h))
<1>1. /\ h \in Seq(Node) /\ v \in Seq(1..Len(h)) /\ o \in Seq(1..Len(h))
      /\ s \in Seq([values : Seq(1..Len(h)), operators : Seq(1..Len(h))])
  BY DEF Typed, WellFormed, Stack, Saved
<1>2. Len(h) \in Nat /\ Len(s) \in Nat /\ Len(v) \in Nat /\ Len(o) \in Nat
  BY <1>1, LenProperties
<1>3. \A a \in 1..Len(s) : s[a] \in [values : Seq(1..Len(h)), operators : Seq(1..Len(h))]
  BY <1>1, ElementOfSeq
<1>4. \A a \in 1..Len(h) : h[a] \in Node /\ h[a].kids \in Seq(Child(Len(h)))
  BY <1>1, HeapOf DEF Typed, Joins
<1>5. \A a \in 1..Len(s) : s[a].values \in Seq(1..Len(h)) /\ s[a].operators \in Seq(1..Len(h))
  BY <1>3
<1> QED
  BY <1>1, <1>2, <1>4, <1>5, LenProperties, ElementOfSeq

\* A finished body, as a pair of stacks put aside, and so several of them.
BodyStack(b)    == [values |-> b, operators |-> <<>>]
BodyStacks(bs)  == [k \in DOMAIN bs |-> BodyStack(bs[k])]

\* What holds a node, in the words above, when the bodies are put aside below
\* the stacks.
LEMMA InTheseWords ==
  ASSUME Typed(nodes, values, operators, saved),
         NEW bs, bs \in Seq(Stack(Len(nodes))),
         Once(nodes, values, operators, BodyStacks(bs) \o saved)
  PROVE  SharesNothing(bs)
<1> DEFINE n == Len(bs)
           all == BodyStacks(bs) \o saved
           rec == [values |-> values, operators |-> operators]
           Kind(p) == IF p[2] = "body" THEN "value" ELSE p[2]
           Where(p) == IF p[2] \in {"value", "operator"} THEN n + p[3] ELSE p[3]
<1>1. /\ n \in Nat /\ DOMAIN bs = 1..n /\ Len(saved) \in Nat
      /\ saved \in Seq([values : Stack(Len(nodes)), operators : Stack(Len(nodes))])
      /\ BodyStacks(bs) \in Seq([values : Stack(Len(nodes)), operators : Stack(Len(nodes))])
      /\ Len(BodyStacks(bs)) = n /\ \A k \in 1..n : BodyStacks(bs)[k].values = bs[k]
  <2>1. n \in Nat /\ DOMAIN bs = 1..n /\ \A k \in 1..n : bs[k] \in Stack(Len(nodes))
    BY LenProperties, ElementOfSeq
  <2>2. saved \in Seq([values : Stack(Len(nodes)), operators : Stack(Len(nodes))])
    BY DEF Typed, Saved
  <2>3. <<>> \in Stack(Len(nodes))
    BY EmptySeq DEF Stack
  <2> HIDE DEF n
  <2>4. /\ BodyStacks(bs) = [k \in 1..n |-> BodyStack(bs[k])]
        /\ \A k \in 1..n :
             BodyStack(bs[k]) \in [values : Stack(Len(nodes)), operators : Stack(Len(nodes))]
        /\ \A k \in 1..n : BodyStack(bs[k]).values = bs[k]
    BY <2>1, <2>3 DEF BodyStacks, BodyStack
  <2>5. BodyStacks(bs) \in Seq([values : Stack(Len(nodes)), operators : Stack(Len(nodes))])
    BY <2>1, <2>4, SeqDef
  <2>6. Len(BodyStacks(bs)) = n
    <3>1. DOMAIN BodyStacks(bs) = 1..n
      BY <2>4
    <3>2. DOMAIN BodyStacks(bs) = 1..Len(BodyStacks(bs)) /\ Len(BodyStacks(bs)) \in Nat
      BY <2>5, LenProperties
    <3> QED
      BY <2>1, <3>1, <3>2
  <2> QED
    BY <2>1, <2>2, <2>4, <2>5, <2>6, LenProperties DEF n
<1> HIDE DEF n
<1>2. /\ Top(all) = n + Top(saved)
      /\ \A k \in 1..n : all[k].values = bs[k]
      /\ \A k \in 1..Len(saved) : all[n + k] = saved[k]
  <2>1. /\ all \in Seq([values : Stack(Len(nodes)), operators : Stack(Len(nodes))])
        /\ Len(all) = n + Len(saved)
        /\ \A k \in 1..n + Len(saved) :
             all[k] = IF k =< n THEN BodyStacks(bs)[k] ELSE saved[k - n]
    BY <1>1, ConcatProperties
  <2> HIDE DEF all
  <2>2. \A k \in 1..n : k \in 1..n + Len(saved) /\ k =< n
    BY <1>1
  <2>3. \A k \in 1..Len(saved) : n + k \in 1..n + Len(saved) /\ ~ n + k =< n /\ (n + k) - n = k
    BY <1>1
  <2>4. \A k \in 1..Len(saved) : all[n + k] = saved[k]
    BY <2>1, <2>3
  <2> QED
    BY <1>1, <2>1, <2>2, <2>4 DEF Top
<1> HIDE DEF all
<1>3. /\ DOMAIN Stacks = 1..Top(saved)
      /\ \A a \in 1..Top(saved) : /\ Stacks[a].values = ValuesAt(values, all, n + a)
                                  /\ Stacks[a].operators = OperatorsAt(operators, all, n + a)
  <2>1. rec \in [values : Stack(Len(nodes)), operators : Stack(Len(nodes))]
        /\ rec.values = values /\ rec.operators = operators
    BY DEF Typed
  <2> HIDE DEF rec
  <2>2. /\ Stacks \in Seq([values : Stack(Len(nodes)), operators : Stack(Len(nodes))])
        /\ Len(Stacks) = Len(saved) + 1 /\ Stacks[Len(saved) + 1] = rec
        /\ \A a \in 1..Len(saved) : Stacks[a] = saved[a]
    BY <1>1, <2>1, AppendProperties DEF Stacks, rec
  <2>3. ASSUME NEW a \in 1..Top(saved)
        PROVE  /\ Stacks[a].values = ValuesAt(values, all, n + a)
               /\ Stacks[a].operators = OperatorsAt(operators, all, n + a)
    <3>1. CASE a = Top(saved)
      BY <1>2, <2>1, <2>2, <3>1 DEF Top, ValuesAt, OperatorsAt
    <3>2. CASE a # Top(saved)
      <4>1. a \in 1..Len(saved) /\ n + a # n + Top(saved)
        BY <1>1, <2>3, <3>2 DEF Top
      <4>2. Stacks[a] = saved[a] /\ all[n + a] = saved[a]
        BY <1>2, <2>2, <4>1
      <4> QED
        BY <1>2, <4>1, <4>2 DEF ValuesAt, OperatorsAt
    <3> QED
      BY <3>1, <3>2
  <2> QED
    BY <2>2, <2>3, LenProperties DEF Top
<1>4. /\ \A a \in 1..Top(saved) :
           /\ Stacks[a].values \in Seq(Pointer) /\ Stacks[a].operators \in Seq(Pointer)
           /\ DOMAIN Stacks[a].values = 1..Len(Stacks[a].values)
           /\ DOMAIN Stacks[a].operators = 1..Len(Stacks[a].operators)
      /\ \A a \in Pointer : DOMAIN nodes[a].kids = 1..Len(nodes[a].kids)
      /\ \A k \in 1..n : bs[k] \in Seq(Pointer) /\ DOMAIN bs[k] = 1..Len(bs[k])
  <2>1. Stacks \in Seq([values : Seq(Pointer), operators : Seq(Pointer)])
    <3>1. /\ saved \in Seq([values : Seq(Pointer), operators : Seq(Pointer)])
          /\ rec \in [values : Seq(Pointer), operators : Seq(Pointer)]
      BY <1>1 DEF Typed, Stack, Pointer
    <3> HIDE DEF rec
    <3> QED
      BY <3>1, AppendProperties DEF Stacks, rec
  <2>2. \A a \in 1..Top(saved) : Stacks[a] \in [values : Seq(Pointer), operators : Seq(Pointer)]
    <3> DEFINE pairs == [values : Seq(Pointer), operators : Seq(Pointer)]
    <3>1. Stacks \in Seq(pairs)
      BY <2>1
    <3> HIDE DEF pairs
    <3>2. Stacks \in [1..Len(Stacks) -> pairs] /\ 1..Len(Stacks) = 1..Top(saved)
      BY <1>3, <3>1, LenProperties
    <3>3. \A a \in 1..Top(saved) : Stacks[a] \in pairs
      BY <3>2
    <3> QED
      BY <3>3 DEF pairs
  <2>3. \A a \in Pointer : nodes[a].kids \in Seq(Child(Len(nodes)))
    BY TypedFacts DEF Pointer
  <2>4. \A k \in 1..n : bs[k] \in Seq(Pointer)
    BY <1>1, ElementOfSeq DEF Stack, Pointer, n
  <2>5. \A a \in 1..Top(saved) :
          /\ Stacks[a].values \in Seq(Pointer) /\ Stacks[a].operators \in Seq(Pointer)
    BY <2>2
  <2>6. /\ \A a \in 1..Top(saved) :
             /\ DOMAIN Stacks[a].values = 1..Len(Stacks[a].values)
             /\ DOMAIN Stacks[a].operators = 1..Len(Stacks[a].operators)
        /\ \A a \in Pointer : DOMAIN nodes[a].kids = 1..Len(nodes[a].kids)
        /\ \A k \in 1..n : DOMAIN bs[k] = 1..Len(bs[k])
    BY <2>3, <2>4, <2>5, LenProperties
  <2> QED
    BY <2>4, <2>5, <2>6
<1>5. ASSUME NEW p \in Holdings(bs)
      PROVE  /\ Held(nodes, values, operators, all, Kind(p), Where(p), p[4], p[1])
             /\ p = <<p[1], p[2], p[3], p[4]>>
             /\ \/ p[2] = "value" /\ p[3] \in 1..Top(saved)
                \/ p[2] = "operator" /\ p[3] \in 1..Top(saved)
                \/ p[2] = "child"
                \/ p[2] = "body" /\ p[3] \in 1..n
  <2>1. \/ \E a \in DOMAIN Stacks : \E i \in DOMAIN Stacks[a].values :
              p = <<Stacks[a].values[i], "value", a, i>>
        \/ \E a \in DOMAIN Stacks : \E i \in DOMAIN Stacks[a].operators :
              /\ TypeOf(Stacks[a].operators[i]) # "A_CALL"
              /\ p = <<Stacks[a].operators[i], "operator", a, i>>
        \/ \E a \in Pointer : \E i \in DOMAIN nodes[a].kids :
              /\ nodes[a].kids[i] \in Pointer
              /\ p = <<nodes[a].kids[i], "child", a, i>>
        \/ \E k \in DOMAIN bs : \E i \in DOMAIN bs[k] : p = <<bs[k][i], "body", k, i>>
    <3>1. \/ p \in OnValueStacks \/ p \in OnOperatorStacks
          \/ p \in InNodes \/ p \in InBodies(bs)
      BY <1>5 DEF Holdings
    <3>2. p \in OnValueStacks =>
            \E a \in DOMAIN Stacks : \E i \in DOMAIN Stacks[a].values :
               p = <<Stacks[a].values[i], "value", a, i>>
      BY DEF OnValueStacks
    <3>3. p \in OnOperatorStacks =>
            \E a \in DOMAIN Stacks : \E i \in DOMAIN Stacks[a].operators :
               /\ TypeOf(Stacks[a].operators[i]) # "A_CALL"
               /\ p = <<Stacks[a].operators[i], "operator", a, i>>
      BY DEF OnOperatorStacks
    <3>4. p \in InNodes =>
            \E a \in Pointer : \E i \in DOMAIN nodes[a].kids :
               /\ nodes[a].kids[i] \in Pointer
               /\ p = <<nodes[a].kids[i], "child", a, i>>
      BY DEF InNodes
    <3>5. p \in InBodies(bs) =>
            \E k \in DOMAIN bs : \E i \in DOMAIN bs[k] : p = <<bs[k][i], "body", k, i>>
      BY DEF InBodies
    <3> QED
      BY <3>1, <3>2, <3>3, <3>4, <3>5
  <2>2. ASSUME NEW a \in 1..Top(saved), NEW i \in DOMAIN Stacks[a].values,
               p = <<Stacks[a].values[i], "value", a, i>>
        PROVE  Held(nodes, values, operators, all, "value", n + a, i, p[1])
    <3>1. n + a \in 1..Top(all) /\ i \in 1..Len(Stacks[a].values)
          /\ Stacks[a].values[i] \in Pointer
      <4>1. Stacks[a].values \in Seq(Pointer) /\ i \in 1..Len(Stacks[a].values)
        BY <1>4, <2>2
      <4>2. n + a \in 1..Top(all)
        BY <1>1, <1>2 DEF Top
      <4> QED
        BY <4>1, <4>2, ElementOfSeq
    <3> QED
      BY <1>3, <2>2, <3>1 DEF Held, Pointer
  <2>3. ASSUME NEW a \in 1..Top(saved), NEW i \in DOMAIN Stacks[a].operators,
               TypeOf(Stacks[a].operators[i]) # "A_CALL",
               p = <<Stacks[a].operators[i], "operator", a, i>>
        PROVE  Held(nodes, values, operators, all, "operator", n + a, i, p[1])
    <3>1. n + a \in 1..Top(all) /\ i \in 1..Len(Stacks[a].operators)
          /\ Stacks[a].operators[i] \in Pointer
      <4>1. Stacks[a].operators \in Seq(Pointer) /\ i \in 1..Len(Stacks[a].operators)
        BY <1>4, <2>3
      <4>2. n + a \in 1..Top(all)
        BY <1>1, <1>2 DEF Top
      <4> QED
        BY <4>1, <4>2, ElementOfSeq
    <3> QED
      BY <1>3, <2>3, <3>1 DEF Held, Pointer, TypeOf
  <2>4. ASSUME NEW a \in Pointer, NEW i \in DOMAIN nodes[a].kids, nodes[a].kids[i] \in Pointer,
               p = <<nodes[a].kids[i], "child", a, i>>
        PROVE  Held(nodes, values, operators, all, "child", a, i, p[1])
    BY <1>4, <2>4 DEF Held, Pointer
  <2>5. ASSUME NEW k \in 1..n, NEW i \in DOMAIN bs[k], p = <<bs[k][i], "body", k, i>>
        PROVE  Held(nodes, values, operators, all, "value", k, i, p[1])
    <3>1. k \in 1..Top(all) /\ k # Top(all) /\ i \in 1..Len(bs[k]) /\ bs[k][i] \in Pointer
      BY <1>1, <1>2, <1>4, <2>5 DEF Top
    <3>2. ValuesAt(values, all, k) = bs[k]
      BY <1>2, <3>1 DEF ValuesAt
    <3> QED
      BY <2>5, <3>1, <3>2 DEF Held, Pointer
  <2> QED
    BY <1>1, <1>3, <2>1, <2>2, <2>3, <2>4, <2>5
<1> SUFFICES ASSUME NEW p \in Holdings(bs), NEW q \in Holdings(bs), p[1] = q[1]
             PROVE  p = q
  BY DEF SharesNothing
<1>6. Kind(p) = Kind(q) /\ Where(p) = Where(q) /\ p[4] = q[4]
  BY <1>5 DEF Once, all
<1>7. p[2] = q[2] /\ p[3] = q[3]
  <2>1. \/ p[2] \in {"value", "operator"} /\ p[3] \in 1..Top(saved) /\ Where(p) = n + p[3]
           /\ Kind(p) = p[2]
        \/ p[2] = "child" /\ Where(p) = p[3] /\ Kind(p) = "child"
        \/ p[2] = "body" /\ p[3] \in 1..n /\ Where(p) = p[3] /\ Kind(p) = "value"
    BY <1>5
  <2>2. \/ q[2] \in {"value", "operator"} /\ q[3] \in 1..Top(saved) /\ Where(q) = n + q[3]
           /\ Kind(q) = q[2]
        \/ q[2] = "child" /\ Where(q) = q[3] /\ Kind(q) = "child"
        \/ q[2] = "body" /\ q[3] \in 1..n /\ Where(q) = q[3] /\ Kind(q) = "value"
    BY <1>5
  <2> HIDE DEF Kind, Where
  <2>3. n \in Nat /\ Top(saved) \in Nat
    BY <1>1 DEF Top
  <2> QED
    <3>1. CASE p[2] \in {"value", "operator"} /\ q[2] \in {"value", "operator"}
      <4>1. p[2] = q[2] /\ n + p[3] = n + q[3]
        BY <1>6, <2>1, <2>2, <3>1
      <4>2. p[3] \in Nat /\ q[3] \in Nat
        BY <2>1, <2>2, <2>3, <3>1
      <4> QED
        BY <2>3, <4>1, <4>2
    <3>2. CASE p[2] = "child" \/ q[2] = "child"
      BY <1>6, <2>1, <2>2, <3>2
    <3>3. CASE p[2] = "body" /\ q[2] = "body"
      BY <1>6, <2>1, <2>2, <3>3
    <3>4. CASE p[2] = "body" /\ q[2] \in {"value", "operator"}
      <4>1. p[3] \in 1..n /\ q[3] \in 1..Top(saved) /\ p[3] = n + q[3]
        BY <1>6, <2>1, <2>2, <3>4
      <4> QED
        BY <2>3, <4>1
    <3>5. CASE q[2] = "body" /\ p[2] \in {"value", "operator"}
      <4>1. q[3] \in 1..n /\ p[3] \in 1..Top(saved) /\ q[3] = n + p[3]
        BY <1>6, <2>1, <2>2, <3>5
      <4> QED
        BY <2>3, <4>1
    <3> QED
      BY <2>1, <2>2, <3>1, <3>2, <3>3, <3>4, <3>5
<1> QED
  BY <1>5, <1>6, <1>7
-----------------------------------------------------------------------------
\* The moves. After each one, what is held nowhere is still held nowhere.
Free(h, v, o, s, x) == \A k, a, i : ~ Held(h, v, o, s, k, a, i, x)

\* The top of a stack, and the stack below it.
LEMMA FrontIs ==
  ASSUME NEW S, NEW s \in Seq(S), s # <<>>
  PROVE  /\ Len(s) \in Nat \ {0} /\ Last(s) = s[Len(s)] /\ Last(s) \in S
         /\ Front(s) \in Seq(S) /\ Len(Front(s)) = Len(s) - 1
         /\ \A i \in 1..Len(s)-1 : Front(s)[i] = s[i]
<1>1. Len(s) \in Nat \ {0}
  BY EmptySeq, LenProperties
<1>2. /\ Len(SubSeq(s, 1, Len(s) - 1)) = Len(s) - 1
      /\ \A i \in 1..Len(s)-1 : SubSeq(s, 1, Len(s) - 1)[i] = s[i]
  <2> DEFINE n == Len(s) - 1
  <2>1. n \in Nat /\ \A i \in 1..n : s[i] \in S
    BY <1>1, ElementOfSeq
  <2> HIDE DEF n
  <2>2. Len(SubSeq(s, 1, n)) = n /\ \A i \in 1..n : SubSeq(s, 1, n)[i] = s[i]
    BY <2>1, SubSeqProperties
  <2> QED
    BY <2>2 DEF n
<1> QED
  BY <1>1, <1>2, LastFront DEF Front, Last

\* The heap g is the heap h, except that one child is written.
KidWritten(g, h, id, k, kid) ==
  /\ WellFormed(g) /\ Len(g) = Len(h)
  /\ \A a \in 1..Len(h) :
       /\ g[a].t = h[a].t /\ g[a].lexeme = h[a].lexeme
       /\ Len(g[a].kids) = Len(h[a].kids)
       /\ \A i \in 1..Len(h[a].kids) :
            g[a].kids[i] = IF a = id /\ i = k THEN kid ELSE h[a].kids[i]

\* That is what SetKid does.
LEMMA SetKidIs ==
  ASSUME NEW h, WellFormed(h), NEW id \in 1..Len(h), NEW k \in Nat,
         NEW kid \in Child(Len(h))
  PROVE  KidWritten(SetKid(h, id, k, kid), h, id, k, kid)
<1> DEFINE g == SetKid(h, id, k, kid)
<1>1. WellFormed(g) /\ Len(g) = Len(h) /\ Len(h) \in Nat
  BY HeapWriteKid, HeapOf, LenProperties
<1>2. /\ h \in Seq(Node) /\ DOMAIN h = 1..Len(h)
      /\ \A a \in 1..Len(h) : h[a] \in Node /\ h[a].kids \in Seq(Child(Len(h)))
  BY HeapOf, LenProperties DEF Joins
<1>3. ASSUME NEW a \in 1..Len(h), a # id
      PROVE  g[a] = h[a]
  BY <1>2, <1>3 DEF SetKid
<1>4. g[id] = [h[id] EXCEPT !.kids = [@ EXCEPT ![k] = kid]]
  BY <1>2 DEF SetKid
<1>5. /\ g[id].t = h[id].t /\ g[id].lexeme = h[id].lexeme
      /\ g[id].kids = [h[id].kids EXCEPT ![k] = kid]
  BY <1>2, <1>4 DEF Node
<1>6. h[id].kids \in Seq(Child(Len(h))) /\ DOMAIN h[id].kids = 1..Len(h[id].kids)
  BY <1>2, LenProperties
<1>7. /\ Len(g[id].kids) = Len(h[id].kids)
      /\ \A i \in 1..Len(h[id].kids) :
           g[id].kids[i] = IF i = k THEN kid ELSE h[id].kids[i]
  <2>1. CASE k \in 1..Len(h[id].kids)
    BY <1>5, <1>6, <2>1, ExceptSeq
  <2>2. CASE k \notin 1..Len(h[id].kids)
    <3>1. g[id].kids = h[id].kids
      BY <1>5, <1>6, <2>2
    <3> QED
      BY <2>2, <3>1
  <2> QED
    BY <2>1, <2>2
<1> HIDE DEF g
<1>8. KidWritten(g, h, id, k, kid)
  BY <1>1, <1>3, <1>5, <1>7 DEF KidWritten
<1> QED
  BY <1>8 DEF g

\* pop_ast, and the answer becomes a child.
LEMMA PopIntoKid ==
  ASSUME NEW h, NEW v, NEW o, NEW s, Typed(h, v, o, s), Once(h, v, o, s),
         NEW id \in 1..Len(h), NEW k \in Nat
  PROVE  /\ Typed(SetKid(h, id, k, Popped(v)), Rest(v), o, s)
         /\ Once(SetKid(h, id, k, Popped(v)), Rest(v), o, s)
         /\ Len(SetKid(h, id, k, Popped(v))) = Len(h)
         /\ SetKid(h, id, k, Popped(v))[id].t = h[id].t
<1> DEFINE g == SetKid(h, id, k, Popped(v))
           w == Rest(v)
           n == Len(v)
<1>1. Popped(v) \in Child(Len(h)) /\ w \in Seq(1..Len(h)) /\ v \in Seq(1..Len(h))
  BY TypedFacts, Pop DEF Child
<1>2. /\ WellFormed(g) /\ Len(g) = Len(h)
      /\ \A a \in 1..Len(h) :
           /\ g[a].t = h[a].t /\ g[a].lexeme = h[a].lexeme
           /\ Len(g[a].kids) = Len(h[a].kids)
           /\ \A i \in 1..Len(h[a].kids) :
                g[a].kids[i] = IF a = id /\ i = k THEN Popped(v) ELSE h[a].kids[i]
  <2>1. KidWritten(g, h, id, k, Popped(v))
    BY <1>1, SetKidIs DEF Typed
  <2> QED
    BY <2>1 DEF KidWritten
<1>3. \/ w = <<>> /\ Len(w) = 0 /\ Popped(v) = NULL
      \/ /\ n \in Nat \ {0} /\ Popped(v) = v[n] /\ Len(w) = n - 1
         /\ \A i \in 1..n-1 : w[i] = v[i]
  BY <1>1, FrontIs DEF Popped, Rest
<1>4. ASSUME NEW kind, NEW a, NEW i, NEW x, Held(g, w, o, s, kind, a, i, x)
      PROVE  IF kind = "child" /\ a = id /\ i = k
               THEN Held(h, v, o, s, "value", Top(s), n, x)
               ELSE /\ Held(h, v, o, s, kind, a, i, x)
                    /\ ~ (kind = "value" /\ a = Top(s) /\ i = n)
  <2>1. Len(s) \in Nat /\ n \in Nat /\ x # NULL
    BY <1>2, <1>4, TypedFacts DEF Held, NULL
  <2> HIDE DEF g, w
  <2>2. CASE kind = "child"
    <3>1. /\ x \in 1..Len(h) /\ a \in 1..Len(h) /\ i \in 1..Len(h[a].kids)
          /\ g[a].kids[i] = x
      BY <1>2, <1>4, <2>2 DEF Held
    <3>2. CASE a = id /\ i = k
      <4>1. Popped(v) = x
        BY <1>2, <3>1, <3>2
      <4>2. n \in 1..Len(v) /\ v[n] = x
        BY <1>3, <2>1, <4>1
      <4> HIDE DEF n
      <4> QED
        BY <2>1, <2>2, <3>1, <3>2, <4>2 DEF Held, ValuesAt, Top
    <3>3. CASE ~ (a = id /\ i = k)
      BY <1>2, <2>2, <3>1, <3>3 DEF Held
    <3> QED
      BY <3>2, <3>3
  <2>3. CASE kind = "operator"
    BY <1>2, <1>4, <2>1, <2>3, TypedFacts DEF Held
  <2>4. CASE kind = "value"
    <3>1. /\ x \in 1..Len(h) /\ a \in 1..Top(s) /\ i \in 1..Len(ValuesAt(w, s, a))
          /\ ValuesAt(w, s, a)[i] = x
      BY <1>2, <1>4, <2>4 DEF Held
    <3>2. CASE a = Top(s)
      <4>1. i \in 1..Len(w) /\ w[i] = x
        BY <3>1, <3>2 DEF ValuesAt
      <4>2. i \in 1..n /\ i # n /\ v[i] = x
        BY <1>3, <4>1
      <4> QED
        BY <2>4, <3>1, <3>2, <4>2 DEF Held, ValuesAt
    <3>3. CASE a # Top(s)
      BY <2>4, <3>1, <3>3 DEF Held, ValuesAt
    <3> QED
      BY <3>2, <3>3
  <2> QED
    BY <1>4, <2>2, <2>3, <2>4 DEF Held
<1>5. Typed(g, w, o, s)
  BY <1>1, <1>2 DEF Typed, Stack
<1> HIDE DEF g, w, n
<1>6. Once(g, w, o, s)
  BY <1>4 DEF Once
<1> QED
  BY <1>2, <1>5, <1>6 DEF g, w
\* popop, and the answer is dropped.
LEMMA DropOperator ==
  ASSUME NEW h, NEW v, NEW o, NEW s, Typed(h, v, o, s), Once(h, v, o, s)
  PROVE  Typed(h, v, Rest(o), s) /\ Once(h, v, Rest(o), s)
<1> DEFINE w == Rest(o)
<1>1. w \in Seq(1..Len(h)) /\ o \in Seq(1..Len(h))
  BY TypedFacts, Pop
<1>2. /\ Len(w) \in Nat /\ Len(o) \in Nat /\ Len(w) =< Len(o)
      /\ \A i \in 1..Len(w) : w[i] = o[i]
  <2>1. CASE o = <<>>
    BY <2>1 DEF Rest
  <2>2. CASE o # <<>>
    <3>1. w = Front(o)
      BY <2>2 DEF Rest
    <3> HIDE DEF w
    <3>2. /\ Len(o) \in Nat \ {0} /\ Len(w) = Len(o) - 1
          /\ \A i \in 1..Len(o)-1 : w[i] = o[i]
      BY <1>1, <2>2, <3>1, FrontIs
    <3> QED
      BY <3>2
  <2> QED
    BY <2>1, <2>2
<1>3. Typed(h, v, w, s)
  BY <1>1 DEF Typed, Stack
<1> HIDE DEF w
<1>4. ASSUME NEW kind, NEW a, NEW i, NEW x, Held(h, v, w, s, kind, a, i, x)
      PROVE  Held(h, v, o, s, kind, a, i, x)
  <2>1. CASE kind = "operator"
    <3>1. /\ x \in 1..Len(h) /\ h[x].t # "A_CALL" /\ a \in 1..Top(s)
          /\ i \in 1..Len(OperatorsAt(w, s, a)) /\ OperatorsAt(w, s, a)[i] = x
      BY <1>4, <2>1 DEF Held
    <3>2. CASE a = Top(s)
      <4>1. i \in 1..Len(o) /\ o[i] = x
        BY <1>2, <3>1, <3>2 DEF OperatorsAt
      <4> QED
        BY <2>1, <3>1, <3>2, <4>1 DEF Held, OperatorsAt
    <3>3. CASE a # Top(s)
      BY <2>1, <3>1, <3>3 DEF Held, OperatorsAt
    <3> QED
      BY <3>2, <3>3
  <2>2. CASE kind # "operator"
    BY <1>4, <2>2 DEF Held
  <2> QED
    BY <2>1, <2>2
<1>5. Once(h, v, w, s)
  BY <1>4 DEF Once
<1> QED
  BY <1>3, <1>5 DEF w

\* So is that of pop_ast.
LEMMA DropValue ==
  ASSUME NEW h, NEW v, NEW o, NEW s, Typed(h, v, o, s), Once(h, v, o, s)
  PROVE  Typed(h, Rest(v), o, s) /\ Once(h, Rest(v), o, s)
<1> DEFINE w == Rest(v)
<1>1. w \in Seq(1..Len(h)) /\ v \in Seq(1..Len(h))
  BY TypedFacts, Pop
<1>2. /\ Len(w) \in Nat /\ Len(v) \in Nat /\ Len(w) =< Len(v)
      /\ \A i \in 1..Len(w) : w[i] = v[i]
  <2>1. CASE v = <<>>
    BY <2>1 DEF Rest
  <2>2. CASE v # <<>>
    <3>1. w = Front(v)
      BY <2>2 DEF Rest
    <3> HIDE DEF w
    <3>2. /\ Len(v) \in Nat \ {0} /\ Len(w) = Len(v) - 1
          /\ \A i \in 1..Len(v)-1 : w[i] = v[i]
      BY <1>1, <2>2, <3>1, FrontIs
    <3> QED
      BY <3>2
  <2> QED
    BY <2>1, <2>2
<1>3. Typed(h, w, o, s)
  BY <1>1 DEF Typed, Stack
<1> HIDE DEF w
<1>4. ASSUME NEW kind, NEW a, NEW i, NEW x, Held(h, w, o, s, kind, a, i, x)
      PROVE  Held(h, v, o, s, kind, a, i, x)
  <2>1. CASE kind = "value"
    <3>1. /\ x \in 1..Len(h) /\ a \in 1..Top(s)
          /\ i \in 1..Len(ValuesAt(w, s, a)) /\ ValuesAt(w, s, a)[i] = x
      BY <1>4, <2>1 DEF Held
    <3>2. CASE a = Top(s)
      <4>1. i \in 1..Len(v) /\ v[i] = x
        BY <1>2, <3>1, <3>2 DEF ValuesAt
      <4> QED
        BY <2>1, <3>1, <3>2, <4>1 DEF Held, ValuesAt
    <3>3. CASE a # Top(s)
      BY <2>1, <3>1, <3>3 DEF Held, ValuesAt
    <3> QED
      BY <3>2, <3>3
  <2>2. CASE kind # "value"
    BY <1>4, <2>2 DEF Held
  <2> QED
    BY <2>1, <2>2
<1>5. Once(h, w, o, s)
  BY <1>4 DEF Once
<1> QED
  BY <1>3, <1>5 DEF w

\* An operator that is no reminder of a call becomes a value.
LEMMA BecomesValue ==
  ASSUME NEW h, NEW v, NEW o, NEW s, Typed(h, v, o, s), Once(h, v, o, s),
         o # <<>>, h[Last(o)].t # "A_CALL"
  PROVE  /\ Typed(h, Append(v, Last(o)), Front(o), s)
         /\ Once(h, Append(v, Last(o)), Front(o), s)
<1> DEFINE n == Len(v)
           m == Len(o)
           top == Last(o)
           v2 == Append(v, top)
           o2 == Front(o)
<1>1. v \in Seq(1..Len(h)) /\ o \in Seq(1..Len(h)) /\ n \in Nat /\ Len(s) \in Nat
  BY TypedFacts
<1>2. /\ m \in Nat \ {0} /\ top = o[m] /\ top \in 1..Len(h)
      /\ o2 \in Seq(1..Len(h)) /\ Len(o2) = m - 1
      /\ \A i \in 1..m-1 : o2[i] = o[i]
  BY <1>1, FrontIs
<1>3. /\ v2 \in Seq(1..Len(h)) /\ Len(v2) = n + 1 /\ v2[n + 1] = top
      /\ \A i \in 1..n : v2[i] = v[i]
  BY <1>1, <1>2, AppendProperties
<1>4. Typed(h, v2, o2, s)
  BY <1>2, <1>3 DEF Typed, Stack
<1>5. h[top].t # "A_CALL"
  OBVIOUS
<1> HIDE DEF v2, o2, top
<1>6. ASSUME NEW kind, NEW a, NEW i, NEW x, Held(h, v2, o2, s, kind, a, i, x)
      PROVE  IF kind = "value" /\ a = Top(s) /\ i = n + 1
               THEN Held(h, v, o, s, "operator", Top(s), m, x)
               ELSE /\ Held(h, v, o, s, kind, a, i, x)
                    /\ ~ (kind = "operator" /\ a = Top(s) /\ i = m)
  <2>1. CASE kind = "value"
    <3>1. /\ x \in 1..Len(h) /\ a \in 1..Top(s) /\ i \in 1..Len(ValuesAt(v2, s, a))
          /\ ValuesAt(v2, s, a)[i] = x
      BY <1>6, <2>1 DEF Held
    <3>2. CASE a = Top(s) /\ i = n + 1
      <4>1. x = top
        BY <1>3, <3>1, <3>2 DEF ValuesAt
      <4>2. m \in 1..Len(o) /\ o[m] = x
        BY <1>2, <4>1
      <4> HIDE DEF m
      <4> QED
        BY <1>5, <2>1, <3>1, <3>2, <4>1, <4>2 DEF Held, OperatorsAt
    <3>3. CASE a = Top(s) /\ i # n + 1
      <4>1. i \in 1..Len(v2) /\ v2[i] = x
        BY <3>1, <3>3 DEF ValuesAt
      <4>2. i \in 1..n /\ v[i] = x
        BY <1>1, <1>3, <3>3, <4>1, SMTT(20)
      <4> QED
        BY <2>1, <3>1, <3>3, <4>2 DEF Held, ValuesAt
    <3>4. CASE a # Top(s)
      BY <2>1, <3>1, <3>4 DEF Held, ValuesAt
    <3> QED
      BY <3>2, <3>3, <3>4
  <2>2. CASE kind = "operator"
    <3>1. /\ x \in 1..Len(h) /\ h[x].t # "A_CALL" /\ a \in 1..Top(s)
          /\ i \in 1..Len(OperatorsAt(o2, s, a)) /\ OperatorsAt(o2, s, a)[i] = x
      BY <1>6, <2>2 DEF Held
    <3>2. CASE a = Top(s)
      <4>1. i \in 1..m-1 /\ o[i] = x
        BY <1>2, <3>1, <3>2 DEF OperatorsAt
      <4>2. i \in 1..m /\ i # m
        BY <1>2, <4>1
      <4> QED
        BY <2>2, <3>1, <3>2, <4>1, <4>2 DEF Held, OperatorsAt
    <3>3. CASE a # Top(s)
      BY <2>2, <3>1, <3>3 DEF Held, OperatorsAt
    <3> QED
      BY <3>2, <3>3
  <2>3. CASE kind = "child"
    BY <1>6, <2>3 DEF Held
  <2> QED
    BY <1>6, <2>1, <2>2, <2>3 DEF Held
<1> HIDE DEF n, m
<1>7. Once(h, v2, o2, s)
  BY <1>6 DEF Once
<1> QED
  BY <1>4, <1>7 DEF v2, o2, top

\* Both stacks are put aside; and both are taken back, the others dropped.
LEMMA SaveStacks ==
  ASSUME NEW h, NEW v, NEW o, NEW s, Typed(h, v, o, s), Once(h, v, o, s)
  PROVE  Once(h, <<>>, <<>>, Append(s, [values |-> v, operators |-> o]))
<1> DEFINE rec == [values |-> v, operators |-> o]
           s2 == Append(s, rec)
<1>1. /\ Len(s) \in Nat
      /\ s \in Seq([values : Stack(Len(h)), operators : Stack(Len(h))])
      /\ rec \in [values : Stack(Len(h)), operators : Stack(Len(h))]
      /\ rec.values = v /\ rec.operators = o
  BY TypedFacts DEF Typed, Saved
<1> HIDE DEF rec
<1>2. /\ Len(s2) = Len(s) + 1 /\ s2[Len(s) + 1] = rec
      /\ \A a \in 1..Len(s) : s2[a] = s[a]
  BY <1>1, AppendProperties
<1> HIDE DEF s2
<1>3. ASSUME NEW kind, NEW a, NEW i, NEW x, Held(h, <<>>, <<>>, s2, kind, a, i, x)
      PROVE  Held(h, v, o, s, kind, a, i, x)
  <2>1. CASE a = Top(s)
    BY <1>1, <1>2, <1>3, <2>1 DEF Held, ValuesAt, OperatorsAt, Top
  <2>2. CASE a # Top(s)
    BY <1>1, <1>2, <1>3, <2>2, SMTT(20) DEF Held, ValuesAt, OperatorsAt, Top
  <2> QED
    BY <2>1, <2>2
<1>4. Once(h, <<>>, <<>>, s2)
  BY <1>3 DEF Once
<1> QED
  BY <1>4 DEF s2, rec

LEMMA RestoreStacks ==
  ASSUME NEW h, NEW v, NEW o, NEW s, Typed(h, v, o, s), Once(h, v, o, s), s # <<>>
  PROVE  /\ Typed(h, Last(s).values, Last(s).operators, Front(s))
         /\ Once(h, Last(s).values, Last(s).operators, Front(s))
         /\ \A x : Free(h, v, o, s, x)
                     => Free(h, Last(s).values, Last(s).operators, Front(s), x)
<1> DEFINE rec == Last(s)
           s2 == Front(s)
<1>1. s \in Seq([values : Stack(Len(h)), operators : Stack(Len(h))])
  BY DEF Typed, Saved
<1>2. /\ Len(s) \in Nat \ {0} /\ rec = s[Len(s)]
      /\ rec \in [values : Stack(Len(h)), operators : Stack(Len(h))]
      /\ s2 \in Seq([values : Stack(Len(h)), operators : Stack(Len(h))])
      /\ Len(s2) = Len(s) - 1
      /\ \A a \in 1..Len(s)-1 : s2[a] = s[a]
  BY <1>1, FrontIs
<1> HIDE DEF rec, s2
<1>3. Typed(h, rec.values, rec.operators, s2)
  BY <1>2 DEF Typed, Saved
<1>4. ASSUME NEW kind, NEW a, NEW i, NEW x,
             Held(h, rec.values, rec.operators, s2, kind, a, i, x)
      PROVE  Held(h, v, o, s, kind, a, i, x)
  <2>1. CASE kind = "child"
    BY <1>4, <2>1 DEF Held
  <2>2. CASE kind # "child"
    <3>1. Top(s2) = Len(s) /\ Top(s) = Len(s) + 1 /\ a \in 1..Top(s2)
      BY <1>2, <1>4, <2>2 DEF Held, Top
    <3>2. /\ ValuesAt(rec.values, s2, a) = ValuesAt(v, s, a)
          /\ OperatorsAt(rec.operators, s2, a) = OperatorsAt(o, s, a)
      <4>1. CASE a = Len(s)
        BY <1>2, <3>1, <4>1 DEF ValuesAt, OperatorsAt
      <4>2. CASE a # Len(s)
        BY <1>2, <3>1, <4>2 DEF ValuesAt, OperatorsAt
      <4> QED
        BY <4>1, <4>2
    <3>3. a \in 1..Top(s)
      BY <1>2, <3>1
    <3> QED
      BY <1>4, <2>2, <3>2, <3>3 DEF Held
  <2> QED
    BY <2>1, <2>2
<1>5. Once(h, rec.values, rec.operators, s2)
  BY <1>4 DEF Once
<1>6. \A x : Free(h, v, o, s, x) => Free(h, rec.values, rec.operators, s2, x)
  BY <1>4 DEF Free
<1> QED
  BY <1>3, <1>5, <1>6 DEF rec, s2
\* Each child of a new node, if it is a node at all, comes from a place of its
\* own on the value stack v, of which only w is left.
Gathers(n, kids, v, w, from) ==
  /\ Len(w) =< Len(v) /\ \A i \in 1..Len(w) : w[i] = v[i]
  /\ \A j \in 1..Len(kids) :
       kids[j] \in 1..n => from[j] \in Len(w)+1..Len(v) /\ v[from[j]] = kids[j]
  /\ \A j, l \in 1..Len(kids) :
       kids[j] \in 1..n /\ kids[l] \in 1..n /\ from[j] = from[l] => j = l

\* malloc, with children taken from the value stack: nothing holds the node.
LEMMA Gather ==
  ASSUME NEW h, NEW v, NEW o, NEW s, Typed(h, v, o, s), Once(h, v, o, s),
         NEW node, Joins(Len(h), node),
         NEW w \in Stack(Len(h)), NEW from, Gathers(Len(h), node.kids, v, w, from)
  PROVE  /\ Typed(Append(h, node), w, o, s)
         /\ Once(Append(h, node), w, o, s)
         /\ Free(Append(h, node), w, o, s, Len(h) + 1)
         /\ Len(Append(h, node)) = Len(h) + 1
<1> DEFINE g == Append(h, node)
           n == Len(h)
<1>1. /\ n \in Nat /\ Len(s) \in Nat /\ Len(v) \in Nat /\ Len(w) \in Nat
      /\ h \in Seq(Node) /\ WellFormed(h) /\ node \in Node
  BY TypedFacts, LenProperties DEF Typed, Joins, Stack
<1>2. WellFormed(g) /\ Len(g) = n + 1
  BY <1>1, HeapAppend
<1>3. g[n + 1] = node /\ \A a \in 1..n : g[a] = h[a]
  BY <1>1, AppendProperties
<1>4. Typed(g, w, o, s)
  <2> HIDE DEF g, n
  <2>1. /\ Stack(n) \subseteq Stack(n + 1) /\ Saved(n) \subseteq Saved(n + 1)
        /\ w \in Stack(n) /\ o \in Stack(n) /\ s \in Saved(n)
    BY <1>1, Grows DEF Typed, n
  <2> QED
    BY <1>2, <2>1 DEF Typed
<1>5. /\ node.kids \in Seq(Child(n)) /\ Len(node.kids) \in Nat
      /\ \A i \in 1..Len(node.kids) : node.kids[i] \in Child(n)
  BY LenProperties, ElementOfSeq DEF Joins
<1>6. /\ \A i \in 1..Len(w) : w[i] \in 1..n /\ w[i] = v[i] /\ i \in 1..Len(v)
      /\ \A a \in 1..Len(s) :
           /\ \A i \in 1..Len(s[a].values) : s[a].values[i] \in 1..n
           /\ \A i \in 1..Len(s[a].operators) : s[a].operators[i] \in 1..n
      /\ \A i \in 1..Len(o) : o[i] \in 1..n
      /\ \A a \in 1..n : \A i \in 1..Len(h[a].kids) : h[a].kids[i] \in Child(n)
  <2>1. \A i \in 1..Len(w) : w[i] = v[i] /\ i \in 1..Len(v)
    BY <1>1 DEF Gathers
  <2> QED
    BY <2>1, TypedFacts
<1> HIDE DEF g, n
<1>7. ASSUME NEW kind, NEW a, NEW i, NEW x, Held(g, w, o, s, kind, a, i, x)
      PROVE  /\ x \in 1..n
             /\ IF kind = "child" /\ a = n + 1
                  THEN /\ Held(h, v, o, s, "value", Top(s), from[i], x)
                       /\ from[i] \in Len(w)+1..Len(v)
                       /\ i \in 1..Len(node.kids) /\ node.kids[i] \in 1..n
                  ELSE /\ Held(h, v, o, s, kind, a, i, x)
                       /\ ~ (kind = "value" /\ a = Top(s) /\ i \in Len(w)+1..Len(v))
  <2>1. x \in 1..n+1 /\ n = Len(h)
    BY <1>2, <1>7 DEF Held, n
  <2>2. CASE kind = "child"
    <3>1. a \in 1..n+1 /\ i \in 1..Len(g[a].kids) /\ g[a].kids[i] = x
      BY <1>2, <1>7, <2>2 DEF Held
    <3>2. CASE a = n + 1
      <4>1. i \in 1..Len(node.kids) /\ node.kids[i] = x
        BY <1>3, <3>1, <3>2
      <4>2. x \in 1..n
        BY <1>1, <1>5, <2>1, <4>1 DEF Child, NULL, Uninit
      <4>3. from[i] \in Len(w)+1..Len(v) /\ v[from[i]] = x
        BY <2>1, <4>1, <4>2 DEF Gathers
      <4>4. from[i] \in 1..Len(v) /\ Top(s) \in 1..Top(s)
        BY <1>1, <4>3 DEF Top
      <4>5. Held(h, v, o, s, "value", Top(s), from[i], x)
        BY <2>1, <4>2, <4>3, <4>4 DEF Held, ValuesAt
      <4> QED
        BY <2>2, <3>2, <4>1, <4>2, <4>3, <4>5
    <3>3. CASE a # n + 1
      <4>1. a \in 1..n /\ i \in 1..Len(h[a].kids) /\ h[a].kids[i] = x
        BY <1>1, <1>3, <3>1, <3>3
      <4>2. x \in Child(n)
        BY <1>6, <4>1
      <4>3. x \in 1..n
        BY <1>1, <2>1, <4>2 DEF Child, NULL, Uninit
      <4> QED
        BY <2>1, <2>2, <3>3, <4>1, <4>3 DEF Held
    <3> QED
      BY <3>2, <3>3
  <2>3. CASE kind = "operator"
    <3>1. /\ g[x].t # "A_CALL" /\ a \in 1..Top(s)
          /\ i \in 1..Len(OperatorsAt(o, s, a)) /\ OperatorsAt(o, s, a)[i] = x
      BY <1>7, <2>3 DEF Held
    <3>2. x \in 1..n
      BY <1>1, <1>6, <3>1 DEF OperatorsAt, Top
    <3> QED
      BY <1>3, <2>1, <2>3, <3>1, <3>2 DEF Held
  <2>4. CASE kind = "value"
    <3>1. /\ a \in 1..Top(s) /\ i \in 1..Len(ValuesAt(w, s, a))
          /\ ValuesAt(w, s, a)[i] = x
      BY <1>7, <2>4 DEF Held
    <3>2. CASE a = Top(s)
      <4>1. i \in 1..Len(w) /\ w[i] = x
        BY <3>1, <3>2 DEF ValuesAt
      <4>2. x \in 1..n /\ v[i] = x /\ i \in 1..Len(v) /\ i \notin Len(w)+1..Len(v)
        BY <1>1, <1>6, <4>1
      <4> QED
        BY <2>1, <2>4, <3>1, <3>2, <4>2 DEF Held, ValuesAt
    <3>3. CASE a # Top(s)
      <4>1. x \in 1..n
        <5>1. a \in 1..Len(s)
          BY <1>1, <3>1, <3>3 DEF Top
        <5>2. i \in 1..Len(s[a].values) /\ s[a].values[i] = x
          BY <3>1, <3>3 DEF ValuesAt
        <5> QED BY <1>6, <5>1, <5>2
      <4>2. ValuesAt(v, s, a) = ValuesAt(w, s, a)
        BY <3>3 DEF ValuesAt
      <4> QED
        BY <2>1, <2>4, <3>1, <3>3, <4>1, <4>2 DEF Held
    <3> QED
      BY <3>2, <3>3
  <2> QED
    BY <1>7, <2>2, <2>3, <2>4 DEF Held
<1>8. Once(g, w, o, s)
  <2>1. \A j, l \in 1..Len(node.kids) :
          node.kids[j] \in 1..n /\ node.kids[l] \in 1..n /\ from[j] = from[l] => j = l
    BY DEF Gathers, n
  <2>2. SUFFICES ASSUME NEW k, NEW a, NEW i, NEW l, NEW b, NEW j, NEW x,
                        Held(g, w, o, s, k, a, i, x), Held(g, w, o, s, l, b, j, x)
                 PROVE  k = l /\ a = b /\ i = j
    BY DEF Once
  <2>3. CASE k = "child" /\ a = n + 1 /\ l = "child" /\ b = n + 1
    <3>1. from[i] = from[j]
      BY <1>7, <2>2, <2>3 DEF Once
    <3> QED
      BY <1>7, <2>1, <2>2, <2>3, <3>1
  <2>4. CASE ~ (k = "child" /\ a = n + 1) /\ ~ (l = "child" /\ b = n + 1)
    BY <1>7, <2>2, <2>4 DEF Once
  <2>5. CASE (k = "child" /\ a = n + 1) /\ ~ (l = "child" /\ b = n + 1)
    BY <1>7, <2>2, <2>5 DEF Once
  <2>6. CASE ~ (k = "child" /\ a = n + 1) /\ (l = "child" /\ b = n + 1)
    BY <1>7, <2>2, <2>6 DEF Once
  <2> QED
    BY <2>3, <2>4, <2>5, <2>6
<1>9. Free(g, w, o, s, n + 1)
  BY <1>1, <1>7 DEF Free
<1> QED
  BY <1>2, <1>4, <1>8, <1>9 DEF g, n

\* A node that has no children that are nodes.
LEMMA Alloc ==
  ASSUME NEW h, NEW v, NEW o, NEW s, Typed(h, v, o, s), Once(h, v, o, s),
         NEW node, Joins(Len(h), node),
         \A j \in 1..Len(node.kids) : node.kids[j] \in {NULL, Uninit}
  PROVE  /\ Typed(Append(h, node), v, o, s)
         /\ Once(Append(h, node), v, o, s)
         /\ Free(Append(h, node), v, o, s, Len(h) + 1)
         /\ Len(Append(h, node)) = Len(h) + 1
<1>1. Len(v) \in Nat /\ Len(h) \in Nat
  BY TypedFacts
<1>2. \A j \in 1..Len(node.kids) : node.kids[j] \notin 1..Len(h)
  BY <1>1 DEF NULL, Uninit
<1>3. Gathers(Len(h), node.kids, v, v, <<>>)
  BY <1>1, <1>2 DEF Gathers
<1>4. v \in Stack(Len(h))
  BY DEF Typed
<1> QED
  BY <1>3, <1>4, Gather

\* A node held nowhere is pushed on the value stack, ..
LEMMA PlaceValue ==
  ASSUME NEW h, NEW v, NEW o, NEW s, Typed(h, v, o, s), Once(h, v, o, s),
         NEW id \in 1..Len(h), Free(h, v, o, s, id)
  PROVE  Typed(h, Append(v, id), o, s) /\ Once(h, Append(v, id), o, s)
<1> DEFINE w == Append(v, id)
<1>1. v \in Seq(1..Len(h)) /\ Len(v) \in Nat
  BY TypedFacts
<1>2. /\ w \in Seq(1..Len(h)) /\ Len(w) = Len(v) + 1 /\ w[Len(v) + 1] = id
      /\ \A i \in 1..Len(v) : w[i] = v[i]
  BY <1>1, AppendProperties
<1>3. Typed(h, w, o, s)
  BY <1>2 DEF Typed, Stack
<1> HIDE DEF w
<1>4. ASSUME NEW kind, NEW a, NEW i, NEW x, Held(h, w, o, s, kind, a, i, x)
      PROVE  IF kind = "value" /\ a = Top(s) /\ i = Len(v) + 1
               THEN x = id
               ELSE Held(h, v, o, s, kind, a, i, x)
  <2>1. CASE kind = "value" /\ a = Top(s)
    <3>1. x \in 1..Len(h) /\ i \in 1..Len(w) /\ w[i] = x /\ a \in 1..Top(s)
      BY <1>4, <2>1 DEF Held, ValuesAt
    <3>2. CASE i # Len(v) + 1
      <4>1. i \in 1..Len(v) /\ v[i] = x
        BY <1>1, <1>2, <3>1, <3>2
      <4> QED
        BY <2>1, <3>1, <3>2, <4>1 DEF Held, ValuesAt
    <3>3. CASE i = Len(v) + 1
      BY <1>2, <2>1, <3>1, <3>3
    <3> QED
      BY <3>2, <3>3
  <2>2. CASE ~ (kind = "value" /\ a = Top(s))
    BY <1>4, <2>2 DEF Held, ValuesAt
  <2> QED
    BY <2>1, <2>2
<1>5. Once(h, w, o, s)
  BY <1>4 DEF Once, Free
<1> QED
  BY <1>3, <1>5 DEF w

\* .. or on the operator stack. So is a call that is a value already.
LEMMA PlaceOperator ==
  ASSUME NEW h, NEW v, NEW o, NEW s, Typed(h, v, o, s), Once(h, v, o, s),
         NEW id \in 1..Len(h), Free(h, v, o, s, id) \/ h[id].t = "A_CALL"
  PROVE  Typed(h, v, Append(o, id), s) /\ Once(h, v, Append(o, id), s)
<1> DEFINE w == Append(o, id)
<1>1. o \in Seq(1..Len(h)) /\ Len(o) \in Nat
  BY TypedFacts
<1>2. /\ w \in Seq(1..Len(h)) /\ Len(w) = Len(o) + 1 /\ w[Len(o) + 1] = id
      /\ \A i \in 1..Len(o) : w[i] = o[i]
  BY <1>1, AppendProperties
<1>3. Typed(h, v, w, s)
  BY <1>2 DEF Typed, Stack
<1> HIDE DEF w
<1>4. ASSUME NEW kind, NEW a, NEW i, NEW x, Held(h, v, w, s, kind, a, i, x)
      PROVE  IF kind = "operator" /\ a = Top(s) /\ i = Len(o) + 1
               THEN x = id /\ h[x].t # "A_CALL"
               ELSE Held(h, v, o, s, kind, a, i, x)
  <2>1. CASE kind = "operator" /\ a = Top(s)
    <3>1. /\ x \in 1..Len(h) /\ i \in 1..Len(w) /\ w[i] = x /\ a \in 1..Top(s)
          /\ h[x].t # "A_CALL"
      BY <1>4, <2>1 DEF Held, OperatorsAt
    <3>2. CASE i # Len(o) + 1
      <4>1. i \in 1..Len(o) /\ o[i] = x
        BY <1>1, <1>2, <3>1, <3>2
      <4> QED
        BY <2>1, <3>1, <3>2, <4>1 DEF Held, OperatorsAt
    <3>3. CASE i = Len(o) + 1
      BY <1>2, <2>1, <3>1, <3>3
    <3> QED
      BY <3>2, <3>3
  <2>2. CASE ~ (kind = "operator" /\ a = Top(s))
    BY <1>4, <2>2 DEF Held, OperatorsAt
  <2> QED
    BY <2>1, <2>2
<1>5. Once(h, v, w, s)
  BY <1>4 DEF Once, Free
<1> QED
  BY <1>3, <1>5 DEF w
\* An identifier turns into a call where it is.
LEMMA TurnsIntoCall ==
  ASSUME NEW h, NEW v, NEW o, NEW s, Typed(h, v, o, s), Once(h, v, o, s),
         NEW id \in 1..Len(h), h[id].t = "A_IDENT"
  PROVE  /\ Typed([h EXCEPT ![id].t = "A_CALL"], v, o, s)
         /\ Once([h EXCEPT ![id].t = "A_CALL"], v, o, s)
         /\ Len([h EXCEPT ![id].t = "A_CALL"]) = Len(h)
         /\ [h EXCEPT ![id].t = "A_CALL"][id].t = "A_CALL"
<1> DEFINE call == [h[id] EXCEPT !.t = "A_CALL"]
           g == [h EXCEPT ![id] = call]
<1>1. h \in Seq(Node) /\ WellFormed(h) /\ h[id] \in Node /\ Joins(Len(h), h[id])
  BY TypedFacts, HeapOf DEF Typed
<1>2. "A_CALL" \in AstTypes /\ "A_CALL" \notin DOMAIN Arity
  BY DEF AstTypes, Prec, Arity
<1>3. call \in Node /\ call.kids = h[id].kids /\ call.t = "A_CALL"
  BY <1>1, <1>2 DEF Node
<1>4. Joins(Len(h), call)
  BY <1>1, <1>2, <1>3 DEF Joins
<1> HIDE DEF call
<1>5. WellFormed(g) /\ Len(g) = Len(h)
  BY <1>1, <1>4, HeapWrite
<1>6. /\ \A a \in 1..Len(h) : g[a].kids = h[a].kids
      /\ \A a \in 1..Len(h) : g[a].t = IF a = id THEN "A_CALL" ELSE h[a].t
  <2>1. \A a \in 1..Len(h) : g[a] = IF a = id THEN call ELSE h[a]
    BY <1>1, <1>3, ExceptSeq
  <2> HIDE DEF g
  <2> QED
    BY <1>3, <2>1
<1>7. g = [h EXCEPT ![id].t = "A_CALL"]
  BY DEF call
<1> HIDE DEF g
<1>8. Typed(g, v, o, s)
  BY <1>5 DEF Typed
<1>9. ASSUME NEW kind, NEW a, NEW i, NEW x, Held(g, v, o, s, kind, a, i, x)
      PROVE  Held(h, v, o, s, kind, a, i, x)
  BY <1>5, <1>6, <1>9 DEF Held
<1>10. Once(g, v, o, s)
  BY <1>9 DEF Once
<1> QED
  BY <1>5, <1>6, <1>7, <1>8, <1>10

\* A node loses its name where it is.
LEMMA LosesItsName ==
  ASSUME NEW h, NEW v, NEW o, NEW s, Typed(h, v, o, s), Once(h, v, o, s),
         NEW id \in 1..Len(h)
  PROVE  /\ Typed(Nameless(h, id), v, o, s) /\ Once(Nameless(h, id), v, o, s)
         /\ Len(Nameless(h, id)) = Len(h) /\ Nameless(h, id)[id].t = h[id].t
<1> DEFINE g == Nameless(h, id)
<1> HIDE DEF g
<1>1. /\ WellFormed(g) /\ Len(g) = Len(h)
      /\ \A a \in 1..Len(h) : g[a].t = h[a].t /\ g[a].kids = h[a].kids
  BY HeapRename DEF Typed, g
<1>2. Typed(g, v, o, s)
  BY <1>1 DEF Typed
<1>3. ASSUME NEW kind, NEW a, NEW i, NEW x, Held(g, v, o, s, kind, a, i, x)
      PROVE  Held(h, v, o, s, kind, a, i, x)
  BY <1>1, <1>3 DEF Held
<1>4. Once(g, v, o, s)
  BY <1>3 DEF Once
<1> QED
  BY <1>1, <1>2, <1>4 DEF g

\* Operators that are forgotten hold nothing.
LEMMA DropOperators ==
  ASSUME NEW h, NEW v, NEW o, NEW s, Once(h, v, o, s)
  PROVE  Once(h, v, <<>>, s)
<1>1. ASSUME NEW kind, NEW a, NEW i, NEW x, Held(h, v, <<>>, s, kind, a, i, x)
      PROVE  Held(h, v, o, s, kind, a, i, x)
  BY <1>1 DEF Held, OperatorsAt
<1> QED
  BY <1>1 DEF Once

-----------------------------------------------------------------------------
\* sub_expr, as moves: the operands become children one after the other, and
\* the operator becomes a value.
LEMMA ReducedOnce ==
  ASSUME TypeOK, NEW done \in Saved(Len(nodes)), Once(nodes,
         values, operators, done \o saved), TopIs(operators, Reducible)
  PROVE  /\ Typed(Reduced.nodes, Reduced.values, Reduced.operators, done \o saved)
         /\ Once(Reduced.nodes, Reduced.values, Reduced.operators, done \o saved)
         /\ Len(Reduced.nodes) = Len(nodes)
<1> DEFINE prev == Last(operators)
           a == Popped(values)
           b == Popped(Rest(values))
           g1 == SetKid(nodes, prev, 1, a)
           g2 == SetKid(g1, prev, 2, b)
<1>1. Typed(nodes, values, operators, done \o saved)
  BY AllTyped
<1>2. /\ prev \in 1..Len(nodes) /\ TypeOf(prev) \in Reducible /\ operators # <<>>
      /\ operators \in Seq(1..Len(nodes))
  BY Facts, LastFront DEF TopIs, Pointer
<1>3. /\ nodes[prev] \in Node /\ Joins(Len(nodes), nodes[prev])
      /\ nodes \in Seq(Node) /\ DOMAIN nodes = 1..Len(nodes)
      /\ nodes[prev].kids \in Seq(Int) /\ DOMAIN nodes[prev].kids = 1..Len(nodes[prev].kids)
  BY <1>2, Facts, LenProperties DEF Pointer, Node
<1>4. TypeOf(prev) # "A_CALL"
  BY <1>2 DEF Reducible, BinaryTypes
<1>5. CASE TypeOf(prev) \in BinaryTypes
  <2>1. Len(nodes[prev].kids) = 2
    <3>1. Arity[TypeOf(prev)] = 2 /\ TypeOf(prev) \in DOMAIN Arity
      BY <1>5 DEF BinaryTypes, Arity
    <3> QED
      BY <1>3, <3>1 DEF Joins, TypeOf
  <2>2. /\ Typed(g1, Rest(values), operators, done \o saved)
        /\ Once(g1, Rest(values), operators, done \o saved)
        /\ Len(g1) = Len(nodes) /\ g1[prev].t = nodes[prev].t
    BY <1>1, <1>2, PopIntoKid
  <2> HIDE DEF g1, prev
  <2>3. /\ Typed(g2, Rest(Rest(values)), operators, done \o saved)
        /\ Once(g2, Rest(Rest(values)), operators, done \o saved)
        /\ Len(g2) = Len(nodes) /\ g2[prev].t = nodes[prev].t
    BY <1>2, <2>2, PopIntoKid
  <2>4. Operands(prev) = <<a, b>>
    BY <1>5 DEF Operands, BinaryTypes
  <2>5. g2 = [nodes EXCEPT ![prev].kids = <<a, b>>]
    <3> DEFINE kids == nodes[prev].kids
               one  == [kids EXCEPT ![1] = a]
    <3> HIDE DEF a, b
    <3>1. g1 = [nodes EXCEPT ![prev].kids = one]
      BY DEF g1, SetKid
    <3>2. [one EXCEPT ![2] = b] = <<a, b>>
      BY <1>3, <2>1
    <3> HIDE DEF one
    <3>3. g1[prev].kids = one
      BY <1>2, <1>3, <3>1 DEF Node, prev
    <3>4. g2 = [g1 EXCEPT ![prev].kids = <<a, b>>]
      BY <3>2, <3>3 DEF SetKid
    <3> QED
      BY <3>1, <3>4
  <2>6. /\ Reduced.nodes = g2 /\ Reduced.values = Append(Rest(Rest(values)), prev)
        /\ Reduced.operators = Front(operators)
    BY <1>5, <2>4, <2>5 DEF Reduced, LeftAfter, Result, prev
  <2> HIDE DEF g2
  <2>7. operators # <<>> /\ g2[Last(operators)].t # "A_CALL"
    BY <1>2, <1>4, <2>3 DEF TypeOf, prev
  <2> QED
    BY <2>3, <2>6, <2>7, BecomesValue DEF prev
<1>6. CASE TypeOf(prev) \notin BinaryTypes
  <2> DEFINE k == IF TypeOf(prev) = "A_ASSIGNMENT" THEN 2 ELSE 1
             g == SetKid(nodes, prev, k, a)
  <2>1. k \in Nat
    OBVIOUS
  <2> HIDE DEF k
  <2>2. /\ Typed(g, Rest(values), operators, done \o saved)
        /\ Once(g, Rest(values), operators, done \o saved)
        /\ Len(g) = Len(nodes) /\ g[prev].t = nodes[prev].t
    BY <1>1, <1>2, <2>1, PopIntoKid
  <2>3. g = [nodes EXCEPT ![prev].kids = Operands(prev)]
    <3>1. CASE TypeOf(prev) = "A_ASSIGNMENT"
      <4>1. Len(nodes[prev].kids) = 2 /\ k = 2
        BY <1>3, <3>1 DEF Arity, Joins, TypeOf, k
      <4>2. Operands(prev) = <<nodes[prev].kids[1], a>>
        BY <3>1 DEF Operands, BinaryTypes
      <4> HIDE DEF prev, a
      <4>3. [nodes[prev].kids EXCEPT ![2] = a] = <<nodes[prev].kids[1], a>>
        BY <1>3, <4>1, SMTT(20)
      <4> QED
        BY <4>1, <4>2, <4>3 DEF SetKid
    <3>2. CASE TypeOf(prev) \in {"A_DECL_ASSIGNMENT", "A_RET"}
      <4>1. Len(nodes[prev].kids) = 1 /\ k = 1
        <5>1. Arity[TypeOf(prev)] = 1 /\ TypeOf(prev) \in DOMAIN Arity
          BY <3>2 DEF Arity
        <5> QED
          BY <1>3, <3>2, <5>1 DEF Joins, TypeOf, k
      <4>2. Operands(prev) = <<a>>
        BY <3>2 DEF Operands, BinaryTypes
      <4> HIDE DEF prev, a
      <4>3. [nodes[prev].kids EXCEPT ![1] = a] = <<a>>
        BY <1>3, <4>1
      <4> QED
        BY <4>1, <4>2, <4>3 DEF SetKid
    <3> QED
      BY <1>2, <1>6, <3>1, <3>2 DEF Reducible
  <2>4. /\ Reduced.nodes = g /\ Reduced.values = Append(Rest(values), prev)
        /\ Reduced.operators = Front(operators)
    BY <1>6, <2>3 DEF Reduced, LeftAfter, Result
  <2> HIDE DEF g
  <2>5. operators # <<>> /\ g[Last(operators)].t # "A_CALL"
    BY <1>2, <1>4, <2>2 DEF TypeOf
  <2> QED
    BY <2>2, <2>4, <2>5, BecomesValue
<1> QED
  BY <1>5, <1>6
-----------------------------------------------------------------------------
\* The actions, one lemma each or one for those of a kind.
Forest(done) == Once(nodes, values, operators, done \o saved)

\* Nothing that holds a node changes.
LEMMA SameForest ==
  ASSUME NEW done, Forest(done), UNCHANGED <<nodes, values, operators, saved>>
  PROVE  Forest(done)'
  BY DEF Forest

\* A new node that has no children yet is pushed on one of the stacks.
LEMMA PushOnce ==
  ASSUME TypeOK, NEW done \in Saved(Len(nodes)), Forest(done), NEW node, Joins(Len(nodes), node),
         \A j \in 1..Len(node.kids) : node.kids[j] \in {NULL, Uninit},
         PushValue(node) \/ PushOperator(node), saved' = saved
  PROVE  Forest(done)'
<1>1. /\ Typed(nodes, values, operators, done \o saved)
      /\ Once(nodes, values, operators, done \o saved)
  BY AllTyped DEF Forest
<1> DEFINE g == Append(nodes, node)
<1>2. /\ Typed(g, values, operators, done \o saved) /\ Once(g, values, operators, done \o saved)
      /\ Free(g, values, operators, done \o saved, Fresh) /\ Fresh \in 1..Len(g)
  BY <1>1, Facts, Alloc DEF Fresh
<1> HIDE DEF g
<1>3. CASE PushValue(node)
  <2>1. Once(g, Append(values, Fresh), operators, done \o saved)
    BY <1>2, PlaceValue
  <2> QED
    BY <1>3, <2>1 DEF PushValue, Forest, g
<1>4. CASE PushOperator(node)
  <2>1. Once(g, values, Append(operators, Fresh), done \o saved)
    BY <1>2, PlaceOperator
  <2> QED
    BY <1>4, <2>1 DEF PushOperator, Forest, g
<1> QED
  BY <1>3, <1>4

\* The spellings the handlers give their nodes.
LEMMA Spellings ==
  ASSUME TypeOK
  PROVE  /\ Len(nodes) \in Nat /\ Peek(1).lexeme \in Lexemes
         /\ Peek(2).lexeme \in Lexemes /\ "" \in Lexemes
<1>1. Peek(1) \in Token /\ Peek(2) \in Token
  BY Lookahead
<1> QED
  BY <1>1, Facts, LexemesAssumption DEF Token

\* Leaves and branches without children have none of a node.
LEMMA NoKids ==
  /\ \A t, lexeme : \A j \in 1..Len(NewNode(t, lexeme, <<>>).kids) :
       NewNode(t, lexeme, <<>>).kids[j] \in {NULL, Uninit}
  /\ \A t, lexeme : \A j \in 1..Len(NewNode(t, lexeme, <<Uninit>>).kids) :
       NewNode(t, lexeme, <<Uninit>>).kids[j] \in {NULL, Uninit}
  /\ \A t, lexeme : \A j \in 1..Len(NewNode(t, lexeme, <<Uninit, Uninit>>).kids) :
       NewNode(t, lexeme, <<Uninit, Uninit>>).kids[j] \in {NULL, Uninit}
  /\ \A t, lexeme : \A j \in 1..Len(NewNode(t, lexeme, <<NULL, NULL, NULL>>).kids) :
       NewNode(t, lexeme, <<NULL, NULL, NULL>>).kids[j] \in {NULL, Uninit}
  BY DEF NewNode

\* Tokens that only push a node.
LEMMA PushTokenOnce ==
  ASSUME TypeOK, NEW done \in Saved(Len(nodes)), Forest(done),
         \/ Ident \/ Integer \/ String \/ If \/ Else \/ While \/ Return
         \/ VarLocal \/ VarAssignment
  PROVE  Forest(done)'
<1>1. /\ Len(nodes) \in Nat /\ Peek(1).lexeme \in Lexemes
      /\ Peek(2).lexeme \in Lexemes /\ "" \in Lexemes
  BY Spellings
<1>2. CASE Ident \/ Integer \/ String \/ VarLocal
  <2>1. PICK t \in {"A_IDENT", "A_INT_LITERAL", "A_STR_LITERAL", "A_DECL_LOCAL"},
             lexeme \in Lexemes : /\ PushValue(NewNode(t, lexeme, <<>>))
                                  /\ saved' = saved
    BY <1>1, <1>2 DEF Ident, Integer, String, VarLocal
  <2>2. Joins(Len(nodes), NewNode(t, lexeme, <<>>))
    BY <1>1, LeafJoins DEF Leaf
  <2> QED
    BY <2>1, <2>2, NoKids, PushOnce
<1>3. CASE Else
  <2>1. Joins(Len(nodes), NewNode("A_ELSE_CLAUSE", "", <<>>))
    BY <1>1, LeafJoins DEF Leaf
  <2> QED
    BY <1>3, <2>1, NoKids, PushOnce DEF Else
<1>4. CASE If
  <2>1. Joins(Len(nodes), NewNode("A_COND", "", <<NULL, NULL, NULL>>))
    BY <1>1, BranchJoins
  <2> QED
    BY <1>4, <2>1, NoKids, PushOnce DEF If
<1>5. CASE While
  <2>1. Joins(Len(nodes), NewNode("A_WHILE", "", <<Uninit, Uninit>>))
    BY <1>1, BranchJoins
  <2> QED
    BY <1>5, <2>1, NoKids, PushOnce DEF While
<1>6. CASE Return
  <2>1. Joins(Len(nodes), NewNode("A_RET", "", <<Uninit>>))
    BY <1>1, BranchJoins
  <2> QED
    BY <1>6, <2>1, NoKids, PushOnce DEF Return
<1>7. CASE VarAssignment
  <2>1. Joins(Len(nodes), NewNode("A_DECL_ASSIGNMENT", Peek(2).lexeme, <<Uninit>>))
    BY <1>1, BranchJoins
  <2> QED
    BY <1>7, <2>1, NoKids, PushOnce DEF VarAssignment
<1> QED
  BY <1>2, <1>3, <1>4, <1>5, <1>6, <1>7

\* A sequence with one element more, and with another one in its place.
LEMMA AppendAnother ==
  ASSUME NEW S, NEW s \in Seq(S), NEW d \in S, NEW e \in S
  PROVE  Append(s, e) = [Append(s, d) EXCEPT ![Len(s) + 1] = e]
<1> DEFINE n == Len(s) + 1
           g == Append(s, d)
           s1 == Append(s, e)
           s2 == [g EXCEPT ![n] = e]
<1>1. /\ s1 \in Seq(S) /\ Len(s1) = n /\ s1[n] = e
      /\ \A a \in 1..Len(s) : s1[a] = s[a]
  BY AppendProperties
<1>2. /\ g \in Seq(S) /\ Len(g) = n /\ \A a \in 1..Len(s) : g[a] = s[a]
  BY AppendProperties
<1>3. Len(s) \in Nat /\ n \in 1..n
  BY LenProperties
<1> HIDE DEF g, s1
<1>4. /\ s2 \in Seq(S) /\ Len(s2) = n
      /\ \A a \in 1..n : s2[a] = IF a = n THEN e ELSE g[a]
  <2> HIDE DEF n
  <2> QED
    BY <1>2, <1>3, ExceptSeq
<1> HIDE DEF s2
<1>5. \A a \in 1..n : a = n \/ a \in 1..Len(s)
  BY <1>3
<1>6. \A a \in 1..n : s1[a] = s2[a]
  <2> HIDE DEF n
  <2> QED
    BY <1>1, <1>2, <1>4, <1>5
<1>7. s1 = s2
  BY <1>1, <1>4, <1>6, SeqEqual
<1> QED
  BY <1>7 DEF s1, s2, g

\* A node is its fields.
LEMMA Fields == ASSUME NEW node \in Node PROVE node = NewNode(node.t, node.lexeme, node.kids)
  BY DEF Node, NewNode

\* The node of `x =' is pushed as an operator, then it takes its left side.
LEMMA AssignOnce ==
  ASSUME TypeOK, NEW done \in Saved(Len(nodes)), Forest(done), Assign
  PROVE  Forest(done)'
<1> DEFINE node == NewNode("A_ASSIGNMENT", "", <<Uninit, Uninit>>)
           g == Append(nodes, node)
           ops == Append(operators, Fresh)
<1>1. /\ Typed(nodes, values, operators, done \o saved)
      /\ Once(nodes, values, operators, done \o saved)
      /\ Len(nodes) \in Nat
  BY AllTyped, Facts DEF Forest
<1>2. Joins(Len(nodes), node)
  <2>1. Uninit \in Child(Len(nodes))
    BY DEF Child
  <2> QED
    BY <1>1, <2>1, BranchJoins, LexemesAssumption
<1>3. \A j \in 1..Len(node.kids) : node.kids[j] \in {NULL, Uninit}
  BY NoKids
<1>4. /\ nodes \in Seq(Node) /\ node \in Node /\ g[Fresh] = node
      /\ \A a \in 1..Len(nodes) : g[a] = nodes[a]
  <2>1. nodes \in Seq(Node) /\ node \in Node
    BY <1>2, Facts DEF Joins
  <2> HIDE DEF node
  <2> QED
    BY <2>1, AppendProperties DEF Fresh
<1>5. Append(nodes, NewNode("A_ASSIGNMENT", "", <<Popped(values), Uninit>>))
        = SetKid(g, Fresh, 1, Popped(values))
  <2> DEFINE p == Popped(values)
             made == NewNode("A_ASSIGNMENT", "", <<p, Uninit>>)
             kids == [<<Uninit, Uninit>> EXCEPT ![1] = p]
  <2>1. p \in Child(Len(nodes))
    BY Facts, Pop DEF Child, Pointer
  <2> HIDE DEF p
  <2>2. made \in Node
    <3>1. Joins(Len(nodes), made)
      BY <1>1, <2>1, BranchJoins, LexemesAssumption
    <3> QED
      BY <3>1 DEF Joins
  <2>3. Append(nodes, made) = [g EXCEPT ![Fresh] = made]
    <3> HIDE DEF made, node
    <3> QED
      BY <1>4, <2>2, AppendAnother DEF Fresh
  <2>4. kids = <<p, Uninit>> /\ node.kids = <<Uninit, Uninit>>
    BY DEF NewNode
  <2>5. [node EXCEPT !.kids = <<p, Uninit>>] = made
    <3> DEFINE other == [node EXCEPT !.kids = <<p, Uninit>>]
    <3>1. /\ node.t = "A_ASSIGNMENT" /\ node.lexeme = ""
          /\ made.t = "A_ASSIGNMENT" /\ made.lexeme = "" /\ made.kids = <<p, Uninit>>
      BY DEF NewNode
    <3> HIDE DEF node, made
    <3>2. /\ other \in Node
          /\ other.t = node.t /\ other.lexeme = node.lexeme /\ other.kids = <<p, Uninit>>
      BY <1>4, <2>2, <3>1 DEF Node
    <3> HIDE DEF other
    <3>3. other = made
      BY <2>2, <3>1, <3>2, Fields
    <3> QED
      BY <3>3 DEF other
  <2>6. SetKid(g, Fresh, 1, p) = [g EXCEPT ![Fresh] = made]
    <3> HIDE DEF g, node, made, kids
    <3>1. SetKid(g, Fresh, 1, p)
            = [g EXCEPT ![Fresh] = [g[Fresh] EXCEPT !.kids = [g[Fresh].kids EXCEPT ![1] = p]]]
      BY DEF SetKid
    <3> QED
      BY <1>4, <2>4, <2>5, <3>1 DEF kids
  <2> QED
    BY <2>3, <2>6 DEF p
<1> HIDE DEF node
<1>6. /\ Typed(g, values, operators, done \o saved) /\ Once(g, values, operators, done \o saved)
      /\ Free(g, values, operators, done \o saved, Fresh) /\ Fresh \in 1..Len(g)
  BY <1>1, <1>2, <1>3, Alloc DEF Fresh
<1> HIDE DEF g
<1>7. Typed(g, values, ops, done \o saved) /\ Once(g, values, ops, done \o saved)
  BY <1>6, PlaceOperator
<1> HIDE DEF ops
<1>8. Once(SetKid(g, Fresh, 1, Popped(values)), Rest(values), ops, done \o saved)
  BY <1>6, <1>7, PopIntoKid
<1> QED
  BY <1>5, <1>8 DEF Assign, Forest, ops
\* sub_expr finishes the operator or leaves the process.
LEMMA SubExprOnce ==
  ASSUME TypeOK, NEW done \in Saved(Len(nodes)), Forest(done), SubExpr, saved' = saved
  PROVE  Forest(done)'
<1>1. CASE TopIs(operators, Reducible)
  <2>1. /\ nodes' = Reduced.nodes /\ values' = Reduced.values
        /\ operators' = Reduced.operators
    BY <1>1 DEF SubExpr
  <2> QED
    BY <1>1, <2>1, ReducedOnce DEF Forest
<1>2. CASE ~ TopIs(operators, Reducible)
  BY <1>2, SameForest DEF SubExpr, Stop
<1> QED
  BY <1>1, <1>2

\* A binary operator, after the one operator that may be finished before it.
LEMMA BinaryOnce ==
  ASSUME TypeOK, NEW done \in Saved(Len(nodes)), Forest(done), Binary
  PROVE  Forest(done)'
<1> DEFINE t == BinaryNode[Tok]
           r == IF Waits(t) THEN Reduced
                ELSE [nodes |-> nodes, values |-> values, operators |-> operators]
           node == NewNode(t, "", <<Uninit, Uninit>>)
<1>1. CASE Stop("exit69")
  BY <1>1, SameForest DEF Stop
<1>2. CASE ~ Stop("exit69")
  <2>1. /\ Waits(t) => TopIs(operators, Reducible)
        /\ nodes' = Append(r.nodes, node) /\ values' = r.values
        /\ operators' = Append(r.operators, Fresh)
        /\ saved' = saved /\ Tok \in DOMAIN BinaryNode
    BY <1>2 DEF Binary
  <2>2. /\ Typed(r.nodes, r.values, r.operators, done \o saved)
        /\ Once(r.nodes, r.values, r.operators, done \o saved)
        /\ Len(r.nodes) = Len(nodes)
    <3>1. CASE Waits(t)
      <4>1. r = Reduced /\ TopIs(operators, Reducible)
        BY <2>1, <3>1
      <4> HIDE DEF r
      <4> QED
        BY <4>1, ReducedOnce DEF Forest
    <3>2. CASE ~ Waits(t)
      <4>1. r.nodes = nodes /\ r.values = values /\ r.operators = operators
        BY <3>2
      <4> HIDE DEF r
      <4> QED
        BY <4>1, AllTyped DEF Forest
    <3> QED
      BY <3>1, <3>2
  <2>3. t \in BinaryTypes
    <3>1. \A token \in DOMAIN BinaryNode : BinaryNode[token] \in BinaryTypes
      BY DEF BinaryNode, BinaryTypes
    <3> QED
      BY <2>1, <3>1
  <2>4. /\ Joins(Len(nodes), node) /\ Len(nodes) \in Nat
        /\ \A j \in 1..Len(node.kids) : node.kids[j] \in {NULL, Uninit}
    BY <2>3, Facts, BranchJoins, LexemesAssumption, NoKids
  <2> DEFINE g == Append(r.nodes, node)
  <2> HIDE DEF node, r
  <2>5. /\ Typed(g, r.values, r.operators, done \o saved)
        /\ Once(g, r.values, r.operators, done \o saved)
        /\ Free(g, r.values, r.operators, done \o saved, Fresh) /\ Fresh \in 1..Len(g)
    BY <2>2, <2>4, Alloc DEF Fresh
  <2> HIDE DEF g
  <2>6. Once(g, r.values, Append(r.operators, Fresh), done \o saved)
    BY <2>5, PlaceOperator
  <2> QED
    BY <2>1, <2>6 DEF Forest, g
<1> QED
  BY <1>1, <1>2

\* `(': the call is on both stacks, on one of them as a reminder.
LEMMA LParenOnce ==
  ASSUME TypeOK, NEW done \in Saved(Len(nodes)), Forest(done), LParen
  PROVE  Forest(done)'
<1> DEFINE call == TopIs(values, {"A_IDENT"})
           heap == IF call THEN [nodes EXCEPT ![Last(values)].t = "A_CALL"] ELSE nodes
           ops  == IF call THEN Append(operators, Last(values)) ELSE operators
           node == NewNode("A_OPEN_PAREN", "", <<>>)
           g    == Append(heap, node)
<1>1. /\ Typed(nodes, values, operators, done \o saved)
      /\ Once(nodes, values, operators, done \o saved)
      /\ Len(nodes) \in Nat
  BY AllTyped, Facts DEF Forest
<1>2. /\ Typed(heap, values, ops, done \o saved) /\ Once(heap, values, ops, done \o saved)
      /\ Len(heap) = Len(nodes)
  <2>1. CASE ~ call
    BY <1>1, <2>1
  <2>2. CASE call
    <3> DEFINE id == Last(values)
               h == [nodes EXCEPT ![id].t = "A_CALL"]
    <3>1. id \in 1..Len(nodes) /\ nodes[id].t = "A_IDENT"
      BY <2>2, Facts, LastFront DEF TopIs, TypeOf, Pointer
    <3> HIDE DEF id
    <3>2. /\ Typed(h, values, operators, done \o saved) /\ Once(h, values, operators, done \o saved)
          /\ Len(h) = Len(nodes) /\ h[id].t = "A_CALL"
      BY <1>1, <3>1, TurnsIntoCall
    <3> HIDE DEF h
    <3>3. /\ Typed(h, values, Append(operators, id), done \o saved)
          /\ Once(h, values, Append(operators, id), done \o saved)
      BY <3>1, <3>2, PlaceOperator
    <3>4. heap = h /\ ops = Append(operators, id)
      BY <2>2 DEF h, id
    <3> QED
      BY <3>2, <3>3, <3>4
  <2> QED
    BY <2>1, <2>2
<1>3. Joins(Len(nodes), node) /\ \A j \in 1..Len(node.kids) : node.kids[j] \in {NULL, Uninit}
  BY <1>1, LeafJoins, LexemesAssumption, NoKids DEF Leaf
<1>4. /\ nodes' = g /\ operators' = Append(ops, Fresh) /\ values' = values /\ saved' = saved
  BY DEF LParen
<1> HIDE DEF node, heap, ops
<1>5. /\ Typed(g, values, ops, done \o saved) /\ Once(g, values, ops, done \o saved)
      /\ Free(g, values, ops, done \o saved, Fresh) /\ Fresh \in 1..Len(g)
  BY <1>1, <1>2, <1>3, Alloc DEF Fresh
<1> HIDE DEF g
<1>6. Once(g, values, Append(ops, Fresh), done \o saved)
  BY <1>5, PlaceOperator
<1> QED
  BY <1>4, <1>6 DEF Forest

\* The parenthesis is dropped.
LEMMA UnderOnce ==
  ASSUME TypeOK, NEW done \in Saved(Len(nodes)), Forest(done)
  PROVE  Typed(nodes, values, Under, done \o saved) /\ Once(nodes, values, Under, done \o saved)
  BY AllTyped, DropOperator DEF Forest, Under

\* The condition of an if or a while.
LEMMA RParenCondOnce ==
  ASSUME TypeOK, NEW done \in Saved(Len(nodes)), Forest(done), RParenCond
  PROVE  Forest(done)'
<1>1. Last(Under) \in 1..Len(nodes)
  BY UnderType, LastFront DEF RParenCond, TopIs, Pointer
<1>2. Once(SetKid(nodes, Last(Under), 1, Popped(values)), Rest(values), Under, done \o saved)
  BY <1>1, UnderOnce, PopIntoKid
<1> QED
  BY <1>2 DEF RParenCond, Forest

\* The end of a call: the values above it become its arguments.
LEMMA RParenCallOnce ==
  ASSUME TypeOK, NEW done \in Saved(Len(nodes)), Forest(done), RParenCall
  PROVE  Forest(done)'
<1>1. PICK i \in LastCall :
        /\ nodes' = Append(nodes, NewNode("A_CALL_FINISHED", nodes[values[i]].lexeme,
                                          Reverse(SubSeq(values, i + 1, Len(values)))))
        /\ values' = Append(SubSeq(values, 1, i - 1), Fresh)
  BY DEF RParenCall
<1> DEFINE n == Len(values)
           above == SubSeq(values, i + 1, n)
           below == SubSeq(values, 1, i - 1)
           args == Reverse(above)
           node == NewNode("A_CALL_FINISHED", nodes[values[i]].lexeme, args)
           from == [j \in 1..n-i |-> n - j + 1]
           g == Append(nodes, node)
<1>2. /\ i \in 1..n /\ n \in Nat /\ values[i] \in Pointer
      /\ \A j \in 1..n : values[j] \in Pointer
      /\ values \in Seq(Pointer)
  BY Facts, LenProperties DEF LastCall
<1>3. /\ below \in Seq(Pointer) /\ Len(below) = i - 1
      /\ \A j \in 1..i-1 : below[j] = values[j]
  BY <1>2, SubSeqProperties
<1>4. /\ above \in Seq(Pointer) /\ Len(above) = n - i
      /\ \A j \in 1..n-i : above[j] = values[i + j]
  BY <1>2, SubSeqProperties
<1>5. /\ args \in Seq(Pointer) /\ Len(args) = n - i
      /\ \A j \in 1..n-i : args[j] = values[n - j + 1]
  <2> DEFINE m == n - i
  <2>1. m \in Nat
    BY <1>2
  <2>2. args = [j \in 1..m |-> above[(m - j) + 1]]
    BY <1>4 DEF Reverse
  <2> HIDE DEF m
  <2>3. args \in Seq(Pointer)
    BY <1>4, ReverseSeq
  <2>4. DOMAIN args = 1..m /\ Len(args) = m
    <3>1. DOMAIN args = 1..m
      BY <2>2
    <3>2. DOMAIN args = 1..Len(args) /\ Len(args) \in Nat
      BY <2>3, LenProperties
    <3> QED
      BY <2>1, <3>1, <3>2
  <2>5. \A j \in 1..m : (m - j) + 1 \in 1..m /\ i + ((m - j) + 1) = n - j + 1
    BY <1>2, <2>1 DEF m
  <2>6. \A j \in 1..m : above[(m - j) + 1] = values[i + ((m - j) + 1)]
    BY <1>4, <2>5 DEF m
  <2> QED
    BY <2>2, <2>3, <2>4, <2>5, <2>6 DEF m
<1>6. Joins(Len(nodes), node) /\ node.kids = args
  <2>1. args \in Seq(Child(Len(nodes)))
    <3>1. Pointer \subseteq Child(Len(nodes))
      BY DEF Pointer, Child
    <3> QED
      BY <1>5, <3>1, SeqMonotonic
  <2>2. nodes[values[i]].lexeme \in Lexemes /\ Len(nodes) \in Nat
    BY <1>2, Facts DEF Node
  <2>3. "A_CALL_FINISHED" \in AstTypes /\ "A_CALL_FINISHED" \notin DOMAIN Arity
    BY DEF AstTypes, Prec, Arity
  <2> HIDE DEF args
  <2> QED
    BY <2>1, <2>2, <2>3, NewNodeJoins DEF NewNode
<1>7. Gathers(Len(nodes), args, values, below, from)
  <2> HIDE DEF args, below
  <2>1. \A j \in 1..n-i : from[j] = n - j + 1 /\ from[j] \in (i - 1) + 1..n
    BY <1>2
  <2>2. \A j, l \in 1..n-i : from[j] = from[l] => j = l
    BY <1>2
  <2>3. Len(below) =< n /\ \A j \in 1..Len(below) : below[j] = values[j]
    BY <1>2, <1>3
  <2> HIDE DEF from
  <2> QED
    BY <1>2, <1>3, <1>5, <2>1, <2>2, <2>3 DEF Gathers
<1>8. /\ Typed(nodes, values, Front(Under), done \o saved)
      /\ Once(nodes, values, Front(Under), done \o saved)
  <2>1. Rest(Under) = Front(Under)
    BY DEF Rest, RParenCall, TopIs
  <2> QED
    BY <2>1, UnderOnce, DropOperator
<1>9. below \in Stack(Len(nodes))
  BY <1>3 DEF Stack, Pointer
<1> HIDE DEF node, below, from, args
<1>10. /\ Typed(g, below, Front(Under), done \o saved)
       /\ Once(g, below, Front(Under), done \o saved)
       /\ Free(g, below, Front(Under), done \o saved, Fresh) /\ Len(g) = Fresh
  BY <1>6, <1>7, <1>8, <1>9, Gather DEF Fresh
<1> HIDE DEF g
<1>11. Once(g, Append(below, Fresh), Front(Under), done \o saved)
  <2>1. Fresh \in 1..Len(g)
    BY <1>10, Facts DEF Fresh
  <2> QED
    BY <1>10, <2>1, PlaceValue
<1>12. /\ nodes' = g /\ values' = Append(below, Fresh)
       /\ operators' = Front(Under) /\ saved' = saved
  BY <1>1 DEF RParenCall, g, node, below, args
<1> QED
  BY <1>11, <1>12 DEF Forest
\* The other handlers of `)'.
LEMMA RParenOnce ==
  ASSUME TypeOK, NEW done \in Saved(Len(nodes)), Forest(done),
         RParenReduce \/ RParenGroup \/ RParenOverrun \/ RParenNoCall
  PROVE  Forest(done)'
<1>1. CASE RParenReduce
  <2>1. saved' = saved
    BY <1>1 DEF RParenReduce, SubExpr, Stop
  <2> QED
    BY <1>1, <2>1, SubExprOnce DEF RParenReduce
<1>2. CASE RParenGroup
  BY <1>2, UnderOnce DEF RParenGroup, Forest
<1>3. CASE RParenOverrun \/ RParenNoCall
  BY <1>3, SameForest DEF RParenOverrun, RParenNoCall, Stop
<1> QED
  BY <1>1, <1>2, <1>3

\* A conditional, a loop or a return takes what it waited for.
LEMMA CloseStatementOnce ==
  ASSUME TypeOK, NEW done \in Saved(Len(nodes)), Forest(done),
         NEW types, NEW k \in Nat, "A_CALL" \notin types,
         CloseStatement(types, k)
  PROVE  Forest(done)'
<1> DEFINE id == Last(operators)
           g  == SetKid(nodes, id, k, Popped(values))
<1>1. /\ Typed(nodes, values, operators, done \o saved)
      /\ Once(nodes, values, operators, done \o saved)
  BY AllTyped DEF Forest
<1>2. id \in 1..Len(nodes) /\ nodes[id].t # "A_CALL" /\ operators # <<>>
  BY Facts, LastFront DEF CloseStatement, TopIs, Pointer, TypeOf
<1>3. /\ Typed(g, Rest(values), operators, done \o saved)
      /\ Once(g, Rest(values), operators, done \o saved)
      /\ g[id].t = nodes[id].t
  <2> HIDE DEF id
  <2> QED
    BY <1>1, <1>2, PopIntoKid
<1> HIDE DEF g
<1>4. Once(g, Append(Rest(values), Last(operators)), Front(operators), done \o saved)
  BY <1>2, <1>3, BecomesValue
<1> QED
  BY <1>4 DEF CloseStatement, Forest, g

\* Two children of a node can be written in either order.
LEMMA SetKidTwice ==
  ASSUME NEW h \in Seq(Node), NEW id \in 1..Len(h), NEW a, NEW b
  PROVE  SetKid(SetKid(h, id, 2, b), id, 3, a) = SetKid(SetKid(h, id, 3, a), id, 2, b)
<1> DEFINE kids == h[id].kids
           k2 == [kids EXCEPT ![2] = b]
           k3 == [kids EXCEPT ![3] = a]
           h2 == [h EXCEPT ![id].kids = k2]
           h3 == [h EXCEPT ![id].kids = k3]
<1>1. h[id] \in Node /\ DOMAIN h = 1..Len(h)
  BY ElementOfSeq, LenProperties
<1>2. SetKid(h, id, 2, b) = h2 /\ SetKid(h, id, 3, a) = h3
  BY DEF SetKid
<1>3. [k2 EXCEPT ![3] = a] = [k3 EXCEPT ![2] = b]
  OBVIOUS
<1> HIDE DEF k2, k3
<1>4. h2[id].kids = k2 /\ h3[id].kids = k3
  BY <1>1 DEF Node
<1>5. /\ SetKid(h2, id, 3, a) = [h2 EXCEPT ![id].kids = [k2 EXCEPT ![3] = a]]
      /\ SetKid(h3, id, 2, b) = [h3 EXCEPT ![id].kids = [k3 EXCEPT ![2] = b]]
  BY <1>4 DEF SetKid
<1>6. \A k : /\ [h2 EXCEPT ![id].kids = k] = [h EXCEPT ![id].kids = k]
             /\ [h3 EXCEPT ![id].kids = k] = [h EXCEPT ![id].kids = k]
  OBVIOUS
<1> QED
  BY <1>2, <1>3, <1>5, <1>6

\* An else hands two blocks to the conditional under it.
LEMMA CloseElseOnce ==
  ASSUME TypeOK, NEW done \in Saved(Len(nodes)), Forest(done), CloseElse
  PROVE  Forest(done)'
<1>1. CASE TopIs(Under, {"A_COND"})
  <2> DEFINE id == Last(Under)
             a == Popped(values)
             b == Popped(Rest(values))
             g1 == SetKid(nodes, id, 3, a)
             g2 == SetKid(g1, id, 2, b)
  <2>1. id \in 1..Len(nodes) /\ nodes[id].t = "A_COND" /\ Under # <<>>
    BY <1>1, UnderType, LastFront DEF TopIs, Pointer, TypeOf
  <2>2. /\ nodes' = SetKid(SetKid(nodes, id, 2, b), id, 3, a)
        /\ values' = Append(Rest(Rest(values)), id) /\ operators' = Front(Under)
        /\ saved' = saved
    BY <1>1 DEF CloseElse, TakesBlocks, TopIs
  <2>3. nodes' = g2
    <3> HIDE DEF id, a, b
    <3> QED
      BY <2>1, <2>2, Facts, SetKidTwice
  <2> HIDE DEF id
  <2>4. /\ Typed(g1, Rest(values), Under, done \o saved)
        /\ Once(g1, Rest(values), Under, done \o saved)
        /\ Len(g1) = Len(nodes) /\ g1[id].t = nodes[id].t
    BY <2>1, UnderOnce, PopIntoKid
  <2> HIDE DEF g1
  <2>5. /\ Typed(g2, Rest(Rest(values)), Under, done \o saved)
        /\ Once(g2, Rest(Rest(values)), Under, done \o saved) /\ g2[id].t = nodes[id].t
    BY <2>1, <2>4, PopIntoKid
  <2> HIDE DEF g2
  <2>6. Once(g2, Append(Rest(Rest(values)), Last(Under)), Front(Under), done \o saved)
    BY <2>1, <2>5, BecomesValue DEF id
  <2> QED
    BY <2>2, <2>3, <2>6 DEF Forest, id
<1>2. CASE TopIs(Under, {"A_DECL_ASSIGNMENT"})
  <2> DEFINE id == Last(Under)
             g1 == Nameless(nodes, id)
             g2 == SetKid(g1, id, 1, Popped(values))
  <2>1. id \in 1..Len(nodes) /\ nodes[id].t = "A_DECL_ASSIGNMENT" /\ Under # <<>>
    BY <1>2, UnderType, LastFront DEF TopIs, Pointer, TypeOf
  <2>2. /\ nodes' = g2 /\ values' = Append(Rest(Rest(values)), id)
        /\ operators' = Front(Under) /\ saved' = saved
    BY <1>2, <2>1 DEF CloseElse, TakesBlocks, TopIs, TypeOf, Nameless
  <2> HIDE DEF id
  <2>3. /\ Typed(g1, values, Under, done \o saved) /\ Once(g1, values, Under, done \o saved)
        /\ Len(g1) = Len(nodes) /\ g1[id].t = nodes[id].t
    BY <2>1, UnderOnce, LosesItsName
  <2> HIDE DEF g1
  <2>4. /\ Typed(g2, Rest(values), Under, done \o saved)
        /\ Once(g2, Rest(values), Under, done \o saved) /\ g2[id].t = nodes[id].t
    BY <2>1, <2>3, PopIntoKid
  <2> HIDE DEF g2
  <2>5. /\ Typed(g2, Rest(Rest(values)), Under, done \o saved)
        /\ Once(g2, Rest(Rest(values)), Under, done \o saved)
    BY <2>4, DropValue
  <2>6. Once(g2, Append(Rest(Rest(values)), Last(Under)), Front(Under), done \o saved)
    BY <2>1, <2>4, <2>5, BecomesValue DEF id
  <2> QED
    BY <2>2, <2>6 DEF Forest, id
<1>3. CASE ~ TopIs(Under, {"A_COND", "A_DECL_ASSIGNMENT"})
  BY <1>3, SameForest DEF CloseElse, Stop
<1> QED
  BY <1>1, <1>2, <1>3 DEF TopIs

\* An expression statement is followed by its void mark.
LEMMA SemiVoidOnce ==
  ASSUME TypeOK, NEW done \in Saved(Len(nodes)), Forest(done), SemiVoid
  PROVE  Forest(done)'
<1> DEFINE node == NewNode("EXPR_TO_VOID", "", <<>>)
<1>1. CASE PushValue(node) /\ saved' = saved
  <2>1. /\ Joins(Len(nodes), node)
        /\ \A j \in 1..Len(node.kids) : node.kids[j] \in {NULL, Uninit}
    BY Facts, LeafJoins, LexemesAssumption, NoKids DEF Leaf
  <2> HIDE DEF node
  <2> QED
    BY <1>1, <2>1, PushOnce
<1>2. CASE ~ (PushValue(node) /\ saved' = saved)
  BY <1>2, SameForest DEF SemiVoid, Stop
<1> QED
  BY <1>1, <1>2

\* All handlers of `;'.
LEMMA SemicolonOnce ==
  ASSUME TypeOK, NEW done \in Saved(Len(nodes)), Forest(done),
         SemiReduce \/ CloseCond \/ CloseReturn \/ CloseElse \/ SemiClosed \/ SemiVoid
  PROVE  Forest(done)'
<1>1. CASE SemiReduce
  <2>1. saved' = saved
    BY <1>1 DEF SemiReduce, SubExpr, Stop
  <2> QED
    BY <1>1, <2>1, SubExprOnce DEF SemiReduce
<1>2. CASE CloseCond
  BY <1>2, CloseStatementOnce DEF CloseCond
<1>3. CASE CloseReturn
  BY <1>3, CloseStatementOnce DEF CloseReturn
<1>4. CASE CloseElse
  BY <1>4, CloseElseOnce
<1>5. CASE SemiClosed
  BY <1>5, SameForest DEF SemiClosed
<1>6. CASE SemiVoid
  BY <1>6, SemiVoidOnce
<1> QED
  BY <1>1, <1>2, <1>3, <1>4, <1>5, <1>6

\* Stacks put aside last are taken back first, whatever bodies lie below them.
LEMMA PutAside ==
  ASSUME NEW S, NEW d \in Seq(S), NEW s \in Seq(S), NEW e \in S
  PROVE  /\ d \o Append(s, e) = Append(d \o s, e)
         /\ s # <<>> => /\ d \o s # <<>>
                       /\ Last(d \o s) = Last(s) /\ Front(d \o s) = d \o Front(s)
<1>1. /\ Len(d) \in Nat /\ Len(s) \in Nat /\ d \o s \in Seq(S)
      /\ Len(d \o s) = Len(d) + Len(s)
      /\ \A k \in 1..Len(d) + Len(s) : (d \o s)[k] = IF k =< Len(d) THEN d[k] ELSE s[k - Len(d)]
  BY ConcatProperties, LenProperties
<1>2. d \o Append(s, e) = Append(d \o s, e)
  <2>1. /\ Append(s, e) \in Seq(S) /\ Len(Append(s, e)) = Len(s) + 1
        /\ Append(s, e)[Len(s) + 1] = e /\ \A k \in 1..Len(s) : Append(s, e)[k] = s[k]
    BY AppendProperties
  <2>2. /\ Append(d \o s, e) \in Seq(S) /\ Len(Append(d \o s, e)) = Len(d) + Len(s) + 1
        /\ Append(d \o s, e)[Len(d) + Len(s) + 1] = e
        /\ \A k \in 1..Len(d) + Len(s) : Append(d \o s, e)[k] = (d \o s)[k]
    BY <1>1, AppendProperties
  <2>3. /\ d \o Append(s, e) \in Seq(S) /\ Len(d \o Append(s, e)) = Len(d) + Len(s) + 1
        /\ \A k \in 1..Len(d) + Len(s) + 1 :
             (d \o Append(s, e))[k] = IF k =< Len(d) THEN d[k] ELSE Append(s, e)[k - Len(d)]
    BY <1>1, <2>1, ConcatProperties
  <2>4. ASSUME NEW k \in 1..Len(d) + Len(s) + 1
        PROVE  (d \o Append(s, e))[k] = Append(d \o s, e)[k]
    <3>1. CASE k = Len(d) + Len(s) + 1
      <4>1. ~ k =< Len(d) /\ k - Len(d) = Len(s) + 1
        BY <1>1, <3>1
      <4> QED
        BY <2>1, <2>2, <2>3, <3>1, <4>1
    <3>2. CASE k # Len(d) + Len(s) + 1
      <4>1. k \in 1..Len(d) + Len(s) /\ (~ k =< Len(d) => k - Len(d) \in 1..Len(s))
        BY <1>1, <3>2
      <4> QED
        BY <1>1, <2>1, <2>2, <2>3, <4>1
    <3> QED
      BY <3>1, <3>2
  <2> QED
    BY <2>2, <2>3, <2>4, SeqEqual
<1>3. ASSUME s # <<>>
      PROVE  /\ d \o s # <<>> /\ Last(d \o s) = Last(s)
             /\ Front(d \o s) = d \o Front(s)
  <2>1. /\ Len(s) \in Nat \ {0} /\ Last(s) = s[Len(s)]
        /\ Front(s) \in Seq(S) /\ Len(Front(s)) = Len(s) - 1
        /\ \A k \in 1..Len(s)-1 : Front(s)[k] = s[k]
    BY <1>3, FrontIs
  <2>2. d \o s # <<>>
    BY <1>1, <2>1, EmptySeq
  <2>3. /\ Last(d \o s) = (d \o s)[Len(d) + Len(s)]
        /\ Front(d \o s) \in Seq(S) /\ Len(Front(d \o s)) = Len(d) + Len(s) - 1
        /\ \A k \in 1..Len(d)+Len(s)-1 : Front(d \o s)[k] = (d \o s)[k]
    <3>1. /\ Last(d \o s) = (d \o s)[Len(d \o s)]
          /\ Front(d \o s) \in Seq(S) /\ Len(Front(d \o s)) = Len(d \o s) - 1
          /\ \A k \in 1..Len(d \o s)-1 : Front(d \o s)[k] = (d \o s)[k]
      BY <1>1, <2>2, FrontIs
    <3> QED
      BY <1>1, <3>1
  <2>4. Last(d \o s) = Last(s)
    <3>1. Len(d) + Len(s) \in 1..Len(d) + Len(s) /\ ~ Len(d) + Len(s) =< Len(d)
          /\ (Len(d) + Len(s)) - Len(d) = Len(s)
      BY <1>1, <2>1
    <3> QED
      BY <1>1, <2>1, <2>3, <3>1
  <2>5. /\ d \o Front(s) \in Seq(S) /\ Len(d \o Front(s)) = Len(d) + Len(s) - 1
        /\ \A k \in 1..Len(d) + Len(s) - 1 :
             (d \o Front(s))[k] = IF k =< Len(d) THEN d[k] ELSE Front(s)[k - Len(d)]
    <3>1. Len(d) + Len(Front(s)) = Len(d) + Len(s) - 1
      BY <1>1, <2>1
    <3>2. /\ d \o Front(s) \in Seq(S) /\ Len(d \o Front(s)) = Len(d) + Len(Front(s))
          /\ \A k \in 1..Len(d) + Len(Front(s)) :
               (d \o Front(s))[k] = IF k =< Len(d) THEN d[k] ELSE Front(s)[k - Len(d)]
      BY <2>1, ConcatProperties
    <3> QED
      BY <3>1, <3>2
  <2>6. ASSUME NEW k \in 1..Len(d) + Len(s) - 1
        PROVE  (d \o Front(s))[k] = Front(d \o s)[k]
    <3>1. /\ k \in 1..Len(d) + Len(s) /\ k \in 1..Len(d)+Len(s)-1
          /\ ~ k =< Len(d) => k - Len(d) \in 1..Len(s)-1
      BY <1>1, <2>1
    <3> QED
      BY <1>1, <2>1, <2>3, <2>5, <3>1
  <2> QED
    BY <2>2, <2>3, <2>4, <2>5, <2>6, SeqEqual
<1> QED
  BY <1>2, <1>3

\* `{' saves both stacks.
LEMMA OpenBlockOnce ==
  ASSUME TypeOK, NEW done \in Saved(Len(nodes)), Forest(done), OpenBlock
  PROVE  Forest(done)'
<1> DEFINE rec == [values |-> values, operators |-> operators]
<1>1. Once(nodes, <<>>, <<>>, Append(done \o saved, rec))
  BY AllTyped, SaveStacks DEF Forest
<1>2. done \o Append(saved, rec) = Append(done \o saved, rec)
  <2>1. rec \in [values : Stack(Len(nodes)), operators : Stack(Len(nodes))]
    BY ParserTyped DEF Typed
  <2>2. saved \in Seq([values : Stack(Len(nodes)), operators : Stack(Len(nodes))])
    BY ParserTyped DEF Typed, Saved
  <2> HIDE DEF rec
  <2> QED
    BY <2>1, <2>2, PutAside DEF Saved
<1> QED
  BY <1>1, <1>2 DEF OpenBlock, Forest

\* `}' takes them back and pushes the block.
LEMMA CloseBlockOnce ==
  ASSUME TypeOK, NEW done \in Saved(Len(nodes)), Forest(done), CloseBlock
  PROVE  Forest(done)'
<1> DEFINE node == NewNode("A_BLOCK", "", BlockValues)
           g == Append(nodes, node)
           from == [j \in 1..Len(BlockValues) |-> j]
<1>1. CASE Stop("segv")
  BY <1>1, SameForest DEF Stop
<1>2. CASE ~ Stop("segv")
  <2>1. /\ nodes' = g
        /\ values' = Append(Last(saved).values, Fresh)
        /\ operators' = Last(saved).operators /\ saved' = Front(saved)
        /\ values # <<>> /\ saved # <<>>
    BY <1>2 DEF CloseBlock
  <2>2. /\ BlockValues \in Seq(Pointer) /\ Len(BlockValues) \in Nat
        /\ Len(values) \in Nat /\ Len(BlockValues) =< Len(values)
        /\ \A j \in 1..Len(BlockValues) : BlockValues[j] = values[j]
    <3>1. CASE TopIs(values, {"EXPR_TO_VOID"})
      <4>1. BlockValues = Front(values)
        BY <3>1 DEF BlockValues
      <4>2. /\ Len(values) \in Nat \ {0}
            /\ Front(values) \in Seq(Pointer) /\ Len(Front(values)) = Len(values) - 1
            /\ \A i \in 1..Len(values)-1 : Front(values)[i] = values[i]
        BY <2>1, Facts, FrontIs
      <4> QED
        BY <4>1, <4>2
    <3>2. CASE ~ TopIs(values, {"EXPR_TO_VOID"})
      BY <3>2, Facts, LenProperties DEF BlockValues
    <3> QED
      BY <3>1, <3>2
  <2>3. Joins(Len(nodes), node) /\ node.kids = BlockValues
    <3>1. Pointer \subseteq Child(Len(nodes))
      BY DEF Pointer, Child
    <3>2. BlockValues \in Seq(Child(Len(nodes)))
      BY <2>2, <3>1, SeqMonotonic
    <3>3. "A_BLOCK" \in AstTypes /\ "A_BLOCK" \notin DOMAIN Arity
      BY DEF AstTypes, Prec, Arity
    <3> QED
      BY <3>2, <3>3, Facts, NewNodeJoins, LexemesAssumption DEF NewNode
  <2>4. Gathers(Len(nodes), BlockValues, values, <<>>, from)
    BY <2>2 DEF Gathers
  <2>5. /\ Typed(nodes, values, operators, done \o saved)
        /\ Once(nodes, values, operators, done \o saved)
        /\ <<>> \in Stack(Len(nodes))
    BY AllTyped, EmptySeq DEF Forest, Stack
  <2> HIDE DEF node, from
  <2>6. /\ Typed(g, <<>>, operators, done \o saved) /\ Once(g, <<>>, operators, done \o saved)
        /\ Free(g, <<>>, operators, done \o saved, Fresh) /\ Len(g) = Fresh
    BY <2>3, <2>4, <2>5, Gather DEF Fresh
  <2> HIDE DEF g
  <2>7. /\ Typed(g, Last(saved).values, Last(saved).operators, done \o Front(saved))
        /\ Once(g, Last(saved).values, Last(saved).operators, done \o Front(saved))
        /\ Free(g, Last(saved).values, Last(saved).operators, done \o Front(saved), Fresh)
    <3>1. /\ done \o saved # <<>> /\ Last(done \o saved) = Last(saved)
          /\ Front(done \o saved) = done \o Front(saved)
      <4>1. saved \in Seq([values : Stack(Len(nodes)), operators : Stack(Len(nodes))])
        BY ParserTyped DEF Typed, Saved
      <4>2. Last(saved) \in [values : Stack(Len(nodes)), operators : Stack(Len(nodes))]
        BY <2>1, <4>1, LastFront
      <4> QED
        BY <2>1, <4>1, <4>2, PutAside DEF Saved
    <3> QED
      BY <2>6, <3>1, RestoreStacks
  <2>8. Once(g, Append(Last(saved).values, Fresh), Last(saved).operators, done \o Front(saved))
    <3>1. Fresh \in 1..Len(g)
      BY <2>6, Facts DEF Fresh
    <3> QED
      BY <2>7, <3>1, PlaceValue
  <2> QED
    BY <2>1, <2>8 DEF Forest
<1> QED
  BY <1>1, <1>2

\* The end of the function: the values leave for the body of the symbol.
LEMMA EndBodyOnce ==
  ASSUME TypeOK, NEW done \in Saved(Len(nodes)), Forest(done), EndBody
  PROVE  /\ pc' = "done" => Forest(Append(done, BodyStack(body)))'
         /\ pc' # "done" => Forest(done)'
<1>1. CASE Stop("exit69")
  BY <1>1, SameForest DEF Stop
<1>2. CASE ~ Stop("exit69")
  <2>1. /\ saved = <<>> /\ pc' = "done" /\ body' = values /\ values' = <<>>
        /\ operators' = <<>> /\ nodes' = nodes /\ saved' = saved
    BY <1>2 DEF EndBody, ValuesAfterBody
  <2>2. done \in Seq([values : Stack(Len(nodes)), operators : Stack(Len(nodes))])
        /\ <<>> \in Stack(Len(nodes))
    BY EmptySeq DEF Saved, Stack
  <2>3. Typed(nodes, values, operators, done) /\ Once(nodes, values, operators, done)
    <3>1. done \o saved = done
      BY <2>1, <2>2, ConcatEmptySeq
    <3> QED
      BY <3>1, AllTyped DEF Forest
  <2>4. Typed(nodes, values, <<>>, done) /\ Once(nodes, values, <<>>, done)
    BY <2>2, <2>3, DropOperators DEF Typed
  <2>5. Once(nodes, <<>>, <<>>, Append(done, BodyStack(values)))
    BY <2>4, SaveStacks DEF BodyStack
  <2>6. Append(done, BodyStack(values)) \o <<>> = Append(done, BodyStack(values))
    <3>1. BodyStack(values) \in [values : Stack(Len(nodes)), operators : Stack(Len(nodes))]
      BY <2>2, <2>3 DEF BodyStack, Typed
    <3> HIDE DEF BodyStack
    <3> QED
      BY <2>2, <3>1, AppendProperties, ConcatEmptySeq
  <2> QED
    BY <2>1, <2>5, <2>6 DEF Forest
<1> QED
  BY <1>1, <1>2

-----------------------------------------------------------------------------
\* The parameters are the first values, and nothing else holds a node.
LEMMA InitOnce == Init => Forest(<<>>)
<1> SUFFICES ASSUME Init PROVE Forest(<<>>)
  OBVIOUS
<1> DEFINE n == Len(program.params)
<1>1. n \in Nat
  BY ProgramsAssumption, LenProperties DEF Init
<1>2. /\ values = [i \in 1..n |-> i] /\ operators = <<>> /\ saved = <<>>
      /\ nodes = [i \in 1..n |-> NewNode("A_DECL_LOCAL", program.params[i], <<>>)]
  BY DEF Init
<1> HIDE DEF n
<1>3. TypeOK /\ values \in Seq(Pointer) /\ nodes \in Seq(Node)
  BY InitType, Facts
<1>4. Len(nodes) = n /\ Len(values) = n
  <2>1. DOMAIN nodes = 1..n /\ DOMAIN values = 1..n
    BY <1>2
  <2>2. DOMAIN nodes = 1..Len(nodes) /\ DOMAIN values = 1..Len(values)
        /\ Len(nodes) \in Nat /\ Len(values) \in Nat
    BY <1>3, LenProperties
  <2> QED
    BY <1>1, <2>1, <2>2
<1>5. \A a \in 1..Len(nodes) : Len(nodes[a].kids) = 0
  BY <1>2, <1>4 DEF NewNode
<1>6. ASSUME NEW k, NEW a, NEW i, NEW x, Held(nodes, values, operators, saved, k, a, i, x)
      PROVE  k = "value" /\ a = 1 /\ i = x
  <2>1. k # "child"
    BY <1>5, <1>6 DEF Held
  <2>2. k # "operator"
    BY <1>2, <1>6 DEF Held, OperatorsAt, Top
  <2>3. k = "value" /\ a = 1 /\ i \in 1..Len(values) /\ values[i] = x
    <3>1. Top(saved) = 1
      BY <1>2 DEF Top
    <3>2. k = "value" /\ a \in 1..1 /\ i \in 1..Len(ValuesAt(values, saved, a))
          /\ ValuesAt(values, saved, a)[i] = x
      BY <1>6, <2>1, <2>2, <3>1 DEF Held
    <3>3. a = 1
      BY <3>2
    <3> QED
      BY <3>1, <3>2, <3>3 DEF ValuesAt
  <2> QED
    BY <1>2, <1>4, <2>3
<1>7. <<>> \o saved = <<>>
  BY <1>2
<1> QED
  BY <1>2, <1>6, <1>7 DEF Forest, Once

\* A body is parsed in two values of pc, and its end is the only step that
\* reaches "done" or sets the body: it forgets the operators that still wait.
LEMMA OnlyEndBody ==
  Next => /\ pc \in {"parse", "closing"}
          /\ IF pc' = "done" THEN EndBody /\ operators' = <<>> ELSE body' = body
<1>1. ASSUME \/ Ident \/ Integer \/ String \/ If \/ Else \/ While \/ Return
             \/ Assign \/ VarLocal \/ VarAssignment \/ VarPanic \/ Binary
             \/ LParen \/ OpenBlock \/ CloseBlock \/ Skip \/ EndOfText
      PROVE  pc = "parse" /\ pc' # "done" /\ body' = body
  BY <1>1 DEF Ident, Integer, String, If, Else, While, Return, Assign, VarLocal, VarAssignment,
     VarPanic, Binary, LParen, OpenBlock, CloseBlock, Skip, EndOfText, Reads, Stop, vars
<1>2. ASSUME \/ RParenReduce \/ RParenGroup \/ RParenCond \/ RParenCall \/ RParenOverrun
             \/ RParenNoCall \/ SemiReduce \/ SemiVoid
      PROVE  pc = "parse" /\ pc' # "done" /\ body' = body
  BY <1>2 DEF RParenReduce, RParenGroup, RParenCond, RParenCall, RParenOverrun, RParenNoCall,
     SemiReduce, SemiVoid, ParenCloses, Reads, SubExpr, Stop
<1>3. ASSUME CloseCond \/ CloseReturn \/ CloseElse \/ SemiClosed
      PROVE  pc \in {"parse", "closing"} /\ pc' # "done" /\ body' = body
  BY <1>3 DEF CloseCond, CloseReturn, CloseElse, SemiClosed, CloseStatement, StatementWaits, Stop
<1>4. ASSUME EndBody
      PROVE  pc = "parse" /\ IF pc' = "done" THEN operators' = <<>> ELSE body' = body
  BY <1>4 DEF EndBody, Stop, Reads
<1> QED
  BY <1>1, <1>2, <1>3, <1>4 DEF Next

\* Every step keeps the forest; the last one of a body adds that body to it.
LEMMA StepOnce ==
  ASSUME TypeOK, NEW done \in Saved(Len(nodes)), Forest(done), [Next]_vars
  PROVE  /\ Next /\ pc' = "done" => Forest(Append(done, BodyStack(body)))'
         /\ Next /\ pc' # "done" => Forest(done)'
         /\ UNCHANGED vars => Forest(done)'
<1>1. ASSUME \/ Ident \/ Integer \/ String \/ If \/ Else \/ While \/ Return
             \/ VarLocal \/ VarAssignment
      PROVE  Forest(done)'
  BY <1>1, PushTokenOnce
<1>2. ASSUME Assign PROVE Forest(done)'
  BY <1>2, AssignOnce
<1>3. ASSUME Binary PROVE Forest(done)'
  BY <1>3, BinaryOnce
<1>4. ASSUME LParen PROVE Forest(done)'
  BY <1>4, LParenOnce
<1>5. ASSUME RParenReduce \/ RParenGroup \/ RParenOverrun \/ RParenNoCall PROVE Forest(done)'
  BY <1>5, RParenOnce
<1>6. ASSUME RParenCond PROVE Forest(done)'
  BY <1>6, RParenCondOnce
<1>7. ASSUME RParenCall PROVE Forest(done)'
  BY <1>7, RParenCallOnce
<1>8. ASSUME SemiReduce \/ CloseCond \/ CloseReturn \/ CloseElse \/ SemiClosed \/ SemiVoid
      PROVE  Forest(done)'
  BY <1>8, SemicolonOnce
<1>9. ASSUME OpenBlock PROVE Forest(done)'
  BY <1>9, OpenBlockOnce
<1>10. ASSUME CloseBlock PROVE Forest(done)'
  BY <1>10, CloseBlockOnce
<1>11. ASSUME EndBody
       PROVE  /\ pc' = "done" => Forest(Append(done, BodyStack(body)))'
              /\ pc' # "done" => Forest(done)'
  BY <1>11, EndBodyOnce
<1>12. ASSUME VarPanic \/ Skip \/ EndOfText PROVE Forest(done)'
  BY <1>12, SameForest DEF VarPanic, Skip, EndOfText, Stop, vars
<1>13. UNCHANGED vars => Forest(done)'
  BY SameForest DEF vars
<1>14. Next /\ ~ EndBody => Forest(done)'
  BY <1>1, <1>2, <1>3, <1>4, <1>5, <1>6, <1>7, <1>8, <1>9, <1>10, <1>12 DEF Next
<1>15. Next /\ pc' = "done" => EndBody
  BY OnlyEndBody
<1> QED
  BY <1>11, <1>13, <1>14, <1>15

\* The body is empty until the function is over. No node is held twice,
\* whatever the tokens are, so that the trees of a body share nothing and every
\* expression is compiled once.
THEOREM ParserHeldOnce == Spec => []HeldOnce
<1> DEFINE Inv == /\ TypeOK
                  /\ pc # "done" => body = <<>> /\ Forest(<<>>)
                  /\ pc = "done" => Forest(<<BodyStack(body)>>)
<1>1. Init => Inv
  <2>1. Init => pc # "done" /\ body = <<>>
    BY DEF Init
  <2> QED
    BY <2>1, InitType, InitOnce
<1>2. Inv /\ [Next]_vars => Inv'
  <2> SUFFICES ASSUME Inv, [Next]_vars PROVE Inv'
    OBVIOUS
  <2>1. TypeOK'
    BY StepType
  <2>2. CASE Next
    <3>1. pc # "done" /\ body = <<>> /\ Forest(<<>>) /\ <<>> \in Saved(Len(nodes))
      BY <2>2, OnlyEndBody, EmptySeq DEF Saved
    <3>2. /\ pc' = "done" => Forest(Append(<<>>, BodyStack(body)))'
          /\ pc' # "done" => Forest(<<>>)' /\ body' = <<>>
      BY <2>2, <3>1, StepOnce, OnlyEndBody
    <3>3. Append(<<>>, BodyStack(body))' = <<BodyStack(body)>>'
      OBVIOUS
    <3> QED
      BY <2>1, <3>2, <3>3 DEF Forest
  <2>3. CASE UNCHANGED vars
    <3>1. PICK last : last = BodyStack(body)
      OBVIOUS
    <3>2. BodyStack(body)' = last /\ pc' = pc /\ body' = body
      BY <2>3, <3>1 DEF vars, BodyStack
    <3>3. /\ pc # "done" => Forest(<<>>)'
          /\ pc = "done" => Forest(<<last>>)'
      BY <2>3, <3>1, SameForest DEF vars
    <3> QED
      BY <2>1, <3>2, <3>3 DEF Forest
  <2> QED
    BY <2>2, <2>3
<1>3. Inv => HeldOnce
  <2> SUFFICES ASSUME Inv PROVE SharesNothing(<<body>>)
    BY DEF HeldOnce
  <2>1. /\ Typed(nodes, values, operators, saved)
        /\ body \in Stack(Len(nodes)) /\ <<body>> \in Seq(Stack(Len(nodes)))
        /\ <<>> \in Seq(Stack(Len(nodes)))
    BY ParserTyped, EmptySeq DEF TypeOK, Stack, Pointer
  <2>2. BodyStacks(<<body>>) = <<BodyStack(body)>> /\ BodyStacks(<<>>) = <<>>
    BY DEF BodyStacks
  <2>3. CASE pc = "done"
    BY <2>1, <2>2, <2>3, InTheseWords DEF Forest
  <2>4. CASE pc # "done"
    <3>1. SharesNothing(<<>>)
      BY <2>1, <2>2, <2>4, InTheseWords DEF Forest
    <3>2. Holdings(<<body>>) = Holdings(<<>>)
      BY <2>4 DEF Holdings, InBodies
    <3> QED
      BY <3>1, <3>2 DEF SharesNothing
  <2> QED
    BY <2>3, <2>4
<1> QED
  BY <1>1, <1>2, <1>3, PTL DEF Spec

-----------------------------------------------------------------------------
(***************************************************************************)
(* When a semicolon leaves no operator behind. The loop under it finishes  *)
(* everything above the innermost waiting statement and then the           *)
(* statements, so none may wait below an operator: `x = if ..' breaks it.  *)
(***************************************************************************)

\* On an operator stack the statements lie at the bottom.
Layered(h, s) ==
  \A i, j \in 1..Len(s) : i < j /\ h[s[j]].t \in Statements => h[s[i]].t \in Statements

Layers ==
  /\ Layered(nodes, operators)
  /\ \A k \in 1..Len(saved) : Layered(nodes, saved[k].operators)
  /\ pc = "closing" => \A i \in 1..Len(operators) : TypeOf(operators[i]) \in Statements

\* What was a statement stays one, and nothing else becomes one.
SameKinds(h, g) ==
  \A id \in 1..Len(h) : g[id].t \in Statements <=> h[id].t \in Statements

\* The node types of prec PREC_STMT.
LEMMA StatementTypes ==
  Statements = {"A_RET", "A_COND", "A_WHILE", "A_ELSE_CLAUSE", "A_BLOCK", "A_DECL_LOCAL",
                "EXPR_TO_VOID"}
  BY DEF Statements, AstTypes, Prec, PREC_STMT, PREC_NONE, PREC_ASSIGNMENT, PREC_COMPARISON,
         PREC_TERM, PREC_CALL, PREC_PRIMARY

\* A new heap with the kinds of the old one leaves a stack layered.
LEMMA LayersStay ==
  ASSUME NEW h, NEW g, SameKinds(h, g), NEW s \in Seq(1..Len(h)), Layered(h, s)
  PROVE  Layered(g, s)
<1>1. \A i \in 1..Len(s) : s[i] \in 1..Len(h)
  BY ElementOfSeq
<1> QED
  BY <1>1 DEF Layered, SameKinds

\* Taking off the top.
LEMMA LayersFront ==
  ASSUME NEW S, NEW h, NEW s \in Seq(S), s # <<>>, Layered(h, s)
  PROVE  /\ Layered(h, Front(s)) /\ Len(s) \in Nat \ {0} /\ Len(Front(s)) = Len(s) - 1
         /\ \A i \in 1..Len(Front(s)) : Front(s)[i] = s[i]
<1>1. /\ Len(s) \in Nat \ {0} /\ Len(Front(s)) = Len(s) - 1
      /\ \A i \in 1..Len(s)-1 : Front(s)[i] = s[i]
  BY FrontIs
<1> QED
  BY <1>1 DEF Layered

\* Putting one on: a statement only above statements.
LEMMA LayersPush ==
  ASSUME NEW S, NEW h, NEW s \in Seq(S), NEW x \in S, Layered(h, s),
         h[x].t \in Statements => s = <<>> \/ h[Last(s)].t \in Statements
  PROVE  Layered(h, Append(s, x))
<1>1. /\ Len(Append(s, x)) = Len(s) + 1 /\ Len(s) \in Nat /\ Append(s, x)[Len(s) + 1] = x
      /\ \A i \in 1..Len(s) : Append(s, x)[i] = s[i]
      /\ s = <<>> <=> Len(s) = 0
  BY AppendProperties, LenProperties, EmptySeq
<1>2. SUFFICES ASSUME NEW i \in 1..Len(s), h[x].t \in Statements
               PROVE  h[s[i]].t \in Statements
  BY <1>1 DEF Layered
<1>3. h[s[Len(s)]].t \in Statements
  BY <1>1, <1>2 DEF Last
<1> QED
  BY <1>1, <1>3 DEF Layered

\* Append, whatever is appended.
LEMMA AppendAny ==
  ASSUME NEW S, NEW s \in Seq(S), NEW x
  PROVE  /\ Append(s, x)[Len(s) + 1] = x /\ Len(s) \in Nat
         /\ \A i \in 1..Len(s) : Append(s, x)[i] = s[i]
<1>1. s \in Seq(S \cup {x}) /\ x \in S \cup {x}
  BY SeqMonotonic
<1> QED
  BY <1>1, AppendProperties, LenProperties

\* The heaps the handlers make have the kinds of the old one.
LEMMA KindsAppend ==
  ASSUME NEW h \in Seq(Node), NEW g, NEW node, NEW k \in Seq(Node), SameKinds(h, k), Len(k) = Len(h),
         g = Append(k, node)
  PROVE  SameKinds(h, g)
<1>1. \A id \in 1..Len(h) : Append(k, node)[id] = k[id]
  BY AppendAny
<1> QED
  BY <1>1 DEF SameKinds

\* Writing a child changes no type.
LEMMA KindsSetKid ==
  ASSUME NEW h \in Seq(Node), NEW id, NEW k, NEW kid
  PROVE  SameKinds(h, SetKid(h, id, k, kid)) /\ SameKinds(h, h)
  BY DEF SetKid, SameKinds, Node

\* A step that leaves the stacks put aside alone and does not enter the loop of
\* a semicolon.
LEMMA LayersStep ==
  ASSUME TypeOK, Layers, SameKinds(nodes, nodes'), Layered(nodes', operators'), saved' = saved,
         pc' = "closing" => \A i \in 1..Len(operators') : nodes'[operators'[i]].t \in Statements
  PROVE  Layers'
<1>1. ASSUME NEW k \in 1..Len(saved)
      PROVE  Layered(nodes', saved[k].operators)
  <2>1. saved[k] \in [values : Seq(Pointer), operators : Seq(Pointer)]
    BY ElementOfSeq DEF TypeOK
  <2> QED
    BY <2>1, LayersStay DEF Layers, Pointer
<1> QED
  BY <1>1 DEF Layers, TypeOf

\* Nothing happens to the operators.
LEMMA LayersRest ==
  ASSUME TypeOK, Layers, SameKinds(nodes, nodes'), operators' \in {operators, <<>>}, saved' = saved,
         pc' = "closing" => pc = "closing"
  PROVE  Layers'
<1>1. operators \in Seq(1..Len(nodes))
  BY DEF TypeOK, Pointer
<1>2. Layered(nodes', operators')
  <2>1. Layered(nodes', operators)
    BY <1>1, LayersStay DEF Layers
  <2>2. Layered(nodes', <<>>)
    BY DEF Layered
  <2> QED
    BY <2>1, <2>2
<1>3. ASSUME pc' = "closing", NEW i \in 1..Len(operators')
      PROVE  nodes'[operators'[i]].t \in Statements
  BY <1>1, <1>3, ElementOfSeq DEF Layers, SameKinds, TypeOf
<1> QED
  BY <1>2, <1>3, LayersStep

\* An operator is pushed.
LEMMA LayersNew ==
  ASSUME TypeOK, Layers, NEW h, WellFormed(h), Len(h) = Len(nodes), SameKinds(nodes, h),
         NEW o \in Seq(Pointer), Layered(h, o),
         NEW node, nodes' = Append(h, node), operators' = Append(o, Fresh),
         node.t \in Statements => o = <<>> \/ h[Last(o)].t \in Statements,
         saved' = saved, pc' = pc, pc = "parse"
  PROVE  Layers'
<1>1. /\ h \in Seq(Node) /\ Len(h) \in Nat /\ Fresh = Len(h) + 1
      /\ Append(h, node)[Len(h) + 1] = node
      /\ \A id \in 1..Len(h) : Append(h, node)[id] = h[id]
  BY Facts, AppendAny, HeapOf DEF Fresh
<1>2. SameKinds(nodes, nodes') /\ SameKinds(h, nodes') /\ o \in Seq(1..Len(h))
  BY <1>1 DEF SameKinds, Pointer
<1>3. Layered(nodes', o)
  BY <1>2, LayersStay
<1>4. o # <<>> => Last(o) \in 1..Len(h)
  BY <1>2, FrontIs
<1>5. nodes'[Fresh].t \in Statements => o = <<>> \/ nodes'[Last(o)].t \in Statements
  BY <1>1, <1>2, <1>4 DEF SameKinds
<1>6. Fresh \in 1..Len(h) + 1 /\ o \in Seq(1..Len(h) + 1)
  BY <1>1, <1>2, Grows DEF Stack
<1>7. Layered(nodes', operators')
  BY <1>3, <1>5, <1>6, LayersPush
<1> QED
  BY <1>2, <1>7, LayersStep

\* sub_expr takes off the top.
LEMMA ReducedLayers ==
  ASSUME TypeOK, Layered(nodes, operators), TopIs(operators, Reducible)
  PROVE  /\ SameKinds(nodes, Reduced.nodes) /\ Layered(Reduced.nodes, Reduced.operators)
         /\ Reduced.operators = Front(operators) /\ Reduced.operators \in Seq(Pointer)
         /\ WellFormed(Reduced.nodes) /\ Len(Reduced.nodes) = Len(nodes)
<1>1. SameKinds(nodes, Reduced.nodes)
  BY Facts DEF Reduced, SameKinds, Node
<1>2. Reduced.operators = Front(operators) /\ operators # <<>> /\ operators \in Seq(1..Len(nodes))
  BY Facts DEF Reduced, TopIs, Pointer
<1>3. Layered(nodes, Front(operators)) /\ Front(operators) \in Seq(1..Len(nodes))
  BY <1>2, LayersFront, FrontIs
<1> QED
  BY <1>1, <1>2, <1>3, LayersStay, ReducedType DEF Pointer

\* So sub_expr keeps the layers, or leaves.
LEMMA SubExprLayers ==
  ASSUME TypeOK, Layers, SubExpr, saved' = saved
  PROVE  Layers'
<1>1. CASE TopIs(operators, Reducible) /\ nodes' = Reduced.nodes /\ operators' = Reduced.operators
           /\ pc' = pc
  <2>1. /\ SameKinds(nodes, nodes') /\ Layered(nodes', operators')
        /\ operators' = Front(operators) /\ operators # <<>> /\ operators \in Seq(1..Len(nodes))
    BY <1>1, ReducedLayers, Facts DEF Layers, TopIs, Pointer
  <2>2. /\ \A i \in 1..Len(operators') : operators'[i] = operators[i] /\ i \in 1..Len(operators)
        /\ \A i \in 1..Len(operators) : operators[i] \in 1..Len(nodes)
    <3>1. /\ Len(operators) \in Nat \ {0} /\ Len(operators') = Len(operators) - 1
          /\ \A i \in 1..Len(operators) - 1 : operators'[i] = operators[i]
      BY <2>1, FrontIs
    <3>2. \A i \in 1..Len(operators) : operators[i] \in 1..Len(nodes)
      BY <2>1, ElementOfSeq
    <3> QED
      BY <3>1, <3>2
  <2> QED
    BY <1>1, <2>1, <2>2, LayersStep DEF Layers, SameKinds, TypeOf
<1>2. CASE ~ TopIs(operators, Reducible) /\ Stop("exit69")
  BY <1>2, LayersRest DEF Stop, SameKinds
<1> QED
  BY <1>1, <1>2 DEF SubExpr

\* The tokens that push a statement, an operator or a value.
LEMMA PushLayers ==
  ASSUME TypeOK, Layers, StatementsFirst,
         Ident \/ Integer \/ String \/ If \/ Else \/ While \/ Return
         \/ Assign \/ VarLocal \/ VarAssignment
  PROVE  Layers'
<1>1. /\ nodes \in Seq(Node) /\ WellFormed(nodes) /\ SameKinds(nodes, nodes)
      /\ operators \in Seq(Pointer) /\ Layered(nodes, operators)
      /\ \A node : SameKinds(nodes, Append(nodes, node))
  BY Facts, KindsAppend DEF SameKinds, Layers
<1>2. CASE Ident \/ Integer \/ String \/ VarLocal
  <2>1. (\E node : nodes' = Append(nodes, node)) /\ operators' = operators /\ saved' = saved /\ pc' = pc
    BY <1>2 DEF Ident, Integer, String, VarLocal, PushValue
  <2> QED
    BY <1>1, <2>1, LayersRest
<1>3. CASE If \/ Else \/ While \/ Return
  <2>1. /\ \E node : nodes' = Append(nodes, node)
        /\ operators' = Append(operators, Fresh) /\ saved' = saved /\ pc' = pc /\ pc = "parse"
        /\ Tok \in {"L_IF", "L_ELSE", "L_WHILE", "L_RETURN"}
    BY <1>3 DEF If, Else, While, Return, PushOperator, Reads
  <2>2. operators = <<>> \/ nodes[Last(operators)].t \in Statements
    BY <2>1 DEF StatementsFirst, TopIs, TypeOf
  <2> QED
    BY <1>1, <2>1, <2>2, LayersNew
<1>4. CASE Assign \/ VarAssignment
  <2>1. "A_ASSIGNMENT" \notin Statements /\ "A_DECL_ASSIGNMENT" \notin Statements
    BY StatementTypes
  <2>2. /\ \E node : nodes' = Append(nodes, node) /\ node.t \in {"A_ASSIGNMENT", "A_DECL_ASSIGNMENT"}
        /\ operators' = Append(operators, Fresh) /\ saved' = saved /\ pc' = pc /\ pc = "parse"
    <3>1. CASE Assign
      <4> DEFINE node == NewNode("A_ASSIGNMENT", "", <<Popped(values), Uninit>>)
      <4>1. node.t = "A_ASSIGNMENT"
        BY DEF NewNode
      <4>2. /\ nodes' = Append(nodes, node)
            /\ operators' = Append(operators, Fresh) /\ saved' = saved /\ pc' = pc /\ pc = "parse"
        BY <3>1 DEF Assign, Reads
      <4> HIDE DEF node
      <4> QED
        BY <4>1, <4>2
    <3>2. CASE VarAssignment
      BY <3>2 DEF VarAssignment, PushOperator, Reads, NewNode
    <3> QED
      BY <1>4, <3>1, <3>2
  <2> QED
    BY <1>1, <2>1, <2>2, LayersNew
<1> QED
  BY <1>2, <1>3, <1>4

\* A binary operator, after the one operator that may be finished before it.
LEMMA BinaryLayers == ASSUME TypeOK, Layers, Binary PROVE Layers'
<1> DEFINE t == BinaryNode[Tok]
           node == NewNode(t, "", <<Uninit, Uninit>>)
<1>1. t \in BinaryTypes /\ node.t \notin Statements
  <2>1. \A token \in DOMAIN BinaryNode : BinaryNode[token] \in BinaryTypes
    BY DEF BinaryNode, BinaryTypes
  <2>2. BinaryTypes \cap Statements = {}
    BY StatementTypes DEF BinaryTypes
  <2> QED
    BY <2>1, <2>2 DEF Binary, NewNode
<1>2. CASE Stop("exit69")
  BY <1>2, LayersRest DEF Stop, SameKinds
<1>3. CASE /\ Waits(t) /\ TopIs(operators, Reducible)
           /\ nodes' = Append(Reduced.nodes, node) /\ operators' = Append(Reduced.operators, Fresh)
           /\ saved' = saved /\ pc' = pc
  <2>1. pc = "parse"
    BY DEF Binary
  <2> HIDE DEF node
  <2> QED
    BY <1>1, <1>3, <2>1, ReducedLayers, LayersNew DEF Layers
<1>4. CASE /\ nodes' = Append(nodes, node) /\ operators' = Append(operators, Fresh)
           /\ saved' = saved /\ pc' = pc
  <2>1. pc = "parse" /\ SameKinds(nodes, nodes)
    BY DEF Binary, SameKinds
  <2> HIDE DEF node
  <2> QED
    BY <1>1, <1>4, <2>1, Facts, LayersNew DEF Layers
<1> QED
  BY <1>2, <1>3, <1>4 DEF Binary

\* `(' pushes the call, which is no statement, and the parenthesis.
LEMMA LParenLayers == ASSUME TypeOK, Layers, LParen PROVE Layers'
<1> DEFINE id == Last(values)
           h  == IF TopIs(values, {"A_IDENT"}) THEN [nodes EXCEPT ![id].t = "A_CALL"] ELSE nodes
           o  == IF TopIs(values, {"A_IDENT"}) THEN Append(operators, id) ELSE operators
           node == NewNode("A_OPEN_PAREN", "", <<>>)
<1>1. nodes' = Append(h, node) /\ operators' = Append(o, Fresh) /\ saved' = saved /\ pc' = pc /\ pc = "parse"
  BY DEF LParen, Reads
<1>2. /\ nodes \in Seq(Node) /\ WellFormed(nodes) /\ operators \in Seq(1..Len(nodes))
      /\ Layered(nodes, operators) /\ node.t \notin Statements
  BY Facts, StatementTypes DEF Layers, Pointer, NewNode
<1>3. WellFormed(h) /\ Len(h) = Len(nodes) /\ SameKinds(nodes, h) /\ o \in Seq(Pointer) /\ Layered(h, o)
  <2>1. CASE TopIs(values, {"A_IDENT"})
    <3> DEFINE named == [nodes[id] EXCEPT !.t = "A_CALL"]
    <3>1. id \in 1..Len(nodes) /\ nodes[id].t = "A_IDENT"
      BY <2>1, Facts, LastFront DEF TopIs, TypeOf, Pointer
    <3>2. nodes[id] \in Node /\ Joins(Len(nodes), nodes[id])
      BY <3>1, Facts DEF Pointer
    <3>3. named \in Node /\ named.kids = nodes[id].kids /\ named.t = "A_CALL"
      BY <3>2, LeafTypes DEF Node, Leaf
    <3>4. Joins(Len(nodes), named) /\ h = [nodes EXCEPT ![id] = named]
      BY <2>1, <3>2, <3>3 DEF Joins, Arity
    <3> HIDE DEF named, id, h
    <3>7. WellFormed(h) /\ Len(h) = Len(nodes)
      BY <1>2, <3>1, <3>4, HeapWrite
    <3>5. SameKinds(nodes, h) /\ h[id].t \notin Statements
      <4>1. "A_CALL" \notin Statements /\ "A_IDENT" \notin Statements
        BY StatementTypes
      <4>2. \A a \in 1..Len(nodes) : h[a] = IF a = id THEN named ELSE nodes[a]
        <5>1. nodes \in Seq(Node) /\ named \in Node /\ id \in 1..Len(nodes)
          BY <1>2, <3>1, <3>3
        <5>2. \A a \in 1..Len(nodes) :
                [nodes EXCEPT ![id] = named][a] = IF a = id THEN named ELSE nodes[a]
          BY <5>1, ExceptSeq
        <5> QED
          BY <3>4, <5>2
      <4> QED
        BY <3>1, <3>3, <4>1, <4>2 DEF SameKinds
    <3>6. Layered(h, operators) /\ o = Append(operators, id)
      BY <1>2, <2>1, <3>5, LayersStay DEF id
    <3>8. Layered(h, o) /\ o \in Seq(1..Len(nodes))
      BY <1>2, <3>1, <3>5, <3>6, LayersPush, AppendProperties
    <3> QED
      BY <3>5, <3>7, <3>8 DEF Pointer
  <2>2. CASE ~ TopIs(values, {"A_IDENT"})
    BY <1>2, <2>2 DEF SameKinds, Pointer
  <2> QED
    BY <2>1, <2>2
<1> HIDE DEF h, o, node
<1> QED
  BY <1>1, <1>2, <1>3, LayersNew

\* Under the parenthesis.
LEMMA UnderLayers ==
  ASSUME TypeOK, Layers
  PROVE  /\ Layered(nodes, Under) /\ Under \in Seq(1..Len(nodes))
         /\ Under # <<>> => Layered(nodes, Front(Under)) /\ Front(Under) \in Seq(1..Len(nodes))
                            /\ Last(Under) \in 1..Len(nodes)
         /\ \A i \in 1..Len(Under) : Under[i] = operators[i] /\ i \in 1..Len(operators)
         /\ Under # <<>> => \A i \in 1..Len(Front(Under)) :
                              Front(Under)[i] = operators[i] /\ i \in 1..Len(operators)
<1>1. operators \in Seq(1..Len(nodes)) /\ Layered(nodes, operators)
  BY Facts DEF Layers, Pointer
<1>2. /\ Layered(nodes, Under) /\ Under \in Seq(1..Len(nodes))
      /\ \A i \in 1..Len(Under) : Under[i] = operators[i] /\ i \in 1..Len(operators)
  <2>1. CASE operators = <<>>
    BY <1>1, <2>1 DEF Under, Rest
  <2>2. CASE operators # <<>>
    <3>1. Under = Front(operators)
      BY <2>2 DEF Under, Rest
    <3> QED
      BY <1>1, <2>2, <3>1, LayersFront, FrontIs
  <2> QED
    BY <2>1, <2>2
<1>3. ASSUME Under # <<>>
      PROVE  /\ Layered(nodes, Front(Under)) /\ Front(Under) \in Seq(1..Len(nodes))
             /\ Last(Under) \in 1..Len(nodes)
             /\ \A i \in 1..Len(Front(Under)) : Front(Under)[i] = Under[i] /\ i \in 1..Len(Under)
  <2>1. /\ Front(Under) \in Seq(1..Len(nodes)) /\ Last(Under) \in 1..Len(nodes)
        /\ Len(Under) \in Nat \ {0} /\ Len(Front(Under)) = Len(Under) - 1
        /\ \A i \in 1..Len(Under) - 1 : Front(Under)[i] = Under[i]
    BY <1>2, <1>3, FrontIs
  <2>2. Layered(nodes, Front(Under))
    BY <1>2, <1>3, LayersFront
  <2> QED
    BY <2>1, <2>2
<1> QED
  BY <1>2, <1>3

\* `)' finishes operators down to the parenthesis and takes it off, with its call.
LEMMA RParenLayers ==
  ASSUME TypeOK, Layers,
         RParenReduce \/ RParenGroup \/ RParenCond \/ RParenCall \/ RParenOverrun \/ RParenNoCall
  PROVE  Layers'
<1>1. /\ nodes \in Seq(Node) /\ SameKinds(nodes, nodes)
      /\ \A node : SameKinds(nodes, Append(nodes, node))
      /\ \A id, k, kid : SameKinds(nodes, SetKid(nodes, id, k, kid))
  BY Facts, KindsAppend, KindsSetKid DEF SameKinds
<1>2. CASE RParenReduce
  BY <1>2, SubExprLayers DEF RParenReduce, SubExpr, Stop
<1>3. CASE RParenGroup \/ RParenCond
  <2>1. /\ operators' = Under /\ saved' = saved /\ pc' = "parse"
        /\ SameKinds(nodes, nodes')
    BY <1>1, <1>3 DEF RParenGroup, RParenCond, ParenCloses, Reads
  <2> QED
    BY <2>1, UnderLayers, LayersStay, LayersStep
<1>4. CASE RParenCall
  <2>1. /\ operators' = Front(Under) /\ Under # <<>> /\ saved' = saved /\ pc' = "parse"
        /\ SameKinds(nodes, nodes')
    BY <1>1, <1>4 DEF RParenCall, ParenCloses, Reads, TopIs
  <2> QED
    BY <2>1, UnderLayers, LayersStay, LayersStep
<1>5. CASE RParenOverrun \/ RParenNoCall
  BY <1>1, <1>5, LayersRest DEF RParenOverrun, RParenNoCall, Stop
<1> QED
  BY <1>2, <1>3, <1>4, <1>5

\* A statement on top: everything under it is one.
LEMMA AllStatements ==
  ASSUME TypeOK, Layers, TopIs(operators, Statements)
  PROVE  \A i \in 1..Len(operators) : nodes[operators[i]].t \in Statements
<1>1. /\ operators # <<>> /\ Len(operators) \in Nat \ {0}
      /\ nodes[operators[Len(operators)]].t \in Statements
  BY Facts, FrontIs DEF TopIs, TypeOf
<1> QED
  BY <1>1 DEF Layers, Layered

\* The loop of a semicolon.
LEMMA CloseLayers ==
  ASSUME TypeOK, Layers, CloseCond \/ CloseReturn \/ CloseElse
  PROVE  Layers'
<1>1. TopIs(operators, Statements) /\ operators # <<>> /\ operators \in Seq(1..Len(nodes))
  BY Facts DEF CloseCond, CloseReturn, CloseElse, CloseStatement, StatementWaits, TopIs, Pointer
<1>2. /\ \A i \in 1..Len(operators) : nodes[operators[i]].t \in Statements
      /\ \A i \in 1..Len(operators) : operators[i] \in 1..Len(nodes)
  BY <1>1, AllStatements, ElementOfSeq
<1>3. /\ nodes \in Seq(Node) /\ Under = Front(operators)
      /\ \A id, k, kid : SameKinds(nodes, SetKid(nodes, id, k, kid))
  BY <1>1, Facts, KindsSetKid DEF Under, Rest
<1>4. ASSUME SameKinds(nodes, nodes'), saved' = saved,
             operators' = Under \/ (Under # <<>> /\ operators' = Front(Under))
      PROVE  Layers'
  <2>1. Layered(nodes, operators') /\ operators' \in Seq(1..Len(nodes))
    BY <1>4, UnderLayers
  <2>2. Layered(nodes', operators')
    BY <1>4, <2>1, LayersStay
  <2>3. \A i \in 1..Len(operators') : operators'[i] = operators[i] /\ i \in 1..Len(operators)
    BY <1>4, UnderLayers
  <2>4. \A i \in 1..Len(operators') : nodes'[operators'[i]].t \in Statements
    BY <1>2, <1>4, <2>3 DEF SameKinds
  <2> QED
    BY <1>4, <2>2, <2>4, LayersStep
<1>5. CASE CloseCond \/ CloseReturn
  BY <1>3, <1>4, <1>5 DEF CloseCond, CloseReturn, CloseStatement
<1>6. CASE CloseElse
  <2>1. CASE Stop(IF Under = <<>> THEN "segv" ELSE "corrupt")
    BY <2>1, LayersRest DEF Stop, SameKinds
  <2>3. TopIs(Under, {"A_COND", "A_DECL_ASSIGNMENT"}) => TypeOf(Last(Under)) = "A_COND"
    <3>1. Under # <<>> => /\ Last(Under) = operators[Len(operators) - 1]
                          /\ Len(operators) - 1 \in 1..Len(operators)
      <4>1. /\ Len(operators) \in Nat \ {0} /\ Under \in Seq(1..Len(nodes))
            /\ Len(Under) = Len(operators) - 1
            /\ \A i \in 1..Len(operators) - 1 : Under[i] = operators[i]
        BY <1>1, <1>3, FrontIs
      <4>2. Under # <<>> => Len(Under) \in Nat \ {0} /\ Last(Under) = Under[Len(Under)]
        BY <4>1, FrontIs
      <4> QED
        BY <4>1, <4>2
    <3>2. Under # <<>> => TypeOf(Last(Under)) \in Statements
      BY <1>2, <3>1 DEF TypeOf
    <3> QED
      BY <3>2, StatementTypes DEF TopIs
  <2>2. CASE /\ TopIs(Under, {"A_COND"}) /\ operators' = Front(Under) /\ saved' = saved
             /\ nodes' = SetKid(SetKid(nodes, Last(Under), 2, Popped(Rest(values))),
                                Last(Under), 3, Popped(values))
    <3> DEFINE h == SetKid(nodes, Last(Under), 2, Popped(Rest(values)))
    <3>1. Last(Under) \in 1..Len(nodes) /\ Under # <<>> /\ WellFormed(nodes)
      BY <2>2, UnderLayers, Facts DEF TopIs
    <3>2. Popped(Rest(values)) \in Child(Len(nodes))
      BY Facts, Pop DEF Child, Pointer
    <3>3. WellFormed(h) /\ Len(h) = Len(nodes) /\ SameKinds(nodes, h)
      BY <1>3, <3>1, <3>2, HeapWriteKid
    <3>4. h \in Seq(Node)
      BY <3>3, HeapOf
    <3> HIDE DEF h
    <3>5. SameKinds(h, nodes')
      BY <2>2, <3>4, KindsSetKid DEF h
    <3>6. SameKinds(nodes, nodes')
      BY <3>3, <3>5 DEF SameKinds
    <3> QED
      BY <1>4, <2>2, <3>1, <3>6
  <2> QED
    BY <1>6, <2>1, <2>2, <2>3 DEF CloseElse, TakesBlocks, TopIs
<1> QED
  BY <1>5, <1>6

\* Every other step of a semicolon.
LEMMA SemicolonLayers ==
  ASSUME TypeOK, Layers, SemiReduce \/ SemiClosed \/ SemiVoid
  PROVE  Layers'
<1>1. /\ nodes \in Seq(Node) /\ SameKinds(nodes, nodes)
      /\ \A node : SameKinds(nodes, Append(nodes, node))
  BY Facts, KindsAppend DEF SameKinds
<1>2. CASE SemiReduce
  BY <1>2, SubExprLayers DEF SemiReduce, SubExpr, Stop
<1>3. CASE SemiClosed
  BY <1>1, <1>3, LayersRest DEF SemiClosed
<1>4. CASE SemiVoid
  BY <1>1, <1>4, LayersRest DEF SemiVoid, Stop, PushValue
<1> QED
  BY <1>2, <1>3, <1>4

\* Blocks put the layers aside and take them back.
LEMMA BlockLayers == ASSUME TypeOK, Layers, OpenBlock \/ CloseBlock \/ EndBody PROVE Layers'
<1>1. /\ nodes \in Seq(Node) /\ SameKinds(nodes, nodes)
      /\ \A node : SameKinds(nodes, Append(nodes, node))
      /\ saved \in Seq([values : Seq(Pointer), operators : Seq(Pointer)])
  BY Facts, KindsAppend DEF SameKinds, TypeOK
<1>2. CASE OpenBlock
  <2> DEFINE top == [values |-> values, operators |-> operators]
  <2>1. /\ saved' = Append(saved, top) /\ operators' = <<>> /\ nodes' = nodes /\ pc' = "parse"
    BY <1>2 DEF OpenBlock, Reads
  <2>2. top \in [values : Seq(Pointer), operators : Seq(Pointer)]
    BY Facts
  <2>3. /\ Len(saved') = Len(saved) + 1 /\ saved'[Len(saved) + 1] = top /\ Len(saved) \in Nat
        /\ \A k \in 1..Len(saved) : saved'[k] = saved[k]
    BY <1>1, <2>1, <2>2, AppendProperties, LenProperties
  <2>4. \A k \in 1..Len(saved') : k \in 1..Len(saved) \/ k = Len(saved) + 1
    BY <2>3
  <2>5. \A k \in 1..Len(saved') : Layered(nodes, saved'[k].operators)
    BY <2>3, <2>4 DEF Layers
  <2> QED
    BY <2>1, <2>5 DEF Layers, Layered
<1>3. CASE CloseBlock
  <2>1. CASE Stop("segv")
    BY <1>1, <2>1, LayersRest DEF Stop
  <2>2. CASE /\ \E node : nodes' = Append(nodes, node)
             /\ operators' = Last(saved).operators /\ saved' = Front(saved) /\ pc' = pc
    <3>1. pc' = "parse" /\ saved # <<>>
      BY <1>3, <2>2 DEF CloseBlock, Reads
    <3>2. /\ Len(saved) \in Nat \ {0} /\ Last(saved) = saved[Len(saved)]
          /\ Len(saved') = Len(saved) - 1 /\ \A k \in 1..Len(saved) - 1 : saved'[k] = saved[k]
      BY <1>1, <2>2, <3>1, FrontIs
    <3>3. \A k \in 1..Len(saved) : saved[k].operators \in Seq(1..Len(nodes))
      <4>1. \A k \in 1..Len(saved) : saved[k] \in [values : Seq(Pointer), operators : Seq(Pointer)]
        BY <1>1, ElementOfSeq
      <4> QED
        BY <4>1 DEF Pointer
    <3>4. \A k \in 1..Len(saved) : Layered(nodes', saved[k].operators)
      BY <1>1, <2>2, <3>3, LayersStay DEF Layers
    <3> QED
      BY <2>2, <3>1, <3>2, <3>4 DEF Layers
  <2> QED
    BY <1>3, <2>1, <2>2 DEF CloseBlock
<1>4. CASE EndBody
  BY <1>1, <1>4, LayersRest DEF EndBody, Stop
<1> QED
  BY <1>2, <1>3, <1>4

\* Every step keeps the layers.
LEMMA StepLayers == TypeOK /\ Layers /\ StatementsFirst /\ [Next]_vars => Layers'
<1> SUFFICES ASSUME TypeOK, Layers, StatementsFirst, [Next]_vars PROVE Layers'
  OBVIOUS
<1>1. CASE \/ Ident \/ Integer \/ String \/ If \/ Else \/ While \/ Return
           \/ Assign \/ VarLocal \/ VarAssignment
  BY <1>1, PushLayers
<1>2. CASE Binary
  BY <1>2, BinaryLayers
<1>3. CASE LParen
  BY <1>3, LParenLayers
<1>4. CASE RParenReduce \/ RParenGroup \/ RParenCond \/ RParenCall \/ RParenOverrun \/ RParenNoCall
  BY <1>4, RParenLayers
<1>5. CASE SemiReduce \/ SemiClosed \/ SemiVoid
  BY <1>5, SemicolonLayers
<1>6. CASE CloseCond \/ CloseReturn \/ CloseElse
  BY <1>6, CloseLayers
<1>7. CASE OpenBlock \/ CloseBlock \/ EndBody
  BY <1>7, BlockLayers
<1>8. CASE VarPanic \/ Skip \/ EndOfText \/ UNCHANGED vars
  BY <1>8, LayersRest DEF VarPanic, Skip, EndOfText, Stop, vars, SameKinds
<1> QED
  BY <1>1, <1>2, <1>3, <1>4, <1>5, <1>6, <1>7, <1>8 DEF Next

\* Only two actions consume a semicolon: the one that finds no operator, and the
\* one that ends the loop over the statements.
LEMMA SemicolonEnds ==
  TypeOK /\ Layers /\ [Next]_vars => (Tok = "L_SEMICOLON" /\ at' # at => operators' = <<>>)
<1> SUFFICES ASSUME TypeOK, Layers, [Next]_vars, Tok = "L_SEMICOLON", at' # at
             PROVE  operators' = <<>>
  OBVIOUS
<1>1. CASE SemiClosed
  <2>1. pc = "closing" /\ ~ TopIs(operators, Statements) /\ operators' = operators
    BY <1>1 DEF SemiClosed
  <2>2. operators # <<>> => /\ Len(operators) \in 1..Len(operators)
                            /\ Last(operators) = operators[Len(operators)]
    <3>1. operators \in Seq(Pointer)
      BY Facts
    <3>2. operators # <<>> => Len(operators) \in Nat \ {0} /\ Last(operators) = operators[Len(operators)]
      BY <3>1, FrontIs
    <3> QED
      BY <3>2
  <2>3. operators # <<>> => TypeOf(Last(operators)) \in Statements
    BY <2>1, <2>2 DEF Layers
  <2> QED
    BY <2>1, <2>3 DEF TopIs
<1>2. CASE SemiVoid
  BY <1>2 DEF SemiVoid, Stop, PushValue
<1>3. CASE SemiReduce \/ CloseCond \/ CloseReturn \/ CloseElse
  BY <1>3 DEF SemiReduce, SubExpr, Stop, CloseCond, CloseReturn, CloseStatement, CloseElse
<1>4. CASE Binary
  BY <1>4 DEF Binary, BinaryNode
<1>5. CASE \/ Ident \/ Integer \/ String \/ If \/ Else \/ While \/ Return
           \/ Assign \/ VarLocal \/ VarAssignment \/ VarPanic \/ LParen
           \/ OpenBlock \/ CloseBlock \/ EndBody \/ Skip \/ EndOfText
  BY <1>5 DEF Ident, Integer, String, If, Else, While, Return, Assign, VarLocal, VarAssignment,
     VarPanic, LParen, OpenBlock, CloseBlock, EndBody, Skip, EndOfText, Reads
<1>6. CASE RParenReduce \/ RParenGroup \/ RParenCond \/ RParenCall \/ RParenOverrun \/ RParenNoCall
  BY <1>6 DEF RParenReduce, RParenGroup, RParenCond, RParenCall, RParenOverrun, RParenNoCall,
     ParenCloses, Reads
<1>7. CASE UNCHANGED vars
  BY <1>7 DEF vars
<1> QED
  BY <1>1, <1>2, <1>3, <1>4, <1>5, <1>6, <1>7 DEF Next

\* A semicolon leaves no operator behind, in every program whose statements
\* begin where no operator of an expression waits.
THEOREM ParserSemicolonTerminates == Spec /\ []StatementsFirst => SemicolonTerminates
<1> DEFINE Inv == TypeOK /\ Layers
<1>1. Init => Inv
  BY InitType DEF Init, Layers, Layered
<1>2. Inv /\ StatementsFirst /\ [Next]_vars => Inv'
  BY StepType, StepLayers
<1>3. Inv /\ [Next]_vars => (Tok = "L_SEMICOLON" /\ at' # at => operators' = <<>>)
  BY SemicolonEnds
<1> QED
  BY <1>1, <1>2, <1>3, PTL DEF Spec, SemicolonTerminates
===============================================================================
