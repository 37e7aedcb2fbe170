--------------------------- MODULE DeclarationsProofs ---------------------------
(***************************************************************************)
(* A whole file: parse_top_level and parse_type keep the registry of types *)
(* in order around the steps of the body parser, and the parameters they   *)
(* push keep the heap a forest, for every file, ill-formed ones included;  *)
(* what ParserProofs says of semicolons in a body holds in a file.         *)
(***************************************************************************)
EXTENDS Declarations, ParserProofs, WellFoundedInduction

\* A type_info, a call that reads one, a type and a symbol name types of the
\* registry, `ids'.
TypeInfo(ids)   == [args : Seq(ids), result : ids]
Sig(ids, added) == [type : added, args : Seq(ids), result : BOOLEAN]
Type(ids)       == [name : Lexemes, info : Seq(TypeInfo(ids))]
Symbol(ids)     == [name : Lexemes, exported : BOOLEAN, type : ids]
Block(ids) ==
  [name : Lexemes, exported : BOOLEAN, type : ids, body : Seq(Int), literals : Nat]

\* The body parser's variables have their types, whatever the stage is.
HeapTypes ==
  /\ program.params \in Seq(Lexemes) /\ program.text \in Seq(Token)
  /\ at \in Nat
  /\ Typed(nodes, values, operators, saved)
  /\ strings \in Seq(Pointer) /\ body \in Seq(Pointer)

\* So do those of the registry and of the declarations.
RegistryTypes ==
  /\ types \in Seq(Type(TypeId))
  /\ symbol \in Symbol(TypeId)
  /\ sigs \in Seq(Sig(TypeId, Added))
  /\ typeid \in TypeId
  /\ symbols \in Seq(Block(TypeId))

\* Every signature under way reads a type of its own, and exactly their types
\* miss their type_info.
Pending ==
  /\ \A i, j \in 1..Len(sigs) : sigs[i].type = sigs[j].type => i = j
  /\ \A k \in 1..Len(types) :
       types[k].info = <<>> <=>
         \E i \in 1..Len(sigs) : sigs[i].type = Len(Registered) + k - 1

\* parse_type reads parameters only in a call that reads a signature.
Reading == pc = "params" => sigs # <<>>

\* The bodies of the finished functions are stacks of nodes, and with the stacks
\* in use they hold no node twice.
Finishing == FinishedBodies \in Seq(Stack(Len(nodes)))
Heap      == HeapTypes /\ Finishing /\ Forest(BodyStacks(FinishedBodies))

FileInv ==
  /\ Heap
  /\ TypeCount =< TypesCap
  /\ RegistryTypes /\ Pending /\ Reading

-----------------------------------------------------------------------------
\* There are thirteen types before the first one of the program.
LEMMA Thirteen == Len(Registered) = 13
  BY DEF Registered

\* A set of numbers that is not empty has a least one.
LEMMA LeastNumber ==
  ASSUME NEW T, T \subseteq Nat, T # {}
  PROVE  \E x \in T : \A y \in T : x =< y
<1> DEFINE less == {e \in Nat \X Nat : e[1] < e[2]}
<1>1. IsWellFoundedOn(less, Nat)
  <2>1. less = OpToRel(<, Nat)
    BY DEF OpToRel
  <2> QED
    BY <2>1, NatLessThanWellFounded
<1>2. \A x, y \in Nat : <<x, y>> \in less <=> x < y
  OBVIOUS
<1> HIDE DEF less
<1>3. PICK x \in T : \A y \in T : ~ (<<y, x>> \in less)
  BY <1>1, WFMin
<1>4. x \in Nat /\ x \in T
  BY <1>3
<1>5. ASSUME NEW y \in T PROVE x =< y
  <2>1. y \in Nat /\ ~ (<<y, x>> \in less)
    BY <1>3, <1>5
  <2>2. ~ (y < x)
    BY <1>2, <1>4, <2>1
  <2> QED
    BY <1>4, <2>1, <2>2
<1> QED
  BY <1>4, <1>5

\* get_type_for_name answers a type of the registry.
LEMMA FirstIsOne ==
  ASSUME TypeCount \in Nat, NEW name, WithName(name) # {}
  PROVE  FirstOf(name) \in TypeId
<1>1. WithName(name) \subseteq TypeId /\ WithName(name) \subseteq Nat
  BY DEF WithName, TypeId
<1>2. \E id \in WithName(name) : \A other \in WithName(name) : id =< other
  BY <1>1, LeastNumber
<1> QED
  BY <1>1, <1>2 DEF FirstOf

\* The tokens the header looks at.
LEMMA HeaderLookahead ==
  ASSUME HeapTypes, NEW k \in Nat \ {0}
  PROVE  Peek(k) \in Token
<1>1. at \in Nat /\ program.text \in Seq(Token)
  BY DEF HeapTypes
<1>2. CASE at + k <= Len(program.text)
  BY <1>1, <1>2, ElementOfSeq, LenProperties DEF Peek
<1>3. CASE ~ at + k <= Len(program.text)
  BY <1>3, LexemesAssumption DEF Peek, Token, TokenTypes
<1> QED
  BY <1>2, <1>3

\* Bodies put aside are stacks put aside.
LEMMA BodiesAside ==
  ASSUME NEW n, NEW bs \in Seq(Stack(n))
  PROVE  BodyStacks(bs) \in Saved(n)
<1>1. DOMAIN bs = 1..Len(bs) /\ Len(bs) \in Nat /\ \A k \in 1..Len(bs) : bs[k] \in Stack(n)
  BY LenProperties, ElementOfSeq
<1>2. <<>> \in Stack(n)
  BY EmptySeq DEF Stack
<1>3. \A k \in 1..Len(bs) : BodyStack(bs[k]) \in [values : Stack(n), operators : Stack(n)]
  BY <1>1, <1>2 DEF BodyStack
<1>4. BodyStacks(bs) \in [1..Len(bs) -> [values : Stack(n), operators : Stack(n)]]
  BY <1>1, <1>3 DEF BodyStacks
<1> QED
  <2> DEFINE Two == [values : Stack(n), operators : Stack(n)]
             m == Len(bs)
             f == BodyStacks(bs)
  <2>1. m \in Nat /\ f \in [1..m -> Two]
    BY <1>1, <1>4
  <2> HIDE DEF Two, m, f
  <2>2. f \in Seq(Two)
    BY <2>1, SeqDef
  <2> QED
    BY <2>2 DEF Saved, Two, f

\* A function of the elements of a sequence, when one more is appended.
LEMMA MapAppend ==
  ASSUME NEW S, NEW s \in Seq(S), NEW x \in S, NEW T, NEW f \in Seq(T), NEW y \in T,
         NEW g, g \in [1..Len(s) + 1 -> T], Len(f) = Len(s),
         \A k \in 1..Len(s) : g[k] = f[k], g[Len(s) + 1] = y
  PROVE  g = Append(f, y)
<1>1. Len(s) \in Nat /\ \A k \in 1..Len(s) + 1 : k = Len(s) + 1 \/ k \in 1..Len(s)
  BY LenProperties
<1>2. /\ Append(f, y) \in Seq(T) /\ Len(Append(f, y)) = Len(s) + 1
      /\ Append(f, y)[Len(s) + 1] = y /\ \A k \in 1..Len(s) : Append(f, y)[k] = f[k]
  BY AppendProperties
<1>3. Append(f, y) \in [1..Len(s) + 1 -> T]
  BY <1>2, LenProperties
<1> DEFINE h == Append(f, y)
           n == Len(s) + 1
<1> HIDE DEF h
<1>4. \A k \in 1..n : g[k] = h[k]
  BY <1>1, <1>2 DEF h
<1>5. g \in [1..n -> T] /\ h \in [1..n -> T]
  BY <1>3 DEF h
<1> HIDE DEF n
<1>6. g = h
  <2>1. g = [k \in 1..n |-> g[k]] /\ h = [k \in 1..n |-> h[k]]
    BY <1>5
  <2>2. [k \in 1..n |-> g[k]] = [k \in 1..n |-> h[k]]
    BY <1>4
  <2> QED
    BY <2>1, <2>2
<1> QED
  BY <1>6 DEF h

\* One more function is finished, and one more body is put aside.
BodiesOf(ss) == [s \in DOMAIN ss |-> ss[s].body]
LEMMA OneMoreBody ==
  ASSUME NEW ids, NEW ss \in Seq(Block(ids)), NEW new \in Block(ids)
  PROVE  /\ BodiesOf(Append(ss, new)) = Append(BodiesOf(ss), new.body)
         /\ BodyStacks(BodiesOf(Append(ss, new))) = Append(BodyStacks(BodiesOf(ss)), BodyStack(new.body))
<1> DEFINE bs == BodiesOf(ss)
           cs == BodiesOf(Append(ss, new))
           n == Len(ss)
           b == new.body
           Two == [values : Seq(Int), operators : Seq(Int)]
<1>1. n \in Nat /\ DOMAIN ss = 1..n /\ \A k \in 1..n : ss[k].body \in Seq(Int)
  <2>1. \A k \in 1..n : ss[k] \in Block(ids)
    BY ElementOfSeq
  <2> QED
    BY <2>1, LenProperties DEF Block
<1>2. /\ DOMAIN Append(ss, new) = 1..n+1 /\ Append(ss, new)[n + 1] = new
      /\ \A k \in 1..n : Append(ss, new)[k] = ss[k]
  BY AppendProperties, LenProperties
<1>3. b \in Seq(Int) /\ <<>> \in Seq(Int)
  BY EmptySeq DEF Block
<1>4. bs \in Seq(Seq(Int)) /\ Len(bs) = n /\ DOMAIN bs = 1..n
  <2>1. bs \in [1..n -> Seq(Int)]
    BY <1>1 DEF BodiesOf
  <2>2. bs \in Seq(Seq(Int))
    BY <1>1, <2>1, SeqDef
  <2> QED
    BY <1>1, <2>1, <2>2, LenProperties
<1>5. /\ cs \in [1..n+1 -> Seq(Int)] /\ cs[n + 1] = b
      /\ \A k \in 1..n : cs[k] = bs[k]
  <2>1. /\ cs = [s \in 1..n+1 |-> Append(ss, new)[s].body]
        /\ bs = [s \in 1..n |-> ss[s].body]
    BY <1>1, <1>2 DEF BodiesOf
  <2>2. \A k \in 1..n+1 : k = n + 1 \/ k \in 1..n
    BY <1>1
  <2>3. \A k \in 1..n+1 : Append(ss, new)[k].body \in Seq(Int)
    BY <1>1, <1>2, <1>3, <2>2
  <2>4. n + 1 \in 1..n+1 /\ \A k \in 1..n : k \in 1..n+1
    BY <1>1
  <2> QED
    BY <1>1, <1>2, <2>1, <2>3, <2>4
<1> HIDE DEF n, b, bs, cs
<1>6. cs = Append(bs, b)
  BY <1>3, <1>4, <1>5, MapAppend DEF n
<1>7. \A c \in Seq(Int) : BodyStack(c) \in Two
  BY <1>3 DEF BodyStack
<1> HIDE DEF Two
<1>8. BodyStacks(bs) \in Seq(Two) /\ Len(BodyStacks(bs)) = n
  <2>1. BodyStacks(bs) \in [1..n -> Two]
    BY <1>4, <1>7, ElementOfSeq DEF BodyStacks
  <2>2. BodyStacks(bs) \in Seq(Two)
    BY <1>1, <2>1, SeqDef DEF n
  <2> QED
    BY <1>1, <2>1, <2>2, LenProperties DEF n
<1>9. /\ BodyStacks(cs) \in [1..n+1 -> Two] /\ BodyStacks(cs)[n + 1] = BodyStack(b)
      /\ \A k \in 1..n : BodyStacks(cs)[k] = BodyStacks(bs)[k]
  <2>1. n + 1 \in 1..n+1 /\ \A k \in 1..n : k \in 1..n+1
    BY <1>1 DEF n
  <2>2. BodyStacks(cs) = [k \in 1..n+1 |-> BodyStack(cs[k])]
        /\ BodyStacks(bs) = [k \in 1..n |-> BodyStack(bs[k])]
    BY <1>4, <1>5 DEF BodyStacks
  <2>3. \A k \in 1..n+1 : BodyStack(cs[k]) \in Two
    BY <1>5, <1>7
  <2>4. BodyStacks(cs) \in [1..n+1 -> Two]
    <3> HIDE DEF BodyStack
    <3> QED
      BY <2>2, <2>3
  <2>5. /\ \A k \in 1..n+1 : BodyStacks(cs)[k] = BodyStack(cs[k])
        /\ \A k \in 1..n : BodyStacks(bs)[k] = BodyStack(bs[k])
    <3> HIDE DEF BodyStack
    <3> QED
      BY <2>2
  <2>6. BodyStacks(cs)[n + 1] = BodyStack(b)
    BY <1>5, <2>1, <2>5, Zenon
  <2>7. ASSUME NEW k \in 1..n PROVE BodyStacks(cs)[k] = BodyStacks(bs)[k]
    <3>1. BodyStacks(cs)[k] = BodyStack(cs[k]) /\ BodyStacks(bs)[k] = BodyStack(bs[k])
      BY <2>1, <2>5, Zenon
    <3>2. cs[k] = bs[k]
      BY <1>5, Zenon
    <3> QED
      BY <3>1, <3>2, Zenon
  <2> QED
    BY <2>4, <2>6, <2>7
<1>10. BodyStacks(cs) = Append(BodyStacks(bs), BodyStack(b))
  <2> DEFINE f == BodyStacks(bs)
             g == BodyStacks(cs)
             y == BodyStack(b)
  <2>1. /\ f \in Seq(Two) /\ Len(f) = n /\ y \in Two
        /\ g \in [1..n + 1 -> Two] /\ g[n + 1] = y /\ \A k \in 1..n : g[k] = f[k]
    BY <1>3, <1>7, <1>8, <1>9
  <2> HIDE DEF f, g, y
  <2>2. g = Append(f, y)
    BY <2>1, MapAppend DEF n
  <2> QED
    BY <2>2 DEF f, g, y
<1> QED
  BY <1>6, <1>10 DEF b, bs, cs

-----------------------------------------------------------------------------
\* A handler that writes nodes leaves all of them there; others add one.
LEMMA OneMore ==
  ASSUME NEW h \in Seq(Node), NEW g, g \in [DOMAIN h -> Node], NEW node
  PROVE  Len(Append(g, node)) = Len(h) + 1 /\ Len(h) \in Nat
<1>1. g \in Seq(Node) /\ Len(g) = Len(h) /\ Len(h) \in Nat
  BY LenProperties, SeqDef
<1>2. g \in Seq(Node \cup {node}) /\ node \in Node \cup {node}
  BY <1>1, SeqMonotonic
<1> QED
  BY <1>1, <1>2, AppendProperties

\* No step of a body takes a node away.
LEMMA NodesStay ==
  ASSUME TypeOK, TypeOK', Next
  PROVE  Len(nodes) \in Nat /\ Len(nodes') \in Nat /\ Len(nodes) =< Len(nodes')
<1>1. /\ nodes \in Seq(Node) /\ Len(nodes) \in Nat /\ DOMAIN nodes = 1..Len(nodes)
      /\ nodes' \in Seq(Node) /\ Len(nodes') \in Nat /\ DOMAIN nodes' = 1..Len(nodes')
  <2>1. nodes \in Seq(Node) /\ nodes' \in Seq(Node)
    BY DEF TypeOK, WellFormed
  <2> QED
    BY <2>1, LenProperties
<1> DEFINE m == Len(nodes)
           l == Len(nodes')
<1>0. m \in Nat /\ l \in Nat
  BY <1>1
<1> HIDE DEF m, l
<1> SUFFICES l = m \/ l = m + 1
  BY <1>0 DEF m, l
<1> USE DEF m, l
<1>2. DOMAIN nodes' = DOMAIN nodes => Len(nodes') = Len(nodes)
  <2>1. \A i, j \in Nat : 1..i = 1..j => i = j
    <3> SUFFICES ASSUME NEW i \in Nat, NEW j \in Nat, 1..i = 1..j PROVE i = j
      OBVIOUS
    <3>1. \A k \in Int : k \in 1..i <=> k \in 1..j
      OBVIOUS
    <3>2. (i > 0 => i \in 1..j) /\ (j > 0 => j \in 1..i)
      BY <3>1
    <3> QED
      BY <3>2
  <2> QED
    BY <1>1, <2>1
<1>3. ASSUME NEW node, nodes' = Append(nodes, node) PROVE Len(nodes') = Len(nodes) + 1
  <2>1. nodes \in [DOMAIN nodes -> Node]
    BY <1>1
  <2> QED
    BY <1>1, <1>3, <2>1, OneMore
<1>4. ASSUME SubExpr \/ RParenCond \/ CloseCond \/ CloseReturn
      PROVE  DOMAIN nodes' = DOMAIN nodes
  BY <1>4 DEF SubExpr, Stop, RParenCond, CloseCond, CloseReturn, CloseStatement, Reduced, SetKid
<1>5. ASSUME CloseElse PROVE DOMAIN nodes' = DOMAIN nodes
  BY <1>5 DEF CloseElse, Stop, TakesBlocks, SetKid
<1>6. ASSUME \/ RParenReduce \/ RParenGroup \/ RParenOverrun \/ RParenNoCall
             \/ SemiReduce \/ SemiClosed \/ VarPanic \/ OpenBlock \/ EndBody \/ Skip \/ EndOfText
      PROVE  DOMAIN nodes' = DOMAIN nodes
  BY <1>4, <1>6 DEF RParenReduce, RParenGroup, RParenOverrun, RParenNoCall, SemiReduce, SemiClosed,
     VarPanic, OpenBlock, EndBody, Skip, EndOfText, Stop, vars
<1>7. ASSUME \/ Ident \/ Integer \/ String \/ If \/ Else \/ While \/ Return \/ Assign
             \/ VarLocal \/ VarAssignment \/ RParenCall \/ SemiVoid \/ CloseBlock
      PROVE  nodes' = nodes \/ \E node : nodes' = Append(nodes, node)
  BY <1>7 DEF Ident, Integer, String, If, Else, While, Return, Assign, VarLocal, VarAssignment,
     RParenCall, SemiVoid, CloseBlock, PushValue, PushOperator, Stop
<1>8. CASE LParen
  <2> DEFINE heap == [nodes EXCEPT ![Last(values)].t = "A_CALL"]
  <2>1. \E node : nodes' = Append(nodes, node)
                  \/ (TopIs(values, {"A_IDENT"}) /\ nodes' = Append(heap, node))
    BY <1>8 DEF LParen
  <2>2. TopIs(values, {"A_IDENT"}) => heap \in [DOMAIN nodes -> Node]
    <3>1. ASSUME TopIs(values, {"A_IDENT"}) PROVE heap \in [DOMAIN nodes -> Node]
      <4>1. nodes[Last(values)] \in Node /\ Last(values) \in DOMAIN nodes
        BY <1>1, <3>1, Facts, LastFront DEF TopIs, Pointer
      <4>2. [nodes[Last(values)] EXCEPT !.t = "A_CALL"] \in Node
        <5>1. "A_CALL" \in AstTypes
          BY DEF AstTypes, Prec
        <5> QED
          BY <4>1, <5>1 DEF Node
      <4> QED
        BY <1>1, <4>1, <4>2
    <3> QED
      BY <3>1
  <2> HIDE DEF heap
  <2>3. \A node : nodes' = Append(nodes, node) => Len(nodes') = Len(nodes) + 1
    BY <1>3
  <2>4. ASSUME NEW node, heap \in [DOMAIN nodes -> Node], nodes' = Append(heap, node)
        PROVE  Len(nodes') = Len(nodes) + 1
    BY <1>1, <2>4, OneMore
  <2> QED
    BY <2>1, <2>2, <2>3, <2>4
<1>9. CASE Binary
  <2> DEFINE r == Reduced
  <2>1. Stop("exit69") \/ \E node : nodes' = Append(nodes, node)
           \/ (TopIs(operators, Reducible) /\ nodes' = Append(r.nodes, node))
    BY <1>9 DEF Binary
  <2>2. TopIs(operators, Reducible) => WellFormed(r.nodes) /\ Len(r.nodes) = Len(nodes)
    BY ReducedType
  <2>3. TopIs(operators, Reducible) => r.nodes \in [DOMAIN nodes -> Node]
    BY <1>1, <2>2, LenProperties DEF WellFormed
  <2> HIDE DEF r
  <2>4. \A node : nodes' = Append(nodes, node) => Len(nodes') = Len(nodes) + 1
    BY <1>3
  <2>5. ASSUME NEW node, NEW h \in [DOMAIN nodes -> Node], nodes' = Append(h, node)
        PROVE  Len(nodes') = Len(nodes) + 1
    BY <1>1, <2>5, OneMore
  <2>6. Stop("exit69") => nodes' = nodes
    BY DEF Stop
  <2> QED
    BY <2>1, <2>3, <2>4, <2>5, <2>6
<1>10. CASE DOMAIN nodes' = DOMAIN nodes
  BY <1>2, <1>10
<1>11. CASE nodes' = nodes \/ \E node : nodes' = Append(nodes, node)
  BY <1>3, <1>11
<1> QED
  BY <1>4, <1>5, <1>6, <1>7, <1>8, <1>9, <1>10, <1>11 DEF Next

-----------------------------------------------------------------------------
\* A file begins with nothing.
LEMMA FileStarts == FileInit => FileInv
<1> SUFFICES ASSUME FileInit PROVE FileInv
  OBVIOUS
<1>1. /\ nodes = <<>> /\ values = <<>> /\ operators = <<>> /\ saved = <<>>
      /\ strings = <<>> /\ body = <<>> /\ types = <<>> /\ sigs = <<>>
      /\ symbols = <<>> /\ symbol = NoSymbol /\ typeid = BAD_TYPE /\ at = 0
      /\ pc = "done" /\ program \in Programs
  BY DEF FileInit
<1>2. Len(types) = 0 /\ Len(nodes) = 0 /\ Len(saved) = 0 /\ Len(sigs) = 0
  BY <1>1
<1>3. TypeCount = 13 /\ TypeId = 0..12
  BY <1>2, Thirteen DEF TypeCount, TypeId
<1>4. HeapTypes
  <2>1. WellFormed(nodes)
    BY <1>1 DEF WellFormed
  <2> QED
    BY <1>1, <2>1, ProgramsAssumption DEF HeapTypes, Typed, Stack, Saved
<1>5. Finishing /\ Forest(BodyStacks(FinishedBodies))
  <2>1. \A k, a, i, x : ~ Held(nodes, values, operators, saved, k, a, i, x)
    BY <1>2 DEF Held
  <2>2. FinishedBodies = <<>> /\ BodyStacks(<<>>) = <<>> /\ <<>> \o <<>> = <<>>
    BY <1>1 DEF FinishedBodies, BodyStacks
  <2> QED
    BY <1>1, <2>1, <2>2, EmptySeq DEF Once, Finishing, Forest
<1>6. RegistryTypes
  <2>1. symbol \in Symbol(TypeId) /\ typeid \in TypeId
    <3>1. BAD_TYPE \in TypeId
      BY <1>3 DEF BAD_TYPE
    <3>2. "" \in Lexemes
      BY LexemesAssumption
    <3> QED
      BY <1>1, <3>1, <3>2 DEF NoSymbol, Symbol
  <2>2. \A S : <<>> \in Seq(S)
    OBVIOUS
  <2> QED
    BY <1>1, <2>1, <2>2 DEF RegistryTypes
<1>7. Pending /\ Reading
  BY <1>1, <1>2 DEF Pending, Reading
<1> QED
  BY <1>3, <1>4, <1>5, <1>6, <1>7 DEF FileInv, Heap, TypesCap

\* Where TypeId, Added and the lengths live.
LEMMA RegistryFacts ==
  ASSUME FileInv
  PROVE  /\ Len(types) \in Nat /\ Len(sigs) \in Nat /\ TypeCount = 13 + Len(types)
         /\ TypeCount \in Nat /\ TypeCount =< 20
         /\ TypeId = 0..12 + Len(types) /\ Added = 13..12 + Len(types)
         /\ BAD_TYPE \in TypeId /\ "" \in Lexemes
<1>1. Len(types) \in Nat /\ Len(sigs) \in Nat
  BY LenProperties DEF FileInv, RegistryTypes
<1>2. TypeCount = 13 + Len(types) /\ TypeCount =< 20
  BY Thirteen DEF FileInv, TypeCount, TypesCap
<1>3. TypeId = 0..12 + Len(types) /\ Added = 13..12 + Len(types)
  BY <1>1, <1>2, Thirteen DEF TypeId, Added
<1>4. BAD_TYPE \in TypeId /\ TypeCount \in Nat
  BY <1>1, <1>2, <1>3 DEF BAD_TYPE
<1>5. "" \in Lexemes
  BY LexemesAssumption
<1> QED
  BY <1>1, <1>2, <1>3, <1>4, <1>5

\* A step of the header that leaves the heap and the registry alone.
LEMMA HeaderOnly ==
  ASSUME FileInv,
         UNCHANGED <<program, nodes, values, operators, saved, strings, body, symbols>>,
         at' \in Nat
  PROVE  Heap'
  BY DEF FileInv, Heap, HeapTypes, Finishing, Forest, FinishedBodies, Pointer

LEMMA SameRegistry ==
  ASSUME FileInv, UNCHANGED <<types, sigs>>,
         symbol' \in Symbol(TypeId),
         typeid' \in TypeId,
         symbols' \in Seq(Block(TypeId))
  PROVE  (TypeCount =< TypesCap)' /\ RegistryTypes' /\ Pending'
  BY DEF FileInv, RegistryTypes, Pending, TypeCount, TypeId, Added

\* next_token() moves on, and PANIKA and undefined behaviour stop the parser.
LEMMA Goes ==
  ASSUME FileInv, NEW stage, NEW n \in Nat, Go(stage, n)
  PROVE  at' \in Nat /\ pc' = stage
  BY DEF Go, Consume, FileInv, Heap, HeapTypes

LEMMA Fails ==
  ASSUME FileInv, NEW stage, Header(stage),
         \E how \in {"exit69", "segv", "corrupt"} : Fail(how)
  PROVE  FileInv'
<1>1. UNCHANGED <<program, nodes, values, operators, saved, strings, body>>
      /\ UNCHANGED <<types, symbol, sigs, typeid, symbols>> /\ at' = at
      /\ pc' # "params"
  BY DEF Header, Fail, fileVars
<1>2. Heap'
  BY <1>1, HeaderOnly DEF FileInv, Heap, HeapTypes
<1>3. (TypeCount =< TypesCap)' /\ RegistryTypes' /\ Pending'
  BY <1>1, SameRegistry DEF FileInv, RegistryTypes
<1>4. Reading'
  BY <1>1 DEF Reading
<1> QED
  BY <1>2, <1>3, <1>4 DEF FileInv
-----------------------------------------------------------------------------
\* The steps of the header that allocate nothing: they change the symbol under
\* way and what parse_type returned.
LEMMA SameTypes ==
  ASSUME FileInv, NEW stage, NEW to, NEW n \in Nat, Header(stage), Go(to, n),
         UNCHANGED <<nodes, values, types, sigs, symbols>>,
         symbol' \in Symbol(TypeId),
         typeid' \in TypeId, to = "params" => sigs # <<>>
  PROVE  FileInv'
<1>1. at' \in Nat /\ pc' = to
  BY Goes
<1>2. Heap'
  BY <1>1, HeaderOnly DEF Header
<1>3. (TypeCount =< TypesCap)' /\ RegistryTypes' /\ Pending'
  BY SameRegistry DEF FileInv, RegistryTypes
<1>4. Reading'
  BY <1>1 DEF Reading
<1> QED
  BY <1>2, <1>3, <1>4 DEF FileInv

LEMMA SymbolStep ==
  ASSUME FileInv, BeginSymbol \/ EndFile \/ Modifier \/ SymbolName
  PROVE  FileInv'
<1>1. /\ symbol \in Symbol(TypeId) /\ typeid \in TypeId
      /\ NoSymbol \in Symbol(TypeId)
  BY RegistryFacts DEF FileInv, RegistryTypes, NoSymbol, Symbol
<1>2. CASE BeginSymbol
  BY <1>1, <1>2, SameTypes DEF BeginSymbol
<1>3. CASE EndFile
  BY <1>1, <1>3, SameTypes DEF EndFile
<1>4. CASE Modifier
  <2>1. CASE Fail("exit69")
    BY <1>4, <2>1, Fails DEF Modifier
  <2>2. CASE ~ Fail("exit69")
    <3>1. /\ Header("modifiers") /\ Go("modifiers", 1)
          /\ symbol' = [symbol EXCEPT !.exported = @ \/ Tok = "L_EXPORT"]
          /\ UNCHANGED <<nodes, values, types, sigs, typeid, symbols>>
      BY <1>4, <2>2 DEF Modifier
    <3>2. symbol' \in Symbol(TypeId)
      BY <1>1, <3>1 DEF Symbol
    <3> QED
      BY <1>1, <3>1, <3>2, SameTypes
  <2> QED
    BY <2>1, <2>2
<1>5. CASE SymbolName
  <2>1. CASE Fail("exit69")
    BY <1>5, <2>1, Fails DEF SymbolName
  <2>2. CASE ~ Fail("exit69")
    <3>1. /\ Header("modifiers") /\ Go("type", 2)
          /\ symbol' = [symbol EXCEPT !.name = Peek(1).lexeme]
          /\ UNCHANGED <<nodes, values, types, sigs, typeid, symbols>>
      BY <1>5, <2>2 DEF SymbolName
    <3>2. Peek(1).lexeme \in Lexemes
      BY HeaderLookahead DEF FileInv, Heap, Token
    <3>3. symbol' \in Symbol(TypeId)
      BY <1>1, <3>1, <3>2 DEF Symbol
    <3> QED
      BY <1>1, <3>1, <3>3, SameTypes
  <2> QED
    BY <2>1, <2>2
<1> QED
  BY <1>2, <1>3, <1>4, <1>5

LEMMA TypeStep ==
  ASSUME FileInv, TypeName \/ BadType \/ ParamComma \/ TypeOfSymbol
  PROVE  FileInv'
<1>1. symbol \in Symbol(TypeId) /\ typeid \in TypeId
  BY DEF FileInv, RegistryTypes
<1>2. CASE TypeName
  <2>1. CASE Fail("segv")
    BY <1>2, <2>1, Fails DEF TypeName
  <2>2. CASE ~ Fail("segv")
    <3>1. /\ Header("type") /\ Go("typed", 1)
          /\ WithName(Peek(1).lexeme) # {} /\ typeid' = FirstOf(Peek(1).lexeme)
          /\ UNCHANGED <<nodes, values, types, symbol, sigs, symbols>>
      BY <1>2, <2>2 DEF TypeName
    <3>2. typeid' \in TypeId
      BY <3>1, FirstIsOne, RegistryFacts
    <3> QED
      BY <1>1, <3>1, <3>2, SameTypes
  <2> QED
    BY <2>1, <2>2
<1>3. CASE BadType
  BY <1>1, <1>3, RegistryFacts, SameTypes DEF BadType
<1>4. CASE ParamComma
  <2>1. sigs # <<>>
    BY <1>4 DEF ParamComma, Header, FileInv, Reading
  <2> QED
    BY <1>1, <1>4, <2>1, SameTypes DEF ParamComma, fileVars
<1>5. CASE TypeOfSymbol
  <2>1. CASE Fail("exit69")
    BY <1>5, <2>1, Fails DEF TypeOfSymbol
  <2>2. CASE ~ Fail("exit69")
    <3>1. /\ Header("typed") /\ Go("parse", 2)
          /\ symbol' = [symbol EXCEPT !.type = typeid]
          /\ UNCHANGED <<nodes, values, types, sigs, typeid, symbols>>
      BY <1>5, <2>2 DEF TypeOfSymbol
    <3>2. symbol' \in Symbol(TypeId)
      BY <1>1, <3>1 DEF Symbol
    <3> QED
      BY <1>1, <3>1, <3>2, SameTypes
  <2> QED
    BY <2>1, <2>2
<1> QED
  BY <1>2, <1>3, <1>4, <1>5
-----------------------------------------------------------------------------
\* parse_type reads a signature.
\* The more types there are, the more is typed.
LEMMA Wider ==
  ASSUME NEW S, NEW T, S \subseteq T, NEW A, NEW B, A \subseteq B
  PROVE  /\ Seq(Sig(S, A)) \subseteq Seq(Sig(T, B))
         /\ Seq(Type(S)) \subseteq Seq(Type(T))
         /\ Symbol(S) \subseteq Symbol(T) /\ Seq(Block(S)) \subseteq Seq(Block(T))
<1>1. \A X, Y : X \subseteq Y => Seq(X) \subseteq Seq(Y)
  OBVIOUS
<1>2. Seq(S) \subseteq Seq(T)
  BY <1>1
<1>3. Sig(S, A) \subseteq Sig(T, B)
  BY <1>2 DEF Sig
<1>4. TypeInfo(S) \subseteq TypeInfo(T)
  BY <1>2 DEF TypeInfo
<1>5. Type(S) \subseteq Type(T)
  BY <1>1, <1>4 DEF Type
<1>6. Symbol(S) \subseteq Symbol(T) /\ Block(S) \subseteq Block(T)
  BY DEF Symbol, Block
<1> QED
  BY <1>1, <1>3, <1>5, <1>6

\* alloc_type, for a signature that is begun.
LEMMA SignatureStep == ASSUME FileInv, Signature PROVE FileInv'
<1>1. CASE Fail("corrupt")
  BY <1>1, Fails DEF Signature
<1>2. CASE ~ Fail("corrupt")
  <2> DEFINE new == [name |-> symbol.name, info |-> <<>>]
             sig == [type |-> TypeCount, args |-> <<>>, result |-> FALSE]
             n   == Len(types)
             m   == Len(sigs)
  <2>1. /\ Header("type") /\ Fits /\ Go("params", 1)
        /\ types' = Append(types, new) /\ sigs' = Append(sigs, sig)
        /\ UNCHANGED <<nodes, values, symbol, typeid, symbols>>
    BY <1>2 DEF Signature
  <2>2. /\ n \in Nat /\ m \in Nat /\ TypeCount = 13 + n /\ TypeId = 0..12 + n
        /\ Added = 13..12 + n
        /\ types \in Seq(Type(TypeId)) /\ sigs \in Seq(Sig(TypeId, Added))
        /\ symbol \in Symbol(TypeId) /\ typeid \in TypeId /\ symbols \in Seq(Block(TypeId))
        /\ Pending
    BY RegistryFacts DEF FileInv, RegistryTypes
  <2>3. /\ Len(types') = n + 1 /\ types'[n + 1] = new
        /\ \A k \in 1..n : types'[k] = types[k]
        /\ Len(sigs') = m + 1 /\ sigs'[m + 1] = sig
        /\ \A i \in 1..m : sigs'[i] = sigs[i]
    BY <2>1, <2>2, AppendProperties
  <2>4. /\ TypeCount' = TypeCount + 1 /\ TypeId' = 0..13 + n /\ Added' = 13..13 + n
    BY <2>2, <2>3, Thirteen DEF TypeCount, TypeId, Added
  <2>5. TypeId \subseteq TypeId' /\ Added \subseteq Added'
    BY <2>2, <2>4
  <2>6. /\ types \in Seq(Type(TypeId')) /\ sigs \in Seq(Sig(TypeId', Added'))
        /\ symbol \in Symbol(TypeId') /\ typeid \in TypeId' /\ symbols \in Seq(Block(TypeId'))
    <3>1. /\ Seq(Sig(TypeId, Added)) \subseteq Seq(Sig(TypeId', Added'))
          /\ Seq(Type(TypeId)) \subseteq Seq(Type(TypeId'))
          /\ Symbol(TypeId) \subseteq Symbol(TypeId')
          /\ Seq(Block(TypeId)) \subseteq Seq(Block(TypeId'))
      BY <2>5, Wider
    <3> QED
      BY <2>2, <2>5, <3>1
  <2>7. new \in Type(TypeId') /\ sig \in Sig(TypeId', Added')
    <3>1. symbol.name \in Lexemes
      BY <2>2 DEF Symbol
    <3>2. TypeCount \in Added'
      BY <2>2, <2>4
    <3> QED
      BY <3>1, <3>2 DEF Type, Sig
  <2>8. types' \in Seq(Type(TypeId')) /\ sigs' \in Seq(Sig(TypeId', Added'))
    BY <2>1, <2>6, <2>7, AppendProperties
  <2>9. RegistryTypes' /\ (TypeCount =< TypesCap)' /\ Reading'
    <3>1. RegistryTypes'
      BY <2>1, <2>6, <2>8 DEF RegistryTypes
    <3>2. (TypeCount =< TypesCap)'
      BY <2>1, <2>2, <2>4 DEF TypesCap, Fits
    <3>3. Reading'
      BY <2>2, <2>3 DEF Reading
    <3> QED
      BY <3>1, <3>2, <3>3
  <2>10. /\ \A i \in 1..m : sigs[i].type \in 13..12 + n
         /\ new.info = <<>> /\ sig.type = 13 + n
    <3>1. \A i \in 1..m : sigs[i] \in Sig(TypeId, Added)
      BY <2>2, ElementOfSeq
    <3>2. \A i \in 1..m : sigs[i].type \in 13..12 + n
      BY <2>2, <3>1 DEF Sig
    <3>3. new.info = <<>> /\ sig.type = 13 + n
      BY <2>2
    <3> QED
      BY <3>2, <3>3
  <2> HIDE DEF new, sig
  <2>11. \A i, j \in 1..m + 1 : sigs'[i].type = sigs'[j].type => i = j
    <3> SUFFICES ASSUME NEW i \in 1..m + 1, NEW j \in 1..m + 1,
                        sigs'[i].type = sigs'[j].type
                 PROVE  i = j
      OBVIOUS
    <3>1. (i = m + 1 \/ i \in 1..m) /\ (j = m + 1 \/ j \in 1..m)
      BY <2>2
    <3>2. \A l \in 1..m : sigs'[l].type \in 13..12 + n
      BY <2>3, <2>10
    <3>3. sigs'[m + 1].type = 13 + n
      BY <2>3, <2>10
    <3>4. CASE i = m + 1 \/ j = m + 1
      BY <2>2, <3>1, <3>2, <3>3, <3>4
    <3>5. CASE i \in 1..m /\ j \in 1..m
      BY <2>2, <2>3, <3>5 DEF Pending
    <3> QED
      BY <3>1, <3>4, <3>5
  <2>12. ASSUME NEW k \in 1..n + 1
         PROVE  types'[k].info = <<>> <=> \E i \in 1..m + 1 : sigs'[i].type = 13 + k - 1
    <3>1. CASE k = n + 1
      <4>1. m + 1 \in 1..m + 1 /\ sigs'[m + 1].type = 13 + k - 1
        BY <2>2, <2>3, <2>10, <3>1
      <4>2. types'[k].info = <<>>
        BY <2>3, <2>10, <3>1
      <4> QED
        BY <4>1, <4>2
    <3>2. CASE k # n + 1
      <4>1. k \in 1..n /\ types'[k] = types[k]
        BY <2>2, <2>3, <3>2
      <4>2. types[k].info = <<>> <=> \E i \in 1..m : sigs[i].type = 13 + k - 1
        BY <2>2, <4>1, Thirteen DEF Pending
      <4>3. \A i \in 1..m + 1 : sigs'[i].type = 13 + k - 1 => i \in 1..m
        <5>1. sigs'[m + 1].type = 13 + n
          BY <2>3, <2>10
        <5>2. 13 + n # 13 + k - 1
          BY <2>2, <4>1
        <5>3. \A i \in 1..m + 1 : i = m + 1 \/ i \in 1..m
          BY <2>2
        <5> QED BY <5>1, <5>2, <5>3
      <4>4. \A i \in 1..m : i \in 1..m + 1 /\ sigs'[i].type = sigs[i].type
        BY <2>2, <2>3
      <4>5. (\E i \in 1..m : sigs[i].type = 13 + k - 1) <=> (\E i \in 1..m + 1 : sigs'[i].type = 13 + k - 1)
        BY <4>3, <4>4, Zenon
      <4> QED
        BY <4>1, <4>2, <4>5
    <3> QED
      BY <3>1, <3>2
  <2>13. Pending'
    BY <2>3, <2>11, <2>12, Thirteen DEF Pending
  <2>14. Heap'
    <3>1. at' \in Nat
      BY <2>1, Goes
    <3> QED
      BY <2>1, <3>1, HeaderOnly DEF Header
  <2> QED
    BY <2>9, <2>13, <2>14 DEF FileInv
<1> QED
  BY <1>1, <1>2
\* A parameter is a node of its own, on the value stack of the body to come.
LEMMA ParameterStep == ASSUME FileInv, Parameter PROVE FileInv'
<1>1. CASE Fail("exit69")
  BY <1>1, Fails DEF Parameter
<1>2. CASE ~ Fail("exit69")
  <2> DEFINE node == NewNode("A_DECL_LOCAL", Peek(1).lexeme, <<>>)
             g    == Append(nodes, node)
             w    == Append(values, Fresh)
  <2>1. /\ Header("params") /\ Go("type", 2)
        /\ nodes' = g /\ values' = w /\ UNCHANGED fileVars
    BY <1>2 DEF Parameter
  <2> DEFINE done == BodyStacks(FinishedBodies)
  <2>2. /\ Typed(nodes, values, operators, saved) /\ Len(nodes) \in Nat
        /\ Typed(nodes, values, operators, done \o saved)
        /\ Once(nodes, values, operators, done \o saved)
    <3>1. Typed(nodes, values, operators, saved) /\ done \in Saved(Len(nodes))
      BY BodiesAside DEF FileInv, Heap, HeapTypes, Finishing
    <3>2. Typed(nodes, values, operators, done \o saved)
      BY <3>1, ConcatProperties DEF Typed, Saved
    <3> QED
      BY <3>1, <3>2, TypedFacts DEF FileInv, Heap, Forest
  <2>3. Peek(1).lexeme \in Lexemes
    BY HeaderLookahead DEF FileInv, Heap, Token
  <2>4. Joins(Len(nodes), node) /\ \A j \in 1..Len(node.kids) : node.kids[j] \in {NULL, Uninit}
    BY <2>2, <2>3, LeafJoins, NoKids DEF Leaf
  <2> HIDE DEF node
  <2> HIDE DEF done
  <2>5. /\ Typed(g, values, operators, done \o saved) /\ Once(g, values, operators, done \o saved)
        /\ Free(g, values, operators, done \o saved, Fresh) /\ Fresh \in 1..Len(g)
        /\ Typed(g, values, operators, saved) /\ Len(g) = Len(nodes) + 1
    <3>1. /\ Typed(g, values, operators, done \o saved) /\ Once(g, values, operators, done \o saved)
          /\ Free(g, values, operators, done \o saved, Fresh) /\ Fresh \in 1..Len(g)
          /\ Len(g) = Len(nodes) + 1
      BY <2>2, <2>4, Alloc DEF Fresh
    <3>2. Saved(Len(nodes)) \subseteq Saved(Len(g))
      BY <2>2, <3>1, Grows
    <3> QED
      BY <2>2, <3>1, <3>2 DEF Typed
  <2> HIDE DEF g
  <2>6. Typed(g, w, operators, saved) /\ Once(g, w, operators, done \o saved)
    <3>1. Typed(g, w, operators, done \o saved) /\ Once(g, w, operators, done \o saved)
      BY <2>5, PlaceValue
    <3> QED
      BY <2>5, <3>1 DEF Typed
  <2> HIDE DEF w
  <2>7. /\ at' \in Nat /\ pc' = "type"
        /\ UNCHANGED <<program, operators, saved, strings, body>>
    BY <2>1, Goes DEF Header
  <2>8. Heap'
    <3>1. Pointer \subseteq Pointer'
      BY <2>1, <2>2, <2>5 DEF Pointer
    <3>2. Seq(Pointer) \subseteq Seq(Pointer')
      BY <3>1
    <3>3. HeapTypes'
      BY <2>1, <2>6, <2>7, <3>2 DEF FileInv, Heap, HeapTypes
    <3>4. FinishedBodies' = FinishedBodies
      BY <2>1 DEF fileVars, FinishedBodies
    <3>5. Seq(Stack(Len(nodes))) \subseteq Seq(Stack(Len(nodes')))
      BY <2>1, <2>2, <2>5, Grows, SeqMonotonic
    <3>6. Finishing'
      BY <3>4, <3>5 DEF FileInv, Heap, Finishing
    <3>7. BodyStacks(FinishedBodies)' = done
      BY <3>4 DEF done, BodyStacks
    <3>8. Forest(BodyStacks(FinishedBodies))'
      BY <2>1, <2>6, <2>7, <3>7 DEF Forest
    <3> QED
      BY <3>3, <3>6, <3>8 DEF Heap
  <2>9. (TypeCount =< TypesCap)' /\ RegistryTypes' /\ Pending'
    BY <2>1, SameRegistry DEF FileInv, RegistryTypes, fileVars
  <2>10. Reading'
    BY <2>7 DEF Reading
  <2> QED
    BY <2>8, <2>9, <2>10 DEF FileInv
<1> QED
  BY <1>1, <1>2

\* The signature read last changes, but not the type it is about.
LEMMA LastSignature ==
  ASSUME FileInv, sigs # <<>>, NEW sig \in Sig(TypeId, Added), sig.type = Last(sigs).type,
         sigs' = Append(Front(sigs), sig), NEW stage, NEW to, Header(stage), Go(to, at' - at),
         at' - at \in Nat, UNCHANGED <<nodes, values, types, symbol, typeid, symbols>>
  PROVE  FileInv'
<1> DEFINE m == Len(sigs)
<1>1. /\ sigs \in Seq(Sig(TypeId, Added)) /\ Pending /\ Len(types) \in Nat
      /\ TypeId' = TypeId /\ Added' = Added /\ TypeCount' = TypeCount
  BY RegistryFacts DEF FileInv, RegistryTypes, Sig, TypeId, Added, TypeCount
<1>2. /\ m \in Nat \ {0} /\ Last(sigs) = sigs[m] /\ Front(sigs) \in Seq(Sig(TypeId, Added))
      /\ Len(Front(sigs)) = m - 1 /\ \A i \in 1..m-1 : Front(sigs)[i] = sigs[i]
  BY <1>1, FrontIs
<1>3. /\ sigs' \in Seq(Sig(TypeId, Added)) /\ Len(sigs') = m
      /\ sigs'[m] = sig /\ \A i \in 1..m-1 : sigs'[i] = sigs[i]
  BY <1>2, AppendProperties
<1>4. ASSUME NEW i \in 1..m PROVE sigs'[i].type = sigs[i].type
  <2>1. i = m \/ i \in 1..m-1
    BY <1>2
  <2> QED
    BY <1>2, <1>3, <2>1
<1>5. Pending'
  BY <1>1, <1>3, <1>4 DEF Pending
<1>6. RegistryTypes' /\ (TypeCount =< TypesCap)'
  BY <1>1, <1>3 DEF FileInv, RegistryTypes, Sig
<1>7. Reading'
  <2>1. sigs' # <<>>
    BY <1>2, <1>3
  <2> QED
    BY <2>1 DEF Reading
<1>8. Heap'
  <2>1. at' \in Nat
    BY Goes
  <2> QED
    BY <2>1, HeaderOnly DEF Header
<1> QED
  BY <1>5, <1>6, <1>7, <1>8 DEF FileInv

LEMMA LastSignatureIs ==
  ASSUME FileInv, sigs # <<>>
  PROVE  /\ Last(sigs) \in Sig(TypeId, Added) /\ Last(sigs).type \in Added
         /\ Last(sigs).args \in Seq(TypeId) /\ typeid \in TypeId /\ at \in Nat
<1>1. sigs \in Seq(Sig(TypeId, Added))
  BY DEF FileInv, RegistryTypes, Sig
<1>2. Last(sigs) \in Sig(TypeId, Added)
  BY <1>1, FrontIs
<1> QED
  BY <1>2 DEF Sig, FileInv, Heap, RegistryTypes, HeapTypes

LEMMA EndParamsStep == ASSUME FileInv, EndParams PROVE FileInv'
<1>1. CASE Fail("exit69")
  BY <1>1, Fails DEF EndParams
<1>2. CASE ~ Fail("exit69")
  <2> DEFINE sig == [Last(sigs) EXCEPT !.result = TRUE]
  <2>1. /\ Header("params") /\ Go("type", 2) /\ sigs' = Append(Front(sigs), sig)
        /\ UNCHANGED <<nodes, values, types, symbol, typeid, symbols>>
    BY <1>2 DEF EndParams
  <2>2. sigs # <<>>
    BY <2>1 DEF Header, FileInv, Reading
  <2>3. sig \in Sig(TypeId, Added) /\ sig.type = Last(sigs).type
    BY <2>2, LastSignatureIs DEF Sig
  <2>4. at' - at = 2
    BY <2>1, <2>2, LastSignatureIs DEF Go, Consume
  <2> HIDE DEF sig
  <2> QED
    BY <2>1, <2>2, <2>3, <2>4, LastSignature
<1> QED
  BY <1>1, <1>2

LEMMA TypeOfParamStep == ASSUME FileInv, TypeOfParam PROVE FileInv'
<1>1. CASE Fail("corrupt")
  BY <1>1, Fails DEF TypeOfParam
<1>2. CASE ~ Fail("corrupt")
  <2> DEFINE args == Append(Last(sigs).args, typeid)
             sig  == [Last(sigs) EXCEPT !.args = args]
  <2>1. /\ Header("typed") /\ sigs # <<>> /\ Go("params", 0)
        /\ sigs' = Append(Front(sigs), sig)
        /\ UNCHANGED <<nodes, values, types, symbol, typeid, symbols>>
    BY <1>2 DEF TypeOfParam
  <2>2. args \in Seq(TypeId)
    BY <2>1, LastSignatureIs, AppendProperties
  <2> HIDE DEF args
  <2>3. sig \in Sig(TypeId, Added) /\ sig.type = Last(sigs).type
    BY <2>1, <2>2, LastSignatureIs DEF Sig
  <2>4. at' - at = 0
    BY <2>1, LastSignatureIs DEF Go, Consume
  <2> HIDE DEF sig
  <2> QED
    BY <2>1, <2>3, <2>4, LastSignature
<1> QED
  BY <1>1, <1>2
\* The signature is complete: its own type gets its type_info, and no other.
LEMMA TypeOfResultStep == ASSUME FileInv, TypeOfResult PROVE FileInv'
<1> DEFINE n    == Len(types)
           m    == Len(sigs)
           sig  == Last(sigs)
           k0   == sig.type - 12
           info == <<[args |-> sig.args, result |-> typeid]>>
           new  == [types[k0] EXCEPT !.info = info]
<1>1. /\ Header("typed") /\ sigs # <<>> /\ Go("typed", 0)
      /\ typeid' = sig.type /\ sigs' = Front(sigs)
      /\ types' = [types EXCEPT ![sig.type + 1 - Len(Registered)].info =
                     <<[args |-> sig.args, result |-> typeid]>>]
      /\ UNCHANGED <<nodes, values, symbol, symbols>>
  BY DEF TypeOfResult, Completed
<1>2. /\ n \in Nat /\ TypeCount = 13 + n /\ TypeId = 0..12 + n /\ Added = 13..12 + n
      /\ types \in Seq(Type(TypeId)) /\ sigs \in Seq(Sig(TypeId, Added))
      /\ symbol \in Symbol(TypeId) /\ typeid \in TypeId /\ symbols \in Seq(Block(TypeId))
      /\ Pending
  BY RegistryFacts DEF FileInv, RegistryTypes
<1>3. /\ m \in Nat \ {0} /\ sig = sigs[m] /\ sigs' \in Seq(Sig(TypeId, Added))
      /\ Len(sigs') = m - 1 /\ \A i \in 1..m-1 : sigs'[i] = sigs[i]
  BY <1>1, <1>2, FrontIs
<1>4. sig.type \in Added /\ sig.args \in Seq(TypeId)
  BY <1>1, LastSignatureIs
<1>5. k0 \in 1..n /\ sig.type + 1 - Len(Registered) = k0 /\ sig.type = 13 + k0 - 1
  <2>1. n \in Nat /\ sig.type \in 13..12 + n
    BY <1>2, <1>4
  <2> HIDE DEF n, sig
  <2> QED
    BY <2>1, Thirteen
<1>6. types[k0] \in Type(TypeId) /\ info \in Seq(TypeInfo(TypeId)) /\ info # <<>>
  <2>1. [args |-> sig.args, result |-> typeid] \in TypeInfo(TypeId)
    BY <1>2, <1>4 DEF TypeInfo
  <2>2. types[k0] \in Type(TypeId)
    BY <1>2, <1>5, ElementOfSeq
  <2> QED
    BY <2>1, <2>2
<1> HIDE DEF sig, info
<1>7. types' = [types EXCEPT ![k0] = new]
  BY <1>1, <1>5 DEF info
<1> HIDE DEF k0
<1>8. new \in Type(TypeId) /\ new.info = info
  BY <1>6 DEF Type
<1> HIDE DEF new
<1>9. /\ types' \in Seq(Type(TypeId)) /\ Len(types') = n
      /\ \A k \in 1..n : types'[k] = IF k = k0 THEN new ELSE types[k]
  BY <1>2, <1>5, <1>7, <1>8, ExceptSeq
<1>10. TypeId' = TypeId /\ Added' = Added /\ TypeCount' = TypeCount
  BY <1>9 DEF TypeId, Added, TypeCount
<1>11. RegistryTypes' /\ (TypeCount =< TypesCap)' /\ Reading'
  <2>1. typeid' \in TypeId'
    BY <1>1, <1>2, <1>4, <1>10
  <2>2. RegistryTypes'
    BY <1>1, <1>2, <1>3, <1>9, <1>10, <2>1 DEF RegistryTypes
  <2>3. Reading'
    BY <1>1 DEF Reading, Go
  <2> QED
    BY <1>10, <2>2, <2>3 DEF FileInv
<1>12. \A i, j \in 1..m : sigs[i].type = sigs[j].type => i = j
  BY <1>2 DEF Pending
<1>13. ASSUME NEW k \in 1..n
       PROVE  types'[k].info = <<>> <=> \E i \in 1..m-1 : sigs'[i].type = 13 + k - 1
  <2>1. CASE k = k0
    <3>1. types'[k].info # <<>>
      BY <1>6, <1>8, <1>9, <2>1
    <3>2. ASSUME NEW i \in 1..m-1, sigs'[i].type = 13 + k - 1
          PROVE  FALSE
      <4>1. i \in 1..m /\ m \in 1..m /\ i # m
        BY <1>3, <3>2
      <4>2. sigs[i].type = sigs[m].type
        BY <1>3, <1>5, <2>1, <3>2
      <4> QED
        BY <1>12, <4>1, <4>2
    <3> QED
      BY <3>1, <3>2
  <2>2. CASE k # k0
    <3>1. types'[k].info = types[k].info
      BY <1>9, <2>2
    <3>2. types[k].info = <<>> <=> \E i \in 1..m : sigs[i].type = 13 + k - 1
      BY <1>2, Thirteen DEF Pending
    <3>3. ASSUME NEW i \in 1..m, sigs[i].type = 13 + k - 1
          PROVE  i \in 1..m-1
      <4>1. sigs[m].type = 13 + k0 - 1
        BY <1>3, <1>5
      <4>2. 13 + k - 1 # 13 + k0 - 1
        BY <1>5, <2>2
      <4>3. i # m
        BY <3>3, <4>1, <4>2
      <4> QED
        BY <1>3, <4>3
    <3>4. \A i \in 1..m-1 : i \in 1..m /\ sigs'[i].type = sigs[i].type
      BY <1>3
    <3> QED
      BY <3>1, <3>2, <3>3, <3>4
  <2> QED
    BY <2>1, <2>2
<1>14. Pending'
  <2>1. \A i, j \in 1..m-1 : sigs'[i].type = sigs'[j].type => i = j
    <3>1. \A i \in 1..m-1 : i \in 1..m /\ sigs'[i].type = sigs[i].type
      BY <1>3
    <3> QED
      BY <1>12, <3>1
  <2> QED
    BY <1>3, <1>9, <1>13, <2>1, Thirteen DEF Pending
<1>15. Heap'
  <2>1. at' \in Nat
    BY <1>1, Goes
  <2> QED
    BY <1>1, <2>1, HeaderOnly DEF Header
<1> QED
  BY <1>11, <1>14, <1>15 DEF FileInv

-----------------------------------------------------------------------------
\* A step of the body: the invariant of the body parser, and the symbol that a
\* finished body makes.
LEMMA BodyStepKeeps == ASSUME FileInv, BodyStep PROVE FileInv'
<1>1. /\ Next /\ UNCHANGED <<types, symbol, sigs, typeid>>
      /\ symbols' = IF pc' = "done" THEN Append(symbols, Finished) ELSE symbols
  BY DEF BodyStep
<1>2. TypeOK
  BY <1>1, OnlyEndBody DEF FileInv, Heap, HeapTypes, Typed, Stack, Saved, Pointer, TypeOK
<1>3. TypeOK'
  BY <1>1, <1>2, StepType
<1>4. HeapTypes'
  BY <1>3 DEF HeapTypes, Typed, Stack, Saved, Pointer, TypeOK
<1>5. body' \in Seq(Int)
  <2>1. Pointer' \subseteq Int /\ body' \in Seq(Pointer')
    BY <1>3 DEF TypeOK, Pointer
  <2>2. \A S, T : S \subseteq T => Seq(S) \subseteq Seq(T)
    OBVIOUS
  <2> QED
    BY <2>1, <2>2
<1>6. symbol \in Symbol(TypeId) /\ symbols \in Seq(Block(TypeId))
  BY DEF FileInv, RegistryTypes, Symbol, Block
<1>7. Finished \in Block(TypeId) /\ Finished.body = body'
  <2>1. Len(strings') \in Nat
    BY <1>3, LenProperties DEF TypeOK
  <2> QED
    BY <1>5, <1>6, <2>1 DEF Finished, Block, Symbol
<1>8. symbols' \in Seq(Block(TypeId))
  BY <1>1, <1>6, <1>7, AppendProperties
<1>9. (TypeCount =< TypesCap)' /\ RegistryTypes' /\ Pending'
  BY <1>1, <1>8, SameRegistry DEF FileInv, RegistryTypes, Block
<1>10. Reading'
  BY <1>3 DEF TypeOK, Reading
<1>11. /\ Seq(Stack(Len(nodes))) \subseteq Seq(Stack(Len(nodes')))
       /\ FinishedBodies \in Seq(Stack(Len(nodes)))
       /\ FinishedBodies \in Seq(Stack(Len(nodes')))
  <2>1. 1..Len(nodes) \subseteq 1..Len(nodes')
    <3>1. Len(nodes) \in Nat /\ Len(nodes') \in Nat /\ Len(nodes) =< Len(nodes')
      BY <1>1, <1>2, <1>3, NodesStay
    <3> QED
      BY <3>1
  <2>2. Seq(Stack(Len(nodes))) \subseteq Seq(Stack(Len(nodes')))
    <3>1. Stack(Len(nodes)) \subseteq Stack(Len(nodes'))
      BY <2>1, SeqMonotonic DEF Stack
    <3> QED
      BY <3>1, SeqMonotonic
  <2> QED
    BY <2>2 DEF FileInv, Heap, Finishing
<1>12. PICK done \in Saved(Len(nodes)) : done = BodyStacks(FinishedBodies)
  BY <1>11, BodiesAside
<1>13. Forest(done)
  BY <1>12 DEF FileInv, Heap
<1>14. CASE pc' = "done"
  <2>1. Forest(Append(done, BodyStack(body)))'
    BY <1>1, <1>2, <1>13, <1>14, StepOnce
  <2>2. /\ FinishedBodies' = Append(FinishedBodies, body')
        /\ BodyStacks(FinishedBodies') = Append(done, BodyStack(body'))
    <3>1. PICK new \in Block(TypeId) : new.body = body' /\ symbols' = Append(symbols, new)
      BY <1>1, <1>7, <1>14
    <3>2. symbols \in Seq(Block(TypeId))
      BY <1>6
    <3>3. FinishedBodies = BodiesOf(symbols) /\ FinishedBodies' = BodiesOf(Append(symbols, new))
      BY <3>1 DEF FinishedBodies, BodiesOf
    <3> QED
      BY <1>12, <3>1, <3>2, <3>3, OneMoreBody
  <2>3. body' \in Stack(Len(nodes'))
    BY <1>3 DEF TypeOK, Pointer, Stack
  <2>4. Finishing'
    BY <1>11, <2>2, <2>3, AppendProperties DEF Finishing
  <2>5. BodyStacks(FinishedBodies)' = Append(done, BodyStack(body))'
    BY <2>2 DEF BodyStacks, BodyStack
  <2>6. Forest(BodyStacks(FinishedBodies))'
    BY <2>1, <2>5 DEF Forest
  <2> QED
    BY <1>4, <1>9, <1>10, <2>4, <2>6 DEF FileInv, Heap
<1>15. CASE pc' # "done"
  <2>1. Forest(done)' /\ FinishedBodies' = FinishedBodies
    BY <1>1, <1>2, <1>13, <1>15, StepOnce DEF FinishedBodies
  <2>2. Finishing'
    BY <1>11, <2>1 DEF Finishing
  <2>3. BodyStacks(FinishedBodies)' = done
    BY <1>12, <2>1 DEF BodyStacks
  <2>4. Forest(BodyStacks(FinishedBodies))'
    BY <2>1, <2>3 DEF Forest
  <2> QED
    BY <1>4, <1>9, <1>10, <2>2, <2>4 DEF FileInv, Heap
<1> QED
  BY <1>14, <1>15

\* Every step of a file keeps the invariant.
LEMMA FileStep == FileInv /\ [FileNext]_allVars => FileInv'
<1> SUFFICES ASSUME FileInv, [FileNext]_allVars PROVE FileInv'
  OBVIOUS
<1>1. CASE BeginSymbol \/ EndFile \/ Modifier \/ SymbolName
  BY <1>1, SymbolStep
<1>2. CASE TypeName \/ BadType \/ ParamComma \/ TypeOfSymbol
  BY <1>2, TypeStep
<1>3. CASE Signature
  BY <1>3, SignatureStep
<1>4. CASE Parameter
  BY <1>4, ParameterStep
<1>5. CASE EndParams
  BY <1>5, EndParamsStep
<1>6. CASE TypeOfParam
  BY <1>6, TypeOfParamStep
<1>7. CASE TypeOfResult
  BY <1>7, TypeOfResultStep
<1>8. CASE BodyStep
  BY <1>8, BodyStepKeeps
<1>9. CASE UNCHANGED allVars
  <2>1. /\ UNCHANGED <<program, at, nodes, values, operators, saved, strings, pc, body>>
        /\ UNCHANGED <<types, symbol, sigs, typeid, symbols>>
    BY <1>9 DEF allVars, vars, fileVars
  <2>2. Heap'
    BY <2>1, HeaderOnly DEF FileInv, Heap, HeapTypes
  <2>3. (TypeCount =< TypesCap)' /\ RegistryTypes' /\ Pending'
    BY <2>1, SameRegistry DEF FileInv, RegistryTypes
  <2> QED
    BY <2>1, <2>2, <2>3 DEF FileInv, Reading
<1> QED
  BY <1>1, <1>2, <1>3, <1>4, <1>5, <1>6, <1>7, <1>8, <1>9 DEF FileNext

\* What the invariant says of the registry.
LEMMA RegistryInOrder == FileInv => RegistryOK
<1> SUFFICES ASSUME FileInv PROVE RegistryOK
  OBVIOUS
<1>1. /\ Len(types) \in Nat /\ Len(sigs) \in Nat /\ TypeCount = 13 + Len(types)
      /\ Added = 13..12 + Len(types) /\ Pending
      /\ sigs \in Seq(Sig(TypeId, Added)) /\ symbols \in Seq(Block(TypeId))
      /\ symbol \in Symbol(TypeId)
  BY RegistryFacts DEF FileInv, RegistryTypes
<1>2. DOMAIN sigs = 1..Len(sigs) /\ DOMAIN symbols = 1..Len(symbols)
  BY <1>1, LenProperties
<1>3. ASSUME NEW i \in DOMAIN symbols PROVE symbols[i].type \in TypeId
  <2>1. symbols[i] \in Block(TypeId)
    BY <1>1, <1>2, <1>3, ElementOfSeq
  <2> QED
    BY <2>1 DEF Block
<1>4. ASSUME NEW i \in DOMAIN sigs PROVE sigs[i].args \in Seq(TypeId)
  <2>1. sigs[i] \in Sig(TypeId, Added)
    BY <1>1, <1>2, <1>4, ElementOfSeq
  <2> QED
    BY <2>1 DEF Sig
<1>5. ASSUME NEW id \in Added
      PROVE  InfoOf(id) = <<>> <=> \E i \in DOMAIN sigs : sigs[i].type = id
  <2> DEFINE k == id - 12
  <2>1. k \in 1..Len(types) /\ id = 13 + k - 1 /\ ~ id < 13 /\ id + 1 - 13 = k
    BY <1>1, <1>5
  <2>2. InfoOf(id) = types[k].info
    BY <2>1, Thirteen DEF InfoOf
  <2> HIDE DEF k
  <2>3. types[k].info = <<>> <=> \E i \in 1..Len(sigs) : sigs[i].type = 13 + k - 1
    BY <1>1, <2>1, Thirteen DEF Pending
  <2> QED
    BY <1>2, <2>1, <2>2, <2>3
<1>6. symbol.type \in TypeId /\ typeid \in TypeId /\ TypeCount =< TypesCap
  BY <1>1 DEF Symbol, FileInv, RegistryTypes
<1> QED
  BY <1>3, <1>4, <1>5, <1>6 DEF RegistryOK

\* The invariant, for every file.
THEOREM FileInvariant == FileSpec => []FileInv
  BY FileStarts, FileStep, PTL DEF FileSpec

\* Every id in use is that of a type within the registry's capacity, and a type
\* that parse_type allocated misses its type_info exactly while one of the nested
\* calls of parse_type still reads it.
THEOREM FileRegistryOK == FileSpec => []RegistryOK
  BY FileInvariant, RegistryInOrder, PTL

\* In a whole file no node is held twice, in the finished bodies or on a stack: the
\* parameters that parse_type pushes before a body share nothing with the bodies
\* of the functions before it, and neither does anything the later body is made of.
THEOREM FileHeldOnce == FileSpec => []HeldOnceInFile
<1>1. FileInv => HeldOnceInFile
  BY InTheseWords DEF FileInv, Heap, HeapTypes, Finishing, Forest, HeldOnceInFile
<1> QED
  BY <1>1, FileInvariant, PTL

-----------------------------------------------------------------------------
\* Outside a body no operator waits.
Outside == pc \notin {"parse", "closing", "exit69", "segv", "corrupt"} => operators = <<>>

\* The types the body parser asks for, in a body.
LEMMA InBody == FileInv /\ pc \in {"parse", "closing"} => TypeOK
  BY DEF FileInv, Heap, HeapTypes, Typed, Stack, Saved, Pointer, TypeOK

\* A step outside a body.
LEMMA OutsideStep ==
  ASSUME FileInv, Layers, Outside, FileNext, ~ BodyStep
  PROVE  /\ Layers' /\ Outside' /\ operators' = <<>>
<1>1. /\ UNCHANGED <<operators, saved>>
      /\ pc \in {"done", "modifiers", "type", "params", "typed"}
      /\ pc' # "closing"
      /\ nodes' = nodes \/ \E node : nodes' = Append(nodes, node)
  BY DEF FileNext, BeginSymbol, EndFile, Modifier, SymbolName, TypeName, BadType, Signature,
         ParamComma, Parameter, EndParams, TypeOfParam, TypeOfResult, TypeOfSymbol, Header, Go, Fail
<1>2. nodes \in Seq(Node) /\ saved \in Saved(Len(nodes)) /\ operators = <<>>
  BY <1>1, TypedFacts DEF FileInv, Heap, HeapTypes, Outside, Typed, WellFormed
<1>3. SameKinds(nodes, nodes')
  BY <1>1, <1>2, KindsAppend DEF SameKinds
<1>4. ASSUME NEW k \in 1..Len(saved)
      PROVE  Layered(nodes', saved[k].operators)
  <2>1. saved[k] \in [values : Stack(Len(nodes)), operators : Stack(Len(nodes))]
    BY <1>2, ElementOfSeq DEF Saved
  <2>2. saved[k].operators \in Seq(1..Len(nodes))
    BY <2>1 DEF Stack
  <2> QED
    BY <1>3, <2>2, LayersStay DEF Layers
<1> QED
  BY <1>1, <1>2, <1>4 DEF Layers, Layered, Outside

\* Every step of a file keeps the layers, and a semicolon it consumes ends an
\* expression.
LEMMA FileLayers ==
  FileInv /\ Layers /\ Outside /\ StatementsFirst /\ [FileNext]_allVars =>
    /\ Layers' /\ Outside'
    /\ at' # at /\ Tok = "L_SEMICOLON" => operators' = <<>>
<1> SUFFICES ASSUME FileInv, Layers, Outside, StatementsFirst, [FileNext]_allVars
             PROVE  /\ Layers' /\ Outside'
                    /\ at' # at /\ Tok = "L_SEMICOLON" => operators' = <<>>
  OBVIOUS
<1>1. CASE UNCHANGED allVars
  <2>1. UNCHANGED <<at, nodes, operators, saved, pc>>
    BY <1>1 DEF allVars, vars
  <2> QED
    BY <2>1 DEF Layers, Layered, Outside, TypeOf
<1>2. CASE FileNext /\ ~ BodyStep
  BY <1>2, OutsideStep
<1>3. CASE BodyStep
  <2>1. Next /\ TypeOK /\ TypeOK'
    BY <1>3, OnlyEndBody, InBody, StepType DEF BodyStep
  <2>2. Layers'
    BY <2>1, StepLayers
  <2>3. at' # at /\ Tok = "L_SEMICOLON" => operators' = <<>>
    BY <2>1, SemicolonEnds
  <2>4. Outside'
    BY <2>1, OnlyEndBody DEF Outside, TypeOK
  <2> QED
    BY <2>2, <2>3, <2>4
<1> QED
  BY <1>1, <1>2, <1>3

\* In a whole file too, a semicolon that is consumed leaves no operator behind, as
\* long as statements begin where no operator of an expression waits.
THEOREM FileSemicolonTerminates == FileSpec /\ []StatementsFirst => SemicolonTerminates
<1> DEFINE Inv == FileInv /\ Layers /\ Outside
<1>1. FileInit => Inv
  BY FileStarts DEF FileInit, Layers, Layered, Outside
<1>2. Inv /\ StatementsFirst /\ [FileNext]_allVars => Inv'
  BY FileStep, FileLayers
<1>3. Inv /\ StatementsFirst /\ [FileNext]_allVars =>
        [Tok = "L_SEMICOLON" /\ at' # at => operators' = <<>>]_vars
  BY FileLayers
<1> QED
  BY <1>1, <1>2, <1>3, PTL DEF FileSpec, SemicolonTerminates
=============================================================================
