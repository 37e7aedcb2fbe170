----------------------------- MODULE MCCompiler -----------------------------
(***************************************************************************)
(* Texts for TLC, written down by SourceGrammar, the property that what is *)
(* compiled computes what the text means, the one that no other text is    *)
(* compiled, and the one that the trees the parser hands over are tidy.    *)
(***************************************************************************)
EXTENDS Compiler, TLC

G == INSTANCE SourceGrammar

MCLexemes == {"", "a", "b", "x", "y", "z", "f", "g", "h", "1", "2", "s", "t", "u", "int"}

M == INSTANCE Meaning WITH
  Modulus <- 4, Fuel <- 8,
  NumberOf <- [n \in MCLexemes |-> CASE n = "1" -> 1 [] n = "2" -> 2 [] n \in {"s", "t"} -> 3 [] OTHER -> 0]

\* A function of integers.
Fun(name, params, stmts) ==
  G!Declaration(name, TRUE, G!SignatureOf(G!Ints(params), G!IntType), stmts)

a == G!Name("a")
x == G!Name("x")
one == G!Lit("1")
two == G!Lit("2")
plus(l, r) == G!Bin("A_INT_PLUS", l, r)
minus(l, r) == G!Bin("A_INT_MINUS", l, r)
f(args) == G!Call("f", args)

\* Operands, operations on them and operations on those; calls where at
\* most one argument is computed.
E0 == {a, one, G!Name("b")}
E1 == {G!Bin(o, l, r) : o \in BinaryTypes, l \in E0, r \in {a, two}}
        \cup {f(<<e>>) : e \in E0} \cup {f(<<>>), f(<<plus(a, one), a, two>>)}
E1Right == {minus(a, two), f(<<a>>), G!Bin("A_INT_EQ", a, G!Name("b"))}
Expressions ==
  {G!File(<<Fun("f", <<"a", "b">>, <<G!Ret(e)>>)>>) :
     e \in E0 \cup E1 \cup {G!Bin(o, l, r) : o \in {"A_INT_PLUS", "A_INT_DIV"},
                                             l \in E1, r \in E0 \cup E1Right}}

\* Two statements before a return, also inside branches and loops. A text has
\* every string once.
Value(c, t, e) == G!IfElse(c, G!BlockOf(t), G!BlockOf(e))
Simple(string) ==
  { G!Set("a", plus(a, one)), G!VarInit("x", two), G!VarInit("x", f(<<plus(a, two)>>)),
    f(<<G!Str(string), minus(a, one)>>), plus(a, a) }
Blocks == { <<G!Set("a", minus(a, one))>>, <<G!VarInit("y", a), G!Set("a", plus(G!Name("y"), one))>>,
            <<G!VarInit("y", one), f(<<a, G!Name("y")>>)>> }
Tests == { a, G!Bin("A_INT_NEQ", a, two) }
Compound ==
  {G!IfThen(c, G!BlockOf(b)) : c \in Tests, b \in Blocks}
    \cup {Value(c, b, d) : c \in Tests, b \in Blocks, d \in Blocks}
    \cup {G!Loop(c, G!BlockOf(b)) : c \in Tests, b \in Blocks}
    \cup {G!Loop(c, G!BlockOf(<<G!IfThen(plus(a, one), G!BlockOf(b)), G!Set("a", minus(a, one))>>)) :
            c \in Tests, b \in Blocks}
Results == { G!Ret(a), G!Ret(plus(G!Name("b"), f(<<a>>))),
             G!Ret(Value(a, <<one>>, <<plus(a, two)>>)),
             G!Ret(Value(G!Bin("A_INT_EQ", a, one), <<G!Name("b")>>, <<f(<<minus(a, one)>>)>>)) }
Statements2 ==
  {G!File(<<Fun("f", <<"a", "b">>, <<s, t, r>>)>>) : s \in Simple("s"), t \in Simple("t") \cup Compound, r \in Results}

\* Two functions, the second with its parameters after the first's return; each
\* calls the other.
First == { <<G!Ret(a)>>, <<G!VarInit("x", two), G!Ret(x)>>, <<f(<<G!Str("s"), plus(a, one)>>), G!Ret(one)>>,
           <<G!Ret(G!Call("g", <<a, one>>))>> }
Second == { <<G!Ret(plus(a, G!Name("b")))>>, <<f(<<G!Str("t"), a, G!Str("u")>>), G!Ret(f(<<a, f(<<>>)>>))>> }
Pair(s, t) == G!File(<<Fun("f", <<"a">>, s), Fun("g", <<"a", "b">>, t)>>)
TwoFunctions == {Pair(s, t) : s \in First, t \in Second}

\* Other texts: identifiers, and the tokens between them.
Text(ts) ==
  [ params |-> <<>>, tree |-> <<>>,
    text |-> [i \in 1..Len(ts) |-> IF ts[i] \in MCLexemes THEN [t |-> "L_IDENT", lexeme |-> ts[i]]
                                                         ELSE [t |-> ts[i], lexeme |-> ""]] ]
param == <<"a", "L_COLON", "int">>
head  == <<"f", "L_EQ", "L_LPAREN">> \o param \o <<"L_RPAREN", "L_COLON", "int", "L_ARROW_R", "L_LCURLY">>
end   == <<"L_RETURN", "a", "L_SEMICOLON", "L_RCURLY", "L_SEMICOLON">>
Nested == <<"L_LPAREN", "a", "L_COLON">>
Headers ==
  { <<"L_EXPORT", "L_EXPORT">>, <<"L_LOCAL", "f", "L_COLON">>,
    <<"f", "L_EQ", "b">>, <<"f", "L_EQ", "int", "L_ARROW_R", "L_LCURLY">> \o end,
    <<"f", "L_EQ", "L_SEMICOLON", "L_ARROW_R", "L_LCURLY">> \o end,
    <<"f", "L_EQ", "L_LPAREN", "a", "int">>, <<"f", "L_EQ", "L_LPAREN", "L_RPAREN", "int">>,
    <<"f", "L_EQ", "int", "L_LCURLY">>,
    <<"f", "L_EQ">> \o Nested \o Nested \o Nested \o Nested \o Nested \o Nested \o Nested \o Nested,
    <<"f", "L_EQ", "L_LPAREN">> \o param \o param \o param \o param }
Bodies ==
  { <<"f", "L_LPAREN", "a", "L_COMMA", "a", "L_COMMA", "a", "L_COMMA", "a", "L_RPAREN">> \o end,
    <<"L_PLUS", "L_SEMICOLON">> \o end,
    <<"f", "L_LPAREN", "L_RPAREN", "L_SEMICOLON", "L_RCURLY">> }

\* These are no programs: a header or a body that ends early, names that nobody
\* declared, a type that is no signature, more of something than there is room for.
Broken ==
  {Text(ts) : ts \in Headers \cup {head \o ts : ts \in Bodies}}
  \cup {Pair(s, <<G!Ret(f(<<a, G!Call("h", <<>>)>>))>>) : s \in First}

\* These are: `local', and a token that means nothing in a body.
Plain == {Text(<<"L_LOCAL">> \o head \o end), Text(head \o <<"a", "L_COLON", "L_SEMICOLON">> \o end)}

Texts == Expressions \cup Statements2 \cup TwoFunctions \cup Plain \cup Broken

-----------------------------------------------------------------------------
\* A compiled function returns, for all arguments, what its text means: the
\* trees of the parser, the instructions of __comp_expr and the slots they use
\* fit together.
Written ==
  LET params == program.tree[fn].type.params
  IN  [params |-> [i \in DOMAIN params |-> params[i].name], body |-> program.tree[fn].body]
ComputesItsText ==
  C!FunctionCompiled /\ program.tree # <<>> =>
    \A args \in [1..Len(Written.params) -> 0..2] :
      LET meant == M!Computes(Written, args)
      IN  meant.k = "returned" => M!Runs(out, args) = meant

\* A program is compiled to its end, also when a function calls a later one, and
\* no other text is: the compiler has exited or crashed before.
Compiles ==
  /\ mode = "done" => program \notin Broken
  /\ mode \in {"exit69", "segv"} \/ pc \in {"exit69", "segv", "corrupt"} => program \in Broken

\* What the proofs about Codegen ask of its trees holds of those the parser hands
\* over for these texts, and the counter has room.
RECURSIVE Within(_)
Within(node) == {node} \cup UNION {Within(node.kids[i]) : i \in DOMAIN node.kids}

TidyBody(trees) ==
  \A k \in DOMAIN trees : \A node \in Within(trees[k]) : C!TidyNode(node) /\ C!EndsOnce(node)
HandedOver == mode = "function" /\ fn = 0 /\ program.tree # <<>>
Tidy ==
  /\ program.tree # <<>> => C!Room
  /\ HandedOver =>
       \A i \in DOMAIN unit :
         /\ C!TidyFunction(unit[i]) /\ C!EndsInReturn(unit[i])
         /\ C!ParamsFirst(unit[i]) /\ C!ValuesVoided(unit[i])
         /\ TidyBody(unit[i].body)
=============================================================================
