------------------------------ MODULE MCCodegen ------------------------------
(***************************************************************************)
(* Compilation units for TLC, as trees: those the parser can leave behind  *)
(* when the source is not tidy.                                            *)
(***************************************************************************)
EXTENDS Codegen

G == INSTANCE SourceGrammar

MCNames == {"", "nope", "a", "b", "x", "y", "z", "f", "g", "1", "2", "s"}

\* A function with these parameters and statements.
Fun(name, params, stmts) ==
  [ name |-> name, params |-> params,
    body |-> [i \in 1..Len(params) |-> G!VarDecl(params[i])] \o G!Body(stmts) ]

a == G!Name("a")
x == G!Name("x")
one == G!Lit("1")
two == G!Lit("2")
plus(l, r) == G!Bin("A_INT_PLUS", l, r)
minus(l, r) == G!Bin("A_INT_MINUS", l, r)
f(args) == G!Call("f", args)

Value(c, t, e) == G!IfElse(c, G!BlockOf(t), G!BlockOf(e))

\* Trees the parser can leave behind when the source is not tidy: operands
\* missing, names not declared, literals as statements, returns anywhere.
block(e) == G!Block(<<e>>)
Leaves0 == {one, G!Str("s"), a, G!Name("z"), G!Void, G!None, G!VarDecl("x"), G!Ret(two),
            G!T("A_CALL", "f", <<>>)}
Wild ==
  Leaves0 \cup {G!Ret(e) : e \in Leaves0} \cup {plus(e, a) : e \in Leaves0}
    \cup {G!Set(v, e) : v \in {"a", "z"}, e \in {one, a, plus(a, one)}}
    \cup {G!T("A_ASSIGNMENT", "", <<G!None, one>>)}
    \cup {G!VarInit("x", e) : e \in {one, a}} \cup {plus(G!VarInit("x", one), two)}
    \cup {G!Call(n, as) : n \in {"f", "nope"}, as \in {<<>>, <<one>>, <<plus(a, one), plus(a, two)>>}}
    \cup {G!IfThen(a, block(e)) : e \in Leaves0}
    \cup {Value(a, <<d>>, <<e>>) : d \in {one, G!Ret(a)}, e \in {one, plus(a, a), G!Ret(two)}}
    \cup {G!Loop(a, block(e)) : e \in {one, a, G!Ret(two), plus(a, a)}}
WildUnits ==
  {<<>>, <<[name |-> "f", params |-> <<>>, body |-> <<>>]>>}
    \cup {<<[name |-> "f", params |-> <<"a">>, body |-> <<G!VarDecl("a"), s, t>>],
            Fun("g", <<"b">>, <<G!Ret(G!Name("b"))>>)>> : s, t \in Wild}

\* An expression statement that is a number, and a loop left by a return.
LiteralUnits == {<<Fun("f", <<"a">>, <<one, G!Ret(a)>>)>>}
LoopReturnUnits == {<<Fun("f", <<"a">>, <<G!Loop(a, block(G!Ret(one))), G!Ret(a)>>)>>}

\* All trees of these units, with those in them.
With(trees) == trees \cup UNION {ToSet(node.kids) : node \in trees}
Roots == UNION {UNION {ToSet(u[i].body) : i \in DOMAIN u} : u \in WildUnits \cup LiteralUnits \cup LoopReturnUnits}
MCTrees == With(With(With(With(Roots))))

=============================================================================
