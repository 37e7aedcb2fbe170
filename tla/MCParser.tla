------------------------------ MODULE MCParser ------------------------------
(***************************************************************************)
(* Programs for TLC. The first families are written down from trees by     *)
(* SourceGrammar, and parsing must build the tree again; then come texts   *)
(* that must not be parsed, and single ones that the parser reads in       *)
(* another way than a reader would.                                        *)
(***************************************************************************)
EXTENDS Declarations, TLC

G == INSTANCE SourceGrammar

MCLexemes == {"", "a", "b", "f", "g", "h", "x", "1", "s", "int", "str"}

\* A written type and the id parse_type answered for it.
RECURSIVE Means(_, _)
Means(id, type) ==
  IF G!IsSignature(type)
  THEN /\ InfoOf(id) # <<>> /\ Len(InfoOf(id)[1].args) = Len(type.params)
       /\ \A i \in DOMAIN type.params : Means(InfoOf(id)[1].args[i], type.params[i].type)
       /\ Means(InfoOf(id)[1].result, type.result[1])
  ELSE NameOf(id) = type.name /\ \A earlier \in 0..id-1 : NameOf(earlier) # type.name

\* "PREC_ASSIGNMENT, // =", "PREC_COMPARISON, // < > <= >=", "PREC_TERM, // + -",
\* "PREC_FACTOR, // * /" in this order (parser.h:27-40): in a text without
\* parentheses no operator has an operand of a lower rank.
Rank ==
  [ A_ASSIGNMENT |-> 2, A_DECL_ASSIGNMENT |-> 2, A_INT_EQ |-> 6, A_INT_NEQ |-> 6,
    A_INT_PLUS |-> 7, A_INT_MINUS |-> 7, A_INT_MUL |-> 8, A_INT_DIV |-> 8 ]

RanksRespected ==
  pc = "parsed" =>
    \A id \in Pointer : \A k \in DOMAIN nodes[id].kids :
      LET kid == nodes[id].kids[k]
      IN  kid \in Pointer /\ {TypeOf(id), TypeOf(kid)} \subseteq DOMAIN Rank
            => Rank[TypeOf(id)] =< Rank[TypeOf(kid)]

-----------------------------------------------------------------------------
one == G!Lit("1")
a == G!Name("a")
b == G!Name("b")
f(args) == G!Call("f", args)
Bins(ops, ls, rs) == {G!Bin(o, l, r) : o \in ops, l \in ls, r \in rs}
Three == {"A_INT_PLUS", "A_INT_MUL", "A_INT_EQ"}

\* Expressions: all operators once, three of them nested two deep, and calls.
E0 == {one, a, b}
E1 == E0 \cup Bins(Three, E0, {one, a})
Calls == {f(<<>>), f(<<a>>), f(<<one, a, b>>)} \cup {f(<<e>>) : e \in Bins(Three, E0, {a})}
          \cup {f(<<e, a>>) : e \in Bins(Three, E0, {b})} \cup {f(<<f(<<a>>), f(<<>>)>>)}
Expressions ==
  { e \in Bins(BinaryTypes, E0, E0) \cup Bins(Three, E1, E1) \cup Calls
            \cup Bins(Three, Calls, E1) \cup Bins(Three, E1, Calls) : ~ G!Excluded(e) }
ExpressionPrograms == { G!Function(<<"a">>, <<G!Ret(e)>>) : e \in Expressions }

\* Statements, and blocks of one or two of them in conditionals and loops.
Simple ==
  { f(<<G!Str("s"), a>>), G!Set("a", G!Bin("A_INT_PLUS", a, one)), G!VarDecl("x"),
    G!VarInit("x", one), G!VarInit("x", f(<<a>>)), G!Bin("A_INT_MINUS", a, one) }
Test == G!Bin("A_INT_NEQ", a, one)
Bodies == {<<s>> : s \in Simple \cup {G!Ret(a)}} \cup {<<s, t>> : s, t \in Simple}
Compound(bodies) ==
  UNION { {G!IfThen(Test, G!BlockOf(s)), G!Loop(a, G!BlockOf(s)),
           G!IfElse(a, G!BlockOf(s), G!BlockOf(<<one>>)),
           G!IfElse(Test, G!BlockOf(<<G!VarDecl("x"), b>>), G!BlockOf(s)),
           G!Ret(G!IfElse(a, G!BlockOf(<<b>>), G!BlockOf(s)))} : s \in bodies }
Once == Compound(Bodies)
Nested == Compound({<<s>> : s \in Once} \cup {<<s, t>> : s \in Compound({<<a>>}), t \in Simple})
StatementPrograms ==
  { G!Function(<<"a", "b">>, <<s, G!Ret(a)>>) : s \in Nested }
  \cup { G!Function(<<>>, <<s, t>>) : s \in Simple, t \in Once }

\* Files: types by name, signatures, signatures in signatures, and the types of
\* earlier functions, in declarations with and without `export'.
ReturnA == <<G!Ret(a)>>
Plain   == G!SignatureOf(G!Ints(<<"a">>), G!IntType)
Types ==
  { Plain, G!IntType, G!NoType, G!SignatureOf(<<>>, G!TypeNamed("str")),
    G!SignatureOf(<<G!Param("a", G!NoType), G!Param("b", Plain)>>, G!NoType),
    G!SignatureOf(<<G!Param("a", Plain), G!Param("b", G!TypeNamed("f"))>>, G!IntType),
    G!SignatureOf(<<G!Param("a", G!TypeNamed("f"))>>, Plain),
    G!SignatureOf(<<G!Param("x", G!TypeNamed("g")), G!Param("a", G!SignatureOf(<<G!Param("b", Plain)>>, Plain))>>,
                  G!TypeNamed("f")) }
ThreeFunctions ==
  { G!File(<<G!Declaration("f", e, Plain, <<G!VarDecl("x"), f(<<a>>)>>),
             G!Declaration(n, TRUE, G!SignatureOf(G!Ints(<<"a", "b", "x">>), G!TypeNamed("f")), ReturnA),
             G!Declaration("h", ~ e, t, ReturnA)>>) : e \in BOOLEAN, n \in {"g"}, t \in Types }
  \cup { G!File(<<G!Declaration("f", FALSE, t, ReturnA), G!Declaration("f", TRUE, Plain, ReturnA),
                  G!Declaration("g", TRUE, G!SignatureOf(<<G!Param("a", G!TypeNamed("f"))>>, G!IntType), ReturnA)>>) :
           t \in {Plain, G!SignatureOf(<<G!Param("a", G!TypeNamed("f"))>>, Plain)} }
Signatures(n) == [i \in 1..n |-> G!Declaration("f", FALSE, Plain, ReturnA)]
Files == {G!File(<<>>), G!File(Signatures(7))} \cup ThreeFunctions

TidyPrograms == ExpressionPrograms \cup StatementPrograms \cup Files

-----------------------------------------------------------------------------
(***************************************************************************)
(* Texts the grammar does not have, each next to one it has: the parser    *)
(* exits, crashes, or waits for ever; no such text becomes symbols.        *)
(***************************************************************************)
Unread(text) == [params |-> <<>>, text |-> text, tree |-> <<>>]

\* The function f of the parameter a, with any tokens for its body.
Shell == G!Declaration("f", TRUE, Plain, <<G!VarDecl("x")>>).text
OfBody(tokens) == Unread(SubSeq(Shell, 1, Len(Shell) - 5) \o tokens \o G!Tk("L_RCURLY") \o G!Tk("L_SEMICOLON"))
OfLine(tokens) == OfBody(tokens \o G!Tk("L_SEMICOLON"))
BlockOfOne == G!Tokens(G!BlockOf(<<one>>))
Empty      == G!Tk("L_LCURLY") \o G!Tk("L_RCURLY")

Broken ==
  { OfLine(t \o G!Tk("L_ELSE") \o BlockOfOne) :      \* else without a conditional
      t \in {<<>>, G!Tk("L_RETURN"), G!Tk("L_WHILE") \o G!Tokens(a)} }
  \cup { OfLine(G!Tk("L_IF") \o G!Paren(G!Tokens(a)) \o t) :
            t \in {Empty, BlockOfOne \o G!Tk("L_ELSE") \o Empty} }
  \cup { OfLine(G!Tokens(f(<<a, b, one, e>>))) : e \in {a, f(<<b>>)} }
  \cup { Unread(G!Function(<<"a", "b", "x", "s">>, ReturnA).text),
          Unread(G!File(<<G!Declaration("f", TRUE, G!TypeNamed("b"), ReturnA)>>).text),
          Unread(G!File(Signatures(8)).text) }
  \cup { Unread(SubSeq(Shell, 1, Len(Shell) - 2)),   \* no closing brace
          OfBody(G!Tk("L_LCURLY") \o G!Tokens(a)) }

FilePrograms == TidyPrograms \cup Broken

\* Every declaration is read as it was written, and later ones change none of
\* it: its name and type, the parameters at the head of its body, and how the
\* operators, calls, blocks and statements of the body group.
RoundTrip ==
  pc \in {"done", "parsed"} /\ program \notin Broken =>
    /\ pc = "parsed" => Len(symbols) = Len(program.tree)
    /\ \A i \in DOMAIN symbols :
         LET s == symbols[i]
             d == program.tree[i]
         IN  /\ s.name = d.name /\ s.exported = d.exported
             /\ Means(s.type, d.type)
             /\ [k \in DOMAIN s.body |-> Tree[s.body[k]]] = d.body

\* Neither an exit nor undefined behaviour for a text of the grammar, and no other
\* text is accepted: not an else without its conditional, an empty block, a fourth
\* argument or parameter, an eighth signature, an unknown type or an open brace.
Accepted ==
  /\ pc \in {"exit69", "segv", "corrupt"} => program \in Broken
  /\ pc = "parsed" => program \notin Broken

\* The parser comes to the end of a file of the grammar.
Finishes == program \notin Broken => <>(pc = "parsed")

-----------------------------------------------------------------------------
\* `x = if (a) { 1; } else { b; };', with an operator under a conditional.
SetByCondition ==
  {G!Function(<<"a">>, <<G!Set("x", G!IfElse(a, G!BlockOf(<<one>>), G!BlockOf(<<b>>)))>>)}

\* `var x = 1 + a * b;'.
SumOfProduct ==
  {G!Function(<<>>, <<G!VarInit("x", G!Bin("A_INT_MUL", G!Bin("A_INT_PLUS", one, a), b))>>)}
=============================================================================
