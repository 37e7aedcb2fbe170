------------------------------ MODULE Compiler ------------------------------
(***************************************************************************)
(* comp_view (src/compiler.c): the parser reads the whole text, the names  *)
(* of all declarations are put in scope, and only then is each function    *)
(* compiled, from the tree the parser left in the heap. The composition of *)
(* Declarations and Codegen.                                               *)
(***************************************************************************)
EXTENDS GeneratedCode

CONSTANTS
  Lexemes, Programs,    \* of Declarations
  Builtin, Word         \* of Codegen; its names are the lexemes

VARIABLES
  program, at, nodes, values, operators, saved, strings, pc, body,
  types, symbol, sigs, typeid, symbols,   \* those of Codegen are in GeneratedCode
  data                                    \* the labels of the lines of data printed

P == INSTANCE Declarations
C == INSTANCE Codegen WITH Names <- Lexemes, Units <- {<<>>}, Trees <- {}

parserVars == <<program, at, nodes, values, operators, saved, strings, pc, body,
                types, symbol, sigs, typeid, symbols>>
compVars   == <<parserVars, vars, data>>

\* comp_sym prints as many parameters as the signature of the symbol counts.
\* Their names are those of the first values of the body.
SigOf(i)  == P!InfoOf(symbols[i].type)
Arity(i)  == IF SigOf(i) = <<>> THEN 0 ELSE Len(SigOf(i)[1].args)
Header(i) == [k \in 1..Arity(i) |-> IF k \in DOMAIN symbols[i].body
                                    THEN nodes[symbols[i].body[k]].lexeme ELSE ""]

Parse ==
  /\ mode = "waiting"
  /\ P!FileNext
  /\ UNCHANGED <<vars, data>>

\* parse has returned the root, with the declarations and the string literals of
\* parser_t.block: set_scope_symbol for each declaration.
HandOver ==
  /\ mode = "waiting" /\ pc = "parsed"
  /\ unit' = [ i \in DOMAIN symbols |->
                 [ name |-> symbols[i].name, params |-> Header(i),
                   body |-> [k \in DOMAIN symbols[i].body |-> P!Tree[symbols[i].body[k]]] ] ]
  /\ mode' = "function"
  /\ UNCHANGED parserVars
  /\ UNCHANGED <<fn, cur, acc, frames, temps, ids, locals, out, data>>

\* The literals under the root between the declaration before and the i-th one.
\* A label is made of the place of the literal in the text: its spelling here,
\* so a text has every spelling once.
LiteralsUpTo(i)   == IF i = 0 THEN 0 ELSE symbols[i].literals
SinceTheFirst(i)  == SubSeq(strings, 1, LiteralsUpTo(i))      \* mutant: from the first one
LiteralsBefore(i) == SubSeq(strings, LiteralsUpTo(i - 1) + 1, LiteralsUpTo(i))
Lines(i) == LET literals == LiteralsBefore(i)
            IN  [k \in DOMAIN literals |-> nodes[literals[k]].lexeme]

\* A declaration whose type is no signature: sig is NULL and its arity is read.
NoSignature == mode = "function" /\ fn < Len(unit) /\ SigOf(fn + 1) = <<>>

\* A line of data for each literal before a function, and then the function.
Compile ==
  /\ \/ ~ NoSignature /\ mode # "waiting" /\ C!Next
     \/ NoSignature /\ C!Stop("segv")
  /\ data' = IF mode = "function" /\ fn < Len(unit) THEN data \o Lines(fn + 1) ELSE data
  /\ UNCHANGED parserVars

CompInit ==
  /\ P!FileInit
  /\ unit = <<>>
  /\ fn = 0
  /\ mode = "waiting"
  /\ cur = C!NoNode
  /\ acc = C!Returned
  /\ frames = <<>>
  /\ temps = 0 /\ ids = 0
  /\ locals = <<>> /\ out = <<>>
  /\ data = <<>>

CompNext == Parse \/ HandOver \/ Compile

CompSpec == CompInit /\ [][CompNext]_compVars

-----------------------------------------------------------------------------
Operands == UNION {{out[i].args[k] : k \in DOMAIN out[i].args} : i \in DOMAIN out}

\* Every string a function uses has one line of data, though the lines come from
\* the root and the operands from the tree of the function; and in the end there
\* is one line for each literal of the text, in order, for qbe takes no label twice.
DataDefined ==
  /\ C!FunctionCompiled =>
       \A v \in Operands : v.k = "data" => Cardinality({i \in DOMAIN data : data[i] = v.lexeme}) = 1
  /\ mode = "done" =>
       LET literals == SelectSeq(program.text, LAMBDA token : token.t = "L_STRING")
       IN  data = [i \in DOMAIN literals |-> literals[i].lexeme]
=============================================================================
