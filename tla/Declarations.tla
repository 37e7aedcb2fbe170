---------------------------- MODULE Declarations ----------------------------
(***************************************************************************)
(* A whole file of arnel: parse, parse_top_level and parse_type            *)
(* (src/parser.c) around the body parser, with the registry of types they  *)
(* allocate from (src/types.c). A declaration is                           *)
(*                                                                         *)
(*     export name = (x: int, y: int): int -> { ... };                     *)
(*                                                                         *)
(* Its type is a function signature, itself a type of the registry, under  *)
(* the name of the declaration. The parameters become the first values of  *)
(* the body, where comp_sym expects them, the moment parse_type meets them.*)
(*                                                                         *)
(* `pc' has the values of Parser while a body is parsed; "done" is the     *)
(* time between two declarations, and the header has values of its own:    *)
(* "modifiers", "type", "params", "typed". At last it is "parsed".         *)
(***************************************************************************)
EXTENDS Parser

VARIABLES
  types,    \* the types alloc_type has added: each with its name and type_info
  symbol,   \* parser_t.now_symbol
  sigs,     \* the calls of parse_type under way that read a signature
  typeid,   \* what parse_type returned last
  symbols   \* the symbols put in parser_t.block, in order

fileVars == <<types, symbol, sigs, typeid, symbols>>
allVars  == <<vars, fileVars>>

\* What init_typesystem and init_scope register first; an id counts from 0.
Registered ==
  << "__bad_type", "float", "str", "cstr", "bool", "nothing", "void", "module",
     "int", "double", "type", "__variadic", "print_format" >>
BAD_TYPE == 0
TypesCap == 20

TypeCount == Len(Registered) + Len(types)
NameOf(id) ==
  IF id < Len(Registered) THEN Registered[id + 1] ELSE types[id + 1 - Len(Registered)].name

\* type_info, empty when it is NULL.
InfoOf(id) ==
  IF id < Len(Registered) THEN <<>> ELSE types[id + 1 - Len(Registered)].info

\* get_type_for_name answers the first type with the name.
WithName(name) == {id \in 0..TypeCount-1 : NameOf(id) = name}
FirstOf(name)  == CHOOSE id \in WithName(name) : \A other \in WithName(name) : id =< other

\* put_type, like put_ast, starts from capacity 0 and stays there.
ParamsRoom == 3

NoSymbol == [name |-> "", exported |-> FALSE, type |-> BAD_TYPE]

Header(stage) == pc = stage /\ UNCHANGED <<program, operators, saved, strings, body>>
Go(stage, tokens) == pc' = stage /\ Consume(tokens)
Fail(how) == pc' = how /\ UNCHANGED <<at, nodes, values>> /\ UNCHANGED fileVars

-----------------------------------------------------------------------------
\* parse calls parse_top_level until it answers NULL.
BeginSymbol ==
  /\ Header("done")
  /\ Tok # "L_EOF"
  /\ symbol' = NoSymbol
  /\ Go("modifiers", 0)
  /\ UNCHANGED <<nodes, values, types, sigs, typeid, symbols>>

EndFile ==
  /\ Header("done")
  /\ Tok = "L_EOF"
  /\ symbol' = NoSymbol
  /\ Go("parsed", 1)
  /\ UNCHANGED <<nodes, values, types, sigs, typeid, symbols>>

\* PANIKA after another token, or a second `export'.
Modifier ==
  /\ Header("modifiers")
  /\ Tok # "L_IDENT"
  /\ \/ /\ Tok = "L_LOCAL" \/ (Tok = "L_EXPORT" /\ ~ symbol.exported)
        /\ symbol' = [symbol EXCEPT !.exported = @ \/ Tok = "L_EXPORT"]
        /\ Go("modifiers", 1)
        /\ UNCHANGED <<nodes, values, types, sigs, typeid, symbols>>
     \/ /\ Tok # "L_LOCAL" /\ ~ (Tok = "L_EXPORT" /\ ~ symbol.exported)
        /\ Fail("exit69")

SymbolName ==
  /\ Header("modifiers")
  /\ Tok = "L_IDENT"
  /\ \/ /\ Peek(2).t = "L_EQ"
        /\ symbol' = [symbol EXCEPT !.name = Peek(1).lexeme]
        /\ Go("type", 2)
        /\ UNCHANGED <<nodes, values, types, sigs, typeid, symbols>>
     \/ /\ Peek(2).t # "L_EQ"
        /\ Fail("exit69")

-----------------------------------------------------------------------------
\* parse_type: a name, a signature, or anything else, which is a bad type.
TypeName ==
  /\ Header("type")
  /\ Tok = "L_IDENT"
  /\ \/ /\ WithName(Peek(1).lexeme) # {}
        /\ typeid' = FirstOf(Peek(1).lexeme)
        /\ Go("typed", 1)
        /\ UNCHANGED <<nodes, values, types, symbol, sigs, symbols>>
     \/ /\ WithName(Peek(1).lexeme) = {}
        /\ Fail("segv")

BadType ==
  /\ Header("type")
  /\ Tok \notin {"L_IDENT", "L_LPAREN"}
  /\ typeid' = BAD_TYPE
  /\ Go("typed", 1)
  /\ UNCHANGED <<nodes, values, types, symbol, sigs, symbols>>

\* A full registry is reallocated to fewer bytes than it already takes.
FitsOneMore == TypeCount =< TypesCap  \* mutant: the array grows one type late
Fits        == TypeCount < TypesCap

Signature ==
  /\ Header("type")
  /\ Tok = "L_LPAREN"
  /\ \/ /\ Fits
        /\ types' = Append(types, [name |-> symbol.name, info |-> <<>>])
        /\ sigs' = Append(sigs, [type |-> TypeCount, args |-> <<>>, result |-> FALSE])
        /\ Go("params", 1)
        /\ UNCHANGED <<nodes, values, symbol, typeid, symbols>>
     \/ /\ ~ Fits
        /\ Fail("corrupt")

ParamComma ==
  /\ Header("params")
  /\ Tok = "L_COMMA"
  /\ Go("params", 1)
  /\ UNCHANGED <<nodes, values>> /\ UNCHANGED fileVars

\* Any other token is the name of a parameter.
Parameter ==
  /\ Header("params")
  /\ Tok \notin {"L_COMMA", "L_RPAREN"}
  /\ \/ /\ Peek(2).t = "L_COLON"
        /\ nodes' = Append(nodes, NewNode("A_DECL_LOCAL", Peek(1).lexeme, <<>>))
        /\ values' = Append(values, Fresh)
        /\ Go("type", 2)
        /\ UNCHANGED fileVars
     \/ /\ Peek(2).t # "L_COLON"
        /\ Fail("exit69")

EndParams ==
  /\ Header("params")
  /\ Tok = "L_RPAREN"
  /\ \/ /\ Peek(2).t = "L_COLON"
        /\ sigs' = Append(Front(sigs), [Last(sigs) EXCEPT !.result = TRUE])
        /\ Go("type", 2)
        /\ UNCHANGED <<nodes, values, types, symbol, typeid, symbols>>
     \/ /\ Peek(2).t # "L_COLON"
        /\ Fail("exit69")

-----------------------------------------------------------------------------
\* parse_type returns: to the loop over the parameters of a signature, ..
TypeOfParam ==
  /\ Header("typed")
  /\ sigs # <<>> /\ ~ Last(sigs).result
  /\ \/ /\ Len(Last(sigs).args) < ParamsRoom
        /\ sigs' = Append(Front(sigs), [Last(sigs) EXCEPT !.args = Append(@, typeid)])
        /\ Go("params", 0)
        /\ UNCHANGED <<nodes, values, types, symbol, typeid, symbols>>
     \/ /\ Len(Last(sigs).args) = ParamsRoom
        /\ Fail("corrupt")

\* .. or with the type of its result, when the signature is complete, ..
Newest(sig)    == TypeCount - 1       \* mutant: the type allocated last
Completed(sig) == sig.type

TypeOfResult ==
  /\ Header("typed")
  /\ sigs # <<>> /\ Last(sigs).result
  /\ LET sig == Last(sigs)
     IN  /\ types' = [types EXCEPT ![Completed(sig) + 1 - Len(Registered)].info =
                        <<[args |-> sig.args, result |-> typeid]>>]
         /\ typeid' = Completed(sig)
  /\ sigs' = Front(sigs)
  /\ Go("typed", 0)
  /\ UNCHANGED <<nodes, values, symbol, symbols>>

\* .. or to parse_top_level, and `-> {' begins the body.
TypeOfSymbol ==
  /\ Header("typed")
  /\ sigs = <<>>
  /\ \/ /\ Tok = "L_ARROW_R" /\ Peek(2).t = "L_LCURLY"
        /\ symbol' = [symbol EXCEPT !.type = typeid]
        /\ Go("parse", 2)
        /\ UNCHANGED <<nodes, values, types, sigs, typeid, symbols>>
     \/ /\ ~ (Tok = "L_ARROW_R" /\ Peek(2).t = "L_LCURLY")
        /\ Fail("exit69")

\* A step of the body; the last one puts the symbol in the block of the file,
\* behind the string literals read so far.
Finished == [ name |-> symbol.name, exported |-> symbol.exported, type |-> symbol.type,
              body |-> body', literals |-> Len(strings') ]
BodyStep ==
  /\ Next
  /\ symbols' = IF pc' = "done" THEN Append(symbols, Finished) ELSE symbols
  /\ UNCHANGED <<types, symbol, sigs, typeid>>

FileInit ==
  /\ program \in Programs
  /\ at = 0
  /\ nodes = <<>> /\ values = <<>> /\ operators = <<>>
  /\ saved = <<>> /\ strings = <<>>
  /\ pc = "done"
  /\ body = <<>>
  /\ types = <<>> /\ sigs = <<>> /\ symbols = <<>>
  /\ symbol = NoSymbol
  /\ typeid = BAD_TYPE

FileNext ==
  \/ BeginSymbol \/ EndFile \/ Modifier \/ SymbolName
  \/ TypeName \/ BadType \/ Signature \/ ParamComma \/ Parameter \/ EndParams
  \/ TypeOfParam \/ TypeOfResult \/ TypeOfSymbol
  \/ BodyStep

FileSpec == FileInit /\ [][FileNext]_allVars /\ WF_allVars(FileNext)

-----------------------------------------------------------------------------
\* The tree under a pointer, as the code generator finds it; a child that was
\* never written is shown as NULL.
NoTree == [t |-> "NULL", lexeme |-> "", kids |-> <<>>]
Tree ==
  LET tree[id \in Uninit..Len(nodes)] ==
        IF id \in Pointer
        THEN [ t |-> TypeOf(id), lexeme |-> nodes[id].lexeme,
               kids |-> [k \in DOMAIN nodes[id].kids |-> tree[nodes[id].kids[k]]] ]
        ELSE NoTree
  IN  tree

TypeId == 0..TypeCount-1
Added  == Len(Registered)..TypeCount-1

\* Every id in use is that of a type, within the capacity of the registry, and
\* a signature misses its type_info, which comp_sym reads, only while one of
\* the nested calls of parse_type still reads it.
RegistryOK ==
  /\ TypeCount =< TypesCap
  /\ symbol.type \in TypeId /\ typeid \in TypeId
  /\ \A i \in DOMAIN symbols : symbols[i].type \in TypeId
  /\ \A i \in DOMAIN sigs : sigs[i].args \in Seq(TypeId)
  /\ \A id \in Added :
       InfoOf(id) = <<>> <=> \E i \in DOMAIN sigs : sigs[i].type = id

\* No node is held twice in the whole file: what the body of one function holds is
\* in no other body and on no stack of a later one, which begins with the empty
\* stacks that the function before it leaves (parser.c:369-370).
FinishedBodies == [s \in DOMAIN symbols |-> symbols[s].body]
HeldOnceInFile == SharesNothing(FinishedBodies)
=============================================================================
