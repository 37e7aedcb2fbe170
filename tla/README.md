# A verification project for the arnel compiler

arnel is a small imperative language; its compiler (about 2,200 lines of C)
reads `main.ar` and prints QBE intermediate code. The TLA+ modules here model
the parts of the compiler in which a state is built up over many steps, TLC
checks them on small instances, and TLAPS proves the theorems listed below for
every value of the constants. Everything is translated from the C source; line
numbers in comments are those of the files under `src/`.

## 1. The system

    main.c -> compiler.c (comp_file) -> parser.c (parse) -> lexer.c -> bytes.h
                   |                        |
                   | scope, locals          | types by name
                   v                        v
               hashmap.h                 types.c
                   |
                   +-> QBE text on stdout ("make run" pipes it into qbe)

The program has one thread. There are no callbacks, no messages and nothing is
persisted; the parts interact by calls and by pointers they keep into each
other's memory. What makes the behaviour hard is that state built up by one
call is consumed by a later call of another function: two stacks shared by the
handlers of all tokens, a counter of slots that every kind of expression moves
by hand, arrays that grow while somebody holds an index or a pointer into them.

| part | state it keeps | operations | what makes it correct |
|---|---|---|---|
| lookahead queue (`lexer.c:252-303`) | `lexer_t.tokens`: items, cap, len | `next_token`, `peek_token`, `push_token`, `tokens_*` | every token delivered once, in order, however lookahead and taking alternate |
| character lexer (`lexer.c:1-251`) | position, line, column in the text | `__next_token`, `trim_left`, words, keywords, numbers, strings | the longest token is cut, pointer and length agree, the end is reached and not passed |
| body parser (`parser.c:71-328`, `356-371`) | stacks `values`, `operators`; the AST heap; `block` | one handler per token, `sub_expr` | the tree is the one the text was written from; every node held once; a semicolon ends its statement |
| declarations and types (`parser.c:33-69`, `330-388`) | `now_symbol` | `parse_type`, `parse_top_level`, `parse` | a signature is complete when it is used; the declarations come out in order, each with its own type and body |
| type registry (`types.c`) | one static array of `type_t` | `alloc_type`, `get_type`, `get_type_for_name`, `put_type` | an id names the same type for ever; no pointer outlives a growth; no write past the allocation |
| code generator (`compiler.c:86-343`) | `temps_stack`, `ids`, `locals`; the text printed | `comp_sym`, `__comp_expr` and the functions it calls | the printed code computes what the tree means; variables and pending operands keep their slots; blocks and labels are well formed |
| driver and scopes (`compiler.c:1-85`, `344-384`, `main.c`) | `scope`, the list of symbols | `init_compiler`, `comp_view`, `comp_file` | a name is in scope before it is called, and its key stays readable; each string has one line of data; what is no program is not compiled |
| hash map (`hashmap.h`) | cap, len, array of entries | `um_init`, `um_set`, `um_get`, `__rehash` | it is a map: collisions and growth cannot be seen; every call returns |
| buffer and views (`bytes.h`) | a growing byte array; pointer and length | `buf_write_*`, `view_cmp`, file reading | never written past its capacity; what is read back is what was written |
| dynamic array macro (`da.h`) | - | expanded nowhere | the `tokens_*` functions are its expansion by hand |

The hazards of this code, each at its line and with the properties that guard
against it, are in `PROJECT.json`.

## 2. The modules

| module | models | notes |
|---|---|---|
| `Lexer` | `__next_token` and all it calls, `view_chopn`, `view_chop_predicate` | reads `text` and the memory behind it |
| `TokenQueue` | `next_token`, `peek_token`, `tokens_append`, `tokens_remove`, `tokens_init` | one step per round of the loop of `peek_token` |
| `TokenStream` | the stream of tokens the parser relies on | abstract specification |
| `Parser` | `__parse`, `sub_expr`, the body loop and the end of `parse_top_level` | reads `program.text`, a sequence of tokens |
| `Declarations` | `parse_type`, `parse_top_level`, `parse`; the registry of `types.c` | extends `Parser`: a step of a body is one of its steps |
| `SourceGrammar` | nothing in the source: writes a file down as tokens, with parentheses only where the operators need them | the reference the parser is compared with |
| `Codegen` | `comp_sym`, `__comp_expr`, `__comp_cond`, `__comp_while`, `__comp_func_call`, `__comp_assignment`, `__comp_decl_assignment`, the second loop of `comp_view` | reads `unit`, a sequence of functions as trees |
| `GeneratedCode` | the fields of `compiler_t` and the calls under way | the state `Codegen` and `Compiler` share, and the properties of the code printed |
| `Compiler` | `comp_view`, between the parser and the code generator | composes `Declarations` and `Codegen`, extends `GeneratedCode` |
| `Meaning` | what a tree means, and what the printed QBE instructions do | external: QBE is not part of the repository; modelled from the instructions `compiler.c` prints |
| `HashMap` | `um_init`, `um_set`, `um_get`, `__rehash` | one step per round of a loop |
| `MapSpec` | the map from names to pointers its callers rely on | abstract specification |
| `Arrays` | `buf_write_*`, `buf_alloc_to`, `buf_chop`; `put_ast`, `pop_ast`; `put_type`, `alloc_type` | what the five growing arrays take for their capacity, and what they were granted |
| `ParserProofs`, `DeclarationsProofs`, `CodegenProofs`, `TidyProofs`, `LexerProofs`, `TokenQueueProofs`, `HashMapProofs`, `ArraysProofs` | - | theorems and proofs (section 5) |
| `MCLexer`, `MCTokenQueue`, `MCParser`, `MCTokens`, `MCCodegen`, `MCCompiler`, `MCHashMap`, `MCArrays` | - | finite instances for TLC |

Some actions have alternatives written next to the definition they alter and
commented `mutant`. They are plausible slips of the code (a stride of two, a
dropped `pop`, `>` for `>=`). No specification uses them: each shows that one
property notices one slip.

### How the parser corresponds to the code

AST nodes are shared by pointer and changed in place (`(` turns an identifier
that is already on a stack into a call), so they live in a heap, `nodes`, and a
pointer is an index. `NULL` is 0 and a child that `malloc` left unwritten is
`Uninit`. `values` and `operators` are the stacks; `saved` holds the stacks that
the recursive call for a block puts aside in C locals. A step handles one token,
or makes one round of a `while` of its handler; the last step of a handler also
consumes the token, as `next_token()` under the label `out` does. `pc` is
`"closing"` inside the do-while of a semicolon. The ways out of the program are
states: `exit69` (PANIKA, NOT_IMPLEMENTED), `segv` (a NULL pointer followed) and
`corrupt` (a child written past its node). `children` holds only the tree part of
a node: the name of an identifier or declaration is `lexeme`, so
`children[2]` of a declaration with an initialiser is `kids[1]`. Nodes are never
freed in the code either. Parsing starts with the parameters on the value stack,
where `parse_type` leaves them. Tokens that are not in `TokenTypes` fall into
the default of the switch, as `L_COMMA` and `L_COLON` do (`Skip`). A fourth
argument of a call is written behind its array (`RParenOverrun`; `Arrays` shows
why it is the fourth).

The parser does not use a grammar; what it does with some texts surprises, and
the model keeps all of it: an identifier on top of the value stack becomes a call
at the next `(`, also with an operator between them (`a + (b)` calls `a`), so
`SourceGrammar` leaves such texts out (`Excluded`, with the operands of an
initialiser and conditionals used as operands, section 6); a comma finishes no operator (the `)` does); a
`var x = ..` binds tighter than the operators after it; `{ }` follows NULL; a
text without `}` makes the loop ask for L_EOF for ever; `else` without `if`
pops whatever operator is there.

### How declarations and the lexer correspond to the code

`Declarations` is a stack machine for the recursion of `parse_type`: `sigs` holds
the calls that are reading a signature, each with the id of the type it has
allocated, the ids of its parameters so far, and whether the result is being
read. `types` are the types added to those of `init_typesystem` and
`init_scope` (thirteen of twenty places), `symbol` is `now_symbol`, `symbols` the
block of the root. The parameters are pushed on `values` as they are read, those
of a signature within the signature among them. An unknown type name is a NULL
dereference; the twenty-first type, which is the eighth signature, and the fourth
parameter write behind their arrays (`corrupt`). A type that is no name and no
`(` is `__bad_type`, and its token is consumed.

`Lexer`: `at` is the pointer and `left` the length of `lexer_t.text`; `mem` is
the text and what lies behind it. A step is one call of `__next_token`. The model
reads where the code reads: the length decides only whether there is a token,
the characters decide where it ends. A number with a second dot returns with
its type unwritten and nothing consumed (`BadNumber`); an unknown character is
answered with L_EOF (`Strange`); a string without its end leaves the memory that
is known (`NoQuote`, `lost`). The length wraps in a `size_t` where more is read than the text
has. `Keywords` stands for the nested switches of
`check_kw`, which accept exactly these words. The lines are counted as the build
of the Makefile counts them.

### How the code generator corresponds to the code

The recursion of `__comp_expr` is a stack, `frames`. A frame holds the node, the
values returned for its children so far and the locals the C function keeps
across its recursive calls (the labels of a conditional, the variable of an
assignment). There is one action per call (`EvalBinary`) and one per value
delivered to a waiting frame (`BinaryRight`, `BinaryLeft`), in the order of the
code: the right operand before the left, arguments from the other end of the
array. `temps`, `ids` and `locals` are the fields of `compiler_t`; `out` is the
function printed so far, as records in place of text. `temps_stack` is a
`size_t`, hence `Word`, which stands for 2^64.

Also here the model keeps what the code does rather than what one would expect:
a number takes no slot but its void mark gives one back; an argument gives its
slot back before the call reads it; a return sets the counter to 0 for the code
after it as well; parameters keep their place only because the function before
ended in a return; two computed arguments of one call share a slot.

`Compiler` runs `Declarations` to its end, turns the heap of nodes into the trees
`Codegen` walks (`HandOver`: the names of all declarations come into scope before
the first function is compiled), and runs `Codegen`. The string literals are nodes of
their own in `parser_t.block` (`strings`, parser.c:298) and under the root, between the
declarations they came before (383-386); each becomes a line of data there, which
`data` collects (`Lines`, compiler.c:337-345 and 356-364). The header of a function is
printed from its signature: as many parameters as its arity, under the names
the first values of the body have. A declaration whose type is no signature has
`type_info` NULL, and the arity is read from it all the same.

`BlocksWellFormed`, `ParamsInPlace`, `VoidRestores`, `VariablesKept` and
`OperandsKept` are in `GeneratedCode`, which both modules extend: the run `compiler`
checks of functions that come from a text what `TidyProofs` proves of given trees.

### How the map, the queue and the arrays correspond to the code

`HashMap`: `slots` is the array, `hashed` the running index, `pc` tells which
loop is running. `__rehash` calls `um_set` for each entry, so `check` and `probe`
are shared by both callers and `oldCap # 0` says that the copying loop waits. A
key stands for its characters (`view_cmp` compares them). An empty name, which
would be found in a free slot, is never produced by the lexer.

`TokenQueue`: a token is the number of its place in the text. What `realloc`
adds and what `tokens_remove` reads one place past the last element (and, with
the array full, past the allocation) is chosen freely from `Anything`.

`Arrays`: one array of one `kind` per behaviour. `cap` and `len` are the fields
of the C structure; `mem` is the block the allocator has really given, with its
rounding (`MinChunk`, `Granule`; 24 and 16 for glibc on 64 bits, where an empty
request also gets a block). `log` is what the callers have handed over, and
`broken` says that the last operation wrote past the block; nothing is claimed
after that.

## 3. The runs

| run | question | bounds |
|---|---|---|
| `parser` | are the symbols, types and trees those the file was written from (`RoundTrip`), is every signature complete when it is used (`RegistryOK`), is no node of an earlier function's body held again (`HeldOnceInFile`), does the parser stay out of its exits and crashes for texts of the grammar, and accept none of the texts that break it (`Accepted`), does a semicolon leave no operator behind (`SemicolonTerminates`), does no statement begin while one waits (`StatementsFirst`), does it come to the end (`Finishes`)? | all trees of operators nested twice over three operands, all six operators once; calls with none to three arguments, simple or computed, inside operators and calls; all statements, in conditionals and loops nested twice; files of none to three declarations with signatures nested twice and types named after earlier functions; texts next to these that break the grammar: an else without its conditional, an empty block, a fourth argument, a fourth parameter, an eighth signature, an unknown type, an open brace |
| `tokens` | for texts that are no programs: do the stacks hold only nodes (`TypeOK`), is every node held once (`HeldOnce`)? | all strings of five tokens over three alphabets of seven, together every token type but the other binary operators; `L_EOF` follows the text |
| `parser_ranks`, `parser_set_if` | see section 6 | one program each |
| `compiler` | from the text: does the printed code compute what the text means (`ComputesItsText`)? Do variables and pending operands keep their slots (`VariablesKept`, `OperandsKept`, `VoidRestores`), are parameters where the header says (`ParamsInPlace`), are the blocks those of QBE (`BlocksWellFormed`)? Has each string its one line of data (`DataDefined`)? Are programs compiled to the end, and other texts not at all (`Compiles`)? Are the trees handed over as tidy as the proofs ask (`Tidy`)? | the texts of tidy functions: one return, the last statement; expressions nested twice, two statements before the return, one of them a conditional or loop with blocks of up to two statements; two functions in a row; all arguments 0..2, integers modulo 4. For `Compiles` also headers and bodies that are no programs, one for each way out, and calls of names nobody declared |
| `codegen_wild` | whatever trees the parser leaves behind: does every frame still wait for a child and do slot numbers stay in a `size_t` (`TypeOK`), does every jump have one label (`LabelsDefined`)? | any two of about sixty statements, many of them malformed, and a second function |
| `codegen_literal`, `codegen_loop_return` | see section 6 | one function each |
| `hashmap` | is it a map (`ImplementsMap`), does `len` count (`LenCounts`), has a key one slot (`OneSlotPerKey`), is there always a free slot (`FreeSlot`), can every key be reached (`Reachable`), does copying never grow again (`NoNestedRehash`), does each call return (`CallsReturn`)? | six keys, three of them with one home, two values, every order of calls; the second growth is made by an overwrite |
| `token_queue` | is it the stream (`ImplementsStream`, `InOrder`), within its capacity (`TypeOK`)? | lookahead up to four where the parser uses two, text of eight: two growths |
| `lexer` | do pointer and length agree, and is the text not left where it is closed (`ViewIsTheRest`), is each token the longest (`LongestMatch`) and of the type it is spelled as (`SpelledAsTold`), is its line right (`LineNumber`), and where does the lexer end (`ReachesTheEnd`)? | all texts of four pieces out of ten, all pairs of characters, every keyword cut short and prolonged; behind the text nothing, blanks and a digit, or an operator and a quote |
| `arrays` | which operations write outside the allocation (`InBounds`), is the capacity granted (`CapGranted`), does what was written stay (`ReadBack`)? | 28 elements: two growths of a stack, the growth of the registry, eleven of the buffer; blocks of 0, 1, 5 and 24; one cut or short read |

Why the bounds are enough. The parser's handlers look at no more than the two
topmost entries of a stack (a call: up to the last `A_CALL`), so precedence and
grouping show with two operators nested and blocks with one level inside
another; `tokens` adds what no grammar thinks of. The code generator moves its
counter by at most two per node and keeps at most a right operand, arguments and
declared variables across a child; nesting two deep with a variable around
brings every pair of such things together. For the map, what matters is a probe
that collides, one that wraps around, and a growth that changes homes; after a
second growth nothing new can happen. For the queue it is a growth while
something waits, a second one, and a shift with the array full: these need
lookahead of more than two, which is why the run looks four ahead. The lexer
decides by a character and the next one, and what it carries from token to token
is where it stands: two tokens with a blank between them need three or four
pieces. For the arrays it is the first block, whose size is rounded up, the
growth at the boundary of the capacity, and a second one.

`INITIAL_HM_CAP` is 12 in the program and 4 in the runs; `Word` is 32 in place
of 2^64. `SizeMod` is 64, more than any text is long.
Deadlock is checked for the map; the other systems stop when the text is parsed,
compiled or read (`pc` or `mode` is final, `TextLength` or `MaxLen` reached).

Fairness. The compiler is one thread that never waits for anything, so a step
that can be taken is taken: weak fairness on the next-state relation of `Declarations`,
which holds the parser, and of `Lexer`, which is called until it answers L_EOF; the
latter repeats its call where it consumes nothing, as the code does.
For the map only a call under way is pushed on (`Working`); nobody is obliged to call.
The other specifications state no fairness, for no property of theirs needs it.

## 4. Properties, and what they relate

- `RoundTrip`: text and tree. It says at once that no operand is swapped, no
  statement lost, no void mark left in the wrong place and no block merged.
- `HeldOnce`: all places a node can be in (stacks put aside included) and all
  nodes: pointers are moved, never copied, in spite of `(` pushing one node on
  two stacks. The code generator would compile an expression twice otherwise.
  `HeldOnceInFile` says it of a whole file, with the bodies of the functions before,
  which the symbols keep while the heap and the stacks go on.
- `Accepted`, `Compiles`: the text and how the compiler ends. There is no grammar to
  refuse a text: that one which breaks it does not become a tree rests on many
  handlers that exit, crash or wait for ever, each at its own limit.
- `DataDefined`: the strings of the text, the lines of data printed between the
  functions, and the operands inside them: one node in two lists.
- `SemicolonTerminates`: an action property on the step that consumes a `;`.
- `RegistryOK`: a pointer into the array of types is kept over recursive calls
  that allocate; each signature must be completed by the call that began it.
- `StatementsFirst`: the token and the operator stack when a conditional, an else,
  a loop or a return begins: what `SemicolonTerminates` needs of a text.
- `Tidy`: the tokens of a function and the shape of its tree when it reaches the code
  generator: what the theorems of `TidyProofs` need of a tree. It looks across three
  components, and fails if the parser puts one void mark where it should not.
- `ParamsInPlace`, `VoidRestores`: the counter at one statement and what every
  statement before it did to it, in this function and in those before.
- `ComputesItsText`: the printed instructions, run by a small machine, against
  the meaning of the text, for every small argument: parser, header, tree and
  slots must fit together.
- `ViewIsTheRest`: the pointer and the length of the lexer's view, moved apart by
  every handler, against the text. They agree wherever the lexer reads, the length
  wrapping behind the text. That it does not get there is said of texts followed by a
  zero byte with their strings closed (`Contained`); comp_file allocates no place for
  that byte, and for other memory it is not true.
- `LongestMatch`, `SpelledAsTold`: a token against a grammar of its own and
  against the way the operators are written; the one exception, `&=`, is named. Both
  are said of all that is read, whatever lies behind the text.
- `ReachesTheEnd`: every text, and the three ways in which reading it ends: at its end
  or a character without a case, at a number with a second dot, which is asked for
  for ever, or in a string that nothing closes.
- `InBounds`: five arrays against what the allocator gave; the exceptions it lists
  are the operations that do write outside, and the limits at which `Parser` and
  `Declarations` stop (`ArgsRoom`, `ParamsRoom`, `TypesCap`) are those it shows.
- `VariablesKept`, `OperandsKept`: a step of the printer and the slots promised
  to somebody by earlier steps.
- `LabelsDefined`, `BlocksWellFormed`: jumps printed in three places and labels
  printed, or left out, in others.
- `ImplementsMap`: refinement of `MapSpec`; during a rehash the map is what is
  in the new array plus what still waits in the old one (`Stored`).
- `Reachable`, `FreeSlot`, `NoNestedRehash`: what makes the probing loops and
  the copying loop end, and end in the right place.
- `ImplementsStream`: refinement of `TokenStream` with `pos <- lexed - len`.

## 5. What is proved

`tlapm` checks every leaf of the eight modules named `*Proofs`. Of the properties
that runs check, these are theorems, for every value of the constants:

| module | theorems | for every |
|---|---|---|
| `ParserProofs` | `ParserTypeOK`, `ParserHeldOnce` | body, whatever its tokens |
| `ParserProofs` | `ParserSemicolonTerminates` | body that keeps `StatementsFirst` |
| `DeclarationsProofs` | `FileRegistryOK`, `FileHeldOnce` | file, whatever its tokens; the bodies of all its functions together |
| `DeclarationsProofs` | `FileSemicolonTerminates` | file that keeps `StatementsFirst` |
| `CodegenProofs` | `CodegenTyped`, `CodegenLabels` | unit of trees the parser can leave behind, width of `temps_stack` |
| `TidyProofs` | `CodegenBlocks` | unit that returns at the ends (`TreesEndOnce`) |
| `TidyProofs` | `CodegenVariables`, `CodegenOperands` | unit of tidy trees (`TreesTidy`), as long as `temps_stack` does not wrap (`Room`) |
| `TidyProofs` | `CodegenParams` | unit whose functions begin with their parameters and end in a return (`UnitsBegin`), with `Room` |
| `TidyProofs` | `CodegenVoid` | unit that is all this and whose statements are voided (`UnitsVoided`), with `Room` |
| `LexerProofs` | `LexerLongestMatch`, `LexerSpelledAsTold` | text and memory behind it |
| `LexerProofs` | `LexerViewIsTheRest` | text and memory behind it; its second half, that the text is not left, is said of texts with their strings closed and a zero byte behind |
| `LexerProofs` | `LexerLineNumber` | text with its strings closed and a zero byte behind |
| `TokenQueueProofs` | `QueueTypeOK`, `QueueInOrder`, `QueueImplementsStream` | initial capacity, lookahead, length of text |
| `HashMapProofs` | `MapTypeOK`, `MapLenCounts`, `MapFreeSlot`, `MapReachable`, `MapOneSlotPerKey`, `MapNoNestedRehash`, `HashMapImplementsMap` | set of keys and values, hash function, initial capacity of at least 4 |
| `ArraysProofs` | `ArraysInBounds`, `ArraysCapGranted`, `ArraysReadBack` | allocator that rounds up, size of the text or number of elements |

Each rests on an inductive invariant (`TypeOK`, `FileInv`, `Inv`, or `Placing` and
what is added to it), parts of which TLC checks in the runs. What each needs beyond
the property, and why:

- `ParserTypeOK`. Children and stack entries always point into the heap. The
  difficult half is that no handler puts `NULL` on a stack although `pop_ast`
  answers NULL on an empty one, and that writing a child stays inside its node:
  for that `TypeOK` says how many children a node of each type has (`Arity`),
  which `WellFormed` ties to the heap. Without `Arity` the writes of `CloseCond`
  and `RParenCond` could not be shown to stay in range. One lemma per kind of
  change of the heap (a node added, a child set, `A_IDENT` turned into `A_CALL`),
  and one per action.
- `ParserHeldOnce`. `HeldOnce` is inductive with `TypeOK`, but a handler makes
  several moves at once, so it is restated for any heap and stacks (`Once`) and
  followed from move to move: pop, push, set a child, put the stacks aside and
  fetch them back. An `A_CALL` is on both stacks for a while; what counts is its
  place among the values.
- `FileInvariant`. `RegistryOK` is not inductive: an unfinished type must be known
  to have exactly one call of `parse_type` that reads it (`Pending`), and a call
  that reads parameters must exist (`Reading`). Around bodies the forest is kept
  by the lemmas of `ParserProofs`; at the end of a body the symbol takes over the
  values and both stacks start empty. For `FileHeldOnce` the forest must go on counting
  them: the lemmas are stated for any further stacks besides those in use and those
  put aside, and the finished bodies are such stacks (`BodyStacks`).
- `ParserSemicolonTerminates`. The loop of a semicolon stops at the first statement on
  the operator stack, so no operator waits below it only if the statements lie at
  the bottom: `Layers` says so of the stack in use and of those put aside, and that
  after the loop (`pc = "closing"`) only statements are left. It is kept because a
  statement that opens above an operator is what `StatementsFirst` excludes.
  For a file `Outside` adds that the stacks are empty between the bodies.
- `CodegenTyped`. Each frame still waits for a child its node has, and has its
  labels when it is to print them (`GoodFrame`).
- `CodegenLabels`. The labels of a loop or conditional are printed and named in
  several steps, with any number of other labels between them. `Fit` gives every
  frame the labels it may still print (`Later`), those of them it will print for
  certain (`Owed`) and the one it has printed and will go to (`Gone`): a label
  in a jump is printed or owed, none may be printed twice, none has a number `ids` has
  yet to give. The lemma `Fitting` says when a piece of code printed while the
  top frame moves on keeps that; each action is an instance of it.
- `CodegenBlocks`. `Walk` says that the calls under way are a path in the tree of the
  function, so that what is delivered is the value of the child that was waited for;
  `Flow` says that the code so far is blocks and, of what is delivered, that the last
  instruction ends a block exactly when the value is `Returned`, which only a tree
  that is to return (`Returning`) delivers. A conditional whose first branch returned
  remembers it (`Marked`): its label is still to be printed.
- `CodegenVariables`, `CodegenOperands`. The counter moves with each node, so the
  invariant `Slots` must say where it stood when each call under way began
  (`Chain`): a call of an operator, a call or an assignment began where the one below
  left off, above every variable (`Under`) and above what waits to be read
  (`Waits`). Between statements nothing is known but that the counter is above the
  variables, with one slot to spare where a void mark comes next (`Counter`). The
  lemma `Spared` then says that nothing that waits is at the level of the next result.
- `CodegenParams`. As long as only parameters have been declared, the counter is
  their number, each has the slot of its place, and between two functions the counter
  is 0 (`Starts`): the last statement was a return.
- `CodegenVoid`. In straight code the slots in use are exactly known: those of the
  declarations, and above them one for each operand or assignment under way
  (`Ladder`). `Balanced` says it of every state, of a statement that has ended and
  waits for its void mark too.
- `LexerInvariant`. Wherever it reads, the lexer stands in the memory that is known or
  is `lost`, and the length is what the text has left, in a `size_t` (`Somewhere`);
  what the last step cut is told by the memory alone (`Cuts`), so it does not matter
  whether the text had ended. In a text with its strings closed the number of quotes
  that are left is even (`Within`), so a string that is begun ends inside the text; and
  the lines counted are those up to the place the lexer stands at, itself
  included, because a word counts the break it stops at (`Counted`). What a
  piece of text can be is told by its first character (`WordPiece` and its
  like), whence `LongestMatch` and `SpelledAsTold`.
- `QueueInvariant`. The shift keeps the order only because the array holds at
  least `len` elements, and the append stays inside the array only because of the
  growth before it. For the refinement `NextFromText` and `NextFromQueue` map to
  `Take`, `PeekToken` to `Ask`, `PeekReturn` to `See`, `PeekAppend` to a stutter:
  it moves `lexed` and `len` together.
- `MapInvariant`. That no key has two slots needs what a probe has seen (`Probed`)
  and that it cannot have stopped early (`Reachable`); that there is a free slot
  needs how full the array may be at each point of a call (`Room`); that nothing
  is lost or doubled by a rehash needs that the arrays share no key (`Apart`). For
  `HashMapImplementsMap` a step of `__rehash` is a stutter: what is in the new array
  and what waits in the old one together stay the same map (`Stored`).
- `ArraysInvariant`. For the arrays that ask for too little, what the first block
  holds (`FirstBlocks`), and that what is in use is allocated until something
  writes outside (`InUse`).

The assumptions on the constants are those named in the modules: programs are
sequences of tokens (`LexemesAssumption`, `ProgramsAssumption`); texts are
sequences of characters, some byte behind them is zero, and up to it they are shorter
than a `size_t` counts (`TextsAssumption`, `BeyondsAssumption`, `SizeModAssumption`); the
trees of a unit have the children the compiler reads, no empty block and no
declaration among them, as the parser builds them (`TreesAssumption`,
`UnitsAssumption`, `NamesAssumption`; `Trees` names them so that nothing has to be said by
recursion), and a `size_t` has a width (`WordAssumption`); `NULL` is no key and no
value, the hash is a number, the map starts with four slots or more, 12 in the
program (`NullAssumption`, `HashAssumption`, `InitialCapAssumption`); blocks are
rounded up to a multiple (`AllocatorAssumption`, `SizesAssumption`); the queue
starts with a place (`InitialCapAssumption`, `MaxLookaheadAssumption`,
`TextLengthAssumption`). `comp->ids` is a number without bound in the model, 32
bits in the code: after 2^32 loops and conditionals labels would be given twice.

Six theorems have a hypothesis besides, for what they say is not true of every text
the parser accepts (section 6 has texts for which it fails).

- `StatementsFirst`: no conditional, else, loop or return begins while an operator
  waits on top of the stack. The run `parser` checks it of every file there; the text
  of `parser_set_if` breaks it.
- `TreesEndOnce`: a return is the last statement of a block that is no body of a loop,
  one branch of a conditional returns at most, and a function ends in a return. The
  loop of `codegen_loop_return` breaks it.
- `TreesTidy`: operands, arguments and initialisers are expressions, a call has one
  computed argument at most, and a void mark follows a value that is in a slot, which
  the number of `codegen_literal` is not. No statement but the last of a function
  returns: after a conditional that returned, the counter is 0 and later
  expressions are computed in the slots of variables.
- `UnitsBegin`, `UnitsVoided`: the parameters come first in a body and have different
  names; each expression, assignment and block is voided.
- `[]Room`: `temps_stack` is below its limit. It is at most a small multiple
  of the size of the function and the limit is 2^64, so no text reaches it.

The first is a hypothesis on the behaviour, those about trees and units are on the
constants, and many constants satisfy them. That the parser hands over such trees
for tidy functions is the invariant `Tidy` of the run `compiler`: it evaluates the
same definitions (`TidyNode`, `TidyFunction`, `EndsOnce`, `EndsInReturn`,
`ParamsFirst`, `ValuesVoided`, all in `Codegen`) on every tree and every function at
the moment of `HandOver`, and `Room` in every state of those texts.

Only model-checked: every liveness property (`Finishes`, `CallsReturn`,
`ReachesTheEnd`), for fairness and ENABLED are out of
the prover's reach; `RoundTrip` and `ComputesItsText`, which compare with
definitions by recursion over trees, and `Accepted`, `Compiles`, `StatementsFirst` and
`Tidy`, which say of the texts `SourceGrammar` writes, by recursion over trees, what the
parser and the compiler do with them; and `DataDefined`, which needs of a text that it
has every spelling of a string once, for a label is its place in the text.

## 6. Where the code disagrees with what it says

| run | what is said | what happens |
|---|---|---|
| `parser_ranks` | `parser.h:35-36` ranks factors above terms | `parser.c:318,322` give `*` and `/` the rank of terms: in `var x = 1 + a * b;` the sum becomes an operand of the product |
| `parser_ranks` | `parser.h:30` ranks assignment below every operator | `parser.c:197` gives a declaration with an initialiser the highest rank: the same text is parsed as `((var x = 1) + a) * b` |
| `parser_set_if` | `parser.c:112`: "semicolons terminate statements" | the loop of line 115 stops at an operator under a conditional: after `x = if (a) { 1; } else { b; };` the assignment still waits |
| `codegen_literal` | `compiler.c:236`: "void the temp stack after an expression statement" | a number took no slot, and one is given back all the same: after `1;` the next variable shares the slot of another |
| `codegen_loop_return` | `Makefile:8` feeds the text to qbe, whose blocks end at a jump | after `while (a) { return 1; };` a `jmp` follows a `ret` directly |

## 7. Plan

What could be added:

1. A proof of `Accepted` and `StatementsFirst` for a grammar of texts that is a set of
   token sequences, stated without recursion over trees: which token may follow
   which, as a relation the parser's stacks can be compared with.
2. `LabelsDefined` and `BlocksWellFormed` together as one theorem about the flow graph
   of a function, from which a model of QBE could start.
3. Several files with one `compiler_t`, should `main` ever compile more than one.

## 8. Not modelled

- `malloc`, `calloc` and `realloc` are taken to succeed; after a write outside an
  array the models stop, for what it hits depends on the allocator.
- Several files with one `compiler_t`: `comp_file` frees a text the keys of the
  scope point into. `main` compiles one file, and nothing calls `comp_file` twice.
- The types and modules in scope, which are set and never read.
- The bytes of a line of data: a line is the string it is of.
- Formatting of the printed text, names of labels, logging to stderr, the column of
  a token, the order of the bytes of a number in a buffer.
- `um_uninit`, `um_set_hash_function`, `tokens_get`, `pop_type`, `peek_type`, `alloc_buf`,
  `comp_from_string`: called nowhere. `buf_get_view` and the other views of `bytes.h`
  change nothing. `um_set_cstr`
  and `um_get_cstr` are declared and never defined.
- `Makefile`, `.clangd`, the sample `main.ar`.
