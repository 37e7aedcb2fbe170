------------------------------- MODULE Arrays -------------------------------
(***************************************************************************)
(* The growing arrays of arnel: the byte buffer the text is read into      *)
(* (src/bytes.h), the stacks of put_ast and pop_ast (src/parser.c), of     *)
(* which the argument list of a call is one, and the two arrays of         *)
(* src/types.c, the types and the parameter types of a signature. Each     *)
(* keeps len and cap and reallocates by a rule of its own; what it may     *)
(* write to is what the allocator has really given it.                     *)
(*                                                                         *)
(* An element is a byte of the buffer, a pointer, an id or a type_t. The   *)
(* order of the bytes of a number is left out.                             *)
(***************************************************************************)
EXTENDS Integers, Sequences

CONSTANTS
  MinChunk,   \* external, the allocator: the smallest block holds so many ..
  Granule,    \* .. bytes, and larger ones grow in these steps
  Sizes,      \* bound: of a block that is written, read or chopped off
  MaxLen,     \* bound: elements an array may come to hold
  MaxCuts     \* bound: how often it is made shorter or a file is read short

ASSUME AllocatorAssumption == MinChunk \in Nat /\ Granule \in Nat \ {0}
ASSUME SizesAssumption == Sizes \subseteq Nat

Kinds    == {"buffer", "stack", "args", "params", "types"}
Element  == [buffer |-> 1, stack |-> 8, args |-> 8, params |-> 8, types |-> 32]
FirstCap == [buffer |-> 0, stack |-> 12, args |-> 0, params |-> 0, types |-> 20]
Junk     == -1

VARIABLES
  kind,    \* which of the arrays this is, never changed
  cap,     \* what the code takes for its capacity
  len,     \* elements in use
  mem,     \* the elements allocated, written or Junk
  log,     \* what the callers have handed over, and not taken back
  cuts,    \* how often the array was made shorter or a file was read short
  op,      \* the last operation
  broken   \* it wrote past the end of the allocation

vars == <<kind, cap, len, mem, log, cuts, op, broken>>

-----------------------------------------------------------------------------
\* The bytes of the block that malloc or realloc answers for a size.
Usable(bytes) ==
  IF bytes =< MinChunk THEN MinChunk
  ELSE MinChunk + Granule * ((bytes - MinChunk + Granule - 1) \div Granule)

\* realloc keeps what fits into the new block.
Fresh(bytes) == [i \in 1..Usable(bytes) \div Element[kind] |-> Junk]   \* mutant: malloc
Reallocated(bytes) ==
  [i \in 1..Usable(bytes) \div Element[kind] |-> IF i =< Len(mem) THEN mem[i] ELSE Junk]

\* The next n elements, recognisable by their place and by what was there before.
Data(n) == [i \in 1..n |-> 2 * (len + i) + cuts]

Stored(m, data) ==
  [i \in 1..Len(m) |-> IF i - len \in 1..Len(data) THEN data[i - len] ELSE m[i]]

\* An operation writes `data' behind the others, into the block m.
Write(m, data) ==
  /\ mem' = Stored(m, data)
  /\ broken' = (len + Len(data) > Len(m))

May(name, n) == ~ broken /\ len + n =< MaxLen /\ op' = name /\ UNCHANGED kind

-----------------------------------------------------------------------------
\* The size put_ast gives to realloc, and the one put_type and alloc_type give:
\* these leave out the factor.
ElementsAsked(c) == c                  \* mutant: no factor in put_ast either
Asked(c) == IF kind \in {"stack", "args"} THEN c * Element[kind] ELSE c

Put ==
  /\ kind # "buffer"
  /\ May("put", 1) /\ UNCHANGED cuts
  /\ IF len = cap THEN cap' = 2 * cap /\ Write(Reallocated(Asked(2 * cap)), Data(1))
                  ELSE cap' = cap /\ Write(mem, Data(1))
  /\ len' = len + 1
  /\ log' = log \o Data(1)

\* pop_ast; on an empty stack it changes nothing.
Pop ==
  /\ kind = "stack" /\ ~ broken
  /\ len > 0 /\ cuts < MaxCuts
  /\ len' = len - 1
  /\ log' = SubSeq(log, 1, len - 1)
  /\ cuts' = cuts + 1
  /\ op' = "pop"
  /\ UNCHANGED <<kind, cap, mem, broken>>

-----------------------------------------------------------------------------
(***************************************************************************)
(* The buffer. Three rules of growth: fixed steps for bytes and numbers,   *)
(* by the size of the data otherwise, with < or with =<.                   *)
(***************************************************************************)
Grow(when, by) == IF when THEN Reallocated(cap + by) ELSE mem
CapAfter(when, by) == IF when THEN cap + by ELSE cap

Extend(when, by, data, more) ==
  /\ kind = "buffer"
  /\ cap' = CapAfter(when, by)
  /\ Write(Grow(when, by), data \o more)
  /\ len' = len + Len(data)
  /\ log' = log \o data

\* buf_write_byte, and buf_write_short, _long, _longlong, also with _le and _be.
StepForBytes(w) == cap < len            \* mutant: room for one byte is enough
NeedsStep(w) == cap < len + w
WriteNumber(w) ==
  /\ May("number", w) /\ UNCHANGED cuts
  /\ Extend(NeedsStep(w), 10, Data(w), <<>>)

\* buf_alloc_to: the caller fills what it reserved.
Reserve(n) ==
  /\ May("reserve", n) /\ UNCHANGED cuts
  /\ Extend(cap < len + n, n, Data(n), <<>>)

\* buf_write_sized, buf_write_view, buf_write_file. An empty block asks an
\* empty buffer for no bytes: every second time realloc answers NULL.
NeedsBlock(n) == cap =< len + n
Refused(n) == NeedsBlock(n) /\ cap + n = 0 /\ mem # <<>>

WriteBlock(n) ==
  /\ May("block", n) /\ UNCHANGED cuts
  /\ ~ Refused(n)
  /\ Extend(NeedsBlock(n), n, Data(n), <<>>)

\* fread delivers k of n bytes; buf_write_file says NULL and keeps the length.
ShortRead(n, k) ==
  /\ May("short", n)
  /\ kind = "buffer" /\ cuts < MaxCuts
  /\ cuts' = cuts + 1
  /\ cap' = CapAfter(NeedsBlock(n), n)
  /\ Write(Grow(NeedsBlock(n), n), Data(k))
  /\ len' = len + n
  /\ log' = log \o Data(k) \o [i \in 1..n-k |-> Junk]

\* buf_write_cstr, buf_write_format: strcpy and vsprintf also write a zero.
WriteText(n) ==
  /\ May("text", n) /\ UNCHANGED cuts
  /\ ~ Refused(n)
  /\ Extend(NeedsBlock(n), n, Data(n), <<0>>)

\* realloc has freed the block.
WriteRefused ==
  /\ May("block", 0)
  /\ kind = "buffer" /\ Refused(0)
  /\ mem' = <<>>
  /\ UNCHANGED <<cap, len, log, cuts, broken>>

\* buf_chop, and buf_trunc for all of it.
Chop(n) ==
  /\ kind = "buffer" /\ ~ broken
  /\ len > 0 /\ cuts < MaxCuts
  /\ len' = IF len =< n THEN 0 ELSE len - n
  /\ log' = SubSeq(log, 1, len')
  /\ cuts' = cuts + 1
  /\ op' = "chop"
  /\ UNCHANGED <<kind, cap, mem, broken>>

-----------------------------------------------------------------------------
Init ==
  /\ kind \in Kinds
  /\ cap = FirstCap[kind]
  /\ len = 0
  /\ mem = [i \in 1..cap |-> Junk]
  /\ log = <<>>
  /\ cuts = 0
  /\ op = "init"
  /\ broken = FALSE

Next ==
  \/ Put \/ Pop \/ WriteRefused
  \/ \E w \in {1, 2, 4, 8} : WriteNumber(w)
  \/ \E n \in Sizes : Reserve(n) \/ WriteBlock(n) \/ WriteText(n) \/ Chop(n)
  \/ \E n \in Sizes \ {0} : \E k \in {0, n - 1} : ShortRead(n, k)

Spec == Init /\ [][Next]_vars

-----------------------------------------------------------------------------
(***************************************************************************)
(* Properties.                                                             *)
(***************************************************************************)

\* What the first block of an array that starts without any holds: three ids
\* or pointers. The parser's model stops when a call or a signature has more.
FirstBlock == MinChunk \div 8

\* No operation writes behind the allocation, but for those that do: a text
\* whose closing zero finds no room (bytes.h:343-357, 394-416); the argument
\* past the first block of an array whose capacity starts at 0 and is doubled
\* (parser.c:252, parser.c:37); the type past the twentieth (types.c:42). The
\* stacks of put_ast and the other writes to a buffer never do.
InBounds ==
  broken => \/ kind = "buffer" /\ op = "text" /\ len = Len(mem)
            \/ kind \in {"args", "params"} /\ len > FirstBlock
            \/ kind = "types" /\ len > FirstCap["types"]

\* The capacity the code reckons with is one the allocator has granted, and it
\* is never exceeded: the buffer and the stacks of put_ast.
CapGranted ==
  kind \in {"buffer", "stack"} => len =< cap /\ cap =< Len(mem)

\* What was written stays as it was written, at its place, however the array
\* grew or was shortened meanwhile, until it is taken back; what a short read
\* did not deliver is the one exception (bytes.h:294-296).
ReadBack ==
  /\ len = Len(log)
  /\ ~ broken => \A i \in 1..len : log[i] = Junk \/ mem[i] = log[i]
=============================================================================
