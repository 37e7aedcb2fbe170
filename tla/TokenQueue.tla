----------------------------- MODULE TokenQueue ------------------------------
(***************************************************************************)
(* The lookahead of the lexer (src/lexer.c: next_token, peek_token and the *)
(* dynamic array tokens_* under them). Tokens already cut from the text    *)
(* but not taken wait in the array; a token is the number of its place in  *)
(* the text, which stands for the pointer to its token_t.                  *)
(*                                                                         *)
(* realloc is taken to succeed. The memory it adds, and the element one    *)
(* past the end that tokens_remove reads, hold anything.                   *)
(***************************************************************************)
EXTENDS Integers

CONSTANTS
  InitialCap,    \* the capacity lexer_init asks for
  MaxLookahead,  \* how far the parser looks ahead
  TextLength,    \* bound on the tokens taken or looked at
  Junk           \* a pointer to no token

ASSUME InitialCapAssumption == InitialCap \in Nat \ {0}
ASSUME MaxLookaheadAssumption == MaxLookahead \in Nat \ {0}
ASSUME TextLengthAssumption == TextLength \in Nat

VARIABLES
  items,   \* tokens.items: a function on 0..cap-1
  cap,     \* tokens.cap
  len,     \* tokens.len
  lexed,   \* how many tokens __next_token() has cut from the text
  wanted,  \* the lookahead of the call of peek_token under way, or 0
  answer   \* the token the last call returned

vars == <<items, cap, len, lexed, wanted, answer>>

Lookahead == 1..MaxLookahead
Anything  == (1..lexed) \cup {Junk}

\* next_token on an empty array cuts a token from the text.
NextFromText ==
  /\ wanted = 0 /\ len = 0 /\ lexed < TextLength
  /\ lexed' = lexed + 1
  /\ answer' = lexed + 1
  /\ UNCHANGED <<items, cap, len, wanted>>

\* Otherwise tokens_remove(0): every element moves down by one, the last
\* place used is filled from the place after it, which may not be there.
AfterLast == IF len < cap THEN {items[len]} ELSE Anything

\* mutant: the shift stops one place too early.
ShiftedShort(junk) == [i \in 0..cap-1 |-> IF i < len - 2 THEN items[i + 1] ELSE items[i]]
Shifted(junk) ==
  [i \in 0..cap-1 |-> IF i < len - 1 THEN items[i + 1]
                      ELSE IF i = len - 1 THEN junk ELSE items[i]]

NextFromQueue ==
  /\ wanted = 0 /\ len # 0
  /\ answer' = items[0]
  /\ \E junk \in AfterLast : items' = Shifted(junk)
  /\ len' = len - 1
  /\ UNCHANGED <<cap, lexed, wanted>>

\* A call of peek_token, the rounds of its loop, and its return.
PeekToken(k) ==
  /\ wanted = 0 /\ lexed - len + k =< TextLength
  /\ wanted' = k
  /\ UNCHANGED <<items, cap, len, lexed, answer>>

\* tokens_append: the capacity doubles when the array is full.
NeverGrown == cap                     \* mutant: the array is never reallocated
NewCap == IF len = cap THEN 2 * cap ELSE cap

PeekAppend ==
  /\ wanted # 0 /\ len < wanted
  /\ cap' = NewCap
  /\ \E junk \in Anything :
       items' = [i \in 0..NewCap-1 |-> IF i = len THEN lexed + 1
                                       ELSE IF i < cap THEN items[i] ELSE junk]
  /\ len' = len + 1
  /\ lexed' = lexed + 1
  /\ UNCHANGED <<wanted, answer>>

LastCut == items[len - 1]             \* mutant: the token cut last for the one asked for
Enough == len >= wanted
Seen   == items[wanted - 1]

PeekReturn ==
  /\ wanted # 0 /\ Enough
  /\ answer' = Seen
  /\ wanted' = 0
  /\ UNCHANGED <<items, cap, len, lexed>>

Init ==
  /\ cap = InitialCap
  /\ items = [i \in 0..InitialCap-1 |-> Junk]
  /\ len = 0
  /\ lexed = 0
  /\ wanted = 0
  /\ answer = 0

Next ==
  \/ NextFromText \/ NextFromQueue
  \/ (\E k \in Lookahead : PeekToken(k)) \/ PeekAppend \/ PeekReturn

Spec == Init /\ [][Next]_vars

-----------------------------------------------------------------------------
\* Every variable has its type; the array is never used past its capacity.
TypeOK ==
  /\ cap \in Nat \ {0}
  /\ len \in 0..cap
  /\ lexed \in Nat
  /\ items \in [0..cap-1 -> Nat \cup {Junk}]
  /\ wanted \in 0..MaxLookahead
  /\ answer \in Nat \cup {Junk}

\* The array holds the tokens cut last, in the order of the text, without a
\* gap, whatever the shifting and growing left in the places after them.
InOrder ==
  /\ len =< lexed
  /\ \A i \in 0..len-1 : items[i] = lexed - len + 1 + i

\* The parser sees the stream of tokens: one at a time, none twice, none
\* skipped, however lookahead and taking alternate.
Stream == INSTANCE TokenStream WITH pos <- lexed - len
ImplementsStream == Stream!Spec
=============================================================================
