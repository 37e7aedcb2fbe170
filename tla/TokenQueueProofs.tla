-------------------------- MODULE TokenQueueProofs ---------------------------
(***************************************************************************)
(* The lookahead queue of the lexer implements the stream of tokens, for   *)
(* every initial capacity, lookahead and length of the text, whatever the  *)
(* memory past the end of the array holds.                                 *)
(*                                                                         *)
(* The order of the tokens in the array (InOrder) is inductive once the    *)
(* array is known to have a place for each of them (TypeOK). The bound on  *)
(* the text has to be carried along (Bounded), since the guards of the     *)
(* abstract steps mention it.                                              *)
(***************************************************************************)
EXTENDS TokenQueue, TLAPS

\* No token past the bound on the text is cut or asked for.
Bounded == lexed =< TextLength /\ lexed - len + wanted =< TextLength

Inv == TypeOK /\ InOrder /\ Bounded

USE InitialCapAssumption, MaxLookaheadAssumption, TextLengthAssumption

\* The array, its length and the last answer start out empty.
LEMMA InitInv == Init => Inv
  BY DEF Init, Inv, TypeOK, InOrder, Bounded

\* Cutting a token when the array is empty leaves the array empty.
LEMMA NextFromTextInv == Inv /\ NextFromText => Inv'
  BY DEF Inv, TypeOK, InOrder, Bounded, NextFromText

\* The shift of tokens_remove keeps the order; what it reads past the end of
\* the array ends in a place no longer in use.
LEMMA NextFromQueueInv == Inv /\ NextFromQueue => Inv'
<1> SUFFICES ASSUME Inv, NextFromQueue PROVE Inv'
  OBVIOUS
<1>1. PICK junk \in AfterLast : items' = Shifted(junk)
  BY DEF NextFromQueue
<1>2. junk \in Nat \cup {Junk}
  BY <1>1 DEF AfterLast, Anything, Inv, TypeOK
<1>3. TypeOK'
  <2>1. items' \in [0..cap'-1 -> Nat \cup {Junk}]
    BY <1>1, <1>2 DEF Inv, TypeOK, NextFromQueue, Shifted
  <2>2. answer' \in Nat \cup {Junk}
    BY DEF Inv, TypeOK, NextFromQueue
  <2> QED
    BY <2>1, <2>2 DEF Inv, TypeOK, NextFromQueue
<1>4. InOrder'
  <2>1. len' = len - 1 /\ lexed' = lexed /\ len \in Nat \ {0} /\ lexed \in Nat /\ len =< cap /\ cap \in Nat
    BY DEF Inv, TypeOK, NextFromQueue
  <2>2. ASSUME NEW i \in 0..len'-1
        PROVE  items'[i] = lexed' - len' + 1 + i
    <3>1. items'[i] = items[i + 1]
      BY <1>1, <2>1 DEF Shifted
    <3>2. items[i + 1] = lexed - len + 1 + (i + 1)
      BY <2>1 DEF Inv, InOrder
    <3> QED
      BY <2>1, <3>1, <3>2
  <2> QED
    BY <2>1, <2>2 DEF InOrder, Inv
<1>5. Bounded'
  BY DEF Inv, TypeOK, InOrder, Bounded, NextFromQueue
<1> QED
  BY <1>3, <1>4, <1>5 DEF Inv

\* A call of peek_token within the bound.
LEMMA PeekTokenInv == ASSUME Inv, NEW k \in Lookahead, PeekToken(k) PROVE Inv'
  BY DEF Inv, TypeOK, InOrder, Bounded, PeekToken, Lookahead

\* Appending puts the next token of the text behind the others, in the array
\* as it was or in one twice as long.
LEMMA PeekAppendInv == Inv /\ PeekAppend => Inv'
<1> SUFFICES ASSUME Inv, PeekAppend PROVE Inv'
  OBVIOUS
<1>1. PICK junk \in Anything :
        items' = [i \in 0..NewCap-1 |-> IF i = len THEN lexed + 1
                                        ELSE IF i < cap THEN items[i] ELSE junk]
  BY DEF PeekAppend
<1>2. /\ len' = len + 1 /\ lexed' = lexed + 1 /\ cap' = NewCap
      /\ len \in Nat /\ lexed \in Nat /\ cap \in Nat \ {0} /\ len =< cap
  BY DEF Inv, TypeOK, PeekAppend
<1>3. NewCap \in Nat /\ len + 1 =< NewCap /\ cap =< NewCap
  BY <1>2 DEF NewCap
<1>4. TypeOK'
  <2>1. items' \in [0..cap'-1 -> Nat \cup {Junk}]
    BY <1>1, <1>2, <1>3 DEF Anything, Inv, TypeOK
  <2> QED
    BY <1>2, <1>3, <2>1 DEF Inv, TypeOK, PeekAppend
<1>5. InOrder'
  <2>1. ASSUME NEW i \in 0..len'-1
        PROVE  items'[i] = lexed' - len' + 1 + i
    <3>1. CASE i = len
      BY <1>1, <1>2, <1>3, <3>1
    <3>2. CASE i # len
      BY <1>1, <1>2, <1>3, <3>2 DEF Inv, InOrder
    <3> QED
      BY <3>1, <3>2
  <2> QED
    BY <1>2, <2>1 DEF Inv, InOrder
<1>6. Bounded'
  BY <1>2 DEF Inv, TypeOK, Bounded, PeekAppend
<1> QED
  BY <1>4, <1>5, <1>6 DEF Inv

\* peek_token returns.
LEMMA PeekReturnInv == Inv /\ PeekReturn => Inv'
  BY DEF Inv, TypeOK, InOrder, Bounded, PeekReturn, Enough, Seen

\* Every step keeps the invariant.
LEMMA StepInv == Inv /\ [Next]_vars => Inv'
<1> SUFFICES ASSUME Inv, [Next]_vars PROVE Inv'
  OBVIOUS
<1>1. CASE NextFromText
  BY <1>1, NextFromTextInv
<1>2. CASE NextFromQueue
  BY <1>2, NextFromQueueInv
<1>3. CASE \E k \in Lookahead : PeekToken(k)
  BY <1>3, PeekTokenInv
<1>4. CASE PeekAppend
  BY <1>4, PeekAppendInv
<1>5. CASE PeekReturn
  BY <1>5, PeekReturnInv
<1>6. CASE UNCHANGED vars
  BY <1>6 DEF Inv, TypeOK, InOrder, Bounded, vars
<1> QED
  BY <1>1, <1>2, <1>3, <1>4, <1>5, <1>6 DEF Next

\* The array always has a place for every token in it, and the tokens in it
\* are the ones cut last, in order (next_token, peek_token, tokens_*).
THEOREM QueueInvariant == Spec => []Inv
  BY InitInv, StepInv, PTL DEF Spec

\* tokens_append never writes, and peek_token never reads, past the capacity.
THEOREM QueueTypeOK == Spec => []TypeOK
  BY QueueInvariant, PTL DEF Inv

\* The waiting tokens are those cut last, in the order of the text.
THEOREM QueueInOrder == Spec => []InOrder
  BY QueueInvariant, PTL DEF Inv

-----------------------------------------------------------------------------
\* Every step of the queue is a step of the stream, or none.
LEMMA StepRefines == Inv /\ [Next]_vars => [Stream!Next]_Stream!vars
<1> SUFFICES ASSUME Inv, [Next]_vars PROVE [Stream!Next]_Stream!vars
  OBVIOUS
<1> USE DEF Stream!vars, Stream!Next
<1>1. CASE NextFromText
  BY <1>1 DEF Inv, TypeOK, NextFromText, Stream!Take
<1>2. CASE NextFromQueue
  <2>1. items[0] = lexed - len + 1
    BY <1>2 DEF Inv, TypeOK, InOrder, NextFromQueue
  <2> QED
    BY <1>2, <2>1 DEF Inv, TypeOK, Bounded, NextFromQueue, Stream!Take
<1>3. CASE \E k \in Lookahead : PeekToken(k)
  BY <1>3 DEF Inv, TypeOK, PeekToken, Lookahead, Stream!Ask, Stream!Lookahead
<1>4. CASE PeekAppend
  BY <1>4 DEF Inv, TypeOK, PeekAppend
<1>5. CASE PeekReturn
  <2>1. items[wanted - 1] = lexed - len + wanted
    BY <1>5 DEF Inv, TypeOK, InOrder, PeekReturn, Enough
  <2> QED
    BY <1>5, <2>1 DEF Inv, TypeOK, PeekReturn, Enough, Seen, Stream!See
<1>6. CASE UNCHANGED vars
  BY <1>6 DEF vars
<1> QED
  BY <1>1, <1>2, <1>3, <1>4, <1>5, <1>6 DEF Next

\* next_token and peek_token deliver the tokens of the text in order, none
\* twice and none skipped, however the parser mixes them.
THEOREM QueueImplementsStream == Spec => ImplementsStream
<1>1. Init => Stream!Init
  BY DEF Init, Stream!Init
<1> QED
  BY <1>1, QueueInvariant, StepRefines, PTL DEF Spec, ImplementsStream, Stream!Spec
=============================================================================
