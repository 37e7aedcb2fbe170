----------------------------- MODULE TokenStream -----------------------------
(***************************************************************************)
(* What the parser relies on when it calls next_token and peek_token: the  *)
(* tokens of the text are numbered 1, 2, 3 ... in the order the lexer cuts *)
(* them; taking one delivers the next number, looking ahead delivers a     *)
(* later one and takes nothing.                                            *)
(***************************************************************************)
EXTENDS Integers

CONSTANTS
  MaxLookahead,  \* how far the parser looks ahead
  TextLength     \* bound on the tokens taken or looked at

VARIABLES
  pos,     \* how many tokens have been taken
  wanted,  \* the lookahead of the call of peek_token under way, or 0
  answer   \* the token the last call returned

vars == <<pos, wanted, answer>>

Lookahead == 1..MaxLookahead

Take ==
  /\ wanted = 0 /\ pos < TextLength
  /\ pos' = pos + 1
  /\ answer' = pos + 1
  /\ UNCHANGED wanted

Ask(k) ==
  /\ wanted = 0 /\ pos + k =< TextLength
  /\ wanted' = k
  /\ UNCHANGED <<pos, answer>>

See ==
  /\ wanted # 0
  /\ answer' = pos + wanted
  /\ wanted' = 0
  /\ UNCHANGED pos

Init ==
  /\ pos = 0
  /\ wanted = 0
  /\ answer = 0

Next == Take \/ (\E k \in Lookahead : Ask(k)) \/ See

Spec == Init /\ [][Next]_vars
=============================================================================
