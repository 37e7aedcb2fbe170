------------------------------- MODULE MapSpec -------------------------------
(***************************************************************************)
(* What the compiler relies on when it keeps types, symbols and local      *)
(* variables in an unordered_map_t: a map from names to pointers. A call   *)
(* of um_set or um_get is a request; it takes effect at once, and um_get   *)
(* answers with the value set last, or with NULL.                          *)
(***************************************************************************)
CONSTANTS
  Keys,    \* the names
  Values,  \* the pointers kept under them
  NULL     \* what um_get answers for a name never set

VARIABLES
  map,      \* the value of each name, NULL if there is none
  request,  \* the call under way
  answer    \* what the last call of um_get returned

vars == <<map, request, answer>>

Idle   == [op |-> "idle"]
Set(k, v) == [op |-> "set", key |-> k, val |-> v]
Get(k) == [op |-> "get", key |-> k]
Requests == {Set(k, v) : k \in Keys, v \in Values} \cup {Get(k) : k \in Keys}

Call(r) ==
  /\ request = Idle
  /\ request' = r
  /\ UNCHANGED <<map, answer>>

DoSet ==
  /\ request.op = "set"
  /\ map' = [map EXCEPT ![request.key] = request.val]
  /\ request' = Idle
  /\ UNCHANGED answer

DoGet ==
  /\ request.op = "get"
  /\ answer' = map[request.key]
  /\ request' = Idle
  /\ UNCHANGED map

Init ==
  /\ map = [k \in Keys |-> NULL]
  /\ request = Idle
  /\ answer = NULL

Next == (\E r \in Requests : Call(r)) \/ DoSet \/ DoGet

Spec == Init /\ [][Next]_vars
=============================================================================
