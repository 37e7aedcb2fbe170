------------------------------- MODULE Meaning -------------------------------
(***************************************************************************)
(* What a function of the language computes, given as its tree, and what   *)
(* the QBE instructions of Codegen compute. Integers are taken modulo      *)
(* `Modulus', a call of a function is an arbitrary fixed function of its   *)
(* arguments, and both evaluations carry fuel, so that loops that do not   *)
(* end are told apart from the others.                                     *)
(*                                                                         *)
(* The first is the reading of the source a programmer has in mind, the    *)
(* second the semantics of QBE (external): slots are its temporaries.      *)
(***************************************************************************)
EXTENDS Integers, Sequences, SequencesExt, Functions

CONSTANTS
  Modulus,    \* integers are 0..Modulus-1
  NumberOf,   \* the value of each literal and string: a function
  Fuel        \* how many steps an evaluation may take

Arith(op, l, r) ==
  CASE op \in {"A_INT_PLUS", "add"}   -> (l + r) % Modulus
    [] op \in {"A_INT_MINUS", "sub"}  -> (l - r + Modulus) % Modulus
    [] op \in {"A_INT_MUL", "mul"}    -> (l * r) % Modulus
    [] op \in {"A_INT_DIV", "div"}    -> IF r = 0 THEN 0 ELSE l \div r
    [] op \in {"A_INT_EQ", "ceqw"}    -> IF l = r THEN 1 ELSE 0
    [] op \in {"A_INT_NEQ", "cnew"}   -> IF l # r THEN 1 ELSE 0

Operators == {"A_INT_PLUS", "A_INT_MINUS", "A_INT_MUL", "A_INT_DIV",
              "A_INT_EQ", "A_INT_NEQ", "add", "sub", "mul", "div", "ceqw", "cnew"}

\* A call of an unknown function: its arguments count by position.
Applied(args) ==
  LET weight[i \in 0..Len(args)] ==
        IF i = 0 THEN 1 ELSE (weight[i-1] * 2 + args[i]) % Modulus
  IN  weight[Len(args)]

-----------------------------------------------------------------------------
\* k: "value" (go on), "returned" or "slow" (out of fuel).
Outcome(k, v, env, fuel) == [k |-> k, v |-> v, env |-> env, fuel |-> fuel]

RECURSIVE Eval(_, _, _), EvalAll(_, _, _), Args(_, _, _)

\* The values of independent expressions, evaluated in one environment.
Args(nodes, env, fuel) == [i \in 1..Len(nodes) |-> Eval(nodes[i], env, fuel).v]

EvalAll(nodes, env, fuel) ==
  LET first == Eval(nodes[1], env, fuel)
  IN  IF Len(nodes) = 1 \/ first.k # "value" THEN first
      ELSE EvalAll(Tail(nodes), first.env, first.fuel)

Eval(node, env, fuel) ==
  LET Value(v)    == Outcome("value", v, env, fuel)
      Bound(x, e) == LET r == Eval(e, env, fuel)
                     IN  [r EXCEPT !.env = [y \in DOMAIN env \cup {x} |->
                                              IF y = x THEN r.v ELSE env[y]]]
  IN
  CASE fuel = 0 -> Outcome("slow", 0, env, 0)
    [] node.t \in Operators ->
         Value(Arith(node.t, Eval(node.kids[2], env, fuel).v,
                             Eval(node.kids[1], env, fuel).v))
    [] node.t \in {"A_INT_LITERAL", "A_STR_LITERAL"} -> Value(NumberOf[node.lexeme])
    [] node.t = "A_IDENT" -> Value(env[node.lexeme])
    [] node.t = "A_CALL_FINISHED" -> Value(Applied(Args(Reverse(node.kids), env, fuel)))
    [] node.t \in {"EXPR_TO_VOID", "A_DECL_LOCAL"} -> Value(0)
    [] node.t = "A_DECL_ASSIGNMENT" -> Bound(node.lexeme, node.kids[1])
    [] node.t = "A_ASSIGNMENT" -> Bound(node.kids[1].lexeme, node.kids[2])
    [] node.t = "A_RET" ->
         LET r == Eval(node.kids[1], env, fuel)
         IN  IF r.k = "value" THEN [r EXCEPT !.k = "returned"] ELSE r
    [] node.t = "A_BLOCK" -> EvalAll(node.kids, env, fuel)
    [] node.t = "A_COND" ->
         LET branch == IF Eval(node.kids[1], env, fuel).v # 0
                       THEN node.kids[2] ELSE node.kids[3]
         IN  IF branch.t = "NULL" THEN Value(0) ELSE Eval(branch, env, fuel)
    [] node.t = "A_WHILE" ->
         IF Eval(node.kids[1], env, fuel).v = 0 THEN Value(0)
         ELSE LET round == Eval(node.kids[2], env, fuel - 1)
              IN  IF round.k = "value" THEN Eval(node, round.env, round.fuel)
                                       ELSE round

\* What a function returns for these arguments.
Computes(f, args) ==
  LET env == [x \in Range(f.params) |->
                args[CHOOSE i \in 1..Len(f.params) : f.params[i] = x]]
      r == EvalAll(f.body, env, Fuel)
  IN  [k |-> r.k, v |-> r.v]

-----------------------------------------------------------------------------
\* QBE: the value of an operand, the instruction a label stands before.
Operand(v, slots) ==
  CASE v.k = "slot" -> IF v.n \in DOMAIN slots THEN slots[v.n] ELSE 0
    [] v.k \in {"imm", "data"} -> NumberOf[v.lexeme]
    [] OTHER -> 0

Position(code, label) ==
  CHOOSE i \in 1..Len(code) : code[i].op = "label" /\ code[i].labels[1] = label

RECURSIVE Exec(_, _, _, _)
Exec(code, i, slots, fuel) ==
  IF fuel = 0 THEN [k |-> "slow", v |-> 0]
  ELSE IF i > Len(code) THEN [k |-> "value", v |-> 0]
  ELSE
    LET ins  == code[i]
        arg  == [j \in 1..Len(ins.args) |-> Operand(ins.args[j], slots)]
        Put(v) == [s \in DOMAIN slots \cup {ins.dst} |->
                     IF s = ins.dst THEN v ELSE slots[s]]
        Go(l)  == Exec(code, Position(code, l), slots, fuel - 1)
    IN
    CASE ins.op = "label" -> Exec(code, i + 1, slots, fuel)
      [] ins.op = "jmp"   -> Go(ins.labels[1])
      [] ins.op = "jnz"   -> Go(ins.labels[IF arg[1] # 0 THEN 1 ELSE 2])
      [] ins.op = "ret"   -> [k |-> "returned", v |-> arg[1]]
      [] ins.op = "copy"  -> Exec(code, i + 1, Put(arg[1]), fuel)
      [] ins.op = "call"  -> Exec(code, i + 1, Put(Applied(arg)), fuel)
      [] ins.op \in Operators ->
           Exec(code, i + 1, Put(Arith(ins.op, arg[1], arg[2])), fuel)

\* The arguments of a function are its slots %x0, %x1 ...
Runs(code, args) ==
  Exec(code, 1, [s \in 0..Len(args)-1 |-> args[s + 1]], 10 * Fuel)
=============================================================================
