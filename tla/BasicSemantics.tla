---------------------------- MODULE BasicSemantics ----------------------------
(***************************************************************************)
(* What a TeenyBASIC program prints and how it is written: the reference   *)
(* for assembly-compiler/, from the programs in progs/ and the comments in *)
(* include/ast.h.                                                          *)
(***************************************************************************)
EXTENDS BasicCompiler

CONSTANTS FUEL   \* rounds of loops that a reference run may take

-----------------------------------------------------------------------------
(* Meaning.  A run is given by the variables, the output, the rounds left  *)
(* and how it stands: "ok", "trap" after a division that has no result, or *)
(* "more" when the rounds were not enough.                                 *)

RECURSIVE Traps(_, _), Value(_, _)

Value(e, env) ==
    CASE e.type = "NUM" -> e.value
      [] e.type = "VAR" -> env[e.name]
      [] OTHER -> Folded(e.op, Value(e.left, env), Value(e.right, env))

Traps(e, env) ==
    /\ e.type = "BINARY_OP"
    /\ \/ Traps(e.left, env) \/ Traps(e.right, env)
       \/ e.op = "/" /\ DivisionTraps(Value(e.left, env), Value(e.right, env))

Relates(op, a, b) == CASE op = "<" -> a < b [] op = "=" -> a = b [] op = ">" -> a > b

Holds(c, env) == Relates(c.op, Value(c.left, env), Value(c.right, env))

Trapped(r) == [r EXCEPT !.state = "trap"]

RECURSIVE Run(_, _), RunAll(_, _, _)

RunAll(list, k, r) ==
    IF k > Len(list) \/ r.state # "ok" THEN r ELSE RunAll(list, k + 1, Run(list[k], r))

RunIf(s, r) ==
    IF Traps(s.condition.left, r.env) \/ Traps(s.condition.right, r.env) THEN Trapped(r)
    ELSE IF Holds(s.condition, r.env) THEN Run(s.if_branch, r)
    ELSE IF s.else_branch # NULL THEN Run(s.else_branch, r) ELSE r

RunOn(s, once) == IF once.state = "ok" THEN Run(s, once) ELSE once

RunWhile(s, r) ==
    IF Traps(s.condition.left, r.env) \/ Traps(s.condition.right, r.env) THEN Trapped(r)
    ELSE IF ~Holds(s.condition, r.env) THEN r
    ELSE IF r.fuel = 0 THEN [r EXCEPT !.state = "more"]
    ELSE RunOn(s, Run(s.body, [r EXCEPT !.fuel = @ - 1]))

Run(s, r) ==
    CASE s.type = "PRINT" -> IF Traps(s.expr, r.env) THEN Trapped(r)
                             ELSE [r EXCEPT !.out = Append(@, Value(s.expr, r.env))]
      [] s.type = "LET" -> IF Traps(s.value, r.env) THEN Trapped(r)
                           ELSE [r EXCEPT !.env[s.var] = Value(s.value, r.env)]
      [] s.type = "SEQUENCE" -> RunAll(s.statements, 1, r)
      [] s.type = "IF" -> RunIf(s, r)
      [] s.type = "WHILE" -> RunWhile(s, r)

Reference(ast, env) == Run(ast, [env |-> env, out |-> <<>>, fuel |-> FUEL, state |-> "ok"])

-----------------------------------------------------------------------------
(* Notation, with as few parentheses as possible.                          *)

RECURSIVE Write(_, _), Lines(_)

Paren(ts) == <<Op("(")>> \o ts \o <<Op(")")>>

\* An operand of an operator of the given level: 0 none, 1 a sum, 2 a
\* product, 3 on the right of a product.
Write(e, level) ==
    CASE e.type = "NUM" -> IF e.value < 0 THEN <<Op("-"), NumToken(-e.value)>>
                                          ELSE <<NumToken(e.value)>>
      [] e.type = "VAR" -> <<VarToken(e.name)>>
      [] OTHER -> LET own == IF e.op \in TermOps THEN 1 ELSE 2
                      ts == Write(e.left, own) \o <<Op(e.op)>> \o Write(e.right, own + 1) IN
                  IF own < level THEN Paren(ts) ELSE ts

WriteCondition(c) == Write(c.left, 0) \o <<Op(c.op)>> \o Write(c.right, 0)

RECURSIVE Joined(_, _)
Joined(list, k) == IF k > Len(list) THEN <<>> ELSE Lines(list[k]) \o Joined(list, k + 1)

Lines(s) ==
    CASE s.type = "PRINT" -> <<Word("PRINT")>> \o Write(s.expr, 0)
      [] s.type = "LET" -> <<Word("LET"), VarToken(s.var), Op("=")>> \o Write(s.value, 0)
      [] s.type = "SEQUENCE" -> Joined(s.statements, 1)
      [] s.type = "IF" ->
           <<Word("IF")>> \o WriteCondition(s.condition) \o Lines(s.if_branch)
             \o (IF s.else_branch = NULL THEN <<>> ELSE <<Word("ELSE")>> \o Lines(s.else_branch))
             \o <<Word("END"), Word("IF")>>
      [] s.type = "WHILE" ->
           <<Word("WHILE")>> \o WriteCondition(s.condition) \o Lines(s.body)
             \o <<Word("END"), Word("WHILE")>>
================================================================================
