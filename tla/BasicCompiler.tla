----------------------------- MODULE BasicCompiler -----------------------------
(***************************************************************************)
(* assembly-compiler/src/compile.c: from the nodes of a program to x86-64  *)
(* instructions.  An instruction is a record; a label is the name and the  *)
(* number that make it.  Values have VALUE_BITS bits.                      *)
(***************************************************************************)
EXTENDS BasicParser

CONSTANTS VALUE_BITS

Wrap(n) == ((n + 2^(VALUE_BITS - 1)) % 2^VALUE_BITS) - 2^(VALUE_BITS - 1)

Magnitude(n) == IF n < 0 THEN -n ELSE n

\* The quotient of C and of idiv, and when there is none.
Truncated(a, b) ==
    LET q == Magnitude(a) \div Magnitude(b) IN IF (a < 0) = (b < 0) THEN q ELSE -q

DivisionTraps(a, b) == b = 0 \/ (a = -(2^(VALUE_BITS - 1)) /\ b = -1)

-----------------------------------------------------------------------------
(* Folding of constants.  compute_folds changes nodes in place: the sum of *)
(* two numbers is stored in the left one, which *node is made to point to. *)
(* But the pointers that it changes below its argument are its own         *)
(* variables left and right, and the tree keeps the old node, whose        *)
(* leftmost leaf is the number that was overwritten.                       *)

Folded(op, a, b) ==
    CASE op = "+" -> Wrap(a + b)
      [] op = "-" -> Wrap(a - b)
      [] op = "*" -> Wrap(a * b)
      [] op = "/" -> Truncated(a, b)

\* The tree with its leftmost leaf overwritten.
RECURSIVE Overwrite(_, _)
Overwrite(tree, value) ==
    IF tree.type = "NUM" THEN init_num_node(value)
    ELSE [tree EXCEPT !.left = Overwrite(tree.left, value)]

\* tree: what the old pointers show afterwards; node: what *node points to;
\* traps: whether the compiler itself divides by zero.  left and right are the
\* operands, folded.
FoldOperands(e, left, right) ==
    LET kept == [e EXCEPT !.left = left.tree, !.right = right.tree]
        both == /\ left.node.type = "NUM" /\ right.node.type = "NUM"
                /\ e.op \in TermOps \cup FactorOps IN
    IF left.traps \/ right.traps \/
       (both /\ e.op = "/" /\ DivisionTraps(left.node.value, right.node.value))
    THEN [tree |-> e, node |-> e, traps |-> TRUE]
    ELSE IF both
    THEN LET value == Folded(e.op, left.node.value, right.node.value) IN
         [tree |-> Overwrite(kept, value), node |-> init_num_node(value), traps |-> FALSE]
    ELSE [tree |-> kept, node |-> kept, traps |-> FALSE]

RECURSIVE compute_folds(_)
compute_folds(e) ==
    IF e.type # "BINARY_OP" THEN [tree |-> e, node |-> e, traps |-> FALSE]
    ELSE FoldOperands(e, compute_folds(e.left), compute_folds(e.right))

-----------------------------------------------------------------------------
(* Code, with the counters if_local and while_local after it.              *)

Ins(op) == [op |-> op]
Arg(op, arg) == [op |-> op, arg |-> arg]

Code(code, ifs, whiles, traps) ==
    [code |-> code, if_local |-> ifs, while_local |-> whiles, traps |-> traps]

\* The value is a power of two greater than 1, and which.
Exponents(value) == {k \in 1 .. VALUE_BITS - 2 : 2^k = value}

Operation(op) ==
    CASE op \in ComparisonOps -> <<Ins("cmp")>>
      [] op = "+" -> <<Ins("add")>>
      [] op = "-" -> <<Ins("sub")>>
      [] op = "*" -> <<Ins("imul")>>
      [] op = "/" -> <<Ins("idiv")>>      \* with rax and rdx set up before
      [] OTHER -> <<>>

RECURSIVE Expression(_)

\* left in rdi and right in rcx
Operands(left, right) ==
    Expression(left) \o <<Ins("push")>> \o Expression(right)
      \o <<Ins("push"), Ins("pop rcx"), Ins("pop rdi")>>

\* compile_ast of a number, a variable or a binary operation; check_power_two
Expression(e) ==
    CASE e.type = "NUM" -> <<Arg("mov", e.value)>>
      [] e.type = "VAR" -> <<Arg("load", e.name)>>
      [] e.type = "BINARY_OP" ->
           IF e.op = "*" /\ e.right.type = "NUM" /\ Exponents(e.right.value) # {}
           THEN Expression(e.left)
                  \o <<Arg("shl", CHOOSE k \in Exponents(e.right.value) : TRUE)>>
           ELSE Operands(e.left, e.right) \o Operation(e.op)

\* variant: equal numbers take neither jump of '<'
Jumps_Strict(op, yes, no) ==
    CASE op = "<" -> <<Arg("jl", yes), Arg("jg", no)>>
      [] op = ">" -> <<Arg("jg", yes), Arg("jle", no)>>
      [] op = "=" -> <<Arg("je", yes), Arg("jne", no)>>
      [] OTHER -> <<>>

\* The two jumps after a condition; none if the operator is '\0'.
Jumps(op, yes, no) ==
    CASE op = "<" -> <<Arg("jl", yes), Arg("jge", no)>>
      [] op = ">" -> <<Arg("jg", yes), Arg("jle", no)>>
      [] op = "=" -> <<Arg("je", yes), Arg("jne", no)>>
      [] OTHER -> <<>>

\* variant: the counter is not kept in cur_local, so that the labels behind
\* the first branch have the number of the last IF inside it
LabelAfter_Counter(counter, cur_local) == counter

\* cur_local is the number of this IF or WHILE.
LabelAfter(counter, cur_local) == cur_local

RECURSIVE compile_ast(_, _, _), Statements(_, _, _, _)

Then(first, rest) ==
    Code(first.code \o rest.code, rest.if_local, rest.while_local, first.traps \/ rest.traps)

StatementsAfter(list, k, first) ==
    Then(first, Statements(list, k + 1, first.if_local, first.while_local))

\* The statements from the k-th on.
Statements(list, k, ifs, whiles) ==
    IF k > Len(list) THEN Code(<<>>, ifs, whiles, FALSE)
    ELSE StatementsAfter(list, k, compile_ast(list[k], ifs, whiles))

\* folds, yes and no: the condition folded, and the code of the branches; the
\* labels before the first branch have number n, those behind it number e
IfCode(node, n, e, folds, yes, no) ==
    Code(Expression(folds.node)
           \o Jumps(node.condition.op, <<"IF", n>>,
                    IF node.else_branch # NULL THEN <<"ELSE", n>> ELSE <<"END_IF", n>>)
           \o <<Arg("label", <<"IF", n>>)>> \o yes.code
           \o <<Arg("jmp", <<"END_IF", e>>), Arg("label", <<"ELSE", e>>)>> \o no.code
           \o <<Arg("label", <<"END_IF", e>>)>>,
         no.if_local, no.while_local, folds.traps \/ yes.traps \/ no.traps)

IfElse(node, n, yes) ==
    IfCode(node, n, LabelAfter(yes.if_local, n), compute_folds(node.condition), yes,
           IF node.else_branch # NULL
           THEN compile_ast(node.else_branch, yes.if_local, yes.while_local)
           ELSE Code(<<>>, yes.if_local, yes.while_local, FALSE))

If(node, ifs, whiles) == IfElse(node, ifs + 1, compile_ast(node.if_branch, ifs + 1, whiles))

\* variant: a loop goes back behind its condition
Back_Body(n) == <<"WHILE", n>>

\* Where a loop goes back to.
Back(n) == <<"START_WHILE", n>>

WhileCode(node, n, folds, body) ==
    Code(<<Arg("label", <<"START_WHILE", n>>)>> \o Expression(folds.node)
           \o Jumps(node.condition.op, <<"WHILE", n>>, <<"WHILE_END", n>>)
           \o <<Arg("label", <<"WHILE", n>>)>> \o body.code
           \o <<Arg("jmp", Back(n)), Arg("label", <<"WHILE_END", n>>)>>,
         body.if_local, body.while_local, folds.traps \/ body.traps)

While(node, ifs, whiles) ==
    WhileCode(node, whiles + 1, compute_folds(node.condition),
              compile_ast(node.body, ifs, whiles + 1))

PrintCode(folds, ifs, whiles) ==
    Code(Expression(folds.node) \o <<Ins("call print_int")>>, ifs, whiles, folds.traps)

compile_ast(node, ifs, whiles) ==
    CASE node.type = "PRINT" -> PrintCode(compute_folds(node.expr), ifs, whiles)
      [] node.type = "LET" ->
           Code(Expression(node.value) \o <<Arg("store", node.var)>>, ifs, whiles, FALSE)
      [] node.type = "SEQUENCE" -> Statements(node.statements, 1, ifs, whiles)
      [] node.type = "IF" -> If(node, ifs, whiles)
      [] node.type = "WHILE" -> While(node, ifs, whiles)

\* main() of compiler.c: header, code and footer
Assembly(compiled) == <<Ins("enter")>> \o compiled.code \o <<Ins("leave"), Ins("ret")>>
================================================================================
