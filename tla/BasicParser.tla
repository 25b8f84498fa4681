----------------------------- MODULE BasicParser -----------------------------
(***************************************************************************)
(* assembly-compiler/src/parser.c: recursive descent.  The text is a       *)
(* sequence of tokens, words, variables, numbers of one digit and          *)
(* operators, without comments, and with no space after an operator; the   *)
(* parser state is the place of the next token.  Texts that have a word    *)
(* where an operand is expected are not considered: the parser would take  *)
(* its first letter for a variable.                                        *)
(***************************************************************************)
EXTENDS Integers, Sequences

(***************************************************************************)
(* ast.c: the nodes of a program.  A constructor that is given NULL where  *)
(* a node is needed returns NULL; it frees what it was given, which is     *)
(* left out.                                                               *)
(***************************************************************************)
NULL == [type |-> "NULL"]

init_num_node(value) == [type |-> "NUM", value |-> value]

init_binary_node(op, left, right) ==
    IF left = NULL \/ right = NULL THEN NULL
    ELSE [type |-> "BINARY_OP", op |-> op, left |-> left, right |-> right]

init_var_node(name) == [type |-> "VAR", name |-> name]

init_sequence_node(statements) == [type |-> "SEQUENCE", statements |-> statements]

init_print_node(expr) == IF expr = NULL THEN NULL ELSE [type |-> "PRINT", expr |-> expr]

init_let_node(var, value) ==
    IF value = NULL THEN NULL ELSE [type |-> "LET", var |-> var, value |-> value]

init_if_node(condition, if_branch, else_branch) ==
    IF condition = NULL \/ if_branch = NULL THEN NULL
    ELSE [type |-> "IF", condition |-> condition, if_branch |-> if_branch,
          else_branch |-> else_branch]

init_while_node(condition, body) ==
    IF condition = NULL \/ body = NULL THEN NULL
    ELSE [type |-> "WHILE", condition |-> condition, body |-> body]

FactorOps == {"*", "/"}
TermOps == {"+", "-"}
ComparisonOps == {"<", "=", ">"}

-----------------------------------------------------------------------------

Word(w) == [k |-> "word", v |-> w]
VarToken(x) == [k |-> "var", v |-> x]
NumToken(n) == [k |-> "num", v |-> n]
Op(o) == [k |-> "op", v |-> o]

\* What a parsing function returns: a node and the place after it.
Parsed(node, at) == [node |-> node, at |-> at]

IsKind(ts, at, k) == at \in DOMAIN ts /\ ts[at].k = k

IsWord(ts, at, w) == IsKind(ts, at, "word") /\ ts[at].v = w

\* try_advance succeeds.
NextIs(ts, at, ops) == IsKind(ts, at, "op") /\ ts[at].v \in ops

Failed(at) == Parsed(NULL, at)

\* advance_until_separator: an operator is read with the token behind it.
AfterSeparator(ts, at) ==
    IF at \notin DOMAIN ts THEN at
    ELSE IF ts[at].k = "op" /\ (IsKind(ts, at + 1, "num") \/ IsKind(ts, at + 1, "var"))
    THEN at + 2 ELSE at + 1

RECURSIVE expression(_, _), term_rest(_, _), expression_rest(_, _)
RECURSIVE sequence(_, _, _), statement(_, _)

\* strtol reads a sign with the digits.
num(ts, at) ==
    IF IsKind(ts, at, "num") THEN Parsed(init_num_node(ts[at].v), at + 1)
    ELSE IF NextIs(ts, at, {"-"}) /\ IsKind(ts, at + 1, "num")
    THEN Parsed(init_num_node(-ts[at + 1].v), at + 2)
    ELSE IF NextIs(ts, at, {"+"}) /\ IsKind(ts, at + 1, "num")
    THEN Parsed(init_num_node(ts[at + 1].v), at + 2)
    ELSE Failed(AfterSeparator(ts, at))

\* e: what was read after the parenthesis
Enclosed(ts, e) ==
    IF NextIs(ts, e.at, {")"}) THEN Parsed(e.node, e.at + 1) ELSE Failed(e.at)

factor(ts, at) ==
    IF NextIs(ts, at, {"("}) THEN Enclosed(ts, expression(ts, at + 1))
    ELSE IF IsKind(ts, at, "var") THEN Parsed(init_var_node(ts[at].v), at + 1)
    ELSE num(ts, at)

\* left and right of the operator between them
Joining(op, left, right) == Parsed(init_binary_node(op, left.node, right.node), right.at)

\* The loop of term: left is what was read so far.
term_rest(ts, left) ==
    IF NextIs(ts, left.at, FactorOps)
    THEN term_rest(ts, Joining(ts[left.at].v, left, factor(ts, left.at + 1)))
    ELSE left

term(ts, at) == term_rest(ts, factor(ts, at))

\* variant: the right operand of a sum is all that follows, so subtraction
\* associates to the right
expression_rest_Right(ts, left) ==
    IF NextIs(ts, left.at, TermOps)
    THEN Joining(ts[left.at].v, left, expression(ts, left.at + 1))
    ELSE left

expression_rest(ts, left) ==
    IF NextIs(ts, left.at, TermOps)
    THEN expression_rest(ts, Joining(ts[left.at].v, left, term(ts, left.at + 1)))
    ELSE left

expression(ts, at) == expression_rest(ts, term(ts, at))

\* If there is no comparison operator, op is '\0' and parsing goes on.
comparison_rest(ts, left, has) ==
    Joining(IF has THEN ts[left.at].v ELSE "none", left,
            expression(ts, IF has THEN left.at + 1 ELSE left.at))

comparison_of(ts, left) == comparison_rest(ts, left, NextIs(ts, left.at, ComparisonOps))

comparison(ts, at) == comparison_of(ts, expression(ts, at))

\* A statement that did not end the sequence it is in, and one that did.
Goes(p) == [node |-> p.node, at |-> p.at, end |-> FALSE]
Ends(at) == [node |-> NULL, at |-> at, end |-> TRUE]

\* END and the word that must follow it; what is read if they are not there.
Closes(ts, at, w) == IsWord(ts, at, "END") /\ IsWord(ts, at + 1, w)

Unclosed(ts, at) ==
    LET next == AfterSeparator(ts, at) IN
    Failed(IF IsWord(ts, at, "END") THEN AfterSeparator(ts, next) ELSE next)

LetParsed(x, e) == Parsed(init_let_node(x, e.node), e.at)

let(ts, at) ==
    IF IsKind(ts, at, "var") /\ NextIs(ts, at + 1, {"="})
    THEN LetParsed(ts[at].v, expression(ts, at + 2))
    ELSE Failed(IF IsKind(ts, at, "var") THEN at + 2 ELSE at + 1)

\* if() and while() after each of the parts that they read
if_closed(ts, condition, if_branch, else_branch) ==
    IF Closes(ts, else_branch.at, "IF")
    THEN Parsed(init_if_node(condition.node, if_branch.node, else_branch.node),
                else_branch.at + 2)
    ELSE Unclosed(ts, else_branch.at)

if_else(ts, condition, if_branch) ==
    if_closed(ts, condition, if_branch,
              IF IsWord(ts, if_branch.at, "ELSE") THEN sequence(ts, if_branch.at + 1, <<>>)
                                                  ELSE Parsed(NULL, if_branch.at))

if_then(ts, condition) == if_else(ts, condition, sequence(ts, condition.at, <<>>))

if(ts, at) == if_then(ts, comparison(ts, at))

while_closed(ts, condition, body) ==
    IF Closes(ts, body.at, "WHILE")
    THEN Parsed(init_while_node(condition.node, body.node), body.at + 2)
    ELSE Unclosed(ts, body.at)

while_body(ts, condition) == while_closed(ts, condition, sequence(ts, condition.at, <<>>))

while(ts, at) == while_body(ts, comparison(ts, at))

PrintParsed(e) == Parsed(init_print_node(e.node), e.at)

statement(ts, at) ==
    CASE at \notin DOMAIN ts -> Ends(at)
      [] IsWord(ts, at, "ELSE") -> Ends(at)
      [] Closes(ts, at, "IF") \/ Closes(ts, at, "WHILE") -> Ends(at)
      [] IsWord(ts, at, "PRINT") -> Goes(PrintParsed(expression(ts, at + 1)))
      [] IsWord(ts, at, "LET") -> Goes(let(ts, at + 1))
      [] IsWord(ts, at, "IF") -> Goes(if(ts, at + 1))
      [] IsWord(ts, at, "WHILE") -> Goes(while(ts, at + 1))
      [] OTHER -> Goes(IF IsWord(ts, at, "END") THEN Unclosed(ts, at)
                                                ELSE Failed(AfterSeparator(ts, at)))

\* A sequence of one statement is that statement.
sequence_rest(ts, statements, next) ==
    IF next.end
    THEN Parsed(IF Len(statements) = 1 THEN statements[1]
                                       ELSE init_sequence_node(statements), next.at)
    ELSE IF next.node = NULL THEN Failed(next.at)
    ELSE sequence(ts, next.at, Append(statements, next.node))

sequence(ts, at, statements) == sequence_rest(ts, statements, statement(ts, at))

\* All of the text has to be read.
Whole(ts, ast) == IF ast.at > Len(ts) THEN ast.node ELSE NULL

parse(ts) == Whole(ts, sequence(ts, 1, <<>>))
================================================================================
