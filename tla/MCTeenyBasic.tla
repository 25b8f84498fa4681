----------------------------- MODULE MCTeenyBasic -----------------------------
(* Programs for the model checker.                                         *)
EXTENDS TeenyBasic, FiniteSets

A == init_var_node("A")
B == init_var_node("B")
N(n) == init_num_node(n)
Bin(op, l, r) == init_binary_node(op, l, r)
Two(s, t) == init_sequence_node(<<s, t>>)

Arith == {"+", "-", "*", "/"}
Leaves == {N(2), N(3), A}
Over(L, R) == {Bin(op, l, r) : op \in Arith, l \in L, r \in R}
Depth1 == Over(Leaves, Leaves)
Depth2 == Over(Depth1, Leaves \cup {N(-1)}) \cup Over(Leaves, Depth1)
            \cup Over({e \in Depth1 : e.left = A}, {e \in Depth1 : e.op \in {"-", "/"}})

RECURSIVE Constant(_), NoFold(_)
Constant(e) == \/ e.type = "NUM"
               \/ e.type = "BINARY_OP" /\ Constant(e.left) /\ Constant(e.right)
NoFold(e) == e.type = "BINARY_OP" => ~Constant(e) /\ NoFold(e.left) /\ NoFold(e.right)

\* All of it is folded, or nothing.
FoldSafe(e) == Constant(e) \/ NoFold(e)

\* PRINT of everything that folding leaves alone or replaces as a whole, and
\* LET, which does not fold, of all the rest.
MCExpressions ==
    {init_print_node(e) : e \in {x \in Leaves \cup Depth1 \cup Depth2 : FoldSafe(x)}}
      \cup {Two(init_let_node("B", e), init_print_node(B)) :
              e \in {x \in Depth2 : ~FoldSafe(x)}}

Conditions == {Bin(op, A, N(2)) : op \in ComparisonOps}
Simple == {init_print_node(A), init_let_node("A", Bin("+", A, N(1)))}
IfOf(C, S, T) == {init_if_node(c, s, t) : c \in C, s \in S, t \in T}
WhileOf(C, S) == {init_while_node(c, s) : c \in C, s \in S}
Nested == IfOf(Conditions, Simple, Simple \cup {NULL}) \cup WhileOf(Conditions, Simple)

\* Nested IF and WHILE, alone or one after another, then PRINT.
Blocks ==
    Nested
      \cup {Two(s, t) : s \in Nested, t \in Nested}
      \cup IfOf(Conditions, Nested, {NULL} \cup Nested)
      \cup WhileOf(Conditions, {Two(s, t) : s \in Nested, t \in Simple})

MCControl ==
    {init_sequence_node(<<init_let_node("B", A)>>
        \o IF s.type = "SEQUENCE" THEN s.statements ELSE <<s>>) : s \in Blocks}

MCSources == MCExpressions \cup MCControl

MCVars == <<"A", "B">>

Without(ts, k) == SubSeq(ts, 1, k - 1) \o SubSeq(ts, k + 1, Len(ts))
With(ts, k, t) == SubSeq(ts, 1, k - 1) \o <<t>> \o SubSeq(ts, k, Len(ts))

\* Where statements begin.
Starts(ts) == {k \in DOMAIN ts : ts[k].k = "word" /\ (k > 1 => ts[k - 1] # Word("END"))}

MAX_DAMAGED == 33

MCIntact(p) == {Lines(p)}

\* A word that is no statement put in, or PRINT, a parenthesis, the operator
\* of a condition, the = of LET or the word after END left out, in texts that
\* are not longer than IF, ELSE and END IF around two others.
MCDamage(p) ==
    LET ts == Lines(p) IN
    {ts} \cup
    IF Len(ts) > MAX_DAMAGED THEN {}
    ELSE {With(ts, k, Word("REM")) : k \in Starts(ts)}
         \cup {Without(ts, k) : k \in
                 {k \in DOMAIN ts : \/ ts[k] \in {Word("PRINT"), Op("("), Op(")")}
                                    \/ ts[k].k = "op" /\ ts[k].v \in ComparisonOps
                                    \/ k > 1 /\ ts[k - 1] = Word("END")}}

\* PRINT 1 + 2 + A
MCPartlyConstant == {init_print_node(Bin("+", Bin("+", N(1), N(2)), A))}
================================================================================
