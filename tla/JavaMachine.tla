------------------------------ MODULE JavaMachine ------------------------------
(***************************************************************************)
(* The Java virtual machine of the JVM specification, as far as            *)
(* java-virtual-machine/ knows it: the reference that the tests compare    *)
(* its output with.  Values have kinds, System.out is an operand like any  *)
(* other, wrong indices and divisions throw, and a class that passes the   *)
(* verifier keeps to its max_stack and max_locals.                         *)
(***************************************************************************)
EXTENDS ClassFile, TLC

CONSTANTS
    Methods,      \* the methods of the class: params, returns, max_stack, max_locals
    MethodRefs,   \* the method that each Methodref of the constant pool is
    IntegerRefs,  \* the number that each Integer of the constant pool is
    CODE_LENGTH   \* of each method

IntValue(n) == [k |-> "int", v |-> n]
RefValue(r) == [k |-> "array", v |-> r]
Stream == [k |-> "stream", v |-> 0]

JFrame(m, locals) == [m |-> m, pc |-> 0, stack |-> <<>>, locals |-> locals]

\* A Java program that was started: frames, arrays, what it printed.
Started(m) ==
    [frames |-> <<JFrame(m, <<>>)>>, arrays |-> <<>>, printed |-> <<>>, state |-> "running"]

JTop(j) == j.frames[Len(j.frames)]

\* The value n below the top of the stack, counting from 0.
Operand(j, n) == LET s == JTop(j).stack IN s[Len(s) - n].v

-----------------------------------------------------------------------------
(* What an instruction b, a sequence of bytes, does.                       *)

Short(b) == Signed(b[2] * 256 + b[3], 16)

Arithmetic == (I.i_iadd .. I.i_ixor) \ {I.i_ineg}
Comparisons == I.i_if_icmpeq .. I.i_if_icmple
Branches == (I.i_ifeq .. I.i_if_icmple) \cup {I.i_goto}
Returns == {I.i_return, I.i_ireturn, I.i_areturn}
IntLoads == {I.i_iload} \cup (I.i_iload_0 .. I.i_iload_3)
RefLoads == {I.i_aload} \cup (I.i_aload_0 .. I.i_aload_3)
IntStores == {I.i_istore} \cup (I.i_istore_0 .. I.i_istore_3)
RefStores == {I.i_astore} \cup (I.i_astore_0 .. I.i_astore_3)
Loads == IntLoads \cup RefLoads
Stores == IntStores \cup RefStores
i_pop == \H57

\* The local variable of a load, a store or iinc; the short forms of each
\* type take four opcodes in a row.
Local(b) ==
    IF Len(b) > 1 THEN b[2]
    ELSE (b[1] - (IF b[1] \in Loads THEN I.i_iload_0 ELSE I.i_istore_0)) % 4

\* The kinds of the operands, the top of the stack last.
Operands(b) ==
    CASE b[1] \in Arithmetic \cup Comparisons -> <<"int", "int">>
      [] b[1] = I.i_iastore -> <<"array", "int", "int">>
      [] b[1] = I.i_iaload -> <<"array", "int">>
      [] b[1] = I.i_invokevirtual -> <<"stream", "int">>
      [] b[1] = I.i_invokestatic -> Methods[MethodRefs[b[2] * 256 + b[3]]].params
      [] b[1] \in RefStores \cup {I.i_arraylength, I.i_areturn} -> <<"array">>
      [] b[1] \in (I.i_ifeq .. I.i_ifle) \cup IntStores
                    \cup {I.i_ineg, I.i_newarray, I.i_ireturn, i_pop} -> <<"int">>
      [] OTHER -> <<>>

\* Shifts use the low bits of the amount.
Shift(b) == b % INT_BITS

Unsigned(n) == n % 2^INT_BITS

Bit(n, k) == (Unsigned(n) \div 2^k) % 2

\* The number whose k-th bit is B(k).
WithBits(B(_)) == Int32(MapThenSumSet(LAMBDA k : B(k) * 2^k, 0 .. INT_BITS - 1))

\* Division rounds toward 0; a remainder has the sign of the dividend.
JDivide(a, b) ==
    CASE a >= 0 /\ b > 0 -> a \div b
      [] a < 0 /\ b < 0 -> Int32((-a) \div (-b))
      [] a >= 0 /\ b < 0 -> -(a \div (-b))
      [] a < 0 /\ b > 0 -> -((-a) \div b)

JArithmetic(op, a, b) ==
    CASE op = I.i_iadd -> Int32(a + b)
      [] op = I.i_isub -> Int32(a - b)
      [] op = I.i_imul -> Int32(a * b)
      [] op = I.i_idiv -> JDivide(a, b)
      [] op = I.i_irem -> Int32(a - JDivide(a, b) * b)
      [] op = I.i_ishl -> Int32(a * 2^Shift(b))
      [] op = I.i_ishr -> a \div 2^Shift(b)
      [] op = I.i_iushr -> Int32(Unsigned(a) \div 2^Shift(b))
      [] op = I.i_iand -> WithBits(LAMBDA k : Bit(a, k) * Bit(b, k))
      [] op = I.i_ior -> Int32(a + b - WithBits(LAMBDA k : Bit(a, k) * Bit(b, k)))
      [] op = I.i_ixor -> WithBits(LAMBDA k : (Bit(a, k) + Bit(b, k)) % 2)

\* The values that it pushes.
Results(j, b) ==
    LET op == b[1] IN
    CASE op \in Arithmetic -> <<IntValue(JArithmetic(op, Operand(j, 1), Operand(j, 0)))>>
      [] op = I.i_ineg -> <<IntValue(Int32(-Operand(j, 0)))>>
      [] op = I.i_dup -> <<Last(JTop(j).stack)>>
      [] op = I.i_bipush -> <<IntValue(Signed(b[2], 8))>>
      [] op = I.i_sipush -> <<IntValue(Short(b))>>
      [] op \in I.i_iconst_m1 .. I.i_iconst_5 -> <<IntValue(op - I.i_iconst_0)>>
      [] op = I.i_ldc -> <<IntValue(IntegerRefs[b[2]])>>
      [] op \in Loads -> <<JTop(j).locals[Local(b)]>>
      [] op = I.i_getstatic -> <<Stream>>
      [] op = I.i_newarray -> <<RefValue(Len(j.arrays))>>
      [] op = I.i_arraylength -> <<IntValue(Len(j.arrays[Operand(j, 0) + 1]))>>
      [] op = I.i_iaload -> <<IntValue(j.arrays[Operand(j, 1) + 1][Operand(j, 0) + 1])>>
      [] OTHER -> <<>>

Taken(j, b) ==
    LET Holds(r(_, _)) == IF b[1] \in Comparisons THEN r(Operand(j, 1), Operand(j, 0))
                                                   ELSE r(Operand(j, 0), 0) IN
    \/ b[1] = I.i_goto
    \/ b[1] \in {I.i_ifeq, I.i_if_icmpeq} /\ Holds(LAMBDA x, y : x = y)
    \/ b[1] \in {I.i_ifne, I.i_if_icmpne} /\ Holds(LAMBDA x, y : x # y)
    \/ b[1] \in {I.i_iflt, I.i_if_icmplt} /\ Holds(LAMBDA x, y : x < y)
    \/ b[1] \in {I.i_ifge, I.i_if_icmpge} /\ Holds(LAMBDA x, y : ~(x < y))
    \/ b[1] \in {I.i_ifgt, I.i_if_icmpgt} /\ Holds(LAMBDA x, y : y < x)
    \/ b[1] \in {I.i_ifle, I.i_if_icmple} /\ Holds(LAMBDA x, y : ~(y < x))

Throws(j, b) ==
    LET Outside(r, i) == i + 1 \notin DOMAIN j.arrays[r + 1] IN
    \/ b[1] \in {I.i_idiv, I.i_irem} /\ Operand(j, 0) = 0
    \/ b[1] = I.i_newarray /\ Operand(j, 0) < 0
    \/ b[1] = I.i_iaload /\ Outside(Operand(j, 1), Operand(j, 0))
    \/ b[1] = I.i_iastore /\ Outside(Operand(j, 2), Operand(j, 1))

-----------------------------------------------------------------------------
(* A step, and what the verifier demands of an instruction.                *)

\* The frame after an instruction that is neither a call nor a return.
After(j, b) ==
    LET g == JTop(j)
        rest == SubSeq(g.stack, 1, Len(g.stack) - Len(Operands(b))) IN
    [g EXCEPT
       !.pc = IF Taken(j, b) THEN @ + Short(b) ELSE @ + Len(b),
       !.stack = rest \o Results(j, b),
       !.locals = CASE b[1] \in Stores -> (Local(b) :> g.stack[Len(g.stack)]) @@ @
                    [] b[1] = I.i_iinc ->
                         (b[2] :> IntValue(Int32(@[b[2]].v + Signed(b[3], 8)))) @@ @
                    [] OTHER -> @]

Invoked(j, b) ==
    LET g == JTop(j)
        m == MethodRefs[b[2] * 256 + b[3]]
        n == Len(Methods[m].params)
        args == [i \in 0 .. n - 1 |-> g.stack[Len(g.stack) - n + i + 1]] IN
    [j.frames EXCEPT ![Len(j.frames)].stack = SubSeq(@, 1, Len(@) - n)] \o <<JFrame(m, args)>>

\* The caller goes on behind its invokestatic, which has three bytes.
Returned(j, b) ==
    IF Len(j.frames) = 1 THEN <<>>
    ELSE LET k == Len(j.frames) - 1
             value == IF b[1] = I.i_return THEN <<>> ELSE <<Last(JTop(j).stack)>> IN
         [SubSeq(j.frames, 1, k) EXCEPT ![k].pc = @ + 3, ![k].stack = @ \o value]

JStep(j, b) ==
    IF Throws(j, b) THEN [j EXCEPT !.state = "thrown"]
    ELSE [frames  |-> CASE b[1] = I.i_invokestatic -> Invoked(j, b)
                        [] b[1] \in Returns -> Returned(j, b)
                        [] OTHER -> [j.frames EXCEPT ![Len(j.frames)] = After(j, b)],
          arrays  |-> CASE b[1] = I.i_newarray ->
                             Append(j.arrays, [i \in 1 .. Operand(j, 0) |-> 0])
                        [] b[1] = I.i_iastore ->
                             [j.arrays EXCEPT ![Operand(j, 2) + 1][Operand(j, 1) + 1] = Operand(j, 0)]
                        [] OTHER -> j.arrays,
          printed |-> IF b[1] = I.i_invokevirtual THEN Append(j.printed, Operand(j, 0))
                                                  ELSE j.printed,
          state   |-> IF b[1] \in Returns /\ Len(j.frames) = 1 THEN "done" ELSE "running"]

\* What the verifier has made sure of when b is executed.  Of the language
\* that is supported, println() is the only use of System.out.
Verified(j, b) ==
    LET g == JTop(j)
        method == Methods[g.m]
        Room(n) == Len(g.stack) - Len(Operands(b)) + n <= method.max_stack IN
    /\ IsSuffix(Operands(b), [k \in DOMAIN g.stack |-> g.stack[k].k])
    /\ b[1] = I.i_dup => g.stack # <<>> /\ Last(g.stack) # Stream
    /\ b[1] \in Loads \cup Stores \cup {I.i_iinc} => Local(b) < method.max_locals
    /\ b[1] \in Loads \cup {I.i_iinc} =>
          /\ Local(b) \in DOMAIN g.locals
          /\ g.locals[Local(b)].k = (IF b[1] \in RefLoads THEN "array" ELSE "int")
    /\ b[1] = I.i_return => method.returns = "void"
    /\ b[1] = I.i_ireturn => method.returns = "int"
    /\ b[1] = I.i_areturn => method.returns = "array"
    /\ IF b[1] = I.i_invokestatic
       THEN Room(IF Methods[MethodRefs[b[2] * 256 + b[3]]].returns = "void" THEN 0 ELSE 1)
       ELSE ~Throws(j, b) => Room(Len(Results(j, b)))

\* Whether instruction b may be at address a of a method of which the
\* instructions in text are known, a function from addresses to instructions.
Fits(a, b, text) ==
    LET Bytes(x, i) == x .. x + Len(i) - 1
        taken == UNION {Bytes(x, text[x]) : x \in DOMAIN text}
        Start(x) == /\ x \in 0 .. CODE_LENGTH - 1
                    /\ x \in taken \cup Bytes(a, b) => x \in DOMAIN text \cup {a} IN
    /\ Bytes(a, b) \cap taken = {} /\ Bytes(a, b) \subseteq 0 .. CODE_LENGTH - 1
    /\ b[1] \in Branches => Start(a + Short(b))
    /\ b[1] \notin Returns \cup {I.i_goto} => Start(a + Len(b))
================================================================================
