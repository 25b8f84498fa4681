---------------------------------- MODULE JVM ----------------------------------
(***************************************************************************)
(* java-virtual-machine/jvm.c and heap.c: TeenyJVM interprets the bytecode *)
(* of one class.  The recursion of execute() is the sequence frames; the   *)
(* code of a method is a function from addresses to bytes.  The int type   *)
(* has INT_BITS bits.  The build instruments memory accesses but not       *)
(* integer arithmetic: sums and products wrap, the processor masks the     *)
(* amount of a shift, and it traps on the one quotient that overflows.     *)
(***************************************************************************)
EXTENDS ClassFile

CONSTANTS
    MAX_FRAMES     \* how deep calls go before a behaviour is no longer followed

VARIABLES
    file,     \* the class file
    class,    \* what get_class made of it
    code,     \* for each method, its bytes
    frames,   \* the active calls of execute(), innermost last
    heap,     \* heap_t: arrays, each with its length in front
    output,   \* what was printed
    status

jvmVars == <<file, class, code, frames, heap, output, status>>

-----------------------------------------------------------------------------
(* The frame on top.  A handler is given by the frame it leaves.           *)

\* A call of execute(): the stack is empty and zero.
Frame(m, method, locals) ==
    [m |-> m, pc |-> 0, stack_p |-> 0,
     stack  |-> [s \in 0 .. method.max_stack - 1 |-> 0],
     locals |-> locals]

Running == status = "running"

f == frames[Len(frames)]

cur_method == code[f.m][f.pc]

Byte(k) == code[f.m][f.pc + k]

SignedByte(k) == Signed(Byte(k), 8)

UnsignedShort == Byte(1) * 256 + Byte(2)

SignedShort == Signed(UnsignedShort, 16)

\* The n-th slot of the stack from the top, counting from 1.
Top(n) == f.stack[f.stack_p - n]

Push(g, v) == [g EXCEPT !.stack[g.stack_p] = v, !.stack_p = @ + 1]

\* Popped slots are overwritten with 0.
Pop(g, n) ==
    [g EXCEPT !.stack = [s \in DOMAIN g.stack |->
                            IF s \in g.stack_p - n .. g.stack_p - 1 THEN 0 ELSE g.stack[s]],
              !.stack_p = @ - n]

\* What a handler adds to pc, and then the loop.
Skip(g, n) == [g EXCEPT !.pc = @ + n + 1]

Continue(g) ==
    /\ frames' = [frames EXCEPT ![Len(frames)] = g]
    /\ UNCHANGED <<file, class, code, heap, output, status>>

Stop(s) ==
    /\ status' = s
    /\ UNCHANGED <<file, class, code, frames, heap, output>>

-----------------------------------------------------------------------------
(* Memory that the next instruction uses.                                  *)

Pushes == {I.i_bipush, I.i_sipush, I.i_ldc, I.i_iload, I.i_aload}
            \cup (I.i_iconst_m1 .. I.i_iconst_5)
            \cup (I.i_iload_0 .. I.i_iload_3) \cup (I.i_aload_0 .. I.i_aload_3)

Slots ==
    LET sp == f.stack_p
        Used(n) == sp - n .. sp - 1 IN
    CASE cur_method \in Pushes -> {sp}
      [] cur_method \in {I.i_invokevirtual, I.i_dup} -> {sp - 1, sp}
      [] cur_method = I.i_iastore -> Used(3)
      [] cur_method = I.i_ineg -> Used(1)
      [] cur_method \in (I.i_iadd .. I.i_ixor) \cup (I.i_if_icmpeq .. I.i_if_icmple)
                          \cup {I.i_iaload} -> Used(2)
      [] cur_method \in (I.i_ifeq .. I.i_ifle) \cup (I.i_istore_0 .. I.i_istore_3)
                          \cup (I.i_astore_0 .. I.i_astore_3)
                          \cup {I.i_istore, I.i_astore, I.i_ireturn, I.i_areturn,
                                I.i_newarray, I.i_arraylength} -> Used(1)
      [] OTHER -> {}

LocalSlots ==
    CASE cur_method \in {I.i_iload, I.i_istore, I.i_iinc, I.i_aload, I.i_astore} -> {Byte(1)}
      [] cur_method \in I.i_iload_0 .. I.i_iload_3 -> {cur_method - I.i_iload_0}
      [] cur_method \in I.i_istore_0 .. I.i_istore_3 -> {cur_method - I.i_istore_0}
      [] cur_method \in I.i_aload_0 .. I.i_aload_3 -> {cur_method - I.i_aload_0}
      [] cur_method \in I.i_astore_0 .. I.i_astore_3 -> {cur_method - I.i_astore_0}
      [] OTHER -> {}

\* Whether a reference is one and an index is within the array or its length.
InArray(ref, i) == ref + 1 \in DOMAIN heap /\ i + 1 \in DOMAIN heap[ref + 1]

InBounds ==
    /\ Slots \subseteq DOMAIN f.stack
    /\ LocalSlots \subseteq DOMAIN f.locals
    /\ cur_method = I.i_newarray => Top(1) >= 0
    /\ cur_method = I.i_arraylength => InArray(Top(1), -1)
    /\ cur_method = I.i_iaload => InArray(Top(2), Top(1))
    /\ cur_method = I.i_iastore => InArray(Top(3), Top(2))

\* The loop of execute() is about to handle an instruction.
Executes(ops) ==
    /\ Running /\ frames # <<>>
    /\ f.pc \in DOMAIN code[f.m]
    /\ cur_method \in ops
    /\ InBounds

-----------------------------------------------------------------------------
(* Arithmetic.                                                             *)

Abs(n) == IF n < 0 THEN -n ELSE n

\* a / b and a % b in C
Quotient(a, b) ==
    IF (a < 0) = (b < 0) THEN Abs(a) \div Abs(b) ELSE -(Abs(a) \div Abs(b))

Remainder(a, b) == IF a < 0 THEN -(Abs(a) % Abs(b)) ELSE Abs(a) % Abs(b)

\* The bits of a number, and the number that has given bits.
Bits(n) == {k \in 0 .. INT_BITS - 1 : ((n % 2^INT_BITS) \div 2^k) % 2 = 1}

OfBits(bits) == Int32(MapThenSumSet(LAMBDA k : 2^k, bits))

\* What the processor makes of the amount of a shift.
Amount(b) == b % INT_BITS

\* The switch of add_to_xor.
Binary(op, a, b) ==
    CASE op = I.i_iadd -> Int32(a + b)
      [] op = I.i_isub -> Int32(a - b)
      [] op = I.i_imul -> Int32(a * b)
      [] op = I.i_idiv -> IF b # 0 THEN Quotient(a, b) ELSE 0
      [] op = I.i_irem -> IF b # 0 THEN Remainder(a, b) ELSE Int32(-a)
      [] op = I.i_ishl -> OfBits({k + Amount(b) : k \in Bits(a)} \cap 0 .. INT_BITS - 1)
      [] op = I.i_ishr -> a \div 2^Amount(b)
      [] op = I.i_iushr -> OfBits({k - Amount(b) : k \in Bits(a)} \cap 0 .. INT_BITS - 1)
      [] op = I.i_iand -> OfBits(Bits(a) \cap Bits(b))
      [] op = I.i_ior -> OfBits(Bits(a) \cup Bits(b))
      [] op = I.i_ixor -> OfBits((Bits(a) \cup Bits(b)) \ (Bits(a) \cap Bits(b)))
      [] OTHER -> 0

Overflows(op, a, b) == op \in {I.i_idiv, I.i_irem} /\ a = -(2^(INT_BITS - 1)) /\ b = -1

add_to_xor ==
    /\ Executes(I.i_iadd .. I.i_ixor)
    /\ IF cur_method = I.i_ineg
       THEN Continue(Skip(Push(Pop(f, 1), Int32(-Top(1))), 0))
       ELSE IF Overflows(cur_method, Top(2), Top(1))
       THEN Stop("SIGFPE")
       ELSE Continue(Skip(Push(Pop(f, 2), Binary(cur_method, Top(2), Top(1))), 0))

-----------------------------------------------------------------------------
(* Constants, locals and output.                                           *)

nop == Executes({I.i_nop}) /\ Continue(Skip(f, 0))

bi_push == Executes({I.i_bipush}) /\ Continue(Skip(Push(f, SignedByte(1)), 1))

si_push == Executes({I.i_sipush}) /\ Continue(Skip(Push(f, SignedShort), 2))

i_const ==
    /\ Executes(I.i_iconst_m1 .. I.i_iconst_5)
    /\ Continue(Skip(Push(f, cur_method - I.i_iconst_0), 0))

ldc ==
    /\ Executes({I.i_ldc})
    /\ Continue(Skip(Push(f, class.constant_pool[Byte(1)].info), 1))

\* i_load, and aload for references
i_load ==
    /\ Executes({I.i_iload, I.i_aload})
    /\ Continue(Skip(Push(f, f.locals[Byte(1)]), 1))

\* i_iload_nums and aload_nums
i_iload_nums ==
    /\ Executes((I.i_iload_0 .. I.i_iload_3) \cup (I.i_aload_0 .. I.i_aload_3))
    /\ \E i \in LocalSlots : Continue(Skip(Push(f, f.locals[i]), 0))

\* i_store, and astore for references
i_store ==
    /\ Executes({I.i_istore, I.i_astore})
    /\ Continue(Skip([Pop(f, 1) EXCEPT !.locals[Byte(1)] = Top(1)], 1))

\* i_istore_nums and astore_nums
i_istore_nums ==
    /\ Executes((I.i_istore_0 .. I.i_istore_3) \cup (I.i_astore_0 .. I.i_astore_3))
    /\ \E i \in LocalSlots : Continue(Skip([Pop(f, 1) EXCEPT !.locals[i] = Top(1)], 0))

i_inc ==
    /\ Executes({I.i_iinc})
    /\ Continue(Skip([f EXCEPT !.locals[Byte(1)] = Int32(@ + SignedByte(2))], 2))

dup == Executes({I.i_dup}) /\ Continue(Skip(Push(f, Top(1)), 0))

\* System.out is not pushed,
get_static == Executes({I.i_getstatic}) /\ Continue(Skip(f, 2))

\* and println does not pop it.  The slot above the argument is cleared.
invoke_virtual ==
    /\ Executes({I.i_invokevirtual})
    /\ frames' = [frames EXCEPT ![Len(frames)] =
                     Skip([f EXCEPT !.stack[f.stack_p] = 0, !.stack_p = @ - 1], 2)]
    /\ output' = Append(output, Top(1))
    /\ UNCHANGED <<file, class, code, heap, status>>

-----------------------------------------------------------------------------
(* Jumps.                                                                  *)

\* variant: the offset counts from the byte after the opcode
Jump_FromNext(g) == Skip(g, SignedShort)

\* pc += offset - 1, and the loop adds 1
Jump(g) == Skip(g, SignedShort - 1)

\* The switch of jump; the instructions that compare with 0 have b = 0.
add_offset(op, a, b) ==
    CASE op \in {I.i_ifeq, I.i_if_icmpeq} -> a = b
      [] op \in {I.i_ifne, I.i_if_icmpne} -> a # b
      [] op \in {I.i_iflt, I.i_if_icmplt} -> a < b
      [] op \in {I.i_ifge, I.i_if_icmpge} -> a >= b
      [] op \in {I.i_ifgt, I.i_if_icmpgt} -> a > b
      [] op \in {I.i_ifle, I.i_if_icmple} -> a <= b

jump ==
    /\ Executes(I.i_ifeq .. I.i_if_icmple)
    /\ LET two == cur_method >= I.i_if_icmpeq
           taken == add_offset(cur_method, IF two THEN Top(2) ELSE Top(1),
                                           IF two THEN Top(1) ELSE 0)
           g == Pop(f, IF two THEN 2 ELSE 1) IN
       Continue(IF taken THEN Jump(g) ELSE Skip(g, 2))

go_to == Executes({I.i_goto}) /\ Continue(Jump(f))

-----------------------------------------------------------------------------
(* Arrays.                                                                 *)

\* The reference that heap_add returns.
heap_add_Ref(h) == Len(h)

heap_get(ref) == heap[ref + 1]

newarray ==
    /\ Executes({I.i_newarray})
    /\ heap' = Append(heap, [i \in 0 .. Top(1) |-> IF i = 0 THEN Top(1) ELSE 0])
    /\ frames' = [frames EXCEPT ![Len(frames)] =
                     Skip(Push(Pop(f, 1), heap_add_Ref(heap)), 1)]
    /\ UNCHANGED <<file, class, code, output, status>>

arraylength ==
    /\ Executes({I.i_arraylength})
    /\ Continue(Skip(Push(Pop(f, 1), heap_get(Top(1))[0]), 0))

iaload ==
    /\ Executes({I.i_iaload})
    /\ Continue(Skip(Push(Pop(f, 2), heap_get(Top(2))[Top(1) + 1]), 0))

iastore ==
    /\ Executes({I.i_iastore})
    /\ heap' = [heap EXCEPT ![Top(3) + 1][Top(2) + 1] = Top(1)]
    /\ frames' = [frames EXCEPT ![Len(frames)] = Skip(Pop(f, 3), 0)]
    /\ UNCHANGED <<file, class, code, output, status>>

-----------------------------------------------------------------------------
(* Calls and returns.                                                      *)

\* The i-th of n arguments, counting from 0.
Argument(i, n) == Top(n - i)

invokestatic ==
    /\ Executes({I.i_invokestatic})
    /\ Len(frames) < MAX_FRAMES
    /\ IF \/ ~find_method_from_index_ok(UnsignedShort, class)
          \/ find_method_from_index(UnsignedShort, class) = {}
       THEN Stop("abort")
       ELSE \E k \in find_method_from_index(UnsignedShort, class) :
            LET method == class.methods[k]
                num_params == get_number_of_parameters(method)
                new_locals == [i \in 0 .. method.max_locals - 1 |->
                                  IF i < num_params THEN Argument(i, num_params) ELSE 0] IN
            IF num_params > f.stack_p \/ num_params > method.max_locals
            THEN Stop("asan")
            ELSE /\ frames' = [frames EXCEPT ![Len(frames)] = Pop(f, num_params)]
                                \o <<Frame(k, method, new_locals)>>
                 /\ UNCHANGED <<file, class, code, heap, output, status>>

\* main() asserts that there is none.
MainStatus(has_value) == IF has_value THEN "abort" ELSE "done"

\* The rest of main(), or of i_invokestatic in the caller.
Return(has_value, value) ==
    IF Len(frames) = 1
    THEN /\ status' = MainStatus(has_value)
         /\ heap' = IF has_value THEN heap ELSE <<>>
         /\ frames' = <<>>
         /\ UNCHANGED <<file, class, code, output>>
    ELSE LET caller == frames[Len(frames) - 1] IN
         IF has_value /\ caller.stack_p \notin DOMAIN caller.stack
         THEN Stop("asan")
         ELSE /\ frames' = [SubSeq(frames, 1, Len(frames) - 1) EXCEPT ![Len(frames) - 1] =
                               Skip(IF has_value THEN Push(caller, value) ELSE caller, 2)]
              /\ UNCHANGED <<file, class, code, heap, output, status>>

ireturn == Executes({I.i_ireturn, I.i_areturn}) /\ Return(TRUE, Top(1))

\* also reached when pc has run past the code
return ==
    /\ Running /\ frames # <<>>
    /\ IF f.pc < class.methods[f.m].code_length
       THEN Executes({I.i_return})
       ELSE TRUE
    /\ Return(FALSE, 0)

Handled ==
    {I.i_nop, I.i_bipush, I.i_sipush, I.i_ldc, I.i_iload, I.i_aload, I.i_iaload, I.i_istore,
     I.i_astore, I.i_iastore, I.i_dup, I.i_iinc, I.i_goto, I.i_ireturn, I.i_areturn,
     I.i_return, I.i_getstatic, I.i_invokevirtual, I.i_invokestatic, I.i_newarray,
     I.i_arraylength}
      \cup (I.i_iconst_m1 .. I.i_iconst_5) \cup (I.i_iload_0 .. I.i_iload_3)
      \cup (I.i_aload_0 .. I.i_aload_3) \cup (I.i_istore_0 .. I.i_istore_3)
      \cup (I.i_astore_0 .. I.i_astore_3) \cup (I.i_iadd .. I.i_ixor)
      \cup (I.i_ifeq .. I.i_if_icmple)

\* The default of the switch.
unhandled == Executes((0 .. 255) \ Handled) /\ Stop("exit 1")

\* The instrumented build reports an access outside an array and aborts.
asan ==
    /\ Running /\ frames # <<>>
    /\ f.pc \in DOMAIN code[f.m]
    /\ ~InBounds
    /\ Stop("asan")

execute ==
    \/ add_to_xor \/ nop \/ bi_push \/ si_push \/ i_const \/ ldc \/ i_load \/ i_iload_nums
    \/ i_store \/ i_istore_nums \/ i_inc \/ dup \/ get_static \/ invoke_virtual \/ jump \/ go_to
    \/ newarray \/ arraylength \/ iaload \/ iastore \/ invokestatic \/ ireturn \/ return
    \/ unhandled \/ asan

\* main() up to its call of execute(): all locals are 0.
main ==
    /\ status = "start"
    /\ IF ~get_class_ok(file) \/ find_method(MAIN_METHOD, MAIN_DESCRIPTOR, get_class(file)) = {}
       THEN Stop("abort")
       ELSE \E k \in find_method(MAIN_METHOD, MAIN_DESCRIPTOR, get_class(file)) :
            LET method == get_class(file).methods[k] IN
            /\ class' = get_class(file)
            /\ frames' = <<Frame(k, method, [i \in 0 .. method.max_locals - 1 |-> 0])>>
            /\ status' = "running"
            /\ UNCHANGED <<file, code, heap, output>>
================================================================================
