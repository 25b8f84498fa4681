------------------------------- MODULE TeenyJVM -------------------------------
(***************************************************************************)
(* TeenyJVM and the Java machine execute the same class, one instruction   *)
(* at a time.  The class is any that javac and the verifier let through:   *)
(* an instruction is chosen when execution first comes to its address.     *)
(***************************************************************************)
EXTENDS JVM, JavaMachine

CONSTANTS
    ClassFiles,        \* the class files that are tried
    Supported,         \* those of them that javac makes of the supported language
    MainMethod,        \* the number of main() among the methods
    Kits               \* what programs are made of: their instructions, how many
                       \* of them, and how many steps are followed

VARIABLES
    kit,       \* the one of Kits that the program is made of
    program,   \* for each method, a function from addresses to instructions
    java,
    steps

vars == <<jvmVars, kit, program, java, steps>>

CodeOf(text) ==
    [a \in UNION {x .. x + Len(text[x]) - 1 : x \in DOMAIN text} |->
        LET x == CHOOSE x \in DOMAIN text : a \in x .. x + Len(text[x]) - 1 IN
        text[x][a - x + 1]]

Init ==
    /\ file \in ClassFiles
    /\ class = [constant_pool |-> <<>>, methods |-> <<>>]
    /\ kit \in Kits
    /\ program = [m \in DOMAIN file.methods |-> <<>>]
    /\ code = [m \in DOMAIN program |-> CodeOf(program[m])]
    /\ frames = <<>>
    /\ heap = <<>>
    /\ output = <<>>
    /\ status = "start"
    /\ java = Started(MainMethod)
    /\ steps = 0

Start == main /\ UNCHANGED <<kit, program, java, steps>>

JavaRuns == java.state = "running"

JInstruction == program[JTop(java).m][JTop(java).pc]

Size == LET Known[m \in 0 .. Len(program)] ==
                IF m = 0 THEN 0 ELSE Known[m - 1] + Cardinality(DOMAIN program[m])
        IN  Known[Len(program)]

\* The instruction at an address that execution has not come to before.
Compile ==
    /\ Running /\ JavaRuns
    /\ Size < kit.size
    /\ f.pc \notin DOMAIN program[f.m]
    /\ \E b \in kit.instructions :
          /\ Fits(f.pc, b, program[f.m])
          /\ Verified(java, b)
          /\ program' = [program EXCEPT ![f.m] = (f.pc :> b) @@ @]
          /\ code' = [code EXCEPT ![f.m] = CodeOf(program'[f.m])]
    /\ UNCHANGED <<kit, file, class, frames, heap, output, status, java, steps>>

Execute ==
    /\ steps < kit.steps
    /\ Running
    /\ JavaRuns => /\ JTop(java).pc \in DOMAIN program[JTop(java).m]
                   /\ Verified(java, JInstruction)
    /\ execute
    /\ java' = IF JavaRuns THEN JStep(java, JInstruction) ELSE java
    /\ steps' = steps + 1
    /\ UNCHANGED <<kit, program>>

Next == Start \/ Compile \/ Execute

Spec == Init /\ [][Next]_vars

-----------------------------------------------------------------------------
Ints(s) == [k \in DOMAIN s |-> s[k].v]

SameFrame(g, h) ==
    /\ g.m = h.m /\ g.pc = h.pc
    /\ [k \in 1 .. g.stack_p |-> g.stack[k - 1]]
         = Ints(SelectSeq(h.stack, LAMBDA x : x # Stream))
    /\ \A i \in DOMAIN h.locals : g.locals[i] = h.locals[i].v

SameArray(a, b) == a[0] = Len(b) /\ \A i \in DOMAIN b : a[i] = b[i]

\* What the interpreter cannot execute although the program throws nothing: an
\* instruction that jvm.h does not name, and the least integer divided by -1,
\* for which Java goes on with the least integer, or with the remainder 0.
Unnamed == cur_method \notin {I[name] : name \in DOMAIN I}

LeastByMinusOne ==
    LET least == -(2^(INT_BITS - 1)) IN
    /\ cur_method \in {I.i_idiv, I.i_irem}
    /\ Top(2) = least /\ Top(1) = -1
    /\ Operand(java, 0) = IF cur_method = I.i_idiv THEN least ELSE 0

\* Until the program throws or ends, each call in progress of execute() has
\* the pc, the operands and the locals that the Java machine has, System.out
\* left out, the arrays have the same elements, and the output is the same.
\* main() returns with the program's output when the program ends.  While the
\* program neither ends nor throws, the interpreter goes on; it stays inside
\* its stack, its locals and its arrays: max_stack, which counts System.out,
\* is enough for println to clear the slot above its argument.  The exceptions:
\* the default of the switch ends it with exit code 1 at an instruction that
\* jvm.h does not name, and a signal kills it at the least integer divided by
\* -1, in both cases after printing all that the program had printed.
Lockstep ==
    /\ Running /\ JavaRuns =>
          /\ Len(frames) = Len(java.frames)
          /\ \A k \in DOMAIN frames : SameFrame(frames[k], java.frames[k])
          /\ Len(heap) = Len(java.arrays)
          /\ \A r \in DOMAIN heap : SameArray(heap[r], java.arrays[r])
          /\ output = java.printed
    /\ java.state = "done" => status = "done" /\ output = java.printed
    /\ JavaRuns =>
          \/ status \in {"start", "running", "abort"}
          \/ status = "exit 1" /\ Unnamed /\ output = java.printed
          \/ status = "SIGFPE" /\ LeastByMinusOne /\ output = java.printed

\* Assertions fail for a class outside the supported language, before
\* anything of it is executed, and for no other.
AssertsExactly ==
    /\ status = "abort" => file \notin Supported /\ frames = <<>>
    /\ Running => file \in Supported
================================================================================
