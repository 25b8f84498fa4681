------------------------------ MODULE TeenyBasic ------------------------------
(***************************************************************************)
(* assembly-compiler/ from the text of a program to its output: main() of  *)
(* compiler.c parses and compiles, and the processor executes what was     *)
(* compiled, with print_int and the calling convention of runtime/.        *)
(***************************************************************************)
EXTENDS BasicSemantics

CONSTANTS
    Sources,      \* programs
    Damage(_),    \* the texts that stand for a program, damaged ones included
    Vars,         \* the variables that are used
    Garbage,      \* what their memory may hold at the start
    NUM_VARS,
    MAX_STEPS,    \* instructions that are followed, and as many of a damaged text
    MAX_STEPS_DAMAGED

VARIABLES
    source,    \* the program that was written
    text,      \* its tokens
    ast,
    code,
    cpu,       \* pc, rdi, rcx, flags, and the stack from the frame of basic_main on
    output,
    status,    \* "source", "parsed", "run", "ret" or how it ended
    ref,       \* what the program should do, nothing if the text is damaged
    steps

vars == <<source, text, ast, code, cpu, output, status, ref, steps>>

\* The place of a variable in the frame.
Slot(x) == CHOOSE k \in 1 .. Len(Vars) : Vars[k] = x

Env(stack) == [x \in {Vars[k] : k \in DOMAIN Vars} |-> stack[Slot(x)]]

Init ==
    /\ source \in Sources
    /\ text \in Damage(source)
    /\ ast = NULL /\ code = <<>> /\ output = <<>> /\ status = "source" /\ steps = 0
    /\ cpu \in {[pc |-> 1, rdi |-> 0, rcx |-> 0, flags |-> "none",
                 stack |-> [k \in 1 .. NUM_VARS |-> g]] : g \in Garbage}
    /\ ref = [out |-> <<>>, state |-> "ok"]

Parse ==
    /\ status = "source"
    /\ ast' = parse(text)
    /\ status' = IF ast' = NULL THEN "parse error" ELSE "parsed"
    /\ ref' \in IF text = Lines(source)
               THEN {[out |-> r.out, state |-> r.state] : r \in {Reference(source, Env(cpu.stack))}}
               ELSE {[out |-> <<>>, state |-> "none"]}
    /\ UNCHANGED <<source, text, code, cpu, output, steps>>

Compile ==
    /\ status = "parsed"
    /\ \E compiled \in {compile_ast(ast, 0, 0)} :
          IF compiled.traps
          THEN status' = "compiler trap" /\ code' = <<>>
          ELSE status' = "run" /\ code' = Assembly(compiled)
    /\ UNCHANGED <<source, text, ast, cpu, output, ref, steps>>

-----------------------------------------------------------------------------
(* The processor.                                                          *)

LabelAt(l) == CHOOSE k \in DOMAIN code : code[k] = Arg("label", l)

Jumping(i) ==
    \/ i.op = "jmp"
    \/ i.op = "jl" /\ cpu.flags = "less"
    \/ i.op = "jge" /\ cpu.flags # "less"
    \/ i.op = "jg" /\ cpu.flags = "greater"
    \/ i.op = "jle" /\ cpu.flags # "greater"
    \/ i.op = "je" /\ cpu.flags = "equal"
    \/ i.op = "jne" /\ cpu.flags # "equal"

Compared(a, b) == IF a < b THEN "less" ELSE IF a = b THEN "equal" ELSE "greater"

\* Registers and stack after an instruction that is not a jump.
Effect(i) ==
    CASE i.op = "mov" -> [cpu EXCEPT !.rdi = i.arg]
      [] i.op = "load" -> [cpu EXCEPT !.rdi = cpu.stack[Slot(i.arg)]]
      [] i.op = "store" -> [cpu EXCEPT !.stack[Slot(i.arg)] = cpu.rdi]
      [] i.op = "push" -> [cpu EXCEPT !.stack = Append(@, cpu.rdi)]
      [] i.op \in {"pop rcx", "pop rdi"} ->
           LET popped == [cpu EXCEPT !.stack = SubSeq(@, 1, Len(@) - 1)] IN
           IF i.op = "pop rcx" THEN [popped EXCEPT !.rcx = cpu.stack[Len(cpu.stack)]]
                               ELSE [popped EXCEPT !.rdi = cpu.stack[Len(cpu.stack)]]
      [] i.op = "add" -> [cpu EXCEPT !.rdi = Wrap(@ + cpu.rcx)]
      [] i.op = "sub" -> [cpu EXCEPT !.rdi = Wrap(@ - cpu.rcx)]
      [] i.op = "imul" -> [cpu EXCEPT !.rdi = Wrap(@ * cpu.rcx)]
      [] i.op = "idiv" -> [cpu EXCEPT !.rdi = Truncated(@, cpu.rcx)]
      [] i.op = "shl" -> [cpu EXCEPT !.rdi = Wrap(@ * 2^i.arg)]
      [] i.op = "cmp" -> [cpu EXCEPT !.flags = Compared(cpu.rdi, cpu.rcx)]
      [] i.op = "call print_int" -> [cpu EXCEPT !.rdi = 77, !.rcx = 99, !.flags = "none"]
      [] i.op = "leave" -> [cpu EXCEPT !.stack = <<>>]
      [] OTHER -> cpu

Execute ==
    /\ status = "run"
    /\ steps < (IF ref.state = "none" THEN MAX_STEPS_DAMAGED ELSE MAX_STEPS)
    /\ LET i == code[cpu.pc] IN
       IF i.op = "idiv" /\ DivisionTraps(cpu.rdi, cpu.rcx)
       THEN status' = "trap" /\ UNCHANGED <<cpu, output>>
       ELSE /\ cpu' = IF Jumping(i) THEN [cpu EXCEPT !.pc = LabelAt(i.arg)]
                      ELSE [Effect(i) EXCEPT !.pc = @ + 1]
            /\ output' = IF i.op = "call print_int" THEN Append(output, cpu.rdi) ELSE output
            /\ status' = IF i.op = "ret" THEN "ret" ELSE "run"
    /\ steps' = steps + 1
    /\ UNCHANGED <<source, text, ast, code, ref>>

Next == Parse \/ Compile \/ Execute

\* The processor does not stop between two instructions.
Spec == Init /\ [][Next]_vars /\ WF_vars(Execute)

-----------------------------------------------------------------------------
\* The text without the ELSE at i and what follows it up to the END IF at j, if
\* the statements in between cannot be parsed.
ElseDropped(i, j) == SubSeq(text, 1, i - 1) \o SubSeq(text, j, Len(text))

RefusedElses ==
    {<<i, j>> \in (1 .. Len(text)) \X (1 .. Len(text)) :
        i < j /\ IsWord(text, i, "ELSE") /\ Closes(text, j, "IF")
          /\ sequence(text, i + 1, <<>>) = Failed(j)}

\* The text of a program is parsed to the program: precedence, association
\* and the nesting of blocks are those of the notation.  A text that is damaged
\* is refused, with two exceptions.  comparison() accepts a condition without
\* its operator, and then nothing but that operator is missing in the text.
\* And statement() takes an ELSE branch that cannot be parsed, but ends at END
\* IF, for one that is not there; the rest of the text is parsed as written.
ParsesRight ==
    /\ status = "parse error" => text # Lines(source)
    /\ status = "parsed" =>
          IF text = Lines(source) THEN ast = source
          ELSE \/ /\ \E k \in DOMAIN Lines(ast) : Lines(ast)[k] = Op("none")
                  /\ SelectSeq(Lines(ast), LAMBDA t : t # Op("none")) = text
               \/ \E <<i, j>> \in RefusedElses : Lines(ast) = ElseDropped(i, j)

\* What the compiled program prints is at every moment the beginning of what
\* the program means, and when it ends or traps, the program does so, having
\* printed everything.
PrintsRight ==
    ref.state # "none" =>
       /\ status \in {"run", "ret", "trap"} =>
             /\ Len(output) <= Len(ref.out) \/ ref.state = "more"
             /\ \A k \in DOMAIN output : k \in DOMAIN ref.out => output[k] = ref.out[k]
       /\ status = "ret" => ref.state \in {"ok", "more"} /\ Len(output) >= Len(ref.out)
       /\ status = "trap" => ref.state \in {"trap", "more"} /\ Len(output) >= Len(ref.out)

\* print_int is called with nothing on the stack but the frame, which keeps
\* it aligned, and the program never pops more than it pushed: runtime's
\* call_check.s finds what is above intact.  Every label of the assembly is
\* defined once, and every jump has a label.
CodeSound ==
    LET Defines(k, l) == code[k].op = "label" /\ code[k].arg = l IN
    /\ status = "run" /\ code[cpu.pc].op # "ret" =>
          /\ Len(cpu.stack) >= NUM_VARS
          /\ code[cpu.pc].op \in {"call print_int", "leave"} => Len(cpu.stack) = NUM_VARS
    /\ \A k \in DOMAIN code :
          /\ code[k].op = "label" => \A m \in DOMAIN code : Defines(m, code[k].arg) => m = k
          /\ code[k].op \in {"jmp", "jl", "jge", "jg", "jle", "je", "jne"} =>
                \E m \in DOMAIN code : Defines(m, code[k].arg)

\* A program that ends is compiled to one that ends.
EndsToo == status = "run" /\ ref.state \in {"ok", "trap"} ~> status \in {"ret", "trap"}
================================================================================
