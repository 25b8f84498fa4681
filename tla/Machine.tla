-------------------------------- MODULE Machine --------------------------------
(***************************************************************************)
(* The machine that mini-operating-system runs on, as its user sees it:    *)
(* the kernel is loaded and started, processes print on the console and    *)
(* are preempted while they do, the keyboard is polled whenever the kernel *)
(* is entered, a panic prints a message and a backtrace, and a key reboots *)
(* the kernel or turns the machine off.  Processes and memory themselves   *)
(* are WeensyOS's and VMIter's.                                            *)
(*                                                                         *)
(* A session says which of this goes on: only keys, only printing...       *)
(***************************************************************************)
EXTENDS Console, Keyboard, Boot, FiniteSets

CONSTANTS
    NPROC,          \* the places of the process table
    Procs,          \* the places that are taken, of which 1 is one
    Files,          \* the kernel files
    Keys,           \* the keys of the keyboard
    Calls,          \* the calls of console_printf that processes make
    Complaint,      \* what assert_fail prints
    Directives,     \* what snprintf is called with: the directives,
    Stars,          \* the widths and precisions that are arguments,
    Arguments,      \* the arguments they print, which a conversion takes from
    Sizes,          \* and the sizes of the buffer
    Messages,       \* the messages of the kernel's panics
    Stacks,         \* the kernel's stack, registers and page table at a panic
    PAGEWORDS,      \* the words of a page
    symtab,         \* the symbol table
    MaxCalls,       \* bound: the calls of console_printf of a process
    MaxBytes,       \* bound: the bytes that wait in the keyboard and its controller
    MaxHeld         \* bound: the keys that are down at once

VARIABLES
    session,    \* what goes on: [use, file, stack]
    mode,       \* "power", "load", "entry", "run", "schedule", "panic", "fail", "hang" or "off"
    ph,         \* the program header that the loader reads next
    mem,        \* the memory the kernel is loaded into
    stash,      \* the data segment that the kernel keeps for a soft reboot
    s,          \* the console
    shown,      \* where the hardware shows the cursor
    k,          \* the static variables of keyboard_readc
    wire,       \* what the keyboard is sending: [byte, event]
    port,       \* what the keyboard controller has of it for the kernel
    held,       \* the keys that are down
    user,       \* what the user has told the kernel of the modifiers since it started
    heard,      \* the last call of keyboard_readc: its result, and what was typed
    procs,      \* the processes
    current,    \* the process that runs, or the place where schedule looks
    bt,         \* the backtracer; what it has found; the screen before; where and what is
                \* printed
    buf         \* a call of snprintf: {} or {[size, d, args, n, s]}

\* The linker script has one segment for the kernel; a good file can be loaded.
ASSUME FilesLoadable ==
    /\ SECTORSIZE \in Nat \ {0} /\ MemTop \in Nat
    /\ \A f \in Files : Loadable(f)
    /\ \E f \in Files : f.magic

\* The keys have the labels that keymap and complex_keymap give them.
ASSUME KeysLabelled == \A key \in Keys : Labelled(key)

\* The pages of the stack that are mapped can be read.
ASSUME StacksReadable ==
    /\ PAGEWORDS \in Nat \ {0} /\ Stacks # {}
    /\ \A t \in Stacks :
        /\ t.rsp \in Nat \ {0} /\ t.rbp \in Nat /\ t.mapped \subseteq Nat
        /\ \A page \in t.mapped : \A a \in page * PAGEWORDS .. (page + 1) * PAGEWORDS - 1 :
            t.mem[a] \in Nat

\* build/mkchickadeesymtab sorts the table; two symbols can have one address.
ASSUME SymtabSorted ==
    /\ symtab \in Seq([st_value : Nat, st_size : Nat, name : {symtab[i].name : i \in DOMAIN symtab}])
    /\ \A i, j \in DOMAIN symtab : i <= j => symtab[i].st_value <= symtab[j].st_value

boot_vars == <<session, ph, mem, stash>>
screen_vars == <<s, shown>>
kbd_vars == <<k, wire, port, held, user, heard>>
proc_vars == <<procs, current>>
vars == <<boot_vars, mode, screen_vars, kbd_vars, proc_vars, bt, buf>>

-----------------------------------------------------------------------------
COLOR_ERROR == 49152   \* 0xC000
Plain(conv) == [flags |-> {}, width |-> None, precision |-> None, length |-> "", conv |-> conv]
AnyFile == CHOOSE f \in Files : f.magic
AnyStack == CHOOSE t \in Stacks : TRUE
NoTrace == [rbp |-> 0, rsp |-> 0, trace |-> <<>>, before |-> {}, start |-> 0, out |-> <<>>]
NoEvent == {}
Idle == [at |-> "idle", calls |-> 0, p |-> [cell |-> 0, scroll |-> TRUE], out |-> <<>>, text |-> <<>>, before |-> {}]
NoModifiers == [shift |-> FALSE, control |-> FALSE, capslock |-> FALSE]

Init ==
    /\ session \in
           [use : {"boot"}, file : Files, stack : {AnyStack}]
           \cup [use : {"keys", "screen", "format"}, file : {AnyFile}, stack : {AnyStack}]
           \cup [use : {"panic"}, file : {AnyFile}, stack : Stacks]
    /\ mode = "power"
    /\ ph = 1
    /\ mem = [a \in 0 .. MemTop - 1 |-> Unset]
    /\ stash = [a \in DataSegment(session.file) |-> Unset]
    /\ s = console_clear
    /\ shown = 0
    /\ k = Statics
    /\ wire = <<>>
    /\ port = <<>>
    /\ held = {}
    /\ user = NoModifiers
    /\ heard = [c |-> -1, typed |-> -1]
    /\ procs = [i \in Procs |-> Idle]
    /\ current = 1
    /\ bt = NoTrace
    /\ buf = {}

Calm == UNCHANGED <<session, stash, screen_vars, kbd_vars, proc_vars, bt, buf>>

-----------------------------------------------------------------------------
(* boot                                                                     *)

boot ==
    /\ mode = "power"
    /\ mem' = ReadHeader(mem, session.file)
    /\ mode' = IF session.file.magic THEN "load" ELSE "hang"
    /\ UNCHANGED ph
    /\ Calm

LoadSegment ==
    /\ mode = "load"
    /\ ph <= Len(session.file.phs)
    /\ HeaderIntact(mem, session.file)
    /\ mem' = ReadSegment(mem, session.file, session.file.phs[ph])
    /\ ph' = ph + 1
    /\ UNCHANGED mode
    /\ Calm

JumpToKernel ==
    /\ mode = "load"
    /\ ph > Len(session.file.phs)
    /\ mode' = "entry"
    /\ UNCHANGED <<ph, mem>>
    /\ Calm

\* The kernel's variables lose their first values.
Used(m, file) == [a \in DOMAIN m |-> IF a \in BssSegment(file) THEN Unset ELSE m[a]]

\* init_hardware, console_clear; the processes are set up and the first runs.
kernel_start ==
    /\ mode = "entry"
    /\ stash' = Stashed(mem, session.file)
    /\ mem' = Used(init_interrupts(mem, session.file), session.file)
    /\ s' = console_clear
    /\ procs' = [i \in Procs |-> Idle]
    /\ current' = 1
    /\ bt' = NoTrace
    /\ mode' = "run"
    /\ UNCHANGED <<session, ph, shown, kbd_vars, buf>>

-----------------------------------------------------------------------------
(* check_keyboard                                                           *)

Bytes == [i \in DOMAIN port |-> port[i].byte]

\* What the user means by an event, as the labels on the keys have it.
Modified(u, e) ==
    CASE e.key.mod = "shift" -> [u EXCEPT !.shift = e.press]
      [] e.key.mod = "control" -> [u EXCEPT !.control = e.press]
      [] e.key.mod = "capslock" /\ e.press -> [u EXCEPT !.capslock = ~ @]
      [] OTHER -> u

Meant(u, e) ==
    IF ~ e.press \/ e.key.mod # "none" THEN 0
    ELSE LET shift == u.shift # (e.key.letter /\ u.capslock)
         IN  e.key.chars[1 + (IF shift THEN 1 ELSE 0) + (IF u.control THEN 2 ELSE 0)]

Typed == IF port = <<>> THEN -1
         ELSE IF Head(port).event = NoEvent THEN 0
         ELSE Meant(user, CHOOSE e \in Head(port).event : TRUE)

Told == IF port = <<>> THEN user
        ELSE IF Head(port).event = NoEvent THEN user
        ELSE Modified(user, CHOOSE e \in Head(port).event : TRUE)

RebootKeys == {97, 102, 101}    \* 'a', 'f', 'e'
ExitKeys == {3, 113}            \* Control-C, 'q'

\* The machine goes on in mode next unless a key reboots it or turns it off.
check_keyboard(next) ==
    \E r \in {keyboard_readc(k, Bytes)} :
        /\ heard' = [c |-> r.c, typed |-> Typed]
        /\ port' = IF port = <<>> THEN port ELSE Tail(port)
        /\ k' = IF r.c \in RebootKeys THEN Statics ELSE r.k
        /\ user' = IF r.c \in RebootKeys THEN NoModifiers ELSE Told
        /\ mem' = IF r.c \in RebootKeys THEN stash_kernel_data(mem, session.file, stash) ELSE mem
        /\ mode' = IF r.c \in RebootKeys THEN "entry" ELSE IF r.c \in ExitKeys THEN "off" ELSE next
    /\ UNCHANGED <<session, ph, stash, wire, held>>

(* The keyboard: a key sends its code when it goes down and while it stays  *)
(* down, and its code + 0x80 when it goes up; some keys send 0xE0 first.    *)
(* The arrow keys undo a shift key that is down, with a shift code of their *)
(* own.                                                                     *)
Code(key, press) == (IF key.escape THEN <<224>> ELSE <<>>) \o <<IF press THEN key.code ELSE key.code + 128>>

ShiftUndone(key) == key.arrow /\ \E h \in held : h.mod = "shift"

Sends(key, press) ==
    (IF press /\ ShiftUndone(key) THEN <<224, 170>> ELSE <<>>)
    \o Code(key, press)
    \o (IF ~ press /\ ShiftUndone(key) THEN <<224, 42>> ELSE <<>>)

\* The event happens for the kernel with the last byte of the code.  A key's bytes
\* are sent before the next one's.
Send(key, press) ==
    \E bytes \in {Sends(key, press)}, code \in {Code(key, press)} :
        LET last == IF press THEN Len(bytes) ELSE Len(code)
        IN  /\ wire = <<>> /\ Len(port) + Len(bytes) <= MaxBytes
            /\ wire' = [i \in DOMAIN bytes |->
                   [byte |-> bytes[i],
                    event |-> IF i = last THEN {[key |-> key, press |-> press]} ELSE NoEvent]]

Typing == \/ session.use = "keys" /\ mode \in {"run", "schedule"}
          \/ session.use = "panic" /\ mode \in {"panic", "fail"}

\* A key that stays down is sent again; Caps Lock, which that would toggle, is not
\* kept down.
PressKey ==
    /\ Typing
    /\ \E key \in Keys :
        /\ session.use = "panic" => key.exit
        /\ key \in held => key.mod # "capslock"
        /\ Cardinality(held \cup {key}) <= MaxHeld
        /\ Send(key, TRUE)
        /\ held' = held \cup {key}
    /\ UNCHANGED <<boot_vars, mode, screen_vars, k, port, user, heard, proc_vars, bt, buf>>

ReleaseKey ==
    /\ Typing
    /\ \E key \in held :
        /\ Send(key, FALSE)
        /\ held' = held \ {key}
    /\ UNCHANGED <<boot_vars, mode, screen_vars, k, port, user, heard, proc_vars, bt, buf>>

\* The kernel may poll between two bytes of a key.
ByteArrives ==
    /\ wire # <<>>
    /\ port' = Append(port, Head(wire))
    /\ wire' = Tail(wire)
    /\ UNCHANGED <<boot_vars, mode, screen_vars, k, held, user, heard, proc_vars, bt, buf>>

-----------------------------------------------------------------------------
(* The kernel is entered: it shows the cursor and the memory and polls the  *)
(* keyboard, and does the rest if no key reboots it or turns it off.        *)

console_show_cursor(cpos) == IF cpos < 0 \/ cpos > Cells THEN 0 ELSE cpos

\* console_memviewer's titles and cells, at fixed places of the upper rows.
memshow(c) ==
    LET titled == console_vprintf(c, CPOS(0, 1), 3840, <<[char |-> "M"], [char |-> "\n"]>>, <<>>)
    IN  [titled EXCEPT !.cells[CPOS(1, 1)] = Cell("K", 3328)]

\* Only a call that nothing else has printed into keeps its screen of before.
Disturbed(ps, i) ==
    [j \in Procs |-> IF j = i THEN ps[j] ELSE [ps[j] EXCEPT !.before = {}]]

Runnable(ps) == {i \in Procs : ps[i].at # "broken"}

\* A turn of schedule's loop: the next place has a process that can run, or
\* the keyboard is polled again; a loop that finds none shows the memory.
schedule ==
    /\ mode = "schedule"
    /\ current' = (current + 1) % NPROC
    /\ \/ /\ current' \in Runnable(procs)
          /\ mode' = "run"
          /\ UNCHANGED <<boot_vars, s, kbd_vars>>
       \/ /\ current' \notin Runnable(procs)
          /\ check_keyboard("schedule")
          /\ s' \in IF Runnable(procs) = {} THEN {s, memshow(s)} ELSE {s}
    /\ UNCHANGED <<shown, procs, bt, buf>>

\* A timer interrupt or sys_yield, which schedule, or a system call that returns.
Preempt ==
    /\ mode = "run"
    /\ shown' = console_show_cursor(s.cursorpos)
    /\ s' = memshow(s)
    /\ \E next \in {"run", "schedule"} : check_keyboard(next)
    /\ procs' = IF s' = s THEN procs ELSE Disturbed(procs, 0)
    /\ UNCHANGED <<current, bt, buf>>

\* A page fault of the current process, which is broken then.
PageFault ==
    /\ mode = "run" /\ session.use = "screen"
    /\ procs[current].at = "idle"
    /\ shown' = console_show_cursor(s.cursorpos)
    /\ check_keyboard("schedule")
    /\ s' = IF mode' # "schedule" THEN memshow(s)
            ELSE console_vprintf(memshow(s), CPOS(CONSOLE_ROWS - 1, 0), 3072,
                                 <<[char |-> "!"], [char |-> "\n"]>>, <<>>)
    /\ procs' = Disturbed([procs EXCEPT ![current].at = "broken"], 0)
    /\ UNCHANGED <<current, bt, buf>>

-----------------------------------------------------------------------------
(* A process prints; between two characters it can be preempted.            *)

Begin ==
    /\ mode = "run" /\ session.use = "screen"
    /\ procs[current].at = "idle"
    /\ procs[current].calls < MaxCalls
    /\ \E c \in Calls : \E out \in {vprintf(c.color, c.format, c.args)} :
        procs' = [procs EXCEPT ![current] =
                    [@ EXCEPT !.at = "print", !.calls = @ + 1, !.p = Printer(s, -1),
                              !.out = out, !.text = out, !.before = {s}]]
    /\ UNCHANGED <<boot_vars, mode, screen_vars, kbd_vars, current, bt, buf>>

\* assert_fail moves the cursor, prints, and panics.
BeginAssertFail ==
    /\ mode = "run" /\ session.use = "screen"
    /\ procs[current].at = "idle"
    /\ s' = [s EXCEPT !.cursorpos = CPOS(CONSOLE_ROWS - 2, 0)]
    /\ \E out \in {vprintf(Complaint.color, Complaint.format, Complaint.args)} :
        procs' = Disturbed([procs EXCEPT ![current] =
                               [@ EXCEPT !.at = "assert", !.p = Printer(s', -1),
                                         !.out = out, !.text = out, !.before = {s'}]], current)
    /\ UNCHANGED <<boot_vars, mode, shown, kbd_vars, current, bt, buf>>

PutNext ==
    /\ mode = "run"
    /\ procs[current].out # <<>>
    /\ \E sp \in {putc([s |-> s, p |-> procs[current].p], Head(procs[current].out).char, Head(procs[current].out).color)} :
        /\ s' = sp.s
        /\ procs' = Disturbed([procs EXCEPT ![current] = [@ EXCEPT !.p = sp.p, !.out = Tail(@)]], current)
    /\ UNCHANGED <<boot_vars, mode, shown, kbd_vars, current, bt, buf>>

Finish ==
    /\ mode = "run"
    /\ procs[current].at \in {"print", "assert"} /\ procs[current].out = <<>>
    /\ s' = move_cursor([s |-> s, p |-> procs[current].p])
    /\ procs' = Disturbed([procs EXCEPT ![current] =
                    [Idle EXCEPT !.at = IF procs[current].at = "assert" THEN "panic" ELSE "idle",
                                 !.calls = procs[current].calls]], current)
    /\ UNCHANGED <<boot_vars, mode, shown, kbd_vars, current, bt, buf>>

StarArgs(given) == IF given = Star THEN {<<[int |-> v]>> : v \in Stars} ELSE {<<>>}
Around(d) == <<[char |-> "<"], d, [char |-> ">"], Plain("u")>>

Snprintf ==
    /\ mode = "run" /\ session.use = "format"
    /\ buf = {}
    /\ \E d \in Directives, size \in Sizes :
       \E w \in StarArgs(d.width), p \in StarArgs(d.precision), v \in Arguments[d.conv] :
       \E args \in {w \o p \o <<v, [int |-> 5]>>} :
       \E r \in {vsnprintf(Repeat("?", size + 2), size, Around(d), args)} :
            buf' = {[size |-> size, d |-> d, args |-> args, n |-> r.n, s |-> r.s]}
    /\ UNCHANGED <<boot_vars, mode, screen_vars, kbd_vars, proc_vars, bt>>
-----------------------------------------------------------------------------
(* lookup_symbol, and the backtracer.  A word is 8 bytes: a frame has the   *)
(* caller's rbp in its first word and the return address in its second.     *)

\* What the loop looks for: the symbol behind m others.
Hit(m, addr) ==
    /\ symtab[m + 1].st_value <= addr
    /\ m + 1 = Len(symtab) \/ addr < symtab[m + 2].st_value
    /\ symtab[m + 1].st_size = 0 \/ addr <= symtab[m + 1].st_value + symtab[m + 1].st_size

\* The number of the symbol, or 0.
lookup_symbol(addr) ==
    LET search[b \in (0 .. Len(symtab)) \X (0 .. Len(symtab))] ==
            LET l == b[1]  r == b[2]  m == l + ((r - l) \div 2)
            IN  IF l >= r THEN 0
                ELSE IF Hit(m, addr) THEN (IF symtab[m + 1].st_value = 0 THEN 0 ELSE m + 1)
                ELSE IF symtab[m + 1].st_value < addr THEN search[<<m + 1, r>>]
                ELSE search[<<l, m>>]
    IN  search[<<0, Len(symtab)>>]

RoundUpPage(a) == ((a + PAGEWORDS - 1) \div PAGEWORDS) * PAGEWORDS
Mapped(t, a) == (a \div PAGEWORDS) \in t.mapped

\* variant: a frame may lie below the one before
check_AnyOrder(t, b) ==
    LET top == RoundUpPage(t.rsp)
    IN  IF \/ top - b.rbp \in 0 .. 1
           \/ ~ Mapped(t, b.rbp)
        THEN [b EXCEPT !.rbp = 0, !.rsp = 0]
        ELSE b

\* stack_top_ - rbp_ is unsigned, so that an rbp beyond the top passes, and
\* range_perm(16) looks at the page of rbp_ only, also where the return address
\* is on the next one.
check(t, b) ==
    LET top == RoundUpPage(t.rsp)
    IN  IF \/ b.rbp < b.rsp
           \/ top - b.rbp \in 0 .. 1
           \/ ~ Mapped(t, b.rbp)
        THEN [b EXCEPT !.rbp = 0, !.rsp = 0]
        ELSE b

step(t, b) == check(t, [b EXCEPT !.rsp = b.rbp + 2, !.rbp = t.mem[b.rbp]])

FrameLine(frame, ret_rip, name) ==
    vprintf(COLOR_ERROR,
            <<[char |-> "#"], Plain("d"), Plain("p")>>
            \o (IF name = 0 THEN <<>> ELSE <<Plain("s")>>) \o <<[char |-> "\n"]>>,
            <<[int |-> frame], [int |-> ret_rip]>>
            \o (IF name = 0 THEN <<>> ELSE <<[str |-> symtab[name].name]>>))

-----------------------------------------------------------------------------
(* panic, until the backtrace is printed; then fail                         *)

\* vpanic: the message starts a new row below the last one, and ends its row.
Bottom == [cell |-> Cells, scroll |-> TRUE]

Ended(c, said) ==
    IF Put(c, Bottom, said).p.cell % CONSOLE_COLUMNS = 0 THEN said ELSE said \o <<Cell("\n", COLOR_ERROR)>>

Message(c, format, args) ==
    IF format = <<>> THEN Colored(<<"P">>, COLOR_ERROR)
    ELSE Ended(c, Colored(<<"P", ":">>, COLOR_ERROR) \o vprintf(COLOR_ERROR, format, args))

\* The message is printed from start on, and the backtrace begins.
Report(old, start, out) ==
    /\ s' = move_cursor(Put(old, [cell |-> start, scroll |-> TRUE], out))
    /\ bt' = [check(session.stack, [NoTrace EXCEPT !.rbp = session.stack.rbp, !.rsp = session.stack.rsp])
                EXCEPT !.before = {old}, !.start = start, !.out = out]

vpanic(c, format, args) ==
    \E old \in {c} : \E out \in {Message(old, format, args)} : Report(old, Cells, out)

assert_fail(c) ==
    \E old \in {c} : \E out \in {vprintf(Complaint.color, Complaint.format, Complaint.args)} :
        Report(old, CPOS(CONSOLE_ROWS - 2, 0), out)

\* The kernel meets an exception that it does not expect, or a system call, or
\* one of its assertions fails.
Unexpected ==
    /\ mode = "run" /\ session.use = "panic"
    /\ check_keyboard("panic")
    /\ IF mode' = "panic"
       THEN \/ \E m \in Messages : vpanic(memshow(s), m.format, m.args)
            \/ assert_fail(memshow(s))
       ELSE s' = memshow(s) /\ UNCHANGED bt
    /\ shown' = console_show_cursor(s'.cursorpos)
    /\ UNCHANGED <<proc_vars, buf>>

\* sys_panic, after assert_fail
sys_panic ==
    /\ mode = "run"
    /\ procs[current].at = "panic"
    /\ check_keyboard("panic")
    /\ IF mode' = "panic" THEN vpanic(memshow(s), <<>>, <<>>)
       ELSE s' = memshow(s) /\ UNCHANGED bt
    /\ shown' = console_show_cursor(s'.cursorpos)
    /\ UNCHANGED <<proc_vars, buf>>

\* A turn of error_print_backtrace's loop, or its end, unless ret_rip() faults
error_print_backtrace ==
    /\ mode = "panic"
    /\ IF bt.rsp = 0
       THEN mode' = "fail" /\ UNCHANGED <<screen_vars, bt>>
       ELSE /\ Mapped(session.stack, bt.rbp + 1)
            /\ \E rip \in {session.stack.mem[bt.rbp + 1]} : \E name \in {lookup_symbol(rip)} :
               \E out \in {FrameLine(Len(bt.trace) + 1, rip, name)} :
                /\ s' = move_cursor(Put(s, Printer(s, -1), out))
                /\ shown' = console_show_cursor(s'.cursorpos)
                /\ bt' = [step(session.stack, bt) EXCEPT
                            !.trace = Append(bt.trace, [rbp |-> bt.rbp, rip |-> rip, name |-> name]),
                            !.out = bt.out \o out]
            /\ UNCHANGED mode
    /\ UNCHANGED <<boot_vars, kbd_vars, proc_vars, buf>>

\* ret_rip() reads a return address that is not mapped: exception() panics in
\* the panic.  The frames between the two panics come first in the new backtrace;
\* they are left out, so that it begins where the other did, and comes to the
\* same frame.  The model has no end of the kernel's stack.
KernelPageFault ==
    /\ mode = "panic" /\ bt.rsp # 0
    /\ ~ Mapped(session.stack, bt.rbp + 1)
    /\ check_keyboard("panic")
    /\ IF mode' = "panic" THEN \E m \in Messages : vpanic(s, m.format, m.args)
       ELSE UNCHANGED <<s, bt>>
    /\ shown' = console_show_cursor(s'.cursorpos)
    /\ UNCHANGED <<proc_vars, buf>>

fail ==
    /\ mode = "fail"
    /\ check_keyboard("fail")
    /\ UNCHANGED <<screen_vars, proc_vars, bt, buf>>

-----------------------------------------------------------------------------
Next ==
    \/ boot \/ LoadSegment \/ JumpToKernel \/ kernel_start
    \/ PressKey \/ ReleaseKey \/ ByteArrives
    \/ Preempt \/ PageFault \/ schedule
    \/ Begin \/ BeginAssertFail \/ PutNext \/ Finish \/ Snprintf
    \/ Unexpected \/ sys_panic \/ error_print_backtrace \/ KernelPageFault \/ fail

Spec == Init /\ [][Next]_vars
-----------------------------------------------------------------------------
(* What the user can rely on.                                               *)

\* The kernel's variables have their first values whenever it starts: when boot
\* jumps to it, although the sectors that hold the end of its data bring more of
\* the file with them, and when check_keyboard reboots it, although
\* init_interrupts has changed the data and the kernel the rest.
KernelPristine ==
    mode = "entry" =>
        LET ph1 == Segment(session.file)
        IN  \A i \in 0 .. ph1.p_memsz - 1 :
                mem[ph1.p_va + i] = IF i < ph1.p_filesz THEN ph1.p_offset + i + 1 ELSE 0

\* What keyboard_readc returns is what the user has typed: the character on the
\* key that the modifiers select, and once; whatever the calls that found no
\* byte, and wherever between the bytes of a key they came.
KeysRight == heard.c = heard.typed

\* On an endless sheet of rows: where the n-th character of out ends, from a
\* start on, and what is at place j then.
End(start, out, n) ==
    LET end[i \in 0 .. n] ==
            IF i = 0 THEN start
            ELSE IF out[i].char = "\n" THEN ((end[i - 1] \div CONSOLE_COLUMNS) + 1) * CONSOLE_COLUMNS
            ELSE end[i - 1] + 1
    IN  end[n]

Sheet(start, out, j) ==
    LET o == out[CHOOSE n \in DOMAIN out : End(start, out, n) > j /\ End(start, out, n - 1) <= j]
    IN  Cell(IF o.char = "\n" THEN " " ELSE o.char, o.color)

\* The console shows the last rows of the sheet: what was before it, the text, and
\* below it what was there, or nothing if a row had to go.
Shows(cells, before, start, out) ==
    \E end \in {End(start, out, Len(out))} :
    \E gone \in {IF end <= Cells THEN 0 ELSE (end - Cells + CONSOLE_COLUMNS - 1) \div CONSOLE_COLUMNS} :
        \A i \in 0 .. Cells - 1 : \E j \in {i + gone * CONSOLE_COLUMNS} :
            cells[i] = CASE j < start -> before.cells[j]
                         [] start <= j /\ j < end -> Sheet(start, out, j)
                         [] j >= end /\ j >= start /\ gone = 0 -> before.cells[j]
                         [] OTHER -> Zero

Printing == {i \in Procs : procs[i].at \in {"print", "assert"}}

\* However processes interrupt one another while they print, a console_printer
\* stays in the console and so does the cursor; a call that nothing printed into
\* leaves its text behind the old one, scrolled as far as it needs, and a panic's
\* message, or an assertion's, and its backtrace are on the screen in full.
ScreenRight ==
    /\ [](/\ s.cursorpos \in 0 .. Cells
          /\ \A i \in Procs : procs[i].p.cell \in 0 .. Cells
          /\ DOMAIN s.cells = 0 .. Cells - 1
          /\ mode \in {"panic", "fail"} => \A b \in bt.before : Shows(s.cells, b, bt.start, bt.out))
    /\ [][\A i \in Printing :
            procs'[i].at \in {"idle", "panic"} =>
                \A b \in procs[i].before : Shows(s'.cells, b, b.cursorpos, procs[i].text)]_vars

\* Symbol i holds the address; another one starts at the address as well.
Holds(i, addr) ==
    /\ symtab[i].st_value # 0
    /\ symtab[i].st_value <= addr
    /\ i < Len(symtab) => addr < symtab[i + 1].st_value
    /\ symtab[i].st_size = 0 \/ addr <= symtab[i].st_value + symtab[i].st_size

AnotherStarts(i, addr) == i > 1 /\ symtab[i - 1].st_value = addr

\* The backtrace of a panic follows the frames from the registers on, each above
\* the one before, so that it ends even if the stack is damaged; leaves out no
\* frame; and names the symbol that holds each return address, if one does and is
\* the only one to start at that very address (backtracer, lookup_symbol).  It
\* reads mapped memory only, with one exception: the return address of a frame
\* whose first word is the last of a mapped page, and only above the page of the
\* stack, since check() keeps the words below its top apart.  There the kernel
\* page faults inside the panic.
BacktraceRight ==
    LET t == session.stack
        Frame(n) == bt.trace[n]
    IN  /\ \A n \in DOMAIN bt.trace :
            /\ Frame(n).rbp = IF n = 1 THEN t.rbp ELSE t.mem[Frame(n - 1).rbp]
            /\ Frame(n).rbp >= IF n = 1 THEN t.rsp ELSE Frame(n - 1).rbp + 2
            /\ Mapped(t, Frame(n).rbp) /\ Mapped(t, Frame(n).rbp + 1)
            /\ Frame(n).rip = t.mem[Frame(n).rbp + 1]
            /\ IF Frame(n).name = 0 THEN \A i \in DOMAIN symtab : Holds(i, Frame(n).rip) => AnotherStarts(i, Frame(n).rip)
               ELSE Holds(Frame(n).name, Frame(n).rip)
            /\ n = Len(bt.trace) /\ mode = "fail" =>
                \/ t.mem[Frame(n).rbp] < Frame(n).rbp + 2
                \/ t.mem[Frame(n).rbp] \in {RoundUpPage(t.rsp) - 1, RoundUpPage(t.rsp)}
                \/ ~ Mapped(t, t.mem[Frame(n).rbp])
        /\ mode = "panic" /\ bt.rsp # 0 =>
            /\ Mapped(t, bt.rbp)
            /\ \/ Mapped(t, bt.rbp + 1)
               \/ bt.rbp > RoundUpPage(t.rsp) /\ (bt.rbp + 1) % PAGEWORDS = 0

-----------------------------------------------------------------------------
(* What printf's conversions mean, for a format "<", a directive, ">%u".    *)

DigitOf(c) == CHOOSE v \in 0 .. 15 : c \in {Digits(-16)[v + 1], Digits(16)[v + 1]}

ValueOf(digits, base) ==
    LET v[n \in 0 .. Len(digits)] == IF n = 0 THEN 0 ELSE v[n - 1] * base + DigitOf(digits[n])
    IN  v[Len(digits)]

\* text is spaces on one side, a sign or prefix and digits, and as wide as asked:
\* no digit is 0 in front of another unless the precision or the width needs it.
IsNumber(text, d, width, precision, arg) ==
    LET base == IF d.conv \in {"x", "X", "p"} THEN 16 ELSE 10
        value == IF d.conv \in {"d", "i"} THEN AsSigned(arg, Long(d)) ELSE AsUnsigned(arg, Long(d))
        sign == CASE value < 0 -> <<"-">>
                  [] value >= 0 /\ d.conv \in {"d", "i"} /\ "+" \in d.flags -> <<"+">>
                  [] value >= 0 /\ d.conv \in {"d", "i"} /\ d.flags \cap {"+", " "} = {" "} -> <<" ">>
                  [] d.conv = "X" /\ "#" \in d.flags /\ value # 0 -> <<"0", "X">>
                  [] d.conv = "p" \/ (d.conv = "x" /\ "#" \in d.flags /\ value # 0) -> <<"0", "x">>
                  [] OTHER -> <<>>
        filled == precision < 0 /\ d.flags \cap {"0", "-"} = {"0"}
    IN  \E left, right \in 0 .. Len(text) :
            LET digits == SubSeq(text, left + Len(sign) + 1, Len(text) - right)
            IN  /\ digits # <<>>
                /\ text = Repeat(" ", left) \o sign \o digits \o Repeat(" ", right)
                /\ \A i \in DOMAIN digits : \E v \in 0 .. base - 1 : digits[i] = Digits(IF d.conv = "X" THEN 16 ELSE -16)[v + 1]
                /\ ValueOf(digits, base) = Abs(value)
                /\ Len(digits) >= precision
                /\ Len(text) >= width
                /\ left > 0 => Len(text) = width /\ "-" \notin d.flags /\ ~ filled
                /\ right > 0 => Len(text) = width /\ "-" \in d.flags
                /\ Len(digits) > 1 /\ digits[1] = "0" =>
                        Len(digits) = precision \/ (filled /\ Len(text) = width)

IsText(text, d, width, precision, data) ==
    LET n == IF precision >= 0 /\ precision < Len(data) THEN precision ELSE Len(data)
        pad == Repeat(" ", width - n)
    IN  text = IF "-" \in d.flags THEN SubSeq(data, 1, n) \o pad ELSE pad \o SubSeq(data, 1, n)

Says(text, d, args) ==
    LET arg == args[Len(args) - 1]
        width == Width(d, args)
        precision == Precision(d, args)
    IN  \E m \in 2 .. Len(text) - 1 :
            /\ text[1] = "<" /\ text[m] = ">"
            /\ IF d.conv \in {"s", "c"} THEN IsText(SubSeq(text, 2, m - 1), d, width, precision, arg.str)
               ELSE IsNumber(SubSeq(text, 2, m - 1), d, width, precision, arg)
            /\ IsNumber(SubSeq(text, m + 1, Len(text)), Plain("u"), None, None, args[Len(args)])

\* snprintf returns the length of the whole text, in which each directive has
\* taken its own arguments; the buffer gets as much of it as fits with a NUL,
\* and nothing behind the buffer changes.
SnprintfRight ==
    \A b \in buf :
        \E whole \in {vsnprintf(Repeat("?", b.n + 1), b.n + 1, Around(b.d), b.args).s} :
            /\ Says(SubSeq(whole, 1, b.n), b.d, b.args) /\ whole[b.n + 1] = ""
            /\ b.size > 0 => b.s[IF b.n < b.size THEN b.n + 1 ELSE b.size] = ""
            /\ \A i \in 1 .. b.size + 2 :
                /\ i < b.size /\ i <= b.n => b.s[i] = whole[i]
                /\ i > b.size \/ i > b.n + 1 => b.s[i] = "?"

==============================================================================
