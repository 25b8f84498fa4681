------------------------------- MODULE Console -------------------------------
(***************************************************************************)
(* mini-operating-system/lib.cc: printer::vprintf, which formats what the  *)
(* kernel and the programs print, vsnprintf, and the console, an array of  *)
(* cells that the kernel and every process have mapped, with the position  *)
(* of the cursor behind it, and the console_printer that puts characters   *)
(* in it.                                                                  *)
(*                                                                         *)
(* A text is a sequence of one-character strings; "" is the character NUL. *)
(* A format is a sequence of characters and directives.  A directive       *)
(* has flags, a width and a precision (None where it gives none, Star      *)
(* where it takes an argument), a length and a conversion, which is        *)
(* "" where the format ends after a "%".                                   *)
(*                                                                         *)
(* A console s has the fields cells and cursorpos.  A cell holds a         *)
(* character and a color, or Zero (the 0 that memset leaves).  A printer p *)
(* has the fields cell (cell_ - console) and scroll (scroll_).             *)
(***************************************************************************)
EXTENDS Integers, Sequences

CONSTANTS
    IntMod,     \* the number of values of an int
    LongMod,    \* the number of values of a long, a multiple of IntMod
    CONSOLE_ROWS,
    CONSOLE_COLUMNS

None == -1
Star == -2

Larger(a, b) == IF a > b THEN a ELSE b
Repeat(c, n) == [i \in 1 .. Larger(n, 0) |-> c]

\* An argument is a record: int, a bit pattern of LongMod values, or str, a
\* text.
AsUnsigned(arg, long) == IF long THEN arg.int ELSE arg.int % IntMod
AsSigned(arg, long) ==
    LET mod == IF long THEN LongMod ELSE IntMod
        u == AsUnsigned(arg, long)
    IN  IF u >= mod \div 2 THEN u - mod ELSE u

-----------------------------------------------------------------------------
Digits(base) ==
    IF base < 0 THEN <<"0", "1", "2", "3", "4", "5", "6", "7", "8", "9", "a", "b", "c", "d", "e", "f">>
    ELSE <<"0", "1", "2", "3", "4", "5", "6", "7", "8", "9", "A", "B", "C", "D", "E", "F">>

Abs(n) == IF n < 0 THEN - n ELSE n

\* The digits are put in front of one another, from the last to the first.
fill_numbuf(val, base) ==
    LET text[v \in 0 .. val] ==
            (IF v < Abs(base) THEN <<>> ELSE text[v \div Abs(base)]) \o <<Digits(base)[(v % Abs(base)) + 1]>>
    IN  text[val]

Signed(d) == d.conv \in {"d", "i"}
Numeric(d) == d.conv \in {"d", "i", "u", "x", "X", "p"}
Base(d) == CASE d.conv \in {"x", "p"} -> -16 [] d.conv = "X" -> 16 [] OTHER -> 10

\* "l", "t" and "z"; a pointer is a long in any case.
Long(d) == d.length \in {"l", "t", "z"} \/ d.conv = "p"

\* num, the magnitude of a signed argument
Num(d, arg) == IF Signed(d) THEN Abs(AsSigned(arg, Long(d))) ELSE AsUnsigned(arg, Long(d))

Data(d, arg) ==
    CASE Numeric(d) -> fill_numbuf(Num(d, arg), Base(d))
      [] d.conv \in {"s", "c"} -> arg.str
      [] d.conv = "" -> <<"%">>
      [] OTHER -> <<d.conv>>

Prefix(d, arg) ==
    CASE Signed(d) /\ AsSigned(arg, Long(d)) < 0 -> <<"-">>
      [] Signed(d) /\ AsSigned(arg, Long(d)) >= 0 ->
            IF "+" \in d.flags THEN <<"+">> ELSE IF " " \in d.flags THEN <<" ">> ELSE <<>>
      [] d.conv = "p" \/ (d.conv \in {"x", "X"} /\ "#" \in d.flags /\ Num(d, arg) # 0) ->
            IF Base(d) = -16 THEN <<"0", "x">> ELSE <<"0", "X">>
      [] OTHER -> <<>>

\* Where a string, or a character, ends: at a NUL or after max characters.
strnlen(data, max) ==
    CHOOSE n \in 0 .. Len(data) :
        /\ \A i \in 1 .. n : data[i] # ""
        /\ n = Len(data) \/ n = max \/ data[n + 1] = ""

Zeros(d, width, precision, prefix, datalen) ==
    CASE Numeric(d) /\ precision >= 0 -> Larger(precision - datalen, 0)
      [] Numeric(d) /\ precision < 0 /\ {"0", "-"} \cap d.flags = {"0"} ->
            Larger(width - datalen - Len(prefix), 0)
      [] OTHER -> 0

\* One directive, with its width and precision.
Padded(left, spaces, text) == IF left THEN text \o spaces ELSE spaces \o text

Spread(d, width, prefix, zeros, data) ==
    Padded("-" \in d.flags, Repeat(" ", width - Len(data) - zeros - Len(prefix)),
           prefix \o Repeat("0", zeros) \o data)

Field(d, width, precision, prefix, data) ==
    Spread(d, width, prefix, Zeros(d, width, precision, prefix, Len(data)), data)

Cut(data, n) == SubSeq(data, 1, n)

Shown(d, precision, data) == Cut(data, strnlen(data, IF Numeric(d) THEN None ELSE precision))

Formatted(d, width, precision, arg) ==
    Field(d, width, precision, Prefix(d, arg), Shown(d, precision, Data(d, arg)))

\* A directive takes its arguments in order: the width, the precision, and what
\* it prints.  No precision is negative that the format gives.
Takes(d) == d.conv \in {"d", "i", "u", "x", "X", "p", "s", "c", "C"}

Taken(d) == <<d.width = Star, d.precision = Star, Takes(d)>>
Nth(d, n) == Len(SelectSeq(SubSeq(Taken(d), 1, n), LAMBDA t : t))

Width(d, args) == IF d.width = Star THEN AsSigned(args[1], FALSE) ELSE d.width
Precision(d, args) ==
    IF d.precision = Star THEN Larger(AsSigned(args[Nth(d, 2)], FALSE), 0) ELSE d.precision
Argument(d, args) == IF Takes(d) THEN args[Nth(d, 3)] ELSE [str |-> <<>>]

\* The characters that a format makes putc put, each with its color.
Colored(text, c) == [i \in DOMAIN text |-> [char |-> text[i], color |-> c]]

Extend(so, f) ==
    IF DOMAIN f = {"char"} THEN [so EXCEPT !.out = @ \o Colored(<<f.char>>, so.color)]
    ELSE [out |-> so.out \o
                  (IF f.conv = "C" THEN <<>>
                   ELSE Colored(Formatted(f, Width(f, so.args), Precision(f, so.args), Argument(f, so.args)),
                                so.color)),
          color |-> IF f.conv = "C" THEN Argument(f, so.args).int ELSE so.color,
          args |-> SubSeq(so.args, Nth(f, 3) + 1, Len(so.args))]

vprintf(color, format, args) ==
    LET after[n \in 0 .. Len(format)] ==
            IF n = 0 THEN [out |-> <<>>, color |-> color, args |-> args]
            ELSE Extend(after[n - 1], format[n])
    IN  after[Len(format)].out

Text(out) == [i \in DOMAIN out |-> out[i].char]

-----------------------------------------------------------------------------
(* vsnprintf: s is the memory from the buffer on, of which size belong to it. *)

Shorter(a, b) == IF a < b THEN a ELSE b

\* variant: the NUL of a text that does not fit is written behind the buffer
Stored_Behind(s, size, text) ==
    [i \in DOMAIN s |->
        IF size > 0 /\ i = Shorter(Len(text), size) + 1 THEN "" ELSE IF i <= Shorter(Len(text), size) THEN text[i] ELSE s[i]]

Stored(s, size, text) ==
    [i \in DOMAIN s |->
        IF size > 0 /\ i = Shorter(Len(text) + 1, size) THEN ""
        ELSE IF i <= Shorter(Len(text), size) THEN text[i] ELSE s[i]]

Result(s, size, text) == [n |-> Len(text), s |-> Stored(s, size, text)]

vsnprintf(s, size, format, args) == Result(s, size, Text(vprintf(0, format, args)))

-----------------------------------------------------------------------------
(* The console.                                                             *)

Cells == CONSOLE_ROWS * CONSOLE_COLUMNS
CPOS(row, col) == row * CONSOLE_COLUMNS + col
Gray == 1792    \* 0x0700

Cell(c, color) == [char |-> c, color |-> color]
Zero == Cell("", 0)

console_clear == [cells |-> [i \in 0 .. Cells - 1 |-> Cell(" ", Gray)], cursorpos |-> 0]

-----------------------------------------------------------------------------
(* memmove and memset on the cells.                                         *)

\* The cells are copied one by one, upwards or downwards; one that has been
\* written already is read as it is then.
Copied(a, dst, src, n, down) ==
    LET cell[j \in DOMAIN a] ==
            IF j \notin dst .. dst + n - 1 THEN a[j]
            ELSE LET from == j - dst + src
                 IN  IF from \in (IF down THEN j + 1 .. dst + n - 1 ELSE dst .. j - 1) THEN cell[from] ELSE a[from]
    IN  cell

\* variant: downwards in any case
memmove_Down(a, dst, src, n) == Copied(a, dst, src, n, TRUE)

memmove(a, dst, src, n) == Copied(a, dst, src, n, src < dst /\ src + n > dst)

memset(a, dst, v, n) == [i \in DOMAIN a |-> IF i \in dst .. dst + n - 1 THEN v ELSE a[i]]

-----------------------------------------------------------------------------
(* console_printer                                                          *)

Printer(s, cpos) ==
    [cell |-> IF cpos < 0 THEN s.cursorpos ELSE IF cpos <= Cells THEN cpos ELSE 0,
     scroll |-> cpos < 0]

scroll(sp) ==
    IF ~ sp.p.scroll THEN [sp EXCEPT !.p.cell = 0]
    ELSE [s |-> [sp.s EXCEPT !.cells =
                    memset(memmove(@, 0, CONSOLE_COLUMNS, Cells - CONSOLE_COLUMNS),
                           Cells - CONSOLE_COLUMNS, Zero, CONSOLE_COLUMNS)],
          p |-> [sp.p EXCEPT !.cell = @ - CONSOLE_COLUMNS]]

\* One scroll is enough: a printer's cell is at most Cells.
Scrolled(sp) == IF sp.p.cell >= Cells THEN scroll(sp) ELSE sp

Fill(sp, v, n) ==
    [s |-> [sp.s EXCEPT !.cells = memset(@, sp.p.cell, v, n)],
     p |-> [sp.p EXCEPT !.cell = @ + n]]

Put1(sp, c, color) ==
    IF c = "\n" THEN Fill(sp, Cell(" ", color), CONSOLE_COLUMNS - (sp.p.cell % CONSOLE_COLUMNS))
    ELSE Fill(sp, Cell(c, color), 1)

putc(sp, c, color) == Put1(Scrolled(sp), c, color)

\* A whole call, as the kernel makes it: nothing comes between its characters.
Put(s, p, out) ==
    LET after[n \in 0 .. Len(out)] ==
            IF n = 0 THEN [s |-> s, p |-> p] ELSE putc(after[n - 1], out[n].char, out[n].color)
    IN  after[Len(out)]

move_cursor(sp) == [sp.s EXCEPT !.cursorpos = sp.p.cell]

Printed(sp, cpos) == IF cpos < 0 THEN move_cursor(sp) ELSE sp.s

console_vprintf(s, cpos, color, format, args) ==
    Printed(Put(s, Printer(s, cpos), vprintf(color, format, args)), cpos)

==============================================================================
