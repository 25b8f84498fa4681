------------------------------ MODULE MCMachine ------------------------------
(***************************************************************************)
(* A small machine: a console of 4 rows of 2 columns, two processes, eight *)
(* keys, kernel files of a few sectors of 4 bytes, a stack of two pages of *)
(* 4 words, ints of 4 bits and longs of 6.                                 *)
(***************************************************************************)
EXTENDS Machine

MCFiles ==
    {[magic |-> m, length |-> 24, data_start |-> 14,
      phs |-> <<[p_va |-> 12, p_offset |-> o, p_filesz |-> f, p_memsz |-> f + b]>>] :
        m \in BOOLEAN, o \in {8, 12}, f \in 5 .. 8, b \in {0, 1, 5}}

Key(code, escape, mod, letter, chars) ==
    [code |-> code, escape |-> escape, mod |-> mod, letter |-> letter, chars |-> chars,
     arrow |-> escape /\ mod = "none", exit |-> chars[1] = 113]

MCKeys ==
    {Key(30, FALSE, "none", TRUE, <<97, 65, 1, 1>>),        \* A
     Key(16, FALSE, "none", TRUE, <<113, 81, 17, 17>>),     \* Q
     Key(7, FALSE, "none", FALSE, <<54, 94, 0, 30>>),       \* 6
     Key(72, TRUE, "none", FALSE, <<192, 192, 192, 192>>),  \* up
     Key(42, FALSE, "shift", FALSE, <<0, 0, 0, 0>>),
     Key(54, FALSE, "shift", FALSE, <<0, 0, 0, 0>>),
     Key(29, TRUE, "control", FALSE, <<0, 0, 0, 0>>),
     Key(58, FALSE, "capslock", FALSE, <<0, 0, 0, 0>>)}

Chars(text) == [i \in DOMAIN text |-> [char |-> text[i]]]
Call(color, format, args) == [color |-> color, format |-> format, args |-> args]

\* a digit in another color, and a text of more than a screen
MCCalls ==
    {Call(Gray, <<Plain("C"), Plain("d")>>, <<[int |-> 512], [int |-> 7]>>),
     Call(Gray, Chars(<<"c", "d", "e", "\n", "f", "\n", "\n", "g">>), <<>>)}

MCComplaint == Call(49152, Chars(<<"f", ":", "l", "\n">>), <<>>)

MCDirectives ==
    [flags : SUBSET {"#", "0", "-", " ", "+"}, width : {None, 4, Star}, precision : {None, 3, Star},
     length : {"", "l"}, conv : {"d", "x", "X", "p"}]
    \cup [flags : SUBSET {"0", "-"}, width : {None, 3, Star}, precision : {None, 1, Star}, length : {""}, conv : {"s", "c"}]

\* 14 is -2 for an int; 0, positive and negative numbers of both lengths
MCStars == {2, 14}
MCArguments ==
    [c \in {"d", "x", "X", "p", "s", "c"} |->
        CASE c = "s" -> {[str |-> <<"h", "i">>]} [] c = "c" -> {[str |-> <<"h">>]}
          [] OTHER -> {[int |-> v] : v \in {0, 23, 46}}]

MCMessages == {[format |-> Chars(<<"x", "\n">>), args |-> <<>>],
               [format |-> <<Plain("d")>>, args |-> <<[int |-> 3]>>]}

MCsymtab == <<[st_value |-> 0, st_size |-> 0, name |-> <<"z">>],
              [st_value |-> 10, st_size |-> 2, name |-> <<"s">>],
              [st_value |-> 20, st_size |-> 0, name |-> <<"t">>],
              [st_value |-> 20, st_size |-> 0, name |-> <<"v">>],
              [st_value |-> 30, st_size |-> 1, name |-> <<"u">>]>>

\* Frames at 1, 3 and 5, the callers' rbp good or not, and a return address
MCStacks ==
    {[mem |-> [a \in 0 .. 8 |-> IF a = 1 THEN f ELSE IF a = 3 THEN g ELSE IF a = 5 THEN h ELSE IF a = 6 THEN rip ELSE 20 + a],
      mapped |-> m, rsp |-> 1, rbp |-> b] :
        f \in {3, 5}, g \in {1, 5, 7}, h \in {0, 3, 7}, rip \in {5, 13, 20, 31, 40}, m \in {{0}, {0, 1}}, b \in {1, 3, 7}}

==============================================================================
