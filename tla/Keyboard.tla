------------------------------- MODULE Keyboard -------------------------------
(***************************************************************************)
(* mini-operating-system/k-hardware.cc: keyboard_readc, which turns the    *)
(* bytes of the keyboard controller into characters, one byte a call.      *)
(* Characters are their codes.  The static variables of keyboard_readc     *)
(* are the record k: modifiers, the set of its bits, and last_escape.      *)
(***************************************************************************)
EXTENDS Integers, Sequences

KEY_SHIFT == 250        \* 0xFA, then CONTROL, ALT, CAPSLOCK, NUMLOCK, SCROLLLOCK
KEY_CAPSLOCK == 253

MOD == <<"shift", "control", "alt", "capslock", "numlock", "scrolllock">>
Bit(ch) == MOD[ch - KEY_SHIFT + 1]

CKEY(cn) == 128 + cn

\* keymap[0 .. 0x53]; CKEY(0) is 128, and 250 to 255 are the modifiers.
Main == <<
      0,  27, 128, 129, 130, 131, 132, 133, 134, 135, 136, 137, 138, 139,   8,   9,
    113, 119, 101, 114, 116, 121, 117, 105, 111, 112, 140, 141, 142, 251,  97, 115,
    100, 102, 103, 104, 106, 107, 108, 143, 144, 145, 250, 146, 122, 120,  99, 118,
     98, 110, 109, 147, 148, 149, 250,  42, 252,  32, 253,   0,   0,   0,   0,   0,
      0,   0,   0,   0,   0, 254, 255,  55,  56,  57,  45,  52,  53,  54,  43,  49,
     50,  51,  48,  46>>

\* The entries from 0x80 on that are not 0: the keys that send 0xE0 first.
\* 192 to 201 are KEY_UP, RIGHT, DOWN, LEFT, HOME, END, PAGEUP, PAGEDOWN, INSERT
\* and DELETE.
Escaped == {<<156, CKEY(14)>>, <<157, 251>>, <<181, 47>>, <<184, 252>>, <<199, 196>>, <<200, 192>>,
            <<201, 198>>, <<203, 195>>, <<205, 193>>, <<207, 197>>, <<208, 194>>, <<209, 199>>,
            <<210, 200>>, <<211, 201>>}

keymap == [code \in 0 .. 255 |->
    CASE code < Len(Main) -> Main[code + 1]
      [] code \in {e[1] : e \in Escaped} -> (CHOOSE e \in Escaped : e[1] = code)[2]
      [] OTHER -> 0]

\* Each key alone, with shift, with control and with both.
complex_keymap == <<
    <<49, 33, 0, 0>>, <<50, 64, 0, 0>>, <<51, 35, 0, 0>>, <<52, 36, 0, 0>>, <<53, 37, 0, 0>>,
    <<54, 94, 0, 30>>, <<55, 38, 0, 0>>, <<56, 42, 0, 0>>, <<57, 40, 0, 0>>, <<48, 41, 0, 0>>,
    <<45, 95, 0, 31>>, <<61, 43, 0, 0>>, <<91, 123, 27, 0>>, <<93, 125, 29, 0>>, <<10, 10, 13, 13>>,
    <<59, 58, 0, 0>>, <<39, 34, 0, 0>>, <<96, 126, 0, 0>>, <<92, 124, 28, 0>>, <<44, 60, 0, 0>>,
    <<46, 62, 0, 0>>, <<47, 63, 0, 0>>>>

\* What is printed on a key: alone, with shift, with control and with both.
Labels(ch) ==
    CASE ch \in 97 .. 122 -> <<ch, ch - 32, ch - 96, ch - 96>>
      [] ch \in CKEY(0) .. CKEY(21) -> complex_keymap[ch - CKEY(0) + 1]
      [] ch \in (0 .. 127) \ (97 .. 122) -> <<ch, ch, 0, 0>>
      [] OTHER -> <<ch, ch, ch, ch>>

\* A key of the keyboard that the tables are made for: 96 would send 0xE0 when it
\* is released.
Labelled(key) ==
    /\ key.code \in (0 .. 127) \ {96}
    /\ key.escape \in BOOLEAN
    /\ \E ch \in {keymap[key.code + (IF key.escape THEN 128 ELSE 0)]} :
        /\ key.mod = IF ch >= KEY_SHIFT THEN Bit(ch) ELSE "none"
        /\ ch < KEY_SHIFT => key.letter = (ch \in 97 .. 122) /\ key.chars = Labels(ch)

Statics == [modifiers |-> {}, last_escape |-> 0]

-----------------------------------------------------------------------------
Release(k, data) ==
    LET ch == keymap[(data - 128) + k.last_escape]
    IN  [k EXCEPT !.last_escape = 0,
                  !.modifiers = IF KEY_SHIFT <= ch /\ ch < KEY_CAPSLOCK THEN @ \ {Bit(ch)} ELSE @]

Toggled(m, b) == IF b \in m THEN m \ {b} ELSE m \cup {b}

\* A key that is pressed sets or toggles a modifier ...
Pressed(k, ch) ==
    [k EXCEPT !.last_escape = 0,
              !.modifiers = CASE ch >= KEY_CAPSLOCK -> Toggled(@, Bit(ch))
                              [] ch >= KEY_SHIFT /\ ch < KEY_CAPSLOCK -> @ \cup {Bit(ch)}
                              [] OTHER -> @]

\* ... or is a character.
Char(m, ch) ==
    CASE ch \in 97 .. 122 ->
            IF "control" \in m THEN ch - 96
            ELSE IF ("shift" \in m) # ("capslock" \in m) THEN ch - 32 ELSE ch
      [] ch >= KEY_SHIFT -> 0
      [] ch \in CKEY(0) .. CKEY(21) ->
            complex_keymap[ch - CKEY(0) + 1]
                [1 + (IF "shift" \in m THEN 1 ELSE 0) + (IF "control" \in m THEN 2 ELSE 0)]
      [] ch \in (0 .. 127) \ (97 .. 122) /\ "control" \in m -> 0
      [] OTHER -> ch

\* variant: the escape is forgotten by a call that finds no byte
keyboard_readc_Forgets(k, port) ==
    IF port = <<>> THEN [c |-> -1, k |-> [k EXCEPT !.last_escape = 0]]
    ELSE LET data == Head(port)
             ch == keymap[(data % 128) + k.last_escape]
         IN  CASE data = 224 -> [c |-> 0, k |-> [k EXCEPT !.last_escape = 128]]
               [] data # 224 /\ data >= 128 -> [c |-> 0, k |-> Release(k, data)]
               [] OTHER -> [c |-> Char(k.modifiers, ch), k |-> Pressed(k, ch)]

\* port: the bytes that the controller holds for the kernel, in order; a call
\* takes the first.
keyboard_readc(k, port) ==
    IF port = <<>> THEN [c |-> -1, k |-> k]
    ELSE LET data == Head(port)
             ch == keymap[(data % 128) + k.last_escape]
         IN  CASE data = 224 -> [c |-> 0, k |-> [k EXCEPT !.last_escape = 128]]
               [] data # 224 /\ data >= 128 -> [c |-> 0, k |-> Release(k, data)]
               [] OTHER -> [c |-> Char(k.modifiers, ch), k |-> Pressed(k, ch)]

==============================================================================
