---------------------------- MODULE MCThreadPool ----------------------------
(* Two workers.  ThreadPool's client has three pieces of work of which the    *)
(* first adds the third; the password cracker up to three.                     *)
EXTENDS PasswordCracker

CONSTANTS a, b, c

MCTasks == {a, b, c} \cup 1 .. 3
MCValues == MCTasks \cup {Null}
MCChildren == [k \in MCTasks |-> IF k = a THEN {c} ELSE {}]

MCSessions ==
    {[dictionary |-> <<<<"c">>, <<>>>>, digits |-> <<"0">>, input |-> <<crypt_r(<<"c", "0">>, "s")>>],
     [dictionary |-> <<<<>>>>, digits |-> <<"0", "1">>,
      input |-> <<crypt_r(<<"0">>, "s"), EmptyLine, crypt_r(<<"1">>, "s")>>],
     [dictionary |-> <<<<>>>>, digits |-> <<"0">>,
      input |-> <<crypt_r(<<"0">>, "s"), crypt_r(<<"0">>, "t")>>]}

MCDirt == {<<"?">>}

==============================================================================
