---------------------------- MODULE PasswordCracker ----------------------------
(***************************************************************************)
(* threadpool/src/password_cracker.c: the program on the pool.  Its main   *)
(* thread forms the candidate passwords, a dictionary word with a digit    *)
(* put in somewhere, and adds one piece of work per candidate and hash;    *)
(* the workers hash the candidate and print it if it is the password.      *)
(*                                                                         *)
(* The pool is ThreadPool's.  The client is chosen at the start: this      *)
(* program, or ThreadPool's own, which adds any work in any order.         *)
(***************************************************************************)
EXTENDS ThreadPool, SequencesExt

CONSTANTS
    Sessions,    \* what the program may be run with: DICTIONARY, the digits
                 \* and the lines of the standard input
    Dirt,        \* what uninitialised memory may hold up to its first NUL
    MaxDirty,    \* bound: the passwords formed in memory that is not empty
    MaxQueued    \* bound: the pieces of work in the queue when main adds one

\* Pieces of work that are numbers are the program's, and they add no work.
ASSUME CrackerConstants ==
    /\ \A k \in Tasks \cap Nat : Children[k] = {}
    /\ \A s \in Sessions : s.input \in Seq(ToSet(s.input))

EmptyLine == [salt |-> "", digest |-> <<>>]

VARIABLES
    session,     \* one of Sessions, or NoSession for the other client
    cand,        \* the loop variables i, j and num_pos of main
    todo,        \* the hashes the innermost loop has still to add
    password,    \* main's pointer to the last string form_word returned
    strings,     \* the strings form_word has allocated, by address
    passes,      \* the hashpass_t main has allocated, by address; a piece of
                 \* work is the address of its hashpass_t, and Tasks bounds them
    printed      \* the work that printed its password, with what it printed

mainVars == <<session, cand, todo, password, strings, passes>>
crackVars == <<mainVars, printed>>

NoSession == [dictionary |-> <<>>, digits |-> <<>>, input |-> <<>>]
Cracking == session # NoSession

\* The hashes read from the standard input: the lines before an empty one.
hashes ==
    LET lines == session.input
        n == CHOOSE m \in 0 .. Len(lines) :
                /\ \A i \in 1 .. m : lines[i] # EmptyLine
                /\ m = Len(lines) \/ lines[m + 1] = EmptyLine
    IN  SubSeq(lines, 1, n)

CrackerInit ==
    /\ Init
    /\ session \in Sessions \cup {NoSession}
    /\ cand = [i |-> 1, j |-> 1, num_pos |-> -1]
    /\ todo = <<>>
    /\ password = 0
    /\ strings = <<>>
    /\ passes = <<>>
    /\ printed = {}

-----------------------------------------------------------------------------
(* main *)

\* Where num comes among the letters of word: before the first of those behind
\* num_pos, or last if there are none.
WithNumber(num_pos, num, word) ==
    LET behind == {i \in 1 .. Len(word) : num_pos < i - 1}
        at == IF behind = {} THEN Len(word) + 1 ELSE CHOOSE i \in behind : \A k \in behind : i <= k
    IN  InsertAt(word, at, num)

\* variant: all passwords are formed in one buffer
form_word_OneBuffer(num_pos, num, word, old) ==
    /\ password' = 1
    /\ strings' = <<old \o WithNumber(num_pos, num, word)>>

\* The string is appended with strcat to what malloc's memory holds.
form_word(num_pos, num, word, old) ==
    /\ password' = Len(strings) + 1
    /\ strings' = Append(strings, old \o WithNumber(num_pos, num, word))

\* The three outer loops: the candidate after c.
Advance(c) ==
    CASE c.num_pos + 1 < Len(session.dictionary[c.i]) -> [c EXCEPT !.num_pos = @ + 1]
      [] c.num_pos + 1 = Len(session.dictionary[c.i]) /\ c.j < Len(session.digits) ->
            [c EXCEPT !.j = @ + 1, !.num_pos = -1]
      [] OTHER -> [i |-> c.i + 1, j |-> 1, num_pos |-> -1]

Dirty == {n \in DOMAIN strings : Head(strings[n]) \in UNION {ToSet(d) : d \in Dirt}}

FormNext ==
    /\ mpc = "add" /\ pc[Main] = "idle"
    /\ todo = <<>>
    /\ cand.i <= Len(session.dictionary)
    /\ \E old \in {<<>>} \cup (IF Cardinality(Dirty) < MaxDirty THEN Dirt ELSE {}) :
         form_word(cand.num_pos, session.digits[cand.j], session.dictionary[cand.i], old)
    /\ todo' = hashes
    /\ cand' = Advance(cand)
    /\ UNCHANGED <<queueVars, poolVars, session, passes, printed>>

AddNext ==
    /\ mpc = "add"
    /\ todo # <<>>
    /\ Len(order) < MaxQueued
    /\ Len(passes) + 1 \in Tasks
    /\ passes' = Append(passes, [password |-> password, hash |-> Head(todo)])
    /\ AddWork(Main, Len(passes) + 1)
    /\ todo' = Tail(todo)
    /\ UNCHANGED <<mpc, count, wpc, done, session, cand, password, strings, printed>>

AllAdded ==
    /\ mpc = "add" /\ pc[Main] = "idle"
    /\ todo = <<>>
    /\ cand.i > Len(session.dictionary)
    /\ Len(order) < MaxQueued
    /\ mpc' = "pill"
    /\ UNCHANGED <<queueVars, count, wpc, added, functs, done, crackVars>>

-----------------------------------------------------------------------------
(* The work *)

\* crypt_r: a hash is its salt and a digest; no two passwords share a digest.
crypt_r(text, salt) == [salt |-> salt, digest |-> <<salt, text>>]

Matches(k) ==
    LET hash == passes[k].hash IN crypt_r(strings[passes[k].password], hash.salt).digest = hash.digest

\* hashes_match hashes the password, and prints it if it is the right one.
hashes_match(w) ==
    LET k == result[w] IN
    /\ wpc[w] = "run"
    /\ printed' = IF Matches(k) THEN printed \cup {<<k, strings[passes[k].password]>>} ELSE printed
    /\ WorkReturns(w)
    /\ UNCHANGED mainVars

-----------------------------------------------------------------------------
CrackerMain ==
    \/ FormNext \/ AddNext \/ AllAdded
    \/ (CreateWorker \/ EnqueueNull \/ JoinWorker \/ PoolFree) /\ UNCHANGED crackVars
    \/ QueueStep(Main) /\ UNCHANGED <<poolVars, crackVars>>

CrackerWorker(w) ==
    \/ hashes_match(w)
    \/ (WorkerStart(w) \/ WorkerTakes(w)) /\ UNCHANGED crackVars
    \/ QueueStep(w) /\ UNCHANGED <<poolVars, crackVars>>

ClientMain ==
    \/ Cracking /\ CrackerMain
    \/ ~ Cracking /\ MainStep /\ UNCHANGED crackVars

ClientWorker(w) ==
    \/ Cracking /\ CrackerWorker(w)
    \/ ~ Cracking /\ WorkerStep(w) /\ UNCHANGED crackVars

ClientNext ==
    \/ ClientMain
    \/ \E w \in Workers : ClientWorker(w)
    \/ (Wakeup \/ Finished) /\ UNCHANGED crackVars

\* As ThreadPool's Fairness, for either client.
ClientSpec ==
    /\ CrackerInit
    /\ [][ClientNext]_<<vars, crackVars>>
    /\ WF_<<vars, crackVars>>(ClientMain)
    /\ \A w \in Workers : WF_<<vars, crackVars>>(ClientWorker(w))
    /\ <>[][~ Wakeup]_vars

-----------------------------------------------------------------------------
\* A dictionary word with one digit put in, before, between or behind its letters.
Candidate(text) ==
    \E p \in DOMAIN text :
        text[p] \in ToSet(session.digits) /\ RemoveAt(text, p) \in ToSet(session.dictionary)

Wanted == {h.digest[2] : h \in ToSet(hashes)}

\* What the program prints are passwords of the hashes it read.
OnlyPasswords == \A p \in printed : p[2] \in Wanted

\* The program's answer: what it prints are passwords of the hashes it read, each
\* once for each hash it belongs to; and when main returns, a password that is
\* made of a dictionary word and a digit has been printed, unless the memory that
\* form_word appended it to was not empty.  That takes main, which goes on forming
\* passwords, not to touch one that a worker has not hashed yet.
PasswordsFound ==
    LET Hits(text) == {k \in DOMAIN hashes : hashes[k].digest[2] = text}
        Prints(text) == {p \in printed : p[2] = text}
        Missed == {text \in Wanted : Candidate(text) /\ Cardinality(Prints(text)) # Cardinality(Hits(text))}
    IN  /\ OnlyPasswords
        /\ \A text \in Wanted : Cardinality(Prints(text)) <= Cardinality(Hits(text))
        /\ mpc = "finished" => Cardinality(Missed) <= Cardinality(Dirty)

==============================================================================
