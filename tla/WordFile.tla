------------------------------ MODULE WordFile ------------------------------
(***************************************************************************)
(* What the word-addressable files of src/primitives/c_baseio.c promise:   *)
(* every file is one array of words, numbered from 1.  A request writes a  *)
(* stretch of words or reads one; it is carried out from its first word    *)
(* on, in pieces of any length.  Closing and opening a file change none of *)
(* its words.  What lies between the end of a file and a write behind it   *)
(* is not promised to be anything.                                         *)
(***************************************************************************)
EXTENDS Integers, Sequences

CONSTANTS File, Word, Junk

VARIABLES
    words,   \* the words of each file
    todo,    \* what is left of the request in progress
    got      \* the words it has read

wvars == <<words, todo, got>>

Idle == [kind |-> "none"]

WfInit ==
    /\ words \in [File -> {<<>>}]
    /\ todo = Idle
    /\ got = <<>>

Requests == [kind : {"read", "write"}, file : File, adr : Nat \ {0}, n : Nat \ {0},
             word : Word]

Request ==
    /\ todo = Idle
    /\ todo' \in Requests
    /\ got' = <<>>
    /\ UNCHANGED words

Left(m) == IF m = todo.n THEN Idle
           ELSE [todo EXCEPT !.adr = @ + m, !.n = @ - m]

Over(s, adr, n, w) ==
    [i \in 1 .. IF Len(s) < adr + n THEN adr + n - 1 ELSE Len(s) |->
        IF i \in adr .. adr + n - 1 THEN w ELSE s[i]]

\* A write that begins behind the end of the file, which grows first.
Grow(m) ==
    /\ todo.kind = "write" /\ Len(words[todo.file]) + m <= todo.adr
    /\ words' = [words EXCEPT ![todo.file] = Over(@, Len(@) + 1, m, Junk)]
    /\ got' = <<>>
    /\ UNCHANGED todo

Write(m) ==
    /\ todo.kind = "write" /\ m <= todo.n
    /\ todo.adr <= Len(words[todo.file]) + 1
    /\ words' = [words EXCEPT ![todo.file] = Over(@, todo.adr, m, todo.word)]
    /\ todo' = Left(m)
    /\ got' = <<>>

Read(m) ==
    /\ todo.kind = "read" /\ m <= todo.n
    /\ got' = SubSeq(words[todo.file], todo.adr, todo.adr + m - 1)
    /\ todo' = Left(m)
    /\ UNCHANGED words

Forget ==
    /\ got' = <<>>
    /\ UNCHANGED <<words, todo>>

WfNext ==
    \/ Request \/ Forget
    \/ /\ todo # Idle
       /\ \/ \E m \in 1 .. todo.n : Write(m) \/ Read(m)
          \/ \E m \in 1 .. todo.adr : Grow(m)

WfSpec == WfInit /\ [][WfNext]_wvars
=============================================================================
