------------------------------ MODULE TapeFile ------------------------------
(***************************************************************************)
(* What a sequential standard file promises: a tape of records and marks   *)
(* with a head on it.  Writing at the head loses what was behind it;       *)
(* searching and skipping move the head as far as the next mark.  A record *)
(* deleted stays on the tape; no search gets past it.                      *)
(***************************************************************************)
EXTENDS Integers, Sequences

CONSTANTS Value, Deleted, Levels     \* contents, and the levels of marks

VARIABLES
    tape,    \* records (their contents or Deleted) and marks (their level)
    head,    \* how many of them are before the head
    result   \* what the last search found

tvars == <<tape, head, result>>

Nothing == [found |-> FALSE]
Record(v) == [record |-> v, level |-> 0]
Mark(l)   == [record |-> Deleted, level |-> l]
IsMark(i) == tape[i].level # 0

TapeInit == tape = <<>> /\ head = 0 /\ result = Nothing

Behind == SubSeq(tape, 1, head)
Nearest(S) == CHOOSE i \in S : \A j \in S : i <= j

\* A record or a mark written at the head.
Put == \E v \in Value :
    /\ tape' = Append(Behind, Record(v)) /\ head' = head + 1 /\ result' = Nothing
PutMark == \E l \in Levels :
    /\ tape' = Append(Behind, Mark(l)) /\ head' = head + 1 /\ result' = Nothing
Cut == tape' = Behind /\ result' = Nothing /\ UNCHANGED head

Rewind == head' = 0 /\ result' = Nothing /\ UNCHANGED tape

\* Over one record, not over a mark.
Forward ==
    /\ head < Len(tape) /\ ~IsMark(head + 1)
    /\ head' = head + 1 /\ result' = Nothing /\ UNCHANGED tape
Backward ==
    /\ head > 0 /\ ~IsMark(head)
    /\ head' = head - 1 /\ result' = Nothing /\ UNCHANGED tape

\* To the next mark or the end, to write there.
ToMark ==
    LET marks == {i \in head + 1 .. Len(tape) : IsMark(i)} IN
    /\ head' = IF marks = {} THEN Len(tape) ELSE Nearest(marks) - 1
    /\ result' = Nothing /\ UNCHANGED tape

\* The first record with contents v before a mark or a deleted record; from the head, from
\* the beginning or behind the record found last.  When there is none the head is behind
\* the mark, or before the deleted record.
Find == \E v \in Value, from \in {head, 0} \cup (IF result.found THEN {result.item} ELSE {}) :
    LET stops == {i \in from + 1 .. Len(tape) : IsMark(i) \/ tape[i].record \in {v, Deleted}}
        i     == Nearest(stops)
    IN /\ IF stops = {} THEN head' = Len(tape) /\ result' = Nothing
          ELSE IF ~IsMark(i) /\ tape[i].record = v
          THEN head' = i /\ result' = [found |-> TRUE, item |-> i, record |-> v]
          ELSE head' = (IF IsMark(i) THEN i ELSE i - 1) /\ result' = Nothing
       /\ UNCHANGED tape

\* The record found last, read again or deleted.
Get == result.found /\ UNCHANGED tvars

Delete ==
    /\ result.found
    /\ tape' = [tape EXCEPT ![result.item].record = Deleted]
    /\ UNCHANGED <<head, result>>

\* Closing and opening: the head is at the beginning.
Reopen == head' = 0 /\ result' = Nothing /\ UNCHANGED tape

TapeNext ==
    \/ Put \/ PutMark \/ Cut \/ Rewind \/ Forward \/ Backward \/ ToMark \/ Find
    \/ Get \/ Delete \/ Reopen

TapeSpec == TapeInit /\ [][TapeNext]_tvars
=============================================================================
