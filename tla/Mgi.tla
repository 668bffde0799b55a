-------------------------------- MODULE Mgi --------------------------------
(***************************************************************************)
(* Records sent between programs through a server: src/primitives/mgilib2.c*)
(* for the programs, src/primitives/gossip_sock.c for both ends.  A program*)
(* that writes and one that reads have each a connection to the server,    *)
(* with a stream of bytes in each direction, here of whole items: a        *)
(* command, SEND, the length of a record, its words, ACK or NACK.  An end  *)
(* that reads waits until the item is there.  Sockets are set to blocking  *)
(* mode once they are connected, so that the time-outs the library keeps   *)
(* for a channel end no wait.                                              *)
(*                                                                         *)
(* The server is another program.  What it does follows from the calls of  *)
(* the library that its end must make for the two ends to agree: it answers*)
(* a command, runs read_record or write_record, and answers again when that*)
(* is done.  It keeps the records in the order they came and lets a reader *)
(* wait for one.                                                           *)
(***************************************************************************)
EXTENDS Naturals, Sequences, SequencesExt

CONSTANTS Script,          \* the records the program writes, and the other reads
          Tries            \* USER_TRY_CONNECT

ASSUME MgiAssumption == Script \in Seq(Range(Script)) /\ Tries \in Nat

Conns == {"write", "read"}
Ends  == {"client", "server"}
Other(e) == IF e = "client" THEN "server" ELSE "client"

VARIABLES pc,         \* what each end of a connection waits for
          hand,       \* the record it sends or receives; of the program that writes, all so far
          inbox,      \* the items on their way to it
          asked,      \* the number of words the reader asked for
          attempts,   \* connections tried by mgi_open
          mode,       \* what the server was told the channel is opened for
          returned,   \* what the last call of the program returned
          stored,     \* the server's records
          got         \* the records the reader got

mgivars == <<pc, hand, inbox, asked, attempts, mode, returned, stored, got>>

Item(k, n) == [kind |-> k, n |-> n]
ACK  == Item("ACK", 0)
NACK == Item("NACK", 0)
Tag(n) == Item("length", n)
Words(r) == [kind |-> "words", words |-> r]

MgiInit ==
    /\ pc = [c \in Conns |-> [e \in Ends |-> IF e = "client" THEN "closed" ELSE "command"]]
    /\ hand = [c \in Conns |-> [e \in Ends |-> <<>>]]
    /\ inbox = [c \in Conns |-> [e \in Ends |-> <<>>]]
    /\ asked = 0
    /\ attempts = [c \in Conns |-> 0]
    /\ mode = [c \in Conns |-> ""]
    /\ returned = [c \in Conns |-> "none"]
    /\ stored = <<>> /\ got = <<>>

Put(c, e, items) == inbox' = [inbox EXCEPT ![c][Other(e)] = @ \o items]
Take(c, e, items) == inbox' = [inbox EXCEPT ![c][e] = Tail(@), ![c][Other(e)] = @ \o items]
Goto(c, e, p) == pc' = [pc EXCEPT ![c][e] = p]
Return(c, r) ==
    /\ pc' = [pc EXCEPT ![c]["client"] = "open"]
    /\ returned' = [returned EXCEPT ![c] = r]

\* The end finds the item it waits for; or there is none and the other end is gone.
Gets(c, e, p)  == pc[c][e] = p /\ inbox[c][e] # <<>>
Fails(c, e, p) == pc[c][e] = p /\ inbox[c][e] = <<>> /\ pc[c][Other(e)] = "dead"
Got(c, e)  == Head(inbox[c][e])

\* get_ack_nack
Acked(c, e) == Got(c, e) = ACK

Rest == UNCHANGED <<asked, attempts, mode, stored, got>>

-----------------------------------------------------------------------------
\* mgi_init and mgi_open: one attempt per step, and as many again as Tries; the attempts
\* after the first all ask for a channel to write on (retry_connect).  A refusal leaves
\* nothing behind.
Told(c) == IF attempts[c] = 0 THEN c ELSE "write"

MgiOpen(c) ==
    /\ pc[c]["client"] = "closed" /\ attempts[c] <= Tries
    /\ attempts' = [attempts EXCEPT ![c] = @ + 1]
    /\ \/ /\ mode' = [mode EXCEPT ![c] = Told(c)]
          /\ Return(c, "channel")
       \/ /\ IF attempts[c] = Tries
             THEN /\ pc' = [pc EXCEPT ![c]["client"] = "refused"]
                  /\ returned' = [returned EXCEPT ![c] = "CONNECTION_ERROR"]
             ELSE UNCHANGED <<pc, returned>>
          /\ UNCHANGED mode
    /\ UNCHANGED <<hand, inbox, asked, stored, got>>

\* mgi_write: bwrite sends the command and waits for its answer.
MgiWrite ==
    /\ pc["write"]["client"] = "open" /\ returned["write"] # "WRITE_ERROR"
    /\ hand["write"]["client"] # Script
    /\ LET k == Len(hand["write"]["client"]) + 1 IN
       hand' = [hand EXCEPT !["write"]["client"] = Append(@, Script[k])]
    /\ Put("write", "client", <<Item("WRITE", 0)>>)
    /\ Goto("write", "client", "command_acked")
    /\ UNCHANGED returned /\ Rest

\* mgi_read: its buffer is n words long.
MgiRead(n) ==
    /\ pc["read"]["client"] = "open" /\ Len(got) < Len(Script)
    /\ returned["read"] \in {"channel", "record"}
    /\ asked' = n
    /\ Put("read", "client", <<Item("READ", 0)>>)
    /\ Goto("read", "client", "command_acked")
    /\ UNCHANGED <<hand, attempts, mode, returned, stored, got>>

\* send_command_to_server, its answer.  The reader asks for the record at once.
CommandAcked(c) ==
    /\ \/ /\ Gets(c, "client", "command_acked") /\ Acked(c, "client")
          /\ IF c = "write" THEN /\ Take(c, "client", <<>>)
                                 /\ Goto(c, "client", "send")
             ELSE /\ Take(c, "client", <<Item("SEND", 0)>>)
                  /\ Goto(c, "client", "length")
          /\ UNCHANGED returned
       \/ /\ \/ Gets(c, "client", "command_acked") /\ ~Acked(c, "client")
                  /\ Take(c, "client", <<>>)
             \/ Fails(c, "client", "command_acked") /\ UNCHANGED inbox
          /\ Return(c, IF c = "write" THEN "WRITE_ERROR" ELSE "SEND_COMMAND_ERROR")
    /\ UNCHANGED hand /\ Rest

-----------------------------------------------------------------------------
\* write_record: waits to be asked, sends length, words and length, waits for the answer
\* and forgets it.
ToSend(c, e) == IF e = "client" THEN Last(hand[c][e]) ELSE hand[c][e]
RecordItems(r) == <<Tag(Len(r)), Words(r), Tag(Len(r))>>

RecordSent(c, e) ==
    /\ \/ /\ Gets(c, e, "send")
          /\ Take(c, e, RecordItems(ToSend(c, e)))
       \/ Fails(c, e, "send") /\ UNCHANGED inbox
    /\ Goto(c, e, "sent")
    /\ UNCHANGED <<hand, returned>> /\ Rest

\* The server answers once more when write_record is back; bwrite waits for that.
SendAcked(c, e) ==
    /\ \/ /\ Gets(c, e, "sent")
          /\ Take(c, e, IF e = "server" THEN <<ACK>> ELSE <<>>)
       \/ Fails(c, e, "sent") /\ UNCHANGED inbox
    /\ Goto(c, e, IF e = "server" THEN "command" ELSE "done")
    /\ UNCHANGED <<hand, returned>> /\ Rest

WriteDoneUnread ==                                                     \* mutant
    /\ Gets("write", "client", "done")
    /\ Return("write", "written")
    /\ UNCHANGED <<hand, inbox>> /\ Rest

WriteDoneAnyhow ==                                                     \* mutant
    /\ \/ Gets("write", "client", "done") /\ Take("write", "client", <<>>)
       \/ Fails("write", "client", "done") /\ UNCHANGED inbox
    /\ Return("write", "written")
    /\ UNCHANGED hand /\ Rest

\* bwrite and mgi_write return.
WriteDone ==
    /\ \/ Gets("write", "client", "done") /\ Take("write", "client", <<>>)
       \/ Fails("write", "client", "done") /\ UNCHANGED inbox
    /\ Return("write", IF inbox["write"]["client"] # <<>> /\ Acked("write", "client")
                       THEN "written" ELSE "WRITE_ERROR")
    /\ UNCHANGED hand /\ Rest

-----------------------------------------------------------------------------
\* read_record.  An error is answered with NACK; the reader returns with it, and does not
\* wait for the server's second answer, nor take what is left of the record.
Refuse(c, e, taken, errors) ==
    /\ IF taken THEN Take(c, e, <<NACK>>) ELSE Put(c, e, <<NACK>>)
    /\ IF e = "client" THEN \E r \in errors : Return(c, r)
       ELSE Goto(c, e, "command") /\ UNCHANGED returned

\* The first length: more than there is room for, or what the words will need.  (It is
\* never 0, for mgi_write refuses that; from a server that died it may be anything.)
LengthRead(c, e) ==
    /\ \/ /\ Gets(c, e, "length")
          /\ LET n == Got(c, e).n IN
             Goto(c, e, IF e = "client" /\ n > asked THEN "swallow" ELSE "words")
          /\ Take(c, e, <<>>) /\ UNCHANGED returned
       \/ /\ Fails(c, e, "length")
          /\ Refuse(c, e, FALSE, {"READ_TIMEOUT", "READ_ERROR"})
    /\ UNCHANGED hand /\ Rest

\* swallow_data takes the words of a record that is too long, not its second length.
Swallowed(c, e) ==
    /\ \/ Gets(c, e, "swallow") /\ Refuse(c, e, TRUE, {"READ_ERROR"})
       \/ Fails(c, e, "swallow") /\ Refuse(c, e, FALSE, {"READ_ERROR"})
    /\ UNCHANGED hand /\ Rest

WordsRead(c, e) ==
    /\ \/ /\ Gets(c, e, "words")
          /\ hand' = [hand EXCEPT ![c][e] = Got(c, e).words]
          /\ Take(c, e, <<>>)
          /\ Goto(c, e, "length_again") /\ UNCHANGED returned
       \/ /\ Fails(c, e, "words")
          /\ Refuse(c, e, FALSE, {"READ_TIMEOUT"})
          /\ UNCHANGED hand
    /\ Rest

LengthAgainUnanswered(c, e) ==                                         \* mutant
    /\ Gets(c, e, "length_again")
    /\ Take(c, e, IF e = "server" THEN <<ACK, ACK>> ELSE <<>>)
    /\ Goto(c, e, IF e = "server" THEN "command" ELSE "done")
    /\ stored' = IF e = "server" THEN Append(stored, hand[c][e]) ELSE stored
    /\ UNCHANGED <<hand, asked, attempts, mode, returned, got>>

\* The second length, the checks, and ACK.  Without it the one in core is whatever was
\* there before.  The server stores the record and answers again.
LengthAgain(c, e) ==
    /\ \/ /\ Gets(c, e, "length_again")
          /\ IF e = "client" /\ asked # Len(hand[c][e])
             THEN Refuse(c, e, TRUE, {"READ_TIMEOUT"}) /\ UNCHANGED stored
             ELSE /\ Take(c, e, IF e = "server" THEN <<ACK, ACK>> ELSE <<ACK>>)
                  /\ Goto(c, e, IF e = "server" THEN "command" ELSE "done")
                  /\ stored' = IF e = "server" THEN Append(stored, hand[c][e]) ELSE stored
                  /\ UNCHANGED returned
       \/ /\ Fails(c, e, "length_again")
          /\ \/ Refuse(c, e, FALSE, {"READ_TIMEOUT"})
             \/ Goto(c, e, "done") /\ UNCHANGED <<inbox, returned>>
          /\ UNCHANGED stored
    /\ UNCHANGED <<hand, asked, attempts, mode, got>>

\* mgi_read takes the server's second answer and looks at neither.
ReadDone ==
    /\ \/ Gets("read", "client", "done") /\ Take("read", "client", <<>>)
       \/ Fails("read", "client", "done") /\ UNCHANGED inbox
    /\ Return("read", "record")
    /\ got' = Append(got, hand["read"]["client"])
    /\ UNCHANGED <<hand, asked, attempts, mode, stored>>

-----------------------------------------------------------------------------
\* The server's thread of a connection (not in this repository).  It is taken to refuse a
\* command that does not go with what the channel was opened for.
Command(c) ==
    /\ Gets(c, "server", "command")
    /\ IF c = "write"
       THEN /\ Take(c, "server", <<ACK, Item("SEND", 0)>>)
            /\ Goto(c, "server", "length")
            /\ UNCHANGED <<hand, stored>>
       ELSE IF mode[c] = "read"
       THEN /\ stored # <<>>
            /\ hand' = [hand EXCEPT ![c]["server"] = Head(stored)]
            /\ stored' = Tail(stored)
            /\ Take(c, "server", <<ACK>>)
            /\ Goto(c, "server", "send")
       ELSE /\ Take(c, "server", <<NACK>>)
            /\ UNCHANGED <<pc, hand, stored>>
    /\ UNCHANGED <<asked, attempts, mode, returned, got>>

\* It may die in the middle of write_record: the end of the record is then never sent.
ServerDies(c) ==
    /\ pc[c]["server"] # "dead" /\ mode[c] # ""
    /\ Goto(c, "server", "dead")
    /\ \E m \in 0 .. Len(inbox[c]["client"]) :
          /\ m < Len(inbox[c]["client"]) => pc[c]["server"] = "sent"
          /\ inbox' = [inbox EXCEPT ![c]["client"] = SubSeq(@, 1, m), ![c]["server"] = <<>>]
    /\ UNCHANGED <<hand, returned>> /\ Rest

EndStep(c, e) ==
    \/ RecordSent(c, e) \/ SendAcked(c, e)
    \/ LengthRead(c, e) \/ Swallowed(c, e) \/ WordsRead(c, e) \/ LengthAgain(c, e)

\* What a program does within a call.
ClientStep(c) ==
    \/ CommandAcked(c) \/ EndStep(c, "client")
    \/ attempts[c] > 0 /\ MgiOpen(c)
    \/ c = "write" /\ WriteDone
    \/ c = "read" /\ ReadDone
ServerStep(c) == Command(c) \/ EndStep(c, "server")

MgiNext ==
    \/ \E c \in Conns : MgiOpen(c) \/ CommandAcked(c)
    \/ MgiWrite \/ (\E n \in 1 .. 2 : MgiRead(n))
    \/ \E c \in Conns, e \in Ends : EndStep(c, e)
    \/ WriteDone \/ ReadDone
    \/ \E c \in Conns : Command(c) \/ ServerDies(c)

\* A program goes on with the call it is in, and so does the server with what it was
\* asked; neither has to begin a call, or to die.
MgiFairness == \A c \in Conns : WF_mgivars(ClientStep(c)) /\ WF_mgivars(ServerStep(c))

MgiSpec == MgiInit /\ [][MgiNext]_mgivars /\ MgiFairness

-----------------------------------------------------------------------------
InCall(c) == \/ pc[c]["client"] \notin {"closed", "open", "refused"}
             \/ pc[c]["client"] = "closed" /\ attempts[c] > 0

\* A channel is as good as new after a call that returned without an error: nothing is
\* left on its way, in either direction, and the server waits for a command.  The three
\* answers of a write and the two of a read are all taken, each by the call that caused
\* it; otherwise the next call takes an old answer for its own.
InStep ==
    \A c \in Conns :
        /\ ~InCall(c) /\ pc[c]["client"] = "open" /\ pc[c]["server"] # "dead"
        /\ returned[c] \in {"channel", "written", "record"}
        => /\ pc[c]["server"] = "command"
           /\ \A e \in Ends : inbox[c][e] = <<>>

\* The reader gets the records in the order they were written, each whole and once; and a
\* write that returned without an error was of a record the server has kept, or given to
\* the reader, whose last call may have failed with it.
MgiDelivers ==
    /\ IsPrefix(got, Script)
    /\ returned["write"] = "written" /\ ~InCall("write") =>
          LET begun == Len(hand["write"]["client"]) IN
          begun <= Len(got) + Len(stored)
                   + (IF pc["read"]["server"] \in {"send", "sent", "dead"}
                         \/ InCall("read") \/ returned["read"] \in {"READ_ERROR", "READ_TIMEOUT"}
                      THEN 1 ELSE 0)

\* Every call returns, also when the server dies in the middle of it, unless the server
\* is alive and has no record to give.  Only the program itself and the server have to go
\* on for that.
EveryCallReturns ==
    \A c \in Conns :
        InCall(c) ~> \/ ~InCall(c)
                     \/ /\ c = "read" /\ pc[c]["server"] = "command"
                        /\ inbox[c]["server"] # <<>> /\ stored = <<>>
=============================================================================
