----------------------------- MODULE Mgi_proofs -----------------------------
(***************************************************************************)
(* Why the two ends of an MGI channel stay in step, and why the records    *)
(* arrive in order and once: what each end and each stream of a connection *)
(* hold at every point of a call, and which record of the script is where. *)
(***************************************************************************)
EXTENDS Mgi, Integers, SequenceTheorems, TLAPS

\* Both ends, and the streams to them, as they are now.
Phase(c, ofClient, ofServer, toClient, toServer) ==
    /\ pc[c]["client"] = ofClient /\ pc[c]["server"] = ofServer
    /\ inbox[c]["client"] = toClient /\ inbox[c]["server"] = toServer

NoCall == {"closed", "open", "refused"}
Idle(c) == pc[c]["client"] \in NoCall

\* The record being written, and the one the reader is to get next.
Current == Last(hand["write"]["client"])
Awaited == Script[Len(got) + 1]

WriteCommand == Item("WRITE", 0)
ReadCommand  == Item("READ", 0)
Send         == Item("SEND", 0)

\* mgi_write, and the server's read_record, as long as both are there.
WriteInStep ==
    \/ Idle("write") /\ Phase("write", pc["write"]["client"], "command", <<>>, <<>>)
    \/ Phase("write", "command_acked", "command", <<>>, <<WriteCommand>>)
    \/ Phase("write", "command_acked", "length", <<ACK, Send>>, <<>>)
    \/ Phase("write", "send", "length", <<Send>>, <<>>)
    \/ Phase("write", "sent", "length", <<>>, RecordItems(Current))
    \/ Phase("write", "sent", "words", <<>>, <<Words(Current), Tag(Len(Current))>>)
    \/ /\ Phase("write", "sent", "length_again", <<>>, <<Tag(Len(Current))>>)
       /\ hand["write"]["server"] = Current
    \/ Phase("write", "sent", "command", <<ACK, ACK>>, <<>>)
    \/ Phase("write", "done", "command", <<ACK>>, <<>>)

\* mgi_read, and the server's write_record.  After a record of the wrong length the
\* program does not call again, and the channel is left as it is.
ReadInStep ==
    \/ Idle("read") /\ Phase("read", pc["read"]["client"], "command", <<>>, <<>>)
    \/ Phase("read", "command_acked", "command", <<>>, <<ReadCommand>>)
    \/ Phase("read", "command_acked", "command", <<NACK>>, <<>>)
    \/ Phase("read", "command_acked", "send", <<ACK>>, <<>>)
    \/ Phase("read", "length", "send", <<>>, <<Send>>)
    \/ Phase("read", "length", "sent", RecordItems(Awaited), <<>>)
    \/ Phase("read", "words", "sent", <<Words(Awaited), Tag(Len(Awaited))>>, <<>>)
    \/ Phase("read", "swallow", "sent", <<Words(Awaited), Tag(Len(Awaited))>>, <<>>)
    \/ Phase("read", "length_again", "sent", <<Tag(Len(Awaited))>>, <<>>)
    \/ Phase("read", "done", "sent", <<>>, <<ACK>>)
    \/ Phase("read", "done", "command", <<ACK>>, <<>>)
    \/ /\ pc["read"]["client"] = "open"
       /\ returned["read"] \in {"READ_ERROR", "READ_TIMEOUT"}
       /\ \/ pc["read"]["server"] = "sent" /\ inbox["read"]["server"] = <<NACK>>
          \/ pc["read"]["server"] = "command" /\ inbox["read"]["server"] = <<>>

\* The program finds no other items than these also when the server died.
WriteTaken ==
    /\ pc["write"]["client"] \in NoCall \cup {"command_acked", "send", "sent", "done"}
    /\ pc["write"]["client"] = "command_acked" => inbox["write"]["client"] \in {<<>>, <<ACK, Send>>}
    /\ pc["write"]["client"] = "send" => inbox["write"]["client"] \in {<<>>, <<Send>>}
    /\ pc["write"]["client"] = "sent" => inbox["write"]["client"] \in {<<>>, <<ACK, ACK>>}
    /\ pc["write"]["client"] = "done" => inbox["write"]["client"] \in {<<>>, <<ACK>>}
    /\ Idle("write") /\ returned["write"] # "WRITE_ERROR" => inbox["write"]["client"] = <<>>
    /\ pc["write"]["client"] = "closed" => returned["write"] = "none"

ReadGaveUp == returned["read"] \in {"READ_ERROR", "READ_TIMEOUT", "SEND_COMMAND_ERROR"}
ReadTaken ==
    LET in == inbox["read"]["client"] IN
    /\ pc["read"]["client"] \in NoCall \cup
          {"command_acked", "length", "words", "swallow", "length_again", "done"}
    /\ pc["read"]["client"] = "command_acked" => in \in {<<>>, <<ACK>>, <<NACK>>}
    /\ pc["read"]["client"] = "length" =>
          in \in {<<>>, <<Tag(Len(Awaited))>>, <<Tag(Len(Awaited)), Words(Awaited)>>,
                  RecordItems(Awaited)}
    /\ pc["read"]["client"] \in {"words", "swallow"} =>
          in \in {<<>>, <<Words(Awaited)>>, <<Words(Awaited), Tag(Len(Awaited))>>}
    /\ pc["read"]["client"] = "length_again" => in \in {<<>>, <<Tag(Len(Awaited))>>}
    /\ pc["read"]["client"] = "done" => in \in {<<>>, <<ACK>>}
    /\ pc["read"]["client"] \in {"length_again", "done"} => hand["read"]["client"] = Awaited
    /\ ~Idle("read") => ~ReadGaveUp
    /\ Idle("read") /\ ~ReadGaveUp => in = <<>>
    /\ pc["read"]["client"] = "closed" => returned["read"] = "none"

\* A record of the script is with the reader, or on its way there, or lost there.
InRead == pc["read"]["client"] \in {"length", "words", "swallow", "length_again", "done"}
Held(t) ==
    /\ t \in {0, 1}
    /\ t = 1 => \/ InRead \/ returned["read"] \in {"READ_ERROR", "READ_TIMEOUT"}
                \/ pc["read"]["server"] \in {"send", "sent", "dead"}
    /\ t = 0 => ~InRead /\ pc["read"]["server"] \notin {"send", "sent"}
    /\ Idle("read") /\ ~ReadGaveUp => t = 0
    /\ pc["read"]["client"] = "command_acked" /\ inbox["read"]["client"] = <<ACK>> => t = 1
    /\ pc["read"]["server"] = "send" => hand["read"]["server"] = Awaited

\* One is with the writer, or on its way to the server, or lost there.
Begun(w) ==
    /\ w \in {0, 1}
    /\ pc["write"]["server"] \in {"length", "words", "length_again"} => w = 1
    /\ pc["write"]["client"] \in {"command_acked", "send"} => w = 1
    /\ pc["write"]["client"] \in {"sent", "done"} /\ inbox["write"]["client"] # <<>> => w = 0
    /\ Idle("write") /\ returned["write"] # "WRITE_ERROR" => w = 0

\* The records the program began to write are the first of the script; those read, the one
\* the reader is at, those stored and the one being written follow each other.
Flow ==
    /\ Len(hand["write"]["client"]) <= Len(Script)
    /\ \A i \in 1 .. Len(hand["write"]["client"]) : hand["write"]["client"][i] = Script[i]
    /\ \A i \in 1 .. Len(got) : got[i] = Script[i]
    /\ \E t, w \in {0, 1} :
          /\ Held(t) /\ Begun(w)
          /\ Len(hand["write"]["client"]) = Len(got) + t + Len(stored) + w
          /\ \A i \in 1 .. Len(stored) : stored[i] = Script[Len(got) + t + i]

MgiTypes ==
    /\ DOMAIN pc = Conns /\ DOMAIN inbox = Conns /\ DOMAIN hand = Conns
    /\ DOMAIN returned = Conns /\ DOMAIN mode = Conns
    /\ \A c \in Conns : /\ DOMAIN pc[c] = Ends /\ DOMAIN inbox[c] = Ends
                        /\ DOMAIN hand[c] = Ends
    /\ hand["write"]["client"] \in Seq(Range(Script))
    /\ stored \in Seq(Range(Script)) /\ got \in Seq(Range(Script))

MgiInv ==
    /\ MgiTypes
    /\ pc["write"]["server"] # "dead" => WriteInStep
    /\ pc["read"]["server"] # "dead" => ReadInStep
    /\ WriteTaken /\ ReadTaken
    /\ Flow

-----------------------------------------------------------------------------
(* What the steps change.                                                  *)

\* A stream is a sequence of items, whatever these are.
IsStream(s) == \E S : s \in Seq(S)

\* What an end sends in one step, three items at most, is one.
LEMMA Streams ==
    ASSUME NEW a, NEW b, NEW d
    PROVE  IsStream(<<>>) /\ IsStream(<<a>>) /\ IsStream(<<a, b>>) /\ IsStream(<<a, b, d>>)
<1>1. <<>> \in Seq({a}) /\ <<a>> \in Seq({a})
  OBVIOUS
<1>2. <<a, b>> \in Seq({a, b})
  OBVIOUS
<1>3. <<a, b, d>> \in Seq({a, b, d})
  OBVIOUS
<1>4. QED
  BY <1>1, <1>2, <1>3, Zenon DEF IsStream

\* What is sent on an empty stream.
LEMMA OnEmpty ==
    ASSUME NEW s, IsStream(s)
    PROVE  <<>> \o s = s
<1>1. PICK S : s \in Seq(S)
  BY DEF IsStream
<1>2. QED
  BY <1>1, ConcatEmptySeq

\* The item that is taken, and those left.
LEMMA Taken ==
    ASSUME NEW s, NEW a, NEW b, NEW d
    PROVE  /\ s = <<a>> => s # <<>> /\ Head(s) = a /\ Tail(s) = <<>>
           /\ s = <<a, b>> => s # <<>> /\ Head(s) = a /\ Tail(s) = <<b>>
           /\ s = <<a, b, d>> => s # <<>> /\ Head(s) = a /\ Tail(s) = <<b, d>>
<1>1. s = <<a>> => s # <<>> /\ Head(s) = a /\ Tail(s) = <<>>
  OBVIOUS
<1>2. s = <<a, b>> => s # <<>> /\ Head(s) = a /\ Tail(s) = <<b>>
  OBVIOUS
<1>3. s = <<a, b, d>> => s # <<>> /\ Head(s) = a /\ Tail(s) = <<b, d>>
  OBVIOUS
<1>4. QED
  BY <1>1, <1>2, <1>3

\* The items that are told from each other.
LEMMA ItemsDiffer ==
    /\ ACK # NACK /\ ACK # WriteCommand /\ ACK # ReadCommand /\ ACK # Send
    /\ \A r : ACK # Words(r) /\ Words(r).words = r
    /\ \A n : ACK # Tag(n) /\ Tag(n).n = n
  BY DEF ACK, NACK, WriteCommand, ReadCommand, Send, Words, Tag, Item

\* The connection d stays as it is.
Same(d) ==
    /\ pc'[d] = pc[d] /\ inbox'[d] = inbox[d] /\ hand'[d] = hand[d]
    /\ returned'[d] = returned[d]

\* Who the ends are.
LEMMA TheEnds ==
    /\ "write" \in Conns /\ "read" \in Conns /\ \A c \in Conns : c = "write" \/ c = "read"
    /\ "client" \in Ends /\ "server" \in Ends
    /\ Other("client") = "server" /\ Other("server") = "client"
  BY DEF Conns, Ends, Other

\* An end takes the first item on its way to it, and sends some.
LEMMA TakeFacts ==
    ASSUME MgiTypes, NEW c \in Conns, NEW d \in Conns, c # d,
           NEW e \in Ends, NEW f \in Ends, f = Other(e), NEW items, IsStream(items),
           Take(c, e, items)
    PROVE  /\ \A a, b, d1 :
                 /\ inbox[c][e] = <<a>> => inbox'[c][e] = <<>>
                 /\ inbox[c][e] = <<a, b>> => inbox'[c][e] = <<b>>
                 /\ inbox[c][e] = <<a, b, d1>> => inbox'[c][e] = <<b, d1>>
           /\ inbox[c][f] = <<>> => inbox'[c][f] = items
           /\ inbox'[d] = inbox[d]
           /\ DOMAIN inbox' = Conns
           /\ \A k \in Conns : DOMAIN inbox'[k] = Ends
<1>1. f # e
  BY DEF Other, Ends
<1>2. DOMAIN inbox = Conns /\ \A k \in Conns : DOMAIN inbox[k] = Ends
  BY DEF MgiTypes
<1>3. inbox'[c][e] = Tail(inbox[c][e]) /\ inbox'[c][f] = inbox[c][f] \o items
  BY <1>1, <1>2 DEF Take
<1>4. \A a, b, d1 :
         /\ inbox[c][e] = <<a>> => inbox'[c][e] = <<>>
         /\ inbox[c][e] = <<a, b>> => inbox'[c][e] = <<b>>
         /\ inbox[c][e] = <<a, b, d1>> => inbox'[c][e] = <<b, d1>>
  <2>1. TAKE a, b, d1
  <2>2. inbox[c][e] = <<a>> => Tail(inbox[c][e]) = <<>>
    BY Taken
  <2>3. inbox[c][e] = <<a, b>> => Tail(inbox[c][e]) = <<b>>
    BY Taken
  <2>4. inbox[c][e] = <<a, b, d1>> => Tail(inbox[c][e]) = <<b, d1>>
    BY Taken
  <2>5. QED
    BY <1>3, <2>2, <2>3, <2>4
<1>5. QED
  BY <1>1, <1>2, <1>3, <1>4, OnEmpty DEF Take

\* It only sends some.
LEMMA PutFacts ==
    ASSUME MgiTypes, NEW c \in Conns, NEW d \in Conns, c # d,
           NEW e \in Ends, NEW f \in Ends, f = Other(e), NEW items, IsStream(items),
           Put(c, e, items)
    PROVE  /\ inbox'[c][e] = inbox[c][e]
           /\ inbox[c][f] = <<>> => inbox'[c][f] = items
           /\ inbox'[d] = inbox[d]
           /\ DOMAIN inbox' = Conns
           /\ \A k \in Conns : DOMAIN inbox'[k] = Ends
<1>1. f # e
  BY DEF Other, Ends
<1>2. DOMAIN inbox = Conns /\ \A k \in Conns : DOMAIN inbox[k] = Ends
  BY DEF MgiTypes
<1>3. QED
  BY <1>1, <1>2, OnEmpty DEF Put

\* A call of the program returns.
LEMMA ReturnFacts ==
    ASSUME MgiTypes, NEW c \in Conns, NEW d \in Conns, c # d, NEW r, Return(c, r)
    PROVE  /\ pc'[c]["client"] = "open" /\ pc'[c]["server"] = pc[c]["server"]
           /\ returned'[c] = r
           /\ pc'[d] = pc[d] /\ returned'[d] = returned[d]
           /\ DOMAIN pc' = Conns
           /\ \A k \in Conns : DOMAIN pc'[k] = Ends
           /\ DOMAIN returned' = Conns
<1>1. DOMAIN pc = Conns /\ \A k \in Conns : DOMAIN pc[k] = Ends
  BY DEF MgiTypes
<1>2. DOMAIN returned = Conns
  BY DEF MgiTypes
<1>3. QED
  BY <1>1, <1>2 DEF Return, Ends

\* What a step of the other connection leaves.
LEMMA WriteLeft ==
    ASSUME Same("write")
    PROVE  /\ WriteInStep => WriteInStep'
           /\ WriteTaken => WriteTaken'
           /\ \A w : Begun(w) => Begun(w)'
           /\ (pc["write"]["server"] # "dead")' <=> pc["write"]["server"] # "dead"
  BY DEF Same, WriteInStep, WriteTaken, Begun, Idle, Phase, Current

\* What a step of the other connection leaves.
LEMMA ReadLeft ==
    ASSUME Same("read"), got' = got
    PROVE  /\ ReadInStep => ReadInStep'
           /\ ReadTaken => ReadTaken'
           /\ \A t : Held(t) => Held(t)'
           /\ (pc["read"]["server"] # "dead")' <=> pc["read"]["server"] # "dead"
  BY DEF Same, ReadInStep, ReadTaken, ReadGaveUp, Held, InRead, Idle, Phase, Awaited

\* Tables and sequences keep their shape.
LEMMA TypesKept ==
    ASSUME MgiTypes, DOMAIN pc' = Conns, \A d \in Conns : DOMAIN pc'[d] = Ends,
           DOMAIN inbox' = Conns, \A d \in Conns : DOMAIN inbox'[d] = Ends,
           DOMAIN returned' = Conns, DOMAIN mode' = Conns,
           hand' = hand, stored' = stored, got' = got
    PROVE  MgiTypes'
  BY DEF MgiTypes

\* What a step of an end does to the streams, and to the ends.
Streamed(c, e) == inbox' = inbox \/ \E items : Take(c, e, items) \/ Put(c, e, items)
Moved(c, e) == \/ (\E p : Goto(c, e, p)) /\ returned' = returned
               \/ \E r : Return(c, r)

\* The three ways a step leaves the streams.
LEMMA StreamedBy ==
    ASSUME NEW c, NEW e
    PROVE  /\ inbox' = inbox => Streamed(c, e)
           /\ \A items : Take(c, e, items) => Streamed(c, e)
           /\ \A items : Put(c, e, items) => Streamed(c, e)
  BY Zenon DEF Streamed

\* The two ways it leaves the ends.
LEMMA MovedBy ==
    ASSUME NEW c, NEW e
    PROVE  /\ \A p : Goto(c, e, p) /\ returned' = returned => Moved(c, e)
           /\ \A r : Return(c, r) => Moved(c, e)
  BY Zenon DEF Moved

\* It leaves the other connection alone.
LEMMA Apart ==
    ASSUME MgiTypes, NEW c \in Conns, NEW d \in Conns, c # d, NEW e \in Ends,
           Streamed(c, e), Moved(c, e), mode' = mode
    PROVE  /\ DOMAIN pc' = Conns /\ \A k \in Conns : DOMAIN pc'[k] = Ends
           /\ DOMAIN inbox' = Conns /\ \A k \in Conns : DOMAIN inbox'[k] = Ends
           /\ DOMAIN returned' = Conns /\ DOMAIN mode' = Conns
           /\ pc'[d] = pc[d] /\ inbox'[d] = inbox[d] /\ returned'[d] = returned[d]
<1>1. DOMAIN inbox' = Conns /\ (\A k \in Conns : DOMAIN inbox'[k] = Ends) /\ inbox'[d] = inbox[d]
  <2>1. CASE inbox' = inbox
    BY <2>1 DEF MgiTypes
  <2>2. CASE \E items : Take(c, e, items)
    BY <2>2 DEF MgiTypes, Take
  <2>3. CASE \E items : Put(c, e, items)
    BY <2>3 DEF MgiTypes, Put
  <2>4. QED
    BY <2>1, <2>2, <2>3 DEF Streamed
<1>2. /\ DOMAIN pc' = Conns /\ \A k \in Conns : DOMAIN pc'[k] = Ends
      /\ DOMAIN returned' = Conns
      /\ pc'[d] = pc[d] /\ returned'[d] = returned[d]
  BY DEF Moved, MgiTypes, Goto, Return
<1>3. QED
  BY <1>1, <1>2 DEF MgiTypes

\* The records do not move as long as the ends only talk.
LEMMA FlowLeft ==
    ASSUME Flow, hand'["write"]["client"] = hand["write"]["client"],
           stored' = stored, got' = got,
           \A t : Held(t) => Held(t)', \A w : Begun(w) => Begun(w)'
    PROVE  Flow'
  BY DEF Flow

\* What a step of the connection of the writer has to show.
LEMMA WriteAssembled ==
    ASSUME MgiInv, Same("read"), got' = got, stored' = stored,
           hand'["write"]["client"] = hand["write"]["client"], MgiTypes',
           (pc["write"]["server"] # "dead" => WriteInStep)', WriteTaken',
           \A w : Begun(w) => Begun(w)'
    PROVE  MgiInv'
<1>1. Flow'
  BY ReadLeft, FlowLeft DEF MgiInv
<1>2. (pc["read"]["server"] # "dead" => ReadInStep)' /\ ReadTaken'
  BY ReadLeft DEF MgiInv
<1>3. QED
  BY <1>1, <1>2 DEF MgiInv

\* What a step of the connection of the reader has to show.
LEMMA ReadAssembled ==
    ASSUME MgiInv, Same("write"), got' = got, stored' = stored, MgiTypes',
           (pc["read"]["server"] # "dead" => ReadInStep)', ReadTaken',
           \A t : Held(t) => Held(t)'
    PROVE  MgiInv'
<1>1. Flow'
  BY WriteLeft, FlowLeft DEF MgiInv, Same
<1>2. (pc["write"]["server"] # "dead" => WriteInStep)' /\ WriteTaken'
  BY WriteLeft DEF MgiInv
<1>3. QED
  BY <1>1, <1>2 DEF MgiInv

\* mgi_open.
LEMMA OpenStep ==
    ASSUME MgiInv, NEW c \in Conns, MgiOpen(c)
    PROVE  MgiInv'
<1>1. MgiTypes
  BY DEF MgiInv
<1>2. /\ pc[c]["client"] = "closed" /\ inbox' = inbox /\ hand' = hand
      /\ stored' = stored /\ got' = got
  BY DEF MgiOpen
<1>3. /\ DOMAIN pc' = Conns /\ \A d \in Conns : DOMAIN pc'[d] = Ends
      /\ DOMAIN returned' = Conns /\ DOMAIN mode' = Conns
      /\ pc'[c]["server"] = pc[c]["server"]
      /\ \A d \in Conns \ {c} : pc'[d] = pc[d] /\ returned'[d] = returned[d]
      /\ \/ pc'[c]["client"] = "open" /\ returned'[c] = "channel"
         \/ pc'[c]["client"] = "refused" /\ returned'[c] = "CONNECTION_ERROR"
         \/ pc'[c]["client"] = "closed" /\ returned'[c] = returned[c]
  <2>1. CASE Return(c, "channel") /\ mode' = [mode EXCEPT ![c] = Told(c)]
    <3>1. DOMAIN mode' = Conns
      BY <1>1, <2>1 DEF MgiTypes
    <3>2. PICK k \in Conns : k # c
      BY TheEnds
    <3>3. /\ pc'[c]["client"] = "open" /\ pc'[c]["server"] = pc[c]["server"]
          /\ returned'[c] = "channel"
          /\ DOMAIN pc' = Conns /\ DOMAIN returned' = Conns
          /\ \A d \in Conns : DOMAIN pc'[d] = Ends
      BY <1>1, <2>1, <3>2, ReturnFacts
    <3>4. \A d \in Conns \ {c} : pc'[d] = pc[d] /\ returned'[d] = returned[d]
      BY <1>1, <2>1, ReturnFacts
    <3>5. QED
      BY <3>1, <3>3, <3>4
  <2>2. CASE /\ attempts[c] = Tries /\ pc' = [pc EXCEPT ![c]["client"] = "refused"]
             /\ returned' = [returned EXCEPT ![c] = "CONNECTION_ERROR"] /\ mode' = mode
    BY <1>1, <2>2 DEF MgiTypes, Ends
  <2>3. CASE pc' = pc /\ returned' = returned /\ mode' = mode
    BY <1>1, <1>2, <2>3 DEF MgiTypes, Ends
  <2>4. QED
    BY <2>1, <2>2, <2>3 DEF MgiOpen
<1>4. MgiTypes'
  BY <1>1, <1>2, <1>3 DEF MgiTypes
<1>5. CASE c = "write"
  <2>1. Same("read")
    BY <1>2, <1>3, <1>5, TheEnds DEF Same
  <2>2. (pc["write"]["server"] # "dead" => WriteInStep)'
    BY <1>2, <1>3, <1>5 DEF MgiInv, WriteInStep, Phase, Idle, NoCall
  <2>3. WriteTaken'
    BY <1>2, <1>3, <1>5 DEF MgiInv, WriteTaken, Idle, NoCall
  <2>4. \A w : Begun(w) => Begun(w)'
    BY <1>2, <1>3, <1>5 DEF MgiInv, WriteTaken, Begun, Idle, NoCall
  <2>5. QED
    BY <1>2, <1>4, <2>1, <2>2, <2>3, <2>4, WriteAssembled
<1>6. CASE c = "read"
  <2>1. Same("write")
    BY <1>2, <1>3, <1>6, TheEnds DEF Same
  <2>2. (pc["read"]["server"] # "dead" => ReadInStep)'
    BY <1>2, <1>3, <1>6 DEF MgiInv, ReadInStep, Phase, Idle, NoCall
  <2>3. ReadTaken'
    BY <1>2, <1>3, <1>6 DEF MgiInv, ReadTaken, ReadGaveUp, Idle, NoCall
  <2>4. \A t : Held(t) => Held(t)'
    BY <1>2, <1>3, <1>6 DEF MgiInv, ReadTaken, ReadGaveUp, Held, InRead, Idle, NoCall, Awaited
  <2>5. QED
    BY <1>2, <1>4, <2>1, <2>2, <2>3, <2>4, ReadAssembled
<1>7. QED
  BY <1>5, <1>6, TheEnds

\* A short stream is its items.
LEMMA Short ==
    ASSUME NEW S, NEW s \in Seq(S)
    PROVE  /\ Len(s) = 0 => s = <<>>
           /\ Len(s) = 1 => s = <<s[1]>>
           /\ Len(s) = 2 => s = <<s[1], s[2]>>
<1>1. Len(s) = 0 => s = <<>>
  OBVIOUS
<1>2. Len(s) = 1 => s = <<s[1]>>
  OBVIOUS
<1>3. Len(s) = 2 => s = <<s[1], s[2]>>
  OBVIOUS
<1>4. QED
  BY <1>1, <1>2, <1>3

\* What is left of a stream whose end is never sent.
LEMMA Remains ==
    ASSUME NEW s, IsStream(s), NEW a, NEW b, NEW d, NEW m \in 0 .. Len(s)
    PROVE  /\ s = <<>> => SubSeq(s, 1, m) = <<>>
           /\ s = <<a>> => SubSeq(s, 1, m) \in {<<>>, <<a>>}
           /\ s = <<a, b>> => SubSeq(s, 1, m) \in {<<>>, <<a>>, <<a, b>>}
           /\ s = <<a, b, d>> => SubSeq(s, 1, m) \in {<<>>, <<a>>, <<a, b>>, <<a, b, d>>}
           /\ ~(m < Len(s)) => SubSeq(s, 1, m) = s
<1>1. PICK S : s \in Seq(S)
  BY DEF IsStream
<1> DEFINE t == SubSeq(s, 1, m)
<1>2. Len(s) \in Nat /\ m \in Nat /\ m <= Len(s)
  BY <1>1
<1>3. t \in Seq(S) /\ Len(t) = m /\ \A i \in 1 .. m : t[i] = s[i]
  BY <1>1, <1>2, SubSeqProperties
<1>4. m = Len(s) => t = s
  BY <1>1, SubSeqFull
<1> HIDE DEF t
<1>5. /\ m = 0 => t = <<>>
      /\ m = 1 => t = <<s[1]>>
      /\ m = 2 => t = <<s[1], s[2]>>
  BY <1>2, <1>3, Short
<1>6. s = <<>> => t = <<>>
  BY <1>2, <1>4
<1>7. s = <<a>> => t \in {<<>>, <<a>>}
  <2>1. s = <<a>> => Len(s) = 1
    OBVIOUS
  <2>2. QED
    BY <1>2, <1>4, <1>5, <2>1
<1>8. s = <<a, b>> => t \in {<<>>, <<a>>, <<a, b>>}
  <2>1. s = <<a, b>> => Len(s) = 2 /\ s[1] = a
    OBVIOUS
  <2>2. QED
    BY <1>2, <1>4, <1>5, <2>1
<1>9. s = <<a, b, d>> => t \in {<<>>, <<a>>, <<a, b>>, <<a, b, d>>}
  <2>1. s = <<a, b, d>> => Len(s) = 3 /\ s[1] = a /\ s[2] = b
    OBVIOUS
  <2>2. QED
    BY <1>2, <1>4, <1>5, <2>1
<1>10. ~(m < Len(s)) => t = s
  BY <1>2, <1>4
<1>11. QED
  BY <1>6, <1>7, <1>8, <1>9, <1>10 DEF t

-----------------------------------------------------------------------------
(* The connection of the writer.                                           *)

\* mgi_write begins.
LEMMA MgiWriteStep ==
    ASSUME MgiInv, MgiWrite
    PROVE  MgiInv'
<1>1. MgiTypes /\ WriteTaken /\ Flow
  BY DEF MgiInv
<1>2. /\ pc["write"]["client"] = "open" /\ returned["write"] # "WRITE_ERROR"
      /\ inbox["write"]["client"] = <<>>
  BY <1>1 DEF MgiWrite, WriteTaken, Idle, NoCall
<1>3. /\ stored' = stored /\ got' = got /\ mode' = mode /\ returned' = returned
  BY DEF MgiWrite, Rest
<1>4. /\ inbox'["write"]["client"] = <<>>
      /\ inbox["write"]["server"] = <<>> => inbox'["write"]["server"] = <<WriteCommand>>
      /\ inbox'["read"] = inbox["read"]
      /\ DOMAIN inbox' = Conns /\ \A d \in Conns : DOMAIN inbox'[d] = Ends
  <2>1. Put("write", "client", <<WriteCommand>>)
    BY DEF MgiWrite, WriteCommand
  <2>2. IsStream(<<WriteCommand>>) /\ "write" # "read"
    BY Streams
  <2>3. inbox'["write"]["client"] = inbox["write"]["client"]
    BY <1>1, <2>1, <2>2, PutFacts, TheEnds
  <2>4. inbox["write"]["server"] = <<>> => inbox'["write"]["server"] = <<WriteCommand>>
    BY <1>1, <2>1, <2>2, PutFacts, TheEnds
  <2>5. inbox'["read"] = inbox["read"]
    BY <1>1, <2>1, <2>2, PutFacts, TheEnds
  <2>6. DOMAIN inbox' = Conns /\ \A d \in Conns : DOMAIN inbox'[d] = Ends
    BY <1>1, <2>1, <2>2, PutFacts, TheEnds
  <2>7. QED
    BY <1>2, <2>3, <2>4, <2>5, <2>6
<1>5. /\ pc'["write"]["client"] = "command_acked"
      /\ pc'["write"]["server"] = pc["write"]["server"]
      /\ pc'["read"] = pc["read"]
      /\ DOMAIN pc' = Conns /\ \A d \in Conns : DOMAIN pc'[d] = Ends
  <2>1. Goto("write", "client", "command_acked")
    BY DEF MgiWrite
  <2>2. QED
    BY <1>1, <2>1 DEF Goto, MgiTypes, Conns, Ends
<1>6. PICK n \in Nat : /\ n = Len(hand["write"]["client"]) /\ n <= Len(Script)
                       /\ \A i \in 1 .. n : hand["write"]["client"][i] = Script[i]
  BY <1>1 DEF MgiTypes, Flow
<1>7. Len(Script) \in Nat /\ \A i \in 1 .. Len(Script) : Script[i] \in Range(Script)
  BY MgiAssumption
<1>8. n + 1 <= Len(Script)
  <2>1. SUFFICES ASSUME n = Len(Script) PROVE FALSE
    BY <1>6, <1>7
  <2>2. hand["write"]["client"] = Script
    BY <1>1, <1>6, <2>1, MgiAssumption, SeqEqual DEF MgiTypes
  <2>3. QED
    BY <2>2 DEF MgiWrite
<1>9. /\ DOMAIN hand' = Conns /\ \A d \in Conns : DOMAIN hand'[d] = Ends
      /\ hand'["read"] = hand["read"] /\ hand'["write"]["server"] = hand["write"]["server"]
      /\ hand'["write"]["client"] = Append(hand["write"]["client"], Script[n + 1])
  BY <1>1, <1>6, TheEnds DEF MgiWrite, MgiTypes
<1>10. /\ hand'["write"]["client"] \in Seq(Range(Script))
       /\ Len(hand'["write"]["client"]) = n + 1
       /\ \A i \in 1 .. n + 1 : hand'["write"]["client"][i] = Script[i]
  <2>1. Script[n + 1] \in Range(Script)
    BY <1>6, <1>7, <1>8
  <2>2. QED
    BY <1>1, <1>6, <1>9, <2>1, AppendProperties DEF MgiTypes
<1>11. MgiTypes'
  BY <1>1, <1>3, <1>4, <1>5, <1>9, <1>10 DEF MgiTypes
<1>12. Same("read")
  BY <1>3, <1>4, <1>5, <1>9 DEF Same
<1>13. (pc["write"]["server"] # "dead" => WriteInStep)'
  <2>1. pc["write"]["server"] # "dead" =>
           pc["write"]["server"] = "command" /\ inbox["write"]["server"] = <<>>
    BY <1>2 DEF MgiInv, WriteInStep, Phase, Idle, NoCall
  <2>2. QED
    BY <1>4, <1>5, <2>1, Streams DEF WriteInStep, Phase
<1>14. WriteTaken'
  BY <1>1, <1>4, <1>5 DEF WriteTaken, Idle, NoCall
<1>15. Flow'
  <2>1. PICK t, w \in {0, 1} :
           /\ Held(t) /\ Begun(w) /\ n = Len(got) + t + Len(stored) + w
           /\ \A i \in 1 .. Len(stored) : stored[i] = Script[Len(got) + t + i]
    BY <1>1, <1>6 DEF Flow
  <2>2. w = 0
    BY <1>2, <2>1 DEF Begun, Idle, NoCall
  <2>3. Held(t)'
    BY <1>3, <1>12, <2>1, ReadLeft
  <2>4. Begun(1)'
    BY <1>4, <1>5 DEF Begun, Idle, NoCall
  <2>5. Len(got) \in Nat /\ Len(stored) \in Nat
    BY <1>1 DEF MgiTypes
  <2>6. n + 1 = Len(got) + t + Len(stored) + 1
    BY <2>1, <2>2, <2>5
  <2>7. QED
    BY <1>1, <1>3, <1>8, <1>10, <2>1, <2>3, <2>4, <2>6 DEF Flow
<1>16. (pc["read"]["server"] # "dead" => ReadInStep)' /\ ReadTaken'
  BY <1>3, <1>12, ReadLeft DEF MgiInv
<1>17. QED
  BY <1>11, <1>13, <1>14, <1>15, <1>16 DEF MgiInv

\* The answer to the command.
LEMMA WriteAckedStep ==
    ASSUME MgiInv, CommandAcked("write")
    PROVE  MgiInv'
<1>1. /\ MgiTypes /\ WriteTaken /\ (pc["write"]["server"] # "dead" => WriteInStep)
      /\ pc["write"]["client"] = "command_acked"
  BY DEF MgiInv, CommandAcked, Gets, Fails
<1>2. hand' = hand /\ stored' = stored /\ got' = got /\ mode' = mode
  BY DEF CommandAcked, Rest
<1>3. \/ /\ inbox["write"]["client"] = <<ACK, Send>>
         /\ Take("write", "client", <<>>) /\ Goto("write", "client", "send")
         /\ returned' = returned
      \/ /\ pc["write"]["server"] = "dead" /\ inbox' = inbox
         /\ Return("write", "WRITE_ERROR")
  <2>1. CASE Gets("write", "client", "command_acked")
    <3>1. inbox["write"]["client"] = <<ACK, Send>>
      BY <1>1, <2>1 DEF WriteTaken, Gets
    <3>2. Acked("write", "client")
      BY <3>1, Taken DEF Acked, Got
    <3>3. QED
      BY <2>1, <3>1, <3>2 DEF CommandAcked, Gets, Fails
  <2>2. CASE ~Gets("write", "client", "command_acked")
    BY <2>2, TheEnds DEF CommandAcked, Fails
  <2>3. QED
    BY <2>1, <2>2
<1>4. Streamed("write", "client") /\ Moved("write", "client")
  BY <1>3, StreamedBy, MovedBy
<1>5. MgiTypes' /\ Same("read")
  BY <1>1, <1>2, <1>4, Apart, TypesKept, TheEnds DEF Same
<1>6. CASE /\ inbox["write"]["client"] = <<ACK, Send>>
           /\ Take("write", "client", <<>>) /\ Goto("write", "client", "send")
           /\ returned' = returned
  <2> PICK none : none = <<>>
    OBVIOUS
  <2>0. IsStream(none) /\ Take("write", "client", none)
    BY <1>6, Streams
  <2>1. inbox'["write"]["client"] = <<Send>>
    BY <1>1, <1>6, <2>0, TakeFacts, TheEnds
  <2>2. inbox["write"]["server"] = <<>> => inbox'["write"]["server"] = <<>>
    BY <1>1, <2>0, TakeFacts, TheEnds
  <2>3. pc'["write"]["client"] = "send" /\ pc'["write"]["server"] = pc["write"]["server"]
    BY <1>1, <1>6 DEF Goto, MgiTypes, Conns, Ends
  <2>4. (pc["write"]["server"] # "dead" => WriteInStep)'
    <3>1. pc["write"]["server"] # "dead" =>
             pc["write"]["server"] = "length" /\ inbox["write"]["server"] = <<>>
      BY <1>1, <1>6, Taken DEF WriteInStep, Phase, Idle, NoCall
    <3>2. QED
      BY <2>1, <2>2, <2>3, <3>1 DEF WriteInStep, Phase
  <2>5. WriteTaken'
    BY <2>1, <2>3 DEF WriteTaken, Idle, NoCall
  <2>6. \A w : Begun(w) => Begun(w)'
    BY <1>1, <2>3 DEF Begun, Idle, NoCall
  <2>7. QED
    BY <1>2, <1>5, <2>4, <2>5, <2>6, WriteAssembled
<1>7. CASE /\ pc["write"]["server"] = "dead" /\ inbox' = inbox
           /\ Return("write", "WRITE_ERROR")
  <2>1. /\ pc'["write"]["client"] = "open" /\ pc'["write"]["server"] = "dead"
        /\ returned'["write"] = "WRITE_ERROR"
    BY <1>1, <1>7 DEF Return, MgiTypes, Conns, Ends
  <2>2. WriteTaken'
    BY <2>1 DEF WriteTaken, Idle, NoCall
  <2>3. \A w : Begun(w) => Begun(w)'
    BY <1>1, <2>1 DEF Begun, Idle, NoCall
  <2>4. QED
    BY <1>2, <1>5, <2>1, <2>2, <2>3, WriteAssembled
<1>8. QED
  BY <1>3, <1>6, <1>7

\* write_record of the program.
LEMMA WriteSentStep ==
    ASSUME MgiInv, RecordSent("write", "client")
    PROVE  MgiInv'
<1>1. /\ MgiTypes /\ WriteTaken /\ (pc["write"]["server"] # "dead" => WriteInStep)
      /\ pc["write"]["client"] = "send"
  BY DEF MgiInv, RecordSent, Gets, Fails
<1>2. /\ hand' = hand /\ stored' = stored /\ got' = got /\ mode' = mode
      /\ returned' = returned
  BY DEF RecordSent, Rest
<1>3. Goto("write", "client", "sent")
  BY DEF RecordSent
<1>4. PICK items : items = RecordItems(Current)
  OBVIOUS
<1>5. \/ inbox["write"]["client"] = <<Send>> /\ Take("write", "client", items)
      \/ pc["write"]["server"] = "dead" /\ inbox["write"]["client"] = <<>> /\ inbox' = inbox
  <2>1. CASE Gets("write", "client", "send") /\ Take("write", "client", items)
    BY <1>1, <2>1 DEF WriteTaken, Gets
  <2>2. CASE Fails("write", "client", "send") /\ inbox' = inbox
    BY <2>2, TheEnds DEF Fails
  <2>3. QED
    BY <1>4, <2>1, <2>2 DEF RecordSent, ToSend, Current
<1>6. MgiTypes' /\ Same("read")
  <2>1. Streamed("write", "client") /\ Moved("write", "client")
    BY <1>2, <1>3, <1>5, StreamedBy, MovedBy
  <2>2. QED
    BY <1>1, <1>2, <2>1, Apart, TypesKept, TheEnds DEF Same
<1>7. pc'["write"]["client"] = "sent" /\ pc'["write"]["server"] = pc["write"]["server"]
  BY <1>1, <1>3 DEF Goto, MgiTypes, Conns, Ends
<1>8. IsStream(items)
  BY <1>4, Streams DEF RecordItems
<1>9. inbox'["write"]["client"] = <<>>
  BY <1>1, <1>5, <1>8, TakeFacts, TheEnds
<1>10. (pc["write"]["server"] # "dead" => WriteInStep)'
  <2>1. SUFFICES ASSUME pc["write"]["server"] # "dead" PROVE WriteInStep'
    BY <1>7
  <2>2. /\ pc["write"]["server"] = "length" /\ inbox["write"]["server"] = <<>>
        /\ Take("write", "client", items)
    BY <1>1, <1>5, <2>1 DEF WriteInStep, Phase, Idle, NoCall
  <2>3. inbox'["write"]["server"] = items
    BY <1>1, <1>8, <2>2, TakeFacts, TheEnds
  <2>4. Current' = Current
    BY <1>2 DEF Current
  <2>5. Phase("write", "sent", "length", <<>>, RecordItems(Current))'
    BY <1>4, <1>7, <1>9, <2>2, <2>3, <2>4 DEF Phase, RecordItems
  <2>6. QED
    BY <2>5 DEF WriteInStep
<1>11. WriteTaken'
  BY <1>7, <1>9 DEF WriteTaken, Idle, NoCall
<1>12. \A w : Begun(w) => Begun(w)'
  BY <1>1, <1>7, <1>9 DEF Begun, Idle, NoCall
<1>13. QED
  BY <1>2, <1>6, <1>10, <1>11, <1>12, WriteAssembled

\* The answer to the record.
LEMMA WriteAnsweredStep ==
    ASSUME MgiInv, SendAcked("write", "client")
    PROVE  MgiInv'
<1>1. /\ MgiTypes /\ WriteTaken /\ (pc["write"]["server"] # "dead" => WriteInStep)
      /\ pc["write"]["client"] = "sent"
  BY DEF MgiInv, SendAcked, Gets, Fails
<1>2. /\ hand' = hand /\ stored' = stored /\ got' = got /\ mode' = mode
      /\ returned' = returned /\ Goto("write", "client", "done")
  BY DEF SendAcked, Rest
<1> PICK none : none = <<>>
  OBVIOUS
<1>3. \/ inbox["write"]["client"] = <<ACK, ACK>> /\ Take("write", "client", none)
      \/ pc["write"]["server"] = "dead" /\ inbox["write"]["client"] = <<>> /\ inbox' = inbox
  <2>1. CASE Gets("write", "client", "sent") /\ Take("write", "client", none)
    BY <1>1, <2>1 DEF WriteTaken, Gets
  <2>2. CASE Fails("write", "client", "sent") /\ inbox' = inbox
    BY <2>2, TheEnds DEF Fails
  <2>3. QED
    BY <2>1, <2>2 DEF SendAcked
<1>4. MgiTypes' /\ Same("read")
  <2>1. Streamed("write", "client") /\ Moved("write", "client")
    BY <1>2, <1>3, StreamedBy, MovedBy
  <2>2. QED
    BY <1>1, <1>2, <2>1, Apart, TypesKept, TheEnds DEF Same
<1>5. pc'["write"]["client"] = "done" /\ pc'["write"]["server"] = pc["write"]["server"]
  BY <1>1, <1>2 DEF Goto, MgiTypes, Conns, Ends
<1>6. IsStream(none)
  BY Streams
<1>7. \/ inbox["write"]["client"] = <<ACK, ACK>> /\ inbox'["write"]["client"] = <<ACK>>
      \/ pc["write"]["server"] = "dead" /\ inbox'["write"]["client"] = <<>>
  BY <1>1, <1>3, <1>6, TakeFacts, TheEnds
<1>8. (pc["write"]["server"] # "dead" => WriteInStep)'
  <2>1. SUFFICES ASSUME pc["write"]["server"] # "dead" PROVE WriteInStep'
    BY <1>5
  <2>2. inbox["write"]["client"] = <<ACK, ACK>> /\ inbox["write"]["client"] # <<>>
    BY <1>7, <2>1, Taken
  <2>3. pc["write"]["server"] = "command" /\ inbox["write"]["server"] = <<>>
    BY <1>1, <2>1, <2>2 DEF WriteInStep, Phase, Idle, NoCall
  <2>4. inbox'["write"]["server"] = <<>>
    BY <1>1, <1>3, <1>6, <2>1, <2>3, TakeFacts, TheEnds
  <2>5. QED
    BY <1>5, <1>7, <2>1, <2>3, <2>4 DEF WriteInStep, Phase
<1>9. WriteTaken'
  BY <1>5, <1>7 DEF WriteTaken, Idle, NoCall
<1>10. \A w : Begun(w) => Begun(w)'
  <2>1. inbox'["write"]["client"] # <<>> => inbox["write"]["client"] # <<>>
    BY <1>7, Taken
  <2>2. QED
    BY <1>1, <1>5, <2>1 DEF Begun, Idle, NoCall
<1>11. QED
  BY <1>2, <1>4, <1>8, <1>9, <1>10, WriteAssembled

\* bwrite and mgi_write return.
LEMMA WriteDoneStep ==
    ASSUME MgiInv, WriteDone
    PROVE  MgiInv'
<1>1. /\ MgiTypes /\ WriteTaken /\ (pc["write"]["server"] # "dead" => WriteInStep)
      /\ pc["write"]["client"] = "done"
  BY DEF MgiInv, WriteDone, Gets, Fails
<1>2. hand' = hand /\ stored' = stored /\ got' = got /\ mode' = mode
  BY DEF WriteDone, Rest
<1> PICK none : none = <<>>
  OBVIOUS
<1>3. \/ /\ inbox["write"]["client"] = <<ACK>> /\ Take("write", "client", none)
         /\ Return("write", "written")
      \/ /\ pc["write"]["server"] = "dead" /\ inbox["write"]["client"] = <<>> /\ inbox' = inbox
         /\ Return("write", "WRITE_ERROR")
  <2>1. CASE Gets("write", "client", "done") /\ Take("write", "client", none)
    <3>1. inbox["write"]["client"] = <<ACK>> /\ inbox["write"]["client"] # <<>>
      BY <1>1, <2>1 DEF WriteTaken, Gets
    <3>2. Acked("write", "client")
      BY <3>1, Taken DEF Acked, Got
    <3>3. QED
      BY <2>1, <3>1, <3>2 DEF WriteDone
  <2>2. CASE Fails("write", "client", "done") /\ inbox' = inbox
    BY <2>2, TheEnds DEF Fails, WriteDone
  <2>3. QED
    BY <2>1, <2>2 DEF WriteDone
<1>4. MgiTypes' /\ Same("read")
  <2>1. Streamed("write", "client") /\ Moved("write", "client")
    BY <1>3, StreamedBy, MovedBy
  <2>2. QED
    BY <1>1, <1>2, <2>1, Apart, TypesKept, TheEnds DEF Same
<1>5. /\ pc'["write"]["client"] = "open" /\ pc'["write"]["server"] = pc["write"]["server"]
      /\ returned'["write"] \in {"written", "WRITE_ERROR"}
  BY <1>1, <1>3 DEF Return, MgiTypes, Conns, Ends
<1>6. IsStream(none)
  BY Streams
<1>7. inbox'["write"]["client"] = <<>>
  BY <1>1, <1>3, <1>6, TakeFacts, TheEnds
<1>8. returned'["write"] = "written" => inbox["write"]["client"] # <<>>
  <2>1. Return("write", "WRITE_ERROR") => returned'["write"] = "WRITE_ERROR"
    BY <1>1 DEF Return, MgiTypes, Conns
  <2>2. QED
    BY <1>3, <2>1, Taken
<1>9. (pc["write"]["server"] # "dead" => WriteInStep)'
  <2>1. SUFFICES ASSUME pc["write"]["server"] # "dead" PROVE WriteInStep'
    BY <1>5
  <2>2. pc["write"]["server"] = "command" /\ inbox["write"]["server"] = <<>>
    BY <1>1, <2>1 DEF WriteInStep, Phase, Idle, NoCall
  <2>3. inbox'["write"]["server"] = <<>>
    BY <1>1, <1>3, <1>6, <2>1, <2>2, TakeFacts, TheEnds
  <2>4. QED
    BY <1>5, <1>7, <2>2, <2>3 DEF WriteInStep, Phase, Idle, NoCall
<1>10. WriteTaken'
  BY <1>5, <1>7 DEF WriteTaken, Idle, NoCall
<1>11. \A w : Begun(w) => Begun(w)'
  BY <1>1, <1>5, <1>7, <1>8 DEF Begun, Idle, NoCall
<1>12. QED
  BY <1>2, <1>4, <1>9, <1>10, <1>11, WriteAssembled

\* The program is not gone.
LEMMA WriterThere ==
    ASSUME WriteTaken, NEW p
    PROVE  ~Fails("write", "server", p)
  BY TheEnds DEF WriteTaken, Fails, NoCall

\* The server takes the command, and asks for the record.
LEMMA WriteAskedStep ==
    ASSUME MgiInv, Command("write")
    PROVE  MgiInv'
<1> PICK items : items = <<ACK, Send>>
  OBVIOUS
<1>1. /\ MgiTypes /\ WriteTaken /\ WriteInStep
      /\ pc["write"]["server"] = "command" /\ inbox["write"]["server"] # <<>>
  BY DEF MgiInv, Command, Gets
<1>2. /\ hand' = hand /\ stored' = stored /\ got' = got /\ mode' = mode
      /\ returned' = returned /\ Take("write", "server", items)
      /\ Goto("write", "server", "length")
  BY DEF Command, Send
<1>3. MgiTypes' /\ Same("read")
  <2>1. Streamed("write", "server") /\ Moved("write", "server")
    BY <1>2, StreamedBy, MovedBy
  <2>2. QED
    BY <1>1, <1>2, <2>1, Apart, TypesKept, TheEnds DEF Same
<1>4. pc'["write"]["client"] = pc["write"]["client"] /\ pc'["write"]["server"] = "length"
  BY <1>1, <1>2 DEF Goto, MgiTypes, Conns, Ends
<1>5. Phase("write", "command_acked", "command", <<>>, <<WriteCommand>>)
  BY <1>1 DEF WriteInStep, Phase, Idle, NoCall
<1>6. inbox'["write"]["client"] = items /\ inbox'["write"]["server"] = <<>>
  <2>1. IsStream(items)
    BY Streams
  <2>2. QED
    BY <1>1, <1>2, <1>5, <2>1, TakeFacts, TheEnds DEF Phase
<1>7. (pc["write"]["server"] # "dead" => WriteInStep)'
  BY <1>4, <1>5, <1>6 DEF WriteInStep, Phase
<1>8. WriteTaken'
  BY <1>4, <1>5, <1>6 DEF WriteTaken, Phase, Idle, NoCall
<1>9. \A w : Begun(w) => Begun(w)'
  BY <1>4, <1>5 DEF Begun, Phase, Idle, NoCall
<1>10. QED
  BY <1>2, <1>3, <1>7, <1>8, <1>9, WriteAssembled

\* The server takes the length,
LEMMA WriteLengthStep ==
    ASSUME MgiInv, LengthRead("write", "server")
    PROVE  MgiInv'
<1> PICK none : none = <<>>
  OBVIOUS
<1>1. /\ MgiTypes /\ WriteTaken /\ WriteInStep
      /\ Gets("write", "server", "length") /\ pc["write"]["server"] = "length"
  BY WriterThere DEF MgiInv, LengthRead, Gets, Fails
<1>2. /\ hand' = hand /\ stored' = stored /\ got' = got /\ mode' = mode
      /\ returned' = returned /\ Take("write", "server", none)
      /\ Goto("write", "server", "words")
  BY <1>1, WriterThere DEF LengthRead, Rest, MgiInv
<1>3. MgiTypes' /\ Same("read")
  <2>1. Streamed("write", "server") /\ Moved("write", "server")
    BY <1>2, StreamedBy, MovedBy
  <2>2. QED
    BY <1>1, <1>2, <2>1, Apart, TypesKept, TheEnds DEF Same
<1>4. pc'["write"]["client"] = pc["write"]["client"] /\ pc'["write"]["server"] = "words"
  BY <1>1, <1>2 DEF Goto, MgiTypes, Conns, Ends
<1>5. Phase("write", "sent", "length", <<>>, RecordItems(Current))
  BY <1>1 DEF WriteInStep, Phase, Idle, NoCall, Gets
<1>6. /\ inbox'["write"]["client"] = <<>>
      /\ inbox'["write"]["server"] = <<Words(Current), Tag(Len(Current))>>
  <2>1. IsStream(none)
    BY Streams
  <2>2. QED
    BY <1>1, <1>2, <1>5, <2>1, TakeFacts, TheEnds DEF Phase, RecordItems
<1>7. (pc["write"]["server"] # "dead" => WriteInStep)'
  <2>1. Current' = Current
    BY <1>2 DEF Current
  <2>2. QED
    BY <1>4, <1>5, <1>6, <2>1 DEF WriteInStep, Phase
<1>8. WriteTaken'
  BY <1>4, <1>5, <1>6 DEF WriteTaken, Phase, Idle, NoCall
<1>9. \A w : Begun(w) => Begun(w)'
  BY <1>1, <1>4, <1>5, <1>6 DEF Begun, Phase, Idle, NoCall
<1>10. QED
  BY <1>2, <1>3, <1>7, <1>8, <1>9, WriteAssembled

\* the words,
LEMMA WriteWordsStep ==
    ASSUME MgiInv, WordsRead("write", "server")
    PROVE  MgiInv'
<1> PICK none : none = <<>>
  OBVIOUS
<1>1. /\ MgiTypes /\ WriteTaken /\ WriteInStep
      /\ Gets("write", "server", "words") /\ pc["write"]["server"] = "words"
  BY WriterThere DEF MgiInv, WordsRead, Gets, Fails
<1>2. /\ stored' = stored /\ got' = got /\ mode' = mode
      /\ hand' = [hand EXCEPT !["write"]["server"] = Got("write", "server").words]
      /\ returned' = returned /\ Take("write", "server", none)
      /\ Goto("write", "server", "length_again")
  BY <1>1, WriterThere DEF WordsRead, Rest, MgiInv
<1>3. Phase("write", "sent", "words", <<>>, <<Words(Current), Tag(Len(Current))>>)
  BY <1>1 DEF WriteInStep, Phase, Idle, NoCall, Gets
<1>4. Got("write", "server").words = Current
  <2>1. Got("write", "server") = Words(Current)
    BY <1>3, Taken DEF Got, Phase
  <2>2. QED
    BY <2>1, ItemsDiffer
<1>5. /\ hand'["read"] = hand["read"] /\ hand'["write"]["client"] = hand["write"]["client"]
      /\ hand'["write"]["server"] = Current
      /\ DOMAIN hand' = Conns /\ \A d \in Conns : DOMAIN hand'[d] = Ends
  BY <1>1, <1>2, <1>4 DEF MgiTypes, Conns, Ends
<1>6. MgiTypes' /\ Same("read")
  <2>1. Streamed("write", "server") /\ Moved("write", "server")
    BY <1>2, StreamedBy, MovedBy
  <2>2. /\ DOMAIN pc' = Conns /\ \A k \in Conns : DOMAIN pc'[k] = Ends
        /\ DOMAIN inbox' = Conns /\ \A k \in Conns : DOMAIN inbox'[k] = Ends
        /\ DOMAIN returned' = Conns /\ DOMAIN mode' = Conns
        /\ pc'["read"] = pc["read"] /\ inbox'["read"] = inbox["read"]
        /\ returned'["read"] = returned["read"]
    BY <1>1, <1>2, <2>1, Apart, TheEnds
  <2>3. QED
    BY <1>1, <1>2, <1>5, <2>2 DEF MgiTypes, Same
<1>7. pc'["write"]["client"] = pc["write"]["client"] /\ pc'["write"]["server"] = "length_again"
  BY <1>1, <1>2 DEF Goto, MgiTypes, Conns, Ends
<1>8. /\ inbox'["write"]["client"] = <<>>
      /\ inbox'["write"]["server"] = <<Tag(Len(Current))>>
  <2>1. IsStream(none)
    BY Streams
  <2>2. QED
    BY <1>1, <1>2, <1>3, <2>1, TakeFacts, TheEnds DEF Phase
<1>9. (pc["write"]["server"] # "dead" => WriteInStep)'
  <2>1. Current' = Current
    BY <1>5 DEF Current
  <2>2. QED
    BY <1>3, <1>5, <1>7, <1>8, <2>1 DEF WriteInStep, Phase
<1>10. WriteTaken'
  BY <1>3, <1>7, <1>8 DEF WriteTaken, Phase, Idle, NoCall
<1>11. \A w : Begun(w) => Begun(w)'
  BY <1>1, <1>3, <1>7, <1>8 DEF Begun, Phase, Idle, NoCall
<1>12. QED
  BY <1>2, <1>5, <1>6, <1>9, <1>10, <1>11, WriteAssembled

\* and the length again: it keeps the record, and answers twice.
LEMMA WriteKeptStep ==
    ASSUME MgiInv, LengthAgain("write", "server")
    PROVE  MgiInv'
<1> PICK items : items = <<ACK, ACK>>
  OBVIOUS
<1>1. /\ MgiTypes /\ WriteTaken /\ WriteInStep /\ Flow
      /\ Gets("write", "server", "length_again") /\ pc["write"]["server"] = "length_again"
  BY WriterThere DEF MgiInv, LengthAgain, Gets, Fails
<1>2. /\ hand' = hand /\ got' = got /\ mode' = mode /\ returned' = returned
      /\ stored' = Append(stored, hand["write"]["server"])
      /\ Take("write", "server", items) /\ Goto("write", "server", "command")
  BY <1>1, WriterThere DEF LengthAgain, MgiInv
<1>3. /\ Phase("write", "sent", "length_again", <<>>, <<Tag(Len(Current))>>)
      /\ hand["write"]["server"] = Current
  BY <1>1 DEF WriteInStep, Phase, Idle, NoCall, Gets
<1>4. pc'["write"]["client"] = "sent" /\ pc'["write"]["server"] = "command"
  BY <1>1, <1>2, <1>3 DEF Goto, MgiTypes, Conns, Ends, Phase
<1>5. inbox'["write"]["client"] = items /\ inbox'["write"]["server"] = <<>>
  <2>1. IsStream(items)
    BY Streams
  <2>2. QED
    BY <1>1, <1>2, <1>3, <2>1, TakeFacts, TheEnds DEF Phase
<1>6. (pc["write"]["server"] # "dead" => WriteInStep)'
  BY <1>4, <1>5 DEF WriteInStep, Phase
<1>7. WriteTaken'
  BY <1>4, <1>5 DEF WriteTaken, Idle, NoCall
<1>8. PICK t, w \in {0, 1} :
         /\ Held(t) /\ Begun(w)
         /\ Len(hand["write"]["client"]) = Len(got) + t + Len(stored) + w
         /\ \A i \in 1 .. Len(stored) : stored[i] = Script[Len(got) + t + i]
  BY <1>1 DEF Flow
<1>9. w = 1
  BY <1>1, <1>8 DEF Begun
<1>10. Len(got) \in Nat /\ Len(stored) \in Nat /\ stored \in Seq(Range(Script))
  BY <1>1 DEF MgiTypes
<1>11. PICK n \in Nat : n = Len(got) + t + Len(stored) + 1 /\ n = Len(hand["write"]["client"])
  BY <1>8, <1>9, <1>10
<1>12. n > 0 /\ n <= Len(Script) /\ Current = Script[n]
  <2>1. n > 0
    BY <1>10, <1>11
  <2>2. /\ Len(hand["write"]["client"]) <= Len(Script)
        /\ \A i \in 1 .. Len(hand["write"]["client"]) : hand["write"]["client"][i] = Script[i]
    BY <1>1 DEF Flow
  <2>3. QED
    BY <1>11, <2>1, <2>2 DEF Current, Last
<1>13. Script[n] \in Range(Script)
  BY <1>12, MgiAssumption
<1>14. /\ stored' \in Seq(Range(Script)) /\ Len(stored') = Len(stored) + 1
       /\ \A i \in 1 .. Len(stored) : stored'[i] = stored[i]
       /\ stored'[Len(stored) + 1] = Script[n]
  BY <1>2, <1>3, <1>10, <1>12, <1>13, AppendProperties
<1>15. MgiTypes' /\ Same("read")
  <2>1. Streamed("write", "server") /\ Moved("write", "server")
    BY <1>2, StreamedBy, MovedBy
  <2>2. /\ DOMAIN pc' = Conns /\ \A k \in Conns : DOMAIN pc'[k] = Ends
        /\ DOMAIN inbox' = Conns /\ \A k \in Conns : DOMAIN inbox'[k] = Ends
        /\ DOMAIN returned' = Conns /\ DOMAIN mode' = Conns
        /\ pc'["read"] = pc["read"] /\ inbox'["read"] = inbox["read"]
        /\ returned'["read"] = returned["read"]
    BY <1>1, <1>2, <2>1, Apart, TheEnds
  <2>3. QED
    BY <1>1, <1>2, <1>14, <2>2 DEF MgiTypes, Same
<1>16. Begun(0)'
  BY <1>4 DEF Begun, Idle, NoCall
<1>17. Held(t)'
  BY <1>2, <1>8, <1>15, ReadLeft
<1>18. Flow'
  <2>1. \A i \in 1 .. Len(stored') : stored'[i] = Script[Len(got') + t + i]
    <3>1. TAKE i \in 1 .. Len(stored')
    <3>2. CASE i \in 1 .. Len(stored)
      BY <1>2, <1>8, <1>14, <3>2
    <3>3. CASE i = Len(stored) + 1
      BY <1>2, <1>10, <1>11, <1>14, <3>3
    <3>4. QED
      BY <1>10, <1>14, <3>1, <3>2, <3>3
  <2>2. Len(hand["write"]["client"]) = Len(got) + t + Len(stored') + 0
    BY <1>10, <1>11, <1>14
  <2>3. QED
    BY <1>1, <1>2, <1>16, <1>17, <2>1, <2>2 DEF Flow
<1>19. (pc["read"]["server"] # "dead" => ReadInStep)' /\ ReadTaken'
  BY <1>2, <1>15, ReadLeft DEF MgiInv
<1>20. QED
  BY <1>6, <1>7, <1>15, <1>18, <1>19 DEF MgiInv

\* The server dies.
LEMMA WriteDiesStep ==
    ASSUME MgiInv, ServerDies("write")
    PROVE  MgiInv'
<1>1. /\ MgiTypes /\ WriteTaken /\ WriteInStep
      /\ hand' = hand /\ stored' = stored /\ got' = got /\ mode' = mode /\ returned' = returned
      /\ Goto("write", "server", "dead")
  BY DEF MgiInv, ServerDies, Rest
<1>2. PICK m \in 0 .. Len(inbox["write"]["client"]) :
         /\ m < Len(inbox["write"]["client"]) => pc["write"]["server"] = "sent"
         /\ inbox' = [inbox EXCEPT !["write"]["client"] = SubSeq(@, 1, m),
                                   !["write"]["server"] = <<>>]
  BY DEF ServerDies
<1>3. pc["write"]["server"] # "sent" /\ IsStream(inbox["write"]["client"])
  BY <1>1, Streams DEF WriteInStep, Phase
<1>4. SubSeq(inbox["write"]["client"], 1, m) = inbox["write"]["client"]
  BY <1>2, <1>3, Remains
<1>5. /\ inbox'["write"]["client"] = inbox["write"]["client"] /\ inbox'["read"] = inbox["read"]
      /\ DOMAIN inbox' = Conns /\ \A k \in Conns : DOMAIN inbox'[k] = Ends
  BY <1>1, <1>2, <1>4 DEF MgiTypes, Conns, Ends
<1>6. /\ pc'["write"]["client"] = pc["write"]["client"] /\ pc'["write"]["server"] = "dead"
      /\ pc'["read"] = pc["read"]
      /\ DOMAIN pc' = Conns /\ \A k \in Conns : DOMAIN pc'[k] = Ends
  BY <1>1 DEF Goto, MgiTypes, Conns, Ends
<1>7. MgiTypes' /\ Same("read")
  BY <1>1, <1>5, <1>6 DEF MgiTypes, Same
<1>8. WriteTaken'
  BY <1>1, <1>5, <1>6 DEF WriteTaken, Idle
<1>9. \A w : Begun(w) => Begun(w)'
  BY <1>1, <1>5, <1>6 DEF Begun, Idle
<1>10. QED
  BY <1>1, <1>6, <1>7, <1>8, <1>9, WriteAssembled

\* What an end of this connection never does.
LEMMA WriteNever ==
    ASSUME MgiInv, NEW e \in Ends
    PROVE  /\ e = "server" => ~RecordSent("write", e) /\ ~SendAcked("write", e)
           /\ ~Swallowed("write", e)
           /\ e = "client" => /\ ~LengthRead("write", e) /\ ~WordsRead("write", e)
                              /\ ~LengthAgain("write", e)
<1>1. CASE e = "client"
  <2>1. pc["write"]["client"] \notin {"length", "words", "length_again", "swallow"}
    BY DEF MgiInv, WriteTaken, NoCall
  <2>2. QED
    BY <1>1, <2>1 DEF Swallowed, LengthRead, WordsRead, LengthAgain, Gets, Fails
<1>2. CASE e = "server"
  <2>1. pc["write"]["server"] \notin {"send", "sent", "swallow"}
    BY DEF MgiInv, WriteInStep, Phase
  <2>2. QED
    BY <1>2, <2>1 DEF Swallowed, RecordSent, SendAcked, Gets, Fails
<1>3. QED
  BY <1>1, <1>2 DEF Ends

-----------------------------------------------------------------------------
(* The connection of the reader.                                           *)

\* mgi_read begins.
LEMMA MgiReadStep ==
    ASSUME MgiInv, NEW n, MgiRead(n)
    PROVE  MgiInv'
<1> PICK items : items = <<ReadCommand>>
  OBVIOUS
<1>1. /\ MgiTypes /\ ReadTaken /\ (pc["read"]["server"] # "dead" => ReadInStep) /\ Flow
      /\ pc["read"]["client"] = "open" /\ returned["read"] \in {"channel", "record"}
  BY DEF MgiInv, MgiRead
<1>2. /\ hand' = hand /\ stored' = stored /\ got' = got /\ mode' = mode
      /\ returned' = returned /\ Put("read", "client", items)
      /\ Goto("read", "client", "command_acked")
  BY DEF MgiRead, ReadCommand
<1>3. MgiTypes' /\ Same("write")
  <2>1. Streamed("read", "client") /\ Moved("read", "client")
    BY <1>2, StreamedBy, MovedBy
  <2>2. QED
    BY <1>1, <1>2, <2>1, Apart, TypesKept, TheEnds DEF Same
<1>4. pc'["read"]["client"] = "command_acked" /\ pc'["read"]["server"] = pc["read"]["server"]
  BY <1>1, <1>2 DEF Goto, MgiTypes, Conns, Ends
<1>5. inbox["read"]["client"] = <<>> /\ inbox'["read"]["client"] = <<>>
  <2>1. IsStream(items)
    BY Streams
  <2>2. inbox'["read"]["client"] = inbox["read"]["client"]
    BY <1>1, <1>2, <2>1, PutFacts, TheEnds
  <2>3. QED
    BY <1>1, <2>2 DEF ReadTaken, ReadGaveUp, Idle, NoCall
<1>6. (pc["read"]["server"] # "dead" => ReadInStep)'
  <2>1. SUFFICES ASSUME pc["read"]["server"] # "dead" PROVE ReadInStep'
    BY <1>4
  <2>2. pc["read"]["server"] = "command" /\ inbox["read"]["server"] = <<>>
    BY <1>1, <2>1 DEF ReadInStep, Phase, Idle, NoCall
  <2>3. inbox'["read"]["server"] = items
    <3>1. IsStream(items)
      BY Streams
    <3>2. QED
      BY <1>1, <1>2, <2>2, <3>1, PutFacts, TheEnds
  <2>4. QED
    BY <1>4, <1>5, <2>2, <2>3 DEF ReadInStep, Phase
<1>7. ReadTaken'
  BY <1>1, <1>2, <1>4, <1>5 DEF ReadTaken, ReadGaveUp, Idle, NoCall
<1>8. \A t : Held(t) => Held(t)'
  <2>1. inbox'["read"]["client"] # <<ACK>>
    BY <1>5, Taken
  <2>2. SUFFICES ASSUME NEW t, Held(t) PROVE Held(t)'
    OBVIOUS
  <2>3. t = 0
    BY <1>1, <2>2 DEF Held, ReadGaveUp, Idle, NoCall
  <2>4. QED
    BY <1>1, <1>2, <1>4, <2>1, <2>2, <2>3 DEF Held, ReadGaveUp, InRead, Idle, NoCall, Awaited
<1>9. QED
  BY <1>2, <1>3, <1>6, <1>7, <1>8, ReadAssembled

\* The answer to the command; the reader asks for the record.
LEMMA ReadAckedStep ==
    ASSUME MgiInv, CommandAcked("read")
    PROVE  MgiInv'
<1> PICK none : none = <<>>
  OBVIOUS
<1> PICK asks : asks = <<Send>>
  OBVIOUS
<1>0. IsStream(none) /\ IsStream(asks)
  BY Streams
<1>1. /\ MgiTypes /\ ReadTaken /\ (pc["read"]["server"] # "dead" => ReadInStep)
      /\ pc["read"]["client"] = "command_acked"
  BY DEF MgiInv, CommandAcked, Gets, Fails
<1>2. hand' = hand /\ stored' = stored /\ got' = got /\ mode' = mode
  BY DEF CommandAcked, Rest
<1>3. \/ /\ inbox["read"]["client"] = <<ACK>>
         /\ Take("read", "client", asks) /\ Goto("read", "client", "length")
         /\ returned' = returned
      \/ /\ inbox["read"]["client"] = <<NACK>> /\ Take("read", "client", none)
         /\ Return("read", "SEND_COMMAND_ERROR")
      \/ /\ pc["read"]["server"] = "dead" /\ inbox' = inbox
         /\ Return("read", "SEND_COMMAND_ERROR")
  <2>1. CASE Gets("read", "client", "command_acked")
    <3>1. CASE inbox["read"]["client"] = <<ACK>>
      <4>1. Acked("read", "client")
        BY <3>1, Taken DEF Acked, Got
      <4>2. QED
        BY <2>1, <3>1, <4>1 DEF CommandAcked, Gets, Fails, Send
    <3>2. CASE inbox["read"]["client"] = <<NACK>>
      <4>1. ~Acked("read", "client")
        BY <3>2, Taken, ItemsDiffer DEF Acked, Got
      <4>2. QED
        BY <2>1, <3>2, <4>1 DEF CommandAcked, Gets, Fails
    <3>3. QED
      BY <1>1, <2>1, <3>1, <3>2 DEF ReadTaken, Gets
  <2>2. CASE ~Gets("read", "client", "command_acked")
    BY <2>2, TheEnds DEF CommandAcked, Fails
  <2>3. QED
    BY <2>1, <2>2
<1>4. MgiTypes' /\ Same("write")
  <2>1. Streamed("read", "client") /\ Moved("read", "client")
    BY <1>3, StreamedBy, MovedBy
  <2>2. QED
    BY <1>1, <1>2, <2>1, Apart, TypesKept, TheEnds DEF Same
<1>5. CASE /\ inbox["read"]["client"] = <<ACK>>
           /\ Take("read", "client", asks) /\ Goto("read", "client", "length")
           /\ returned' = returned
  <2>1. inbox'["read"]["client"] = <<>> /\ inbox["read"]["client"] # <<>>
    BY <1>0, <1>1, <1>5, TakeFacts, TheEnds, Taken
  <2>2. pc'["read"]["client"] = "length" /\ pc'["read"]["server"] = pc["read"]["server"]
    BY <1>1, <1>5 DEF Goto, MgiTypes, Conns, Ends
  <2>3. (pc["read"]["server"] # "dead" => ReadInStep)'
    <3>1. SUFFICES ASSUME pc["read"]["server"] # "dead" PROVE ReadInStep'
      BY <2>2
    <3>2. inbox["read"]["client"] # <<NACK>>
      BY <1>5, ItemsDiffer
    <3>3. pc["read"]["server"] = "send" /\ inbox["read"]["server"] = <<>>
      BY <1>1, <2>1, <3>1, <3>2 DEF ReadInStep, Phase, Idle, NoCall
    <3>4. inbox'["read"]["server"] = asks
      BY <1>0, <1>1, <1>5, <3>3, TakeFacts, TheEnds
    <3>5. QED
      BY <2>1, <2>2, <3>3, <3>4 DEF ReadInStep, Phase
  <2>4. ReadTaken'
    BY <1>1, <1>5, <2>1, <2>2 DEF ReadTaken, ReadGaveUp, Idle, NoCall
  <2>5. \A t : Held(t) => Held(t)'
    BY <1>1, <1>2, <1>5, <2>2 DEF Held, ReadGaveUp, InRead, Idle, NoCall, Awaited
  <2>6. QED
    BY <1>2, <1>4, <2>3, <2>4, <2>5, ReadAssembled
<1>6. CASE /\ Return("read", "SEND_COMMAND_ERROR")
           /\ \/ inbox["read"]["client"] = <<NACK>> /\ Take("read", "client", none)
              \/ pc["read"]["server"] = "dead" /\ inbox' = inbox
  <2>1. /\ pc'["read"]["client"] = "open" /\ pc'["read"]["server"] = pc["read"]["server"]
        /\ returned'["read"] = "SEND_COMMAND_ERROR"
    BY <1>1, <1>6 DEF Return, MgiTypes, Conns, Ends
  <2>2. (pc["read"]["server"] # "dead" => ReadInStep)'
    <3>1. SUFFICES ASSUME pc["read"]["server"] # "dead" PROVE ReadInStep'
      BY <2>1
    <3>2. inbox["read"]["client"] = <<NACK>> /\ <<ACK>> # <<NACK>> /\ <<NACK>> # <<>>
      BY <1>6, <3>1, ItemsDiffer
    <3>3. pc["read"]["server"] = "command" /\ inbox["read"]["server"] = <<>>
      BY <1>1, <3>1, <3>2 DEF ReadInStep, Phase, Idle, NoCall
    <3>4. inbox'["read"]["client"] = <<>> /\ inbox'["read"]["server"] = <<>>
      BY <1>0, <1>1, <1>6, <3>1, <3>3, TakeFacts, TheEnds
    <3>5. QED
      BY <2>1, <3>3, <3>4 DEF ReadInStep, Phase, Idle, NoCall
  <2>3. ReadTaken'
    BY <2>1 DEF ReadTaken, ReadGaveUp, Idle, NoCall
  <2>4. \A t : Held(t) => Held(t)'
    BY <1>1, <1>2, <2>1 DEF Held, ReadTaken, ReadGaveUp, InRead, Idle, NoCall, Awaited
  <2>5. QED
    BY <1>2, <1>4, <2>2, <2>3, <2>4, ReadAssembled
<1>7. QED
  BY <1>3, <1>5, <1>6

\* The program is not gone.
LEMMA ReaderThere ==
    ASSUME ReadTaken, NEW p
    PROVE  ~Fails("read", "server", p)
  BY TheEnds DEF ReadTaken, Fails, NoCall

\* write_record of the server.
LEMMA ReadSentStep ==
    ASSUME MgiInv, RecordSent("read", "server")
    PROVE  MgiInv'
<1> PICK items : items = RecordItems(Awaited)
  OBVIOUS
<1>1. /\ MgiTypes /\ ReadTaken /\ ReadInStep /\ Flow
      /\ pc["read"]["server"] = "send" /\ inbox["read"]["server"] # <<>>
  BY ReaderThere DEF MgiInv, RecordSent, Gets, Fails
<1>2. \A t : Held(t) => t = 1 /\ hand["read"]["server"] = Awaited
  BY <1>1 DEF Held
<1>3. hand["read"]["server"] = Awaited
  BY <1>1, <1>2 DEF Flow
<1>4. /\ hand' = hand /\ stored' = stored /\ got' = got /\ mode' = mode
      /\ returned' = returned /\ Take("read", "server", items)
      /\ Goto("read", "server", "sent")
  BY <1>1, <1>3, ReaderThere DEF RecordSent, ToSend, Rest
<1>5. MgiTypes' /\ Same("write")
  <2>1. Streamed("read", "server") /\ Moved("read", "server")
    BY <1>4, StreamedBy, MovedBy
  <2>2. QED
    BY <1>1, <1>4, <2>1, Apart, TypesKept, TheEnds DEF Same
<1>6. pc'["read"]["client"] = pc["read"]["client"] /\ pc'["read"]["server"] = "sent"
  BY <1>1, <1>4 DEF Goto, MgiTypes, Conns, Ends
<1>7. Phase("read", "length", "send", <<>>, <<Send>>)
  BY <1>1 DEF ReadInStep, Phase, Idle, NoCall
<1>8. inbox'["read"]["client"] = items /\ inbox'["read"]["server"] = <<>>
  <2>1. IsStream(items)
    BY Streams DEF RecordItems
  <2>2. QED
    BY <1>1, <1>4, <1>7, <2>1, TakeFacts, TheEnds DEF Phase
<1>9. Awaited' = Awaited
  BY <1>4 DEF Awaited
<1>10. (pc["read"]["server"] # "dead" => ReadInStep)'
  <2>1. Phase("read", "length", "sent", RecordItems(Awaited), <<>>)'
    BY <1>6, <1>7, <1>8, <1>9 DEF Phase, RecordItems
  <2>2. QED
    BY <2>1 DEF ReadInStep
<1>11. ReadTaken'
  <2>1. inbox'["read"]["client"] = RecordItems(Awaited)'
    BY <1>8, <1>9 DEF RecordItems
  <2>2. QED
    BY <1>1, <1>4, <1>6, <1>7, <2>1 DEF ReadTaken, ReadGaveUp, Idle, NoCall, Phase
<1>12. \A t : Held(t) => Held(t)'
  BY <1>2, <1>6, <1>7 DEF Held, InRead, Idle, NoCall, Phase
<1>13. QED
  BY <1>4, <1>5, <1>10, <1>11, <1>12, ReadAssembled

\* The server takes the answer to it.
LEMMA ReadAnsweredStep ==
    ASSUME MgiInv, SendAcked("read", "server")
    PROVE  MgiInv'
<1> PICK items : items = <<ACK>>
  OBVIOUS
<1>0. IsStream(items)
  BY Streams
<1>1. /\ MgiTypes /\ ReadTaken /\ ReadInStep
      /\ pc["read"]["server"] = "sent" /\ inbox["read"]["server"] # <<>>
  BY ReaderThere DEF MgiInv, SendAcked, Gets, Fails
<1>2. /\ hand' = hand /\ stored' = stored /\ got' = got /\ mode' = mode
      /\ returned' = returned /\ Take("read", "server", items)
      /\ Goto("read", "server", "command")
  BY <1>1, ReaderThere DEF SendAcked, Rest
<1>3. MgiTypes' /\ Same("write")
  <2>1. Streamed("read", "server") /\ Moved("read", "server")
    BY <1>2, StreamedBy, MovedBy
  <2>2. QED
    BY <1>1, <1>2, <2>1, Apart, TypesKept, TheEnds DEF Same
<1>4. pc'["read"]["client"] = pc["read"]["client"] /\ pc'["read"]["server"] = "command"
  BY <1>1, <1>2 DEF Goto, MgiTypes, Conns, Ends
<1>5. \/ Phase("read", "done", "sent", <<>>, <<ACK>>)
      \/ /\ pc["read"]["client"] = "open" /\ inbox["read"]["server"] = <<NACK>>
         /\ returned["read"] \in {"READ_ERROR", "READ_TIMEOUT"}
  BY <1>1 DEF ReadInStep, Phase, Idle, NoCall
<1>6. CASE Phase("read", "done", "sent", <<>>, <<ACK>>)
  <2>1. inbox'["read"]["client"] = items /\ inbox'["read"]["server"] = <<>>
    BY <1>0, <1>1, <1>2, <1>6, TakeFacts, TheEnds DEF Phase
  <2>2. (pc["read"]["server"] # "dead" => ReadInStep)'
    BY <1>4, <1>6, <2>1 DEF ReadInStep, Phase
  <2>3. ReadTaken'
    BY <1>1, <1>2, <1>4, <1>6, <2>1 DEF ReadTaken, ReadGaveUp, Idle, NoCall, Phase, Awaited
  <2>4. \A t : Held(t) => Held(t)'
    BY <1>4, <1>6 DEF Held, InRead, Idle, NoCall, Phase
  <2>5. QED
    BY <1>2, <1>3, <2>2, <2>3, <2>4, ReadAssembled
<1>7. CASE /\ pc["read"]["client"] = "open" /\ inbox["read"]["server"] = <<NACK>>
           /\ returned["read"] \in {"READ_ERROR", "READ_TIMEOUT"}
  <2>1. inbox'["read"]["server"] = <<>>
    BY <1>0, <1>1, <1>2, <1>7, TakeFacts, TheEnds
  <2>2. (pc["read"]["server"] # "dead" => ReadInStep)'
    BY <1>2, <1>4, <1>7, <2>1 DEF ReadInStep
  <2>3. ReadTaken'
    BY <1>2, <1>4, <1>7 DEF ReadTaken, ReadGaveUp, Idle, NoCall
  <2>4. \A t : Held(t) => Held(t)'
    BY <1>1, <1>2, <1>4, <1>7 DEF Held, ReadGaveUp, InRead, Idle, NoCall
  <2>5. QED
    BY <1>2, <1>3, <2>2, <2>3, <2>4, ReadAssembled
<1>8. QED
  BY <1>5, <1>6, <1>7

\* The reader gives a record up: it answers NACK and returns, and so is the channel left.
LEMMA ReadRefusedStep ==
    ASSUME MgiInv, NEW errors \in SUBSET {"READ_ERROR", "READ_TIMEOUT"}, NEW taken \in BOOLEAN,
           Refuse("read", "client", taken, errors),
           pc["read"]["client"] \in {"length", "words", "swallow", "length_again"},
           IF taken THEN pc["read"]["client"] \in {"swallow", "length_again"}
                    ELSE pc["read"]["server"] = "dead",
           hand' = hand, stored' = stored, got' = got, mode' = mode
    PROVE  MgiInv'
<1> PICK items : items = <<NACK>>
  OBVIOUS
<1>0. IsStream(items)
  BY Streams
<1>1. MgiTypes /\ ReadTaken /\ (pc["read"]["server"] # "dead" => ReadInStep)
  BY DEF MgiInv
<1>2. \/ taken /\ Take("read", "client", items)
      \/ ~taken /\ Put("read", "client", items)
  BY DEF Refuse
<1>3. PICK r \in errors : Return("read", r)
  BY DEF Refuse
<1>4. MgiTypes' /\ Same("write")
  <2>1. Streamed("read", "client") /\ Moved("read", "client")
    BY <1>2, <1>3, StreamedBy, MovedBy
  <2>2. QED
    BY <1>1, <2>1, Apart, TypesKept, TheEnds DEF Same
<1>5. /\ pc'["read"]["client"] = "open" /\ pc'["read"]["server"] = pc["read"]["server"]
      /\ returned'["read"] \in {"READ_ERROR", "READ_TIMEOUT"}
  BY <1>1, <1>3 DEF Return, MgiTypes, Conns, Ends
<1>6. (pc["read"]["server"] # "dead" => ReadInStep)'
  <2>1. SUFFICES ASSUME pc["read"]["server"] # "dead" PROVE ReadInStep'
    BY <1>5
  <2>2. taken /\ pc["read"]["client"] \in {"swallow", "length_again"}
    BY <2>1
  <2>3. pc["read"]["server"] = "sent" /\ inbox["read"]["server"] = <<>>
    BY <1>1, <2>1, <2>2 DEF ReadInStep, Phase, Idle, NoCall
  <2>4. inbox'["read"]["server"] = items
    BY <1>0, <1>1, <1>2, <2>2, <2>3, TakeFacts, TheEnds
  <2>5. QED
    BY <1>5, <2>3, <2>4 DEF ReadInStep
<1>7. ReadTaken'
  BY <1>5 DEF ReadTaken, ReadGaveUp, Idle, NoCall
<1>8. \A t : Held(t) => Held(t)'
  BY <1>5 DEF Held, ReadGaveUp, InRead, Idle, NoCall, Awaited
<1>9. QED
  BY <1>4, <1>6, <1>7, <1>8, ReadAssembled

\* The reader takes the length of the record,
LEMMA ReadLengthStep ==
    ASSUME MgiInv, LengthRead("read", "client")
    PROVE  MgiInv'
<1> PICK none : none = <<>>
  OBVIOUS
<1>0. IsStream(none)
  BY Streams
<1>1. /\ MgiTypes /\ ReadTaken /\ (pc["read"]["server"] # "dead" => ReadInStep)
      /\ pc["read"]["client"] = "length"
  BY DEF MgiInv, LengthRead, Gets, Fails
<1>2. hand' = hand /\ stored' = stored /\ got' = got /\ mode' = mode
  BY DEF LengthRead, Rest
<1>3. CASE /\ Gets("read", "client", "length") /\ Take("read", "client", none)
           /\ returned' = returned
           /\ \/ Goto("read", "client", "swallow")
              \/ Goto("read", "client", "words")
  <2>1. MgiTypes' /\ Same("write")
    <3>1. Streamed("read", "client") /\ Moved("read", "client")
      BY <1>3, StreamedBy, MovedBy
    <3>2. QED
      BY <1>1, <1>2, <3>1, Apart, TypesKept, TheEnds DEF Same
  <2>2. /\ pc'["read"]["client"] \in {"words", "swallow"}
        /\ pc'["read"]["server"] = pc["read"]["server"]
    BY <1>1, <1>3 DEF Goto, MgiTypes, Conns, Ends
  <2>3. inbox'["read"]["client"] \in
           {<<>>, <<Words(Awaited)>>, <<Words(Awaited), Tag(Len(Awaited))>>}
    <3>1. inbox["read"]["client"] \in
             {<<Tag(Len(Awaited))>>, <<Tag(Len(Awaited)), Words(Awaited)>>,
              <<Tag(Len(Awaited)), Words(Awaited), Tag(Len(Awaited))>>}
      BY <1>1, <1>3 DEF ReadTaken, Gets, RecordItems
    <3>2. CASE inbox["read"]["client"] = <<Tag(Len(Awaited))>>
      BY <1>0, <1>1, <1>3, <3>2, TakeFacts, TheEnds
    <3>3. CASE inbox["read"]["client"] = <<Tag(Len(Awaited)), Words(Awaited)>>
      <4>1. inbox'["read"]["client"] = <<Words(Awaited)>>
        BY <1>0, <1>1, <1>3, <3>3, TakeFacts, TheEnds
      <4>2. QED
        BY <4>1
    <3>4. CASE inbox["read"]["client"] =
                  <<Tag(Len(Awaited)), Words(Awaited), Tag(Len(Awaited))>>
      <4>1. inbox'["read"]["client"] = <<Words(Awaited), Tag(Len(Awaited))>>
        BY <1>0, <1>1, <1>3, <3>4, TakeFacts, TheEnds
      <4>2. QED
        BY <4>1
    <3>5. QED
      BY <3>1, <3>2, <3>3, <3>4
  <2>4. Awaited' = Awaited
    BY <1>2 DEF Awaited
  <2>5. (pc["read"]["server"] # "dead" => ReadInStep)'
    <3>1. SUFFICES ASSUME pc["read"]["server"] # "dead" PROVE ReadInStep'
      BY <2>2
    <3>2. Phase("read", "length", "sent", RecordItems(Awaited), <<>>)
      BY <1>1, <1>3, <3>1 DEF ReadInStep, Phase, Idle, NoCall, Gets
    <3>3. /\ inbox'["read"]["client"] = <<Words(Awaited), Tag(Len(Awaited))>>
          /\ inbox'["read"]["server"] = <<>>
      BY <1>0, <1>1, <1>3, <3>2, TakeFacts, TheEnds DEF Phase, RecordItems
    <3>4. QED
      BY <2>2, <2>4, <3>2, <3>3 DEF ReadInStep, Phase
  <2>6. ReadTaken'
    BY <1>1, <1>3, <2>2, <2>3, <2>4 DEF ReadTaken, ReadGaveUp, Idle, NoCall
  <2>7. \A t : Held(t) => Held(t)'
    BY <1>1, <1>2, <2>2, <2>4 DEF Held, InRead, Idle, NoCall
  <2>8. QED
    BY <1>2, <2>1, <2>5, <2>6, <2>7, ReadAssembled
<1>4. CASE /\ Fails("read", "client", "length")
           /\ Refuse("read", "client", FALSE, {"READ_TIMEOUT", "READ_ERROR"})
  <2>1. pc["read"]["server"] = "dead"
    BY <1>4, TheEnds DEF Fails
  <2>2. QED
    BY <1>1, <1>2, <1>4, <2>1, ReadRefusedStep
<1>5. QED
  BY <1>3, <1>4 DEF LengthRead

\* all the words of a record it has no room for,
LEMMA ReadSwallowedStep ==
    ASSUME MgiInv, Swallowed("read", "client")
    PROVE  MgiInv'
<1>1. /\ pc["read"]["client"] = "swallow"
      /\ hand' = hand /\ stored' = stored /\ got' = got /\ mode' = mode
  BY DEF Swallowed, Rest, Gets, Fails
<1>2. CASE Refuse("read", "client", TRUE, {"READ_ERROR"})
  BY <1>1, <1>2, ReadRefusedStep
<1>3. CASE /\ Fails("read", "client", "swallow")
           /\ Refuse("read", "client", FALSE, {"READ_ERROR"})
  <2>1. pc["read"]["server"] = "dead"
    BY <1>3, TheEnds DEF Fails
  <2>2. QED
    BY <1>1, <1>3, <2>1, ReadRefusedStep
<1>4. QED
  BY <1>2, <1>3 DEF Swallowed

\* or the words,
LEMMA ReadWordsStep ==
    ASSUME MgiInv, WordsRead("read", "client")
    PROVE  MgiInv'
<1> PICK none : none = <<>>
  OBVIOUS
<1>0. IsStream(none)
  BY Streams
<1>1. /\ MgiTypes /\ ReadTaken /\ (pc["read"]["server"] # "dead" => ReadInStep)
      /\ pc["read"]["client"] = "words"
  BY DEF MgiInv, WordsRead, Gets, Fails
<1>2. stored' = stored /\ got' = got /\ mode' = mode
  BY DEF WordsRead, Rest
<1>3. CASE /\ Gets("read", "client", "words") /\ Take("read", "client", none)
           /\ returned' = returned /\ Goto("read", "client", "length_again")
           /\ hand' = [hand EXCEPT !["read"]["client"] = Got("read", "client").words]
  <2>1. inbox["read"]["client"] \in {<<Words(Awaited)>>, <<Words(Awaited), Tag(Len(Awaited))>>}
    BY <1>1, <1>3 DEF ReadTaken, Gets
  <2>2. Got("read", "client").words = Awaited
    <3>1. Got("read", "client") = Words(Awaited)
      BY <2>1, Taken DEF Got
    <3>2. QED
      BY <3>1, ItemsDiffer
  <2>3. /\ hand'["write"] = hand["write"] /\ hand'["read"]["client"] = Awaited
        /\ hand'["read"]["server"] = hand["read"]["server"]
        /\ DOMAIN hand' = Conns /\ \A d \in Conns : DOMAIN hand'[d] = Ends
    BY <1>1, <1>3, <2>2 DEF MgiTypes, Conns, Ends
  <2>4. MgiTypes' /\ Same("write")
    <3>1. Streamed("read", "client") /\ Moved("read", "client")
      BY <1>3, StreamedBy, MovedBy
    <3>2. /\ DOMAIN pc' = Conns /\ \A k \in Conns : DOMAIN pc'[k] = Ends
          /\ DOMAIN inbox' = Conns /\ \A k \in Conns : DOMAIN inbox'[k] = Ends
          /\ DOMAIN returned' = Conns /\ DOMAIN mode' = Conns
          /\ pc'["write"] = pc["write"] /\ inbox'["write"] = inbox["write"]
          /\ returned'["write"] = returned["write"]
      BY <1>1, <1>2, <3>1, Apart, TheEnds
    <3>3. QED
      BY <1>1, <1>2, <2>3, <3>2 DEF MgiTypes, Same
  <2>5. /\ pc'["read"]["client"] = "length_again"
        /\ pc'["read"]["server"] = pc["read"]["server"]
    BY <1>1, <1>3 DEF Goto, MgiTypes, Conns, Ends
  <2>6. inbox'["read"]["client"] \in {<<>>, <<Tag(Len(Awaited))>>}
    <3>1. CASE inbox["read"]["client"] = <<Words(Awaited)>>
      BY <1>0, <1>1, <1>3, <3>1, TakeFacts, TheEnds
    <3>2. CASE inbox["read"]["client"] = <<Words(Awaited), Tag(Len(Awaited))>>
      <4>1. inbox'["read"]["client"] = <<Tag(Len(Awaited))>>
        BY <1>0, <1>1, <1>3, <3>2, TakeFacts, TheEnds
      <4>2. QED
        BY <4>1
    <3>3. QED
      BY <2>1, <3>1, <3>2
  <2>7. Awaited' = Awaited
    BY <1>2 DEF Awaited
  <2>8. (pc["read"]["server"] # "dead" => ReadInStep)'
    <3>1. SUFFICES ASSUME pc["read"]["server"] # "dead" PROVE ReadInStep'
      BY <2>5
    <3>2. Phase("read", "words", "sent", <<Words(Awaited), Tag(Len(Awaited))>>, <<>>)
      BY <1>1, <3>1 DEF ReadInStep, Phase, Idle, NoCall
    <3>3. /\ inbox'["read"]["client"] = <<Tag(Len(Awaited))>>
          /\ inbox'["read"]["server"] = <<>>
      BY <1>0, <1>1, <1>3, <3>2, TakeFacts, TheEnds DEF Phase
    <3>4. QED
      BY <2>5, <2>7, <3>2, <3>3 DEF ReadInStep, Phase
  <2>9. ReadTaken'
    BY <1>1, <1>3, <2>3, <2>5, <2>6, <2>7 DEF ReadTaken, ReadGaveUp, Idle, NoCall
  <2>10. \A t : Held(t) => Held(t)'
    BY <1>1, <2>3, <2>5, <2>7 DEF Held, InRead, Idle, NoCall
  <2>11. QED
    BY <1>2, <2>4, <2>8, <2>9, <2>10, ReadAssembled
<1>4. CASE /\ Fails("read", "client", "words") /\ hand' = hand
           /\ Refuse("read", "client", FALSE, {"READ_TIMEOUT"})
  <2>1. pc["read"]["server"] = "dead"
    BY <1>4, TheEnds DEF Fails
  <2>2. QED
    BY <1>1, <1>2, <1>4, <2>1, ReadRefusedStep
<1>5. QED
  BY <1>3, <1>4 DEF WordsRead

\* and the length again.
LEMMA ReadKeptStep ==
    ASSUME MgiInv, LengthAgain("read", "client")
    PROVE  MgiInv'
<1> PICK items : items = <<ACK>>
  OBVIOUS
<1>0. IsStream(items)
  BY Streams
<1>1. /\ MgiTypes /\ ReadTaken /\ (pc["read"]["server"] # "dead" => ReadInStep)
      /\ pc["read"]["client"] = "length_again"
  BY DEF MgiInv, LengthAgain, Gets, Fails
<1>2. hand' = hand /\ got' = got /\ mode' = mode /\ stored' = stored
  BY TheEnds DEF LengthAgain
<1>3. \/ Gets("read", "client", "length_again") /\ Refuse("read", "client", TRUE, {"READ_TIMEOUT"})
      \/ Fails("read", "client", "length_again") /\ Refuse("read", "client", FALSE, {"READ_TIMEOUT"})
      \/ /\ Gets("read", "client", "length_again") /\ Take("read", "client", items)
         /\ Goto("read", "client", "done") /\ returned' = returned
      \/ /\ Fails("read", "client", "length_again") /\ inbox' = inbox
         /\ Goto("read", "client", "done") /\ returned' = returned
  BY TheEnds DEF LengthAgain
<1>4. CASE /\ Gets("read", "client", "length_again")
           /\ Refuse("read", "client", TRUE, {"READ_TIMEOUT"})
  BY <1>1, <1>2, <1>4, ReadRefusedStep
<1>5. CASE /\ Fails("read", "client", "length_again")
           /\ Refuse("read", "client", FALSE, {"READ_TIMEOUT"})
  <2>1. pc["read"]["server"] = "dead"
    BY <1>5, TheEnds DEF Fails
  <2>2. QED
    BY <1>1, <1>2, <1>5, <2>1, ReadRefusedStep
<1>6. CASE /\ Goto("read", "client", "done") /\ returned' = returned
           /\ \/ Gets("read", "client", "length_again") /\ Take("read", "client", items)
              \/ Fails("read", "client", "length_again") /\ inbox' = inbox
  <2>1. MgiTypes' /\ Same("write")
    <3>1. Streamed("read", "client") /\ Moved("read", "client")
      BY <1>6, StreamedBy, MovedBy
    <3>2. QED
      BY <1>1, <1>2, <3>1, Apart, TypesKept, TheEnds DEF Same
  <2>2. pc'["read"]["client"] = "done" /\ pc'["read"]["server"] = pc["read"]["server"]
    BY <1>1, <1>6 DEF Goto, MgiTypes, Conns, Ends
  <2>3. inbox'["read"]["client"] = <<>>
    <3>1. CASE Gets("read", "client", "length_again") /\ Take("read", "client", items)
      <4>1. inbox["read"]["client"] = <<Tag(Len(Awaited))>>
        BY <1>1, <3>1 DEF ReadTaken, Gets
      <4>2. QED
        BY <1>0, <1>1, <3>1, <4>1, TakeFacts, TheEnds
    <3>2. CASE Fails("read", "client", "length_again") /\ inbox' = inbox
      BY <3>2 DEF Fails
    <3>3. QED
      BY <1>6, <3>1, <3>2
  <2>4. Awaited' = Awaited
    BY <1>2 DEF Awaited
  <2>5. (pc["read"]["server"] # "dead" => ReadInStep)'
    <3>1. SUFFICES ASSUME pc["read"]["server"] # "dead" PROVE ReadInStep'
      BY <2>2
    <3>2. Take("read", "client", items)
      BY <1>6, <3>1, TheEnds DEF Fails
    <3>3. Phase("read", "length_again", "sent", <<Tag(Len(Awaited))>>, <<>>)
      BY <1>1, <3>1 DEF ReadInStep, Phase, Idle, NoCall
    <3>4. inbox'["read"]["server"] = items
      BY <1>0, <1>1, <3>2, <3>3, TakeFacts, TheEnds DEF Phase
    <3>5. QED
      BY <2>2, <2>3, <3>3, <3>4 DEF ReadInStep, Phase
  <2>6. ReadTaken'
    BY <1>1, <1>2, <1>6, <2>2, <2>3, <2>4 DEF ReadTaken, ReadGaveUp, Idle, NoCall
  <2>7. \A t : Held(t) => Held(t)'
    BY <1>1, <1>2, <2>2, <2>4 DEF Held, InRead, Idle, NoCall
  <2>8. QED
    BY <1>2, <2>1, <2>5, <2>6, <2>7, ReadAssembled
<1>7. QED
  BY <1>3, <1>4, <1>5, <1>6

\* mgi_read returns with the record.
LEMMA ReadDoneStep ==
    ASSUME MgiInv, ReadDone
    PROVE  MgiInv'
<1> PICK none : none = <<>>
  OBVIOUS
<1>0. IsStream(none)
  BY Streams
<1>1. /\ MgiTypes /\ ReadTaken /\ (pc["read"]["server"] # "dead" => ReadInStep) /\ Flow
      /\ pc["read"]["client"] = "done"
  BY DEF MgiInv, ReadDone, Gets, Fails
<1>2. /\ hand' = hand /\ mode' = mode /\ stored' = stored /\ Return("read", "record")
      /\ got' = Append(got, hand["read"]["client"])
  BY DEF ReadDone
<1>3. \/ Gets("read", "client", "done") /\ Take("read", "client", none)
      \/ Fails("read", "client", "done") /\ inbox' = inbox
  BY DEF ReadDone
<1>4. /\ pc'["read"]["client"] = "open" /\ pc'["read"]["server"] = pc["read"]["server"]
      /\ returned'["read"] = "record"
  BY <1>1, <1>2 DEF Return, MgiTypes, Conns, Ends
<1>5. inbox'["read"]["client"] = <<>>
  <2>1. CASE Gets("read", "client", "done") /\ Take("read", "client", none)
    <3>1. inbox["read"]["client"] = <<ACK>>
      BY <1>1, <2>1 DEF ReadTaken, Gets
    <3>2. QED
      BY <1>0, <1>1, <2>1, <3>1, TakeFacts, TheEnds
  <2>2. CASE Fails("read", "client", "done") /\ inbox' = inbox
    BY <2>2 DEF Fails
  <2>3. QED
    BY <1>3, <2>1, <2>2
<1>6. pc["read"]["server"] # "dead" =>
         /\ pc["read"]["server"] = "command" /\ inbox["read"]["server"] = <<>>
         /\ inbox'["read"]["server"] = <<>>
  <2>1. SUFFICES ASSUME pc["read"]["server"] # "dead"
                 PROVE  /\ pc["read"]["server"] = "command" /\ inbox["read"]["server"] = <<>>
                        /\ inbox'["read"]["server"] = <<>>
    OBVIOUS
  <2>2. Take("read", "client", none) /\ inbox["read"]["client"] # <<>>
    BY <1>3, <2>1, TheEnds DEF Fails, Gets
  <2>3. pc["read"]["server"] = "command" /\ inbox["read"]["server"] = <<>>
    BY <1>1, <2>1, <2>2 DEF ReadInStep, Phase, Idle, NoCall
  <2>4. QED
    BY <1>0, <1>1, <2>2, <2>3, TakeFacts, TheEnds
<1>7. (pc["read"]["server"] # "dead" => ReadInStep)'
  BY <1>4, <1>5, <1>6 DEF ReadInStep, Phase, Idle, NoCall
<1>8. ReadTaken'
  BY <1>4, <1>5 DEF ReadTaken, ReadGaveUp, Idle, NoCall
<1>9. PICK t, w \in {0, 1} :
         /\ Held(t) /\ Begun(w)
         /\ Len(hand["write"]["client"]) = Len(got) + t + Len(stored) + w
         /\ \A i \in 1 .. Len(stored) : stored[i] = Script[Len(got) + t + i]
  BY <1>1 DEF Flow
<1>10. t = 1
  BY <1>1, <1>9 DEF Held, InRead
<1>11. /\ Len(got) \in Nat /\ Len(stored) \in Nat /\ got \in Seq(Range(Script))
       /\ Len(hand["write"]["client"]) \in Nat
  BY <1>1 DEF MgiTypes
<1>12. Len(got) + 1 <= Len(Script)
  <2>1. Len(hand["write"]["client"]) <= Len(Script)
    BY <1>1 DEF Flow
  <2>2. Len(Script) \in Nat
    BY MgiAssumption
  <2>3. QED
    BY <1>9, <1>10, <1>11, <2>1, <2>2
<1>13. hand["read"]["client"] = Script[Len(got) + 1] /\ Script[Len(got) + 1] \in Range(Script)
  BY <1>1, <1>11, <1>12, MgiAssumption DEF ReadTaken, Awaited
<1>14. /\ got' \in Seq(Range(Script)) /\ Len(got') = Len(got) + 1
       /\ \A i \in 1 .. Len(got) : got'[i] = got[i]
       /\ got'[Len(got) + 1] = Script[Len(got) + 1]
  BY <1>2, <1>11, <1>13, AppendProperties
<1>15. MgiTypes' /\ Same("write")
  <2>1. Streamed("read", "client") /\ Moved("read", "client")
    BY <1>2, <1>3, StreamedBy, MovedBy
  <2>2. /\ DOMAIN pc' = Conns /\ \A k \in Conns : DOMAIN pc'[k] = Ends
        /\ DOMAIN inbox' = Conns /\ \A k \in Conns : DOMAIN inbox'[k] = Ends
        /\ DOMAIN returned' = Conns /\ DOMAIN mode' = Conns
        /\ pc'["write"] = pc["write"] /\ inbox'["write"] = inbox["write"]
        /\ returned'["write"] = returned["write"]
    BY <1>1, <1>2, <2>1, Apart, TheEnds
  <2>3. QED
    BY <1>1, <1>2, <1>14, <2>2 DEF MgiTypes, Same
<1>16. Held(0)'
  BY <1>4, <1>5, <1>6 DEF Held, InRead, ReadGaveUp, Idle, NoCall
<1>17. Begun(w)'
  BY <1>9, <1>15, WriteLeft
<1>18. Flow'
  <2>1. \A i \in 1 .. Len(got') : got'[i] = Script[i]
    <3>1. \A i \in 1 .. Len(got) : got[i] = Script[i]
      BY <1>1 DEF Flow
    <3>2. QED
      BY <1>11, <1>14, <3>1
  <2>2. /\ Len(hand["write"]["client"]) = Len(got') + 0 + Len(stored) + w
        /\ \A i \in 1 .. Len(stored) : stored[i] = Script[Len(got') + 0 + i]
    BY <1>9, <1>10, <1>11, <1>14
  <2>3. QED
    BY <1>1, <1>2, <1>16, <1>17, <2>1, <2>2 DEF Flow
<1>19. (pc["write"]["server"] # "dead" => WriteInStep)' /\ WriteTaken'
  BY <1>15, WriteLeft DEF MgiInv
<1>20. QED
  BY <1>7, <1>8, <1>15, <1>18, <1>19 DEF MgiInv

\* The server gives the oldest record.
LEMMA ReadGivenStep ==
    ASSUME MgiInv, Command("read"), mode["read"] = "read"
    PROVE  MgiInv'
<1> PICK items : items = <<ACK>>
  OBVIOUS
<1>0. IsStream(items)
  BY Streams
<1>1. /\ MgiTypes /\ ReadTaken /\ ReadInStep /\ Flow
      /\ pc["read"]["server"] = "command" /\ inbox["read"]["server"] # <<>>
  BY DEF MgiInv, Command, Gets
<1>2. /\ stored # <<>> /\ stored' = Tail(stored)
      /\ hand' = [hand EXCEPT !["read"]["server"] = Head(stored)]
      /\ Take("read", "server", items) /\ Goto("read", "server", "send")
      /\ mode' = mode /\ returned' = returned /\ got' = got
  BY DEF Command
<1>3. Phase("read", "command_acked", "command", <<>>, <<ReadCommand>>)
  BY <1>1 DEF ReadInStep, Phase, Idle, NoCall
<1>4. pc'["read"]["client"] = "command_acked" /\ pc'["read"]["server"] = "send"
  BY <1>1, <1>2, <1>3 DEF Goto, MgiTypes, Conns, Ends, Phase
<1>5. inbox'["read"]["client"] = items /\ inbox'["read"]["server"] = <<>>
  BY <1>0, <1>1, <1>2, <1>3, TakeFacts, TheEnds DEF Phase
<1>6. (pc["read"]["server"] # "dead" => ReadInStep)'
  BY <1>4, <1>5 DEF ReadInStep, Phase
<1>7. ReadTaken'
  BY <1>1, <1>2, <1>3, <1>4, <1>5 DEF ReadTaken, ReadGaveUp, Idle, NoCall, Phase
<1>8. PICK t, w \in {0, 1} :
         /\ Held(t) /\ Begun(w)
         /\ Len(hand["write"]["client"]) = Len(got) + t + Len(stored) + w
         /\ \A i \in 1 .. Len(stored) : stored[i] = Script[Len(got) + t + i]
  BY <1>1 DEF Flow
<1>9. t = 0
  BY <1>1, <1>3, <1>8 DEF Held, InRead, ReadTaken, ReadGaveUp, Idle, NoCall, Phase
<1>10. /\ Len(got) \in Nat /\ Len(stored) \in Nat /\ stored \in Seq(Range(Script))
       /\ Len(stored) > 0
  BY <1>1, <1>2 DEF MgiTypes
<1>11. /\ stored' \in Seq(Range(Script)) /\ Len(stored') = Len(stored) - 1
       /\ \A i \in 1 .. Len(stored') : stored'[i] = stored[i + 1]
       /\ Head(stored) = stored[1]
  BY <1>2, <1>10, HeadTailProperties
<1>12. Head(stored) = Awaited
  BY <1>8, <1>9, <1>10, <1>11 DEF Awaited
<1>13. /\ hand'["write"] = hand["write"] /\ hand'["read"]["client"] = hand["read"]["client"]
       /\ hand'["read"]["server"] = Awaited
       /\ DOMAIN hand' = Conns /\ \A d \in Conns : DOMAIN hand'[d] = Ends
  BY <1>1, <1>2, <1>12 DEF MgiTypes, Conns, Ends
<1>14. MgiTypes' /\ Same("write")
  <2>1. Streamed("read", "server") /\ Moved("read", "server")
    BY <1>2, StreamedBy, MovedBy
  <2>2. /\ DOMAIN pc' = Conns /\ \A k \in Conns : DOMAIN pc'[k] = Ends
        /\ DOMAIN inbox' = Conns /\ \A k \in Conns : DOMAIN inbox'[k] = Ends
        /\ DOMAIN returned' = Conns /\ DOMAIN mode' = Conns
        /\ pc'["write"] = pc["write"] /\ inbox'["write"] = inbox["write"]
        /\ returned'["write"] = returned["write"]
    BY <1>1, <1>2, <2>1, Apart, TheEnds
  <2>3. QED
    BY <1>1, <1>2, <1>11, <1>13, <2>2 DEF MgiTypes, Same
<1>15. Held(1)'
  BY <1>2, <1>4, <1>13 DEF Held, InRead, Idle, NoCall, Awaited
<1>16. Begun(w)'
  BY <1>8, <1>14, WriteLeft
<1>17. Flow'
  <2>1. \A i \in 1 .. Len(stored') : stored'[i] = Script[Len(got) + 1 + i]
    <3>1. TAKE i \in 1 .. Len(stored')
    <3>2. i \in Nat /\ i + 1 \in 1 .. Len(stored) /\ Len(got) + t + (i + 1) = Len(got) + 1 + i
      BY <1>9, <1>10, <1>11, <3>1
    <3>3. QED
      BY <1>8, <1>11, <3>1, <3>2
  <2>2. Len(hand["write"]["client"]) = Len(got) + 1 + Len(stored') + w
    BY <1>8, <1>9, <1>10, <1>11
  <2>3. QED
    BY <1>1, <1>2, <1>13, <1>15, <1>16, <2>1, <2>2 DEF Flow
<1>18. (pc["write"]["server"] # "dead" => WriteInStep)' /\ WriteTaken'
  BY <1>14, WriteLeft DEF MgiInv
<1>19. QED
  BY <1>6, <1>7, <1>14, <1>17, <1>18 DEF MgiInv

\* It refuses to, for the channel was opened to write.
LEMMA ReadNotGivenStep ==
    ASSUME MgiInv, Command("read"), mode["read"] # "read"
    PROVE  MgiInv'
<1> PICK items : items = <<NACK>>
  OBVIOUS
<1>0. IsStream(items)
  BY Streams
<1>1. /\ MgiTypes /\ ReadTaken /\ ReadInStep
      /\ pc["read"]["server"] = "command" /\ inbox["read"]["server"] # <<>>
  BY DEF MgiInv, Command, Gets
<1>2. /\ Take("read", "server", items) /\ pc' = pc /\ hand' = hand /\ stored' = stored
      /\ mode' = mode /\ returned' = returned /\ got' = got
  BY DEF Command
<1>3. Phase("read", "command_acked", "command", <<>>, <<ReadCommand>>)
  BY <1>1 DEF ReadInStep, Phase, Idle, NoCall
<1>4. inbox'["read"]["client"] = items /\ inbox'["read"]["server"] = <<>>
  BY <1>0, <1>1, <1>2, <1>3, TakeFacts, TheEnds DEF Phase
<1>5. MgiTypes' /\ Same("write")
  <2>1. /\ DOMAIN inbox' = Conns /\ \A k \in Conns : DOMAIN inbox'[k] = Ends
        /\ inbox'["write"] = inbox["write"]
    BY <1>0, <1>1, <1>2, TakeFacts, TheEnds
  <2>2. QED
    BY <1>1, <1>2, <2>1 DEF MgiTypes, Same
<1>6. (pc["read"]["server"] # "dead" => ReadInStep)'
  BY <1>2, <1>3, <1>4 DEF ReadInStep, Phase
<1>7. ReadTaken'
  BY <1>1, <1>2, <1>3, <1>4 DEF ReadTaken, ReadGaveUp, Idle, NoCall, Phase
<1>8. \A t : Held(t) => Held(t)'
  <2>1. inbox'["read"]["client"] # <<ACK>>
    BY <1>4, ItemsDiffer
  <2>2. QED
    BY <1>2, <1>3, <2>1 DEF Held, InRead, ReadGaveUp, Idle, NoCall, Phase, Awaited
<1>9. QED
  BY <1>2, <1>5, <1>6, <1>7, <1>8, ReadAssembled

\* The server dies, perhaps in the middle of a record.
LEMMA ReadDiesStep ==
    ASSUME MgiInv, ServerDies("read")
    PROVE  MgiInv'
<1>1. /\ MgiTypes /\ ReadTaken /\ ReadInStep
      /\ hand' = hand /\ stored' = stored /\ got' = got /\ mode' = mode /\ returned' = returned
      /\ Goto("read", "server", "dead")
  BY DEF MgiInv, ServerDies, Rest
<1> DEFINE in == inbox["read"]["client"]
<1>2. PICK m \in 0 .. Len(in) :
         /\ m < Len(in) => pc["read"]["server"] = "sent"
         /\ inbox' = [inbox EXCEPT !["read"]["client"] = SubSeq(@, 1, m),
                                   !["read"]["server"] = <<>>]
  BY DEF ServerDies
<1>3. /\ inbox'["read"]["client"] = SubSeq(in, 1, m) /\ inbox'["write"] = inbox["write"]
      /\ DOMAIN inbox' = Conns /\ \A k \in Conns : DOMAIN inbox'[k] = Ends
  BY <1>1, <1>2 DEF MgiTypes, Conns, Ends
<1>4. /\ pc'["read"]["client"] = pc["read"]["client"] /\ pc'["read"]["server"] = "dead"
      /\ pc'["write"] = pc["write"]
      /\ DOMAIN pc' = Conns /\ \A k \in Conns : DOMAIN pc'[k] = Ends
  BY <1>1 DEF Goto, MgiTypes, Conns, Ends
<1>5. MgiTypes' /\ Same("write")
  BY <1>1, <1>3, <1>4 DEF MgiTypes, Same
<1>6. Awaited' = Awaited
  BY <1>1 DEF Awaited
<1>7. CASE /\ pc["read"]["client"] = "open"
           /\ returned["read"] \in {"READ_ERROR", "READ_TIMEOUT"}
  <2>1. ReadTaken'
    BY <1>1, <1>4, <1>7 DEF ReadTaken, ReadGaveUp, Idle, NoCall
  <2>2. \A t : Held(t) => Held(t)'
    BY <1>1, <1>4, <1>6, <1>7 DEF Held, InRead, ReadGaveUp, Idle, NoCall
  <2>3. QED
    BY <1>1, <1>4, <1>5, <2>1, <2>2, ReadAssembled
<1>8. CASE ~(/\ pc["read"]["client"] = "open"
             /\ returned["read"] \in {"READ_ERROR", "READ_TIMEOUT"})
  <2>1. IsStream(in)
    BY <1>1, <1>8, Streams DEF ReadInStep, Phase, RecordItems
  <2>2. pc["read"]["server"] # "sent" => inbox'["read"]["client"] = in
    BY <1>2, <1>3, <2>1, Remains
  <2>3. in = <<>> => inbox'["read"]["client"] = <<>>
    BY <1>3, <2>1, Remains
  <2>4. \A a : in = <<a>> => inbox'["read"]["client"] \in {<<>>, <<a>>}
    BY <1>3, <2>1, Remains
  <2>5. \A a, b : in = <<a, b>> => inbox'["read"]["client"] \in {<<>>, <<a>>, <<a, b>>}
    <3>1. SUFFICES ASSUME NEW a, NEW b, in = <<a, b>>
                   PROVE  SubSeq(in, 1, m) \in {<<>>, <<a>>, <<a, b>>}
      BY <1>3
    <3> HIDE DEF in
    <3>2. QED
      BY <2>1, <3>1, Remains
  <2>6. \A a, b, d : in = <<a, b, d>> =>
           inbox'["read"]["client"] \in {<<>>, <<a>>, <<a, b>>, <<a, b, d>>}
    <3>1. SUFFICES ASSUME NEW a, NEW b, NEW d, in = <<a, b, d>>
                   PROVE  SubSeq(in, 1, m) \in {<<>>, <<a>>, <<a, b>>, <<a, b, d>>}
      BY <1>3
    <3> HIDE DEF in
    <3>2. QED
      BY <2>1, <3>1, Remains
  <2>7. pc["read"]["client"] = "command_acked" => inbox'["read"]["client"] = in
    BY <1>1, <2>2 DEF ReadInStep, Phase, Idle, NoCall
  <2>8. ReadTaken'
    <3>1. pc["read"]["client"] = "length" =>
             inbox'["read"]["client"] \in
                {<<>>, <<Tag(Len(Awaited))>>, <<Tag(Len(Awaited)), Words(Awaited)>>,
                 RecordItems(Awaited)}
      <4>1. pc["read"]["client"] = "length" => in = <<>> \/ in = RecordItems(Awaited)
        BY <1>1 DEF ReadInStep, Phase, Idle, NoCall
      <4>2. QED
        BY <2>3, <2>6, <4>1 DEF RecordItems
    <3>2. pc["read"]["client"] \in {"words", "swallow"} =>
             inbox'["read"]["client"] \in
                {<<>>, <<Words(Awaited)>>, <<Words(Awaited), Tag(Len(Awaited))>>}
      <4>1. pc["read"]["client"] \in {"words", "swallow"} =>
               in = <<Words(Awaited), Tag(Len(Awaited))>>
        BY <1>1 DEF ReadInStep, Phase, Idle, NoCall
      <4>2. QED
        BY <2>5, <4>1
    <3>3. pc["read"]["client"] = "length_again" =>
             inbox'["read"]["client"] \in {<<>>, <<Tag(Len(Awaited))>>}
      <4>1. pc["read"]["client"] = "length_again" => in = <<Tag(Len(Awaited))>>
        BY <1>1 DEF ReadInStep, Phase, Idle, NoCall
      <4>2. QED
        BY <2>4, <4>1
    <3>4. pc["read"]["client"] = "done" => inbox'["read"]["client"] \in {<<>>, <<ACK>>}
      <4>1. pc["read"]["client"] = "done" => in = <<>> \/ in = <<ACK>>
        BY <1>1 DEF ReadInStep, Phase, Idle, NoCall
      <4>2. QED
        BY <2>3, <2>4, <4>1
    <3>5. Idle("read") /\ ~ReadGaveUp => inbox'["read"]["client"] = <<>>
      BY <1>1, <2>3 DEF ReadTaken
    <3>6. QED
      BY <1>1, <1>4, <1>6, <2>7, <3>1, <3>2, <3>3, <3>4, <3>5
         DEF ReadTaken, ReadGaveUp, Idle, NoCall, RecordItems
  <2>9. \A t : Held(t) => Held(t)'
    BY <1>1, <1>4, <1>6, <2>7 DEF Held, InRead, ReadGaveUp, Idle, NoCall
  <2>10. QED
    BY <1>1, <1>4, <1>5, <2>8, <2>9, ReadAssembled
<1>9. QED
  BY <1>7, <1>8

\* What an end of this connection never does.
LEMMA ReadNever ==
    ASSUME MgiInv, NEW e \in Ends
    PROVE  /\ e = "client" => ~RecordSent("read", e) /\ ~SendAcked("read", e)
           /\ e = "server" => /\ ~LengthRead("read", e) /\ ~WordsRead("read", e)
                              /\ ~LengthAgain("read", e) /\ ~Swallowed("read", e)
<1>1. CASE e = "client"
  <2>1. pc["read"]["client"] \notin {"send", "sent"}
    BY DEF MgiInv, ReadTaken, NoCall
  <2>2. QED
    BY <1>1, <2>1 DEF RecordSent, SendAcked, Gets, Fails
<1>2. CASE e = "server"
  <2>1. pc["read"]["server"] \notin {"length", "words", "length_again", "swallow"}
    BY DEF MgiInv, ReadInStep, Phase
  <2>2. QED
    BY <1>2, <2>1 DEF Swallowed, LengthRead, WordsRead, LengthAgain, Gets, Fails
<1>3. QED
  BY <1>1, <1>2 DEF Ends

-----------------------------------------------------------------------------
(* Every step, and what follows.                                           *)

\* The invariant holds at the start.
LEMMA MgiStart ==
    ASSUME MgiInit
    PROVE  MgiInv
<1>1. /\ pc["write"]["client"] = "closed" /\ pc["write"]["server"] = "command"
      /\ pc["read"]["client"] = "closed" /\ pc["read"]["server"] = "command"
      /\ \A c \in Conns, e \in Ends : inbox[c][e] = <<>>
      /\ returned["write"] = "none" /\ returned["read"] = "none"
      /\ hand["write"]["client"] = <<>> /\ stored = <<>> /\ got = <<>>
  BY DEF MgiInit, Conns, Ends
<1>2. MgiTypes
  <2>1. DOMAIN pc = Conns /\ \A c \in Conns : DOMAIN pc[c] = Ends
    BY DEF MgiInit
  <2>2. /\ DOMAIN inbox = Conns /\ \A c \in Conns : DOMAIN inbox[c] = Ends
        /\ DOMAIN hand = Conns /\ \A c \in Conns : DOMAIN hand[c] = Ends
    BY DEF MgiInit
  <2>3. DOMAIN returned = Conns /\ DOMAIN mode = Conns
    BY DEF MgiInit
  <2>4. <<>> \in Seq(Range(Script))
    OBVIOUS
  <2>5. QED
    BY <1>1, <2>1, <2>2, <2>3, <2>4 DEF MgiTypes
<1>3. WriteInStep /\ ReadInStep
  BY <1>1, TheEnds DEF WriteInStep, ReadInStep, Phase, Idle, NoCall
<1>4. WriteTaken
  BY <1>1, TheEnds DEF WriteTaken, Idle, NoCall
<1>5. ReadTaken
  BY <1>1, TheEnds DEF ReadTaken, ReadGaveUp, Idle, NoCall
<1>6. Held(0) /\ Begun(0)
  BY <1>1, TheEnds DEF Held, Begun, InRead, ReadGaveUp, Idle, NoCall
<1>7. Flow
  <2>1. Len(Script) \in Nat /\ Len(got) = 0 /\ Len(stored) = 0 /\ Len(hand["write"]["client"]) = 0
    BY <1>1, MgiAssumption
  <2>2. QED
    BY <1>6, <2>1 DEF Flow
<1>8. QED
  BY <1>2, <1>3, <1>4, <1>5, <1>7 DEF MgiInv

\* No step of the two ends breaks it.
LEMMA EndSteps ==
    ASSUME MgiInv, NEW c \in Conns, NEW e \in Ends, EndStep(c, e)
    PROVE  MgiInv'
<1>1. CASE c = "write" /\ e = "client"
  <2>1. RecordSent("write", "client") \/ SendAcked("write", "client")
    BY <1>1, WriteNever DEF EndStep
  <2>2. QED
    BY <2>1, WriteSentStep, WriteAnsweredStep
<1>2. CASE c = "write" /\ e = "server"
  <2>1. \/ LengthRead("write", "server") \/ WordsRead("write", "server")
        \/ LengthAgain("write", "server")
    BY <1>2, WriteNever DEF EndStep
  <2>2. QED
    BY <2>1, WriteLengthStep, WriteWordsStep, WriteKeptStep
<1>3. CASE c = "read" /\ e = "client"
  <2>1. \/ LengthRead("read", "client") \/ Swallowed("read", "client")
        \/ WordsRead("read", "client") \/ LengthAgain("read", "client")
    BY <1>3, ReadNever DEF EndStep
  <2>2. QED
    BY <2>1, ReadLengthStep, ReadSwallowedStep, ReadWordsStep, ReadKeptStep
<1>4. CASE c = "read" /\ e = "server"
  BY <1>4, ReadNever, ReadSentStep, ReadAnsweredStep DEF EndStep
<1>5. QED
  BY <1>1, <1>2, <1>3, <1>4 DEF Conns, Ends

\* No step at all does.
LEMMA MgiStep ==
    ASSUME MgiInv, [MgiNext]_mgivars
    PROVE  MgiInv'
<1>1. CASE UNCHANGED mgivars
  <2>1. Same("write") /\ Same("read") /\ got' = got /\ stored' = stored /\ hand' = hand
    BY <1>1 DEF mgivars, Same
  <2>2. MgiTypes'
    BY <1>1 DEF mgivars, MgiInv, MgiTypes
  <2>3. \A w : Begun(w) => Begun(w)'
    BY <2>1, WriteLeft
  <2>4. (pc["write"]["server"] # "dead" => WriteInStep)' /\ WriteTaken'
    BY <2>1, WriteLeft DEF MgiInv
  <2>5. QED
    BY <2>1, <2>2, <2>3, <2>4, WriteAssembled
<1>2. CASE \E c \in Conns : MgiOpen(c)
  BY <1>2, OpenStep
<1>3. CASE \E c \in Conns : CommandAcked(c)
  BY <1>3, WriteAckedStep, ReadAckedStep, TheEnds
<1>4. CASE MgiWrite
  BY <1>4, MgiWriteStep
<1>5. CASE \E n \in 1 .. 2 : MgiRead(n)
  BY <1>5, MgiReadStep
<1>6. CASE \E c \in Conns, e \in Ends : EndStep(c, e)
  BY <1>6, EndSteps
<1>7. CASE WriteDone
  BY <1>7, WriteDoneStep
<1>8. CASE ReadDone
  BY <1>8, ReadDoneStep
<1>9. CASE \E c \in Conns : Command(c)
  BY <1>9, WriteAskedStep, ReadGivenStep, ReadNotGivenStep, TheEnds
<1>10. CASE \E c \in Conns : ServerDies(c)
  BY <1>10, WriteDiesStep, ReadDiesStep, TheEnds
<1>11. QED
  BY <1>1, <1>2, <1>3, <1>4, <1>5, <1>6, <1>7, <1>8, <1>9, <1>10 DEF MgiNext

\* What the invariant says of a channel between two calls.
LEMMA MgiInvInStep ==
    ASSUME MgiInv
    PROVE  InStep
<1> SUFFICES ASSUME NEW c \in Conns, ~InCall(c), pc[c]["client"] = "open",
                    pc[c]["server"] # "dead",
                    returned[c] \in {"channel", "written", "record"}
             PROVE  pc[c]["server"] = "command" /\ \A e \in Ends : inbox[c][e] = <<>>
  BY DEF InStep
<1>1. CASE c = "write"
  BY <1>1 DEF MgiInv, WriteInStep, Phase, Idle, NoCall, Ends
<1>2. CASE c = "read"
  BY <1>2 DEF MgiInv, ReadInStep, Phase, Idle, NoCall, Ends
<1>3. QED
  BY <1>1, <1>2, TheEnds

\* What it says of the records.
LEMMA MgiInvDelivers ==
    ASSUME MgiInv
    PROVE  MgiDelivers
<1>1. /\ got \in Seq(Range(Script)) /\ stored \in Seq(Range(Script))
      /\ Script \in Seq(Range(Script))
      /\ hand["write"]["client"] \in Seq(Range(Script))
      /\ Len(hand["write"]["client"]) <= Len(Script)
      /\ \A i \in 1 .. Len(got) : got[i] = Script[i]
  BY MgiAssumption DEF MgiInv, MgiTypes, Flow
<1>2. PICK t, w \in {0, 1} :
         /\ Held(t) /\ Begun(w)
         /\ Len(hand["write"]["client"]) = Len(got) + t + Len(stored) + w
  BY DEF MgiInv, Flow
<1>3. Len(got) \in Nat /\ Len(stored) \in Nat /\ Len(Script) \in Nat
  BY <1>1
<1>4. Len(got) <= Len(Script)
  <2>1. Len(got) + t + Len(stored) + w <= Len(Script)
    BY <1>1, <1>2
  <2>2. QED
    BY <1>3, <2>1
<1>5. IsPrefix(got, Script)
  <2> DEFINE s == SubSeq(got, 1, Len(got))
             p == SubSeq(Script, 1, Len(got))
  <2>1. \A i \in 1 .. Len(got) : got[i] \in Range(Script) /\ Script[i] \in Range(Script)
    BY <1>1, <1>3, <1>4
  <2>2. /\ s \in Seq(Range(Script)) /\ Len(s) = Len(got)
        /\ \A i \in 1 .. Len(got) : s[i] = got[i]
    BY <1>3, <2>1, SubSeqProperties
  <2>3. /\ p \in Seq(Range(Script)) /\ Len(p) = Len(got)
        /\ \A i \in 1 .. Len(got) : p[i] = Script[i]
    BY <1>3, <2>1, SubSeqProperties
  <2> HIDE DEF s, p
  <2>4. s = p
    BY <1>1, <2>2, <2>3, SeqEqual
  <2>5. QED
    BY <1>4, <2>4 DEF IsPrefix, s, p
<1>6. SUFFICES ASSUME returned["write"] = "written", ~InCall("write")
               PROVE  Len(hand["write"]["client"]) <= Len(got) + Len(stored)
                         + (IF pc["read"]["server"] \in {"send", "sent", "dead"}
                               \/ InCall("read")
                               \/ returned["read"] \in {"READ_ERROR", "READ_TIMEOUT"}
                            THEN 1 ELSE 0)
  BY <1>5 DEF MgiDelivers
<1>7. Idle("write")
  BY <1>6 DEF InCall, Idle, NoCall
<1>8. w = 0
  BY <1>2, <1>6, <1>7 DEF Begun
<1>9. t = 1 => \/ pc["read"]["server"] \in {"send", "sent", "dead"}
               \/ InCall("read")
               \/ returned["read"] \in {"READ_ERROR", "READ_TIMEOUT"}
  BY <1>2 DEF Held, InRead, InCall
<1>10. QED
  BY <1>2, <1>3, <1>8, <1>9

\* The invariant holds of every state the programs and the server reach.
LEMMA MgiInvariant == MgiSpec => []MgiInv
<1>1. MgiInit => MgiInv
  BY MgiStart
<1>2. MgiInv /\ [MgiNext]_mgivars => MgiInv'
  BY MgiStep
<1>3. QED
  BY <1>1, <1>2, PTL DEF MgiSpec

\* A channel is as good as new after every call that returned without an error
\* (mgi_write's three answers and mgi_read's two are all taken), whatever the script, the
\* interleaving of the two programs and the server, and the server's death.
THEOREM ChannelsStayInStep == MgiSpec => []InStep
<1>1. MgiInv => InStep
  BY MgiInvInStep
<1>2. QED
  BY <1>1, MgiInvariant, PTL

\* The reader gets the records in the order they were written, each whole and once, and no
\* record is lost of which mgi_write said that it was written, whatever the script.
THEOREM RecordsDelivered == MgiSpec => []MgiDelivers
<1>1. MgiInv => MgiDelivers
  BY MgiInvDelivers
<1>2. QED
  BY <1>1, MgiInvariant, PTL
=============================================================================
