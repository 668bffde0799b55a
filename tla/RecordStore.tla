----------------------------- MODULE RecordStore -----------------------------
(***************************************************************************)
(* What a random XDF file promises the one program that writes it at a     *)
(* time: a session works on a view of the records, by handle; a close      *)
(* makes the view what the next session finds; a session that dies before  *)
(* its close or checkpoint leaves the records as it found them, a session  *)
(* that dies later leaves the file locked.  The exception is a record      *)
(* overwritten in place: its data are changed at once.                     *)
(***************************************************************************)
CONSTANTS Handle, Content

VARIABLES
    view,    \* the session: whether there is one, and its records
    saved    \* the file as an opening for writing would find it

vars == <<view, saved>>

Record == [key : Content, data : Content]
Records == UNION {[H -> Record] : H \in SUBSET Handle}

NoRecords == [h \in {} |-> h]
NoSession == [on |-> FALSE, recs |-> NoRecords]
Session(recs) == [on |-> TRUE, recs |-> recs]
Locked == [state |-> "locked", recs |-> NoRecords]
Whole(recs) == [state |-> "whole", recs |-> recs]

Init ==
    /\ view = NoSession
    /\ saved = [state |-> "empty", recs |-> NoRecords]

\* A new file stays locked until its first session closes it.
Create ==
    /\ saved.state = "empty" /\ ~view.on
    /\ view' = Session(NoRecords)
    /\ saved' = Locked

Begin ==
    /\ saved.state = "whole" /\ ~view.on
    /\ view' = Session(saved.recs)
    /\ UNCHANGED saved

\* Only a handle no record has is given to a new record.
With(recs, h, c) ==
    [g \in DOMAIN recs \cup {h} |-> IF g = h THEN [key |-> c, data |-> c] ELSE recs[g]]

Without(recs, h) == [g \in DOMAIN recs \ {h} |-> recs[g]]

Add(h, c) ==
    /\ view.on /\ h \notin DOMAIN view.recs
    /\ view' = Session(With(view.recs, h, c))
    /\ UNCHANGED saved

Remove(h) ==
    /\ view.on /\ h \in DOMAIN view.recs
    /\ view' = Session(Without(view.recs, h))
    /\ UNCHANGED saved

\* The record of h moves: its handle dies, the new record has another one.
Move(h, g, c) ==
    /\ view.on /\ h \in DOMAIN view.recs /\ g \notin DOMAIN view.recs
    /\ view' = Session(With(Without(view.recs, h), g, c))
    /\ UNCHANGED saved

\* The data of the record change in the file at once, its keys when it is closed.
Overwrite(h, c) ==
    /\ view.on /\ h \in DOMAIN view.recs
    /\ view' = Session(With(view.recs, h, c))
    /\ saved' = IF h \in DOMAIN saved.recs
                THEN [saved EXCEPT !.recs[h].data = c] ELSE saved

\* A checkpoint or a close begins.
Lock ==
    /\ view.on
    /\ saved' = Locked
    /\ UNCHANGED view

Close ==
    /\ view.on /\ saved = Locked
    /\ saved' = Whole(view.recs)
    /\ view' = NoSession

Die ==
    /\ view.on
    /\ view' = NoSession
    /\ UNCHANGED saved

Next ==
    \/ Create \/ Begin \/ Lock \/ Close \/ Die
    \/ \E h \in Handle : Remove(h)
    \/ \E h \in Handle, c \in Content : Add(h, c) \/ Overwrite(h, c)
    \/ \E h, g \in Handle, c \in Content : Move(h, g, c)

Spec == Init /\ [][Next]_vars

TypeOK ==
    /\ view \in [on : BOOLEAN, recs : Records]
    /\ saved \in [state : {"empty", "locked", "whole"}, recs : Records]
=============================================================================
