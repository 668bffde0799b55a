------------------------------ MODULE XdfStore ------------------------------
(* A file with one writer implements RecordStore. *)
EXTENDS XdfFile

\* The records of a directory: keys from its entries, data from the file.
RecordsOf(D, n) ==
    [h \in Live(D, n) |-> LET e == EntryOf(D, h) IN
                          [key |-> e.val, data |-> dcell[e.addr].val]]

ViewOf ==
    IF \E p \in Procs : Writing(p)
    THEN LET p == CHOOSE p \in Procs : Writing(p) IN
         [on |-> TRUE, recs |-> RecordsOf(dir_page[p], npages[p])]
    ELSE [on |-> FALSE, recs |-> [h \in {} |-> h]]

\* The chain of directory pages on disk, if it is whole.
Chains == {c \in [0 .. dhdr.nbd - 1 -> DiskPages] :
              Consistent(dhdr, DiskDir(c), dhdr.nbd)}

SavedOf ==
    IF dhdr.fsiz = 0 THEN [state |-> "empty", recs |-> [h \in {} |-> h]]
    ELSE IF dhdr.rwflg # RDMODE \/ dhdr.nbd = 0
    THEN [state |-> "locked", recs |-> [h \in {} |-> h]]
    ELSE IF Chains = {} THEN [state |-> "damaged", recs |-> [h \in {} |-> h]]
    ELSE [state |-> "whole",
          recs |-> RecordsOf(DiskDir(CHOOSE c \in Chains : TRUE), dhdr.nbd)]

Store == INSTANCE RecordStore
    WITH Handle <- Handles, Content <- Vals, view <- ViewOf, saved <- SavedOf

\* Every step of the file, each directory page and header write of a close on its own,
\* is a step of the store or leaves it as it is; so what a session sees through its
\* handles, and what the next one finds after a close or a crash, is what RecordStore
\* says.
ImplementsStore == Store!Spec
=============================================================================
