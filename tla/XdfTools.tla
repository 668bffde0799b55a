------------------------------ MODULE XdfTools ------------------------------
(***************************************************************************)
(* The functions of src/fstd98/xdf98.c that look at a file from outside:   *)
(* c_xdfcheck (fstcheck, burp_check), c_qdfdiag, which scans the records   *)
(* one after the other without the directory, and c_qdfrstr, which copies  *)
(* a file up to the size of its header after a task has died.              *)
(***************************************************************************)
EXTENDS XdfFile

CONSTANT RestoresFlagged   \* c_qdfrstr is also used on a file whose flag is set

ASSUME ToolsAssumption == RestoresFlagged \in BOOLEAN

\* c_xdfcheck: 0 when the header announces the size the file has.
Checked == dhdr.fsiz = dsize

NoCount == [pages |-> 0, active |-> 0, erased |-> 0, biggest |-> 0]

\* c_qdfdiag on a file that is not open here: from one record header to the next by
\* its length, until the end of the file or a header that is not at its own address.
ScanFrom[a \in Addr] ==
    IF a > dsize \/ dcell[a] = Blank \/ dcell[a].addr # a THEN NoCount
    ELSE LET page == dcell[a] \in Page
             next == IF page THEN a + 1 ELSE a + dcell[a].lng
             rest == IF next \in Addr THEN ScanFrom[next] ELSE NoCount
         IN IF page THEN [rest EXCEPT !.pages = @ + 1]
            ELSE IF dcell[a].idtyp = ERASED
            THEN [rest EXCEPT !.erased = @ + 1, !.biggest = Larger(@, dcell[a].lng)]
            ELSE [rest EXCEPT !.active = @ + 1, !.biggest = Larger(@, dcell[a].lng)]

\* Its verdict: the header agrees with the scan.
Diagnosed ==
    LET scan == ScanFrom[2] IN
    /\ dhdr.nxtn = scan.active + scan.erased
    /\ dhdr.nrec = scan.active
    /\ dhdr.nxtn - dhdr.nrec = scan.erased
    /\ dhdr.nbig = scan.biggest
    /\ dhdr.nbd = scan.pages

\* The units c_qdfrstr copies.
CopiedShort == {a \in Addr : a < dhdr.fsiz}                           \* mutant
Copied == {a \in Addr : a <= dhdr.fsiz}

\* c_qdfrstr, the copy taking the place of the file: no flag, and nothing beyond the
\* size of the header.
Restore ==
    /\ MayCrash
    /\ \A p \in Procs : pc[p] = "closed"
    /\ dhdr.fsiz > 0
    /\ dhdr.rwflg = RDMODE \/ RestoresFlagged
    /\ dhdr' = [dhdr EXCEPT !.rwflg = RDMODE]
    /\ dcell' = [a \in Addr |-> IF a \in Copied THEN dcell[a] ELSE Blank]
    /\ dsize' = dhdr.fsiz
    /\ UNCHANGED <<pc, core, aux>>

ToolsSpec == Init /\ [][Next \/ Restore]_vars

-----------------------------------------------------------------------------
\* A file without a flag that passes c_xdfcheck passes c_qdfdiag too: sessions that
\* died left either bytes the size gives away, or nothing.
CheckedIsDiagnosed ==
    dhdr.rwflg = RDMODE /\ dhdr.nbd > 0 /\ Checked => Diagnosed

\* When no process dies, a file nobody has open passes both.
ClosedIsSound ==
    dhdr.fsiz > 0 /\ (\A p \in Procs : pc[p] = "closed") => Checked /\ Diagnosed

\* c_qdfrstr gives a file back as it was before the session that died while it was
\* adding records: it passes both checks again and its directory is whole.
RestoresOriginal ==
    [][(\A p \in Procs : pc[p] = "closed" /\ pc'[p] = "closed") /\ disk' # disk
          /\ dhdr.nbd > 0
       => Checked' /\ Diagnosed' /\ OpenableIsConsistent']_vars
=============================================================================
