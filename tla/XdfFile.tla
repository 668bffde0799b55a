------------------------------- MODULE XdfFile -------------------------------
(***************************************************************************)
(* One random XDF file (src/fstd98/xdf98.c) and the processes that have it *)
(* in their file table: opening (header, then the chain of directory       *)
(* pages), adding, rewriting and deleting records, checkpoint and close,   *)
(* and a process that dies between two writes.                             *)
(*                                                                         *)
(* Addresses and lengths are in the 64-bit units of the headers; the file  *)
(* header and a directory page take one unit each, a record takes "lng"    *)
(* units.  Each process owns one file_table entry for the file; they share *)
(* only the disk.  Every c_wawrit the code can die between two of is a     *)
(* step of its own, except where the second write lands beyond the size    *)
(* the header on disk announces.  A call that returns an error without     *)
(* changing anything is a step that is not enabled.                        *)
(***************************************************************************)
EXTENDS Integers, FiniteSets

CONSTANTS
    Procs,            \* processes, each with the file connected on one unit
    Writers,          \* those whose FGFDT attributes are not read_only
    Vals,             \* contents: primary keys and data, as one value
    NoVal,            \* what a directory slot holds before it is filled
    Lens,             \* record lengths
    ENTRIES_PER_PAGE,
    MAX_DIR_PAGES,
    MaxAddr,          \* bound: last address a write may reach
    MayCrash,         \* processes may die
    ClosesRefused     \* the processes that close a unit whose open was refused

ASSUME ConstAssumption ==
    /\ Writers \subseteq Procs
    /\ NoVal \notin Vals
    /\ Lens \subseteq Nat \ {0}
    /\ ENTRIES_PER_PAGE \in Nat \ {0}
    /\ MAX_DIR_PAGES \in Nat \ {0}
    /\ MaxAddr \in Nat /\ MaxAddr >= 2
    /\ MayCrash \in BOOLEAN /\ ClosesRefused \subseteq Procs

\* rwflg
RDMODE == 0
CREATE == 2
RWMODE == 3
APPEND == 4
RwFlags == {RDMODE, CREATE, RWMODE, APPEND}

\* idtyp: 0 is a special record (a directory page, or a slot never filled), any
\* type from 1 to 126 a record, 254 a record deleted in core, 255 one erased on disk.
SPECIAL == 0
LIVE    == 1
DELETED == 254
ERASED  == 255

Addr    == 1 .. MaxAddr
PageIdx == 0 .. MAX_DIR_PAGES - 1
Slot    == 0 .. ENTRIES_PER_PAGE - 1
Handles == PageIdx \X Slot         \* page_number, record_number

Header == [rwflg : RwFlags, fsiz : 0 .. MaxAddr, nbd : Nat, plst : Nat,
           nrec : Int, nxtn : Nat, nbig : Nat]

NoEntry == [idtyp |-> SPECIAL, val |-> NoVal, addr |-> 0, lng |-> 0]

Entry == [idtyp : {LIVE, DELETED, ERASED}, val : Vals, addr : Nat, lng : Nat]
            \cup {NoEntry}

\* A directory page, in core or on disk.
Page == [addr : Nat, nxt_addr : Nat, nent : 0 .. ENTRIES_PER_PAGE,
         entry : [Slot -> Entry]]

\* What a unit of the file can hold besides a page: a unit of a record, which
\* knows where its record starts and how long it is, or nothing yet.
RecUnit == [idtyp : {LIVE, ERASED}, val : Vals, addr : Nat, lng : Nat]
Blank   == NoEntry

VARIABLES
    dhdr,      \* the file header on disk
    dcell,     \* the rest of the file on disk
    dsize,     \* the length of the file on disk
    pc,        \* where each process is with the file
    hdr,       \* file_table[index]->header
    dir_page,  \* file_table[index]->dir_page, without the modified flags
    npages,    \* file_table[index]->npages
    pmod,      \* the pages whose modified flag is set
    fmod,      \* file_table[index]->modified
    wdaddr,    \* wdaddress of the page c_xdfopn reads next (32-bit words)
    fsize,     \* FGFDT[].file_size when the file was opened (64-bit units)
    ckpt       \* xdf_checkpoint, during c_xdfcls

disk   == <<dhdr, dcell, dsize>>
core   == <<hdr, dir_page, npages, pmod, fmod>>
aux    == <<wdaddr, fsize, ckpt>>
vars   == <<disk, pc, core, aux>>

EmptyHeader == [rwflg |-> RDMODE, fsiz |-> 0, nbd |-> 0, plst |-> 0,
                nrec |-> 0, nxtn |-> 0, nbig |-> 0]

\* The page add_dir_page allocates, at address a.
NewPage(a) == [addr |-> a, nxt_addr |-> 0, nent |-> 0,
               entry |-> [s \in Slot |-> NoEntry]]

NoPages == [i \in PageIdx |-> NewPage(0)]

Init ==
    /\ dhdr = EmptyHeader
    /\ dcell = [a \in Addr |-> Blank]
    /\ dsize = 0
    /\ pc = [p \in Procs |-> "closed"]
    /\ hdr = [p \in Procs |-> EmptyHeader]
    /\ dir_page = [p \in Procs |-> NoPages]
    /\ npages = [p \in Procs |-> 0]
    /\ pmod = [p \in Procs |-> {}]
    /\ fmod = [p \in Procs |-> FALSE]
    /\ wdaddr = [p \in Procs |-> 0]
    /\ fsize = [p \in Procs |-> 0]
    /\ ckpt = [p \in Procs |-> FALSE]

-----------------------------------------------------------------------------
\* Helpers

Larger(a, b) == IF a >= b THEN a ELSE b

Extent(e) == e.addr .. e.addr + e.lng - 1

\* The file may be written through this entry of the file table.
CanWriteAnyUnit(p) == hdr[p].rwflg # RDMODE                           \* mutant
CanWrite(p) == hdr[p].rwflg # RDMODE /\ p \in Writers

\* c_waread of a directory page at word address w into the page "blank".  The
\* address is unsigned, so -1 lies beyond the end of the file: like any address
\* beyond it, c_waread2 then returns without touching the buffer.
PageRead(w, size, blank) ==
    LET a == (w + 1) \div 2 IN
    IF a \in Addr /\ a <= size /\ dcell[a] \in Page THEN dcell[a] ELSE blank

\* init_file: the entry of the file table is free again.
Forget(p) ==
    /\ hdr' = [hdr EXCEPT ![p] = EmptyHeader]
    /\ dir_page' = [dir_page EXCEPT ![p] = NoPages]
    /\ npages' = [npages EXCEPT ![p] = 0]
    /\ pmod' = [pmod EXCEPT ![p] = {}]
    /\ fmod' = [fmod EXCEPT ![p] = FALSE]
    /\ wdaddr' = [wdaddr EXCEPT ![p] = 0]
    /\ fsize' = [fsize EXCEPT ![p] = 0]
    /\ ckpt' = [ckpt EXCEPT ![p] = FALSE]

-----------------------------------------------------------------------------
\* Opening

\* The header create_new_xdf writes: it announces its own size and no page.
NewHeader == [EmptyHeader EXCEPT !.fsiz = 1]

\* c_xdfopn "CREATE": after create_new_xdf, add_dir_page(WMODE) writes the first page
\* behind the header.  fstouv asks for it only when the file is empty.
Create(p) ==
    /\ pc[p] = "closed" /\ p \in Writers
    /\ dhdr.fsiz = 0
    /\ dhdr' = NewHeader
    /\ dcell' = [dcell EXCEPT ![2] = NewPage(2)]
    /\ dsize' = 2
    /\ hdr' = [hdr EXCEPT ![p] = [rwflg |-> CREATE, fsiz |-> 2, nbd |-> 1, plst |-> 2,
                                  nrec |-> 0, nxtn |-> 0, nbig |-> 0]]
    /\ dir_page' = [dir_page EXCEPT ![p][0] = NewPage(2)]
    /\ npages' = [npages EXCEPT ![p] = 1]
    /\ pmod' = [pmod EXCEPT ![p] = {0}]
    /\ fmod' = [fmod EXCEPT ![p] = TRUE]
    /\ pc' = [pc EXCEPT ![p] = "open"]
    /\ UNCHANGED aux

\* c_xdfopn of an existing file: the header, and the tests on it.  The flag of
\* the session goes to the header in core only.  A refused open leaves the entry
\* of the file table taken, with the header it read.
Open(p, mode) ==
    /\ pc[p] = "closed"
    /\ dhdr.fsiz > 0
    /\ LET stillOpen == mode # RDMODE /\ dhdr.rwflg # RDMODE
           flag == IF stillOpen THEN dhdr.rwflg ELSE mode
       IN /\ hdr' = [hdr EXCEPT ![p] = [dhdr EXCEPT !.rwflg = flag]]
          /\ pc' = [pc EXCEPT ![p] = IF stillOpen \/ dhdr.nbd = 0
                                     THEN "refused" ELSE "loading"]
    /\ wdaddr' = [wdaddr EXCEPT ![p] = 3]
    /\ fsize' = [fsize EXCEPT ![p] = dsize]
    /\ UNCHANGED <<disk, dir_page, npages, pmod, fmod, ckpt>>

\* One turn of the loop of c_xdfopn over the nbd directory pages.
LoadPage(p) ==
    /\ pc[p] = "loading"
    /\ npages[p] < MAX_DIR_PAGES
    /\ LET i == npages[p]
           page == PageRead(wdaddr[p], fsize[p], NewPage(hdr[p].fsiz + 1))
           next == 2 * page.nxt_addr - 1
           bad == \/ next = 0 /\ i # hdr[p].nbd - 1
                  \/ next > 2 * fsize[p]
       IN /\ dir_page' = [dir_page EXCEPT ![p][i] = page]
          /\ npages' = [npages EXCEPT ![p] = i + 1]
          /\ wdaddr' = [wdaddr EXCEPT ![p] = next]
          /\ pc' = [pc EXCEPT ![p] = IF bad THEN "refused"
                                     ELSE IF i + 1 = hdr[p].nbd THEN "open"
                                     ELSE "loading"]
    /\ UNCHANGED <<disk, hdr, pmod, fmod, fsize, ckpt>>

-----------------------------------------------------------------------------
\* Records

\* What c_xdfput and c_xdfdel require of a handle: its page is one of the file's, its
\* record number is not greater than the number of entries, and the entry is neither
\* special nor deleted.
Valid(p, h) ==
    /\ h[1] < npages[p]
    /\ h[2] <= dir_page[p][h[1]].nent
    /\ dir_page[p][h[1]].entry[h[2]].idtyp = LIVE

LastFull(p) == dir_page[p][npages[p] - 1].nent >= ENTRIES_PER_PAGE

\* The page the next record goes to, after the add_dir_page(WMODE) of c_xdfput if
\* the last one is full, and the file size then.
PageForLast(p) == npages[p] - 1                                       \* mutant
PageFor(p) == IF LastFull(p) THEN npages[p] ELSE npages[p] - 1
SizeForOld(p) == hdr[p].fsiz                                          \* mutant
SizeFor(p) == IF LastFull(p) THEN hdr[p].fsiz + 1 ELSE hdr[p].fsiz

\* The chain of pages with that page linked at its end.
PagesForUnlinked(p) ==                                                \* mutant
    IF LastFull(p)
    THEN [dir_page[p] EXCEPT ![npages[p]] = NewPage(hdr[p].fsiz + 1)]
    ELSE dir_page[p]
PagesFor(p) ==
    IF LastFull(p)
    THEN [dir_page[p] EXCEPT ![npages[p] - 1].nxt_addr = hdr[p].fsiz + 1,
                             ![npages[p]] = NewPage(hdr[p].fsiz + 1)]
    ELSE dir_page[p]

\* The page k with the entry e added behind the others.
WithEntry(page, e) ==
    [page EXCEPT !.nent = @ + 1, !.entry[page.nent] = e]

\* The part of c_xdfput that adds a record of n units at the end of the file.  The
\* entries of "old", if any, are marked deleted on the way (c_xdfdel).
AddRecord(p, v, n, old) ==
    LET k     == PageFor(p)
        at    == SizeFor(p) + 1
        e     == [idtyp |-> LIVE, val |-> v, addr |-> at, lng |-> n]
        pages == [PagesFor(p) EXCEPT ![k] = WithEntry(@, e)]
    IN
    /\ k < MAX_DIR_PAGES
    /\ at + n - 1 <= MaxAddr                    \* bound
    /\ dir_page' = [dir_page EXCEPT ![p] =
          [i \in PageIdx |->
             [pages[i] EXCEPT !.entry =
                [s \in Slot |-> IF <<i, s>> \in old
                                THEN [@[s] EXCEPT !.idtyp = DELETED]
                                ELSE @[s]]]]]
    /\ npages' = [npages EXCEPT ![p] = k + 1]
    /\ pmod' = [pmod EXCEPT ![p] = @ \cup {npages[p] - 1, k} \cup {h[1] : h \in old}]
    /\ fmod' = [fmod EXCEPT ![p] = TRUE]
    /\ hdr' = [hdr EXCEPT ![p] =
          [rwflg |-> @.rwflg,
           fsiz  |-> at + n - 1,
           nbd   |-> IF LastFull(p) THEN @.nbd + 1 ELSE @.nbd,
           plst  |-> IF LastFull(p) THEN @.fsiz + 1 ELSE @.plst,
           nrec  |-> @.nrec - Cardinality(old) + 1,
           nxtn  |-> @.nxtn + 1,
           nbig  |-> Larger(n, @.nbig)]]
    /\ dcell' = [a \in Addr |->
          IF a \in Extent(e)
          THEN [idtyp |-> LIVE, val |-> v, addr |-> at, lng |-> n]
          ELSE IF LastFull(p) /\ a = hdr[p].fsiz + 1 THEN NewPage(a)
          ELSE dcell[a]]
    /\ dsize' = Larger(dsize, at + n - 1)
    /\ UNCHANGED <<dhdr, pc, aux>>

\* c_xdfput with a handle of 0.
PutNew(p, v, n) ==
    /\ pc[p] = "open" /\ CanWrite(p)
    /\ AddRecord(p, v, n, {})

\* c_xdfput with a handle when the record must move: the handle is negative, or
\* the new record has another length.
PutMove(p, h, v, n) ==
    /\ pc[p] = "open" /\ CanWrite(p) /\ hdr[p].rwflg # APPEND
    /\ Valid(p, h)
    /\ AddRecord(p, v, n, {h})

\* c_xdfput with a positive handle and a record of the same length: the record is
\* overwritten where it is.  c_xdfdel counts it out, c_xdfput counts it in again.
PutInPlaceOldKeys(p, h, v) ==                                         \* mutant
    /\ pc[p] = "open" /\ CanWrite(p) /\ hdr[p].rwflg # APPEND
    /\ Valid(p, h)
    /\ dcell' = [a \in Addr |->
          IF a \in Extent(dir_page[p][h[1]].entry[h[2]])
          THEN [dcell[a] EXCEPT !.val = v] ELSE dcell[a]]
    /\ UNCHANGED <<dhdr, dsize, pc, core, aux>>

PutInPlace(p, h, v) ==
    /\ pc[p] = "open" /\ CanWrite(p) /\ hdr[p].rwflg # APPEND
    /\ Valid(p, h)
    /\ LET e == dir_page[p][h[1]].entry[h[2]]
           r == [idtyp |-> LIVE, val |-> v, addr |-> e.addr, lng |-> e.lng]
       IN /\ dcell' = [a \in Addr |-> IF a \in Extent(e) THEN r ELSE dcell[a]]
          /\ dir_page' = [dir_page EXCEPT ![p][h[1]].entry[h[2]] = r]
    /\ pmod' = [pmod EXCEPT ![p] = @ \cup {h[1]}]
    /\ fmod' = [fmod EXCEPT ![p] = TRUE]
    /\ UNCHANGED <<dhdr, dsize, pc, hdr, npages, aux>>

\* c_xdfput at the end of the file when add_dir_page returns ERR_DIR_FULL.
PutDirFull(p) ==
    /\ pc[p] = "open" /\ CanWrite(p)
    /\ LastFull(p) /\ npages[p] >= MAX_DIR_PAGES
    /\ pmod' = [pmod EXCEPT ![p] = @ \cup {npages[p] - 1}]
    /\ UNCHANGED <<disk, pc, hdr, dir_page, npages, fmod, aux>>

\* c_xdfdel
DeleteUncounted(p, h) ==                                              \* mutant
    /\ pc[p] = "open" /\ CanWrite(p) /\ hdr[p].rwflg # APPEND
    /\ Valid(p, h)
    /\ dir_page' = [dir_page EXCEPT ![p][h[1]].entry[h[2]].idtyp = DELETED]
    /\ pmod' = [pmod EXCEPT ![p] = @ \cup {h[1]}]
    /\ fmod' = [fmod EXCEPT ![p] = TRUE]
    /\ UNCHANGED <<disk, pc, hdr, npages, aux>>

Delete(p, h) ==
    /\ pc[p] = "open" /\ CanWrite(p) /\ hdr[p].rwflg # APPEND
    /\ Valid(p, h)
    /\ dir_page' = [dir_page EXCEPT ![p][h[1]].entry[h[2]].idtyp = DELETED]
    /\ pmod' = [pmod EXCEPT ![p] = @ \cup {h[1]}]
    /\ hdr' = [hdr EXCEPT ![p].nrec = @ - 1]
    /\ fmod' = [fmod EXCEPT ![p] = TRUE]
    /\ UNCHANGED <<disk, pc, npages, aux>>

-----------------------------------------------------------------------------
\* Closing and checkpoint

\* c_xdfcls writes the header first, with the flag of the session still in it.
CloseBeginUnflagged(p, checkpoint) ==                                 \* mutant
    /\ pc[p] = "open"
    /\ dhdr' = IF CanWrite(p) THEN [hdr[p] EXCEPT !.rwflg = RDMODE] ELSE dhdr
    /\ ckpt' = [ckpt EXCEPT ![p] = checkpoint]
    /\ pc' = [pc EXCEPT ![p] = "flush"]
    /\ UNCHANGED <<dcell, dsize, core, wdaddr, fsize>>

CloseBegin(p, checkpoint) ==
    /\ pc[p] = "open"
    /\ dhdr' = IF CanWrite(p) THEN hdr[p] ELSE dhdr
    /\ ckpt' = [ckpt EXCEPT ![p] = checkpoint]
    /\ pc' = [pc EXCEPT ![p] = "flush"]
    /\ UNCHANGED <<dcell, dsize, core, wdaddr, fsize>>

\* The pages c_xdfcls has still to write, lowest first.
ToFlushButLast(p) == IF fmod[p] THEN {i \in pmod[p] : i < hdr[p].nbd - 1} ELSE {}  \* mutant
ToFlush(p) == IF fmod[p] THEN {i \in pmod[p] : i < hdr[p].nbd} ELSE {}
FlushNext(p, i) == i \in ToFlush(p) /\ \A k \in ToFlush(p) : i <= k
InCoreDeleted(p, i) ==
    {s \in Slot : /\ s < dir_page[p][i].nent
                  /\ dir_page[p][i].entry[s].idtyp = DELETED}

\* A record deleted in core is erased: its entry and its header on disk.
FlushEraseInCore(p, i) ==                                             \* mutant
    /\ pc[p] = "flush" /\ FlushNext(p, i)
    /\ \E s \in InCoreDeleted(p, i) :
          dir_page' = [dir_page EXCEPT ![p][i].entry[s].idtyp = ERASED]
    /\ UNCHANGED <<disk, pc, hdr, npages, pmod, fmod, aux>>

FlushErase(p, i) ==
    /\ pc[p] = "flush" /\ FlushNext(p, i)
    /\ \E s \in InCoreDeleted(p, i) :
          LET e == dir_page[p][i].entry[s] IN
          /\ \A t \in InCoreDeleted(p, i) : s <= t
          /\ dir_page' = [dir_page EXCEPT ![p][i].entry[s].idtyp = ERASED]
          /\ dcell' = [dcell EXCEPT ![e.addr] =
                [idtyp |-> ERASED, val |-> e.val, addr |-> e.addr, lng |-> e.lng]]
    /\ UNCHANGED <<dhdr, dsize, pc, hdr, npages, pmod, fmod, aux>>

\* Then the page is written at its own address.
FlushPage(p, i) ==
    /\ pc[p] = "flush" /\ FlushNext(p, i)
    /\ InCoreDeleted(p, i) = {}
    /\ dcell' = [dcell EXCEPT ![dir_page[p][i].addr] = dir_page[p][i]]
    /\ pmod' = [pmod EXCEPT ![p] = @ \ {i}]
    /\ UNCHANGED <<dhdr, dsize, pc, hdr, dir_page, npages, fmod, aux>>

\* After the pages: a checkpoint leaves the file open, a close writes the header
\* again with a flag of 0 and frees the entry of the file table.
CheckpointEnd(p) ==
    /\ pc[p] = "flush" /\ ckpt[p] /\ ToFlush(p) = {}
    /\ fmod' = [fmod EXCEPT ![p] = FALSE]
    /\ ckpt' = [ckpt EXCEPT ![p] = FALSE]
    /\ pc' = [pc EXCEPT ![p] = "open"]
    /\ UNCHANGED <<disk, hdr, dir_page, npages, pmod, wdaddr, fsize>>

CloseEnd(p) ==
    /\ pc[p] = "flush" /\ ~ckpt[p] /\ ToFlush(p) = {}
    /\ dhdr' = IF CanWrite(p) THEN [hdr[p] EXCEPT !.rwflg = RDMODE] ELSE dhdr
    /\ pc' = [pc EXCEPT ![p] = "closed"]
    /\ Forget(p)
    /\ UNCHANGED <<dcell, dsize>>

\* c_xdfcls finds the entry a refused open left behind and treats it like any other.
CloseRefused(p) ==
    /\ p \in ClosesRefused
    /\ pc[p] = "refused"
    /\ dhdr' = IF CanWrite(p) THEN [hdr[p] EXCEPT !.rwflg = RDMODE] ELSE dhdr
    /\ pc' = [pc EXCEPT ![p] = "closed"]
    /\ Forget(p)
    /\ UNCHANGED <<dcell, dsize>>

\* The process ends, in the middle of anything: what it wrote stays.
Crash(p) ==
    /\ MayCrash /\ pc[p] # "closed"
    /\ pc' = [pc EXCEPT ![p] = "closed"]
    /\ Forget(p)
    /\ UNCHANGED disk

-----------------------------------------------------------------------------
Next ==
    \E p \in Procs :
        \/ Create(p)
        \/ \E mode \in {RDMODE, RWMODE, APPEND} : Open(p, mode)
        \/ LoadPage(p)
        \/ \E v \in Vals, n \in Lens : PutNew(p, v, n)
        \/ \E h \in Handles, v \in Vals, n \in Lens : PutMove(p, h, v, n)
        \/ \E h \in Handles, v \in Vals : PutInPlace(p, h, v)
        \/ PutDirFull(p)
        \/ \E h \in Handles : Delete(p, h)
        \/ \E checkpoint \in BOOLEAN : CloseBegin(p, checkpoint)
        \/ \E i \in PageIdx : FlushErase(p, i) \/ FlushPage(p, i)
        \/ CheckpointEnd(p)
        \/ CloseEnd(p)
        \/ CloseRefused(p)
        \/ Crash(p)

Spec == Init /\ [][Next]_vars

-----------------------------------------------------------------------------
(* Types *)

\* Type correctness of the disk and of every process's entry of the file table.
TypeOK ==
    /\ dhdr \in Header
    /\ dcell \in [Addr -> RecUnit \cup Page \cup {Blank}]
    /\ dsize \in Nat
    /\ pc \in [Procs -> {"closed", "loading", "open", "flush", "refused"}]
    /\ hdr \in [Procs -> Header]
    /\ dir_page \in [Procs -> [PageIdx -> Page]]
    /\ npages \in [Procs -> 0 .. MAX_DIR_PAGES]
    /\ pmod \in [Procs -> SUBSET PageIdx]
    /\ fmod \in [Procs -> BOOLEAN]
    /\ wdaddr \in [Procs -> Int]
    /\ fsize \in [Procs -> Nat]
    /\ ckpt \in [Procs -> BOOLEAN]

-----------------------------------------------------------------------------
(* What a directory of n pages D says *)

EntryOf(D, h) == D[h[1]].entry[h[2]]
Used(D, n) == {h \in Handles : h[1] < n /\ EntryOf(D, h).idtyp # SPECIAL}
Live(D, n) == {h \in Handles : h[1] < n /\ EntryOf(D, h).idtyp = LIVE}

\* Pages and records share no unit of the file, and none lies beyond its size.
LaidOut(D, n, size) ==
    /\ \A i \in 0 .. n - 1 : D[i].addr \in 2 .. size
    /\ \A i, k \in 0 .. n - 1 : D[i].addr = D[k].addr => i = k
    /\ \A h \in Used(D, n) :
          LET e == EntryOf(D, h) IN
          /\ e.addr >= 2 /\ e.lng \in Lens /\ e.addr + e.lng - 1 <= size
          /\ \A i \in 0 .. n - 1 : D[i].addr \notin Extent(e)
          /\ \A g \in Used(D, n) :
                g # h => \/ e.addr + e.lng <= EntryOf(D, g).addr
                         \/ EntryOf(D, g).addr + EntryOf(D, g).lng <= e.addr

\* The file holds, where the entry e says, the units of a record of that address and
\* length.
OnDisk(e) ==
    \A a \in Extent(e) : /\ a \in Addr
                         /\ dcell[a] \in RecUnit
                         /\ dcell[a].addr = e.addr /\ dcell[a].lng = e.lng

\* Pages are filled in order, slots of a page too.
Filled(D, n) ==
    /\ \A i \in 0 .. n - 1, s \in Slot :
          (D[i].entry[s].idtyp # SPECIAL) <=> s < D[i].nent
    /\ \A i \in 0 .. n - 2 : D[i].nent = ENTRIES_PER_PAGE

\* The counters a header keeps of its directory.
Counted(H, D, n) ==
    /\ H.nbd = n
    /\ H.nrec = Cardinality(Live(D, n))
    /\ H.nxtn = Cardinality(Used(D, n))
    /\ n > 0 => H.plst = D[n - 1].addr
    /\ \A h \in Used(D, n) : EntryOf(D, h).lng <= H.nbig
    /\ H.nbig > 0 => \E h \in Used(D, n) : EntryOf(D, h).lng = H.nbig

\* The pages of D are linked by address, the last one ends the chain.
Linked(D, n) ==
    \A i \in 0 .. n - 1 : D[i].nxt_addr = IF i = n - 1 THEN 0 ELSE D[i + 1].addr

Consistent(H, D, n) ==
    /\ n > 0 /\ D[0].addr = 2
    /\ Linked(D, n)
    /\ Filled(D, n)
    /\ Counted(H, D, n)
    /\ LaidOut(D, n, H.fsiz)
    /\ \A h \in Used(D, n) : OnDisk(EntryOf(D, h))

Writing(p) == pc[p] \in {"open", "flush"} /\ CanWrite(p)

\* A process that may write has a directory in core that agrees with its header and
\* with the file: what c_xdfput and c_xdfdel maintain one counter at a time, through
\* rewrites in place, moves, page overflows, checkpoints and reopenings.
WriterConsistent ==
    \A p \in Procs : Writing(p) => Consistent(hdr[p], dir_page[p], npages[p])

\* The directory on disk, page by page along the chain.
DiskPages == {a \in Addr : dcell[a] \in Page}
DiskDir(c) == [i \in DOMAIN c |-> dcell[c[i]]]

\* A file that c_xdfopn would open for writing (no flag, at least one page) has a
\* complete directory on disk that agrees with its header, whenever the process that
\* wrote it died: appends go beyond the announced size, pages are only written between
\* the two writes of the header.
OpenableIsConsistent ==
    dhdr.rwflg = RDMODE /\ dhdr.nbd > 0 =>
        \E c \in [0 .. dhdr.nbd - 1 -> DiskPages] :
            Consistent(dhdr, DiskDir(c), dhdr.nbd)

\* What a process reads through its directory is a record, the one that was written
\* there with that length, also when another process writes the file meanwhile or died
\* doing it: no unit of a record is ever reused for something else.
ReadersSeeRecords ==
    \A p \in Procs : pc[p] \in {"loading", "open"} =>
        \A h \in Used(dir_page[p], npages[p]) : OnDisk(EntryOf(dir_page[p], h))

\* A process that may write reads back what it or an earlier session last put under a
\* handle: keys in its directory and data on disk stay together, unless an earlier
\* writer died after a rewrite in place (checked without crashes).
WriterReadsBack ==
    \A p \in Procs : Writing(p) =>
        \A h \in Live(dir_page[p], npages[p]) :
            LET e == EntryOf(dir_page[p], h) IN
            \A a \in Extent(e) : dcell[a].val = e.val

\* At most one process has the file open for writing.
OneWriter ==
    \A p, q \in Procs : Writing(p) /\ Writing(q) => p = q

\* The flag that keeps other writers out goes away only when the process that set it
\* closes the file.
FlagClearedByOwner ==
    [][dhdr.rwflg # RDMODE /\ dhdr'.rwflg = RDMODE =>
         \E p \in Procs : Writing(p) /\ pc'[p] = "closed"]_vars

\* A chain of directory pages that ends before the nbd pages of the header is reported
\* ("number of directory pages is incorrect"): a file that is open has all its pages.
ChainComplete ==
    \A p \in Procs : pc[p] = "open" =>
        \A i \in 0 .. npages[p] - 2 : dir_page[p][i].nxt_addr # 0

=============================================================================
