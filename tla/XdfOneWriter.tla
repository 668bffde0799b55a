---------------------------- MODULE XdfOneWriter ----------------------------
(***************************************************************************)
(* The inductive invariant behind WriterConsistent and OpenableIsConsistent *)
(* of XdfFile, for files one process writes at a time.                      *)
(***************************************************************************)
EXTENDS XdfFile

\* The sessions the code leaves to its users: one process at most may write the file, and
\* it does not close a unit whose open was refused.
OneWriterOnly ==
    /\ \A p, q \in Writers : p = q
    /\ ClosesRefused \cap Writers = {}

\* Pages know where they are.
SelfAddressed == \A a \in Addr : dcell[a] \in Page => dcell[a].addr = a

\* No header announces more than the file holds, and a file without header is empty.
SizesKnown ==
    /\ dhdr.fsiz <= dsize
    /\ dhdr.fsiz = 0 => dsize = 0
    /\ \A p \in Procs : hdr[p].fsiz <= dsize

\* Only the session of a writer is modified, and an entry of the file table that is free
\* has no page.
EntriesClean ==
    \A p \in Procs : /\ fmod[p] => Writing(p)
                     /\ pc[p] = "closed" => npages[p] = 0

\* A page of the writer is on disk as it is in core, or waits to be written.
Imaged(p) ==
    \A i \in 0 .. npages[p] - 1 :
        \/ dcell[dir_page[p][i].addr] = dir_page[p][i]
        \/ fmod[p] /\ i \in pmod[p]

\* The chain of pages c on disk is a whole directory for the header on disk.
WholeChain(c) == Consistent(dhdr, DiskDir(c), dhdr.nbd)

\* A session for writing: its directory is consistent and its pages have their images;
\* as long as the file on disk is open to others, the session only extends it; no page is
\* written before the flag is.
SessionInv(p) ==
    /\ Consistent(hdr[p], dir_page[p], npages[p])
    /\ Imaged(p)
    /\ dhdr.rwflg = RDMODE => dhdr.fsiz <= hdr[p].fsiz
    /\ pc[p] = "flush" => dhdr.rwflg # RDMODE

\* A session for writing that is being opened: what it has read is the beginning of the
\* chain, and it is about to read the next page of it.
LoadingInv(p) ==
    /\ dhdr.rwflg = RDMODE
    /\ hdr[p] = [dhdr EXCEPT !.rwflg = hdr[p].rwflg]
    /\ dhdr.fsiz <= fsize[p]
    /\ npages[p] < dhdr.nbd
    /\ \E c \in [0 .. dhdr.nbd - 1 -> DiskPages] :
          /\ WholeChain(c)
          /\ \A i \in 0 .. npages[p] - 1 : dir_page[p][i] = dcell[c[i]]
          /\ wdaddr[p] = 2 * c[npages[p]] - 1

OneWriterInv ==
    /\ SelfAddressed
    /\ SizesKnown
    /\ EntriesClean
    /\ OpenableIsConsistent
    /\ \A p \in Procs : Writing(p) => SessionInv(p)
    /\ \A p \in Procs : pc[p] = "loading" /\ CanWrite(p) => LoadingInv(p)
-----------------------------------------------------------------------------
(* What those who do not write rely on.                                    *)

\* An entry that may be followed: a whole record below the announced size.
Sound(e) ==
    /\ e.addr \in Addr /\ e.lng \in Lens /\ e.addr + e.lng - 1 <= dhdr.fsiz
    /\ OnDisk(e)

\* Every entry on disk is sound, also those of pages no chain leads to.
PagesSound ==
    \A a \in DiskPages, s \in Slot :
        dcell[a].entry[s].idtyp # SPECIAL => Sound(dcell[a].entry[s])

\* So is every entry that was read from disk.
ReadersSound ==
    \A p \in Procs : ~Writing(p) =>
        \A h \in Used(dir_page[p], npages[p]) : Sound(EntryOf(dir_page[p], h))

\* The header of a session announces at least what the one on disk does, and no more once
\* pages are written; the places of its pages hold pages.
WritersAhead ==
    \A p \in Procs : Writing(p) =>
        /\ dhdr.fsiz <= hdr[p].fsiz
        /\ pc[p] = "flush" => hdr[p].fsiz = dhdr.fsiz
        /\ \A i \in 0 .. npages[p] - 1 : dir_page[p][i].addr \in DiskPages

ReadersInv == PagesSound /\ ReadersSound /\ WritersAhead

\* The unit of a record below the announced size stays that of a record of the same place
\* and length, whoever writes or dies.
RecordsKept ==
    /\ dhdr.fsiz <= dhdr'.fsiz
    /\ \A a \in Addr : a <= dhdr.fsiz /\ dcell[a] \in RecUnit =>
          /\ dcell'[a] \in RecUnit
          /\ dcell'[a].addr = dcell[a].addr /\ dcell'[a].lng = dcell[a].lng

-----------------------------------------------------------------------------
(* What a session knows of the file it has not locked yet.                 *)

\* The entry on disk under the writer's handle h.
OldEntry(p, h) == dcell[dir_page[p][h[1]].addr].entry[h[2]]

\* The first pages of the directory in core are those of the chain on disk.  What is used
\* there is used in core, at the same place; what is used in core only was added behind
\* the announced size; what is live in core was not deleted on disk.
Shadow(p) ==
    /\ dhdr.nbd <= npages[p]
    /\ \E c \in [0 .. dhdr.nbd - 1 -> DiskPages] :
          WholeChain(c) /\ \A i \in 0 .. dhdr.nbd - 1 : c[i] = dir_page[p][i].addr
    /\ \A h \in Handles :
          h[1] < dhdr.nbd /\ OldEntry(p, h).idtyp # SPECIAL =>
              LET e == EntryOf(dir_page[p], h) IN
              /\ e.idtyp # SPECIAL
              /\ e.addr = OldEntry(p, h).addr /\ e.lng = OldEntry(p, h).lng
              /\ e.idtyp = LIVE => OldEntry(p, h).idtyp = LIVE
    /\ \A h \in Used(dir_page[p], npages[p]) :
          h[1] >= dhdr.nbd \/ OldEntry(p, h).idtyp = SPECIAL =>
              EntryOf(dir_page[p], h).addr > dhdr.fsiz

SessionsShadow ==
    \A p \in Procs : Writing(p) /\ dhdr.rwflg = RDMODE /\ dhdr.nbd > 0 => Shadow(p)

\* All of it.
SharedInv == OneWriterInv /\ ReadersInv /\ SessionsShadow
=============================================================================
