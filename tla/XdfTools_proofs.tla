---------------------------- MODULE XdfTools_proofs ----------------------------
(***************************************************************************)
(* A file that one process at a time writes implements RecordStore, and    *)
(* without crashes a writer reads back what was written (StoreImplemented, *)
(* SharedStays, WriterAlwaysReadsBack).  What its header says is what a    *)
(* scan of its records finds: CheckedIsDiagnosed, RestoresOriginal and     *)
(* ClosedIsSound.                                                          *)
(***************************************************************************)
EXTENDS XdfTools, XdfStore, XdfFile_proofs

\* What a whole chain says of its pages: the first is behind the header, each one knows
\* the address of the next.
LEMMA ChainFacts ==
    ASSUME TypeOK, SelfAddressed, NEW c \in [0 .. dhdr.nbd - 1 -> DiskPages], WholeChain(c)
    PROVE  /\ dhdr.nbd \in Nat \ {0} /\ dhdr.fsiz \in Nat /\ dhdr.fsiz >= 2
           /\ c[0] = 2
           /\ \A i \in 0 .. dhdr.nbd - 1 :
                 /\ c[i] \in Addr /\ dcell[c[i]] \in Page /\ dcell[c[i]].addr = c[i]
                 /\ c[i] <= dhdr.fsiz
           /\ \A i \in 0 .. dhdr.nbd - 2 : dcell[c[i]].nxt_addr = c[i + 1]
<1>1. dhdr.nbd \in Nat /\ dhdr.fsiz \in Nat
  BY FieldType DEF TypeOK
<1>2. \A i \in 0 .. dhdr.nbd - 1 :
         c[i] \in Addr /\ dcell[c[i]] \in Page /\ dcell[c[i]].addr = c[i]
  BY DEF SelfAddressed, DiskPages
<1>3. PICK D : D = DiskDir(c)
  OBVIOUS
<1>4. \A i \in 0 .. dhdr.nbd - 1 : D[i] = dcell[c[i]]
  BY <1>3 DEF DiskDir
<1>5. Consistent(dhdr, D, dhdr.nbd)
  BY <1>3 DEF WholeChain
<1>6. /\ dhdr.nbd > 0 /\ D[0].addr = 2
      /\ \A i \in 0 .. dhdr.nbd - 1 :
            D[i].nxt_addr = IF i = dhdr.nbd - 1 THEN 0 ELSE D[i + 1].addr
      /\ \A i \in 0 .. dhdr.nbd - 1 : D[i].addr \in 2 .. dhdr.fsiz
  BY <1>5 DEF Consistent, Linked, LaidOut
<1>7. \A i \in 0 .. dhdr.nbd - 1 : c[i] \in 2 .. dhdr.fsiz
  BY <1>2, <1>4, <1>6
<1>8. 0 \in 0 .. dhdr.nbd - 1
  BY <1>1, <1>6
<1>9. c[0] = 2 /\ dhdr.fsiz >= 2
  BY <1>1, <1>2, <1>4, <1>6, <1>7, <1>8
<1>10. \A i \in 0 .. dhdr.nbd - 2 : dcell[c[i]].nxt_addr = c[i + 1]
  <2> TAKE i \in 0 .. dhdr.nbd - 2
  <2>1. i \in 0 .. dhdr.nbd - 1 /\ i + 1 \in 0 .. dhdr.nbd - 1 /\ i # dhdr.nbd - 1
    BY <1>1
  <2> QED
    BY <1>2, <1>4, <1>6, <2>1
<1>11. \A i \in 0 .. dhdr.nbd - 1 : c[i] <= dhdr.fsiz
  BY <1>1, <1>7
<1>12. QED
  BY <1>1, <1>2, <1>6, <1>9, <1>10, <1>11

\* There is one chain at most: the first page is always at the same place.
LEMMA ChainUnique ==
    ASSUME TypeOK, SelfAddressed,
           NEW c \in [0 .. dhdr.nbd - 1 -> DiskPages], WholeChain(c),
           NEW d \in [0 .. dhdr.nbd - 1 -> DiskPages], WholeChain(d)
    PROVE  c = d
<1> DEFINE Differ == {i \in 0 .. dhdr.nbd - 1 : c[i] # d[i]}
<1>1. dhdr.nbd \in Nat \ {0}
  BY ChainFacts
<1>2. c[0] = 2 /\ d[0] = 2
  BY ChainFacts
<1>3. \A i \in 0 .. dhdr.nbd - 2 :
         dcell[c[i]].nxt_addr = c[i + 1] /\ dcell[d[i]].nxt_addr = d[i + 1]
  <2>1. \A i \in 0 .. dhdr.nbd - 2 : dcell[c[i]].nxt_addr = c[i + 1]
    BY ChainFacts
  <2>2. \A i \in 0 .. dhdr.nbd - 2 : dcell[d[i]].nxt_addr = d[i + 1]
    BY ChainFacts
  <2>3. QED
    BY <2>1, <2>2
<1>4. ASSUME Differ # {} PROVE FALSE
  <2>1. Differ \in SUBSET Nat
    BY <1>1
  <2>2. PICK m \in Differ : \A k \in Differ : m <= k
    <3> HIDE DEF Differ
    <3> QED
      BY <1>4, <2>1, LeastElement
  <2>3. m \in 0 .. dhdr.nbd - 1 /\ c[m] # d[m]
    BY <2>2
  <2>4. m # 0
    BY <1>2, <2>3
  <2>5. m - 1 \in 0 .. dhdr.nbd - 2 /\ m - 1 \in 0 .. dhdr.nbd - 1 /\ (m - 1) + 1 = m
        /\ ~(m <= m - 1)
    BY <1>1, <2>3, <2>4
  <2>6. c[m - 1] = d[m - 1]
    BY <2>2, <2>5
  <2>7. c[(m - 1) + 1] = d[(m - 1) + 1]
    BY <1>3, <2>5, <2>6
  <2>8. QED
    BY <2>3, <2>5, <2>7
<1>5. \A i \in 0 .. dhdr.nbd - 1 : c[i] = d[i]
  BY <1>4
<1>6. /\ c = [i \in 0 .. dhdr.nbd - 1 |-> c[i]]
      /\ d = [i \in 0 .. dhdr.nbd - 1 |-> d[i]]
  OBVIOUS
<1>7. QED
  BY <1>5, <1>6

-----------------------------------------------------------------------------
(* What the abstract variables are, in states and after steps.             *)

\* The records the directory D of n pages describes, with the data in "cells".
RecordsIn(cells, D, n) ==
    [h \in Live(D, n) |-> [key  |-> EntryOf(D, h).val,
                           data |-> cells[EntryOf(D, h).addr].val]]

\* The view is that of the process that writes.
ViewKnown ==
    /\ \A p \in Procs : Writing(p) =>
          ViewOf = Store!Session(RecordsIn(dcell, dir_page[p], npages[p]))
    /\ (\A p \in Procs : ~Writing(p)) => ViewOf = Store!NoSession

\* The file is what the flag and the only chain of pages say.
SavedKnown ==
    TypeOK /\ SelfAddressed =>
        /\ dhdr.fsiz = 0 => SavedOf = [state |-> "empty", recs |-> Store!NoRecords]
        /\ dhdr.fsiz # 0 /\ (dhdr.rwflg # RDMODE \/ dhdr.nbd = 0) => SavedOf = Store!Locked
        /\ dhdr.rwflg = RDMODE =>
              \A c \in [0 .. dhdr.nbd - 1 -> DiskPages] :
                  WholeChain(c) =>
                     SavedOf = Store!Whole(RecordsIn(dcell, DiskDir(c), dhdr.nbd))

\* One process at most writes, so the view is determined.
LEMMA ViewDetermined ==
    ASSUME OneWriterOnly
    PROVE  ViewKnown
<1>1. ASSUME NEW p \in Procs, Writing(p)
      PROVE  ViewOf = Store!Session(RecordsIn(dcell, dir_page[p], npages[p]))
  <2>1. \A q \in Procs : Writing(q) => q = p
    BY <1>1 DEF OneWriterOnly, Writing, CanWrite
  <2>2. (CHOOSE q \in Procs : Writing(q)) = p
    BY <1>1, <2>1
  <2>3. \E q \in Procs : Writing(q)
    BY <1>1
  <2>4. ViewOf = [on |-> TRUE, recs |-> RecordsOf(dir_page[p], npages[p])]
    BY <2>2, <2>3 DEF ViewOf
  <2>5. RecordsOf(dir_page[p], npages[p]) = RecordsIn(dcell, dir_page[p], npages[p])
    BY DEF RecordsOf, RecordsIn
  <2>6. QED
    BY <2>4, <2>5 DEF Store!Session
<1>2. ASSUME \A p \in Procs : ~Writing(p) PROVE ViewOf = Store!NoSession
  <2>1. ~\E q \in Procs : Writing(q)
    BY <1>2
  <2>2. QED
    BY <2>1 DEF ViewOf, Store!NoSession, Store!NoRecords
<1>3. QED
  BY <1>1, <1>2 DEF ViewKnown

\* One chain at most is whole, so what is saved is determined.
LEMMA SavedDetermined == SavedKnown
<1> SUFFICES ASSUME TypeOK, SelfAddressed
    PROVE  /\ dhdr.fsiz = 0 => SavedOf = [state |-> "empty", recs |-> Store!NoRecords]
           /\ dhdr.fsiz # 0 /\ (dhdr.rwflg # RDMODE \/ dhdr.nbd = 0) => SavedOf = Store!Locked
           /\ dhdr.rwflg = RDMODE =>
                 \A c \in [0 .. dhdr.nbd - 1 -> DiskPages] :
                     WholeChain(c) =>
                        SavedOf = Store!Whole(RecordsIn(dcell, DiskDir(c), dhdr.nbd))
  BY DEF SavedKnown
<1>1. dhdr.fsiz = 0 => SavedOf = [state |-> "empty", recs |-> Store!NoRecords]
  BY DEF SavedOf, Store!NoRecords
<1>2. dhdr.fsiz # 0 /\ (dhdr.rwflg # RDMODE \/ dhdr.nbd = 0) => SavedOf = Store!Locked
  BY DEF SavedOf, Store!Locked, Store!NoRecords
<1>3. ASSUME dhdr.rwflg = RDMODE, NEW c \in [0 .. dhdr.nbd - 1 -> DiskPages], WholeChain(c)
      PROVE  SavedOf = Store!Whole(RecordsIn(dcell, DiskDir(c), dhdr.nbd))
  <2>1. dhdr.fsiz # 0 /\ dhdr.nbd # 0
    BY <1>3, ChainFacts
  <2>2. c \in Chains
    BY <1>3 DEF Chains, WholeChain
  <2>3. \A d \in Chains : d = c
    <3> TAKE d \in Chains
    <3>1. d \in [0 .. dhdr.nbd - 1 -> DiskPages] /\ WholeChain(d)
      BY DEF Chains, WholeChain
    <3>2. QED
      BY <1>3, <3>1, ChainUnique
  <2>4. (CHOOSE d \in Chains : TRUE) = c /\ Chains # {}
    BY <2>2, <2>3
  <2>5. SavedOf = [state |-> "whole", recs |-> RecordsOf(DiskDir(c), dhdr.nbd)]
    BY <1>3, <2>1, <2>4 DEF SavedOf
  <2>6. RecordsOf(DiskDir(c), dhdr.nbd) = RecordsIn(dcell, DiskDir(c), dhdr.nbd)
    BY DEF RecordsOf, RecordsIn
  <2>7. QED
    BY <2>5, <2>6 DEF Store!Whole
<1>4. QED
  BY <1>1, <1>2, <1>3


\* So they are after a step.
LEMMA KnownNext ==
    ASSUME OneWriterOnly
    PROVE  ViewKnown' /\ SavedKnown'
<1>1. ViewKnown
  BY ViewDetermined
<1>2. SavedKnown
  BY SavedDetermined
<1>3. QED
  BY <1>1, <1>2, PTL

-----------------------------------------------------------------------------
(* What a session knows of the file it has not locked yet.                 *)

\* A session that neither writes below the announced size nor loses an entry still covers
\* the directory on disk.
LEMMA ShadowKept ==
    ASSUME TypeOK, TypeOK', SelfAddressed, NEW p \in Procs, Shadow(p), dhdr' = dhdr,
           \A a \in Addr : a <= dhdr.fsiz => SameUnit(a),
           npages[p] <= npages'[p],
           \A i \in 0 .. npages[p] - 1 : dir_page'[p][i].addr = dir_page[p][i].addr,
           \A h \in Used(dir_page[p], npages[p]) :
              LET d == EntryOf(dir_page[p], h)
                  e == EntryOf(dir_page'[p], h)
              IN /\ h \in Used(dir_page'[p], npages'[p])
                 /\ e.addr = d.addr /\ e.lng = d.lng
                 /\ e.idtyp = LIVE => d.idtyp = LIVE,
           \A h \in Used(dir_page'[p], npages'[p]) :
              \/ h \in Used(dir_page[p], npages[p])
              \/ EntryOf(dir_page'[p], h).addr > dhdr.fsiz
    PROVE  Shadow(p)'
<1>1. PICK c \in [0 .. dhdr.nbd - 1 -> DiskPages] :
         WholeChain(c) /\ \A i \in 0 .. dhdr.nbd - 1 : c[i] = dir_page[p][i].addr
  BY DEF Shadow
<1>2. /\ c \in [0 .. dhdr'.nbd - 1 -> DiskPages'] /\ WholeChain(c)'
      /\ \A i \in 0 .. dhdr.nbd - 1 : dcell'[c[i]] = dcell[c[i]]
  BY <1>1, ChainKept
<1>3. /\ dhdr.nbd \in Nat /\ npages[p] \in Nat /\ npages'[p] \in Nat
      /\ dhdr.nbd <= npages[p] /\ dhdr'.nbd <= npages'[p]
  BY FieldType DEF TypeOK, Shadow
<1>4. \A i \in 0 .. dhdr.nbd - 1 : i \in 0 .. npages[p] - 1
  BY <1>3
<1>5. \A i \in 0 .. dhdr.nbd - 1 : /\ c[i] = dir_page[p][i].addr
                                   /\ c[i] = dir_page'[p][i].addr
                                   /\ dcell'[c[i]] = dcell[c[i]]
  BY <1>1, <1>2, <1>4
<1>6. \A h \in Handles : h[1] < dhdr.nbd => h[1] \in 0 .. dhdr.nbd - 1 /\ h[1] < npages[p]
  BY <1>3 DEF Handles, PageIdx
<1>7. \A h \in Handles : h[1] < dhdr.nbd => OldEntry(p, h)' = OldEntry(p, h)
  BY <1>5, <1>6 DEF OldEntry
<1>8. ASSUME NEW h \in Handles, h[1] < dhdr.nbd, OldEntry(p, h).idtyp # SPECIAL
      PROVE  /\ EntryOf(dir_page'[p], h).idtyp # SPECIAL
             /\ EntryOf(dir_page'[p], h).addr = OldEntry(p, h).addr
             /\ EntryOf(dir_page'[p], h).lng = OldEntry(p, h).lng
             /\ EntryOf(dir_page'[p], h).idtyp = LIVE => OldEntry(p, h).idtyp = LIVE
  <2>1. /\ EntryOf(dir_page[p], h).idtyp # SPECIAL
        /\ EntryOf(dir_page[p], h).addr = OldEntry(p, h).addr
        /\ EntryOf(dir_page[p], h).lng = OldEntry(p, h).lng
        /\ EntryOf(dir_page[p], h).idtyp = LIVE => OldEntry(p, h).idtyp = LIVE
    BY <1>8 DEF Shadow
  <2>2. h \in Used(dir_page[p], npages[p])
    BY <1>6, <1>8, <2>1 DEF Used
  <2>3. h \in Used(dir_page'[p], npages'[p])
    BY <2>2
  <2>4. EntryOf(dir_page'[p], h).idtyp # SPECIAL
    BY <2>3 DEF Used
  <2>5. QED
    BY <2>1, <2>2, <2>4
<1>9. ASSUME NEW h \in Used(dir_page'[p], npages'[p]),
             h[1] >= dhdr.nbd \/ OldEntry(p, h)'.idtyp = SPECIAL
      PROVE  EntryOf(dir_page'[p], h).addr > dhdr.fsiz
  <2>1. h \in Handles /\ h[1] \in Nat
    BY <1>9 DEF Used, Handles, PageIdx
  <2>2. CASE h \in Used(dir_page[p], npages[p])
    <3>1. h[1] >= dhdr.nbd \/ OldEntry(p, h).idtyp = SPECIAL
      BY <1>3, <1>7, <1>9, <2>1
    <3>2. EntryOf(dir_page[p], h).addr > dhdr.fsiz
      BY <2>2, <3>1 DEF Shadow
    <3>3. QED
      BY <2>2, <3>2
  <2>3. QED
    BY <2>2
<1>10. /\ \E d \in [0 .. dhdr'.nbd - 1 -> DiskPages'] :
             WholeChain(d)' /\ \A i \in 0 .. dhdr'.nbd - 1 : d[i] = dir_page'[p][i].addr
  BY <1>2, <1>5, Zenon
<1>11. \A h \in Handles :
          h[1] < dhdr'.nbd /\ OldEntry(p, h)'.idtyp # SPECIAL =>
              LET e == EntryOf(dir_page'[p], h) IN
              /\ e.idtyp # SPECIAL
              /\ e.addr = OldEntry(p, h)'.addr /\ e.lng = OldEntry(p, h)'.lng
              /\ e.idtyp = LIVE => OldEntry(p, h)'.idtyp = LIVE
  BY <1>7, <1>8
<1>12. \A h \in Used(dir_page'[p], npages'[p]) :
          h[1] >= dhdr'.nbd \/ OldEntry(p, h)'.idtyp = SPECIAL =>
              EntryOf(dir_page'[p], h).addr > dhdr'.fsiz
  BY <1>9
<1>13. QED
  BY <1>3, <1>10, <1>11, <1>12 DEF Shadow, Used, EntryOf


\* One that is left alone does.
LEMMA SameShadow ==
    ASSUME TypeOK, TypeOK', OneWriterInv, NEW p \in Procs, dhdr' = dhdr, dcell' = dcell,
           dir_page'[p] = dir_page[p], npages'[p] = npages[p]
    PROVE  Shadow(p) => Shadow(p)'
<1>1. \A a \in Addr : SameUnit(a)
  BY DEF SameUnit
<1>2. npages[p] <= npages'[p] /\ SelfAddressed
  BY DEF TypeOK, OneWriterInv
<1>3. QED
  BY <1>1, <1>2, ShadowKept

\* Only the session of the process that steps can need a new look.
LEMMA ShadowAssembled ==
    ASSUME TypeOK, TypeOK', OneWriterOnly, OneWriterInv, SessionsShadow, NEW p \in Procs,
           OnlyEntry(p), UNCHANGED disk \/ p \in Writers,
           Writing(p)' /\ dhdr'.rwflg = RDMODE /\ dhdr'.nbd > 0 => Shadow(p)'
    PROVE  SessionsShadow'
<1>1. ASSUME NEW q \in Procs, q # p, Writing(q)', dhdr'.rwflg = RDMODE, dhdr'.nbd > 0
      PROVE  Shadow(q)'
  <2>1. /\ pc'[q] = pc[q] /\ hdr'[q] = hdr[q] /\ dir_page'[q] = dir_page[q]
        /\ npages'[q] = npages[q]
    BY <1>1 DEF OnlyEntry
  <2>2. Writing(q) /\ q \in Writers
    BY <1>1, <2>1 DEF Writing, CanWrite
  <2>3. UNCHANGED disk
    BY <1>1, <2>2 DEF OneWriterOnly
  <2>4. dhdr' = dhdr /\ dcell' = dcell
    BY <2>3 DEF disk
  <2>5. Shadow(q)
    BY <1>1, <2>2, <2>4 DEF SessionsShadow
  <2>6. QED
    BY <2>1, <2>4, <2>5, SameShadow
<1>2. QED
  BY <1>1 DEF SessionsShadow

\* A session that is just opened has read the directory on disk.
LEMMA LoadedShadow ==
    ASSUME TypeOK, TypeOK', OneWriterOnly, OneWriterInv, SessionsShadow, NEW p \in Procs,
           LoadPage(p)
    PROVE  SessionsShadow'
<1>1. OnlyEntry(p) /\ UNCHANGED disk
  BY ZenonT(60) DEF LoadPage, OnlyEntry, TypeOK
<1>2. ASSUME Writing(p)' PROVE Shadow(p)'
  <2>1. Loaded(p)
    BY <1>2, LoadPageFacts DEF Writing
  <2>2. PICK c \in [0 .. dhdr.nbd - 1 -> DiskPages] :
           WholeChain(c) /\ \A i \in 0 .. dhdr.nbd - 1 : dir_page'[p][i] = dcell[c[i]]
    BY <2>1 DEF Loaded
  <2>3. dhdr' = dhdr /\ dcell' = dcell /\ npages'[p] = dhdr.nbd /\ dhdr.nbd \in Nat
    BY <1>1, <2>1, FieldType DEF disk, Loaded, TypeOK
  <2>4. c \in [0 .. dhdr'.nbd - 1 -> DiskPages'] /\ WholeChain(c)'
    BY <1>1, <2>2, DiskSteady DEF OneWriterInv
  <2>5. \A i \in 0 .. dhdr.nbd - 1 : c[i] = dir_page'[p][i].addr
    BY <2>2, ChainFacts DEF OneWriterInv
  <2>6. \A h \in Handles : h[1] < dhdr.nbd => OldEntry(p, h)' = EntryOf(dir_page'[p], h)
    <3> TAKE h \in Handles
    <3>1. h[1] < dhdr.nbd => h[1] \in 0 .. dhdr.nbd - 1
      BY <2>3 DEF Handles, PageIdx
    <3>2. QED
      BY <2>2, <2>3, <2>5, <3>1 DEF OldEntry, EntryOf
  <2>7. \E d \in [0 .. dhdr'.nbd - 1 -> DiskPages'] :
           WholeChain(d)' /\ \A i \in 0 .. dhdr'.nbd - 1 : d[i] = dir_page'[p][i].addr
    BY <2>3, <2>4, <2>5, Zenon
  <2>8. ASSUME NEW h \in Used(dir_page'[p], npages'[p])
        PROVE  ~(h[1] >= dhdr'.nbd \/ OldEntry(p, h)'.idtyp = SPECIAL)
    <3>1. h \in Handles /\ h[1] \in Nat /\ h[1] < npages'[p]
          /\ EntryOf(dir_page'[p], h).idtyp # SPECIAL
      BY <2>8 DEF Used, Handles, PageIdx
    <3>2. QED
      BY <2>3, <2>6, <3>1
  <2>9. \A h \in Handles :
           h[1] < dhdr'.nbd /\ OldEntry(p, h)'.idtyp # SPECIAL =>
              LET e == EntryOf(dir_page'[p], h) IN
              /\ e.idtyp # SPECIAL
              /\ e.addr = OldEntry(p, h)'.addr /\ e.lng = OldEntry(p, h)'.lng
              /\ e.idtyp = LIVE => OldEntry(p, h)'.idtyp = LIVE
    BY <2>3, <2>6
  <2>10. dhdr'.nbd <= npages'[p]
    BY <2>3
  <2>11. QED
    BY <2>7, <2>8, <2>9, <2>10 DEF Shadow, Used, EntryOf
<1>3. QED
  BY <1>1, <1>2, ShadowAssembled


\* A record that is added lies behind the announced size, as does a page.
LEMMA AddRecordShadow ==
    ASSUME TypeOK, TypeOK', OneWriterOnly, OneWriterInv, ReadersInv, SessionsShadow,
           NEW p \in Procs, pc[p] = "open", CanWrite(p), NEW v \in Vals, NEW n \in Lens,
           NEW old \in SUBSET Handles, \A h \in old : Valid(p, h), AddRecord(p, v, n, old)
    PROVE  SessionsShadow'
<1>1. Writing(p)
  BY DEF Writing
<1>2. PICK at : at = SizeFor(p) + 1
  OBVIOUS
<1>3. /\ SessionInv(p) /\ p \in Writers /\ npages[p] \in Nat
      /\ dhdr.fsiz \in Nat /\ hdr[p].fsiz \in Nat /\ dhdr.fsiz <= hdr[p].fsiz
  BY <1>1, WriterFacts
<1>4. /\ OnlyEntry(p) /\ dhdr' = dhdr /\ at \in Nat /\ at > hdr[p].fsiz
  BY <1>2, <1>3, AddedRecord
<1>5. \A a \in Addr : a <= dhdr.fsiz => SameUnit(a)
  <2> TAKE a \in Addr
  <2>1. a \in Nat /\ (a <= hdr[p].fsiz => dcell'[a] = dcell[a])
    BY <1>3, AddedRecord, ConstAssumption DEF Addr
  <2>2. QED
    BY <1>3, <2>1 DEF SameUnit
<1>6. PICK g : AddedAs(hdr[p], dir_page[p], dir_page'[p], npages[p], npages'[p], g,
                       [idtyp |-> LIVE, val |-> v, addr |-> at, lng |-> n], old)
  BY <1>2, <1>3, AddedDirectory
<1>7. /\ \A i \in 0 .. npages[p] - 1 : dir_page'[p][i].addr = dir_page[p][i].addr
      /\ npages[p] <= npages'[p]
  BY <1>3, <1>6 DEF AddedAs
<1>8. ASSUME NEW h \in Used(dir_page[p], npages[p])
      PROVE  /\ h \in Used(dir_page'[p], npages'[p])
             /\ EntryOf(dir_page'[p], h).addr = EntryOf(dir_page[p], h).addr
             /\ EntryOf(dir_page'[p], h).lng = EntryOf(dir_page[p], h).lng
             /\ EntryOf(dir_page'[p], h).idtyp = LIVE => EntryOf(dir_page[p], h).idtyp = LIVE
  <2>1. EntryOf(dir_page'[p], h) = IF h \in old THEN [EntryOf(dir_page[p], h) EXCEPT !.idtyp = DELETED]
                                   ELSE EntryOf(dir_page[p], h)
    BY <1>6 DEF AddedAs
  <2>2. EntryOf(dir_page[p], h) \in Entry
    <3>1. h[1] \in PageIdx /\ h[2] \in Slot
      BY <1>3, UsedHandle
    <3>2. dir_page[p] \in [PageIdx -> Page]
      BY ProcType
    <3>3. dir_page[p][h[1]].entry \in [Slot -> Entry]
      BY <3>1, <3>2, FieldType
    <3>4. QED
      BY <3>1, <3>3 DEF EntryOf
  <2>3. h \in Used(dir_page'[p], npages'[p])
    BY <1>6 DEF AddedAs
  <2>4. QED
    BY <2>1, <2>2, <2>3 DEF Entry, NoEntry, LIVE, DELETED
<1>9. ASSUME NEW h \in Used(dir_page'[p], npages'[p])
      PROVE  h \in Used(dir_page[p], npages[p]) \/ EntryOf(dir_page'[p], h).addr > dhdr.fsiz
  <2>1. h \in Used(dir_page[p], npages[p]) \/ h = g
    BY <1>6 DEF AddedAs
  <2>2. EntryOf(dir_page'[p], g).addr = at
    BY <1>6 DEF AddedAs
  <2>3. QED
    BY <1>3, <1>4, <2>1, <2>2
<1>10. Shadow(p) => Shadow(p)'
  <2>1. SelfAddressed
    BY DEF OneWriterInv
  <2>2. QED
    BY <1>4, <1>5, <1>7, <1>8, <1>9, <2>1, ShadowKept
<1>11. QED
  BY <1>1, <1>3, <1>4, <1>10, ShadowAssembled DEF SessionsShadow

\* Nor does a record that is rewritten in place, deleted or erased move.
LEMMA RetouchedShadow ==
    ASSUME TypeOK, TypeOK', OneWriterOnly, OneWriterInv, ReadersInv, SessionsShadow,
           NEW p \in Procs, NEW h, NEW r, Retouched(p, h, r),
           r.idtyp = LIVE => EntryOf(dir_page[p], h).idtyp = LIVE
    PROVE  SessionsShadow'
<1>1. /\ OnlyEntry(p) /\ Writing(p) /\ npages'[p] = npages[p]
      /\ h \in Handles /\ h[1] < npages[p] /\ Replaced(dir_page[p], dir_page'[p], h, r)
      /\ EntryOf(dir_page[p], h).idtyp # SPECIAL /\ r.idtyp # SPECIAL
      /\ r.addr = EntryOf(dir_page[p], h).addr /\ r.lng = EntryOf(dir_page[p], h).lng
      /\ dhdr' = dhdr /\ \A a \in Addr : SameUnit(a)
  BY Zenon DEF Retouched
<1>2. /\ dir_page[p] \in [PageIdx -> Page] /\ npages[p] \in Nat /\ npages[p] <= MAX_DIR_PAGES
      /\ npages[p] <= npages'[p]
  BY <1>1, ProcType, ConstAssumption
<1>3. PICK D : D = dir_page[p]
  OBVIOUS
<1>4. PICK E : E = dir_page'[p]
  OBVIOUS
<1>5. PICK n : n = npages[p]
  OBVIOUS
<1>6. /\ Resembles(D, E, n)
      /\ Live(E, n) = (Live(D, n) \ {h}) \cup (IF r.idtyp = LIVE THEN {h} ELSE {})
  BY <1>1, <1>2, <1>3, <1>4, <1>5, ReplacedEntry
<1>7. /\ Used(E, n) = Used(D, n)
      /\ \A k \in Used(D, n) : /\ EntryOf(E, k).addr = EntryOf(D, k).addr
                               /\ EntryOf(E, k).lng = EntryOf(D, k).lng
  BY <1>2, <1>5, <1>6, ResembleUsed
<1>8. h \in Live(D, n) \/ r.idtyp # LIVE
  BY <1>1, <1>3, <1>5 DEF Live
<1>9. Live(E, n) \subseteq Live(D, n)
  BY <1>6, <1>8
<1>10. \A k \in Used(D, n) : EntryOf(E, k).idtyp = LIVE => EntryOf(D, k).idtyp = LIVE
  BY <1>9 DEF Used, Live
<1>11. \A i \in 0 .. n - 1 : E[i].addr = D[i].addr
  BY <1>6 DEF Resembles
<1>12. Shadow(p) => Shadow(p)'
  <2>1. SelfAddressed
    BY DEF OneWriterInv
  <2>2. QED
    BY <1>1, <1>2, <1>3, <1>4, <1>5, <1>7, <1>10, <1>11, <2>1, ShadowKept
<1>13. p \in Writers
  BY <1>1 DEF Writing, CanWrite
<1>14. QED
  BY <1>1, <1>12, <1>13, ShadowAssembled DEF SessionsShadow


\* The steps that leave the directory alone, or the file locked or closed.
LEMMA OtherShadow ==
    ASSUME TypeOK, TypeOK', OneWriterOnly, OneWriterInv, SessionsShadow, NEW p \in Procs,
           \/ Create(p)
           \/ \E mode \in {RDMODE, RWMODE, APPEND} : Open(p, mode)
           \/ PutDirFull(p)
           \/ \E checkpoint \in BOOLEAN : CloseBegin(p, checkpoint)
           \/ \E i \in PageIdx : FlushPage(p, i)
           \/ CheckpointEnd(p) \/ CloseEnd(p) \/ CloseRefused(p) \/ Crash(p)
    PROVE  SessionsShadow'
<1>1. CASE Create(p)
  <2>1. OnlyEntry(p) /\ p \in Writers /\ dhdr'.nbd = 0
    BY <1>1 DEF Create, OnlyEntry, TypeOK, aux, NewHeader, EmptyHeader
  <2>2. QED
    BY <2>1, ShadowAssembled
<1>2. CASE \/ \E mode \in {RDMODE, RWMODE, APPEND} : Open(p, mode)
           \/ CloseRefused(p) \/ Crash(p)
  <2>1. OnlyEntry(p)
    BY <1>2 DEF Open, CloseRefused, Crash, Forget, OnlyEntry, TypeOK
  <2>2. UNCHANGED disk
    BY <1>2 DEF Open, CloseRefused, Crash, OneWriterOnly, CanWrite, disk
  <2>3. pc'[p] \in {"closed", "refused", "loading"}
    BY <1>2 DEF Open, CloseRefused, Crash, TypeOK
  <2>4. ~Writing(p)'
    BY <2>3 DEF Writing
  <2>5. QED
    BY <2>1, <2>2, <2>4, ShadowAssembled
<1>3. CASE PutDirFull(p) \/ CheckpointEnd(p)
  <2>1. OnlyEntry(p) /\ UNCHANGED disk
    BY <1>3 DEF PutDirFull, CheckpointEnd, OnlyEntry, TypeOK, aux
  <2>2. /\ dir_page'[p] = dir_page[p] /\ npages'[p] = npages[p] /\ hdr'[p] = hdr[p]
        /\ pc[p] \in {"open", "flush"}
    BY <1>3 DEF PutDirFull, CheckpointEnd
  <2>3. dhdr' = dhdr /\ dcell' = dcell
    BY <2>1 DEF disk
  <2>4. Writing(p)' => Writing(p)
    BY <2>2 DEF Writing, CanWrite
  <2>5. Shadow(p) => Shadow(p)'
    BY <2>2, <2>3, SameShadow
  <2>6. QED
    BY <2>1, <2>3, <2>4, <2>5, ShadowAssembled DEF SessionsShadow
<1>4. CASE \E checkpoint \in BOOLEAN : CloseBegin(p, checkpoint)
  <2>1. /\ OnlyEntry(p) /\ hdr'[p] = hdr[p] /\ dcell' = dcell /\ dsize' = dsize
        /\ dhdr' = IF CanWrite(p) THEN hdr[p] ELSE dhdr
    BY <1>4 DEF CloseBegin, OnlyEntry, TypeOK, core
  <2>2. CASE CanWrite(p)
    BY <2>1, <2>2, ShadowAssembled DEF CanWrite
  <2>3. CASE ~CanWrite(p)
    <3>1. ~Writing(p)' /\ UNCHANGED disk
      BY <2>1, <2>3 DEF Writing, CanWrite, disk
    <3>2. QED
      BY <2>1, <3>1, ShadowAssembled
  <2>4. QED
    BY <2>2, <2>3
<1>5. CASE \E i \in PageIdx : FlushPage(p, i)
  <2>1. PICK i \in PageIdx : FlushPage(p, i)
    BY <1>5
  <2>2. p \in Writers /\ dhdr.rwflg # RDMODE
    BY <2>1, FlushFacts DEF FlushPage
  <2>3. dhdr' = dhdr /\ OnlyEntry(p)
    BY <2>1 DEF FlushPage, OnlyEntry, TypeOK, aux
  <2>4. QED
    BY <2>2, <2>3, ShadowAssembled
<1>6. CASE CloseEnd(p)
  <2>1. OnlyEntry(p)
    BY <1>6 DEF CloseEnd, Forget, OnlyEntry, TypeOK
  <2>2. ~Writing(p)'
    BY <1>6 DEF CloseEnd, Writing, TypeOK
  <2>3. UNCHANGED disk \/ p \in Writers
    BY <1>6 DEF CloseEnd, CanWrite, disk
  <2>4. QED
    BY <2>1, <2>2, <2>3, ShadowAssembled
<1>7. QED
  BY <1>1, <1>2, <1>3, <1>4, <1>5, <1>6

\* Every step keeps what sessions know.
LEMMA ShadowStep ==
    ASSUME TypeOK, TypeOK', OneWriterOnly, SharedInv, [Next]_vars
    PROVE  SessionsShadow'
<1>1. OneWriterInv /\ ReadersInv /\ SessionsShadow
  BY DEF SharedInv
<1>2. CASE UNCHANGED vars
  <2>1. /\ dhdr' = dhdr /\ dcell' = dcell /\ hdr' = hdr /\ pc' = pc
        /\ dir_page' = dir_page /\ npages' = npages
    BY <1>2 DEF vars, disk, core
  <2>2. \A p \in Procs : Shadow(p) => Shadow(p)'
    BY <1>1, <2>1, SameShadow
  <2>3. QED
    BY <1>1, <2>1, <2>2 DEF SessionsShadow, Writing, CanWrite
<1>3. CASE Next
  <2>1. PICK p \in Procs :
           \/ Create(p)
           \/ \E mode \in {RDMODE, RWMODE, APPEND} : Open(p, mode)
           \/ LoadPage(p)
           \/ \E v \in Vals, n \in Lens : PutNew(p, v, n)
           \/ \E h \in Handles, v \in Vals, n \in Lens : PutMove(p, h, v, n)
           \/ \E h \in Handles, v \in Vals : PutInPlace(p, h, v)
           \/ PutDirFull(p)
           \/ \E h \in Handles : Delete(p, h)
           \/ \E checkpoint \in BOOLEAN : CloseBegin(p, checkpoint)
           \/ \E i \in PageIdx : FlushErase(p, i) \/ FlushPage(p, i)
           \/ CheckpointEnd(p) \/ CloseEnd(p) \/ CloseRefused(p)
           \/ Crash(p)
    BY <1>3, Zenon DEF Next
  <2>2. CASE \E v \in Vals, n \in Lens : PutNew(p, v, n)
    <3>1. PICK v \in Vals, n \in Lens : PutNew(p, v, n)
      BY <2>2
    <3>2. pc[p] = "open" /\ CanWrite(p) /\ AddRecord(p, v, n, {})
      BY <3>1 DEF PutNew
    <3>3. {} \in SUBSET Handles /\ \A h \in {} : Valid(p, h)
      OBVIOUS
    <3>4. QED
      BY <1>1, <3>2, <3>3, AddRecordShadow
  <2>3. CASE \E h \in Handles, v \in Vals, n \in Lens : PutMove(p, h, v, n)
    <3>1. PICK g \in Handles, v \in Vals, n \in Lens : PutMove(p, g, v, n)
      BY <2>3
    <3>2. pc[p] = "open" /\ CanWrite(p) /\ Valid(p, g) /\ AddRecord(p, v, n, {g})
      BY <3>1 DEF PutMove
    <3>3. {g} \in SUBSET Handles /\ \A h \in {g} : Valid(p, h)
      BY <3>2
    <3>4. QED
      BY <1>1, <3>2, <3>3, AddRecordShadow
  <2>4. CASE \/ \E h \in Handles, v \in Vals : PutInPlace(p, h, v)
             \/ \E h \in Handles : Delete(p, h)
             \/ \E i \in PageIdx : FlushErase(p, i)
    <3>1. PICK h, r : /\ Retouched(p, h, r)
                      /\ r.idtyp = LIVE => EntryOf(dir_page[p], h).idtyp = LIVE
      <4>1. CASE \E h \in Handles, v \in Vals : PutInPlace(p, h, v)
        BY <1>1, <4>1, PutInPlaceFacts
      <4>2. CASE \E h \in Handles : Delete(p, h)
        BY <1>1, <4>2, DeleteFacts
      <4>3. CASE \E i \in PageIdx : FlushErase(p, i)
        <5>1. PICK h, r : Retouched(p, h, r) /\ r.idtyp = ERASED
          BY <1>1, <4>3, FlushEraseFacts, Zenon
        <5>2. QED
          BY <5>1 DEF ERASED, LIVE
      <4>4. QED
        BY <2>4, <4>1, <4>2, <4>3
    <3>2. QED
      BY <1>1, <3>1, RetouchedShadow
  <2>5. CASE LoadPage(p)
    BY <1>1, <2>5, LoadedShadow
  <2>6. CASE \/ Create(p)
             \/ \E mode \in {RDMODE, RWMODE, APPEND} : Open(p, mode)
             \/ PutDirFull(p)
             \/ \E checkpoint \in BOOLEAN : CloseBegin(p, checkpoint)
             \/ \E i \in PageIdx : FlushPage(p, i)
             \/ CheckpointEnd(p) \/ CloseEnd(p) \/ CloseRefused(p) \/ Crash(p)
    BY <1>1, <2>6, OtherShadow
  <2>7. QED
    BY <2>1, <2>2, <2>3, <2>4, <2>5, <2>6
<1>4. QED
  BY <1>2, <1>3

\* All of it in every state.
LEMMA SharedInvariant ==
    ASSUME OneWriterOnly
    PROVE  Spec => [](TypeOK /\ SharedInv)
<1>1. Init => TypeOK /\ HasPage /\ SharedInv
  <2>1. Init => SessionsShadow
    BY DEF Init, SessionsShadow, Writing
  <2>2. QED
    BY <2>1, InitType, OneWriterInit, ReadersInit DEF Init, HasPage, SharedInv
<1>2. TypeOK /\ HasPage /\ SharedInv /\ [Next]_vars => TypeOK' /\ HasPage' /\ SharedInv'
  <2>1. TypeOK /\ HasPage /\ [Next]_vars => TypeOK' /\ HasPage'
    BY TypeStep, HasPageStep
  <2>2. TypeOK /\ TypeOK' /\ SharedInv /\ [Next]_vars => OneWriterInv'
    BY OneWriterStep DEF SharedInv
  <2>3. TypeOK /\ TypeOK' /\ SharedInv /\ [Next]_vars => ReadersInv'
    BY <2>2, ReadersStep DEF SharedInv
  <2>4. QED
    BY <2>1, <2>2, <2>3, ShadowStep DEF SharedInv
<1>3. QED
  BY <1>1, <1>2, PTL DEF Spec

-----------------------------------------------------------------------------
(* What does not change between two states.                                *)

\* Equal keys and equal data make equal records.
LEMMA RecordsEqual ==
    ASSUME NEW A, NEW B, NEW D, NEW E, NEW n, NEW m, Live(E, m) = Live(D, n),
           \A h \in Live(D, n) : /\ EntryOf(E, h).val = EntryOf(D, h).val
                                 /\ B[EntryOf(E, h).addr].val = A[EntryOf(D, h).addr].val
    PROVE  RecordsIn(B, E, m) = RecordsIn(A, D, n)
BY DEF RecordsIn

\* The records of a directory lie below its size, apart from its pages and each other.
LEMMA RecordsApart ==
    ASSUME NEW D, NEW n \in Nat, NEW size \in Nat, LaidOut(D, n, size),
           \A i \in 0 .. n - 1 : D[i] \in Page, NEW h \in Used(D, n)
    PROVE  LET e == EntryOf(D, h) IN
           /\ e \in Entry /\ e.addr \in Nat /\ e.addr >= 2 /\ e.lng \in Nat \ {0}
           /\ e.addr \in Extent(e)
           /\ \A a \in Extent(e) : a \in Nat /\ a >= 2 /\ a <= size
           /\ \A i \in 0 .. n - 1 : D[i].addr \notin Extent(e)
           /\ \A g \in Used(D, n) : g # h => \A a \in Extent(EntryOf(D, g)) : a \notin Extent(e)
<1>1. \A g \in Used(D, n) : EntryOf(D, g) \in Entry /\ EntryOf(D, g).addr \in Nat
                            /\ EntryOf(D, g).lng \in Nat \ {0}
  <2> TAKE g \in Used(D, n)
  <2>1. g[1] \in 0 .. n - 1 /\ g[2] \in Slot /\ D[g[1]].entry[g[2]].idtyp # SPECIAL
    BY UsedHandle
  <2>2. D[g[1]].entry \in [Slot -> Entry]
    BY <2>1, FieldType
  <2>3. EntryOf(D, g) \in Entry /\ EntryOf(D, g).idtyp # SPECIAL
    BY <2>1, <2>2 DEF EntryOf
  <2>4. EntryOf(D, g).lng \in Nat \ {0}
    BY ConstAssumption DEF LaidOut
  <2>5. EntryOf(D, g).addr \in Nat
    BY <2>3 DEF Entry, NoEntry
  <2>6. QED
    BY <2>3, <2>4, <2>5
<1>2. PICK e : e = EntryOf(D, h)
  OBVIOUS
<1>3. /\ e \in Entry /\ e.addr \in Nat /\ e.lng \in Nat \ {0} /\ e.addr >= 2
      /\ e.addr + e.lng - 1 <= size
      /\ \A i \in 0 .. n - 1 : D[i].addr \notin Extent(e)
      /\ \A g \in Used(D, n) : g # h => \/ e.addr + e.lng <= EntryOf(D, g).addr
                                        \/ EntryOf(D, g).addr + EntryOf(D, g).lng <= e.addr
  BY <1>1, <1>2 DEF LaidOut
<1>4. e.addr \in Extent(e) /\ \A a \in Extent(e) : a \in Nat /\ a >= 2 /\ a <= size
  BY <1>3 DEF Extent
<1>5. \A g \in Used(D, n) : g # h => \A a \in Extent(EntryOf(D, g)) : a \notin Extent(e)
  BY <1>1, <1>3 DEF Extent
<1>6. QED
  BY <1>2, <1>3, <1>4, <1>5

\* In the directory of a session, and in the one on disk.
LEMMA RecordsInCore ==
    ASSUME TypeOK, NEW p \in Procs, SessionInv(p), NEW h \in Used(dir_page[p], npages[p])
    PROVE  LET e == EntryOf(dir_page[p], h) IN
           /\ e \in Entry /\ e.addr \in Nat /\ e.addr >= 2 /\ e.lng \in Nat \ {0}
           /\ e.addr \in Extent(e)
           /\ \A a \in Extent(e) : a \in Addr /\ a \in Nat /\ a >= 2 /\ a <= hdr[p].fsiz
           /\ \A i \in 0 .. npages[p] - 1 : dir_page[p][i].addr \notin Extent(e)
           /\ \A g \in Used(dir_page[p], npages[p]) :
                 g # h => \A a \in Extent(EntryOf(dir_page[p], g)) : a \notin Extent(e)
<1>1. PICK D : D = dir_page[p]
  OBVIOUS
<1>2. PICK n : n = npages[p]
  OBVIOUS
<1>3. /\ n \in Nat /\ hdr[p].fsiz \in Nat /\ hdr[p].fsiz <= MaxAddr
      /\ \A i \in 0 .. n - 1 : D[i] \in Page
  BY <1>1, <1>2, SessionFacts, ConstAssumption
<1>4. LaidOut(D, n, hdr[p].fsiz)
  BY <1>1, <1>2 DEF SessionInv, Consistent
<1>5. \A a \in Nat : a >= 2 /\ a <= hdr[p].fsiz => a \in Addr
  BY <1>3, ConstAssumption DEF Addr
<1>6. QED
  BY <1>1, <1>2, <1>3, <1>4, <1>5, RecordsApart

\* As long as the announced part of the file keeps its contents, so does what is saved; a
\* file with the flag has nothing to find anyway.
LEMMA SavedSteady ==
    ASSUME TypeOK, TypeOK', OneWriterOnly, OneWriterInv, OneWriterInv', dhdr' = dhdr,
           dhdr.rwflg = RDMODE =>
              \A a \in Addr : a <= dhdr.fsiz => dcell'[a] = dcell[a]
    PROVE  SavedOf' = SavedOf
<1>1. SavedKnown /\ SavedKnown' /\ SelfAddressed /\ SelfAddressed'
  BY SavedDetermined, KnownNext DEF OneWriterInv
<1>2. CASE dhdr.fsiz = 0 \/ dhdr.rwflg # RDMODE \/ dhdr.nbd = 0
  BY <1>1, <1>2 DEF SavedKnown
<1>3. CASE dhdr.rwflg = RDMODE /\ dhdr.nbd # 0
  <2>1. dhdr.nbd > 0
    BY <1>3, FieldType DEF TypeOK
  <2>2. PICK c \in [0 .. dhdr.nbd - 1 -> DiskPages] : WholeChain(c)
    BY <1>3, <2>1 DEF OneWriterInv, OpenableIsConsistent, WholeChain
  <2>3. \A a \in Addr : a <= dhdr.fsiz => dcell'[a] = dcell[a] /\ SameUnit(a)
    BY <1>3 DEF SameUnit
  <2>4. c \in [0 .. dhdr'.nbd - 1 -> DiskPages'] /\ WholeChain(c)'
    BY <1>1, <2>2, <2>3, ChainKept
  <2>5. PICK D : D = DiskDir(c)
    OBVIOUS
  <2>6. PICK n : n = dhdr.nbd
    OBVIOUS
  <2>7. /\ n \in Nat /\ dhdr.fsiz \in Nat /\ dhdr.fsiz <= MaxAddr
        /\ \A i \in 0 .. n - 1 : c[i] \in Addr /\ c[i] <= dhdr.fsiz
        /\ \A i \in 0 .. n - 1 : D[i] \in Page /\ D[i] = dcell[c[i]]
    BY <1>1, <2>2, <2>5, <2>6, ChainFacts, FieldType, ConstAssumption DEF DiskDir, TypeOK
  <2>8. DiskDir(c)' = D
    BY <2>3, <2>5, <2>6, <2>7 DEF DiskDir
  <2>9. LaidOut(D, n, dhdr.fsiz)
    BY <2>2, <2>5, <2>6 DEF WholeChain, Consistent
  <2>10. ASSUME NEW h \in Live(D, n)
         PROVE  dcell'[EntryOf(D, h).addr].val = dcell[EntryOf(D, h).addr].val
    <3>1. h \in Used(D, n)
      BY <2>7, UsedHandle
    <3>2. /\ EntryOf(D, h).addr \in Nat /\ EntryOf(D, h).addr >= 2
          /\ EntryOf(D, h).addr <= dhdr.fsiz
      BY <2>7, <2>9, <3>1, RecordsApart
    <3>3. EntryOf(D, h).addr \in Addr
      BY <2>7, <3>2, ConstAssumption DEF Addr
    <3>4. QED
      BY <2>3, <3>2, <3>3
  <2>11. RecordsIn(dcell', D, n) = RecordsIn(dcell, D, n)
    BY <2>10, RecordsEqual
  <2>12. SavedOf = Store!Whole(RecordsIn(dcell, D, n))
    BY <1>1, <1>3, <2>2, <2>5, <2>6 DEF SavedKnown
  <2>13. SavedOf' = Store!Whole(RecordsIn(dcell', DiskDir(c)', dhdr'.nbd))
    BY <1>1, <1>3, <2>4 DEF SavedKnown
  <2>14. QED
    BY <2>6, <2>8, <2>11, <2>12, <2>13
<1>4. QED
  BY <1>2, <1>3

\* A process that does not write leaves the session of another alone.
LEMMA ViewSteady ==
    ASSUME OneWriterOnly, NEW p \in Procs, OnlyEntry(p), UNCHANGED disk,
           ~Writing(p), ~Writing(p)'
    PROVE  ViewOf' = ViewOf
<1>1. ViewKnown /\ ViewKnown'
  BY ViewDetermined, KnownNext
<1>2. \A q \in Procs : q # p => /\ dir_page'[q] = dir_page[q] /\ npages'[q] = npages[q]
                                /\ Writing(q)' = Writing(q)
  BY DEF OnlyEntry, Writing, CanWrite
<1>3. dcell' = dcell
  BY DEF disk
<1>4. CASE \E q \in Procs : Writing(q)
  <2>1. PICK q \in Procs : Writing(q)
    BY <1>4
  <2>2. Writing(q)' /\ q # p
    BY <1>2, <2>1
  <2>3. ViewOf = Store!Session(RecordsIn(dcell, dir_page[q], npages[q]))
    BY <1>1, <2>1 DEF ViewKnown
  <2>4. ViewOf' = Store!Session(RecordsIn(dcell', dir_page'[q], npages'[q]))
    BY <1>1, <2>2 DEF ViewKnown
  <2>5. QED
    BY <1>2, <1>3, <2>2, <2>3, <2>4
<1>5. CASE \A q \in Procs : ~Writing(q)
  <2>1. \A q \in Procs : ~Writing(q)'
    BY <1>2, <1>5
  <2>2. QED
    BY <1>1, <1>5, <2>1 DEF ViewKnown
<1>6. QED
  BY <1>4, <1>5

\* When the one process that may write does not, there is no session.
LEMMA ViewAlone ==
    ASSUME OneWriterOnly, NEW p \in Writers
    PROVE  /\ ~Writing(p) => ViewOf = Store!NoSession
           /\ ~Writing(p)' => ViewOf' = Store!NoSession
<1>1. ViewKnown /\ ViewKnown'
  BY ViewDetermined, KnownNext
<1>2. \A q \in Procs : q # p => ~Writing(q) /\ ~Writing(q)'
  BY DEF OneWriterOnly, Writing, CanWrite
<1>3. QED
  BY <1>1, <1>2 DEF ViewKnown

-----------------------------------------------------------------------------
(* Every step is one of the store or leaves it as it is.                   *)

StoreStays == ViewOf' = ViewOf /\ SavedOf' = SavedOf

\* A new file has no record.
LEMMA CreatedEmpty ==
    ASSUME TypeOK, NEW p \in Procs, Create(p)
    PROVE  Live(dir_page'[p], npages'[p]) = {}
<1>1. dir_page'[p] = [dir_page[p] EXCEPT ![0] = NewPage(2)] /\ npages'[p] = 1
  BY DEF Create, TypeOK
<1>2. 0 \in PageIdx /\ dir_page[p] \in [PageIdx -> Page]
  BY ProcType, ConstAssumption DEF PageIdx
<1>3. dir_page'[p][0] = NewPage(2)
  BY <1>1, <1>2
<1>4. ASSUME NEW h \in Handles, h[1] < npages'[p]
      PROVE  EntryOf(dir_page'[p], h).idtyp # LIVE
  <2>1. h[1] = 0 /\ h[2] \in Slot
    BY <1>1, <1>4, ConstAssumption DEF Handles, PageIdx
  <2>2. QED
    BY <1>3, <2>1 DEF EntryOf, NewPage, NoEntry, SPECIAL, LIVE
<1>5. QED
  BY <1>4 DEF Live

\* c_xdfopn "CREATE".
LEMMA CreateSimulated ==
    ASSUME TypeOK, TypeOK', OneWriterOnly, SharedInv, SharedInv', NEW p \in Procs, Create(p)
    PROVE  Store!Create
<1>1. /\ p \in Writers /\ pc[p] = "closed" /\ dhdr.fsiz = 0 /\ dhdr' = NewHeader
      /\ pc'[p] = "open" /\ hdr'[p].rwflg = CREATE
      /\ dir_page'[p] = [dir_page[p] EXCEPT ![0] = NewPage(2)] /\ npages'[p] = 1
  BY DEF Create, TypeOK
<1>2. dhdr'.fsiz = 1 /\ dhdr'.nbd = 0
  BY <1>1 DEF NewHeader, EmptyHeader
<1>3. ~Writing(p) /\ Writing(p)'
  BY <1>1 DEF Writing, CanWrite, CREATE, RDMODE
<1>4. ViewKnown' /\ SavedKnown /\ SavedKnown' /\ SelfAddressed /\ SelfAddressed'
  BY KnownNext, SavedDetermined DEF SharedInv, OneWriterInv
<1>5. Live(dir_page'[p], npages'[p]) = {}
  BY CreatedEmpty
<1>6. RecordsIn(dcell', dir_page'[p], npages'[p]) = Store!NoRecords
  BY <1>5 DEF RecordsIn, Store!NoRecords
<1>7. ViewOf = Store!NoSession /\ ViewOf' = Store!Session(Store!NoRecords)
  BY <1>1, <1>3, <1>4, <1>6, ViewAlone DEF ViewKnown
<1>8. SavedOf = [state |-> "empty", recs |-> Store!NoRecords] /\ SavedOf' = Store!Locked
  BY <1>1, <1>2, <1>4 DEF SavedKnown
<1>9. QED
  BY <1>7, <1>8 DEF Store!Create, Store!NoSession

\* The last page c_xdfopn reads.
LEMMA LoadSimulated ==
    ASSUME TypeOK, TypeOK', OneWriterOnly, SharedInv, SharedInv', NEW p \in Procs, LoadPage(p)
    PROVE  Store!Begin \/ StoreStays
<1>1. OneWriterInv /\ OneWriterInv' /\ SelfAddressed
  BY DEF SharedInv, OneWriterInv
<1>2. OnlyEntry(p) /\ UNCHANGED disk
  BY ZenonT(60) DEF LoadPage, OnlyEntry, TypeOK
<1>3. dhdr' = dhdr /\ dcell' = dcell /\ pc[p] = "loading"
  BY <1>2 DEF disk, LoadPage
<1>4. ~Writing(p)
  BY <1>3 DEF Writing
<1>5. SavedOf' = SavedOf
  BY <1>1, <1>3, SavedSteady
<1>6. CASE ~Writing(p)'
  BY <1>2, <1>4, <1>5, <1>6, ViewSteady DEF StoreStays
<1>7. CASE Writing(p)'
  <2>1. Loaded(p) /\ p \in Writers
    BY <1>1, <1>7, LoadPageFacts DEF Writing, CanWrite
  <2>2. PICK c \in [0 .. dhdr.nbd - 1 -> DiskPages] :
           WholeChain(c) /\ \A i \in 0 .. dhdr.nbd - 1 : dir_page'[p][i] = dcell[c[i]]
    BY <2>1 DEF Loaded
  <2>3. PICK D : D = DiskDir(c)
    OBVIOUS
  <2>4. PICK E : E = dir_page'[p]
    OBVIOUS
  <2>5. PICK n : n = dhdr.nbd
    OBVIOUS
  <2>6. n \in Nat /\ npages'[p] = n /\ dhdr.rwflg = RDMODE
    BY <2>1, <2>5, FieldType DEF Loaded, TypeOK
  <2>7. \A i \in 0 .. n - 1 : E[i] = D[i]
    BY <2>2, <2>3, <2>4, <2>5 DEF DiskDir
  <2>8. \A h \in Handles : h[1] < n => EntryOf(E, h) = EntryOf(D, h)
    <3> TAKE h \in Handles
    <3>1. h[1] < n => h[1] \in 0 .. n - 1
      BY <2>6 DEF Handles, PageIdx
    <3>2. QED
      BY <2>7, <3>1 DEF EntryOf
  <2>9. Live(E, n) = Live(D, n) /\ \A h \in Live(D, n) : EntryOf(E, h) = EntryOf(D, h)
    BY <2>8 DEF Live
  <2>10. RecordsIn(dcell', E, n) = RecordsIn(dcell, D, n)
    BY <1>3, <2>9, RecordsEqual
  <2>11. SavedOf = Store!Whole(RecordsIn(dcell, D, n))
    BY <1>1, <2>2, <2>3, <2>5, <2>6, SavedDetermined DEF SavedKnown
  <2>12. ViewOf' = Store!Session(RecordsIn(dcell', E, n))
    BY <1>7, <2>4, <2>6, KnownNext DEF ViewKnown
  <2>13. ViewOf = Store!NoSession
    BY <1>4, <2>1, ViewAlone
  <2>14. QED
    BY <1>5, <2>10, <2>11, <2>12, <2>13 DEF Store!Begin, Store!Whole, Store!NoSession
<1>8. QED
  BY <1>6, <1>7

\* c_xdfput of a new record, or of one that moves.
LEMMA AddSimulated ==
    ASSUME TypeOK, TypeOK', OneWriterOnly, SharedInv, SharedInv', NEW p \in Procs,
           pc[p] = "open", CanWrite(p), NEW v \in Vals, NEW n \in Lens,
           NEW old \in SUBSET Handles, \A h \in old : Valid(p, h), AddRecord(p, v, n, old)
    PROVE  \E g \in Handles : /\ old = {} => Store!Add(g, v)
                              /\ \A h : old = {h} => Store!Move(h, g, v)
<1>1. OneWriterInv /\ OneWriterInv' /\ ReadersInv /\ Writing(p)
  BY DEF SharedInv, Writing
<1>2. PICK at : at = SizeFor(p) + 1
  OBVIOUS
<1>3. /\ SessionInv(p) /\ npages[p] \in Nat
      /\ dhdr.fsiz \in Nat /\ hdr[p].fsiz \in Nat /\ dhdr.fsiz <= hdr[p].fsiz
  BY <1>1, WriterFacts
<1>4. /\ OnlyEntry(p) /\ dhdr' = dhdr /\ at \in Nat /\ at > hdr[p].fsiz
      /\ n \in Nat \ {0} /\ at + n - 1 <= MaxAddr
      /\ pc'[p] = "open" /\ hdr'[p].rwflg = hdr[p].rwflg
  BY <1>2, <1>3, AddedRecord
<1>5. /\ \A a \in Addr : a <= hdr[p].fsiz => dcell'[a] = dcell[a]
      /\ dcell'[at].val = v
  <2>1. at \in Addr /\ at \in at .. at + n - 1
    BY <1>3, <1>4, ConstAssumption DEF Addr
  <2>2. QED
    BY <1>2, <1>3, <2>1, AddedRecord
<1>6. SavedOf' = SavedOf
  <2>1. \A a \in Addr : a <= dhdr.fsiz => dcell'[a] = dcell[a]
    BY <1>3, <1>5, ConstAssumption DEF Addr
  <2>2. QED
    BY <1>1, <1>4, <2>1, SavedSteady
<1>7. PICK D : D = dir_page[p]
  OBVIOUS
<1>8. PICK E : E = dir_page'[p]
  OBVIOUS
<1>9. PICK m : m = npages[p]
  OBVIOUS
<1>10. PICK N : N = npages'[p]
  OBVIOUS
<1>11. PICK e : e = [idtyp |-> LIVE, val |-> v, addr |-> at, lng |-> n]
  OBVIOUS
<1>12. PICK g : AddedAs(hdr[p], D, E, m, N, g, e, old)
  BY <1>2, <1>3, <1>7, <1>8, <1>9, <1>10, <1>11, AddedDirectory
<1>13. /\ g \in Handles /\ g \notin Used(D, m) /\ EntryOf(E, g) = e
       /\ Live(E, N) = (Live(D, m) \ old) \cup {g}
       /\ \A h \in Used(D, m) : h \notin old => EntryOf(E, h) = EntryOf(D, h)
  BY <1>12 DEF AddedAs
<1>14. Live(D, m) \subseteq Used(D, m) /\ g \notin Live(D, m)
  BY <1>3, <1>9, <1>13, UsedHandle
<1>15. PICK V : V = RecordsIn(dcell, D, m)
  OBVIOUS
<1>16. PICK W : W = RecordsIn(dcell', E, N)
  OBVIOUS
<1>17. DOMAIN V = Live(D, m) /\ DOMAIN W = (Live(D, m) \ old) \cup {g}
  BY <1>13, <1>15, <1>16 DEF RecordsIn
<1>18. \A h \in Live(D, m) \ old : W[h] = V[h]
  <2> TAKE h \in Live(D, m) \ old
  <2>1. EntryOf(D, h).addr \in Addr /\ EntryOf(D, h).addr <= hdr[p].fsiz
    BY <1>3, <1>7, <1>9, <1>14, RecordsInCore
  <2>2. EntryOf(E, h) = EntryOf(D, h) /\ h \in Live(E, N)
    BY <1>13, <1>14
  <2>3. QED
    BY <1>5, <1>15, <1>16, <2>1, <2>2 DEF RecordsIn
<1>19. W[g] = [key |-> v, data |-> v]
  BY <1>5, <1>11, <1>13, <1>16 DEF RecordsIn
<1>20. W = [h \in (Live(D, m) \ old) \cup {g} |->
               IF h = g THEN [key |-> v, data |-> v] ELSE V[h]]
  <2>1. W = [h \in (Live(D, m) \ old) \cup {g} |-> W[h]]
    BY <1>13, <1>16 DEF RecordsIn
  <2>2. \A h \in (Live(D, m) \ old) \cup {g} :
           W[h] = IF h = g THEN [key |-> v, data |-> v] ELSE V[h]
    BY <1>18, <1>19
  <2>3. QED
    BY <2>1, <2>2, Zenon
<1>21. Writing(p)'
  BY <1>4, CanWrite(p) DEF Writing, CanWrite
<1>22. ViewOf = Store!Session(V) /\ ViewOf' = Store!Session(W)
  BY <1>1, <1>7, <1>8, <1>9, <1>10, <1>15, <1>16, <1>21, ViewDetermined, KnownNext
     DEF ViewKnown
<1>23. ASSUME old = {} PROVE Store!Add(g, v)
  <2>1. W = Store!With(V, g, v)
    <3>1. (Live(D, m) \ old) \cup {g} = DOMAIN V \cup {g}
      BY <1>17, <1>23
    <3>2. QED
      BY <1>20, <3>1 DEF Store!With
  <2>2. QED
    BY <1>6, <1>14, <1>17, <1>22, <2>1 DEF Store!Add, Store!Session
<1>24. ASSUME NEW h, old = {h} PROVE Store!Move(h, g, v)
  <2>1. h \in Live(D, m)
    <3>1. h \in Handles /\ h[1] < m /\ EntryOf(D, h).idtyp = LIVE
      BY <1>7, <1>9, <1>24 DEF Valid, EntryOf
    <3>2. QED
      BY <3>1 DEF Live
  <2>2. PICK U : U = Store!Without(V, h)
    OBVIOUS
  <2>3. DOMAIN U = Live(D, m) \ {h} /\ \A k \in Live(D, m) \ {h} : U[k] = V[k]
    BY <1>17, <2>2 DEF Store!Without
  <2>4. W = Store!With(U, g, v)
    <3>1. (Live(D, m) \ old) \cup {g} = DOMAIN U \cup {g}
      BY <1>24, <2>3
    <3>2. W = [k \in DOMAIN U \cup {g} |-> IF k = g THEN [key |-> v, data |-> v] ELSE U[k]]
      BY <1>20, <2>3, <3>1
    <3>3. QED
      BY <3>2 DEF Store!With
  <2>5. QED
    BY <1>6, <1>14, <1>17, <1>22, <2>1, <2>2, <2>4 DEF Store!Move, Store!Session
<1>25. QED
  BY <1>13, <1>23, <1>24


\* The live records after one was rewritten where it is.
LEMMA RewrittenRecords ==
    ASSUME TypeOK, NEW p \in Procs, NEW h \in Handles, NEW r, Retouched(p, h, r),
           EntryOf(dir_page[p], h).idtyp = LIVE, r.idtyp = LIVE
    PROVE  LET D == dir_page[p]
               E == dir_page'[p]
               m == npages[p]
           IN /\ Live(E, m) = Live(D, m) /\ EntryOf(E, h) = r
              /\ \A k \in Live(D, m) : k # h => EntryOf(E, k) = EntryOf(D, k)
<1>1. PICK D : D = dir_page[p]
  OBVIOUS
<1>2. PICK E : E = dir_page'[p]
  OBVIOUS
<1>3. PICK m : m = npages[p]
  OBVIOUS
<1>4. /\ h[1] < m /\ Replaced(D, E, h, r)
      /\ EntryOf(D, h).idtyp # SPECIAL /\ r.idtyp # SPECIAL
      /\ r.addr = EntryOf(D, h).addr /\ r.lng = EntryOf(D, h).lng
  BY <1>1, <1>2, <1>3, Zenon DEF Retouched
<1>5. D \in [PageIdx -> Page] /\ m \in Nat /\ m <= MAX_DIR_PAGES
  BY <1>1, <1>3, ProcType, ConstAssumption
<1>6. Live(E, m) = Live(D, m)
  <2>1. Live(E, m) = (Live(D, m) \ {h}) \cup {h}
    BY <1>4, <1>5, ReplacedEntry
  <2>2. h \in Live(D, m)
    BY <1>1, <1>4 DEF Live
  <2>3. QED
    BY <2>1, <2>2
<1>7. EntryOf(E, h) = r /\ \A k \in Live(D, m) : k # h => EntryOf(E, k) = EntryOf(D, k)
  <2>1. h[1] \in PageIdx /\ h[2] \in Slot /\ h = <<h[1], h[2]>>
    BY DEF Handles
  <2>2. D[h[1]] \in Page /\ D[h[1]].entry \in [Slot -> Entry]
    BY <1>5, <2>1, FieldType
  <2>3. E[h[1]] = [D[h[1]] EXCEPT !.entry[h[2]] = r]
    BY <1>4 DEF Replaced
  <2>4. E[h[1]].entry = [D[h[1]].entry EXCEPT ![h[2]] = r]
    BY <2>2, <2>3 DEF Page
  <2>5. ASSUME NEW k \in Live(D, m), k # h PROVE EntryOf(E, k) = EntryOf(D, k)
    <3>1. k[1] \in PageIdx /\ k[2] \in Slot /\ k = <<k[1], k[2]>>
      BY DEF Live, Handles
    <3>2. CASE k[1] # h[1]
      BY <1>4, <3>1, <3>2 DEF Replaced, EntryOf
    <3>3. CASE k[1] = h[1]
      <4>1. k[2] # h[2]
        BY <2>1, <2>5, <3>1, <3>3
      <4>2. QED
        BY <2>1, <2>2, <2>4, <3>1, <3>3, <4>1 DEF EntryOf
    <3>4. QED
      BY <3>2, <3>3
  <2>6. QED
    BY <2>1, <2>2, <2>4, <2>5 DEF EntryOf
<1>8. QED
  BY <1>1, <1>2, <1>3, <1>6, <1>7

\* c_xdfput of a record of the same length: what is saved under the handle changes too.
LEMMA OverwriteSimulated ==
    ASSUME TypeOK, TypeOK', OneWriterOnly, SharedInv, SharedInv', NEW p \in Procs,
           NEW h \in Handles, NEW v \in Vals, PutInPlace(p, h, v)
    PROVE  Store!Overwrite(h, v)
<1>1. OneWriterInv /\ OneWriterInv' /\ ReadersInv /\ SelfAddressed /\ SessionsShadow
  BY DEF SharedInv, OneWriterInv
<1>2. PICK D : D = dir_page[p]
  OBVIOUS
<1>3. PICK E : E = dir_page'[p]
  OBVIOUS
<1>4. PICK m : m = npages[p]
  OBVIOUS
<1>5. PICK e : e = EntryOf(D, h)
  OBVIOUS
<1>6. PICK r : r = [idtyp |-> LIVE, val |-> v, addr |-> e.addr, lng |-> e.lng]
  OBVIOUS
<1>7. /\ Retouched(p, h, r) /\ e.idtyp = LIVE
      /\ dcell' = [a \in Addr |-> IF a \in Extent(e) THEN r ELSE dcell[a]]
  BY <1>1, <1>2, <1>5, <1>6, PutInPlaceFacts
<1>8. /\ OnlyEntry(p) /\ Writing(p) /\ pc'[p] = pc[p] /\ npages'[p] = m
      /\ h[1] < m /\ Replaced(D, E, h, r)
      /\ e.idtyp # SPECIAL /\ r.idtyp # SPECIAL /\ r.addr = e.addr /\ r.lng = e.lng
      /\ hdr'[p] = [hdr[p] EXCEPT !.nrec = Cardinality(Live(dir_page'[p], npages[p]))]
      /\ dhdr' = dhdr /\ \A a \in Addr : SameUnit(a)
  BY <1>2, <1>3, <1>4, <1>5, <1>7, Zenon DEF Retouched
<1>9. SessionInv(p) /\ dhdr.fsiz <= hdr[p].fsiz
  BY <1>1, <1>8, WriterFacts
<1>10. D \in [PageIdx -> Page] /\ m \in Nat /\ m <= MAX_DIR_PAGES
  BY <1>2, <1>4, ProcType, ConstAssumption
<1>11. Writing(p)'
  <2>1. hdr'[p].rwflg = hdr[p].rwflg
    BY <1>8, ProcType DEF Header
  <2>2. QED
    BY <1>8, <2>1 DEF Writing, CanWrite
<1>12. h \in Live(D, m) /\ h \in Used(D, m) /\ Live(D, m) \subseteq Used(D, m)
  BY <1>5, <1>7, <1>8, <1>10, UsedHandle DEF Live, Used
<1>13. /\ Live(E, m) = Live(D, m) /\ EntryOf(E, h) = r
       /\ \A k \in Live(D, m) : k # h => EntryOf(E, k) = EntryOf(D, k)
  BY <1>2, <1>3, <1>4, <1>5, <1>6, <1>7, RewrittenRecords
<1>14. e.addr \in Addr /\ dcell'[e.addr].val = v
  <2>1. e.addr \in Addr /\ e.addr \in Extent(e)
    BY <1>2, <1>4, <1>5, <1>9, <1>12, RecordsInCore
  <2>2. QED
    BY <1>6, <1>7, <2>1
<1>15. ASSUME NEW k \in Used(D, m), k # h
       PROVE  EntryOf(D, k).addr \in Addr /\ dcell'[EntryOf(D, k).addr] = dcell[EntryOf(D, k).addr]
  <2>1. EntryOf(D, k).addr \in Addr /\ EntryOf(D, k).addr \in Extent(EntryOf(D, k))
    BY <1>2, <1>4, <1>9, RecordsInCore
  <2>2. EntryOf(D, k).addr \notin Extent(e)
    BY <1>2, <1>4, <1>5, <1>9, <1>12, <1>15, <2>1, RecordsInCore
  <2>3. QED
    BY <1>7, <2>1, <2>2
<1>16. PICK V : V = RecordsIn(dcell, D, m)
  OBVIOUS
<1>17. PICK W : W = RecordsIn(dcell', E, m)
  OBVIOUS
<1>18. W = Store!With(V, h, v)
  <2>1. DOMAIN V \cup {h} = Live(D, m)
    BY <1>12, <1>16 DEF RecordsIn
  <2>2. W = [k \in Live(D, m) |-> [key |-> EntryOf(E, k).val,
                                   data |-> dcell'[EntryOf(E, k).addr].val]]
    BY <1>13, <1>17 DEF RecordsIn
  <2>3. ASSUME NEW k \in Live(D, m)
        PROVE  [key |-> EntryOf(E, k).val, data |-> dcell'[EntryOf(E, k).addr].val]
                = IF k = h THEN [key |-> v, data |-> v] ELSE V[k]
    <3>1. CASE k = h
      BY <1>6, <1>13, <1>14, <3>1
    <3>2. CASE k # h
      BY <1>12, <1>13, <1>15, <1>16, <3>2 DEF RecordsIn
    <3>3. QED
      BY <3>1, <3>2
  <2>4. W = [k \in Live(D, m) |-> IF k = h THEN [key |-> v, data |-> v] ELSE V[k]]
    BY <2>2, <2>3, Zenon
  <2>5. QED
    BY <2>1, <2>4 DEF Store!With
<1>19. ViewOf = Store!Session(V) /\ ViewOf' = Store!Session(W)
  BY <1>2, <1>3, <1>4, <1>8, <1>11, <1>16, <1>17, ViewDetermined, KnownNext DEF ViewKnown
<1>20. SavedKnown /\ SavedKnown' /\ SelfAddressed'
  BY <1>1, SavedDetermined, KnownNext DEF OneWriterInv
<1>21. SavedOf' = IF h \in DOMAIN SavedOf.recs
                  THEN [SavedOf EXCEPT !.recs[h].data = v] ELSE SavedOf
  <2>1. CASE dhdr.fsiz = 0 \/ dhdr.rwflg # RDMODE \/ dhdr.nbd = 0
    <3>1. SavedOf' = SavedOf /\ SavedOf.recs = Store!NoRecords
      <4>1. CASE dhdr.fsiz = 0
        <5>1. /\ SavedOf = [state |-> "empty", recs |-> Store!NoRecords]
              /\ SavedOf' = [state |-> "empty", recs |-> Store!NoRecords]
          BY <1>1, <1>8, <1>20, <4>1 DEF SavedKnown
        <5>2. QED
          BY <5>1
      <4>2. CASE dhdr.fsiz # 0
        <5>1. SavedOf = Store!Locked /\ SavedOf' = Store!Locked
          BY <1>1, <1>8, <1>20, <2>1, <4>2 DEF SavedKnown
        <5>2. QED
          BY <5>1 DEF Store!Locked
      <4>3. QED
        BY <4>1, <4>2
    <3>2. DOMAIN SavedOf.recs = {}
      BY <3>1 DEF Store!NoRecords
    <3>3. QED
      BY <3>1, <3>2
  <2>2. CASE dhdr.rwflg = RDMODE /\ dhdr.nbd # 0
    <3>1. dhdr.nbd > 0 /\ Shadow(p)
      BY <1>1, <1>8, <2>2, FieldType DEF TypeOK, SessionsShadow
    <3>2. PICK c \in [0 .. dhdr.nbd - 1 -> DiskPages] :
             WholeChain(c) /\ \A i \in 0 .. dhdr.nbd - 1 : c[i] = D[i].addr
      BY <1>2, <3>1 DEF Shadow
    <3>3. /\ c \in [0 .. dhdr'.nbd - 1 -> DiskPages'] /\ WholeChain(c)'
          /\ \A i \in 0 .. dhdr.nbd - 1 : dcell'[c[i]] = dcell[c[i]]
      BY <1>1, <1>8, <3>2, ChainKept
    <3>4. PICK C : C = DiskDir(c)
      OBVIOUS
    <3>5. PICK n : n = dhdr.nbd
      OBVIOUS
    <3>6. /\ n \in Nat /\ n <= m /\ \A i \in 0 .. n - 1 : C[i] = dcell[c[i]]
          /\ DiskDir(c)' = C
      <4>1. n \in Nat /\ n <= m
        BY <1>4, <3>1, <3>5, FieldType DEF TypeOK, Shadow
      <4>2. C = [i \in 0 .. n - 1 |-> dcell[c[i]]]
        BY <3>2, <3>4, <3>5 DEF DiskDir
      <4>3. DiskDir(c)' = [i \in 0 .. n - 1 |-> dcell'[c[i]]]
        BY <3>2, <3>5 DEF DiskDir
      <4>4. QED
        BY <3>3, <3>5, <4>1, <4>2, <4>3
    <3>7. PICK R : R = RecordsIn(dcell, C, n)
      OBVIOUS
    <3>8. PICK S : S = RecordsIn(dcell', C, n)
      OBVIOUS
    <3>9. SavedOf = Store!Whole(R) /\ SavedOf' = Store!Whole(S)
      <4>1. SavedOf = Store!Whole(RecordsIn(dcell, DiskDir(c), dhdr.nbd))
        BY <1>1, <1>20, <2>2, <3>2 DEF SavedKnown
      <4>2. SavedOf' = Store!Whole(RecordsIn(dcell', DiskDir(c)', dhdr'.nbd))
        BY <1>8, <1>20, <2>2, <3>3 DEF SavedKnown
      <4>3. QED
        BY <1>8, <3>4, <3>5, <3>6, <3>7, <3>8, <4>1, <4>2
    <3>10. \A k \in Live(C, n) : EntryOf(C, k).addr = EntryOf(D, k).addr /\ k \in Used(D, m)
      <4> TAKE k \in Live(C, n)
      <4>1. k \in Handles /\ k[1] < n /\ k[1] \in 0 .. n - 1 /\ EntryOf(C, k).idtyp = LIVE
        BY <3>6 DEF Live, Handles, PageIdx
      <4>2. EntryOf(C, k) = OldEntry(p, k)
        BY <1>2, <3>2, <3>5, <3>6, <4>1 DEF OldEntry, EntryOf
      <4>3. /\ EntryOf(D, k).idtyp # SPECIAL /\ EntryOf(D, k).addr = EntryOf(C, k).addr
        BY <1>2, <3>1, <3>5, <4>1, <4>2 DEF Shadow, LIVE, SPECIAL
      <4>4. QED
        BY <1>10, <3>6, <4>1, <4>3 DEF Used
    <3>11. /\ \A k \in Live(C, n) : k # h => S[k] = R[k]
           /\ h \in Live(C, n) => S[h] = [key |-> R[h].key, data |-> v]
      <4>1. \A k \in Live(C, n) : k # h => S[k] = R[k]
        BY <1>15, <3>7, <3>8, <3>10 DEF RecordsIn
      <4>2. h \in Live(C, n) => S[h] = [key |-> R[h].key, data |-> v]
        BY <1>5, <1>14, <3>7, <3>8, <3>10 DEF RecordsIn
      <4>3. QED
        BY <4>1, <4>2
    <3>12. /\ DOMAIN R = Live(C, n)
           /\ R = [k \in Live(C, n) |-> R[k]] /\ S = [k \in Live(C, n) |-> S[k]]
           /\ h \in Live(C, n) => R[h] = [key |-> R[h].key, data |-> R[h].data]
      BY <3>7, <3>8 DEF RecordsIn
    <3>13. CASE h \in Live(C, n)
      <4>1. S = [R EXCEPT ![h].data = v]
        <5>1. [R[h] EXCEPT !.data = v] = [key |-> R[h].key, data |-> v]
          <6>1. PICK x, y : R[h] = [key |-> x, data |-> y]
            BY <3>12, <3>13
          <6>2. QED
            BY <6>1
        <5>2. QED
          BY <3>11, <3>12, <3>13, <5>1
      <4>2. Store!Whole(S) = [Store!Whole(R) EXCEPT !.recs[h].data = v]
        BY <4>1 DEF Store!Whole
      <4>3. h \in DOMAIN SavedOf.recs
        BY <3>9, <3>12, <3>13 DEF Store!Whole
      <4>4. QED
        BY <3>9, <4>2, <4>3
    <3>14. CASE h \notin Live(C, n)
      <4>1. S = R
        BY <3>11, <3>12, <3>14
      <4>2. h \notin DOMAIN SavedOf.recs
        BY <3>9, <3>12, <3>14 DEF Store!Whole
      <4>3. QED
        BY <3>9, <4>1, <4>2
    <3>15. QED
      BY <3>13, <3>14
  <2>3. QED
    BY <2>1, <2>2
<1>22. h \in DOMAIN V
  BY <1>12, <1>16 DEF RecordsIn
<1>23. QED
  BY <1>18, <1>19, <1>21, <1>22 DEF Store!Overwrite, Store!Session


\* The live records after an entry that is not live any more was replaced.
LEMMA LeftRecords ==
    ASSUME NEW D \in [PageIdx -> Page], NEW E, NEW n \in Nat, n <= MAX_DIR_PAGES,
           NEW h \in Handles, h[1] < n, NEW r, Replaced(D, E, h, r),
           EntryOf(D, h).idtyp # SPECIAL, r.idtyp # SPECIAL, r.idtyp # LIVE,
           r.addr = EntryOf(D, h).addr, r.lng = EntryOf(D, h).lng
    PROVE  /\ Live(E, n) = Live(D, n) \ {h}
           /\ \A k \in Live(E, n) : EntryOf(E, k) = EntryOf(D, k)
<1>1. Live(E, n) = Live(D, n) \ {h}
  BY ReplacedEntry
<1>2. h[1] \in PageIdx /\ h[2] \in Slot /\ h = <<h[1], h[2]>>
  BY DEF Handles
<1>3. D[h[1]] \in Page /\ D[h[1]].entry \in [Slot -> Entry]
  BY <1>2, FieldType
<1>4. E[h[1]] = [D[h[1]] EXCEPT !.entry[h[2]] = r]
  BY DEF Replaced
<1>5. E[h[1]].entry = [D[h[1]].entry EXCEPT ![h[2]] = r]
  BY <1>3, <1>4 DEF Page
<1>6. ASSUME NEW k \in Live(E, n) PROVE EntryOf(E, k) = EntryOf(D, k)
  <2>1. k[1] \in PageIdx /\ k[2] \in Slot /\ k = <<k[1], k[2]>> /\ k # h
    BY <1>1 DEF Live, Handles
  <2>2. CASE k[1] # h[1]
    BY <2>1, <2>2 DEF Replaced, EntryOf
  <2>3. CASE k[1] = h[1]
    <3>1. k[2] # h[2]
      BY <1>2, <2>1, <2>3
    <3>2. QED
      BY <1>2, <1>3, <1>5, <2>1, <2>3, <3>1 DEF EntryOf
  <2>4. QED
    BY <2>2, <2>3
<1>7. QED
  BY <1>1, <1>6

\* c_xdfdel.
LEMMA RemoveSimulated ==
    ASSUME TypeOK, TypeOK', OneWriterOnly, SharedInv, SharedInv', NEW p \in Procs,
           NEW h \in Handles, Delete(p, h)
    PROVE  Store!Remove(h)
<1>1. OneWriterInv /\ OneWriterInv'
  BY DEF SharedInv
<1>2. PICK D : D = dir_page[p]
  OBVIOUS
<1>3. PICK E : E = dir_page'[p]
  OBVIOUS
<1>4. PICK m : m = npages[p]
  OBVIOUS
<1>5. PICK r : r = [EntryOf(D, h) EXCEPT !.idtyp = DELETED]
  OBVIOUS
<1>6. Retouched(p, h, r) /\ EntryOf(D, h).idtyp = LIVE /\ dcell' = dcell
  BY <1>1, <1>2, <1>5, DeleteFacts
<1>7. /\ Writing(p) /\ pc'[p] = pc[p] /\ npages'[p] = m
      /\ h[1] < m /\ Replaced(D, E, h, r)
      /\ EntryOf(D, h).idtyp # SPECIAL /\ r.idtyp # SPECIAL
      /\ r.addr = EntryOf(D, h).addr /\ r.lng = EntryOf(D, h).lng
      /\ hdr'[p] = [hdr[p] EXCEPT !.nrec = Cardinality(Live(dir_page'[p], npages[p]))]
      /\ dhdr' = dhdr
  BY <1>2, <1>3, <1>4, <1>6, Zenon DEF Retouched
<1>8. D \in [PageIdx -> Page] /\ m \in Nat /\ m <= MAX_DIR_PAGES
  BY <1>2, <1>4, ProcType, ConstAssumption
<1>9. r.idtyp # LIVE
  <2>1. D[h[1]].entry[h[2]] \in Entry
    BY <1>8, FieldType DEF Handles
  <2>2. QED
    BY <1>5, <2>1 DEF EntryOf, Entry, NoEntry, LIVE, DELETED
<1>10. /\ Live(E, m) = Live(D, m) \ {h}
       /\ \A k \in Live(E, m) : EntryOf(E, k) = EntryOf(D, k)
  BY <1>7, <1>8, <1>9, LeftRecords
<1>11. Writing(p)'
  <2>1. hdr'[p].rwflg = hdr[p].rwflg
    BY <1>7, ProcType DEF Header
  <2>2. QED
    BY <1>7, <2>1 DEF Writing, CanWrite
<1>12. SavedOf' = SavedOf
  BY <1>1, <1>6, <1>7, SavedSteady
<1>13. PICK V : V = RecordsIn(dcell, D, m)
  OBVIOUS
<1>14. PICK W : W = RecordsIn(dcell', E, m)
  OBVIOUS
<1>15. W = Store!Without(V, h) /\ h \in DOMAIN V
  <2>1. DOMAIN V = Live(D, m) /\ h \in Live(D, m)
    BY <1>6, <1>7, <1>13 DEF RecordsIn, Live
  <2>2. W = [k \in Live(D, m) \ {h} |-> [key |-> EntryOf(E, k).val,
                                         data |-> dcell[EntryOf(E, k).addr].val]]
    BY <1>6, <1>10, <1>14 DEF RecordsIn
  <2>3. \A k \in Live(D, m) \ {h} :
           V[k] = [key |-> EntryOf(E, k).val, data |-> dcell[EntryOf(E, k).addr].val]
    BY <1>10, <1>13 DEF RecordsIn
  <2>4. W = [k \in Live(D, m) \ {h} |-> V[k]]
    BY <2>2, <2>3, Zenon
  <2>5. QED
    BY <2>1, <2>4 DEF Store!Without
<1>16. ViewOf = Store!Session(V) /\ ViewOf' = Store!Session(W)
  BY <1>2, <1>3, <1>4, <1>7, <1>11, <1>13, <1>14, ViewDetermined, KnownNext DEF ViewKnown
<1>17. QED
  BY <1>12, <1>15, <1>16 DEF Store!Remove, Store!Session

\* Erasing what is deleted and writing the pages: the file has the flag, and no unit of a
\* live record is touched.
LEMMA FlushSimulated ==
    ASSUME TypeOK, TypeOK', OneWriterOnly, SharedInv, SharedInv', NEW p \in Procs,
           NEW i \in PageIdx, FlushErase(p, i) \/ FlushPage(p, i)
    PROVE  StoreStays
<1>1. OneWriterInv /\ OneWriterInv'
  BY DEF SharedInv
<1>2. PICK D : D = dir_page[p]
  OBVIOUS
<1>3. PICK E : E = dir_page'[p]
  OBVIOUS
<1>4. PICK m : m = npages[p]
  OBVIOUS
<1>5. /\ Writing(p) /\ SessionInv(p) /\ dhdr.rwflg # RDMODE /\ i \in 0 .. m - 1
      /\ dhdr' = dhdr /\ pc'[p] = pc[p] /\ hdr'[p] = hdr[p] /\ npages'[p] = m
  BY <1>1, <1>4, FlushFacts DEF FlushErase, FlushPage
<1>6. SavedOf' = SavedOf
  BY <1>1, <1>5, SavedSteady
<1>7. D \in [PageIdx -> Page] /\ m \in Nat /\ m <= MAX_DIR_PAGES
  BY <1>2, <1>4, ProcType, ConstAssumption
<1>8. Live(D, m) \subseteq Used(D, m)
  BY <1>7, UsedHandle
<1>9. Writing(p)'
  BY <1>5 DEF Writing, CanWrite
<1>10. CASE FlushErase(p, i)
  <2>1. PICK h, r : /\ Retouched(p, h, r) /\ r.idtyp = ERASED
                    /\ EntryOf(D, h).idtyp = DELETED
                    /\ \A a \in Addr : a # EntryOf(D, h).addr => dcell'[a] = dcell[a]
    BY <1>1, <1>2, <1>10, FlushEraseFacts, Zenon
  <2>2. /\ h \in Handles /\ h[1] < m /\ Replaced(D, E, h, r)
        /\ EntryOf(D, h).idtyp # SPECIAL /\ r.idtyp # SPECIAL
        /\ r.addr = EntryOf(D, h).addr /\ r.lng = EntryOf(D, h).lng
    BY <1>2, <1>3, <1>4, <2>1, Zenon DEF Retouched
  <2>3. h \notin Live(D, m) /\ h \in Used(D, m) /\ r.idtyp # LIVE
    BY <2>1, <2>2 DEF Live, Used, LIVE, DELETED, ERASED
  <2>4. /\ Live(E, m) = Live(D, m) \ {h}
        /\ \A k \in Live(E, m) : EntryOf(E, k) = EntryOf(D, k)
    BY <1>7, <2>2, <2>3, LeftRecords
  <2>5. Live(E, m) = Live(D, m)
    BY <2>3, <2>4
  <2>6. ASSUME NEW k \in Live(D, m)
        PROVE  dcell'[EntryOf(D, k).addr] = dcell[EntryOf(D, k).addr]
    <3>1. k \in Used(D, m) /\ k # h
      BY <1>8, <2>3
    <3>2. EntryOf(D, k).addr \in Addr /\ EntryOf(D, k).addr \in Extent(EntryOf(D, k))
      BY <1>2, <1>4, <1>5, <3>1, RecordsInCore
    <3>3. EntryOf(D, h).addr \in Extent(EntryOf(D, h))
      BY <1>2, <1>4, <1>5, <2>3, RecordsInCore
    <3>4. EntryOf(D, k).addr \notin Extent(EntryOf(D, h))
      BY <1>2, <1>4, <1>5, <2>3, <3>1, <3>2, RecordsInCore
    <3>5. QED
      BY <2>1, <3>2, <3>3, <3>4
  <2>7. RecordsIn(dcell', E, m) = RecordsIn(dcell, D, m)
    BY <2>4, <2>5, <2>6, RecordsEqual
  <2>8. QED
    BY <1>2, <1>3, <1>4, <1>5, <1>6, <1>9, <2>7, ViewDetermined, KnownNext
       DEF ViewKnown, StoreStays
<1>11. CASE FlushPage(p, i)
  <2>1. E = D /\ dcell' = [dcell EXCEPT ![D[i].addr] = D[i]]
    BY <1>2, <1>3, <1>11 DEF FlushPage
  <2>2. ASSUME NEW k \in Live(D, m)
        PROVE  dcell'[EntryOf(D, k).addr] = dcell[EntryOf(D, k).addr]
    <3>1. k \in Used(D, m)
      BY <1>8
    <3>2. /\ EntryOf(D, k).addr \in Addr /\ EntryOf(D, k).addr \in Extent(EntryOf(D, k))
          /\ D[i].addr \notin Extent(EntryOf(D, k))
      BY <1>2, <1>4, <1>5, <3>1, RecordsInCore
    <3>3. QED
      BY <2>1, <3>2 DEF TypeOK
  <2>3. RecordsIn(dcell', D, m) = RecordsIn(dcell, D, m)
    BY <2>2, RecordsEqual
  <2>4. QED
    BY <1>2, <1>3, <1>4, <1>5, <1>6, <1>9, <2>1, <2>3, ViewDetermined, KnownNext
       DEF ViewKnown, StoreStays
<1>12. QED
  BY <1>10, <1>11


\* c_xdfcls begins: with the flag in the header nobody may write but the session.
LEMMA LockSimulated ==
    ASSUME TypeOK, TypeOK', OneWriterOnly, SharedInv, SharedInv', NEW p \in Procs,
           NEW checkpoint \in BOOLEAN, CloseBegin(p, checkpoint)
    PROVE  Store!Lock \/ StoreStays
<1>1. OneWriterInv /\ OneWriterInv'
  BY DEF SharedInv
<1>2. /\ pc[p] = "open" /\ pc'[p] = "flush" /\ hdr'[p] = hdr[p] /\ dir_page'[p] = dir_page[p]
      /\ npages'[p] = npages[p]
      /\ dhdr' = (IF CanWrite(p) THEN hdr[p] ELSE dhdr) /\ dcell' = dcell /\ dsize' = dsize
      /\ Writing(p)' = CanWrite(p) /\ Writing(p) = CanWrite(p)
  BY DEF CloseBegin, TypeOK, core, CanWrite, Writing
<1>3. OnlyEntry(p)
  BY DEF CloseBegin, OnlyEntry, TypeOK, core
<1>4. CASE ~CanWrite(p)
  <2>1. dhdr' = dhdr /\ UNCHANGED disk
    BY <1>2, <1>4 DEF disk
  <2>2. QED
    BY <1>1, <1>2, <1>3, <1>4, <2>1, ViewSteady, SavedSteady DEF StoreStays
<1>5. CASE CanWrite(p)
  <2>1. SessionInv(p) /\ dhdr' = hdr[p]
    BY <1>1, <1>2, <1>5 DEF OneWriterInv
  <2>2. dhdr'.fsiz # 0 /\ dhdr'.rwflg # RDMODE
    BY <1>5, <2>1, SessionFacts, ConstAssumption DEF CanWrite
  <2>3. SavedOf' = Store!Locked
    BY <1>1, <2>2, KnownNext DEF SavedKnown, OneWriterInv
  <2>4. /\ ViewOf = Store!Session(RecordsIn(dcell, dir_page[p], npages[p]))
        /\ ViewOf' = Store!Session(RecordsIn(dcell, dir_page[p], npages[p]))
    BY <1>2, <1>5, ViewDetermined, KnownNext DEF ViewKnown
  <2>5. QED
    BY <2>3, <2>4 DEF Store!Lock, Store!Session
<1>6. QED
  BY <1>4, <1>5

\* The last write of c_xdfcls: the next opening finds what the session saw.
LEMMA CloseSimulated ==
    ASSUME TypeOK, TypeOK', OneWriterOnly, SharedInv, SharedInv', NEW p \in Procs, CloseEnd(p)
    PROVE  Store!Close \/ StoreStays
<1>1. OneWriterInv /\ OneWriterInv' /\ ReadersInv /\ SelfAddressed /\ SelfAddressed'
  BY DEF SharedInv, OneWriterInv
<1>2. /\ OnlyEntry(p) /\ pc[p] = "flush" /\ pc'[p] = "closed"
      /\ dhdr' = IF CanWrite(p) THEN [hdr[p] EXCEPT !.rwflg = RDMODE] ELSE dhdr
      /\ dcell' = dcell /\ dsize' = dsize
  BY DEF CloseEnd, Forget, OnlyEntry, TypeOK
<1>3. ~Writing(p)' /\ (Writing(p) <=> CanWrite(p))
  <2>1. pc'[p] \notin {"open", "flush"} /\ pc[p] \in {"open", "flush"}
    BY <1>2
  <2>2. QED
    BY <2>1, Zenon DEF Writing
<1>4. CASE ~CanWrite(p)
  <2>1. dhdr' = dhdr /\ UNCHANGED disk
    BY <1>2, <1>4 DEF disk
  <2>2. QED
    BY <1>1, <1>2, <1>3, <1>4, <2>1, ViewSteady, SavedSteady DEF StoreStays
<1>5. CASE CanWrite(p)
  <2>1. PICK D : D = dir_page[p]
    OBVIOUS
  <2>2. PICK n : n = npages[p]
    OBVIOUS
  <2>3. SessionInv(p) /\ p \in Writers /\ dhdr'.rwflg = RDMODE /\ dhdr'.nbd = n /\ n \in Nat
    BY <1>1, <1>5, <2>2, CloseEndFacts, SessionFacts
  <2>4. PICK c \in [0 .. dhdr'.nbd - 1 -> DiskPages'] :
           /\ WholeChain(c)'
           /\ \A i \in 0 .. dhdr'.nbd - 1 : dcell[c[i]] = D[i]
    BY <1>1, <1>5, <2>1, CloseEndFacts
  <2>5. PICK C : C = [i \in 0 .. n - 1 |-> dcell[c[i]]]
    OBVIOUS
  <2>6. DiskDir(c)' = C
    BY <1>2, <2>3, <2>4, <2>5 DEF DiskDir
  <2>7. \A i \in 0 .. n - 1 : C[i] = D[i]
    BY <2>3, <2>4, <2>5
  <2>8. \A h \in Handles : h[1] < n => EntryOf(C, h) = EntryOf(D, h)
    <3> TAKE h \in Handles
    <3>1. h[1] < n => h[1] \in 0 .. n - 1
      BY <2>3 DEF Handles, PageIdx
    <3>2. QED
      BY <2>7, <3>1 DEF EntryOf
  <2>9. Live(C, n) = Live(D, n) /\ \A h \in Live(D, n) : EntryOf(C, h) = EntryOf(D, h)
    BY <2>8 DEF Live
  <2>10. RecordsIn(dcell', C, n) = RecordsIn(dcell, D, n)
    BY <1>2, <2>9, RecordsEqual
  <2>11. SavedOf' = Store!Whole(RecordsIn(dcell, D, n))
    <3>1. SavedOf' = Store!Whole(RecordsIn(dcell', DiskDir(c)', dhdr'.nbd))
      BY <1>1, <2>3, <2>4, KnownNext DEF SavedKnown
    <3>2. QED
      BY <2>3, <2>6, <2>10, <3>1
  <2>12. SavedOf = Store!Locked
    <3>1. dhdr.rwflg # RDMODE /\ dhdr.fsiz # 0
      <4>1. hdr[p].fsiz = dhdr.fsiz
        BY <1>1, <1>2, <1>3, <1>5, WriterFacts
      <4>2. QED
        BY <1>2, <2>3, <4>1, SessionFacts, ConstAssumption DEF SessionInv
    <3>2. QED
      BY <1>1, <3>1, SavedDetermined DEF SavedKnown
  <2>13. ViewOf = Store!Session(RecordsIn(dcell, D, n)) /\ ViewOf' = Store!NoSession
    BY <1>3, <1>5, <2>1, <2>2, <2>3, ViewDetermined, ViewAlone DEF ViewKnown
  <2>14. QED
    BY <2>11, <2>12, <2>13 DEF Store!Close, Store!Session
<1>6. QED
  BY <1>4, <1>5

\* The end of a process, and the calls that change nothing of the records.
LEMMA OtherSimulated ==
    ASSUME TypeOK, TypeOK', OneWriterOnly, SharedInv, SharedInv', NEW p \in Procs,
           \/ \E mode \in {RDMODE, RWMODE, APPEND} : Open(p, mode)
           \/ PutDirFull(p) \/ CheckpointEnd(p) \/ CloseRefused(p) \/ Crash(p)
    PROVE  Store!Die \/ StoreStays
<1>1. OneWriterInv /\ OneWriterInv'
  BY DEF SharedInv
<1>2. OnlyEntry(p)
  BY DEF Open, PutDirFull, CheckpointEnd, CloseRefused, Crash, Forget, OnlyEntry, TypeOK, aux
<1>3. UNCHANGED disk
  BY DEF Open, PutDirFull, CheckpointEnd, CloseRefused, Crash, OneWriterOnly, CanWrite, disk
<1>4. dhdr' = dhdr /\ dcell' = dcell
  BY <1>3 DEF disk
<1>5. SavedOf' = SavedOf
  BY <1>1, <1>4, SavedSteady
<1>6. CASE \E mode \in {RDMODE, RWMODE, APPEND} : Open(p, mode)
  <2>1. ~Writing(p) /\ ~Writing(p)'
    BY <1>6 DEF Open, Writing, TypeOK
  <2>2. QED
    BY <1>2, <1>3, <1>5, <2>1, ViewSteady DEF StoreStays
<1>7. CASE PutDirFull(p) \/ CheckpointEnd(p)
  <2>1. /\ hdr'[p] = hdr[p] /\ dir_page'[p] = dir_page[p] /\ npages'[p] = npages[p]
        /\ Writing(p)' = Writing(p)
    BY <1>7 DEF PutDirFull, CheckpointEnd, TypeOK, Writing, CanWrite
  <2>2. CASE ~Writing(p)
    BY <1>2, <1>3, <1>5, <2>1, <2>2, ViewSteady DEF StoreStays
  <2>3. CASE Writing(p)
    <3>1. ViewOf = Store!Session(RecordsIn(dcell, dir_page[p], npages[p]))
      BY <2>3, ViewDetermined DEF ViewKnown
    <3>2. ViewOf' = Store!Session(RecordsIn(dcell', dir_page'[p], npages'[p]))
      BY <2>1, <2>3, KnownNext DEF ViewKnown
    <3>3. QED
      BY <1>4, <1>5, <2>1, <3>1, <3>2 DEF StoreStays
  <2>4. QED
    BY <2>2, <2>3
<1>8. CASE CloseRefused(p) \/ Crash(p)
  <2>1. ~Writing(p)'
    BY <1>8 DEF CloseRefused, Crash, Writing, TypeOK
  <2>2. CASE ~Writing(p)
    BY <1>2, <1>3, <1>5, <2>1, <2>2, ViewSteady DEF StoreStays
  <2>3. CASE Writing(p)
    <3>1. ViewOf' = Store!NoSession
      BY <2>1, <2>3, ViewAlone DEF Writing, CanWrite
    <3>2. ViewOf.on
      BY <2>3, ViewDetermined DEF ViewKnown, Store!Session
    <3>3. QED
      BY <1>5, <3>1, <3>2 DEF Store!Die
  <2>4. QED
    BY <2>2, <2>3
<1>9. QED
  BY <1>6, <1>7, <1>8


\* Each step of the file is a step of the store, or leaves it as it is.
LEMMA StoreStep ==
    ASSUME TypeOK, TypeOK', OneWriterOnly, SharedInv, SharedInv', [Next]_vars
    PROVE  Store!Next \/ StoreStays
<1>1. CASE UNCHANGED vars
  <2>1. /\ dhdr' = dhdr /\ dcell' = dcell /\ hdr' = hdr /\ pc' = pc
        /\ dir_page' = dir_page /\ npages' = npages
    BY <1>1 DEF vars, disk, core
  <2>2. SavedOf' = SavedOf
    BY <2>1, SavedSteady DEF SharedInv
  <2>3. \A p \in Procs : Writing(p)' <=> Writing(p)
    BY <2>1 DEF Writing, CanWrite
  <2>4. ViewKnown /\ ViewKnown'
    BY ViewDetermined, KnownNext
  <2>5. CASE \A p \in Procs : ~Writing(p)
    BY <2>2, <2>3, <2>4, <2>5 DEF ViewKnown, StoreStays
  <2>6. CASE \E p \in Procs : Writing(p)
    <3>1. PICK p \in Procs : Writing(p)
      BY <2>6
    <3>2. ViewOf = Store!Session(RecordsIn(dcell, dir_page[p], npages[p]))
      BY <2>4, <3>1 DEF ViewKnown
    <3>3. ViewOf' = Store!Session(RecordsIn(dcell', dir_page'[p], npages'[p]))
      BY <2>3, <2>4, <3>1 DEF ViewKnown
    <3>4. QED
      BY <2>1, <2>2, <3>2, <3>3 DEF StoreStays
  <2>7. QED
    BY <2>5, <2>6
<1>2. CASE Next
  <2>1. PICK p \in Procs :
           \/ Create(p)
           \/ \E mode \in {RDMODE, RWMODE, APPEND} : Open(p, mode)
           \/ LoadPage(p)
           \/ \E v \in Vals, n \in Lens : PutNew(p, v, n)
           \/ \E h \in Handles, v \in Vals, n \in Lens : PutMove(p, h, v, n)
           \/ \E h \in Handles, v \in Vals : PutInPlace(p, h, v)
           \/ PutDirFull(p)
           \/ \E h \in Handles : Delete(p, h)
           \/ \E checkpoint \in BOOLEAN : CloseBegin(p, checkpoint)
           \/ \E i \in PageIdx : FlushErase(p, i) \/ FlushPage(p, i)
           \/ CheckpointEnd(p) \/ CloseEnd(p) \/ CloseRefused(p)
           \/ Crash(p)
    BY <1>2, Zenon DEF Next
  <2>2. CASE Create(p)
    BY <2>2, CreateSimulated DEF Store!Next
  <2>3. CASE LoadPage(p)
    BY <2>3, LoadSimulated DEF Store!Next
  <2>4. CASE \E v \in Vals, n \in Lens : PutNew(p, v, n)
    <3>1. PICK v \in Vals, n \in Lens : PutNew(p, v, n)
      BY <2>4
    <3>2. pc[p] = "open" /\ CanWrite(p) /\ AddRecord(p, v, n, {})
      BY <3>1 DEF PutNew
    <3>3. {} \in SUBSET Handles /\ \A h \in {} : Valid(p, h)
      OBVIOUS
    <3>4. \E g \in Handles : Store!Add(g, v)
      BY <3>2, <3>3, AddSimulated
    <3>5. QED
      BY <3>4 DEF Store!Next
  <2>5. CASE \E h \in Handles, v \in Vals, n \in Lens : PutMove(p, h, v, n)
    <3>1. PICK h \in Handles, v \in Vals, n \in Lens : PutMove(p, h, v, n)
      BY <2>5
    <3>2. pc[p] = "open" /\ CanWrite(p) /\ Valid(p, h) /\ AddRecord(p, v, n, {h})
      BY <3>1 DEF PutMove
    <3>3. {h} \in SUBSET Handles /\ \A k \in {h} : Valid(p, k)
      BY <3>2
    <3>4. \E g \in Handles : Store!Move(h, g, v)
      BY <3>2, <3>3, AddSimulated
    <3>5. QED
      BY <3>4 DEF Store!Next
  <2>6. CASE \E h \in Handles, v \in Vals : PutInPlace(p, h, v)
    BY <2>6, OverwriteSimulated DEF Store!Next
  <2>7. CASE \E h \in Handles : Delete(p, h)
    BY <2>7, RemoveSimulated DEF Store!Next
  <2>8. CASE \E checkpoint \in BOOLEAN : CloseBegin(p, checkpoint)
    BY <2>8, LockSimulated DEF Store!Next
  <2>9. CASE \E i \in PageIdx : FlushErase(p, i) \/ FlushPage(p, i)
    BY <2>9, FlushSimulated
  <2>10. CASE CloseEnd(p)
    BY <2>10, CloseSimulated DEF Store!Next
  <2>11. CASE \/ \E mode \in {RDMODE, RWMODE, APPEND} : Open(p, mode)
              \/ PutDirFull(p) \/ CheckpointEnd(p) \/ CloseRefused(p) \/ Crash(p)
    BY <2>11, OtherSimulated DEF Store!Next
  <2>12. QED
    BY <2>1, <2>2, <2>3, <2>4, <2>5, <2>6, <2>7, <2>8, <2>9, <2>10, <2>11
<1>3. QED
  BY <1>1, <1>2

\* A file that one process at a time writes is a RecordStore: a session sees the records
\* by handle, a close makes them what the next session finds, and a session that dies
\* leaves what was saved, or a locked file.  Each page c_xdfopn reads and each write of a
\* close is a step of its own.
THEOREM StoreImplemented ==
    ASSUME OneWriterOnly
    PROVE  Spec => ImplementsStore
<1>1. Init => Store!Init
  <2> SUFFICES ASSUME Init PROVE Store!Init
    OBVIOUS
  <2>1. dhdr.fsiz = 0 /\ \A p \in Procs : ~Writing(p)
    BY DEF Init, EmptyHeader, Writing
  <2>2. TypeOK /\ SelfAddressed
    BY InitType, OneWriterInit DEF OneWriterInv
  <2>3. QED
    BY <2>1, <2>2, ViewDetermined, SavedDetermined DEF ViewKnown, SavedKnown, Store!Init
<1>2. TypeOK /\ SharedInv /\ TypeOK' /\ SharedInv' /\ [Next]_vars => [Store!Next]_(Store!vars)
  BY StoreStep DEF StoreStays, Store!vars
<1>3. Spec => [](TypeOK /\ SharedInv)
  BY SharedInvariant
<1>4. QED
  BY <1>1, <1>2, <1>3, PTL DEF Spec, ImplementsStore, Store!Spec

-----------------------------------------------------------------------------
(* What a writer reads back, if no process dies.                           *)

\* The data of the records of a directory are those their keys say.
Backed(cells, D, n) ==
    \A h \in Live(D, n) :
        \A a \in Extent(EntryOf(D, h)) : cells[a].val = EntryOf(D, h).val

\* Between two sessions it is the directory on disk that agrees with the data.
ReadBackInv ==
    /\ \A p \in Procs : Writing(p) => Backed(dcell, dir_page[p], npages[p])
    /\ (\A p \in Procs : ~Writing(p)) /\ dhdr.rwflg = RDMODE /\ dhdr.nbd > 0 =>
          \E c \in [0 .. dhdr.nbd - 1 -> DiskPages] :
             WholeChain(c) /\ Backed(dcell, DiskDir(c), dhdr.nbd)

\* A session in progress is that of the only writer.
LEMMA SessionBacked ==
    ASSUME OneWriterOnly, NEW p \in Writers, Writing(p)',
           Backed(dcell', dir_page'[p], npages'[p])
    PROVE  ReadBackInv'
<1>1. \A q \in Procs : Writing(q)' => q = p
  BY DEF OneWriterOnly, Writing, CanWrite
<1>2. p \in Procs
  BY ConstAssumption
<1>3. QED
  BY <1>1, <1>2 DEF ReadBackInv, Backed, Live, EntryOf

\* A step that leaves the disk and the directories of the sessions alone.
LEMMA SteadyBacked ==
    ASSUME TypeOK, OneWriterInv, ReadBackInv, UNCHANGED disk,
           \A q \in Procs : /\ Writing(q)' <=> Writing(q)
                            /\ Writing(q) => /\ dir_page'[q] = dir_page[q]
                                             /\ npages'[q] = npages[q]
    PROVE  ReadBackInv'
<1>2. dcell' = dcell /\ dhdr' = dhdr
  BY DEF disk
<1>3. ASSUME NEW q \in Procs, Writing(q)'
      PROVE  Backed(dcell', dir_page'[q], npages'[q])
  BY <1>2, <1>3 DEF ReadBackInv
<1>4. ASSUME \A q \in Procs : ~Writing(q)', dhdr'.rwflg = RDMODE, dhdr'.nbd > 0
      PROVE  \E c \in [0 .. dhdr'.nbd - 1 -> DiskPages'] :
                WholeChain(c)' /\ Backed(dcell', DiskDir(c)', dhdr'.nbd)
  <2>1. \A q \in Procs : ~Writing(q)
    BY <1>4
  <2>2. PICK c \in [0 .. dhdr.nbd - 1 -> DiskPages] :
           WholeChain(c) /\ Backed(dcell, DiskDir(c), dhdr.nbd)
    BY <1>2, <1>4, <2>1 DEF ReadBackInv
  <2>3. c \in [0 .. dhdr'.nbd - 1 -> DiskPages'] /\ WholeChain(c)'
    BY <2>2, DiskSteady DEF OneWriterInv
  <2>4. DiskDir(c)' = DiskDir(c)
    BY <1>2 DEF DiskDir
  <2>5. Backed(dcell', DiskDir(c)', dhdr'.nbd)
    BY <1>2, <2>2, <2>4
  <2>6. QED
    BY <2>3, <2>5
<1>5. QED
  BY <1>3, <1>4 DEF ReadBackInv, Backed, Live, EntryOf

\* Such a step of a process without session.
LEMMA IdleBacked ==
    ASSUME TypeOK, OneWriterInv, ReadBackInv, NEW p \in Procs, OnlyEntry(p), UNCHANGED disk,
           ~Writing(p), ~Writing(p)'
    PROVE  ReadBackInv'
<1>1. \A q \in Procs : q # p => /\ dir_page'[q] = dir_page[q] /\ npages'[q] = npages[q]
                                /\ Writing(q)' = Writing(q)
  BY DEF OnlyEntry, Writing, CanWrite
<1>2. QED
  BY <1>1, SteadyBacked

\* The records a session adds or rewrites have the data of their keys, the units of the
\* others are left alone.
LEMMA WorkBacked ==
    ASSUME TypeOK, TypeOK', OneWriterOnly, SharedInv, ReadBackInv, NEW p \in Procs,
           \/ \E v \in Vals, n \in Lens, old \in SUBSET Handles :
                 /\ pc[p] = "open" /\ CanWrite(p) /\ \A h \in old : Valid(p, h)
                 /\ AddRecord(p, v, n, old)
           \/ \E h \in Handles, v \in Vals : PutInPlace(p, h, v)
           \/ \E h \in Handles : Delete(p, h)
           \/ \E i \in PageIdx : FlushErase(p, i) \/ FlushPage(p, i)
    PROVE  ReadBackInv'
<1>1. OneWriterInv
  BY DEF SharedInv
<1>2. PICK D : D = dir_page[p]
  OBVIOUS
<1>3. PICK E : E = dir_page'[p]
  OBVIOUS
<1>4. PICK m : m = npages[p]
  OBVIOUS
<1>5. PICK N : N = npages'[p]
  OBVIOUS
<1>6. Writing(p)
  <2>1. CASE \E i \in PageIdx : FlushErase(p, i) \/ FlushPage(p, i)
    BY <1>1, <2>1, FlushFacts DEF FlushErase, FlushPage
  <2>2. CASE ~\E i \in PageIdx : FlushErase(p, i) \/ FlushPage(p, i)
    BY <2>2 DEF Writing, PutInPlace, Delete
  <2>3. QED
    BY <2>1, <2>2
<1>7. SessionInv(p) /\ p \in Writers /\ Backed(dcell, D, m)
  BY <1>1, <1>2, <1>4, <1>6 DEF OneWriterInv, Writing, CanWrite, ReadBackInv
<1>8. D \in [PageIdx -> Page] /\ m \in Nat /\ m <= MAX_DIR_PAGES
  BY <1>2, <1>4, ProcType, ConstAssumption
<1>9. Live(D, m) \subseteq Used(D, m)
  BY <1>8, UsedHandle
<1>10. \A h \in Live(D, m), a \in Addr :
          a \in Extent(EntryOf(D, h)) => dcell[a].val = EntryOf(D, h).val
  BY <1>7 DEF Backed
<1>11. SUFFICES Writing(p)' /\ Backed(dcell', E, N)
  BY <1>3, <1>5, <1>7, SessionBacked
<1>12. CASE \E v \in Vals, n \in Lens, old \in SUBSET Handles :
               /\ pc[p] = "open" /\ CanWrite(p) /\ \A h \in old : Valid(p, h)
               /\ AddRecord(p, v, n, old)
  <2>1. PICK v \in Vals, n \in Lens, old \in SUBSET Handles :
           /\ pc[p] = "open" /\ CanWrite(p) /\ \A h \in old : Valid(p, h)
           /\ AddRecord(p, v, n, old)
    BY <1>12
  <2>2. PICK at : at = SizeFor(p) + 1
    OBVIOUS
  <2>3. PICK e : e = [idtyp |-> LIVE, val |-> v, addr |-> at, lng |-> n]
    OBVIOUS
  <2>4. PICK g : AddedAs(hdr[p], D, E, m, N, g, e, old)
    BY <1>2, <1>3, <1>4, <1>5, <1>7, <2>1, <2>2, <2>3, AddedDirectory
  <2>5. /\ EntryOf(E, g) = e /\ Live(E, N) = (Live(D, m) \ old) \cup {g}
        /\ \A h \in Used(D, m) : h \notin old => EntryOf(E, h) = EntryOf(D, h)
    BY <2>4 DEF AddedAs
  <2>6. /\ at \in Nat /\ n \in Nat \ {0} /\ at + n - 1 <= MaxAddr /\ at > hdr[p].fsiz
        /\ pc'[p] = "open" /\ hdr'[p].rwflg = hdr[p].rwflg
        /\ \A a \in Addr : /\ a <= hdr[p].fsiz => dcell'[a] = dcell[a]
                           /\ a \in at .. at + n - 1 => dcell'[a].val = v
    BY <1>7, <2>1, <2>2, AddedRecord
  <2>7. Writing(p)'
    BY <2>1, <2>6 DEF Writing, CanWrite
  <2>8. ASSUME NEW h \in Live(E, N), NEW a \in Extent(EntryOf(E, h))
        PROVE  dcell'[a].val = EntryOf(E, h).val
    <3>1. CASE h = g
      <4>1. hdr[p].fsiz \in Nat
        BY <1>7, SessionFacts
      <4>2. a \in at .. at + n - 1 /\ a \in Addr
        BY <2>3, <2>5, <2>6, <2>8, <3>1, <4>1, ConstAssumption DEF Extent, Addr
      <4>3. QED
        BY <2>3, <2>5, <2>6, <3>1, <4>2
    <3>2. CASE h # g
      <4>1. h \in Live(D, m) /\ h \in Used(D, m) /\ EntryOf(E, h) = EntryOf(D, h)
        BY <1>9, <2>5, <2>8, <3>2
      <4>2. a \in Addr /\ a <= hdr[p].fsiz
        BY <1>2, <1>4, <1>7, <2>8, <4>1, RecordsInCore
      <4>3. QED
        BY <1>10, <2>6, <2>8, <4>1, <4>2
    <3>3. QED
      BY <3>1, <3>2
  <2>9. QED
    BY <2>7, <2>8 DEF Backed
<1>13. ASSUME NEW h, NEW r, Retouched(p, h, r), r.idtyp # LIVE,
              \A k \in Live(D, m) : k # h =>
                 \A a \in Extent(EntryOf(D, k)) : dcell'[a] = dcell[a]
       PROVE  Writing(p)' /\ Backed(dcell', E, N)
  <2>1. /\ pc'[p] = pc[p] /\ N = m /\ h \in Handles /\ h[1] < m /\ Replaced(D, E, h, r)
        /\ EntryOf(D, h).idtyp # SPECIAL /\ r.idtyp # SPECIAL
        /\ r.addr = EntryOf(D, h).addr /\ r.lng = EntryOf(D, h).lng
        /\ hdr'[p] = [hdr[p] EXCEPT !.nrec = Cardinality(Live(dir_page'[p], npages[p]))]
    BY <1>2, <1>3, <1>4, <1>5, <1>13, Zenon DEF Retouched
  <2>2. Writing(p)'
    <3>1. hdr'[p].rwflg = hdr[p].rwflg
      BY <2>1, ProcType DEF Header
    <3>2. QED
      BY <1>6, <2>1, <3>1 DEF Writing, CanWrite
  <2>3. /\ Live(E, m) = Live(D, m) \ {h}
        /\ \A k \in Live(E, m) : EntryOf(E, k) = EntryOf(D, k)
    BY <1>8, <1>13, <2>1, LeftRecords
  <2>4. \A k \in Live(E, m) : \A a \in Extent(EntryOf(E, k)) : dcell'[a].val = EntryOf(E, k).val
    BY <1>7, <1>13, <2>3 DEF Backed
  <2>5. QED
    BY <2>1, <2>2, <2>4 DEF Backed
<1>14. CASE \E h \in Handles : Delete(p, h)
  <2>1. PICK h \in Handles : Delete(p, h)
    BY <1>14
  <2>2. PICK r : r = [EntryOf(D, h) EXCEPT !.idtyp = DELETED]
    OBVIOUS
  <2>3. Retouched(p, h, r) /\ EntryOf(D, h).idtyp = LIVE /\ dcell' = dcell
    BY <1>1, <1>2, <2>1, <2>2, DeleteFacts
  <2>4. r.idtyp # LIVE
    <3>1. D[h[1]].entry[h[2]] \in Entry
      BY <1>8, FieldType DEF Handles
    <3>2. QED
      BY <2>2, <3>1 DEF EntryOf, Entry, NoEntry, LIVE, DELETED
  <2>5. QED
    BY <1>13, <2>3, <2>4
<1>15. CASE \E i \in PageIdx : FlushErase(p, i)
  <2>1. PICK i \in PageIdx : FlushErase(p, i)
    BY <1>15
  <2>2. PICK h, r : /\ Retouched(p, h, r) /\ r.idtyp = ERASED
                    /\ EntryOf(D, h).idtyp = DELETED
                    /\ \A a \in Addr : a # EntryOf(D, h).addr => dcell'[a] = dcell[a]
    BY <1>1, <1>2, <2>1, FlushEraseFacts, Zenon
  <2>3. h \in Used(D, m) /\ r.idtyp # LIVE
    <3>1. h \in Handles /\ h[1] < m
      BY <1>2, <1>4, <2>2, Zenon DEF Retouched
    <3>2. EntryOf(D, h).idtyp # SPECIAL /\ r.idtyp # LIVE
      BY <2>2 DEF DELETED, SPECIAL, LIVE, ERASED
    <3>3. QED
      BY <3>1, <3>2 DEF Used
  <2>4. ASSUME NEW k \in Live(D, m), k # h, NEW a \in Extent(EntryOf(D, k))
        PROVE  dcell'[a] = dcell[a]
    <3>1. k \in Used(D, m)
      BY <1>9
    <3>2. a \in Addr
      BY <1>2, <1>4, <1>7, <2>4, <3>1, RecordsInCore
    <3>3. EntryOf(D, h).addr \in Extent(EntryOf(D, h))
      BY <1>2, <1>4, <1>7, <2>3, RecordsInCore
    <3>4. EntryOf(D, h).addr \notin Extent(EntryOf(D, k))
      BY <1>2, <1>4, <1>7, <2>3, <2>4, <3>1, <3>3, RecordsInCore
    <3>5. QED
      BY <2>2, <2>4, <3>2, <3>4
  <2>5. QED
    BY <1>13, <2>2, <2>3, <2>4
<1>16. CASE \E h \in Handles, v \in Vals : PutInPlace(p, h, v)
  <2>1. PICK h \in Handles, v \in Vals : PutInPlace(p, h, v)
    BY <1>16
  <2>2. PICK e : e = EntryOf(D, h)
    OBVIOUS
  <2>3. PICK r : r = [idtyp |-> LIVE, val |-> v, addr |-> e.addr, lng |-> e.lng]
    OBVIOUS
  <2>4. /\ Retouched(p, h, r) /\ e.idtyp = LIVE
        /\ dcell' = [a \in Addr |-> IF a \in Extent(e) THEN r ELSE dcell[a]]
    BY <1>1, <1>2, <2>1, <2>2, <2>3, PutInPlaceFacts
  <2>5. /\ pc'[p] = pc[p] /\ N = m /\ h[1] < m
        /\ hdr'[p] = [hdr[p] EXCEPT !.nrec = Cardinality(Live(dir_page'[p], npages[p]))]
    BY <1>4, <1>5, <2>4, Zenon DEF Retouched
  <2>6. Writing(p)'
    <3>1. hdr'[p].rwflg = hdr[p].rwflg
      BY <2>5, ProcType DEF Header
    <3>2. QED
      BY <1>6, <2>5, <3>1 DEF Writing, CanWrite
  <2>7. h \in Used(D, m) /\ h \in Live(D, m)
    BY <2>2, <2>4, <2>5 DEF Live, Used, LIVE, SPECIAL
  <2>8. /\ Live(E, m) = Live(D, m) /\ EntryOf(E, h) = r
        /\ \A k \in Live(D, m) : k # h => EntryOf(E, k) = EntryOf(D, k)
    BY <1>2, <1>3, <1>4, <1>8, <2>2, <2>3, <2>4, <2>7, RewrittenRecords
  <2>9. ASSUME NEW k \in Live(E, m), NEW a \in Extent(EntryOf(E, k))
        PROVE  dcell'[a].val = EntryOf(E, k).val
    <3>1. k \in Live(D, m) /\ k \in Used(D, m)
      BY <1>9, <2>8, <2>9
    <3>2. CASE k = h
      <4>1. a \in Extent(e)
        BY <2>3, <2>8, <2>9, <3>2 DEF Extent
      <4>2. a \in Addr
        BY <1>2, <1>4, <1>7, <2>2, <2>7, <4>1, RecordsInCore
      <4>3. QED
        BY <2>4, <2>8, <3>2, <4>1, <4>2
    <3>3. CASE k # h
      <4>1. EntryOf(E, k) = EntryOf(D, k) /\ a \in Extent(EntryOf(D, k))
        BY <2>8, <2>9, <3>1, <3>3
      <4>2. a \in Addr /\ a \notin Extent(e)
        BY <1>2, <1>4, <1>7, <2>2, <2>7, <3>1, <3>3, <4>1, RecordsInCore
      <4>3. QED
        BY <1>10, <2>4, <3>1, <4>1, <4>2
    <3>4. QED
      BY <3>2, <3>3
  <2>10. QED
    BY <2>5, <2>6, <2>9 DEF Backed
<1>17. CASE \E i \in PageIdx : FlushPage(p, i)
  <2>1. PICK i \in PageIdx : FlushPage(p, i)
    BY <1>17
  <2>2. /\ pc'[p] = pc[p] /\ hdr'[p] = hdr[p] /\ N = m /\ E = D
        /\ dcell' = [dcell EXCEPT ![D[i].addr] = D[i]]
    BY <1>2, <1>3, <1>4, <1>5, <2>1 DEF FlushPage
  <2>3. i \in 0 .. m - 1
    BY <1>1, <1>4, <2>1, FlushFacts DEF FlushPage
  <2>4. ASSUME NEW k \in Live(D, m), NEW a \in Extent(EntryOf(D, k))
        PROVE  dcell'[a].val = EntryOf(D, k).val
    <3>1. k \in Used(D, m)
      BY <1>9
    <3>2. a \in Addr /\ a # D[i].addr
      <4>1. D[i].addr \notin Extent(EntryOf(D, k))
        BY <1>2, <1>4, <1>7, <2>3, <3>1, RecordsInCore
      <4>2. a \in Addr
        BY <1>2, <1>4, <1>7, <2>4, <3>1, RecordsInCore
      <4>3. QED
        BY <2>4, <4>1, <4>2
    <3>3. QED
      BY <1>10, <2>2, <2>4, <3>2 DEF TypeOK
  <2>5. Writing(p)'
    BY <1>6, <2>2 DEF Writing, CanWrite
  <2>6. QED
    BY <2>2, <2>4, <2>5 DEF Backed
<1>18. QED
  BY <1>12, <1>14, <1>15, <1>16, <1>17

\* Directories with the same entries are backed by the same data.
LEMMA BackedEqual ==
    ASSUME NEW cells, NEW C, NEW D, NEW n \in Nat, Backed(cells, D, n),
           \A i \in 0 .. n - 1 : C[i] = D[i]
    PROVE  Backed(cells, C, n)
<1>1. \A h \in Handles : h[1] < n => EntryOf(C, h) = EntryOf(D, h)
  <2> TAKE h \in Handles
  <2>1. h[1] < n => h[1] \in 0 .. n - 1
    BY DEF Handles, PageIdx
  <2>2. QED
    BY <2>1 DEF EntryOf
<1>2. Live(C, n) = Live(D, n) /\ \A h \in Live(D, n) : EntryOf(C, h) = EntryOf(D, h)
  BY <1>1 DEF Live
<1>3. QED
  BY <1>2 DEF Backed

\* c_xdfopn: a new file, or the last page of the directory a session finds on disk.
LEMMA OpenedBacked ==
    ASSUME TypeOK, TypeOK', OneWriterOnly, SharedInv, ReadBackInv, NEW p \in Procs,
           Create(p) \/ LoadPage(p)
    PROVE  ReadBackInv'
<1>1. OneWriterInv /\ SelfAddressed
  BY DEF SharedInv, OneWriterInv
<1>2. CASE Create(p)
  <2>1. Backed(dcell', dir_page'[p], npages'[p])
    BY <1>2, CreatedEmpty DEF Backed
  <2>2. p \in Writers /\ pc'[p] = "open" /\ hdr'[p].rwflg = CREATE
    BY <1>2 DEF Create, TypeOK
  <2>3. Writing(p)'
    BY <2>2 DEF Writing, CanWrite, CREATE, RDMODE
  <2>4. QED
    BY <2>1, <2>2, <2>3, SessionBacked
<1>3. CASE LoadPage(p)
  <2>1. OnlyEntry(p) /\ UNCHANGED disk
    BY <1>3, ZenonT(60) DEF LoadPage, OnlyEntry, TypeOK
  <2>2. dhdr' = dhdr /\ dcell' = dcell /\ pc[p] = "loading"
    BY <1>3, <2>1 DEF disk, LoadPage
  <2>3. ~Writing(p)
    BY <2>2 DEF Writing
  <2>4. CASE ~Writing(p)'
    BY <1>1, <2>1, <2>3, <2>4, IdleBacked
  <2>5. CASE Writing(p)'
    <3>1. Loaded(p) /\ p \in Writers
      BY <1>1, <1>3, <2>5, LoadPageFacts DEF Writing, CanWrite
    <3>2. PICK c \in [0 .. dhdr.nbd - 1 -> DiskPages] :
             WholeChain(c) /\ \A i \in 0 .. dhdr.nbd - 1 : dir_page'[p][i] = dcell[c[i]]
      BY <3>1 DEF Loaded
    <3>3. dhdr.nbd \in Nat /\ dhdr.nbd > 0 /\ npages'[p] = dhdr.nbd /\ dhdr.rwflg = RDMODE
      BY <1>1, <3>1, <3>2, ChainFacts DEF Loaded
    <3>4. \A q \in Procs : ~Writing(q)
      BY <2>3, <3>1 DEF OneWriterOnly, Writing, CanWrite
    <3>5. PICK d \in [0 .. dhdr.nbd - 1 -> DiskPages] :
             WholeChain(d) /\ Backed(dcell, DiskDir(d), dhdr.nbd)
      BY <3>3, <3>4 DEF ReadBackInv
    <3>6. c = d
      BY <1>1, <3>2, <3>5, ChainUnique
    <3>7. \A i \in 0 .. dhdr.nbd - 1 : dir_page'[p][i] = DiskDir(d)[i]
      BY <3>2, <3>6 DEF DiskDir
    <3>8. Backed(dcell, dir_page'[p], dhdr.nbd)
      BY <3>3, <3>5, <3>7, BackedEqual
    <3>9. QED
      BY <2>2, <2>5, <3>1, <3>3, <3>8, SessionBacked
  <2>6. QED
    BY <2>4, <2>5
<1>4. QED
  BY <1>2, <1>3

\* The last write of c_xdfcls leaves the directory in core on disk.
LEMMA ClosedBacked ==
    ASSUME TypeOK, TypeOK', OneWriterOnly, SharedInv, ReadBackInv, NEW p \in Procs,
           CloseEnd(p)
    PROVE  ReadBackInv'
<1>1. OneWriterInv
  BY DEF SharedInv
<1>2. /\ OnlyEntry(p) /\ pc[p] = "flush" /\ pc'[p] = "closed"
      /\ dhdr' = IF CanWrite(p) THEN [hdr[p] EXCEPT !.rwflg = RDMODE] ELSE dhdr
      /\ dcell' = dcell /\ dsize' = dsize
  BY DEF CloseEnd, Forget, OnlyEntry, TypeOK
<1>3. ~Writing(p)' /\ (Writing(p) <=> CanWrite(p))
  <2>1. pc'[p] \notin {"open", "flush"} /\ pc[p] \in {"open", "flush"}
    BY <1>2
  <2>2. QED
    BY <2>1, Zenon DEF Writing
<1>4. CASE ~CanWrite(p)
  <2>1. UNCHANGED disk
    BY <1>2, <1>4 DEF disk
  <2>2. QED
    BY <1>1, <1>2, <1>3, <1>4, <2>1, IdleBacked
<1>5. CASE CanWrite(p)
  <2>1. /\ SessionInv(p) /\ p \in Writers /\ dhdr'.rwflg = RDMODE
        /\ dhdr'.nbd = npages[p] /\ npages[p] \in Nat
    BY <1>1, <1>5, CloseEndFacts, SessionFacts
  <2>2. PICK c \in [0 .. dhdr'.nbd - 1 -> DiskPages'] :
           /\ WholeChain(c)'
           /\ \A i \in 0 .. dhdr'.nbd - 1 : dcell[c[i]] = dir_page[p][i]
    BY <1>1, <1>5, CloseEndFacts
  <2>3. PICK C : C = DiskDir(c)'
    OBVIOUS
  <2>4. \A i \in 0 .. npages[p] - 1 : C[i] = dir_page[p][i]
    BY <1>2, <2>1, <2>2, <2>3 DEF DiskDir
  <2>5. Backed(dcell, C, npages[p])
    BY <1>3, <1>5, <2>1, <2>4, BackedEqual DEF ReadBackInv
  <2>6. Backed(dcell', DiskDir(c)', dhdr'.nbd)
    BY <1>2, <2>1, <2>3, <2>5
  <2>7. \A q \in Procs : ~Writing(q)'
    BY <1>3, <2>1 DEF OneWriterOnly, Writing, CanWrite
  <2>8. QED
    BY <2>2, <2>6, <2>7 DEF ReadBackInv, Backed, Live, EntryOf
<1>6. QED
  BY <1>4, <1>5

\* The calls that change nothing of the records.
LEMMA OtherBacked ==
    ASSUME TypeOK, TypeOK', OneWriterOnly, SharedInv, ReadBackInv, NEW p \in Procs,
           \/ \E mode \in {RDMODE, RWMODE, APPEND} : Open(p, mode)
           \/ \E checkpoint \in BOOLEAN : CloseBegin(p, checkpoint)
           \/ PutDirFull(p) \/ CheckpointEnd(p) \/ CloseRefused(p)
    PROVE  ReadBackInv'
<1>1. OneWriterInv
  BY DEF SharedInv
<1>2. OnlyEntry(p)
  BY DEF Open, CloseBegin, PutDirFull, CheckpointEnd, CloseRefused, Forget, OnlyEntry, TypeOK,
         aux, core
<1>3. CASE \E mode \in {RDMODE, RWMODE, APPEND} : Open(p, mode)
  <2>1. ~Writing(p) /\ ~Writing(p)' /\ UNCHANGED disk
    BY <1>3 DEF Open, Writing, TypeOK
  <2>2. QED
    BY <1>1, <1>2, <2>1, IdleBacked
<1>4. CASE CloseRefused(p)
  <2>1. ~Writing(p) /\ ~Writing(p)' /\ UNCHANGED disk
    BY <1>4 DEF CloseRefused, OneWriterOnly, CanWrite, Writing, TypeOK, disk
  <2>2. QED
    BY <1>1, <1>2, <2>1, IdleBacked
<1>5. CASE (\E checkpoint \in BOOLEAN : CloseBegin(p, checkpoint))
           \/ PutDirFull(p) \/ CheckpointEnd(p)
  <2>1. /\ hdr'[p] = hdr[p] /\ dir_page'[p] = dir_page[p] /\ npages'[p] = npages[p]
        /\ dcell' = dcell /\ dsize' = dsize /\ Writing(p)' = Writing(p)
        /\ ~CanWrite(p) => dhdr' = dhdr
    BY <1>5 DEF CloseBegin, PutDirFull, CheckpointEnd, TypeOK, Writing, CanWrite, disk, core
  <2>2. CASE ~Writing(p)
    <3>1. ~CanWrite(p)
      BY <1>5, <2>2 DEF CloseBegin, PutDirFull, CheckpointEnd, Writing
    <3>2. UNCHANGED disk
      BY <2>1, <3>1 DEF disk
    <3>3. QED
      BY <1>1, <1>2, <2>1, <2>2, <3>2, IdleBacked
  <2>3. CASE Writing(p)
    <3>1. p \in Writers /\ Backed(dcell, dir_page[p], npages[p])
      BY <2>3 DEF ReadBackInv, Writing, CanWrite
    <3>2. QED
      BY <2>1, <2>3, <3>1, SessionBacked
  <2>4. QED
    BY <2>2, <2>3
<1>6. QED
  BY <1>3, <1>4, <1>5

\* Each step of a process that does not die.
LEMMA ReadBackStep ==
    ASSUME TypeOK, TypeOK', OneWriterOnly, MayCrash = FALSE, SharedInv, ReadBackInv,
           [Next]_vars
    PROVE  ReadBackInv'
<1>1. CASE UNCHANGED vars
  BY <1>1, SteadyBacked DEF vars, disk, core, Writing, CanWrite, SharedInv
<1>2. CASE Next
  <2>1. PICK p \in Procs :
           \/ Create(p)
           \/ \E mode \in {RDMODE, RWMODE, APPEND} : Open(p, mode)
           \/ LoadPage(p)
           \/ \E v \in Vals, n \in Lens : PutNew(p, v, n)
           \/ \E h \in Handles, v \in Vals, n \in Lens : PutMove(p, h, v, n)
           \/ \E h \in Handles, v \in Vals : PutInPlace(p, h, v)
           \/ PutDirFull(p)
           \/ \E h \in Handles : Delete(p, h)
           \/ \E checkpoint \in BOOLEAN : CloseBegin(p, checkpoint)
           \/ \E i \in PageIdx : FlushErase(p, i) \/ FlushPage(p, i)
           \/ CheckpointEnd(p) \/ CloseEnd(p) \/ CloseRefused(p)
           \/ Crash(p)
    BY <1>2, Zenon DEF Next
  <2>2. CASE \E v \in Vals, n \in Lens : PutNew(p, v, n)
    <3>1. PICK v \in Vals, n \in Lens : PutNew(p, v, n)
      BY <2>2
    <3>2. pc[p] = "open" /\ CanWrite(p) /\ AddRecord(p, v, n, {})
      BY <3>1 DEF PutNew
    <3>3. {} \in SUBSET Handles /\ \A h \in {} : Valid(p, h)
      OBVIOUS
    <3>4. QED
      BY <3>2, <3>3, WorkBacked
  <2>3. CASE \E h \in Handles, v \in Vals, n \in Lens : PutMove(p, h, v, n)
    <3>1. PICK g \in Handles, v \in Vals, n \in Lens : PutMove(p, g, v, n)
      BY <2>3
    <3>2. pc[p] = "open" /\ CanWrite(p) /\ Valid(p, g) /\ AddRecord(p, v, n, {g})
      BY <3>1 DEF PutMove
    <3>3. {g} \in SUBSET Handles /\ \A h \in {g} : Valid(p, h)
      BY <3>2
    <3>4. QED
      BY <3>2, <3>3, WorkBacked
  <2>4. CASE \/ \E h \in Handles, v \in Vals : PutInPlace(p, h, v)
             \/ \E h \in Handles : Delete(p, h)
             \/ \E i \in PageIdx : FlushErase(p, i) \/ FlushPage(p, i)
    BY <2>4, WorkBacked
  <2>5. CASE Create(p) \/ LoadPage(p)
    BY <2>5, OpenedBacked
  <2>6. CASE \/ \E mode \in {RDMODE, RWMODE, APPEND} : Open(p, mode)
             \/ \E checkpoint \in BOOLEAN : CloseBegin(p, checkpoint)
             \/ PutDirFull(p) \/ CheckpointEnd(p) \/ CloseRefused(p)
    BY <2>6, OtherBacked
  <2>7. CASE CloseEnd(p)
    BY <2>7, ClosedBacked
  <2>8. CASE Crash(p)
    BY <2>8 DEF Crash
  <2>9. QED
    BY <2>1, <2>2, <2>3, <2>4, <2>5, <2>6, <2>7, <2>8
<1>3. QED
  BY <1>1, <1>2

\* As long as no process dies, a writer reads back under each handle what it or an earlier
\* session put there: the keys of the directory and the data of the file stay together
\* through rewrites in place, moves, deletions, checkpoints and reopenings.
THEOREM WriterAlwaysReadsBack ==
    ASSUME OneWriterOnly, MayCrash = FALSE
    PROVE  Spec => []WriterReadsBack
<1>1. Init => ReadBackInv
  BY DEF Init, EmptyHeader, ReadBackInv, Writing
<1>2. TypeOK /\ SharedInv /\ TypeOK' /\ ReadBackInv /\ [Next]_vars => ReadBackInv'
  BY ReadBackStep
<1>3. ReadBackInv => WriterReadsBack
  BY DEF ReadBackInv, Backed, WriterReadsBack
<1>4. QED
  BY <1>1, <1>2, <1>3, SharedInvariant, PTL DEF Spec

\* What readers and the next session rely on, whoever of them is at work and wherever the
\* writer is in a call or dies.
THEOREM SharedStays ==
    ASSUME OneWriterOnly
    PROVE  Spec => []SharedInv
BY SharedInvariant, PTL

(***************************************************************************)
(* The tools that scan a file.                                             *)
(***************************************************************************)

\* Every unit behind the header up to "size" is a page of the directory or belongs to a
\* record an entry speaks of: nothing is left between them for a scan to stop at.
Tiled(D, n, size) ==
    \A a \in 2 .. size : \/ \E i \in 0 .. n - 1 : D[i].addr = a
                         \/ \E h \in Used(D, n) : a \in Extent(EntryOf(D, h))

\* The headers of the records in the units C are erased where the entries are.
Typed(C, D, n) ==
    \A h \in Used(D, n) :
        C[EntryOf(D, h).addr].idtyp = ERASED <=> EntryOf(D, h).idtyp = ERASED

\* Of a session, also in the middle of a flush.
TiledSession(p) ==
    /\ Tiled(dir_page[p], npages[p], hdr[p].fsiz)
    /\ Typed(dcell, dir_page[p], npages[p])

\* Of the directory on disk.
TiledChain(c) ==
    /\ WholeChain(c)
    /\ Tiled(DiskDir(c), dhdr.nbd, dhdr.fsiz)
    /\ Typed(dcell, DiskDir(c), dhdr.nbd)
DiskTiled ==
    dhdr.rwflg = RDMODE /\ dhdr.nbd > 0 =>
        \E c \in [0 .. dhdr.nbd - 1 -> DiskPages] : TiledChain(c)

\* A record deleted in core is erased before its page is written.
PagesUndeleted == \A a \in DiskPages, s \in Slot : dcell[a].entry[s].idtyp # DELETED

\* No record is empty: a scan goes on behind each.
RecordsLong == \A a \in Addr : dcell[a] \in RecUnit => dcell[a].lng \in Lens

\* An entry of the file table that is free has no header.
ClosedEmpty == \A p \in Procs : pc[p] = "closed" => hdr[p] = EmptyHeader

TilesInv ==
    /\ \A p \in Procs : Writing(p) => TiledSession(p)
    /\ DiskTiled /\ PagesUndeleted /\ RecordsLong /\ ClosedEmpty

\* When nobody dies, the file is as long as its session says, and as its header says when
\* there is none; and then it has no flag.
Settled ==
    /\ \A p \in Procs : Writing(p) => hdr[p].fsiz = dsize
    /\ \/ \E p \in Procs : Writing(p)
       \/ dhdr.fsiz = dsize /\ dhdr.rwflg = RDMODE /\ (dhdr.fsiz > 0 => dhdr.nbd > 0)

-----------------------------------------------------------------------------
(* The scan.                                                               *)

\* What the scan finds at a, when what it finds further on is f.
NextUnit(a) == IF dcell[a] \in Page THEN a + 1 ELSE a + dcell[a].lng
ScanStep(f, a) ==
    IF a > dsize \/ dcell[a] = Blank \/ dcell[a].addr # a THEN NoCount
    ELSE LET page == dcell[a] \in Page
             next == IF page THEN a + 1 ELSE a + dcell[a].lng
             rest == IF next \in Addr THEN f[next] ELSE NoCount
         IN IF page THEN [rest EXCEPT !.pages = @ + 1]
            ELSE IF dcell[a].idtyp = ERASED
            THEN [rest EXCEPT !.erased = @ + 1, !.biggest = Larger(@, dcell[a].lng)]
            ELSE [rest EXCEPT !.active = @ + 1, !.biggest = Larger(@, dcell[a].lng)]

\* It depends on the unit it goes on with only.
LEMMA ScanStepSame ==
    ASSUME NEW f, NEW g, NEW a \in Addr, NextUnit(a) \in Addr => f[NextUnit(a)] = g[NextUnit(a)]
    PROVE  ScanStep(f, a) = ScanStep(g, a)
<1>1. CASE NextUnit(a) \in Addr
  BY <1>1 DEF ScanStep, NextUnit
<1>2. CASE NextUnit(a) \notin Addr
  BY <1>2 DEF ScanStep, NextUnit
<1> QED
  BY <1>1, <1>2

\* It goes on behind a.
LEMMA ScanGoesOn ==
    ASSUME TypeOK, RecordsLong, NEW a \in Addr
    PROVE  \/ dcell[a] = Blank
           \/ NextUnit(a) \in Nat /\ NextUnit(a) > a
<1>1. dcell[a] \in RecUnit \/ dcell[a] \in Page \/ dcell[a] = Blank
  BY DEF TypeOK
<1>2. CASE dcell[a] \in Page
  BY <1>2 DEF NextUnit, Addr
<1>3. CASE dcell[a] \in RecUnit
  <2>1. dcell[a].lng \in Nat \ {0}
    BY <1>3, ConstAssumption DEF RecordsLong
  <2> QED
    BY <1>3, <2>1, RecordIsNotPage DEF NextUnit, Addr
<1> QED
  BY <1>1, <1>2, <1>3

\* What is found from m on.
IsScan(f, m) == f = [a \in m .. MaxAddr |-> ScanStep(f, a)]

\* The scan ends.
LEMMA ScanExists ==
    ASSUME TypeOK, RecordsLong
    PROVE  \E f : IsScan(f, 1)
<1>0. MaxAddr \in Nat /\ MaxAddr >= 2
  BY ConstAssumption
<1> DEFINE S == {k \in 0 .. MaxAddr : ~ \E f : IsScan(f, MaxAddr + 1 - k)}
<1>1. SUFFICES ASSUME S # {} PROVE FALSE
  <2>1. MaxAddr \in 0 .. MaxAddr /\ MaxAddr + 1 - MaxAddr = 1
    BY <1>0
  <2> QED
    BY <1>1, <2>1
<1>2. PICK k \in S : \A l \in S : k <= l
  <2>1. S \in SUBSET Nat
    BY <1>0
  <2> QED
    BY <1>1, <2>1, LeastElement
<1>3. k \in 0 .. MaxAddr /\ ~ \E f : IsScan(f, MaxAddr + 1 - k)
  BY <1>2
<1>4. k # 0
  <2>1. PICK f : f = [a \in {} |-> NoCount]
    OBVIOUS
  <2>2. MaxAddr + 1 .. MaxAddr = {}
    BY <1>0
  <2>3. f = [a \in MaxAddr + 1 .. MaxAddr |-> ScanStep(f, a)]
    BY <2>1, <2>2
  <2>4. IsScan(f, MaxAddr + 1 - 0)
    <3>1. MaxAddr + 1 - 0 = MaxAddr + 1
      BY <1>0
    <3> QED
      BY <2>3, <3>1 DEF IsScan
  <2> QED
    BY <1>3, <2>4
<1>5. PICK m \in Addr : m = MaxAddr + 1 - k
  BY <1>0, <1>3, <1>4 DEF Addr
<1>6. PICK g : IsScan(g, m + 1)
  <2>1. k - 1 \in 0 .. MaxAddr /\ ~(k <= k - 1) /\ m + 1 = MaxAddr + 1 - (k - 1)
    BY <1>0, <1>3, <1>4, <1>5
  <2>2. k - 1 \notin S
    BY <1>2, <2>1
  <2> QED
    BY <2>1, <2>2
<1>7. PICK f : f = [a \in m .. MaxAddr |-> IF a = m THEN ScanStep(g, m) ELSE g[a]]
  OBVIOUS
<1>8. m \in Nat /\ \A a \in m .. MaxAddr : a \in Addr /\ (a = m \/ a \in m + 1 .. MaxAddr)
  BY <1>0, <1>5 DEF Addr
<1>9. \A a \in m .. MaxAddr : ScanStep(f, a) = ScanStep(g, a)
  <2> TAKE a \in m .. MaxAddr
  <2>1. CASE dcell[a] = Blank
    BY <2>1 DEF ScanStep
  <2>2. CASE NextUnit(a) \in Nat /\ NextUnit(a) > a
    <3>1. NextUnit(a) \in Addr => NextUnit(a) \in m .. MaxAddr /\ NextUnit(a) # m
      BY <1>0, <1>8, <2>2 DEF Addr
    <3>2. NextUnit(a) \in Addr => f[NextUnit(a)] = g[NextUnit(a)]
      BY <1>7, <3>1
    <3> QED
      BY <1>8, <3>2, ScanStepSame
  <2> QED
    BY <1>8, <2>1, <2>2, ScanGoesOn
<1>10. g = [a \in m + 1 .. MaxAddr |-> ScanStep(g, a)]
  BY <1>6 DEF IsScan
<1>11. \A a \in m .. MaxAddr : f[a] = ScanStep(f, a)
  <2> TAKE a \in m .. MaxAddr
  <2>1. CASE a = m
    BY <1>7, <1>9, <2>1
  <2>2. CASE a # m
    <3>1. a \in m + 1 .. MaxAddr
      BY <1>8, <2>2
    <3>2. g[a] = ScanStep(g, a)
      BY <1>10, <3>1
    <3> QED
      BY <1>7, <1>9, <2>2, <3>2
  <2> QED
    BY <2>1, <2>2
<1>12. f = [a \in m .. MaxAddr |-> f[a]]
  BY <1>7
<1>13. f = [a \in m .. MaxAddr |-> ScanStep(f, a)]
  BY <1>11, <1>12
<1> QED
  BY <1>3, <1>5, <1>13 DEF IsScan

\* So it is what one step finds, and what is found further on.
LEMMA ScanFound ==
    ASSUME TypeOK, RecordsLong, NEW a \in Addr
    PROVE  ScanFrom[a] = ScanStep(ScanFrom, a)
<1>1. PICK f : f = [b \in Addr |-> ScanStep(f, b)]
  BY ScanExists DEF IsScan, Addr
<1>2. ScanFrom = CHOOSE g : g = [b \in Addr |-> ScanStep(g, b)]
  BY DEF ScanFrom, ScanStep
<1>3. ScanFrom = [b \in Addr |-> ScanStep(ScanFrom, b)]
  BY <1>1, <1>2
<1> QED
  BY <1>3

\* The pages and the entries at a and behind it, and a scan that finds as many.
PagesFrom(D, n, a)   == {i \in 0 .. n - 1 : D[i].addr >= a}
EntriesFrom(S, D, a) == {h \in S : EntryOf(D, h).addr >= a}
Finds(r, D, n, a) ==
    /\ r \in [pages : Nat, active : Nat, erased : Nat, biggest : Nat]
    /\ r.pages = Cardinality(PagesFrom(D, n, a))
    /\ r.active = Cardinality(EntriesFrom(Live(D, n), D, a))
    /\ r.erased = Cardinality(EntriesFrom(Used(D, n) \ Live(D, n), D, a))
    /\ \A h \in EntriesFrom(Used(D, n), D, a) : EntryOf(D, h).lng <= r.biggest
    /\ r.biggest > 0 => \E h \in EntriesFrom(Used(D, n), D, a) : EntryOf(D, h).lng = r.biggest

\* What a scan needs of the file: pages and records know where they are, lie side by side
\* up to the end, and are erased where the entries are.
Scannable(D, n) ==
    /\ n \in Nat /\ dsize \in Nat /\ dsize <= MaxAddr
    /\ Tiled(D, n, dsize)
    /\ \A i \in 0 .. n - 1 : /\ D[i].addr \in 2 .. dsize /\ dcell[D[i].addr] \in Page
                             /\ dcell[D[i].addr].addr = D[i].addr
    /\ \A i, k \in 0 .. n - 1 : D[i].addr = D[k].addr => i = k
    /\ \A h \in Used(D, n) :
          LET e == EntryOf(D, h) IN
          /\ e.addr \in 2 .. dsize /\ e.lng \in Nat \ {0} /\ e.addr + e.lng - 1 <= dsize
          /\ dcell[e.addr] \in RecUnit
          /\ dcell[e.addr].addr = e.addr /\ dcell[e.addr].lng = e.lng
          /\ h \in Live(D, n) <=> dcell[e.addr].idtyp # ERASED
          /\ \A i \in 0 .. n - 1 : D[i].addr \notin Extent(e)
          /\ \A g \in Used(D, n) :
                g # h => \/ e.addr + e.lng <= EntryOf(D, g).addr
                         \/ EntryOf(D, g).addr + EntryOf(D, g).lng <= e.addr

\* From a page to the unit behind it.
LEMMA PageScanned ==
    ASSUME NEW D, NEW n, Scannable(D, n), NEW i \in 0 .. n - 1, NEW r,
           Finds(r, D, n, D[i].addr + 1)
    PROVE  Finds([r EXCEPT !.pages = @ + 1], D, n, D[i].addr)
<1> DEFINE a == D[i].addr
           q == [r EXCEPT !.pages = @ + 1]
<1>1. a \in Nat /\ \A k \in 0 .. n - 1 : D[k].addr \in Nat /\ (D[k].addr = a => k = i)
  BY DEF Scannable
<1>2. \A h \in Used(D, n) : EntryOf(D, h).addr \in Nat /\ EntryOf(D, h).addr # a
  <2> TAKE h \in Used(D, n)
  <2>1. EntryOf(D, h).addr \in Nat /\ EntryOf(D, h).lng \in Nat \ {0} /\ a \notin Extent(EntryOf(D, h))
    BY DEF Scannable
  <2> QED
    BY <2>1 DEF Extent
<1>3. \A S \in SUBSET Used(D, n) : EntriesFrom(S, D, a + 1) = EntriesFrom(S, D, a)
  <2> TAKE S \in SUBSET Used(D, n)
  <2>1. \A h \in S : EntryOf(D, h).addr >= a + 1 <=> EntryOf(D, h).addr >= a
    BY <1>1, <1>2
  <2> QED
    BY <2>1 DEF EntriesFrom
<1>4. Live(D, n) \in SUBSET Used(D, n) /\ Used(D, n) \ Live(D, n) \in SUBSET Used(D, n)
  BY UsedHandle DEF Scannable
<1>5. /\ PagesFrom(D, n, a) = PagesFrom(D, n, a + 1) \cup {i} /\ i \notin PagesFrom(D, n, a + 1)
      /\ IsFiniteSet(PagesFrom(D, n, a + 1))
  <2>1. \A k \in 0 .. n - 1 : D[k].addr >= a <=> (k = i \/ D[k].addr >= a + 1)
    BY <1>1
  <2>2. ~(a >= a + 1)
    BY <1>1
  <2>3. IsFiniteSet(0 .. n - 1) /\ PagesFrom(D, n, a + 1) \subseteq 0 .. n - 1
    <3>1. n \in Nat
      BY DEF Scannable
    <3> QED
      BY <3>1, FS_Interval DEF PagesFrom
  <2> QED
    BY <2>1, <2>2, <2>3, FS_Subset DEF PagesFrom
<1>6. Cardinality(PagesFrom(D, n, a)) = Cardinality(PagesFrom(D, n, a + 1)) + 1
  BY <1>5, FS_AddElement
<1>7. /\ r \in [pages : Nat, active : Nat, erased : Nat, biggest : Nat]
      /\ r.pages = Cardinality(PagesFrom(D, n, a + 1))
  BY DEF Finds
<1>8. /\ q \in [pages : Nat, active : Nat, erased : Nat, biggest : Nat]
      /\ q.pages = r.pages + 1 /\ q.active = r.active /\ q.erased = r.erased
      /\ q.biggest = r.biggest
  BY <1>7
<1>9. Used(D, n) \in SUBSET Used(D, n)
  OBVIOUS
<1> HIDE DEF q, a
<1>10. Finds(r, D, n, a + 1)
  BY DEF a
<1>11. Finds(q, D, n, a)
  BY <1>3, <1>4, <1>6, <1>7, <1>8, <1>9, <1>10 DEF Finds
<1> QED
  BY <1>11 DEF q, a

\* One record more, and what the largest is then.
LEMMA LiveCounted ==
    ASSUME NEW r \in [pages : Nat, active : Nat, erased : Nat, biggest : Nat], NEW big \in Nat,
           NEW q, q = [r EXCEPT !.active = @ + 1, !.biggest = big]
    PROVE  /\ q \in [pages : Nat, active : Nat, erased : Nat, biggest : Nat]
           /\ q.pages = r.pages /\ q.biggest = big
           /\ q.active = r.active + 1 /\ q.erased = r.erased
<1>1. PICK x \in Nat : x = r.active + 1
  OBVIOUS
<1>2. q = [r EXCEPT !.active = x, !.biggest = big]
  BY <1>1
<1>3. /\ q \in [pages : Nat, active : Nat, erased : Nat, biggest : Nat]
      /\ q.pages = r.pages /\ q.biggest = big /\ q.active = x /\ q.erased = r.erased
  BY ONLY <1>2, x \in Nat, big \in Nat,
          r \in [pages : Nat, active : Nat, erased : Nat, biggest : Nat]
<1> QED
  BY <1>1, <1>3

LEMMA ErasedCounted ==
    ASSUME NEW r \in [pages : Nat, active : Nat, erased : Nat, biggest : Nat], NEW big \in Nat,
           NEW q, q = [r EXCEPT !.erased = @ + 1, !.biggest = big]
    PROVE  /\ q \in [pages : Nat, active : Nat, erased : Nat, biggest : Nat]
           /\ q.pages = r.pages /\ q.biggest = big
           /\ q.active = r.active /\ q.erased = r.erased + 1
<1>1. PICK x \in Nat : x = r.erased + 1
  OBVIOUS
<1>2. q = [r EXCEPT !.erased = x, !.biggest = big]
  BY <1>1
<1>3. /\ q \in [pages : Nat, active : Nat, erased : Nat, biggest : Nat]
      /\ q.pages = r.pages /\ q.biggest = big /\ q.active = r.active /\ q.erased = x
  BY ONLY <1>2, x \in Nat, big \in Nat,
          r \in [pages : Nat, active : Nat, erased : Nat, biggest : Nat]
<1> QED
  BY <1>1, <1>3

\* From a record to the one behind it.
LEMMA RecordScanned ==
    ASSUME NEW D, NEW n, Scannable(D, n), NEW h \in Used(D, n), NEW r, NEW q,
           Finds(r, D, n, EntryOf(D, h).addr + EntryOf(D, h).lng),
           LET e == EntryOf(D, h) IN
           q = IF dcell[e.addr].idtyp = ERASED
               THEN [r EXCEPT !.erased = @ + 1, !.biggest = Larger(@, e.lng)]
               ELSE [r EXCEPT !.active = @ + 1, !.biggest = Larger(@, e.lng)]
    PROVE  Finds(q, D, n, EntryOf(D, h).addr)
<1> DEFINE e == EntryOf(D, h)
           a == e.addr
           b == e.addr + e.lng
<1>1. /\ a \in Nat /\ e.lng \in Nat \ {0} /\ b \in Nat /\ b > a
      /\ h \in Live(D, n) <=> dcell[a].idtyp # ERASED
      /\ \A i \in 0 .. n - 1 : D[i].addr \in Nat /\ D[i].addr \notin Extent(e)
  BY DEF Scannable
<1>2. PagesFrom(D, n, a) = PagesFrom(D, n, b)
  <2>1. \A i \in 0 .. n - 1 : D[i].addr >= a <=> D[i].addr >= b
    BY <1>1 DEF Extent
  <2> QED
    BY <2>1 DEF PagesFrom
<1>3. \A g \in Used(D, n) : EntryOf(D, g).addr >= a <=> (g = h \/ EntryOf(D, g).addr >= b)
  <2> TAKE g \in Used(D, n)
  <2>1. /\ EntryOf(D, g).addr \in Nat /\ EntryOf(D, g).lng \in Nat \ {0}
        /\ g # h => \/ e.addr + e.lng <= EntryOf(D, g).addr
                    \/ EntryOf(D, g).addr + EntryOf(D, g).lng <= e.addr
    BY DEF Scannable
  <2> QED
    BY <1>1, <2>1
<1>4. h \notin EntriesFrom(Used(D, n), D, b)
  BY <1>1 DEF EntriesFrom
<1>5. \A S \in SUBSET Used(D, n) :
         EntriesFrom(S, D, a) = EntriesFrom(S, D, b) \cup (IF h \in S THEN {h} ELSE {})
  <2> TAKE S \in SUBSET Used(D, n)
  <2>1. \A g \in S : EntryOf(D, g).addr >= a <=> (g = h \/ EntryOf(D, g).addr >= b)
    BY <1>3
  <2> QED
    BY <2>1 DEF EntriesFrom
<1>6. /\ Live(D, n) \in SUBSET Used(D, n) /\ Used(D, n) \ Live(D, n) \in SUBSET Used(D, n)
      /\ Used(D, n) \in SUBSET Handles /\ Used(D, n) \in SUBSET Used(D, n)
  BY UsedHandle DEF Scannable
<1>7. \A S \in SUBSET Used(D, n) :
         Cardinality(EntriesFrom(S, D, a)) =
            Cardinality(EntriesFrom(S, D, b)) + (IF h \in S THEN 1 ELSE 0)
  <2> TAKE S \in SUBSET Used(D, n)
  <2>1. EntriesFrom(S, D, b) \in SUBSET Handles /\ h \notin EntriesFrom(S, D, b)
    BY <1>4, <1>6 DEF EntriesFrom
  <2>2. IsFiniteSet(EntriesFrom(S, D, b)) /\ Cardinality(EntriesFrom(S, D, b)) \in Nat
    BY <2>1, HandlesFinite
  <2>3. CASE h \in S
    <3>1. EntriesFrom(S, D, a) = EntriesFrom(S, D, b) \cup {h}
      BY <1>5, <2>3
    <3> QED
      BY <2>1, <2>2, <2>3, <3>1, FS_AddElement
  <2>4. CASE h \notin S
    <3>1. EntriesFrom(S, D, a) = EntriesFrom(S, D, b)
      BY <1>5, <2>4
    <3> QED
      BY <2>2, <2>4, <3>1
  <2> QED
    BY <2>3, <2>4
<1>8. /\ r \in [pages : Nat, active : Nat, erased : Nat, biggest : Nat]
      /\ Finds(r, D, n, b)
  BY DEF Finds
<1>9. /\ q \in [pages : Nat, active : Nat, erased : Nat, biggest : Nat]
      /\ q.pages = r.pages /\ q.biggest = Larger(r.biggest, e.lng)
      /\ q.active = r.active + (IF h \in Live(D, n) THEN 1 ELSE 0)
      /\ q.erased = r.erased + (IF h \in Live(D, n) THEN 0 ELSE 1)
  <2>1. PICK big \in Nat : big = Larger(r.biggest, e.lng)
    BY <1>1, <1>8 DEF Larger
  <2>2. CASE h \in Live(D, n)
    <3>1. q = [r EXCEPT !.active = @ + 1, !.biggest = big]
      BY <1>1, <2>1, <2>2
    <3>2. /\ q \in [pages : Nat, active : Nat, erased : Nat, biggest : Nat]
          /\ q.pages = r.pages /\ q.biggest = big
          /\ q.active = r.active + 1 /\ q.erased = r.erased
      BY <1>8, <3>1, LiveCounted
    <3>3. r.active \in Nat /\ r.erased \in Nat
      BY <1>8
    <3> QED
      BY <2>1, <2>2, <3>2, <3>3
  <2>3. CASE h \notin Live(D, n)
    <3>1. q = [r EXCEPT !.erased = @ + 1, !.biggest = big]
      BY <1>1, <2>1, <2>3
    <3>2. /\ q \in [pages : Nat, active : Nat, erased : Nat, biggest : Nat]
          /\ q.pages = r.pages /\ q.biggest = big
          /\ q.active = r.active /\ q.erased = r.erased + 1
      BY <1>8, <3>1, ErasedCounted
    <3>3. r.active \in Nat /\ r.erased \in Nat
      BY <1>8
    <3> QED
      BY <2>1, <2>3, <3>2, <3>3
  <2> QED
    BY <2>2, <2>3
<1>10. EntriesFrom(Used(D, n), D, a) = EntriesFrom(Used(D, n), D, b) \cup {h}
  BY <1>5, <1>6
<1>11. \A g \in EntriesFrom(Used(D, n), D, b) :
          EntryOf(D, g).lng \in Nat /\ EntryOf(D, g).lng <= r.biggest
  BY <1>8 DEF Finds, Scannable, EntriesFrom
<1>12. /\ \A g \in EntriesFrom(Used(D, n), D, a) : EntryOf(D, g).lng <= q.biggest
       /\ \E g \in EntriesFrom(Used(D, n), D, a) : EntryOf(D, g).lng = q.biggest
  <2>1. CASE r.biggest >= e.lng
    <3>1. q.biggest = r.biggest /\ r.biggest > 0 /\ r.biggest \in Nat
      BY <1>1, <1>8, <1>9, <2>1 DEF Larger
    <3>2. \E g \in EntriesFrom(Used(D, n), D, b) : EntryOf(D, g).lng = r.biggest
      BY <1>8, <3>1 DEF Finds
    <3> QED
      BY <1>1, <1>10, <1>11, <2>1, <3>1, <3>2
  <2>2. CASE ~(r.biggest >= e.lng)
    <3>1. q.biggest = e.lng /\ r.biggest <= e.lng /\ r.biggest \in Nat
      BY <1>1, <1>8, <1>9, <2>2 DEF Larger
    <3> QED
      BY <1>1, <1>10, <1>11, <3>1
  <2> QED
    BY <2>1, <2>2
<1>13. /\ Cardinality(EntriesFrom(Live(D, n), D, a)) =
             Cardinality(EntriesFrom(Live(D, n), D, b)) + (IF h \in Live(D, n) THEN 1 ELSE 0)
       /\ Cardinality(EntriesFrom(Used(D, n) \ Live(D, n), D, a)) =
             Cardinality(EntriesFrom(Used(D, n) \ Live(D, n), D, b))
             + (IF h \in Live(D, n) THEN 0 ELSE 1)
  BY <1>6, <1>7
<1> HIDE DEF a, b
<1>14. Finds(q, D, n, a)
  BY <1>2, <1>8, <1>9, <1>12, <1>13 DEF Finds
<1> QED
  BY <1>14 DEF a

\* Where a page or a record starts, or the file has ended.
Starts(D, n, a) ==
    \/ \E i \in 0 .. n - 1 : D[i].addr = a
    \/ \E h \in Used(D, n) : EntryOf(D, h).addr = a
    \/ a = dsize + 1

\* Behind a page another page or a record starts, and behind a record too.
LEMMA StartsBehind ==
    ASSUME NEW D, NEW n, Scannable(D, n)
    PROVE  /\ \A i \in 0 .. n - 1 : Starts(D, n, D[i].addr + 1)
           /\ \A h \in Used(D, n) : Starts(D, n, EntryOf(D, h).addr + EntryOf(D, h).lng)
<1>0. /\ dsize \in Nat
      /\ \A a \in 2 .. dsize : \/ \E i \in 0 .. n - 1 : D[i].addr = a
                               \/ \E h \in Used(D, n) : a \in Extent(EntryOf(D, h))
      /\ \A h \in Used(D, n) : EntryOf(D, h).addr \in Nat /\ EntryOf(D, h).lng \in Nat \ {0}
  BY DEF Scannable, Tiled
<1>1. ASSUME NEW i \in 0 .. n - 1 PROVE Starts(D, n, D[i].addr + 1)
  <2>1. /\ D[i].addr \in 2 .. dsize
        /\ \A h \in Used(D, n) : D[i].addr \notin Extent(EntryOf(D, h))
    BY DEF Scannable
  <2>2. CASE D[i].addr = dsize
    BY <2>2 DEF Starts
  <2>3. CASE D[i].addr # dsize
    <3>1. D[i].addr + 1 \in 2 .. dsize
      BY <1>0, <2>1, <2>3
    <3>2. ASSUME NEW h \in Used(D, n), D[i].addr + 1 \in Extent(EntryOf(D, h))
          PROVE  EntryOf(D, h).addr = D[i].addr + 1
      BY <1>0, <2>1, <3>2 DEF Extent
    <3> QED
      BY <1>0, <3>1, <3>2 DEF Starts
  <2> QED
    BY <2>2, <2>3
<1>2. ASSUME NEW h \in Used(D, n)
      PROVE  Starts(D, n, EntryOf(D, h).addr + EntryOf(D, h).lng)
  <2> DEFINE e == EntryOf(D, h)
             b == e.addr + e.lng
  <2>1. /\ e.addr \in 2 .. dsize /\ e.lng \in Nat \ {0} /\ b - 1 <= dsize
        /\ \A g \in Used(D, n) : g # h => \/ b <= EntryOf(D, g).addr
                                          \/ EntryOf(D, g).addr + EntryOf(D, g).lng <= e.addr
    BY DEF Scannable
  <2>2. CASE b = dsize + 1
    BY <2>2 DEF Starts
  <2>3. CASE b # dsize + 1
    <3>1. b \in 2 .. dsize
      BY <1>0, <2>1, <2>3
    <3>2. ASSUME NEW g \in Used(D, n), b \in Extent(EntryOf(D, g))
          PROVE  EntryOf(D, g).addr = b
      <4>1. /\ EntryOf(D, g).addr <= b /\ b <= EntryOf(D, g).addr + EntryOf(D, g).lng - 1
        BY <3>2 DEF Extent
      <4>2. g # h
        BY <2>1, <4>1
      <4> QED
        BY <1>0, <2>1, <4>1, <4>2
    <3> HIDE DEF b
    <3>3. \/ \E i \in 0 .. n - 1 : D[i].addr = b
          \/ \E g \in Used(D, n) : b \in Extent(EntryOf(D, g))
      BY <1>0, <3>1
    <3>4. Starts(D, n, b)
      BY <3>2, <3>3 DEF Starts
    <3> QED
      BY <3>4 DEF b
  <2> QED
    BY <2>2, <2>3
<1> QED
  BY <1>1, <1>2

\* Behind the end nothing is found.
LEMMA NothingBehind ==
    ASSUME NEW D, NEW n, Scannable(D, n), NEW a \in Nat, a > dsize
    PROVE  Finds(NoCount, D, n, a)
<1>1. PagesFrom(D, n, a) = {}
  <2>1. \A i \in 0 .. n - 1 : ~(D[i].addr >= a)
    BY DEF Scannable
  <2> QED
    BY <2>1 DEF PagesFrom
<1>2. \A S \in SUBSET Used(D, n) : EntriesFrom(S, D, a) = {}
  <2>1. \A h \in Used(D, n) : ~(EntryOf(D, h).addr >= a)
    BY DEF Scannable
  <2> QED
    BY <2>1 DEF EntriesFrom
<1>3. Live(D, n) \in SUBSET Used(D, n) /\ Used(D, n) \ Live(D, n) \in SUBSET Used(D, n)
      /\ Used(D, n) \in SUBSET Used(D, n)
  BY UsedHandle DEF Scannable
<1>4. Cardinality({}) = 0
  BY FS_EmptySet
<1>5. /\ EntriesFrom(Live(D, n), D, a) = {}
      /\ EntriesFrom(Used(D, n) \ Live(D, n), D, a) = {}
      /\ EntriesFrom(Used(D, n), D, a) = {}
  BY <1>2, <1>3
<1>6. NoCount.pages = 0 /\ NoCount.active = 0 /\ NoCount.erased = 0 /\ NoCount.biggest = 0
      /\ NoCount \in [pages : Nat, active : Nat, erased : Nat, biggest : Nat]
  BY DEF NoCount
<1> QED
  BY <1>1, <1>4, <1>5, <1>6 DEF Finds

\* The scan finds every page and every record from where it starts.
LEMMA AllScanned ==
    ASSUME TypeOK, RecordsLong, NEW D, NEW n, Scannable(D, n),
           NEW start \in Addr, Starts(D, n, start)
    PROVE  Finds(ScanFrom[start], D, n, start)
<1>0. MaxAddr \in Nat /\ dsize \in Nat /\ dsize <= MaxAddr
  BY ConstAssumption DEF Scannable
<1> DEFINE Lost(a) == a \in Addr /\ Starts(D, n, a) /\ ~Finds(ScanFrom[a], D, n, a)
           S == {k \in Nat : Lost(MaxAddr - k)}
<1>1. SUFFICES ASSUME Lost(start) PROVE FALSE
  OBVIOUS
<1>2. PICK k \in S : \A l \in S : k <= l
  <2>1. MaxAddr - start \in Nat /\ MaxAddr - (MaxAddr - start) = start
    BY <1>0 DEF Addr
  <2>2. S # {} /\ S \in SUBSET Nat
    BY <1>1, <2>1
  <2> QED
    BY <2>2, LeastElement
<1>3. PICK a \in Addr : a = MaxAddr - k
  BY <1>2
<1>4. Lost(a) /\ k \in Nat /\ a \in Nat
  BY <1>2, <1>3 DEF Addr
<1>5. \A b \in Addr : b > a => ~Lost(b)
  <2> TAKE b \in Addr
  <2> HAVE b > a
  <2>1. MaxAddr - b \in Nat /\ MaxAddr - (MaxAddr - b) = b /\ ~(k <= MaxAddr - b)
    BY <1>0, <1>3, <1>4 DEF Addr
  <2>2. MaxAddr - b \notin S
    BY <1>2, <2>1
  <2> QED
    BY <2>1, <2>2
<1>6. ASSUME NEW b \in Nat, b > a, Starts(D, n, b)
      PROVE  Finds(IF b \in Addr THEN ScanFrom[b] ELSE NoCount, D, n, b)
  <2>1. CASE b \in Addr
    BY <1>5, <1>6, <2>1
  <2>2. CASE b \notin Addr
    <3>1. b > dsize
      BY <1>0, <1>4, <1>6, <2>2 DEF Addr
    <3> QED
      BY <2>2, <3>1, NothingBehind
  <2> QED
    BY <2>1, <2>2
<1>7. ScanFrom[a] = ScanStep(ScanFrom, a)
  BY ScanFound
<1> HIDE DEF S
<1>8. CASE a = dsize + 1
  <2>1. a > dsize
    BY <1>0, <1>8
  <2>2. ScanStep(ScanFrom, a) = NoCount
    BY <2>1 DEF ScanStep
  <2> QED
    BY <1>4, <1>7, <2>1, <2>2, NothingBehind
<1>9. ASSUME NEW i \in 0 .. n - 1, D[i].addr = a
      PROVE  FALSE
  <2>1. dcell[a] \in Page /\ dcell[a].addr = a /\ dcell[a] # Blank /\ ~(a > dsize)
    BY <1>0, <1>4, <1>9, RecordIsNotPage DEF Scannable
  <2> DEFINE r == IF a + 1 \in Addr THEN ScanFrom[a + 1] ELSE NoCount
  <2>2. Finds(r, D, n, a + 1)
    <3>1. a + 1 \in Nat /\ a + 1 > a /\ Starts(D, n, a + 1)
      BY <1>4, <1>9, StartsBehind
    <3> QED
      BY <1>6, <3>1
  <2>3. ScanStep(ScanFrom, a) = [r EXCEPT !.pages = @ + 1]
    BY <2>1 DEF ScanStep
  <2> HIDE DEF r
  <2>4. Finds([r EXCEPT !.pages = @ + 1], D, n, a)
    BY <1>9, <2>2, PageScanned
  <2> QED
    BY <1>4, <1>7, <2>3, <2>4
<1>10. ASSUME NEW h \in Used(D, n), EntryOf(D, h).addr = a
       PROVE  FALSE
  <2> DEFINE e == EntryOf(D, h)
             b == a + e.lng
             r == IF b \in Addr THEN ScanFrom[b] ELSE NoCount
             q == IF dcell[e.addr].idtyp = ERASED
                  THEN [r EXCEPT !.erased = @ + 1, !.biggest = Larger(@, e.lng)]
                  ELSE [r EXCEPT !.active = @ + 1, !.biggest = Larger(@, e.lng)]
  <2>1. /\ dcell[a] \in RecUnit /\ dcell[a].addr = a /\ dcell[a].lng = e.lng
        /\ ~(a > dsize) /\ e.lng \in Nat \ {0}
    BY <1>0, <1>4, <1>10 DEF Scannable
  <2>2. dcell[a] \notin Page /\ dcell[a] # Blank
    BY <2>1, RecordIsNotPage DEF RecUnit, Blank, NoEntry
  <2>3. Finds(r, D, n, b)
    <3>1. b \in Nat /\ b > a /\ Starts(D, n, b)
      BY <1>4, <1>10, <2>1, StartsBehind
    <3> QED
      BY <1>6, <3>1
  <2>4. ScanStep(ScanFrom, a) = q
    BY <1>10, <2>1, <2>2 DEF ScanStep
  <2> HIDE DEF r, b
  <2>5. Finds(r, D, n, e.addr + e.lng)
    BY <1>10, <2>3 DEF b
  <2>6. Finds(q, D, n, e.addr)
    BY <2>5, RecordScanned
  <2> QED
    BY <1>4, <1>7, <1>10, <2>4, <2>6
<1> QED
  BY <1>4, <1>8, <1>9, <1>10 DEF Starts

-----------------------------------------------------------------------------
(* The diagnosis.                                                          *)

\* The entries of a directory on disk.
LEMMA ChainEntries ==
    ASSUME TypeOK, SelfAddressed, PagesUndeleted,
           NEW c \in [0 .. dhdr.nbd - 1 -> DiskPages], WholeChain(c)
    PROVE  \A h \in Used(DiskDir(c), dhdr.nbd) :
              LET e == EntryOf(DiskDir(c), h) IN
              /\ e.idtyp \in {LIVE, ERASED}
              /\ e.addr \in 2 .. dhdr.fsiz /\ e.lng \in Lens /\ e.lng \in Nat \ {0}
              /\ e.addr + e.lng - 1 <= dhdr.fsiz
              /\ h \in Live(DiskDir(c), dhdr.nbd) <=> e.idtyp # ERASED
              /\ dcell[e.addr] \in RecUnit
              /\ dcell[e.addr].addr = e.addr /\ dcell[e.addr].lng = e.lng
<1> DEFINE D == DiskDir(c)
           n == dhdr.nbd
<1> TAKE h \in Used(D, n)
<1> DEFINE e == EntryOf(D, h)
<1>1. n \in Nat \ {0} /\ dhdr.fsiz \in Nat
  BY ChainFacts
<1>2. h \in Handles /\ h[1] \in 0 .. n - 1 /\ h[2] \in Slot /\ h[1] < n
  BY <1>1, UsedHandle DEF Used
<1>3. D[h[1]] = dcell[c[h[1]]] /\ c[h[1]] \in DiskPages /\ dcell[c[h[1]]] \in Page
  BY <1>2, ChainFacts DEF DiskDir, DiskPages
<1>4. e = dcell[c[h[1]]].entry[h[2]] /\ e \in Entry /\ e.idtyp # SPECIAL /\ e.idtyp # DELETED
  <2>1. e = D[h[1]].entry[h[2]] /\ e.idtyp # SPECIAL
    BY DEF EntryOf, Used
  <2>2. e = dcell[c[h[1]]].entry[h[2]]
    BY <1>3, <2>1
  <2>3. e \in Entry
    BY <1>2, <1>3, <2>2, FieldType
  <2> QED
    BY <1>2, <1>3, <2>1, <2>2, <2>3 DEF PagesUndeleted
<1>5. e.idtyp \in {LIVE, ERASED} /\ e.addr \in Nat
  <2>1. PICK x : x = e
    OBVIOUS
  <2>2. x \in Entry /\ x.idtyp # SPECIAL /\ x.idtyp # DELETED
    BY <1>4, <2>1
  <2>3. x.idtyp \in {LIVE, ERASED} /\ x.addr \in Nat
    BY <2>2 DEF Entry, NoEntry
  <2> QED
    BY <2>1, <2>3
<1>6. h \in Live(D, n) <=> e.idtyp # ERASED
  BY <1>2, <1>5 DEF Live, LIVE, ERASED
<1>7. /\ e.addr >= 2 /\ e.lng \in Lens /\ e.addr + e.lng - 1 <= dhdr.fsiz /\ OnDisk(e)
  BY DEF WholeChain, Consistent, LaidOut
<1>8. e.lng \in Nat \ {0}
  BY <1>7, ConstAssumption
<1>9. e.addr \in Extent(e) /\ e.addr \in 2 .. dhdr.fsiz
  BY <1>1, <1>5, <1>7, <1>8 DEF Extent
<1> HIDE DEF e
<1>10. /\ dcell[e.addr] \in RecUnit
       /\ dcell[e.addr].addr = e.addr /\ dcell[e.addr].lng = e.lng
  BY <1>7, <1>9 DEF OnDisk
<1>11. /\ e.idtyp \in {LIVE, ERASED}
       /\ e.addr \in 2 .. dhdr.fsiz /\ e.lng \in Lens /\ e.lng \in Nat \ {0}
       /\ e.addr + e.lng - 1 <= dhdr.fsiz
       /\ h \in Live(D, n) <=> e.idtyp # ERASED
       /\ dcell[e.addr] \in RecUnit
       /\ dcell[e.addr].addr = e.addr /\ dcell[e.addr].lng = e.lng
  BY <1>5, <1>6, <1>7, <1>8, <1>9, <1>10
<1> QED
  BY <1>11 DEF e

\* A file that ends where its header says can be scanned.
LEMMA ChainScannable ==
    ASSUME TypeOK, SelfAddressed, PagesUndeleted, Checked,
           NEW c \in [0 .. dhdr.nbd - 1 -> DiskPages], TiledChain(c)
    PROVE  Scannable(DiskDir(c), dhdr.nbd)
<1>1. PICK D : D = DiskDir(c)
  OBVIOUS
<1>2. PICK n : n = dhdr.nbd
  OBVIOUS
<1>3. /\ WholeChain(c) /\ Tiled(D, n, dhdr.fsiz) /\ Typed(dcell, D, n)
      /\ dhdr.fsiz = dsize
  BY <1>1, <1>2 DEF TiledChain, Checked
<1>4. n \in Nat /\ dsize \in Nat /\ dsize <= MaxAddr
  BY <1>2, <1>3, FieldType, ConstAssumption DEF TypeOK
<1>5. LaidOut(D, n, dsize)
  BY <1>1, <1>2, <1>3 DEF WholeChain, Consistent
<1>6. ASSUME NEW i \in 0 .. n - 1
      PROVE  /\ D[i].addr \in 2 .. dsize /\ dcell[D[i].addr] \in Page
             /\ dcell[D[i].addr].addr = D[i].addr
  <2>1. /\ D[i] = dcell[c[i]] /\ dcell[c[i]] \in Page /\ dcell[c[i]].addr = c[i]
    BY <1>1, <1>2, <1>3, ChainFacts DEF DiskDir
  <2> QED
    BY <1>5, <2>1 DEF LaidOut
<1>7. ASSUME NEW h \in Used(D, n)
      PROVE  LET e == EntryOf(D, h) IN
             /\ e.addr \in 2 .. dsize /\ e.lng \in Nat \ {0} /\ e.addr + e.lng - 1 <= dsize
             /\ dcell[e.addr] \in RecUnit
             /\ dcell[e.addr].addr = e.addr /\ dcell[e.addr].lng = e.lng
             /\ h \in Live(D, n) <=> dcell[e.addr].idtyp # ERASED
  BY <1>1, <1>2, <1>3, ChainEntries DEF Typed
<1>8. /\ \A i, k \in 0 .. n - 1 : D[i].addr = D[k].addr => i = k
      /\ \A h \in Used(D, n) :
            LET e == EntryOf(D, h) IN
            /\ \A i \in 0 .. n - 1 : D[i].addr \notin Extent(e)
            /\ \A g \in Used(D, n) :
                  g # h => \/ e.addr + e.lng <= EntryOf(D, g).addr
                           \/ EntryOf(D, g).addr + EntryOf(D, g).lng <= e.addr
  BY <1>5, Zenon DEF LaidOut
<1>9. Tiled(D, n, dsize)
  BY <1>3
<1>10. Scannable(D, n)
  BY <1>4, <1>6, <1>7, <1>8, <1>9 DEF Scannable
<1> QED
  BY <1>1, <1>2, <1>10

\* A file without a flag that ends where its header says is diagnosed as sound.
LEMMA TiledDiagnosed ==
    ASSUME TypeOK, OneWriterInv, TilesInv, dhdr.rwflg = RDMODE, dhdr.nbd > 0, Checked
    PROVE  Diagnosed
<1>1. PICK c \in [0 .. dhdr.nbd - 1 -> DiskPages] : TiledChain(c)
  BY DEF TilesInv, DiskTiled
<1>2. SelfAddressed /\ PagesUndeleted /\ RecordsLong /\ WholeChain(c)
  BY <1>1 DEF OneWriterInv, TilesInv, TiledChain
<1>3. PICK D : D = DiskDir(c)
  OBVIOUS
<1>4. PICK n : n = dhdr.nbd
  OBVIOUS
<1>5. Scannable(D, n) /\ Consistent(dhdr, D, n)
  BY <1>1, <1>2, <1>3, <1>4, ChainScannable DEF WholeChain
<1>6. n \in Nat /\ 0 \in 0 .. n - 1 /\ D[0].addr = 2
  BY <1>2, <1>4, <1>5, ChainFacts DEF Consistent
<1>7. 2 \in Addr /\ Starts(D, n, 2)
  BY <1>6, ConstAssumption DEF Addr, Starts
<1>8. PICK scan : scan = ScanFrom[2]
  OBVIOUS
<1>9. Finds(scan, D, n, 2)
  BY <1>2, <1>5, <1>7, <1>8, AllScanned
<1>10. PagesFrom(D, n, 2) = 0 .. n - 1
  <2>1. \A i \in 0 .. n - 1 : D[i].addr >= 2
    BY <1>5 DEF Scannable
  <2> QED
    BY <2>1 DEF PagesFrom
<1>11. \A S \in SUBSET Used(D, n) : EntriesFrom(S, D, 2) = S
  <2>1. \A h \in Used(D, n) : EntryOf(D, h).addr >= 2
    BY <1>5 DEF Scannable
  <2> QED
    BY <2>1 DEF EntriesFrom
<1>12. /\ Live(D, n) \in SUBSET Used(D, n) /\ Used(D, n) \ Live(D, n) \in SUBSET Used(D, n)
       /\ Used(D, n) \in SUBSET Used(D, n) /\ Used(D, n) \in SUBSET Handles
       /\ Live(D, n) \in SUBSET Handles
  BY <1>6, UsedHandle
<1>13. /\ Cardinality(Used(D, n)) \in Nat /\ Cardinality(Live(D, n)) \in Nat
       /\ Cardinality(Used(D, n) \ Live(D, n)) = Cardinality(Used(D, n)) - Cardinality(Live(D, n))
  <2>1. IsFiniteSet(Used(D, n))
    BY <1>12, HandlesFinite
  <2>2. Used(D, n) \cap Live(D, n) = Live(D, n)
    BY <1>12
  <2> QED
    BY <1>12, <2>1, <2>2, HandlesFinite, FS_Difference
<1>14. Cardinality(0 .. n - 1) = n
  BY <1>6, FS_Interval
<1>15. /\ scan \in [pages : Nat, active : Nat, erased : Nat, biggest : Nat]
       /\ scan.pages = n
       /\ scan.active = Cardinality(Live(D, n))
       /\ scan.erased = Cardinality(Used(D, n)) - Cardinality(Live(D, n))
       /\ \A h \in Used(D, n) : EntryOf(D, h).lng <= scan.biggest
       /\ scan.biggest > 0 => \E h \in Used(D, n) : EntryOf(D, h).lng = scan.biggest
  BY <1>9, <1>10, <1>11, <1>12, <1>13, <1>14 DEF Finds
<1>16. /\ dhdr.nbd = n
       /\ dhdr.nrec = Cardinality(Live(D, n))
       /\ dhdr.nxtn = Cardinality(Used(D, n))
       /\ \A h \in Used(D, n) : EntryOf(D, h).lng <= dhdr.nbig
       /\ dhdr.nbig > 0 => \E h \in Used(D, n) : EntryOf(D, h).lng = dhdr.nbig
  BY <1>5 DEF Consistent, Counted
<1>17. dhdr.nbig \in Nat /\ scan.biggest \in Nat
       /\ \A h \in Used(D, n) : EntryOf(D, h).lng \in Nat
  BY <1>5, <1>15, FieldType DEF TypeOK, Scannable
<1>18. dhdr.nbig = scan.biggest
  BY <1>15, <1>16, <1>17
<1> QED
  BY <1>8, <1>13, <1>15, <1>16, <1>18 DEF Diagnosed

-----------------------------------------------------------------------------
(* The tiles under the steps of the processes.                             *)

\* Only the n pages of a directory count.
LEMMA SameTiles ==
    ASSUME NEW D, NEW E, NEW n \in Nat, \A i \in 0 .. n - 1 : E[i] = D[i]
    PROVE  /\ \A size : Tiled(D, n, size) => Tiled(E, n, size)
           /\ \A C : Typed(C, D, n) => Typed(C, E, n)
<1>1. \A h \in Handles : h[1] < n => h[1] \in 0 .. n - 1
  BY ConstAssumption DEF Handles, PageIdx
<1>2. \A h \in Handles : h[1] < n => EntryOf(E, h) = EntryOf(D, h)
  BY <1>1 DEF EntryOf
<1>3. Used(E, n) = Used(D, n)
  BY <1>2 DEF Used
<1>4. \A h \in Used(D, n) : EntryOf(E, h) = EntryOf(D, h)
  BY <1>2 DEF Used
<1>5. ASSUME NEW size, Tiled(D, n, size)
      PROVE  Tiled(E, n, size)
  BY <1>3, <1>4, <1>5 DEF Tiled
<1>6. ASSUME NEW C, Typed(C, D, n)
      PROVE  Typed(C, E, n)
  BY <1>3, <1>4, <1>6 DEF Typed
<1> QED
  BY <1>5, <1>6

\* A unit of the file that is no empty record and no page with an entry deleted in core.
UnitFine(x) ==
    /\ x \in RecUnit => x.lng \in Lens
    /\ x \in Page => \A s \in Slot : x.entry[s].idtyp # DELETED

\* A unit of a record keeps its type, if the record starts there.
SameKind(a) ==
    SameUnit(a) /\ (dcell[a] \in RecUnit /\ dcell[a].addr = a
                       => dcell'[a].idtyp = dcell[a].idtyp)

\* The directory on disk goes on tiling the file when nothing below the announced size is
\* changed but the contents of records.
LEMMA DiskTiledKept ==
    ASSUME TypeOK, SelfAddressed, PagesUndeleted, DiskTiled, dhdr' = dhdr,
           dhdr.rwflg = RDMODE => \A a \in Addr : a <= dhdr.fsiz => SameKind(a)
    PROVE  DiskTiled'
<1>1. SUFFICES ASSUME dhdr'.rwflg = RDMODE, dhdr'.nbd > 0
               PROVE  \E c \in [0 .. dhdr'.nbd - 1 -> DiskPages'] : TiledChain(c)'
  BY DEF DiskTiled
<1>2. \A a \in Addr : a <= dhdr.fsiz => SameKind(a) /\ SameUnit(a)
  BY <1>1 DEF SameKind
<1>3. PICK c \in [0 .. dhdr.nbd - 1 -> DiskPages] : TiledChain(c)
  BY <1>1 DEF DiskTiled
<1>4. WholeChain(c)
  BY <1>3 DEF TiledChain
<1>5. /\ c \in [0 .. dhdr'.nbd - 1 -> DiskPages'] /\ WholeChain(c)'
      /\ \A i \in 0 .. dhdr.nbd - 1 : dcell'[c[i]] = dcell[c[i]]
  BY <1>2, <1>4, ChainKept
<1>6. PICK D : D = DiskDir(c)
  OBVIOUS
<1>7. DiskDir(c)' = D
  BY <1>5, <1>6 DEF DiskDir
<1>8. Typed(dcell', D, dhdr.nbd)
  <2> SUFFICES ASSUME NEW h \in Used(D, dhdr.nbd)
               PROVE  dcell'[EntryOf(D, h).addr].idtyp = dcell[EntryOf(D, h).addr].idtyp
    BY <1>3, <1>6 DEF TiledChain, Typed
  <2>1. /\ EntryOf(D, h).addr \in 2 .. dhdr.fsiz
        /\ dcell[EntryOf(D, h).addr] \in RecUnit
        /\ dcell[EntryOf(D, h).addr].addr = EntryOf(D, h).addr
    BY <1>4, <1>6, ChainEntries
  <2>2. EntryOf(D, h).addr \in Addr /\ EntryOf(D, h).addr <= dhdr.fsiz
    BY <2>1, FieldType, ConstAssumption DEF TypeOK, Addr
  <2> QED
    BY <1>2, <2>1, <2>2 DEF SameKind
<1>9. Tiled(D, dhdr.nbd, dhdr.fsiz)
  BY <1>3, <1>6 DEF TiledChain
<1>10. TiledChain(c)'
  <2>1. Tiled(DiskDir(c)', dhdr'.nbd, dhdr'.fsiz) /\ Typed(dcell', DiskDir(c)', dhdr'.nbd)
    BY <1>7, <1>8, <1>9
  <2> QED
    BY <1>5, <2>1 DEF TiledChain, Tiled, Typed, Used, EntryOf, Extent
<1> QED
  BY <1>5, <1>10

\* So it does when the disk stays.
LEMMA DiskTiledSteady ==
    ASSUME TypeOK, SelfAddressed, TilesInv, UNCHANGED disk
    PROVE  DiskTiled' /\ \A a \in Addr : dcell'[a] = dcell[a]
<1>1. dhdr' = dhdr /\ dcell' = dcell
  BY DEF disk
<1>2. \A a \in Addr : SameKind(a)
  BY <1>1 DEF SameKind, SameUnit
<1> QED
  BY <1>1, <1>2, DiskTiledKept DEF TilesInv

\* A session that is left alone, with the file.
LEMMA TilesSteady ==
    ASSUME NEW p \in Procs, TiledSession(p), dcell' = dcell, hdr'[p].fsiz = hdr[p].fsiz,
           dir_page'[p] = dir_page[p], npages'[p] = npages[p]
    PROVE  TiledSession(p)'
BY DEF TiledSession, Tiled, Typed, Used, EntryOf, Extent

\* Only the session of the process that steps has to be looked at.
LEMMA TilesAssembled ==
    ASSUME TypeOK, TypeOK', OneWriterOnly, TilesInv, NEW p \in Procs, OnlyEntry(p),
           UNCHANGED disk \/ p \in Writers,
           \A a \in Addr : dcell'[a] = dcell[a] \/ UnitFine(dcell'[a]),
           DiskTiled', pc'[p] = "closed" => hdr'[p] = EmptyHeader,
           Writing(p)' => TiledSession(p)'
    PROVE  TilesInv'
<1>1. ASSUME NEW q \in Procs, q # p, Writing(q)' PROVE TiledSession(q)'
  <2>1. /\ pc'[q] = pc[q] /\ hdr'[q] = hdr[q] /\ dir_page'[q] = dir_page[q]
        /\ npages'[q] = npages[q]
    BY <1>1 DEF OnlyEntry
  <2>2. Writing(q) /\ q \in Writers
    BY <1>1, <2>1 DEF Writing, CanWrite
  <2>3. dcell' = dcell
    BY <1>1, <2>2 DEF OneWriterOnly, disk
  <2>4. TiledSession(q)
    BY <2>2 DEF TilesInv
  <2> QED
    BY <2>1, <2>3, <2>4, TilesSteady
<1>2. \A a \in Addr : UnitFine(dcell[a]) => UnitFine(dcell'[a])
  BY Zenon
<1>3. ASSUME NEW a \in Addr PROVE UnitFine(dcell[a])
  <2>1. dcell[a] \in RecUnit => dcell[a].lng \in Lens
    BY DEF TilesInv, RecordsLong
  <2>2. dcell[a] \in Page => \A s \in Slot : dcell[a].entry[s].idtyp # DELETED
    BY DEF TilesInv, PagesUndeleted, DiskPages
  <2> QED
    BY <2>1, <2>2 DEF UnitFine
<1>4. \A a \in Addr : UnitFine(dcell'[a])
  BY <1>2, <1>3
<1>5. PagesUndeleted' /\ RecordsLong'
  BY <1>4 DEF UnitFine, PagesUndeleted, RecordsLong, DiskPages
<1>6. ClosedEmpty'
  <2> SUFFICES ASSUME NEW q \in Procs, pc'[q] = "closed" PROVE hdr'[q] = EmptyHeader
    BY DEF ClosedEmpty
  <2>1. CASE q = p
    BY <2>1
  <2>2. CASE q # p
    BY <2>2 DEF OnlyEntry, TilesInv, ClosedEmpty
  <2> QED
    BY <2>1, <2>2
<1>7. \A q \in Procs : Writing(q)' => TiledSession(q)'
  BY <1>1
<1> QED
  BY <1>5, <1>6, <1>7 DEF TilesInv

\* And nothing on disk, when it stays.
LEMMA TilesInCore ==
    ASSUME TypeOK, TypeOK', OneWriterOnly, OneWriterInv, TilesInv, NEW p \in Procs,
           OnlyEntry(p), UNCHANGED disk,
           pc'[p] = "closed" => hdr'[p] = EmptyHeader,
           Writing(p)' => TiledSession(p)'
    PROVE  TilesInv'
<1>1. DiskTiled' /\ \A a \in Addr : dcell'[a] = dcell[a]
  BY DiskTiledSteady DEF OneWriterInv
<1> QED
  BY <1>1, TilesAssembled

\* Opening a file, ending a checkpoint, dying: the disk stays.
LEMMA InCoreTiles ==
    ASSUME TypeOK, TypeOK', OneWriterOnly, OneWriterInv, TilesInv, NEW p \in Procs,
           \/ \E mode \in {RDMODE, RWMODE, APPEND} : Open(p, mode)
           \/ PutDirFull(p)
           \/ CheckpointEnd(p) \/ CloseRefused(p) \/ Crash(p)
    PROVE  TilesInv'
<1>1. CASE \/ \E mode \in {RDMODE, RWMODE, APPEND} : Open(p, mode)
           \/ CloseRefused(p) \/ Crash(p)
  <2>1. OnlyEntry(p)
    BY <1>1 DEF Open, CloseRefused, Crash, Forget, OnlyEntry, TypeOK
  <2>2. UNCHANGED disk
    BY <1>1 DEF Open, CloseRefused, Crash, OneWriterOnly, CanWrite, disk
  <2>3. pc'[p] \in {"closed", "refused", "loading"}
    BY <1>1 DEF Open, CloseRefused, Crash, TypeOK
  <2>4. pc'[p] = "closed" => hdr'[p] = EmptyHeader
    BY <1>1 DEF Open, CloseRefused, Crash, Forget, TypeOK
  <2> QED
    BY <2>1, <2>2, <2>3, <2>4, TilesInCore DEF Writing
<1>2. CASE PutDirFull(p) \/ CheckpointEnd(p)
  <2>1. OnlyEntry(p) /\ UNCHANGED disk
    BY <1>2 DEF PutDirFull, CheckpointEnd, OnlyEntry, TypeOK, aux
  <2>2. /\ dir_page'[p] = dir_page[p] /\ npages'[p] = npages[p] /\ hdr'[p] = hdr[p]
        /\ pc[p] \in {"open", "flush"} /\ pc'[p] = "open"
    BY <1>2 DEF PutDirFull, CheckpointEnd, TypeOK
  <2>3. Writing(p)' => Writing(p) /\ TiledSession(p)
    BY <2>2 DEF Writing, CanWrite, TilesInv
  <2>4. Writing(p)' => TiledSession(p)'
    BY <2>1, <2>2, <2>3, TilesSteady DEF disk
  <2> QED
    BY <2>1, <2>2, <2>4, TilesInCore
<1> QED
  BY <1>1, <1>2

\* The last page read: the directory in core is the one on disk.
LEMMA LoadPageTiles ==
    ASSUME TypeOK, TypeOK', OneWriterOnly, OneWriterInv, TilesInv, NEW p \in Procs,
           LoadPage(p)
    PROVE  TilesInv'
<1>1. OnlyEntry(p) /\ UNCHANGED disk
  BY ZenonT(60) DEF LoadPage, OnlyEntry, TypeOK
<1>2. pc[p] = "loading" /\ pc'[p] # "closed" /\ hdr'[p] = hdr[p]
  <2>1. /\ pc[p] = "loading" /\ hdr' = hdr
        /\ \E x \in {"refused", "open", "loading"} : pc' = [pc EXCEPT ![p] = x]
    BY DEF LoadPage
  <2> QED
    BY <2>1 DEF TypeOK
<1>3. ASSUME Writing(p)' PROVE TiledSession(p)'
  <2>1. Loaded(p)
    BY <1>3, LoadPageFacts DEF Writing
  <2>2. PICK c \in [0 .. dhdr.nbd - 1 -> DiskPages] :
           WholeChain(c) /\ \A i \in 0 .. dhdr.nbd - 1 : dir_page'[p][i] = dcell[c[i]]
    BY <2>1 DEF Loaded
  <2>3. /\ dhdr.nbd \in Nat \ {0} /\ npages'[p] = dhdr.nbd /\ dhdr.rwflg = RDMODE
    BY <2>1, <2>2, ChainFacts DEF OneWriterInv, Loaded
  <2>4. PICK d \in [0 .. dhdr.nbd - 1 -> DiskPages] : TiledChain(d)
    BY <2>3 DEF TilesInv, DiskTiled
  <2>5. d = c
    BY <2>2, <2>4, ChainUnique DEF OneWriterInv, TiledChain
  <2>6. PICK D : D = DiskDir(c)
    OBVIOUS
  <2>7. \A i \in 0 .. dhdr.nbd - 1 : dir_page'[p][i] = D[i]
    BY <2>2, <2>6 DEF DiskDir
  <2>8. Tiled(D, dhdr.nbd, dhdr.fsiz) /\ Typed(dcell, D, dhdr.nbd)
    BY <2>4, <2>5, <2>6 DEF TiledChain
  <2>9. /\ Tiled(dir_page'[p], npages'[p], dhdr.fsiz)
        /\ Typed(dcell, dir_page'[p], npages'[p])
    BY <2>3, <2>7, <2>8, SameTiles
  <2>10. hdr'[p].fsiz = dhdr.fsiz /\ dcell' = dcell
    <3>1. CanWrite(p)
      BY <1>2, <1>3 DEF Writing, CanWrite
    <3>2. LoadingInv(p)
      BY <1>2, <3>1 DEF OneWriterInv
    <3> QED
      BY <1>1, <1>2, <3>2 DEF LoadingInv, TypeOK, Header, disk
  <2> QED
    BY <2>9, <2>10 DEF TiledSession, Tiled, Typed, Used, EntryOf, Extent
<1> QED
  BY <1>1, <1>2, <1>3, TilesInCore

\* A new file: one page behind the header.
LEMMA CreateTiles ==
    ASSUME TypeOK, TypeOK', OneWriterOnly, OneWriterInv, TilesInv, NEW p \in Procs, Create(p)
    PROVE  TilesInv'
<1>1. /\ p \in Writers /\ dhdr' = NewHeader /\ pc'[p] = "open"
      /\ dcell' = [dcell EXCEPT ![2] = NewPage(2)]
      /\ hdr'[p].fsiz = 2 /\ npages'[p] = 1
      /\ dir_page'[p] = [dir_page[p] EXCEPT ![0] = NewPage(2)]
  BY DEF Create, TypeOK
<1>2. OnlyEntry(p)
  BY DEF Create, OnlyEntry, TypeOK, aux
<1>3. dhdr'.nbd = 0
  BY <1>1 DEF NewHeader, EmptyHeader
<1>4. 2 \in Addr /\ 0 \in PageIdx
  BY ConstAssumption DEF Addr, PageIdx
<1>5. PICK D : D = dir_page'[p]
  OBVIOUS
<1>6. D[0] = NewPage(2)
  BY <1>1, <1>4, <1>5, ProcType
<1>7. /\ D[0].addr = 2 /\ \A s \in Slot : D[0].entry[s].idtyp = SPECIAL
  BY <1>6 DEF NewPage, NoEntry
<1>8. Used(D, 1) = {}
  <2>1. \A h \in Handles : h[1] < 1 => h[1] = 0 /\ h[2] \in Slot
    BY ConstAssumption DEF Handles, PageIdx
  <2> QED
    BY <1>7, <2>1 DEF Used, EntryOf
<1>9. Tiled(D, 1, 2) /\ Typed(dcell', D, 1)
  <2>1. 0 \in 0 .. 1 - 1 /\ \A a \in 2 .. 2 : a = 2
    OBVIOUS
  <2> QED
    BY <1>7, <1>8, <2>1 DEF Tiled, Typed
<1>10. TiledSession(p)'
  BY <1>1, <1>5, <1>9 DEF TiledSession, Tiled, Typed, Used, EntryOf, Extent
<1>11. \A a \in Addr : dcell'[a] = dcell[a] \/ UnitFine(dcell'[a])
  <2>1. NewPage(2) \in Page
    BY NewPageType
  <2>2. NewPage(2) \notin RecUnit
    BY <2>1, RecordIsNotPage
  <2>3. \A s \in Slot : NewPage(2).entry[s].idtyp # DELETED
    BY DEF NewPage, NoEntry, SPECIAL, DELETED
  <2>4. UnitFine(NewPage(2))
    BY <2>2, <2>3 DEF UnitFine
  <2> QED
    BY <1>1, <2>4 DEF TypeOK
<1>12. DiskTiled'
  BY <1>3 DEF DiskTiled
<1> QED
  BY <1>1, <1>2, <1>10, <1>11, <1>12, TilesAssembled

\* c_xdfput of a record, new or moved: the record, and its page if one is added, continue
\* the tiles behind the announced size.
LEMMA AddRecordTiles ==
    ASSUME TypeOK, TypeOK', OneWriterOnly, OneWriterInv, TilesInv, NEW p \in Procs,
           pc[p] = "open", CanWrite(p), NEW v \in Vals, NEW n \in Lens,
           NEW old \in SUBSET Handles, \A h \in old : Valid(p, h), AddRecord(p, v, n, old)
    PROVE  TilesInv'
<1>1. Writing(p) /\ p \in Writers
  BY DEF Writing, CanWrite
<1>2. SessionInv(p) /\ TiledSession(p)
  BY <1>1 DEF OneWriterInv, TilesInv
<1>3. PICK at : at = SizeFor(p) + 1
  OBVIOUS
<1>4. PICK m : m = npages[p]
  OBVIOUS
<1>5. PICK N : N = npages'[p]
  OBVIOUS
<1>6. PICK D : D = dir_page[p]
  OBVIOUS
<1>7. PICK E : E = dir_page'[p]
  OBVIOUS
<1>8. PICK size : size = hdr[p].fsiz
  OBVIOUS
<1> DEFINE e == [idtyp |-> LIVE, val |-> v, addr |-> at, lng |-> n]
<1>9. /\ OnlyEntry(p) /\ pc'[p] = "open" /\ hdr'[p].fsiz = at + n - 1 /\ dhdr' = dhdr
      /\ at \in Nat /\ at > size /\ n \in Nat \ {0} /\ at + n - 1 <= MaxAddr
      /\ \A a \in Addr : a <= size => dcell'[a] = dcell[a]
  BY <1>2, <1>3, <1>8, AddedRecord
<1>10. /\ size \in Nat /\ size >= 2 /\ size <= MaxAddr /\ m \in Nat /\ m > 0
  BY <1>2, <1>4, <1>8, SessionFacts, ConstAssumption
<1>11. PICK g : AddedAs(hdr[p], D, E, m, N, g, e, old)
  BY <1>2, <1>3, <1>4, <1>5, <1>6, <1>7, AddedDirectory
<1>12. /\ N = m => at = size + 1
       /\ N = m + 1 => at = size + 2
  <2>1. N = PageFor(p) + 1
    <3>1. npages' = [npages EXCEPT ![p] = PageFor(p) + 1]
      BY DEF AddRecord
    <3>2. npages'[p] = PageFor(p) + 1
      BY <3>1 DEF TypeOK
    <3> QED
      BY <1>5, <3>2
  <2> QED
    BY <1>3, <1>4, <1>8, <1>10, <2>1 DEF PageFor, SizeFor
<1>13. \A a \in Addr : \/ a \in at .. at + n - 1 /\ dcell'[a] = e
                       \/ dcell'[a] = NewPage(a)
                       \/ dcell'[a] = dcell[a]
  <2>1. dcell' = [a \in Addr |->
            IF a \in Extent(e) THEN e
            ELSE IF LastFull(p) /\ a = hdr[p].fsiz + 1 THEN NewPage(a)
            ELSE dcell[a]]
    BY <1>3 DEF AddRecord
  <2>2. Extent(e) = at .. at + n - 1
    BY DEF Extent
  <2> HIDE DEF e
  <2> QED
    BY <2>1, <2>2
<1>14. at \in Addr /\ dcell'[at].idtyp = LIVE
  <2>1. at \in Addr /\ at \in at .. at + n - 1
    BY <1>9, <1>10, ConstAssumption DEF Addr
  <2>2. dcell'[at] = e
    <3>1. dcell' = [a \in Addr |->
              IF a \in Extent(e) THEN e
              ELSE IF LastFull(p) /\ a = hdr[p].fsiz + 1 THEN NewPage(a)
              ELSE dcell[a]]
      BY <1>3 DEF AddRecord
    <3>2. at \in Extent(e)
      BY <2>1 DEF Extent
    <3> HIDE DEF e
    <3> QED
      BY <2>1, <3>1, <3>2
  <2> QED
    BY <2>1, <2>2
<1> HIDE DEF e
<1>15. e.addr = at /\ e.lng = n /\ e.idtyp = LIVE
  BY DEF e
<1>16. \A h \in Used(D, m) :
          /\ EntryOf(D, h).addr \in 2 .. size /\ EntryOf(D, h).addr \in Addr
          /\ h \in old => EntryOf(D, h).idtyp = LIVE
          /\ EntryOf(D, h) \in Entry
  <2> TAKE h \in Used(D, m)
  <2>1. h[1] \in PageIdx /\ h[2] \in Slot
    BY <1>10, UsedHandle
  <2>2. D[h[1]] \in Page
    BY <1>6, <2>1, ProcType
  <2>3. EntryOf(D, h) \in Entry
    BY <2>1, <2>2, FieldType DEF EntryOf
  <2>4. EntryOf(D, h).addr \in Nat
    BY <2>3 DEF Entry, NoEntry
  <2>5. /\ EntryOf(D, h).addr >= 2 /\ EntryOf(D, h).lng \in Lens
        /\ EntryOf(D, h).addr + EntryOf(D, h).lng - 1 <= size
    BY <1>2, <1>4, <1>6, <1>8 DEF SessionInv, Consistent, LaidOut
  <2>6. EntryOf(D, h).lng \in Nat \ {0}
    BY <2>5, ConstAssumption
  <2>7. h \in old => EntryOf(D, h).idtyp = LIVE
    BY <1>6 DEF Valid, EntryOf
  <2> QED
    BY <1>10, <2>3, <2>4, <2>5, <2>6, <2>7, ConstAssumption DEF Addr
<1>17. \A h \in Used(D, m) :
          /\ h \in Used(E, N)
          /\ EntryOf(E, h).addr = EntryOf(D, h).addr /\ EntryOf(E, h).lng = EntryOf(D, h).lng
          /\ EntryOf(E, h).idtyp = ERASED <=> EntryOf(D, h).idtyp = ERASED
  <2> TAKE h \in Used(D, m)
  <2>1. EntryOf(E, h) = IF h \in old THEN [EntryOf(D, h) EXCEPT !.idtyp = DELETED]
                        ELSE EntryOf(D, h)
    BY <1>11 DEF AddedAs
  <2>2. h \in Used(E, N)
    BY <1>11 DEF AddedAs
  <2> QED
    BY <1>16, <2>1, <2>2 DEF Entry, NoEntry, LIVE, DELETED, ERASED
<1>18. /\ Used(E, N) = Used(D, m) \cup {g} /\ EntryOf(E, g) = e
       /\ \A i \in 0 .. m - 1 : E[i].addr = D[i].addr
       /\ N = m \/ (N = m + 1 /\ E[m].addr = size + 1)
  BY <1>8, <1>11 DEF AddedAs
<1>19. Tiled(E, N, at + n - 1)
  <2> SUFFICES ASSUME NEW a \in 2 .. at + n - 1
               PROVE  \/ \E i \in 0 .. N - 1 : E[i].addr = a
                      \/ \E h \in Used(E, N) : a \in Extent(EntryOf(E, h))
    BY DEF Tiled
  <2>1. CASE a <= size
    <3>1. a \in 2 .. size
      BY <1>9, <1>10, <2>1
    <3>2. \/ \E i \in 0 .. m - 1 : D[i].addr = a
          \/ \E h \in Used(D, m) : a \in Extent(EntryOf(D, h))
      BY <1>2, <1>4, <1>6, <1>8, <3>1 DEF TiledSession, Tiled
    <3>3. ASSUME NEW i \in 0 .. m - 1, D[i].addr = a
          PROVE  \E k \in 0 .. N - 1 : E[k].addr = a
      <4>1. i \in 0 .. N - 1 /\ E[i].addr = a
        BY <1>10, <1>18, <3>3
      <4> QED
        BY <4>1
    <3>4. ASSUME NEW h \in Used(D, m), a \in Extent(EntryOf(D, h))
          PROVE  h \in Used(E, N) /\ a \in Extent(EntryOf(E, h))
      BY <1>17, <3>4 DEF Extent
    <3> QED
      BY <3>2, <3>3, <3>4
  <2>2. CASE a >= at
    <3>1. a \in Extent(e)
      BY <1>9, <1>15, <2>2 DEF Extent
    <3> QED
      BY <1>18, <3>1
  <2>3. CASE a = size + 1 /\ N = m + 1
    <3>1. m \in 0 .. N - 1 /\ E[m].addr = a
      BY <1>10, <1>18, <2>3
    <3> QED
      BY <3>1
  <2> QED
    BY <1>9, <1>10, <1>12, <1>18, <2>1, <2>2, <2>3
<1>20. Typed(dcell', E, N)
  <2> SUFFICES ASSUME NEW h \in Used(E, N)
               PROVE  dcell'[EntryOf(E, h).addr].idtyp = ERASED <=> EntryOf(E, h).idtyp = ERASED
    BY DEF Typed
  <2>1. CASE h = g
    BY <1>14, <1>15, <1>18, <2>1 DEF LIVE, ERASED
  <2>2. CASE h \in Used(D, m)
    <3>1. dcell'[EntryOf(D, h).addr] = dcell[EntryOf(D, h).addr]
      BY <1>9, <1>10, <1>16, <2>2
    <3>2. dcell[EntryOf(D, h).addr].idtyp = ERASED <=> EntryOf(D, h).idtyp = ERASED
      BY <1>2, <1>4, <1>6, <2>2 DEF TiledSession, Typed
    <3> QED
      BY <1>17, <2>2, <3>1, <3>2
  <2> QED
    BY <1>18, <2>1, <2>2
<1>21. TiledSession(p)'
  <2>1. Tiled(dir_page'[p], npages'[p], hdr'[p].fsiz) /\ Typed(dcell', dir_page'[p], npages'[p])
    BY <1>5, <1>7, <1>9, <1>19, <1>20
  <2> QED
    BY <2>1 DEF TiledSession, Tiled, Typed, Used, EntryOf, Extent
<1>22. \A a \in Addr : dcell'[a] = dcell[a] \/ UnitFine(dcell'[a])
  <2> TAKE a \in Addr
  <2>1. CASE dcell'[a] = e
    <3>1. e \in RecUnit
      BY <1>9 DEF e, RecUnit
    <3> QED
      BY <1>15, <2>1, <3>1, RecordIsNotPage DEF UnitFine
  <2>2. CASE dcell'[a] = NewPage(a)
    <3>1. a \in Nat /\ NewPage(a) \in Page
      BY NewPageType, ConstAssumption DEF Addr
    <3>2. \A s \in Slot : NewPage(a).entry[s].idtyp # DELETED
      BY DEF NewPage, NoEntry, SPECIAL, DELETED
    <3> QED
      BY <2>2, <3>1, <3>2, RecordIsNotPage DEF UnitFine
  <2> QED
    BY <1>13, <2>1, <2>2
<1>23. DiskTiled'
  <2>1. dhdr.rwflg = RDMODE => \A a \in Addr : a <= dhdr.fsiz => SameKind(a)
    <3> SUFFICES ASSUME dhdr.rwflg = RDMODE, NEW a \in Addr, a <= dhdr.fsiz
                 PROVE  dcell'[a] = dcell[a]
      BY DEF SameKind, SameUnit
    <3>1. dhdr.fsiz <= size /\ dhdr.fsiz \in Nat /\ a \in Nat
      BY <1>2, <1>8, FieldType, ConstAssumption DEF SessionInv, TypeOK, Addr
    <3> QED
      BY <1>9, <1>10, <3>1
  <2> QED
    BY <1>9, <2>1, DiskTiledKept DEF OneWriterInv, TilesInv
<1> QED
  BY <1>1, <1>9, <1>21, <1>22, <1>23, TilesAssembled

\* A record that is rewritten in place, deleted or erased keeps its tile.
LEMMA RetouchedTiles ==
    ASSUME TypeOK, TypeOK', OneWriterOnly, OneWriterInv, TilesInv, NEW p \in Procs, NEW h, NEW r,
           Retouched(p, h, r),
           r.idtyp = ERASED <=> dcell'[EntryOf(dir_page[p], h).addr].idtyp = ERASED,
           \A a \in Addr : a \notin Extent(EntryOf(dir_page[p], h)) => dcell'[a] = dcell[a],
           dhdr.rwflg = RDMODE => \A a \in Addr : a <= dhdr.fsiz => SameKind(a)
    PROVE  TilesInv'
<1>1. /\ OnlyEntry(p) /\ Writing(p) /\ pc'[p] = pc[p] /\ npages'[p] = npages[p]
      /\ h \in Handles /\ h[1] < npages[p] /\ Replaced(dir_page[p], dir_page'[p], h, r)
      /\ EntryOf(dir_page[p], h).idtyp # SPECIAL /\ r.idtyp # SPECIAL
      /\ r.addr = EntryOf(dir_page[p], h).addr /\ r.lng = EntryOf(dir_page[p], h).lng
      /\ hdr'[p] = [hdr[p] EXCEPT !.nrec = Cardinality(Live(dir_page'[p], npages[p]))]
      /\ dhdr' = dhdr /\ \A a \in Addr : SameUnit(a)
  BY Zenon DEF Retouched
<1>2. SessionInv(p) /\ TiledSession(p) /\ p \in Writers /\ pc'[p] # "closed"
  BY <1>1 DEF OneWriterInv, TilesInv, Writing, CanWrite
<1>3. /\ dir_page[p] \in [PageIdx -> Page] /\ npages[p] \in Nat /\ npages[p] <= MAX_DIR_PAGES
      /\ hdr'[p].fsiz = hdr[p].fsiz
  BY <1>1, ProcType, ConstAssumption DEF Header
<1>4. PICK D : D = dir_page[p]
  OBVIOUS
<1>5. PICK E : E = dir_page'[p]
  OBVIOUS
<1>6. PICK n : n = npages[p]
  OBVIOUS
<1>7. Resembles(D, E, n)
  BY <1>1, <1>3, <1>4, <1>5, <1>6, ReplacedEntry
<1>8. /\ Used(E, n) = Used(D, n)
      /\ \A k \in Used(D, n) : /\ EntryOf(E, k).addr = EntryOf(D, k).addr
                               /\ EntryOf(E, k).lng = EntryOf(D, k).lng
      /\ \A i \in 0 .. n - 1 : E[i].addr = D[i].addr
  <2>1. \A i \in 0 .. n - 1 : E[i].addr = D[i].addr
    BY <1>7 DEF Resembles
  <2> QED
    BY <1>3, <1>6, <1>7, <2>1, ResembleUsed
<1>9. \A k \in Handles : EntryOf(E, k) = IF k = h THEN r ELSE EntryOf(D, k)
  <2> TAKE k \in Handles
  <2>1. /\ k[1] \in PageIdx /\ k[2] \in Slot /\ k = <<k[1], k[2]>>
        /\ h[1] \in PageIdx /\ h[2] \in Slot /\ h = <<h[1], h[2]>>
    BY <1>1 DEF Handles
  <2>2. D[h[1]] \in Page /\ E[h[1]] = [D[h[1]] EXCEPT !.entry[h[2]] = r]
    BY <1>1, <1>3, <1>4, <1>5, <2>1 DEF Replaced
  <2>3. \A s \in Slot : E[h[1]].entry[s] = IF s = h[2] THEN r ELSE D[h[1]].entry[s]
    BY <2>1, <2>2 DEF Page
  <2>4. CASE k[1] = h[1]
    BY <2>1, <2>3, <2>4 DEF EntryOf
  <2>5. CASE k[1] # h[1]
    BY <1>1, <1>4, <1>5, <2>1, <2>5 DEF EntryOf, Replaced
  <2> QED
    BY <2>4, <2>5
<1>10. h \in Used(D, n)
  BY <1>1, <1>4, <1>6 DEF Used
<1>11. Tiled(E, n, hdr[p].fsiz)
  <2>1. \A k \in Used(D, n) : Extent(EntryOf(E, k)) = Extent(EntryOf(D, k))
    BY <1>8 DEF Extent
  <2> QED
    BY <1>2, <1>4, <1>6, <1>8, <2>1 DEF TiledSession, Tiled
<1>12. Typed(dcell', E, n)
  <2> SUFFICES ASSUME NEW k \in Used(D, n)
               PROVE  dcell'[EntryOf(E, k).addr].idtyp = ERASED <=> EntryOf(E, k).idtyp = ERASED
    BY <1>8 DEF Typed
  <2>1. k \in Handles
    BY DEF Used
  <2>2. CASE k = h
    BY <1>1, <1>4, <1>9, <2>1, <2>2
  <2>3. CASE k # h
    <3>1. EntryOf(E, k) = EntryOf(D, k)
      BY <1>9, <2>1, <2>3
    <3>2. /\ dcell[EntryOf(D, k).addr].idtyp = ERASED <=> EntryOf(D, k).idtyp = ERASED
      BY <1>2, <1>4, <1>6 DEF TiledSession, Typed
    <3>3. /\ \A g \in {h, k} : EntryOf(D, g).addr \in Nat /\ EntryOf(D, g).lng \in Nat \ {0}
          /\ OnDisk(EntryOf(D, k))
          /\ \/ EntryOf(D, k).addr + EntryOf(D, k).lng <= EntryOf(D, h).addr
             \/ EntryOf(D, h).addr + EntryOf(D, h).lng <= EntryOf(D, k).addr
      <4>1. Consistent(hdr[p], D, n)
        BY <1>2, <1>4, <1>6 DEF SessionInv
      <4>2. \A g \in {h, k} : EntryOf(D, g).addr \in Nat
        <5> TAKE g \in {h, k}
        <5>1. g \in Used(D, n) /\ g[1] \in PageIdx /\ g[2] \in Slot
          BY <1>3, <1>6, <1>10, UsedHandle
        <5>2. D[g[1]] \in Page
          BY <1>3, <1>4, <5>1
        <5>3. EntryOf(D, g) \in Entry
          BY <5>1, <5>2, FieldType DEF EntryOf
        <5> QED
          BY <5>3 DEF Entry, NoEntry
      <4>3. \A g \in {h, k} : EntryOf(D, g).lng \in Lens
        BY <1>10, <4>1 DEF Consistent, LaidOut
      <4>4. \A g \in {h, k} : EntryOf(D, g).lng \in Nat \ {0}
        BY <4>3, ConstAssumption
      <4>5. \/ EntryOf(D, k).addr + EntryOf(D, k).lng <= EntryOf(D, h).addr
            \/ EntryOf(D, h).addr + EntryOf(D, h).lng <= EntryOf(D, k).addr
        BY <1>10, <2>3, <4>1 DEF Consistent, LaidOut
      <4>6. OnDisk(EntryOf(D, k))
        BY <4>1 DEF Consistent
      <4> QED
        BY <4>2, <4>4, <4>5, <4>6
    <3>4. EntryOf(D, k).addr \in Extent(EntryOf(D, k))
          /\ EntryOf(D, k).addr \notin Extent(EntryOf(D, h))
      BY <3>3 DEF Extent
    <3>5. dcell'[EntryOf(D, k).addr] = dcell[EntryOf(D, k).addr]
      BY <1>4, <3>3, <3>4 DEF OnDisk
    <3> QED
      BY <3>1, <3>2, <3>5
  <2> QED
    BY <2>2, <2>3
<1>13. TiledSession(p)'
  <2>1. Tiled(dir_page'[p], npages'[p], hdr'[p].fsiz) /\ Typed(dcell', dir_page'[p], npages'[p])
    BY <1>1, <1>3, <1>5, <1>6, <1>11, <1>12
  <2> QED
    BY <2>1 DEF TiledSession, Tiled, Typed, Used, EntryOf, Extent
<1>14. \A a \in Addr : dcell'[a] = dcell[a] \/ UnitFine(dcell'[a])
  <2> TAKE a \in Addr
  <2>1. \/ dcell'[a] = dcell[a]
        \/ dcell[a] \in RecUnit /\ dcell'[a] \in RecUnit /\ dcell'[a].lng = dcell[a].lng
    BY <1>1 DEF SameUnit
  <2>2. dcell[a] \in RecUnit => dcell[a].lng \in Lens
    BY DEF TilesInv, RecordsLong
  <2>3. dcell'[a] \in RecUnit => dcell'[a] \notin Page
    BY RecordIsNotPage
  <2> QED
    BY <2>1, <2>2, <2>3 DEF UnitFine
<1>15. DiskTiled'
  BY <1>1, DiskTiledKept DEF OneWriterInv, TilesInv
<1> QED
  BY <1>1, <1>2, <1>13, <1>14, <1>15, TilesAssembled

\* The entries of a session, and the units their records start at.
LEMMA SessionEntries ==
    ASSUME TypeOK, OneWriterInv, TilesInv, NEW p \in Procs, Writing(p),
           NEW h, h \in Used(dir_page[p], npages[p])
    PROVE  LET e == EntryOf(dir_page[p], h) IN
           /\ e.addr \in Extent(e) /\ e.addr \in Addr /\ OnDisk(e)
           /\ dcell[e.addr] \in RecUnit
           /\ dcell[e.addr].idtyp = ERASED <=> e.idtyp = ERASED
           /\ \A i \in 0 .. npages[p] - 1 : dir_page[p][i].addr # e.addr
<1>1. SessionInv(p) /\ TiledSession(p)
  BY DEF OneWriterInv, TilesInv
<1>2. PICK D : D = dir_page[p]
  OBVIOUS
<1>3. PICK n : n = npages[p]
  OBVIOUS
<1>4. PICK e : e = EntryOf(D, h)
  OBVIOUS
<1>5. Consistent(hdr[p], D, n) /\ h \in Used(D, n) /\ n \in Nat
  BY <1>1, <1>2, <1>3, SessionFacts DEF SessionInv
<1>6. e \in Entry
  <2>1. h[1] \in PageIdx /\ h[2] \in Slot
    BY <1>5, UsedHandle
  <2>2. D[h[1]] \in Page
    BY <1>2, <2>1, ProcType
  <2> QED
    BY <1>4, <2>1, <2>2, FieldType DEF EntryOf
<1>7. e.addr \in Nat
  BY <1>6 DEF Entry, NoEntry
<1>8. e.lng \in Lens /\ OnDisk(e) /\ \A i \in 0 .. n - 1 : D[i].addr \notin Extent(e)
  BY <1>4, <1>5 DEF Consistent, LaidOut
<1>9. e.lng \in Nat \ {0}
  BY <1>8, ConstAssumption
<1>10. e.addr \in Extent(e)
  BY <1>7, <1>9 DEF Extent
<1>11. e.addr \in Addr /\ dcell[e.addr] \in RecUnit
  BY <1>8, <1>10 DEF OnDisk
<1>12. dcell[e.addr].idtyp = ERASED <=> e.idtyp = ERASED
  BY <1>1, <1>2, <1>3, <1>4, <1>5 DEF TiledSession, Typed
<1>13. \A i \in 0 .. n - 1 : D[i].addr # e.addr
  BY <1>8, <1>10
<1> QED
  BY <1>2, <1>3, <1>4, <1>8, <1>10, <1>11, <1>12, <1>13

\* c_xdfput in place, c_xdfdel, and the erasure of what it deleted.
LEMMA RewrittenTiles ==
    ASSUME TypeOK, TypeOK', OneWriterOnly, OneWriterInv, TilesInv, NEW p \in Procs,
           \/ \E h \in Handles, v \in Vals : PutInPlace(p, h, v)
           \/ \E h \in Handles : Delete(p, h)
           \/ \E i \in PageIdx : FlushErase(p, i)
    PROVE  TilesInv'
<1>1. ASSUME NEW h \in Handles, NEW v \in Vals, PutInPlace(p, h, v)
      PROVE  TilesInv'
  <2> DEFINE e == EntryOf(dir_page[p], h)
             r == [idtyp |-> LIVE, val |-> v, addr |-> e.addr, lng |-> e.lng]
  <2>1. /\ Retouched(p, h, r) /\ e.idtyp = LIVE
        /\ dcell' = [a \in Addr |-> IF a \in Extent(e) THEN r ELSE dcell[a]]
    BY <1>1, PutInPlaceFacts
  <2>2. Writing(p) /\ h \in Handles /\ h[1] < npages[p] /\ e.idtyp # SPECIAL
        /\ \A a \in Addr : SameUnit(a)
    BY <2>1, Zenon DEF Retouched
  <2>3. h \in Used(dir_page[p], npages[p])
    BY <2>2 DEF Used
  <2>4. /\ e.addr \in Extent(e) /\ e.addr \in Addr /\ OnDisk(e)
        /\ dcell[e.addr] \in RecUnit /\ dcell[e.addr].idtyp # ERASED
    BY <2>1, <2>2, <2>3, SessionEntries DEF LIVE, ERASED
  <2>5. r.idtyp = LIVE
    OBVIOUS
  <2> HIDE DEF e, r
  <2>6. dcell'[e.addr] = r
    BY <2>1, <2>4
  <2>7. \A a \in Addr : a \notin Extent(e) => dcell'[a] = dcell[a]
    BY <2>1
  <2>8. \A a \in Addr : SameKind(a)
    <3> TAKE a \in Addr
    <3>1. CASE a \notin Extent(e)
      BY <2>2, <2>7, <3>1 DEF SameKind
    <3>2. CASE a \in Extent(e)
      <4>1. dcell'[a] = r /\ dcell[a].addr = e.addr
        BY <2>1, <2>4, <3>2 DEF OnDisk
      <4>2. dcell[a].addr = a => dcell[a].idtyp = LIVE
        BY <2>4, <4>1 DEF RecUnit
      <4> QED
        BY <2>2, <2>5, <4>1, <4>2 DEF SameKind
    <3> QED
      BY <3>1, <3>2
  <2>9. r.idtyp = ERASED <=> dcell'[EntryOf(dir_page[p], h).addr].idtyp = ERASED
    BY <2>6 DEF e
  <2>10. \A a \in Addr : a \notin Extent(EntryOf(dir_page[p], h)) => dcell'[a] = dcell[a]
    BY <2>7 DEF e
  <2> QED
    BY <2>1, <2>8, <2>9, <2>10, RetouchedTiles
<1>2. ASSUME NEW h \in Handles, Delete(p, h)
      PROVE  TilesInv'
  <2> DEFINE e == EntryOf(dir_page[p], h)
             r == [e EXCEPT !.idtyp = DELETED]
  <2>1. Retouched(p, h, r) /\ e.idtyp = LIVE /\ dcell' = dcell
    BY <1>2, DeleteFacts
  <2>2. Writing(p) /\ h \in Handles /\ h[1] < npages[p] /\ e.idtyp # SPECIAL
        /\ \A a \in Addr : SameUnit(a) /\ r.idtyp # SPECIAL
    BY <2>1, Zenon DEF Retouched
  <2>3. h \in Used(dir_page[p], npages[p])
    BY <2>2 DEF Used
  <2>4. dcell[e.addr].idtyp # ERASED
    BY <2>1, <2>2, <2>3, SessionEntries DEF LIVE, ERASED
  <2>5. r.idtyp # ERASED
    <3>1. h[1] \in PageIdx /\ h[2] \in Slot
      BY DEF Handles
    <3>2. dir_page[p][h[1]] \in Page
      BY <3>1, ProcType
    <3>3. e \in Entry
      BY <3>1, <3>2, FieldType DEF EntryOf
    <3>4. r.idtyp = DELETED
      BY <3>3 DEF Entry, NoEntry
    <3> QED
      BY <3>4 DEF DELETED, ERASED
  <2>6. \A a \in Addr : SameKind(a)
    BY <2>1 DEF SameKind, SameUnit
  <2> HIDE DEF r
  <2> QED
    BY <2>1, <2>4, <2>5, <2>6, RetouchedTiles
<1>3. ASSUME NEW i \in PageIdx, FlushErase(p, i)
      PROVE  TilesInv'
  <2>1. dhdr.rwflg # RDMODE
    BY <1>3, FlushFacts DEF FlushErase
  <2>2. PICK h, r :
           /\ Retouched(p, h, r) /\ r.idtyp = ERASED
           /\ dcell'[EntryOf(dir_page[p], h).addr].idtyp = ERASED
           /\ \A a \in Addr : a # EntryOf(dir_page[p], h).addr => dcell'[a] = dcell[a]
    BY <1>3, FlushEraseFacts, Zenon
  <2>3. Writing(p) /\ h \in Handles /\ h[1] < npages[p]
        /\ EntryOf(dir_page[p], h).idtyp # SPECIAL
    BY <2>2, Zenon DEF Retouched
  <2>4. h \in Used(dir_page[p], npages[p])
    BY <2>3 DEF Used
  <2>5. EntryOf(dir_page[p], h).addr \in Extent(EntryOf(dir_page[p], h))
    BY <2>3, <2>4, SessionEntries
  <2>6. \A a \in Addr : a \notin Extent(EntryOf(dir_page[p], h)) => dcell'[a] = dcell[a]
    BY <2>2, <2>5
  <2> QED
    BY <2>1, <2>2, <2>6, RetouchedTiles
<1> QED
  BY <1>1, <1>2, <1>3

\* The first write of c_xdfcls raises the flag.
LEMMA CloseBeginTiles ==
    ASSUME TypeOK, TypeOK', OneWriterOnly, OneWriterInv, TilesInv, NEW p \in Procs,
           NEW checkpoint \in BOOLEAN, CloseBegin(p, checkpoint)
    PROVE  TilesInv'
<1>1. /\ pc[p] = "open" /\ pc'[p] = "flush" /\ hdr'[p] = hdr[p] /\ dir_page'[p] = dir_page[p]
      /\ npages'[p] = npages[p]
      /\ dhdr' = (IF CanWrite(p) THEN hdr[p] ELSE dhdr) /\ dcell' = dcell /\ dsize' = dsize
  BY DEF CloseBegin, TypeOK, core
<1>2. OnlyEntry(p)
  BY DEF CloseBegin, OnlyEntry, TypeOK, core
<1>3. Writing(p)' => TiledSession(p)'
  <2>1. Writing(p)' => Writing(p)
    BY <1>1 DEF Writing, CanWrite
  <2> QED
    BY <1>1, <2>1, TilesSteady DEF TilesInv
<1>4. CASE CanWrite(p)
  <2>1. DiskTiled' /\ p \in Writers
    BY <1>1, <1>4 DEF DiskTiled, CanWrite
  <2> QED
    BY <1>1, <1>2, <1>3, <2>1, TilesAssembled
<1>5. CASE ~CanWrite(p)
  BY <1>1, <1>2, <1>3, <1>5, TilesInCore DEF disk
<1> QED
  BY <1>4, <1>5

\* A page is written where no record starts, when nothing on it is left to erase.
LEMMA FlushPageTiles ==
    ASSUME TypeOK, TypeOK', OneWriterOnly, OneWriterInv, TilesInv, NEW p \in Procs,
           NEW i \in PageIdx, FlushPage(p, i)
    PROVE  TilesInv'
<1> DEFINE q == dir_page[p][i]
<1>1. /\ pc[p] = "flush" /\ FlushNext(p, i) /\ InCoreDeleted(p, i) = {}
      /\ dcell' = [dcell EXCEPT ![q.addr] = q]
      /\ UNCHANGED <<dhdr, dsize, pc, hdr, dir_page, npages, fmod, aux>>
      /\ pmod' = [pmod EXCEPT ![p] = @ \ {i}]
  BY DEF FlushPage
<1>2. /\ Writing(p) /\ SessionInv(p) /\ p \in Writers
      /\ i \in 0 .. npages[p] - 1 /\ dhdr.rwflg # RDMODE
  BY <1>1, FlushFacts
<1>3. /\ OnlyEntry(p) /\ pc'[p] = "flush" /\ npages'[p] = npages[p] /\ hdr'[p] = hdr[p]
      /\ dir_page'[p] = dir_page[p] /\ dhdr' = dhdr
  BY <1>1 DEF OnlyEntry, TypeOK, aux
<1>4. q \in Page /\ q.addr \in Addr /\ TiledSession(p)
  BY <1>2, SessionFacts DEF TilesInv
<1>5. \A a \in Addr : dcell'[a] = dcell[a] \/ (dcell'[a] = q /\ a = q.addr)
  <2> HIDE DEF q
  <2> TAKE a \in Addr
  <2>1. a # q.addr => dcell'[a] = dcell[a]
    BY <1>1 DEF TypeOK
  <2>2. dcell'[q.addr] = q
    BY <1>1, <1>4 DEF TypeOK
  <2> QED
    BY <2>1, <2>2
<1>6. UnitFine(q)
  <2>1. q \notin RecUnit
    BY <1>4, RecordIsNotPage
  <2>2. ASSUME NEW s \in Slot PROVE q.entry[s].idtyp # DELETED
    <3>1. CASE s < q.nent
      BY <1>1, <3>1 DEF InCoreDeleted
    <3>2. CASE ~(s < q.nent)
      <4>1. q.entry[s].idtyp = SPECIAL
        BY <1>2, <3>2 DEF SessionInv, Consistent, Filled
      <4> QED
        BY <4>1 DEF SPECIAL, DELETED
    <3> QED
      BY <3>1, <3>2
  <2> QED
    BY <2>1, <2>2 DEF UnitFine
<1>7. TiledSession(p)'
  <2>1. ASSUME NEW h \in Used(dir_page[p], npages[p])
        PROVE  dcell'[EntryOf(dir_page[p], h).addr] = dcell[EntryOf(dir_page[p], h).addr]
    <3>1. EntryOf(dir_page[p], h).addr \in Addr /\ q.addr # EntryOf(dir_page[p], h).addr
      BY <1>2, SessionEntries
    <3> QED
      BY <1>5, <3>1
  <2>2. Typed(dcell', dir_page[p], npages[p])
    BY <1>4, <2>1 DEF TiledSession, Typed
  <2>3. Tiled(dir_page[p], npages[p], hdr[p].fsiz)
    BY <1>4 DEF TiledSession
  <2> QED
    BY <1>3, <2>2, <2>3 DEF TiledSession, Tiled, Typed, Used, EntryOf, Extent
<1>8. DiskTiled'
  BY <1>2, <1>3 DEF DiskTiled
<1> QED
  BY <1>2, <1>3, <1>5, <1>6, <1>7, <1>8, TilesAssembled

\* The last write of c_xdfcls: the directory on disk is now that of the session.
LEMMA CloseEndTiles ==
    ASSUME TypeOK, TypeOK', OneWriterOnly, OneWriterInv, TilesInv, NEW p \in Procs, CloseEnd(p)
    PROVE  TilesInv'
<1>1. /\ pc'[p] = "closed" /\ hdr'[p] = EmptyHeader
      /\ dcell' = dcell /\ dsize' = dsize /\ pc[p] = "flush"
      /\ ~CanWrite(p) => dhdr' = dhdr
  BY DEF CloseEnd, Forget, TypeOK
<1>2. OnlyEntry(p)
  BY DEF CloseEnd, Forget, OnlyEntry, TypeOK
<1>3. CASE ~CanWrite(p)
  BY <1>1, <1>2, <1>3, TilesInCore DEF disk, Writing
<1>4. CASE CanWrite(p)
  <2>1. TiledSession(p) /\ p \in Writers
    BY <1>1, <1>4 DEF TilesInv, Writing, CanWrite
  <2>2. dhdr'.fsiz = hdr[p].fsiz /\ dhdr'.nbd = npages[p] /\ npages[p] \in Nat
    BY <1>4, CloseEndFacts, SessionFacts
  <2>3. PICK c \in [0 .. dhdr'.nbd - 1 -> DiskPages'] :
           /\ WholeChain(c)'
           /\ \A i \in 0 .. dhdr'.nbd - 1 : dcell[c[i]] = dir_page[p][i]
    BY <1>4, CloseEndFacts
  <2>4. PICK E : E = DiskDir(c)'
    OBVIOUS
  <2>5. \A i \in 0 .. npages[p] - 1 : E[i] = dir_page[p][i]
    BY <1>1, <2>2, <2>3, <2>4 DEF DiskDir
  <2>6. Tiled(E, npages[p], hdr[p].fsiz) /\ Typed(dcell, E, npages[p])
    BY <2>1, <2>2, <2>5, SameTiles DEF TiledSession
  <2>7. Tiled(DiskDir(c)', dhdr'.nbd, dhdr'.fsiz) /\ Typed(dcell', DiskDir(c)', dhdr'.nbd)
    BY <1>1, <2>2, <2>4, <2>6
  <2>8. TiledChain(c)'
    BY <2>3, <2>7 DEF TiledChain, Tiled, Typed, Used, EntryOf, Extent
  <2>9. DiskTiled'
    BY <2>3, <2>8 DEF DiskTiled
  <2> QED
    BY <1>1, <1>2, <2>1, <2>9, TilesAssembled DEF Writing
<1> QED
  BY <1>3, <1>4

\* The steps of a process, those that are alike together.
Adds(p) ==
    \E v \in Vals, n \in Lens, old \in SUBSET Handles :
        /\ pc[p] = "open" /\ CanWrite(p) /\ \A h \in old : Valid(p, h)
        /\ AddRecord(p, v, n, old)
Rewrites(p) ==
    \/ \E h \in Handles, v \in Vals : PutInPlace(p, h, v)
    \/ \E h \in Handles : Delete(p, h)
    \/ \E i \in PageIdx : FlushErase(p, i)
Looks(p) ==
    \/ \E mode \in {RDMODE, RWMODE, APPEND} : Open(p, mode)
    \/ PutDirFull(p) \/ CheckpointEnd(p) \/ CloseRefused(p) \/ Crash(p)

LEMMA StepKinds ==
    ASSUME Next
    PROVE  \E p \in Procs :
              \/ Create(p) \/ LoadPage(p) \/ Adds(p) \/ Rewrites(p) \/ Looks(p)
              \/ \E checkpoint \in BOOLEAN : CloseBegin(p, checkpoint)
              \/ \E i \in PageIdx : FlushPage(p, i)
              \/ CloseEnd(p)
<1>1. PICK p \in Procs :
         \/ Create(p)
         \/ \E mode \in {RDMODE, RWMODE, APPEND} : Open(p, mode)
         \/ LoadPage(p)
         \/ \E v \in Vals, n \in Lens : PutNew(p, v, n)
         \/ \E h \in Handles, v \in Vals, n \in Lens : PutMove(p, h, v, n)
         \/ \E h \in Handles, v \in Vals : PutInPlace(p, h, v)
         \/ PutDirFull(p)
         \/ \E h \in Handles : Delete(p, h)
         \/ \E checkpoint \in BOOLEAN : CloseBegin(p, checkpoint)
         \/ \E i \in PageIdx : FlushErase(p, i) \/ FlushPage(p, i)
         \/ CheckpointEnd(p) \/ CloseEnd(p) \/ CloseRefused(p)
         \/ Crash(p)
  BY Zenon DEF Next
<1>2. CASE \E v \in Vals, n \in Lens : PutNew(p, v, n)
  <2>1. PICK v \in Vals, n \in Lens : PutNew(p, v, n)
    BY <1>2
  <2>2. pc[p] = "open" /\ CanWrite(p) /\ AddRecord(p, v, n, {})
    BY <2>1 DEF PutNew
  <2>3. {} \in SUBSET Handles /\ \A h \in {} : Valid(p, h)
    OBVIOUS
  <2>4. Adds(p)
    BY <2>2, <2>3 DEF Adds
  <2> QED
    BY <2>4
<1>3. CASE \E h \in Handles, v \in Vals, n \in Lens : PutMove(p, h, v, n)
  <2>1. PICK g \in Handles, v \in Vals, n \in Lens : PutMove(p, g, v, n)
    BY <1>3
  <2>2. pc[p] = "open" /\ CanWrite(p) /\ Valid(p, g) /\ AddRecord(p, v, n, {g})
    BY <2>1 DEF PutMove
  <2>3. {g} \in SUBSET Handles /\ \A h \in {g} : Valid(p, h)
    BY <2>2
  <2>4. Adds(p)
    BY <2>2, <2>3 DEF Adds
  <2> QED
    BY <2>4
<1> QED
  BY <1>1, <1>2, <1>3, Zenon DEF Rewrites, Looks

\* Every step of a process keeps the tiles.
LEMMA TilesStep ==
    ASSUME TypeOK, TypeOK', OneWriterOnly, OneWriterInv, TilesInv, [Next]_vars
    PROVE  TilesInv'
<1>1. CASE UNCHANGED vars
  <2>1. UNCHANGED disk /\ hdr' = hdr /\ pc' = pc /\ dir_page' = dir_page /\ npages' = npages
    BY <1>1 DEF vars, core
  <2>2. DiskTiled'
    BY <2>1, DiskTiledSteady DEF OneWriterInv
  <2>3. dcell' = dcell
    BY <2>1 DEF disk
  <2>4. PagesUndeleted' /\ RecordsLong' /\ ClosedEmpty'
    BY <2>1, <2>3 DEF TilesInv, PagesUndeleted, RecordsLong, ClosedEmpty, DiskPages
  <2>5. \A p \in Procs : Writing(p)' => TiledSession(p)'
    BY <2>1, <2>3, TilesSteady DEF TilesInv, Writing, CanWrite
  <2> QED
    BY <2>2, <2>4, <2>5 DEF TilesInv
<1>2. CASE Next
  <2>1. PICK p \in Procs :
           \/ Create(p) \/ LoadPage(p) \/ Adds(p) \/ Rewrites(p) \/ Looks(p)
           \/ \E checkpoint \in BOOLEAN : CloseBegin(p, checkpoint)
           \/ \E i \in PageIdx : FlushPage(p, i)
           \/ CloseEnd(p)
    BY <1>2, StepKinds, Zenon
  <2>2. CASE Adds(p)
    BY <2>2, AddRecordTiles DEF Adds
  <2>3. CASE Rewrites(p)
    BY <2>3, RewrittenTiles DEF Rewrites
  <2>4. CASE Looks(p)
    BY <2>4, InCoreTiles DEF Looks
  <2>5. CASE Create(p) \/ LoadPage(p) \/ CloseEnd(p)
    BY <2>5, CreateTiles, LoadPageTiles, CloseEndTiles
  <2>6. CASE \/ \E checkpoint \in BOOLEAN : CloseBegin(p, checkpoint)
             \/ \E i \in PageIdx : FlushPage(p, i)
    BY <2>6, CloseBeginTiles, FlushPageTiles
  <2> QED
    BY <2>1, <2>2, <2>3, <2>4, <2>5, <2>6
<1> QED
  BY <1>1, <1>2

\* There is nothing in a file that does not exist.
LEMMA TilesInit == Init => TilesInv
<1> SUFFICES ASSUME Init PROVE TilesInv
  OBVIOUS
<1>1. /\ dhdr = EmptyHeader /\ dcell = [a \in Addr |-> Blank]
      /\ pc = [p \in Procs |-> "closed"] /\ hdr = [p \in Procs |-> EmptyHeader]
  BY DEF Init
<1>2. \A p \in Procs : ~Writing(p) /\ hdr[p] = EmptyHeader
  BY <1>1 DEF Writing
<1>3. \A a \in Addr : dcell[a] \notin Page /\ dcell[a] \notin RecUnit
  BY <1>1, RecordIsNotPage DEF Blank, NoEntry, RecUnit, SPECIAL, LIVE, ERASED
<1>4. dhdr.nbd = 0
  BY <1>1 DEF EmptyHeader
<1> QED
  BY <1>2, <1>3, <1>4
     DEF TilesInv, DiskTiled, PagesUndeleted, RecordsLong, ClosedEmpty, DiskPages

-----------------------------------------------------------------------------
(* The copy c_qdfrstr makes.                                               *)

\* The file ends where its header says, and nothing below that is changed.
LEMMA RestoreFacts ==
    ASSUME TypeOK, OneWriterInv, TilesInv, ~RestoresFlagged, Restore
    PROVE  /\ dhdr' = dhdr /\ dhdr.rwflg = RDMODE /\ dhdr.fsiz > 0 /\ dsize' = dhdr.fsiz
           /\ UNCHANGED <<pc, core, aux>>
           /\ \A p \in Procs : pc[p] = "closed" /\ ~Writing(p) /\ hdr[p] = EmptyHeader
           /\ \A a \in Addr : /\ dcell'[a] = dcell[a] \/ dcell'[a] = Blank
                              /\ a <= dhdr.fsiz => dcell'[a] = dcell[a] /\ SameKind(a)
<1>1. /\ dhdr' = [dhdr EXCEPT !.rwflg = RDMODE] /\ dhdr.rwflg = RDMODE /\ dhdr.fsiz > 0
      /\ dsize' = dhdr.fsiz /\ UNCHANGED <<pc, core, aux>>
      /\ \A p \in Procs : pc[p] = "closed"
      /\ dcell' = [a \in Addr |-> IF a \in Copied THEN dcell[a] ELSE Blank]
  BY DEF Restore
<1>2. dhdr' = dhdr
  BY <1>1 DEF TypeOK, Header
<1>3. \A p \in Procs : ~Writing(p) /\ hdr[p] = EmptyHeader
  BY <1>1 DEF Writing, TilesInv, ClosedEmpty
<1>4. \A a \in Addr : /\ dcell'[a] = dcell[a] \/ dcell'[a] = Blank
                      /\ a <= dhdr.fsiz => dcell'[a] = dcell[a]
  BY <1>1 DEF Copied
<1>5. \A a \in Addr : a <= dhdr.fsiz => SameKind(a)
  BY <1>4 DEF SameKind, SameUnit
<1> QED
  BY <1>1, <1>2, <1>3, <1>4, <1>5

\* It is a file like any other.
LEMMA RestoreStep ==
    ASSUME TypeOK, HasPage, OneWriterInv, TilesInv, ~RestoresFlagged, Restore
    PROVE  TypeOK' /\ HasPage' /\ OneWriterInv' /\ TilesInv'
<1>1. /\ dhdr' = dhdr /\ dhdr.rwflg = RDMODE /\ dhdr.fsiz > 0 /\ dsize' = dhdr.fsiz
      /\ UNCHANGED <<pc, core, aux>>
      /\ \A p \in Procs : pc[p] = "closed" /\ ~Writing(p) /\ hdr[p] = EmptyHeader
      /\ \A a \in Addr : /\ dcell'[a] = dcell[a] \/ dcell'[a] = Blank
                         /\ a <= dhdr.fsiz => dcell'[a] = dcell[a] /\ SameKind(a)
  BY RestoreFacts
<1>2. /\ pc' = pc /\ hdr' = hdr /\ dir_page' = dir_page /\ npages' = npages
      /\ pmod' = pmod /\ fmod' = fmod
  BY <1>1 DEF core
<1>3. TypeOK' /\ HasPage'
  <2>1. dcell' = [a \in Addr |-> IF a \in Copied THEN dcell[a] ELSE Blank]
    BY DEF Restore
  <2>2. dcell' \in [Addr -> RecUnit \cup Page \cup {Blank}]
    BY <2>1 DEF TypeOK
  <2>3. dsize' \in Nat
    BY <1>1, FieldType DEF TypeOK
  <2> QED
    BY <1>1, <2>2, <2>3 DEF TypeOK, HasPage, core, aux
<1>4. \A p \in Procs : ~Writing(p)' /\ pc'[p] = "closed"
  BY <1>1, <1>2 DEF Writing
<1>5. Blank \notin Page /\ Blank \notin RecUnit
  BY RecordIsNotPage DEF Blank, NoEntry, RecUnit, SPECIAL, LIVE, ERASED
<1>6. SelfAddressed'
  BY <1>1, <1>5 DEF SelfAddressed, OneWriterInv
<1>7. SizesKnown'
  <2>1. \A p \in Procs : hdr'[p].fsiz = 0
    BY <1>1, <1>2 DEF EmptyHeader
  <2>2. dhdr.fsiz \in Nat
    BY FieldType DEF TypeOK
  <2> QED
    BY <1>1, <2>1, <2>2 DEF SizesKnown
<1>8. EntriesClean'
  BY <1>1, <1>2 DEF EntriesClean, OneWriterInv
<1>9. OpenableIsConsistent'
  <2> SUFFICES ASSUME dhdr'.rwflg = RDMODE, dhdr'.nbd > 0
               PROVE  \E c \in [0 .. dhdr'.nbd - 1 -> DiskPages'] : WholeChain(c)'
    BY DEF OpenableIsConsistent, WholeChain
  <2>1. PICK c \in [0 .. dhdr.nbd - 1 -> DiskPages] : WholeChain(c)
    BY <1>1 DEF OneWriterInv, OpenableIsConsistent, WholeChain
  <2>2. c \in [0 .. dhdr'.nbd - 1 -> DiskPages'] /\ WholeChain(c)'
    BY <1>1, <2>1, ChainKept DEF OneWriterInv, SameKind
  <2> QED
    BY <2>2
<1>10. OneWriterInv'
  BY <1>4, <1>6, <1>7, <1>8, <1>9 DEF OneWriterInv
<1>11. DiskTiled'
  BY <1>1, DiskTiledKept DEF OneWriterInv, TilesInv
<1>12. PagesUndeleted' /\ RecordsLong' /\ ClosedEmpty'
  BY <1>1, <1>2, <1>5 DEF TilesInv, PagesUndeleted, RecordsLong, ClosedEmpty, DiskPages
<1>13. TilesInv'
  BY <1>4, <1>11, <1>12 DEF TilesInv
<1> QED
  BY <1>3, <1>10, <1>13

-----------------------------------------------------------------------------
(* What c_xdfcheck, c_qdfdiag and c_qdfrstr are for.                       *)

\* The invariant under the steps of every process and the copies of the tools.
ToolsInv == TypeOK /\ HasPage /\ OneWriterInv /\ TilesInv

LEMMA ToolsInvariant ==
    ASSUME OneWriterOnly, ~RestoresFlagged
    PROVE  /\ Init => ToolsInv
           /\ ToolsInv /\ [Next \/ Restore]_vars => ToolsInv'
<1>1. Init => ToolsInv
  BY InitType, OneWriterInit, TilesInit DEF Init, HasPage, ToolsInv
<1>2. ASSUME ToolsInv, [Next]_vars PROVE ToolsInv'
  <2>1. TypeOK' /\ HasPage'
    BY <1>2, TypeStep, HasPageStep DEF ToolsInv
  <2>2. OneWriterInv' /\ TilesInv'
    BY <1>2, <2>1, OneWriterStep, TilesStep DEF ToolsInv
  <2> QED
    BY <2>1, <2>2 DEF ToolsInv
<1>3. ASSUME ToolsInv, Restore PROVE ToolsInv'
  BY <1>3, RestoreStep DEF ToolsInv
<1> QED
  BY <1>1, <1>2, <1>3

\* A file without a flag that passes c_xdfcheck passes c_qdfdiag: its records, read one
\* after the other, are those its header counts, for every number of pages, slots, records
\* and readers and wherever sessions died, as long as one process at a time writes the file
\* and c_qdfrstr is kept for files without a flag.
THEOREM CheckedStaysDiagnosed ==
    ASSUME OneWriterOnly, ~RestoresFlagged
    PROVE  ToolsSpec => []CheckedIsDiagnosed
<1>1. ToolsInv => CheckedIsDiagnosed
  BY TiledDiagnosed DEF ToolsInv, CheckedIsDiagnosed
<1> QED
  BY <1>1, ToolsInvariant, PTL DEF ToolsSpec

\* What c_qdfrstr copies passes both checks, and its directory is whole.
THEOREM RestoreRestores ==
    ASSUME OneWriterOnly, ~RestoresFlagged
    PROVE  ToolsSpec => RestoresOriginal
<1> DEFINE Idle == \A p \in Procs : pc[p] = "closed" /\ pc'[p] = "closed"
           Restored == Idle /\ disk' # disk /\ dhdr.nbd > 0
                          => Checked' /\ Diagnosed' /\ OpenableIsConsistent'
<1>1. ToolsInv => CheckedIsDiagnosed /\ OpenableIsConsistent
  BY TiledDiagnosed DEF ToolsInv, CheckedIsDiagnosed, OneWriterInv
<1>2. ToolsInv /\ CheckedIsDiagnosed' /\ OpenableIsConsistent' /\ [Next \/ Restore]_vars
        => [Restored]_vars
  <2> SUFFICES ASSUME ToolsInv, CheckedIsDiagnosed', OpenableIsConsistent', Next \/ Restore,
                      Idle, disk' # disk, dhdr.nbd > 0
               PROVE  Checked' /\ Diagnosed' /\ OpenableIsConsistent'
    OBVIOUS
  <2>1. CASE Next
    <3>1. PICK p \in Procs :
             \/ Create(p) \/ LoadPage(p) \/ Adds(p) \/ Rewrites(p) \/ Looks(p)
             \/ \E checkpoint \in BOOLEAN : CloseBegin(p, checkpoint)
             \/ \E i \in PageIdx : FlushPage(p, i)
             \/ CloseEnd(p)
      BY <2>1, StepKinds, Zenon
    <3>2. pc[p] = "closed" /\ pc'[p] = "closed"
      OBVIOUS
    <3>3. Create(p) \/ \E mode \in {RDMODE, RWMODE, APPEND} : Open(p, mode)
      BY <3>1, <3>2
         DEF LoadPage, Adds, Rewrites, PutInPlace, Delete, FlushErase, Looks, PutDirFull,
             CheckpointEnd, CloseRefused, Crash, CloseBegin, FlushPage, CloseEnd
    <3>4. pc'[p] # "closed"
      BY <3>3 DEF Create, Open, ToolsInv, TypeOK
    <3> QED
      BY <3>2, <3>4
  <2>2. CASE Restore
    <3>1. dhdr' = dhdr /\ dhdr.rwflg = RDMODE /\ dsize' = dhdr.fsiz
      BY <2>2, RestoreFacts DEF ToolsInv
    <3>2. Checked'
      BY <3>1 DEF Checked
    <3>3. Diagnosed'
      BY <3>1, <3>2 DEF CheckedIsDiagnosed
    <3> QED
      BY <3>2, <3>3
  <2> QED
    BY <2>1, <2>2
<1>3. [Restored]_vars <=> [(\A p \in Procs : pc[p] = "closed" /\ pc'[p] = "closed") /\ disk' # disk
          /\ dhdr.nbd > 0
       => Checked' /\ Diagnosed' /\ OpenableIsConsistent']_vars
  OBVIOUS
<1> HIDE DEF Restored
<1> QED
  BY <1>1, <1>2, <1>3, ToolsInvariant, PTL DEF ToolsSpec, RestoresOriginal

-----------------------------------------------------------------------------
(* When no process dies.                                                   *)

\* What a step that leaves the disk and the part of a session in it alone leaves settled.
LEMMA SettledQuiet ==
    ASSUME TypeOK, OneWriterOnly, Settled, NEW p \in Procs, OnlyEntry(p), UNCHANGED disk,
           Writing(p)' <=> Writing(p), Writing(p) => hdr'[p].fsiz = hdr[p].fsiz
    PROVE  Settled'
<1>1. \A q \in Procs : Writing(q)' <=> Writing(q)
  BY DEF OnlyEntry, Writing, CanWrite
<1>2. \A q \in Procs : Writing(q) => hdr'[q].fsiz = hdr[q].fsiz
  BY DEF OnlyEntry
<1>3. dhdr' = dhdr /\ dsize' = dsize
  BY DEF disk
<1> QED
  BY <1>1, <1>2, <1>3 DEF Settled

\* And one after which the process has the file, as long as its header says.
LEMMA SettledSession ==
    ASSUME OneWriterOnly, NEW p \in Procs, Writing(p)', hdr'[p].fsiz = dsize'
    PROVE  Settled'
<1>1. \A q \in Procs : Writing(q)' => q = p
  BY DEF OneWriterOnly, Writing, CanWrite
<1> QED
  BY <1>1 DEF Settled

\* No step but a death leaves bytes behind that nobody will count.
LEMMA SettledStep ==
    ASSUME TypeOK, TypeOK', OneWriterOnly, OneWriterInv, Settled, ~MayCrash, [Next]_vars
    PROVE  Settled'
<1>1. CASE UNCHANGED vars
  BY <1>1 DEF vars, disk, core, Settled, Writing, CanWrite
<1>2. CASE Next
  <2>1. PICK p \in Procs :
           \/ Create(p) \/ LoadPage(p) \/ Adds(p) \/ Rewrites(p) \/ Looks(p)
           \/ \E checkpoint \in BOOLEAN : CloseBegin(p, checkpoint)
           \/ \E i \in PageIdx : FlushPage(p, i)
           \/ CloseEnd(p)
    BY <1>2, StepKinds, Zenon
  <2>2. CASE Create(p)
    <3>1. /\ pc'[p] = "open" /\ p \in Writers /\ dsize' = 2
          /\ hdr'[p].fsiz = 2 /\ hdr'[p].rwflg # RDMODE
      BY <2>2 DEF Create, TypeOK, CREATE, RDMODE
    <3>2. Writing(p)'
      BY <3>1 DEF Writing, CanWrite
    <3> QED
      BY <3>1, <3>2, SettledSession
  <2>3. CASE LoadPage(p)
    <3>1. OnlyEntry(p) /\ UNCHANGED disk
      BY <2>3, ZenonT(60) DEF LoadPage, OnlyEntry, TypeOK
    <3>2. ~Writing(p) /\ hdr'[p] = hdr[p] /\ pc[p] = "loading"
      BY <2>3 DEF LoadPage, Writing
    <3>3. CASE ~Writing(p)'
      BY <3>1, <3>2, <3>3, SettledQuiet
    <3>4. CASE Writing(p)'
      <4>1. CanWrite(p) /\ p \in Writers
        BY <3>2, <3>4 DEF Writing, CanWrite
      <4>2. \A q \in Procs : ~Writing(q)
        BY <3>2, <4>1 DEF OneWriterOnly, Writing, CanWrite
      <4>3. hdr[p].fsiz = dhdr.fsiz
        <5>1. hdr[p] = [dhdr EXCEPT !.rwflg = hdr[p].rwflg]
          BY <3>2, <4>1 DEF OneWriterInv, LoadingInv
        <5> QED
          BY <5>1 DEF TypeOK, Header
      <4>4. hdr'[p].fsiz = dsize'
        BY <3>1, <3>2, <4>2, <4>3 DEF Settled, disk
      <4> QED
        BY <3>4, <4>4, SettledSession
    <3> QED
      BY <3>3, <3>4
  <2>4. CASE Adds(p)
    <3>1. PICK v \in Vals, n \in Lens, old \in SUBSET Handles :
             /\ pc[p] = "open" /\ CanWrite(p) /\ \A h \in old : Valid(p, h)
             /\ AddRecord(p, v, n, old)
      BY <2>4 DEF Adds
    <3>2. SessionInv(p) /\ hdr[p].fsiz = dsize
      BY <3>1 DEF OneWriterInv, Settled, Writing
    <3>3. PICK at : at = SizeFor(p) + 1
      OBVIOUS
    <3>4. /\ pc'[p] = "open" /\ hdr'[p].rwflg = hdr[p].rwflg /\ hdr'[p].fsiz = at + n - 1
          /\ dsize' = Larger(dsize, at + n - 1)
          /\ at \in Nat /\ at > hdr[p].fsiz /\ n \in Nat \ {0}
      BY <3>1, <3>2, <3>3, AddedRecord
    <3>5. hdr'[p].fsiz = dsize'
      BY <3>2, <3>4 DEF Larger, TypeOK
    <3>6. Writing(p)'
      BY <3>1, <3>4 DEF Writing, CanWrite
    <3> QED
      BY <3>5, <3>6, SettledSession
  <2>5. CASE Rewrites(p)
    <3>1. PICK h, r : Retouched(p, h, r)
      <4>1. CASE \E h \in Handles, v \in Vals : PutInPlace(p, h, v)
        BY <4>1, PutInPlaceFacts
      <4>2. CASE \E h \in Handles : Delete(p, h)
        BY <4>2, DeleteFacts
      <4>3. CASE \E i \in PageIdx : FlushErase(p, i)
        <5>1. PICK h, r : Retouched(p, h, r) /\ r.idtyp = ERASED
          BY <4>3, FlushEraseFacts, Zenon
        <5> QED
          BY <5>1
      <4> QED
        BY <2>5, <4>1, <4>2, <4>3 DEF Rewrites
    <3>2. /\ Writing(p) /\ pc'[p] = pc[p] /\ dsize' = dsize
          /\ hdr'[p] = [hdr[p] EXCEPT !.nrec = Cardinality(Live(dir_page'[p], npages[p]))]
      BY <3>1, Zenon DEF Retouched
    <3>3. hdr[p] \in Header
      BY ProcType
    <3>4. hdr'[p].fsiz = hdr[p].fsiz /\ hdr'[p].rwflg = hdr[p].rwflg
      BY <3>2, <3>3 DEF Header
    <3>5. Writing(p)' /\ hdr'[p].fsiz = dsize'
      BY <3>2, <3>4 DEF Writing, CanWrite, Settled
    <3> QED
      BY <3>5, SettledSession
  <2>6. CASE Looks(p)
    <3>1. CASE PutDirFull(p) \/ CheckpointEnd(p)
      <4>1. OnlyEntry(p) /\ UNCHANGED disk
        BY <3>1 DEF PutDirFull, CheckpointEnd, OnlyEntry, TypeOK, aux
      <4>2. hdr'[p] = hdr[p] /\ pc[p] \in {"open", "flush"} /\ pc'[p] = "open"
        BY <3>1 DEF PutDirFull, CheckpointEnd, TypeOK
      <4>3. Writing(p)' <=> Writing(p)
        BY <4>2 DEF Writing, CanWrite
      <4> QED
        BY <4>1, <4>2, <4>3, SettledQuiet
    <3>2. CASE \/ \E mode \in {RDMODE, RWMODE, APPEND} : Open(p, mode)
               \/ CloseRefused(p)
      <4>1. OnlyEntry(p)
        BY <3>2 DEF Open, CloseRefused, Forget, OnlyEntry, TypeOK
      <4>2. UNCHANGED disk
        BY <3>2 DEF Open, CloseRefused, OneWriterOnly, CanWrite, disk
      <4>3. ~Writing(p) /\ ~Writing(p)'
        BY <3>2 DEF Open, CloseRefused, Writing, TypeOK
      <4> QED
        BY <4>1, <4>2, <4>3, SettledQuiet
    <3> QED
      BY <2>6, <3>1, <3>2 DEF Looks, Crash
  <2>7. CASE \E checkpoint \in BOOLEAN : CloseBegin(p, checkpoint)
    <3>1. OnlyEntry(p)
      BY <2>7 DEF CloseBegin, OnlyEntry, TypeOK, core
    <3>2. /\ pc[p] = "open" /\ pc'[p] = "flush" /\ hdr'[p] = hdr[p] /\ dsize' = dsize
          /\ ~CanWrite(p) => UNCHANGED disk
      BY <2>7 DEF CloseBegin, TypeOK, core, disk
    <3>3. Writing(p)' <=> Writing(p)
      BY <3>2 DEF Writing, CanWrite
    <3>4. CASE CanWrite(p)
      BY <3>2, <3>3, <3>4, SettledSession DEF Writing, Settled
    <3>5. CASE ~CanWrite(p)
      BY <3>1, <3>2, <3>3, <3>5, SettledQuiet
    <3> QED
      BY <3>4, <3>5
  <2>8. CASE \E i \in PageIdx : FlushPage(p, i)
    <3>1. PICK i \in PageIdx : FlushPage(p, i)
      BY <2>8
    <3>2. Writing(p)
      BY <3>1, FlushFacts DEF FlushPage
    <3>3. hdr' = hdr /\ pc' = pc /\ dsize' = dsize
      BY <3>1 DEF FlushPage
    <3>4. Writing(p)' /\ hdr'[p].fsiz = dsize'
      BY <3>2, <3>3 DEF Writing, CanWrite, Settled
    <3> QED
      BY <3>4, SettledSession
  <2>9. CASE CloseEnd(p)
    <3>1. OnlyEntry(p) /\ pc[p] = "flush" /\ pc'[p] = "closed" /\ dsize' = dsize
      BY <2>9 DEF CloseEnd, Forget, OnlyEntry, TypeOK
    <3>2. ~Writing(p)'
      BY <3>1 DEF Writing
    <3>3. CASE ~CanWrite(p)
      <4>1. UNCHANGED disk /\ ~Writing(p)
        BY <2>9, <3>3 DEF CloseEnd, disk, Writing
      <4> QED
        BY <3>1, <3>2, <4>1, SettledQuiet
    <3>4. CASE CanWrite(p)
      <4>1. Writing(p) /\ hdr[p].fsiz = dsize /\ p \in Writers
        BY <3>1, <3>4 DEF Writing, CanWrite, Settled
      <4>2. \A q \in Procs : ~Writing(q)'
        BY <3>1, <3>2, <4>1 DEF OneWriterOnly, OnlyEntry, Writing, CanWrite
      <4>3. /\ dhdr'.rwflg = RDMODE /\ dhdr'.fsiz = hdr[p].fsiz /\ dhdr'.nbd = npages[p]
            /\ npages[p] > 0
        BY <2>9, <3>4, CloseEndFacts, SessionFacts
      <4> QED
        BY <3>1, <4>1, <4>2, <4>3 DEF Settled
    <3> QED
      BY <3>3, <3>4
  <2> QED
    BY <2>1, <2>2, <2>3, <2>4, <2>5, <2>6, <2>7, <2>8, <2>9
<1> QED
  BY <1>1, <1>2

\* When no process dies, a file nobody has open passes both checks: c_xdfcls leaves it as
\* long as its header says, without a flag, and with the records it counts.
THEOREM ClosedStaysSound ==
    ASSUME OneWriterOnly, ~MayCrash
    PROVE  ToolsSpec => []ClosedIsSound
<1>1. Init => ToolsInv /\ Settled
  <2>1. Init => ToolsInv
    BY InitType, OneWriterInit, TilesInit DEF Init, HasPage, ToolsInv
  <2>2. Init => Settled
    BY DEF Init, Settled, Writing, EmptyHeader
  <2> QED
    BY <2>1, <2>2
<1>2. ToolsInv /\ Settled /\ [Next \/ Restore]_vars => ToolsInv' /\ Settled'
  <2> SUFFICES ASSUME ToolsInv, Settled, [Next \/ Restore]_vars PROVE ToolsInv' /\ Settled'
    OBVIOUS
  <2>1. [Next]_vars
    BY DEF Restore
  <2>2. TypeOK' /\ HasPage'
    BY <2>1, TypeStep, HasPageStep DEF ToolsInv
  <2>3. OneWriterInv' /\ TilesInv' /\ Settled'
    BY <2>1, <2>2, OneWriterStep, TilesStep, SettledStep DEF ToolsInv
  <2> QED
    BY <2>2, <2>3 DEF ToolsInv
<1>3. ToolsInv /\ Settled => ClosedIsSound
  <2> SUFFICES ASSUME ToolsInv, Settled, dhdr.fsiz > 0, \A p \in Procs : pc[p] = "closed"
               PROVE  Checked /\ Diagnosed
    BY DEF ClosedIsSound
  <2>1. \A p \in Procs : ~Writing(p)
    BY DEF Writing
  <2>2. Checked /\ dhdr.rwflg = RDMODE /\ dhdr.nbd > 0
    BY <2>1 DEF Settled, Checked
  <2>3. Diagnosed
    BY <2>2, TiledDiagnosed DEF ToolsInv
  <2> QED
    BY <2>2, <2>3
<1> QED
  BY <1>1, <1>2, <1>3, PTL DEF ToolsSpec
=============================================================================
