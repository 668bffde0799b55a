--------------------------- MODULE XdfFile_proofs ---------------------------
(* Theorems about XdfFile, for every value of its constants: about any number of
   processes first, then, with the invariant of XdfOneWriter, about files that one
   process writes at a time.  Other modules use the lemmas about directories. *)
EXTENDS XdfOneWriter, FiniteSetTheorems, WellFoundedInduction, TLAPS

USE DEF RDMODE, CREATE, RWMODE, APPEND, SPECIAL, LIVE, DELETED, ERASED

\* A page as add_dir_page allocates it, and the pages of a closed file, are pages.
LEMMA NewPageType ==
    /\ \A a \in Nat : NewPage(a) \in Page
    /\ NoPages \in [PageIdx -> Page]
    /\ EmptyHeader \in Header
BY ConstAssumption DEF NewPage, NoPages, Page, Entry, NoEntry, EmptyHeader, Header, RwFlags

\* Freeing an entry of the file table keeps its type.
LEMMA ForgetType ==
    ASSUME TypeOK, NEW p \in Procs, Forget(p)
    PROVE  /\ hdr' \in [Procs -> Header]
           /\ dir_page' \in [Procs -> [PageIdx -> Page]]
           /\ npages' \in [Procs -> 0 .. MAX_DIR_PAGES]
           /\ pmod' \in [Procs -> SUBSET PageIdx]
           /\ fmod' \in [Procs -> BOOLEAN]
           /\ wdaddr' \in [Procs -> Int]
           /\ fsize' \in [Procs -> Nat]
           /\ ckpt' \in [Procs -> BOOLEAN]
BY NewPageType, ConstAssumption DEF TypeOK, Forget

\* The header a close or a checkpoint writes is a header.
LEMMA FlagType ==
    ASSUME NEW H \in Header, NEW m \in RwFlags
    PROVE  [H EXCEPT !.rwflg = m] \in Header
BY DEF Header

\* The types of one process's part of the state.
LEMMA ProcType ==
    ASSUME TypeOK, NEW p \in Procs
    PROVE  /\ hdr[p] \in Header
           /\ dir_page[p] \in [PageIdx -> Page]
           /\ npages[p] \in 0 .. MAX_DIR_PAGES
           /\ pmod[p] \in SUBSET PageIdx
           /\ wdaddr[p] \in Int /\ fsize[p] \in Nat
BY DEF TypeOK

\* The fields of a header and of a page.
LEMMA FieldType ==
    /\ \A H \in Header : /\ H.fsiz \in 0 .. MaxAddr /\ H.fsiz \in Nat /\ H.nbd \in Nat
                         /\ H.plst \in Nat /\ H.nrec \in Int /\ H.nxtn \in Nat
                         /\ H.nbig \in Nat /\ H.rwflg \in RwFlags
    /\ \A q \in Page : /\ q.addr \in Nat /\ q.nxt_addr \in Nat
                       /\ q.nent \in 0 .. ENTRIES_PER_PAGE
                       /\ q.entry \in [Slot -> Entry]
BY ConstAssumption DEF Header, Page

\* A file that does not exist yet, and free entries of every file table.
LEMMA InitType == Init => TypeOK
BY NewPageType, ConstAssumption DEF Init, TypeOK, Blank

\* Creating the file keeps the types (c_xdfopn, create_new_xdf).
LEMMA CreateType ==
    ASSUME TypeOK, NEW p \in Procs, Create(p)
    PROVE  TypeOK'
<1>1. NewPage(2) \in Page
  BY NewPageType
<1>2. NewHeader \in Header
  BY ConstAssumption DEF NewHeader, EmptyHeader, Header, RwFlags
<1>3. 0 \in PageIdx /\ 2 \in Addr
  BY ConstAssumption DEF PageIdx, Addr
<1>4. dcell' \in [Addr -> RecUnit \cup Page \cup {Blank}]
  BY <1>1, <1>3 DEF Create, TypeOK
<1>5. dir_page' \in [Procs -> [PageIdx -> Page]]
  BY <1>1, <1>3 DEF Create, TypeOK
<1>6. dhdr' \in Header /\ hdr' \in [Procs -> Header]
  BY <1>2, ConstAssumption DEF Create, TypeOK, Header, RwFlags
<1>7. QED
  BY <1>3, <1>4, <1>5, <1>6, ConstAssumption DEF Create, TypeOK, aux

\* Reading the header keeps the types, whatever session the file is opened for.
LEMMA OpenType ==
    ASSUME TypeOK, NEW p \in Procs, NEW mode \in {RDMODE, RWMODE, APPEND}, Open(p, mode)
    PROVE  TypeOK'
<1>1. dhdr.rwflg \in RwFlags /\ mode \in RwFlags
  BY DEF TypeOK, Header, RwFlags
<1>2. hdr' \in [Procs -> Header]
  BY <1>1, FlagType DEF Open, TypeOK
<1>3. QED
  BY <1>2 DEF Open, TypeOK, disk

\* Reading one more directory page keeps the types, also when the address in the page
\* before it leads nowhere.
LEMMA LoadPageType ==
    ASSUME TypeOK, NEW p \in Procs, LoadPage(p)
    PROVE  TypeOK'
<1> DEFINE page == PageRead(wdaddr[p], fsize[p], NewPage(hdr[p].fsiz + 1))
           next == 2 * page.nxt_addr - 1
<1>1. hdr[p].fsiz + 1 \in Nat
  BY DEF TypeOK, Header
<1>2. page \in Page
  BY <1>1, NewPageType DEF PageRead
<1>3. next \in Int
  BY <1>2 DEF Page
<1>4. npages[p] \in PageIdx /\ npages[p] + 1 \in 0 .. MAX_DIR_PAGES
  BY ConstAssumption DEF LoadPage, TypeOK, PageIdx
<1> HIDE DEF page, next
<1>5. /\ dir_page' = [dir_page EXCEPT ![p][npages[p]] = page]
      /\ npages' = [npages EXCEPT ![p] = npages[p] + 1]
      /\ wdaddr' = [wdaddr EXCEPT ![p] = next]
      /\ \E r \in {"refused", "open", "loading"} : pc' = [pc EXCEPT ![p] = r]
      /\ UNCHANGED <<disk, hdr, pmod, fmod, fsize, ckpt>>
  BY DEF LoadPage, page, next
<1>6. dir_page' \in [Procs -> [PageIdx -> Page]]
  BY <1>2, <1>4, <1>5 DEF TypeOK
<1>7. QED
  BY <1>3, <1>4, <1>5, <1>6 DEF TypeOK, disk

\* What c_xdfput writes at the end of a file: pages, header and units of the file.
LEMMA AddRecordType ==
    ASSUME TypeOK, NEW p \in Procs, NEW v \in Vals, NEW n \in Lens,
           NEW old \in SUBSET Handles, Cardinality(old) \in Nat,
           \A h \in old : Valid(p, h), npages[p] > 0, AddRecord(p, v, n, old)
    PROVE  TypeOK'
<1> DEFINE k     == PageFor(p)
           at    == SizeFor(p) + 1
           e     == [idtyp |-> LIVE, val |-> v, addr |-> at, lng |-> n]
           pages == [PagesFor(p) EXCEPT ![k] = WithEntry(@, e)]
<1>1. /\ k < MAX_DIR_PAGES
      /\ at + n - 1 <= MaxAddr
      /\ dir_page' = [dir_page EXCEPT ![p] =
            [i \in PageIdx |->
               [pages[i] EXCEPT !.entry =
                  [s \in Slot |-> IF <<i, s>> \in old
                                  THEN [@[s] EXCEPT !.idtyp = DELETED]
                                  ELSE @[s]]]]]
      /\ npages' = [npages EXCEPT ![p] = k + 1]
      /\ pmod' = [pmod EXCEPT ![p] = @ \cup {npages[p] - 1, k} \cup {h[1] : h \in old}]
      /\ fmod' = [fmod EXCEPT ![p] = TRUE]
      /\ hdr' = [hdr EXCEPT ![p] =
            [rwflg |-> @.rwflg,
             fsiz  |-> at + n - 1,
             nbd   |-> IF LastFull(p) THEN @.nbd + 1 ELSE @.nbd,
             plst  |-> IF LastFull(p) THEN @.fsiz + 1 ELSE @.plst,
             nrec  |-> @.nrec - Cardinality(old) + 1,
             nxtn  |-> @.nxtn + 1,
             nbig  |-> Larger(n, @.nbig)]]
      /\ dcell' = [a \in Addr |->
            IF a \in Extent(e) THEN e
            ELSE IF LastFull(p) /\ a = hdr[p].fsiz + 1 THEN NewPage(a)
            ELSE dcell[a]]
      /\ dsize' = Larger(dsize, at + n - 1)
      /\ UNCHANGED <<dhdr, pc, wdaddr, fsize, ckpt>>
  BY Zenon DEF AddRecord, aux
<1> HIDE DEF pages
<1>2. /\ n \in Nat /\ n > 0 /\ hdr[p] \in Header /\ hdr[p].fsiz \in Nat
      /\ npages[p] \in Nat /\ npages[p] - 1 \in PageIdx
  <2>1. npages[p] \in 0 .. MAX_DIR_PAGES /\ hdr[p] \in Header
    BY ProcType
  <2>2. n \in Nat /\ n > 0
    BY ConstAssumption
  <2>3. npages[p] \in Nat /\ npages[p] - 1 \in PageIdx
    BY <2>1, ConstAssumption DEF PageIdx
  <2>4. QED
    BY <2>1, <2>2, <2>3, FieldType
<1>3. /\ k \in PageIdx /\ k + 1 \in 0 .. MAX_DIR_PAGES
      /\ at \in Nat /\ at + n - 1 \in 0 .. MaxAddr /\ at + n - 1 \in Nat
  <2>1. k \in Nat
    BY <1>2, ConstAssumption DEF PageFor, PageIdx
  <2>2. at \in Nat
    BY <1>2 DEF SizeFor
  <2>3. k < MAX_DIR_PAGES /\ at + n - 1 <= MaxAddr
    BY <1>1
  <2> HIDE DEF k, at
  <2>4. QED
    BY <1>2, <2>1, <2>2, <2>3, ConstAssumption DEF PageIdx
<1> HIDE DEF k, at
<1>4. e \in Entry /\ e \in RecUnit
  BY <1>2, <1>3 DEF Entry, RecUnit
<1> HIDE DEF e
<1>5. /\ PagesFor(p) \in [PageIdx -> Page]
      /\ PagesFor(p)[k].nent < ENTRIES_PER_PAGE
  <2>1. dir_page[p] \in [PageIdx -> Page]
    BY DEF TypeOK
  <2>2. NewPage(hdr[p].fsiz + 1) \in Page /\ NewPage(hdr[p].fsiz + 1).nent = 0
    BY <1>2, NewPageType DEF NewPage
  <2>3. [dir_page[p][npages[p] - 1] EXCEPT !.nxt_addr = hdr[p].fsiz + 1] \in Page
    <3>1. dir_page[p][npages[p] - 1] \in Page /\ hdr[p].fsiz + 1 \in Nat
      BY <1>2, <2>1
    <3>2. QED
      BY <3>1 DEF Page
  <2>4. CASE LastFull(p)
    <3>1. k = npages[p] /\ k # npages[p] - 1
      BY <1>2, <2>4 DEF PageFor, k
    <3>2. QED
      BY <1>2, <1>3, <2>1, <2>2, <2>3, <2>4, <3>1, ConstAssumption DEF PagesFor
  <2>5. CASE ~LastFull(p)
    <3>1. dir_page[p][npages[p] - 1].nent \in Nat
      BY <1>2, <2>1, FieldType, ConstAssumption
    <3>2. QED
      BY <1>2, <2>1, <2>5, <3>1, ConstAssumption DEF PagesFor, PageFor, LastFull, k
  <2>6. QED
    BY <2>4, <2>5
<1>6. pages \in [PageIdx -> Page]
  <2>1. WithEntry(PagesFor(p)[k], e) \in Page
    <3> DEFINE q == PagesFor(p)[k]
    <3>1. q \in Page /\ q.nent < ENTRIES_PER_PAGE
      BY <1>3, <1>5
    <3> HIDE DEF q
    <3>2. q.nent + 1 \in 0 .. ENTRIES_PER_PAGE /\ q.nent \in Slot
      BY <3>1, ConstAssumption DEF Page, Slot
    <3>3. [q.entry EXCEPT ![q.nent] = e] \in [Slot -> Entry]
      BY <1>4, <3>1, <3>2 DEF Page
    <3>4. WithEntry(q, e) \in Page
      BY <3>1, <3>2, <3>3 DEF WithEntry, Page
    <3>5. QED
      BY <3>4 DEF q
  <2>2. QED
    BY <1>3, <1>5, <2>1 DEF pages
<1>13. ASSUME NEW i \in PageIdx, NEW s \in Slot, <<i, s>> \in old
       PROVE  pages[i].entry[s].idtyp = LIVE
  <2>1. i < npages[p] /\ dir_page[p][i].entry[s].idtyp = LIVE
    BY <1>13 DEF Valid
  <2>2. PagesFor(p)[i].entry[s].idtyp = LIVE
    <3>1. dir_page[p] \in [PageIdx -> Page] /\ npages[p] # i
      BY <1>2, <2>1, ProcType
    <3>2. CASE i = npages[p] - 1
      BY <1>2, <2>1, <3>1, <3>2 DEF PagesFor, Page
    <3>3. CASE i # npages[p] - 1
      BY <1>2, <2>1, <3>1, <3>3 DEF PagesFor
    <3>4. QED
      BY <3>2, <3>3
  <2>3. CASE i # k
    BY <1>3, <1>5, <2>2, <2>3 DEF pages
  <2>4. CASE i = k
    <3>1. PagesFor(p)[k] \in Page /\ e.idtyp = LIVE
      BY <1>3, <1>5 DEF e
    <3>2. PagesFor(p)[k].entry \in [Slot -> Entry]
      BY <3>1, FieldType
    <3>3. pages[k] = WithEntry(PagesFor(p)[k], e)
      BY <1>3, <1>5 DEF pages
    <3>4. WithEntry(PagesFor(p)[k], e).entry[s] =
             IF s = PagesFor(p)[k].nent THEN e ELSE PagesFor(p)[k].entry[s]
      BY <3>1, <3>2 DEF WithEntry, Page
    <3>5. QED
      BY <2>2, <2>4, <3>1, <3>3, <3>4
  <2>5. QED
    BY <2>3, <2>4
<1>7. dir_page' \in [Procs -> [PageIdx -> Page]]
  <2>1. ASSUME NEW i \in PageIdx, NEW s \in Slot
        PROVE  /\ pages[i].entry[s] \in Entry
               /\ <<i, s>> \in old => [pages[i].entry[s] EXCEPT !.idtyp = DELETED] \in Entry
    <3>1. pages[i].entry[s] \in Entry
      BY <1>6, FieldType
    <3>2. <<i, s>> \in old => pages[i].entry[s].idtyp # SPECIAL
      BY <1>13
    <3>3. QED
      BY <3>1, <3>2 DEF Entry, NoEntry
  <2>2. ASSUME NEW i \in PageIdx
        PROVE  [pages[i] EXCEPT !.entry =
                  [s \in Slot |-> IF <<i, s>> \in old
                                  THEN [@[s] EXCEPT !.idtyp = DELETED]
                                  ELSE @[s]]] \in Page
    BY <1>6, <2>1 DEF Page
  <2>3. QED
    BY <1>1, <2>2 DEF TypeOK
<1>8. hdr' \in [Procs -> Header]
  <2>1. Larger(n, hdr[p].nbig) \in Nat
    BY <1>2 DEF Larger, Header
  <2>2. QED
    BY <1>1, <1>2, <1>3, <2>1 DEF TypeOK, Header
<1>9. dcell' \in [Addr -> RecUnit \cup Page \cup {Blank}]
  <2>1. \A a \in Addr : NewPage(a) \in Page
    BY NewPageType, ConstAssumption DEF Addr
  <2>2. QED
    BY <1>1, <1>4, <2>1 DEF TypeOK
<1>10. pmod' \in [Procs -> SUBSET PageIdx] /\ npages' \in [Procs -> 0 .. MAX_DIR_PAGES]
  <2>1. {h[1] : h \in old} \subseteq PageIdx
    BY DEF Handles
  <2>2. QED
    BY <1>1, <1>2, <1>3, <2>1 DEF TypeOK
<1>11. dsize' \in Nat /\ fmod' \in [Procs -> BOOLEAN]
  BY <1>1, <1>3 DEF TypeOK, Larger
<1>12. QED
  BY <1>1, <1>7, <1>8, <1>9, <1>10, <1>11 DEF TypeOK

\* A page with another record in the slot s is a page.
LEMMA WithRecordType ==
    ASSUME NEW q \in Page, NEW s \in Slot, NEW r \in Entry
    PROVE  [q EXCEPT !.entry[s] = r] \in Page
BY DEF Page

\* A record is an entry of any other type too.
LEMMA RetypedType ==
    ASSUME NEW e \in Entry, e.idtyp # SPECIAL, NEW t \in {LIVE, DELETED, ERASED}
    PROVE  [e EXCEPT !.idtyp = t] \in Entry
BY DEF Entry, NoEntry

\* Overwriting a record in place keeps the types.
LEMMA PutInPlaceType ==
    ASSUME TypeOK, NEW p \in Procs, NEW h \in Handles, NEW v \in Vals, PutInPlace(p, h, v)
    PROVE  TypeOK'
<1> DEFINE e == dir_page[p][h[1]].entry[h[2]]
           r == [idtyp |-> LIVE, val |-> v, addr |-> e.addr, lng |-> e.lng]
           q == [dir_page[p][h[1]] EXCEPT !.entry[h[2]] = r]
<1>1. h[1] \in PageIdx /\ h[2] \in Slot
  BY DEF Handles
<1>2. dir_page[p][h[1]] \in Page /\ dir_page[p] \in [PageIdx -> Page]
  BY <1>1, ProcType
<1>3. e \in Entry
  BY <1>1, <1>2, FieldType
<1>4. r \in RecUnit /\ r \in Entry
  <2> HIDE DEF e
  <2>1. e.addr \in Nat /\ e.lng \in Nat
    BY <1>3 DEF Entry, NoEntry
  <2>2. r \in RecUnit
    BY <2>1 DEF RecUnit
  <2>3. r \in Entry
    BY <2>1 DEF Entry
  <2>4. QED
    BY <2>2, <2>3
<1>5. q \in Page
  BY <1>1, <1>2, <1>4, WithRecordType
<1>6. /\ dcell' = [a \in Addr |-> IF a \in Extent(e) THEN r ELSE dcell[a]]
      /\ dir_page' = [dir_page EXCEPT ![p][h[1]] = q]
  BY Zenon DEF PutInPlace
<1> HIDE DEF e, r, q
<1>7. /\ dcell' \in [Addr -> RecUnit \cup Page \cup {Blank}]
      /\ dir_page' \in [Procs -> [PageIdx -> Page]]
  BY <1>1, <1>2, <1>4, <1>5, <1>6 DEF TypeOK
<1>8. pmod' \in [Procs -> SUBSET PageIdx] /\ fmod' \in [Procs -> BOOLEAN]
  BY <1>1 DEF PutInPlace, TypeOK
<1>9. QED
  BY <1>7, <1>8 DEF PutInPlace, TypeOK, aux

\* A record refused because the directory is full keeps the types.
LEMMA PutDirFullType ==
    ASSUME TypeOK, NEW p \in Procs, npages[p] > 0, PutDirFull(p)
    PROVE  TypeOK'
<1>1. npages[p] - 1 \in PageIdx
  BY ProcType, ConstAssumption DEF PageIdx
<1>2. QED
  BY <1>1 DEF PutDirFull, TypeOK, aux, disk

\* Deleting a record keeps the types: the valid entry of a handle is a record's.
LEMMA DeleteType ==
    ASSUME TypeOK, NEW p \in Procs, NEW h \in Handles, Delete(p, h)
    PROVE  TypeOK'
<1> DEFINE e == dir_page[p][h[1]].entry[h[2]]
           q == [dir_page[p][h[1]] EXCEPT !.entry[h[2]] = [e EXCEPT !.idtyp = DELETED]]
<1>1. h[1] \in PageIdx /\ h[2] \in Slot
  BY DEF Handles
<1>2. dir_page[p][h[1]] \in Page /\ dir_page[p] \in [PageIdx -> Page] /\ hdr[p] \in Header
  <2>1. dir_page[p] \in [PageIdx -> Page] /\ hdr[p] \in Header
    BY ProcType
  <2> HIDE DEF PageIdx
  <2>2. QED
    BY <1>1, <2>1
<1>3. e \in Entry /\ e.idtyp # SPECIAL
  <2>1. dir_page[p][h[1]].entry \in [Slot -> Entry]
    BY <1>2, FieldType
  <2>2. e.idtyp = LIVE
    BY DEF Delete, Valid
  <2> HIDE DEF Slot
  <2>3. QED
    BY <1>1, <2>1, <2>2
<1>4. q \in Page
  <2>1. [e EXCEPT !.idtyp = DELETED] \in Entry
    <3> HIDE DEF e
    <3>1. QED
      BY <1>3 DEF Entry, NoEntry
  <2>2. QED
    BY <1>1, <1>2, <2>1, WithRecordType
<1>5. dir_page' = [dir_page EXCEPT ![p][h[1]] = q]
  BY Zenon DEF Delete
<1> HIDE DEF q
<1>6. dir_page' \in [Procs -> [PageIdx -> Page]]
  BY <1>1, <1>2, <1>4, <1>5 DEF TypeOK
<1>7. [hdr[p] EXCEPT !.nrec = @ - 1] \in Header
  BY <1>2 DEF Header
<1>8. hdr' \in [Procs -> Header]
  BY <1>7 DEF Delete, TypeOK
<1>9. QED
  BY <1>1, <1>6, <1>8 DEF Delete, TypeOK, aux, disk

\* The first header write of a close or a checkpoint keeps the types.
LEMMA CloseBeginType ==
    ASSUME TypeOK, NEW p \in Procs, NEW ck \in BOOLEAN, CloseBegin(p, ck)
    PROVE  TypeOK'
BY ProcType DEF CloseBegin, TypeOK, core

\* Erasing on disk a record deleted in core keeps the types.
LEMMA FlushEraseType ==
    ASSUME TypeOK, NEW p \in Procs, NEW i \in PageIdx, FlushErase(p, i)
    PROVE  TypeOK'
<1>1. PICK s \in InCoreDeleted(p, i) :
         /\ dir_page' = [dir_page EXCEPT ![p][i].entry[s].idtyp = ERASED]
         /\ dcell' = [dcell EXCEPT ![dir_page[p][i].entry[s].addr] =
               [idtyp |-> ERASED, val |-> dir_page[p][i].entry[s].val,
                addr |-> dir_page[p][i].entry[s].addr, lng |-> dir_page[p][i].entry[s].lng]]
  BY Zenon DEF FlushErase
<1> DEFINE e == dir_page[p][i].entry[s]
           r == [idtyp |-> ERASED, val |-> e.val, addr |-> e.addr, lng |-> e.lng]
           q == [dir_page[p][i] EXCEPT !.entry[s] = [e EXCEPT !.idtyp = ERASED]]
<1>2. s \in Slot /\ dir_page[p][i] \in Page /\ dir_page[p] \in [PageIdx -> Page]
  BY ProcType DEF InCoreDeleted
<1>3. e \in Entry /\ e.idtyp # SPECIAL
  BY <1>2, FieldType DEF InCoreDeleted
<1>4. q \in Page /\ r \in RecUnit
  <2>1. r \in RecUnit
    BY <1>3 DEF Entry, NoEntry, RecUnit
  <2>2. [e EXCEPT !.idtyp = ERASED] \in Entry
    BY <1>3, RetypedType
  <2> HIDE DEF e
  <2>3. QED
    BY <1>2, <2>1, <2>2, WithRecordType
<1>5. dir_page' = [dir_page EXCEPT ![p][i] = q] /\ dcell' = [dcell EXCEPT ![e.addr] = r]
  BY <1>1, Zenon
<1> HIDE DEF q, r
<1>6. /\ dir_page' \in [Procs -> [PageIdx -> Page]]
      /\ dcell' \in [Addr -> RecUnit \cup Page \cup {Blank}]
  BY <1>2, <1>4, <1>5 DEF TypeOK
<1>7. QED
  BY <1>6 DEF FlushErase, TypeOK, aux

\* Writing a directory page keeps the types.
LEMMA FlushPageType ==
    ASSUME TypeOK, NEW p \in Procs, NEW i \in PageIdx, FlushPage(p, i)
    PROVE  TypeOK'
<1>1. dir_page[p][i] \in Page
  BY ProcType
<1>2. /\ dcell' \in [Addr -> RecUnit \cup Page \cup {Blank}]
      /\ pmod' \in [Procs -> SUBSET PageIdx]
  BY <1>1 DEF FlushPage, TypeOK
<1>3. QED
  BY <1>2 DEF FlushPage, TypeOK, aux

\* The ends of c_xdfcls, after a checkpoint, a close or a refused open.
LEMMA CloseType ==
    ASSUME TypeOK, NEW p \in Procs, CheckpointEnd(p) \/ CloseEnd(p) \/ CloseRefused(p)
    PROVE  TypeOK'
<1>1. CASE CheckpointEnd(p)
  BY <1>1 DEF CheckpointEnd, TypeOK, disk
<1>2. CASE CloseEnd(p) \/ CloseRefused(p)
  <2>1. [hdr[p] EXCEPT !.rwflg = RDMODE] \in Header
    BY ProcType, FlagType DEF RwFlags
  <2>2. Forget(p) /\ dhdr' \in Header
    BY <1>2, <2>1 DEF CloseEnd, CloseRefused, TypeOK
  <2>3. pc' = [pc EXCEPT ![p] = "closed"] /\ UNCHANGED <<dcell, dsize>>
    BY <1>2 DEF CloseEnd, CloseRefused
  <2>4. QED
    BY <2>2, <2>3, ForgetType DEF TypeOK
<1>3. QED
  BY <1>1, <1>2

\* A process that dies frees its entry of the file table and leaves the disk alone.
LEMMA CrashType ==
    ASSUME TypeOK, NEW p \in Procs, Crash(p)
    PROVE  TypeOK'
<1>1. Forget(p) /\ pc' = [pc EXCEPT ![p] = "closed"] /\ UNCHANGED disk
  BY DEF Crash
<1>2. QED
  BY <1>1, ForgetType DEF TypeOK, disk

-----------------------------------------------------------------------------
\* A file that is open has at least one directory page: c_xdfopn reads one before it
\* returns.  The page c_xdfput adds its record to is found from that.
HasPage == \A p \in Procs : pc[p] \in {"open", "flush"} => npages[p] > 0

\* Every step keeps the types, and the page.
LEMMA TypeStep ==
    ASSUME TypeOK, HasPage, [Next]_vars
    PROVE  TypeOK'
<1>1. CASE UNCHANGED vars
  BY <1>1 DEF TypeOK, vars, disk, core, aux
<1>2. CASE Next
  <2>1. PICK p \in Procs :
           \/ Create(p)
           \/ \E mode \in {RDMODE, RWMODE, APPEND} : Open(p, mode)
           \/ LoadPage(p)
           \/ \E v \in Vals, n \in Lens : PutNew(p, v, n)
           \/ \E h \in Handles, v \in Vals, n \in Lens : PutMove(p, h, v, n)
           \/ \E h \in Handles, v \in Vals : PutInPlace(p, h, v)
           \/ PutDirFull(p)
           \/ \E h \in Handles : Delete(p, h)
           \/ \E checkpoint \in BOOLEAN : CloseBegin(p, checkpoint)
           \/ \E i \in PageIdx : FlushErase(p, i) \/ FlushPage(p, i)
           \/ CheckpointEnd(p) \/ CloseEnd(p) \/ CloseRefused(p)
           \/ Crash(p)
    BY <1>2, Zenon DEF Next
  <2>2. CASE \E v \in Vals, n \in Lens : PutNew(p, v, n)
    <3>1. PICK v \in Vals, n \in Lens : PutNew(p, v, n)
      BY <2>2
    <3>2. npages[p] > 0 /\ AddRecord(p, v, n, {})
      BY <3>1 DEF PutNew, HasPage
    <3>3. Cardinality({}) \in Nat
      BY FS_EmptySet
    <3>4. QED
      BY <3>2, <3>3, AddRecordType
  <2>3. CASE \E h \in Handles, v \in Vals, n \in Lens : PutMove(p, h, v, n)
    <3>1. PICK h \in Handles, v \in Vals, n \in Lens : PutMove(p, h, v, n)
      BY <2>3
    <3>2. npages[p] > 0 /\ Valid(p, h) /\ AddRecord(p, v, n, {h})
      BY <3>1 DEF PutMove, HasPage
    <3>3. Cardinality({h}) \in Nat
      BY FS_Singleton
    <3>4. QED
      BY <3>2, <3>3, AddRecordType
  <2>4. CASE PutDirFull(p)
    BY <2>4, PutDirFullType DEF PutDirFull, HasPage
  <2>5. CASE \/ Create(p)
             \/ \E mode \in {RDMODE, RWMODE, APPEND} : Open(p, mode)
             \/ LoadPage(p)
    BY <2>5, CreateType, OpenType, LoadPageType
  <2>6. CASE \/ \E h \in Handles, v \in Vals : PutInPlace(p, h, v)
             \/ \E h \in Handles : Delete(p, h)
    BY <2>6, PutInPlaceType, DeleteType
  <2>7. CASE \/ \E checkpoint \in BOOLEAN : CloseBegin(p, checkpoint)
             \/ \E i \in PageIdx : FlushErase(p, i) \/ FlushPage(p, i)
             \/ CheckpointEnd(p) \/ CloseEnd(p) \/ CloseRefused(p)
    BY <2>7, CloseBeginType, FlushEraseType, FlushPageType, CloseType
  <2>8. CASE Crash(p)
    BY <2>8, CrashType
  <2>9. QED
    BY <2>1, <2>2, <2>3, <2>4, <2>5, <2>6, <2>7, <2>8
<1>3. QED
  BY <1>1, <1>2

\* A process that has the file open has at least one directory page: a new file gets one
\* at once, an existing one is open after its last page is read, and no call drops a page.
LEMMA HasPageStep ==
    ASSUME TypeOK, HasPage, [Next]_vars
    PROVE  HasPage'
<1> SUFFICES ASSUME NEW q \in Procs, pc'[q] \in {"open", "flush"}
             PROVE  npages'[q] > 0
  BY DEF HasPage
<1>1. CASE UNCHANGED vars
  BY <1>1 DEF HasPage, vars, core
<1>2. ASSUME NEW p \in Procs,
             \/ Create(p)
             \/ \E mode \in {RDMODE, RWMODE, APPEND} : Open(p, mode)
             \/ CloseEnd(p) \/ CloseRefused(p) \/ Crash(p)
      PROVE  npages'[q] > 0
  <2>1. CASE p = q
    BY <1>2, <2>1 DEF Create, Open, CloseEnd, CloseRefused, Crash, TypeOK
  <2>2. CASE p # q
    BY <1>2, <2>2 DEF Create, Open, CloseEnd, CloseRefused, Crash, Forget, TypeOK, HasPage
  <2>3. QED
    BY <2>1, <2>2
<1>3. ASSUME NEW p \in Procs, LoadPage(p)
      PROVE  npages'[q] > 0
  <2>1. npages[p] \in Nat /\ npages' = [npages EXCEPT ![p] = npages[p] + 1]
    BY <1>3, ProcType, ConstAssumption DEF LoadPage
  <2>2. p # q => pc'[q] = pc[q]
    BY <1>3 DEF LoadPage, TypeOK
  <2>3. QED
    BY <2>1, <2>2 DEF TypeOK, HasPage
<1>4. ASSUME NEW p \in Procs, NEW v \in Vals, NEW n \in Lens, NEW old \in SUBSET Handles,
             pc[p] = "open", AddRecord(p, v, n, old)
      PROVE  npages'[q] > 0
  <2>1. npages' = [npages EXCEPT ![p] = PageFor(p) + 1] /\ pc' = pc
    BY <1>4 DEF AddRecord
  <2>2. npages[p] > 0 /\ npages[p] \in Nat
    BY <1>4, ProcType, ConstAssumption DEF HasPage
  <2>3. PageFor(p) + 1 > 0
    BY <2>2 DEF PageFor
  <2>4. QED
    BY <2>1, <2>3 DEF TypeOK, HasPage
<1>5. ASSUME NEW p \in Procs,
             \/ \E h \in Handles, v \in Vals : PutInPlace(p, h, v)
             \/ PutDirFull(p)
             \/ \E h \in Handles : Delete(p, h)
             \/ \E checkpoint \in BOOLEAN : CloseBegin(p, checkpoint)
             \/ \E i \in PageIdx : FlushErase(p, i) \/ FlushPage(p, i)
             \/ CheckpointEnd(p)
      PROVE  npages'[q] > 0
  <2>1. npages' = npages /\ (pc[q] = pc'[q] \/ pc[q] \in {"open", "flush"})
    BY <1>5 DEF PutInPlace, PutDirFull, Delete, CloseBegin, FlushErase, FlushPage,
                CheckpointEnd, TypeOK, core
  <2>2. QED
    BY <2>1 DEF HasPage
<1>6. ASSUME NEW p \in Procs,
             \/ \E v \in Vals, n \in Lens : PutNew(p, v, n)
             \/ \E h \in Handles, v \in Vals, n \in Lens : PutMove(p, h, v, n)
      PROVE  npages'[q] > 0
  <2>1. CASE \E v \in Vals, n \in Lens : PutNew(p, v, n)
    BY <1>4, <2>1 DEF PutNew
  <2>2. CASE \E h \in Handles, v \in Vals, n \in Lens : PutMove(p, h, v, n)
    BY <1>4, <2>2 DEF PutMove
  <2>3. QED
    BY <1>6, <2>1, <2>2
<1>7. CASE Next
  BY <1>2, <1>3, <1>5, <1>6, <1>7, Zenon DEF Next
<1>8. QED
  BY <1>1, <1>7

\* Type correctness for every number of processes and pages, whatever the bounds and
\* whether processes die, race, or close what they failed to open.
THEOREM TypeInvariant == Spec => []TypeOK
<1>1. Init => TypeOK /\ HasPage
  BY InitType DEF Init, HasPage
<1>2. TypeOK /\ HasPage /\ [Next]_vars => TypeOK' /\ HasPage'
  BY TypeStep, HasPageStep
<1>3. QED
  BY <1>1, <1>2, PTL DEF Spec
-----------------------------------------------------------------------------
\* A header that says 0 units is that of a file that does not exist yet: it has no flag.
\* A process that has read or made a header has one that says more.
HasHeader ==
    /\ dhdr.fsiz = 0 => dhdr.rwflg = RDMODE
    /\ \A p \in Procs : pc[p] # "closed" => hdr[p].fsiz > 0

\* No step makes a process believe in an empty file, or writes such a header with a flag.
LEMMA HasHeaderStep ==
    ASSUME TypeOK, HasHeader, [Next]_vars
    PROVE  HasHeader'
<1>1. CASE UNCHANGED vars
  BY <1>1 DEF HasHeader, vars, disk, core
<1>2. ASSUME NEW p \in Procs, Create(p)
      PROVE  HasHeader'
  BY <1>2 DEF Create, HasHeader, NewHeader, EmptyHeader, TypeOK
<1>3. ASSUME NEW p \in Procs, NEW mode \in {RDMODE, RWMODE, APPEND}, Open(p, mode)
      PROVE  HasHeader'
  <2>1. dhdr' = dhdr /\ dhdr.fsiz > 0
    BY <1>3 DEF Open, disk
  <2>2. hdr'[p].fsiz > 0
    BY <1>3 DEF Open, TypeOK, Header
  <2>3. \A q \in Procs \ {p} : hdr'[q] = hdr[q] /\ pc'[q] = pc[q]
    BY <1>3 DEF Open, TypeOK
  <2>4. QED
    BY <2>1, <2>2, <2>3 DEF HasHeader
<1>4. ASSUME NEW p \in Procs,
             \/ LoadPage(p)
             \/ \E h \in Handles, v \in Vals : PutInPlace(p, h, v)
             \/ PutDirFull(p)
             \/ \E i \in PageIdx : FlushErase(p, i) \/ FlushPage(p, i)
             \/ CheckpointEnd(p)
      PROVE  HasHeader'
  <2>1. CASE LoadPage(p) \/ PutDirFull(p) \/ CheckpointEnd(p)
    BY <2>1 DEF LoadPage, PutDirFull, CheckpointEnd, HasHeader, TypeOK, disk
  <2>2. CASE \E h \in Handles, v \in Vals : PutInPlace(p, h, v)
    <3>1. dhdr' = dhdr /\ hdr' = hdr /\ pc' = pc
      BY <2>2, Zenon DEF PutInPlace
    <3>2. QED
      BY <3>1 DEF HasHeader
  <2>3. CASE \E i \in PageIdx : FlushErase(p, i) \/ FlushPage(p, i)
    <3>1. dhdr' = dhdr /\ hdr' = hdr /\ pc' = pc
      BY <2>3, Zenon DEF FlushErase, FlushPage
    <3>2. QED
      BY <3>1 DEF HasHeader
  <2>4. QED
    BY <1>4, <2>1, <2>2, <2>3
<1>5. ASSUME NEW p \in Procs, NEW v \in Vals, NEW n \in Lens, NEW old \in SUBSET Handles,
             pc[p] = "open", AddRecord(p, v, n, old)
      PROVE  HasHeader'
  <2>1. dhdr' = dhdr /\ pc' = pc
    BY <1>5 DEF AddRecord
  <2>2. \A q \in Procs \ {p} : hdr'[q] = hdr[q]
    BY <1>5 DEF AddRecord, TypeOK
  <2>3. hdr[p].fsiz \in Nat /\ n \in Nat \ {0} /\ hdr[p].fsiz > 0
    BY <1>5, ProcType, FieldType, ConstAssumption DEF HasHeader
  <2>4. SizeFor(p) > 0 /\ SizeFor(p) \in Nat
    BY <2>3 DEF SizeFor
  <2>5. hdr'[p].fsiz = SizeFor(p) + 1 + n - 1
    BY <1>5 DEF AddRecord, TypeOK
  <2>6. hdr'[p].fsiz > 0
    BY <2>3, <2>4, <2>5
  <2>7. QED
    BY <2>1, <2>2, <2>6 DEF HasHeader
<1>6. ASSUME NEW p \in Procs,
             \/ \E v \in Vals, n \in Lens : PutNew(p, v, n)
             \/ \E h \in Handles, v \in Vals, n \in Lens : PutMove(p, h, v, n)
      PROVE  HasHeader'
  <2>1. CASE \E v \in Vals, n \in Lens : PutNew(p, v, n)
    BY <1>5, <2>1 DEF PutNew
  <2>2. CASE \E h \in Handles, v \in Vals, n \in Lens : PutMove(p, h, v, n)
    BY <1>5, <2>2 DEF PutMove
  <2>3. QED
    BY <1>6, <2>1, <2>2
<1>7. ASSUME NEW p \in Procs, NEW h \in Handles, Delete(p, h)
      PROVE  HasHeader'
  <2>1. dhdr' = dhdr /\ pc' = pc /\ hdr' = [hdr EXCEPT ![p].nrec = @ - 1]
    BY <1>7 DEF Delete, disk
  <2>2. hdr \in [Procs -> Header]
    BY DEF TypeOK
  <2>3. \A q \in Procs : hdr'[q].fsiz = hdr[q].fsiz
    BY <2>1, <2>2 DEF Header
  <2>4. QED
    BY <2>1, <2>3 DEF HasHeader
<1>8. ASSUME NEW p \in Procs, NEW checkpoint \in BOOLEAN, CloseBegin(p, checkpoint)
      PROVE  HasHeader'
  <2>1. pc[p] = "open" /\ dhdr' \in {dhdr, hdr[p]} /\ hdr' = hdr
    BY <1>8 DEF CloseBegin, core
  <2>2. \A q \in Procs : pc'[q] # "closed" => pc[q] # "closed"
    BY <1>8 DEF CloseBegin, TypeOK
  <2>3. hdr[p].fsiz > 0 /\ hdr[p].fsiz \in Nat
    BY <2>1, ProcType, FieldType DEF HasHeader
  <2>4. QED
    BY <2>1, <2>2, <2>3 DEF HasHeader
<1>9. ASSUME NEW p \in Procs, CloseEnd(p) \/ CloseRefused(p) \/ Crash(p)
      PROVE  HasHeader'
  <2>1. hdr' = [hdr EXCEPT ![p] = EmptyHeader] /\ pc' = [pc EXCEPT ![p] = "closed"]
    BY <1>9 DEF CloseEnd, CloseRefused, Crash, Forget
  <2>2. \A q \in Procs : pc'[q] # "closed" => pc[q] # "closed" /\ hdr'[q] = hdr[q]
    BY <2>1 DEF TypeOK
  <2>3. dhdr' = dhdr \/ dhdr'.rwflg = RDMODE
    BY <1>9, ProcType DEF CloseEnd, CloseRefused, Crash, disk, Header
  <2>4. QED
    BY <2>2, <2>3 DEF HasHeader
<1>10. CASE Next
  BY <1>2, <1>3, <1>4, <1>6, <1>7, <1>8, <1>9, <1>10, Zenon DEF Next
<1>11. QED
  BY <1>1, <1>10

\* The flag of a session stays on disk until that session, or another that writes, closes
\* the file: whatever the number of processes and however they die, as long as no program
\* that may write closes a unit whose open was refused.
THEOREM FlagKept ==
    ASSUME ClosesRefused \cap Writers = {}
    PROVE  Spec => FlagClearedByOwner
<1>1. Init => TypeOK /\ HasPage /\ HasHeader
  BY InitType DEF Init, HasPage, HasHeader, EmptyHeader
<1>2. TypeOK /\ HasPage /\ HasHeader /\ [Next]_vars => TypeOK' /\ HasPage' /\ HasHeader'
  BY TypeStep, HasPageStep, HasHeaderStep
<1>3. ASSUME TypeOK, HasHeader, [Next]_vars, dhdr.rwflg # RDMODE, dhdr'.rwflg = RDMODE
      PROVE  \E p \in Procs : Writing(p) /\ pc'[p] = "closed"
  <2>1. PICK p \in Procs : \/ Create(p)
                           \/ \E checkpoint \in BOOLEAN : CloseBegin(p, checkpoint)
                           \/ CloseEnd(p) \/ CloseRefused(p)
                           \/ \E mode \in {RDMODE, RWMODE, APPEND} : Open(p, mode)
                           \/ LoadPage(p)
                           \/ \E v \in Vals, n \in Lens : PutNew(p, v, n)
                           \/ \E h \in Handles, v \in Vals, n \in Lens : PutMove(p, h, v, n)
                           \/ \E h \in Handles, v \in Vals : PutInPlace(p, h, v)
                           \/ PutDirFull(p)
                           \/ \E h \in Handles : Delete(p, h)
                           \/ \E i \in PageIdx : FlushErase(p, i) \/ FlushPage(p, i)
                           \/ CheckpointEnd(p) \/ Crash(p)
    BY <1>3, Zenon DEF Next, vars, disk
  <2>2. ~Create(p)
    BY <1>3 DEF Create, HasHeader
  <2>3. ~CloseRefused(p)
    BY <1>3 DEF CloseRefused, CanWrite
  <2>4. \A checkpoint \in BOOLEAN : ~CloseBegin(p, checkpoint)
    BY <1>3 DEF CloseBegin, CanWrite
  <2>5. /\ ~LoadPage(p) /\ ~PutDirFull(p) /\ ~CheckpointEnd(p) /\ ~Crash(p)
        /\ \A mode \in {RDMODE, RWMODE, APPEND} : ~Open(p, mode)
        /\ \A h \in Handles : ~Delete(p, h)
    BY <1>3, Zenon DEF LoadPage, PutDirFull, CheckpointEnd, Crash, Open, Delete, disk
  <2>6. \A v \in Vals, n \in Lens : ~PutNew(p, v, n)
    BY <1>3, Zenon DEF PutNew, AddRecord
  <2>7. \A h \in Handles, v \in Vals, n \in Lens : ~PutMove(p, h, v, n)
    BY <1>3, Zenon DEF PutMove, AddRecord
  <2>8. \A h \in Handles, v \in Vals : ~PutInPlace(p, h, v)
    BY <1>3, Zenon DEF PutInPlace
  <2>9. \A i \in PageIdx : ~FlushErase(p, i) /\ ~FlushPage(p, i)
    BY <1>3, Zenon DEF FlushErase, FlushPage
  <2>10. CloseEnd(p)
    BY <2>1, <2>2, <2>3, <2>4, <2>5, <2>6, <2>7, <2>8, <2>9
  <2>11. Writing(p) /\ pc'[p] = "closed"
    BY <1>3, <2>10 DEF CloseEnd, Writing, TypeOK
  <2>12. QED
    BY <2>11
<1>4. QED
  BY <1>1, <1>2, <1>3, PTL DEF Spec, FlagClearedByOwner

-----------------------------------------------------------------------------
(* Lemmas about the directory of a file: what each way of changing its pages keeps. *)

\* A set of numbers has a least element.
LEMMA LeastElement ==
    ASSUME NEW S \in SUBSET Nat, S # {}
    PROVE  \E m \in S : \A k \in S : m <= k
<1>1. PICK R : R = OpToRel(<, Nat)
  OBVIOUS
<1>2. PICK x \in S : \A y \in S : ~(<<y, x>> \in R)
  BY <1>1, WFMin, NatLessThanWellFounded
<1>3. \A y \in S : <<y, x>> \in R <=> y < x
  BY <1>1, SMT DEF OpToRel
<1>4. \A y \in S : ~(y < x)
  BY <1>2, <1>3
<1>5. \A y \in S : x <= y
  <2> TAKE y \in S
  <2>1. x \in Nat /\ y \in Nat
    OBVIOUS
  <2> QED
    BY <1>4, <2>1
<1>6. QED
  BY <1>5

\* A unit of a record is never taken for a directory page.
LEMMA RecordIsNotPage ==
    /\ \A x \in RecUnit : x \notin Page
    /\ Blank \notin Page
<1>1. \A x \in RecUnit : DOMAIN x = {"idtyp", "val", "addr", "lng"}
  BY DEF RecUnit
<1>2. \A x \in Page : DOMAIN x = {"addr", "nxt_addr", "nent", "entry"}
  BY DEF Page
<1>3. DOMAIN Blank = {"idtyp", "val", "addr", "lng"}
  BY DEF Blank, NoEntry
<1>4. "idtyp" \notin {"addr", "nxt_addr", "nent", "entry"}
  OBVIOUS
<1>5. QED
  BY <1>1, <1>2, <1>3, <1>4, Zenon

\* There are finitely many handles.
LEMMA HandlesFinite == \A S \in SUBSET Handles : IsFiniteSet(S) /\ Cardinality(S) \in Nat
<1>1. IsFiniteSet(PageIdx) /\ IsFiniteSet(Slot)
  BY FS_Interval, ConstAssumption DEF PageIdx, Slot
<1>2. IsFiniteSet(Handles)
  BY <1>1, FS_Product DEF Handles
<1>3. QED
  BY <1>2, FS_Subset, FS_CardinalityType

\* The pages of a directory, two by two, before and after entries change their type.
Resembles(D, E, n) ==
    \A i \in 0 .. n - 1 :
        /\ E[i].addr = D[i].addr /\ E[i].nxt_addr = D[i].nxt_addr /\ E[i].nent = D[i].nent
        /\ \A s \in Slot :
              /\ E[i].entry[s].idtyp = SPECIAL <=> D[i].entry[s].idtyp = SPECIAL
              /\ E[i].entry[s].addr = D[i].entry[s].addr
              /\ E[i].entry[s].lng = D[i].entry[s].lng

\* What Consistent says without the file.
WellFormed(H, D, n) ==
    /\ n > 0 /\ D[0].addr = 2
    /\ Linked(D, n) /\ Filled(D, n) /\ Counted(H, D, n) /\ LaidOut(D, n, H.fsiz)

\* The file comes in only through the records it holds.
LEMMA SplitConsistent ==
    ASSUME NEW H, NEW D, NEW n
    PROVE  Consistent(H, D, n) <=>
             WellFormed(H, D, n) /\ \A h \in Used(D, n) : OnDisk(EntryOf(D, h))
BY DEF Consistent, WellFormed

\* A used handle is a page of the directory and a slot.
LEMMA UsedHandle ==
    ASSUME NEW D, NEW n \in Nat
    PROVE  /\ \A h \in Used(D, n) : /\ h \in Handles /\ h[1] \in 0 .. n - 1 /\ h[2] \in Slot
                                    /\ h[1] \in PageIdx /\ h = <<h[1], h[2]>>
                                    /\ D[h[1]].entry[h[2]].idtyp # SPECIAL
           /\ \A i \in 0 .. n - 1, s \in Slot :
                 i \in PageIdx /\ D[i].entry[s].idtyp # SPECIAL => <<i, s>> \in Used(D, n)
           /\ Live(D, n) \subseteq Used(D, n) /\ Used(D, n) \subseteq Handles
<1>1. \A h \in Handles : /\ h[1] \in PageIdx /\ h[2] \in Slot /\ h = <<h[1], h[2]>>
                         /\ h[1] \in Nat
  BY ConstAssumption DEF Handles, PageIdx
<1>2. \A i \in PageIdx, s \in Slot : <<i, s>> \in Handles
  BY DEF Handles
<1>3. \A h \in Used(D, n) : h \in Handles /\ h[1] < n /\ D[h[1]].entry[h[2]].idtyp # SPECIAL
  BY DEF Used, EntryOf
<1>4. \A i \in 0 .. n - 1, s \in Slot :
         i \in PageIdx /\ D[i].entry[s].idtyp # SPECIAL => <<i, s>> \in Used(D, n)
  BY <1>2 DEF Used, EntryOf
<1>5. Live(D, n) \subseteq Used(D, n) /\ Used(D, n) \subseteq Handles
  BY DEF Live, Used
<1>6. \A h \in Used(D, n) : h[1] \in 0 .. n - 1
  <2>1. \A k \in Nat : k < n => k \in 0 .. n - 1
    OBVIOUS
  <2>2. QED
    BY <1>1, <1>3, <2>1
<1>7. QED
  BY <1>1, <1>3, <1>4, <1>5, <1>6

\* Directories that resemble each other have the same entries in use, in the same places.
LEMMA ResembleUsed ==
    ASSUME NEW D, NEW E, NEW n \in Nat, Resembles(D, E, n)
    PROVE  /\ Used(E, n) = Used(D, n)
           /\ \A h \in Used(D, n) : /\ EntryOf(E, h).addr = EntryOf(D, h).addr
                                    /\ EntryOf(E, h).lng = EntryOf(D, h).lng
<1>1. \A h \in Handles : h[1] < n => /\ h[1] \in 0 .. n - 1 /\ h[2] \in Slot
  BY ConstAssumption DEF Handles, PageIdx
<1>2. QED
  BY <1>1 DEF Resembles, Used, EntryOf

\* Retyping entries keeps the layout, the order and the chain, and a header that counts
\* the records that are left.
LEMMA ResembleWellFormed ==
    ASSUME NEW H, NEW I, NEW D, NEW E, NEW n \in Nat, WellFormed(H, D, n), Resembles(D, E, n),
           I.fsiz = H.fsiz, I.nbd = H.nbd, I.plst = H.plst, I.nxtn = H.nxtn, I.nbig = H.nbig,
           I.nrec = Cardinality(Live(E, n))
    PROVE  WellFormed(I, E, n)
<1>1. /\ Used(E, n) = Used(D, n)
      /\ \A h \in Used(D, n) : /\ EntryOf(E, h).addr = EntryOf(D, h).addr
                               /\ EntryOf(E, h).lng = EntryOf(D, h).lng
  BY ResembleUsed
<1>2. \A i \in 0 .. n - 1 : /\ E[i].addr = D[i].addr /\ E[i].nxt_addr = D[i].nxt_addr
                            /\ E[i].nent = D[i].nent
  BY DEF Resembles
<1>3. Linked(E, n)
  BY <1>2 DEF WellFormed, Linked
<1>4. Filled(E, n)
  BY <1>2 DEF WellFormed, Filled, Resembles
<1>5. Counted(I, E, n)
  BY <1>1, <1>2 DEF WellFormed, Counted
<1>6. LaidOut(E, n, I.fsiz)
  BY <1>1, <1>2 DEF WellFormed, LaidOut, Extent
<1>7. QED
  BY <1>2, <1>3, <1>4, <1>5, <1>6 DEF WellFormed

\* The directory E is D with a new page at the address a behind its n pages.
Grown(D, E, n, a) ==
    /\ \A i \in 0 .. n - 1 :
          /\ E[i].addr = D[i].addr /\ E[i].nent = D[i].nent /\ E[i].entry = D[i].entry
          /\ E[i].nxt_addr = IF i = n - 1 THEN a ELSE D[i].nxt_addr
    /\ E[n] = NewPage(a)

\* add_dir_page: a page behind the others, linked to the one that was last, extends the
\* directory.
LEMMA GrowWellFormed ==
    ASSUME NEW H \in Header, NEW I, NEW D \in [PageIdx -> Page], NEW n \in Nat \ {0}, NEW E,
           n < MAX_DIR_PAGES, WellFormed(H, D, n), D[n - 1].nent >= ENTRIES_PER_PAGE,
           Grown(D, E, n, H.fsiz + 1),
           I.fsiz = H.fsiz + 1, I.nbd = H.nbd + 1, I.plst = H.fsiz + 1, I.nrec = H.nrec,
           I.nxtn = H.nxtn, I.nbig = H.nbig
    PROVE  /\ WellFormed(I, E, n + 1)
           /\ Used(E, n + 1) = Used(D, n) /\ Live(E, n + 1) = Live(D, n)
           /\ \A h \in Used(D, n) : EntryOf(E, h) = EntryOf(D, h)
<1>1. H.fsiz \in Nat /\ n \in PageIdx /\ n - 1 \in PageIdx /\ ENTRIES_PER_PAGE \in Nat \ {0}
  <2>1. H.fsiz \in Nat
    BY FieldType
  <2>2. n \in PageIdx /\ n - 1 \in PageIdx
    BY ConstAssumption DEF PageIdx
  <2>3. ENTRIES_PER_PAGE \in Nat \ {0}
    BY ConstAssumption
  <2>4. QED
    BY <2>1, <2>2, <2>3
<1>2. \A i \in 0 .. n - 1 : i \in PageIdx /\ D[i] \in Page
  BY ConstAssumption DEF PageIdx
<1>3. \A i \in 0 .. n - 1 : /\ E[i].addr = D[i].addr /\ E[i].nent = D[i].nent
                            /\ E[i].entry = D[i].entry
                            /\ i # n - 1 => E[i].nxt_addr = D[i].nxt_addr
  BY DEF Grown
<1>4. E[n - 1].nxt_addr = H.fsiz + 1 /\ E[n] = NewPage(H.fsiz + 1)
  BY DEF Grown
<1>5. /\ E[n].addr = H.fsiz + 1 /\ E[n].nxt_addr = 0 /\ E[n].nent = 0
      /\ \A s \in Slot : E[n].entry[s].idtyp = SPECIAL
  BY <1>4 DEF NewPage, NoEntry
<1>6. \A h \in Handles : /\ h[1] \in Nat /\ h[2] \in Slot
                         /\ h[1] < n + 1 <=> h[1] \in 0 .. n - 1 \/ h[1] = n
                         /\ h[1] < n <=> h[1] \in 0 .. n - 1
  BY ConstAssumption DEF Handles, PageIdx
<1>15. ASSUME NEW h \in Handles
       PROVE  /\ h \in Used(E, n + 1) <=> h \in Used(D, n)
              /\ h \in Live(E, n + 1) <=> h \in Live(D, n)
              /\ h \in Used(D, n) => EntryOf(E, h) = EntryOf(D, h)
  <2>1. CASE h[1] \in 0 .. n - 1
    <3>1. EntryOf(E, h) = EntryOf(D, h)
      BY <1>3, <2>1 DEF EntryOf
    <3>2. h[1] < n + 1 /\ h[1] < n
      BY <1>6, <2>1
    <3>3. QED
      BY <3>1, <3>2 DEF Used, Live
  <2>2. CASE h[1] = n
    <3>1. EntryOf(E, h).idtyp = SPECIAL
      BY <1>5, <1>6, <2>2 DEF EntryOf
    <3>2. ~ (h[1] < n)
      BY <2>2
    <3>3. QED
      BY <3>1, <3>2 DEF Used, Live
  <2>3. CASE ~ (h[1] < n + 1)
    <3>1. ~ (h[1] < n)
      BY <1>6, <2>3
    <3>2. QED
      BY <2>3, <3>1 DEF Used, Live
  <2>4. QED
    BY <1>6, <2>1, <2>2, <2>3
<1>7. Used(E, n + 1) = Used(D, n) /\ Live(E, n + 1) = Live(D, n)
  BY <1>15 DEF Used, Live
<1>9. \A h \in Used(D, n) : EntryOf(E, h) = EntryOf(D, h)
  BY <1>15 DEF Used
<1>10. Linked(E, n + 1)
  BY <1>1, <1>2, <1>3, <1>4, <1>5 DEF WellFormed, Linked
<1>11. Filled(E, n + 1)
  <2>1. D[n - 1].nent = ENTRIES_PER_PAGE
    <3>1. D[n - 1].nent \in 0 .. ENTRIES_PER_PAGE
      BY <1>1, FieldType
    <3>2. QED
      BY <1>1, <3>1
  <2>2. ASSUME NEW i \in 0 .. n, NEW s \in Slot
        PROVE  (E[i].entry[s].idtyp # SPECIAL) <=> s < E[i].nent
    BY <1>3, <1>5 DEF WellFormed, Filled, Slot
  <2>3. \A i \in 0 .. n - 1 : E[i].nent = ENTRIES_PER_PAGE
    BY <1>3, <2>1 DEF WellFormed, Filled
  <2>4. QED
    BY <2>2, <2>3 DEF Filled
<1>12. Counted(I, E, n + 1)
  BY <1>5, <1>7, <1>9 DEF WellFormed, Counted
<1>13. LaidOut(E, n + 1, I.fsiz)
  <2>1. ASSUME NEW i \in 0 .. n
        PROVE  E[i].addr \in 2 .. H.fsiz + 1
    <3>1. D[0].addr \in 2 .. H.fsiz /\ \A k \in 0 .. n - 1 : D[k].addr \in 2 .. H.fsiz
      BY DEF WellFormed, LaidOut
    <3>2. CASE i = n
      BY <1>1, <1>5, <3>1, <3>2
    <3>3. CASE i # n
      BY <1>1, <1>3, <3>1, <3>3
    <3>4. QED
      BY <3>2, <3>3
  <2>2. \A i \in 0 .. n - 1 : E[i].addr \in Nat /\ E[i].addr < E[n].addr
    BY <1>1, <1>2, <1>3, <1>5, FieldType DEF WellFormed, LaidOut
  <2>3. ASSUME NEW i \in 0 .. n, NEW k \in 0 .. n, E[i].addr = E[k].addr
        PROVE  i = k
    <3>1. CASE i = n \/ k = n
      BY <2>2, <2>3, <3>1, <1>5
    <3>2. CASE i # n /\ k # n
      BY <1>3, <2>3, <3>2 DEF WellFormed, LaidOut
    <3>3. QED
      BY <3>1, <3>2
  <2>4. ASSUME NEW h \in Used(D, n)
        PROVE  LET e == EntryOf(E, h) IN
               /\ e.addr >= 2 /\ e.lng \in Lens /\ e.addr + e.lng - 1 <= H.fsiz + 1
               /\ \A i \in 0 .. n : E[i].addr \notin Extent(e)
               /\ \A g \in Used(D, n) :
                     g # h => \/ e.addr + e.lng <= EntryOf(E, g).addr
                              \/ EntryOf(E, g).addr + EntryOf(E, g).lng <= e.addr
    <3> DEFINE e == EntryOf(D, h)
    <3>1. e = EntryOf(E, h)
      BY <1>9
    <3>2. e.addr \in Nat /\ e.lng \in Nat
      <4>1. e \in Entry
        BY <1>1, <1>2, UsedHandle, FieldType DEF EntryOf
      <4>2. e.addr \in Nat
        BY <4>1 DEF Entry, NoEntry
      <4>3. e.lng \in Lens
        BY DEF WellFormed, LaidOut
      <4>4. QED
        BY <4>2, <4>3, ConstAssumption
    <3>3. /\ e.addr >= 2 /\ e.lng \in Lens /\ e.addr + e.lng - 1 <= H.fsiz
          /\ \A i \in 0 .. n - 1 : D[i].addr \notin Extent(e)
          /\ \A g \in Used(D, n) :
                g # h => \/ e.addr + e.lng <= EntryOf(D, g).addr
                         \/ EntryOf(D, g).addr + EntryOf(D, g).lng <= e.addr
      BY DEF WellFormed, LaidOut
    <3> HIDE DEF e
    <3>4. H.fsiz + 1 \notin Extent(e)
      BY <1>1, <3>2, <3>3 DEF Extent
    <3>5. \A i \in 0 .. n : E[i].addr \notin Extent(e)
      BY <1>3, <1>5, <3>3, <3>4
    <3>6. QED
      BY <1>1, <1>9, <3>1, <3>2, <3>3, <3>5
  <2>5. QED
    BY <1>7, <2>1, <2>3, <2>4 DEF LaidOut
<1>14. QED
  BY <1>1, <1>3, <1>7, <1>9, <1>10, <1>11, <1>12, <1>13 DEF WellFormed

\* The directory E of n pages and its header I are D and H with a record of len units, the
\* entry e in the first free slot of the last page.
Appended(H, D, I, E, n, len, e) ==
    /\ e.idtyp = LIVE /\ e.addr = H.fsiz + 1 /\ e.lng = len
    /\ \A i \in 0 .. n - 1 :
          /\ E[i].addr = D[i].addr /\ E[i].nxt_addr = D[i].nxt_addr
          /\ i # n - 1 => E[i].nent = D[i].nent /\ E[i].entry = D[i].entry
    /\ E[n - 1].nent = D[n - 1].nent + 1
    /\ \A s \in Slot : E[n - 1].entry[s] = IF s = D[n - 1].nent THEN e
                                            ELSE D[n - 1].entry[s]
    /\ I.fsiz = H.fsiz + len /\ I.nbd = H.nbd /\ I.plst = H.plst /\ I.nrec = H.nrec + 1
    /\ I.nxtn = H.nxtn + 1 /\ I.nbig = Larger(len, H.nbig)

\* There is room for the entry e in the last page, and it is added.
AppendReady(H, D, I, E, n, len, e) ==
    /\ H \in Header /\ D \in [PageIdx -> Page] /\ n \in Nat \ {0} /\ n <= MAX_DIR_PAGES
    /\ len \in Lens
    /\ WellFormed(H, D, n) /\ D[n - 1].nent < ENTRIES_PER_PAGE
    /\ Appended(H, D, I, E, n, len, e)

\* The directory and its header are well formed, with one record more.
AppendDone(D, I, E, n, e) ==
    LET g == <<n - 1, D[n - 1].nent>> IN
    /\ WellFormed(I, E, n)
    /\ g \in Handles /\ g \notin Used(D, n)
    /\ EntryOf(E, g) = e
    /\ Used(E, n) = Used(D, n) \cup {g}
    /\ Live(E, n) = Live(D, n) \cup {g}
    /\ \A h \in Used(D, n) : EntryOf(E, h) = EntryOf(D, h)

\* c_xdfput: a record behind the others, in the first free slot of the last page, extends
\* the directory.
LEMMA AddWellFormed ==
    ASSUME NEW H, NEW D, NEW I, NEW E, NEW n, NEW len, NEW e,
           AppendReady(H, D, I, E, n, len, e)
    PROVE  AppendDone(D, I, E, n, e)
<1>1. /\ H \in Header /\ D \in [PageIdx -> Page] /\ n \in Nat \ {0} /\ n <= MAX_DIR_PAGES
      /\ len \in Lens
      /\ WellFormed(H, D, n) /\ D[n - 1].nent < ENTRIES_PER_PAGE
      /\ Appended(H, D, I, E, n, len, e)
  BY Zenon DEF AppendReady
<1> DEFINE r == D[n - 1].nent
           g == <<n - 1, r>>
<1>2. /\ H.fsiz \in Nat /\ H.nbig \in Nat /\ n - 1 \in PageIdx /\ n - 1 \in 0 .. n - 1
      /\ D[n - 1] \in Page /\ len \in Nat /\ len > 0
  BY <1>1, FieldType, ConstAssumption DEF PageIdx
<1>3. r \in Slot /\ r \in Nat
  <2>1. r \in 0 .. ENTRIES_PER_PAGE
    BY <1>2, FieldType
  <2>2. QED
    BY <1>1, <2>1, ConstAssumption DEF Slot
<1>4. \A i \in 0 .. n - 1 : i \in PageIdx /\ D[i] \in Page
  BY <1>1, ConstAssumption DEF PageIdx
<1>5. /\ \A s \in Slot : (D[n - 1].entry[s].idtyp # SPECIAL) <=> s < r
      /\ D[n - 1].entry[r].idtyp = SPECIAL
  BY <1>1, <1>2, <1>3 DEF WellFormed, Filled
<1>6. /\ \A i \in 0 .. n - 1 :
            /\ E[i].addr = D[i].addr /\ E[i].nxt_addr = D[i].nxt_addr
            /\ i # n - 1 => E[i].nent = D[i].nent /\ E[i].entry = D[i].entry
      /\ E[n - 1].nent = r + 1
      /\ \A s \in Slot : E[n - 1].entry[s] = IF s = r THEN e ELSE D[n - 1].entry[s]
      /\ e.idtyp = LIVE /\ e.addr = H.fsiz + 1 /\ e.lng = len
      /\ I.fsiz = H.fsiz + len /\ I.nbd = H.nbd /\ I.plst = H.plst /\ I.nrec = H.nrec + 1
      /\ I.nxtn = H.nxtn + 1 /\ I.nbig = Larger(len, H.nbig)
  BY <1>1 DEF Appended
<1> HIDE DEF r
<1>7. ASSUME NEW h \in Handles
      PROVE  /\ h = g => h \notin Used(D, n) /\ h \in Live(E, n) /\ h \in Used(E, n)
                         /\ EntryOf(E, h) = e
             /\ h # g => /\ h \in Used(E, n) <=> h \in Used(D, n)
                         /\ h \in Live(E, n) <=> h \in Live(D, n)
                         /\ h[1] < n => EntryOf(E, h) = EntryOf(D, h)
  <2>1. h[1] \in Nat /\ h[2] \in Slot /\ h = <<h[1], h[2]>>
    BY ConstAssumption DEF Handles, PageIdx
  <2>2. CASE h[1] = n - 1 /\ h[2] = r
    <3>1. EntryOf(E, h) = e /\ EntryOf(D, h).idtyp = SPECIAL
      BY <1>3, <1>5, <1>6, <2>2 DEF EntryOf
    <3>2. h = g /\ h[1] < n
      BY <1>1, <2>1, <2>2
    <3>3. QED
      BY <1>6, <3>1, <3>2 DEF Used, Live
  <2>3. CASE h[1] < n /\ ~(h[1] = n - 1 /\ h[2] = r)
    <3>1. h[1] \in 0 .. n - 1
      BY <1>1, <2>1, <2>3
    <3>2. EntryOf(E, h) = EntryOf(D, h)
      BY <1>6, <2>1, <2>3, <3>1 DEF EntryOf
    <3>3. h # g
      BY <2>3
    <3>4. QED
      BY <2>3, <3>2, <3>3 DEF Used, Live
  <2>4. CASE ~(h[1] < n)
    <3>1. h # g
      BY <1>1, <2>1, <2>4
    <3>2. QED
      BY <2>4, <3>1 DEF Used, Live
  <2>5. QED
    BY <2>1, <2>2, <2>3, <2>4
<1>8. g \in Handles
  BY <1>2, <1>3 DEF Handles
<1>9. g \notin Used(D, n) /\ g \notin Live(D, n) /\ EntryOf(E, g) = e
  BY <1>7, <1>8 DEF Used, Live
<1>10. Used(E, n) = Used(D, n) \cup {g} /\ Live(E, n) = Live(D, n) \cup {g}
  BY <1>7, <1>8 DEF Used, Live
<1>11. \A h \in Used(D, n) : EntryOf(E, h) = EntryOf(D, h)
  BY <1>7, <1>9 DEF Used
<1> HIDE DEF g
<1>12. Linked(E, n)
  BY <1>1, <1>6 DEF WellFormed, Linked
<1>13. Filled(E, n)
  <2>1. ASSUME NEW i \in 0 .. n - 1, NEW s \in Slot
        PROVE  (E[i].entry[s].idtyp # SPECIAL) <=> s < E[i].nent
    <3>1. CASE i = n - 1
      <4>1. s \in Nat
        BY ConstAssumption DEF Slot
      <4>2. E[i].nent = r + 1 /\ E[i].entry[s] = IF s = r THEN e ELSE D[n - 1].entry[s]
        BY <1>6, <3>1
      <4>3. QED
        BY <1>6, <1>3, <1>5, <4>1, <4>2
    <3>2. CASE i # n - 1
      BY <1>1, <1>6, <3>2 DEF WellFormed, Filled
    <3>3. QED
      BY <3>1, <3>2
  <2>2. \A i \in 0 .. n - 2 : E[i].nent = ENTRIES_PER_PAGE
    BY <1>1, <1>6 DEF WellFormed, Filled
  <2>3. QED
    BY <2>1, <2>2 DEF Filled
<1>14. Counted(I, E, n)
  <2>1. /\ IsFiniteSet(Used(D, n)) /\ Cardinality(Used(D, n)) \in Nat
        /\ IsFiniteSet(Live(D, n)) /\ Cardinality(Live(D, n)) \in Nat
    BY HandlesFinite DEF Used, Live
  <2>2. /\ Cardinality(Used(E, n)) = Cardinality(Used(D, n)) + 1
        /\ Cardinality(Live(E, n)) = Cardinality(Live(D, n)) + 1
    <3>1. /\ Cardinality(Used(D, n) \cup {g}) = Cardinality(Used(D, n)) + 1
          /\ Cardinality(Live(D, n) \cup {g}) = Cardinality(Live(D, n)) + 1
      BY <1>9, <2>1, FS_AddElement, Zenon
    <3>2. QED
      BY <1>10, <3>1
  <2>3. I.plst = E[n - 1].addr
    BY <1>1, <1>2, <1>6 DEF WellFormed, Counted
  <2>4. \A h \in Used(D, n) : EntryOf(D, h).lng \in Nat /\ EntryOf(D, h).lng <= H.nbig
    BY <1>1, ConstAssumption DEF WellFormed, Counted, LaidOut
  <2>5. \A h \in Used(E, n) : EntryOf(E, h).lng <= I.nbig
    BY <1>6, <1>2, <1>9, <1>10, <1>11, <2>4 DEF Larger
  <2>6. \E h \in Used(E, n) : EntryOf(E, h).lng = I.nbig
    <3>1. CASE len >= H.nbig
      BY <1>6, <1>9, <1>10, <3>1 DEF Larger
    <3>2. CASE ~(len >= H.nbig)
      BY <1>1, <1>6, <1>2, <1>10, <1>11, <3>2 DEF Larger, WellFormed, Counted
    <3>4. QED
      BY <3>1, <3>2
  <2>7. QED
    BY <1>1, <1>6, <2>2, <2>3, <2>5, <2>6 DEF Counted, WellFormed
<1>15. LaidOut(E, n, I.fsiz)
  <2>1. \A i \in 0 .. n - 1 : E[i].addr \in 2 .. I.fsiz
    BY <1>1, <1>2, <1>6 DEF WellFormed, LaidOut
  <2>2. \A i, k \in 0 .. n - 1 : E[i].addr = E[k].addr => i = k
    BY <1>1, <1>6 DEF WellFormed, LaidOut
  <2>3. ASSUME NEW h \in Used(D, n)
        PROVE  LET f == EntryOf(D, h) IN
               /\ f.addr \in Nat /\ f.lng \in Nat
               /\ f.addr >= 2 /\ f.lng \in Lens /\ f.addr + f.lng - 1 <= H.fsiz
               /\ \A i \in 0 .. n - 1 : E[i].addr \notin Extent(f)
               /\ \A k \in Used(D, n) :
                     k # h => \/ f.addr + f.lng <= EntryOf(D, k).addr
                              \/ EntryOf(D, k).addr + EntryOf(D, k).lng <= f.addr
    <3>1. EntryOf(D, h) \in Entry
      BY <1>1, <1>4, UsedHandle, FieldType DEF EntryOf
    <3>2. EntryOf(D, h).addr \in Nat
      BY <3>1 DEF Entry, NoEntry
    <3>3. QED
      BY <1>1, <1>6, <3>2, ConstAssumption DEF WellFormed, LaidOut
  <2>4. /\ e.addr >= 2 /\ e.lng \in Lens /\ e.addr + e.lng - 1 <= I.fsiz
        /\ \A i \in 0 .. n - 1 : E[i].addr \notin Extent(e)
    <3>1. H.fsiz >= 2
      BY <1>1, <1>2 DEF WellFormed, LaidOut
    <3>2. \A i \in 0 .. n - 1 : E[i].addr \in 2 .. H.fsiz
      BY <1>1, <1>6 DEF WellFormed, LaidOut
    <3>3. QED
      BY <1>1, <1>6, <1>2, <3>1, <3>2 DEF Extent
  <2>5. ASSUME NEW h \in Used(D, n)
        PROVE  LET f == EntryOf(D, h) IN f.addr + f.lng <= e.addr /\ f.addr + f.lng - 1 <= I.fsiz
    BY <1>6, <1>2, <2>3
  <2>6. ASSUME NEW h \in Used(E, n)
        PROVE  LET f == EntryOf(E, h) IN
               /\ f.addr >= 2 /\ f.lng \in Lens /\ f.addr + f.lng - 1 <= I.fsiz
               /\ \A i \in 0 .. n - 1 : E[i].addr \notin Extent(f)
               /\ \A k \in Used(E, n) :
                     k # h => \/ f.addr + f.lng <= EntryOf(E, k).addr
                              \/ EntryOf(E, k).addr + EntryOf(E, k).lng <= f.addr
    <3>1. CASE h = g
      BY <1>9, <1>10, <1>11, <2>4, <2>5, <3>1
    <3>2. CASE h # g
      <4>1. h \in Used(D, n) /\ EntryOf(E, h) = EntryOf(D, h)
        BY <1>10, <1>11, <3>2
      <4>2. \A k \in Used(E, n) : k = g \/ (k \in Used(D, n) /\ EntryOf(E, k) = EntryOf(D, k))
        BY <1>10, <1>11
      <4>3. QED
        BY <1>9, <2>3, <2>5, <4>1, <4>2
    <3>3. QED
      BY <3>1, <3>2
  <2>7. QED
    BY <2>1, <2>2, <2>6 DEF LaidOut
<1>16. WellFormed(I, E, n)
  BY <1>1, <1>2, <1>12, <1>6, <1>13, <1>14, <1>15 DEF WellFormed
<1>17. QED
  BY <1>8, <1>9, <1>10, <1>11, <1>16 DEF AppendDone, g, r

\* The directory E is D with the entry r at h.
Replaced(D, E, h, r) ==
    /\ \A i \in PageIdx : i # h[1] => E[i] = D[i]
    /\ E[h[1]] = [D[h[1]] EXCEPT !.entry[h[2]] = r]

\* An entry that takes the place of another one of the same record.
LEMMA ReplacedEntry ==
    ASSUME NEW D \in [PageIdx -> Page], NEW E, NEW n \in Nat, n <= MAX_DIR_PAGES,
           NEW h \in Handles, h[1] < n, NEW r, Replaced(D, E, h, r),
           EntryOf(D, h).idtyp # SPECIAL, r.idtyp # SPECIAL,
           r.addr = EntryOf(D, h).addr, r.lng = EntryOf(D, h).lng
    PROVE  /\ Resembles(D, E, n)
           /\ Live(E, n) = (Live(D, n) \ {h}) \cup (IF r.idtyp = LIVE THEN {h} ELSE {})
<1>1. h[1] \in PageIdx /\ h[2] \in Slot /\ h = <<h[1], h[2]>> /\ D[h[1]] \in Page
  BY DEF Handles
<1>2. /\ E[h[1]].addr = D[h[1]].addr /\ E[h[1]].nxt_addr = D[h[1]].nxt_addr
      /\ E[h[1]].nent = D[h[1]].nent
      /\ \A s \in Slot : E[h[1]].entry[s] = IF s = h[2] THEN r ELSE D[h[1]].entry[s]
  BY <1>1 DEF Replaced, Page
<1>3. \A i \in 0 .. n - 1 : i \in PageIdx
  BY ConstAssumption DEF PageIdx
<1>4. Resembles(D, E, n)
  <2>1. ASSUME NEW i \in 0 .. n - 1
        PROVE  E[i].addr = D[i].addr /\ E[i].nxt_addr = D[i].nxt_addr /\ E[i].nent = D[i].nent
    BY <1>2, <1>3 DEF Replaced
  <2>2. ASSUME NEW i \in 0 .. n - 1, NEW s \in Slot
        PROVE  /\ E[i].entry[s].idtyp = SPECIAL <=> D[i].entry[s].idtyp = SPECIAL
               /\ E[i].entry[s].addr = D[i].entry[s].addr
               /\ E[i].entry[s].lng = D[i].entry[s].lng
    <3>1. CASE i # h[1]
      BY <1>3, <3>1 DEF Replaced
    <3>2. CASE i = h[1] /\ s # h[2]
      BY <1>2, <3>2
    <3>3. CASE i = h[1] /\ s = h[2]
      <4>1. E[i].entry[s] = r /\ D[i].entry[s] = EntryOf(D, h)
        BY <1>2, <3>3 DEF EntryOf
      <4>2. QED
        BY <4>1
    <3>4. QED
      BY <3>1, <3>2, <3>3
  <2>3. QED
    BY <2>1, <2>2 DEF Resembles
<1>5. ASSUME NEW g \in Handles
      PROVE  EntryOf(E, g) = IF g = h THEN r ELSE EntryOf(D, g)
  <2>1. g[1] \in PageIdx /\ g[2] \in Slot /\ g = <<g[1], g[2]>>
    BY DEF Handles
  <2>2. CASE g = h
    BY <1>1, <1>2, <2>2 DEF EntryOf
  <2>3. CASE g # h /\ g[1] = h[1]
    BY <1>1, <1>2, <2>1, <2>3 DEF EntryOf
  <2>4. CASE g # h /\ g[1] # h[1]
    BY <2>1, <2>4 DEF EntryOf, Replaced
  <2>5. QED
    BY <2>2, <2>3, <2>4
<1>6. Live(E, n) = (Live(D, n) \ {h}) \cup (IF r.idtyp = LIVE THEN {h} ELSE {})
  BY <1>5 DEF Live
<1>7. QED
  BY <1>4, <1>6

\* The entries of old, records of the directory D, are marked deleted in E.
Marked(D, E, old) ==
    \A i \in PageIdx :
        E[i] = [D[i] EXCEPT !.entry =
                  [s \in Slot |-> IF <<i, s>> \in old THEN [D[i].entry[s] EXCEPT !.idtyp = DELETED]
                                  ELSE D[i].entry[s]]]

\* Records marked deleted keep their place, and are counted out.
LEMMA MarkedWellFormed ==
    ASSUME NEW H, NEW I, NEW D \in [PageIdx -> Page], NEW E, NEW n \in Nat, n <= MAX_DIR_PAGES,
           NEW old \in SUBSET Live(D, n), WellFormed(H, D, n), Marked(D, E, old),
           I.fsiz = H.fsiz, I.nbd = H.nbd, I.plst = H.plst, I.nxtn = H.nxtn, I.nbig = H.nbig,
           I.nrec = H.nrec - Cardinality(old)
    PROVE  /\ WellFormed(I, E, n) /\ Resembles(D, E, n)
           /\ Live(E, n) = Live(D, n) \ old
           /\ \A h \in Handles :
                 EntryOf(E, h) = IF h \in old THEN [EntryOf(D, h) EXCEPT !.idtyp = DELETED]
                                 ELSE EntryOf(D, h)
<1>1. \A i \in 0 .. n - 1 : i \in PageIdx
  BY ConstAssumption DEF PageIdx
<1>2. ASSUME NEW i \in PageIdx
      PROVE  /\ E[i].addr = D[i].addr /\ E[i].nxt_addr = D[i].nxt_addr /\ E[i].nent = D[i].nent
             /\ \A s \in Slot :
                   /\ D[i].entry[s] \in Entry
                   /\ <<i, s>> \in old => E[i].entry[s] = [D[i].entry[s] EXCEPT !.idtyp = DELETED]
                   /\ <<i, s>> \notin old => E[i].entry[s] = D[i].entry[s]
  <2>1. D[i] \in Page
    OBVIOUS
  <2>2. PICK f : f = [s \in Slot |-> IF <<i, s>> \in old
                                     THEN [D[i].entry[s] EXCEPT !.idtyp = DELETED]
                                     ELSE D[i].entry[s]]
    OBVIOUS
  <2>3. E[i] = [D[i] EXCEPT !.entry = f]
    BY <2>2 DEF Marked
  <2>4. E[i].addr = D[i].addr /\ E[i].nxt_addr = D[i].nxt_addr /\ E[i].nent = D[i].nent
        /\ E[i].entry = f
    BY <2>1, <2>3 DEF Page
  <2>5. \A s \in Slot : D[i].entry[s] \in Entry
    BY <2>1, FieldType
  <2>6. QED
    BY <2>2, <2>4, <2>5
<1>3. ASSUME NEW i \in PageIdx, NEW s \in Slot, <<i, s>> \in old
      PROVE  /\ D[i].entry[s].idtyp = LIVE
             /\ E[i].entry[s].idtyp = DELETED /\ E[i].entry[s].addr = D[i].entry[s].addr
             /\ E[i].entry[s].lng = D[i].entry[s].lng
  <2>1. D[i].entry[s].idtyp = LIVE
    BY <1>3 DEF Live, EntryOf
  <2>2. E[i].entry[s] = [D[i].entry[s] EXCEPT !.idtyp = DELETED] /\ D[i].entry[s] \in Entry
    BY <1>2, <1>3
  <2>3. QED
    BY <2>1, <2>2 DEF Entry, NoEntry
<1>4. ASSUME NEW i \in PageIdx, NEW s \in Slot
      PROVE  /\ E[i].entry[s].idtyp = SPECIAL <=> D[i].entry[s].idtyp = SPECIAL
             /\ E[i].entry[s].addr = D[i].entry[s].addr
             /\ E[i].entry[s].lng = D[i].entry[s].lng
  <2>1. CASE <<i, s>> \in old
    BY <1>3, <2>1
  <2>2. CASE <<i, s>> \notin old
    BY <1>2, <2>2
  <2>3. QED
    BY <2>1, <2>2
<1>5. Resembles(D, E, n)
  BY <1>1, <1>2, <1>4 DEF Resembles
<1>6. ASSUME NEW h \in Handles
      PROVE  /\ h \in old => /\ EntryOf(E, h) = [EntryOf(D, h) EXCEPT !.idtyp = DELETED]
                             /\ EntryOf(E, h).idtyp = DELETED
             /\ h \notin old => EntryOf(E, h) = EntryOf(D, h)
  <2>1. h[1] \in PageIdx /\ h[2] \in Slot /\ h = <<h[1], h[2]>>
    BY DEF Handles
  <2>2. CASE h \in old
    <3>1. <<h[1], h[2]>> \in old
      BY <2>1, <2>2
    <3>2. QED
      BY <1>2, <1>3, <2>1, <2>2, <3>1 DEF EntryOf
  <2>3. CASE h \notin old
    <3>1. <<h[1], h[2]>> \notin old
      BY <2>1, <2>3
    <3>2. E[h[1]].entry[h[2]] = D[h[1]].entry[h[2]]
      BY <1>2, <2>1, <3>1
    <3>3. QED
      BY <2>3, <3>2 DEF EntryOf
  <2>4. QED
    BY <2>2, <2>3
<1>9. Live(E, n) = Live(D, n) \ old
  BY <1>6 DEF Live
<1>7. Cardinality(Live(E, n)) = H.nrec - Cardinality(old)
  <2>1. IsFiniteSet(Live(D, n))
    BY HandlesFinite DEF Live
  <2>2. Cardinality(Live(D, n) \ old) = Cardinality(Live(D, n)) - Cardinality(Live(D, n) \cap old)
    BY <2>1, FS_Difference
  <2>3. Live(D, n) \cap old = old
    OBVIOUS
  <2>4. H.nrec = Cardinality(Live(D, n))
    BY DEF WellFormed, Counted
  <2>5. QED
    BY <1>9, <2>2, <2>3, <2>4
<1>8. QED
  BY <1>5, <1>6, <1>7, <1>9, ResembleWellFormed

-----------------------------------------------------------------------------
(* WriterConsistent, OpenableIsConsistent and ReadersSeeRecords, one step of *)
(* XdfFile at a time.                                                        *)

\* Consistent looks at n pages, and not at the flag of the header.
LEMMA SamePages ==
    ASSUME NEW H, NEW I, NEW D, NEW E, NEW n \in Nat, Consistent(H, D, n),
           I.fsiz = H.fsiz, I.nbd = H.nbd, I.plst = H.plst, I.nrec = H.nrec,
           I.nxtn = H.nxtn, I.nbig = H.nbig,
           \A i \in 0 .. n - 1 : E[i] = D[i]
    PROVE  Consistent(I, E, n)
<1>1. \A h \in Handles : h[1] < n => h[1] \in 0 .. n - 1
  BY ConstAssumption DEF Handles, PageIdx
<1>2. \A h \in Handles : h[1] < n => EntryOf(E, h) = EntryOf(D, h)
  BY <1>1 DEF EntryOf
<1>3. /\ Used(E, n) = Used(D, n) /\ Live(E, n) = Live(D, n)
      /\ \A h \in Used(D, n) : EntryOf(E, h) = EntryOf(D, h)
  BY <1>2 DEF Used, Live
<1>4. Linked(E, n) /\ Filled(E, n)
  BY DEF Consistent, Linked, Filled
<1>5. Counted(I, E, n)
  BY <1>3 DEF Consistent, Counted
<1>6. LaidOut(E, n, I.fsiz)
  BY <1>3 DEF Consistent, LaidOut
<1>7. QED
  BY <1>3, <1>4, <1>5, <1>6 DEF Consistent

\* The directory in core after a step.
LEMMA SplitNext ==
    ASSUME NEW p \in Procs
    PROVE  Consistent(hdr[p], dir_page[p], npages[p])' <=>
             /\ WellFormed(hdr'[p], dir_page'[p], npages'[p])
             /\ \A h \in Used(dir_page'[p], npages'[p]) :
                  LET e == EntryOf(dir_page'[p], h) IN
                  \A a \in Extent(e) : /\ a \in Addr /\ dcell'[a] \in RecUnit
                                       /\ dcell'[a].addr = e.addr /\ dcell'[a].lng = e.lng
BY DEF Consistent, WellFormed, OnDisk

\* The units of a record stay those of a record of the same place and length.
SameUnit(a) ==
    \/ dcell'[a] = dcell[a]
    \/ /\ dcell[a] \in RecUnit /\ dcell'[a] \in RecUnit
       /\ dcell'[a].addr = dcell[a].addr /\ dcell'[a].lng = dcell[a].lng

\* A whole directory on disk stays whole when no page of it and no place of a record
\* below the announced size changes.
LEMMA ChainKept ==
    ASSUME TypeOK, SelfAddressed, NEW c \in [0 .. dhdr.nbd - 1 -> DiskPages], WholeChain(c),
           dhdr' = dhdr,
           \A a \in Addr : a <= dhdr.fsiz => SameUnit(a)
    PROVE  /\ c \in [0 .. dhdr'.nbd - 1 -> DiskPages'] /\ WholeChain(c)'
           /\ \A i \in 0 .. dhdr.nbd - 1 : dcell'[c[i]] = dcell[c[i]]
<1>1. PICK n : n = dhdr.nbd
  OBVIOUS
<1>2. PICK D : D = DiskDir(c)
  OBVIOUS
<1>3. /\ dhdr.fsiz \in Nat /\ n \in Nat /\ DOMAIN c = 0 .. n - 1
      /\ D = [i \in 0 .. n - 1 |-> dcell[c[i]]] /\ Consistent(dhdr, D, n)
      /\ \A i \in 0 .. n - 1 : D[i] = dcell[c[i]]
  BY <1>1, <1>2, FieldType DEF TypeOK, DiskDir, WholeChain
<1>4. ASSUME NEW i \in 0 .. n - 1
      PROVE  c[i] \in Addr /\ dcell[c[i]] \in Page /\ dcell'[c[i]] = dcell[c[i]]
  <2>1. c[i] \in Addr /\ dcell[c[i]] \in Page
    BY <1>1 DEF DiskPages
  <2>2. D[i].addr <= dhdr.fsiz /\ D[i] = dcell[c[i]]
    BY <1>3 DEF Consistent, LaidOut
  <2>3. dcell[c[i]].addr = c[i]
    BY <2>1 DEF SelfAddressed
  <2>4. SameUnit(c[i]) /\ dcell[c[i]] \notin RecUnit
    BY <2>1, <2>2, <2>3, RecordIsNotPage
  <2>5. QED
    BY <2>1, <2>4 DEF SameUnit
<1>5. DiskDir(c)' = D
  BY <1>3, <1>4 DEF DiskDir
<1>6. c \in [0 .. n - 1 -> DiskPages']
  BY <1>1, <1>4 DEF DiskPages
<1>7. ASSUME NEW h \in Used(D, n), NEW a \in Extent(EntryOf(D, h))
      PROVE  /\ a \in Addr /\ dcell'[a] \in RecUnit
             /\ dcell'[a].addr = EntryOf(D, h).addr /\ dcell'[a].lng = EntryOf(D, h).lng
  <2> DEFINE e == EntryOf(D, h)
  <2>1. /\ a \in Addr /\ dcell[a] \in RecUnit
        /\ dcell[a].addr = e.addr /\ dcell[a].lng = e.lng
    BY <1>3 DEF Consistent, OnDisk
  <2>2. e.addr + e.lng - 1 <= dhdr.fsiz /\ a \in e.addr .. e.addr + e.lng - 1
    BY <1>3 DEF Consistent, LaidOut, Extent
  <2>3. e.addr \in Nat /\ e.lng \in Nat /\ a \in Nat
    <3>1. dcell[a].addr \in Nat /\ dcell[a].lng \in Nat
      BY <2>1 DEF RecUnit
    <3>2. QED
      BY <2>1, <3>1, ConstAssumption DEF Addr
  <2> HIDE DEF e
  <2>4. a <= dhdr.fsiz
    BY <1>3, <2>2, <2>3
  <2>5. QED
    BY <2>1, <2>4 DEF SameUnit, e
<1>8. Consistent(dhdr, D, n)'
  BY <1>3, <1>7 DEF Consistent, OnDisk
<1>9. QED
  BY <1>1, <1>3, <1>4, <1>5, <1>6, <1>8 DEF WholeChain

\* A step of p leaves the other entries of the file tables alone.
OnlyEntry(p) ==
    \A q \in Procs \ {p} :
        /\ pc'[q] = pc[q] /\ hdr'[q] = hdr[q] /\ dir_page'[q] = dir_page[q]
        /\ npages'[q] = npages[q] /\ pmod'[q] = pmod[q] /\ fmod'[q] = fmod[q]
        /\ wdaddr'[q] = wdaddr[q] /\ fsize'[q] = fsize[q]

\* What only depends on the disk stays with it.
LEMMA DiskSteady ==
    ASSUME TypeOK, SelfAddressed, UNCHANGED disk
    PROVE  /\ SelfAddressed'
           /\ OpenableIsConsistent => OpenableIsConsistent'
           /\ \A c \in [0 .. dhdr.nbd - 1 -> DiskPages] :
                 WholeChain(c) => c \in [0 .. dhdr'.nbd - 1 -> DiskPages'] /\ WholeChain(c)'
<1>1. dhdr' = dhdr /\ dcell' = dcell /\ dsize' = dsize
  BY DEF disk
<1>2. \A a \in Addr : SameUnit(a)
  BY <1>1 DEF SameUnit
<1>3. \A c \in [0 .. dhdr.nbd - 1 -> DiskPages] :
         WholeChain(c) => c \in [0 .. dhdr'.nbd - 1 -> DiskPages'] /\ WholeChain(c)'
  BY <1>1, <1>2, ChainKept
<1>4. SelfAddressed'
  BY <1>1 DEF SelfAddressed
<1>5. ASSUME OpenableIsConsistent, dhdr.rwflg = RDMODE, dhdr.nbd > 0
      PROVE  \E c \in [0 .. dhdr'.nbd - 1 -> DiskPages'] : WholeChain(c)'
  <2>1. PICK c \in [0 .. dhdr.nbd - 1 -> DiskPages] : WholeChain(c)
    BY <1>5 DEF OpenableIsConsistent, WholeChain
  <2>2. QED
    BY <1>3, <2>1
<1>6. OpenableIsConsistent => OpenableIsConsistent'
  BY <1>1, <1>5 DEF OpenableIsConsistent, WholeChain
<1>7. QED
  BY <1>3, <1>4, <1>6

\* The entry q of a file table, and the disk if q is the writer's, stay as they are.
Undisturbed(q) ==
    /\ pc'[q] = pc[q] /\ hdr'[q] = hdr[q] /\ dir_page'[q] = dir_page[q]
    /\ npages'[q] = npages[q] /\ pmod'[q] = pmod[q] /\ fmod'[q] = fmod[q]
    /\ wdaddr'[q] = wdaddr[q] /\ fsize'[q] = fsize[q]
    /\ q \in Writers => UNCHANGED disk

\* A session that nothing disturbs keeps its part of the invariant.
LEMMA EntryKept ==
    ASSUME TypeOK, OneWriterInv, NEW q \in Procs, Undisturbed(q)
    PROVE  /\ Writing(q)' => SessionInv(q)'
           /\ pc'[q] = "loading" /\ CanWrite(q)' => LoadingInv(q)'
<1>1. /\ pc'[q] = pc[q] /\ hdr'[q] = hdr[q] /\ dir_page'[q] = dir_page[q]
      /\ npages'[q] = npages[q] /\ pmod'[q] = pmod[q] /\ fmod'[q] = fmod[q]
      /\ wdaddr'[q] = wdaddr[q] /\ fsize'[q] = fsize[q]
  BY DEF Undisturbed
<1>2. CanWrite(q)' => CanWrite(q) /\ q \in Writers
  BY <1>1 DEF CanWrite
<1>3. Writing(q)' => Writing(q)
  BY <1>1, <1>2 DEF Writing
<1>4. q \in Writers => UNCHANGED disk
  BY DEF Undisturbed
<1>5. UNCHANGED disk => dhdr' = dhdr /\ dcell' = dcell /\ dsize' = dsize
  BY DEF disk
<1>6. ASSUME Writing(q)'
      PROVE  SessionInv(q)'
  <2>1. SessionInv(q) /\ q \in Writers
    BY <1>2, <1>3, <1>6 DEF OneWriterInv, Writing
  <2>2. dhdr' = dhdr /\ dcell' = dcell
    BY <1>4, <1>5, <2>1
  <2>3. Consistent(hdr[q], dir_page[q], npages[q])'
    BY <1>1, <2>1, <2>2, SplitNext, SplitConsistent DEF SessionInv, OnDisk
  <2>4. Imaged(q)'
    BY <1>1, <2>1, <2>2 DEF SessionInv, Imaged
  <2>5. QED
    BY <1>1, <2>1, <2>2, <2>3, <2>4 DEF SessionInv
<1>7. ASSUME pc'[q] = "loading", CanWrite(q)'
      PROVE  LoadingInv(q)'
  <2>1. LoadingInv(q) /\ q \in Writers
    BY <1>1, <1>2, <1>7 DEF OneWriterInv
  <2>2. dhdr' = dhdr /\ dcell' = dcell /\ UNCHANGED disk
    BY <1>4, <1>5, <2>1
  <2>3. PICK c \in [0 .. dhdr.nbd - 1 -> DiskPages] :
           /\ WholeChain(c)
           /\ \A i \in 0 .. npages[q] - 1 : dir_page[q][i] = dcell[c[i]]
           /\ wdaddr[q] = 2 * c[npages[q]] - 1
    BY <2>1 DEF LoadingInv
  <2>4. c \in [0 .. dhdr'.nbd - 1 -> DiskPages'] /\ WholeChain(c)'
    BY <2>2, <2>3, DiskSteady DEF OneWriterInv
  <2>5. /\ \A i \in 0 .. npages'[q] - 1 : dir_page'[q][i] = dcell'[c[i]]
        /\ wdaddr'[q] = 2 * c[npages'[q]] - 1
    BY <1>1, <2>2, <2>3
  <2>6. QED
    BY <1>1, <2>1, <2>2, <2>4, <2>5 DEF LoadingInv
<1>8. QED
  BY <1>6, <1>7

\* A session is not disturbed by a process that is not the writer.
LEMMA OthersKept ==
    ASSUME TypeOK, OneWriterOnly, OneWriterInv, NEW p \in Procs, OnlyEntry(p),
           UNCHANGED disk \/ p \in Writers, NEW q \in Procs \ {p}
    PROVE  /\ Writing(q)' => SessionInv(q)'
           /\ pc'[q] = "loading" /\ CanWrite(q)' => LoadingInv(q)'
BY EntryKept DEF Undisturbed, OnlyEntry, OneWriterOnly

\* What a step of p has to show.
LEMMA Assembled ==
    ASSUME TypeOK, TypeOK', OneWriterOnly, OneWriterInv, NEW p \in Procs, OnlyEntry(p),
           UNCHANGED disk \/ p \in Writers,
           SelfAddressed', OpenableIsConsistent',
           dhdr'.fsiz <= dsize', dhdr'.fsiz = 0 => dsize' = 0, dsize' >= dsize,
           hdr'[p].fsiz <= dsize',
           fmod'[p] => Writing(p)', pc'[p] = "closed" => npages'[p] = 0,
           Writing(p)' => SessionInv(p)',
           pc'[p] = "loading" /\ CanWrite(p)' => LoadingInv(p)'
    PROVE  OneWriterInv'
<1>1. \A q \in Procs : /\ Writing(q)' => SessionInv(q)'
                       /\ pc'[q] = "loading" /\ CanWrite(q)' => LoadingInv(q)'
  BY OthersKept
<1>2. SizesKnown'
  <2>1. \A q \in Procs : hdr'[q].fsiz \in Nat /\ hdr[q].fsiz \in Nat
    BY FieldType DEF TypeOK
  <2>2. dsize \in Nat /\ dsize' \in Nat
    BY DEF TypeOK
  <2>3. \A q \in Procs \ {p} : hdr'[q].fsiz <= dsize'
    BY <2>1, <2>2 DEF OnlyEntry, OneWriterInv, SizesKnown
  <2>4. QED
    BY <2>3 DEF SizesKnown
<1>3. EntriesClean'
  <2>1. ASSUME NEW q \in Procs \ {p}
        PROVE  (fmod'[q] => Writing(q)') /\ (pc'[q] = "closed" => npages'[q] = 0)
    BY <2>1 DEF OnlyEntry, OneWriterInv, EntriesClean, Writing, CanWrite
  <2>2. QED
    BY <2>1 DEF EntriesClean
<1>4. QED
  BY <1>1, <1>2, <1>3 DEF OneWriterInv

\* The same when nothing is written.
LEMMA AssembledInCore ==
    ASSUME TypeOK, TypeOK', OneWriterOnly, OneWriterInv, NEW p \in Procs, OnlyEntry(p),
           UNCHANGED disk, hdr'[p].fsiz <= dsize,
           fmod'[p] => Writing(p)', pc'[p] = "closed" => npages'[p] = 0,
           Writing(p)' => SessionInv(p)',
           pc'[p] = "loading" /\ CanWrite(p)' => LoadingInv(p)'
    PROVE  OneWriterInv'
<1>1. dhdr' = dhdr /\ dsize' = dsize /\ dsize \in Nat
  BY DEF disk, TypeOK
<1>2. SelfAddressed' /\ OpenableIsConsistent'
  BY DiskSteady DEF OneWriterInv
<1>3. dhdr'.fsiz <= dsize' /\ (dhdr'.fsiz = 0 => dsize' = 0) /\ dsize' >= dsize
  BY <1>1 DEF OneWriterInv, SizesKnown
<1>4. QED
  BY <1>1, <1>2, <1>3, Assembled

\* Consistent does not depend on the rest of the state.
LEMMA ConsistentSteady ==
    ASSUME NEW H, NEW D, NEW n, dcell' = dcell
    PROVE  Consistent(H, D, n)' <=> Consistent(H, D, n)
BY DEF Consistent, OnDisk

\* A session whose directory and disk a step leaves alone.
LEMMA SessionSteady ==
    ASSUME NEW p \in Procs, SessionInv(p), dcell' = dcell, hdr'[p] = hdr[p],
           dir_page'[p] = dir_page[p], npages'[p] = npages[p],
           pmod[p] \subseteq pmod'[p], fmod[p] => fmod'[p]
    PROVE  /\ Consistent(hdr[p], dir_page[p], npages[p])'
           /\ Imaged(p)'
<1>1. Consistent(hdr[p], dir_page[p], npages[p])'
  BY SplitNext, SplitConsistent DEF SessionInv, OnDisk
<1>2. Imaged(p)'
  BY DEF SessionInv, Imaged
<1>3. QED
  BY <1>1, <1>2

\* Where a writer's directory lies.
LEMMA SessionFacts ==
    ASSUME TypeOK, NEW p \in Procs, SessionInv(p)
    PROVE  /\ npages[p] \in Nat /\ npages[p] > 0 /\ hdr[p].nbd = npages[p]
           /\ hdr[p].fsiz \in 2 .. MaxAddr
           /\ \A i \in 0 .. npages[p] - 1 :
                 /\ i \in PageIdx /\ dir_page[p][i] \in Page
                 /\ dir_page[p][i].addr \in Addr /\ dir_page[p][i].addr \in 2 .. hdr[p].fsiz
<1>1. npages[p] \in 0 .. MAX_DIR_PAGES /\ dir_page[p] \in [PageIdx -> Page]
      /\ hdr[p].fsiz \in 0 .. MaxAddr
  BY ProcType, FieldType
<1>2. npages[p] > 0 /\ hdr[p].nbd = npages[p] /\ dir_page[p][0].addr = 2
      /\ \A i \in 0 .. npages[p] - 1 : dir_page[p][i].addr \in 2 .. hdr[p].fsiz
  BY DEF SessionInv, Consistent, Counted, LaidOut
<1>3. hdr[p].fsiz >= 2
  <2>1. 0 \in 0 .. npages[p] - 1
    BY <1>1, <1>2, ConstAssumption
  <2>2. QED
    BY <1>1, <1>2, <2>1, ConstAssumption
<1>4. \A i \in 0 .. npages[p] - 1 : i \in PageIdx /\ dir_page[p][i] \in Page
  BY <1>1, ConstAssumption DEF PageIdx
<1>5. \A i \in 0 .. npages[p] - 1 : dir_page[p][i].addr \in Addr
  BY <1>1, <1>2, ConstAssumption DEF Addr
<1>6. QED
  BY <1>1, <1>2, <1>3, <1>4, <1>5, ConstAssumption

\* c_xdfopn: the session starts with a file no session has left open.
LEMMA OpenStep ==
    ASSUME TypeOK, TypeOK', OneWriterOnly, OneWriterInv, NEW p \in Procs,
           NEW mode \in {RDMODE, RWMODE, APPEND}, Open(p, mode)
    PROVE  OneWriterInv'
<1> DEFINE stillOpen == mode # RDMODE /\ dhdr.rwflg # RDMODE
           flag == IF stillOpen THEN dhdr.rwflg ELSE mode
<1>1. /\ pc[p] = "closed"
      /\ hdr'[p] = [dhdr EXCEPT !.rwflg = flag]
      /\ pc'[p] = IF stillOpen \/ dhdr.nbd = 0 THEN "refused" ELSE "loading"
      /\ wdaddr'[p] = 3 /\ fsize'[p] = dsize
      /\ npages'[p] = npages[p] /\ fmod'[p] = fmod[p]
      /\ dhdr' = dhdr /\ dcell' = dcell /\ dsize' = dsize
  BY DEF Open, TypeOK, disk
<1>2. OnlyEntry(p) /\ UNCHANGED disk
  BY DEF Open, OnlyEntry, TypeOK
<1>3. npages[p] = 0 /\ ~fmod[p] /\ pc'[p] # "closed" /\ ~Writing(p)'
  BY <1>1 DEF OneWriterInv, EntriesClean, Writing
<1>4. hdr'[p].fsiz = dhdr.fsiz /\ hdr'[p].rwflg = flag
  <2>1. dhdr \in Header
    BY DEF TypeOK
  <2>2. QED
    BY <1>1, <2>1 DEF Header
<1>5. ASSUME pc'[p] = "loading", CanWrite(p)'
      PROVE  LoadingInv(p)'
  <2>1. dhdr.rwflg = RDMODE /\ dhdr.nbd # 0 /\ flag = mode
    BY <1>1, <1>4, <1>5 DEF CanWrite
  <2>2. dhdr.nbd \in Nat /\ dhdr.nbd > 0
    BY <2>1, FieldType DEF TypeOK
  <2>3. PICK c \in [0 .. dhdr.nbd - 1 -> DiskPages] : WholeChain(c)
    BY <2>1, <2>2 DEF OneWriterInv, OpenableIsConsistent, WholeChain
  <2>4. c \in [0 .. dhdr'.nbd - 1 -> DiskPages'] /\ WholeChain(c)'
    BY <1>2, <2>3, DiskSteady DEF OneWriterInv
  <2>5. c[0] = 2
    <3>1. 0 \in 0 .. dhdr.nbd - 1
      BY <2>2
    <3>2. DiskDir(c)[0] = dcell[c[0]] /\ c[0] \in Addr /\ dcell[c[0]] \in Page
      BY <3>1 DEF DiskDir, DiskPages
    <3>3. dcell[c[0]].addr = 2
      BY <2>3, <3>2 DEF WholeChain, Consistent
    <3>4. QED
      BY <3>2, <3>3 DEF OneWriterInv, SelfAddressed
  <2>6. /\ \A i \in 0 .. npages'[p] - 1 : dir_page'[p][i] = dcell'[c[i]]
        /\ wdaddr'[p] = 2 * c[npages'[p]] - 1
    BY <1>1, <1>3, <2>5
  <2>7. dhdr'.rwflg = RDMODE /\ dhdr'.fsiz <= fsize'[p] /\ npages'[p] < dhdr'.nbd
    BY <1>1, <1>3, <2>1, <2>2 DEF OneWriterInv, SizesKnown
  <2>8. hdr'[p] = [dhdr' EXCEPT !.rwflg = hdr'[p].rwflg]
    BY <1>1, <1>4
  <2>9. QED
    BY <2>4, <2>6, <2>7, <2>8 DEF LoadingInv
<1>6. QED
  BY <1>1, <1>2, <1>3, <1>4, <1>5, AssembledInCore DEF OneWriterInv, SizesKnown

\* The directory p has read is the whole chain of pages.
Loaded(p) ==
    /\ dhdr.rwflg = RDMODE /\ npages'[p] = dhdr.nbd
    /\ \E c \in [0 .. dhdr.nbd - 1 -> DiskPages] :
          WholeChain(c) /\ \A i \in 0 .. dhdr.nbd - 1 : dir_page'[p][i] = dcell[c[i]]

\* c_xdfopn: every page it reads is the next of the chain, and the last one completes a
\* consistent directory.
LEMMA LoadPageFacts ==
    ASSUME TypeOK, TypeOK', OneWriterOnly, OneWriterInv, NEW p \in Procs, LoadPage(p),
           CanWrite(p)'
    PROVE  /\ Writing(p)' => SessionInv(p)' /\ Loaded(p)
           /\ pc'[p] = "loading" => LoadingInv(p)'
<1> DEFINE i == npages[p]
           page == PageRead(wdaddr[p], fsize[p], NewPage(hdr[p].fsiz + 1))
           next == 2 * page.nxt_addr - 1
           bad == \/ next = 0 /\ i # hdr[p].nbd - 1
                  \/ next > 2 * fsize[p]
<1>1. /\ pc[p] = "loading" /\ i < MAX_DIR_PAGES
      /\ dir_page'[p] = [dir_page[p] EXCEPT ![i] = page]
      /\ npages'[p] = i + 1 /\ wdaddr'[p] = next /\ hdr'[p] = hdr[p]
      /\ pc'[p] = IF bad THEN "refused" ELSE IF i + 1 = hdr[p].nbd THEN "open" ELSE "loading"
      /\ pmod'[p] = pmod[p] /\ fmod'[p] = fmod[p] /\ fsize'[p] = fsize[p]
      /\ dhdr' = dhdr /\ dcell' = dcell /\ dsize' = dsize
  <2> HIDE DEF page, next
  <2>1. /\ pc[p] = "loading" /\ i < MAX_DIR_PAGES
        /\ dir_page' = [dir_page EXCEPT ![p][i] = page]
        /\ npages' = [npages EXCEPT ![p] = i + 1]
        /\ wdaddr' = [wdaddr EXCEPT ![p] = next]
        /\ pc' = [pc EXCEPT ![p] = IF bad THEN "refused"
                                   ELSE IF i + 1 = hdr[p].nbd THEN "open"
                                   ELSE "loading"]
        /\ UNCHANGED <<disk, hdr, pmod, fmod, fsize, ckpt>>
    BY DEF LoadPage, page, next
  <2>2. QED
    BY <2>1 DEF TypeOK, disk
<1>2. OnlyEntry(p) /\ UNCHANGED disk
  BY ZenonT(60) DEF LoadPage, OnlyEntry, TypeOK
<1>3. LoadingInv(p) /\ CanWrite(p)
  BY <1>1 DEF OneWriterInv, CanWrite
<1>4. PICK c \in [0 .. dhdr.nbd - 1 -> DiskPages] :
         /\ WholeChain(c)
         /\ \A j \in 0 .. i - 1 : dir_page[p][j] = dcell[c[j]]
         /\ wdaddr[p] = 2 * c[i] - 1
  BY <1>3 DEF LoadingInv
<1>5. PICK n : n = dhdr.nbd
  OBVIOUS
<1>6. PICK D : D = DiskDir(c)
  OBVIOUS
<1>7. /\ n \in Nat /\ i \in Nat /\ i < n /\ hdr[p].nbd = n /\ DOMAIN c = 0 .. n - 1
      /\ i \in 0 .. n - 1 /\ dhdr.fsiz \in Nat /\ fsize[p] \in Nat /\ dhdr.fsiz <= fsize[p]
      /\ hdr[p].fsiz = dhdr.fsiz
  <2>1. dhdr \in Header
    BY DEF TypeOK
  <2>2. n \in Nat /\ i \in Nat /\ dhdr.fsiz \in Nat /\ fsize[p] \in Nat
    BY <1>5, <2>1, ProcType, FieldType
  <2>3. i < n /\ dhdr.fsiz <= fsize[p] /\ hdr[p] = [dhdr EXCEPT !.rwflg = hdr[p].rwflg]
    BY <1>3, <1>5 DEF LoadingInv
  <2>4. hdr[p].nbd = n /\ hdr[p].fsiz = dhdr.fsiz
    BY <1>5, <2>1, <2>3 DEF Header
  <2>5. QED
    BY <1>5, <2>2, <2>3, <2>4
<1>8. \A j \in 0 .. n - 1 : /\ D[j] = dcell[c[j]] /\ c[j] \in Addr /\ dcell[c[j]] \in Page
                            /\ dcell[c[j]].addr = c[j] /\ D[j].addr \in 2 .. dhdr.fsiz
  <2>1. \A j \in 0 .. n - 1 : D[j] = dcell[c[j]] /\ c[j] \in Addr /\ dcell[c[j]] \in Page
    BY <1>5, <1>6, <1>7 DEF DiskDir, DiskPages
  <2>2. Consistent(dhdr, D, n)
    BY <1>4, <1>5, <1>6 DEF WholeChain
  <2>3. QED
    BY <2>1, <2>2 DEF Consistent, LaidOut, OneWriterInv, SelfAddressed
<1>9. page = dcell[c[i]]
  <2>1. c[i] \in Nat /\ (wdaddr[p] + 1) \div 2 = c[i]
    <3>1. c[i] \in Nat
      BY <1>7, <1>8, ConstAssumption DEF Addr
    <3>2. wdaddr[p] + 1 = 2 * c[i]
      BY <1>4, <3>1
    <3>3. QED
      BY <3>1, <3>2
  <2>2. c[i] <= fsize[p]
    <3>1. D[i].addr = c[i] /\ D[i].addr \in 2 .. dhdr.fsiz
      BY <1>7, <1>8
    <3>2. c[i] <= dhdr.fsiz
      BY <1>7, <2>1, <3>1
    <3>3. QED
      BY <1>7, <2>1, <3>2
  <2>3. QED
    BY <1>7, <1>8, <2>1, <2>2 DEF PageRead
<1>10. page \in Page /\ page = D[i]
  BY <1>7, <1>8, <1>9
<1> HIDE DEF page
<1>11. \A j \in 0 .. i : dir_page'[p][j] = dcell[c[j]]
  <2>1. i \in PageIdx
    BY <1>1, <1>7, ConstAssumption DEF PageIdx
  <2>2. dir_page[p] \in [PageIdx -> Page]
    BY ProcType
  <2>3. ASSUME NEW j \in 0 .. i PROVE dir_page'[p][j] = dcell[c[j]]
    <3>1. CASE j = i
      BY <1>1, <1>9, <2>1, <2>2, <3>1
    <3>2. CASE j # i
      <4>1. j \in 0 .. i - 1 /\ j \in PageIdx
        BY <1>7, <2>1, <3>2, ConstAssumption DEF PageIdx
      <4>2. QED
        BY <1>1, <1>4, <2>2, <3>2, <4>1
    <3>3. QED
      BY <3>1, <3>2
  <2>4. QED
    BY <2>3
<1>12. Consistent(dhdr, D, n)
  BY <1>4, <1>5, <1>6 DEF WholeChain
<1>13. page.nxt_addr = IF i = n - 1 THEN 0 ELSE c[i + 1]
  <2>1. page.nxt_addr = IF i = n - 1 THEN 0 ELSE D[i + 1].addr
    BY <1>7, <1>10, <1>12 DEF Consistent, Linked
  <2>2. i # n - 1 => i + 1 \in 0 .. n - 1
    BY <1>7
  <2>3. QED
    BY <1>8, <2>1, <2>2
<1>14. ~bad
  <2>1. page.nxt_addr \in Nat
    BY <1>10, FieldType
  <2>2. page.nxt_addr <= fsize[p]
    <3>1. CASE i = n - 1
      <4>1. page.nxt_addr = 0
        BY <1>13, <3>1
      <4> HIDE DEF page
      <4>2. QED
        BY <1>7, <4>1
    <3>2. CASE i # n - 1
      <4>1. c[i + 1] \in 2 .. dhdr.fsiz
        <5>1. i + 1 \in 0 .. n - 1
          BY <1>7, <3>2
        <5>2. QED
          BY <1>8, <5>1
      <4>2. page.nxt_addr = c[i + 1]
        BY <1>13, <3>2
      <4> HIDE DEF page
      <4>3. QED
        BY <1>7, <4>1, <4>2
    <3>3. QED
      BY <3>1, <3>2
  <2>3. next # 0 /\ next <= 2 * fsize[p]
    BY <1>7, <2>1, <2>2
  <2>4. QED
    BY <1>7, <2>1, <2>3
<1> HIDE DEF bad
<1>15. ASSUME i + 1 = n
       PROVE  SessionInv(p)' /\ pc'[p] = "open"
  <2>1. pc'[p] = "open"
    BY <1>1, <1>7, <1>14, <1>15
  <2>2. PICK E : E = dir_page'[p]
    OBVIOUS
  <2>3. \A j \in 0 .. n - 1 : E[j] = D[j]
    BY <1>7, <1>8, <1>11, <1>15, <2>2
  <2>4. PICK H : H = hdr[p]
    OBVIOUS
  <2>5. /\ H.fsiz = dhdr.fsiz /\ H.nbd = dhdr.nbd /\ H.plst = dhdr.plst
        /\ H.nrec = dhdr.nrec /\ H.nxtn = dhdr.nxtn /\ H.nbig = dhdr.nbig
    <3>1. H = [dhdr EXCEPT !.rwflg = hdr[p].rwflg] /\ dhdr \in Header
      BY <1>3, <2>4 DEF LoadingInv, TypeOK
    <3>2. QED
      BY <3>1 DEF Header
  <2>6. Consistent(H, E, n)
    BY <1>7, <1>12, <2>3, <2>5, SamePages
  <2>7. hdr'[p] = H /\ dir_page'[p] = E /\ npages'[p] = n /\ dcell' = dcell
    BY <1>1, <1>15, <2>2, <2>4
  <2>8. Consistent(hdr[p], dir_page[p], npages[p])'
    BY <2>6, <2>7, SplitConsistent, SplitNext DEF OnDisk
  <2>9. Imaged(p)'
    <3>1. npages'[p] = n
      BY <1>1, <1>15
    <3>2. \A j \in 0 .. n - 1 : dcell'[dir_page'[p][j].addr] = dir_page'[p][j]
      BY <1>1, <1>8, <2>2, <2>3
    <3>3. QED
      BY <3>1, <3>2 DEF Imaged
  <2>10. dhdr'.fsiz <= hdr'[p].fsiz
    BY <1>1, <1>7
  <2>11. QED
    BY <2>1, <2>8, <2>9, <2>10 DEF SessionInv
<1>16. ASSUME i + 1 # n
       PROVE  LoadingInv(p)' /\ pc'[p] = "loading"
  <2>1. pc'[p] = "loading"
    BY <1>1, <1>7, <1>14, <1>16
  <2>2. c \in [0 .. dhdr'.nbd - 1 -> DiskPages'] /\ WholeChain(c)'
    BY <1>2, <1>4, DiskSteady DEF OneWriterInv
  <2>3. /\ \A j \in 0 .. npages'[p] - 1 : dir_page'[p][j] = dcell'[c[j]]
        /\ wdaddr'[p] = 2 * c[npages'[p]] - 1
    <3>1. npages'[p] = i + 1 /\ dcell' = dcell /\ wdaddr'[p] = 2 * page.nxt_addr - 1
      BY <1>1
    <3>2. page.nxt_addr = c[i + 1]
      BY <1>7, <1>13, <1>16
    <3>3. 0 .. npages'[p] - 1 = 0 .. i
      BY <1>7, <3>1
    <3>4. c[npages'[p]] = page.nxt_addr
      BY <3>1, <3>2
    <3>5. \A j \in 0 .. npages'[p] - 1 : dir_page'[p][j] = dcell'[c[j]]
      BY <1>11, <3>1, <3>3
    <3>6. QED
      BY <3>1, <3>4, <3>5
  <2>4. /\ dhdr'.rwflg = RDMODE /\ hdr'[p] = [dhdr' EXCEPT !.rwflg = hdr'[p].rwflg]
        /\ dhdr'.fsiz <= fsize'[p] /\ npages'[p] < dhdr'.nbd
    BY <1>1, <1>3, <1>5, <1>7, <1>16 DEF LoadingInv
  <2>5. QED
    BY <2>1, <2>2, <2>3, <2>4 DEF LoadingInv
<1>17. ASSUME Writing(p)' PROVE SessionInv(p)' /\ Loaded(p)
  <2>1. i + 1 = n
    BY <1>16, <1>17 DEF Writing
  <2>2. npages'[p] = n /\ \A k \in 0 .. n - 1 : dir_page'[p][k] = dcell[c[k]]
    BY <1>1, <1>7, <1>11, <2>1
  <2>3. dhdr.rwflg = RDMODE
    BY <1>3 DEF LoadingInv
  <2>4. Loaded(p)
    BY <1>4, <1>5, <2>2, <2>3 DEF Loaded
  <2>5. QED
    BY <1>15, <2>1, <2>4
<1>18. QED
  BY <1>15, <1>16, <1>17

\* So the session it begins has its invariant.
LEMMA LoadPageStep ==
    ASSUME TypeOK, TypeOK', OneWriterOnly, OneWriterInv, NEW p \in Procs, LoadPage(p)
    PROVE  OneWriterInv'
<1>1. /\ pc[p] = "loading" /\ hdr'[p] = hdr[p] /\ fmod'[p] = fmod[p]
      /\ pc'[p] \in {"refused", "open", "loading"}
  <2>1. /\ pc[p] = "loading"
        /\ \E x \in {"refused", "open", "loading"} : pc' = [pc EXCEPT ![p] = x]
        /\ UNCHANGED <<disk, hdr, pmod, fmod, fsize, ckpt>>
    BY DEF LoadPage
  <2>2. QED
    BY <2>1 DEF TypeOK
<1>2. OnlyEntry(p) /\ UNCHANGED disk
  BY ZenonT(60) DEF LoadPage, OnlyEntry, TypeOK
<1>3. ~fmod[p] /\ pc'[p] # "closed" /\ hdr'[p].fsiz <= dsize
  <2>1. ~fmod[p]
    BY <1>1 DEF OneWriterInv, EntriesClean, Writing
  <2>2. hdr[p].fsiz <= dsize
    BY <1>1 DEF OneWriterInv, SizesKnown
  <2>3. QED
    BY <1>1, <2>1, <2>2
<1>4. CanWrite(p)' => /\ Writing(p)' => SessionInv(p)'
                      /\ pc'[p] = "loading" => LoadingInv(p)'
  BY LoadPageFacts
<1>5. Writing(p)' => CanWrite(p)'
  BY DEF Writing
<1>6. QED
  BY <1>1, <1>2, <1>3, <1>4, <1>5, AssembledInCore

\* A record refused because the directory is full marks a page, nothing else.
LEMMA PutDirFullStep ==
    ASSUME TypeOK, TypeOK', OneWriterOnly, OneWriterInv, NEW p \in Procs, PutDirFull(p)
    PROVE  OneWriterInv'
<1>1. /\ pc'[p] = pc[p] /\ hdr'[p] = hdr[p] /\ dir_page'[p] = dir_page[p]
      /\ npages'[p] = npages[p] /\ pmod[p] \subseteq pmod'[p] /\ fmod'[p] = fmod[p]
      /\ dhdr' = dhdr /\ dcell' = dcell /\ dsize' = dsize
      /\ pc[p] = "open" /\ CanWrite(p)
  BY DEF PutDirFull, TypeOK, disk, aux
<1>2. OnlyEntry(p) /\ UNCHANGED disk
  BY DEF PutDirFull, OnlyEntry, TypeOK, aux
<1>3. SessionInv(p)
  BY <1>1 DEF OneWriterInv, Writing
<1>4. SessionInv(p)'
  BY <1>1, <1>3, SessionSteady DEF SessionInv
<1>5. QED
  BY <1>1, <1>2, <1>4, AssembledInCore DEF OneWriterInv, SizesKnown, Writing, CanWrite

\* The end of a checkpoint: every modified page has been written.
LEMMA CheckpointEndStep ==
    ASSUME TypeOK, TypeOK', OneWriterOnly, OneWriterInv, NEW p \in Procs, CheckpointEnd(p)
    PROVE  OneWriterInv'
<1>1. /\ pc[p] = "flush" /\ pc'[p] = "open" /\ hdr'[p] = hdr[p] /\ dir_page'[p] = dir_page[p]
      /\ npages'[p] = npages[p] /\ pmod'[p] = pmod[p] /\ ~fmod'[p]
      /\ dhdr' = dhdr /\ dcell' = dcell /\ dsize' = dsize
      /\ ToFlush(p) = {}
  BY DEF CheckpointEnd, TypeOK, disk
<1>2. OnlyEntry(p) /\ UNCHANGED disk
  BY DEF CheckpointEnd, OnlyEntry, TypeOK
<1>3. ASSUME Writing(p)'
      PROVE  SessionInv(p)'
  <2>1. SessionInv(p)
    BY <1>1, <1>3 DEF OneWriterInv, Writing, CanWrite
  <2>2. \A i \in 0 .. npages[p] - 1 : dcell[dir_page[p][i].addr] = dir_page[p][i]
    <3>1. \A i \in 0 .. npages[p] - 1 : ~(fmod[p] /\ i \in pmod[p])
      BY <1>1, <2>1, SessionFacts DEF ToFlush
    <3>2. QED
      BY <2>1, <3>1 DEF SessionInv, Imaged
  <2>3. Imaged(p)'
    BY <1>1, <2>2 DEF Imaged
  <2>4. Consistent(hdr[p], dir_page[p], npages[p])'
    BY <1>1, <2>1, SplitNext, SplitConsistent DEF SessionInv, OnDisk
  <2>5. QED
    BY <1>1, <2>1, <2>3, <2>4 DEF SessionInv
<1>4. QED
  BY <1>1, <1>2, <1>3, AssembledInCore DEF OneWriterInv, SizesKnown

\* A process that dies leaves what it wrote.
LEMMA CrashStep ==
    ASSUME TypeOK, TypeOK', OneWriterOnly, OneWriterInv, NEW p \in Procs, Crash(p)
    PROVE  OneWriterInv'
<1>1. /\ pc'[p] = "closed" /\ hdr'[p] = EmptyHeader /\ npages'[p] = 0 /\ ~fmod'[p]
      /\ UNCHANGED disk
  BY DEF Crash, Forget, TypeOK
<1>2. OnlyEntry(p)
  BY DEF Crash, Forget, OnlyEntry, TypeOK
<1>3. hdr'[p].fsiz <= dsize
  BY <1>1 DEF EmptyHeader, TypeOK
<1>4. QED
  BY <1>1, <1>2, <1>3, AssembledInCore DEF Writing

\* Closing a unit whose open was refused: not that of the writer.
LEMMA CloseRefusedStep ==
    ASSUME TypeOK, TypeOK', OneWriterOnly, OneWriterInv, NEW p \in Procs, CloseRefused(p)
    PROVE  OneWriterInv'
<1>1. /\ pc'[p] = "closed" /\ hdr'[p] = EmptyHeader /\ npages'[p] = 0 /\ ~fmod'[p]
  BY DEF CloseRefused, Forget, TypeOK
<1>2. UNCHANGED disk
  BY DEF CloseRefused, OneWriterOnly, CanWrite, disk
<1>3. OnlyEntry(p)
  BY DEF CloseRefused, Forget, OnlyEntry, TypeOK
<1>4. hdr'[p].fsiz <= dsize
  BY <1>1 DEF EmptyHeader, TypeOK
<1>5. QED
  BY <1>1, <1>2, <1>3, <1>4, AssembledInCore DEF Writing

\* The first write of c_xdfcls: from here the file is closed to other sessions, and its
\* directory need not be whole.
LEMMA CloseBeginStep ==
    ASSUME TypeOK, TypeOK', OneWriterOnly, OneWriterInv, NEW p \in Procs,
           NEW checkpoint \in BOOLEAN, CloseBegin(p, checkpoint)
    PROVE  OneWriterInv'
<1>1. /\ pc[p] = "open" /\ pc'[p] = "flush" /\ hdr'[p] = hdr[p] /\ dir_page'[p] = dir_page[p]
      /\ npages'[p] = npages[p] /\ pmod'[p] = pmod[p] /\ fmod'[p] = fmod[p]
      /\ dhdr' = (IF CanWrite(p) THEN hdr[p] ELSE dhdr) /\ dcell' = dcell /\ dsize' = dsize
      /\ CanWrite(p)' = CanWrite(p) /\ Writing(p)' = CanWrite(p) /\ Writing(p) = CanWrite(p)
  BY DEF CloseBegin, TypeOK, core, CanWrite, Writing
<1>2. OnlyEntry(p)
  BY DEF CloseBegin, OnlyEntry, TypeOK, core
<1>3. hdr[p].fsiz <= dsize /\ (fmod[p] => CanWrite(p))
  BY <1>1 DEF OneWriterInv, SizesKnown, EntriesClean
<1>4. CASE ~CanWrite(p)
  BY <1>1, <1>2, <1>3, <1>4, AssembledInCore DEF disk
<1>5. CASE CanWrite(p)
  <2>1. SessionInv(p) /\ p \in Writers
    BY <1>1, <1>5 DEF OneWriterInv, CanWrite
  <2>2. dhdr' = hdr[p] /\ dhdr'.rwflg # RDMODE
    BY <1>1, <1>5 DEF CanWrite
  <2>3. Consistent(hdr[p], dir_page[p], npages[p])' /\ Imaged(p)'
    BY <1>1, <2>1, SessionSteady
  <2>4. SessionInv(p)'
    BY <2>2, <2>3 DEF SessionInv
  <2>5. SelfAddressed' /\ OpenableIsConsistent'
    BY <1>1, <2>2 DEF OneWriterInv, SelfAddressed, OpenableIsConsistent
  <2>6. dhdr'.fsiz # 0 /\ dsize \in Nat
    BY <2>1, <2>2, SessionFacts, ConstAssumption DEF TypeOK
  <2>7. /\ dhdr'.fsiz <= dsize' /\ (dhdr'.fsiz = 0 => dsize' = 0) /\ dsize' >= dsize
        /\ hdr'[p].fsiz <= dsize' /\ pc'[p] # "closed" /\ pc'[p] # "loading"
        /\ (fmod'[p] => Writing(p)')
    BY <1>1, <1>3, <1>5, <2>2, <2>6
  <2>8. QED
    BY <1>2, <2>1, <2>4, <2>5, <2>7, Assembled
<1>6. QED
  BY <1>4, <1>5

\* The last write of c_xdfcls: the header without flag, when all the pages are on disk.
LEMMA CloseEndFacts ==
    ASSUME TypeOK, OneWriterInv, NEW p \in Procs, CloseEnd(p), CanWrite(p)
    PROVE  /\ SessionInv(p) /\ p \in Writers /\ dcell' = dcell /\ dsize' = dsize
           /\ dhdr'.rwflg = RDMODE /\ dhdr'.fsiz = hdr[p].fsiz /\ dhdr'.nbd = npages[p]
           /\ \E c \in [0 .. dhdr'.nbd - 1 -> DiskPages'] :
                 /\ WholeChain(c)'
                 /\ \A i \in 0 .. dhdr'.nbd - 1 : dcell[c[i]] = dir_page[p][i]
<1>1. /\ pc[p] = "flush" /\ dcell' = dcell /\ dsize' = dsize /\ ToFlush(p) = {}
      /\ dhdr' = [hdr[p] EXCEPT !.rwflg = RDMODE]
  BY DEF CloseEnd, Forget, TypeOK
<1>2. SessionInv(p) /\ p \in Writers
  BY <1>1 DEF OneWriterInv, CanWrite, Writing
<1>3. PICK n : n = npages[p]
  OBVIOUS
<1>4. PICK D : D = dir_page[p]
  OBVIOUS
<1>5. PICK H : H = [hdr[p] EXCEPT !.rwflg = RDMODE]
  OBVIOUS
<1>6. /\ H.fsiz = hdr[p].fsiz /\ H.nbd = hdr[p].nbd /\ H.plst = hdr[p].plst
      /\ H.nrec = hdr[p].nrec /\ H.nxtn = hdr[p].nxtn /\ H.nbig = hdr[p].nbig
      /\ dhdr' = H
  <2>1. hdr[p] \in Header
    BY ProcType
  <2>2. QED
    BY <1>1, <1>5, <2>1 DEF Header
<1>7. /\ n \in Nat /\ n > 0 /\ H.nbd = n
      /\ \A i \in 0 .. n - 1 : /\ i \in PageIdx /\ D[i] \in Page
                               /\ D[i].addr \in Addr
  BY <1>2, <1>3, <1>4, <1>6, SessionFacts
<1>8. \A i \in 0 .. n - 1 : dcell[D[i].addr] = D[i]
  <2>1. \A i \in 0 .. npages[p] - 1 : ~(fmod[p] /\ i \in pmod[p])
    BY <1>1, <1>2, SessionFacts DEF ToFlush
  <2>2. QED
    BY <1>2, <1>3, <1>4, <2>1 DEF SessionInv, Imaged
<1>9. PICK c : c = [i \in 0 .. n - 1 |-> D[i].addr]
  OBVIOUS
<1>10. c \in [0 .. n - 1 -> DiskPages']
  BY <1>1, <1>7, <1>8, <1>9 DEF DiskPages
<1>11. PICK E : E = [i \in 0 .. n - 1 |-> dcell[c[i]]]
  OBVIOUS
<1>12. \A i \in 0 .. n - 1 : E[i] = D[i]
  BY <1>8, <1>9, <1>11
<1>13. Consistent(H, E, n)
  <2>1. Consistent(hdr[p], D, n)
    BY <1>2, <1>3, <1>4 DEF SessionInv
  <2>2. QED
    BY <1>6, <1>7, <1>12, <2>1, SamePages
<1>14. DiskDir(c)' = E
  BY <1>1, <1>9, <1>11 DEF DiskDir
<1>15. Consistent(dhdr, DiskDir(c), dhdr.nbd)'
  <2>1. Consistent(H, E, n)'
    BY <1>1, <1>13, ConsistentSteady
  <2>2. QED
    BY <1>6, <1>7, <1>14, <2>1
<1>16. dhdr'.rwflg = RDMODE
  BY <1>1, ProcType DEF Header
<1>17. WholeChain(c)'
  BY <1>15 DEF WholeChain
<1>18. \A i \in 0 .. n - 1 : dcell[c[i]] = dir_page[p][i]
  BY <1>4, <1>8, <1>9
<1>19. dhdr'.fsiz = hdr[p].fsiz /\ dhdr'.nbd = n
  BY <1>6, <1>7
<1>20. \E d \in [0 .. dhdr'.nbd - 1 -> DiskPages'] :
          /\ WholeChain(d)'
          /\ \A i \in 0 .. dhdr'.nbd - 1 : dcell[d[i]] = dir_page[p][i]
  BY <1>10, <1>17, <1>18, <1>19, Zenon
<1>21. QED
  BY <1>1, <1>2, <1>3, <1>16, <1>19, <1>20

\* So the file it leaves is openable.
LEMMA CloseEndStep ==
    ASSUME TypeOK, TypeOK', OneWriterOnly, OneWriterInv, NEW p \in Procs, CloseEnd(p)
    PROVE  OneWriterInv'
<1>1. /\ pc[p] = "flush" /\ pc'[p] = "closed" /\ hdr'[p] = EmptyHeader /\ npages'[p] = 0
      /\ ~fmod'[p] /\ dcell' = dcell /\ dsize' = dsize /\ ToFlush(p) = {}
      /\ dhdr' = IF CanWrite(p) THEN [hdr[p] EXCEPT !.rwflg = RDMODE] ELSE dhdr
  BY DEF CloseEnd, Forget, TypeOK
<1>2. OnlyEntry(p)
  BY DEF CloseEnd, Forget, OnlyEntry, TypeOK
<1>3. hdr'[p].fsiz <= dsize /\ dsize \in Nat
  BY <1>1 DEF EmptyHeader, TypeOK
<1>4. CASE ~CanWrite(p)
  BY <1>1, <1>2, <1>3, <1>4, AssembledInCore DEF disk, Writing
<1>5. CASE CanWrite(p)
  <2>1. /\ SessionInv(p) /\ p \in Writers
        /\ dhdr'.rwflg = RDMODE /\ dhdr'.fsiz = hdr[p].fsiz /\ dhdr'.nbd = npages[p]
    BY <1>5, CloseEndFacts
  <2>2. PICK c \in [0 .. dhdr'.nbd - 1 -> DiskPages'] : WholeChain(c)'
    BY <1>5, CloseEndFacts
  <2>3. OpenableIsConsistent' /\ SelfAddressed'
    BY <1>1, <2>2 DEF OpenableIsConsistent, WholeChain, SelfAddressed, OneWriterInv
  <2>4. dhdr'.fsiz <= dsize' /\ dhdr'.fsiz # 0
    BY <1>1, <2>1, SessionFacts, ConstAssumption DEF OneWriterInv, SizesKnown
  <2>5. QED
    BY <1>1, <1>2, <1>3, <2>1, <2>3, <2>4, Assembled DEF Writing
<1>6. QED
  BY <1>4, <1>5

\* c_xdfopn "CREATE": a file of one empty page.
LEMMA CreateStep ==
    ASSUME TypeOK, TypeOK', OneWriterOnly, OneWriterInv, NEW p \in Procs, Create(p)
    PROVE  OneWriterInv'
<1>1. /\ pc[p] = "closed" /\ p \in Writers /\ dhdr.fsiz = 0 /\ dsize = 0
      /\ dhdr' = NewHeader /\ dsize' = 2 /\ pc'[p] = "open"
      /\ dcell' = [dcell EXCEPT ![2] = NewPage(2)]
      /\ hdr'[p] = [rwflg |-> CREATE, fsiz |-> 2, nbd |-> 1, plst |-> 2,
                    nrec |-> 0, nxtn |-> 0, nbig |-> 0]
      /\ dir_page'[p] = [dir_page[p] EXCEPT ![0] = NewPage(2)]
      /\ npages'[p] = 1 /\ pmod'[p] = {0}
  BY DEF Create, TypeOK, OneWriterInv, SizesKnown
<1>2. OnlyEntry(p)
  BY DEF Create, OnlyEntry, TypeOK, aux
<1>3. dhdr'.rwflg = RDMODE /\ dhdr'.fsiz = 1 /\ dhdr'.nbd = 0
  BY <1>1 DEF NewHeader, EmptyHeader
<1>4. 2 \in Addr /\ 0 \in PageIdx
  BY ConstAssumption DEF Addr, PageIdx
<1>5. PICK D : D = dir_page'[p]
  OBVIOUS
<1>6. D[0] = NewPage(2) /\ dcell'[2] = NewPage(2)
  BY <1>1, <1>4, <1>5, ProcType DEF TypeOK
<1>7. /\ D[0].addr = 2 /\ D[0].nxt_addr = 0 /\ D[0].nent = 0
      /\ \A s \in Slot : D[0].entry[s].idtyp = SPECIAL
  BY <1>6 DEF NewPage, NoEntry
<1>8. Used(D, 1) = {} /\ Live(D, 1) = {}
  <2>1. \A h \in Handles : h[1] < 1 => h[1] = 0 /\ h[2] \in Slot
    BY ConstAssumption DEF Handles, PageIdx
  <2>2. \A h \in Handles : h[1] < 1 => EntryOf(D, h).idtyp = SPECIAL
    BY <1>7, <2>1 DEF EntryOf
  <2>3. QED
    BY <2>2 DEF Used, Live
<1>9. PICK H : H = hdr'[p]
  OBVIOUS
<1>10. WellFormed(H, D, 1)
  <2>1. H.fsiz = 2 /\ H.nbd = 1 /\ H.plst = 2 /\ H.nrec = 0 /\ H.nxtn = 0 /\ H.nbig = 0
    BY <1>1, <1>9
  <2>2. \A i \in 0 .. 1 - 1 : i = 0
    OBVIOUS
  <2>3. Linked(D, 1)
    BY <1>7, <2>2 DEF Linked
  <2>4. Filled(D, 1)
    <3>1. \A s \in Slot : ~(s < 0)
      BY ConstAssumption DEF Slot
    <3>2. QED
      BY <1>7, <2>2, <3>1 DEF Filled
  <2>5. Counted(H, D, 1)
    BY <1>7, <1>8, <2>1, FS_EmptySet DEF Counted
  <2>6. LaidOut(D, 1, 2)
    BY <1>7, <1>8, <2>2 DEF LaidOut
  <2>7. QED
    BY <1>7, <2>1, <2>3, <2>4, <2>5, <2>6 DEF WellFormed
<1>11. Consistent(hdr[p], dir_page[p], npages[p])'
  BY <1>1, <1>5, <1>8, <1>9, <1>10, SplitNext
<1>12. Imaged(p)'
  BY <1>1, <1>5, <1>6, <1>7 DEF Imaged
<1>13. SessionInv(p)'
  BY <1>1, <1>3, <1>11, <1>12 DEF SessionInv
<1>14. SelfAddressed' /\ OpenableIsConsistent'
  <2>1. \A a \in Addr : dcell'[a] = dcell[a] \/ (a = 2 /\ dcell'[a].addr = a)
    BY <1>1, <1>4, <1>6, <1>7 DEF TypeOK
  <2>2. QED
    BY <1>3, <2>1 DEF SelfAddressed, OpenableIsConsistent, OneWriterInv
<1>15. Writing(p)' /\ pc'[p] = "open"
  BY <1>1 DEF Writing, CanWrite
<1>16. QED
  BY <1>1, <1>2, <1>3, <1>13, <1>14, <1>15, Assembled

\* The disk when no page and no place of a record changes on it.
LEMMA UnitsKept ==
    ASSUME TypeOK, SelfAddressed, OpenableIsConsistent, dhdr' = dhdr,
           \A a \in Addr : SameUnit(a)
    PROVE  /\ SelfAddressed' /\ OpenableIsConsistent'
           /\ \A a \in Addr : dcell[a] \in Page => dcell'[a] = dcell[a]
<1>1. \A a \in Addr : dcell[a] \in Page \/ dcell'[a] \in Page => dcell'[a] = dcell[a]
  BY RecordIsNotPage DEF SameUnit
<1>2. SelfAddressed'
  BY <1>1 DEF SelfAddressed
<1>3. ASSUME dhdr.rwflg = RDMODE, dhdr.nbd > 0
      PROVE  \E c \in [0 .. dhdr'.nbd - 1 -> DiskPages'] : WholeChain(c)'
  <2>1. PICK c \in [0 .. dhdr.nbd - 1 -> DiskPages] : WholeChain(c)
    BY <1>3 DEF OpenableIsConsistent, WholeChain
  <2>2. QED
    BY <2>1, ChainKept
<1>4. OpenableIsConsistent'
  BY <1>3 DEF OpenableIsConsistent, WholeChain
<1>5. QED
  BY <1>1, <1>2, <1>4

\* The session p gives the entry at the handle h another type or content, r, and maybe the
\* units of its record.
Retouched(p, h, r) ==
    /\ OnlyEntry(p) /\ Writing(p) /\ pc'[p] = pc[p] /\ npages'[p] = npages[p]
    /\ h \in Handles /\ h[1] < npages[p] /\ Replaced(dir_page[p], dir_page'[p], h, r)
    /\ EntryOf(dir_page[p], h).idtyp # SPECIAL /\ r.idtyp # SPECIAL
    /\ r.addr = EntryOf(dir_page[p], h).addr /\ r.lng = EntryOf(dir_page[p], h).lng
    /\ hdr'[p] = [hdr[p] EXCEPT !.nrec = Cardinality(Live(dir_page'[p], npages[p]))]
    /\ pmod[p] \subseteq pmod'[p] /\ h[1] \in pmod'[p] /\ fmod'[p]
    /\ dhdr' = dhdr /\ dsize' = dsize /\ \A a \in Addr : SameUnit(a)

\* Such a step of the writer keeps the invariant.
LEMMA ReplacedStep ==
    ASSUME TypeOK, TypeOK', OneWriterOnly, OneWriterInv, NEW p \in Procs, NEW h, NEW r,
           Retouched(p, h, r)
    PROVE  OneWriterInv'
<1>0. /\ OnlyEntry(p) /\ Writing(p) /\ pc'[p] = pc[p] /\ npages'[p] = npages[p]
      /\ h \in Handles /\ h[1] < npages[p] /\ Replaced(dir_page[p], dir_page'[p], h, r)
      /\ EntryOf(dir_page[p], h).idtyp # SPECIAL /\ r.idtyp # SPECIAL
      /\ r.addr = EntryOf(dir_page[p], h).addr /\ r.lng = EntryOf(dir_page[p], h).lng
      /\ hdr'[p] = [hdr[p] EXCEPT !.nrec = Cardinality(Live(dir_page'[p], npages[p]))]
      /\ pmod[p] \subseteq pmod'[p] /\ h[1] \in pmod'[p] /\ fmod'[p]
      /\ dhdr' = dhdr /\ dsize' = dsize /\ \A a \in Addr : SameUnit(a)
  BY Zenon DEF Retouched
<1>1. SessionInv(p) /\ p \in Writers
  BY <1>0 DEF OneWriterInv, Writing, CanWrite
<1>2. PICK D : D = dir_page[p]
  OBVIOUS
<1>3. PICK E : E = dir_page'[p]
  OBVIOUS
<1>4. PICK n : n = npages[p]
  OBVIOUS
<1>5. D \in [PageIdx -> Page] /\ n \in Nat /\ n <= MAX_DIR_PAGES /\ Replaced(D, E, h, r)
  BY <1>0, <1>2, <1>3, <1>4, ProcType, ConstAssumption
<1>6. Resembles(D, E, n)
  BY <1>0, <1>2, <1>4, <1>5, ReplacedEntry
<1>7. PICK H : H = hdr[p]
  OBVIOUS
<1>8. PICK I : I = hdr'[p]
  OBVIOUS
<1>9. /\ I.fsiz = H.fsiz /\ I.nbd = H.nbd /\ I.plst = H.plst /\ I.nxtn = H.nxtn
      /\ I.nbig = H.nbig /\ I.rwflg = H.rwflg /\ I.nrec = Cardinality(Live(E, n))
  <2>1. H \in Header
    BY <1>7, ProcType
  <2>2. QED
    BY <1>0, <1>3, <1>4, <1>7, <1>8, <2>1 DEF Header
<1>10. Consistent(H, D, n)
  BY <1>1, <1>2, <1>4, <1>7 DEF SessionInv
<1>11. WellFormed(I, E, n)
  BY <1>5, <1>6, <1>9, <1>10, ResembleWellFormed, SplitConsistent
<1>12. Consistent(hdr[p], dir_page[p], npages[p])'
  <2>1. /\ Used(E, n) = Used(D, n)
        /\ \A g \in Used(D, n) : /\ EntryOf(E, g).addr = EntryOf(D, g).addr
                                 /\ EntryOf(E, g).lng = EntryOf(D, g).lng
    BY <1>5, <1>6, ResembleUsed
  <2>2. \A g \in Used(D, n) : OnDisk(EntryOf(D, g))
    BY <1>10, SplitConsistent
  <2>3. ASSUME NEW g \in Used(E, n), NEW a \in Extent(EntryOf(E, g))
        PROVE  /\ a \in Addr /\ dcell'[a] \in RecUnit
               /\ dcell'[a].addr = EntryOf(E, g).addr /\ dcell'[a].lng = EntryOf(E, g).lng
    <3>1. a \in Extent(EntryOf(D, g))
      BY <2>1 DEF Extent
    <3>2. /\ a \in Addr /\ dcell[a] \in RecUnit
          /\ dcell[a].addr = EntryOf(D, g).addr /\ dcell[a].lng = EntryOf(D, g).lng
      BY <2>1, <2>2, <3>1 DEF OnDisk
    <3>3. QED
      BY <1>0, <2>1, <3>2 DEF SameUnit
  <2>4. QED
    BY <1>0, <1>3, <1>4, <1>8, <1>11, <2>3, SplitNext
<1>13. Imaged(p)'
  <2>1. ASSUME NEW i \in 0 .. n - 1
        PROVE  dcell'[E[i].addr] = E[i] \/ i \in pmod'[p]
    <3>1. i \in PageIdx /\ D[i] \in Page /\ D[i].addr \in Addr
      BY <1>1, <1>2, <1>4, SessionFacts
    <3>2. CASE i = h[1]
      BY <1>0, <3>2
    <3>3. CASE i # h[1]
      <4>1. E[i] = D[i]
        BY <1>5, <3>1, <3>3 DEF Replaced
      <4>2. dcell[D[i].addr] = D[i] \/ i \in pmod[p]
        BY <1>1, <1>2, <1>4 DEF SessionInv, Imaged
      <4>3. dcell[D[i].addr] = D[i] => dcell'[D[i].addr] = D[i]
        BY <1>0, <3>1, UnitsKept DEF OneWriterInv
      <4>4. QED
        BY <1>0, <4>1, <4>2, <4>3
    <3>4. QED
      BY <3>2, <3>3
  <2>2. QED
    BY <1>0, <1>3, <1>4, <2>1 DEF Imaged
<1>14. SessionInv(p)'
  BY <1>0, <1>1, <1>7, <1>8, <1>9, <1>12, <1>13 DEF SessionInv
<1>15. SelfAddressed' /\ OpenableIsConsistent'
  BY <1>0, UnitsKept DEF OneWriterInv
<1>16. Writing(p)' /\ pc'[p] # "closed" /\ pc'[p] # "loading"
  BY <1>0, <1>7, <1>8, <1>9 DEF Writing, CanWrite
<1>17. /\ dhdr'.fsiz <= dsize' /\ (dhdr'.fsiz = 0 => dsize' = 0) /\ dsize' >= dsize
       /\ hdr'[p].fsiz <= dsize'
  BY <1>0, <1>7, <1>8, <1>9 DEF OneWriterInv, SizesKnown, TypeOK
<1>18. QED
  BY <1>0, <1>1, <1>14, <1>15, <1>16, <1>17, Assembled

\* The number of records left when the entry at h takes another type.
LEMMA ReplacedCount ==
    ASSUME TypeOK, NEW p \in Procs, SessionInv(p), NEW h \in Handles, h[1] < npages[p], NEW r,
           NEW E, Replaced(dir_page[p], E, h, r),
           EntryOf(dir_page[p], h).idtyp # SPECIAL, r.idtyp # SPECIAL,
           r.addr = EntryOf(dir_page[p], h).addr, r.lng = EntryOf(dir_page[p], h).lng
    PROVE  /\ (EntryOf(dir_page[p], h).idtyp = LIVE <=> r.idtyp = LIVE)
                => Cardinality(Live(E, npages[p])) = hdr[p].nrec
           /\ EntryOf(dir_page[p], h).idtyp = LIVE /\ r.idtyp # LIVE
                => Cardinality(Live(E, npages[p])) = hdr[p].nrec - 1
<1> DEFINE D == dir_page[p]
           n == npages[p]
<1>1. D \in [PageIdx -> Page] /\ n \in Nat /\ n <= MAX_DIR_PAGES
  BY ProcType, ConstAssumption
<1>2. Live(E, n) = (Live(D, n) \ {h}) \cup (IF r.idtyp = LIVE THEN {h} ELSE {})
  BY <1>1, ReplacedEntry
<1>3. hdr[p].nrec = Cardinality(Live(D, n))
  BY DEF SessionInv, Consistent, Counted
<1>4. h \in Live(D, n) <=> EntryOf(D, h).idtyp = LIVE
  BY DEF Live
<1> HIDE DEF D, n
<1>5. ASSUME EntryOf(D, h).idtyp = LIVE <=> r.idtyp = LIVE
      PROVE  Live(E, n) = Live(D, n)
  BY <1>2, <1>4, <1>5
<1>6. ASSUME EntryOf(D, h).idtyp = LIVE /\ r.idtyp # LIVE
      PROVE  Cardinality(Live(E, n)) = Cardinality(Live(D, n)) - 1
  <2>1. Live(E, n) = Live(D, n) \ {h} /\ h \in Live(D, n)
    BY <1>2, <1>4, <1>6
  <2>2. IsFiniteSet(Live(D, n))
    BY HandlesFinite DEF Live
  <2>3. Cardinality(Live(D, n) \ {h}) = Cardinality(Live(D, n)) - 1
    BY <2>1, <2>2, FS_RemoveElement, Zenon
  <2>4. QED
    BY <2>1, <2>3
<1>7. QED
  BY <1>3, <1>5, <1>6 DEF D, n

\* c_xdfdel: the record is deleted in core, and counted out.
LEMMA DeleteFacts ==
    ASSUME TypeOK, OneWriterInv, NEW p \in Procs, NEW h \in Handles, Delete(p, h)
    PROVE  /\ Retouched(p, h, [EntryOf(dir_page[p], h) EXCEPT !.idtyp = DELETED])
           /\ EntryOf(dir_page[p], h).idtyp = LIVE /\ dcell' = dcell
<1> DEFINE e == EntryOf(dir_page[p], h)
           r == [e EXCEPT !.idtyp = DELETED]
<1>1. h[1] \in PageIdx /\ h[2] \in Slot /\ dir_page[p] \in [PageIdx -> Page]
  BY ProcType DEF Handles
<1>2. /\ pc[p] = "open" /\ CanWrite(p) /\ h[1] < npages[p] /\ e.idtyp = LIVE
      /\ dir_page' = [dir_page EXCEPT ![p][h[1]].entry[h[2]].idtyp = DELETED]
      /\ pmod' = [pmod EXCEPT ![p] = @ \cup {h[1]}]
      /\ hdr' = [hdr EXCEPT ![p].nrec = @ - 1]
      /\ fmod' = [fmod EXCEPT ![p] = TRUE]
      /\ UNCHANGED <<disk, pc, npages, aux>>
  BY DEF Delete, Valid, EntryOf
<1>3. e \in Entry /\ r.idtyp = DELETED /\ r.addr = e.addr /\ r.lng = e.lng
  <2>1. e \in Entry
    BY <1>1, FieldType DEF EntryOf
  <2>2. QED
    BY <2>1 DEF Entry, NoEntry
<1>4. dir_page'[p] = [dir_page[p] EXCEPT ![h[1]] =
                        [dir_page[p][h[1]] EXCEPT !.entry[h[2]] = r]]
  <2>1. dir_page' = [dir_page EXCEPT ![p][h[1]] =
                        [dir_page[p][h[1]] EXCEPT !.entry[h[2]] = r]]
    BY <1>2, Zenon DEF EntryOf
  <2> HIDE DEF r
  <2>2. QED
    BY <2>1 DEF TypeOK
<1> HIDE DEF r
<1>5. Replaced(dir_page[p], dir_page'[p], h, r)
  BY <1>1, <1>4 DEF Replaced
<1>6. /\ OnlyEntry(p) /\ pc'[p] = pc[p] /\ npages'[p] = npages[p]
      /\ hdr'[p] = [hdr[p] EXCEPT !.nrec = hdr[p].nrec - 1]
      /\ pmod'[p] = pmod[p] \cup {h[1]} /\ fmod'[p]
      /\ dhdr' = dhdr /\ dsize' = dsize /\ dcell' = dcell
  BY <1>2 DEF OnlyEntry, TypeOK, disk, aux
<1>7. Writing(p) /\ SessionInv(p)
  BY <1>2 DEF OneWriterInv, Writing
<1>8. PICK E : E = dir_page'[p]
  OBVIOUS
<1>9. Cardinality(Live(E, npages[p])) = hdr[p].nrec - 1
  <2>1. r.idtyp # LIVE /\ r.idtyp # SPECIAL /\ h[1] < npages[p]
    BY <1>2, <1>3
  <2>2. EntryOf(dir_page[p], h).idtyp = LIVE /\ EntryOf(dir_page[p], h).idtyp # SPECIAL
    BY <1>2
  <2>3. r.addr = EntryOf(dir_page[p], h).addr /\ r.lng = EntryOf(dir_page[p], h).lng
    BY <1>3
  <2>4. Replaced(dir_page[p], E, h, r)
    BY <1>5, <1>8
  <2> HIDE DEF e
  <2>5. QED
    BY <1>7, <2>1, <2>2, <2>3, <2>4, ReplacedCount
<1>10. \A a \in Addr : SameUnit(a)
  BY <1>6 DEF SameUnit
<1> HIDE DEF e
<1>11. /\ pmod[p] \subseteq pmod'[p] /\ h[1] \in pmod'[p]
       /\ hdr'[p] = [hdr[p] EXCEPT !.nrec = Cardinality(Live(dir_page'[p], npages[p]))]
  BY <1>6, <1>8, <1>9
<1>12. /\ EntryOf(dir_page[p], h).idtyp # SPECIAL /\ r.idtyp # SPECIAL /\ h[1] < npages[p]
       /\ r.addr = EntryOf(dir_page[p], h).addr /\ r.lng = EntryOf(dir_page[p], h).lng
  BY <1>2, <1>3 DEF e
<1>13. Retouched(p, h, r)
  BY <1>5, <1>6, <1>7, <1>10, <1>11, <1>12, Zenon DEF Retouched
<1>14. QED
  BY <1>2, <1>6, <1>13 DEF e, r

\* c_xdfdel keeps the invariant: an entry is retyped, on a page marked modified.
LEMMA DeleteStep ==
    ASSUME TypeOK, TypeOK', OneWriterOnly, OneWriterInv, NEW p \in Procs,
           NEW h \in Handles, Delete(p, h)
    PROVE  OneWriterInv'
<1>1. \E r : Retouched(p, h, r)
  BY DeleteFacts
<1>2. QED
  BY <1>1, ReplacedStep, Zenon

\* c_xdfput of a record of the same length: counted out and in again, and written where
\* it is.
LEMMA PutInPlaceFacts ==
    ASSUME TypeOK, OneWriterInv, NEW p \in Procs, NEW h \in Handles, NEW v \in Vals,
           PutInPlace(p, h, v)
    PROVE  LET e == EntryOf(dir_page[p], h)
               r == [idtyp |-> LIVE, val |-> v, addr |-> e.addr, lng |-> e.lng]
           IN
           /\ Retouched(p, h, r) /\ e.idtyp = LIVE
           /\ dcell' = [a \in Addr |-> IF a \in Extent(e) THEN r ELSE dcell[a]]
<1> DEFINE e == EntryOf(dir_page[p], h)
           r == [idtyp |-> LIVE, val |-> v, addr |-> e.addr, lng |-> e.lng]
<1>1. h[1] \in PageIdx /\ h[2] \in Slot /\ dir_page[p] \in [PageIdx -> Page]
      /\ hdr[p] \in Header
  BY ProcType DEF Handles
<1>2. /\ pc[p] = "open" /\ CanWrite(p) /\ h[1] < npages[p] /\ e.idtyp = LIVE
      /\ dcell' = [a \in Addr |-> IF a \in Extent(e) THEN r ELSE dcell[a]]
      /\ dir_page' = [dir_page EXCEPT ![p][h[1]].entry[h[2]] = r]
      /\ pmod' = [pmod EXCEPT ![p] = @ \cup {h[1]}]
      /\ fmod' = [fmod EXCEPT ![p] = TRUE]
      /\ UNCHANGED <<dhdr, dsize, pc, hdr, npages, aux>>
  BY DEF PutInPlace, Valid, EntryOf
<1>3. e \in Entry /\ r.idtyp = LIVE /\ r.addr = e.addr /\ r.lng = e.lng /\ r \in RecUnit
  <2>1. e \in Entry
    BY <1>1, FieldType DEF EntryOf
  <2>2. QED
    BY <2>1 DEF Entry, NoEntry, RecUnit
<1> HIDE DEF r
<1>4. dir_page'[p] = [dir_page[p] EXCEPT ![h[1]] =
                        [dir_page[p][h[1]] EXCEPT !.entry[h[2]] = r]]
  <2>1. dir_page' = [dir_page EXCEPT ![p][h[1]] =
                        [dir_page[p][h[1]] EXCEPT !.entry[h[2]] = r]]
    BY <1>2, Zenon
  <2>2. QED
    BY <2>1 DEF TypeOK
<1>5. Replaced(dir_page[p], dir_page'[p], h, r)
  BY <1>1, <1>4 DEF Replaced
<1>6. /\ OnlyEntry(p) /\ pc'[p] = pc[p] /\ npages'[p] = npages[p] /\ hdr'[p] = hdr[p]
      /\ pmod'[p] = pmod[p] \cup {h[1]} /\ fmod'[p]
      /\ dhdr' = dhdr /\ dsize' = dsize
  BY <1>2 DEF OnlyEntry, TypeOK, aux
<1>7. Writing(p) /\ SessionInv(p)
  BY <1>2 DEF OneWriterInv, Writing
<1>8. PICK E : E = dir_page'[p]
  OBVIOUS
<1>9. Cardinality(Live(E, npages[p])) = hdr[p].nrec
  <2>1. r.idtyp = LIVE /\ r.idtyp # SPECIAL /\ h[1] < npages[p]
    BY <1>2, <1>3
  <2>2. EntryOf(dir_page[p], h).idtyp = LIVE /\ EntryOf(dir_page[p], h).idtyp # SPECIAL
    BY <1>2
  <2>3. r.addr = EntryOf(dir_page[p], h).addr /\ r.lng = EntryOf(dir_page[p], h).lng
    BY <1>3
  <2>4. Replaced(dir_page[p], E, h, r)
    BY <1>5, <1>8
  <2> HIDE DEF e
  <2>5. QED
    BY <1>7, <2>1, <2>2, <2>3, <2>4, ReplacedCount
<1>10. h \in Used(dir_page[p], npages[p])
  BY <1>2 DEF Used
<1>11. OnDisk(e)
  BY <1>7, <1>10, SplitConsistent DEF SessionInv
<1> HIDE DEF e
<1>12. \A a \in Addr : SameUnit(a)
  BY <1>2, <1>3, <1>11 DEF SameUnit, OnDisk
<1>13. hdr'[p] = [hdr[p] EXCEPT !.nrec = Cardinality(Live(dir_page'[p], npages[p]))]
  BY <1>1, <1>6, <1>8, <1>9 DEF Header
<1>14. /\ EntryOf(dir_page[p], h).idtyp # SPECIAL /\ r.idtyp # SPECIAL /\ h[1] < npages[p]
       /\ r.addr = EntryOf(dir_page[p], h).addr /\ r.lng = EntryOf(dir_page[p], h).lng
  BY <1>2, <1>3 DEF e
<1>15. pmod[p] \subseteq pmod'[p] /\ h[1] \in pmod'[p]
  BY <1>6
<1>16. Retouched(p, h, r)
  BY <1>2, <1>5, <1>6, <1>7, <1>12, <1>13, <1>14, <1>15, Zenon DEF Retouched
<1>17. QED
  BY <1>2, <1>16 DEF e, r

\* So does c_xdfput where the record is.
LEMMA PutInPlaceStep ==
    ASSUME TypeOK, TypeOK', OneWriterOnly, OneWriterInv, NEW p \in Procs,
           NEW h \in Handles, NEW v \in Vals, PutInPlace(p, h, v)
    PROVE  OneWriterInv'
<1>1. \E r : Retouched(p, h, r)
  BY PutInPlaceFacts
<1>2. QED
  BY <1>1, ReplacedStep, Zenon

\* A page is written only by a session, and only one of its own.
LEMMA FlushFacts ==
    ASSUME TypeOK, OneWriterInv, NEW p \in Procs, NEW i \in PageIdx,
           pc[p] = "flush", FlushNext(p, i)
    PROVE  /\ Writing(p) /\ SessionInv(p) /\ p \in Writers /\ fmod[p] /\ i \in pmod[p]
           /\ i \in 0 .. npages[p] - 1 /\ dhdr.rwflg # RDMODE
<1>1. fmod[p] /\ i \in pmod[p] /\ i < hdr[p].nbd
  BY DEF FlushNext, ToFlush
<1>2. Writing(p)
  BY <1>1 DEF OneWriterInv, EntriesClean
<1>3. SessionInv(p) /\ p \in Writers
  BY <1>2 DEF OneWriterInv, Writing, CanWrite
<1>4. i \in 0 .. npages[p] - 1
  BY <1>1, <1>3, SessionFacts, ConstAssumption DEF PageIdx
<1>5. QED
  BY <1>1, <1>2, <1>3, <1>4 DEF SessionInv

\* A record deleted in core is erased on disk.
LEMMA FlushEraseFacts ==
    ASSUME TypeOK, OneWriterInv, NEW p \in Procs, NEW i \in PageIdx, FlushErase(p, i)
    PROVE  /\ pc[p] = "flush"
           /\ \E h, r :
                 /\ Retouched(p, h, r) /\ r.idtyp = ERASED
                 /\ EntryOf(dir_page[p], h).idtyp = DELETED
                 /\ dcell'[EntryOf(dir_page[p], h).addr].idtyp = ERASED
                 /\ \A a \in Addr : a # EntryOf(dir_page[p], h).addr => dcell'[a] = dcell[a]
<1>1. PICK s \in InCoreDeleted(p, i) :
         /\ dir_page' = [dir_page EXCEPT ![p][i].entry[s].idtyp = ERASED]
         /\ dcell' = [dcell EXCEPT ![dir_page[p][i].entry[s].addr] =
               [idtyp |-> ERASED, val |-> dir_page[p][i].entry[s].val,
                addr |-> dir_page[p][i].entry[s].addr, lng |-> dir_page[p][i].entry[s].lng]]
  BY Zenon DEF FlushErase
<1>2. PICK h : h = <<i, s>>
  OBVIOUS
<1> DEFINE e == EntryOf(dir_page[p], h)
           r == [e EXCEPT !.idtyp = ERASED]
           u == [idtyp |-> ERASED, val |-> e.val, addr |-> e.addr, lng |-> e.lng]
<1>3. /\ h \in Handles /\ h[1] = i /\ h[2] = s /\ s \in Slot /\ e.idtyp = DELETED
      /\ e = dir_page[p][i].entry[s] /\ dir_page[p] \in [PageIdx -> Page]
      /\ hdr[p] \in Header
  BY <1>2, ProcType DEF InCoreDeleted, Handles, EntryOf
<1>4. /\ pc[p] = "flush" /\ FlushNext(p, i)
      /\ UNCHANGED <<dhdr, dsize, pc, hdr, npages, pmod, fmod, aux>>
  BY DEF FlushErase
<1>5. /\ Writing(p) /\ SessionInv(p) /\ p \in Writers /\ fmod[p] /\ i \in pmod[p]
      /\ i \in 0 .. npages[p] - 1
  BY <1>4, FlushFacts
<1>6. /\ e \in Entry /\ r.idtyp = ERASED /\ r.addr = e.addr /\ r.lng = e.lng
      /\ u \in RecUnit /\ u.addr = e.addr /\ u.lng = e.lng /\ u.idtyp = ERASED
  <2>1. e \in Entry
    BY <1>3, FieldType DEF EntryOf
  <2>2. QED
    BY <1>3, <2>1 DEF Entry, NoEntry, RecUnit
<1>7. dcell' = [dcell EXCEPT ![e.addr] = u]
  BY <1>1, <1>3
<1>8. dir_page'[p] = [dir_page[p] EXCEPT ![i] = [dir_page[p][i] EXCEPT !.entry[s] = r]]
  <2>1. dir_page' = [dir_page EXCEPT ![p][i] = [dir_page[p][i] EXCEPT !.entry[s] = r]]
    BY <1>1, <1>3, Zenon
  <2> HIDE DEF r
  <2>2. QED
    BY <2>1 DEF TypeOK
<1> HIDE DEF r, u
<1>9. Replaced(dir_page[p], dir_page'[p], h, r)
  BY <1>3, <1>8 DEF Replaced
<1>10. /\ OnlyEntry(p) /\ pc'[p] = pc[p] /\ npages'[p] = npages[p] /\ hdr'[p] = hdr[p]
       /\ pmod'[p] = pmod[p] /\ fmod'[p] /\ dhdr' = dhdr /\ dsize' = dsize
  BY <1>1, <1>4, <1>5 DEF OnlyEntry, TypeOK, aux
<1>11. h[1] < npages[p]
  BY <1>3, <1>5, SessionFacts
<1>12. PICK E : E = dir_page'[p]
  OBVIOUS
<1>13. Cardinality(Live(E, npages[p])) = hdr[p].nrec
  BY <1>3, <1>5, <1>6, <1>9, <1>11, <1>12, ReplacedCount
<1>14. h \in Used(dir_page[p], npages[p])
  BY <1>3, <1>11 DEF Used
<1>15. OnDisk(e) /\ e.lng \in Lens /\ e.addr \in Nat
  BY <1>5, <1>6, <1>14 DEF SessionInv, Consistent, LaidOut, Entry, NoEntry
<1> HIDE DEF e
<1>16. e.addr \in Extent(e)
  <2>1. e.lng \in Nat /\ e.lng > 0 /\ e.addr \in Nat
    <3>1. \A l \in Lens : l \in Nat /\ l > 0
      BY ConstAssumption
    <3>2. QED
      BY <1>15, <3>1
  <2>2. e.addr \in e.addr .. e.addr + e.lng - 1
    BY <2>1
  <2>3. QED
    BY <2>2 DEF Extent
<1>17. \A a \in Addr : SameUnit(a)
  BY <1>6, <1>7, <1>15, <1>16 DEF SameUnit, OnDisk, TypeOK
<1>18. hdr'[p] = [hdr[p] EXCEPT !.nrec = Cardinality(Live(dir_page'[p], npages[p]))]
  BY <1>3, <1>10, <1>12, <1>13 DEF Header
<1>19. /\ EntryOf(dir_page[p], h).idtyp # SPECIAL /\ r.idtyp # SPECIAL
       /\ r.addr = EntryOf(dir_page[p], h).addr /\ r.lng = EntryOf(dir_page[p], h).lng
  BY <1>3, <1>6 DEF e
<1>20. /\ pmod[p] \subseteq pmod'[p] /\ h[1] \in pmod'[p]
  BY <1>3, <1>5, <1>10
<1>21. Retouched(p, h, r)
  BY <1>3, <1>5, <1>9, <1>10, <1>11, <1>17, <1>18, <1>19, <1>20, Zenon DEF Retouched
<1>22. /\ \A a \in Addr : a # e.addr => dcell'[a] = dcell[a]
       /\ dcell'[e.addr].idtyp = ERASED
  <2>1. e.addr \in Addr
    BY <1>15, <1>16 DEF OnDisk
  <2>2. QED
    BY <1>6, <1>7, <2>1 DEF TypeOK
<1>25. PICK x : x = r
  OBVIOUS
<1>23. /\ Retouched(p, h, x) /\ x.idtyp = ERASED
       /\ EntryOf(dir_page[p], h).idtyp = DELETED
       /\ dcell'[EntryOf(dir_page[p], h).addr].idtyp = ERASED
       /\ \A a \in Addr : a # EntryOf(dir_page[p], h).addr => dcell'[a] = dcell[a]
  BY <1>3, <1>6, <1>21, <1>22, <1>25 DEF e
<1>24. \E g, y : /\ Retouched(p, g, y) /\ y.idtyp = ERASED
                  /\ EntryOf(dir_page[p], g).idtyp = DELETED
                  /\ dcell'[EntryOf(dir_page[p], g).addr].idtyp = ERASED
                  /\ \A a \in Addr : a # EntryOf(dir_page[p], g).addr => dcell'[a] = dcell[a]
  BY <1>23, SMTT(20)
<1>26. QED
  BY <1>4, <1>24

\* And so does the erasure of a deleted record, which c_xdfcls does before it writes the page.
LEMMA FlushEraseStep ==
    ASSUME TypeOK, TypeOK', OneWriterOnly, OneWriterInv, NEW p \in Procs,
           NEW i \in PageIdx, FlushErase(p, i)
    PROVE  OneWriterInv'
<1>1. PICK h, r : Retouched(p, h, r)
  BY FlushEraseFacts, Zenon
<1>2. QED
  BY <1>1, ReplacedStep

\* A page is written at its address: no record has a unit there.
LEMMA FlushPageStep ==
    ASSUME TypeOK, TypeOK', OneWriterOnly, OneWriterInv, NEW p \in Procs,
           NEW i \in PageIdx, FlushPage(p, i)
    PROVE  OneWriterInv'
<1> DEFINE q == dir_page[p][i]
<1>1. /\ pc[p] = "flush" /\ FlushNext(p, i)
      /\ dcell' = [dcell EXCEPT ![q.addr] = q]
      /\ pmod' = [pmod EXCEPT ![p] = @ \ {i}]
      /\ UNCHANGED <<dhdr, dsize, pc, hdr, dir_page, npages, fmod, aux>>
  BY DEF FlushPage
<1>2. /\ Writing(p) /\ SessionInv(p) /\ p \in Writers /\ fmod[p] /\ i \in pmod[p]
      /\ i \in 0 .. npages[p] - 1 /\ dhdr.rwflg # RDMODE
  BY <1>1, FlushFacts
<1>3. /\ OnlyEntry(p) /\ pc'[p] = pc[p] /\ npages'[p] = npages[p] /\ hdr'[p] = hdr[p]
      /\ dir_page'[p] = dir_page[p] /\ pmod'[p] = pmod[p] \ {i} /\ fmod'[p]
      /\ dhdr' = dhdr /\ dsize' = dsize
  BY <1>1, <1>2 DEF OnlyEntry, TypeOK, aux
<1>4. q \in Page /\ q.addr \in Addr
  BY <1>2, SessionFacts
<1>5. /\ dcell'[q.addr] = q
      /\ \A a \in Addr : a # q.addr => dcell'[a] = dcell[a]
  BY <1>1, <1>4 DEF TypeOK
<1>6. Consistent(hdr[p], dir_page[p], npages[p])'
  <2>1. ASSUME NEW h \in Used(dir_page[p], npages[p]), NEW a \in Extent(EntryOf(dir_page[p], h))
        PROVE  a \in Addr /\ dcell'[a] = dcell[a]
    <3>1. a \in Addr
      BY <1>2 DEF SessionInv, Consistent, OnDisk
    <3>2. q.addr # a
      BY <1>2 DEF SessionInv, Consistent, LaidOut
    <3>3. QED
      BY <1>5, <3>1, <3>2
  <2>2. QED
    BY <1>2, <1>3, <2>1, SplitNext, SplitConsistent DEF SessionInv, OnDisk
<1>7. Imaged(p)'
  <2>1. ASSUME NEW k \in 0 .. npages[p] - 1, k # i
        PROVE  \/ dcell'[dir_page[p][k].addr] = dir_page[p][k]
               \/ k \in pmod'[p]
    <3>1. dir_page[p][k].addr \in Addr /\ dir_page[p][k].addr # q.addr
      BY <1>2, <2>1, SessionFacts DEF SessionInv, Consistent, LaidOut
    <3>2. QED
      BY <1>2, <1>3, <1>5, <2>1, <3>1 DEF SessionInv, Imaged
  <2>2. QED
    BY <1>3, <1>5, <2>1 DEF Imaged
<1>8. SessionInv(p)' /\ Writing(p)'
  BY <1>2, <1>3, <1>6, <1>7 DEF SessionInv, Writing, CanWrite
<1>9. SelfAddressed' /\ OpenableIsConsistent'
  BY <1>2, <1>3, <1>5 DEF SelfAddressed, OpenableIsConsistent, OneWriterInv
<1>10. /\ dhdr'.fsiz <= dsize' /\ (dhdr'.fsiz = 0 => dsize' = 0) /\ dsize' >= dsize
       /\ hdr'[p].fsiz <= dsize' /\ pc'[p] = "flush"
  BY <1>1, <1>3 DEF OneWriterInv, SizesKnown, TypeOK
<1>11. QED
  BY <1>2, <1>3, <1>8, <1>9, <1>10, Assembled

\* The directory E of N pages is D of m pages, whose header is H, with the entry e at the
\* handle g and the entries of old marked deleted.
AddedAs(H, D, E, m, N, g, e, old) ==
    /\ g \in Handles /\ g \notin Used(D, m) /\ g[1] = N - 1
    /\ EntryOf(E, g) = e
    /\ Used(E, N) = Used(D, m) \cup {g}
    /\ Live(E, N) = (Live(D, m) \ old) \cup {g}
    /\ \A h \in Used(D, m) :
          EntryOf(E, h) = IF h \in old THEN [EntryOf(D, h) EXCEPT !.idtyp = DELETED]
                          ELSE EntryOf(D, h)
    /\ \A i \in 0 .. m - 1 : E[i].addr = D[i].addr
    /\ N = m \/ (N = m + 1 /\ E[m].addr = H.fsiz + 1)

\* The file in core after AddRecord: its directory and header, from those before.
LEMMA AddedDirectory ==
    ASSUME TypeOK, TypeOK', NEW p \in Procs, SessionInv(p), NEW v \in Vals, NEW n \in Lens,
           NEW old \in SUBSET Handles, \A h \in old : Valid(p, h), AddRecord(p, v, n, old)
    PROVE  LET k == PageFor(p)
               N == npages'[p]
               D == dir_page[p]
               E == dir_page'[p]
               at == SizeFor(p) + 1
           IN
           /\ WellFormed(hdr'[p], E, N)
           /\ \A h \in Used(E, N) :
                 \/ /\ h \in Used(D, npages[p])
                    /\ EntryOf(E, h).addr = EntryOf(D, h).addr
                    /\ EntryOf(E, h).lng = EntryOf(D, h).lng
                 \/ EntryOf(E, h).addr = at /\ EntryOf(E, h).lng = n
           /\ \A i \in 0 .. N - 1 : i \in 0 .. npages[p] - 1 \/ i \in pmod'[p]
           /\ \A i \in 0 .. npages[p] - 1 : i \in pmod'[p] \/ E[i] = D[i]
           /\ \E g : AddedAs(hdr[p], D, E, npages[p], N, g,
                             [idtyp |-> LIVE, val |-> v, addr |-> at, lng |-> n], old)
<1> DEFINE m == npages[p]
           k == PageFor(p)
           N == k + 1
           D == dir_page[p]
           at == SizeFor(p) + 1
           e == [idtyp |-> LIVE, val |-> v, addr |-> at, lng |-> n]
           G == PagesFor(p)
           A == [G EXCEPT ![k] = WithEntry(G[k], e)]
           H == hdr[p]
           HG == [H EXCEPT !.fsiz = SizeFor(p), !.nbd = N,
                           !.plst = IF LastFull(p) THEN H.fsiz + 1 ELSE H.plst]
           HA == [HG EXCEPT !.fsiz = at + n - 1, !.nrec = H.nrec + 1, !.nxtn = H.nxtn + 1,
                            !.nbig = Larger(n, H.nbig)]
<1>1. /\ m \in Nat /\ m > 0 /\ H.nbd = m /\ m <= MAX_DIR_PAGES /\ m - 1 \in PageIdx
      /\ m - 1 \in 0 .. m - 1
      /\ D \in [PageIdx -> Page] /\ H \in Header /\ WellFormed(H, D, m)
      /\ D[m - 1].nent \in 0 .. ENTRIES_PER_PAGE
      /\ H.fsiz \in Nat /\ H.nbd \in Nat /\ H.nrec \in Int /\ H.nxtn \in Nat /\ H.nbig \in Nat
      /\ n \in Nat /\ n > 0
  <2>1. m \in 0 .. MAX_DIR_PAGES /\ D \in [PageIdx -> Page] /\ H \in Header
    BY ProcType
  <2>2. m > 0 /\ H.nbd = m
    BY SessionFacts
  <2>3. m - 1 \in PageIdx /\ m - 1 \in 0 .. m - 1
    BY <2>1, <2>2, ConstAssumption DEF PageIdx
  <2>4. WellFormed(H, D, m)
    BY SplitConsistent DEF SessionInv
  <2>5. D[m - 1].nent \in 0 .. ENTRIES_PER_PAGE
    BY <2>1, <2>3, FieldType
  <2>6. QED
    BY <2>1, <2>2, <2>3, <2>4, <2>5, FieldType, ConstAssumption
<1>2. /\ k < MAX_DIR_PAGES /\ at + n - 1 <= MaxAddr
      /\ dir_page'[p] = [i \in PageIdx |->
             [A[i] EXCEPT !.entry =
                [s \in Slot |-> IF <<i, s>> \in old
                                THEN [A[i].entry[s] EXCEPT !.idtyp = DELETED]
                                ELSE A[i].entry[s]]]]
      /\ npages'[p] = N
      /\ pmod'[p] = pmod[p] \cup {m - 1, k} \cup {h[1] : h \in old}
      /\ hdr'[p] = [rwflg |-> H.rwflg, fsiz |-> at + n - 1,
                    nbd   |-> IF LastFull(p) THEN H.nbd + 1 ELSE H.nbd,
                    plst  |-> IF LastFull(p) THEN H.fsiz + 1 ELSE H.plst,
                    nrec  |-> H.nrec - Cardinality(old) + 1,
                    nxtn  |-> H.nxtn + 1, nbig  |-> Larger(n, H.nbig)]
  BY ZenonT(60) DEF AddRecord, TypeOK
<1>3. /\ LastFull(p) <=> D[m - 1].nent >= ENTRIES_PER_PAGE
      /\ LastFull(p) => k = m /\ N = m + 1 /\ SizeFor(p) = H.fsiz + 1
      /\ ~LastFull(p) => k = m - 1 /\ N = m /\ SizeFor(p) = H.fsiz /\ G = D
  <2>1. LastFull(p) <=> D[m - 1].nent >= ENTRIES_PER_PAGE
    BY DEF LastFull
  <2>2. CASE LastFull(p)
    <3>1. k = m /\ SizeFor(p) = H.fsiz + 1
      BY <2>2 DEF PageFor, SizeFor
    <3>2. QED
      BY <2>1, <2>2, <3>1
  <2>3. CASE ~LastFull(p)
    <3>1. k = m - 1 /\ SizeFor(p) = H.fsiz /\ G = D
      BY <2>3 DEF PageFor, SizeFor, PagesFor
    <3>2. N = m
      BY <1>1, <3>1
    <3>3. QED
      BY <2>1, <2>3, <3>1, <3>2
  <2>4. QED
    BY <2>2, <2>3
<1>4. /\ N \in Nat \ {0} /\ N <= MAX_DIR_PAGES /\ N - 1 = k /\ k \in PageIdx
      /\ at \in Nat /\ at + n - 1 \in 0 .. MaxAddr /\ SizeFor(p) \in 0 .. MaxAddr
      /\ at = SizeFor(p) + 1
  <2>1. k \in Nat /\ SizeFor(p) \in Nat
    BY <1>1, <1>3
  <2> HIDE DEF k
  <2>2. k \in PageIdx /\ N \in Nat \ {0} /\ N <= MAX_DIR_PAGES /\ N - 1 = k
    <3>1. k < MAX_DIR_PAGES /\ MAX_DIR_PAGES \in Nat
      BY <1>2, ConstAssumption
    <3>2. k \in 0 .. MAX_DIR_PAGES - 1
      BY <2>1, <3>1
    <3>3. k + 1 \in Nat \ {0} /\ k + 1 <= MAX_DIR_PAGES /\ k + 1 - 1 = k
      BY <2>1, <3>1
    <3>4. QED
      BY <3>2, <3>3 DEF PageIdx
  <2>3. QED
    BY <1>1, <1>2, <2>1, <2>2, ConstAssumption
<1>5. HG \in Header /\ HG.fsiz = SizeFor(p) /\ HG.nbd = N /\ HG.nrec = H.nrec
      /\ HG.nxtn = H.nxtn /\ HG.nbig = H.nbig
      /\ HG.plst = IF LastFull(p) THEN H.fsiz + 1 ELSE H.plst
  <2>1. (IF LastFull(p) THEN H.fsiz + 1 ELSE H.plst) \in Nat
    BY <1>1, FieldType
  <2> HIDE DEF N
  <2>2. QED
    BY <1>1, <1>4, <2>1 DEF Header
<1>6. HA.fsiz = at + n - 1 /\ HA.nbd = N /\ HA.plst = HG.plst /\ HA.nrec = H.nrec + 1
      /\ HA.nxtn = H.nxtn + 1 /\ HA.nbig = Larger(n, H.nbig)
  BY <1>5 DEF Header
<1> HIDE DEF HG, HA, at, N, k, G
<1>7. /\ WellFormed(HG, G, N) /\ G \in [PageIdx -> Page]
      /\ Used(G, N) = Used(D, m) /\ Live(G, N) = Live(D, m)
      /\ \A h \in Used(D, m) : EntryOf(G, h) = EntryOf(D, h)
      /\ \A i \in 0 .. m - 1 : /\ i # m - 1 => G[i] = D[i]
                               /\ G[i].addr = D[i].addr
      /\ N = m \/ (N = m + 1 /\ G[m].addr = H.fsiz + 1)
      /\ G[N - 1].nent < ENTRIES_PER_PAGE
  <2>1. CASE ~LastFull(p)
    <3>1. G = D /\ N = m
      BY <1>3, <2>1 DEF N
    <3>2. HG.fsiz = H.fsiz /\ HG.nbd = H.nbd /\ HG.plst = H.plst
      BY <1>1, <1>3, <1>5, <2>1, <3>1
    <3>3. WellFormed(HG, D, m)
      BY <1>1, <1>5, <3>2 DEF WellFormed, Counted
    <3>4. D[m - 1].nent < ENTRIES_PER_PAGE
      BY <1>1, <1>3, <2>1, ConstAssumption
    <3>5. QED
      BY <1>1, <3>1, <3>3, <3>4
  <2>2. CASE LastFull(p)
    <3>1. G = [D EXCEPT ![m - 1].nxt_addr = H.fsiz + 1, ![m] = NewPage(H.fsiz + 1)]
      BY <2>2 DEF G, PagesFor
    <3>2. N = m + 1 /\ k = m
      BY <1>3, <2>2 DEF N
    <3>3. m \in PageIdx /\ m - 1 # m /\ m < MAX_DIR_PAGES
      BY <1>1, <1>2, <1>4, <3>2
    <3>4. D[m - 1] \in Page /\ NewPage(H.fsiz + 1) \in Page
          /\ [D[m - 1] EXCEPT !.nxt_addr = H.fsiz + 1] \in Page
      <4>1. D[m - 1] \in Page /\ H.fsiz + 1 \in Nat
        BY <1>1
      <4>2. [D[m - 1] EXCEPT !.nxt_addr = H.fsiz + 1] \in Page
        BY <4>1 DEF Page
      <4>3. QED
        BY <4>1, <4>2, NewPageType
    <3>5. G \in [PageIdx -> Page] /\ G[m] = NewPage(H.fsiz + 1)
          /\ G[m - 1] = [D[m - 1] EXCEPT !.nxt_addr = H.fsiz + 1]
          /\ \A i \in PageIdx : i # m /\ i # m - 1 => G[i] = D[i]
      BY <1>1, <3>1, <3>3, <3>4
    <3>6. Grown(D, G, m, H.fsiz + 1)
      <4>1. ASSUME NEW i \in 0 .. m - 1, i # m - 1
            PROVE  G[i] = D[i]
        <5>1. i \in 0 .. MAX_DIR_PAGES - 1 /\ i # m
          BY <1>1, <3>3, ConstAssumption
        <5>2. QED
          BY <3>5, <4>1, <5>1 DEF PageIdx
      <4>2. /\ G[m - 1].addr = D[m - 1].addr /\ G[m - 1].nent = D[m - 1].nent
            /\ G[m - 1].entry = D[m - 1].entry /\ G[m - 1].nxt_addr = H.fsiz + 1
        <5>1. D[m - 1] \in Page /\ G[m - 1] = [D[m - 1] EXCEPT !.nxt_addr = H.fsiz + 1]
          BY <3>4, <3>5
        <5> HIDE DEF D, m, H
        <5>2. QED
          BY <5>1 DEF Page
      <4>3. QED
        BY <3>5, <4>1, <4>2 DEF Grown
    <3>7. /\ HG.fsiz = H.fsiz + 1 /\ HG.nbd = H.nbd + 1 /\ HG.plst = H.fsiz + 1
      BY <1>1, <1>3, <1>5, <2>2, <3>2
    <3>8. D[m - 1].nent >= ENTRIES_PER_PAGE /\ m \in Nat \ {0}
      BY <1>1, <1>3, <2>2
    <3>9. /\ WellFormed(HG, G, m + 1)
          /\ Used(G, m + 1) = Used(D, m) /\ Live(G, m + 1) = Live(D, m)
          /\ \A h \in Used(D, m) : EntryOf(G, h) = EntryOf(D, h)
      <4>1. HG.nrec = H.nrec /\ HG.nxtn = H.nxtn /\ HG.nbig = H.nbig
        BY <1>5
      <4>2. QED
        BY <1>1, <1>5, <3>3, <3>6, <3>7, <3>8, <4>1, GrowWellFormed
    <3>10. G[N - 1].nent < ENTRIES_PER_PAGE
      <4>1. G[N - 1] = NewPage(H.fsiz + 1)
        <5>1. N - 1 = m
          BY <1>1, <3>2
        <5>2. QED
          BY <3>5, <5>1
      <4>2. NewPage(H.fsiz + 1).nent = 0
        BY DEF NewPage
      <4>3. QED
        BY <4>1, <4>2, ConstAssumption
    <3>11. ASSUME NEW i \in 0 .. m - 1, i # m - 1
           PROVE  G[i] = D[i]
      <4>1. i \in 0 .. MAX_DIR_PAGES - 1 /\ i # m
        BY <1>1, <3>3, ConstAssumption
      <4>2. QED
        BY <3>5, <3>11, <4>1 DEF PageIdx
    <3>12. G[m - 1].addr = D[m - 1].addr /\ G[m].addr = H.fsiz + 1
      <4>1. NewPage(H.fsiz + 1).addr = H.fsiz + 1
        BY DEF NewPage
      <4>2. [D[m - 1] EXCEPT !.nxt_addr = H.fsiz + 1].addr = D[m - 1].addr
        BY <3>4 DEF Page
      <4>3. QED
        BY <3>5, <4>1, <4>2
    <3>13. QED
      BY <3>2, <3>5, <3>9, <3>10, <3>11, <3>12
  <2>3. QED
    BY <2>1, <2>2
<1>8. /\ A \in [PageIdx -> Page]
      /\ \A i \in PageIdx : i # k => A[i] = G[i]
      /\ A[k].addr = G[k].addr /\ A[k].nxt_addr = G[k].nxt_addr
      /\ A[k].nent = G[k].nent + 1
      /\ \A s \in Slot : A[k].entry[s] = IF s = G[k].nent THEN e ELSE G[k].entry[s]
  <2>1. G[k] \in Page /\ G[k].nent \in Slot /\ G[k].nent + 1 \in 0 .. ENTRIES_PER_PAGE
    <3>1. G[k] \in Page /\ G[k].nent < ENTRIES_PER_PAGE
      BY <1>4, <1>7
    <3>2. QED
      BY <3>1, ConstAssumption DEF Page, Slot
  <2>2. e \in Entry
    BY <1>1, <1>4 DEF Entry
  <2> HIDE DEF e
  <2>3. PICK q : q = G[k]
    OBVIOUS
  <2>4. /\ WithEntry(q, e) \in Page
        /\ WithEntry(q, e).addr = q.addr /\ WithEntry(q, e).nxt_addr = q.nxt_addr
        /\ WithEntry(q, e).nent = q.nent + 1
        /\ \A s \in Slot : WithEntry(q, e).entry[s] = IF s = q.nent THEN e ELSE q.entry[s]
    BY <2>1, <2>2, <2>3 DEF WithEntry, Page
  <2>5. QED
    BY <1>4, <1>7, <2>3, <2>4
<1> DEFINE g == <<N - 1, G[N - 1].nent>>
<1>9. /\ WellFormed(HA, A, N)
      /\ g \in Handles /\ g \notin Used(G, N)
      /\ EntryOf(A, g) = e
      /\ Used(A, N) = Used(G, N) \cup {g} /\ Live(A, N) = Live(G, N) \cup {g}
      /\ \A h \in Used(G, N) : EntryOf(A, h) = EntryOf(G, h)
  <2>1. e.idtyp = LIVE /\ e.addr = HG.fsiz + 1 /\ e.lng = n
    BY <1>4, <1>5
  <2>2. HA.fsiz = HG.fsiz + n /\ HA.nbd = HG.nbd /\ HA.plst = HG.plst
        /\ HA.nrec = HG.nrec + 1 /\ HA.nxtn = HG.nxtn + 1 /\ HA.nbig = Larger(n, HG.nbig)
    BY <1>1, <1>4, <1>5, <1>6
  <2>3. \A i \in 0 .. N - 1 : i \in PageIdx
    BY <1>4, ConstAssumption DEF PageIdx
  <2> HIDE DEF e, A
  <2>4. Appended(HG, G, HA, A, N, n, e)
    BY <1>4, <1>8, <2>1, <2>2, <2>3 DEF Appended
  <2>5. AppendReady(HG, G, HA, A, N, n, e)
    BY <1>4, <1>5, <1>7, <2>4, Zenon DEF AppendReady
  <2>6. AppendDone(G, HA, A, N, e)
    BY <2>5, AddWellFormed, Zenon
  <2>7. QED
    BY <2>6 DEF AppendDone
<1>20. g[1] = N - 1
  OBVIOUS
<1> HIDE DEF A, g
<1>10. Marked(A, dir_page'[p], old)
  BY <1>2 DEF Marked
<1>11. old \in SUBSET Live(A, N)
  <2>1. \A h \in old : h \in Live(D, m)
    BY DEF Valid, Live, EntryOf
  <2>2. QED
    BY <1>7, <1>9, <2>1
<1>12. hdr'[p].fsiz = HA.fsiz /\ hdr'[p].nbd = HA.nbd /\ hdr'[p].plst = HA.plst
       /\ hdr'[p].nxtn = HA.nxtn /\ hdr'[p].nbig = HA.nbig
       /\ hdr'[p].nrec = HA.nrec - Cardinality(old)
  <2>1. Cardinality(old) \in Nat
    BY HandlesFinite
  <2>2. HA.nbd = IF LastFull(p) THEN H.nbd + 1 ELSE H.nbd
    BY <1>1, <1>3, <1>6 DEF N
  <2>3. HA.plst = IF LastFull(p) THEN H.fsiz + 1 ELSE H.plst
    BY <1>5, <1>6
  <2>4. QED
    BY <1>1, <1>2, <1>6, <2>1, <2>2, <2>3
<1>13. PICK E : E = dir_page'[p]
  OBVIOUS
<1>14. PICK I : I = hdr'[p]
  OBVIOUS
<1>15. /\ WellFormed(I, E, N) /\ Resembles(A, E, N)
       /\ Live(E, N) = Live(A, N) \ old
       /\ \A h \in Handles :
             EntryOf(E, h) = IF h \in old THEN [EntryOf(A, h) EXCEPT !.idtyp = DELETED]
                             ELSE EntryOf(A, h)
  BY <1>4, <1>8, <1>9, <1>10, <1>11, <1>12, <1>13, <1>14, MarkedWellFormed
<1>16. ASSUME NEW h \in Used(E, N)
       PROVE  \/ /\ h \in Used(D, m)
                 /\ EntryOf(E, h).addr = EntryOf(D, h).addr
                 /\ EntryOf(E, h).lng = EntryOf(D, h).lng
              \/ EntryOf(E, h).addr = at /\ EntryOf(E, h).lng = n
  <2>1. /\ h \in Used(A, N)
        /\ EntryOf(E, h).addr = EntryOf(A, h).addr
        /\ EntryOf(E, h).lng = EntryOf(A, h).lng
    BY <1>4, <1>15, ResembleUsed
  <2>2. h = g \/ (h \in Used(D, m) /\ EntryOf(A, h) = EntryOf(D, h))
    BY <1>7, <1>9, <2>1
  <2>3. QED
    BY <1>9, <2>1, <2>2
<1>17. \A i \in 0 .. N - 1 : i \in 0 .. m - 1 \/ i \in pmod'[p]
  BY <1>1, <1>2, <1>3, <1>4
<1>18. ASSUME NEW i \in 0 .. m - 1, i \notin pmod'[p]
       PROVE  E[i] = D[i]
  <2>1. i \in PageIdx /\ i # m - 1 /\ i # k /\ \A s \in Slot : <<i, s>> \notin old
    <3>1. i \in PageIdx
      BY <1>1, <1>18, ConstAssumption DEF PageIdx
    <3>2. i \notin {m - 1, k} /\ i \notin {h[1] : h \in old}
      BY <1>2, <1>18
    <3>3. i # m - 1 /\ i # k
      BY <3>2
    <3>4. ASSUME NEW s \in Slot
          PROVE  <<i, s>> \notin old
      <4>1. <<i, s>>[1] = i
        OBVIOUS
      <4>2. QED
        BY <3>2, <4>1
    <3>5. QED
      BY <3>1, <3>3, <3>4
  <2>2. A[i] = D[i] /\ A[i] \in Page
    BY <1>7, <1>8, <2>1
  <2>3. E[i] = [A[i] EXCEPT !.entry = [s \in Slot |-> A[i].entry[s]]]
    BY <1>10, <1>13, <2>1 DEF Marked
  <2>4. QED
    BY <2>2, <2>3 DEF Page
<1>21. AddedAs(H, D, E, m, N, g, e, old)
  <2>1. old \subseteq Used(D, m) /\ Used(D, m) \subseteq Handles
    BY DEF Valid, Used, EntryOf
  <2>2. g \in Handles /\ g \notin Used(D, m) /\ g \notin old
    BY <1>7, <1>9, <2>1
  <2>3. EntryOf(E, g) = e
    BY <1>9, <1>15, <2>2
  <2>4. Used(E, N) = Used(D, m) \cup {g}
    BY <1>4, <1>7, <1>9, <1>15, ResembleUsed
  <2>5. Live(E, N) = (Live(D, m) \ old) \cup {g}
    BY <1>7, <1>9, <1>15, <2>2
  <2>6. \A h \in Used(D, m) :
           EntryOf(E, h) = IF h \in old THEN [EntryOf(D, h) EXCEPT !.idtyp = DELETED]
                           ELSE EntryOf(D, h)
    BY <1>7, <1>9, <1>15, <2>1
  <2>7. /\ \A i \in 0 .. m - 1 : E[i].addr = D[i].addr
        /\ N = m \/ (N = m + 1 /\ E[m].addr = H.fsiz + 1)
    <3>1. \A i \in 0 .. N - 1 : E[i].addr = A[i].addr /\ A[i].addr = G[i].addr
      <4>1. \A i \in 0 .. N - 1 : i \in PageIdx
        BY <1>4, ConstAssumption DEF PageIdx
      <4>2. QED
        BY <1>8, <1>15, <4>1 DEF Resembles
    <3>2. N = m \/ N = m + 1
      BY <1>7
    <3>3. \A i \in 0 .. m - 1 : i \in 0 .. N - 1
      BY <1>1, <3>2
    <3>4. N = m + 1 => m \in 0 .. N - 1
      BY <1>1
    <3>5. QED
      BY <1>7, <3>1, <3>2, <3>3, <3>4
  <2>8. QED
    BY <1>20, <2>2, <2>3, <2>4, <2>5, <2>6, <2>7 DEF AddedAs
<1>19. QED
  BY <1>2, <1>13, <1>14, <1>15, <1>16, <1>17, <1>18, <1>21 DEF at, e

\* What AddRecord does to the disk and to the other entries of the file tables.
LEMMA AddedRecord ==
    ASSUME TypeOK, NEW p \in Procs, pc[p] = "open", CanWrite(p), SessionInv(p),
           NEW v \in Vals, NEW n \in Lens, NEW old \in SUBSET Handles, AddRecord(p, v, n, old)
    PROVE  LET at == SizeFor(p) + 1 IN
           /\ OnlyEntry(p) /\ pc'[p] = "open" /\ fmod'[p] /\ pmod[p] \subseteq pmod'[p]
           /\ hdr'[p].rwflg = hdr[p].rwflg /\ hdr'[p].fsiz = at + n - 1
           /\ dhdr' = dhdr /\ dsize' = Larger(dsize, at + n - 1)
           /\ at \in Nat /\ at > hdr[p].fsiz /\ n \in Nat \ {0} /\ at + n - 1 <= MaxAddr
           /\ \A a \in Addr :
                 /\ a <= hdr[p].fsiz => dcell'[a] = dcell[a]
                 /\ a \in at .. at + n - 1 =>
                       /\ dcell'[a] \in RecUnit /\ dcell'[a].val = v
                       /\ dcell'[a].addr = at /\ dcell'[a].lng = n
                 /\ \/ dcell'[a] \in RecUnit
                    \/ dcell'[a] = NewPage(a)
                    \/ dcell'[a] = dcell[a]
                 /\ npages'[p] = npages[p] + 1 /\ a = hdr[p].fsiz + 1 =>
                       dcell'[a] = NewPage(a)
<1> DEFINE at == SizeFor(p) + 1
           e  == [idtyp |-> LIVE, val |-> v, addr |-> at, lng |-> n]
<1>1. /\ hdr[p].fsiz \in Nat /\ n \in Nat \ {0}
  BY SessionFacts, ConstAssumption
<1>2. at \in Nat /\ at > hdr[p].fsiz
  BY <1>1 DEF SizeFor
<1>3. /\ at + n - 1 <= MaxAddr
      /\ hdr'[p].rwflg = hdr[p].rwflg /\ hdr'[p].fsiz = at + n - 1
      /\ pmod[p] \subseteq pmod'[p] /\ fmod'[p]
      /\ dcell' = [a \in Addr |->
            IF a \in Extent(e)
            THEN [idtyp |-> LIVE, val |-> v, addr |-> at, lng |-> n]
            ELSE IF LastFull(p) /\ a = hdr[p].fsiz + 1 THEN NewPage(a)
            ELSE dcell[a]]
      /\ dsize' = Larger(dsize, at + n - 1)
      /\ UNCHANGED <<dhdr, pc, aux>>
  BY DEF AddRecord, TypeOK
<1>4. OnlyEntry(p)
  BY DEF AddRecord, OnlyEntry, TypeOK, aux
<1>5. Extent(e) = at .. at + n - 1
  BY DEF Extent
<1>6. e \in RecUnit /\ e.addr = at /\ e.lng = n /\ e.val = v
  BY <1>1, <1>2 DEF RecUnit
<1>9. npages'[p] = npages[p] + 1 => LastFull(p) /\ at = hdr[p].fsiz + 2
  <2>1. npages'[p] = PageFor(p) + 1 /\ npages[p] \in Nat
    BY ProcType, ConstAssumption DEF AddRecord, TypeOK
  <2>2. QED
    BY <1>1, <2>1 DEF PageFor, SizeFor
<1> HIDE DEF e, at
<1>7. ASSUME NEW a \in Addr
      PROVE  /\ a <= hdr[p].fsiz => dcell'[a] = dcell[a]
             /\ a \in at .. at + n - 1 =>
                   /\ dcell'[a] \in RecUnit /\ dcell'[a].val = v
                   /\ dcell'[a].addr = at /\ dcell'[a].lng = n
             /\ \/ dcell'[a] \in RecUnit
                \/ dcell'[a] = NewPage(a)
                \/ dcell'[a] = dcell[a]
             /\ npages'[p] = npages[p] + 1 /\ a = hdr[p].fsiz + 1 => dcell'[a] = NewPage(a)
  <2>1. a \in Nat
    BY ConstAssumption DEF Addr
  <2>2. dcell'[a] = IF a \in at .. at + n - 1 THEN e
                    ELSE IF LastFull(p) /\ a = hdr[p].fsiz + 1 THEN NewPage(a) ELSE dcell[a]
    BY <1>3, <1>5 DEF e
  <2>3. a <= hdr[p].fsiz => a \notin at .. at + n - 1 /\ a # hdr[p].fsiz + 1
    BY <1>1, <1>2, <2>1
  <2>4. npages'[p] = npages[p] + 1 /\ a = hdr[p].fsiz + 1 =>
           LastFull(p) /\ a \notin at .. at + n - 1
    BY <1>1, <1>2, <1>9, <2>1
  <2>5. QED
    BY <1>6, <2>2, <2>3, <2>4
<1>8. QED
  BY <1>1, <1>2, <1>3, <1>4, <1>7 DEF at

\* c_xdfput of a new record: behind everything the file holds, where the directory on disk
\* does not reach yet.
LEMMA AddRecordStep ==
    ASSUME TypeOK, TypeOK', OneWriterOnly, OneWriterInv, NEW p \in Procs,
           pc[p] = "open", CanWrite(p), NEW v \in Vals, NEW n \in Lens,
           NEW old \in SUBSET Handles, \A h \in old : Valid(p, h), AddRecord(p, v, n, old)
    PROVE  OneWriterInv'
<1>1. SessionInv(p) /\ p \in Writers
  BY DEF OneWriterInv, Writing, CanWrite
<1>2. PICK at : at = SizeFor(p) + 1
  OBVIOUS
<1>3. PICK D : D = dir_page[p]
  OBVIOUS
<1>4. PICK E : E = dir_page'[p]
  OBVIOUS
<1>5. PICK m : m = npages[p]
  OBVIOUS
<1>6. PICK N : N = npages'[p]
  OBVIOUS
<1>7. PICK size : size = hdr[p].fsiz
  OBVIOUS
<1>8. /\ OnlyEntry(p) /\ pc'[p] = "open" /\ fmod'[p] /\ pmod[p] \subseteq pmod'[p]
      /\ hdr'[p].rwflg = hdr[p].rwflg /\ hdr'[p].fsiz = at + n - 1
      /\ dhdr' = dhdr /\ dsize' = Larger(dsize, at + n - 1)
      /\ at \in Nat /\ at > size /\ n \in Nat \ {0} /\ at + n - 1 <= MaxAddr
  BY <1>1, <1>2, <1>7, AddedRecord
<1>9. ASSUME NEW a \in Addr
      PROVE  /\ a <= size => dcell'[a] = dcell[a]
             /\ a \in at .. at + n - 1 =>
                   /\ dcell'[a] \in RecUnit
                   /\ dcell'[a].addr = at /\ dcell'[a].lng = n
             /\ \/ dcell'[a] \in RecUnit
                \/ dcell'[a] = NewPage(a)
                \/ dcell'[a] = dcell[a]
  BY <1>1, <1>2, <1>7, AddedRecord
<1>10. /\ WellFormed(hdr'[p], E, N)
       /\ \A h \in Used(E, N) :
             \/ /\ h \in Used(D, m)
                /\ EntryOf(E, h).addr = EntryOf(D, h).addr
                /\ EntryOf(E, h).lng = EntryOf(D, h).lng
             \/ EntryOf(E, h).addr = at /\ EntryOf(E, h).lng = n
       /\ \A i \in 0 .. N - 1 : i \in 0 .. m - 1 \/ i \in pmod'[p]
       /\ \A i \in 0 .. m - 1 : i \in pmod'[p] \/ E[i] = D[i]
  <2>1. LET k == PageFor(p)
            S == npages'[p]
            F == dir_page[p]
            G == dir_page'[p]
            to == SizeFor(p) + 1
        IN
        /\ WellFormed(hdr'[p], G, S)
        /\ \A h \in Used(G, S) :
              \/ /\ h \in Used(F, npages[p])
                 /\ EntryOf(G, h).addr = EntryOf(F, h).addr
                 /\ EntryOf(G, h).lng = EntryOf(F, h).lng
              \/ EntryOf(G, h).addr = to /\ EntryOf(G, h).lng = n
        /\ \A i \in 0 .. S - 1 : i \in 0 .. npages[p] - 1 \/ i \in pmod'[p]
        /\ \A i \in 0 .. npages[p] - 1 : i \in pmod'[p] \/ G[i] = F[i]
    BY <1>1, AddedDirectory, Zenon
  <2>2. QED
    BY <1>2, <1>3, <1>4, <1>5, <1>6, <2>1
<1>11. /\ m \in Nat /\ size \in 2 .. MaxAddr
       /\ \A i \in 0 .. m - 1 : D[i].addr \in Addr /\ D[i].addr <= size
  BY <1>1, <1>3, <1>5, <1>7, SessionFacts
<1>12. ASSUME NEW h \in Used(E, N), NEW a \in Extent(EntryOf(E, h))
       PROVE  /\ a \in Addr /\ dcell'[a] \in RecUnit
              /\ dcell'[a].addr = EntryOf(E, h).addr /\ dcell'[a].lng = EntryOf(E, h).lng
  <2>1. CASE /\ h \in Used(D, m)
             /\ EntryOf(E, h).addr = EntryOf(D, h).addr
             /\ EntryOf(E, h).lng = EntryOf(D, h).lng
    <3>1. a \in Extent(EntryOf(D, h))
      BY <2>1 DEF Extent
    <3>2. /\ a \in Addr /\ dcell[a] \in RecUnit
          /\ dcell[a].addr = EntryOf(D, h).addr /\ dcell[a].lng = EntryOf(D, h).lng
      BY <1>1, <1>3, <1>5, <2>1, <3>1 DEF SessionInv, Consistent, OnDisk
    <3>3. a <= size
      <4>1. EntryOf(D, h) \in Entry
        BY <1>3, <1>11, <2>1, ProcType, UsedHandle, FieldType DEF EntryOf
      <4>2. EntryOf(D, h).addr \in Nat /\ EntryOf(D, h).lng \in Nat
        BY <1>1, <1>3, <1>5, <2>1, <4>1, ConstAssumption
           DEF Entry, NoEntry, SessionInv, Consistent, LaidOut
      <4>3. EntryOf(D, h).addr + EntryOf(D, h).lng - 1 <= size
        BY <1>1, <1>3, <1>5, <1>7, <2>1 DEF SessionInv, Consistent, LaidOut
      <4>4. QED
        BY <1>11, <3>1, <4>2, <4>3 DEF Extent
    <3>4. QED
      BY <1>9, <2>1, <3>2, <3>3
  <2>2. CASE EntryOf(E, h).addr = at /\ EntryOf(E, h).lng = n
    <3>1. a \in at .. at + n - 1
      BY <2>2 DEF Extent
    <3>2. a \in Addr
      BY <1>8, <1>11, <3>1, ConstAssumption DEF Addr
    <3>3. QED
      BY <1>9, <2>2, <3>1, <3>2
  <2>3. QED
    BY <1>10, <2>1, <2>2
<1>13. Consistent(hdr[p], dir_page[p], npages[p])'
  BY <1>4, <1>6, <1>10, <1>12, SplitNext
<1>14. Imaged(p)'
  <2>1. ASSUME NEW i \in 0 .. N - 1, i \notin pmod'[p]
        PROVE  dcell'[E[i].addr] = E[i]
    <3>1. i \in 0 .. m - 1 /\ E[i] = D[i] /\ i \notin pmod[p]
      BY <1>8, <1>10, <2>1
    <3>2. dcell[D[i].addr] = D[i]
      BY <1>1, <1>3, <1>5, <3>1 DEF SessionInv, Imaged
    <3>3. QED
      BY <1>9, <1>11, <3>1, <3>2
  <2>2. QED
    BY <1>4, <1>6, <1>8, <2>1 DEF Imaged
<1>15. at + n - 1 \in Nat /\ at + n - 1 >= size
  BY <1>8, <1>11
<1>16. dhdr.fsiz \in Nat /\ dsize \in Nat /\ dhdr.nbd \in Nat
  BY FieldType DEF TypeOK
<1>17. SessionInv(p)'
  <2>1. dhdr'.rwflg = RDMODE => dhdr'.fsiz <= hdr'[p].fsiz
    BY <1>1, <1>7, <1>8, <1>11, <1>15, <1>16 DEF SessionInv
  <2>2. QED
    BY <1>8, <1>13, <1>14, <2>1 DEF SessionInv
<1>18. SelfAddressed'
  <2>1. \A a \in Addr : NewPage(a).addr = a
    BY DEF NewPage
  <2>2. QED
    BY <1>9, <2>1, RecordIsNotPage DEF OneWriterInv, SelfAddressed
<1>19. OpenableIsConsistent'
  <2>1. SUFFICES ASSUME dhdr.rwflg = RDMODE, dhdr.nbd > 0
                 PROVE  \E c \in [0 .. dhdr'.nbd - 1 -> DiskPages'] : WholeChain(c)'
    BY <1>8 DEF OpenableIsConsistent, WholeChain
  <2>2. PICK c \in [0 .. dhdr.nbd - 1 -> DiskPages] : WholeChain(c)
    BY <2>1 DEF OneWriterInv, OpenableIsConsistent, WholeChain
  <2>3. \A a \in Addr : a <= dhdr.fsiz => SameUnit(a)
    <3>1. dhdr.fsiz <= size
      BY <1>1, <1>7, <2>1 DEF SessionInv
    <3>2. \A a \in Addr : a \in Nat
      BY ConstAssumption DEF Addr
    <3>3. QED
      BY <1>9, <1>11, <1>16, <3>1, <3>2 DEF SameUnit
  <2>4. QED
    BY <1>8, <2>2, <2>3, ChainKept DEF OneWriterInv
<1>20. /\ dhdr'.fsiz <= dsize' /\ (dhdr'.fsiz = 0 => dsize' = 0) /\ dsize' >= dsize
       /\ hdr'[p].fsiz <= dsize'
  <2>1. dhdr.fsiz <= dsize /\ dhdr.fsiz # 0
    <3>1. dhdr.fsiz = 0 => dsize = 0
      BY DEF OneWriterInv, SizesKnown
    <3>2. size <= dsize
      BY <1>7 DEF OneWriterInv, SizesKnown
    <3>3. QED
      BY <1>11, <1>16, <3>1, <3>2 DEF OneWriterInv, SizesKnown
  <2>2. dsize' >= dsize /\ dsize' >= at + n - 1
    BY <1>8, <1>15, <1>16 DEF Larger
  <2>3. QED
    BY <1>8, <1>15, <1>16, <2>1, <2>2, TypeOK DEF TypeOK
<1>21. Writing(p)'
  BY <1>8 DEF Writing, CanWrite
<1>22. QED
  BY <1>1, <1>8, <1>17, <1>18, <1>19, <1>20, <1>21, Assembled

\* No file: nothing to agree with.
LEMMA OneWriterInit == Init => OneWriterInv
<1> SUFFICES ASSUME Init PROVE OneWriterInv
  OBVIOUS
<1>1. SelfAddressed
  BY RecordIsNotPage DEF Init, SelfAddressed
<1>2. SizesKnown
  BY DEF Init, SizesKnown, EmptyHeader
<1>3. EntriesClean /\ \A p \in Procs : pc[p] = "closed"
  BY DEF Init, EntriesClean
<1>4. OpenableIsConsistent
  BY DEF Init, OpenableIsConsistent, EmptyHeader
<1>5. QED
  BY <1>1, <1>2, <1>3, <1>4 DEF OneWriterInv, Writing

\* Every step of the writer, and every step of a reader, keeps the invariant.
LEMMA OneWriterStep ==
    ASSUME TypeOK, TypeOK', OneWriterOnly, OneWriterInv, [Next]_vars
    PROVE  OneWriterInv'
<1>1. CASE UNCHANGED vars
  <2>1. UNCHANGED disk /\ \A p \in Procs : Undisturbed(p)
    BY <1>1 DEF vars, disk, core, aux, Undisturbed
  <2>2. /\ dhdr' = dhdr /\ dsize' = dsize /\ hdr' = hdr /\ fmod' = fmod /\ pc' = pc
        /\ npages' = npages
    BY <1>1 DEF vars, disk, core
  <2>3. SelfAddressed' /\ OpenableIsConsistent'
    BY <2>1, DiskSteady DEF OneWriterInv
  <2>4. \A q \in Procs : /\ Writing(q)' => SessionInv(q)'
                         /\ pc'[q] = "loading" /\ CanWrite(q)' => LoadingInv(q)'
    BY <2>1, EntryKept
  <2>5. QED
    BY <2>2, <2>3, <2>4 DEF OneWriterInv, SizesKnown, EntriesClean, Writing, CanWrite
<1>2. CASE Next
  <2>1. PICK p \in Procs :
           \/ Create(p)
           \/ \E mode \in {RDMODE, RWMODE, APPEND} : Open(p, mode)
           \/ LoadPage(p)
           \/ \E v \in Vals, n \in Lens : PutNew(p, v, n)
           \/ \E h \in Handles, v \in Vals, n \in Lens : PutMove(p, h, v, n)
           \/ \E h \in Handles, v \in Vals : PutInPlace(p, h, v)
           \/ PutDirFull(p)
           \/ \E h \in Handles : Delete(p, h)
           \/ \E checkpoint \in BOOLEAN : CloseBegin(p, checkpoint)
           \/ \E i \in PageIdx : FlushErase(p, i) \/ FlushPage(p, i)
           \/ CheckpointEnd(p) \/ CloseEnd(p) \/ CloseRefused(p)
           \/ Crash(p)
    BY <1>2, Zenon DEF Next
  <2>2. CASE \E v \in Vals, n \in Lens : PutNew(p, v, n)
    <3>1. PICK v \in Vals, n \in Lens : PutNew(p, v, n)
      BY <2>2
    <3>2. pc[p] = "open" /\ CanWrite(p) /\ AddRecord(p, v, n, {})
      BY <3>1 DEF PutNew
    <3>3. {} \in SUBSET Handles /\ \A h \in {} : Valid(p, h)
      OBVIOUS
    <3>4. QED
      BY <3>2, <3>3, AddRecordStep
  <2>3. CASE \E h \in Handles, v \in Vals, n \in Lens : PutMove(p, h, v, n)
    <3>1. PICK g \in Handles, v \in Vals, n \in Lens : PutMove(p, g, v, n)
      BY <2>3
    <3>2. pc[p] = "open" /\ CanWrite(p) /\ Valid(p, g) /\ AddRecord(p, v, n, {g})
      BY <3>1 DEF PutMove
    <3>3. {g} \in SUBSET Handles /\ \A h \in {g} : Valid(p, h)
      BY <3>2
    <3>4. QED
      BY <3>2, <3>3, AddRecordStep
  <2>4. CASE \/ Create(p)
             \/ \E mode \in {RDMODE, RWMODE, APPEND} : Open(p, mode)
             \/ LoadPage(p)
    BY <2>4, CreateStep, OpenStep, LoadPageStep
  <2>5. CASE \/ \E h \in Handles, v \in Vals : PutInPlace(p, h, v)
             \/ PutDirFull(p)
             \/ \E h \in Handles : Delete(p, h)
    BY <2>5, PutInPlaceStep, PutDirFullStep, DeleteStep
  <2>6. CASE \/ \E checkpoint \in BOOLEAN : CloseBegin(p, checkpoint)
             \/ \E i \in PageIdx : FlushErase(p, i) \/ FlushPage(p, i)
             \/ CheckpointEnd(p)
    BY <2>6, CloseBeginStep, FlushEraseStep, FlushPageStep, CheckpointEndStep
  <2>7. CASE CloseEnd(p) \/ CloseRefused(p) \/ Crash(p)
    BY <2>7, CloseEndStep, CloseRefusedStep, CrashStep
  <2>8. QED
    BY <2>1, <2>2, <2>3, <2>4, <2>5, <2>6, <2>7
<1>3. QED
  BY <1>1, <1>2

\* The invariant holds in every state a single writer and any number of readers reach.
LEMMA OneWriterInvariant ==
    ASSUME OneWriterOnly
    PROVE  Spec => [](TypeOK /\ OneWriterInv)
<1>1. Init => TypeOK /\ HasPage /\ OneWriterInv
  BY InitType, OneWriterInit DEF Init, HasPage
<1>2. TypeOK /\ HasPage /\ OneWriterInv /\ [Next]_vars
        => TypeOK' /\ HasPage' /\ OneWriterInv'
  BY TypeStep, HasPageStep, OneWriterStep
<1>3. QED
  BY <1>1, <1>2, PTL DEF Spec

\* The directory a writer has in core agrees with its header and with the file after every
\* call of c_xdfput, c_xdfdel and c_xdfcls, in every order and number, for every number of
\* pages, slots, records and readers: one process writes at a time and closes only what it
\* opened.
THEOREM WriterStaysConsistent ==
    ASSUME OneWriterOnly
    PROVE  Spec => []WriterConsistent
<1>1. OneWriterInv => WriterConsistent
  BY DEF OneWriterInv, SessionInv, WriterConsistent
<1>2. QED
  BY <1>1, OneWriterInvariant, PTL

\* Wherever the writer dies, a file that c_xdfopn will open for writing again has its whole
\* directory on disk.
THEOREM OpenableStaysConsistent ==
    ASSUME OneWriterOnly
    PROVE  Spec => []OpenableIsConsistent
<1>1. OneWriterInv => OpenableIsConsistent
  BY DEF OneWriterInv
<1>2. QED
  BY <1>1, OneWriterInvariant, PTL

-----------------------------------------------------------------------------
(* ReadersSeeRecords: what those who do not write the file find through their directories,
   while a session writes it, dies or closes it. *)

\* An entry that may be followed after a step.
SoundNext(e) ==
    /\ e.addr \in Addr /\ e.lng \in Lens /\ e.addr + e.lng - 1 <= dhdr'.fsiz
    /\ \A a \in Extent(e) : /\ a \in Addr /\ dcell'[a] \in RecUnit
                            /\ dcell'[a].addr = e.addr /\ dcell'[a].lng = e.lng

\* A step that keeps the records keeps the entries that lead to them.
LEMMA SoundKept ==
    ASSUME TypeOK, TypeOK', RecordsKept, NEW e, Sound(e)
    PROVE  SoundNext(e)
<1>1. /\ e.addr \in Addr /\ e.lng \in Lens /\ e.addr + e.lng - 1 <= dhdr.fsiz
      /\ \A a \in Extent(e) : /\ a \in Addr /\ dcell[a] \in RecUnit
                              /\ dcell[a].addr = e.addr /\ dcell[a].lng = e.lng
  BY DEF Sound, OnDisk
<1>2. dhdr.fsiz \in Nat /\ dhdr'.fsiz \in Nat /\ dhdr.fsiz <= dhdr'.fsiz
  BY FieldType DEF TypeOK, RecordsKept
<1>3. e.addr \in Nat /\ e.lng \in Nat
  <2>1. /\ \A a \in Addr : a \in Nat
        /\ \A l \in Lens : l \in Nat
    BY ConstAssumption DEF Addr
  <2>2. QED
    BY <1>1, <2>1
<1>4. e.addr + e.lng - 1 <= dhdr'.fsiz
  BY <1>1, <1>2, <1>3
<1>5. ASSUME NEW a \in Extent(e)
      PROVE  a \in Addr /\ a <= dhdr.fsiz
  <2>1. a \in e.addr .. e.addr + e.lng - 1 /\ a \in Addr
    BY <1>1 DEF Extent
  <2>2. a \in Nat
    BY <2>1, ConstAssumption DEF Addr
  <2>3. QED
    BY <1>1, <1>2, <1>3, <2>1, <2>2
<1>6. QED
  BY <1>1, <1>4, <1>5 DEF SoundNext, RecordsKept

\* Nothing on disk changes: nothing is lost.
LEMMA SameDiskKept ==
    ASSUME TypeOK, UNCHANGED disk
    PROVE  RecordsKept
BY FieldType DEF TypeOK, RecordsKept, disk

\* The units of records keep their records.
LEMMA SameUnitsKept ==
    ASSUME TypeOK, TypeOK', dhdr.fsiz <= dhdr'.fsiz,
           \A a \in Addr : a <= dhdr.fsiz => SameUnit(a)
    PROVE  RecordsKept
BY RecordIsNotPage DEF SameUnit, RecordsKept

\* What a step of p has to show.
LEMMA ReadersAssembled ==
    ASSUME TypeOK, TypeOK', OneWriterOnly, ReadersInv, NEW p \in Procs, OnlyEntry(p),
           UNCHANGED disk \/ p \in Writers, RecordsKept,
           \A a \in Addr, s \in Slot :
              dcell'[a] \in Page /\ dcell'[a].entry[s].idtyp # SPECIAL =>
                 dcell'[a] = dcell[a] \/ SoundNext(dcell'[a].entry[s]),
           ~Writing(p)' => \A h \in Used(dir_page'[p], npages'[p]) :
                              SoundNext(EntryOf(dir_page'[p], h)),
           Writing(p)' =>
              /\ dhdr'.fsiz <= hdr'[p].fsiz
              /\ pc'[p] = "flush" => hdr'[p].fsiz = dhdr'.fsiz
              /\ \A i \in 0 .. npages'[p] - 1 :
                    dir_page'[p][i].addr \in Addr /\ dcell'[dir_page'[p][i].addr] \in Page
    PROVE  ReadersInv'
<1>1. PagesSound'
  <2>1. ASSUME NEW a \in Addr, NEW s \in Slot, dcell'[a] \in Page,
               dcell'[a].entry[s].idtyp # SPECIAL
        PROVE  SoundNext(dcell'[a].entry[s])
    <3>1. CASE dcell'[a] = dcell[a]
      <4>1. Sound(dcell[a].entry[s])
        BY <2>1, <3>1 DEF ReadersInv, PagesSound, DiskPages
      <4>2. QED
        BY <3>1, <4>1, SoundKept
    <3>2. QED
      BY <2>1, <3>1
  <2>2. QED
    BY <2>1 DEF PagesSound, DiskPages, Sound, OnDisk, SoundNext
<1>2. ReadersSound'
  <2>1. ASSUME NEW q \in Procs, ~Writing(q)', NEW h \in Used(dir_page'[q], npages'[q])
        PROVE  SoundNext(EntryOf(dir_page'[q], h))
    <3>1. CASE q = p
      BY <2>1, <3>1
    <3>2. CASE q # p
      <4>1. dir_page'[q] = dir_page[q] /\ npages'[q] = npages[q] /\ ~Writing(q)
        BY <2>1, <3>2 DEF OnlyEntry, Writing, CanWrite
      <4>2. Sound(EntryOf(dir_page[q], h))
        BY <2>1, <4>1 DEF ReadersInv, ReadersSound
      <4>3. QED
        BY <4>1, <4>2, SoundKept
    <3>3. QED
      BY <3>1, <3>2
  <2>2. QED
    BY <2>1 DEF ReadersSound, Sound, OnDisk, SoundNext
<1>3. WritersAhead'
  <2>1. ASSUME NEW q \in Procs, q # p, Writing(q)'
        PROVE  /\ dhdr'.fsiz <= hdr'[q].fsiz
               /\ pc'[q] = "flush" => hdr'[q].fsiz = dhdr'.fsiz
               /\ \A i \in 0 .. npages'[q] - 1 :
                     dir_page'[q][i].addr \in Addr /\ dcell'[dir_page'[q][i].addr] \in Page
    <3>1. /\ dir_page'[q] = dir_page[q] /\ npages'[q] = npages[q] /\ hdr'[q] = hdr[q]
          /\ pc'[q] = pc[q] /\ Writing(q) /\ q \in Writers
      BY <2>1 DEF OnlyEntry, Writing, CanWrite
    <3>2. dhdr' = dhdr /\ dcell' = dcell
      BY <2>1, <3>1 DEF OneWriterOnly, disk
    <3>3. QED
      BY <3>1, <3>2 DEF ReadersInv, WritersAhead, DiskPages
  <2>2. QED
    BY <2>1 DEF WritersAhead, DiskPages
<1>4. QED
  BY <1>1, <1>2, <1>3 DEF ReadersInv

\* The same when nothing is written.
LEMMA ReadersInCore ==
    ASSUME TypeOK, TypeOK', OneWriterOnly, ReadersInv, NEW p \in Procs, OnlyEntry(p),
           UNCHANGED disk,
           ~Writing(p)' => \A h \in Used(dir_page'[p], npages'[p]) :
                              Sound(EntryOf(dir_page'[p], h)),
           Writing(p)' =>
              /\ dhdr.fsiz <= hdr'[p].fsiz
              /\ pc'[p] = "flush" => hdr'[p].fsiz = dhdr.fsiz
              /\ \A i \in 0 .. npages'[p] - 1 : dir_page'[p][i].addr \in DiskPages
    PROVE  ReadersInv' /\ RecordsKept
<1>1. RecordsKept /\ dhdr' = dhdr /\ dcell' = dcell
  BY SameDiskKept DEF disk
<1>2. \A h : Sound(EntryOf(dir_page'[p], h)) => SoundNext(EntryOf(dir_page'[p], h))
  BY <1>1, SoundKept
<1>3. QED
  BY <1>1, <1>2, ReadersAssembled DEF DiskPages

\* A free entry of the file table, and a page just allocated, have no record.
LEMMA NoneUsed ==
    /\ \A D : Used(D, 0) = {}
    /\ \A a, s : s \in Slot => NewPage(a).entry[s].idtyp = SPECIAL
BY ConstAssumption DEF Used, Handles, PageIdx, NewPage, NoEntry

\* The session of a writer.
LEMMA WriterFacts ==
    ASSUME TypeOK, OneWriterInv, ReadersInv, NEW p \in Procs, Writing(p)
    PROVE  /\ SessionInv(p) /\ p \in Writers /\ npages[p] \in Nat
           /\ dhdr.fsiz \in Nat /\ hdr[p].fsiz \in Nat /\ dhdr.fsiz <= hdr[p].fsiz
           /\ pc[p] = "flush" => hdr[p].fsiz = dhdr.fsiz
           /\ \A i \in 0 .. npages[p] - 1 :
                 /\ dir_page[p][i].addr \in Addr /\ dcell[dir_page[p][i].addr] \in Page
                 /\ dir_page[p][i].addr \in DiskPages
<1>1. SessionInv(p) /\ p \in Writers /\ npages[p] \in Nat
  BY SessionFacts DEF OneWriterInv, Writing, CanWrite
<1>2. dhdr.fsiz \in Nat /\ hdr[p].fsiz \in Nat
  BY FieldType DEF TypeOK
<1>3. QED
  BY <1>1, <1>2 DEF ReadersInv, WritersAhead, DiskPages

\* After a step, the places of a session's pages hold pages if all are written.
LEMMA PlacesNext ==
    ASSUME TypeOK', NEW p \in Procs, SessionInv(p)', ~fmod'[p]
    PROVE  \A i \in 0 .. npages'[p] - 1 :
              dir_page'[p][i].addr \in Addr /\ dcell'[dir_page'[p][i].addr] \in Page
<1>1. /\ hdr'[p] \in Header /\ dir_page'[p] \in [PageIdx -> Page]
      /\ npages'[p] \in 0 .. MAX_DIR_PAGES
  BY DEF TypeOK
<1>2. WellFormed(hdr'[p], dir_page'[p], npages'[p])
  BY SplitNext DEF SessionInv
<1>3. \A i \in 0 .. npages'[p] - 1 : dcell'[dir_page'[p][i].addr] = dir_page'[p][i]
  BY DEF SessionInv, Imaged
<1>4. ASSUME NEW i \in 0 .. npages'[p] - 1
      PROVE  dir_page'[p][i].addr \in Addr /\ dir_page'[p][i] \in Page
  <2>1. dir_page'[p][i].addr \in 2 .. hdr'[p].fsiz /\ hdr'[p].fsiz \in 0 .. MaxAddr
    BY <1>1, <1>2, FieldType DEF WellFormed, LaidOut
  <2>2. i \in PageIdx
    BY <1>1, ConstAssumption DEF PageIdx
  <2>3. QED
    BY <1>1, <2>1, <2>2, ConstAssumption DEF Addr
<1>5. QED
  BY <1>3, <1>4

\* c_xdfopn reads the header: no page yet.
LEMMA OpenReaders ==
    ASSUME TypeOK, TypeOK', OneWriterOnly, OneWriterInv, ReadersInv, NEW p \in Procs,
           NEW mode \in {RDMODE, RWMODE, APPEND}, Open(p, mode)
    PROVE  ReadersInv' /\ RecordsKept
<1>1. /\ pc[p] = "closed" /\ pc'[p] \in {"refused", "loading"} /\ npages'[p] = npages[p]
      /\ UNCHANGED disk
  BY DEF Open, TypeOK
<1>2. OnlyEntry(p)
  BY DEF Open, OnlyEntry, TypeOK
<1>3. npages'[p] = 0
  BY <1>1 DEF OneWriterInv, EntriesClean
<1>4. Used(dir_page'[p], npages'[p]) = {}
  BY <1>3, NoneUsed
<1>5. ~Writing(p)'
  BY <1>1 DEF Writing
<1>6. QED
  BY <1>1, <1>2, <1>4, <1>5, ReadersInCore

\* The entry of the file table is freed, whatever the process was doing.
LEMMA FreedReaders ==
    ASSUME TypeOK, TypeOK', OneWriterOnly, ReadersInv, NEW p \in Procs, OnlyEntry(p),
           UNCHANGED disk, pc'[p] = "closed", npages'[p] = 0
    PROVE  ReadersInv' /\ RecordsKept
<1>1. Used(dir_page'[p], npages'[p]) = {} /\ ~Writing(p)'
  BY NoneUsed DEF Writing
<1>2. QED
  BY <1>1, ReadersInCore

\* c_xdfopn reads one more page: a page of the disk, or a blank one where nothing is.
LEMMA LoadPageReaders ==
    ASSUME TypeOK, TypeOK', OneWriterOnly, OneWriterInv, OneWriterInv', ReadersInv,
           NEW p \in Procs, LoadPage(p)
    PROVE  ReadersInv' /\ RecordsKept
<1> DEFINE i == npages[p]
           page == PageRead(wdaddr[p], fsize[p], NewPage(hdr[p].fsiz + 1))
<1>1. /\ pc[p] = "loading" /\ i < MAX_DIR_PAGES /\ i \in Nat
      /\ dir_page'[p] = [dir_page[p] EXCEPT ![i] = page]
      /\ npages'[p] = i + 1 /\ hdr'[p] = hdr[p] /\ fmod'[p] = fmod[p]
      /\ pc'[p] \in {"refused", "open", "loading"}
      /\ UNCHANGED disk
  <2> HIDE DEF page
  <2>1. /\ pc[p] = "loading" /\ i < MAX_DIR_PAGES
        /\ dir_page' = [dir_page EXCEPT ![p][i] = page]
        /\ npages' = [npages EXCEPT ![p] = i + 1]
        /\ \E x \in {"refused", "open", "loading"} : pc' = [pc EXCEPT ![p] = x]
        /\ UNCHANGED <<disk, hdr, pmod, fmod, fsize, ckpt>>
    BY DEF LoadPage, page
  <2>2. QED
    BY <2>1, ConstAssumption DEF TypeOK
<1>2. OnlyEntry(p)
  BY ZenonT(60) DEF LoadPage, OnlyEntry, TypeOK
<1>3. ~Writing(p) /\ ~fmod[p]
  BY <1>1 DEF Writing, OneWriterInv, EntriesClean
<1>4. ASSUME NEW s \in Slot, page.entry[s].idtyp # SPECIAL
      PROVE  Sound(page.entry[s])
  <2>1. page \in {dcell[a] : a \in DiskPages} \/ page = NewPage(hdr[p].fsiz + 1)
    BY DEF PageRead, DiskPages
  <2>2. PICK a \in DiskPages : page = dcell[a]
    BY <1>4, <2>1, NoneUsed
  <2>3. QED
    BY <1>4, <2>2 DEF ReadersInv, PagesSound
<1> HIDE DEF page
<1>5. ASSUME NEW h \in Used(dir_page'[p], npages'[p])
      PROVE  Sound(EntryOf(dir_page'[p], h))
  <2>1. /\ h \in Handles /\ h[1] < i + 1 /\ EntryOf(dir_page'[p], h).idtyp # SPECIAL
        /\ h[1] \in PageIdx /\ h[2] \in Slot /\ h[1] \in Nat
    BY <1>1, <1>5, ConstAssumption DEF Used, Handles, PageIdx
  <2>2. dir_page[p] \in [PageIdx -> Page]
    BY ProcType
  <2>3. CASE h[1] = i
    BY <1>1, <1>4, <2>1, <2>2, <2>3 DEF EntryOf
  <2>4. CASE h[1] # i
    <3>1. EntryOf(dir_page'[p], h) = EntryOf(dir_page[p], h) /\ h[1] < i
      BY <1>1, <2>1, <2>2, <2>4 DEF EntryOf
    <3>2. h \in Used(dir_page[p], npages[p])
      BY <2>1, <3>1 DEF Used
    <3>3. QED
      BY <1>3, <3>1, <3>2 DEF ReadersInv, ReadersSound
  <2>5. QED
    BY <2>3, <2>4
<1>6. ASSUME Writing(p)'
      PROVE  /\ dhdr.fsiz <= hdr'[p].fsiz /\ pc'[p] # "flush"
             /\ \A k \in 0 .. npages'[p] - 1 : dir_page'[p][k].addr \in DiskPages
  <2>1. CanWrite(p) /\ SessionInv(p)'
    BY <1>1, <1>6 DEF OneWriterInv, Writing, CanWrite
  <2>2. LoadingInv(p)
    BY <1>1, <2>1 DEF OneWriterInv
  <2>3. hdr[p].fsiz = dhdr.fsiz
    <3>1. hdr[p] = [dhdr EXCEPT !.rwflg = hdr[p].rwflg] /\ dhdr \in Header
      BY <2>2 DEF LoadingInv, TypeOK
    <3>2. QED
      BY <3>1 DEF Header
  <2>4. \A k \in 0 .. npages'[p] - 1 : dir_page'[p][k].addr \in DiskPages
    BY <1>1, <1>3, <2>1, PlacesNext DEF DiskPages, disk
  <2>5. QED
    BY <1>1, <2>3, <2>4, FieldType DEF TypeOK
<1>7. QED
  BY <1>1, <1>2, <1>5, <1>6, ReadersInCore

\* A session marks pages, or ends a checkpoint: nothing is written.
LEMMA MarkedReaders ==
    ASSUME TypeOK, TypeOK', OneWriterOnly, OneWriterInv, ReadersInv, NEW p \in Procs,
           PutDirFull(p) \/ CheckpointEnd(p)
    PROVE  ReadersInv' /\ RecordsKept
<1>1. /\ hdr'[p] = hdr[p] /\ dir_page'[p] = dir_page[p] /\ npages'[p] = npages[p]
      /\ UNCHANGED disk /\ pc'[p] = "open"
  BY DEF PutDirFull, CheckpointEnd, TypeOK
<1>2. OnlyEntry(p)
  BY DEF PutDirFull, CheckpointEnd, OnlyEntry, TypeOK, aux
<1>3. pc[p] \in {"open", "flush"} /\ Writing(p)' = Writing(p)
  BY <1>1 DEF PutDirFull, CheckpointEnd, Writing, CanWrite
<1>4. ASSUME ~Writing(p)', NEW h \in Used(dir_page'[p], npages'[p])
      PROVE  Sound(EntryOf(dir_page'[p], h))
  BY <1>1, <1>3, <1>4 DEF ReadersInv, ReadersSound
<1>5. QED
  BY <1>1, <1>2, <1>3, <1>4, WriterFacts, ReadersInCore

\* An entry takes another type or content: its place stays, and the units of its record.
LEMMA RetouchedReaders ==
    ASSUME TypeOK, TypeOK', OneWriterOnly, OneWriterInv, ReadersInv, NEW p \in Procs,
           NEW h, NEW r, Retouched(p, h, r)
    PROVE  ReadersInv' /\ RecordsKept
<1>1. /\ OnlyEntry(p) /\ Writing(p) /\ pc'[p] = pc[p] /\ npages'[p] = npages[p]
      /\ h \in Handles /\ h[1] < npages[p] /\ Replaced(dir_page[p], dir_page'[p], h, r)
      /\ EntryOf(dir_page[p], h).idtyp # SPECIAL /\ r.idtyp # SPECIAL
      /\ r.addr = EntryOf(dir_page[p], h).addr /\ r.lng = EntryOf(dir_page[p], h).lng
      /\ hdr'[p] = [hdr[p] EXCEPT !.nrec = Cardinality(Live(dir_page'[p], npages[p]))]
      /\ dhdr' = dhdr /\ dsize' = dsize /\ \A a \in Addr : SameUnit(a)
  BY Zenon DEF Retouched
<1>2. hdr'[p].fsiz = hdr[p].fsiz /\ hdr'[p].rwflg = hdr[p].rwflg
  <2>1. hdr[p] \in Header
    BY ProcType
  <2>2. QED
    BY <1>1, <2>1 DEF Header
<1>3. Writing(p)'
  BY <1>1, <1>2 DEF Writing, CanWrite
<1>4. RecordsKept
  <2>1. dhdr.fsiz <= dhdr'.fsiz
    BY <1>1, FieldType DEF TypeOK
  <2>2. QED
    BY <1>1, <2>1, SameUnitsKept
<1>5. \A a \in Addr : dcell[a] \in Page \/ dcell'[a] \in Page => dcell'[a] = dcell[a]
  BY <1>1, RecordIsNotPage DEF SameUnit
<1>6. \A i \in 0 .. npages[p] - 1 : dir_page'[p][i].addr = dir_page[p][i].addr
  <2>1. dir_page[p] \in [PageIdx -> Page] /\ npages[p] \in Nat /\ npages[p] <= MAX_DIR_PAGES
    BY ProcType, ConstAssumption
  <2>2. Resembles(dir_page[p], dir_page'[p], npages[p])
    BY <1>1, <2>1, ReplacedEntry
  <2>3. QED
    BY <2>2 DEF Resembles
<1>7. QED
  BY <1>1, <1>2, <1>3, <1>4, <1>5, <1>6, WriterFacts, ReadersAssembled

\* c_xdfput of a new record: behind everything that is announced.
LEMMA AddRecordReaders ==
    ASSUME TypeOK, TypeOK', OneWriterOnly, OneWriterInv, ReadersInv, NEW p \in Procs,
           pc[p] = "open", CanWrite(p), NEW v \in Vals, NEW n \in Lens,
           NEW old \in SUBSET Handles, \A h \in old : Valid(p, h), AddRecord(p, v, n, old)
    PROVE  ReadersInv' /\ RecordsKept
<1>1. Writing(p) /\ Writing(p)' /\ pc'[p] = "open"
  BY DEF Writing, CanWrite, AddRecord, TypeOK
<1>2. PICK at : at = SizeFor(p) + 1
  OBVIOUS
<1>3. /\ SessionInv(p) /\ p \in Writers /\ npages[p] \in Nat
      /\ dhdr.fsiz \in Nat /\ hdr[p].fsiz \in Nat /\ dhdr.fsiz <= hdr[p].fsiz
      /\ \A i \in 0 .. npages[p] - 1 :
            dir_page[p][i].addr \in Addr /\ dcell[dir_page[p][i].addr] \in Page
      /\ \A i \in 0 .. npages[p] - 1 : dir_page[p][i].addr \in 2 .. hdr[p].fsiz
  BY <1>1, WriterFacts, SessionFacts
<1>4. /\ OnlyEntry(p) /\ hdr'[p].fsiz = at + n - 1 /\ dhdr' = dhdr
      /\ at \in Nat /\ at > hdr[p].fsiz /\ n \in Nat \ {0} /\ at + n - 1 <= MaxAddr
  BY <1>2, <1>3, AddedRecord
<1>5. ASSUME NEW a \in Addr
      PROVE  /\ a \in Nat /\ (a <= hdr[p].fsiz => dcell'[a] = dcell[a])
             /\ \/ dcell'[a] \in RecUnit
                \/ dcell'[a] = NewPage(a)
                \/ dcell'[a] = dcell[a]
             /\ npages'[p] = npages[p] + 1 /\ a = hdr[p].fsiz + 1 => dcell'[a] = NewPage(a)
  BY <1>3, AddedRecord, ConstAssumption DEF Addr
<1>6. PICK g : AddedAs(hdr[p], dir_page[p], dir_page'[p], npages[p], npages'[p], g,
                       [idtyp |-> LIVE, val |-> v, addr |-> at, lng |-> n], old)
  BY <1>2, <1>3, AddedDirectory
<1>7. /\ \A i \in 0 .. npages[p] - 1 : dir_page'[p][i].addr = dir_page[p][i].addr
      /\ \/ npages'[p] = npages[p]
         \/ npages'[p] = npages[p] + 1 /\ dir_page'[p][npages[p]].addr = hdr[p].fsiz + 1
  BY <1>6 DEF AddedAs
<1>8. RecordsKept
  <2>1. \A a \in Addr : a <= dhdr.fsiz => SameUnit(a)
    BY <1>3, <1>5 DEF SameUnit
  <2>2. QED
    BY <1>3, <1>4, <2>1, SameUnitsKept
<1>9. ASSUME NEW a \in Addr, NEW s \in Slot, dcell'[a] \in Page,
             dcell'[a].entry[s].idtyp # SPECIAL
      PROVE  dcell'[a] = dcell[a]
  BY <1>5, <1>9, NoneUsed, RecordIsNotPage
<1>10. ASSUME NEW i \in 0 .. npages'[p] - 1
       PROVE  dir_page'[p][i].addr \in Addr /\ dcell'[dir_page'[p][i].addr] \in Page
  <2>1. CASE i \in 0 .. npages[p] - 1
    BY <1>3, <1>5, <1>7, <2>1
  <2>2. CASE i \notin 0 .. npages[p] - 1
    <3>1. i = npages[p] /\ npages'[p] = npages[p] + 1
          /\ dir_page'[p][i].addr = hdr[p].fsiz + 1
      BY <1>3, <1>7, <1>10, <2>2
    <3>2. hdr[p].fsiz + 1 \in Addr
      BY <1>3, <1>4, ConstAssumption DEF Addr
    <3>3. dcell'[hdr[p].fsiz + 1] = NewPage(hdr[p].fsiz + 1)
      BY <1>5, <3>1, <3>2
    <3>4. QED
      BY <1>3, <3>1, <3>2, <3>3, NewPageType
  <2>3. QED
    BY <2>1, <2>2
<1>11. dhdr'.fsiz <= hdr'[p].fsiz
  BY <1>3, <1>4
<1>12. QED
  BY <1>1, <1>3, <1>4, <1>8, <1>9, <1>10, <1>11, ReadersAssembled

\* c_xdfcls writes the header first: it announces what the session has put.
LEMMA CloseBeginReaders ==
    ASSUME TypeOK, TypeOK', OneWriterOnly, OneWriterInv, ReadersInv, NEW p \in Procs,
           NEW checkpoint \in BOOLEAN, CloseBegin(p, checkpoint)
    PROVE  ReadersInv' /\ RecordsKept
<1>1. /\ pc[p] = "open" /\ pc'[p] = "flush" /\ hdr'[p] = hdr[p] /\ dir_page'[p] = dir_page[p]
      /\ npages'[p] = npages[p]
      /\ dhdr' = (IF CanWrite(p) THEN hdr[p] ELSE dhdr) /\ dcell' = dcell /\ dsize' = dsize
      /\ Writing(p)' = CanWrite(p) /\ Writing(p) = CanWrite(p)
  BY DEF CloseBegin, TypeOK, core, CanWrite, Writing
<1>2. OnlyEntry(p)
  BY DEF CloseBegin, OnlyEntry, TypeOK, core
<1>3. CASE ~CanWrite(p)
  <2>1. \A h \in Used(dir_page'[p], npages'[p]) : Sound(EntryOf(dir_page'[p], h))
    BY <1>1, <1>3 DEF ReadersInv, ReadersSound
  <2>2. UNCHANGED disk
    BY <1>1, <1>3 DEF disk
  <2>3. QED
    BY <1>1, <1>2, <1>3, <2>1, <2>2, ReadersInCore
<1>4. CASE CanWrite(p)
  <2>1. /\ p \in Writers /\ dhdr' = hdr[p] /\ dhdr.fsiz <= dhdr'.fsiz /\ Writing(p)'
        /\ \A i \in 0 .. npages[p] - 1 :
              dir_page[p][i].addr \in Addr /\ dcell[dir_page[p][i].addr] \in Page
    BY <1>1, <1>4, WriterFacts
  <2>2. RecordsKept
    BY <1>1, <2>1, SameUnitsKept DEF SameUnit
  <2>3. dhdr'.fsiz = hdr'[p].fsiz /\ dhdr'.fsiz <= hdr'[p].fsiz
    BY <1>1, <2>1, FieldType DEF TypeOK
  <2>4. QED
    BY <1>1, <1>2, <2>1, <2>2, <2>3, ReadersAssembled
<1>5. QED
  BY <1>3, <1>4

\* A page is written over the one it extends; what it leads to is announced already.
LEMMA FlushPageReaders ==
    ASSUME TypeOK, TypeOK', OneWriterOnly, OneWriterInv, ReadersInv, NEW p \in Procs,
           NEW i \in PageIdx, FlushPage(p, i)
    PROVE  ReadersInv' /\ RecordsKept
<1> DEFINE q == dir_page[p][i]
<1>1. /\ pc[p] = "flush" /\ FlushNext(p, i) /\ pc'[p] = pc[p] /\ npages'[p] = npages[p]
      /\ hdr'[p] = hdr[p] /\ dir_page'[p] = dir_page[p] /\ dhdr' = dhdr
      /\ dcell' = [dcell EXCEPT ![q.addr] = q]
  BY DEF FlushPage
<1>2. OnlyEntry(p)
  BY DEF FlushPage, OnlyEntry, TypeOK, aux
<1>3. Writing(p) /\ i \in 0 .. npages[p] - 1
  BY <1>1, FlushFacts
<1>4. /\ SessionInv(p) /\ p \in Writers /\ npages[p] \in Nat /\ hdr[p].fsiz = dhdr.fsiz
      /\ dhdr.fsiz \in Nat
      /\ \A k \in 0 .. npages[p] - 1 :
            dir_page[p][k].addr \in Addr /\ dcell[dir_page[p][k].addr] \in Page
  BY <1>1, <1>3, WriterFacts
<1>5. q \in Page /\ q.addr \in Addr /\ dcell[q.addr] \in Page
  BY <1>3, <1>4, SessionFacts
<1>6. /\ dcell'[q.addr] = q
      /\ \A a \in Addr : a # q.addr => dcell'[a] = dcell[a]
  BY <1>1, <1>5 DEF TypeOK
<1>7. Writing(p)'
  BY <1>1, <1>3 DEF Writing, CanWrite
<1>8. RecordsKept
  BY <1>1, <1>4, <1>5, <1>6, RecordIsNotPage DEF RecordsKept
<1>9. ASSUME NEW s \in Slot, q.entry[s].idtyp # SPECIAL
      PROVE  SoundNext(q.entry[s])
  <2>1. PICK h : h = <<i, s>>
    OBVIOUS
  <2>2. h \in Used(dir_page[p], npages[p]) /\ EntryOf(dir_page[p], h) = q.entry[s]
    BY <1>3, <1>4, <1>9, <2>1, UsedHandle DEF EntryOf
  <2>3. /\ OnDisk(q.entry[s]) /\ q.entry[s].lng \in Lens
        /\ q.entry[s].addr + q.entry[s].lng - 1 <= dhdr.fsiz
    BY <1>4, <2>2 DEF SessionInv, Consistent, LaidOut
  <2>4. q.entry[s].addr \in Addr
    <3>1. q.entry[s] \in Entry
      BY <1>5, FieldType
    <3>2. q.entry[s].addr \in Nat /\ q.entry[s].lng \in Nat \ {0}
      BY <1>9, <2>3, <3>1, ConstAssumption DEF Entry, NoEntry
    <3>3. q.entry[s].addr \in Extent(q.entry[s])
      BY <3>2 DEF Extent
    <3>4. QED
      BY <2>3, <3>3 DEF OnDisk
  <2>5. QED
    BY <1>8, <2>3, <2>4, SoundKept DEF Sound
<1> HIDE DEF q
<1>10. ASSUME NEW a \in Addr, NEW s \in Slot, dcell'[a] \in Page,
              dcell'[a].entry[s].idtyp # SPECIAL
       PROVE  dcell'[a] = dcell[a] \/ SoundNext(dcell'[a].entry[s])
  BY <1>6, <1>9, <1>10
<1>11. ASSUME NEW k \in 0 .. npages'[p] - 1
       PROVE  dir_page'[p][k].addr \in Addr /\ dcell'[dir_page'[p][k].addr] \in Page
  BY <1>1, <1>4, <1>5, <1>6, <1>11
<1>12. QED
  BY <1>1, <1>2, <1>4, <1>7, <1>8, <1>10, <1>11, ReadersAssembled

\* The last write of c_xdfcls: the header again, without flag.
LEMMA CloseEndReaders ==
    ASSUME TypeOK, TypeOK', OneWriterOnly, OneWriterInv, ReadersInv, NEW p \in Procs,
           CloseEnd(p)
    PROVE  ReadersInv' /\ RecordsKept
<1>1. /\ pc[p] = "flush" /\ pc'[p] = "closed" /\ npages'[p] = 0
      /\ dcell' = dcell /\ dsize' = dsize
      /\ dhdr' = IF CanWrite(p) THEN [hdr[p] EXCEPT !.rwflg = RDMODE] ELSE dhdr
  BY DEF CloseEnd, Forget, TypeOK
<1>2. OnlyEntry(p)
  BY DEF CloseEnd, Forget, OnlyEntry, TypeOK
<1>3. CASE ~CanWrite(p)
  BY <1>1, <1>2, <1>3, FreedReaders DEF disk
<1>4. CASE CanWrite(p)
  <2>1. p \in Writers /\ dhdr.fsiz <= hdr[p].fsiz
    BY <1>1, <1>4, WriterFacts DEF Writing
  <2>2. dhdr'.fsiz = hdr[p].fsiz
    <3>1. hdr[p] \in Header
      BY ProcType
    <3>2. QED
      BY <1>1, <1>4, <3>1 DEF Header
  <2>3. RecordsKept
    BY <1>1, <2>1, <2>2, SameUnitsKept DEF SameUnit
  <2>4. Used(dir_page'[p], npages'[p]) = {} /\ ~Writing(p)'
    BY <1>1, NoneUsed DEF Writing
  <2>5. QED
    BY <1>1, <1>2, <2>1, <2>3, <2>4, ReadersAssembled
<1>5. QED
  BY <1>3, <1>4

\* c_xdfopn "CREATE": nothing was announced before.
LEMMA CreateReaders ==
    ASSUME TypeOK, TypeOK', OneWriterOnly, OneWriterInv, ReadersInv, NEW p \in Procs, Create(p)
    PROVE  ReadersInv' /\ RecordsKept
<1>1. /\ p \in Writers /\ dhdr.fsiz = 0 /\ dhdr' = NewHeader /\ pc'[p] = "open"
      /\ dcell' = [dcell EXCEPT ![2] = NewPage(2)]
      /\ hdr'[p] = [rwflg |-> CREATE, fsiz |-> 2, nbd |-> 1, plst |-> 2,
                    nrec |-> 0, nxtn |-> 0, nbig |-> 0]
      /\ dir_page'[p] = [dir_page[p] EXCEPT ![0] = NewPage(2)]
      /\ npages'[p] = 1
  BY DEF Create, TypeOK
<1>2. OnlyEntry(p)
  BY DEF Create, OnlyEntry, TypeOK, aux
<1>3. dhdr'.fsiz = 1 /\ hdr'[p].fsiz = 2 /\ Writing(p)'
  BY <1>1 DEF NewHeader, EmptyHeader, Writing, CanWrite
<1>4. 2 \in Addr /\ 0 \in PageIdx /\ NewPage(2) \in Page /\ NewPage(2).addr = 2
  BY ConstAssumption, NewPageType DEF Addr, PageIdx, NewPage
<1>5. /\ dcell'[2] = NewPage(2) /\ dir_page'[p][0] = NewPage(2)
      /\ \A a \in Addr : a # 2 => dcell'[a] = dcell[a]
  BY <1>1, <1>4 DEF TypeOK
<1>6. \A a \in Addr : ~(a <= dhdr.fsiz)
  BY <1>1, ConstAssumption DEF Addr
<1>7. RecordsKept
  BY <1>1, <1>3, <1>6 DEF RecordsKept
<1>8. \A i \in 0 .. npages'[p] - 1 :
         dir_page'[p][i].addr \in Addr /\ dcell'[dir_page'[p][i].addr] \in Page
  <2>1. \A i \in 0 .. npages'[p] - 1 : i = 0
    BY <1>1
  <2>2. QED
    BY <1>4, <1>5, <2>1
<1>9. ASSUME NEW a \in Addr, NEW s \in Slot, dcell'[a].entry[s].idtyp # SPECIAL
      PROVE  dcell'[a] = dcell[a]
  BY <1>5, <1>9, NoneUsed
<1>10. \A a \in Addr, s \in Slot :
          dcell'[a] \in Page /\ dcell'[a].entry[s].idtyp # SPECIAL =>
             dcell'[a] = dcell[a] \/ SoundNext(dcell'[a].entry[s])
  BY <1>9
<1>11. ~Writing(p)' => \A h \in Used(dir_page'[p], npages'[p]) :
                         SoundNext(EntryOf(dir_page'[p], h))
  BY <1>3
<1>12. Writing(p)' =>
          /\ dhdr'.fsiz <= hdr'[p].fsiz
          /\ pc'[p] = "flush" => hdr'[p].fsiz = dhdr'.fsiz
          /\ \A i \in 0 .. npages'[p] - 1 :
                dir_page'[p][i].addr \in Addr /\ dcell'[dir_page'[p][i].addr] \in Page
  BY <1>1, <1>3, <1>8
<1>13. p \in Writers
  BY <1>1
<1>14. QED
  BY <1>2, <1>7, <1>10, <1>11, <1>12, <1>13, ReadersAssembled

\* No file, no entry to follow.
LEMMA ReadersInit == Init => ReadersInv
<1> SUFFICES ASSUME Init PROVE ReadersInv
  OBVIOUS
<1>1. PagesSound
  BY RecordIsNotPage DEF Init, PagesSound, DiskPages
<1>2. ReadersSound
  BY NoneUsed DEF Init, ReadersSound
<1>3. WritersAhead
  BY DEF Init, WritersAhead, Writing
<1>4. QED
  BY <1>1, <1>2, <1>3 DEF ReadersInv

\* Every step keeps the records and what leads to them.
LEMMA ReadersStep ==
    ASSUME TypeOK, TypeOK', OneWriterOnly, OneWriterInv, OneWriterInv', ReadersInv, [Next]_vars
    PROVE  ReadersInv' /\ RecordsKept
<1>1. CASE UNCHANGED vars
  <2>1. /\ dhdr' = dhdr /\ dcell' = dcell /\ dsize' = dsize /\ hdr' = hdr /\ pc' = pc
        /\ dir_page' = dir_page /\ npages' = npages
    BY <1>1 DEF vars, disk, core
  <2>2. RecordsKept
    BY <2>1, SameDiskKept DEF disk
  <2>3. ReadersInv'
    BY <2>1 DEF ReadersInv, PagesSound, ReadersSound, WritersAhead, DiskPages, Sound, OnDisk,
                Writing, CanWrite
  <2>4. QED
    BY <2>2, <2>3
<1>2. CASE Next
  <2>1. PICK p \in Procs :
           \/ Create(p)
           \/ \E mode \in {RDMODE, RWMODE, APPEND} : Open(p, mode)
           \/ LoadPage(p)
           \/ \E v \in Vals, n \in Lens : PutNew(p, v, n)
           \/ \E h \in Handles, v \in Vals, n \in Lens : PutMove(p, h, v, n)
           \/ \E h \in Handles, v \in Vals : PutInPlace(p, h, v)
           \/ PutDirFull(p)
           \/ \E h \in Handles : Delete(p, h)
           \/ \E checkpoint \in BOOLEAN : CloseBegin(p, checkpoint)
           \/ \E i \in PageIdx : FlushErase(p, i) \/ FlushPage(p, i)
           \/ CheckpointEnd(p) \/ CloseEnd(p) \/ CloseRefused(p)
           \/ Crash(p)
    BY <1>2, Zenon DEF Next
  <2>2. CASE \E v \in Vals, n \in Lens : PutNew(p, v, n)
    <3>1. PICK v \in Vals, n \in Lens : PutNew(p, v, n)
      BY <2>2
    <3>2. pc[p] = "open" /\ CanWrite(p) /\ AddRecord(p, v, n, {})
      BY <3>1 DEF PutNew
    <3>3. {} \in SUBSET Handles /\ \A h \in {} : Valid(p, h)
      OBVIOUS
    <3>4. QED
      BY <3>2, <3>3, AddRecordReaders
  <2>3. CASE \E h \in Handles, v \in Vals, n \in Lens : PutMove(p, h, v, n)
    <3>1. PICK g \in Handles, v \in Vals, n \in Lens : PutMove(p, g, v, n)
      BY <2>3
    <3>2. pc[p] = "open" /\ CanWrite(p) /\ Valid(p, g) /\ AddRecord(p, v, n, {g})
      BY <3>1 DEF PutMove
    <3>3. {g} \in SUBSET Handles /\ \A h \in {g} : Valid(p, h)
      BY <3>2
    <3>4. QED
      BY <3>2, <3>3, AddRecordReaders
  <2>4. CASE \/ \E h \in Handles, v \in Vals : PutInPlace(p, h, v)
             \/ \E h \in Handles : Delete(p, h)
             \/ \E i \in PageIdx : FlushErase(p, i)
    <3>1. PICK h, r : Retouched(p, h, r)
      <4>1. CASE \E h \in Handles, v \in Vals : PutInPlace(p, h, v)
        BY <4>1, PutInPlaceFacts
      <4>2. CASE \E h \in Handles : Delete(p, h)
        <5>1. PICK h \in Handles : Delete(p, h)
          BY <4>2
        <5>2. Retouched(p, h, [EntryOf(dir_page[p], h) EXCEPT !.idtyp = DELETED])
          BY <1>1, <5>1, DeleteFacts
        <5>3. QED
          BY <5>2, Zenon
      <4>3. CASE \E i \in PageIdx : FlushErase(p, i)
        BY <4>3, FlushEraseFacts, Zenon
      <4>4. QED
        BY <2>4, <4>1, <4>2, <4>3
    <3>2. QED
      BY <3>1, RetouchedReaders
  <2>5. CASE \/ Create(p)
             \/ \E mode \in {RDMODE, RWMODE, APPEND} : Open(p, mode)
             \/ LoadPage(p) \/ PutDirFull(p) \/ CheckpointEnd(p)
    BY <2>5, CreateReaders, OpenReaders, LoadPageReaders, MarkedReaders
  <2>6. CASE \/ \E checkpoint \in BOOLEAN : CloseBegin(p, checkpoint)
             \/ \E i \in PageIdx : FlushPage(p, i)
             \/ CloseEnd(p)
    BY <2>6, CloseBeginReaders, FlushPageReaders, CloseEndReaders
  <2>7. CASE CloseRefused(p) \/ Crash(p)
    <3>1. pc'[p] = "closed" /\ npages'[p] = 0
      BY <2>7 DEF CloseRefused, Crash, Forget, TypeOK
    <3>2. UNCHANGED disk
      BY <2>7 DEF CloseRefused, Crash, OneWriterOnly, CanWrite, disk
    <3>3. OnlyEntry(p)
      BY <2>7 DEF CloseRefused, Crash, Forget, OnlyEntry, TypeOK
    <3>4. QED
      BY <3>1, <3>2, <3>3, FreedReaders
  <2>8. QED
    BY <2>1, <2>2, <2>3, <2>4, <2>5, <2>6, <2>7
<1>3. QED
  BY <1>1, <1>2

\* All of it in every state.
LEMMA ReadersInvariant ==
    ASSUME OneWriterOnly
    PROVE  Spec => [](TypeOK /\ OneWriterInv /\ ReadersInv) /\ [][RecordsKept]_vars
<1>1. Init => TypeOK /\ HasPage /\ OneWriterInv /\ ReadersInv
  BY InitType, OneWriterInit, ReadersInit DEF Init, HasPage
<1>2. TypeOK /\ HasPage /\ OneWriterInv /\ ReadersInv /\ [Next]_vars
        => TypeOK' /\ HasPage' /\ OneWriterInv' /\ ReadersInv' /\ RecordsKept
  <2>1. TypeOK /\ HasPage /\ [Next]_vars => TypeOK' /\ HasPage'
    BY TypeStep, HasPageStep
  <2>2. QED
    BY <2>1, OneWriterStep, ReadersStep
<1>3. QED
  BY <1>1, <1>2, PTL DEF Spec

\* What the code promises a program that only reads: as long as one process at a time
\* writes the file, every entry a reader has in core, however old, leads to the units of a
\* record of that place and length: while records are added, rewritten, moved, deleted and
\* erased, and wherever the writer dies.
THEOREM ReadersAlwaysSeeRecords ==
    ASSUME OneWriterOnly
    PROVE  Spec => []ReadersSeeRecords
<1>1. TypeOK /\ OneWriterInv /\ ReadersInv => ReadersSeeRecords
  BY DEF ReadersInv, ReadersSound, ReadersSeeRecords, Sound, OneWriterInv, SessionInv,
         Consistent
<1>2. QED
  BY <1>1, ReadersInvariant, PTL

\* No unit of a record below the announced size is ever given to something else.
THEOREM RecordsStay ==
    ASSUME OneWriterOnly
    PROVE  Spec => [][RecordsKept]_vars
BY ReadersInvariant, PTL
=============================================================================
