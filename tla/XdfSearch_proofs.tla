--------------------------- MODULE XdfSearch_proofs ---------------------------
(* Why a search finds the first record behind where it starts, for every file and however
   the same entry of the file table was used before; and what a handle says of a record. *)
EXTENDS XdfSearch, XdfHandle, XdfFile_proofs

\* The position c_xdfloc2 and next_match keep belongs to the record the search returned
\* last, and the keys are still there: nothing a program does between two searches may
\* change one without the other, or fstsui would go on from somewhere else.
GoesOn(p) ==
    last[p] # NoSlot => /\ last[p] \in Handles
                        /\ pos[p] = StartBehind(last[p])
                        /\ target[p] \in Vals

\* What SearchFindsFirst says of one process.
FindsFirst(p) ==
    LET f      == found[p]
        behind == {h \in Matching(p, target[p]) : Before(f.from, h)}
    IN f.from # NoSlot /\ f.from[1] < npages[p] =>
          /\ f.status = "handle" => /\ f.handle \in behind
                                    /\ \A g \in behind : ~Before(g, f.handle)
          /\ f.status = "ERR_NOT_FOUND" => behind = {}
          /\ f.status \in {"none", "handle", "ERR_NOT_FOUND"}

\* One value for each process.
PerProcess == \A f \in {pos, target, found, last} : f = [p \in Procs |-> f[p]]

SearchInv == PerProcess /\ \A p \in Procs : GoesOn(p) /\ FindsFirst(p)

\* The first of some handles, in the order of the file.
LEMMA FirstHandle ==
    ASSUME NEW S \in SUBSET Handles, S # {}
    PROVE  \E h \in S : \A g \in S : ~Before(g, h)
<1>1. \A h \in Handles : h[1] \in Nat /\ h[2] \in Nat
  BY ConstAssumption DEF Handles, PageIdx, Slot
<1>2. PICK m \in {h[1] : h \in S} : \A k \in {h[1] : h \in S} : m <= k
  <2>1. {h[1] : h \in S} \in SUBSET Nat /\ {h[1] : h \in S} # {}
    BY <1>1
  <2>2. QED
    BY <2>1, LeastElement
<1>3. PICK n \in {h[2] : h \in {g \in S : g[1] = m}} :
         \A k \in {h[2] : h \in {g \in S : g[1] = m}} : n <= k
  <2>1. /\ {h[2] : h \in {g \in S : g[1] = m}} \in SUBSET Nat
        /\ {h[2] : h \in {g \in S : g[1] = m}} # {}
    BY <1>1, <1>2
  <2>2. QED
    BY <2>1, LeastElement
<1>4. PICK h \in S : h[1] = m /\ h[2] = n
  BY <1>3
<1>5. ASSUME NEW g \in S, Before(g, h)
      PROVE  FALSE
  <2>1. m <= g[1] /\ (g[1] = m => n <= g[2])
    BY <1>2, <1>3
  <2>2. QED
    BY <1>1, <1>4, <1>5, <2>1 DEF Before
<1>6. QED
  BY <1>5

\* What lies behind a place is what does not lie before the entry after it: page and
\* record number, from a handle or the beginning.
LEMMA BehindIsAhead ==
    ASSUME NEW h \in Handles, NEW from \in Handles \cup {BEGIN}
    PROVE  Before(from, h) <=> ~Before(h, <<from[1], from[2] + 1>>)
<1>1. h[1] \in Nat /\ h[2] \in Nat /\ from[1] \in Nat /\ from[2] \in Int
  BY ConstAssumption DEF Handles, PageIdx, Slot, BEGIN
<1>2. QED
  BY <1>1 DEF Before

\* m is the first match there is behind "from", with its handle and the position behind it,
\* or says that there is none.
FirstBehind(p, from, v, m) ==
    LET behind == {h \in Matching(p, v) : Before(from, h)} IN
    \/ /\ m.gives.status = "handle" /\ m.gives.handle \in behind
       /\ \A g \in behind : ~Before(g, m.gives.handle)
       /\ m.pos = StartBehind(m.gives.handle)
    \/ m.gives.status = "ERR_NOT_FOUND" /\ m.gives.handle = NoSlot /\ behind = {}

\* That is what next_match makes of the entry behind a handle or the beginning.
LEMMA NextMatchFirst ==
    ASSUME NEW p \in Procs, NEW from \in Handles \cup {BEGIN}, NEW v
    PROVE  FirstBehind(p, from, v, NextMatch(p, StartBehind(from), v))
<1> DEFINE m == NextMatch(p, StartBehind(from), v)
           behind == {h \in Matching(p, v) : Before(from, h)}
           c == StartBehind(from)
           here == <<c.cur_dir_page, c.page_record>>
           ahead == {h \in Matching(p, v) : ~Before(h, here)}
           first == CHOOSE h \in ahead : \A g \in ahead : ~Before(g, h)
           pageno == c.cur_pageno + first[1] - c.cur_dir_page
<1>1. /\ from[1] \in Nat /\ c.cur_dir_page = from[1] /\ c.page_record = from[2] + 1
      /\ c.cur_entry = here /\ c.cur_pageno = from[1]
  BY ConstAssumption DEF StartBehind, Handles, PageIdx, BEGIN
<1>2. Matching(p, v) \subseteq Handles
  BY DEF Matching
<1>3. ahead = behind
  BY <1>1, <1>2, BehindIsAhead
<1>4. c.cur_dir_page # NULL
  BY <1>1 DEF NULL
<1>8. /\ ahead = {} => m.gives = Result("ERR_NOT_FOUND", NoSlot)
      /\ ahead # {} => /\ m.pos = [StartBehind(first) EXCEPT !.cur_pageno = pageno]
                       /\ m.gives = Result("handle", <<pageno, first[2]>>)
  BY <1>1, <1>4, Zenon DEF NextMatch
<1> HIDE DEF c, here
<1>5. CASE ahead = {}
  <2>1. m.gives = Result("ERR_NOT_FOUND", NoSlot)
    BY <1>5, <1>8
  <2>2. QED
    BY <1>3, <1>5, <2>1 DEF Result, FirstBehind
<1>6. CASE ahead # {}
  <2>1. PICK h \in ahead : h = first /\ \A g \in ahead : ~Before(g, h)
    <3>1. \E x \in ahead : \A g \in ahead : ~Before(g, x)
      <4>1. ahead \in SUBSET Handles
        BY <1>2
      <4>2. QED
        BY <1>6, <4>1, FirstHandle
    <3>2. QED
      BY <3>1
  <2>2. h \in Handles /\ h[1] \in Nat /\ h = <<h[1], h[2]>>
    BY <1>2, <2>1, ConstAssumption DEF Handles, PageIdx
  <2>3. /\ m.pos = [StartBehind(h) EXCEPT !.cur_pageno = pageno]
        /\ m.gives = Result("handle", <<pageno, h[2]>>)
    BY <1>6, <1>8, <2>1
  <2>4. pageno = h[1]
    BY <1>1, <2>1, <2>2
  <2> HIDE DEF pageno
  <2>5. m.pos = StartBehind(h) /\ m.gives.status = "handle" /\ m.gives.handle = h
    BY <2>2, <2>3, <2>4 DEF StartBehind, Result
  <2>6. QED
    BY <1>3, <2>1, <2>5 DEF FirstBehind
<1>7. QED
  BY <1>5, <1>6

\* Every step is one of XdfFile, or leaves the file and the directories alone.
LEMMA SearchStepsFile == [SearchNext]_svars => [Next]_vars
<1>1. ASSUME SearchNext
      PROVE  [Next]_vars
  <2>1. PICK p \in Procs :
           \/ \E from \in Handles \cup {BEGIN}, v \in Vals : Locate(p, from, v)
           \/ Locate(p, CURRENT, target[p])
           \/ \E h \in Handles : PutRefused(p, h)
           \/ \E v \in Vals, n \in Lens : PutNew(p, v, n)
           \/ \E h \in Handles, v \in Vals, n \in Lens : PutMove(p, h, v, n)
           \/ \E h \in Handles, v \in Vals : PutInPlace(p, h, v)
           \/ PutDirFull(p)
           \/ \E h \in Handles : Delete(p, h)
           \/ Create(p)
           \/ \E mode \in {RDMODE, RWMODE, APPEND} : Open(p, mode)
           \/ LoadPage(p)
           \/ \E checkpoint \in BOOLEAN : CloseBegin(p, checkpoint)
           \/ \E i \in PageIdx : FlushErase(p, i) \/ FlushPage(p, i)
           \/ CheckpointEnd(p) \/ CloseEnd(p) \/ CloseRefused(p) \/ Crash(p)
    BY <1>1, Zenon DEF SearchNext
  <2>2. /\ \A from, v : Locate(p, from, v) => UNCHANGED vars
        /\ \A h : PutRefused(p, h) => UNCHANGED vars
    <3>1. ASSUME NEW from, NEW v, Locate(p, from, v) PROVE UNCHANGED vars
      BY <3>1, SMT DEF Locate
    <3>2. \A h : PutRefused(p, h) => UNCHANGED vars
      BY Zenon DEF PutRefused
    <3>3. QED
      BY <3>1, <3>2
  <2>3. UNCHANGED vars \/ Next
    <3>1. CASE \/ \E from \in Handles \cup {BEGIN}, v \in Vals : Locate(p, from, v)
               \/ Locate(p, CURRENT, target[p])
               \/ \E h \in Handles : PutRefused(p, h)
      BY <2>2, <3>1, Zenon
    <3>2. CASE \/ \E v \in Vals, n \in Lens : PutNew(p, v, n)
               \/ \E h \in Handles, v \in Vals, n \in Lens : PutMove(p, h, v, n)
               \/ \E h \in Handles, v \in Vals : PutInPlace(p, h, v)
               \/ PutDirFull(p)
               \/ \E h \in Handles : Delete(p, h)
      BY <3>2, ZenonT(30) DEF Next
    <3>3. CASE \/ Create(p)
               \/ \E mode \in {RDMODE, RWMODE, APPEND} : Open(p, mode)
               \/ LoadPage(p)
               \/ \E checkpoint \in BOOLEAN : CloseBegin(p, checkpoint)
               \/ \E i \in PageIdx : FlushErase(p, i) \/ FlushPage(p, i)
               \/ CheckpointEnd(p) \/ CloseEnd(p) \/ CloseRefused(p) \/ Crash(p)
      BY <3>3, ZenonT(30) DEF Next
    <3>4. QED
      BY <2>1, <3>1, <3>2, <3>3, Zenon
  <2>4. QED
    BY <2>3
<1>2. QED
  BY <1>1 DEF svars

\* A process leaves the directories of the others alone.
LEMMA OthersDirectories ==
    ASSUME TypeOK, NEW p \in Procs, NEW q \in Procs \ {p},
           \/ \E v \in Vals, n \in Lens : PutNew(p, v, n)
           \/ \E h \in Handles, v \in Vals, n \in Lens : PutMove(p, h, v, n)
           \/ \E h \in Handles, v \in Vals : PutInPlace(p, h, v)
           \/ PutDirFull(p)
           \/ \E h \in Handles : Delete(p, h)
           \/ Create(p)
           \/ \E mode \in {RDMODE, RWMODE, APPEND} : Open(p, mode)
           \/ LoadPage(p)
           \/ \E checkpoint \in BOOLEAN : CloseBegin(p, checkpoint)
           \/ \E i \in PageIdx : FlushErase(p, i) \/ FlushPage(p, i)
           \/ CheckpointEnd(p) \/ CloseEnd(p) \/ CloseRefused(p) \/ Crash(p)
    PROVE  npages'[q] = npages[q] /\ dir_page'[q] = dir_page[q]
<1>1. \A D, n : /\ dir_page' = [dir_page EXCEPT ![p] = D] => dir_page'[q] = dir_page[q]
                /\ npages' = [npages EXCEPT ![p] = n] => npages'[q] = npages[q]
  BY DEF TypeOK
<1>2. CASE \/ \E v \in Vals, n \in Lens : PutNew(p, v, n)
           \/ \E h \in Handles, v \in Vals, n \in Lens : PutMove(p, h, v, n)
  <2>1. PICK v, n, old : AddRecord(p, v, n, old)
    BY <1>2, Zenon DEF PutNew, PutMove
  <2>2. QED
    BY <1>1, <2>1, Zenon DEF AddRecord
<1>3. CASE \/ \E h \in Handles, v \in Vals : PutInPlace(p, h, v)
           \/ \E h \in Handles : Delete(p, h)
           \/ \E i \in PageIdx : FlushErase(p, i)
  BY <1>3 DEF PutInPlace, Delete, FlushErase, TypeOK
<1>4. CASE \/ PutDirFull(p) \/ LoadPage(p) \/ CheckpointEnd(p)
           \/ \E mode \in {RDMODE, RWMODE, APPEND} : Open(p, mode)
           \/ \E checkpoint \in BOOLEAN : CloseBegin(p, checkpoint)
           \/ \E i \in PageIdx : FlushPage(p, i)
  BY <1>4 DEF PutDirFull, LoadPage, CheckpointEnd, Open, CloseBegin, FlushPage, core, TypeOK
<1>5. CASE Create(p) \/ CloseEnd(p) \/ CloseRefused(p) \/ Crash(p)
  BY <1>5 DEF Create, CloseEnd, CloseRefused, Crash, Forget, TypeOK
<1>6. QED
  BY <1>2, <1>3, <1>4, <1>5, Zenon

\* Only what p keeps for its searches changes, and nobody else's directory.
OnlySearch(p) ==
    /\ PerProcess'
    /\ \A q \in Procs \ {p} :
          /\ pos'[q] = pos[q] /\ target'[q] = target[q] /\ found'[q] = found[q]
          /\ last'[q] = last[q] /\ npages'[q] = npages[q] /\ dir_page'[q] = dir_page[q]

\* The searches of the other processes stand where they stood.
LEMMA OtherSearches ==
    ASSUME SearchInv, NEW p \in Procs, OnlySearch(p), GoesOn(p)', FindsFirst(p)'
    PROVE  SearchInv'
<1>1. ASSUME NEW q \in Procs \ {p}
      PROVE  GoesOn(q)' /\ FindsFirst(q)'
  <2>1. /\ pos'[q] = pos[q] /\ target'[q] = target[q] /\ found'[q] = found[q]
        /\ last'[q] = last[q] /\ npages'[q] = npages[q] /\ dir_page'[q] = dir_page[q]
        /\ GoesOn(q) /\ FindsFirst(q)
    BY DEF OnlySearch, SearchInv
  <2>2. GoesOn(q)'
    BY <2>1 DEF GoesOn
  <2>3. \A v : Matching(q, v)' = Matching(q, v)
    BY <2>1 DEF Matching, EntryOf
  <2>4. FindsFirst(q)'
    BY <2>1, <2>3 DEF FindsFirst
  <2>5. QED
    BY <2>2, <2>4
<1>2. \A q \in Procs : GoesOn(q)' /\ FindsFirst(q)'
  BY <1>1
<1>3. QED
  BY <1>2 DEF SearchInv, OnlySearch

\* What is not a search: what the last one returned is forgotten, and the position either
\* stays or is not gone on from.
Reset(p) ==
    /\ OnlySearch(p)
    /\ found'[p] = NoSearch
    /\ \/ last'[p] = NoSlot
       \/ last'[p] = last[p] /\ pos'[p] = pos[p] /\ target'[p] = target[p]

LEMMA ResetStep ==
    ASSUME SearchInv, NEW p \in Procs, Reset(p)
    PROVE  SearchInv'
<1>1. FindsFirst(p)'
  BY DEF Reset, FindsFirst, NoSearch
<1>2. GoesOn(p)'
  BY DEF Reset, GoesOn, SearchInv
<1>3. QED
  BY <1>1, <1>2, OtherSearches DEF Reset

\* The values a step gives to one process alone.
LEMMA OneChanged ==
    ASSUME NEW f, f = [q \in Procs |-> f[q]], NEW p \in Procs, NEW x
    PROVE  /\ [f EXCEPT ![p] = x] = [q \in Procs |-> [f EXCEPT ![p] = x][q]]
           /\ [f EXCEPT ![p] = x][p] = x
           /\ \A q \in Procs \ {p} : [f EXCEPT ![p] = x][q] = f[q]
<1>1. PICK D : D = DOMAIN f
  OBVIOUS
<1>2. D = Procs
  BY <1>1
<1>3. [f EXCEPT ![p] = x] = [q \in Procs |-> IF q = p THEN x ELSE f[q]]
  BY <1>1, <1>2
<1>4. QED
  BY <1>3

\* The positions c_xdfput leaves are not those of a search.
LEMMA PutsReset ==
    ASSUME SearchInv, NEW p \in Procs, NotASearch(p), Unscanned(p), NEW x,
           pos' = [pos EXCEPT ![p] = x],
           \A q \in Procs \ {p} : npages'[q] = npages[q] /\ dir_page'[q] = dir_page[q]
    PROVE  Reset(p)
<1>1. /\ pos = [q \in Procs |-> pos[q]] /\ target = [q \in Procs |-> target[q]]
      /\ found = [q \in Procs |-> found[q]] /\ last = [q \in Procs |-> last[q]]
  BY DEF SearchInv, PerProcess
<1>2. /\ found' = [found EXCEPT ![p] = NoSearch] /\ last' = [last EXCEPT ![p] = NoSlot]
      /\ target' = target
  BY DEF NotASearch, Unscanned
<1>3. /\ pos' = [q \in Procs |-> pos'[q]]
      /\ \A q \in Procs \ {p} : pos'[q] = pos[q]
  BY <1>1, OneChanged
<1>4. /\ found' = [q \in Procs |-> found'[q]] /\ found'[p] = NoSearch
      /\ \A q \in Procs \ {p} : found'[q] = found[q]
  BY <1>1, <1>2, OneChanged
<1>5. /\ last' = [q \in Procs |-> last'[q]] /\ last'[p] = NoSlot
      /\ \A q \in Procs \ {p} : last'[q] = last[q]
  BY <1>1, <1>2, OneChanged
<1>6. PerProcess'
  BY <1>1, <1>2, <1>3, <1>4, <1>5 DEF PerProcess
<1>7. QED
  BY <1>2, <1>3, <1>4, <1>5, <1>6 DEF Reset, OnlySearch

\* c_xdfdel, opening, closing and what goes on in between.
LEMMA KeptResets ==
    ASSUME SearchInv, NEW p \in Procs, PosKept(p) \/ PosCleared(p),
           \A q \in Procs \ {p} : npages'[q] = npages[q] /\ dir_page'[q] = dir_page[q]
    PROVE  Reset(p)
<1>1. /\ pos = [q \in Procs |-> pos[q]] /\ target = [q \in Procs |-> target[q]]
      /\ found = [q \in Procs |-> found[q]] /\ last = [q \in Procs |-> last[q]]
  BY DEF SearchInv, PerProcess
<1>2. found' = [found EXCEPT ![p] = NoSearch]
  BY DEF PosKept, PosCleared, NotASearch
<1>3. /\ found' = [q \in Procs |-> found'[q]] /\ found'[p] = NoSearch
      /\ \A q \in Procs \ {p} : found'[q] = found[q]
  BY <1>1, <1>2, OneChanged
<1>4. CASE PosKept(p)
  <2>1. pos' = pos /\ last' = last /\ target' = target
    BY <1>4 DEF PosKept, NotASearch
  <2>2. PerProcess'
    BY <1>1, <1>3, <2>1 DEF PerProcess
  <2>3. QED
    BY <1>3, <2>1, <2>2 DEF Reset, OnlySearch
<1>5. CASE PosCleared(p)
  <2>1. /\ pos' = [pos EXCEPT ![p] = NoPos] /\ target' = [target EXCEPT ![p] = NoVal]
        /\ last' = [last EXCEPT ![p] = NoSlot]
    BY <1>5 DEF PosCleared, Unscanned
  <2>2. /\ pos' = [q \in Procs |-> pos'[q]]
        /\ \A q \in Procs \ {p} : pos'[q] = pos[q]
    BY <1>1, <2>1, OneChanged
  <2>3. /\ target' = [q \in Procs |-> target'[q]]
        /\ \A q \in Procs \ {p} : target'[q] = target[q]
    BY <1>1, <2>1, OneChanged
  <2>4. /\ last' = [q \in Procs |-> last'[q]] /\ last'[p] = NoSlot
        /\ \A q \in Procs \ {p} : last'[q] = last[q]
    BY <1>1, <2>1, OneChanged
  <2>5. PerProcess'
    BY <1>3, <2>2, <2>3, <2>4 DEF PerProcess
  <2>6. QED
    BY <1>3, <2>2, <2>3, <2>4, <2>5 DEF Reset, OnlySearch
<1>6. QED
  BY <1>4, <1>5

\* c_xdfloc2, from a handle or the beginning, or from where the last search stopped.
LEMMA LocateStep ==
    ASSUME TypeOK, SearchInv, NEW p \in Procs, NEW from, NEW v, Locate(p, from, v),
           \/ from \in Handles \cup {BEGIN} /\ v \in Vals
           \/ from = CURRENT /\ v = target[p]
    PROVE  SearchInv'
<1> DEFINE c == IF from = CURRENT THEN pos[p]
                ELSE IF from[1] < npages[p] THEN StartBehind(from)
                ELSE [StartBehind(from) EXCEPT !.cur_dir_page = NULL]
           m == IF c.cur_entry = NoSlot \/ c.cur_pageno = -1
                THEN [pos |-> c, gives |-> Result("ERR_NO_POS", NoSlot)]
                ELSE IF from # CURRENT /\ from[1] >= npages[p]
                             /\ from[1] # pos[p].cur_pageno
                THEN [pos |-> [pos[p] EXCEPT !.cur_entry = NoSlot],
                      gives |-> Result("ERR_BAD_PAGENO", NoSlot)]
                ELSE IF v = NoVal
                THEN [pos |-> c, gives |-> Result("ERR_NO_TARGET", NoSlot)]
                ELSE NextMatch(p, c, v)
           behind(g) == {h \in Matching(p, v) : Before(g, h)}
           start == IF from = CURRENT THEN last[p] ELSE from
           keeps == IF from = CURRENT /\ last[p] = NoSlot THEN NoSlot ELSE m.gives.handle
           gives == [status |-> m.gives.status, handle |-> m.gives.handle, from |-> start]
<1>1. /\ pos = [q \in Procs |-> pos[q]] /\ target = [q \in Procs |-> target[q]]
      /\ found = [q \in Procs |-> found[q]] /\ last = [q \in Procs |-> last[q]]
      /\ GoesOn(p) /\ FindsFirst(p)
  BY DEF SearchInv, PerProcess
<1>2. /\ pos' = [pos EXCEPT ![p] = m.pos] /\ target' = [target EXCEPT ![p] = v]
      /\ found' = [found EXCEPT ![p] = gives] /\ last' = [last EXCEPT ![p] = keeps]
      /\ UNCHANGED vars
  BY <1>1, Zenon DEF Locate
<1>3. npages[p] \in Int
  BY ProcType
<1>4. \A g \in Handles \cup {BEGIN} :
         /\ g[1] \in Nat
         /\ StartBehind(g).cur_entry # NoSlot /\ StartBehind(g).cur_pageno # -1
  <2>1. \A g \in Handles \cup {BEGIN} : g[1] \in Nat
    BY ConstAssumption DEF Handles, PageIdx, BEGIN
  <2>2. QED
    BY <2>1 DEF StartBehind, NoSlot, NULL
<1>5. \/ /\ m.gives.status = "handle" /\ m.gives.handle \in behind(start)
         /\ \A g \in behind(start) : ~Before(g, m.gives.handle)
         /\ m.pos = StartBehind(m.gives.handle) /\ v \in Vals
      \/ m.gives.status = "ERR_NOT_FOUND" /\ keeps = NoSlot /\ behind(start) = {}
      \/ keeps = NoSlot /\ ~(start # NoSlot /\ start[1] < npages[p])
  <2>1. CASE from = CURRENT /\ last[p] = NoSlot
    BY <2>1
  <2>2. CASE from = CURRENT /\ last[p] # NoSlot
    <3>1. /\ start = last[p] /\ start \in Handles /\ c = StartBehind(start)
          /\ v \in Vals /\ v # NoVal
      BY <1>1, <2>2, ConstAssumption DEF GoesOn
    <3>2. m = NextMatch(p, StartBehind(start), v)
      BY <1>4, <2>2, <3>1
    <3>3. keeps = m.gives.handle
      BY <2>2
    <3> HIDE DEF c, m, start, keeps
    <3>5. FirstBehind(p, start, v, m)
      BY <3>1, <3>2, NextMatchFirst
    <3>4. QED
      BY <3>1, <3>2, <3>3, <3>5 DEF FirstBehind
  <2>3. CASE from # CURRENT /\ from[1] < npages[p]
    <3>1. /\ start = from /\ start \in Handles \cup {BEGIN} /\ c = StartBehind(start)
          /\ v \in Vals /\ v # NoVal
      BY <2>3, ConstAssumption
    <3>2. m = NextMatch(p, StartBehind(start), v)
      BY <1>3, <1>4, <2>3, <3>1
    <3>3. keeps = m.gives.handle
      BY <2>3
    <3> HIDE DEF c, m, start, keeps
    <3>5. FirstBehind(p, start, v, m)
      BY <3>1, <3>2, NextMatchFirst
    <3>4. QED
      BY <3>1, <3>2, <3>3, <3>5 DEF FirstBehind
  <2>4. CASE from # CURRENT /\ ~(from[1] < npages[p])
    <3>1. c = [StartBehind(from) EXCEPT !.cur_dir_page = NULL]
      BY <2>4
    <3>2. c.cur_dir_page = NULL
      BY <3>1 DEF StartBehind
    <3>3. NextMatch(p, c, v) = [pos |-> c, gives |-> Result("ERR_NO_POS", NoSlot)]
      BY <3>2 DEF NextMatch
    <3>4. \A s : Result(s, NoSlot).handle = NoSlot
      BY DEF Result
    <3> HIDE DEF c
    <3>5. m.gives.handle = NoSlot
      BY <3>3, <3>4
    <3>6. keeps = NoSlot
      BY <3>5
    <3>7. start = from
      BY <2>4
    <3>8. QED
      BY <2>4, <3>6, <3>7
  <2>5. QED
    BY <2>1, <2>2, <2>3, <2>4
<1> HIDE DEF c, m, start, keeps
<1>6. /\ pos' = [q \in Procs |-> pos'[q]] /\ pos'[p] = m.pos
      /\ \A q \in Procs \ {p} : pos'[q] = pos[q]
  BY <1>1, <1>2, OneChanged
<1>7. /\ target' = [q \in Procs |-> target'[q]] /\ target'[p] = v
      /\ \A q \in Procs \ {p} : target'[q] = target[q]
  BY <1>1, <1>2, OneChanged
<1>8. /\ found' = [q \in Procs |-> found'[q]] /\ found'[p] = gives
      /\ \A q \in Procs \ {p} : found'[q] = found[q]
  BY <1>1, <1>2, OneChanged
<1>9. /\ last' = [q \in Procs |-> last'[q]] /\ last'[p] = keeps
      /\ \A q \in Procs \ {p} : last'[q] = last[q]
  BY <1>1, <1>2, OneChanged
<1>10. npages' = npages /\ dir_page' = dir_page
  BY <1>2 DEF vars, core
<1>11. OnlySearch(p)
  BY <1>6, <1>7, <1>8, <1>9, <1>10 DEF OnlySearch, PerProcess
<1>12. \A g : behind(g) \subseteq Handles
  BY DEF Matching
<1>13. \A g : {h \in Matching(p, v)' : Before(g, h)} = behind(g)
  BY <1>10 DEF Matching, EntryOf
<1>14. keeps # NoSlot => keeps \in Handles /\ m.pos = StartBehind(keeps) /\ v \in Vals
  <2>1. keeps = NoSlot \/ keeps = m.gives.handle
    BY DEF keeps
  <2>2. QED
    BY <1>5, <1>12, <2>1
<1>15. GoesOn(p)'
  BY <1>6, <1>7, <1>9, <1>14 DEF GoesOn
<1>16. FindsFirst(p)'
  <2>1. /\ found'[p].status = m.gives.status /\ found'[p].handle = m.gives.handle
        /\ found'[p].from = start
    BY <1>8
  <2>2. start # NoSlot /\ start[1] < npages[p] =>
          \/ /\ m.gives.status = "handle" /\ m.gives.handle \in behind(start)
             /\ \A g \in behind(start) : ~Before(g, m.gives.handle)
          \/ m.gives.status = "ERR_NOT_FOUND" /\ behind(start) = {}
    BY <1>5
  <2> HIDE DEF behind
  <2>3. QED
    BY <1>7, <1>10, <1>13, <2>1, <2>2 DEF FindsFirst
<1>17. QED
  BY <1>11, <1>15, <1>16, OtherSearches

\* The position c_xdfput leaves: its fields are set one by one.
LEMMA PutsPlace ==
    ASSUME SearchInv, NEW p \in Procs,
           \/ PutAtEnd(p) \/ PutAtFull(p) \/ (\E h \in Handles : PutAtHandle(p, h))
           \/ \E h \in Handles : PutRefused(p, h)
    PROVE  /\ NotASearch(p) /\ Unscanned(p)
           /\ \E x : pos' = [pos EXCEPT ![p] = x]
<1>1. CASE PutAtEnd(p)
  BY <1>1, Zenon DEF PutAtEnd
<1>2. CASE PutAtFull(p)
  BY <1>2, Zenon DEF PutAtFull
<1>3. CASE \E h \in Handles : PutAtHandle(p, h)
  BY <1>3, Zenon DEF PutAtHandle
<1>4. CASE \E h \in Handles : PutRefused(p, h)
  BY <1>4, Zenon DEF PutRefused
<1>5. QED
  BY <1>1, <1>2, <1>3, <1>4

\* Every step keeps what a search goes on from.
LEMMA SearchStep ==
    ASSUME TypeOK, SearchInv, [SearchNext]_svars
    PROVE  SearchInv'
<1>1. CASE UNCHANGED svars
  <2>1. /\ pos' = pos /\ target' = target /\ found' = found /\ last' = last
        /\ npages' = npages /\ dir_page' = dir_page
    BY <1>1 DEF svars, vars, core
  <2>2. \A p, v : Matching(p, v)' = Matching(p, v)
    BY <2>1 DEF Matching, EntryOf
  <2>3. \A p \in Procs : GoesOn(p)' /\ FindsFirst(p)'
    BY <2>1, <2>2 DEF SearchInv, GoesOn, FindsFirst
  <2>4. QED
    BY <2>1, <2>3 DEF SearchInv, PerProcess
<1>2. CASE SearchNext
  <2>1. PICK p \in Procs :
           \/ \E from \in Handles \cup {BEGIN}, v \in Vals : Locate(p, from, v)
           \/ Locate(p, CURRENT, target[p])
           \/ (\E v \in Vals, n \in Lens : PutNew(p, v, n)) /\ PutAtEnd(p)
           \/ (\E h \in Handles, v \in Vals, n \in Lens : PutMove(p, h, v, n)) /\ PutAtEnd(p)
           \/ \E h \in Handles, v \in Vals : PutInPlace(p, h, v) /\ PutAtHandle(p, h)
           \/ PutDirFull(p) /\ PutAtFull(p)
           \/ \E h \in Handles : PutRefused(p, h)
           \/ (\E h \in Handles : Delete(p, h)) /\ PosKept(p)
           \/ Create(p) /\ PosKept(p)
           \/ (\E mode \in {RDMODE, RWMODE, APPEND} : Open(p, mode)) /\ PosKept(p)
           \/ LoadPage(p) /\ PosKept(p)
           \/ (\E checkpoint \in BOOLEAN : CloseBegin(p, checkpoint)) /\ PosKept(p)
           \/ (\E i \in PageIdx : FlushErase(p, i) \/ FlushPage(p, i)) /\ PosKept(p)
           \/ CheckpointEnd(p) /\ PosKept(p)
           \/ (CloseEnd(p) \/ CloseRefused(p) \/ Crash(p)) /\ PosCleared(p)
    BY <1>2, Zenon DEF SearchNext
  <2>2. CASE \E from \in Handles \cup {BEGIN}, v \in Vals : Locate(p, from, v)
    BY <2>2, LocateStep
  <2>3. CASE Locate(p, CURRENT, target[p])
    BY <2>3, LocateStep
  <2>4. CASE \E h \in Handles : PutRefused(p, h)
    <3>1. \A q \in Procs \ {p} : npages'[q] = npages[q] /\ dir_page'[q] = dir_page[q]
      BY <2>4 DEF PutRefused, vars, core
    <3>2. QED
      BY <2>4, <3>1, PutsPlace, PutsReset, ResetStep
  <2>5. CASE ~ \/ \E from \in Handles \cup {BEGIN}, v \in Vals : Locate(p, from, v)
               \/ Locate(p, CURRENT, target[p])
               \/ \E h \in Handles : PutRefused(p, h)
    <3>1. \A q \in Procs \ {p} : npages'[q] = npages[q] /\ dir_page'[q] = dir_page[q]
      BY <2>1, <2>5, OthersDirectories, Zenon
    <3>2. \/ PutAtEnd(p) \/ PutAtFull(p) \/ (\E h \in Handles : PutAtHandle(p, h))
          \/ PosKept(p) \/ PosCleared(p)
      BY <2>1, <2>5, Zenon
    <3>3. CASE PosKept(p) \/ PosCleared(p)
      BY <3>1, <3>3, KeptResets, ResetStep
    <3>4. CASE PutAtEnd(p) \/ PutAtFull(p) \/ (\E h \in Handles : PutAtHandle(p, h))
      BY <3>1, <3>4, PutsPlace, PutsReset, ResetStep
    <3>5. QED
      BY <3>2, <3>3, <3>4
  <2>6. QED
    BY <2>2, <2>3, <2>4, <2>5
<1>3. QED
  BY <1>1, <1>2

\* What fstinf, fstinfx and fstsui promise: begun behind any handle or at the beginning, or
\* gone on with where the last one stopped, a search returns the first record there is with
\* its keys, and says there is none only when there is none; for any number of processes,
\* pages and entries, whatever is put, rewritten, deleted, flushed and loaded in between.
THEOREM SearchesFindFirst == SearchSpec => []SearchFindsFirst
<1>1. SearchInit => TypeOK /\ HasPage /\ SearchInv
  <2>1. SearchInit => TypeOK /\ HasPage
    BY InitType DEF SearchInit, Init, HasPage
  <2>2. SearchInit => SearchInv
    BY DEF SearchInit, SearchInv, PerProcess, GoesOn, FindsFirst, NoSearch
  <2>3. QED
    BY <2>1, <2>2
<1>2. TypeOK /\ HasPage /\ SearchInv /\ [SearchNext]_svars => TypeOK' /\ HasPage' /\ SearchInv'
  BY SearchStepsFile, TypeStep, HasPageStep, SearchStep
<1>3. SearchInv => SearchFindsFirst
  BY DEF SearchInv, FindsFirst, SearchFindsFirst
<1>4. QED
  BY <1>1, <1>2, <1>3, PTL DEF SearchSpec

-----------------------------------------------------------------------------
(* What a handle packs is what the macros take out of it, and where c_xdfput puts the
   next record, its handle can say.                                       *)

\* A handle of a random file (MAKE_RND_HANDLE) gives back page, record and file index, as
\* long as there are no more than 4096 pages, 512 records in each and 1024 files.
THEOREM RndHandleRoundTrip ==
    ASSUME NEW p \in 0 .. 4095, NEW r \in 0 .. 511, NEW i \in 0 .. 1023
    PROVE  /\ MakeRndHandle(p, r, i) >= 0 /\ MakeRndHandle(p, r, i) <= 2147483647
           /\ PagenoFromHandle(MakeRndHandle(p, r, i)) = p
           /\ RecordFromHandle(MakeRndHandle(p, r, i)) = r
           /\ IndexFromRnd(MakeRndHandle(p, r, i)) = i
<1> DEFINE h == i + 1024 * r + 524288 * p
<1> HIDE DEF h
<1>1. MakeRndHandle(p, r, i) = h
  BY SMT DEF MakeRndHandle, h
<1>2. h \in Int /\ h >= 0 /\ h <= 2147483647
  BY SMT DEF h
<1>3. h % 1024 = i
  BY SMT DEF h
<1>4. (h \div 1024) % 512 = r
  <2>1. h \div 1024 = r + 512 * p
    BY SMT DEF h
  <2>2. (r + 512 * p) % 512 = r
    BY SMT
  <2> QED
    BY ONLY <2>1, <2>2, SMT
<1>5. (h \div 524288) % 4096 = p
  BY SMT DEF h
<1> QED
  BY SMT, <1>1, <1>2, <1>3, <1>4, <1>5 DEF PagenoFromHandle, RecordFromHandle, IndexFromRnd

\* The four sizes of a cluster.
LEMMA UnitsOfCluster ==
    ASSUME NEW a \in Nat
    PROVE  \/ Cluster(a) = 0 /\ Units64(Cluster(a)) = 1
           \/ Cluster(a) = 1 /\ Units64(Cluster(a)) = 4
           \/ Cluster(a) = 2 /\ Units64(Cluster(a)) = 16
           \/ Cluster(a) = 3 /\ Units64(Cluster(a)) = 64
  BY SMT, ClusterAssumption DEF Cluster, Units64

\* Dividing by a cluster of any of the four sizes and multiplying again.
LEMMA WholeClusters ==
    ASSUME NEW a \in Nat, NEW u \in {1, 4, 16, 64}, a % u = 0, a < 4194304 * u
    PROVE  a \div u \in Int /\ a \div u >= 0 /\ a \div u < 4194304 /\ a = (a \div u) * u
<1>1. CASE u = 1
  BY SMT, <1>1
<1>2. CASE u = 4
  BY SMT, <1>2
<1>3. CASE u = 16
  BY SMT, <1>3
<1>4. CASE u = 64
  BY SMT, <1>4
<1> QED
  BY SMT, <1>1, <1>2, <1>3, <1>4

\* The handle of a record of a sequential file leads back to its address, as long as the
\* address begins a cluster and lies below 2^22 clusters.
THEOREM SeqHandleRoundTrip ==
    ASSUME NEW a \in Nat, NEW i \in 0 .. 127,
           Aligned(a), a < 4194304 * Units64(Cluster(a))
    PROVE  /\ MakeSeqHandle(a, i) >= 0 /\ MakeSeqHandle(a, i) <= 2147483647
           /\ AddressFromHandle(MakeSeqHandle(a, i)) = a
           /\ IndexFromSeq(MakeSeqHandle(a, i)) = i
<1> DEFINE c == Cluster(a)
           u == Units64(c)
           n == a \div u
<1>1. c \in 0 .. 3 /\ u \in {1, 4, 16, 64}
  BY SMT, UnitsOfCluster
<1>2. a % u = 0 /\ a < 4194304 * u
  BY SMT DEF Aligned
<1> HIDE DEF u
<1>3. n \in Int /\ n >= 0 /\ n < 4194304 /\ a = n * u
  BY SMT, <1>1, <1>2, WholeClusters
<1>4. n % 4194304 = n
  <2> HIDE DEF n
  <2> QED
    BY SMT, <1>3
<1>5. MakeSeqHandle(a, i) = i + 128 * n + 536870912 * c
  BY SMT, <1>4 DEF MakeSeqHandle, u
<1> HIDE DEF n, c
<1> DEFINE h == i + 128 * n + 536870912 * c
<1>6. h >= 0 /\ h <= 2147483647 /\ h % 128 = i /\ (h \div 536870912) % 4 = c
  BY SMT, <1>1, <1>3
<1>7. (h \div 128) % 4194304 = n
  <2>1. h \div 128 = n + 4194304 * c
    BY SMT, <1>1, <1>3
  <2>2. (n + 4194304 * c) % 4194304 = n
    BY SMT, <1>1, <1>3
  <2> QED
    BY ONLY <2>1, <2>2, SMT
<1> HIDE DEF h
<1>8. ClusterFromHandle(MakeSeqHandle(a, i)) = c
  BY SMT, <1>5, <1>6 DEF ClusterFromHandle, h
<1>9. AddressFromHandle(MakeSeqHandle(a, i)) = n * u
  BY SMT, <1>5, <1>7, <1>8 DEF AddressFromHandle, h, u
<1> QED
  BY SMT, <1>3, <1>5, <1>6, <1>9 DEF IndexFromSeq, h

\* The address c_xdfput gives the next record begins a cluster and is no lower than the
\* record that is written needs: so its handle leads back to it.
THEOREM PutAligns ==
    ASSUME NEW a \in Nat
    PROVE  /\ NextCluster(a) \in Nat /\ NextCluster(a) >= a
           /\ Aligned(NextCluster(a))
<1> DEFINE b == NextCluster(a)
<1>1. CASE Cluster(a) = 0
  BY SMT, <1>1, ClusterAssumption DEF NextCluster, Aligned, Cluster, Units64
<1>2. CASE Cluster(a) = 1
  <2>1. b % 4 = 0 /\ b \in Nat /\ b >= a
    BY SMT, <1>2 DEF NextCluster, Units64
  <2>2. b <= MB128
    BY SMT, <1>2, <2>1, ClusterAssumption DEF Cluster, NextCluster, Units64
  <2> QED
    BY SMT, <1>2, <2>1, <2>2, ClusterAssumption DEF Aligned, Cluster, Units64
<1>3. CASE Cluster(a) = 2
  <2>1. b % 16 = 0 /\ b \in Nat /\ b >= a
    BY SMT, <1>3 DEF NextCluster, Units64
  <2>2. b <= MB512
    BY SMT, <1>3, <2>1, ClusterAssumption DEF Cluster, NextCluster, Units64
  <2> QED
    BY SMT, <1>3, <2>1, <2>2, ClusterAssumption DEF Aligned, Cluster, Units64
<1>4. CASE Cluster(a) = 3
  <2>1. b % 64 = 0 /\ b \in Nat /\ b >= a
    BY SMT, <1>4 DEF NextCluster, Units64
  <2> QED
    BY SMT, <1>4, <2>1, ClusterAssumption DEF Aligned, Cluster, Units64
<1> QED
  BY SMT, <1>1, <1>2, <1>3, <1>4, UnitsOfCluster DEF Cluster
=============================================================================
