------------------------------ MODULE XdfSearch ------------------------------
(***************************************************************************)
(* Searching a random XDF file (c_xdfloc2 and next_match in                *)
(* src/fstd98/xdf98.c, under fstinf, fstinfx and fstsui) while the same    *)
(* program writes it.  The position of the search is kept in the entry of  *)
(* the file table, in variables that c_xdfput uses for purposes of its     *)
(* own: this module adds them to XdfFile and says what each call makes of  *)
(* them.  Keys are the contents of the entries; a search names them all.   *)
(***************************************************************************)
EXTENDS XdfFile

CONSTANT MaxPageno   \* bound: the highest cur_pageno

ASSUME PagenoAssumption == MaxPageno \in Nat

VARIABLES
    pos,     \* cur_dir_page, cur_entry, cur_pageno and page_record of each entry
    target,  \* the keys searched for, NoVal when valid_target is 0
    found,   \* what the call that has just ended returned, when it is a search
    last     \* the handle the search returned last, as long as nothing was put since
             \* (history)

svars == <<vars, pos, target, found, last>>

NULL   == -1
NoSlot == <<NULL, NULL>>

\* Entries are known by page and slot, the slot may be the one behind the last.
NoPos == [cur_dir_page |-> NULL, cur_entry |-> NoSlot, cur_pageno |-> -1, page_record |-> 0]

\* Where c_xdfloc2 is asked to start: behind a handle, at the beginning (0), or where
\* the last search stopped (-1).
BEGIN   == <<0, -1>>
CURRENT == NoSlot

NoSearch == [status |-> "none", handle |-> NoSlot, from |-> NoSlot]
Result(status, h) == [status |-> status, handle |-> h]

-----------------------------------------------------------------------------
Before(g, h) == g[1] < h[1] \/ (g[1] = h[1] /\ g[2] < h[2])

\* The entries next_match accepts: it looks at the first nent of a page, and takes those
\* that are not deleted and have the keys wanted.
Matching(p, v) ==
    {h \in Handles : /\ h[1] < npages[p] /\ h[2] < dir_page[p][h[1]].nent
                     /\ EntryOf(dir_page[p], h).idtyp = LIVE
                     /\ EntryOf(dir_page[p], h).val = v}

\* The position c_xdfloc2 takes to go on behind a handle.
StartBehind(from) ==
    [cur_dir_page |-> from[1], cur_entry |-> <<from[1], from[2] + 1>>,
     cur_pageno |-> from[1], page_record |-> from[2] + 1]

\* next_match at position c.  The entries of the page from there, then those of the
\* pages behind it in core; the number of the page is counted along.  Returned with
\* the position it leaves.
NextMatchOnPage(p, c, v) ==                                           \* mutant
    LET here  == <<c.cur_dir_page, c.page_record>>
        ahead == {h \in Matching(p, v) : ~Before(h, here) /\ h[1] = here[1]}
    IN IF c.cur_dir_page = NULL \/ c.cur_entry # here
       THEN [pos |-> c, gives |-> Result("ERR_NO_POS", NoSlot)]
       ELSE IF ahead = {}
       THEN [pos |-> [c EXCEPT !.cur_dir_page = NULL, !.page_record = 0],
             gives |-> Result("ERR_NOT_FOUND", NoSlot)]
       ELSE LET h == CHOOSE h \in ahead : \A g \in ahead : ~Before(g, h) IN
            [pos |-> StartBehind(h), gives |-> Result("handle", h)]

NextMatch(p, c, v) ==
    LET here  == <<c.cur_dir_page, c.page_record>>
        ahead == {h \in Matching(p, v) : ~Before(h, here)}
        end   == npages[p] - 1
        nent  == dir_page[p][end].nent
    IN IF c.cur_dir_page = NULL \/ c.cur_entry # here
       THEN [pos |-> c, gives |-> Result("ERR_NO_POS", NoSlot)]
       ELSE IF ahead = {}
       THEN [pos |-> [cur_dir_page |-> NULL,
                      cur_entry |-> IF Before(<<end, nent>>, here) THEN here
                                    ELSE <<end, nent>>,
                      cur_pageno |-> c.cur_pageno + end - c.cur_dir_page,
                      page_record |-> 0],
             gives |-> Result("ERR_NOT_FOUND", NoSlot)]
       ELSE LET h == CHOOSE h \in ahead : \A g \in ahead : ~Before(g, h)
                pageno == c.cur_pageno + h[1] - c.cur_dir_page
            IN [pos |-> [StartBehind(h) EXCEPT !.cur_pageno = pageno],
                gives |-> Result("handle", <<pageno, h[2]>>)]

\* c_xdfloc2.  With -1 the target stays (fstsui), with a start it is given (fstinf,
\* fstinfx).  A handle whose page the file does not have is refused, and the position
\* lost; unless that page is cur_pageno, which is taken for good: dir_page is NULL there.
Locate(p, from, v) ==
    /\ pc[p] = "open"
    /\ from = CURRENT => v = target[p]
    /\ target' = [target EXCEPT ![p] = v]
    /\ LET c == IF from = CURRENT THEN pos[p]
                ELSE IF from[1] < npages[p] THEN StartBehind(from)
                ELSE [StartBehind(from) EXCEPT !.cur_dir_page = NULL]
           m == IF c.cur_entry = NoSlot \/ c.cur_pageno = -1
                THEN [pos |-> c, gives |-> Result("ERR_NO_POS", NoSlot)]
                ELSE IF from # CURRENT /\ from[1] >= npages[p]
                             /\ from[1] # pos[p].cur_pageno
                THEN [pos |-> [pos[p] EXCEPT !.cur_entry = NoSlot],
                      gives |-> Result("ERR_BAD_PAGENO", NoSlot)]
                ELSE IF v = NoVal
                THEN [pos |-> c, gives |-> Result("ERR_NO_TARGET", NoSlot)]
                ELSE NextMatch(p, c, v)
       IN /\ m.pos.cur_pageno <= MaxPageno             \* bound
          /\ pos' = [pos EXCEPT ![p] = m.pos]
          /\ found' = [found EXCEPT ![p] =
                [status |-> m.gives.status, handle |-> m.gives.handle,
                 from |-> IF from = CURRENT THEN last[p] ELSE from]]
          /\ last' = [last EXCEPT ![p] =
                IF from = CURRENT /\ @ = NoSlot THEN NoSlot ELSE m.gives.handle]
    /\ UNCHANGED vars

-----------------------------------------------------------------------------
\* What c_xdfput leaves in the position.

NotASearch(p) ==
    /\ found' = [found EXCEPT ![p] = NoSearch]
    /\ UNCHANGED target

Unscanned(p) == last' = [last EXCEPT ![p] = NoSlot]

\* At the end of the file: the last page there is on entry gives the number, the page the
\* record goes to and its slot the rest.  page_record is not touched.
PutAtEnd(p) ==
    /\ pos' = [pos EXCEPT ![p].cur_dir_page = PageFor(p),
                          ![p].cur_entry = <<PageFor(p),
                              IF LastFull(p) THEN 0 ELSE dir_page[p][PageFor(p)].nent>>,
                          ![p].cur_pageno = npages[p] - 1]
    /\ NotASearch(p) /\ Unscanned(p)

\* In place: the page and the entry of the handle, but not its number.
PutAtHandle(p, h) ==
    /\ pos' = [pos EXCEPT ![p].cur_dir_page = h[1], ![p].cur_entry = h]
    /\ NotASearch(p) /\ Unscanned(p)

\* When no page can be added: the last page, and the entry of the handle if there is one.
PutAtFull(p) ==
    /\ \E e \in {pos[p].cur_entry} \cup
                {h \in Handles : Valid(p, h) /\ hdr[p].rwflg # APPEND} :
          pos' = [pos EXCEPT ![p].cur_dir_page = npages[p] - 1, ![p].cur_entry = e,
                             ![p].cur_pageno = npages[p] - 1]
    /\ NotASearch(p) /\ Unscanned(p)

\* c_xdfput refuses a handle whose record number is too high, or whose record is
\* special or deleted, after it has moved the position.
PutRefused(p, h) ==
    /\ pc[p] = "open" /\ CanWrite(p) /\ hdr[p].rwflg # APPEND
    /\ h[1] < npages[p] /\ ~Valid(p, h)
    /\ pos' = [pos EXCEPT ![p].cur_dir_page = h[1],
                          ![p].cur_entry = IF h[2] > dir_page[p][h[1]].nent THEN @ ELSE h]
    /\ NotASearch(p) /\ Unscanned(p)
    /\ UNCHANGED vars

\* c_xdfdel, opening and closing do not look at it; init_file clears it.
PosKept(p) ==
    /\ NotASearch(p)
    /\ UNCHANGED <<pos, last>>

PosCleared(p) ==
    /\ pos' = [pos EXCEPT ![p] = NoPos]
    /\ target' = [target EXCEPT ![p] = NoVal]
    /\ found' = [found EXCEPT ![p] = NoSearch]
    /\ Unscanned(p)

SearchInit ==
    /\ Init
    /\ pos = [p \in Procs |-> NoPos]
    /\ target = [p \in Procs |-> NoVal]
    /\ found = [p \in Procs |-> NoSearch]
    /\ last = [p \in Procs |-> NoSlot]

SearchNext ==
    \E p \in Procs :
        \/ \E from \in Handles \cup {BEGIN}, v \in Vals : Locate(p, from, v)
        \/ Locate(p, CURRENT, target[p])
        \/ \E v \in Vals, n \in Lens : PutNew(p, v, n) /\ PutAtEnd(p)
        \/ \E h \in Handles, v \in Vals, n \in Lens : PutMove(p, h, v, n) /\ PutAtEnd(p)
        \/ \E h \in Handles, v \in Vals : PutInPlace(p, h, v) /\ PutAtHandle(p, h)
        \/ PutDirFull(p) /\ PutAtFull(p)
        \/ \E h \in Handles : PutRefused(p, h)
        \/ \E h \in Handles : Delete(p, h) /\ PosKept(p)
        \/ Create(p) /\ PosKept(p)
        \/ \E mode \in {RDMODE, RWMODE, APPEND} : Open(p, mode) /\ PosKept(p)
        \/ LoadPage(p) /\ PosKept(p)
        \/ \E checkpoint \in BOOLEAN : CloseBegin(p, checkpoint) /\ PosKept(p)
        \/ \E i \in PageIdx : (FlushErase(p, i) \/ FlushPage(p, i)) /\ PosKept(p)
        \/ CheckpointEnd(p) /\ PosKept(p)
        \/ (CloseEnd(p) \/ CloseRefused(p) \/ Crash(p)) /\ PosCleared(p)

SearchSpec == SearchInit /\ [][SearchNext]_svars

-----------------------------------------------------------------------------
\* A search finds the first record with its keys behind where it starts, and says there
\* is none only when there is none.  It starts behind a handle or at the beginning,
\* whatever puts, deletions and searches did to the position before; or it goes on
\* behind the handle it returned last, when nothing was put since.  So fstinf and then
\* fstsui until there is no more (as fstinl and fstlis do) return every record once,
\* also when records are deleted on the way or the file is checkpointed.
SearchFindsFirst ==
    \A p \in Procs :
        LET f      == found[p]
            behind == {h \in Matching(p, target[p]) : Before(f.from, h)}
        IN f.from # NoSlot /\ f.from[1] < npages[p] =>
              /\ f.status = "handle" => /\ f.handle \in behind
                                        /\ \A g \in behind : ~Before(g, f.handle)
              /\ f.status = "ERR_NOT_FOUND" => behind = {}
              /\ f.status \in {"none", "handle", "ERR_NOT_FOUND"}

\* "Upon completion a pointer to the record (handle) is returned": the handle is that of
\* a record of the file with the keys asked for.
HandleOfMatch ==
    \A p \in Procs :
        found[p].status = "handle" => found[p].handle \in Matching(p, target[p])
=============================================================================
