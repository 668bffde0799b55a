------------------------------ MODULE XdfLink ------------------------------
(***************************************************************************)
(* Random files linked for searching (fstlnk, fstunl; c_xdflnk, c_xdfunl   *)
(* and the walks over linked pages of c_xdfloc2, next_match, c_xdfget2 and *)
(* c_xdfdel in src/fstd98/xdf98.c).  One program has several files open;   *)
(* linking makes the last directory page of each point to the first page   *)
(* of the next.  Pages of linked files are numbered on from those of the   *)
(* first, and handles are made with these numbers and the first file's     *)
(* index.                                                                  *)
(*                                                                         *)
(* A file is the sequence of its pages in core, a page the sequence of its *)
(* entries: TRUE for a record, which has the keys searched for, FALSE for  *)
(* a deleted one.  A place is a page of a file, known by file and index.   *)
(***************************************************************************)
EXTENDS Integers, Sequences, FiniteSets

CONSTANTS
    LFiles,         \* the files of the program
    Searched,       \* those it searches
    Lists,          \* what it gives to fstlnk
    LEntries,       \* ENTRIES_PER_PAGE
    LMaxPages,      \* bound: pages of each file
    NULLPAGE,       \* a pointer to no page, and a link of -1
    FREED,          \* a pointer to a page that was given back
    PutsLinked      \* programs may add a page to a file that is linked to another

\* What a search may return.
Statuses == {"handle", "ERR_NO_POS", "ERR_NOT_FOUND", "ERR_BAD_PAGENO"}

ASSUME LinkAssumption ==
    /\ Searched \subseteq LFiles /\ Lists \subseteq Seq(LFiles)
    /\ IsFiniteSet(LFiles) /\ LEntries \in Nat \ {0}
    /\ NULLPAGE # FREED /\ \A x \in {NULLPAGE, FREED} :
                             x \notin LFiles \cup (LFiles \X Nat) \cup Statuses
    /\ LMaxPages \in [LFiles -> Nat \ {0}] /\ PutsLinked \in BOOLEAN

VARIABLES
    lpage,      \* the pages of each file, none when it is not open
    link,       \* file_table[]->link
    next_page,  \* the next_page of its last page: the first page of a file
    link_list,  \* what fstunl will unlink
    lpos,       \* cur_dir_page, cur_entry, cur_pageno and page_record
    lfound,     \* what the last call returned, when it is a search
    held        \* the handle found last, and its record, as long as it should do (history)

lvars == <<lpage, link, next_page, link_list, lpos, lfound, held>>

NoFind  == [status |-> NULLPAGE, start |-> NULLPAGE]
NotHeld == [handle |-> NULLPAGE]
LNoPos == [cur_dir_page |-> NULLPAGE, cur_entry |-> NULLPAGE, cur_pageno |-> -1, page_record |-> 0]

LinkInit ==
    /\ lpage = [f \in LFiles |-> <<>>]
    /\ link = [f \in LFiles |-> NULLPAGE]
    /\ next_page = [f \in LFiles |-> NULLPAGE]
    /\ link_list = <<>>
    /\ lpos = [f \in LFiles |-> LNoPos]
    /\ lfound = NoFind /\ held = NotHeld

IsOpen(f) == lpage[f] # <<>>
Npages(f) == Len(lpage[f])
LastPage(f) == lpage[f][Npages(f)]
MaxPageNumber == Cardinality(LFiles) * 2      \* bound: beyond the pages the files can have

-----------------------------------------------------------------------------
\* Walks

\* The page behind the place pl.
NextPage(pl) ==
    IF pl = NULLPAGE \/ pl = FREED THEN pl
    ELSE IF pl[2] < Npages(pl[1]) THEN <<pl[1], pl[2] + 1>>
    ELSE IF next_page[pl[1]] \in LFiles THEN <<next_page[pl[1]], 1>>
    ELSE next_page[pl[1]]

\* The page n pages behind it.
Ahead(pl, n) == LET a[k \in 0 .. n] == IF k = 0 THEN pl ELSE NextPage(a[k - 1]) IN a[n]

\* The page c_xdfget2, c_xdfdel and c_xdfput find for page number n of a handle of f.
TargetPageOff(f, n) ==                                                \* mutant
    IF n < Npages(f) THEN <<f, n + 1>>
    ELSE IF link[f] = NULLPAGE THEN NULLPAGE
    ELSE Ahead(<<f, Npages(f)>>, n - Npages(f))
TargetPage(f, n) ==
    IF n < Npages(f) THEN <<f, n + 1>>
    ELSE IF link[f] = NULLPAGE THEN NULLPAGE
    ELSE Ahead(<<f, Npages(f)>>, n - Npages(f) + 1)

\* The number of pages c_xdfloc2 walks to a page d pages behind the last of the first
\* file: its loop counts the walked pages on both sides of the comparison.
WalkedShort(d) == (d + 1) \div 2                                      \* mutant
Walked(d) == d \div 2 + 1

-----------------------------------------------------------------------------
\* Files

\* c_xdfopn of a random file with n records.
LOpen(f, n) ==
    /\ ~IsOpen(f)
    /\ n \in 0 .. LEntries * LMaxPages[f]
    /\ LET full == n \div LEntries
           page(k) == [i \in 1 .. k |-> TRUE]
       IN lpage' = [lpage EXCEPT ![f] =
             IF n # 0 /\ n % LEntries = 0
             THEN [i \in 1 .. full |-> page(LEntries)]
             ELSE [i \in 1 .. full + 1 |->
                     IF i <= full THEN page(LEntries) ELSE page(n % LEntries)]]
    /\ lfound' = NoFind
    /\ UNCHANGED <<link, next_page, link_list, lpos, held>>

LinkedTo(f) == {g \in LFiles : link[g] = f}

\* c_xdfcls with init_file: the pages are given back, whoever points to them.  Programs
\* unlink their files before they close them.
LClose(f) ==
    /\ IsOpen(f) /\ link[f] = NULLPAGE /\ LinkedTo(f) = {}
    /\ lpage' = [lpage EXCEPT ![f] = <<>>]
    /\ next_page' = [g \in LFiles |-> IF next_page[g] = f THEN FREED ELSE next_page[g]]
    /\ lpos' = [g \in LFiles |->
          IF g = f THEN LNoPos
          ELSE IF lpos[g].cur_dir_page \in {f} \X (1 .. Npages(f))
          THEN [lpos[g] EXCEPT !.cur_dir_page = FREED] ELSE lpos[g]]
    /\ lfound' = NoFind
    /\ held' = IF held # NotHeld /\ (held.handle[1] = f \/ held.place[1] = f)
               THEN NotHeld ELSE held
    /\ UNCHANGED <<link, link_list>>

\* The files of a list up to the first that is not open.
OpenPrefix(list) ==
    {i \in DOMAIN list : \A j \in 1 .. i : IsOpen(list[j])}

\* fstlnk: the list is kept, then c_xdflnk links from its beginning and stops at a
\* file that is not open.  Programs unlink one list before they link another.
Followers(list, f) == {list[i] : i \in {i \in OpenPrefix(list) : i > 1 /\ list[i - 1] = f}}

Fstlnk(list) ==
    /\ \A f \in LFiles : link[f] = NULLPAGE
    /\ link_list' = list
    /\ link' = [f \in LFiles |-> IF Followers(list, f) = {} THEN link[f]
                                 ELSE CHOOSE g \in Followers(list, f) : TRUE]
    /\ next_page' = [f \in LFiles |-> IF Followers(list, f) = {} THEN next_page[f]
                                      ELSE link'[f]]
    /\ lfound' = NoFind /\ held' = NotHeld
    /\ UNCHANGED <<lpage, lpos>>

\* fstunl: the same for c_xdfunl.
FstunlLinked ==                                                       \* mutant
    LET list  == link_list
        files == {list[i] : i \in OpenPrefix(list)}
    IN /\ link' = [f \in LFiles |-> IF f \in files THEN NULLPAGE ELSE link[f]]
       /\ lfound' = NoFind /\ held' = NotHeld
       /\ UNCHANGED <<lpage, next_page, link_list, lpos>>
Fstunl ==
    LET list  == link_list
        files == {list[i] : i \in OpenPrefix(list)}
    IN /\ link' = [f \in LFiles |-> IF f \in files THEN NULLPAGE ELSE link[f]]
       /\ next_page' = [f \in LFiles |-> IF f \in files THEN NULLPAGE ELSE next_page[f]]
       /\ lfound' = NoFind /\ held' = NotHeld
       /\ UNCHANGED <<lpage, link_list, lpos>>

\* c_xdfput at the end of f: on its last page, or on a new one.  add_dir_page points the
\* last page of the file to the new page, and this to none.
LPut(f) ==
    LET full == Len(LastPage(f)) = LEntries
        last == IF full THEN <<f, Npages(f) + 1>> ELSE <<f, Npages(f)>>
    IN /\ IsOpen(f)
       /\ full => Npages(f) < LMaxPages[f] /\ (link[f] = NULLPAGE \/ PutsLinked)
       /\ lpage' = [lpage EXCEPT ![f] =
             IF full THEN Append(@, <<TRUE>>)
             ELSE [lpage[f] EXCEPT ![Npages(f)] = Append(LastPage(f), TRUE)]]
       /\ next_page' = [next_page EXCEPT ![f] = IF full THEN NULLPAGE ELSE @]
       /\ lpos' = [lpos EXCEPT ![f].cur_dir_page = last,
                               ![f].cur_entry = <<last, IF full THEN 0 ELSE Len(LastPage(f))>>,
                               ![f].cur_pageno = Npages(f) - 1]
       /\ lfound' = NoFind
       /\ UNCHANGED <<link, link_list, held>>

LiveAt(pl, rec) == pl \in LFiles \X Nat /\ pl[2] <= Npages(pl[1])
                 /\ rec < Len(lpage[pl[1]][pl[2]]) /\ lpage[pl[1]][pl[2]][rec + 1]

\* c_xdfdel: the entry is marked where it is, in the page of whichever file.
LDelete(h) ==
    LET pl == TargetPage(h[1], h[2]) IN
    /\ IsOpen(h[1]) /\ pl # NULLPAGE /\ LiveAt(pl, h[3])
    /\ lpage' = [lpage EXCEPT ![pl[1]][pl[2]][h[3] + 1] = FALSE]
    /\ lfound' = NoFind
    /\ UNCHANGED <<link, next_page, link_list, lpos, held>>

-----------------------------------------------------------------------------
\* Searches

\* The records from record rec of page pl on, as <<pages behind pl, record>>.
From(pl, rec) ==
    {x \in (0 .. MaxPageNumber) \X (0 .. LEntries - 1) :
        LiveAt(Ahead(pl, x[1]), x[2]) /\ (x[1] = 0 => x[2] >= rec)}
First(S) == CHOOSE x \in S : \A y \in S : x[1] < y[1] \/ (x[1] = y[1] /\ x[2] <= y[2])

\* next_match of f at position c: the position it leaves, and what it returns.
NextOfLink(f, c) ==
    LET from == From(c.cur_dir_page, c.page_record)
        x    == First(from)
        at   == Ahead(c.cur_dir_page, x[1])
        end  == CHOOSE n \in 0 .. MaxPageNumber :
                   NextPage(Ahead(c.cur_dir_page, n)) = NULLPAGE /\ Ahead(c.cur_dir_page, n) # NULLPAGE
        last == Ahead(c.cur_dir_page, end)
        nent == Len(lpage[last[1]][last[2]])
    IN IF c.cur_dir_page = NULLPAGE \/ c.cur_entry # <<c.cur_dir_page, c.page_record>>
       THEN [pos |-> c, status |-> "ERR_NO_POS"]
       ELSE IF from = {}
       THEN [pos |-> [cur_dir_page |-> NULLPAGE,
                      cur_entry |-> IF end = 0 /\ c.page_record > nent THEN c.cur_entry
                                    ELSE <<last, nent>>,
                      cur_pageno |-> c.cur_pageno + end, page_record |-> 0],
             status |-> "ERR_NOT_FOUND"]
       ELSE [pos |-> [cur_dir_page |-> at, cur_entry |-> <<at, x[2] + 1>>,
                      cur_pageno |-> c.cur_pageno + x[1], page_record |-> x[2] + 1],
             status |-> "handle", place |-> at, record |-> x[2],
             handle |-> <<f, c.cur_pageno + x[1], x[2]>>]

\* The walk to page number n in a linked file, which ends early at the last page.
WalkTo(f, n) ==
    LET d     == n - (Npages(f) - 1)
        steps == {k \in 1 .. Walked(d) : k = Walked(d) \/ Ahead(<<f, Npages(f)>>, k) = NULLPAGE}
        k     == CHOOSE k \in steps : \A j \in steps : k <= j
    IN [lpos[f] EXCEPT !.cur_dir_page = Ahead(<<f, Npages(f)>>, k),
                       !.cur_pageno = Npages(f) - 1 + k]

\* The position c_xdfloc2 takes at record rec of page number n, when cur is cur_pageno.
\* A page that is taken for the current one is looked for among the file's own.
StartAt(f, n, rec, cur) ==
    LET own == [lpos[f] EXCEPT !.cur_dir_page = IF n < Npages(f) THEN <<f, n + 1>> ELSE NULLPAGE,
                               !.cur_pageno = n]
        c   == IF n = cur \/ n < Npages(f) THEN own ELSE WalkTo(f, n)
    IN [c EXCEPT !.cur_entry = <<c.cur_dir_page, rec>>, !.page_record = rec]

Refused(f, c) == [pos |-> [c EXCEPT !.cur_entry = NULLPAGE, !.page_record = lpos[f].page_record],
                  status |-> "ERR_BAD_PAGENO"]

Found(f, m, start, far) ==
    /\ lpos' = [lpos EXCEPT ![f] = m.pos]
    /\ lfound' = [status |-> m.status, start |-> start, far |-> far,
                  at |-> IF m.status = "handle" THEN <<m.place, m.record>> ELSE NULLPAGE]
    /\ held' = IF m.status = "handle" /\ start # NULLPAGE
               THEN [handle |-> m.handle, place |-> m.place, record |-> m.record]
               ELSE NotHeld
    /\ UNCHANGED <<lpage, link, next_page, link_list>>

\* c_xdfloc2 from the beginning (record -1 of page 0) or behind the record of a handle.
LLocate(f, n, record) ==
    LET cur == IF record = -1 THEN -1 ELSE lpos[f].cur_pageno
        c   == StartAt(f, n, record + 1, cur)
        outside == n >= Npages(f) /\ n # cur
    IN /\ f \in Searched /\ IsOpen(f)
       /\ Found(f, IF outside /\ link[f] = NULLPAGE THEN Refused(f, lpos[f])
                   ELSE IF outside /\ c.cur_dir_page = NULLPAGE THEN Refused(f, c)
                   ELSE NextOfLink(f, c),
                IF TargetPage(f, n) = NULLPAGE THEN NULLPAGE ELSE <<TargetPage(f, n), record + 1>>,
                n >= Npages(f) + 2 \/ (n >= Npages(f) /\ n = cur))

\* c_xdfloc2 from where the last search stopped (fstsui).  A page that was given back
\* is read all the same.
LSui(f) ==
    LET c == lpos[f] IN
    /\ f \in Searched /\ IsOpen(f)
    /\ IF c.cur_dir_page = FREED
       THEN /\ lfound' = [status |-> FREED, start |-> NULLPAGE, far |-> FALSE, at |-> NULLPAGE]
            /\ held' = NotHeld
            /\ UNCHANGED <<lpage, link, next_page, link_list, lpos>>
       ELSE Found(f, IF c.cur_entry = NULLPAGE \/ c.cur_pageno = -1
                     THEN [pos |-> c, status |-> "ERR_NO_POS"] ELSE NextOfLink(f, c),
                  IF held # NotHeld /\ held.handle[1] = f
                     /\ c.cur_entry = <<held.place, held.record + 1>>
                  THEN c.cur_entry ELSE NULLPAGE,
                  FALSE)

LinkNext ==
    \/ \E f \in LFiles :
          \/ \E n \in 0 .. LEntries * LMaxPages[f] : LOpen(f, n)
          \/ LClose(f) \/ LPut(f) \/ LSui(f) \/ LLocate(f, 0, -1)
          \/ \E n \in 0 .. MaxPageNumber, record \in 0 .. LEntries - 1 :
                LLocate(f, n, record) \/ LDelete(<<f, n, record>>)
    \/ \E list \in Lists : Fstlnk(list)
    \/ Fstunl

LinkSpec == LinkInit /\ [][LinkNext]_lvars

-----------------------------------------------------------------------------
\* A search of linked files sees one directory, that of the first file followed by
\* those of the others: begun at its beginning, behind a record or behind the one it
\* returned last, it returns the first record there is from there on, and none only
\* when there is none.  (Not so far behind a handle: on the third page of linked files
\* or later, and on the page the search stands on, c_xdfloc2 loses its way.)
LinkedSearchFindsNext ==
    lfound.start # NULLPAGE /\ ~lfound.far =>
        LET ahead == From(lfound.start[1], lfound.start[2])
            x     == First(ahead) IN
        /\ lfound.status = "handle" => /\ ahead # {}
                                       /\ lfound.at = <<Ahead(lfound.start[1], x[1]), x[2]>>
        /\ lfound.status = "ERR_NOT_FOUND" => ahead = {}
        /\ lfound.status \in {"handle", "ERR_NOT_FOUND"}

\* The handle of a record found, in the first file or in one linked to it, designates
\* that record to c_xdfget2 and c_xdfdel for as long as the list is not changed and
\* none of its files closed, whatever is put at the end of the last file meanwhile.
HandleStaysWithRecord ==
    held # NotHeld => TargetPage(held.handle[1], held.handle[2]) = held.place

\* When a program unlinks before it closes a file, no search begun at the beginning or
\* behind a handle ever follows a pointer to a page given back.
FollowsNoFreedPage ==
    /\ \A f \in LFiles : next_page[f] # FREED
    /\ lfound.status = FREED => lfound.start = NULLPAGE
=============================================================================
