------------------------------- MODULE WaFile -------------------------------
(***************************************************************************)
(* Units and word-addressable files (src/primitives/c_baseio.c): the file  *)
(* table FGFDT behind fnom, fclos, waopen and waclos; the table wafile of  *)
(* the files that are open for words, known by their descriptor; and the   *)
(* cache of pages waread and wawrit go through when WA_CONFIG asks for     *)
(* one.  One program, one thread; the system gives out file descriptors,   *)
(* the lowest that is free.                                                *)
(*                                                                         *)
(* A request is worked on page by page: one step per call of wa_page_read  *)
(* and wa_page_write, and one per page scrapped to make room.  Which page  *)
(* is the least useful follows from ages that are not modelled: any may    *)
(* be.  A call that fails without changing anything is not a step.         *)
(***************************************************************************)
EXTENDS Integers, Sequences, FiniteSets, SequencesExt

CONSTANTS
    Units,           \* unit numbers
    Names,           \* files
    NoName,
    Words,           \* what programs write
    Junk,            \* a word that was never given a value
    PageSizes,       \* what WA_CONFIG may say: WA_PAGE_SIZE, 0 without pages,
    PageNbs,         \*   and WA_PAGE_NB
    WA_PAGE_LIMIT,
    MAXWAFILES,
    Adrs, Lengths,   \* the requests: first word and number of words
    MaxSize,         \* bound: the length of each file
    FclosesOpen      \* programs may call fclos for a unit they did not waclos

ASSUME WaAssumption ==
    /\ NoName \notin Names /\ Junk \notin Words /\ IsFiniteSet(Units)
    /\ PageSizes \subseteq Nat /\ PageNbs \subseteq Nat \ {0}
    /\ WA_PAGE_LIMIT \in Nat \ {0} /\ MAXWAFILES \in Nat \ {0}
    /\ Adrs \subseteq Nat \ {0} /\ Lengths \subseteq Nat \ {0}
    /\ MaxSize \in [Names -> Nat] /\ FclosesOpen \in BOOLEAN

VARIABLES
    wadisk,           \* the words of each file on disk
    descriptor,     \* the system's: the file of each open descriptor
    fgfdt,          \* FGFDT, by unit
    wafile,         \* wafile[], its pages with their words
    cfg_size,       \* WA_PAGE_SIZE
    cfg_nb,         \* WA_PAGE_NB
    global_count,   \* page buffers allocated
    nfree,          \* the last of free_list
    todo,           \* what is left of the request, and the hole before it
    got,            \* the words just read
    says            \* what the call that ended the program, or failed to open, said

wavars == <<wadisk, descriptor, fgfdt, wafile, cfg_size, cfg_nb, global_count, nfree,
            todo, got, says>>
config == <<cfg_size, cfg_nb>>
cache  == <<global_count, nfree>>

Fds     == 3 .. 3 + Cardinality(Units)
Slots   == 1 .. MAXWAFILES
Least(S) == CHOOSE x \in S : \A y \in S : x <= y
AtMost(a, b) == IF a < b THEN a ELSE b
AtLeast(a, b) == IF a < b THEN b ELSE a

NoUnit == [name |-> NoName, fd |-> -1, open_flag |-> 0, file_size |-> 0]
NoSlotUsed == [file_desc |-> -1, page |-> <<>>]
NoTodo == [kind |-> "none"]

WaInit ==
    /\ wadisk = [f \in Names |-> <<>>]
    /\ descriptor = [d \in Fds |-> NoName]
    /\ fgfdt = [u \in Units |-> NoUnit]
    /\ wafile = [s \in Slots |-> NoSlotUsed]
    /\ cfg_size \in PageSizes /\ cfg_nb \in PageNbs
    /\ global_count = 0 /\ nfree = -1
    /\ todo = NoTodo /\ got = <<>> /\ says = "nothing"

Ready == todo = NoTodo /\ says = "nothing"

-----------------------------------------------------------------------------
\* Units.

\* qqcopen of unit u on file f: the first free slot of wafile.  The pages of the slot are
\* only reset when there are any.
Connect(u, f) ==
    LET free == {s \in Slots : wafile[s].file_desc = -1}
        fd   == Least({d \in Fds : descriptor[d] = NoName})
        s    == Least(free)
    IN IF free = {}
       THEN /\ says' = "too_many_open_files"
            /\ UNCHANGED <<descriptor, fgfdt, wafile>>
       ELSE /\ descriptor' = [descriptor EXCEPT ![fd] = f]
            /\ wafile' = [wafile EXCEPT ![s].file_desc = fd,
                                        ![s].page = IF cfg_size = 0 THEN @ ELSE <<>>]
            /\ fgfdt' = [fgfdt EXCEPT ![u] = [name |-> f, fd |-> fd, open_flag |-> 1,
                                              file_size |-> Len(wadisk[f])]]
            /\ UNCHANGED says

\* c_fnom of a file of words: it is opened at once.  When that fails the entry is given
\* back.  Here a file is on one unit at a time.
Fnom(u, f) ==
    /\ Ready /\ fgfdt[u].name = NoName
    /\ \A v \in Units : fgfdt[v].name # f
    /\ Connect(u, f)
    /\ got' = <<>>
    /\ UNCHANGED <<wadisk, config, cache, todo>>

\* c_waopen2 of a unit that waclos closed.
Waopen(u) ==
    /\ Ready /\ fgfdt[u].name # NoName /\ fgfdt[u].open_flag = 0
    /\ Connect(u, fgfdt[u].name)
    /\ got' = <<>>
    /\ UNCHANGED <<wadisk, config, cache, todo>>

\* The first slot with the descriptor of the unit: how every call finds its pages.
SlotsOf(u) == {s \in Slots : wafile[s].file_desc = fgfdt[u].fd}
SlotOf(u)  == Least(SlotsOf(u))

\* What writing the words of page p does to a file: write() fills what it skips.
WordsAfter(s, p) ==
    IF p.touch = 0 THEN s
    ELSE [i \in 1 .. AtLeast(Len(s), p.walast) |->
             IF i \in p.wa0 .. p.walast THEN p.word[i - p.wa0]
             ELSE IF i <= Len(s) THEN s[i] ELSE Junk]

\* The words of file f when those pages are written, one after the other.
Flushed(f, pages) ==
    LET after[k \in 0 .. Len(pages)] ==
            IF k = 0 THEN wadisk[f] ELSE WordsAfter(after[k - 1], pages[k])
    IN after[Len(pages)]

\* What qqcclos leaves of a slot, and of free_list.
SlotClosedLater(s) == [wafile[s] EXCEPT !.page = <<>>]                  \* mutant
SlotClosed(s) == NoSlotUsed
BuffersDropped(s) == nfree                                            \* mutant
BuffersFreed(s) == nfree + Len(wafile[s].page)

\* c_waclos2 with qqcclos: all pages of the slot go to the disk.
Waclos(u) ==
    /\ Ready /\ fgfdt[u].open_flag = 1 /\ SlotsOf(u) # {}
    /\ LET s == SlotOf(u)
           f == descriptor[fgfdt[u].fd]
       IN /\ wadisk' = [wadisk EXCEPT ![f] = Flushed(f, wafile[s].page)]
          /\ nfree' = BuffersFreed(s)
          /\ wafile' = [wafile EXCEPT ![s] = SlotClosed(s)]
          /\ fgfdt' = [fgfdt EXCEPT ![u].fd = -1, ![u].open_flag = 0,
                                    ![u].file_size = IF cfg_size = 0 THEN @ ELSE 0]
          /\ descriptor' = [descriptor EXCEPT ![fgfdt[u].fd] = NoName]
    /\ got' = <<>>
    /\ UNCHANGED <<config, global_count, todo, says>>

\* c_fclos: closes the descriptor of an open unit itself, and forgets the unit.  wafile
\* is not told.
Fclos(u) ==
    /\ Ready /\ fgfdt[u].name # NoName
    /\ fgfdt[u].open_flag = 1 => FclosesOpen
    /\ descriptor' = [d \in Fds |-> IF fgfdt[u].open_flag = 1 /\ d = fgfdt[u].fd
                                    THEN NoName ELSE descriptor[d]]
    /\ fgfdt' = [fgfdt EXCEPT ![u] = NoUnit]
    /\ got' = <<>>
    /\ UNCHANGED <<wadisk, wafile, config, cache, todo, says>>

-----------------------------------------------------------------------------
\* Requests.

\* c_wawrit2.  A hole before the words is filled first, up to and with the word they
\* begin at, from an array nobody gave a value.
Wawrit(u, adr, n, w) ==
    /\ Ready /\ fgfdt[u].open_flag = 1 /\ SlotsOf(u) # {}
    /\ adr + n - 1 <= MaxSize[fgfdt[u].name]                       \* bound
    /\ LET end == fgfdt[u].file_size IN
       todo' = [kind |-> "write", unit |-> u, adr |-> adr, n |-> n, word |-> w,
                hole |-> IF adr > end + 1 THEN adr - end ELSE 0]
    /\ got' = <<>>
    /\ UNCHANGED <<wadisk, descriptor, fgfdt, wafile, config, cache, says>>

\* c_waread2: -2 behind the file, 0 from an empty one, no more than there is.
Waread(u, adr, n) ==
    LET end == fgfdt[u].file_size
        m   == AtMost(n, end - adr + 1)
    IN /\ Ready /\ fgfdt[u].open_flag = 1 /\ SlotsOf(u) # {}
       /\ adr <= end + 2 /\ end # 0 /\ m # 0
       /\ todo' = [kind |-> "read", unit |-> u, adr |-> adr, n |-> m, word |-> Junk,
                   hole |-> 0]
       /\ got' = <<>>
       /\ UNCHANGED <<wadisk, descriptor, fgfdt, wafile, config, cache, says>>

\* The next call of wa_page_read or wa_page_write: words up to the end of their page.
Piece ==
    LET end   == fgfdt[todo.unit].file_size
        adr   == IF todo.hole > 0 THEN todo.adr - todo.hole + 1 ELSE todo.adr
        n     == IF todo.hole > 0 THEN todo.hole ELSE todo.n
        lastadr == ((adr + cfg_size - 1) \div cfg_size) * cfg_size
    IN [adr  |-> adr,
        n    |-> IF cfg_size = 0 THEN n ELSE AtMost(n, lastadr - adr + 1),
        word |-> IF todo.hole > 0 THEN Junk ELSE todo.word]

Done(n) ==
    todo' = IF todo.hole > 0 THEN [todo EXCEPT !.hole = @ - n]
            ELSE IF n = todo.n THEN NoTodo
            ELSE [todo EXCEPT !.adr = @ + n, !.n = @ - n]

\* The first page in core that a piece fits on, or 0.
Holds(p, a) == a.adr >= p.wa0 /\ a.adr + a.n <= p.wa0 + cfg_size
PageWith(s, a) ==
    LET fit == {i \in DOMAIN wafile[s].page : Holds(wafile[s].page[i], a)} IN
    IF fit = {} THEN 0 ELSE Least(fit)

NeedsPage ==
    /\ todo # NoTodo /\ says = "nothing" /\ cfg_size > 0
    /\ PageWith(SlotOf(todo.unit), Piece) = 0
FileFull(s) == Len(wafile[s].page) >= cfg_nb
CacheFull == nfree < 0 /\ global_count >= WA_PAGE_LIMIT

\* scrap_page, called by get_new_page: of the file's pages when it has its share, of all
\* pages when none may be allocated.  A touched page is written first, to whatever file
\* the descriptor is of now.
Scrap(s, i) ==
    /\ NeedsPage
    /\ FileFull(SlotOf(todo.unit)) => s = SlotOf(todo.unit)
    /\ FileFull(SlotOf(todo.unit)) \/ CacheFull
    /\ i \in DOMAIN wafile[s].page
    /\ LET p == wafile[s].page[i]
           f == descriptor[wafile[s].file_desc]
       IN IF f = NoName /\ p.touch = 1
          THEN /\ says' = "cannot_write_page"
               /\ UNCHANGED <<wadisk, wafile, nfree>>
          ELSE /\ wadisk' = IF p.touch = 1 THEN [wadisk EXCEPT ![f] = WordsAfter(@, p)] ELSE wadisk
               /\ wafile' = [wafile EXCEPT ![s].page = RemoveAt(@, i)]
               /\ nfree' = nfree + 1
               /\ UNCHANGED says
    /\ got' = <<>>
    /\ UNCHANGED <<descriptor, fgfdt, config, global_count, todo>>

\* The page a piece will be on, before it is read: its first word.
Wa0(a) == AtLeast(a.adr - (a.adr % cfg_size) + 1, 1)

\* A page as read() leaves it: the words of the file, then zeros.
PageIn(f, wa0, n) ==
    LET m == AtMost(n, AtLeast(Len(wadisk[f]) - wa0 + 1, 0)) IN
    [wa0 |-> wa0, walast |-> wa0 + m - 1, touch |-> 0,
     word |-> [k \in 0 .. cfg_size - 1 |-> IF k < m THEN wadisk[f][wa0 + k] ELSE Junk]]

\* A page nobody has read into: a buffer as another page left it.
PageRaw(wa0) == [wa0 |-> wa0, walast |-> 0, touch |-> 0,
                 word |-> [k \in 0 .. cfg_size - 1 |-> Junk]]

\* How many words of the page the calls ask of read(), and stop the program without.
ExpectedOver(size, wa0) == IF cfg_size + wa0 > size THEN size + 2 - wa0 ELSE cfg_size  \* mutant
Expected(size, wa0) == IF cfg_size + wa0 > size THEN size + 1 - wa0 ELSE cfg_size

\* wa_page_write reads the page again unless the words cover it, or begin it and reach
\* the end of the file.
RereadsPartly(a, size) ==                                             \* mutant
    a.adr + a.n # Wa0(a) + cfg_size /\ a.adr + a.n < size
Rereads(a, size) ==
    \/ a.adr > Wa0(a)
    \/ a.adr + a.n # Wa0(a) + cfg_size /\ a.adr + a.n < size

\* A buffer for one more page, from free_list or allocated.
Buffer(new) ==
    IF ~new THEN UNCHANGED cache
    ELSE IF nfree >= 0 THEN nfree' = nfree - 1 /\ UNCHANGED global_count
    ELSE global_count' = global_count + 1 /\ UNCHANGED nfree

HasRoom == ~NeedsPage \/ ~(FileFull(SlotOf(todo.unit)) \/ CacheFull)

\* wa_page_write, and qqcwawr without pages.
WritePage ==
    /\ todo.kind = "write" /\ says = "nothing" /\ cfg_size > 0 /\ HasRoom
    /\ LET u == todo.unit
           s == SlotOf(u)
           a == Piece
           f == descriptor[fgfdt[u].fd]
           size == fgfdt[u].file_size
           old  == wafile[s].page
           new  == NeedsPage
           i    == IF new THEN Len(old) + 1 ELSE PageWith(s, a)
           read == PageIn(f, Wa0(a), Expected(size, Wa0(a)))
           page == IF ~new THEN old[i]
                   ELSE IF Rereads(a, size) THEN read ELSE PageRaw(Wa0(a))
           short == new /\ Rereads(a, size)
                    /\ read.walast - read.wa0 + 1 < Expected(size, Wa0(a))
           last == a.adr + a.n - 1
           full == [page EXCEPT
                      !.touch = 1, !.walast = AtLeast(@, last),
                      !.word = [k \in DOMAIN @ |-> IF page.wa0 + k \in a.adr .. last
                                                   THEN a.word ELSE @[k]]]
           all  == IF new THEN Append(old, full) ELSE [old EXCEPT ![i] = full]
       IN /\ wafile' = [wafile EXCEPT ![s].page = all]
          /\ fgfdt' = [fgfdt EXCEPT ![u].file_size = AtLeast(@, last)]
          /\ Buffer(new)
          /\ says' = IF short THEN "cannot_read_page"
                     ELSE IF \E j, k \in DOMAIN all :
                                j # k /\ all[j].wa0 \in all[k].wa0 .. all[k].wa0 + cfg_size - 1
                     THEN "overlapping_pages" ELSE says
          /\ Done(a.n)
    /\ got' = <<>>
    /\ UNCHANGED <<wadisk, descriptor, config>>

\* wa_page_read.  Its check for overlapping pages compares every page with the one just
\* read instead of with each other.
ReadPage ==
    /\ todo.kind = "read" /\ says = "nothing" /\ cfg_size > 0 /\ HasRoom
    /\ LET u == todo.unit
           s == SlotOf(u)
           a == Piece
           f == descriptor[fgfdt[u].fd]
           old  == wafile[s].page
           new  == NeedsPage
           i    == IF new THEN Len(old) + 1 ELSE PageWith(s, a)
           read == PageIn(f, Wa0(a), cfg_size)
           all  == IF new THEN Append(old, read) ELSE old
           page == all[i]
       IN /\ wafile' = [wafile EXCEPT ![s].page = all]
          /\ got' = [k \in 1 .. a.n |->
                       LET at == a.adr - page.wa0 + k - 1 IN
                       IF at \in DOMAIN page.word THEN page.word[at] ELSE Junk]
          /\ Buffer(new)
          /\ says' = IF new /\ read.walast - read.wa0 + 1
                               < Expected(fgfdt[u].file_size, Wa0(a))
                     THEN "cannot_read_page"
                     ELSE IF \E j, k \in DOMAIN all :
                                j # k /\ all[j].wa0 \in page.wa0 .. page.wa0 + cfg_size - 1
                     THEN "overlapping_pages" ELSE says
          /\ Done(a.n)
    /\ UNCHANGED <<wadisk, descriptor, fgfdt, config>>

\* Without pages qqcwawr and qqcward go to the disk at once.
Direct ==
    /\ todo # NoTodo /\ says = "nothing" /\ cfg_size = 0
    /\ LET u == todo.unit
           a == Piece
           f == descriptor[fgfdt[u].fd]
           last == a.adr + a.n - 1
       IN IF todo.kind = "write"
          THEN /\ wadisk' = [wadisk EXCEPT ![f] =
                     WordsAfter(@, [wa0 |-> a.adr, walast |-> last, touch |-> 1,
                                 word |-> [k \in 0 .. a.n - 1 |-> a.word]])]
               /\ fgfdt' = [fgfdt EXCEPT ![u].file_size = AtLeast(@, last)]
               /\ got' = <<>>
          ELSE /\ got' = SubSeq(wadisk[f], a.adr, last)
               /\ UNCHANGED <<wadisk, fgfdt>>
    /\ Done(Piece.n)
    /\ UNCHANGED <<descriptor, wafile, config, cache, says>>

WaNext ==
    \/ \E u \in Units :
          \/ \E f \in Names : Fnom(u, f)
          \/ Waopen(u) \/ Waclos(u) \/ Fclos(u)
          \/ \E adr \in Adrs, n \in Lengths :
                \/ \E w \in Words : Wawrit(u, adr, n, w)
                \/ Waread(u, adr, n)
    \/ \E s \in Slots, i \in 1 .. Cardinality(Units) * MAXWAFILES : Scrap(s, i)
    \/ WritePage \/ ReadPage \/ Direct

WaSpec == WaInit /\ [][WaNext]_wavars

-----------------------------------------------------------------------------
\* The words of a file as its unit sees them: on a page, or else on disk.
WordsOf(f) ==
    LET us == {u \in Units : fgfdt[u].name = f /\ fgfdt[u].open_flag = 1} IN
    IF us = {} THEN wadisk[f]
    ELSE LET u  == CHOOSE u \in us : TRUE
             P  == Range(wafile[SlotOf(u)].page)
             On(k) == {p \in P : k \in p.wa0 .. p.walast}
         IN [k \in 1 .. fgfdt[u].file_size |->
                IF On(k) # {} THEN LET p == CHOOSE p \in On(k) : TRUE IN p.word[k - p.wa0]
                ELSE IF k <= Len(wadisk[f]) THEN wadisk[f][k] ELSE Junk]

Flat == INSTANCE WordFile
    WITH File <- Names, Word <- Words \cup {Junk},
         words <- [f \in Names |-> WordsOf(f)],
         todo <- IF todo = NoTodo THEN NoTodo
                 ELSE [kind |-> todo.kind, file |-> fgfdt[todo.unit].name,
                       adr |-> todo.adr, n |-> todo.n, word |-> todo.word]

\* Behind the pages, their eviction to make room for others and the tables that find
\* them by descriptor, every file is one array of words that only requests on its own
\* unit change: what is read is what was written last, also by a unit closed since, and
\* also after the pages went to the disk for those of another file.
ImplementsWords == Flat!WfSpec

\* With one page to a file, which is the default, no request ever stops the program: no
\* page overlaps another, every page written has a file, and every page read again is as
\* long on disk as the size of the file says.
SurvivesWithOnePage == cfg_nb = 1 => says \in {"nothing", "too_many_open_files"}

PagesInCore == UNION {{s} \X DOMAIN wafile[s].page : s \in Slots}

\* Every page buffer is on free_list or holds one page, and there are no more than the
\* limit; a file has no more than its share.
BuffersConserved ==
    /\ global_count = nfree + 1 + Cardinality(PagesInCore)
    /\ global_count <= WA_PAGE_LIMIT
    /\ \A s \in Slots : Len(wafile[s].page) <= cfg_nb

\* "too_many_open_files": said when every slot of wafile belongs to a file that is open.
RefusedWhenFull ==
    says = "too_many_open_files" =>
        Cardinality({u \in Units : fgfdt[u].open_flag = 1}) = MAXWAFILES
=============================================================================
