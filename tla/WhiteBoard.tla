----------------------------- MODULE WhiteBoard -----------------------------
(***************************************************************************)
(* The whiteboard (src/whiteboard/WhiteBoard_c.c): a chain of pages of     *)
(* lines; a key takes one line or more of one page, a search walks the     *)
(* chain.  A page is [lines, free, keys]: nbLines, firstFreeLine and its   *)
(* keys in the order of their lines; a key is [name, lines, e], where      *)
(* lines is 0 for the only key of a page made for it.  The first page of   *)
(* the sequence is the one the chain begins with.                          *)
(***************************************************************************)
EXTENDS Naturals, Sequences, FiniteSets, SequencesExt

CONSTANTS WbNames, WbPuts, WbPrefixes, WbFiles, NOENTRY, NOCKPT,
          WbLines,       \* the lines each key takes
          WbMaxLines,    \* WB_MAXLINESPERPAGE
          WbInitFirst    \* the program names its checkpoint before it puts a key

\* What a key may hold, and its line of the table with its flags.
WbValues == {c.val : c \in WbPuts} \cup UNION {{f[i].val : i \in DOMAIN f} : f \in WbFiles}
WbEntries == [val : WbValues, ro : BOOLEAN, until : BOOLEAN, onrestart : BOOLEAN,
              local : BOOLEAN, init : BOOLEAN, bad : BOOLEAN]
WbPages == [lines : Nat, free : Nat, keys : Seq([name : WbNames, lines : Nat, e : WbEntries])]

ASSUME WbAssumption ==
    /\ WbLines \in [WbNames -> Nat \ {0}] /\ WbMaxLines \in Nat \ {0} /\ WbInitFirst \in BOOLEAN
    /\ \A c \in WbPuts : c.key \in WbNames /\ c.wrong \in BOOLEAN /\ c.create \in BOOLEAN
    /\ \A f \in WbFiles : /\ f \in Seq(Range(f))
                          /\ \A d \in Range(f) : /\ d.key \in WbNames
                                                 /\ d.op \in {"define", "assign", "toomany"}
    /\ WbPrefixes \in SUBSET SUBSET WbNames
    /\ NOENTRY \notin WbEntries
    /\ NOCKPT \notin Seq(WbPages) /\ NOCKPT \notin [WbNames -> WbEntries \cup {NOENTRY}]

VARIABLES wbpages,       \* the chain, <<>> before wb_init
          wbckpt         \* the pages in the checkpoint file, NOCKPT without a file

wbvars == <<wbpages, wbckpt>>

-----------------------------------------------------------------------------
\* lookup_line: a page whose first key has lines = 0 holds only that one.
KeysOf(page) == IF page.keys # <<>> /\ Head(page.keys).lines = 0 THEN {1} ELSE DOMAIN page.keys

\* c_wb_lookup: page and place of the first key of that name in the chain, {} for none.
Hits(pages, k) == {h \in UNION {{i} \X KeysOf(pages[i]) : i \in DOMAIN pages} :
                     pages[h[1]].keys[h[2]].name = k}
Lookup(pages, k) ==
    {h \in Hits(pages, k) : \A o \in Hits(pages, k) : h[1] < o[1] \/ (h[1] = o[1] /\ h[2] <= o[2])}

LookupEntry(pages, k) == LET h == CHOOSE h \in Lookup(pages, k) : TRUE IN pages[h[1]].keys[h[2]].e
SetEntry(pages, k, e) ==
    LET h == CHOOSE h \in Lookup(pages, k) : TRUE IN [pages EXCEPT ![h[1]].keys[h[2]].e = e]

Board == [k \in WbNames |-> IF Lookup(wbpages, k) = {} THEN NOENTRY ELSE LookupEntry(wbpages, k)]

M == INSTANCE WbMap WITH
        board <- Board, loaded <- wbpages # <<>>,
        saved <- IF wbckpt = NOCKPT THEN NOCKPT
                 ELSE LET back == Reverse(wbckpt)
                      IN [k \in WbNames |-> IF Lookup(back, k) = {} THEN NOENTRY
                                            ELSE LookupEntry(back, k)]

-----------------------------------------------------------------------------
\* new_page: a page goes to the head of the chain.
NewPage(pages, lines) == <<[lines |-> lines, free |-> 0, keys |-> <<>>]>> \o pages

\* new_line: the first page of the chain with room, or a new one that holds at least n.
RoomyOff(pages, n) == {i \in DOMAIN pages : pages[i].free + n <= pages[i].lines + 1}  \* mutant
Roomy(pages, n) == {i \in DOMAIN pages : pages[i].free + n <= pages[i].lines}
WithRoom(pages, n) ==
    IF Roomy(pages, n) # {} THEN pages
    ELSE NewPage(pages, IF n > WbMaxLines THEN n ELSE WbMaxLines)
AddKey(pages, k, e) ==
    LET n == WbLines[k]
        p == WithRoom(pages, n)
        i == CHOOSE i \in Roomy(p, n) : \A j \in Roomy(p, n) : i <= j
    IN [p EXCEPT ![i].free = @ + n,
                 ![i].keys = Append(@, [name |-> k, e |-> e,
                                        lines |-> IF n > WbMaxLines THEN 0 ELSE n])]

-----------------------------------------------------------------------------
(* c_wb_check walks pages and keys in order and stops at the first         *)
(* callback that fails: wb_cb_read_only, for a key without value.          *)

EntryIn(pages, h) == pages[h[1]].keys[h[2]].e
Places(pages) == UNION {{i} \X KeysOf(pages[i]) : i \in DOMAIN pages}
Check(pages, new) ==                   \* new: what becomes of the entries called back for
    [i \in DOMAIN pages |-> [pages[i] EXCEPT !.keys =
        [j \in DOMAIN @ |-> IF <<i, j>> \in DOMAIN new THEN [@[j] EXCEPT !.e = new[<<i, j>>]]
                            ELSE @[j]]]]

Before(h, g) == h[1] < g[1] \/ (h[1] = g[1] /\ h[2] < g[2])
LockAll(pages, chosen) ==
    LET reached == {h \in chosen : \A g \in chosen : ~EntryIn(pages, g).init => Before(h, g)}
    IN Check(pages, [h \in reached |-> M!LockedEntry(EntryIn(pages, h))])
UndefineLocals(pages) ==
    Check(pages, [h \in {h \in Places(pages) : EntryIn(pages, h).local} |->
                     M!UndefinedEntry(EntryIn(pages, h))])

\* c_wb_lock, for the keys whose names begin with a prefix.
Locked(pages, S) ==
    LockAll(pages, {h \in Places(pages) : pages[h[1]].keys[h[2]].name \in S /\ EntryIn(pages, h).until})

\* c_wb_reload: each page of the file goes to the head of the chain.  The pass for
\* WB_REWRITE_AT_RESTART finds no key, flags_to_options never reports it; the mark
\* fromrestart, which no operation reads, is left out.
LockRestarted(pages) == LockAll(pages, {h \in Places(pages) : EntryIn(pages, h).onrestart})
ReloadedSwapped(pages) == LockRestarted(UndefineLocals(pages))        \* mutant
Reloaded(pages) == UndefineLocals(LockRestarted(pages))
Reload == Reloaded(Reverse(wbckpt))

\* wb_init.
Initial(pages) ==
    IF pages # <<>> THEN pages ELSE IF wbckpt # NOCKPT THEN Reload ELSE NewPage(pages, WbMaxLines)

-----------------------------------------------------------------------------
WbInit == wbpages = <<>> /\ wbckpt = NOCKPT

\* c_wb_checkpoint_name, or a call of c_wb_reload, by a program that starts.
WbStart == wbpages = <<>> /\ wbpages' = Initial(wbpages) /\ UNCHANGED wbckpt

\* c_wb_put: looks for the key first, and only then may find that nothing is loaded yet.
PutKey(pages, k, v, opts, wrong, create) ==
    IF Lookup(pages, k) # {}
    THEN SetEntry(pages, k, M!Overwritten(LookupEntry(pages, k), v, wrong, create))
    ELSE AddKey(Initial(pages), k, M!NewEntry(v, opts, create))
WbPut(k, v, opts, wrong, create) ==
    /\ WbInitFirst => wbpages # <<>>
    /\ wbpages' = PutKey(wbpages, k, v, opts, wrong, create)
    /\ UNCHANGED wbckpt

WbLock(S) ==
    /\ wbpages # <<>>
    /\ wbpages' = Locked(wbpages, S)
    /\ UNCHANGED wbckpt

\* c_wb_checkpoint writes the pages in the order of the chain over the file there is.
WbCheckpoint == wbpages # <<>> /\ wbckpt' = wbpages /\ UNCHANGED wbpages

\* The program ends, or dies between two calls.
WbDie == wbpages # <<>> /\ wbpages' = <<>> /\ UNCHANGED wbckpt

-----------------------------------------------------------------------------
(* c_wb_read: the directives of a file.  The table holds the keys the file *)
(* defined (value FALSE) and assigned (value TRUE).                        *)

\* wb_define and wb_define_check(line, 1).
DefineKey(r, d) ==
    IF Lookup(r.pages, d.key) # {} THEN r
    ELSE [pages |-> AddKey(r.pages, d.key, M!NewEntry(d.val, d.opts, TRUE)),
          defined |-> r.defined \cup {d.key}, assigned |-> r.assigned]

\* wb_key and wb_define_check(line, 0 or 2): a key is assigned once in a file, whether it
\* is locked or not; values in excess are found when the others are stored.
Assignable(r, d, strict) ==
    /\ Lookup(r.pages, d.key) # {}
    /\ d.key \notin r.assigned
    /\ strict => d.key \in r.defined
AssignKey(r, d, strict) ==
    IF ~Assignable(r, d, strict) THEN r
    ELSE LET e == LookupEntry(r.pages, d.key) IN
         [r EXCEPT !.pages = SetEntry(@, d.key, IF d.op = "toomany" THEN [e EXCEPT !.val = d.val]
                                                ELSE M!Stored(e, d.val)),
                   !.assigned = @ \cup {d.key}]

\* mode is WB_FORBID_DEFINE, WB_ALLOW_DEFINE or WB_STRICT_DICTIONARY.
WbRead(f, mode) ==
    /\ wbpages # <<>>
    /\ wbpages' = FoldLeft(
         LAMBDA r, d : IF d.op = "define"
                       THEN (IF mode = "forbid" THEN r ELSE DefineKey(r, d))
                       ELSE AssignKey(r, d, mode = "strict"),
         [pages |-> wbpages, defined |-> {}, assigned |-> {}], f).pages
    /\ UNCHANGED wbckpt

WbNext ==
    \/ WbStart \/ WbCheckpoint \/ WbDie
    \/ \E c \in WbPuts : WbPut(c.key, c.val, c.opts, c.wrong, c.create)
    \/ \E S \in WbPrefixes : WbLock(S)
    \/ \E f \in WbFiles, mode \in {"forbid", "allow", "strict"} : WbRead(f, mode)

WbSpec == WbInit /\ [][WbNext]_wbvars

-----------------------------------------------------------------------------
\* The pages implement a map: whatever the sizes of the keys, the pages they went to and
\* the order a restart brought the pages back in, a key is found once, with its last value.
ImplementsMap == M!MapInit /\ [][UNCHANGED wbvars \/ M!MapNext]_(M!mapvars)

\* The lines of a page's keys are the ones below firstFreeLine, inside the page; a key
\* larger than a page has one of its own.
PagesFit ==
    \A i \in DOMAIN wbpages :
       LET page == wbpages[i] IN
       /\ page.free <= page.lines
       /\ page.free = FoldLeft(LAMBDA n, x : n + WbLines[x.name], 0, page.keys)
       /\ \A j \in DOMAIN page.keys : page.keys[j].lines = 0 => Len(page.keys) = 1
=============================================================================
