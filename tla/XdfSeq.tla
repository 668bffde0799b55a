------------------------------- MODULE XdfSeq -------------------------------
(***************************************************************************)
(* A sequential standard file (the xdf_seq branches of c_xdfopn, c_xdfput, *)
(* c_xdfdel, c_xdfget2, c_xdfloc2, next_match and c_xdfcls in              *)
(* src/fstd98/xdf98.c, and fstrwd, fstskp, fstweo, fstapp in fstd98.c).    *)
(* It has no directory: records are found by walking from one to the next  *)
(* by their lengths, back by the postfix behind each, and marks of level 1 *)
(* to 15 end files within the file, 15 the file.                           *)
(*                                                                         *)
(* Addresses are in 64-bit units; the file header, a mark and each half of *)
(* a postfix take one.  The 1989 format is left out, and so is rewriting a *)
(* record where it is, which the standard file layer never asks for.       *)
(***************************************************************************)
EXTENDS XdfHandle, Sequences, SequencesExt, FiniteSets

CONSTANTS
    SVals, SDeleted,     \* contents; what a deleted record is to a search
    SLens,               \* lengths of records, before c_xdfput lengthens them
    SLevels,             \* levels of the logical marks programs write
    SMaxAddr,            \* bound: the last unit
    RewindsCreated       \* programs rewind a file in the session that created it

ASSUME SeqAssumption ==
    /\ SDeleted \notin SVals /\ SLens \subseteq Nat \ {0} /\ SLevels \subseteq 1 .. 14
    /\ SMaxAddr \in Nat /\ RewindsCreated \in BOOLEAN

VARIABLES
    scell,       \* the units of the file
    dlen,        \* how many there are on disk
    file_size,   \* FGFDT[].file_size: those the program can read
    sopen,       \* how the file is open
    cur_addr,
    seq_bof,
    valid_pos, head_keys,   \* head_keys: the address of the header it holds
    modified,
    sfound       \* what the last search found, when nothing was written since (history)

sqvars == <<scell, dlen, file_size, sopen, cur_addr, seq_bof, valid_pos, head_keys, modified,
            sfound>>

Unit(idtyp, lng, val, prev) == [idtyp |-> idtyp, lng |-> lng, val |-> val, prev |-> prev]
FileHeader == Unit(0, 1, SDeleted, 0)
Body       == Unit(1, 1, SDeleted, 0)        \* inside a record or a postfix
EofMark(l) == Unit(112 + l, 1, SDeleted, 0)
Postfix(a) == Unit(0, 2, SDeleted, a)        \* of the record at a
NotFound   == [found |-> FALSE]

SeqInit ==
    /\ scell = [a \in 1 .. SMaxAddr |-> Body]
    /\ dlen = 0 /\ file_size = 0 /\ sopen = "closed"
    /\ cur_addr = 0 /\ seq_bof = 1 /\ valid_pos = FALSE /\ head_keys = 0
    /\ modified = FALSE /\ sfound = NotFound

Bigger(a, b) == IF a < b THEN b ELSE a
Written == sopen \in {"create", "rw"}
Ends(a)  == a > file_size \/ scell[a].idtyp \in 112 .. 127

-----------------------------------------------------------------------------
\* c_xdfopn of a new file: the header and nothing behind it.  seq_bof keeps the value
\* init_file gives it, the first word of the file.
SCreate ==
    /\ sopen = "closed" /\ dlen = 0
    /\ scell' = [scell EXCEPT ![1] = FileHeader]
    /\ dlen' = 1 /\ file_size' = 1 /\ cur_addr' = 2
    /\ sopen' = "create" /\ modified' = TRUE
    /\ UNCHANGED <<seq_bof, valid_pos, head_keys, sfound>>

\* c_xdfopn of an old one.
SOpen(mode) ==
    /\ sopen = "closed" /\ dlen > 0
    /\ sopen' = mode /\ file_size' = dlen
    /\ cur_addr' = 2 /\ seq_bof' = 2
    /\ UNCHANGED <<scell, dlen, valid_pos, head_keys, modified, sfound>>

\* c_xdfcls: a file that was modified is cut where the last record put ends.
SClose ==
    /\ sopen # "closed"
    /\ dlen' = IF modified THEN file_size ELSE dlen
    /\ sopen' = "closed" /\ file_size' = 0 /\ cur_addr' = 0 /\ seq_bof' = 1
    /\ valid_pos' = FALSE /\ head_keys' = 0 /\ modified' = FALSE /\ sfound' = NotFound
    /\ UNCHANGED scell

\* c_xdfput: the record, its postfix, and the mark that ends the file.
SPut(v, n) ==
    LET next == NextCluster(cur_addr - 1 + n + 2) + 1
        lng  == next - 2 - cur_addr
    IN /\ Written /\ next <= SMaxAddr
       /\ scell' = [a \in 1 .. SMaxAddr |->
             IF a = cur_addr THEN Unit(1, lng, v, 0)
             ELSE IF a = next - 2 THEN Postfix(cur_addr)
             ELSE IF a = next THEN EofMark(15)
             ELSE IF a \in cur_addr .. next THEN Body ELSE scell[a]]
       /\ cur_addr' = next
       /\ file_size' = next /\ dlen' = Bigger(dlen, next)
       /\ modified' = TRUE /\ sfound' = NotFound
       /\ UNCHANGED <<sopen, seq_bof, valid_pos, head_keys>>

\* c_fstweo.  A logical mark is followed by the mark that ends the file.  Programs write
\* logical marks in the part of the file where clusters are single units.
FstweoUnended(level) ==                                               \* mutant
    /\ Written /\ cur_addr + 1 <= SMaxAddr
    /\ level < 15 => cur_addr < MB32
    /\ scell' = [scell EXCEPT ![cur_addr] = EofMark(level)]
    /\ cur_addr' = IF level < 15 THEN cur_addr + 1 ELSE cur_addr
    /\ file_size' = Bigger(file_size, cur_addr) /\ dlen' = Bigger(dlen, cur_addr)
    /\ sfound' = NotFound
    /\ UNCHANGED <<sopen, seq_bof, valid_pos, head_keys, modified>>
Fstweo(level) ==
    LET last == IF level < 15 THEN cur_addr + 1 ELSE cur_addr IN
    /\ Written /\ last <= SMaxAddr
    /\ level < 15 => cur_addr < MB32
    /\ scell' = [a \in 1 .. SMaxAddr |->
          IF a = last THEN EofMark(15) ELSE IF a = cur_addr THEN EofMark(level) ELSE scell[a]]
    /\ cur_addr' = last
    /\ file_size' = Bigger(file_size, last) /\ dlen' = Bigger(dlen, last)
    /\ sfound' = NotFound
    /\ UNCHANGED <<sopen, seq_bof, valid_pos, head_keys, modified>>

\* c_fstrwd
Fstrwd ==
    /\ sopen # "closed" /\ (sopen = "create" => RewindsCreated)
    /\ cur_addr' = seq_bof /\ valid_pos' = FALSE /\ sfound' = NotFound
    /\ UNCHANGED <<scell, dlen, file_size, sopen, seq_bof, head_keys, modified>>

IsPostfix(a) == a \in 1 .. file_size /\ scell[a].idtyp = 0 /\ scell[a].prev # 0

\* c_fstskp over one record.
FstskpForward ==
    LET to == cur_addr + scell[cur_addr].lng IN
    /\ sopen # "closed" /\ ~Ends(cur_addr)
    /\ cur_addr' = IF IsPostfix(to) THEN to + 2 ELSE to
    /\ sfound' = NotFound
    /\ UNCHANGED <<scell, dlen, file_size, sopen, seq_bof, valid_pos, head_keys, modified>>

FstskpBackward ==
    /\ sopen # "closed" /\ cur_addr - 2 > seq_bof /\ IsPostfix(cur_addr - 2)
    /\ cur_addr' = scell[cur_addr - 2].prev
    /\ sfound' = NotFound
    /\ UNCHANGED <<scell, dlen, file_size, sopen, seq_bof, valid_pos, head_keys, modified>>

\* The addresses a walk from a by lengths meets, up to the first that stops it.
Walk(a, stops) ==
    LET w[b \in Nat] == IF stops[b] THEN <<b>> ELSE <<b>> \o w[b + scell[b].lng] IN w[a]

\* c_fstapp: to the first mark, of any level.
Fstapp ==
    /\ sopen # "closed"
    /\ cur_addr' = Last(Walk(cur_addr, [a \in Nat |-> Ends(a)]))
    /\ head_keys' = cur_addr' /\ sfound' = NotFound
    /\ UNCHANGED <<scell, dlen, file_size, sopen, seq_bof, valid_pos, modified>>

-----------------------------------------------------------------------------
\* c_xdfloc2 and next_match: from cur_addr, from the beginning, or behind the record of
\* a handle, where the postfix is met first.  What has an idtyp of 112 and more ends the
\* search, deleted records among it; a logical mark is passed.
Fstinf(v, start) ==
    LET stops == [a \in Nat |-> a > file_size \/ scell[a].idtyp >= 112
                                 \/ (scell[a].idtyp = 1 /\ scell[a].val = v)]
        at    == Last(Walk(start, stops))
        found == at <= file_size /\ scell[at].idtyp = 1
    IN /\ sopen # "closed"
       /\ start \in {cur_addr, seq_bof} \cup
             (IF sfound.found
              THEN LET a == AddressFromHandle(sfound.handle) + 1 IN {a + scell[a].lng} ELSE {})
       /\ valid_pos' = found
       /\ head_keys' = at
       /\ cur_addr' = IF found THEN at + scell[at].lng + 2
                      ELSE IF at <= file_size /\ scell[at].idtyp \in 112 .. 126 THEN at + 1
                      ELSE at
       /\ sfound' = IF found THEN [found |-> TRUE, addr |-> at, val |-> v,
                                   handle |-> MakeSeqHandle(at - 1, 0)] ELSE NotFound
       /\ UNCHANGED <<scell, dlen, file_size, sopen, seq_bof, modified>>

\* c_xdfget2 of the record found last, by its handle.
SGet ==
    LET a == AddressFromHandle(sfound.handle) + 1 IN
    /\ sopen # "closed" /\ sfound.found /\ valid_pos /\ a = head_keys
    /\ sfound' = [sfound EXCEPT !.val = scell[a].val]
    /\ UNCHANGED <<scell, dlen, file_size, sopen, cur_addr, seq_bof, valid_pos, head_keys,
                   modified>>

\* c_xdfdel of the record found last: its header on disk, where the handle says.
SDelete ==
    LET a == AddressFromHandle(sfound.handle) + 1 IN
    /\ Written /\ sfound.found /\ scell[a].idtyp = 1
    /\ scell' = [scell EXCEPT ![a].idtyp = 255]
    /\ modified' = TRUE
    /\ UNCHANGED <<dlen, file_size, sopen, cur_addr, seq_bof, valid_pos, head_keys, sfound>>

SeqNext ==
    \/ SCreate \/ SClose
    \/ \E mode \in {"ro", "rw"} : SOpen(mode)
    \/ \E v \in SVals : \/ \E n \in SLens : SPut(v, n)
                        \/ \E start \in 1 .. SMaxAddr + 1 : Fstinf(v, start)
    \/ \E level \in SLevels \cup {15} : Fstweo(level)
    \/ Fstrwd \/ FstskpForward \/ FstskpBackward \/ Fstapp \/ SGet \/ SDelete

SeqSpec == SeqInit /\ [][SeqNext]_sqvars

-----------------------------------------------------------------------------
\* The tape.

\* Where its records and logical marks begin, from behind the file header, and where it
\* ends.
Size == IF sopen = "closed" THEN dlen ELSE file_size
Final(a) == a > Size \/ scell[a].idtyp = 127
Track == Walk(2, [a \in Nat |-> Final(a)])
Items == SelectSeq(Track, LAMBDA a : ~Final(a) /\ scell[a].idtyp # 0)

ItemAt(a) == CHOOSE i \in DOMAIN Items : Items[i] = a

Tape == INSTANCE TapeFile
    WITH Value <- SVals, Deleted <- SDeleted, Levels <- 1 .. 14,
         tape <- LET items == Items IN
                 [i \in DOMAIN items |->
                    LET u == scell[items[i]] IN
                    [record |-> IF u.idtyp = 1 THEN u.val ELSE SDeleted,
                     level |-> IF u.idtyp \in 113 .. 126 THEN u.idtyp - 112 ELSE 0]],
         head <- IF sopen = "closed" THEN 0
                 ELSE LET items == Range(Items) IN
                      IF cur_addr \in items \cup {Last(Track)}
                      THEN Cardinality({a \in items : a < cur_addr}) ELSE -1,
         result <- IF ~sfound.found THEN NotFound
                   ELSE [found |-> TRUE, item |-> ItemAt(sfound.addr), record |-> sfound.val]

\* Behind lengths, postfixes, marks, cuts and handles a sequential file is a tape: what
\* is written is what searching and skipping meet again, in its order and as far as the
\* next mark, whatever was overwritten, deleted, appended or closed on the way, and the
\* handle of the record found last reads and deletes that record.
ImplementsTape == Tape!TapeSpec
=============================================================================
