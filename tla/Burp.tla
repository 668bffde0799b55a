-------------------------------- MODULE Burp --------------------------------
(***************************************************************************)
(* A BURP report in its buffer (src/fstd98/burp98.c over the bit insertion *)
(* of xdf98.c): the headers of all blocks first, then for each block the   *)
(* elements its header has no room for and its values, packed.  buf8       *)
(* counts the blocks, buf9 the headers, and each header says where its     *)
(* block is, counted from behind the headers.  The buffer is counted in    *)
(* units of 64 bits; one unit keeps the whole array it is a piece of.  The *)
(* keys in front of the headers never move and are left out, and so is the *)
(* room in the buffer, which programs ask c_mrblen for before they add.    *)
(***************************************************************************)
EXTENDS Integers, Sequences, FiniteSets, SequencesExt

CONSTANTS NewBlocks,     \* the blocks a program adds: list, nval, nt, bfam, btyp, nbit, datyp, tbl
          NewValues,     \* the arrays it replaces values with
          Families, Types,    \* what it looks for
          GROSNELE, GROSDIM,  \* sizes that a header has no field for
          CODE7,         \* the element behind each real*8
          NoElement,     \* an element that is 0, to be filled in
          NoReport,
          MaxBlocks      \* bound: blocks in the buffer and in the record

VARIABLES data,          \* the units of the buffer behind the keys
          buf8, buf9,
          recorded,      \* the record written by c_mrfput
          report,        \* the blocks as the program made them (history)
          reported       \* and those of the record

burpvars == <<data, buf8, buf9, recorded, report, reported>>

-----------------------------------------------------------------------------
\* c_xdfins, c_xdfcut, c_xdfadd and c_xdfrep, at a number of units from the headers on.
UnitsOf(nelm, nbits) == (nelm * nbits + 63) \div 64
Inserted(d, at, units) == SubSeq(d, 1, at) \o units \o SubSeq(d, at + 1, Len(d))
Removed(d, at, n) == SubSeq(d, 1, at) \o SubSeq(d, at + n + 1, Len(d))
Overwrite(d, at, units) ==
    [k \in 1 .. Len(d) |-> IF k - at \in DOMAIN units THEN units[k - at] ELSE d[k]]
\* n elements as units, and what is read back from there.
Pieces(sort, x, n) == [k \in 1 .. n |-> [sort |-> sort, of |-> x, piece |-> k]]
Extracted(sort, at, n) ==
    LET x == data[at + 1].of IN
    IF n > 0 /\ at + n <= Len(data) /\ SubSeq(data, at + 1, at + n) = Pieces(sort, x, n)
    THEN x ELSE <<"junk">>

\* compact_integer, unsigned and signed, and what c_mrbxtr makes of the values: -1, a
\* missing one, is all ones.
ElementToken(v, nbit, datyp) ==
    IF datyp = 4 THEN (v + 2 ^ (nbit - 1)) % 2 ^ nbit ELSE IF nbit >= 31 THEN v ELSE v % 2 ^ nbit
Value(t, nbit, datyp) ==
    IF datyp = 4 THEN t - 2 ^ (nbit - 1)
    ELSE IF datyp = 2 /\ nbit < 31 /\ t = 2 ^ nbit - 1 THEN -1 ELSE t
PackedValues(tbl, nbit, datyp) ==
    Pieces("values", [i \in DOMAIN tbl |-> ElementToken(tbl[i], nbit, datyp)], UnitsOf(Len(tbl), nbit))

-----------------------------------------------------------------------------
\* burp_nbit_datyp: the bits and the sign the values need, a code of all ones left free.
BitsHolding(v) == CHOOSE n \in 0 .. 31 : v < 2 ^ n /\ (n = 0 \/ v >= 2 ^ (n - 1))
NbitDatyp(nbit, datyp, tbl) ==
    LET low    == Min(Range(tbl))
        high   == IF low < -1 /\ -low > Max(Range(tbl)) THEN -low ELSE Max(Range(tbl))
        type   == IF low < -1 THEN 4 ELSE datyp
        needed == BitsHolding(high) + (IF high = 2 ^ BitsHolding(high) - 1 THEN 1 ELSE 0)
                                + (IF type = 4 THEN 1 ELSE 0)
    IN IF datyp = 2 /\ nbit = 32 THEN <<nbit, datyp>>
       ELSE IF datyp > 5 THEN <<32, datyp>>
       ELSE IF datyp \in {3, 5} THEN <<8, datyp>>
       ELSE IF Range(tbl) = {-1} THEN <<nbit, datyp>>
       ELSE <<Max({nbit, needed}), type>>

\* burp_valid789 of real*8 values: every second element is the code of their lower half,
\* filled in where there is none.
Valid7(list) == Len(list) % 2 = 0 /\ \A i \in DOMAIN list : i % 2 = 0 => list[i] \in {CODE7, NoElement}
Filled(list, datyp) ==
    [i \in DOMAIN list |-> IF datyp = 7 /\ i % 2 = 0 THEN CODE7 ELSE list[i]]

\* A family of 12 bits is stored with its halves exchanged.
FamilySwapped(b) == (b % 64) * 64 + b \div 64

-----------------------------------------------------------------------------
\* A header is two units.
BlockHeader(d, k) == LET u == d[2 * k - 1] IN u.of
HeaderUnits(h) == Pieces("header", h, 2)
SetBit0(d, k, bit0) == Overwrite(d, 2 * (k - 1), HeaderUnits([BlockHeader(d, k) EXCEPT !.bit0 = bit0]))
ShiftBit0(d, first, last, diff) ==
    FoldLeft(LAMBDA e, k : SetBit0(e, k, BlockHeader(e, k).bit0 + diff), d, [i \in 1 .. last - first + 1 |-> first + i - 1])

Nombre(h) == h.nele * h.nval * h.nt
InHeader(h) == IF h.flag = 1 THEN 0 ELSE Min({h.nele, 3})
ListUnits(h) == UnitsOf(h.nele - InHeader(h), 16)

Recorded == IF recorded = NoReport THEN 0 ELSE recorded.nblks

\* c_mrbadd.
Mrbadd(b) ==
    LET list == Filled(b.list, b.datyp)
        nd   == NbitDatyp(b.nbit, b.datyp, b.tbl)
        big  == Len(list) >= GROSNELE \/ b.nval >= GROSDIM \/ b.nt >= GROSDIM
        h    == [flag |-> IF big THEN 1 ELSE 0, nele |-> Len(list), nval |-> b.nval, nt |-> b.nt,
                 elem |-> IF big THEN <<>> ELSE SubSeq(list, 1, Min({3, Len(list)})),
                 bfamdesc |-> FamilySwapped(b.bfam), btyp |-> b.btyp,
                 nbit |-> nd[1], datyp |-> nd[2], bit0 |-> Len(data) - buf9]
        rest == SubSeq(list, InHeader(h) + 1, Len(list))
        withList == data \o Pieces("list", rest, ListUnits(h))
    IN /\ b.datyp \in {3, 5} => b.nbit = 8
       /\ b.datyp = 7 => Valid7(b.list)
       /\ buf8 + Recorded < MaxBlocks                               \* bound
       /\ data' = Inserted(withList, buf9, HeaderUnits(h)) \o PackedValues(b.tbl, nd[1], nd[2])
       /\ buf8' = buf8 + 1 /\ buf9' = buf9 + 2
       /\ report' = Append(report, [b EXCEPT !.list = list, !.nbit = nd[1], !.datyp = nd[2]])
       /\ UNCHANGED <<recorded, reported>>

\* c_mrbdel.  c_xdfcut refuses to cut values of type 3, and is not listened to.
FirstMovedNext(number) == number + 1                                  \* mutant
FirstMoved(number) == number
Mrbdel(number) ==
    LET h    == BlockHeader(data, number)
        at   == h.bit0 + buf9
        cut1 == Removed(data, at, ListUnits(h))
        cut2 == IF h.datyp = 3 THEN cut1 ELSE Removed(cut1, at, UnitsOf(Nombre(h), h.nbit))
        cut3 == Removed(cut2, 2 * (number - 1), 2)
        left == buf8 - 1
    IN /\ number \in 1 .. buf8
       /\ data' = IF number > left THEN cut3
                  ELSE ShiftBit0(cut3, FirstMoved(number), left, h.bit0 - BlockHeader(cut3, number).bit0)
       /\ buf8' = left /\ buf9' = buf9 - 2
       /\ report' = RemoveAt(report, number)
       /\ UNCHANGED <<recorded, reported>>

\* c_mrbrep.  Values that need more units move those of the blocks behind.
Mrbrep(blkno, tbl) ==
    LET h    == BlockHeader(data, blkno)
        at   == h.bit0 + buf9 + ListUnits(h)
        nd   == NbitDatyp(h.nbit, h.datyp, tbl)
        new  == HeaderUnits([h EXCEPT !.nbit = nd[1], !.datyp = nd[2]])
        diff == UnitsOf(Nombre(h), nd[1]) - UnitsOf(Nombre(h), h.nbit)
        same == Overwrite(data, 2 * (blkno - 1), new)
        room == IF diff <= 0 THEN same
                ELSE ShiftBit0(Inserted(same, at, Pieces("gap", <<>>, diff)), blkno + 1, buf8, diff)
    IN /\ blkno \in 1 .. buf8 /\ Len(tbl) = Nombre(h)
       /\ h.datyp # 3
       /\ data' = Overwrite(room, at, PackedValues(tbl, nd[1], nd[2]))
       /\ report' = [report EXCEPT ![blkno] = [@ EXCEPT !.tbl = tbl, !.nbit = nd[1], !.datyp = nd[2]]]
       /\ UNCHANGED <<buf8, buf9, recorded, reported>>

\* c_mrfput, c_mrfget and a new report, mrbini with buf89a0.
Mrfput ==
    /\ 2 * buf8 <= MaxBlocks                                           \* bound
    /\ recorded' = [data |-> data, nblks |-> buf8] /\ reported' = report
    /\ UNCHANGED <<data, buf8, buf9, report>>
Mrfget ==
    /\ recorded # NoReport
    /\ data' = recorded.data /\ buf8' = recorded.nblks /\ buf9' = 2 * recorded.nblks
    /\ report' = reported
    /\ UNCHANGED <<recorded, reported>>
Mrbini ==
    /\ data' = <<>> /\ buf8' = 0 /\ buf9' = 0 /\ report' = <<>>
    /\ UNCHANGED <<recorded, reported>>

BurpInit ==
    /\ data = <<>> /\ buf8 = 0 /\ buf9 = 0 /\ report = <<>>
    /\ recorded = NoReport /\ reported = <<>>

BurpNext ==
    \/ \E b \in NewBlocks : Mrbadd(b)
    \/ \E k \in 1 .. buf8 : Mrbdel(k) \/ \E tbl \in NewValues : Mrbrep(k, tbl)
    \/ Mrfput \/ Mrfget \/ Mrbini

BurpSpec == BurpInit /\ [][BurpNext]_burpvars

-----------------------------------------------------------------------------
\* c_mrbxtr with c_mrbprm: the block as a program reads it.
Mrbxtr(bkno) ==
    LET h    == BlockHeader(data, bkno)
        at   == h.bit0 + buf9
        rest == IF ListUnits(h) = 0 THEN <<>> ELSE Extracted("list", at, ListUnits(h))
        tok  == Extracted("values", at + ListUnits(h), UnitsOf(Nombre(h), h.nbit))
    IN [list |-> SubSeq(h.elem, 1, InHeader(h)) \o rest, nval |-> h.nval, nt |-> h.nt,
        bfam |-> FamilySwapped(h.bfamdesc), btyp |-> h.btyp, nbit |-> h.nbit, datyp |-> h.datyp,
        tbl |-> IF tok = <<"junk">> THEN tok
                ELSE [i \in DOMAIN tok |-> Value(tok[i], h.nbit, h.datyp)]]

\* c_mrbloc: the next block of a family, or any (-1), and of a type, any part of it free.
SameType(a, b) == \A i \in DOMAIN a : a[i] \in {-1, b[i]}
Mrbloc(bfam, btyp, blkno) ==
    LET match == {k \in blkno + 1 .. buf8 : /\ bfam = -1 \/ BlockHeader(data, k).bfamdesc = FamilySwapped(bfam)
                                            /\ SameType(btyp, BlockHeader(data, k).btyp)}
    IN IF match = {} THEN -1 ELSE Min(match)

\* A report is the sequence of its blocks: whatever blocks are added, deleted and given
\* values that need more bits, in whatever order, and written and read back in between,
\* each block is found by its family and type behind the blocks before it, with its
\* elements and its values, the missing ones included.
ReportIsItsBlocks ==
    /\ buf8 = Len(report)
    /\ \A k \in 1 .. buf8 : Mrbxtr(k) = report[k]
    /\ \A f \in Families, t \in Types, from \in 0 .. buf8 :
         LET match == {k \in from + 1 .. Len(report) : /\ f \in {-1, report[k].bfam}
                                                       /\ SameType(t, report[k].btyp)}
         IN Mrbloc(f, t, from) = IF match = {} THEN -1 ELSE Min(match)
=============================================================================
