------------------------------ MODULE FstFind ------------------------------
(***************************************************************************)
(* How a program finds the records of a random standard file               *)
(* (src/fstd98/fstd98.c): searches by keys, the tables of ip values and    *)
(* the mask that widen them, the rewrites that search first, and edits of  *)
(* the directory.  The tables belong to the program, not to a file, and    *)
(* are meant for the next search.  A record is its keys: three ips, a name *)
(* (nomvar with typvar), a label in two parts, a date of validity and the  *)
(* grid it is on; a handle is the number of its entry.  What a put makes   *)
(* of the position of a search is said in XdfSearch, what filters reject   *)
(* in Excdes.                                                              *)
(***************************************************************************)
EXTENDS Integers, Sequences, SequencesExt, FiniteSetsExt

CONSTANTS
    FirstRecords,  \* the records of the file when it is opened
    NewRecords,    \* those the program writes
    Searches,      \* keys it searches for, -1 or BLANK for any
    Edits,         \* changes of keys, -1 or BLANK for none
    Masks,         \* fstmsq: low bits of the ips to ignore, parts of the label to ignore
    BLANK,
    IpLevels,      \* levels of ips
    NewCode, OldCode,  \* [IpLevels -> code], OldCode -9999 when there is none
    LevelOf,       \* the level a code stands for
    TableLevels,   \* [Ips -> those of them the program puts in each table]
    MaxIpvals,     \* bound: values in a table, below Max_Ipvals
    MaxChanges,    \* bound: writes, edits and deletions
    MaxEntries,    \* bound: entries of the file
    Nmax           \* length of the list fstinl is given

ASSUME FindAssumption ==
    /\ MaxIpvals \in Nat /\ MaxEntries \in Nat /\ Nmax \in Nat \ {0}
    /\ MaxChanges \in Nat /\ TableLevels \in [1 .. 3 -> SUBSET IpLevels]
    /\ Len(FirstRecords) <= MaxEntries

VARIABLES
    entries,    \* directory of the file: records with live
    search,     \* ips_tab, the ip flags, and walk: target, cur_mask and the position
    srch_mask,  \* of fstmsq
    asked,      \* what the program asked for last, tables and mask included (history)
    pending,    \* the levels it put in the tables since its last search (history)
    answer,     \* what it got (history)
    changes     \* writes, edits and deletions so far

findvars == <<entries, search, srch_mask, asked, pending, answer, changes>>

Changed == changes < MaxChanges /\ changes' = changes + 1          \* bound

Ips     == 1 .. 3
AllBits == 28
ERR     == 0
NoTables == [i \in Ips |-> <<>>]
NoWalk  == [target |-> BLANK, pos |-> 0]   \* no position: the target is of no use

-----------------------------------------------------------------------------
\* ip_is_equal: an ip against the codes of a table, of which the target is the first.
Kind(ip)     == (ip \div 2^24) % 16
Exponent(ip) == (ip \div 2^20) % 16
Mantissa(ip) == LET m == ip % 2^20 IN IF m > 1000000 THEN 1000000 - m ELSE m

\* ip1 from 0 to 9 in the first coding of pressures, in millibars, and in its second.
OldPressure(ip) == IF ip = 0 THEN 0 ELSE 1800 + 20 * ip

SameCode(ip, code) ==
    \/ ip = code
    \/ ip < 10 /\ OldPressure(ip) = code
    \/ LET exp == Max({Exponent(ip), Exponent(code)})
           m1  == Mantissa(ip) * 10^(exp - Exponent(ip))
           m2  == Mantissa(code) * 10^(exp - Exponent(code))
       IN /\ ip > 32767 /\ code > 32767 /\ Kind(ip) = Kind(code)
          /\ Mantissa(ip) < 0 <=> Mantissa(code) < 0
          /\ m1 - m2 \in -1 .. 1

IpIsEqual(s, key, ip, i) ==
    /\ key = s.ips_tab[i][1]
    /\ \E code \in Range(s.ips_tab[i]) : SameCode(ip, code)

-----------------------------------------------------------------------------
\* Keys under a mask.  A stamp of a date keeps its last digit apart, and searches do not
\* compare it.
DateKey(date) == 8 * (date \div 10) + (date % 10)

MaskOf(keys, flags) ==
    [ip    |-> [i \in Ips |-> IF keys.ip[i] = -1 \/ flags[i] THEN AllBits ELSE 0],
     name  |-> keys.name = BLANK,
     label |-> IF keys.label = BLANK THEN {1, 2} ELSE {},
     date  |-> keys.date = -1]

\* cur_mask &= srch_mask.
Widened(mask, m) ==
    [mask EXCEPT !.ip = [i \in Ips |-> Max({@[i], m.ip[i]})], !.label = @ \cup m.label]

Matches(r, t) ==
    /\ r.live
    /\ \A i \in Ips : t.mask.ip[i] = AllBits
                         \/ r.ip[i] \div 2^t.mask.ip[i] = t.keys.ip[i] \div 2^t.mask.ip[i]
    /\ t.mask.name \/ r.name = t.keys.name
    /\ \A p \in {1, 2} \ t.mask.label : r.label[p] = t.keys.label[p]
    /\ t.mask.date \/ DateKey(r.date) \div 8 = DateKey(t.keys.date) \div 8

\* The tables are compared one inside the other: ip2 when ip1 has one, ip3 when both do.
InTables(s, keys, r) ==
    LET compared(i) == s.flags[i] /\ keys.ip[i] >= 0
        equal(i)    == IpIsEqual(s, keys.ip[i], r.ip[i], i)
    IN compared(1) => /\ equal(1)
                      /\ compared(2) => equal(2) /\ (compared(3) => equal(3))

\* init_ip_vals.
InitIpValsKept(s) == [s EXCEPT !.flags = [i \in Ips |-> FALSE]]         \* mutant
InitIpVals(s) == [s EXCEPT !.ips_tab = NoTables, !.flags = [i \in Ips |-> FALSE]]

FirstOf(S) == IF S = {} THEN ERR ELSE Min(S)
FirstFrom(from, wanted) == FirstOf({h \in from .. Len(entries) : entries[h] \in wanted})

\* c_fstinfx at entry from: h is found with target t, own being the mask of the keys.
\* After a search with tables fstsui goes on with the keys of the record found, under the
\* mask of the search alone.
Positioned(s, own, t, h) ==
    LET tabled == \E i \in Ips : s.flags[i]
        after  == IF tabled /\ h # ERR
                  THEN [keys |-> entries[h],
                        mask |-> [own EXCEPT !.ip = [i \in Ips |-> IF s.flags[i] THEN 0 ELSE @[i]]]]
                  ELSE t
        moved  == [s EXCEPT !.walk = IF h = ERR THEN NoWalk ELSE [target |-> after, pos |-> h + 1]]
    IN [handle |-> h, s |-> IF tabled THEN InitIpVals(moved) ELSE moved]

Target(keys, own) == [keys |-> keys, mask |-> Widened(own, srch_mask)]
Infx(s, from, keys) ==
    LET own == MaskOf(keys, s.flags)
        t   == Target(keys, own)
    IN Positioned(s, own, t,
                  FirstFrom(from, {r \in Range(entries) : Matches(r, t) /\ InTables(s, keys, r)}))

\* fstsui and c_xdfloc with -1.
WalkedTo(s, h) ==
    [handle |-> h, s |-> [s EXCEPT !.walk = IF h = ERR THEN NoWalk ELSE [@ EXCEPT !.pos = h + 1]]]
Sui(s) == WalkedTo(s, IF s.walk = NoWalk THEN ERR
                      ELSE FirstFrom(s.walk.pos, {r \in Range(entries) : Matches(r, s.walk.target)}))

\* fstinl: fstinf, then fstsui to the end, counting when the list is full.
Rest(w) == {h \in w.pos .. Len(entries) : Matches(entries[h], w.target)}
AllFrom(f) == IF f.handle = ERR THEN <<>>
              ELSE <<f.handle>> \o SetToSortSeq(Rest(f.s.walk), LAMBDA a, b : a < b)
Listed(s, all) ==
    LET infon == Min({Nmax, Len(all)})
    IN [liste |-> SubSeq(all, 1, infon), infon |-> infon,
        returns |-> IF Len(all) > Nmax THEN -Len(all) ELSE 0, s |-> [s EXCEPT !.walk = NoWalk]]
ListedAfter(f) == Listed(f.s, AllFrom(f))
Inl(s, keys) == ListedAfter(Infx(s, 1, keys))

-----------------------------------------------------------------------------
NothingPending == [i \in Ips |-> <<>>]
NoAnswer       == [op |-> "none"]

\* What a search is asked, and the entry fstsui goes on behind.
Asked(keys, from, h) ==
    [keys |-> keys, tables |-> pending, mask |-> srch_mask, from |-> from,
     first |-> IF h = ERR THEN BLANK ELSE entries[h], last |-> h]

Searched(s, a, ans) ==
    /\ search' = s /\ asked' = a /\ answer' = ans
    /\ pending' = NothingPending
    /\ UNCHANGED <<entries, srch_mask, changes>>

\* fstinf, and fstinfx behind a handle.
Fstinf(from, keys) ==
    \E f \in {Infx(search, from, keys)} :
       Searched(f.s, Asked(keys, from, f.handle), [op |-> "inf", handle |-> f.handle])

Fstsui ==
    \E f \in {Sui(search)} :
       /\ asked # BLANK /\ asked.last # ERR
       /\ search' = f.s
       /\ answer' = [op |-> "sui", handle |-> f.handle, behind |-> asked.last]
       /\ asked' = [asked EXCEPT !.last = f.handle]
       /\ UNCHANGED <<entries, srch_mask, pending, changes>>

Fstinl(keys) ==
    \E f \in {Inl(search, keys)} :
       Searched(f.s, [Asked(keys, 1, FirstOf(Range(f.liste))) EXCEPT !.last = ERR],
                [op |-> "inl", liste |-> f.liste, infon |-> f.infon, returns |-> f.returns])

\* fstlic: the record found is checked, then looked for again and read.
Fstlic(keys, grid) ==
    \E f \in {Infx(search, 1, keys)} : \E g \in {Infx(f.s, 1, keys)} :
    LET ok == f.handle # ERR /\ entries[f.handle].grid = grid
    IN Searched(IF ok THEN g.s ELSE f.s, Asked(keys, 1, ERR),
                [op |-> "lic", checked |-> IF ok THEN f.handle ELSE ERR,
                 read |-> IF ok THEN g.handle ELSE ERR])

\* c_ip1_all, c_ip2_all, c_ip3_all, and c_ip1_val ...
Tabled(i, level, codings, codes) ==
    /\ Len(search.ips_tab[i]) + Len(codes) <= MaxIpvals            \* bound
    /\ search.walk = NoWalk                                        \* bound
    /\ search' = [search EXCEPT !.flags[i] = TRUE, !.ips_tab[i] = @ \o codes]
    /\ pending' = [pending EXCEPT ![i] = Append(@, [level |-> level, codings |-> codings])]
    /\ asked' = BLANK /\ answer' = NoAnswer
    /\ UNCHANGED <<entries, srch_mask, changes>>

IpAll(i, level) == Tabled(i, level, "both", <<NewCode[level], OldCode[level]>>)
IpVal(i, level) == Tabled(i, level, "new", <<NewCode[level]>>)

\* fstmsq.
Fstmsq(m) ==
    /\ srch_mask' = m /\ answer' = NoAnswer
    /\ UNCHANGED <<entries, search, asked, pending, changes>>

\* fstecr.  A rewrite looks for a record with its keys, of any date, and takes its entry when
\* the data is not longer; else the record goes to the end.
Fstecr(r, rewrit, fits) ==
    \E f \in {Infx(search, 1, [r EXCEPT !.date = -1])} :
    LET h     == IF rewrit THEN f.handle ELSE ERR
        kept  == IF h = ERR THEN entries
                 ELSE IF fits THEN [entries EXCEPT ![h] = r] ELSE [entries EXCEPT ![h].live = FALSE]
    IN /\ (h # ERR /\ fits) \/ Len(entries) < MaxEntries            \* bound
       /\ fits => rewrit
       /\ Changed
       /\ entries' = IF h # ERR /\ fits THEN kept ELSE Append(kept, r)
       /\ search' = [(IF rewrit THEN f.s ELSE search) EXCEPT !.walk = NoWalk]
       /\ pending' = IF rewrit THEN NothingPending ELSE pending
       /\ asked' = Asked([r EXCEPT !.date = -1], 1, ERR)
       /\ answer' = [op |-> "ecr", rewrit |-> rewrit, place |-> h, before |-> entries]
       /\ UNCHANGED srch_mask

\* fst_edit_dir: the keys that are given, of a record that is there or deleted.
Edit(h, e) ==
    LET edited(new, old) == IF new \in {-1, BLANK} THEN old ELSE new IN
    /\ Changed /\ h \in DOMAIN entries
    /\ entries' = [entries EXCEPT ![h] = [@ EXCEPT
           !.ip = [i \in Ips |-> edited(e.ip[i], @[i])], !.name = edited(e.name, @),
           !.label = IF e.label = BLANK THEN @ ELSE e.label, !.date = edited(e.date, @)]]
    /\ answer' = NoAnswer
    /\ UNCHANGED <<search, srch_mask, asked, pending>>

\* fsteff.
Eff(h) ==
    /\ Changed /\ h \in DOMAIN entries /\ entries[h].live
    /\ entries' = [entries EXCEPT ![h].live = FALSE]
    /\ answer' = NoAnswer
    /\ UNCHANGED <<search, srch_mask, asked, pending>>

FindInit ==
    /\ entries = FirstRecords
    /\ search = [ips_tab |-> NoTables, flags |-> [i \in Ips |-> FALSE], walk |-> NoWalk]
    /\ srch_mask = [ip |-> [i \in Ips |-> 0], label |-> {}]
    /\ asked = BLANK /\ pending = NothingPending /\ answer = NoAnswer
    /\ changes = 0

FindNext ==
    \/ \E k \in Searches : \/ \E from \in 1 .. Len(entries) : Fstinf(from, k)
                           \/ Fstinl(k)
                           \/ \E r \in Range(entries) : Fstlic(k, r.grid)
    \/ Fstsui
    \/ \E i \in Ips : \E level \in TableLevels[i] : IpAll(i, level) \/ IpVal(i, level)
    \/ \E m \in Masks : Fstmsq(m)
    \/ \E r \in NewRecords, rewrit, fits \in BOOLEAN : Fstecr(r, rewrit, fits)
    \/ \E h \in DOMAIN entries : Eff(h) \/ \E e \in Edits : Edit(h, e)

FindSpec == FindInit /\ [][FindNext]_findvars

-----------------------------------------------------------------------------
\* What a search means: each ip is of one of the levels of its table (c_ip1_val leaves out
\* the codes up to 32767), or else is the one
\* given but for the bits that are masked; the rest is what was given.
MeantIp(a, r, i) ==
    IF a.tables[i] # <<>> /\ a.keys.ip[i] # -1
    THEN \E t \in Range(a.tables[i]) :
            LevelOf[r.ip[i]] = t.level /\ (t.codings = "both" \/ r.ip[i] > 32767)
    ELSE a.keys.ip[i] = -1 \/ r.ip[i] \div 2^a.mask.ip[i] = a.keys.ip[i] \div 2^a.mask.ip[i]

Meant(a, r) ==
    /\ r.live
    /\ \A i \in Ips : MeantIp(a, r, i)
    /\ a.keys.name \in {BLANK, r.name}
    /\ a.keys.label = BLANK \/ \A p \in {1, 2} \ a.mask.label : a.keys.label[p] = r.label[p]
    /\ a.keys.date = -1 \/ a.keys.date \div 10 = r.date \div 10

\* What fstsui goes on with: after tables, records of the very ips of the first.
MeantNext(a, r) == Meant(a, r) /\ \A i \in Ips : a.tables[i] # <<>> => r.ip[i] = a.first.ip[i]

\* How programs use the tables: that of ip2 with that of ip1, that of ip3 with both, the
\* value searched for the first of its table; and no mask with them.
Proper(a) ==
    \A i \in Ips : a.tables[i] # <<>> => /\ a.keys.ip[i] = NewCode[a.tables[i][1].level]
                                         /\ i > 1 => a.tables[i - 1] # <<>>
                                         /\ a.mask.ip = [k \in Ips |-> 0] /\ a.mask.label = {}

\* Every search gives the first record from where it starts that has what was asked for,
\* whatever searches, tables and masks, rewrites, edits and deletions came before: a table
\* widens one search and no other.  A list has all of them in the order of the file; a
\* field that is read is the one that was checked; a rewrite takes the place of the first.
SearchFindsWhatIsAsked ==
    LET from(i, Ok(_, _), recs) == {h \in i .. Len(recs) : Ok(asked, recs[h])}
        all == from(1, MeantNext, entries)
    IN answer # NoAnswer /\ Proper(asked) =>
         /\ answer.op = "inf" => answer.handle = FirstOf(from(asked.from, Meant, entries))
         /\ answer.op = "sui" => answer.handle = FirstOf(from(answer.behind + 1, MeantNext, entries))
         /\ answer.op = "inl" /\ answer.liste = <<>> => from(1, Meant, entries) = {}
         /\ answer.op = "inl" /\ answer.liste # <<>> =>
              /\ answer.infon = Len(answer.liste) /\ Len(answer.liste) = Min({Nmax, Cardinality(all)})
              /\ answer.returns = IF Cardinality(all) > Nmax THEN -Cardinality(all) ELSE 0
              /\ \A k \in DOMAIN answer.liste :
                   answer.liste[k] \in all /\ Cardinality({h \in all : h <= answer.liste[k]}) = k
         /\ answer.op = "lic" /\ asked.tables = NothingPending => answer.read = answer.checked
         /\ answer.op = "ecr" /\ answer.rewrit =>
              answer.place = FirstOf(from(1, Meant, answer.before))
=============================================================================
