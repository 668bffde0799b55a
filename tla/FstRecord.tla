----------------------------- MODULE FstRecord -----------------------------
(* Writing and reading the fields of a standard file: how the type and the    *)
(* number of bits asked for become those of the record, what is packed where, *)
(* and how a reader undoes it from the keys of the record, the length of the  *)
(* elements being a global the program sets before a call.  A field is one    *)
(* value; packed data is the name of the packer, the word it starts at and    *)
(* the bits of an element.                                                    *)
EXTENDS Integers, Sequences, SequencesExt, FiniteSetsExt

CONSTANTS
    FKeys,      \* name, label and ips of a record, as a rewrite compares them
    FVals,      \* fields
    FRequests,  \* [len, datyp, npak, marks]: element length, type, bits, missing points
    FRewrites,  \* bound: those of them with which a record is written over
    RemapTable, \* sequence of <<from, to>>: DATATYPE_REMAP
    MissingOn,  \* whether missing values are in use
    FMaxWritten, FMaxRecords,    \* bounds: records written, and with the copies
    GARBLED     \* what comes out of data unpacked another way than it was packed

ASSUME FstRecordAssumption ==
    /\ GARBLED \notin FVals
    /\ FRequests \subseteq [len : {1, 2, 4, 8}, datyp : Nat, npak : Int, marks : BOOLEAN]
    /\ MissingOn \in BOOLEAN
    /\ FRewrites \subseteq FRequests
    /\ FMaxWritten \in Nat /\ FMaxRecords \in Nat
    /\ RemapTable \in Seq(Nat \X Nat)

VARIABLES
    frecs,            \* records of the file: [key, datyp, nbits, data, wrote]
    flen,             \* 1, 2, 4, 8 for xdf_byte, xdf_short, neither, xdf_double
    image_mode_copy,
    fread             \* what the last fstluk delivered

fstvars == <<frecs, flen, image_mode_copy, fread>>

NothingRead == [at |-> "none"]
Bitmot      == 32
NBITS_MAX   == 64

Has64(d)     == (d \div 64) % 2 = 1
Without64(d) == IF Has64(d) THEN d - 64 ELSE d
\* What the low bits of a type say of its values; there are no missing points in the others.
NumberKind(t) ==
    CASE t % 16 \in {1, 5, 6} -> "real"     [] t % 16 = 4 -> "signed"
      [] t % 16 = 2         -> "unsigned" [] OTHER      -> "other"
FieldBits(npak) == IF npak = 0 THEN Bitmot
                ELSE IF npak < 0 THEN -npak ELSE Max({1, Bitmot \div Max({1, npak})})

\* Complex loses the flags for missing values and for the second stage.
InType(d)   == IF Without64(d) % 16 = 8 THEN 8 ELSE Without64(d)
Remapped(t) == FoldLeft(LAMBDA d, pair : IF d = pair[1] THEN pair[2] ELSE d, t, RemapTable)

\* The type and the bits of the record, before anything is packed.
StoredType(datyp, npak) ==
    LET t      == InType(datyp)
        n      == FieldBits(npak)
        toIEEE == t = 1 /\ n \in {31, 32} /\ ~image_mode_copy
        first  == IF toIEEE \/ (datyp = 133 /\ n > 32) THEN 5 ELSE IF t = 801 THEN 1 ELSE t
        asked  == IF npak \in {0, 1} THEN 0 ELSE first
        mapped == IF image_mode_copy THEN asked ELSE Remapped(asked)
        nbits  == IF toIEEE THEN 32 ELSE n
        single == IF nbits > 16 /\ mapped # 133 THEN mapped % 128 ELSE mapped
    IN CASE single = 6 /\ nbits > 24        -> [datyp |-> 5, nbits |-> 32]
         [] single = 6 /\ nbits \in 17 .. 24 -> [datyp |-> 1, nbits |-> nbits]
         [] OTHER                           -> [datyp |-> single, nbits |-> nbits]

\* EncodeMissingValue finds missing points and replaces them: never those of 32-bit reals.
Plugs(q, l, nbits) ==
    LET base == InType(q.datyp) % 16
    IN /\ MissingOn /\ Has64(q.datyp) /\ q.marks
       /\ \/ base \in {2, 4}
          \/ base \in {1, 5, 6} /\ (l = 8 \/ (base = 5 /\ nbits = 64))

\* Missing points left in a field swamp the others when a packer scales them together.
Swamps(q, l, s) == q.marks /\ s.datyp \in {1, 6, 129, 134} /\ ~Plugs(q, l, s.nbits)

-----------------------------------------------------------------------------
\* The switch of c_fstecr on the type s.datyp, for elements declared of length l: the type
\* and the bits of the keys, and the data.  flag is the one for missing values, small
\* whether the second stage makes the data smaller.

Data(pack, at, bits) == [pack |-> pack, at |-> at, bits |-> bits]
Lost                 == Data("lost", 0, 0)
Rec(datyp, nbits, d) == [datyp |-> datyp, nbits |-> nbits, data |-> d]

PackFloatStaged(s, l, flag, small) ==                                     \* mutant
    Rec(s.datyp + flag, s.nbits,
        Data("float", IF s.datyp = 129 /\ small THEN 1 ELSE 0, s.nbits))

PackFloat(s, l, flag, small) ==
    LET staged == s.datyp = 129 /\ small
    IN Rec(IF s.datyp = 129 /\ ~small THEN 1 ELSE s.datyp + flag, s.nbits,
           Data("float", IF staged THEN 1 ELSE 0, s.nbits))

\* Tokens of a short or a byte are clamped to its length.  When the second stage fails, the
\* tokens, read as words, stay behind the word that would have held the length.
PackUnsigned(s, l, flag, small) ==
    LET n == Min({s.nbits, IF l \in {1, 2} THEN 8 * l ELSE s.nbits})
    IN Rec(IF s.datyp = 130 /\ ~small THEN 2 ELSE s.datyp + flag, n,
           IF s.datyp = 2 THEN Data("tokens", 0, n)
           ELSE IF small THEN Data("shorts", 1, n)
           ELSE IF l = 4 THEN Data("tokens", 1, n) ELSE Lost)

\* ieeepak moves words, or pairs of words at 64 bits, whatever length was declared.
PackIEEE(s, l, flag, small) ==
    LET staged == s.datyp = 133 /\ small
    IN Rec(IF s.datyp = 133 /\ ~small THEN 5 ELSE IF s.datyp = 136 THEN 8
           ELSE s.datyp + flag, s.nbits,
           IF (l = 8) # (s.nbits = 64) THEN Lost
           ELSE IF staged THEN Data("ieee32", 1, s.nbits) ELSE Data("ieee", 0, s.nbits))

PackF16(s, l, flag, small) ==
    LET staged == s.datyp = 134 /\ small
    IN Rec(IF s.datyp = 134 /\ ~small THEN 6 ELSE s.datyp + flag, s.nbits,
           IF l = 8 THEN Lost ELSE Data("f16", IF staged THEN 1 ELSE 0, s.nbits))

\* Types without a second stage: asked for one, they are written without.
PackOther(s, l, flag, small) ==
    LET t == (s.datyp % 128) + (IF s.datyp \in {128, 131, 135} THEN 0 ELSE flag)
    IN CASE s.datyp % 128 = 0 -> Rec(t, s.nbits, Data("raw", 0, s.nbits))
         [] s.datyp % 128 = 3 -> Rec(t, 8, Data("R4A", 0, 32))
         [] s.datyp % 128 = 4 -> Rec(t, s.nbits, Data("signed", 0, s.nbits))
         [] s.datyp % 128 = 7 -> Rec(t, s.nbits, Data("chars", 0, 8))

CanPack(t) == t \in 0 .. 8 \/ t \in 128 .. 136

FieldPacked(s, l, flag, small) ==
    CASE s.datyp % 128 = 1       -> PackFloat(s, l, flag, small)
      [] s.datyp % 128 = 2       -> PackUnsigned(s, l, flag, small)
      [] s.datyp % 128 \in {5, 8} -> PackIEEE(s, l, flag, small)
      [] s.datyp % 128 = 6       -> PackF16(s, l, flag, small)
      [] OTHER                   -> PackOther(s, l, flag, small)

-----------------------------------------------------------------------------
\* c_fstluk: the data the keys make it expect when elements of length l were declared, and
\* the length of the elements it delivers.
FieldWanted(r, l) ==
    LET t == Without64(r.datyp)
    IN CASE t = 0          -> Data("raw", 0, r.nbits)
         [] t \in {1, 129} -> Data("float", t \div 128, r.nbits)
         [] t = 2          -> Data("tokens", 0, IF l = 1 THEN 8 ELSE r.nbits)
         [] t = 130        -> Data("shorts", 1, r.nbits)
         [] t = 3          -> Data("R4A", 0, 32)
         [] t = 4          -> Data("signed", 0, r.nbits)
         [] t \in {5, 8}   -> Data("ieee", 0, r.nbits)
         [] t = 133        -> Data("ieee32", 1, r.nbits)
         [] t \in {6, 134} -> Data("f16", t \div 128, r.nbits)
         [] t = 7          -> Data("chars", 0, 8)

Delivered(r, l) ==
    LET t == Without64(r.datyp)
    IN CASE t % 128 \in {0, 3, 6} -> 4
         [] t = 7                 -> 1
         [] t % 128 \in {5, 8}    -> IF r.nbits = 64 THEN 8 ELSE 4
         [] t % 128 = 1           -> IF l = 8 THEN 8 ELSE 4
         [] t % 128 \in {2, 4}    -> IF l = 8 THEN 4 ELSE l

\* Missing points are put back when the record is flagged, as those of its type; there are
\* none in raw data, characters and complex fields.
PutBack(r) == Has64(r.datyp) /\ NumberKind(r.datyp) # "other"
Unpacked(r, l) ==
    IF /\ r.data = FieldWanted(r, l) /\ ~r.wrote.swamped
       /\ r.wrote.plugged <=> PutBack(r)
       /\ r.wrote.plugged => NumberKind(r.datyp) = NumberKind(r.wrote.q.datyp)
    THEN r.wrote.val ELSE GARBLED

\* The bits of a point copied when a record is written in image mode, and those it has: a
\* complex number is two, and is counted once.
ImageBits(r) == IF Without64(r.datyp) = 3 THEN 8 ELSE r.nbits
HeldBits(r)  == CASE Without64(r.datyp) = 8        -> 2 * r.nbits
                  [] Without64(r.datyp) \in {3, 7} -> 8
                  [] OTHER                         -> r.nbits

-----------------------------------------------------------------------------
\* The calls.  One that is refused changes nothing: not even the length declared for it.

DataLength(l) ==
    /\ flen' = IF l \in {1, 2, 4, 8} THEN l ELSE 4
    /\ UNCHANGED <<frecs, image_mode_copy, fread>>

\* A rewrite goes where c_fstinf finds the first record with these keys, whatever its date.
Place(key, rewrit, r) ==
    LET same == {i \in DOMAIN frecs : frecs[i].key = key}
    IN IF rewrit /\ same # {} THEN [frecs EXCEPT ![Min(same)] = r] ELSE Append(frecs, r)

Written(key, val, q, l, small, rewrit) ==
    LET s == StoredType(q.datyp, q.npak)
        p == FieldPacked(s, l, IF Plugs(q, l, s.nbits) THEN 64 ELSE 0, small)
    IN /\ ~image_mode_copy
       /\ Len(frecs) < FMaxWritten \/ (rewrit /\ q \in FRewrites)      \* bound
       /\ FieldBits(q.npak) \in 1 .. NBITS_MAX /\ CanPack(s.datyp)
       /\ frecs' = Place(key, rewrit,
            [key |-> key, datyp |-> p.datyp, nbits |-> p.nbits, data |-> p.data,
             wrote |-> [val |-> val, q |-> q, l |-> l, small |-> small, as |-> s,
                        plugged |-> Plugs(q, l, s.nbits), swamped |-> Swamps(q, l, s)]])
       /\ Len(frecs') <= FMaxWritten
       /\ flen' = 4
       /\ fread' = NothingRead
       /\ UNCHANGED image_mode_copy

Ecr(key, val, q, small, rewrit) == Written(key, val, q, flen, small, rewrit)

\* fstecr_h and fstecr_b of Fortran declare the length themselves.
EcrHalf(key, val, q, small, rewrit) ==
    flen = 4 /\ q.len = 2 /\ Written(key, val, q, 2, small, rewrit)

EcrByte(key, val, q, small, rewrit) ==
    flen = 4 /\ q.len = 1 /\ Written(key, val, q, 1, small, rewrit)

Luk(i) ==
    /\ i \in DOMAIN frecs
    /\ fread' = [at |-> IF image_mode_copy THEN "image" ELSE "read", rec |-> frecs[i], l |-> flen,
                 val |-> Unpacked(frecs[i], flen), len |-> Delivered(frecs[i], flen)]
    /\ flen' = 4
    /\ UNCHANGED <<frecs, image_mode_copy>>

\* fstopl IMAGE.
SetImage(value) ==
    /\ image_mode_copy' = value
    /\ UNCHANGED <<frecs, flen, fread>>

\* What an editor does with a record it read in image mode: its words as they are, with the
\* keys fstprm gave.
EcrImage(key) ==
    LET r == fread.rec
        s == StoredType(r.datyp, -r.nbits)
    IN /\ image_mode_copy /\ fread.at = "image"
       /\ Len(frecs) < FMaxRecords                            \* bound
       /\ frecs' = Append(frecs, [r EXCEPT !.key = key, !.nbits = s.nbits,
                !.datyp = s.datyp + (IF Has64(r.datyp) /\ InType(r.datyp) # 8 THEN 64 ELSE 0),
                !.data = IF ImageBits(r) < HeldBits(r) THEN Lost ELSE @])
       /\ flen' = 4
       /\ fread' = NothingRead
       /\ UNCHANGED image_mode_copy

FstInit ==
    /\ frecs = <<>> /\ flen = 4 /\ image_mode_copy = FALSE /\ fread = NothingRead

FstNext ==
    \/ \E l \in {1, 2, 4, 8} : DataLength(l)
    \/ \E k \in FKeys, v \in FVals, q \in FRequests, small, rewrit \in BOOLEAN :
          Ecr(k, v, q, small, rewrit) \/ EcrHalf(k, v, q, small, rewrit)
             \/ EcrByte(k, v, q, small, rewrit)
    \/ \E i \in 1 .. FMaxRecords : Luk(i)
    \/ \E value \in BOOLEAN : SetImage(value)
    \/ \E k \in FKeys : EcrImage(k)

FstSpec == FstInit /\ [][FstNext]_fstvars

-----------------------------------------------------------------------------
\* The element lengths a type is made for.
Suits(t, nbits, l) ==
    CASE t % 128 \in {0, 3, 6} -> l = 4
      [] t % 128 = 1           -> l \in {4, 8}
      [] t % 128 \in {2, 4}    -> l \in {1, 2, 4}
      [] t % 128 \in {5, 8}    -> IF nbits = 64 THEN l = 8 ELSE l = 4
      [] t % 128 = 7           -> l = 1

\* What c_fstecr does not give back: bytes of fewer than 8 bits, unsigned integers the second
\* stage does not shrink, fields with missing points it does not shrink either, 32-bit reals
\* with missing points, doubles of 31 or 32 bits, reals of more bits for a second stage of 32,
\* fields remapped to another kind of values, those with missing points written raw.
LosesData(w) ==
    \/ w.l = 1 /\ w.as.datyp = 2 /\ w.as.nbits < 8
    \/ w.as.datyp = 133 /\ w.as.nbits > 32
    \/ NumberKind(w.as.datyp) # NumberKind(w.q.datyp) /\ (w.plugged \/ w.as.datyp % 128 # 0)
    \/ w.as.datyp = 130 /\ ~w.small
    \/ w.plugged /\ w.as.datyp > 128 /\ ~w.small
    \/ w.swamped

\* What a copy in image mode does not give back: complex fields, and characters of fewer
\* than 8 bits, which are packed in 8.
CopyLoses(w) == w.as.datyp % 128 = 8 \/ (w.as.datyp % 128 = 7 /\ w.as.nbits < 8)

\* A field written and read by a program that declares the length of its elements comes back
\* whole, with elements of that length, whatever type, bits and remapping it was written with,
\* rewritten or not, packed a second time or not, and through a copy in image mode.
FieldReadsBack ==
    LET w == fread.rec.wrote
    IN fread.at = "read" /\ w.l = w.q.len /\ fread.l = w.l /\ Suits(w.as.datyp, w.as.nbits, w.l)
          /\ ~LosesData(w) /\ (fread.rec.data = Lost => ~CopyLoses(w))
          => fread.val = w.val /\ fread.len = w.l
=============================================================================
