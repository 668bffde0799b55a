----------------------------- MODULE Compressor -----------------------------
(***************************************************************************)
(* Lossless compression of packed fields: of integers of 16 bits or less   *)
(* (src/compresseur/c_zfstlib.c) and of floats of 32 bits with their       *)
(* mantissas cut (src/compresseur/armn_compress_32.c).  A stream is a      *)
(* sequence of bits, written and read by tokens of the same sizes only if  *)
(* both sides make the same choices: nothing in it says where a token      *)
(* ends.  The numbers of the code are CONSTANTS, so that small fields meet *)
(* every case: words, values, containers, tiles and runs.                  *)
(***************************************************************************)
EXTENDS Integers, Sequences, SequencesExt

CONSTANTS
    Fields16,    \* fields of integers: [ni, nj, nbits, v], v by rows
    Fields32,    \* fields of floats, v of [s, e, m], nbits the bits of mantissa kept
    Levels,      \* compression levels a program sets; -1 stands for never set
    Container,   \* bits that hold a number of bits (4); values have 2^Container at most
    Container32, \* the same for mantissas (5)
    WordBits,    \* bits of a word (32)
    MinDim,      \* below, a field is coded by the minimum of its tiles (16)
    FewBits,     \* as are fields of so few bits (4)
    Step,        \* side of a tile (3)
    MinStep,     \* and for the minimum (5)
    MantBits,    \* bits of a mantissa (23)
    ExpBits,     \* bits of a sign and an exponent (9)
    SeqLen,      \* signs in a SEQUENCE (7)
    CountBits,   \* bits of the length of a run (6)
    LongRun      \* what the highest such length stands for (255)

ASSUME CompressorAssumption ==
    /\ {Container, Container32, WordBits, Step, MinStep, SeqLen, CountBits} \subseteq Nat \ {0}
    /\ LongRun > 2^CountBits /\ SeqLen < 2^CountBits - 2

VARIABLES
    level,   \* fstcompression_level
    swap,    \* swapStream
    zfield,    \* what was last given to the compressor, and what it made of it
    got      \* what reading it back gives, <<>> before

compressorvars == <<level, swap, zfield, got>>

FAST == 0
BEST == 1
Width == 2^Container    \* 16

-----------------------------------------------------------------------------
\* stuff and extract: tokens of bits, highest first.
Bits(v, n)  == [i \in 1 .. n |-> (v \div 2^(n - i)) % 2]
Number(b)   == FoldLeft(LAMBDA a, x : 2 * a + x, 0, b)
Token(z, at, n) == Number(SubSeq(z, at, at + n - 1))
Signed(v, n) == IF v >= 2^(n - 1) THEN v - 2^n ELSE v
BitsFor(v)  == CHOOSE n \in 0 .. 30 : v < 2^n /\ \A m \in 0 .. n - 1 : v >= 2^m
Abs(v)      == IF v < 0 THEN -v ELSE v
Flatten(ss) == FoldLeft(LAMBDA a, b : a \o b, <<>>, ss)
Ceil(a, b)  == (a + b - 1) \div b

\* What is written of a stream: a word of header and its bits.
ZWords(bits) == 1 + Ceil(Len(bits), WordBits)

\* Cells of a field, by rows, and its tiles of side step beginning at cell (from, from).
Cell(f, i, j) == (j - 1) * f.ni + i
Tiles(f, from, step) ==
    LET Side(n)   == [t \in 1 .. Ceil(n - from + 1, step) |-> from + (t - 1) * step]
        Upto(a, n) == IF a + step - 1 >= n THEN n ELSE a + step - 1
        Tile(a, b) == Flatten([y \in 1 .. Upto(b, f.nj) - b + 1 |->
                          [x \in 1 .. Upto(a, f.ni) - a + 1 |-> Cell(f, a + x - 1, b + y - 1)]])
    IN  Flatten([y \in 1 .. Len(Side(f.nj)) |->
            [x \in 1 .. Len(Side(f.ni)) |-> Tile(Side(f.ni)[x], Side(f.nj)[y])]])

-----------------------------------------------------------------------------
\* packTokensMinimum, unpackTokensMinimum: the minimum of each tile and what is above it;
\* when that takes nearly all the bits of a value, the values themselves.
Lowest(v, tile)  == CHOOSE m \in {v[tile[x]] : x \in DOMAIN tile} :
                       \A x \in DOMAIN tile : m <= v[tile[x]]
Highest(v, tile) == CHOOSE m \in {v[tile[x]] : x \in DOMAIN tile} :
                       \A x \in DOMAIN tile : m >= v[tile[x]]
Capped(n) == IF n = Width THEN Width - 1 ELSE n    \* the container holds no Width

PackMinimum(f) ==
    LET One(tile) ==
            LET low == Lowest(f.v, tile)
                n   == Capped(BitsFor(Highest(f.v, tile) - low))
                Of(off, w) == Flatten([x \in DOMAIN tile |-> Bits(f.v[tile[x]] - off, w)])
            IN  Bits(n, Container) \o
                  CASE n = 0 -> Bits(low, f.nbits)
                    [] n = Width - 1 -> Of(0, Width)
                    [] OTHER -> Bits(low, f.nbits) \o Of(low, n)
        tiles == Tiles(f, 1, MinStep)
    IN  Flatten([t \in DOMAIN tiles |-> One(tiles[t])])

UnpackMinimum(f, z) ==
    LET One(r, tile) ==
            LET n     == Token(z, r.at, Container)
                raw   == n \in {Width - 1, Width}
                begin == r.at + Container + (IF raw THEN 0 ELSE f.nbits)
                low   == IF raw THEN 0 ELSE Token(z, r.at + Container, f.nbits)
                w     == IF raw THEN Width ELSE n
                At(k) == CHOOSE x \in DOMAIN tile : tile[x] = k
            IN  [at |-> begin + w * Len(tile),
                 v  |-> [k \in DOMAIN r.v |->
                            IF k \notin Range(tile) THEN r.v[k]
                            ELSE low + Token(z, begin + w * (At(k) - 1), w)]]
    IN  FoldLeft(One, [at |-> 1, v |-> [k \in 1 .. f.ni * f.nj |-> 0]], Tiles(f, 1, MinStep)).v

-----------------------------------------------------------------------------
\* packTokensParallelogram and its variants for bytes and words: the first row and column,
\* then how far each value is from the one its three neighbours foretell, by tiles.
Foretold(f, v, i, j) == v[Cell(f, i, j - 1)] + v[Cell(f, i - 1, j)] - v[Cell(f, i - 1, j - 1)]
Off(f) == [k \in 1 .. f.ni * f.nj |->
              LET i == ((k - 1) % f.ni) + 1
                  j == ((k - 1) \div f.ni) + 1
              IN  IF i = 1 \/ j = 1 THEN 0 ELSE f.v[k] - Foretold(f, f.v, i, j)]
Border(f) == [i \in 1 .. f.ni |-> i] \o [j \in 1 .. f.nj - 1 |-> Cell(f, 1, j + 1)]

\* Bits a tile of them takes, sign included.  Fields of 16 bits write 15 for 16.
OffWidth(n, sixteen) == CASE n = 0 -> 0
                          [] sixteen /\ n \in {Width - 1, Width} -> Width + 1
                          [] OTHER -> n + 1

\* mutant: the container stays as it is, whatever the differences
ContainerKept(f, sixteen, short) == short

\* gt16: one more bit is needed for the numbers of bits.
ContainerOf(f, sixteen, short) ==
    IF sixteen /\ f.nbits >= Width - 1 /\ \E k \in DOMAIN f.v : Abs(Off(f)[k]) > 2^Width - 1
    THEN short + 1 ELSE short

TileOf(f, tile, c, sixteen) ==
    LET off == Off(f)
        b   == BitsFor(Highest([k \in DOMAIN off |-> Abs(off[k])], tile))
        n   == IF sixteen THEN Capped(b) ELSE b
        w   == OffWidth(n, sixteen)
    IN  Bits(n, c) \o Flatten([x \in DOMAIN tile |-> Bits(off[tile[x]] % 2^w, w)])

PackParallelogram(f, sixteen, short) ==
    LET c     == ContainerOf(f, sixteen, short)
        tiles == Tiles(f, 2, Step)
    IN  Bits(c, 3) \o Flatten([x \in DOMAIN Border(f) |-> Bits(f.v[Border(f)[x]], f.nbits)])
          \o Flatten([t \in DOMAIN tiles |-> TileOf(f, tiles[t], c, sixteen)])

UnpackParallelogram(f, z, sixteen, modulus) ==
    LET c    == Token(z, 1, 3)
        edge == [x \in DOMAIN Border(f) |-> Token(z, 4 + (x - 1) * f.nbits, f.nbits)]
        One(r, tile) ==
            LET w     == OffWidth(Token(z, r.at, c), sixteen)
                At(k) == CHOOSE x \in DOMAIN tile : tile[x] = k
            IN  [at |-> r.at + c + w * Len(tile),
                 d  |-> [k \in DOMAIN r.d |->
                            IF k \notin Range(tile) THEN r.d[k]
                            ELSE IF w = 0 THEN 0
                            ELSE Signed(Token(z, r.at + c + w * (At(k) - 1), w), w)]]
        off == FoldLeft(One, [at |-> 4 + Len(edge) * f.nbits, d |-> [k \in 1 .. f.ni * f.nj |-> 0]],
                        Tiles(f, 2, Step)).d
        Recovered(v, k) ==
            LET i == ((k - 1) % f.ni) + 1
                j == ((k - 1) \div f.ni) + 1
            IN  Append(v, IF i = 1 \/ j = 1 THEN edge[CHOOSE x \in DOMAIN edge : Border(f)[x] = k]
                          ELSE (off[k] + Foretold(f, v, i, j)) % modulus)
    IN  FoldLeft(Recovered, <<>>, [k \in 1 .. f.ni * f.nj |-> k])

-----------------------------------------------------------------------------
\* pack1bitRLE, unpack1bitRLE: signs, in sequences of SeqLen or runs; a run goes on by
\* LongRun behind one of RunMax, with a length that cannot be one.
RunMax == 2^CountBits - 2
SEQUENCE == 0
COUNT    == 1
RunAt(s, p) == (CHOOSE q \in p + 1 .. Len(s) + 1 :
                  /\ \A x \in p .. q - 1 : s[x] = s[p]
                  /\ q = Len(s) + 1 \/ s[q] # s[p]) - p

PackSigns(s) ==
    LET Go[p \in 1 .. Len(s) + SeqLen, again \in BOOLEAN] ==
            IF p > Len(s) THEN <<>>
            ELSE LET run == RunAt(s, p) IN
            CASE run <= SeqLen ->
                    <<SEQUENCE>> \o SubSeq(s, p, p + SeqLen - 1) \o Go[p + SeqLen, FALSE]
              [] run >= RunMax /\ again /\ run > LongRun + 1 ->
                    <<COUNT, 1>> \o Bits(RunMax + 1, CountBits) \o Go[p + LongRun, TRUE]
              [] run >= RunMax /\ ~(again /\ run > LongRun + 1) ->
                    <<COUNT, s[p]>> \o Bits(RunMax, CountBits) \o Go[p + RunMax, run > RunMax]
              [] OTHER ->
                    <<COUNT, s[p]>> \o Bits(run, CountBits) \o Go[p + run, FALSE]
    IN  Go[1, FALSE]

UnpackSigns(z, n) ==
    LET Least(a, b) == IF a < b THEN a ELSE b
        Go[at \in 1 .. Len(z) + SeqLen + 1, have \in 0 .. n, last \in 0 .. 1] ==
            LET count == Token(z, at + 2, CountBits)
                run   == Least(IF count = RunMax + 1 THEN LongRun ELSE count, n - have)
                val   == IF count = RunMax + 1 THEN last ELSE z[at + 1]
                seq   == Least(SeqLen, n - have)
            IN  IF have = n \/ at > Len(z) THEN <<>>
                ELSE IF z[at] = SEQUENCE
                THEN SubSeq(z, at + 1, at + seq) \o Go[at + 1 + seq, have + seq, last]
                ELSE [x \in 1 .. run |-> val] \o Go[at + 2 + CountBits, have + run, val]
    IN  Go[1, 0, 0]

-----------------------------------------------------------------------------
\* armn_compress.  The two halves of a word are exchanged first, for they come as words of
\* the other byte order, and back when the field is left as it was.
Exchanged(h) == [k \in DOMAIN h |-> h[IF k % 2 = 1 THEN k + 1 ELSE k - 1]]
Oriented(h, s) == IF s = 1 THEN Exchanged(h) ELSE h
Halves(f, s) == Oriented(f.v \o (IF Len(f.v) % 2 = 1 THEN <<0>> ELSE <<>>), s)
Values(h, s, n) == SubSeq(Oriented(h, s), 1, n)

MINIMUM == "minimum"
PARALLELOGRAM == "parallelogram"
Method(f, l) == IF l = FAST \/ f.ni < MinDim \/ f.nj < MinDim \/ f.nbits <= FewBits
                THEN MINIMUM ELSE PARALLELOGRAM
REFUSED == [method |-> "refused"]
IsOneRow(f) == f.nbits > Width \/ f.ni = 1 \/ f.nj = 1

Compressed(f, l, s) ==
    LET g == [f EXCEPT !.v = Values(Halves(f, s), s, f.ni * f.nj)]
        m == Method(f, l)
        z == IF m = MINIMUM THEN PackMinimum(g) ELSE PackParallelogram(g, TRUE, Container)
    IN  IF IsOneRow(f) \/ 2 * ZWords(z) >= f.ni * f.nj THEN REFUSED
        ELSE [method |-> m, bits |-> z]

Uncompressed(f, z) == IF z.method = MINIMUM THEN UnpackMinimum(f, z.bits)
               ELSE UnpackParallelogram(f, z.bits, TRUE, 2^Width)

\* c_armn_compress32: signs when they differ, exponents above the least when they differ,
\* mantissas.  Lengths are in bytes of a quarter of a word, rounded up past a word.
Streamed(bits) == 1 + Ceil(Len(bits), WordBits)    \* words of a stream padded to words
Part(f, name)  == [k \in DOMAIN f.v |-> f.v[k][name]]
ExpMin(f)      == Lowest(Part(f, "e"), [k \in DOMAIN f.v |-> k])
ExpMax(f)      == Highest(Part(f, "e"), [k \in DOMAIN f.v |-> k])
SameSign(f)    == \A k \in DOMAIN f.v : f.v[k].s = f.v[1].s
Cut(f)         == [k \in DOMAIN f.v |-> f.v[k].m \div 2^(MantBits - f.nbits)]
Exponents(f)   == [ni |-> f.ni, nj |-> f.nj, nbits |-> BitsFor(ExpMax(f) - ExpMin(f)),
                   v |-> [k \in DOMAIN f.v |-> f.v[k].e - ExpMin(f)]]

\* The mantissas are given up when a tile that is not all zeros comes too near the end of
\* the room.
TooLong(f, room) ==
    LET g     == [f EXCEPT !.v = Cut(f)]
        tiles == Tiles(f, 2, Step)
        head  == 3 + Len(Border(f)) * f.nbits
        After[t \in 0 .. Len(tiles)] ==
            IF t = 0 THEN head ELSE After[t - 1] + Len(TileOf(g, tiles[t], Container32, FALSE))
        Need(t) == Token(TileOf(g, tiles[t], Container32, FALSE), 1, Container32)
    IN  \E t \in DOMAIN tiles :
            /\ Need(t) > 0
            /\ room < Ceil(After[t], WordBits) + (Need(t) + Step * Step * f.nbits) \div WordBits

Compressed32(f) ==
    LET signs == IF SameSign(f) THEN <<>> ELSE PackSigns(Part(f, "s"))
        exps  == IF ExpMin(f) = ExpMax(f) THEN <<>>
                 ELSE PackParallelogram(Exponents(f), FALSE, Container)
        spent == 2 + (IF SameSign(f) THEN 0 ELSE 1 + Streamed(signs))
                   + (IF exps = <<>> THEN 0 ELSE 1 + Streamed(exps)) + 1
        room  == (f.ni * f.nj * (f.nbits + ExpBits)) \div WordBits - spent
    IN  IF \/ f.ni < MinDim \/ f.nj < MinDim
           \/ exps # <<>> /\ 1 + 4 * Ceil(Len(exps), WordBits) > f.ni * f.nj
           \/ TooLong(f, room)
        THEN REFUSED
        ELSE [method |-> "parallelogram32", sign |-> f.v[1].s, signs |-> signs,
              exp_base |-> ExpMin(f), exps |-> exps,
              mants |-> PackParallelogram([f EXCEPT !.v = Cut(f)], FALSE, Container32)]

Uncompressed32(f, z) ==
    LET n == f.ni * f.nj
        s == IF z.signs = <<>> THEN [k \in 1 .. n |-> z.sign] ELSE UnpackSigns(z.signs, n)
        e == IF z.exps = <<>> THEN [k \in 1 .. n |-> 0]
             ELSE UnpackParallelogram(Exponents(f), z.exps, FALSE, 2^ExpBits)
        m == UnpackParallelogram(f, z.mants, FALSE, 2^WordBits)
    IN  [k \in 1 .. n |-> [s |-> s[k], e |-> e[k] + z.exp_base, m |-> m[k] * 2^(MantBits - f.nbits)]]

-----------------------------------------------------------------------------
NOTHING == <<>>

\* c_armn_compress_setlevel, and its Fortran form; setswap, whose Fortran form sets the
\* level instead.
SetLevel(l) ==
    /\ level' = (IF l \in {FAST, BEST} THEN l ELSE FAST)
    /\ UNCHANGED <<swap, zfield, got>>

SetSwap(s) ==
    /\ swap' = (IF s \in {0, 1} THEN s ELSE swap)
    /\ UNCHANGED <<level, zfield, got>>

F77SetSwap(s) == SetLevel(s)

\* A caller gives its field in the order of halves the swap stands for.
Compress16(f) ==
    LET l == IF level = -1 THEN BEST ELSE level
        z == Compressed(f, l, swap) IN
    /\ level' = l
    /\ zfield' = [f |-> f, swap |-> swap, z |-> z, mem |-> Halves(f, swap)]
    /\ got' = NOTHING
    /\ UNCHANGED swap

Compress32(f) ==
    /\ zfield' = [f |-> f, swap |-> swap, z |-> Compressed32(f), mem |-> f.v]
    /\ got' = NOTHING
    /\ UNCHANGED <<level, swap>>

\* The reader knows the sizes and the number of bits, which the file keeps, and which of
\* the two compressors made the stream.
Uncompress ==
    /\ zfield # NOTHING /\ zfield.z # REFUSED
    /\ got' = [swap |-> swap,
               mem |-> IF zfield.f \in Fields32 THEN Uncompressed32(zfield.f, zfield.z)
                       ELSE Halves([zfield.f EXCEPT !.v = Uncompressed(zfield.f, zfield.z)], swap)]
    /\ level' = (IF zfield.f \in Fields16 /\ level = -1 THEN BEST ELSE level)
    /\ UNCHANGED <<swap, zfield>>

CompressorInit == level = -1 /\ swap = 1 /\ zfield = NOTHING /\ got = NOTHING

\* Bound: one field, of which the compressor keeps nothing.
Room == zfield = NOTHING

CompressorNext ==
    \/ \E l \in Levels : SetLevel(l)
    \/ \E s \in 0 .. 1 : SetSwap(s) \/ F77SetSwap(s)
    \/ Room /\ \E f \in Fields16 : Compress16(f)
    \/ Room /\ \E f \in Fields32 : Compress32(f)
    \/ Uncompress

CompressorSpec == CompressorInit /\ [][CompressorNext]_compressorvars

\* What is read back is the field that was given, mantissas cut to their bits, whatever
\* the choices its values led the compressor to and whatever levels the program set
\* since, as long as the order of halves is the one it was written with.
FieldComesBack ==
    (got # NOTHING /\ got.swap = zfield.swap) =>
        IF zfield.f \in Fields16 THEN got.mem = zfield.mem
        ELSE got.mem = [k \in DOMAIN zfield.mem |->
                 [zfield.mem[k] EXCEPT !.m = Cut(zfield.f)[k] * 2^(MantBits - zfield.f.nbits)]]

=============================================================================
