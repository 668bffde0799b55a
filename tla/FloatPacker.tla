---------------------------- MODULE FloatPacker -----------------------------
(* c_float_packer and c_float_unpacker, which keep a field of IEEE reals as *)
(* one exponent, the mantissa of the minimum and one token of 16 bits a     *)
(* value (records of data type 6).  A real is [s, e, m]: sign, exponent and *)
(* mantissa bits, of the widths the constants give; infinities and NaN are  *)
(* left out.                                                                *)
EXTENDS Integers, Sequences, SequencesExt

CONSTANTS MantissaBits,   \* 23 in the code
          TokenBits,      \* 16
          FloatFields,    \* the fields a program packs
          TokenSizes,     \* the nbits it asks for
          MaxPasses       \* bound: how often a field is packed again

VARIABLES floats,         \* the field given to the packer
          tokens,         \* the packed record, or UNPACKED
          readback,       \* what the unpacker gave, or UNPACKED
          given,          \* the field the program packed first
          passes          \* how often it has been packed again
fpvars == <<floats, tokens, readback, given, passes>>

UNPACKED == [nbits |-> 0]
Hidden   == 2^MantissaBits
\* The value of a real, the least positive normal one being 2 * Hidden.
RealOf(v) == (IF v.s = 1 THEN -1 ELSE 1) * (IF v.e = 0 THEN 2 * v.m ELSE (Hidden + v.m) * 2^v.e)
Magn(n) == IF n < 0 THEN -n ELSE n
FloatOf(n) ==                                        \* exact for what is unpacked
    LET e == CHOOSE i \in 1 .. 30 : \/ i = 1 /\ Magn(n) < 2 * Hidden * 2
                                    \/ i > 1 /\ Magn(n) \in Hidden * 2^i .. Hidden * 2^(i + 1) - 1
    IN  IF Magn(n) < 2 * Hidden THEN [s |-> IF n < 0 THEN 1 ELSE 0, e |-> 0, m |-> Magn(n) \div 2]
        ELSE [s |-> IF n < 0 THEN 1 ELSE 0, e |-> e, m |-> Magn(n) \div 2^e - Hidden]

\* The first of the least and of the largest values: the loop replaces only on
\* a strict comparison.
LeastOf(f)   == FoldLeft(LAMBDA a, v : IF RealOf(a) > RealOf(v) THEN v ELSE a, f[1], f)
LargestOf(f) == FoldLeft(LAMBDA a, v : IF RealOf(a) < RealOf(v) THEN v ELSE a, f[1], f)
TopExp(f) == IF LargestOf(f).e > LeastOf(f).e THEN LargestOf(f).e ELSE LeastOf(f).e
\* The mantissa of a value, hidden bit included whatever its exponent, at the
\* largest exponent of the field.
Aligned(v, top) == LET n == (Hidden + v.m) \div 2^(IF top - v.e > 31 THEN 31 ELSE top - v.e)
                   IN  IF v.s = 1 THEN -n ELSE n
AlignedEnd(v, top) == IF v.e < 1 THEN 0 ELSE Aligned(v, top)

\* The bits to drop so that the range of the field fits a token.
DroppedBits(span, nbits) == CHOOSE s \in 0 .. MantissaBits + 2 :
                               /\ span \div 2^s <= 2^nbits - 1
                               /\ \A i \in 0 .. s - 1 : span \div 2^i > 2^nbits - 1
FloatTokenUp(n, s, nbits) ==                                              \* mutant
    LET t == (n + 2^s) \div 2^s
    IN  IF t > 2^nbits - 1 THEN 2^nbits - 1 ELSE t
FloatToken(n, s, nbits) ==
    LET t == (n + (2^s \div 2)) \div 2^s
    IN  IF t > 2^nbits - 1 THEN 2^nbits - 1 ELSE t
\* Two tokens go in a word, shifted in from the right: a negative one spoils
\* the token on its left.
Stored(t) == [i \in DOMAIN t |-> IF i % 2 = 1 /\ i < Len(t) /\ t[i + 1] < 0
                                 THEN 2^TokenBits - 1 ELSE t[i] % 2^TokenBits]

float_packer_1(f, nbits) ==
    LET top == TopExp(f)
        minimum == AlignedEnd(LeastOf(f), top)
        s == DroppedBits(AlignedEnd(LargestOf(f), top) - minimum, nbits)
    IN  [nbits |-> nbits, npts |-> Len(f), top |-> top, shift |-> s, minimum |-> minimum,
         stream |-> Stored([i \in DOMAIN f |-> FloatToken(Aligned(f[i], top) - minimum, s, nbits)])]

\* A mantissa without its hidden bit is made by subtracting the bogus one:
\* exact, and a denormal when the exponent is small.
float_unpacker_1(p) ==
    IF p.top = 0 THEN [i \in 1 .. p.npts |-> FloatOf(0)]
    ELSE [i \in 1 .. p.npts |->
            LET n == p.stream[i] * 2^p.shift + p.minimum
                kept == IF Magn(n) > 2 * Hidden - 1 THEN 2 * Hidden - 1 ELSE Magn(n)
            IN  FloatOf((IF n < 0 THEN -1 ELSE 1) * kept * 2^p.top)]

(* ------------------------------ the calls ------------------------------- *)
FloatsInit == floats = <<>> /\ tokens = UNPACKED /\ readback = <<>> /\ given = <<>> /\ passes = 0

\* c_float_packer: nothing is stored for a number of bits out of 1 .. 16.
PackFloats(f, nbits) ==
    /\ nbits \in 1 .. TokenBits
    /\ floats' = f /\ given' = f /\ tokens' = float_packer_1(f, nbits)
    /\ readback' = <<>> /\ UNCHANGED passes

\* c_float_unpacker: refused when the count asked for is not the one packed.
UnpackFloats(npts) ==
    /\ npts = tokens.npts
    /\ readback' = float_unpacker_1(tokens)
    /\ UNCHANGED <<floats, tokens, given, passes>>

\* What was read is written again, with the same number of bits.
PackAgain ==
    /\ readback # <<>> /\ passes < MaxPasses
    /\ floats' = readback /\ tokens' = float_packer_1(readback, tokens.nbits)
    /\ readback' = <<>> /\ passes' = passes + 1 /\ UNCHANGED given

FloatsNext == \/ floats = <<>> /\ \E f \in FloatFields, n \in TokenSizes : PackFloats(f, n)
              \/ tokens # UNPACKED /\ readback = <<>>
                 /\ \E n \in {Len(f) : f \in FloatFields} : UnpackFloats(n)
              \/ PackAgain
FloatsSpec == FloatsInit /\ [][FloatsNext]_fpvars

(* ----------------------------- properties ------------------------------- *)
Half(p) == 2^p.shift \div 2 + 1
\* Zeros and reals too small to have a hidden bit, in a field so small that a
\* hidden bit is not shifted out: the packer gives them one, and a negative
\* one that is the least of the field then gets a negative token.
Bogus(f)   == TopExp(f) \in 1 .. MantissaBits /\ \E i \in DOMAIN f : f[i].e = 0
Spoiled(f) == TopExp(f) \in 1 .. MantissaBits /\ \E i \in DOMAIN f : f[i].e = 0 /\ f[i].s = 1
\* Every value of a field comes back within half of a step of the tokens, one
\* unit of the truncated mantissas added, or within one step at the top of the
\* range, where the token is limited to nbits; a field too small to be told
\* from zero comes back as zeros (float_packer.c:121-205, 43-107).
FloatsComeBack ==
    (readback # <<>> /\ ~Spoiled(floats)) =>
       \A i \in DOMAIN floats :
          LET off == Magn(RealOf(readback[i]) - RealOf(floats[i]))
              least == IF floats[i].e = 0 THEN 2 * Hidden ELSE 0
          IN  IF tokens.top = 0 THEN RealOf(readback[i]) = 0
              ELSE off <= least + 2^tokens.top
                            * (IF tokens.stream[i] = 2^tokens.nbits - 1 THEN 2^tokens.shift ELSE Half(tokens))

\* A field that was read from tokens and is packed again with as many bits is
\* read back unchanged, however often (the repacking loop of the test program,
\* float_packer.c:365-389).
RepackedUnchanged == (readback # <<>> /\ passes > 0 /\ ~Bogus(given) /\ ~Bogus(floats))
                        => readback = floats

\* A field comes back from its tokens, and stays as it came back.
FieldStays == FloatsComeBack /\ RepackedUnchanged
=============================================================================
