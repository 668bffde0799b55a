---------------------------- MODULE TokenPacker ----------------------------
(***************************************************************************)
(* Packing of integers (src/packers/compact_integer.c, on the macros of    *)
(* src/include/bitPacking.h): arrays of int, short or char are put, token  *)
(* by token, at any bit of an array of words that holds others, and taken  *)
(* out again.  A header, when there is one, keeps the least value, the     *)
(* size of a token and how many low bits were dropped.  Shifts by a whole  *)
(* word, which the code meets, are those of the machine: the count is      *)
(* taken modulo the size of a word.                                        *)
(***************************************************************************)
EXTENDS Integers, Sequences, SequencesExt

CONSTANTS
    W,          \* wordSize, 32 bits
    Words,      \* words of the packed array
    Arrays,     \* [kind |-> set of arrays of values], kinds "unsigned", "signed", "short", "char"
    Sizes,      \* bits a caller asks for; Auto stands for -1
    Auto,
    Offsets,    \* bits it packs at
    Strides,    \* distance between elements of the unpacked array
    Filling,    \* the word the packed array holds everywhere at first
    MaxPacked   \* bound: calls that pack

ASSUME PackerAssumption ==
    /\ {W, Words, MaxPacked} \cup Offsets \cup Strides \cup (Sizes \ {Auto}) \subseteq Nat
    /\ Auto \notin Nat /\ W > 0 /\ Filling \in 0 .. 2^W - 1

VARIABLES
    packed,    \* arrayOfPacked
    intended,  \* the bits it should hold (history)
    arrays,    \* what was packed, where, and the header and size that came of it
    unpacked   \* what the last call to unpack gave

packervars == <<packed, intended, arrays, unpacked>>

Shl(x, n) == (x * 2^(n % W)) % 2^W
Shr(x, n) == x \div 2^(n % W)
AsInt(x)    == IF x >= 2^(W - 1) THEN x - 2^W ELSE x      \* int of an unsigned
Signs(kind) == kind = "signed"
WidthOf(kind) == CASE kind = "short" -> W \div 2 [] kind = "char" -> W \div 4 [] OTHER -> W
SizeOf(v) == CHOOSE n \in 0 .. 31 : v < 2^n /\ \A k \in 0 .. n - 1 : v >= 2^k
Least(s)    == CHOOSE m \in Range(s) : \A x \in Range(s) : m <= x
Greatest(s) == CHOOSE m \in Range(s) : \A x \in Range(s) : m >= x

-----------------------------------------------------------------------------
\* stuff: s is where the packer is: the array, the word to fill, the bits on their way to
\* it and the room left in it.
Stuff(s, token, n) ==
    IF s.space >= n
    THEN [s EXCEPT !.last = (Shl(s.last, n) + token) % 2^W, !.space = @ - n]
    ELSE [words |-> [s.words EXCEPT ![s.slot] = (Shl(s.last, s.space) + Shr(token, n - s.space)) % 2^W],
          slot  |-> s.slot + 1,
          last  |-> token,
          space |-> W - (n - s.space)]

\* mutant: the bits behind the last token are not kept
StopClean(s) ==
    IF s.space = W THEN s.words ELSE [s.words EXCEPT ![s.slot] = Shl(s.last, s.space)]

\* The end of Pack: the last word is completed with what it held.
Stop(s) ==
    IF s.space = W THEN s.words
    ELSE [s.words EXCEPT ![s.slot] = (Shl(s.last, s.space) + (@ % 2^s.space)) % 2^W]

\* Pack: whole words at a word are copied, other tokens stuffed.
Packed(words, tokens, n, offset) ==
    LET space == W - (offset % W)
        slot  == offset \div W + 1
        s     == [words |-> words, slot |-> slot, space |-> space,
                  last |-> IF space = W THEN 0 ELSE Shr(words[slot], space)]
    IN  IF space = W /\ n = W
        THEN [k \in DOMAIN words |-> IF k - slot \in 0 .. Len(tokens) - 1
                                     THEN tokens[k - slot + 1] ELSE words[k]]
        ELSE Stop(FoldLeft(LAMBDA t, x : Stuff(t, x, n), s, tokens))

\* extract: no token is larger than a word here.
WordAt(words, k) == IF k \in DOMAIN words THEN words[k] ELSE 0    \* one past the end may be read
NextWord(s) == IF s.left # 0 THEN s
               ELSE [s EXCEPT !.slot = @ + 1, !.cur = WordAt(s.words, s.slot + 1), !.left = W]

Extract(s, n) ==
    LET high == Shr(s.cur, W - n)
        next == WordAt(s.words, s.slot + 1)
    IN  IF s.left >= n
        THEN NextWord([s EXCEPT !.cur = Shl(@, n), !.left = @ - n, !.out = Append(@, high)])
        ELSE NextWord([s EXCEPT !.slot = @ + 1, !.cur = Shl(next, n - s.left),
                                !.left = W - (n - @),
                                !.out = Append(@, high + Shr(next, W - (n - s.left)))])

\* Unpack: count tokens of n bits from offset.
Tokens(words, count, n, offset) ==
    LET left == W - (offset % W)
        slot == offset \div W + 1
        s    == [words |-> words, slot |-> slot, left |-> left,
                 cur |-> Shl(WordAt(words, slot), W - left), out |-> <<>>]
    IN  FoldLeft(LAMBDA t, k : Extract(t, n), s, [k \in 1 .. count |-> k]).out

-----------------------------------------------------------------------------
\* constructHeader: the range decides the size, or the low bits dropped for the size asked.
Header(values, size) ==
    LET need == SizeOf(Greatest(values) - Least(values))
    IN  [bits  |-> IF size = Auto THEN need ELSE size,
         shift |-> IF size # Auto /\ need > size THEN need - size ELSE 0,
         count |-> Len(values), min |-> Least(values)]

\* Without one, the size of the greatest value, and a bit more when they have signs.
PlainSize(kind, values, size) ==
    IF size # Auto THEN size
    ELSE IF Signs(kind)
    THEN SizeOf(Greatest(<<-Least(values), Least(values), Greatest(values)>>)) + 1
    ELSE SizeOf(Greatest(values))

\* cleanupMask is made for the size asked; with a header and Auto it is made for -1.
Mask(size, n, header) ==
    IF header # <<>> /\ size = Auto THEN 2^(W - 1) ELSE IF n = 0 \/ n >= W THEN 2^W ELSE 2^n

\* Shorts and chars with a header are packed from 0, not from their minimum.
Base(kind, header) == IF kind \in {"short", "char"} THEN 0 ELSE header.min

TokenOf(kind, x, header, n, size) ==
    LET plain == IF Signs(kind) THEN x + 2^((n - 1) % W) ELSE x
        offs  == x - Base(kind, header)
        v     == IF header = <<>> THEN plain ELSE offs \div 2^header.shift
    IN  (v % 2^W) % Mask(size, n, header)

ValueOf(kind, token, header, n) ==
    LET v == (IF header # <<>> THEN Shl(token, header.shift) + Base(kind, header)
              ELSE IF Signs(kind) THEN token - 2^((n - 1) % W) ELSE token) % 2^W
    IN  IF Signs(kind) THEN AsInt(v) ELSE v % 2^(WidthOf(kind))

Elements(array, stride) == [k \in 1 .. Len(array) \div stride |-> array[(k - 1) * stride + 1]]

BitsOf(words) == FoldLeft(LAMBDA b, x : b \o [i \in 1 .. W |-> Shr(x, W - i) % 2], <<>>, words)
WithTokens(bits, tokens, n, offset) ==
    [k \in DOMAIN bits |->
        LET t == (k - 1 - offset) \div n + 1
        IN  IF n = 0 \/ k <= offset \/ t > Len(tokens) THEN bits[k]
            ELSE (tokens[t] \div 2^(n - 1 - ((k - 1 - offset) % n))) % 2]

-----------------------------------------------------------------------------
\* What a caller may ask for: values that fit the size it gives, and none of the cases the
\* macros do not hold for: tokens of no bits, a header whose range is not the values of a
\* short or char, and a range of a whole word with a header and no size given.
Fits(kind, values, size, header, n) ==
    /\ n \in 1 .. W
    /\ IF header = <<>>
       THEN \A x \in Range(values) : IF Signs(kind) THEN x \in -2^(n - 1) .. 2^(n - 1) - 1
                                     ELSE x < 2^n
       ELSE /\ kind \in {"short", "char"} =>
                   header.shift = 0 /\ SizeOf(Greatest(values)) <= n
            /\ size = Auto => n < W

Put(kind, array, stride, size, headed, offset) ==
    LET values == Elements(array, stride)
        header == IF headed THEN Header(values, size) ELSE <<>>
        n      == IF headed THEN header.bits ELSE PlainSize(kind, values, size)
        tokens == [k \in DOMAIN values |-> TokenOf(kind, values[k], header, n, size)]
        used   == offset + 1 .. offset + n * Len(values) IN
    /\ size # 0                                   \* returned before anything is done
    /\ Len(arrays) < MaxPacked                    \* bound
    /\ Fits(kind, values, size, header, n)
    /\ offset + n * Len(values) <= W * Words
    /\ packed' = Packed(packed, tokens, n, offset)
    /\ intended' = WithTokens(intended, tokens, n, offset)
    /\ \A a \in Range(arrays) : a.bits \cap used = {}
    /\ arrays' = Append(arrays, [kind |-> kind, array |-> array, stride |-> stride,
                                 header |-> header, n |-> n, offset |-> offset, bits |-> used])
    /\ unpacked' = <<>>

\* A reader asks with the size it was told, or takes it from the header (unpackWrapper).
\* What lies between the elements is left as it is.
Take(a) ==
    LET count  == IF a.header = <<>> THEN Len(a.array) \div a.stride ELSE a.header.count
        n      == IF a.header = <<>> THEN a.n ELSE a.header.bits
        tokens == Tokens(packed, count, n, a.offset) IN
    /\ unpacked' = [of |-> a,
                    array |-> [k \in DOMAIN a.array |->
                        IF (k - 1) % a.stride # 0 THEN a.array[k]
                        ELSE ValueOf(a.kind, tokens[(k - 1) \div a.stride + 1], a.header, n)]]
    /\ UNCHANGED <<packed, intended, arrays>>

PackerInit ==
    /\ packed = [k \in 1 .. Words |-> Filling]
    /\ intended = BitsOf(packed)
    /\ arrays = <<>>
    /\ unpacked = <<>>

\* A call that packs, of each of the three functions.
PutAny(kind) ==
    \E array \in Arrays[kind], stride \in Strides, size \in Sizes, headed \in BOOLEAN,
       offset \in Offsets : Put(kind, array, stride, size, headed, offset)
TakeAny(kinds) == \E a \in Range(arrays) : a.kind \in kinds /\ Take(a)

PackInteger == PutAny("unsigned") \/ PutAny("signed")     \* opCodes 1 and 3
PackShort   == PutAny("short")                            \* 5
PackChar    == PutAny("char")                             \* 9
UnpackInteger == TakeAny({"unsigned", "signed"})          \* 2 and 4
UnpackShort   == TakeAny({"short"})                       \* 6
UnpackChar    == TakeAny({"char"})                        \* 10

PackerNext == \/ PackInteger \/ PackShort \/ PackChar
              \/ UnpackInteger \/ UnpackShort \/ UnpackChar

PackerSpec == PackerInit /\ [][PackerNext]_packervars

\* Dropped low bits are lost, from the minimum up.
Kept(a, x) == IF a.header = <<>> THEN x
              ELSE ((x - Base(a.kind, a.header)) \div 2^a.header.shift) * 2^a.header.shift
                     + Base(a.kind, a.header)

\* Tokens go where they are asked to go and nowhere else, whatever bits of a word they
\* begin and end at, and arrays packed at several places of the same words all come back.
TokensComeBack ==
    /\ BitsOf(packed) = intended
    /\ unpacked # <<>> =>
           \A k \in DOMAIN unpacked.array :
               LET a == unpacked.of IN
               unpacked.array[k] = IF (k - 1) % a.stride = 0 THEN Kept(a, a.array[k])
                                   ELSE a.array[k]
=============================================================================
