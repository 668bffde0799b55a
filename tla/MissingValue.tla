--------------------------- MODULE MissingValue ---------------------------
(* Missing values of fields: before a field is packed, the value that marks   *)
(* a missing point is replaced by one just above the largest, and after it is *)
(* unpacked the largest value is replaced by the mark.  One field goes        *)
(* through fstecr and fstluk at a time; the marks, the mode and the decoders  *)
(* may be changed in between.  Widths are those of the C types in a smaller   *)
(* machine; reals are scaled by 100, and stored as IEEE numbers.              *)
EXTENDS Integers, Sequences, FiniteSetsExt

CONSTANTS
    MvWidth,    \* [integer types -> bits], int and uint the widest
    MvValues,   \* [types -> values of a point, missing value included]
    MvMark,     \* [types -> default value of a missing point]
    MvMarks,    \* other marks a program may set: [types -> value]
    MvLength,   \* points of a field
    MvInEnv     \* whether MISSING_VALUE_FLAGS is defined

MvSigned   == {"int", "short", "byte"}
MvUnsigned == {"uint", "ushort", "ubyte"}
MvFloats   == {"float", "double"}
MvTypes    == MvSigned \cup MvUnsigned \cup MvFloats

ASSUME MvAssumption ==
    /\ MvWidth \in [MvSigned \cup MvUnsigned -> Nat \ {0}]
    /\ \A t \in MvTypes : MvValues[t] \subseteq Int
    /\ \A t \in MvSigned : MvValues[t] \subseteq -(2^(MvWidth[t] - 1)) .. 2^(MvWidth[t] - 1) - 1
    /\ \A t \in MvUnsigned : MvValues[t] \subseteq 0 .. 2^MvWidth[t] - 1
    /\ MvLength \in Nat \ {0}
    /\ MvInEnv \in BOOLEAN

VARIABLES
    plugmode,   \* -1 not initialized, 1 active, 0 not active
    mark,       \* [types -> the value of a missing point]
    decoder,    \* [types -> "std" or "null"]
    mv          \* the field on its way: [at, type, nbits, field, stored, flagged, got]

mvvars == <<plugmode, mark, decoder, mv>>

MvEmpty == [at |-> "none"]

\* What missing_value_used finds in the environment the first time it is asked.
MissingValueUsed(m) == IF m = -1 THEN (IF MvInEnv THEN 1 ELSE 0) ELSE m

-----------------------------------------------------------------------------
\* fld_*_anal: the largest and the smallest value that is not the mark, the mark itself
\* when there is no other, and the number of marks.
Present(f, m) == {f[i] : i \in DOMAIN f} \ {m}

Anal(f, m) ==
    LET p == IF Present(f, m) = {} THEN {m} ELSE Present(f, m)
    IN [max |-> Max(p), min |-> Min(p), missing |-> Cardinality({i \in DOMAIN f : f[i] = m})]

\* The largest number nbits hold.  short and char start from 0xFFFF and 0xFF in a signed
\* variable, which is -1 and stays -1 when shifted.
Largest(t, nbits) ==
    CASE t = "int"                -> 2^(nbits - 1) - 1
      [] t \in {"short", "byte"}  -> -1
      [] t \in MvUnsigned         -> 2^nbits - 1

PlugAtMax(t, nbits, a) ==                                  \* mutant
    IF t = "double" THEN a.max + (a.max - a.min) \div 100
    ELSE IF Largest(t, nbits) > a.max THEN a.max ELSE Largest(t, nbits)

Plug(t, nbits, a) ==
    IF t = "double"
    THEN LET p == a.max + (a.max - a.min) \div 100
         IN IF p # a.max THEN p ELSE IF a.max = 0 THEN 100 ELSE a.max * 2
    ELSE IF Largest(t, nbits) > a.max THEN a.max + 1 ELSE Largest(t, nbits)

Replaced(f, from, to) == [i \in DOMAIN f |-> IF f[i] = from THEN to ELSE f[i]]

\* EncodeMissingValue.  The call for floats stands behind the return of the case it is
\* written in: a float field is never encoded.
Encodes(m, t, f) == m = 1 /\ t # "float" /\ Anal(f, mark[t]).missing > 0

\* What nbits keep of an integer; a real is stored whole.
PackedTo(t, nbits, v) ==
    CASE t \in MvUnsigned -> v % 2^nbits
      [] t \in MvSigned   -> ((v + 2^(nbits - 1)) % 2^nbits) - 2^(nbits - 1)
      [] t \in MvFloats   -> v

\* fst_*_decode_missing: the loop begins with the second point.
Decoded(f, m) ==
    LET a == Anal(f, m)
    IN [i \in DOMAIN f |-> IF i > 1 /\ f[i] = a.max THEN m ELSE f[i]]

-----------------------------------------------------------------------------
MvNbits(t) == IF t \in MvFloats THEN {64} ELSE 2 .. MvWidth[t]

\* fstecr of a field said to have missing values.
EcrMissing(t, nbits, f) ==
    LET mode    == MissingValueUsed(plugmode)
        encodes == Encodes(mode, t, f)
        out     == IF encodes THEN Replaced(f, mark[t], Plug(t, nbits, Anal(f, mark[t])))
                              ELSE f
    IN /\ mv.at = "none"
       /\ plugmode' = mode
       /\ mv' = [at |-> "stored", type |-> t, nbits |-> nbits, field |-> f, marked |-> mark[t],
                 stored |-> [i \in DOMAIN f |-> PackedTo(t, nbits, out[i])], flagged |-> encodes]
       /\ UNCHANGED <<mark, decoder>>

\* fstluk of the record.
LukMissing ==
    LET mode    == IF mv.flagged THEN MissingValueUsed(plugmode) ELSE plugmode
        decodes == mv.flagged /\ mode = 1 /\ decoder[mv.type] = "std"
    IN /\ mv.at = "stored"
       /\ plugmode' = mode
       /\ mv' = [at |-> "read", by |-> mv, now |-> mark[mv.type], decoded |-> decodes,
                 got |-> IF decodes THEN Decoded(mv.stored, mark[mv.type]) ELSE mv.stored]
       /\ UNCHANGED <<mark, decoder>>

SetMissingValueFlags ==
    /\ mv.at # "read"
    /\ mark' \in MvMarks
    /\ plugmode' = 1
    /\ UNCHANGED <<decoder, mv>>

ForceMissingValueUsage(enable) ==
    /\ mv.at # "read"
    /\ plugmode' = enable
    /\ UNCHANGED <<mark, decoder, mv>>

\* SetMissingValueMapping with mode 11, and with a negative mode.
Deactivate(t) ==
    /\ mv.at # "read"
    /\ decoder' = [decoder EXCEPT ![t] = "null"]
    /\ UNCHANGED <<plugmode, mark, mv>>

RestoreMissingValueMapping ==
    /\ mv.at # "read"
    /\ decoder' = [t \in MvTypes |-> "std"]
    /\ UNCHANGED <<plugmode, mark, mv>>

MvInit ==
    /\ plugmode = -1
    /\ mark = MvMark
    /\ decoder = [t \in MvTypes |-> "std"]
    /\ mv = MvEmpty

MvNext ==
    \/ \E t \in MvTypes : \E nbits \in MvNbits(t), f \in [1 .. MvLength -> MvValues[t]] :
          EcrMissing(t, nbits, f)
    \/ LukMissing
    \/ SetMissingValueFlags
    \/ \E enable \in {0, 1} : ForceMissingValueUsage(enable)
    \/ \E t \in {"uint"} : Deactivate(t)
    \/ RestoreMissingValueMapping

MvSpec == MvInit /\ [][MvNext]_mvvars

-----------------------------------------------------------------------------
\* The fields the replacement has room for: a value above the largest that the nbits still
\* hold.  A short or a byte has it only when every value is below -1, a real when it is
\* not one negative number throughout.
HasRoom(r) ==
    LET a == Anal(r.field, r.marked)
    IN IF r.type = "double"
       THEN a.max > a.min \/ a.max >= 0 \/ Present(r.field, r.marked) = {}
       ELSE /\ a.max < Largest(r.type, r.nbits)
            /\ \A v \in Present(r.field, r.marked) : PackedTo(r.type, r.nbits, v) = v

\* A field with missing points that is written and read back, by programs that mark them
\* with the same value or with one the record does not hold, has its missing points where
\* they were and every other value unchanged, from its second point on: the first is left
\* as it was packed.
MissingComeBack ==
    LET r == mv.by
    IN mv.at = "read" /\ mv.decoded /\ HasRoom(r) /\ (\A i \in 1 .. MvLength : r.stored[i] # mv.now)
          => \A i \in 2 .. MvLength :
                mv.got[i] = IF r.field[i] = r.marked THEN mv.now ELSE r.field[i]

\* "Replace all occurrences of the largest value in field/array by the missing data value."
LargestReplaced ==
    mv.at = "read" /\ mv.decoded
       => \A i \in 1 .. MvLength :
             mv.by.stored[i] = Anal(mv.by.stored, mv.now).max => mv.got[i] = mv.now
=============================================================================
