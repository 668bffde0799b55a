--------------------------- MODULE FstRecord_proofs ---------------------------
(***************************************************************************)
(* A field that is written comes back as it was, whatever type and bits it *)
(* was asked with (FieldsReadBack).                                        *)
(***************************************************************************)
EXTENDS FstRecord, WellFoundedInduction, TLAPS

-----------------------------------------------------------------------------
(* Numbers and folds.                                                      *)

\* A set of numbers has a least element.
LEMMA LeastNumber ==
    ASSUME NEW S \in SUBSET Nat, S # {}
    PROVE  \E m \in S : \A k \in S : m <= k
<1>1. PICK R : R = OpToRel(<, Nat)
  OBVIOUS
<1>2. PICK x \in S : \A y \in S : ~(<<y, x>> \in R)
  BY <1>1, WFMin, NatLessThanWellFounded
<1>3. \A y \in S : <<y, x>> \in R <=> y < x
  BY <1>1, SMT DEF OpToRel
<1>4. \A y \in S : ~(y < x)
  BY <1>2, <1>3
<1>5. x \in Nat /\ \A y \in S : y \in Nat
  OBVIOUS
<1>6. QED
  BY <1>4, <1>5

\* Induction, on the set of the numbers for which something holds.
LEMMA AllNumbers ==
    ASSUME NEW S \in SUBSET Nat, 0 \in S, \A n \in S : n + 1 \in S
    PROVE  \A n \in Nat : n \in S
<1>1. ASSUME NEW m \in Nat \ S PROVE FALSE
  <2>1. PICK k \in Nat \ S : \A i \in Nat \ S : k <= i
    <3>1. Nat \ S \in SUBSET Nat /\ Nat \ S # {}
      BY <1>1
    <3>2. QED
      BY <3>1, LeastNumber
  <2>2. k - 1 \in Nat /\ k - 1 \in S
    BY <2>1
  <2>3. (k - 1) + 1 = k
    BY <2>1
  <2>4. QED
    BY <2>1, <2>2, <2>3
<1>2. QED
  BY <1>1

\* The largest number of a set of numbers that holds n and nothing beyond.
LEMMA MaxIs ==
    ASSUME NEW n \in Nat, NEW s \in SUBSET Nat, n \in s, \A i \in s : i <= n
    PROVE  Max(s) = n
<1>1. \A x \in s : (\A y \in s : x >= y) => x = n
  OBVIOUS
<1>2. \A y \in s : n >= y
  OBVIOUS
<1> QED
  BY <1>1, <1>2 DEF Max

\* A set of numbers up to n has a largest.
LEMMA MaxOf ==
    ASSUME NEW n \in Nat, NEW s \in SUBSET (1 .. n), s # {}
    PROVE  Max(s) \in s
<1> DEFINE S == {n - i : i \in s}
<1>1. S \in SUBSET Nat /\ S # {}
  <2>1. \A i \in s : n - i \in Nat
    OBVIOUS
  <2> QED
    BY <2>1
<1>2. PICK m \in S : \A k \in S : m <= k
  <2> HIDE DEF S
  <2> QED
    BY <1>1, LeastNumber
<1>3. PICK x \in s : m = n - x
  OBVIOUS
<1>4. \A y \in s : n - x <= n - y
  BY <1>2, <1>3
<1>5. \A y \in s : x >= y
  BY <1>4
<1> QED
  BY <1>5 DEF Max

\* A fold over sets of numbers, by their largest, as MapThenFoldSet does it: h says what
\* the number i makes of a value.
IsFold(g, n, base, h) ==
    \A s \in SUBSET (1 .. n) : g[s] = IF s = {} THEN base ELSE h[<<Max(s), g[s \ {Max(s)}]>>]

LEMMA FoldExists ==
    ASSUME NEW N \in Nat, NEW R, NEW base \in R, NEW h \in [(1 .. N) \X R -> R]
    PROVE  \E g \in [SUBSET (1 .. N) -> R] : IsFold(g, N, base, h)
<1> DEFINE S == {n \in Nat : n <= N => \E g \in [SUBSET (1 .. n) -> R] : IsFold(g, n, base, h)}
<1>1. 0 \in S
  <2>1. SUBSET (1 .. 0) = {{}}
    OBVIOUS
  <2>2. PICK g : g = [s \in SUBSET (1 .. 0) |-> base]
    OBVIOUS
  <2>3. g \in [SUBSET (1 .. 0) -> R] /\ g[{}] = base
    BY <2>1, <2>2
  <2>4. IsFold(g, 0, base, h)
    BY <2>1, <2>3 DEF IsFold
  <2> QED
    BY <2>3, <2>4
<1>2. ASSUME NEW n \in S PROVE n + 1 \in S
  <2>1. n \in Nat /\ n + 1 \in Nat
    OBVIOUS
  <2>2. SUFFICES ASSUME n + 1 <= N
                 PROVE  \E g \in [SUBSET (1 .. n + 1) -> R] : IsFold(g, n + 1, base, h)
    BY <2>1
  <2>3. PICK f \in [SUBSET (1 .. n) -> R] : IsFold(f, n, base, h)
    <3>1. n <= N
      BY <2>1, <2>2
    <3> QED
      BY <3>1, Zenon
  <2>4. PICK g : g = [s \in SUBSET (1 .. n + 1) |->
                        IF n + 1 \in s THEN h[<<n + 1, f[s \ {n + 1}]>>] ELSE f[s]]
    OBVIOUS
  <2>5. \A s \in SUBSET (1 .. n + 1) : /\ n + 1 \notin s => s \in SUBSET (1 .. n)
                                       /\ s \ {n + 1} \in SUBSET (1 .. n)
    BY <2>1
  <2>6. \A s \in SUBSET (1 .. n + 1) : n + 1 \in s => <<n + 1, f[s \ {n + 1}]>> \in (1 .. N) \X R
    BY <2>1, <2>2, <2>5
  <2>7. g \in [SUBSET (1 .. n + 1) -> R]
    BY <2>4, <2>5, <2>6
  <2>8. ASSUME NEW s \in SUBSET (1 .. n) PROVE g[s] = f[s]
    <3>1. s \in SUBSET (1 .. n + 1) /\ n + 1 \notin s
      BY <2>1
    <3> QED
      BY <2>4, <3>1
  <2>9. ASSUME NEW s \in SUBSET (1 .. n + 1)
        PROVE  g[s] = IF s = {} THEN base ELSE h[<<Max(s), g[s \ {Max(s)}]>>]
    <3>1. CASE n + 1 \in s
      <4>1. Max(s) = n + 1
        BY <2>1, <3>1, MaxIs
      <4>2. g[s \ {n + 1}] = f[s \ {n + 1}]
        BY <2>5, <2>8
      <4>3. g[s] = h[<<n + 1, f[s \ {n + 1}]>>]
        BY <2>4, <3>1
      <4> QED
        BY <3>1, <4>1, <4>2, <4>3
    <3>2. CASE n + 1 \notin s /\ s # {}
      <4>1. s \in SUBSET (1 .. n) /\ s \ {Max(s)} \in SUBSET (1 .. n)
        BY <2>5, <3>2
      <4>2. g[s] = f[s] /\ g[s \ {Max(s)}] = f[s \ {Max(s)}]
        BY <2>8, <4>1
      <4>3. f[s] = h[<<Max(s), f[s \ {Max(s)}]>>]
        BY <2>3, <3>2, <4>1 DEF IsFold
      <4> QED
        BY <3>2, <4>2, <4>3
    <3>3. CASE s = {}
      <4>1. s \in SUBSET (1 .. n)
        BY <3>3
      <4>2. f[s] = base
        BY <2>3, <3>3, <4>1 DEF IsFold
      <4> QED
        BY <2>8, <3>3, <4>1, <4>2
    <3> QED
      BY <3>1, <3>2, <3>3
  <2> QED
    BY <2>7, <2>9 DEF IsFold
<1> HIDE DEF S
<1>3. S \in SUBSET Nat
  BY DEF S
<1>4. N \in S
  BY <1>1, <1>2, <1>3, AllNumbers
<1>5. N <= N
  OBVIOUS
<1> QED
  BY <1>4, <1>5, Zenon DEF S

-----------------------------------------------------------------------------
(* Types and bits.                                                         *)

\* The table of DATATYPE_REMAP makes a type of a type.
LEMMA RemappedType ==
    ASSUME NEW t \in Nat
    PROVE  Remapped(t) \in Nat
<1> DEFINE N == Len(RemapTable)
           h == [p \in (1 .. N) \X Nat |->
                   IF p[2] = RemapTable[p[1]][1] THEN RemapTable[p[1]][2] ELSE p[2]]
           Meets(g) == g = [s \in SUBSET DOMAIN RemapTable |->
                              IF s = {} THEN t
                              ELSE IF g[s \ {Max(s)}] = RemapTable[Max(s)][1]
                                   THEN RemapTable[Max(s)][2] ELSE g[s \ {Max(s)}]]
           it == CHOOSE g : Meets(g)
<1>1. N \in Nat /\ DOMAIN RemapTable = 1 .. N /\ \A i \in 1 .. N : RemapTable[i] \in Nat \X Nat
  BY FstRecordAssumption
<1>2. h \in [(1 .. N) \X Nat -> Nat]
  BY <1>1
<1>3. \A s \in SUBSET (1 .. N) : s # {} => Max(s) \in s /\ s \ {Max(s)} \in SUBSET (1 .. N)
  BY <1>1, MaxOf
<1>4. Remapped(t) = it[DOMAIN RemapTable]
  BY DEF Remapped, FoldLeft, MapThenFoldSet
<1>5. Meets(it)
  <2>1. PICK g \in [SUBSET (1 .. N) -> Nat] : IsFold(g, N, t, h)
    BY <1>1, <1>2, FoldExists
  <2>2. Meets(g)
    BY <1>1, <1>3, <2>1 DEF IsFold
  <2> HIDE DEF Meets
  <2> QED
    BY <2>2
<1> HIDE DEF it
<1>9. \A s \in SUBSET (1 .. N) : s # {} =>
          it[s] = IF it[s \ {Max(s)}] = RemapTable[Max(s)][1] THEN RemapTable[Max(s)][2]
                  ELSE it[s \ {Max(s)}]
  BY <1>1, <1>5
<1> DEFINE S == {n \in Nat : n <= N => it[1 .. n] \in Nat}
<1>6. 0 \in S
  <2>1. 1 .. 0 = {}
    OBVIOUS
  <2> QED
    BY <1>5, <2>1
<1>7. ASSUME NEW n \in S PROVE n + 1 \in S
  <2>1. SUFFICES ASSUME n + 1 <= N PROVE it[1 .. n + 1] \in Nat
    OBVIOUS
  <2>2. n \in Nat /\ n + 1 \in Nat /\ n + 1 \in 1 .. N /\ n <= N
    BY <1>1, <2>1
  <2>3. 1 .. n + 1 \in SUBSET (1 .. N)
    BY <1>1, <2>1, <2>2
  <2>4. 1 .. n + 1 # {} /\ (1 .. n + 1) \ {n + 1} = 1 .. n
    BY <2>2
  <2>5. Max(1 .. n + 1) = n + 1
    <3>1. 1 .. n + 1 \in SUBSET Nat /\ n + 1 \in 1 .. n + 1 /\ \A i \in 1 .. n + 1 : i <= n + 1
      BY <2>2
    <3> QED
      BY <2>2, <3>1, MaxIs
  <2>6. it[1 .. n] \in Nat
    BY <2>2
  <2>7. RemapTable[n + 1][2] \in Nat
    BY <1>1, <2>2
  <2>8. it[1 .. n + 1] = IF it[1 .. n] = RemapTable[n + 1][1] THEN RemapTable[n + 1][2]
                         ELSE it[1 .. n]
    <3>1. it[1 .. n + 1] = IF it[(1 .. n + 1) \ {n + 1}] = RemapTable[n + 1][1]
                           THEN RemapTable[n + 1][2] ELSE it[(1 .. n + 1) \ {n + 1}]
      BY <1>9, <2>3, <2>4, <2>5
    <3> QED
      BY <2>4, <3>1
  <2>9. CASE it[1 .. n] = RemapTable[n + 1][1]
    BY <2>7, <2>8, <2>9, Zenon
  <2>10. CASE it[1 .. n] # RemapTable[n + 1][1]
    BY <2>6, <2>8, <2>10, Zenon
  <2> QED
    BY <2>9, <2>10, Zenon
<1>8. N \in S
  <2>1. S \in SUBSET Nat
    OBVIOUS
  <2> HIDE DEF S, N
  <2> QED
    BY <1>1, <1>6, <1>7, <2>1, AllNumbers
<1> QED
  BY <1>1, <1>4, <1>8

\* The smaller and the larger of two numbers.
LEMMA MinTwo ==
    ASSUME NEW a \in Int, NEW b \in Int
    PROVE  Min({a, b}) = IF a <= b THEN a ELSE b
BY DEF Min

LEMMA MaxTwo ==
    ASSUME NEW a \in Int, NEW b \in Int
    PROVE  Max({a, b}) = IF a >= b THEN a ELSE b
BY DEF Max

FLens   == {1, 2, 4, 8}
FTypes  == (0 .. 8) \cup (128 .. 136)
FTyped  == [datyp : Int, nbits : Int]
Packers == {"raw", "float", "tokens", "shorts", "R4A", "signed", "ieee", "ieee32", "f16", "chars",
            "lost"}
FData   == [pack : Packers, at : Int, bits : Int]
FPacked == [datyp : Int, nbits : Int, data : FData]
FWrote  == [val : FVals, q : FRequests, l : FLens, small : BOOLEAN, as : FTyped,
            plugged : BOOLEAN, swamped : BOOLEAN]
FRec    == [key : FKeys, datyp : Int, nbits : Int, data : FData, wrote : FWrote]

\* The bits that go with the type a field is packed as: a second stage has 16 at most, but
\* for 32-bit reals, and so has the packer of type 6.
BitsOK(t, n) == /\ n \in 1 .. NBITS_MAX
                /\ (t >= 128 /\ t # 133) \/ t = 6 => n <= 16

\* The flag of missing values and the rest of a type.
LEMMA FlagIs ==
    ASSUME NEW t \in FTypes, NEW f \in {0, 64}
    PROVE  /\ Has64(t + f) <=> f = 64
           /\ Without64(t + f) = t
           /\ NumberKind(t + f) = NumberKind(t)
<1>1. t \in Int /\ (t + f) % 16 = t % 16
  BY DEF FTypes
<1>2. Has64(t + f) <=> f = 64
  BY DEF FTypes, Has64
<1>3. Without64(t + f) = t
  BY <1>1, <1>2 DEF Without64
<1> QED
  BY <1>1, <1>2, <1>3 DEF NumberKind

LEMMA InTypeIs ==
    ASSUME NEW d \in Nat
    PROVE  /\ InType(d) \in Nat
           /\ InType(d) % 16 = d % 16
<1>1. Without64(d) \in Nat /\ Without64(d) % 16 = d % 16
  BY DEF Without64, Has64
<1> QED
  BY <1>1 DEF InType

\* What c_fstecr makes of the type and the bits asked for.
LEMMA StoredIs ==
    ASSUME NEW d \in Nat, NEW npak \in Int, ~image_mode_copy,
           FieldBits(npak) \in 1 .. NBITS_MAX, CanPack(StoredType(d, npak).datyp)
    PROVE  /\ StoredType(d, npak) \in FTyped
           /\ StoredType(d, npak).datyp \in FTypes
           /\ BitsOK(StoredType(d, npak).datyp, StoredType(d, npak).nbits)
<1> DEFINE t == InType(d)
           n == FieldBits(npak)
           toIEEE == t = 1 /\ n \in {31, 32} /\ ~image_mode_copy
           first == IF toIEEE \/ (d = 133 /\ n > 32) THEN 5 ELSE IF t = 801 THEN 1 ELSE t
           asked == IF npak \in {0, 1} THEN 0 ELSE first
           mapped == IF image_mode_copy THEN asked ELSE Remapped(asked)
           nbits == IF toIEEE THEN 32 ELSE n
           single == IF nbits > 16 /\ mapped # 133 THEN mapped % 128 ELSE mapped
           s == StoredType(d, npak)
<1>1. t \in Nat /\ first \in Nat /\ asked \in Nat
  BY InTypeIs
<1>2. mapped \in Nat
  BY <1>1, RemappedType
<1>3. nbits \in 1 .. NBITS_MAX
  BY DEF NBITS_MAX
<1> HIDE DEF nbits, mapped
<1>4. single \in Nat /\ (nbits > 16 /\ single # 133 => single < 128)
  BY <1>2, <1>3 DEF NBITS_MAX
<1>5. s = CASE single = 6 /\ nbits > 24        -> [datyp |-> 5, nbits |-> 32]
            [] single = 6 /\ nbits \in 17 .. 24 -> [datyp |-> 1, nbits |-> nbits]
            [] OTHER                           -> [datyp |-> single, nbits |-> nbits]
  BY DEF StoredType, nbits, mapped
<1> HIDE DEF single, s
<1>6. /\ s \in FTyped
      /\ BitsOK(s.datyp, s.nbits)
  <2>1. CASE single = 6 /\ nbits > 24
    <3>1. s = [datyp |-> 5, nbits |-> 32]
      BY <1>5, <2>1
    <3> QED
      BY <3>1 DEF FTyped, BitsOK, NBITS_MAX
  <2>2. CASE single = 6 /\ nbits \in 17 .. 24
    <3>1. s = [datyp |-> 1, nbits |-> nbits]
      BY <1>5, <2>2
    <3> QED
      BY <1>3, <3>1 DEF FTyped, BitsOK, NBITS_MAX
  <2>3. CASE ~(single = 6 /\ nbits > 24) /\ ~(single = 6 /\ nbits \in 17 .. 24)
    <3>1. s = [datyp |-> single, nbits |-> nbits]
      BY <1>5, <2>3
    <3> QED
      BY <1>3, <1>4, <2>3, <3>1 DEF FTyped, BitsOK, NBITS_MAX
  <2> QED
    BY <2>1, <2>2, <2>3
<1>7. s.datyp \in FTypes
  BY DEF CanPack, FTypes, s
<1> QED
  BY <1>6, <1>7 DEF s

\* A record copied in image mode keeps its type and its bits.
LEMMA CopyStays ==
    ASSUME NEW t \in FTypes \ {136}, NEW f \in {0, 64}, NEW n \in Int, BitsOK(t, n),
           t = 133 /\ f = 0 => n <= 32, image_mode_copy
    PROVE  StoredType(t + f, -n) = [datyp |-> t, nbits |-> n]
<1>0. t \in FTypes
  OBVIOUS
<1>1. Without64(t + f) = t
  BY <1>0, FlagIs DEF FTypes
<1>2. InType(t + f) = t
  BY <1>1 DEF InType, FTypes
<1>3. n \in 1 .. 64 /\ FieldBits(-n) = n /\ -n \notin {0, 1}
  BY DEF BitsOK, NBITS_MAX, FieldBits
<1>4. ~(t + f = 133 /\ n > 32) /\ t # 801
  BY <1>3 DEF FTypes
<1>5. n > 16 /\ t # 133 => t % 128 = t
  BY <1>3 DEF FTypes, BitsOK
<1>6. ~(t = 6 /\ n > 16)
  BY <1>3 DEF BitsOK
<1> QED
  BY <1>2, <1>3, <1>4, <1>5, <1>6 DEF StoredType, FTypes

\* What the packers make of each type.
PackedAs(s, l, f, small, p) ==
    LET n == s.nbits
        m == IF l \in {1, 2} /\ 8 * l < n THEN 8 * l ELSE n
    IN
    /\ s.datyp = 0 => p = Rec(0 + f, n, Data("raw", 0, n))
    /\ s.datyp = 128 => p = Rec(0, n, Data("raw", 0, n))
    /\ s.datyp = 1 => p = Rec(1 + f, n, Data("float", 0, n))
    /\ s.datyp = 129 /\ small => p = Rec(129 + f, n, Data("float", 1, n))
    /\ s.datyp = 129 /\ ~small => p = Rec(1, n, Data("float", 0, n))
    /\ s.datyp = 2 => p = Rec(2 + f, m, Data("tokens", 0, m))
    /\ s.datyp = 130 /\ small => p = Rec(130 + f, m, Data("shorts", 1, m))
    /\ s.datyp = 130 /\ ~small => p = Rec(2, m, IF l = 4 THEN Data("tokens", 1, m) ELSE Lost)
    /\ s.datyp = 3 => p = Rec(3 + f, 8, Data("R4A", 0, 32))
    /\ s.datyp = 131 => p = Rec(3, 8, Data("R4A", 0, 32))
    /\ s.datyp = 4 => p = Rec(4 + f, n, Data("signed", 0, n))
    /\ s.datyp = 132 => p = Rec(4 + f, n, Data("signed", 0, n))
    /\ s.datyp = 5 => p = Rec(5 + f, n, IF (l = 8) # (n = 64) THEN Lost ELSE Data("ieee", 0, n))
    /\ s.datyp = 133 /\ small => p = Rec(133 + f, n, IF (l = 8) # (n = 64) THEN Lost ELSE Data("ieee32", 1, n))
    /\ s.datyp = 133 /\ ~small => p = Rec(5, n, IF (l = 8) # (n = 64) THEN Lost ELSE Data("ieee", 0, n))
    /\ s.datyp = 8 => p = Rec(8 + f, n, IF (l = 8) # (n = 64) THEN Lost ELSE Data("ieee", 0, n))
    /\ s.datyp = 136 => p = Rec(8, n, IF (l = 8) # (n = 64) THEN Lost ELSE Data("ieee", 0, n))
    /\ s.datyp = 6 => p = Rec(6 + f, n, IF l = 8 THEN Lost ELSE Data("f16", 0, n))
    /\ s.datyp = 134 /\ small => p = Rec(134 + f, n, IF l = 8 THEN Lost ELSE Data("f16", 1, n))
    /\ s.datyp = 134 /\ ~small => p = Rec(6, n, IF l = 8 THEN Lost ELSE Data("f16", 0, n))
    /\ s.datyp = 7 => p = Rec(7 + f, n, Data("chars", 0, 8))
    /\ s.datyp = 135 => p = Rec(7, n, Data("chars", 0, 8))

LEMMA PackedIs ==
    ASSUME NEW s \in FTyped, s.datyp \in FTypes, s.nbits \in 1 .. NBITS_MAX, NEW l \in FLens,
           NEW f \in {0, 64}, NEW small \in BOOLEAN, NEW p, p = FieldPacked(s, l, f, small)
    PROVE  PackedAs(s, l, f, small, p)
<1> DEFINE n == s.nbits
           m == IF l \in {1, 2} /\ 8 * l < n THEN 8 * l ELSE n
<1>1. s.datyp \in Int /\ n \in Int /\ l \in Int
  BY DEF FTyped, FLens
<1>2. Min({n, IF l \in {1, 2} THEN 8 * l ELSE n}) = m
  BY <1>1, MinTwo
<1> HIDE DEF m
<1>3. CASE s.datyp \in {1, 129}
  <2>1. p = PackFloat(s, l, f, small)
    BY <1>3 DEF FieldPacked
  <2> QED
    BY <1>3, <2>1 DEF PackFloat, PackedAs
<1>4. CASE s.datyp \in {2, 130}
  <2>1. p = PackUnsigned(s, l, f, small)
    BY <1>4 DEF FieldPacked
  <2>2. p = Rec(IF s.datyp = 130 /\ ~small THEN 2 ELSE s.datyp + f, m,
                IF s.datyp = 2 THEN Data("tokens", 0, m)
                ELSE IF small THEN Data("shorts", 1, m)
                ELSE IF l = 4 THEN Data("tokens", 1, m) ELSE Lost)
    BY <1>2, <2>1, Zenon DEF PackUnsigned
  <2> QED
    BY <1>4, <2>2 DEF m, PackedAs
<1>5. CASE s.datyp \in {5, 133, 8, 136}
  <2>1. p = PackIEEE(s, l, f, small)
    BY <1>5 DEF FieldPacked
  <2> QED
    BY <1>5, <2>1 DEF PackIEEE, PackedAs
<1>6. CASE s.datyp \in {6, 134}
  <2>1. p = PackF16(s, l, f, small)
    BY <1>6 DEF FieldPacked
  <2> QED
    BY <1>6, <2>1 DEF PackF16, PackedAs
<1>7. CASE s.datyp \in {0, 128, 3, 131, 4, 132, 7, 135}
  <2>1. p = PackOther(s, l, f, small)
    BY <1>7 DEF FieldPacked
  <2> QED
    BY <1>7, <2>1 DEF PackOther, PackedAs
<1> QED
  BY <1>3, <1>4, <1>5, <1>6, <1>7 DEF FTypes

\* What is packed is a type the reader knows, with bits a copy keeps.
PackedOK(p, s, f) ==
    /\ p \in FPacked
    /\ \E t \in FTypes \ {136}, g \in {0, f} :
          /\ p.datyp = t + g /\ BitsOK(t, p.nbits)
          /\ t % 128 = s.datyp % 128 /\ (t >= 128 => t = s.datyp)
          /\ t \in {7, 133} => p.nbits = s.nbits

RecFits(s, t, g, k, d, f) ==
    /\ t \in FTypes \ {136} /\ f \in {0, 64} /\ g \in {0, f} /\ d \in FData /\ BitsOK(t, k)
    /\ t % 128 = s.datyp % 128 /\ (t >= 128 => t = s.datyp)
    /\ t \in {7, 133} => k = s.nbits

LEMMA RecTyped ==
    ASSUME NEW s, NEW t, NEW g, NEW k, NEW d, NEW f, NEW p,
           RecFits(s, t, g, k, d, f), p = Rec(t + g, k, d)
    PROVE  PackedOK(p, s, f)
<1>1. p = [datyp |-> t + g, nbits |-> k, data |-> d]
  BY DEF Rec
<1>2. t + g \in Int /\ k \in Int
  BY DEF FTypes, BitsOK, RecFits
<1>3. p \in FPacked
  BY <1>1, <1>2 DEF FPacked, RecFits
<1>4. p.datyp = t + g /\ p.nbits = k
  BY <1>1
<1> DEFINE Fits(u, v) == /\ p.datyp = u + v /\ BitsOK(u, p.nbits)
                         /\ u % 128 = s.datyp % 128 /\ (u >= 128 => u = s.datyp)
                         /\ u \in {7, 133} => p.nbits = s.nbits
<1>5. \E u \in FTypes \ {136}, v \in {0, f} : Fits(u, v)
  <2>1. Fits(t, g) /\ t \in FTypes \ {136} /\ g \in {0, f}
    BY <1>4 DEF RecFits
  <2> HIDE DEF Fits
  <2> QED
    BY <2>1
<1> QED
  BY <1>3, <1>5 DEF PackedOK

LEMMA PackedTyped ==
    ASSUME NEW s \in FTyped, s.datyp \in FTypes, BitsOK(s.datyp, s.nbits), NEW l \in FLens,
           NEW f \in {0, 64}, NEW small \in BOOLEAN, NEW p, p = FieldPacked(s, l, f, small)
    PROVE  PackedOK(p, s, f)
<1> DEFINE n == s.nbits
           m == IF l \in {1, 2} /\ 8 * l < n THEN 8 * l ELSE n
<1>2. n \in 1 .. NBITS_MAX /\ m \in 1 .. NBITS_MAX /\ m <= n
  BY DEF BitsOK, NBITS_MAX, FLens
<1>3. PackedAs(s, l, f, small, p)
  BY <1>2, PackedIs
<1>4. \A pack \in Packers, at, bits \in Int : Data(pack, at, bits) \in FData
  BY DEF Data, FData
<1>5. Lost \in FData
  BY <1>4 DEF Lost, Packers
<1>6. n \in Int /\ m \in Int
  BY <1>2 DEF NBITS_MAX
<1> HIDE DEF m
<1>7. CASE s.datyp = 0
  <2>1. p = Rec(0 + f, n, Data("raw", 0, n))
    BY <1>3, <1>7 DEF PackedAs, m
  <2>2. Data("raw", 0, n) \in FData
    BY <1>4, <1>5, <1>6 DEF Packers
  <2>3. 0 \in FTypes \ {136} /\ BitsOK(0, n)
    BY <1>2, <1>7 DEF FTypes, BitsOK, NBITS_MAX
  <2>4. 0 % 128 = s.datyp % 128
    BY <1>7
  <2>5. (0 >= 128 => 0 = s.datyp) /\ (0 \in {7, 133} => n = s.nbits)
    BY <1>7
  <2>6. RecFits(s, 0, f, n, Data("raw", 0, n), f)
    BY <2>2, <2>3, <2>4, <2>5 DEF RecFits
  <2> QED
    BY <2>1, <2>6, RecTyped
<1>8. CASE s.datyp = 128
  <2>1. p = Rec(0 + 0, n, Data("raw", 0, n))
    BY <1>3, <1>8 DEF PackedAs, m
  <2>2. Data("raw", 0, n) \in FData
    BY <1>4, <1>5, <1>6 DEF Packers
  <2>3. 0 \in FTypes \ {136} /\ BitsOK(0, n)
    BY <1>2, <1>8 DEF FTypes, BitsOK, NBITS_MAX
  <2>4. 0 % 128 = s.datyp % 128
    BY <1>8
  <2>5. (0 >= 128 => 0 = s.datyp) /\ (0 \in {7, 133} => n = s.nbits)
    BY <1>8
  <2>6. RecFits(s, 0, 0, n, Data("raw", 0, n), f)
    BY <2>2, <2>3, <2>4, <2>5 DEF RecFits
  <2> QED
    BY <2>1, <2>6, RecTyped
<1>9. CASE s.datyp = 1
  <2>1. p = Rec(1 + f, n, Data("float", 0, n))
    BY <1>3, <1>9 DEF PackedAs, m
  <2>2. Data("float", 0, n) \in FData
    BY <1>4, <1>5, <1>6 DEF Packers
  <2>3. 1 \in FTypes \ {136} /\ BitsOK(1, n)
    BY <1>2, <1>9 DEF FTypes, BitsOK, NBITS_MAX
  <2>4. 1 % 128 = s.datyp % 128
    BY <1>9
  <2>5. (1 >= 128 => 1 = s.datyp) /\ (1 \in {7, 133} => n = s.nbits)
    BY <1>9
  <2>6. RecFits(s, 1, f, n, Data("float", 0, n), f)
    BY <2>2, <2>3, <2>4, <2>5 DEF RecFits
  <2> QED
    BY <2>1, <2>6, RecTyped
<1>10. CASE s.datyp = 129 /\ small
  <2>1. p = Rec(129 + f, n, Data("float", 1, n))
    BY <1>3, <1>10 DEF PackedAs, m
  <2>2. Data("float", 1, n) \in FData
    BY <1>4, <1>5, <1>6 DEF Packers
  <2>3. 129 \in FTypes \ {136} /\ BitsOK(129, n)
    BY <1>2, <1>10 DEF FTypes, BitsOK, NBITS_MAX
  <2>4. 129 % 128 = s.datyp % 128
    BY <1>10
  <2>5. (129 >= 128 => 129 = s.datyp) /\ (129 \in {7, 133} => n = s.nbits)
    BY <1>10
  <2>6. RecFits(s, 129, f, n, Data("float", 1, n), f)
    BY <2>2, <2>3, <2>4, <2>5 DEF RecFits
  <2> QED
    BY <2>1, <2>6, RecTyped
<1>11. CASE s.datyp = 129 /\ ~small
  <2>1. p = Rec(1 + 0, n, Data("float", 0, n))
    BY <1>3, <1>11 DEF PackedAs, m
  <2>2. Data("float", 0, n) \in FData
    BY <1>4, <1>5, <1>6 DEF Packers
  <2>3. 1 \in FTypes \ {136} /\ BitsOK(1, n)
    BY <1>2, <1>11 DEF FTypes, BitsOK, NBITS_MAX
  <2>4. 1 % 128 = s.datyp % 128
    BY <1>11
  <2>5. (1 >= 128 => 1 = s.datyp) /\ (1 \in {7, 133} => n = s.nbits)
    BY <1>11
  <2>6. RecFits(s, 1, 0, n, Data("float", 0, n), f)
    BY <2>2, <2>3, <2>4, <2>5 DEF RecFits
  <2> QED
    BY <2>1, <2>6, RecTyped
<1>12. CASE s.datyp = 2
  <2>1. p = Rec(2 + f, m, Data("tokens", 0, m))
    BY <1>3, <1>12 DEF PackedAs, m
  <2>2. Data("tokens", 0, m) \in FData
    BY <1>4, <1>5, <1>6 DEF Packers
  <2>3. 2 \in FTypes \ {136} /\ BitsOK(2, m)
    BY <1>2, <1>12 DEF FTypes, BitsOK, NBITS_MAX
  <2>4. 2 % 128 = s.datyp % 128
    BY <1>12
  <2>5. (2 >= 128 => 2 = s.datyp) /\ (2 \in {7, 133} => m = s.nbits)
    BY <1>12
  <2>6. RecFits(s, 2, f, m, Data("tokens", 0, m), f)
    BY <2>2, <2>3, <2>4, <2>5 DEF RecFits
  <2> QED
    BY <2>1, <2>6, RecTyped
<1>13. CASE s.datyp = 130 /\ small
  <2>1. p = Rec(130 + f, m, Data("shorts", 1, m))
    BY <1>3, <1>13 DEF PackedAs, m
  <2>2. Data("shorts", 1, m) \in FData
    BY <1>4, <1>5, <1>6 DEF Packers
  <2>3. 130 \in FTypes \ {136} /\ BitsOK(130, m)
    BY <1>2, <1>13 DEF FTypes, BitsOK, NBITS_MAX
  <2>4. 130 % 128 = s.datyp % 128
    BY <1>13
  <2>5. (130 >= 128 => 130 = s.datyp) /\ (130 \in {7, 133} => m = s.nbits)
    BY <1>13
  <2>6. RecFits(s, 130, f, m, Data("shorts", 1, m), f)
    BY <2>2, <2>3, <2>4, <2>5 DEF RecFits
  <2> QED
    BY <2>1, <2>6, RecTyped
<1>14. CASE s.datyp = 130 /\ ~small
  <2>1. p = Rec(2 + 0, m, IF l = 4 THEN Data("tokens", 1, m) ELSE Lost)
    BY <1>3, <1>14 DEF PackedAs, m
  <2>2. (IF l = 4 THEN Data("tokens", 1, m) ELSE Lost) \in FData
    BY <1>4, <1>5, <1>6 DEF Packers
  <2>3. 2 \in FTypes \ {136} /\ BitsOK(2, m)
    BY <1>2, <1>14 DEF FTypes, BitsOK, NBITS_MAX
  <2>4. 2 % 128 = s.datyp % 128
    BY <1>14
  <2>5. (2 >= 128 => 2 = s.datyp) /\ (2 \in {7, 133} => m = s.nbits)
    BY <1>14
  <2>6. RecFits(s, 2, 0, m, IF l = 4 THEN Data("tokens", 1, m) ELSE Lost, f)
    BY <2>2, <2>3, <2>4, <2>5 DEF RecFits
  <2> QED
    BY <2>1, <2>6, RecTyped
<1>15. CASE s.datyp = 3
  <2>1. p = Rec(3 + f, 8, Data("R4A", 0, 32))
    BY <1>3, <1>15 DEF PackedAs, m
  <2>2. Data("R4A", 0, 32) \in FData
    BY <1>4, <1>5, <1>6 DEF Packers
  <2>3. 3 \in FTypes \ {136} /\ BitsOK(3, 8)
    BY <1>2, <1>15 DEF FTypes, BitsOK, NBITS_MAX
  <2>4. 3 % 128 = s.datyp % 128
    BY <1>15
  <2>5. (3 >= 128 => 3 = s.datyp) /\ (3 \in {7, 133} => 8 = s.nbits)
    BY <1>15
  <2>6. RecFits(s, 3, f, 8, Data("R4A", 0, 32), f)
    BY <2>2, <2>3, <2>4, <2>5 DEF RecFits
  <2> QED
    BY <2>1, <2>6, RecTyped
<1>16. CASE s.datyp = 131
  <2>1. p = Rec(3 + 0, 8, Data("R4A", 0, 32))
    BY <1>3, <1>16 DEF PackedAs, m
  <2>2. Data("R4A", 0, 32) \in FData
    BY <1>4, <1>5, <1>6 DEF Packers
  <2>3. 3 \in FTypes \ {136} /\ BitsOK(3, 8)
    BY <1>2, <1>16 DEF FTypes, BitsOK, NBITS_MAX
  <2>4. 3 % 128 = s.datyp % 128
    BY <1>16
  <2>5. (3 >= 128 => 3 = s.datyp) /\ (3 \in {7, 133} => 8 = s.nbits)
    BY <1>16
  <2>6. RecFits(s, 3, 0, 8, Data("R4A", 0, 32), f)
    BY <2>2, <2>3, <2>4, <2>5 DEF RecFits
  <2> QED
    BY <2>1, <2>6, RecTyped
<1>17. CASE s.datyp = 4
  <2>1. p = Rec(4 + f, n, Data("signed", 0, n))
    BY <1>3, <1>17 DEF PackedAs, m
  <2>2. Data("signed", 0, n) \in FData
    BY <1>4, <1>5, <1>6 DEF Packers
  <2>3. 4 \in FTypes \ {136} /\ BitsOK(4, n)
    BY <1>2, <1>17 DEF FTypes, BitsOK, NBITS_MAX
  <2>4. 4 % 128 = s.datyp % 128
    BY <1>17
  <2>5. (4 >= 128 => 4 = s.datyp) /\ (4 \in {7, 133} => n = s.nbits)
    BY <1>17
  <2>6. RecFits(s, 4, f, n, Data("signed", 0, n), f)
    BY <2>2, <2>3, <2>4, <2>5 DEF RecFits
  <2> QED
    BY <2>1, <2>6, RecTyped
<1>18. CASE s.datyp = 132
  <2>1. p = Rec(4 + f, n, Data("signed", 0, n))
    BY <1>3, <1>18 DEF PackedAs, m
  <2>2. Data("signed", 0, n) \in FData
    BY <1>4, <1>5, <1>6 DEF Packers
  <2>3. 4 \in FTypes \ {136} /\ BitsOK(4, n)
    BY <1>2, <1>18 DEF FTypes, BitsOK, NBITS_MAX
  <2>4. 4 % 128 = s.datyp % 128
    BY <1>18
  <2>5. (4 >= 128 => 4 = s.datyp) /\ (4 \in {7, 133} => n = s.nbits)
    BY <1>18
  <2>6. RecFits(s, 4, f, n, Data("signed", 0, n), f)
    BY <2>2, <2>3, <2>4, <2>5 DEF RecFits
  <2> QED
    BY <2>1, <2>6, RecTyped
<1>19. CASE s.datyp = 5
  <2>1. p = Rec(5 + f, n, IF (l = 8) # (n = 64) THEN Lost ELSE Data("ieee", 0, n))
    BY <1>3, <1>19 DEF PackedAs, m
  <2>2. (IF (l = 8) # (n = 64) THEN Lost ELSE Data("ieee", 0, n)) \in FData
    BY <1>4, <1>5, <1>6 DEF Packers
  <2>3. 5 \in FTypes \ {136} /\ BitsOK(5, n)
    BY <1>2, <1>19 DEF FTypes, BitsOK, NBITS_MAX
  <2>4. 5 % 128 = s.datyp % 128
    BY <1>19
  <2>5. (5 >= 128 => 5 = s.datyp) /\ (5 \in {7, 133} => n = s.nbits)
    BY <1>19
  <2>6. RecFits(s, 5, f, n, IF (l = 8) # (n = 64) THEN Lost ELSE Data("ieee", 0, n), f)
    BY <2>2, <2>3, <2>4, <2>5 DEF RecFits
  <2> QED
    BY <2>1, <2>6, RecTyped
<1>20. CASE s.datyp = 133 /\ small
  <2>1. p = Rec(133 + f, n, IF (l = 8) # (n = 64) THEN Lost ELSE Data("ieee32", 1, n))
    BY <1>3, <1>20 DEF PackedAs, m
  <2>2. (IF (l = 8) # (n = 64) THEN Lost ELSE Data("ieee32", 1, n)) \in FData
    BY <1>4, <1>5, <1>6 DEF Packers
  <2>3. 133 \in FTypes \ {136} /\ BitsOK(133, n)
    BY <1>2, <1>20 DEF FTypes, BitsOK, NBITS_MAX
  <2>4. 133 % 128 = s.datyp % 128
    BY <1>20
  <2>5. (133 >= 128 => 133 = s.datyp) /\ (133 \in {7, 133} => n = s.nbits)
    BY <1>20
  <2>6. RecFits(s, 133, f, n, IF (l = 8) # (n = 64) THEN Lost ELSE Data("ieee32", 1, n), f)
    BY <2>2, <2>3, <2>4, <2>5 DEF RecFits
  <2> QED
    BY <2>1, <2>6, RecTyped
<1>21. CASE s.datyp = 133 /\ ~small
  <2>1. p = Rec(5 + 0, n, IF (l = 8) # (n = 64) THEN Lost ELSE Data("ieee", 0, n))
    BY <1>3, <1>21 DEF PackedAs, m
  <2>2. (IF (l = 8) # (n = 64) THEN Lost ELSE Data("ieee", 0, n)) \in FData
    BY <1>4, <1>5, <1>6 DEF Packers
  <2>3. 5 \in FTypes \ {136} /\ BitsOK(5, n)
    BY <1>2, <1>21 DEF FTypes, BitsOK, NBITS_MAX
  <2>4. 5 % 128 = s.datyp % 128
    BY <1>21
  <2>5. (5 >= 128 => 5 = s.datyp) /\ (5 \in {7, 133} => n = s.nbits)
    BY <1>21
  <2>6. RecFits(s, 5, 0, n, IF (l = 8) # (n = 64) THEN Lost ELSE Data("ieee", 0, n), f)
    BY <2>2, <2>3, <2>4, <2>5 DEF RecFits
  <2> QED
    BY <2>1, <2>6, RecTyped
<1>22. CASE s.datyp = 8
  <2>1. p = Rec(8 + f, n, IF (l = 8) # (n = 64) THEN Lost ELSE Data("ieee", 0, n))
    BY <1>3, <1>22 DEF PackedAs, m
  <2>2. (IF (l = 8) # (n = 64) THEN Lost ELSE Data("ieee", 0, n)) \in FData
    BY <1>4, <1>5, <1>6 DEF Packers
  <2>3. 8 \in FTypes \ {136} /\ BitsOK(8, n)
    BY <1>2, <1>22 DEF FTypes, BitsOK, NBITS_MAX
  <2>4. 8 % 128 = s.datyp % 128
    BY <1>22
  <2>5. (8 >= 128 => 8 = s.datyp) /\ (8 \in {7, 133} => n = s.nbits)
    BY <1>22
  <2>6. RecFits(s, 8, f, n, IF (l = 8) # (n = 64) THEN Lost ELSE Data("ieee", 0, n), f)
    BY <2>2, <2>3, <2>4, <2>5 DEF RecFits
  <2> QED
    BY <2>1, <2>6, RecTyped
<1>23. CASE s.datyp = 136
  <2>1. p = Rec(8 + 0, n, IF (l = 8) # (n = 64) THEN Lost ELSE Data("ieee", 0, n))
    BY <1>3, <1>23 DEF PackedAs, m
  <2>2. (IF (l = 8) # (n = 64) THEN Lost ELSE Data("ieee", 0, n)) \in FData
    BY <1>4, <1>5, <1>6 DEF Packers
  <2>3. 8 \in FTypes \ {136} /\ BitsOK(8, n)
    BY <1>2, <1>23 DEF FTypes, BitsOK, NBITS_MAX
  <2>4. 8 % 128 = s.datyp % 128
    BY <1>23
  <2>5. (8 >= 128 => 8 = s.datyp) /\ (8 \in {7, 133} => n = s.nbits)
    BY <1>23
  <2>6. RecFits(s, 8, 0, n, IF (l = 8) # (n = 64) THEN Lost ELSE Data("ieee", 0, n), f)
    BY <2>2, <2>3, <2>4, <2>5 DEF RecFits
  <2> QED
    BY <2>1, <2>6, RecTyped
<1>24. CASE s.datyp = 6
  <2>1. p = Rec(6 + f, n, IF l = 8 THEN Lost ELSE Data("f16", 0, n))
    BY <1>3, <1>24 DEF PackedAs, m
  <2>2. (IF l = 8 THEN Lost ELSE Data("f16", 0, n)) \in FData
    BY <1>4, <1>5, <1>6 DEF Packers
  <2>3. 6 \in FTypes \ {136} /\ BitsOK(6, n)
    BY <1>2, <1>24 DEF FTypes, BitsOK, NBITS_MAX
  <2>4. 6 % 128 = s.datyp % 128
    BY <1>24
  <2>5. (6 >= 128 => 6 = s.datyp) /\ (6 \in {7, 133} => n = s.nbits)
    BY <1>24
  <2>6. RecFits(s, 6, f, n, IF l = 8 THEN Lost ELSE Data("f16", 0, n), f)
    BY <2>2, <2>3, <2>4, <2>5 DEF RecFits
  <2> QED
    BY <2>1, <2>6, RecTyped
<1>25. CASE s.datyp = 134 /\ small
  <2>1. p = Rec(134 + f, n, IF l = 8 THEN Lost ELSE Data("f16", 1, n))
    BY <1>3, <1>25 DEF PackedAs, m
  <2>2. (IF l = 8 THEN Lost ELSE Data("f16", 1, n)) \in FData
    BY <1>4, <1>5, <1>6 DEF Packers
  <2>3. 134 \in FTypes \ {136} /\ BitsOK(134, n)
    BY <1>2, <1>25 DEF FTypes, BitsOK, NBITS_MAX
  <2>4. 134 % 128 = s.datyp % 128
    BY <1>25
  <2>5. (134 >= 128 => 134 = s.datyp) /\ (134 \in {7, 133} => n = s.nbits)
    BY <1>25
  <2>6. RecFits(s, 134, f, n, IF l = 8 THEN Lost ELSE Data("f16", 1, n), f)
    BY <2>2, <2>3, <2>4, <2>5 DEF RecFits
  <2> QED
    BY <2>1, <2>6, RecTyped
<1>26. CASE s.datyp = 134 /\ ~small
  <2>1. p = Rec(6 + 0, n, IF l = 8 THEN Lost ELSE Data("f16", 0, n))
    BY <1>3, <1>26 DEF PackedAs, m
  <2>2. (IF l = 8 THEN Lost ELSE Data("f16", 0, n)) \in FData
    BY <1>4, <1>5, <1>6 DEF Packers
  <2>3. 6 \in FTypes \ {136} /\ BitsOK(6, n)
    BY <1>2, <1>26 DEF FTypes, BitsOK, NBITS_MAX
  <2>4. 6 % 128 = s.datyp % 128
    BY <1>26
  <2>5. (6 >= 128 => 6 = s.datyp) /\ (6 \in {7, 133} => n = s.nbits)
    BY <1>26
  <2>6. RecFits(s, 6, 0, n, IF l = 8 THEN Lost ELSE Data("f16", 0, n), f)
    BY <2>2, <2>3, <2>4, <2>5 DEF RecFits
  <2> QED
    BY <2>1, <2>6, RecTyped
<1>27. CASE s.datyp = 7
  <2>1. p = Rec(7 + f, n, Data("chars", 0, 8))
    BY <1>3, <1>27 DEF PackedAs, m
  <2>2. Data("chars", 0, 8) \in FData
    BY <1>4, <1>5, <1>6 DEF Packers
  <2>3. 7 \in FTypes \ {136} /\ BitsOK(7, n)
    BY <1>2, <1>27 DEF FTypes, BitsOK, NBITS_MAX
  <2>4. 7 % 128 = s.datyp % 128
    BY <1>27
  <2>5. (7 >= 128 => 7 = s.datyp) /\ (7 \in {7, 133} => n = s.nbits)
    BY <1>27
  <2>6. RecFits(s, 7, f, n, Data("chars", 0, 8), f)
    BY <2>2, <2>3, <2>4, <2>5 DEF RecFits
  <2> QED
    BY <2>1, <2>6, RecTyped
<1>28. CASE s.datyp = 135
  <2>1. p = Rec(7 + 0, n, Data("chars", 0, 8))
    BY <1>3, <1>28 DEF PackedAs, m
  <2>2. Data("chars", 0, 8) \in FData
    BY <1>4, <1>5, <1>6 DEF Packers
  <2>3. 7 \in FTypes \ {136} /\ BitsOK(7, n)
    BY <1>2, <1>28 DEF FTypes, BitsOK, NBITS_MAX
  <2>4. 7 % 128 = s.datyp % 128
    BY <1>28
  <2>5. (7 >= 128 => 7 = s.datyp) /\ (7 \in {7, 133} => n = s.nbits)
    BY <1>28
  <2>6. RecFits(s, 7, 0, n, Data("chars", 0, 8), f)
    BY <2>2, <2>3, <2>4, <2>5 DEF RecFits
  <2> QED
    BY <2>1, <2>6, RecTyped
<1> QED
  BY <1>7, <1>8, <1>9, <1>10, <1>11, <1>12, <1>13, <1>14, <1>15, <1>16, <1>17, <1>18, <1>19, <1>20, <1>21, <1>22, <1>23, <1>24, <1>25, <1>26, <1>27, <1>28 DEF FTypes

\* What the reader expects of a record is what the packers put there, for elements of the
\* length the type is made for.
LEMMA RecIs ==
    ASSUME NEW t \in FTypes, NEW g \in {0, 64}, NEW k, NEW d, NEW p, p = Rec(t + g, k, d)
    PROVE  /\ p.data = d /\ p.nbits = k /\ Without64(p.datyp) = t
           /\ Has64(p.datyp) <=> g = 64
           /\ NumberKind(p.datyp) = NumberKind(t)
<1>1. p.datyp = t + g /\ p.data = d /\ p.nbits = k
  BY DEF Rec
<1> QED
  BY <1>1, FlagIs DEF FTypes

LEMMA PackedWanted ==
    ASSUME NEW s \in FTyped, s.datyp \in FTypes, s.nbits \in 1 .. NBITS_MAX, NEW l \in FLens,
           NEW f \in {0, 64}, NEW small \in BOOLEAN, NEW p, p = FieldPacked(s, l, f, small),
           Suits(s.datyp, s.nbits, l),
           ~(l = 1 /\ s.datyp = 2 /\ s.nbits < 8), ~(s.datyp = 130 /\ ~small),
           f = 64 => ~(s.datyp > 128 /\ ~small) /\ NumberKind(s.datyp) # "other"
    PROVE  /\ p.data = FieldWanted(p, l)
           /\ Delivered(p, l) = l
           /\ Has64(p.datyp) <=> f = 64
           /\ NumberKind(p.datyp) = NumberKind(s.datyp)
<1> DEFINE n == s.nbits
           m == IF l \in {1, 2} /\ 8 * l < n THEN 8 * l ELSE n
<1>2. n \in 1 .. 64 /\ l \in {1, 2, 4, 8}
  BY DEF NBITS_MAX, FLens
<1>3. PackedAs(s, l, f, small, p)
  BY PackedIs
<1>4. CASE s.datyp = 0
  <2>1. p = Rec(0 + f, n, Data("raw", 0, n))
    BY <1>3, <1>4 DEF PackedAs
  <2>2. /\ p.data = (Data("raw", 0, n)) /\ p.nbits = n /\ Without64(p.datyp) = 0
        /\ Has64(p.datyp) <=> f = 64
        /\ NumberKind(p.datyp) = NumberKind(0)
    BY <2>1, RecIs DEF FTypes
  <2>3. NumberKind(0) = NumberKind(s.datyp)
    BY <1>4 DEF NumberKind
  <2>4. p.data = FieldWanted(p, l)
    BY <1>2, <1>4, <2>2 DEF FieldWanted, Suits
  <2>5. Delivered(p, l) = l
    BY <1>2, <1>4, <2>2 DEF Delivered, Suits
  <2> QED
    BY <2>2, <2>3, <2>4, <2>5
<1>5. CASE s.datyp = 128
  <2>1. p = Rec(0 + 0, n, Data("raw", 0, n))
    BY <1>3, <1>5 DEF PackedAs
  <2>2. /\ p.data = (Data("raw", 0, n)) /\ p.nbits = n /\ Without64(p.datyp) = 0
        /\ Has64(p.datyp) <=> 0 = 64
        /\ NumberKind(p.datyp) = NumberKind(0)
    BY <2>1, RecIs DEF FTypes
  <2>3. NumberKind(0) = NumberKind(s.datyp) /\ f = 0
    BY <1>5 DEF NumberKind
  <2>4. p.data = FieldWanted(p, l)
    BY <1>2, <1>5, <2>2 DEF FieldWanted, Suits
  <2>5. Delivered(p, l) = l
    BY <1>2, <1>5, <2>2 DEF Delivered, Suits
  <2> QED
    BY <2>2, <2>3, <2>4, <2>5
<1>6. CASE s.datyp = 1
  <2>1. p = Rec(1 + f, n, Data("float", 0, n))
    BY <1>3, <1>6 DEF PackedAs
  <2>2. /\ p.data = (Data("float", 0, n)) /\ p.nbits = n /\ Without64(p.datyp) = 1
        /\ Has64(p.datyp) <=> f = 64
        /\ NumberKind(p.datyp) = NumberKind(1)
    BY <2>1, RecIs DEF FTypes
  <2>3. NumberKind(1) = NumberKind(s.datyp)
    BY <1>6 DEF NumberKind
  <2>4. p.data = FieldWanted(p, l)
    BY <1>2, <1>6, <2>2 DEF FieldWanted, Suits
  <2>5. Delivered(p, l) = l
    BY <1>2, <1>6, <2>2 DEF Delivered, Suits
  <2> QED
    BY <2>2, <2>3, <2>4, <2>5
<1>7. CASE s.datyp = 129 /\ small
  <2>1. p = Rec(129 + f, n, Data("float", 1, n))
    BY <1>3, <1>7 DEF PackedAs
  <2>2. /\ p.data = (Data("float", 1, n)) /\ p.nbits = n /\ Without64(p.datyp) = 129
        /\ Has64(p.datyp) <=> f = 64
        /\ NumberKind(p.datyp) = NumberKind(129)
    BY <2>1, RecIs DEF FTypes
  <2>3. NumberKind(129) = NumberKind(s.datyp)
    BY <1>7 DEF NumberKind
  <2> DEFINE t == Without64(p.datyp)
  <2>6. t = 129 /\ t % 128 = 1 /\ t \div 128 = 1
    BY <2>2
  <2>7. s.datyp = 129 /\ s.datyp % 128 = 1
    BY <1>7
  <2> HIDE DEF t
  <2>4. p.data = FieldWanted(p, l)
    <3>1. Suits(s.datyp, n, l)
      OBVIOUS
    <3> QED
      BY <1>2, <2>2, <2>6, <2>7, <3>1 DEF FieldWanted, Suits, t
  <2>5. Delivered(p, l) = l
    BY <1>2, <2>2, <2>6, <2>7 DEF Delivered, Suits, t
  <2> QED
    BY <2>2, <2>3, <2>4, <2>5
<1>8. CASE s.datyp = 129 /\ ~small
  <2>1. p = Rec(1 + 0, n, Data("float", 0, n))
    BY <1>3, <1>8 DEF PackedAs
  <2>2. /\ p.data = (Data("float", 0, n)) /\ p.nbits = n /\ Without64(p.datyp) = 1
        /\ Has64(p.datyp) <=> 0 = 64
        /\ NumberKind(p.datyp) = NumberKind(1)
    BY <2>1, RecIs DEF FTypes
  <2>3. NumberKind(1) = NumberKind(s.datyp) /\ f = 0
    BY <1>8 DEF NumberKind
  <2>4. p.data = FieldWanted(p, l)
    BY <1>2, <1>8, <2>2 DEF FieldWanted, Suits
  <2>5. Delivered(p, l) = l
    BY <1>2, <1>8, <2>2 DEF Delivered, Suits
  <2> QED
    BY <2>2, <2>3, <2>4, <2>5
<1>9. CASE s.datyp = 2
  <2>1. p = Rec(2 + f, m, Data("tokens", 0, m))
    BY <1>3, <1>9 DEF PackedAs
  <2>2. /\ p.data = (Data("tokens", 0, m)) /\ p.nbits = m /\ Without64(p.datyp) = 2
        /\ Has64(p.datyp) <=> f = 64
        /\ NumberKind(p.datyp) = NumberKind(2)
    BY <2>1, RecIs DEF FTypes
  <2>3. NumberKind(2) = NumberKind(s.datyp)
    BY <1>9 DEF NumberKind
  <2>4. p.data = FieldWanted(p, l)
    BY <1>2, <1>9, <2>2 DEF FieldWanted, Suits
  <2>5. Delivered(p, l) = l
    BY <1>2, <1>9, <2>2 DEF Delivered, Suits
  <2> QED
    BY <2>2, <2>3, <2>4, <2>5
<1>10. CASE s.datyp = 130 /\ small
  <2>1. p = Rec(130 + f, m, Data("shorts", 1, m))
    BY <1>3, <1>10 DEF PackedAs
  <2>2. /\ p.data = (Data("shorts", 1, m)) /\ p.nbits = m /\ Without64(p.datyp) = 130
        /\ Has64(p.datyp) <=> f = 64
        /\ NumberKind(p.datyp) = NumberKind(130)
    BY <2>1, RecIs DEF FTypes
  <2>3. NumberKind(130) = NumberKind(s.datyp)
    BY <1>10 DEF NumberKind
  <2> DEFINE t == Without64(p.datyp)
  <2>6. t = 130 /\ t % 128 = 2 /\ t \div 128 = 1
    BY <2>2
  <2>7. s.datyp = 130 /\ s.datyp % 128 = 2
    BY <1>10
  <2> HIDE DEF t
  <2>4. p.data = FieldWanted(p, l)
    <3>1. Suits(s.datyp, n, l)
      OBVIOUS
    <3> QED
      BY <1>2, <2>2, <2>6, <2>7, <3>1 DEF FieldWanted, Suits, t
  <2>5. Delivered(p, l) = l
    BY <1>2, <2>2, <2>6, <2>7 DEF Delivered, Suits, t
  <2> QED
    BY <2>2, <2>3, <2>4, <2>5
<1>11. CASE s.datyp = 3
  <2>1. p = Rec(3 + f, 8, Data("R4A", 0, 32))
    BY <1>3, <1>11 DEF PackedAs
  <2>2. /\ p.data = (Data("R4A", 0, 32)) /\ p.nbits = 8 /\ Without64(p.datyp) = 3
        /\ Has64(p.datyp) <=> f = 64
        /\ NumberKind(p.datyp) = NumberKind(3)
    BY <2>1, RecIs DEF FTypes
  <2>3. NumberKind(3) = NumberKind(s.datyp)
    BY <1>11 DEF NumberKind
  <2>4. p.data = FieldWanted(p, l)
    BY <1>2, <1>11, <2>2 DEF FieldWanted, Suits
  <2>5. Delivered(p, l) = l
    BY <1>2, <1>11, <2>2 DEF Delivered, Suits
  <2> QED
    BY <2>2, <2>3, <2>4, <2>5
<1>12. CASE s.datyp = 131
  <2>1. p = Rec(3 + 0, 8, Data("R4A", 0, 32))
    BY <1>3, <1>12 DEF PackedAs
  <2>2. /\ p.data = (Data("R4A", 0, 32)) /\ p.nbits = 8 /\ Without64(p.datyp) = 3
        /\ Has64(p.datyp) <=> 0 = 64
        /\ NumberKind(p.datyp) = NumberKind(3)
    BY <2>1, RecIs DEF FTypes
  <2>3. NumberKind(3) = NumberKind(s.datyp) /\ f = 0
    BY <1>12 DEF NumberKind
  <2>4. p.data = FieldWanted(p, l)
    BY <1>2, <1>12, <2>2 DEF FieldWanted, Suits
  <2>5. Delivered(p, l) = l
    BY <1>2, <1>12, <2>2 DEF Delivered, Suits
  <2> QED
    BY <2>2, <2>3, <2>4, <2>5
<1>13. CASE s.datyp = 4
  <2>1. p = Rec(4 + f, n, Data("signed", 0, n))
    BY <1>3, <1>13 DEF PackedAs
  <2>2. /\ p.data = (Data("signed", 0, n)) /\ p.nbits = n /\ Without64(p.datyp) = 4
        /\ Has64(p.datyp) <=> f = 64
        /\ NumberKind(p.datyp) = NumberKind(4)
    BY <2>1, RecIs DEF FTypes
  <2>3. NumberKind(4) = NumberKind(s.datyp)
    BY <1>13 DEF NumberKind
  <2>4. p.data = FieldWanted(p, l)
    BY <1>2, <1>13, <2>2 DEF FieldWanted, Suits
  <2>5. Delivered(p, l) = l
    BY <1>2, <1>13, <2>2 DEF Delivered, Suits
  <2> QED
    BY <2>2, <2>3, <2>4, <2>5
<1>14. CASE s.datyp = 132
  <2>1. p = Rec(4 + f, n, Data("signed", 0, n))
    BY <1>3, <1>14 DEF PackedAs
  <2>2. /\ p.data = (Data("signed", 0, n)) /\ p.nbits = n /\ Without64(p.datyp) = 4
        /\ Has64(p.datyp) <=> f = 64
        /\ NumberKind(p.datyp) = NumberKind(4)
    BY <2>1, RecIs DEF FTypes
  <2>3. NumberKind(4) = NumberKind(s.datyp)
    BY <1>14 DEF NumberKind
  <2>4. p.data = FieldWanted(p, l)
    BY <1>2, <1>14, <2>2 DEF FieldWanted, Suits
  <2>5. Delivered(p, l) = l
    BY <1>2, <1>14, <2>2 DEF Delivered, Suits
  <2> QED
    BY <2>2, <2>3, <2>4, <2>5
<1>15. CASE s.datyp = 5
  <2>1. p = Rec(5 + f, n, IF (l = 8) # (n = 64) THEN Lost ELSE Data("ieee", 0, n))
    BY <1>3, <1>15 DEF PackedAs
  <2>2. /\ p.data = (IF (l = 8) # (n = 64) THEN Lost ELSE Data("ieee", 0, n)) /\ p.nbits = n /\ Without64(p.datyp) = 5
        /\ Has64(p.datyp) <=> f = 64
        /\ NumberKind(p.datyp) = NumberKind(5)
    BY <2>1, RecIs DEF FTypes
  <2>3. NumberKind(5) = NumberKind(s.datyp)
    BY <1>15 DEF NumberKind
  <2>4. p.data = FieldWanted(p, l)
    BY <1>2, <1>15, <2>2 DEF FieldWanted, Suits
  <2>5. Delivered(p, l) = l
    BY <1>2, <1>15, <2>2 DEF Delivered, Suits
  <2> QED
    BY <2>2, <2>3, <2>4, <2>5
<1>16. CASE s.datyp = 133 /\ small
  <2>1. p = Rec(133 + f, n, IF (l = 8) # (n = 64) THEN Lost ELSE Data("ieee32", 1, n))
    BY <1>3, <1>16 DEF PackedAs
  <2>2. /\ p.data = (IF (l = 8) # (n = 64) THEN Lost ELSE Data("ieee32", 1, n)) /\ p.nbits = n /\ Without64(p.datyp) = 133
        /\ Has64(p.datyp) <=> f = 64
        /\ NumberKind(p.datyp) = NumberKind(133)
    BY <2>1, RecIs DEF FTypes
  <2>3. NumberKind(133) = NumberKind(s.datyp)
    BY <1>16 DEF NumberKind
  <2> DEFINE t == Without64(p.datyp)
  <2>6. t = 133 /\ t % 128 = 5 /\ t \div 128 = 1
    BY <2>2
  <2>7. s.datyp = 133 /\ s.datyp % 128 = 5
    BY <1>16
  <2> HIDE DEF t
  <2>4. p.data = FieldWanted(p, l)
    <3>1. Suits(s.datyp, n, l)
      OBVIOUS
    <3> QED
      BY <1>2, <2>2, <2>6, <2>7, <3>1 DEF FieldWanted, Suits, t
  <2>5. Delivered(p, l) = l
    BY <1>2, <2>2, <2>6, <2>7 DEF Delivered, Suits, t
  <2> QED
    BY <2>2, <2>3, <2>4, <2>5
<1>17. CASE s.datyp = 133 /\ ~small
  <2>1. p = Rec(5 + 0, n, IF (l = 8) # (n = 64) THEN Lost ELSE Data("ieee", 0, n))
    BY <1>3, <1>17 DEF PackedAs
  <2>2. /\ p.data = (IF (l = 8) # (n = 64) THEN Lost ELSE Data("ieee", 0, n)) /\ p.nbits = n /\ Without64(p.datyp) = 5
        /\ Has64(p.datyp) <=> 0 = 64
        /\ NumberKind(p.datyp) = NumberKind(5)
    BY <2>1, RecIs DEF FTypes
  <2>3. NumberKind(5) = NumberKind(s.datyp) /\ f = 0
    BY <1>17 DEF NumberKind
  <2>4. p.data = FieldWanted(p, l)
    BY <1>2, <1>17, <2>2 DEF FieldWanted, Suits
  <2>5. Delivered(p, l) = l
    BY <1>2, <1>17, <2>2 DEF Delivered, Suits
  <2> QED
    BY <2>2, <2>3, <2>4, <2>5
<1>18. CASE s.datyp = 8
  <2>1. p = Rec(8 + f, n, IF (l = 8) # (n = 64) THEN Lost ELSE Data("ieee", 0, n))
    BY <1>3, <1>18 DEF PackedAs
  <2>2. /\ p.data = (IF (l = 8) # (n = 64) THEN Lost ELSE Data("ieee", 0, n)) /\ p.nbits = n /\ Without64(p.datyp) = 8
        /\ Has64(p.datyp) <=> f = 64
        /\ NumberKind(p.datyp) = NumberKind(8)
    BY <2>1, RecIs DEF FTypes
  <2>3. NumberKind(8) = NumberKind(s.datyp)
    BY <1>18 DEF NumberKind
  <2>4. p.data = FieldWanted(p, l)
    BY <1>2, <1>18, <2>2 DEF FieldWanted, Suits
  <2>5. Delivered(p, l) = l
    BY <1>2, <1>18, <2>2 DEF Delivered, Suits
  <2> QED
    BY <2>2, <2>3, <2>4, <2>5
<1>19. CASE s.datyp = 136
  <2>1. p = Rec(8 + 0, n, IF (l = 8) # (n = 64) THEN Lost ELSE Data("ieee", 0, n))
    BY <1>3, <1>19 DEF PackedAs
  <2>2. /\ p.data = (IF (l = 8) # (n = 64) THEN Lost ELSE Data("ieee", 0, n)) /\ p.nbits = n /\ Without64(p.datyp) = 8
        /\ Has64(p.datyp) <=> 0 = 64
        /\ NumberKind(p.datyp) = NumberKind(8)
    BY <2>1, RecIs DEF FTypes
  <2>3. NumberKind(8) = NumberKind(s.datyp) /\ f = 0
    BY <1>19 DEF NumberKind
  <2>4. p.data = FieldWanted(p, l)
    BY <1>2, <1>19, <2>2 DEF FieldWanted, Suits
  <2>5. Delivered(p, l) = l
    BY <1>2, <1>19, <2>2 DEF Delivered, Suits
  <2> QED
    BY <2>2, <2>3, <2>4, <2>5
<1>20. CASE s.datyp = 6
  <2>1. p = Rec(6 + f, n, IF l = 8 THEN Lost ELSE Data("f16", 0, n))
    BY <1>3, <1>20 DEF PackedAs
  <2>2. /\ p.data = (IF l = 8 THEN Lost ELSE Data("f16", 0, n)) /\ p.nbits = n /\ Without64(p.datyp) = 6
        /\ Has64(p.datyp) <=> f = 64
        /\ NumberKind(p.datyp) = NumberKind(6)
    BY <2>1, RecIs DEF FTypes
  <2>3. NumberKind(6) = NumberKind(s.datyp)
    BY <1>20 DEF NumberKind
  <2>4. p.data = FieldWanted(p, l)
    BY <1>2, <1>20, <2>2 DEF FieldWanted, Suits
  <2>5. Delivered(p, l) = l
    BY <1>2, <1>20, <2>2 DEF Delivered, Suits
  <2> QED
    BY <2>2, <2>3, <2>4, <2>5
<1>21. CASE s.datyp = 134 /\ small
  <2>1. p = Rec(134 + f, n, IF l = 8 THEN Lost ELSE Data("f16", 1, n))
    BY <1>3, <1>21 DEF PackedAs
  <2>2. /\ p.data = (IF l = 8 THEN Lost ELSE Data("f16", 1, n)) /\ p.nbits = n /\ Without64(p.datyp) = 134
        /\ Has64(p.datyp) <=> f = 64
        /\ NumberKind(p.datyp) = NumberKind(134)
    BY <2>1, RecIs DEF FTypes
  <2>3. NumberKind(134) = NumberKind(s.datyp)
    BY <1>21 DEF NumberKind
  <2> DEFINE t == Without64(p.datyp)
  <2>6. t = 134 /\ t % 128 = 6 /\ t \div 128 = 1
    BY <2>2
  <2>7. s.datyp = 134 /\ s.datyp % 128 = 6
    BY <1>21
  <2> HIDE DEF t
  <2>4. p.data = FieldWanted(p, l)
    <3>1. Suits(s.datyp, n, l)
      OBVIOUS
    <3> QED
      BY <1>2, <2>2, <2>6, <2>7, <3>1 DEF FieldWanted, Suits, t
  <2>5. Delivered(p, l) = l
    BY <1>2, <2>2, <2>6, <2>7 DEF Delivered, Suits, t
  <2> QED
    BY <2>2, <2>3, <2>4, <2>5
<1>22. CASE s.datyp = 134 /\ ~small
  <2>1. p = Rec(6 + 0, n, IF l = 8 THEN Lost ELSE Data("f16", 0, n))
    BY <1>3, <1>22 DEF PackedAs
  <2>2. /\ p.data = (IF l = 8 THEN Lost ELSE Data("f16", 0, n)) /\ p.nbits = n /\ Without64(p.datyp) = 6
        /\ Has64(p.datyp) <=> 0 = 64
        /\ NumberKind(p.datyp) = NumberKind(6)
    BY <2>1, RecIs DEF FTypes
  <2>3. NumberKind(6) = NumberKind(s.datyp) /\ f = 0
    BY <1>22 DEF NumberKind
  <2>4. p.data = FieldWanted(p, l)
    BY <1>2, <1>22, <2>2 DEF FieldWanted, Suits
  <2>5. Delivered(p, l) = l
    BY <1>2, <1>22, <2>2 DEF Delivered, Suits
  <2> QED
    BY <2>2, <2>3, <2>4, <2>5
<1>23. CASE s.datyp = 7
  <2>1. p = Rec(7 + f, n, Data("chars", 0, 8))
    BY <1>3, <1>23 DEF PackedAs
  <2>2. /\ p.data = (Data("chars", 0, 8)) /\ p.nbits = n /\ Without64(p.datyp) = 7
        /\ Has64(p.datyp) <=> f = 64
        /\ NumberKind(p.datyp) = NumberKind(7)
    BY <2>1, RecIs DEF FTypes
  <2>3. NumberKind(7) = NumberKind(s.datyp)
    BY <1>23 DEF NumberKind
  <2>4. p.data = FieldWanted(p, l)
    BY <1>2, <1>23, <2>2 DEF FieldWanted, Suits
  <2>5. Delivered(p, l) = l
    BY <1>2, <1>23, <2>2 DEF Delivered, Suits
  <2> QED
    BY <2>2, <2>3, <2>4, <2>5
<1>24. CASE s.datyp = 135
  <2>1. p = Rec(7 + 0, n, Data("chars", 0, 8))
    BY <1>3, <1>24 DEF PackedAs
  <2>2. /\ p.data = (Data("chars", 0, 8)) /\ p.nbits = n /\ Without64(p.datyp) = 7
        /\ Has64(p.datyp) <=> 0 = 64
        /\ NumberKind(p.datyp) = NumberKind(7)
    BY <2>1, RecIs DEF FTypes
  <2>3. NumberKind(7) = NumberKind(s.datyp) /\ f = 0
    BY <1>24 DEF NumberKind
  <2>4. p.data = FieldWanted(p, l)
    BY <1>2, <1>24, <2>2 DEF FieldWanted, Suits
  <2>5. Delivered(p, l) = l
    BY <1>2, <1>24, <2>2 DEF Delivered, Suits
  <2> QED
    BY <2>2, <2>3, <2>4, <2>5
<1> QED
  BY <1>4, <1>5, <1>6, <1>7, <1>8, <1>9, <1>10, <1>11, <1>12, <1>13, <1>14, <1>15, <1>16, <1>17, <1>18, <1>19, <1>20, <1>21, <1>22, <1>23, <1>24 DEF FTypes

-----------------------------------------------------------------------------
(* The records of the file.                                                *)

\* A function on the numbers up to n is a sequence.
LEMMA FunctionIsSeq ==
    ASSUME NEW n \in Nat, NEW S, NEW g \in [1 .. n -> S]
    PROVE  g \in Seq(S)
OBVIOUS

\* A sequence with one more.
LEMMA Appended ==
    ASSUME NEW S, NEW q \in Seq(S), NEW x \in S
    PROVE  /\ Append(q, x) \in Seq(S)
           /\ \A i \in DOMAIN Append(q, x) :
                 (i \in DOMAIN q /\ Append(q, x)[i] = q[i]) \/ Append(q, x)[i] = x
OBVIOUS

\* In image mode a type is a number whatever was asked.
LEMMA ImageTyped ==
    ASSUME NEW d \in Int, NEW n \in Int, image_mode_copy
    PROVE  StoredType(d, -n) \in FTyped
<1> DEFINE t == InType(d)
           k == FieldBits(-n)
           first == IF d = 133 /\ k > 32 THEN 5 ELSE IF t = 801 THEN 1 ELSE t
           asked == IF -n \in {0, 1} THEN 0 ELSE first
           single == IF k > 16 /\ asked # 133 THEN asked % 128 ELSE asked
           s == StoredType(d, -n)
<1>1. k \in Int
  <2>1. \A a, b \in Int : Max({a, b}) \in Int
    BY MaxTwo
  <2>2. -n \in Int
    OBVIOUS
  <2>3. Max({1, -n}) \in Int /\ Max({1, -n}) >= 1
    BY <2>2, MaxTwo
  <2>4. Bitmot \div Max({1, -n}) \in Int
    BY <2>3 DEF Bitmot
  <2>5. Max({1, Bitmot \div Max({1, -n})}) \in Int
    BY <2>1, <2>4
  <2> QED
    BY <2>2, <2>5 DEF FieldBits, Bitmot
<1>2. t \in Int
  BY DEF InType, Without64
<1> HIDE DEF k, t
<1>3. single \in Int
  BY <1>1, <1>2
<1>4. s = CASE single = 6 /\ k > 24        -> [datyp |-> 5, nbits |-> 32]
            [] single = 6 /\ k \in 17 .. 24 -> [datyp |-> 1, nbits |-> k]
            [] OTHER                       -> [datyp |-> single, nbits |-> k]
  BY DEF StoredType, k, t
<1> HIDE DEF single, s
<1>5. CASE single = 6 /\ k > 24
  <2>1. s = [datyp |-> 5, nbits |-> 32]
    BY <1>4, <1>5
  <2> QED
    BY <2>1 DEF FTyped, s
<1>6. CASE single = 6 /\ k \in 17 .. 24
  <2>1. s = [datyp |-> 1, nbits |-> k]
    BY <1>4, <1>6
  <2> QED
    BY <1>1, <2>1 DEF FTyped, s
<1>7. CASE ~(single = 6 /\ k > 24) /\ ~(single = 6 /\ k \in 17 .. 24)
  <2>1. s = [datyp |-> single, nbits |-> k]
    BY <1>4, <1>7
  <2> QED
    BY <1>1, <1>3, <2>1 DEF FTyped, s
<1> QED
  BY <1>5, <1>6, <1>7

\* Missing points are found only in fields of numbers.
LEMMA PlugsNumbers ==
    ASSUME NEW q \in FRequests, NEW l, NEW n, Plugs(q, l, n)
    PROVE  NumberKind(q.datyp) # "other"
<1>1. q.datyp \in Nat
  BY FstRecordAssumption
<1>2. InType(q.datyp) % 16 \in {1, 2, 4, 5, 6}
  BY DEF Plugs
<1>3. q.datyp % 16 \in {1, 2, 4, 5, 6}
  BY <1>1, <1>2, InTypeIs
<1> QED
  BY <1>3 DEF NumberKind

FlagOf(w) == IF w.plugged THEN 64 ELSE 0

\* A record holds what was packed, and only the copies that lose it do not; the flag is that
\* of a field whose missing points were found.
RecOK(r) ==
    LET w == r.wrote
        p == FieldPacked(w.as, w.l, FlagOf(w), w.small)
    IN /\ w.as.datyp \in FTypes /\ BitsOK(w.as.datyp, w.as.nbits)
       /\ w.plugged <=> Plugs(w.q, w.l, w.as.nbits)
       /\ ~LosesData(w) => /\ r.datyp = p.datyp /\ r.nbits = p.nbits
                           /\ r.data = p.data \/ (r.data = Lost /\ CopyLoses(w))

\* A record made of what was packed and nothing lost is read as it was.
LEMMA ReadsBack ==
    ASSUME NEW r \in FRec, RecOK(r), r.wrote.l = r.wrote.q.len,
           Suits(r.wrote.as.datyp, r.wrote.as.nbits, r.wrote.l), ~LosesData(r.wrote),
           r.data = Lost => ~CopyLoses(r.wrote)
    PROVE  Unpacked(r, r.wrote.l) = r.wrote.val /\ Delivered(r, r.wrote.l) = r.wrote.l
<1> DEFINE w == r.wrote
           p == FieldPacked(w.as, w.l, FlagOf(w), w.small)
<1>1. /\ w \in FWrote /\ w.as \in FTyped /\ w.l \in FLens /\ w.small \in BOOLEAN
      /\ w.plugged \in BOOLEAN /\ w.swamped \in BOOLEAN /\ w.q \in FRequests
      /\ w.as.datyp \in Int
  BY DEF FRec, FWrote, FTyped
<1>2. /\ w.as.datyp \in FTypes /\ BitsOK(w.as.datyp, w.as.nbits)
      /\ w.plugged <=> Plugs(w.q, w.l, w.as.nbits)
      /\ r.datyp = p.datyp /\ r.nbits = p.nbits /\ r.data = p.data
  BY Zenon DEF RecOK
<1>3. /\ ~(w.l = 1 /\ w.as.datyp = 2 /\ w.as.nbits < 8) /\ ~(w.as.datyp = 130 /\ ~w.small)
      /\ w.plugged => ~(w.as.datyp > 128 /\ ~w.small)
      /\ w.plugged => NumberKind(w.as.datyp) = NumberKind(w.q.datyp)
      /\ ~w.swamped
  BY <1>1 DEF LosesData
<1>4. w.plugged => NumberKind(w.as.datyp) # "other"
  BY <1>1, <1>2, <1>3, PlugsNumbers
<1>5. FlagOf(w) \in {0, 64} /\ (FlagOf(w) = 64 <=> w.plugged)
  BY DEF FlagOf
<1>6. w.as.nbits \in 1 .. NBITS_MAX
  BY <1>2 DEF BitsOK
<1>7. /\ p.data = FieldWanted(p, w.l)
      /\ Delivered(p, w.l) = w.l
      /\ Has64(p.datyp) <=> FlagOf(w) = 64
      /\ NumberKind(p.datyp) = NumberKind(w.as.datyp)
  <2>1. Suits(w.as.datyp, w.as.nbits, w.l)
    OBVIOUS
  <2> HIDE DEF w
  <2> QED
    BY <1>1, <1>2, <1>3, <1>4, <1>5, <1>6, <2>1, PackedWanted
<1> HIDE DEF p
<1>8. FieldWanted(r, w.l) = FieldWanted(p, w.l) /\ Delivered(r, w.l) = Delivered(p, w.l)
  BY <1>2, Zenon DEF FieldWanted, Delivered
<1>9. (w.plugged <=> PutBack(r)) /\ (w.plugged => NumberKind(r.datyp) = NumberKind(w.q.datyp))
  BY <1>2, <1>3, <1>4, <1>5, <1>7, Zenon DEF PutBack
<1> QED
  BY <1>2, <1>3, <1>7, <1>8, <1>9, Zenon DEF Unpacked

\* What is read: nothing, or a record, as the length declared before the call makes of it.
ReadOK ==
    \/ fread = NothingRead
    \/ /\ fread.at \in {"read", "image"} /\ fread.l \in FLens
       /\ fread.rec \in FRec /\ RecOK(fread.rec)
       /\ fread.val = Unpacked(fread.rec, fread.l)
       /\ fread.len = Delivered(fread.rec, fread.l)

FstRecInv ==
    /\ frecs \in Seq(FRec) /\ flen \in FLens /\ image_mode_copy \in BOOLEAN
    /\ \A i \in DOMAIN frecs : RecOK(frecs[i])
    /\ ReadOK

\* What the invariant says of a read.
LEMMA ReadsWhatWasWritten == ReadOK => FieldReadsBack
<1> SUFFICES ASSUME ReadOK, fread.at = "read", fread.rec.wrote.l = fread.rec.wrote.q.len,
                    fread.l = fread.rec.wrote.l,
                    Suits(fread.rec.wrote.as.datyp, fread.rec.wrote.as.nbits, fread.rec.wrote.l),
                    ~LosesData(fread.rec.wrote),
                    fread.rec.data = Lost => ~CopyLoses(fread.rec.wrote)
             PROVE  fread.val = fread.rec.wrote.val /\ fread.len = fread.rec.wrote.l
  BY DEF FieldReadsBack
<1>1. fread # NothingRead
  BY DEF NothingRead
<1>2. /\ fread.rec \in FRec /\ RecOK(fread.rec)
      /\ fread.val = Unpacked(fread.rec, fread.l)
      /\ fread.len = Delivered(fread.rec, fread.l)
  BY <1>1 DEF ReadOK
<1> QED
  BY <1>2, ReadsBack, Zenon

\* A record is placed after the others, or instead of one with its keys.
LEMMA Placed ==
    ASSUME frecs \in Seq(FRec), \A i \in DOMAIN frecs : RecOK(frecs[i]), NEW key, NEW rewrit,
           NEW r \in FRec, RecOK(r)
    PROVE  /\ Place(key, rewrit, r) \in Seq(FRec)
           /\ \A i \in DOMAIN Place(key, rewrit, r) : RecOK(Place(key, rewrit, r)[i])
<1> DEFINE same == {i \in DOMAIN frecs : frecs[i].key = key}
<1>1. CASE rewrit /\ same # {}
  <2>1. Place(key, rewrit, r) = [frecs EXCEPT ![Min(same)] = r]
    BY <1>1 DEF Place
  <2>2. [frecs EXCEPT ![Min(same)] = r] \in Seq(FRec)
    <3>1. Len(frecs) \in Nat /\ DOMAIN frecs = 1 .. Len(frecs)
          /\ \A i \in 1 .. Len(frecs) : frecs[i] \in FRec
      OBVIOUS
    <3>2. [frecs EXCEPT ![Min(same)] = r] \in [1 .. Len(frecs) -> FRec]
      BY <3>1
    <3> QED
      BY <3>1, <3>2, FunctionIsSeq
  <2>3. ASSUME NEW i \in DOMAIN frecs PROVE RecOK([frecs EXCEPT ![Min(same)] = r][i])
    <3>1. [frecs EXCEPT ![Min(same)] = r][i] \in {r, frecs[i]}
      OBVIOUS
    <3> QED
      BY <3>1
  <2>4. DOMAIN [frecs EXCEPT ![Min(same)] = r] = DOMAIN frecs
    OBVIOUS
  <2> QED
    BY <2>1, <2>2, <2>3, <2>4
<1>2. CASE ~(rewrit /\ same # {})
  <2>1. Place(key, rewrit, r) = Append(frecs, r)
    BY <1>2 DEF Place
  <2> QED
    BY <2>1, Appended
<1> QED
  BY <1>1, <1>2

\* c_fstecr writes such a record.
LEMMA WrittenOK ==
    ASSUME FstRecInv, NEW key \in FKeys, NEW val \in FVals, NEW q \in FRequests, NEW l \in FLens,
           NEW small \in BOOLEAN, NEW rewrit \in BOOLEAN, Written(key, val, q, l, small, rewrit)
    PROVE  FstRecInv'
<1> DEFINE s == StoredType(q.datyp, q.npak)
           plugged == Plugs(q, l, s.nbits)
           f == IF plugged THEN 64 ELSE 0
           p == FieldPacked(s, l, f, small)
           w == [val |-> val, q |-> q, l |-> l, small |-> small, as |-> s,
                 plugged |-> plugged, swamped |-> Swamps(q, l, s)]
           r == [key |-> key, datyp |-> p.datyp, nbits |-> p.nbits, data |-> p.data, wrote |-> w]
<1>1. /\ ~image_mode_copy
      /\ FieldBits(q.npak) \in 1 .. NBITS_MAX /\ CanPack(s.datyp)
      /\ frecs' = Place(key, rewrit, r)
      /\ flen' = 4 /\ fread' = NothingRead /\ image_mode_copy' = image_mode_copy
  BY DEF Written
<1>2. q.datyp \in Nat /\ q.npak \in Int
  BY FstRecordAssumption
<1>3. s \in FTyped /\ s.datyp \in FTypes /\ BitsOK(s.datyp, s.nbits)
  BY <1>1, <1>2, StoredIs
<1>4. f \in {0, 64} /\ plugged \in BOOLEAN /\ Swamps(q, l, s) \in BOOLEAN
  BY DEF Plugs, Swamps
<1>5. PackedOK(p, s, f)
  <2> HIDE DEF s, f
  <2> QED
    BY <1>3, <1>4, PackedTyped
<1>6. r \in FRec
  <2>1. p.datyp \in Int /\ p.nbits \in Int /\ p.data \in FData
    BY <1>5 DEF PackedOK, FPacked
  <2> HIDE DEF p, s, plugged
  <2> QED
    BY <1>3, <1>4, <2>1 DEF FRec, FWrote
<1>7. RecOK(r)
  <2>1. /\ r.wrote = w /\ r.datyp = p.datyp /\ r.nbits = p.nbits /\ r.data = p.data
        /\ w.as = s /\ w.l = l /\ w.q = q /\ w.small = small /\ w.plugged = plugged
    BY Zenon
  <2>2. FlagOf(w) = f
    BY <2>1 DEF FlagOf
  <2> HIDE DEF r, w, p, s, f, plugged
  <2> QED
    BY <1>3, <2>1, <2>2, Zenon DEF RecOK, p, plugged
<1>8. frecs' \in Seq(FRec) /\ \A i \in DOMAIN frecs' : RecOK(frecs'[i])
  <2> HIDE DEF r
  <2> QED
    BY <1>1, <1>6, <1>7, Placed DEF FstRecInv
<1> QED
  BY <1>1, <1>8 DEF FstRecInv, ReadOK, FLens

\* So does an editor that copies a record.
LEMMA CopyOK ==
    ASSUME FstRecInv, NEW key \in FKeys, EcrImage(key)
    PROVE  FstRecInv'
<1> DEFINE r == fread.rec
           w == r.wrote
           s == StoredType(r.datyp, -r.nbits)
           d == s.datyp + (IF Has64(r.datyp) /\ InType(r.datyp) # 8 THEN 64 ELSE 0)
           data == IF ImageBits(r) < HeldBits(r) THEN Lost ELSE r.data
           c == [r EXCEPT !.key = key, !.nbits = s.nbits, !.datyp = d, !.data = data]
<1>1. /\ image_mode_copy /\ fread.at = "image" /\ frecs' = Append(frecs, c)
      /\ flen' = 4 /\ fread' = NothingRead /\ image_mode_copy' = image_mode_copy
  BY DEF EcrImage
<1>2. r \in FRec /\ RecOK(r)
  BY <1>1 DEF FstRecInv, ReadOK, NothingRead
<1>3. r.datyp \in Int /\ r.nbits \in Int /\ r.data \in FData /\ w \in FWrote
  BY <1>2 DEF FRec
<1>4. s \in FTyped
  BY <1>1, <1>3, ImageTyped
<1>5. Lost \in FData
  BY DEF Lost, Data, FData, Packers
<1>6. /\ c \in FRec /\ c.wrote = w /\ c.nbits = s.nbits /\ c.datyp = d /\ c.data = data
  <2>1. s.nbits \in Int /\ d \in Int /\ data \in FData
    BY <1>3, <1>4, <1>5 DEF FTyped
  <2> HIDE DEF s, d, data
  <2> QED
    BY <1>2, <2>1 DEF FRec
<1>7. RecOK(c)
  <2> DEFINE p == FieldPacked(w.as, w.l, FlagOf(w), w.small)
  <2>1. /\ w.as.datyp \in FTypes /\ BitsOK(w.as.datyp, w.as.nbits)
        /\ w.plugged <=> Plugs(w.q, w.l, w.as.nbits)
    BY <1>2, Zenon DEF RecOK
  <2>2. ASSUME ~LosesData(w)
        PROVE  /\ d = p.datyp /\ s.nbits = p.nbits
               /\ data = p.data \/ (data = Lost /\ CopyLoses(w))
    <3>1. /\ r.datyp = p.datyp /\ r.nbits = p.nbits
          /\ r.data = p.data \/ (r.data = Lost /\ CopyLoses(w))
      BY <1>2, <2>2, Zenon DEF RecOK
    <3>2. /\ w.as \in FTyped /\ w.l \in FLens /\ w.small \in BOOLEAN
          /\ w.plugged \in BOOLEAN /\ w.q \in FRequests
      BY <1>3 DEF FWrote
    <3>3. FlagOf(w) \in {0, 64} /\ (FlagOf(w) = 64 <=> w.plugged)
      BY DEF FlagOf
    <3>4. PackedOK(p, w.as, FlagOf(w))
      <4> HIDE DEF w
      <4> QED
        BY <2>1, <3>2, <3>3, PackedTyped
    <3>5. PICK t \in FTypes \ {136}, g \in {0, FlagOf(w)} :
              /\ p.datyp = t + g /\ BitsOK(t, p.nbits)
              /\ t % 128 = w.as.datyp % 128 /\ (t >= 128 => t = w.as.datyp)
              /\ t \in {7, 133} => p.nbits = w.as.nbits
      BY <3>4 DEF PackedOK
    <3> HIDE DEF p
    <3>11. g \in {0, 64}
      BY <3>3, <3>5
    <3>6. ~(w.as.datyp = 133 /\ w.as.nbits > 32)
      BY <2>2 DEF LosesData
    <3>7. s = [datyp |-> t, nbits |-> r.nbits]
      <4>1. t = 133 /\ g = 0 => r.nbits <= 32
        BY <3>1, <3>2, <3>5, <3>6 DEF FTyped
      <4>2. BitsOK(t, r.nbits) /\ r.datyp = t + g
        BY <3>1, <3>5
      <4>3. StoredType(t + g, -r.nbits) = [datyp |-> t, nbits |-> r.nbits]
        BY <1>1, <1>3, <3>11, <4>1, <4>2, CopyStays
      <4> QED
        BY <4>2, <4>3
    <3>8. /\ Has64(r.datyp) <=> g = 64
          /\ Without64(r.datyp) = t
      BY <3>1, <3>5, <3>11, FlagIs DEF FTypes
    <3>9. d = p.datyp
      <4>1. ASSUME g = 64, t = 8 PROVE FALSE
        <5>1. w.plugged
          BY <3>3, <3>5, <4>1
        <5>2. NumberKind(w.as.datyp) = "other" /\ w.as.datyp % 128 # 0
          BY <3>5, <4>1, <2>1 DEF NumberKind, FTypes
        <5>3. NumberKind(w.q.datyp) # "other"
          BY <2>1, <3>2, <5>1, PlugsNumbers
        <5>4. LosesData(w)
          BY <5>1, <5>2, <5>3 DEF LosesData
        <5> QED
          BY <2>2, <5>4
      <4>2. InType(r.datyp) = 8 <=> t = 8
        BY <3>5, <3>8 DEF InType, FTypes
      <4>3. s.datyp = t
        BY <3>7
      <4> HIDE DEF s
      <4> QED
        BY <3>1, <3>5, <3>8, <3>11, <4>1, <4>2, <4>3
    <3>10. data = r.data \/ (data = Lost /\ CopyLoses(w))
      <4>1. ASSUME ImageBits(r) < HeldBits(r) PROVE CopyLoses(w)
        <5>1. r.nbits \in Int
          BY <1>3
        <5>2. t = 8 \/ (t = 7 /\ r.nbits < 8)
          BY <3>8, <4>1, <5>1 DEF ImageBits, HeldBits
        <5> QED
          BY <3>1, <3>5, <5>2 DEF CopyLoses
      <4> QED
        BY <4>1
    <3> QED
      BY <3>1, <3>7, <3>9, <3>10
  <2> HIDE DEF c, s, d, data, p
  <2> QED
    BY <1>6, <2>1, <2>2, Zenon DEF RecOK, p
<1>8. frecs' \in Seq(FRec) /\ \A i \in DOMAIN frecs' : RecOK(frecs'[i])
  <2> HIDE DEF c
  <2> QED
    BY <1>1, <1>6, <1>7, Appended DEF FstRecInv
<1> QED
  BY <1>1, <1>8 DEF FstRecInv, ReadOK, FLens

LEMMA FstRecInvHolds == FstSpec => []FstRecInv
<1>1. FstInit => FstRecInv
  <2>1. <<>> \in Seq(FRec) /\ DOMAIN <<>> = {}
    OBVIOUS
  <2> QED
    BY <2>1 DEF FstInit, FstRecInv, ReadOK, FLens
<1>2. FstRecInv /\ [FstNext]_fstvars => FstRecInv'
  <2> SUFFICES ASSUME FstRecInv, [FstNext]_fstvars PROVE FstRecInv'
    OBVIOUS
  <2>1. CASE \E l \in {1, 2, 4, 8} : DataLength(l)
    BY <2>1 DEF DataLength, FstRecInv, ReadOK, FLens
  <2>2. ASSUME NEW k \in FKeys, NEW v \in FVals, NEW q \in FRequests, NEW small \in BOOLEAN,
               NEW rewrit \in BOOLEAN,
               \/ Ecr(k, v, q, small, rewrit) \/ EcrHalf(k, v, q, small, rewrit)
               \/ EcrByte(k, v, q, small, rewrit)
        PROVE  FstRecInv'
    <3>1. PICK l \in FLens : Written(k, v, q, l, small, rewrit)
      BY <2>2 DEF Ecr, EcrHalf, EcrByte, FstRecInv, FLens
    <3> QED
      BY <3>1, WrittenOK
  <2>3. ASSUME NEW i \in 1 .. FMaxRecords, Luk(i) PROVE FstRecInv'
    <3>1. /\ i \in DOMAIN frecs /\ frecs[i] \in FRec /\ RecOK(frecs[i])
          /\ frecs' = frecs /\ flen' = 4 /\ image_mode_copy' = image_mode_copy
      BY <2>3 DEF Luk, FstRecInv
    <3>2. /\ fread'.at \in {"read", "image"} /\ fread'.l = flen /\ fread'.rec = frecs[i]
          /\ fread'.val = Unpacked(frecs[i], flen) /\ fread'.len = Delivered(frecs[i], flen)
      BY <2>3 DEF Luk
    <3>3. ReadOK'
      BY <3>1, <3>2 DEF ReadOK, FstRecInv
    <3> QED
      BY <3>1, <3>3 DEF FstRecInv, FLens
  <2>4. CASE \E value \in BOOLEAN : SetImage(value)
    BY <2>4 DEF SetImage, FstRecInv, ReadOK
  <2>5. CASE \E k \in FKeys : EcrImage(k)
    BY <2>5, CopyOK
  <2>6. CASE UNCHANGED fstvars
    BY <2>6 DEF fstvars, FstRecInv, ReadOK
  <2> QED
    BY <2>1, <2>2, <2>3, <2>4, <2>5, <2>6 DEF FstNext
<1> QED
  BY <1>1, <1>2, PTL DEF FstSpec

\* A field written and read by a program that declares the length of its elements comes back
\* whole, whatever type, bits and remapping table, rewritten or not, staged or not, and through
\* a copy in image mode: what c_fstluk undoes is what c_fstecr did.
THEOREM FieldsReadBack == FstSpec => []FieldReadsBack
<1>1. FstRecInv => FieldReadsBack
  BY ReadsWhatWasWritten DEF FstRecInv
<1> QED
  BY <1>1, FstRecInvHolds, PTL

=============================================================================
