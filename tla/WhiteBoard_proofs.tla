------------------------- MODULE WhiteBoard_proofs -------------------------
(***************************************************************************)
(* The pages of a whiteboard fit (WbPagesFit), and they implement a map    *)
(* from names to values (WbImplementsMap).                                 *)
(***************************************************************************)
EXTENDS WhiteBoard, Integers, WellFoundedInduction, TLAPS

-----------------------------------------------------------------------------
(* Numbers and folds.                                                      *)

\* A set of numbers has a least element.
LEMMA LeastNumber ==
    ASSUME NEW S \in SUBSET Nat, S # {}
    PROVE  \E m \in S : \A k \in S : m <= k
<1>1. PICK R : R = OpToRel(<, Nat)
  OBVIOUS
<1>2. PICK x \in S : \A y \in S : ~(<<y, x>> \in R)
  BY <1>1, WFMin, NatLessThanWellFounded
<1>3. \A y \in S : <<y, x>> \in R <=> y < x
  BY <1>1, SMT DEF OpToRel
<1>4. \A y \in S : ~(y < x)
  BY <1>2, <1>3
<1>5. x \in Nat /\ \A y \in S : y \in Nat
  OBVIOUS
<1>6. QED
  BY <1>4, <1>5

\* Induction, on the set of the numbers for which something holds.
LEMMA AllNumbers ==
    ASSUME NEW S \in SUBSET Nat, 0 \in S, \A n \in S : n + 1 \in S
    PROVE  \A n \in Nat : n \in S
<1>1. ASSUME NEW m \in Nat \ S PROVE FALSE
  <2>1. PICK k \in Nat \ S : \A i \in Nat \ S : k <= i
    <3>1. Nat \ S \in SUBSET Nat /\ Nat \ S # {}
      BY <1>1
    <3>2. QED
      BY <3>1, LeastNumber
  <2>2. k - 1 \in Nat /\ k - 1 \in S
    BY <2>1
  <2>3. (k - 1) + 1 = k
    BY <2>1
  <2>4. QED
    BY <2>1, <2>2, <2>3
<1>2. QED
  BY <1>1

\* The largest number of a set of numbers that holds n and nothing beyond.
LEMMA MaxIs ==
    ASSUME NEW n \in Nat, NEW s \in SUBSET Nat, n \in s, \A i \in s : i <= n
    PROVE  Max(s) = n
<1>1. \A x \in s : (\A y \in s : x >= y) => x = n
  OBVIOUS
<1>2. \A y \in s : n >= y
  OBVIOUS
<1> QED
  BY <1>1, <1>2 DEF Max

\* A set of numbers up to n has a largest.
LEMMA MaxOf ==
    ASSUME NEW n \in Nat, NEW s \in SUBSET (1 .. n), s # {}
    PROVE  Max(s) \in s
<1> DEFINE S == {n - i : i \in s}
<1>1. S \in SUBSET Nat /\ S # {}
  <2>1. \A i \in s : n - i \in Nat
    OBVIOUS
  <2> QED
    BY <2>1
<1>2. PICK m \in S : \A k \in S : m <= k
  <2> HIDE DEF S
  <2> QED
    BY <1>1, LeastNumber
<1>3. PICK x \in s : m = n - x
  OBVIOUS
<1>4. \A y \in s : n - x <= n - y
  BY <1>2, <1>3
<1>5. \A y \in s : x >= y
  BY <1>4
<1> QED
  BY <1>5 DEF Max

\* A fold over sets of numbers, by their largest, as MapThenFoldSet does it: h says what
\* the number i makes of a value.
IsFold(g, n, base, h) ==
    \A s \in SUBSET (1 .. n) : g[s] = IF s = {} THEN base ELSE h[<<Max(s), g[s \ {Max(s)}]>>]

LEMMA FoldExists ==
    ASSUME NEW N \in Nat, NEW R, NEW base \in R, NEW h \in [(1 .. N) \X R -> R]
    PROVE  \E g \in [SUBSET (1 .. N) -> R] : IsFold(g, N, base, h)
<1> DEFINE S == {n \in Nat : n <= N => \E g \in [SUBSET (1 .. n) -> R] : IsFold(g, n, base, h)}
<1>1. 0 \in S
  <2>1. SUBSET (1 .. 0) = {{}}
    OBVIOUS
  <2>2. PICK g : g = [s \in SUBSET (1 .. 0) |-> base]
    OBVIOUS
  <2>3. g \in [SUBSET (1 .. 0) -> R] /\ g[{}] = base
    BY <2>1, <2>2
  <2>4. IsFold(g, 0, base, h)
    BY <2>1, <2>3 DEF IsFold
  <2> QED
    BY <2>3, <2>4
<1>2. ASSUME NEW n \in S PROVE n + 1 \in S
  <2>1. n \in Nat /\ n + 1 \in Nat
    OBVIOUS
  <2>2. SUFFICES ASSUME n + 1 <= N
                 PROVE  \E g \in [SUBSET (1 .. n + 1) -> R] : IsFold(g, n + 1, base, h)
    BY <2>1
  <2>3. PICK f \in [SUBSET (1 .. n) -> R] : IsFold(f, n, base, h)
    <3>1. n <= N
      BY <2>1, <2>2
    <3> QED
      BY <3>1, Zenon
  <2>4. PICK g : g = [s \in SUBSET (1 .. n + 1) |->
                        IF n + 1 \in s THEN h[<<n + 1, f[s \ {n + 1}]>>] ELSE f[s]]
    OBVIOUS
  <2>5. \A s \in SUBSET (1 .. n + 1) : /\ n + 1 \notin s => s \in SUBSET (1 .. n)
                                       /\ s \ {n + 1} \in SUBSET (1 .. n)
    BY <2>1
  <2>6. \A s \in SUBSET (1 .. n + 1) : n + 1 \in s => <<n + 1, f[s \ {n + 1}]>> \in (1 .. N) \X R
    BY <2>1, <2>2, <2>5
  <2>7. g \in [SUBSET (1 .. n + 1) -> R]
    BY <2>4, <2>5, <2>6
  <2>8. ASSUME NEW s \in SUBSET (1 .. n) PROVE g[s] = f[s]
    <3>1. s \in SUBSET (1 .. n + 1) /\ n + 1 \notin s
      BY <2>1
    <3> QED
      BY <2>4, <3>1
  <2>9. ASSUME NEW s \in SUBSET (1 .. n + 1)
        PROVE  g[s] = IF s = {} THEN base ELSE h[<<Max(s), g[s \ {Max(s)}]>>]
    <3>1. CASE n + 1 \in s
      <4>1. Max(s) = n + 1
        BY <2>1, <3>1, MaxIs
      <4>2. g[s \ {n + 1}] = f[s \ {n + 1}]
        BY <2>5, <2>8
      <4>3. g[s] = h[<<n + 1, f[s \ {n + 1}]>>]
        BY <2>4, <3>1
      <4> QED
        BY <3>1, <4>1, <4>2, <4>3
    <3>2. CASE n + 1 \notin s /\ s # {}
      <4>1. s \in SUBSET (1 .. n) /\ s \ {Max(s)} \in SUBSET (1 .. n)
        BY <2>5, <3>2
      <4>2. g[s] = f[s] /\ g[s \ {Max(s)}] = f[s \ {Max(s)}]
        BY <2>8, <4>1
      <4>3. f[s] = h[<<Max(s), f[s \ {Max(s)}]>>]
        BY <2>3, <3>2, <4>1 DEF IsFold
      <4> QED
        BY <3>2, <4>2, <4>3
    <3>3. CASE s = {}
      <4>1. s \in SUBSET (1 .. n)
        BY <3>3
      <4>2. f[s] = base
        BY <2>3, <3>3, <4>1 DEF IsFold
      <4> QED
        BY <2>8, <3>3, <4>1, <4>2
    <3> QED
      BY <3>1, <3>2, <3>3
  <2> QED
    BY <2>7, <2>9 DEF IsFold
<1> HIDE DEF S
<1>3. S \in SUBSET Nat
  BY DEF S
<1>4. N \in S
  BY <1>1, <1>2, <1>3, AllNumbers
<1>5. N <= N
  OBVIOUS
<1> QED
  BY <1>4, <1>5, Zenon DEF S

\* Such a fold goes from base to its value in N steps, one for each number.
StepsTo(v, w, N, base, h) ==
    /\ w[0] = base /\ w[N] = v
    /\ \A k \in 0 .. N - 1 : w[k + 1] = h[<<k + 1, w[k]>>]

Folds(g, N, R, base, h) ==
    /\ g[{}] = base
    /\ \A s \in SUBSET (1 .. N) : s # {} /\ g[s \ {Max(s)}] \in R
                                 => g[s] = h[<<Max(s), g[s \ {Max(s)}]>>]

LEMMA FoldSteps ==
    ASSUME NEW N \in Nat, NEW R, NEW base \in R, NEW h \in [(1 .. N) \X R -> R],
           NEW g, Folds(g, N, R, base, h)
    PROVE  \E w \in [0 .. N -> R] : StepsTo(g[1 .. N], w, N, base, h)
<1>1. g[1 .. 0] = base
  <2>1. 1 .. 0 = {}
    OBVIOUS
  <2> QED
    BY <2>1 DEF Folds
<1>2. ASSUME NEW k \in 0 .. N - 1, g[1 .. k] \in R PROVE g[1 .. k + 1] = h[<<k + 1, g[1 .. k]>>]
  <2>1. 1 .. k + 1 \in SUBSET (1 .. N) /\ k + 1 \in 1 .. k + 1
    OBVIOUS
  <2>2. (1 .. k + 1) \ {k + 1} = 1 .. k
    OBVIOUS
  <2>3. Max(1 .. k + 1) = k + 1
    <3>1. k + 1 \in Nat /\ 1 .. k + 1 \in SUBSET Nat /\ \A i \in 1 .. k + 1 : i <= k + 1
      OBVIOUS
    <3> QED
      BY <2>1, <3>1, MaxIs
  <2>4. 1 .. k + 1 # {}
    BY <2>1
  <2> QED
    BY <1>2, <2>1, <2>2, <2>3, <2>4 DEF Folds
<1> DEFINE S == {n \in Nat : n <= N => g[1 .. n] \in R}
<1>3. 0 \in S
  BY <1>1
<1>4. ASSUME NEW n \in S PROVE n + 1 \in S
  <2>1. n \in Nat /\ n + 1 \in Nat
    OBVIOUS
  <2>2. SUFFICES ASSUME n + 1 <= N PROVE g[1 .. n + 1] \in R
    BY <2>1
  <2>3. n \in 0 .. N - 1 /\ n + 1 \in 1 .. N /\ n <= N
    BY <2>1, <2>2
  <2>4. g[1 .. n] \in R
    BY <2>3
  <2>5. <<n + 1, g[1 .. n]>> \in (1 .. N) \X R
    BY <2>3, <2>4
  <2> QED
    BY <1>2, <2>3, <2>4, <2>5
<1>5. S \in SUBSET Nat
  OBVIOUS
<1>6. \A n \in Nat : n \in S
  <2> HIDE DEF S
  <2> QED
    BY <1>3, <1>4, <1>5, AllNumbers
<1>7. \A k \in 0 .. N : g[1 .. k] \in R
  BY <1>6
<1> DEFINE w == [k \in 0 .. N |-> g[1 .. k]]
<1>8. w \in [0 .. N -> R] /\ w[N] = g[1 .. N]
  BY <1>7
<1>9. StepsTo(g[1 .. N], w, N, base, h)
  <2>1. \A k \in 0 .. N - 1 : k \in 0 .. N /\ k + 1 \in 0 .. N
    OBVIOUS
  <2>2. 0 \in 0 .. N
    OBVIOUS
  <2> QED
    BY <1>1, <1>2, <1>7, <1>8, <2>1, <2>2 DEF StepsTo
<1> QED
  BY <1>8, <1>9

-----------------------------------------------------------------------------
(* The lines of a page's keys.                                             *)

LinesOf(keys) == FoldLeft(LAMBDA n, x : n + WbLines[x.name], 0, keys)

LEMMA LinesSteps ==
    ASSUME NEW K, \A x \in K : WbLines[x.name] \in Nat, NEW keys \in Seq(K)
    PROVE  \E w \in [0 .. Len(keys) -> Nat] :
             /\ w[0] = 0
             /\ \A k \in 0 .. Len(keys) - 1 : w[k + 1] = w[k] + WbLines[keys[k + 1].name]
             /\ w[Len(keys)] = LinesOf(keys)
<1> DEFINE N == Len(keys)
           h == [p \in (1 .. N) \X Nat |-> p[2] + WbLines[keys[p[1]].name]]
           Meets(g) == g = [s \in SUBSET DOMAIN keys |->
                              IF s = {} THEN 0 ELSE g[s \ {Max(s)}] + WbLines[keys[Max(s)].name]]
           it == CHOOSE g : Meets(g)
<1>1. N \in Nat /\ DOMAIN keys = 1 .. N /\ \A i \in 1 .. N : keys[i] \in K
  OBVIOUS
<1>2. h \in [(1 .. N) \X Nat -> Nat]
  BY <1>1
<1>3. \A s \in SUBSET (1 .. N) : s # {} => Max(s) \in 1 .. N /\ s \ {Max(s)} \in SUBSET (1 .. N)
  BY <1>1, MaxOf
<1>4. LinesOf(keys) = it[DOMAIN keys]
  BY DEF LinesOf, FoldLeft, MapThenFoldSet
<1>5. Meets(it)
  <2>1. PICK g \in [SUBSET (1 .. N) -> Nat] : IsFold(g, N, 0, h)
    BY <1>1, <1>2, FoldExists
  <2>2. Meets(g)
    BY <1>1, <1>3, <2>1 DEF IsFold
  <2> HIDE DEF Meets
  <2> QED
    BY <2>2
<1>6. \E w \in [0 .. N -> Nat] : StepsTo(it[1 .. N], w, N, 0, h)
  <2> HIDE DEF it
  <2>1. it[{}] = 0
    BY <1>5
  <2>2. ASSUME NEW s \in SUBSET (1 .. N), s # {}, it[s \ {Max(s)}] \in Nat
        PROVE  it[s] = h[<<Max(s), it[s \ {Max(s)}]>>]
    BY <1>1, <1>3, <1>5, <2>2
  <2>3. N \in Nat /\ 0 \in Nat
    BY <1>1
  <2>4. h \in [(1 .. N) \X Nat -> Nat]
    BY <1>2
  <2>5. Folds(it, N, Nat, 0, h)
    BY <2>1, <2>2 DEF Folds
  <2> HIDE DEF h, N
  <2> QED
    BY <2>3, <2>4, <2>5, FoldSteps
<1> QED
  <2> HIDE DEF it
  <2>1. PICK w \in [0 .. N -> Nat] : StepsTo(it[1 .. N], w, N, 0, h)
    BY <1>6
  <2>2. \A k \in 0 .. N - 1 : <<k + 1, w[k]>> \in (1 .. N) \X Nat
    <3>1. N \in Nat
      BY <1>1
    <3> HIDE DEF N, h, Meets
    <3>2. \A k \in 0 .. N - 1 : k + 1 \in 1 .. N /\ k \in 0 .. N
      BY <3>1
    <3> QED
      BY <3>2
  <2>3. \A k \in 0 .. N - 1 : w[k + 1] = w[k] + WbLines[keys[k + 1].name]
    BY <2>1, <2>2 DEF StepsTo
  <2> QED
    BY <1>1, <1>4, <2>1, <2>3 DEF StepsTo

\* The names alone decide how many lines keys take: a sequence of keys that begins with the
\* names of another takes the lines of that one and those of the keys beyond.
LEMMA LinesAgree ==
    ASSUME NEW K, \A x \in K : WbLines[x.name] \in Nat,
           NEW keys \in Seq(K), NEW more \in Seq(K), Len(keys) <= Len(more),
           \A i \in 1 .. Len(keys) : more[i].name = keys[i].name
    PROVE  /\ LinesOf(keys) \in Nat
           /\ Len(more) = Len(keys) => LinesOf(more) = LinesOf(keys)
           /\ Len(more) = Len(keys) + 1
              => LinesOf(more) = LinesOf(keys) + WbLines[more[Len(more)].name]
<1> DEFINE N == Len(keys)
<1>1. N \in Nat /\ Len(more) \in Nat
  OBVIOUS
<1>2. PICK w \in [0 .. N -> Nat] :
         /\ w[0] = 0
         /\ \A k \in 0 .. N - 1 : w[k + 1] = w[k] + WbLines[keys[k + 1].name]
         /\ w[N] = LinesOf(keys)
  BY LinesSteps
<1>3. PICK x \in [0 .. Len(more) -> Nat] :
         /\ x[0] = 0
         /\ \A k \in 0 .. Len(more) - 1 : x[k + 1] = x[k] + WbLines[more[k + 1].name]
         /\ x[Len(more)] = LinesOf(more)
  BY LinesSteps
<1> DEFINE S == {n \in Nat : n <= N => x[n] = w[n]}
<1>4. 0 \in S
  BY <1>2, <1>3
<1>5. ASSUME NEW n \in S PROVE n + 1 \in S
  <2>1. SUFFICES ASSUME n + 1 <= N PROVE x[n + 1] = w[n + 1]
    OBVIOUS
  <2>2. n \in 0 .. N - 1 /\ n \in 0 .. Len(more) - 1 /\ n + 1 \in 1 .. N /\ x[n] = w[n]
    BY <1>1, <2>1
  <2>3. more[n + 1].name = keys[n + 1].name
    BY <2>2
  <2> QED
    BY <1>2, <1>3, <2>2, <2>3
<1>6. N \in S
  <2>1. S \in SUBSET Nat
    OBVIOUS
  <2> HIDE DEF S, N
  <2> QED
    BY <1>1, <1>4, <1>5, <2>1, AllNumbers
<1>7. x[N] = w[N] /\ w[N] \in Nat
  BY <1>1, <1>6
<1>8. ASSUME Len(more) = N + 1 PROVE x[N + 1] = x[N] + WbLines[more[N + 1].name]
  <2>1. N \in 0 .. Len(more) - 1
    BY <1>1, <1>8
  <2> HIDE DEF N
  <2> QED
    BY <1>3, <2>1
<1> QED
  BY <1>1, <1>2, <1>3, <1>7, <1>8

-----------------------------------------------------------------------------
(* Pages.                                                                  *)

Key == [name : WbNames, lines : Nat, e : WbEntries]

\* A page holds the keys its lines are counted for; one of more than WB_MAXLINESPERPAGE lines
\* is full, and so is the page of a key that has a page of its own.
PageOK(p) ==
    /\ p.free <= p.lines
    /\ p.free = LinesOf(p.keys)
    /\ p.lines > WbMaxLines => p.free = p.lines
    /\ \A j \in DOMAIN p.keys : p.keys[j].lines = 0 => Len(p.keys) = 1 /\ p.free = p.lines

PagesOK(pages) == pages \in Seq(WbPages) /\ \A i \in DOMAIN pages : PageOK(pages[i])

LEMMA KeyLines == \A x \in Key : WbLines[x.name] \in Nat \ {0}
BY WbAssumption DEF Key

LEMMA PageType ==
    ASSUME NEW pages \in Seq(WbPages), NEW i \in DOMAIN pages
    PROVE  /\ i \in Nat /\ i >= 1 /\ i <= Len(pages) /\ Len(pages) \in Nat
           /\ pages[i] \in WbPages
           /\ pages[i].lines \in Nat /\ pages[i].free \in Nat /\ pages[i].keys \in Seq(Key)
<1>1. Len(pages) \in Nat /\ DOMAIN pages = 1 .. Len(pages) /\ pages[i] \in WbPages
  OBVIOUS
<1>2. \A p \in WbPages : p.lines \in Nat /\ p.free \in Nat /\ p.keys \in Seq(Key)
  BY DEF WbPages, Key
<1> QED
  BY <1>1, <1>2

LEMMA KeyType ==
    ASSUME NEW keys \in Seq(Key), NEW j \in DOMAIN keys
    PROVE  /\ j \in Nat /\ j >= 1 /\ j <= Len(keys) /\ Len(keys) \in Nat
           /\ keys[j] \in Key
           /\ keys[j].name \in WbNames /\ keys[j].lines \in Nat /\ keys[j].e \in WbEntries
<1>1. Len(keys) \in Nat /\ DOMAIN keys = 1 .. Len(keys) /\ keys[j] \in Key
  OBVIOUS
<1>2. \A x \in Key : x.name \in WbNames /\ x.lines \in Nat /\ x.e \in WbEntries
  BY DEF Key
<1> QED
  BY <1>1, <1>2

\* A search meets every key of a page.
LEMMA KeysOfIs ==
    ASSUME NEW p \in WbPages, PageOK(p)
    PROVE  KeysOf(p) = DOMAIN p.keys
<1>1. p.keys \in Seq(Key)
  BY DEF WbPages, Key
<1>2. CASE p.keys # <<>> /\ Head(p.keys).lines = 0
  <2>1. 1 \in DOMAIN p.keys /\ Head(p.keys) = p.keys[1]
    BY <1>1, <1>2
  <2>2. Len(p.keys) = 1
    BY <1>2, <2>1 DEF PageOK
  <2>3. DOMAIN p.keys = {1}
    BY <1>1, <2>2
  <2> QED
    BY <1>2, <2>3 DEF KeysOf
<1> QED
  BY <1>2 DEF KeysOf

LEMMA PlaceIs ==
    ASSUME NEW pages, PagesOK(pages), NEW h
    PROVE  h \in Places(pages) <=> /\ h = <<h[1], h[2]>>
                                   /\ h[1] \in DOMAIN pages
                                   /\ h[2] \in DOMAIN pages[h[1]].keys
<1>1. \A i \in DOMAIN pages : KeysOf(pages[i]) = DOMAIN pages[i].keys
  <2> TAKE i \in DOMAIN pages
  <2>1. pages[i] \in WbPages /\ PageOK(pages[i])
    BY PageType DEF PagesOK
  <2> QED
    BY <2>1, KeysOfIs
<1>2. h \in Places(pages) <=> \E i \in DOMAIN pages : h \in {i} \X KeysOf(pages[i])
  BY DEF Places
<1> QED
  BY <1>1, <1>2

NameIn(pages, h) == pages[h[1]].keys[h[2]].name

LEMMA PlaceType ==
    ASSUME NEW pages, PagesOK(pages), NEW h \in Places(pages)
    PROVE  /\ h[1] \in DOMAIN pages /\ h[2] \in DOMAIN pages[h[1]].keys
           /\ NameIn(pages, h) \in WbNames /\ EntryIn(pages, h) \in WbEntries
<1>1. h[1] \in DOMAIN pages /\ h[2] \in DOMAIN pages[h[1]].keys
  BY PlaceIs
<1>2. pages \in Seq(WbPages)
  BY DEF PagesOK
<1>3. pages[h[1]].keys \in Seq(Key)
  BY <1>1, <1>2, PageType
<1> QED
  BY <1>1, <1>3, KeyType DEF NameIn, EntryIn

LEMMA HitIs ==
    ASSUME NEW pages, NEW k, NEW h
    PROVE  h \in Hits(pages, k) <=> h \in Places(pages) /\ NameIn(pages, h) = k
BY DEF Hits, Places, NameIn

\* What setting entries leaves alone: every page with its lines, and the names in it.
SameKeys(p, q) ==
    /\ q \in Seq(WbPages) /\ DOMAIN q = DOMAIN p
    /\ \A i \in DOMAIN p :
         /\ q[i].lines = p[i].lines /\ q[i].free = p[i].free
         /\ DOMAIN q[i].keys = DOMAIN p[i].keys
         /\ \A j \in DOMAIN p[i].keys : /\ q[i].keys[j].name = p[i].keys[j].name
                                        /\ q[i].keys[j].lines = p[i].keys[j].lines

LEMMA SameKeysFit ==
    ASSUME NEW p, PagesOK(p), NEW q, SameKeys(p, q)
    PROVE  /\ PagesOK(q) /\ Places(q) = Places(p)
           /\ \A h \in Places(p) : NameIn(q, h) = NameIn(p, h)
<1>1. ASSUME NEW i \in DOMAIN q PROVE PageOK(q[i])
  <2>1. i \in DOMAIN p /\ p \in Seq(WbPages) /\ q \in Seq(WbPages) /\ PageOK(p[i])
    BY DEF SameKeys, PagesOK
  <2>2. p[i].keys \in Seq(Key) /\ q[i].keys \in Seq(Key)
    BY <2>1, <1>1, PageType
  <2>3. DOMAIN q[i].keys = DOMAIN p[i].keys /\ Len(q[i].keys) = Len(p[i].keys)
    <3>1. DOMAIN q[i].keys = DOMAIN p[i].keys
      BY <2>1 DEF SameKeys
    <3> QED
      BY <2>2, <3>1
  <2>4. \A j \in 1 .. Len(p[i].keys) : q[i].keys[j].name = p[i].keys[j].name
    BY <2>1, <2>2 DEF SameKeys
  <2>5. LinesOf(q[i].keys) = LinesOf(p[i].keys)
    <3>1. \A x \in Key : WbLines[x.name] \in Nat
      BY KeyLines
    <3>2. Len(p[i].keys) <= Len(q[i].keys)
      BY <2>2, <2>3
    <3> QED
      BY <2>2, <2>3, <2>4, <3>1, <3>2, LinesAgree
  <2>6. q[i].lines = p[i].lines /\ q[i].free = p[i].free
    BY <2>1 DEF SameKeys
  <2>7. \A j \in DOMAIN p[i].keys : q[i].keys[j].lines = p[i].keys[j].lines
    BY <2>1 DEF SameKeys
  <2> QED
    BY <2>1, <2>3, <2>5, <2>6, <2>7 DEF PageOK
<1>2. PagesOK(q)
  BY <1>1 DEF PagesOK, SameKeys
<1>3. \A h : h \in Places(q) <=> h \in Places(p)
  <2> TAKE h
  <2>1. h[1] \in DOMAIN q <=> h[1] \in DOMAIN p
    BY DEF SameKeys
  <2>2. h[1] \in DOMAIN p => DOMAIN q[h[1]].keys = DOMAIN p[h[1]].keys
    BY DEF SameKeys
  <2> QED
    BY <1>2, <2>1, <2>2, PlaceIs
<1>4. ASSUME NEW h \in Places(p) PROVE NameIn(q, h) = NameIn(p, h)
  BY <1>4, PlaceType DEF SameKeys, NameIn
<1> QED
  BY <1>2, <1>3, <1>4

\* A function on the numbers up to n is a sequence.
LEMMA FunctionIsSeq ==
    ASSUME NEW S, NEW n \in Nat, NEW f \in [1 .. n -> S]
    PROVE  f \in Seq(S) /\ Len(f) = n
OBVIOUS

\* SetEntry gives one place an entry.
LEMMA SetEntryIs ==
    ASSUME NEW pages, PagesOK(pages), NEW k, Lookup(pages, k) # {}, NEW e \in WbEntries
    PROVE  /\ SameKeys(pages, SetEntry(pages, k, e))
           /\ \E h \in Hits(pages, k) :
                /\ LookupEntry(pages, k) = EntryIn(pages, h)
                /\ \A g \in Places(pages) :
                     EntryIn(SetEntry(pages, k, e), g) = IF g = h THEN e ELSE EntryIn(pages, g)
<1> DEFINE h == CHOOSE h \in Lookup(pages, k) : TRUE
           q == SetEntry(pages, k, e)
           i == h[1]
           j == h[2]
<1>1. h \in Hits(pages, k)
  BY DEF Lookup
<1>2. h \in Places(pages) /\ i \in DOMAIN pages /\ j \in DOMAIN pages[i].keys /\ h = <<i, j>>
  <2> HIDE DEF h
  <2> QED
    BY <1>1, HitIs, PlaceIs
<1>3. q = [pages EXCEPT ![i].keys[j].e = e]
  BY DEF SetEntry
<1>4. LookupEntry(pages, k) = EntryIn(pages, h)
  BY DEF LookupEntry, EntryIn
<1> HIDE DEF h, q
<1>5. pages \in Seq(WbPages) /\ pages[i] \in WbPages /\ pages[i].keys \in Seq(Key)
  BY <1>2, PageType DEF PagesOK
<1>6. DOMAIN q = DOMAIN pages /\ \A x \in DOMAIN pages : x # i => q[x] = pages[x]
  BY <1>3, <1>5
<1>7. q[i] = [pages[i] EXCEPT !.keys[j].e = e]
  BY <1>2, <1>3, <1>5
<1>8. /\ q[i].lines = pages[i].lines /\ q[i].free = pages[i].free
      /\ q[i].keys = [pages[i].keys EXCEPT ![j].e = e]
  BY <1>5, <1>7 DEF WbPages
<1>9. /\ DOMAIN q[i].keys = DOMAIN pages[i].keys
      /\ \A x \in DOMAIN pages[i].keys : x # j => q[i].keys[x] = pages[i].keys[x]
      /\ q[i].keys[j] = [pages[i].keys[j] EXCEPT !.e = e]
  BY <1>2, <1>5, <1>8
<1>10. /\ q[i].keys[j] \in Key /\ q[i].keys[j].e = e
       /\ q[i].keys[j].name = pages[i].keys[j].name /\ q[i].keys[j].lines = pages[i].keys[j].lines
  <2>1. pages[i].keys[j] \in Key
    BY <1>2, <1>5
  <2> QED
    BY <1>9, <2>1 DEF Key
<1>11. q[i] \in WbPages
  <2>1. \A x \in DOMAIN pages[i].keys : q[i].keys[x] \in Key
    BY <1>5, <1>9, <1>10
  <2>2. q[i].keys \in Seq(Key)
    <3>1. q[i].keys = [x \in DOMAIN pages[i].keys |-> q[i].keys[x]]
      BY <1>5, <1>8
    <3>2. DOMAIN pages[i].keys = 1 .. Len(pages[i].keys) /\ Len(pages[i].keys) \in Nat
      BY <1>5
    <3> QED
      BY <2>1, <3>1, <3>2
  <2>3. q[i] = [pages[i] EXCEPT !.keys = q[i].keys]
    BY <1>5, <1>7 DEF WbPages
  <2> HIDE DEF i, j
  <2> QED
    BY <1>5, <2>2, <2>3 DEF WbPages, Key
<1>12. q \in Seq(WbPages)
  <2>1. q = [x \in DOMAIN pages |-> q[x]]
    BY <1>3, <1>5
  <2>2. DOMAIN pages = 1 .. Len(pages) /\ Len(pages) \in Nat
    BY <1>5
  <2>3. \A x \in DOMAIN pages : q[x] \in WbPages
    BY <1>5, <1>6, <1>11
  <2> QED
    BY <2>1, <2>2, <2>3
<1>13. SameKeys(pages, q)
  BY <1>2, <1>6, <1>8, <1>9, <1>10, <1>12 DEF SameKeys
<1>14. ASSUME NEW g \in Places(pages)
       PROVE  EntryIn(q, g) = IF g = h THEN e ELSE EntryIn(pages, g)
  <2>1. g = <<g[1], g[2]>> /\ g[1] \in DOMAIN pages /\ g[2] \in DOMAIN pages[g[1]].keys
    BY PlaceIs
  <2>2. CASE g[1] # i
    BY <1>2, <1>6, <2>1, <2>2 DEF EntryIn
  <2>3. CASE g[1] = i /\ g[2] # j
    <3>1. g # h /\ q[g[1]].keys[g[2]] = pages[g[1]].keys[g[2]]
      BY <1>9, <2>1, <2>3
    <3> QED
      BY <3>1 DEF EntryIn
  <2>4. CASE g[1] = i /\ g[2] = j
    BY <1>2, <1>10, <2>1, <2>4 DEF EntryIn
  <2> QED
    BY <2>2, <2>3, <2>4
<1> QED
  BY <1>1, <1>4, <1>13, <1>14 DEF q

\* Check gives entries to the places it is called for.
LEMMA CheckIs ==
    ASSUME NEW pages, PagesOK(pages), NEW new,
           \A h \in Places(pages) : h \in DOMAIN new => new[h] \in WbEntries
    PROVE  /\ SameKeys(pages, Check(pages, new))
           /\ \A g \in Places(pages) :
                EntryIn(Check(pages, new), g) = IF g \in DOMAIN new THEN new[g] ELSE EntryIn(pages, g)
<1> DEFINE q == Check(pages, new)
           KeysAt(i) == [j \in DOMAIN pages[i].keys |->
                           IF <<i, j>> \in DOMAIN new THEN [pages[i].keys[j] EXCEPT !.e = new[<<i, j>>]]
                           ELSE pages[i].keys[j]]
<1>1. q = [i \in DOMAIN pages |-> [pages[i] EXCEPT !.keys = KeysAt(i)]]
  BY DEF Check
<1>2. pages \in Seq(WbPages) /\ DOMAIN pages = 1 .. Len(pages) /\ Len(pages) \in Nat
  BY DEF PagesOK
<1>3. ASSUME NEW i \in DOMAIN pages, NEW j \in DOMAIN pages[i].keys
      PROVE  /\ KeysAt(i)[j] \in Key
             /\ KeysAt(i)[j].name = pages[i].keys[j].name
             /\ KeysAt(i)[j].lines = pages[i].keys[j].lines
             /\ KeysAt(i)[j].e = IF <<i, j>> \in DOMAIN new THEN new[<<i, j>>]
                                 ELSE pages[i].keys[j].e
  <2>1. pages[i].keys \in Seq(Key)
    BY <1>2, PageType
  <2>2. pages[i].keys[j] \in Key
    BY <2>1
  <2>3. <<i, j>> \in Places(pages)
    BY PlaceIs
  <2>4. CASE <<i, j>> \in DOMAIN new
    <3>1. new[<<i, j>>] \in WbEntries
      BY <2>3, <2>4
    <3>2. KeysAt(i)[j] = [pages[i].keys[j] EXCEPT !.e = new[<<i, j>>]]
      BY <2>4
    <3> QED
      BY <2>2, <2>4, <3>1, <3>2 DEF Key
  <2>5. CASE <<i, j>> \notin DOMAIN new
    BY <2>2, <2>5
  <2> QED
    BY <2>4, <2>5
<1>4. ASSUME NEW i \in DOMAIN pages
      PROVE  KeysAt(i) \in Seq(Key) /\ DOMAIN KeysAt(i) = DOMAIN pages[i].keys
  <2>1. pages[i].keys \in Seq(Key)
    BY <1>2, PageType
  <2>2. DOMAIN pages[i].keys = 1 .. Len(pages[i].keys) /\ Len(pages[i].keys) \in Nat
    BY <2>1
  <2>3. DOMAIN KeysAt(i) = DOMAIN pages[i].keys
    OBVIOUS
  <2>4. KeysAt(i) \in [1 .. Len(pages[i].keys) -> Key]
    <3>1. \A j \in DOMAIN pages[i].keys : KeysAt(i)[j] \in Key
      BY <1>3
    <3>2. KeysAt(i) = [j \in DOMAIN pages[i].keys |-> KeysAt(i)[j]]
      OBVIOUS
    <3> HIDE DEF KeysAt
    <3> QED
      BY <2>2, <3>1, <3>2
  <2> HIDE DEF KeysAt
  <2> QED
    BY <2>2, <2>3, <2>4, FunctionIsSeq
<1>5. ASSUME NEW i \in DOMAIN pages
      PROVE  /\ q[i] \in WbPages /\ q[i].keys = KeysAt(i)
             /\ q[i].lines = pages[i].lines /\ q[i].free = pages[i].free
  <2>1. q[i] = [pages[i] EXCEPT !.keys = KeysAt(i)]
    BY <1>1
  <2>2. pages[i] \in WbPages /\ KeysAt(i) \in Seq(Key)
    BY <1>2, <1>4
  <2>3. WbPages = [lines : Nat, free : Nat, keys : Seq(Key)]
    BY DEF WbPages, Key
  <2> HIDE DEF KeysAt, q
  <2> QED
    BY <2>1, <2>2, <2>3
<1>6. DOMAIN q = DOMAIN pages
  BY <1>1
<1> HIDE DEF KeysAt, q
<1>7. q \in Seq(WbPages)
  <2>1. q \in [1 .. Len(pages) -> WbPages]
    BY <1>1, <1>2, <1>5, <1>6
  <2> QED
    BY <1>2, <2>1, FunctionIsSeq
<1>8. SameKeys(pages, q)
  BY <1>3, <1>4, <1>5, <1>6, <1>7 DEF SameKeys
<1>9. ASSUME NEW g \in Places(pages)
      PROVE  EntryIn(q, g) = IF g \in DOMAIN new THEN new[g] ELSE EntryIn(pages, g)
  <2>1. g = <<g[1], g[2]>> /\ g[1] \in DOMAIN pages /\ g[2] \in DOMAIN pages[g[1]].keys
    BY PlaceIs
  <2>2. q[g[1]].keys[g[2]].e = IF g \in DOMAIN new THEN new[g] ELSE pages[g[1]].keys[g[2]].e
    BY <1>3, <1>5, <2>1
  <2> QED
    BY <2>2 DEF EntryIn
<1> QED
  BY <1>8, <1>9 DEF q

\* The pages in the other order.
LEMMA ReverseIs ==
    ASSUME NEW pages, PagesOK(pages)
    PROVE  /\ PagesOK(Reverse(pages)) /\ Len(Reverse(pages)) = Len(pages)
           /\ \A i, j : <<i, j>> \in Places(Reverse(pages)) <=>
                          i \in DOMAIN pages /\ <<Len(pages) - i + 1, j>> \in Places(pages)
           /\ \A i \in DOMAIN pages : Reverse(pages)[i] = pages[Len(pages) - i + 1]
<1> DEFINE n == Len(pages)
           q == Reverse(pages)
<1>1. pages \in Seq(WbPages) /\ n \in Nat /\ DOMAIN pages = 1 .. n
  BY DEF PagesOK
<1>2. q = [i \in 1 .. n |-> pages[n - i + 1]]
  BY DEF Reverse
<1>3. \A i \in 1 .. n : n - i + 1 \in 1 .. n
  BY <1>1
<1> HIDE DEF n, q
<1>4. q \in [1 .. n -> WbPages] /\ \A i \in 1 .. n : q[i] = pages[n - i + 1]
  BY <1>1, <1>2, <1>3
<1>5. q \in Seq(WbPages) /\ Len(q) = n /\ DOMAIN q = 1 .. n
  BY <1>1, <1>4, FunctionIsSeq
<1>6. PagesOK(q)
  <2>1. ASSUME NEW i \in DOMAIN q PROVE PageOK(q[i])
    <3>1. n - i + 1 \in DOMAIN pages /\ q[i] = pages[n - i + 1]
      BY <1>1, <1>3, <1>4, <1>5
    <3> QED
      BY <3>1 DEF PagesOK
  <2> QED
    BY <1>5, <2>1 DEF PagesOK
<1>7. \A i, j : <<i, j>> \in Places(q) <=> i \in 1 .. n /\ <<n - i + 1, j>> \in Places(pages)
  <2> TAKE i, j
  <2>1. <<i, j>> \in Places(q) <=> i \in 1 .. n /\ j \in DOMAIN q[i].keys
    BY <1>5, <1>6, PlaceIs
  <2>2. <<n - i + 1, j>> \in Places(pages)
        <=> n - i + 1 \in 1 .. n /\ j \in DOMAIN pages[n - i + 1].keys
    BY <1>1, PlaceIs
  <2> QED
    BY <1>3, <1>4, <2>1, <2>2
<1> QED
  BY <1>1, <1>4, <1>5, <1>6, <1>7 DEF n, q

\* A new page is at the head of the chain and moves every other one by one.
LEMMA NewPageIs ==
    ASSUME NEW pages \in Seq(WbPages), NEW n \in Nat
    PROVE  /\ NewPage(pages, n) \in Seq(WbPages)
           /\ Len(NewPage(pages, n)) = Len(pages) + 1
           /\ NewPage(pages, n)[1] = [lines |-> n, free |-> 0, keys |-> <<>>]
           /\ \A i \in DOMAIN pages : NewPage(pages, n)[i + 1] = pages[i]
           /\ \A i \in DOMAIN NewPage(pages, n) : i # 1 => i - 1 \in DOMAIN pages
<1> DEFINE p == [lines |-> n, free |-> 0, keys |-> <<>>]
<1>1. p \in WbPages
  <2>1. <<>> \in Seq(Key)
    OBVIOUS
  <2> QED
    BY <2>1 DEF WbPages, Key
<1> HIDE DEF p
<1>2. <<p>> \o pages \in Seq(WbPages) /\ Len(<<p>> \o pages) = Len(pages) + 1
  BY <1>1
<1>3. (<<p>> \o pages)[1] = p /\ \A i \in DOMAIN pages : (<<p>> \o pages)[i + 1] = pages[i]
  BY <1>1
<1>4. \A i \in DOMAIN (<<p>> \o pages) : i # 1 => i - 1 \in DOMAIN pages
  BY <1>1, <1>2
<1> QED
  BY <1>2, <1>3, <1>4 DEF NewPage, p

LEMMA NoLines == LinesOf(<<>>) = 0
<1>1. <<>> \in Seq(Key) /\ Len(<<>>) = 0
  OBVIOUS
<1>2. \A x \in Key : WbLines[x.name] \in Nat
  BY KeyLines
<1>3. PICK w \in [0 .. Len(<<>>) -> Nat] : w[0] = 0 /\ w[Len(<<>>)] = LinesOf(<<>>)
  BY <1>1, <1>2, LinesSteps
<1> QED
  BY <1>1, <1>3

LEMMA OneKeyMore ==
    ASSUME NEW keys \in Seq(Key), NEW x \in Key
    PROVE  LinesOf(Append(keys, x)) = LinesOf(keys) + WbLines[x.name] /\ LinesOf(keys) \in Nat
<1> DEFINE more == Append(keys, x)
<1>1. more \in Seq(Key) /\ Len(more) = Len(keys) + 1 /\ Len(keys) <= Len(more)
  OBVIOUS
<1>2. more[Len(more)] = x /\ \A i \in 1 .. Len(keys) : more[i] = keys[i]
  OBVIOUS
<1>3. \A y \in Key : WbLines[y.name] \in Nat
  BY KeyLines
<1> HIDE DEF more
<1>4. LinesOf(more) = LinesOf(keys) + WbLines[more[Len(more)].name] /\ LinesOf(keys) \in Nat
  BY <1>1, <1>2, <1>3, LinesAgree
<1> QED
  BY <1>2, <1>4 DEF more

\* The key that a page with room takes.
NewKey(k, e) == [name |-> k, e |-> e, lines |-> IF WbLines[k] > WbMaxLines THEN 0 ELSE WbLines[k]]

LEMMA NewKeyType ==
    ASSUME NEW k \in WbNames, NEW e \in WbEntries
    PROVE  /\ NewKey(k, e) \in Key /\ NewKey(k, e).name = k /\ NewKey(k, e).e = e
           /\ NewKey(k, e).lines = 0 => WbLines[k] > WbMaxLines
           /\ WbLines[k] \in Nat /\ WbLines[k] >= 1 /\ WbMaxLines \in Nat
<1>1. WbLines[k] \in Nat /\ WbLines[k] >= 1 /\ WbMaxLines \in Nat
  BY WbAssumption
<1> QED
  BY <1>1 DEF NewKey, Key

\* A page with room that takes a key is still as it should be: an old page with room holds no
\* key of its own and is of the usual size, a new one is empty.
LEMMA PageTakes ==
    ASSUME NEW p \in WbPages, NEW k \in WbNames, NEW e \in WbEntries,
           p.free + WbLines[k] <= p.lines,
           \/ PageOK(p)
           \/ /\ p.free = 0 /\ p.keys = <<>>
              /\ p.lines = IF WbLines[k] > WbMaxLines THEN WbLines[k] ELSE WbMaxLines,
           NEW q, q = [p EXCEPT !.free = @ + WbLines[k], !.keys = Append(@, NewKey(k, e))]
    PROVE  q \in WbPages /\ PageOK(q)
<1> DEFINE n == WbLines[k]
           x == NewKey(k, e)
<1>1. /\ x \in Key /\ x.name = k /\ (x.lines = 0 => n > WbMaxLines)
      /\ n \in Nat /\ n >= 1 /\ WbMaxLines \in Nat
  BY NewKeyType
<1>2. p.lines \in Nat /\ p.free \in Nat /\ p.keys \in Seq(Key)
  BY DEF WbPages, Key
<1>3. q.lines = p.lines /\ q.free = p.free + n /\ q.keys = Append(p.keys, x)
  BY DEF WbPages
<1> HIDE DEF n, x
<1>4. q \in WbPages
  <2>1. Append(p.keys, x) \in Seq(Key) /\ p.free + n \in Nat
    BY <1>1, <1>2
  <2>2. q = [p EXCEPT !.free = p.free + n, !.keys = Append(p.keys, x)]
    BY DEF WbPages, n, x
  <2> QED
    BY <1>2, <2>1, <2>2 DEF WbPages, Key
<1>5. /\ LinesOf(Append(p.keys, x)) = LinesOf(p.keys) + n
      /\ Len(Append(p.keys, x)) = Len(p.keys) + 1
      /\ DOMAIN Append(p.keys, x) = 1 .. Len(p.keys) + 1
      /\ Append(p.keys, x)[Len(p.keys) + 1] = x
      /\ \A j \in 1 .. Len(p.keys) : Append(p.keys, x)[j] = p.keys[j]
      /\ DOMAIN p.keys = 1 .. Len(p.keys) /\ Len(p.keys) \in Nat
  BY <1>1, <1>2, OneKeyMore DEF n
<1>6. p.free + n <= p.lines
  BY DEF n
<1>7. CASE PageOK(p)
  <2>1. p.free = LinesOf(p.keys) /\ (p.lines > WbMaxLines => p.free = p.lines)
    BY <1>7 DEF PageOK
  <2>2. ~(p.lines > WbMaxLines) /\ p.free # p.lines
    BY <1>1, <1>2, <1>6, <2>1
  <2>3. \A j \in 1 .. Len(p.keys) : p.keys[j].lines # 0
    BY <1>5, <1>7, <2>2 DEF PageOK
  <2>4. x.lines # 0
    BY <1>1, <1>2, <1>6, <2>2
  <2>5. \A j \in DOMAIN q.keys : q.keys[j].lines # 0
    BY <1>3, <1>5, <2>3, <2>4
  <2> QED
    BY <1>2, <1>3, <1>4, <1>5, <1>6, <2>1, <2>2, <2>5 DEF PageOK
<1>8. CASE p.free = 0 /\ p.keys = <<>> /\ p.lines = IF n > WbMaxLines THEN n ELSE WbMaxLines
  <2>1. LinesOf(p.keys) = 0 /\ Len(p.keys) = 0
    BY <1>8, NoLines
  <2>2. q.free = n /\ LinesOf(q.keys) = n /\ Len(q.keys) = 1
    BY <1>1, <1>3, <1>5, <1>8, <2>1
  <2>3. \A j \in DOMAIN q.keys : q.keys[j] = x
    BY <1>3, <1>5, <2>1
  <2>4. q.lines > WbMaxLines => q.free = q.lines
    BY <1>1, <1>3, <1>8, <2>2
  <2>5. x.lines = 0 => q.free = q.lines
    BY <1>1, <1>3, <1>8, <2>2
  <2> QED
    BY <1>1, <1>3, <1>4, <1>6, <1>8, <2>2, <2>3, <2>4, <2>5 DEF PageOK
<1> QED
  BY <1>7, <1>8 DEF n

\* q is pages with one key more, of that name and with that entry; a new page moves the others.
KeyMore(pages, q, k, e) ==
    \E off \in {0, 1}, h \in Places(q) :
       /\ NameIn(q, h) = k /\ EntryIn(q, h) = e
       /\ \A g \in Places(q) : g # h => <<g[1] - off, g[2]>> \in Places(pages)
       /\ \A g \in Places(pages) :
            /\ <<g[1] + off, g[2]>> \in Places(q) /\ <<g[1] + off, g[2]>> # h
            /\ NameIn(q, <<g[1] + off, g[2]>>) = NameIn(pages, g)
            /\ EntryIn(q, <<g[1] + off, g[2]>>) = EntryIn(pages, g)

\* The chain a key is added to: the one there is, or that one behind a new page.
LEMMA WithRoomIs ==
    ASSUME NEW pages \in Seq(WbPages), NEW n \in Nat, n >= 1
    PROVE  \E off \in {0, 1} :
             LET p == WithRoom(pages, n) IN
             /\ p \in Seq(WbPages) /\ Len(p) = Len(pages) + off /\ Roomy(p, n) # {}
             /\ \A i \in DOMAIN pages : i + off \in DOMAIN p /\ p[i + off] = pages[i]
             /\ \A i \in DOMAIN p : ~(off = 1 /\ i = 1) => i - off \in DOMAIN pages
             /\ off = 1 => p[1] = [lines |-> IF n > WbMaxLines THEN n ELSE WbMaxLines,
                                   free |-> 0, keys |-> <<>>]
             /\ off = 1 => 1 \in Roomy(p, n)
<1> DEFINE p == WithRoom(pages, n)
           l == IF n > WbMaxLines THEN n ELSE WbMaxLines
<1>1. CASE Roomy(pages, n) # {}
  <2>1. p = pages
    BY <1>1 DEF WithRoom
  <2>2. /\ \A i \in DOMAIN pages : i + 0 \in DOMAIN pages /\ pages[i + 0] = pages[i]
        /\ \A i \in DOMAIN pages : i - 0 \in DOMAIN pages
        /\ Len(pages) = Len(pages) + 0
    OBVIOUS
  <2> WITNESS 0 \in {0, 1}
  <2> QED
    BY <1>1, <2>1, <2>2
<1>2. CASE Roomy(pages, n) = {}
  <2>1. p = NewPage(pages, l)
    BY <1>2 DEF WithRoom
  <2>2. l \in Nat /\ n <= l
    BY WbAssumption
  <2> HIDE DEF p, l
  <2>3. /\ p \in Seq(WbPages) /\ Len(p) = Len(pages) + 1
        /\ p[1] = [lines |-> l, free |-> 0, keys |-> <<>>]
        /\ \A i \in DOMAIN pages : p[i + 1] = pages[i]
        /\ \A i \in DOMAIN p : i # 1 => i - 1 \in DOMAIN pages
    BY <2>1, <2>2, NewPageIs
  <2>4. 1 \in DOMAIN p /\ \A i \in DOMAIN pages : i + 1 \in DOMAIN p
    BY <2>3
  <2>5. 1 \in Roomy(p, n)
    BY <2>2, <2>3, <2>4 DEF Roomy
  <2> QED
    BY <2>3, <2>4, <2>5 DEF p, l
<1> QED
  BY <1>1, <1>2

LEMMA AddKeyIs ==
    ASSUME NEW pages, PagesOK(pages), NEW k \in WbNames, NEW e \in WbEntries
    PROVE  /\ PagesOK(AddKey(pages, k, e)) /\ AddKey(pages, k, e) # <<>>
           /\ KeyMore(pages, AddKey(pages, k, e), k, e)
<1> DEFINE n == WbLines[k]
           p == WithRoom(pages, n)
           i == CHOOSE i \in Roomy(p, n) : \A j \in Roomy(p, n) : i <= j
           q == AddKey(pages, k, e)
           x == NewKey(k, e)
<1>1. /\ x \in Key /\ x.name = k /\ x.e = e /\ n \in Nat /\ n >= 1
      /\ pages \in Seq(WbPages)
  BY NewKeyType DEF PagesOK
<1>2. q = [p EXCEPT ![i].free = @ + n, ![i].keys = Append(@, x)]
  BY DEF AddKey, NewKey
<1> HIDE DEF n, p, q, x
<1>3. PICK off \in {0, 1} :
             /\ p \in Seq(WbPages) /\ Len(p) = Len(pages) + off /\ Roomy(p, n) # {}
             /\ \A y \in DOMAIN pages : y + off \in DOMAIN p /\ p[y + off] = pages[y]
             /\ \A y \in DOMAIN p : ~(off = 1 /\ y = 1) => y - off \in DOMAIN pages
             /\ off = 1 => p[1] = [lines |-> IF n > WbMaxLines THEN n ELSE WbMaxLines,
                                   free |-> 0, keys |-> <<>>]
             /\ off = 1 => 1 \in Roomy(p, n)
  BY <1>1, WithRoomIs DEF p
<1>4. i \in Roomy(p, n) /\ \A j \in Roomy(p, n) : i <= j
  <2>1. Roomy(p, n) \in SUBSET Nat
    BY <1>3 DEF Roomy
  <2>2. \E m \in Roomy(p, n) : \A j \in Roomy(p, n) : m <= j
    BY <1>3, <2>1, LeastNumber
  <2> QED
    BY <2>2
<1> HIDE DEF i
<1>5. i \in DOMAIN p /\ p[i].free + n <= p[i].lines
  BY <1>4 DEF Roomy
<1>6. p[i] \in WbPages /\ p[i].keys \in Seq(Key)
  BY <1>3, <1>5, PageType
<1>7. /\ DOMAIN q = DOMAIN p /\ \A y \in DOMAIN p : y # i => q[y] = p[y]
      /\ q[i] = [p[i] EXCEPT !.free = @ + n, !.keys = Append(@, x)]
  BY <1>2, <1>3, <1>5
<1>8. \A y \in DOMAIN p : ~(off = 1 /\ y = 1) => PageOK(p[y])
  <2> SUFFICES ASSUME NEW y \in DOMAIN p, ~(off = 1 /\ y = 1) PROVE PageOK(p[y])
    OBVIOUS
  <2>1. y - off \in DOMAIN pages /\ y \in Nat
    BY <1>3, PageType
  <2>2. p[y] = pages[y - off]
    <3>1. p[(y - off) + off] = pages[y - off]
      BY <1>3, <2>1
    <3>2. (y - off) + off = y
      BY <2>1
    <3> QED
      BY <3>1, <3>2
  <2> QED
    BY <2>1, <2>2 DEF PagesOK
<1>9. q[i] \in WbPages /\ PageOK(q[i])
  <2> DEFINE r == p[i]
             t == q[i]
  <2>1. /\ r \in WbPages /\ r.free + WbLines[k] <= r.lines
        /\ t = [r EXCEPT !.free = @ + WbLines[k], !.keys = Append(@, NewKey(k, e))]
    BY <1>5, <1>6, <1>7 DEF n, x
  <2>2. \/ PageOK(r)
        \/ /\ r.free = 0 /\ r.keys = <<>>
           /\ r.lines = IF WbLines[k] > WbMaxLines THEN WbLines[k] ELSE WbMaxLines
    <3>1. CASE off = 1 /\ i = 1
      BY <1>3, <3>1 DEF n
    <3>2. CASE ~(off = 1 /\ i = 1)
      BY <1>5, <1>8, <3>2
    <3> QED
      BY <3>1, <3>2
  <2>3. t \in WbPages /\ PageOK(t)
    <3> HIDE DEF r, t
    <3> QED
      BY <2>1, <2>2, PageTakes
  <2> QED
    BY <2>3
<1>10. off = 1 => i = 1
  BY <1>3, <1>4, <1>5
<1>11. PagesOK(q)
  <2>1. \A y \in DOMAIN q : q[y] \in WbPages /\ PageOK(q[y])
    <3> SUFFICES ASSUME NEW y \in DOMAIN q PROVE q[y] \in WbPages /\ PageOK(q[y])
      OBVIOUS
    <3>1. CASE y = i
      BY <1>9, <3>1
    <3>2. CASE y # i
      BY <1>3, <1>7, <1>8, <1>10, <3>2
    <3> QED
      BY <3>1, <3>2
  <2>2. q \in [1 .. Len(p) -> WbPages] /\ Len(p) \in Nat
    <3>1. DOMAIN p = 1 .. Len(p) /\ Len(p) \in Nat
      BY <1>3
    <3>2. q = [y \in DOMAIN p |-> q[y]]
      BY <1>2, <1>3
    <3> QED
      BY <1>7, <2>1, <3>1, <3>2
  <2> QED
    BY <2>1, <2>2, FunctionIsSeq DEF PagesOK
<1> DEFINE last == Len(p[i].keys) + 1
           h == <<i, last>>
<1>12. /\ q[i].keys = Append(p[i].keys, x) /\ last \in Nat
       /\ DOMAIN q[i].keys = 1 .. last /\ q[i].keys[last] = x
       /\ DOMAIN p[i].keys = 1 .. last - 1
       /\ \A j \in 1 .. last - 1 : q[i].keys[j] = p[i].keys[j]
  <2>1. q[i].keys = Append(p[i].keys, x)
    BY <1>6, <1>7 DEF WbPages
  <2> QED
    BY <1>1, <1>6, <2>1
<1>13. h \in Places(q) /\ NameIn(q, h) = k /\ EntryIn(q, h) = e
  <2>1. last \in DOMAIN q[i].keys
    BY <1>12
  <2> HIDE DEF last
  <2> QED
    BY <1>1, <1>5, <1>7, <1>11, <1>12, <2>1, PlaceIs DEF NameIn, EntryIn
<1> HIDE DEF last
\* What the chain the key was added to holds is what the chain held.
<1>14. /\ \A y, j : y \in DOMAIN pages /\ j \in DOMAIN pages[y].keys
                    => y + off \in DOMAIN p /\ j \in DOMAIN p[y + off].keys
       /\ \A y, j : y \in DOMAIN p /\ j \in DOMAIN p[y].keys
                    => y - off \in DOMAIN pages /\ j \in DOMAIN pages[y - off].keys
  <2>1. ASSUME NEW y \in DOMAIN p, NEW j \in DOMAIN p[y].keys
        PROVE  y - off \in DOMAIN pages /\ j \in DOMAIN pages[y - off].keys
    <3>1. CASE off = 1 /\ y = 1
      <4>1. p[y].keys = <<>>
        BY <1>3, <3>1
      <4> QED
        BY <2>1, <4>1
    <3>2. CASE ~(off = 1 /\ y = 1)
      <4>1. y - off \in DOMAIN pages /\ (y - off) + off = y
        BY <1>3, <3>2, PageType
      <4>2. p[(y - off) + off] = pages[y - off]
        BY <1>3, <4>1
      <4> QED
        BY <2>1, <4>1, <4>2
    <3> QED
      BY <3>1, <3>2
  <2> QED
    BY <1>3, <2>1
<1>15. ASSUME NEW y \in DOMAIN p, NEW j \in DOMAIN p[y].keys
       PROVE  /\ <<y, j>> \in Places(q) /\ <<y, j>> # h
              /\ q[y].keys[j] = p[y].keys[j]
  <2>1. CASE y = i
    <3>1. j \in 1 .. last - 1
      BY <1>12, <1>15, <2>1
    <3>2. j \in 1 .. last /\ j # last
      BY <1>12, <3>1
    <3> QED
      BY <1>5, <1>7, <1>11, <1>12, <2>1, <3>1, <3>2, PlaceIs
  <2>2. CASE y # i
    BY <1>7, <1>11, <2>2, PlaceIs
  <2> QED
    BY <2>1, <2>2
<1>16. ASSUME NEW g \in Places(q), g # h PROVE g[1] \in DOMAIN p /\ g[2] \in DOMAIN p[g[1]].keys
  <2>1. g = <<g[1], g[2]>> /\ g[1] \in DOMAIN q /\ g[2] \in DOMAIN q[g[1]].keys
    BY <1>11, PlaceIs
  <2>2. CASE g[1] = i
    <3>1. g[2] \in 1 .. last /\ g[2] # last
      BY <1>12, <1>16, <2>1, <2>2
    <3>2. g[2] \in 1 .. last - 1
      BY <1>12, <3>1
    <3> QED
      BY <1>5, <1>12, <2>2, <3>2
  <2>3. CASE g[1] # i
    BY <1>7, <2>1, <2>3
  <2> QED
    BY <2>2, <2>3
<1>17. ASSUME NEW g \in Places(q), g # h PROVE <<g[1] - off, g[2]>> \in Places(pages)
  BY <1>14, <1>16, <1>17, PlaceIs
<1>18. ASSUME NEW g \in Places(pages)
       PROVE  /\ <<g[1] + off, g[2]>> \in Places(q) /\ <<g[1] + off, g[2]>> # h
              /\ NameIn(q, <<g[1] + off, g[2]>>) = NameIn(pages, g)
              /\ EntryIn(q, <<g[1] + off, g[2]>>) = EntryIn(pages, g)
  <2>1. g[1] \in DOMAIN pages /\ g[2] \in DOMAIN pages[g[1]].keys
    BY PlaceIs
  <2>2. g[1] + off \in DOMAIN p /\ g[2] \in DOMAIN p[g[1] + off].keys
        /\ p[g[1] + off] = pages[g[1]]
    BY <1>3, <1>14, <2>1
  <2>3. /\ <<g[1] + off, g[2]>> \in Places(q) /\ <<g[1] + off, g[2]>> # h
        /\ q[g[1] + off].keys[g[2]] = pages[g[1]].keys[g[2]]
    BY <1>15, <2>2
  <2> QED
    BY <2>3 DEF NameIn, EntryIn
<1>19. KeyMore(pages, q, k, e)
  BY <1>13, <1>17, <1>18 DEF KeyMore
<1>20. q # <<>>
  BY <1>5, <1>7
<1> QED
  BY <1>11, <1>19, <1>20 DEF q

-----------------------------------------------------------------------------
(* Entries, and what the operations make of pages.                         *)

LEMMA EntryOps ==
    ASSUME NEW e \in WbEntries, NEW v \in WbValues
    PROVE  /\ M!Stored(e, v) \in WbEntries
           /\ M!LockedEntry(e) \in WbEntries
           /\ M!UndefinedEntry(e) \in WbEntries
           /\ [e EXCEPT !.val = v] \in WbEntries
           /\ \A wrong, create : M!Overwritten(e, v, wrong, create) \in WbEntries
<1>1. M!Stored(e, v) \in WbEntries
  BY DEF M!Stored, WbEntries
<1>2. M!LockedEntry(e) \in WbEntries
  BY DEF M!LockedEntry, WbEntries
<1>3. M!UndefinedEntry(e) \in WbEntries
  BY DEF M!UndefinedEntry, WbEntries
<1>4. [e EXCEPT !.val = v] \in WbEntries
  BY DEF WbEntries
<1>5. [e EXCEPT !.bad = TRUE] \in WbEntries
  BY DEF WbEntries
<1>6. \A wrong, create : M!Overwritten(e, v, wrong, create) \in WbEntries
  BY <1>1, <1>5 DEF M!Overwritten
<1> QED
  BY <1>1, <1>2, <1>3, <1>4, <1>6

LEMMA NewEntryType ==
    ASSUME NEW v \in WbValues, NEW opts, NEW create \in BOOLEAN
    PROVE  M!NewEntry(v, opts, create) \in WbEntries
BY DEF M!NewEntry, WbEntries

\* What LockAll reaches: the chosen places before the first of them without value.
Reached(pages, chosen) ==
    {h \in chosen : \A g \in chosen : ~EntryIn(pages, g).init => Before(h, g)}

LEMMA LockAllIs ==
    ASSUME NEW pages, PagesOK(pages), NEW chosen, chosen \subseteq Places(pages)
    PROVE  /\ SameKeys(pages, LockAll(pages, chosen))
           /\ \A g \in Places(pages) :
                EntryIn(LockAll(pages, chosen), g) =
                   IF g \in Reached(pages, chosen) THEN M!LockedEntry(EntryIn(pages, g))
                   ELSE EntryIn(pages, g)
<1> DEFINE new == [h \in Reached(pages, chosen) |-> M!LockedEntry(EntryIn(pages, h))]
<1>1. LockAll(pages, chosen) = Check(pages, new)
  BY DEF LockAll, Reached
<1>2. WbValues # {} \/ Places(pages) = {}
  <2> SUFFICES ASSUME NEW h \in Places(pages) PROVE WbValues # {}
    OBVIOUS
  <2>1. EntryIn(pages, h) \in WbEntries
    BY PlaceType
  <2> QED
    BY <2>1 DEF WbEntries
<1>3. \A h \in Places(pages) : h \in DOMAIN new => new[h] \in WbEntries
  <2> SUFFICES ASSUME NEW h \in Places(pages), h \in DOMAIN new PROVE new[h] \in WbEntries
    OBVIOUS
  <2>1. EntryIn(pages, h) \in WbEntries /\ \E v : v \in WbValues
    BY <1>2, PlaceType
  <2>2. M!LockedEntry(EntryIn(pages, h)) \in WbEntries
    BY <2>1, EntryOps
  <2> QED
    BY <2>2
<1>4. DOMAIN new = Reached(pages, chosen)
  OBVIOUS
<1>5. \A h \in DOMAIN new : new[h] = M!LockedEntry(EntryIn(pages, h))
  OBVIOUS
<1> HIDE DEF new
<1> QED
  BY <1>1, <1>3, <1>4, <1>5, CheckIs

LEMMA UndefineIs ==
    ASSUME NEW pages, PagesOK(pages)
    PROVE  /\ SameKeys(pages, UndefineLocals(pages))
           /\ \A g \in Places(pages) :
                EntryIn(UndefineLocals(pages), g) =
                   IF EntryIn(pages, g).local THEN M!UndefinedEntry(EntryIn(pages, g))
                   ELSE EntryIn(pages, g)
<1> DEFINE locals == {h \in Places(pages) : EntryIn(pages, h).local}
           new == [h \in locals |-> M!UndefinedEntry(EntryIn(pages, h))]
<1>1. UndefineLocals(pages) = Check(pages, new)
  BY DEF UndefineLocals
<1>2. \A h \in Places(pages) : h \in DOMAIN new => new[h] \in WbEntries
  <2> SUFFICES ASSUME NEW h \in Places(pages), h \in DOMAIN new PROVE new[h] \in WbEntries
    OBVIOUS
  <2>1. EntryIn(pages, h) \in WbEntries
    BY PlaceType
  <2>2. \E v : v \in WbValues
    BY <2>1 DEF WbEntries
  <2>3. M!UndefinedEntry(EntryIn(pages, h)) \in WbEntries
    BY <2>1, <2>2, EntryOps
  <2> QED
    BY <2>3
<1>3. DOMAIN new = locals /\ \A h \in locals : new[h] = M!UndefinedEntry(EntryIn(pages, h))
  OBVIOUS
<1> HIDE DEF new
<1>4. /\ SameKeys(pages, Check(pages, new))
      /\ \A g \in Places(pages) :
           EntryIn(Check(pages, new), g) = IF g \in DOMAIN new THEN new[g] ELSE EntryIn(pages, g)
  BY <1>2, CheckIs
<1> QED
  BY <1>1, <1>3, <1>4

\* A chain made of one page, and the chain of a program that starts.
LEMMA EmptyOK == PagesOK(<<>>)
BY DEF PagesOK

LEMMA FirstPageOK == PagesOK(NewPage(<<>>, WbMaxLines)) /\ Places(NewPage(<<>>, WbMaxLines)) = {}
                     /\ NewPage(<<>>, WbMaxLines) # <<>>
<1> DEFINE q == NewPage(<<>>, WbMaxLines)
<1>1. WbMaxLines \in Nat /\ <<>> \in Seq(WbPages)
  BY WbAssumption
<1>2. /\ q \in Seq(WbPages) /\ Len(q) = 1
      /\ q[1] = [lines |-> WbMaxLines, free |-> 0, keys |-> <<>>]
  <2> DEFINE none == <<>>
  <2>1. none \in Seq(WbPages) /\ Len(none) + 1 = 1
    OBVIOUS
  <2>2. q = NewPage(none, WbMaxLines)
    OBVIOUS
  <2> HIDE DEF none, q
  <2> QED
    BY <1>1, <2>1, <2>2, NewPageIs
<1> HIDE DEF q
<1>3. DOMAIN q = {1}
  BY <1>2
<1>4. PageOK(q[1])
  BY <1>1, <1>2, NoLines DEF PageOK
<1>5. PagesOK(q)
  BY <1>2, <1>3, <1>4 DEF PagesOK
<1>6. \A h : h \notin Places(q)
  BY <1>2, <1>3, <1>5, PlaceIs
<1> QED
  BY <1>2, <1>5, <1>6 DEF q

\* A checkpoint as a program that starts finds it, and the chain it makes of it.
CkptOK == wbckpt = NOCKPT \/ (PagesOK(wbckpt) /\ wbckpt # <<>>)

Restarted(pages) == {h \in Places(pages) : EntryIn(pages, h).onrestart}

LEMMA ReloadedIs ==
    ASSUME NEW pages, PagesOK(pages)
    PROVE  /\ SameKeys(pages, Reloaded(pages))
           /\ \A g \in Places(pages) :
                LET e == IF g \in Reached(pages, Restarted(pages))
                         THEN M!LockedEntry(EntryIn(pages, g)) ELSE EntryIn(pages, g)
                IN  EntryIn(Reloaded(pages), g) = IF e.local THEN M!UndefinedEntry(e) ELSE e
<1> DEFINE p == LockAll(pages, Restarted(pages))
           q == UndefineLocals(p)
<1>1. Reloaded(pages) = q
  BY DEF Reloaded, LockRestarted, Restarted
<1>2. Restarted(pages) \subseteq Places(pages)
  BY DEF Restarted
<1>3. /\ SameKeys(pages, p)
      /\ \A g \in Places(pages) :
           EntryIn(p, g) = IF g \in Reached(pages, Restarted(pages))
                           THEN M!LockedEntry(EntryIn(pages, g)) ELSE EntryIn(pages, g)
  BY <1>2, LockAllIs
<1> HIDE DEF p
<1>4. PagesOK(p) /\ Places(p) = Places(pages)
  BY <1>3, SameKeysFit
<1>5. /\ SameKeys(p, q)
      /\ \A g \in Places(p) : EntryIn(q, g) = IF EntryIn(p, g).local
                                              THEN M!UndefinedEntry(EntryIn(p, g)) ELSE EntryIn(p, g)
  BY <1>4, UndefineIs
<1> HIDE DEF q
<1>6. SameKeys(pages, q)
  BY <1>3, <1>5 DEF SameKeys
<1> QED
  BY <1>1, <1>3, <1>4, <1>5, <1>6

LEMMA ReloadOK ==
    ASSUME PagesOK(wbckpt), wbckpt # <<>>
    PROVE  PagesOK(Reload) /\ Reload # <<>>
<1>1. PagesOK(Reverse(wbckpt)) /\ Len(Reverse(wbckpt)) = Len(wbckpt)
  BY ReverseIs
<1>2. SameKeys(Reverse(wbckpt), Reload)
  BY <1>1, ReloadedIs DEF Reload
<1>3. PagesOK(Reload)
  BY <1>1, <1>2, SameKeysFit
<1>4. Len(wbckpt) # 0 /\ Len(wbckpt) \in Nat
  BY DEF PagesOK
<1>5. 1 \in DOMAIN Reload
  <2>1. DOMAIN Reload = DOMAIN Reverse(wbckpt)
    BY <1>2 DEF SameKeys
  <2>2. Reverse(wbckpt) \in Seq(WbPages)
    BY <1>1 DEF PagesOK
  <2> QED
    BY <1>1, <1>4, <2>1, <2>2
<1>6. Reload # <<>>
  BY <1>5
<1> QED
  BY <1>3, <1>6

LEMMA InitialOK ==
    ASSUME NEW pages, PagesOK(pages), CkptOK
    PROVE  PagesOK(Initial(pages)) /\ Initial(pages) # <<>>
BY ReloadOK, FirstPageOK DEF Initial, CkptOK

LEMMA EntryFound ==
    ASSUME NEW pages, PagesOK(pages), NEW k, Lookup(pages, k) # {}
    PROVE  LookupEntry(pages, k) \in WbEntries /\ WbValues # {}
<1> DEFINE h == CHOOSE h \in Lookup(pages, k) : TRUE
<1>1. h \in Places(pages)
  <2>1. h \in Hits(pages, k)
    BY DEF Lookup
  <2> HIDE DEF h
  <2> QED
    BY <2>1, HitIs
<1>2. LookupEntry(pages, k) = EntryIn(pages, h)
  BY DEF LookupEntry, EntryIn
<1> HIDE DEF h
<1>3. EntryIn(pages, h) \in WbEntries
  BY <1>1, PlaceType
<1> QED
  BY <1>2, <1>3 DEF WbEntries

-----------------------------------------------------------------------------
(* A directive file, line by line.                                         *)

\* What one line makes of what c_wb_read has: the chain and the keys of its table.
ReadLine(r, d, mode) ==
    IF d.op = "define" THEN (IF mode = "forbid" THEN r ELSE DefineKey(r, d))
    ELSE AssignKey(r, d, mode = "strict")

Reads == {r \in [pages : Seq(WbPages), defined : SUBSET WbNames, assigned : SUBSET WbNames] :
            PagesOK(r.pages)}

\* A line of a file of the program.
LineOK(d) == d.key \in WbNames /\ d.val \in WbValues /\ d.op \in {"define", "assign", "toomany"}

LEMMA FileLines ==
    ASSUME NEW f \in WbFiles
    PROVE  /\ Len(f) \in Nat /\ DOMAIN f = 1 .. Len(f)
           /\ \A i \in 1 .. Len(f) : LineOK(f[i])
<1>1. f \in Seq(Range(f)) /\ \A d \in Range(f) : d.key \in WbNames /\ d.op \in {"define", "assign", "toomany"}
  BY WbAssumption
<1>2. Len(f) \in Nat /\ DOMAIN f = 1 .. Len(f) /\ \A i \in 1 .. Len(f) : f[i] \in Range(f)
  BY <1>1
<1>3. \A i \in 1 .. Len(f) : f[i].val \in WbValues
  BY <1>2 DEF WbValues
<1> QED
  BY <1>1, <1>2, <1>3 DEF LineOK

LEMMA ReadLineOK ==
    ASSUME NEW r \in Reads, NEW d, LineOK(d), NEW mode
    PROVE  ReadLine(r, d, mode) \in Reads
<1>1. /\ PagesOK(r.pages) /\ r.pages \in Seq(WbPages)
      /\ r.defined \in SUBSET WbNames /\ r.assigned \in SUBSET WbNames
  BY DEF Reads
<1>2. DefineKey(r, d) \in Reads
  <2>1. CASE Lookup(r.pages, d.key) # {}
    BY <2>1 DEF DefineKey
  <2>2. CASE Lookup(r.pages, d.key) = {}
    <3> DEFINE q == AddKey(r.pages, d.key, M!NewEntry(d.val, d.opts, TRUE))
    <3>1. PagesOK(q) /\ q \in Seq(WbPages)
      <4>1. M!NewEntry(d.val, d.opts, TRUE) \in WbEntries
        BY NewEntryType DEF LineOK
      <4>2. PagesOK(q)
        BY <1>1, <4>1, AddKeyIs DEF LineOK
      <4> QED
        BY <4>2 DEF PagesOK
    <3>2. DefineKey(r, d) = [pages |-> q, defined |-> r.defined \cup {d.key}, assigned |-> r.assigned]
      BY <2>2 DEF DefineKey
    <3> HIDE DEF q
    <3> QED
      BY <1>1, <3>1, <3>2 DEF Reads, LineOK
  <2> QED
    BY <2>1, <2>2
<1>3. ASSUME NEW strict PROVE AssignKey(r, d, strict) \in Reads
  <2>1. CASE ~Assignable(r, d, strict)
    BY <2>1 DEF AssignKey
  <2>2. CASE Assignable(r, d, strict)
    <3> DEFINE e == LookupEntry(r.pages, d.key)
               n == IF d.op = "toomany" THEN [e EXCEPT !.val = d.val] ELSE M!Stored(e, d.val)
               q == SetEntry(r.pages, d.key, n)
    <3>1. Lookup(r.pages, d.key) # {}
      BY <2>2 DEF Assignable
    <3>2. e \in WbEntries
      BY <1>1, <3>1, EntryFound
    <3> HIDE DEF e
    <3>3. n \in WbEntries
      BY <3>2, EntryOps DEF LineOK
    <3> HIDE DEF n
    <3>4. PagesOK(q) /\ q \in Seq(WbPages)
      <4>1. SameKeys(r.pages, q)
        BY <1>1, <3>1, <3>3, SetEntryIs
      <4>2. PagesOK(q)
        BY <1>1, <4>1, SameKeysFit
      <4> QED
        BY <4>2 DEF PagesOK
    <3>5. AssignKey(r, d, strict) = [r EXCEPT !.pages = q, !.assigned = @ \cup {d.key}]
      BY <2>2 DEF AssignKey, e, n, Reads
    <3>6. r.assigned \cup {d.key} \in SUBSET WbNames
      BY <1>1 DEF Reads, LineOK
    <3> HIDE DEF q
    <3> QED
      BY <1>1, <3>4, <3>5, <3>6 DEF Reads
  <2> QED
    BY <2>1, <2>2
<1> QED
  BY <1>2, <1>3 DEF ReadLine

\* The pages of c_wb_read are reached line after line.
FilePages(pages, f, mode) ==
    FoldLeft(LAMBDA r, d : IF d.op = "define"
                           THEN (IF mode = "forbid" THEN r ELSE DefineKey(r, d))
                           ELSE AssignKey(r, d, mode = "strict"),
             [pages |-> pages, defined |-> {}, assigned |-> {}], f).pages

LEMMA ReadSteps ==
    ASSUME NEW f \in WbFiles, NEW mode, NEW pages, PagesOK(pages)
    PROVE  \E w \in [0 .. Len(f) -> Reads] :
             /\ w[0] = [pages |-> pages, defined |-> {}, assigned |-> {}]
             /\ \A k \in 0 .. Len(f) - 1 : w[k + 1] = ReadLine(w[k], f[k + 1], mode)
             /\ w[Len(f)].pages = FilePages(pages, f, mode)
<1> DEFINE N == Len(f)
           r0 == [pages |-> pages, defined |-> {}, assigned |-> {}]
           h == [p \in (1 .. N) \X Reads |-> ReadLine(p[2], f[p[1]], mode)]
           Meets(g) == g = [s \in SUBSET DOMAIN f |->
                              IF s = {} THEN r0
                              ELSE ReadLine(g[s \ {Max(s)}], f[Max(s)], mode)]
           it == CHOOSE g : Meets(g)
<1>1. N \in Nat /\ DOMAIN f = 1 .. N /\ \A i \in 1 .. N : LineOK(f[i])
  BY FileLines
<1>2. h \in [(1 .. N) \X Reads -> Reads]
  <2>1. ASSUME NEW p \in (1 .. N) \X Reads PROVE ReadLine(p[2], f[p[1]], mode) \in Reads
    <3>1. p[1] \in 1 .. N /\ p[2] \in Reads
      OBVIOUS
    <3> QED
      BY <1>1, <3>1, ReadLineOK
  <2> QED
    BY <2>1
<1>3. \A s \in SUBSET (1 .. N) : s # {} => Max(s) \in 1 .. N /\ s \ {Max(s)} \in SUBSET (1 .. N)
  BY <1>1, MaxOf
<1>4. FilePages(pages, f, mode) = it[DOMAIN f].pages
  BY DEF FilePages, FoldLeft, MapThenFoldSet, ReadLine
<1>5. r0 \in Reads
  <2>1. pages \in Seq(WbPages)
    BY DEF PagesOK
  <2> QED
    BY <2>1 DEF Reads
<1> HIDE DEF r0
<1>6. Meets(it)
  <2>1. PICK g \in [SUBSET (1 .. N) -> Reads] : IsFold(g, N, r0, h)
    <3> HIDE DEF h, N
    <3> QED
      BY <1>1, <1>2, <1>5, FoldExists
  <2>2. Meets(g)
    BY <1>1, <1>3, <2>1 DEF IsFold
  <2> HIDE DEF Meets
  <2> QED
    BY <2>2
<1>7. \E w \in [0 .. N -> Reads] : StepsTo(it[1 .. N], w, N, r0, h)
  <2> HIDE DEF it
  <2>1. it[{}] = r0
    BY <1>6
  <2>2. ASSUME NEW s \in SUBSET (1 .. N), s # {}, it[s \ {Max(s)}] \in Reads
        PROVE  it[s] = h[<<Max(s), it[s \ {Max(s)}]>>]
    BY <1>1, <1>3, <1>6, <2>2
  <2>3. Folds(it, N, Reads, r0, h)
    BY <2>1, <2>2 DEF Folds
  <2> HIDE DEF h, N
  <2> QED
    BY <1>1, <1>2, <1>5, <2>3, FoldSteps
<1> QED
  <2> HIDE DEF it
  <2>1. PICK w \in [0 .. N -> Reads] : StepsTo(it[1 .. N], w, N, r0, h)
    BY <1>7
  <2>2. \A k \in 0 .. N - 1 : k + 1 \in 1 .. N /\ w[k] \in Reads
    <3>1. N \in Nat
      BY <1>1
    <3> HIDE DEF N, h, Meets
    <3>2. \A k \in 0 .. N - 1 : k + 1 \in 1 .. N /\ k \in 0 .. N
      BY <3>1
    <3> QED
      BY <3>2
  <2>3. \A k \in 0 .. N - 1 : w[k + 1] = ReadLine(w[k], f[k + 1], mode)
    BY <2>1, <2>2 DEF StepsTo
  <2>4. w[0] = r0 /\ w[N].pages = FilePages(pages, f, mode)
    BY <1>1, <1>4, <2>1 DEF StepsTo
  <2> QED
    BY <2>3, <2>4 DEF r0

LEMMA FileOK ==
    ASSUME NEW f \in WbFiles, NEW mode, NEW pages, PagesOK(pages)
    PROVE  PagesOK(FilePages(pages, f, mode))
<1>1. PICK w \in [0 .. Len(f) -> Reads] : w[Len(f)].pages = FilePages(pages, f, mode)
  BY ReadSteps
<1>2. Len(f) \in 0 .. Len(f)
  BY FileLines
<1> QED
  BY <1>1, <1>2 DEF Reads

-----------------------------------------------------------------------------
(* The pages fit.                                                          *)

\* Whatever happens, the pages in memory and the ones of the checkpoint are as they should be.
ChainInv == PagesOK(wbpages) /\ CkptOK

\* c_wb_put leaves pages as they should be, whether it finds its key or adds it.
LEMMA PutOK ==
    ASSUME ChainInv, NEW c \in WbPuts
    PROVE  PagesOK(PutKey(wbpages, c.key, c.val, c.opts, c.wrong, c.create))
<1>1. /\ PagesOK(wbpages) /\ CkptOK
      /\ c.key \in WbNames /\ c.create \in BOOLEAN /\ c.val \in WbValues
  BY WbAssumption DEF ChainInv, WbValues
<1>2. CASE Lookup(wbpages, c.key) # {}
  <2> DEFINE e == M!Overwritten(LookupEntry(wbpages, c.key), c.val, c.wrong, c.create)
  <2>1. LookupEntry(wbpages, c.key) \in WbEntries
    BY <1>1, <1>2, EntryFound
  <2>2. e \in WbEntries
    BY <1>1, <2>1, EntryOps
  <2> HIDE DEF e
  <2>3. PagesOK(SetEntry(wbpages, c.key, e))
    BY <1>1, <1>2, <2>2, SetEntryIs, SameKeysFit
  <2> QED
    BY <1>2, <2>3 DEF PutKey, e
<1>3. CASE Lookup(wbpages, c.key) = {}
  <2>1. PagesOK(Initial(wbpages))
    BY <1>1, InitialOK
  <2>2. M!NewEntry(c.val, c.opts, c.create) \in WbEntries
    BY <1>1, NewEntryType
  <2>3. PagesOK(AddKey(Initial(wbpages), c.key, M!NewEntry(c.val, c.opts, c.create)))
    BY <1>1, <2>1, <2>2, AddKeyIs
  <2> QED
    BY <1>3, <2>3 DEF PutKey
<1> QED
  BY <1>2, <1>3

LEMMA LockedIs ==
    ASSUME PagesOK(wbpages), NEW S
    PROVE  /\ SameKeys(wbpages, Locked(wbpages, S))
           /\ \A g \in Places(wbpages) :
                EntryIn(Locked(wbpages, S), g) =
                   IF g \in Reached(wbpages, {h \in Places(wbpages) :
                                 NameIn(wbpages, h) \in S /\ EntryIn(wbpages, h).until})
                   THEN M!LockedEntry(EntryIn(wbpages, g)) ELSE EntryIn(wbpages, g)
<1> DEFINE chosen == {h \in Places(wbpages) : NameIn(wbpages, h) \in S /\ EntryIn(wbpages, h).until}
<1>1. Locked(wbpages, S) = LockAll(wbpages, chosen)
  BY DEF Locked, NameIn
<1>2. chosen \subseteq Places(wbpages)
  OBVIOUS
<1> HIDE DEF chosen
<1>3. /\ SameKeys(wbpages, LockAll(wbpages, chosen))
      /\ \A g \in Places(wbpages) :
           EntryIn(LockAll(wbpages, chosen), g) =
              IF g \in Reached(wbpages, chosen) THEN M!LockedEntry(EntryIn(wbpages, g))
              ELSE EntryIn(wbpages, g)
  BY <1>2, LockAllIs
<1> QED
  BY <1>1, <1>3 DEF chosen

LEMMA ChainFits == WbSpec => []ChainInv
<1>1. WbInit => ChainInv
  BY EmptyOK DEF WbInit, ChainInv, CkptOK
<1>2. ChainInv /\ [WbNext]_wbvars => ChainInv'
  <2> SUFFICES ASSUME ChainInv, [WbNext]_wbvars PROVE ChainInv'
    OBVIOUS
  <2>1. PagesOK(wbpages) /\ CkptOK
    BY DEF ChainInv
  <2>2. \A q : wbpages' = q /\ wbckpt' = wbckpt /\ PagesOK(q) => ChainInv'
    BY <2>1 DEF ChainInv, CkptOK
  <2>3. CASE WbStart
    BY <2>1, <2>2, <2>3, InitialOK DEF WbStart
  <2>4. CASE WbCheckpoint
    BY <2>1, <2>4 DEF WbCheckpoint, ChainInv, CkptOK
  <2>5. CASE WbDie
    BY <2>2, <2>5, EmptyOK DEF WbDie
  <2>6. ASSUME NEW c \in WbPuts, WbPut(c.key, c.val, c.opts, c.wrong, c.create) PROVE ChainInv'
    BY <2>2, <2>6, PutOK DEF WbPut
  <2>7. ASSUME NEW S \in WbPrefixes, WbLock(S) PROVE ChainInv'
    <3>1. PagesOK(Locked(wbpages, S))
      BY <2>1, LockedIs, SameKeysFit
    <3> QED
      BY <2>2, <2>7, <3>1 DEF WbLock
  <2>8. ASSUME NEW f \in WbFiles, NEW mode, WbRead(f, mode) PROVE ChainInv'
    <3>1. wbpages' = FilePages(wbpages, f, mode) /\ wbckpt' = wbckpt
      BY <2>8 DEF WbRead, FilePages
    <3>2. PagesOK(FilePages(wbpages, f, mode))
      BY <2>1, FileOK
    <3> QED
      BY <2>2, <3>1, <3>2
  <2>9. CASE UNCHANGED wbvars
    BY <2>1, <2>9 DEF wbvars, ChainInv, CkptOK
  <2> QED
    BY <2>3, <2>4, <2>5, <2>6, <2>7, <2>8, <2>9 DEF WbNext
<1> QED
  BY <1>1, <1>2, PTL DEF WbSpec

\* Each page of the whiteboard counts the lines of its keys in firstFreeLine, inside the page,
\* and a key larger than a page has one of its own, whatever the keys, their sizes and the calls.
THEOREM WbPagesFit == WbSpec => []PagesFit
<1>1. ChainInv => PagesFit
  <2> SUFFICES ASSUME ChainInv, NEW i \in DOMAIN wbpages
               PROVE  LET page == wbpages[i] IN
                      /\ page.free <= page.lines
                      /\ page.free = LinesOf(page.keys)
                      /\ \A j \in DOMAIN page.keys : page.keys[j].lines = 0 => Len(page.keys) = 1
    BY DEF PagesFit, LinesOf
  <2>1. PageOK(wbpages[i])
    BY DEF ChainInv, PagesOK
  <2> QED
    BY <2>1 DEF PageOK
<1> QED
  BY <1>1, ChainFits, PTL

-----------------------------------------------------------------------------
(* The map that pages stand for.                                           *)

BoardOf(pages) ==
    [k \in WbNames |-> IF Lookup(pages, k) = {} THEN NOENTRY ELSE LookupEntry(pages, k)]

\* No two places of the chain hold keys of one name.
Unique(pages) == \A g, h \in Places(pages) : NameIn(pages, g) = NameIn(pages, h) => g = h

Whole(pages) == PagesOK(pages) /\ Unique(pages)

LEMMA LookupIs ==
    ASSUME NEW pages, Whole(pages), NEW k
    PROVE  /\ Lookup(pages, k) = {} <=> \A h \in Places(pages) : NameIn(pages, h) # k
           /\ \A h \in Places(pages) : NameIn(pages, h) = k
                => Lookup(pages, k) # {} /\ LookupEntry(pages, k) = EntryIn(pages, h)
<1>1. ASSUME NEW h \in Places(pages), NameIn(pages, h) = k PROVE Lookup(pages, k) = {h}
  <2>1. h \in Hits(pages, k) /\ h[2] \in Nat
    <3>1. h[1] \in DOMAIN pages /\ h[2] \in DOMAIN pages[h[1]].keys /\ pages \in Seq(WbPages)
      BY PlaceIs DEF Whole, PagesOK
    <3>2. pages[h[1]].keys \in Seq(Key)
      BY <3>1, PageType
    <3> QED
      BY <1>1, <3>1, <3>2, KeyType, HitIs
  <2>2. \A o \in Hits(pages, k) : o = h
    BY <1>1, HitIs DEF Whole, Unique
  <2>3. h \in Lookup(pages, k)
    BY <2>1, <2>2 DEF Lookup
  <2>4. \A o \in Lookup(pages, k) : o = h
    BY <2>2 DEF Lookup
  <2> QED
    BY <2>3, <2>4
<1>2. ASSUME NEW h \in Lookup(pages, k) PROVE h \in Places(pages) /\ NameIn(pages, h) = k
  BY <1>2, HitIs DEF Lookup
<1>3. ASSUME NEW h \in Places(pages), NameIn(pages, h) = k
      PROVE  LookupEntry(pages, k) = EntryIn(pages, h)
  <2>1. (CHOOSE x \in Lookup(pages, k) : TRUE) = h
    BY <1>1, <1>3
  <2> QED
    BY <2>1 DEF LookupEntry, EntryIn
<1> QED
  BY <1>1, <1>2, <1>3

LEMMA BoardIs ==
    ASSUME NEW pages, Whole(pages)
    PROVE  /\ BoardOf(pages) \in [WbNames -> WbEntries \cup {NOENTRY}]
           /\ \A h \in Places(pages) : /\ BoardOf(pages)[NameIn(pages, h)] = EntryIn(pages, h)
                                       /\ EntryIn(pages, h) # NOENTRY
           /\ \A k \in WbNames : BoardOf(pages)[k] # NOENTRY
                                 => \E h \in Places(pages) : NameIn(pages, h) = k
           /\ \A k \in WbNames : BoardOf(pages)[k] = NOENTRY <=> Lookup(pages, k) = {}
           /\ \A k \in WbNames : Lookup(pages, k) # {} => LookupEntry(pages, k) = BoardOf(pages)[k]
<1>1. \A k \in WbNames : BoardOf(pages)[k] = IF Lookup(pages, k) = {} THEN NOENTRY
                                              ELSE LookupEntry(pages, k)
  BY DEF BoardOf
<1>2. \A h \in Places(pages) : NameIn(pages, h) \in WbNames /\ EntryIn(pages, h) \in WbEntries
  BY PlaceType DEF Whole
<1>3. NOENTRY \notin WbEntries
  BY WbAssumption
<1>4. ASSUME NEW k \in WbNames, Lookup(pages, k) # {}
      PROVE  /\ \E h \in Places(pages) : NameIn(pages, h) = k
             /\ LookupEntry(pages, k) \in WbEntries
  <2>1. PICK h \in Places(pages) : NameIn(pages, h) = k
    BY <1>4, LookupIs
  <2>2. LookupEntry(pages, k) = EntryIn(pages, h)
    BY <2>1, LookupIs
  <2> QED
    BY <1>2, <2>1, <2>2
<1>5. \A h \in Places(pages) : BoardOf(pages)[NameIn(pages, h)] = EntryIn(pages, h)
  BY <1>1, <1>2, LookupIs
<1>6. BoardOf(pages) \in [WbNames -> WbEntries \cup {NOENTRY}]
  BY <1>4 DEF BoardOf
<1> QED
  BY <1>1, <1>2, <1>3, <1>4, <1>5, <1>6

\* A map that agrees with the places is the one the pages stand for.
LEMMA BoardFrom ==
    ASSUME NEW pages, Whole(pages), NEW b, b = [k \in WbNames |-> b[k]],
           \A h \in Places(pages) : b[NameIn(pages, h)] = EntryIn(pages, h),
           \A k \in WbNames : (\A h \in Places(pages) : NameIn(pages, h) # k) => b[k] = NOENTRY
    PROVE  BoardOf(pages) = b
<1>1. ASSUME NEW k \in WbNames PROVE BoardOf(pages)[k] = b[k]
  <2>1. CASE \E h \in Places(pages) : NameIn(pages, h) = k
    BY <2>1, BoardIs
  <2>2. CASE \A h \in Places(pages) : NameIn(pages, h) # k
    <3>1. BoardOf(pages)[k] = NOENTRY
      BY <2>2, BoardIs
    <3> QED
      BY <2>2, <3>1
  <2> QED
    BY <2>1, <2>2
<1>2. BoardOf(pages) = [k \in WbNames |-> BoardOf(pages)[k]]
  BY DEF BoardOf
<1> QED
  BY <1>1, <1>2

\* Pages with the same keys stand for a map of the same names.
LEMMA SameKeysBoard ==
    ASSUME NEW p, Whole(p), NEW q, SameKeys(p, q), NEW b, b = [k \in WbNames |-> b[k]],
           \A h \in Places(p) : b[NameIn(p, h)] = EntryIn(q, h),
           \A k \in WbNames : BoardOf(p)[k] = NOENTRY => b[k] = NOENTRY
    PROVE  Whole(q) /\ BoardOf(q) = b
<1>1. PagesOK(q) /\ Places(q) = Places(p) /\ \A h \in Places(p) : NameIn(q, h) = NameIn(p, h)
  BY SameKeysFit DEF Whole
<1>2. Unique(q)
  BY <1>1 DEF Whole, Unique
<1>3. \A k \in WbNames : (\A h \in Places(q) : NameIn(q, h) # k) => b[k] = NOENTRY
  BY <1>1, BoardIs
<1> QED
  BY <1>1, <1>2, <1>3, BoardFrom DEF Whole

LEMMA SetEntryBoard ==
    ASSUME NEW pages, Whole(pages), NEW k \in WbNames, Lookup(pages, k) # {}, NEW e \in WbEntries
    PROVE  /\ Whole(SetEntry(pages, k, e))
           /\ BoardOf(SetEntry(pages, k, e)) = [BoardOf(pages) EXCEPT ![k] = e]
           /\ SetEntry(pages, k, e) # <<>>
<1> DEFINE q == SetEntry(pages, k, e)
           b == [BoardOf(pages) EXCEPT ![k] = e]
<1>1. PICK h \in Hits(pages, k) :
         \A g \in Places(pages) : EntryIn(q, g) = IF g = h THEN e ELSE EntryIn(pages, g)
  BY SetEntryIs DEF Whole
<1>2. SameKeys(pages, q)
  BY SetEntryIs DEF Whole
<1> HIDE DEF q
<1>3. h \in Places(pages) /\ NameIn(pages, h) = k
  BY HitIs
<1>4. BoardOf(pages) = [x \in WbNames |-> BoardOf(pages)[x]]
  BY DEF BoardOf
<1>5. b = [x \in WbNames |-> b[x]] /\ b[k] = e
      /\ \A x \in WbNames : x # k => b[x] = BoardOf(pages)[x]
  BY <1>4
<1> HIDE DEF b
<1>6. ASSUME NEW g \in Places(pages) PROVE b[NameIn(pages, g)] = EntryIn(q, g)
  <2>1. NameIn(pages, g) \in WbNames
    BY PlaceType DEF Whole
  <2>2. CASE g = h
    BY <1>1, <1>3, <1>5, <2>2
  <2>3. CASE g # h
    <3>1. NameIn(pages, g) # k
      BY <1>3, <2>3 DEF Whole, Unique
    <3> QED
      BY <1>1, <1>5, <2>1, <2>3, <3>1, BoardIs
  <2> QED
    BY <2>2, <2>3
<1>7. BoardOf(pages)[k] # NOENTRY
  BY BoardIs
<1>8. Whole(q) /\ BoardOf(q) = b
  BY <1>2, <1>5, <1>6, <1>7, SameKeysBoard
<1>9. q # <<>>
  <2>1. h[1] \in DOMAIN q
    BY <1>2, <1>3, PlaceIs DEF SameKeys, Whole
  <2> QED
    BY <2>1
<1> QED
  BY <1>8, <1>9 DEF q, b

LEMMA AddKeyBoard ==
    ASSUME NEW pages, Whole(pages), NEW k \in WbNames, Lookup(pages, k) = {}, NEW e \in WbEntries
    PROVE  /\ Whole(AddKey(pages, k, e))
           /\ BoardOf(AddKey(pages, k, e)) = [BoardOf(pages) EXCEPT ![k] = e]
           /\ AddKey(pages, k, e) # <<>>
<1> DEFINE q == AddKey(pages, k, e)
           b == [BoardOf(pages) EXCEPT ![k] = e]
<1>1. PagesOK(q) /\ q # <<>> /\ KeyMore(pages, q, k, e)
  BY AddKeyIs DEF Whole
<1> HIDE DEF q
<1>2. PICK off \in {0, 1}, h \in Places(q) :
         /\ NameIn(q, h) = k /\ EntryIn(q, h) = e
         /\ \A g \in Places(q) : g # h => <<g[1] - off, g[2]>> \in Places(pages)
         /\ \A g \in Places(pages) :
              /\ <<g[1] + off, g[2]>> \in Places(q) /\ <<g[1] + off, g[2]>> # h
              /\ NameIn(q, <<g[1] + off, g[2]>>) = NameIn(pages, g)
              /\ EntryIn(q, <<g[1] + off, g[2]>>) = EntryIn(pages, g)
  BY <1>1 DEF KeyMore
<1>3. \A g \in Places(pages) : NameIn(pages, g) # k
  BY LookupIs
<1>4. ASSUME NEW g \in Places(q), g # h
      PROVE  LET o == <<g[1] - off, g[2]>> IN
             /\ o \in Places(pages) /\ g = <<o[1] + off, o[2]>>
             /\ NameIn(q, g) = NameIn(pages, o) /\ EntryIn(q, g) = EntryIn(pages, o)
  <2>1. g = <<g[1], g[2]>> /\ g[1] \in DOMAIN q /\ q \in Seq(WbPages)
    BY <1>1, PlaceIs DEF PagesOK
  <2>2. g[1] \in Nat
    BY <2>1, PageType
  <2>3. g[1] - off + off = g[1]
    BY <2>2
  <2>4. <<g[1] - off, g[2]>> \in Places(pages)
    BY <1>2, <1>4
  <2>5. g = <<(g[1] - off) + off, g[2]>>
    BY <2>1, <2>3
  <2> QED
    BY <1>2, <2>4, <2>5
<1>5. Unique(q)
  <2> SUFFICES ASSUME NEW g \in Places(q), NEW o \in Places(q), NameIn(q, g) = NameIn(q, o)
               PROVE  g = o
    BY DEF Unique
  <2>1. \A u \in Places(q) : u # h => NameIn(q, u) # k
    <3> SUFFICES ASSUME NEW u \in Places(q), u # h PROVE NameIn(q, u) # k
      OBVIOUS
    <3>1. <<u[1] - off, u[2]>> \in Places(pages)
          /\ NameIn(q, u) = NameIn(pages, <<u[1] - off, u[2]>>)
      BY <1>4
    <3> QED
      BY <1>3, <3>1
  <2>2. CASE g # h /\ o # h
    <3> DEFINE x == <<g[1] - off, g[2]>>
               y == <<o[1] - off, o[2]>>
    <3>1. x \in Places(pages) /\ g = <<x[1] + off, x[2]>> /\ NameIn(q, g) = NameIn(pages, x)
      BY <1>4, <2>2
    <3>2. y \in Places(pages) /\ o = <<y[1] + off, y[2]>> /\ NameIn(q, o) = NameIn(pages, y)
      BY <1>4, <2>2
    <3> HIDE DEF x, y
    <3>3. x = y
      BY <3>1, <3>2 DEF Whole, Unique
    <3> QED
      BY <3>1, <3>2, <3>3
  <2> QED
    BY <1>2, <2>1, <2>2
<1>6. BoardOf(pages) = [x \in WbNames |-> BoardOf(pages)[x]]
  BY DEF BoardOf
<1>7. b = [x \in WbNames |-> b[x]] /\ b[k] = e
      /\ \A x \in WbNames : x # k => b[x] = BoardOf(pages)[x]
  BY <1>6
<1> HIDE DEF b
<1>8. ASSUME NEW g \in Places(q) PROVE b[NameIn(q, g)] = EntryIn(q, g)
  <2>1. CASE g = h
    BY <1>2, <1>7, <2>1
  <2>2. CASE g # h
    <3> DEFINE o == <<g[1] - off, g[2]>>
    <3>1. o \in Places(pages) /\ NameIn(q, g) = NameIn(pages, o) /\ EntryIn(q, g) = EntryIn(pages, o)
      BY <1>4, <2>2
    <3> HIDE DEF o
    <3>2. NameIn(pages, o) \in WbNames /\ NameIn(pages, o) # k
      BY <1>3, <3>1, PlaceType DEF Whole
    <3> QED
      BY <1>7, <3>1, <3>2, BoardIs
  <2> QED
    BY <2>1, <2>2
<1>9. ASSUME NEW x \in WbNames, \A g \in Places(q) : NameIn(q, g) # x PROVE b[x] = NOENTRY
  <2>1. x # k
    BY <1>2, <1>9
  <2>2. \A g \in Places(pages) : NameIn(pages, g) # x
    BY <1>2, <1>9
  <2>3. BoardOf(pages)[x] = NOENTRY
    BY <2>2, BoardIs
  <2> QED
    BY <1>7, <2>1, <2>3
<1>10. Whole(q)
  BY <1>1, <1>5 DEF Whole
<1>11. BoardOf(q) = b
  BY <1>7, <1>8, <1>9, <1>10, BoardFrom
<1> QED
  BY <1>1, <1>10, <1>11 DEF q, b

LEMMA ReverseBoard ==
    ASSUME NEW pages, Whole(pages)
    PROVE  Whole(Reverse(pages)) /\ BoardOf(Reverse(pages)) = BoardOf(pages)
<1> DEFINE q == Reverse(pages)
           n == Len(pages)
           There(g) == <<n - g[1] + 1, g[2]>>
<1>1. /\ PagesOK(q)
      /\ \A i, j : <<i, j>> \in Places(q) <=>
                     i \in DOMAIN pages /\ <<n - i + 1, j>> \in Places(pages)
      /\ \A i \in DOMAIN pages : q[i] = pages[n - i + 1]
  BY ReverseIs DEF Whole
<1>2. n \in Nat /\ DOMAIN pages = 1 .. n
  BY DEF Whole, PagesOK
<1> HIDE DEF q, n
<1>3. ASSUME NEW g \in Places(q)
      PROVE  /\ There(g) \in Places(pages) /\ g = There(There(g))
             /\ NameIn(q, g) = NameIn(pages, There(g)) /\ EntryIn(q, g) = EntryIn(pages, There(g))
  <2>1. g = <<g[1], g[2]>>
    BY <1>1, PlaceIs
  <2>2. g[1] \in DOMAIN pages /\ There(g) \in Places(pages)
    BY <1>1, <2>1
  <2>3. n - (n - g[1] + 1) + 1 = g[1]
    BY <1>2, <2>2
  <2> QED
    BY <1>1, <2>1, <2>2, <2>3 DEF NameIn, EntryIn
<1>4. ASSUME NEW g \in Places(pages) PROVE There(g) \in Places(q) /\ g = There(There(g))
  <2>1. g = <<g[1], g[2]>> /\ g[1] \in 1 .. n
    BY <1>2, PlaceIs DEF Whole
  <2>2. n - (n - g[1] + 1) + 1 = g[1] /\ n - g[1] + 1 \in 1 .. n
    BY <1>2, <2>1
  <2> QED
    BY <1>1, <1>2, <2>1, <2>2
<1> HIDE DEF There
<1>5. Unique(q)
  <2> SUFFICES ASSUME NEW g \in Places(q), NEW h \in Places(q), NameIn(q, g) = NameIn(q, h)
               PROVE  g = h
    BY DEF Unique
  <2>1. There(g) = There(h)
    BY <1>3 DEF Whole, Unique
  <2> QED
    BY <1>3, <2>1
<1>6. Whole(q)
  BY <1>1, <1>5 DEF Whole
<1>7. ASSUME NEW g \in Places(q) PROVE BoardOf(pages)[NameIn(q, g)] = EntryIn(q, g)
  BY <1>3, BoardIs
<1>8. ASSUME NEW k \in WbNames, \A g \in Places(q) : NameIn(q, g) # k
      PROVE  BoardOf(pages)[k] = NOENTRY
  <2>1. \A g \in Places(pages) : NameIn(pages, g) # k
    BY <1>3, <1>4, <1>8
  <2> QED
    BY <2>1, BoardIs
<1>9. BoardOf(pages) = [k \in WbNames |-> BoardOf(pages)[k]]
  BY DEF BoardOf
<1>10. BoardOf(q) = BoardOf(pages)
  BY <1>6, <1>7, <1>8, <1>9, BoardFrom
<1> QED
  BY <1>6, <1>10 DEF q

\* The names LockAll reaches, among those it means: all of them when each has a value.
NamesOf(pages, places) == {NameIn(pages, h) : h \in places}

Locks(hit, L, b) == /\ L \in SUBSET {k \in hit : b[k].init}
                    /\ (\A k \in hit : b[k].init) => L = hit

LEMMA ReachedNames ==
    ASSUME NEW pages, Whole(pages), NEW chosen, chosen \subseteq Places(pages)
    PROVE  /\ Locks(NamesOf(pages, chosen), NamesOf(pages, Reached(pages, chosen)), BoardOf(pages))
           /\ \A g \in Places(pages) :
                NameIn(pages, g) \in NamesOf(pages, Reached(pages, chosen))
                <=> g \in Reached(pages, chosen)
<1> DEFINE hit == NamesOf(pages, chosen)
           L == NamesOf(pages, Reached(pages, chosen))
<1>1. \A h \in chosen : EntryIn(pages, h) = BoardOf(pages)[NameIn(pages, h)]
  BY BoardIs
<1>2. ASSUME NEW h \in Reached(pages, chosen) PROVE h \in chosen /\ EntryIn(pages, h).init
  <2>1. h \in chosen /\ (~EntryIn(pages, h).init => Before(h, h))
    BY DEF Reached
  <2>2. h[1] \in Nat /\ h[2] \in Nat
    <3>1. h[1] \in DOMAIN pages /\ h[2] \in DOMAIN pages[h[1]].keys /\ pages \in Seq(WbPages)
      BY <2>1, PlaceIs DEF Whole, PagesOK
    <3>2. pages[h[1]].keys \in Seq(Key)
      BY <3>1, PageType
    <3> QED
      BY <3>1, <3>2, PageType, KeyType
  <2>3. ~Before(h, h)
    BY <2>2 DEF Before
  <2> QED
    BY <2>1, <2>3
<1>3. L \in SUBSET {k \in hit : BoardOf(pages)[k].init}
  BY <1>1, <1>2 DEF NamesOf
<1>4. (\A k \in hit : BoardOf(pages)[k].init) => L = hit
  <2> SUFFICES ASSUME \A k \in hit : BoardOf(pages)[k].init PROVE L = hit
    OBVIOUS
  <2>1. \A g \in chosen : EntryIn(pages, g).init
    BY <1>1 DEF NamesOf
  <2>2. Reached(pages, chosen) = chosen
    BY <2>1 DEF Reached
  <2> QED
    BY <2>2
<1>5. \A g \in Places(pages) : NameIn(pages, g) \in L <=> g \in Reached(pages, chosen)
  BY <1>2 DEF Whole, Unique, NamesOf
<1> QED
  BY <1>3, <1>4, <1>5 DEF Locks

-----------------------------------------------------------------------------
(* The steps of the map.                                                   *)

\* A program that names its checkpoint first has no name twice, in memory or in the file.
MapInv == Whole(wbpages) /\ (wbckpt = NOCKPT \/ (Whole(wbckpt) /\ wbckpt # <<>>))

SavedOf(ckpt) == IF ckpt = NOCKPT THEN NOCKPT ELSE BoardOf(Reverse(ckpt))

LEMMA NoPlace == Whole(<<>>) /\ BoardOf(<<>>) = M!Nothing
<1>1. PagesOK(<<>>) /\ \A h : h \notin Places(<<>>)
  BY EmptyOK, PlaceIs
<1>2. Whole(<<>>)
  BY <1>1 DEF Whole, Unique
<1>3. M!Nothing = [k \in WbNames |-> NOENTRY]
  BY DEF M!Nothing
<1> QED
  BY <1>1, <1>2, <1>3, BoardFrom

LEMMA PutMaps ==
    ASSUME MapInv, WbInitFirst, NEW c \in WbPuts,
           WbPut(c.key, c.val, c.opts, c.wrong, c.create)
    PROVE  MapInv' /\ M!Put(c.key, c.val, c.opts, c.wrong, c.create)
<1> DEFINE q == PutKey(wbpages, c.key, c.val, c.opts, c.wrong, c.create)
           b == BoardOf(wbpages)
           new == IF b[c.key] = NOENTRY THEN M!NewEntry(c.val, c.opts, c.create)
                  ELSE M!Overwritten(b[c.key], c.val, c.wrong, c.create)
<1>1. /\ wbpages # <<>> /\ wbpages' = q /\ wbckpt' = wbckpt
      /\ c.key \in WbNames /\ c.create \in BOOLEAN /\ c.val \in WbValues
      /\ Whole(wbpages)
  BY WbAssumption DEF WbPut, MapInv, WbValues
<1>2. Whole(q) /\ BoardOf(q) = [b EXCEPT ![c.key] = new] /\ q # <<>>
  <2>1. CASE Lookup(wbpages, c.key) # {}
    <3>1. b[c.key] # NOENTRY /\ LookupEntry(wbpages, c.key) = b[c.key]
      BY <1>1, <2>1, BoardIs
    <3>2. LookupEntry(wbpages, c.key) \in WbEntries
      BY <1>1, <2>1, EntryFound DEF Whole
    <3>3. new = M!Overwritten(b[c.key], c.val, c.wrong, c.create) /\ new \in WbEntries
      BY <1>1, <3>1, <3>2, EntryOps
    <3>4. q = SetEntry(wbpages, c.key, new)
      BY <2>1, <3>1, <3>3 DEF PutKey
    <3> HIDE DEF b, new, q
    <3> QED
      BY <1>1, <2>1, <3>3, <3>4, SetEntryBoard DEF b
  <2>2. CASE Lookup(wbpages, c.key) = {}
    <3>1. b[c.key] = NOENTRY
      BY <1>1, <2>2, BoardIs
    <3>2. new = M!NewEntry(c.val, c.opts, c.create) /\ new \in WbEntries
      BY <1>1, <3>1, NewEntryType
    <3>3. q = AddKey(wbpages, c.key, new)
      BY <1>1, <2>2, <3>2 DEF PutKey, Initial
    <3> HIDE DEF b, new, q
    <3> QED
      BY <1>1, <2>2, <3>2, <3>3, AddKeyBoard DEF b
  <2> QED
    BY <2>1, <2>2
<1>3. MapInv'
  BY <1>1, <1>2 DEF MapInv
<1>4. Board = b /\ Board' = BoardOf(q)
  <2>1. Board' = BoardOf(wbpages')
    BY DEF Board, BoardOf
  <2> QED
    BY <1>1, <2>1 DEF Board, BoardOf
<1>5. Board' = [Board EXCEPT ![c.key] = new]
  BY <1>2, <1>4
<1> HIDE DEF q
<1>6. M!Put(c.key, c.val, c.opts, c.wrong, c.create)
  BY <1>1, <1>2, <1>4, <1>5 DEF M!Put
<1> QED
  BY <1>3, <1>6

LEMMA LockMaps ==
    ASSUME MapInv, NEW S \in WbPrefixes, WbLock(S)
    PROVE  MapInv' /\ M!Lock(S)
<1> DEFINE q == Locked(wbpages, S)
           b == BoardOf(wbpages)
           chosen == {h \in Places(wbpages) : NameIn(wbpages, h) \in S /\ EntryIn(wbpages, h).until}
           hit == NamesOf(wbpages, chosen)
           L == NamesOf(wbpages, Reached(wbpages, chosen))
           c == [k \in WbNames |-> IF k \in L THEN M!LockedEntry(b[k]) ELSE b[k]]
<1>1. /\ wbpages # <<>> /\ wbpages' = q /\ wbckpt' = wbckpt /\ Whole(wbpages)
      /\ S \in SUBSET WbNames
  BY WbAssumption DEF WbLock, MapInv
<1>2. /\ L \in SUBSET {k \in hit : b[k].init}
      /\ (\A k \in hit : b[k].init) => L = hit
      /\ \A g \in Places(wbpages) : NameIn(wbpages, g) \in L <=> g \in Reached(wbpages, chosen)
  <2>1. chosen \subseteq Places(wbpages)
    OBVIOUS
  <2> HIDE DEF chosen
  <2>2. Locks(hit, L, b)
    BY <1>1, <2>1, ReachedNames
  <2>3. \A g \in Places(wbpages) : NameIn(wbpages, g) \in L <=> g \in Reached(wbpages, chosen)
    BY <1>1, <2>1, ReachedNames
  <2> QED
    BY <2>2, <2>3 DEF Locks
<1>3. hit = {k \in M!Keys(S) : Board[k].until}
  <2>1. Board = b
    BY DEF Board, BoardOf
  <2>2. ASSUME NEW h \in chosen
        PROVE  NameIn(wbpages, h) \in S /\ b[NameIn(wbpages, h)] # NOENTRY
               /\ b[NameIn(wbpages, h)].until
    BY <1>1, <2>2, BoardIs
  <2>3. ASSUME NEW k \in S, b[k] # NOENTRY, b[k].until PROVE k \in hit
    <3>1. PICK h \in Places(wbpages) : NameIn(wbpages, h) = k
      BY <1>1, <2>3, BoardIs
    <3>2. EntryIn(wbpages, h) = b[k]
      BY <1>1, <3>1, BoardIs
    <3> QED
      BY <2>3, <3>1, <3>2 DEF NamesOf
  <2>4. \A k : k \in hit <=> \E h \in chosen : k = NameIn(wbpages, h)
    BY DEF NamesOf
  <2> HIDE DEF b, hit, chosen
  <2> QED
    BY <2>1, <2>2, <2>3, <2>4 DEF M!Keys
<1>4. SameKeys(wbpages, q)
      /\ \A g \in Places(wbpages) :
           EntryIn(q, g) = IF g \in Reached(wbpages, chosen) THEN M!LockedEntry(EntryIn(wbpages, g))
                           ELSE EntryIn(wbpages, g)
  BY <1>1, LockedIs DEF Whole
<1> HIDE DEF chosen, L, hit, q
<1>5. \A h \in Places(wbpages) : c[NameIn(wbpages, h)] = EntryIn(q, h)
  <2> SUFFICES ASSUME NEW h \in Places(wbpages) PROVE c[NameIn(wbpages, h)] = EntryIn(q, h)
    OBVIOUS
  <2>1. NameIn(wbpages, h) \in WbNames /\ b[NameIn(wbpages, h)] = EntryIn(wbpages, h)
    BY <1>1, PlaceType, BoardIs DEF Whole
  <2> HIDE DEF b
  <2> QED
    BY <1>2, <1>4, <2>1
<1>6. \A k \in WbNames : b[k] = NOENTRY => c[k] = NOENTRY
  <2> SUFFICES ASSUME NEW k \in WbNames, b[k] = NOENTRY, k \in L PROVE FALSE
    OBVIOUS
  <2>1. k \in hit
    BY <1>2
  <2>2. b[k] # NOENTRY
    BY <1>3, <2>1 DEF M!Keys, Board, BoardOf
  <2> QED
    BY <2>2
<1>7. c = [k \in WbNames |-> c[k]]
  OBVIOUS
<1> HIDE DEF b, c
<1>8. Whole(q) /\ BoardOf(q) = c
  BY <1>1, <1>4, <1>5, <1>6, <1>7, SameKeysBoard DEF b
<1>9. q # <<>>
  <2>1. DOMAIN q = DOMAIN wbpages /\ wbpages \in Seq(WbPages)
    BY <1>1, <1>4 DEF SameKeys, Whole, PagesOK
  <2>2. 1 \in DOMAIN wbpages
    BY <1>1, <2>1
  <2> QED
    BY <2>1, <2>2
<1>10. MapInv'
  BY <1>1, <1>8 DEF MapInv
<1>11. Board = b /\ Board' = c
  <2>1. Board' = BoardOf(wbpages')
    BY DEF Board, BoardOf
  <2> QED
    BY <1>1, <1>8, <2>1 DEF Board, BoardOf, b
<1>12. M!Lock(S)
  <2>1. L \in SUBSET {k \in hit : Board[k].init} /\ ((\A k \in hit : Board[k].init) => L = hit)
    BY <1>2, <1>11
  <2>2. Board' = [k \in WbNames |-> IF k \in L THEN M!LockedEntry(Board[k]) ELSE Board[k]]
    BY <1>11 DEF c
  <2>3. /\ (wbpages # <<>>)' = (wbpages # <<>>)
        /\ wbckpt' = wbckpt
    BY <1>1, <1>9
  <2> QED
    BY <1>3, <2>1, <2>2, <2>3 DEF M!Lock
<1> QED
  BY <1>10, <1>12

LEMMA StartMaps ==
    ASSUME MapInv, WbStart
    PROVE  MapInv' /\ M!Start
<1> DEFINE q == Initial(wbpages)
<1>1. wbpages = <<>> /\ wbpages' = q /\ wbckpt' = wbckpt
  BY DEF WbStart
<1>2. Board' = BoardOf(wbpages')
  BY DEF Board, BoardOf
<1>3. CASE wbckpt = NOCKPT
  <2>1. q = NewPage(<<>>, WbMaxLines)
    BY <1>1, <1>3 DEF Initial
  <2>2. PagesOK(q) /\ Places(q) = {} /\ q # <<>>
    BY <2>1, FirstPageOK
  <2> HIDE DEF q
  <2>3. Whole(q)
    BY <2>2 DEF Whole, Unique
  <2>4. BoardOf(q) = M!Nothing
    <3>1. M!Nothing = [k \in WbNames |-> NOENTRY]
      BY DEF M!Nothing
    <3> QED
      BY <2>2, <2>3, <3>1, BoardFrom
  <2>5. MapInv'
    BY <1>1, <1>3, <2>3 DEF MapInv
  <2>6. M!Start
    BY <1>1, <1>2, <1>3, <2>2, <2>4 DEF M!Start
  <2> QED
    BY <2>5, <2>6
<1>4. CASE wbckpt # NOCKPT
  <2> DEFINE p == Reverse(wbckpt)
             v == BoardOf(p)
             chosen == Restarted(p)
             hit == NamesOf(p, chosen)
             L == NamesOf(p, Reached(p, chosen))
             E(k) == LET e == IF k \in L THEN M!LockedEntry(v[k]) ELSE v[k]
                     IN  IF e.local THEN M!UndefinedEntry(e) ELSE e
             c == [k \in WbNames |-> IF v[k] = NOENTRY THEN NOENTRY ELSE E(k)]
  <2>1. Whole(wbckpt) /\ wbckpt # <<>> /\ Whole(p)
    BY <1>4, ReverseBoard DEF MapInv
  <2>2. q = Reload /\ q = Reloaded(p)
    BY <1>1, <1>4 DEF Initial, Reload
  <2>3. q # <<>>
    BY <2>1, <2>2, ReloadOK DEF Whole
  <2>4. /\ SameKeys(p, q)
        /\ \A g \in Places(p) :
             LET e == IF g \in Reached(p, chosen) THEN M!LockedEntry(EntryIn(p, g)) ELSE EntryIn(p, g)
             IN  EntryIn(q, g) = IF e.local THEN M!UndefinedEntry(e) ELSE e
    BY <2>1, <2>2, ReloadedIs DEF Whole
  <2>5. chosen \subseteq Places(p)
    BY DEF Restarted
  <2>6. hit = {k \in WbNames : v[k] # NOENTRY /\ v[k].onrestart}
    <3>1. ASSUME NEW h \in chosen
          PROVE  /\ NameIn(p, h) \in WbNames /\ v[NameIn(p, h)] # NOENTRY
                 /\ v[NameIn(p, h)].onrestart
      <4>1. h \in Places(p) /\ EntryIn(p, h).onrestart
        BY <3>1 DEF Restarted
      <4> QED
        BY <2>1, <4>1, PlaceType, BoardIs DEF Whole
    <3>2. ASSUME NEW k \in WbNames, v[k] # NOENTRY, v[k].onrestart PROVE k \in hit
      <4>1. PICK h \in Places(p) : NameIn(p, h) = k
        BY <2>1, <3>2, BoardIs
      <4>2. EntryIn(p, h) = v[k]
        BY <2>1, <4>1, BoardIs
      <4>3. h \in chosen
        BY <3>2, <4>1, <4>2 DEF Restarted
      <4> QED
        BY <4>1, <4>3 DEF NamesOf
    <3>3. \A k : k \in hit <=> \E h \in chosen : k = NameIn(p, h)
      BY DEF NamesOf
    <3> HIDE DEF v, chosen, hit
    <3> QED
      BY <3>1, <3>2, <3>3
  <2> HIDE DEF p, q, chosen
  <2>8. /\ L \in SUBSET {k \in hit : v[k].init}
        /\ (\A k \in hit : v[k].init) => L = hit
        /\ \A g \in Places(p) : NameIn(p, g) \in L <=> g \in Reached(p, chosen)
    <3>1. Locks(hit, L, v)
      BY <2>1, <2>5, ReachedNames
    <3>2. \A g \in Places(p) : NameIn(p, g) \in L <=> g \in Reached(p, chosen)
      BY <2>1, <2>5, ReachedNames
    <3> QED
      BY <3>1, <3>2 DEF Locks
  <2> HIDE DEF hit, L
  <2>9. \A h \in Places(p) : c[NameIn(p, h)] = EntryIn(q, h)
    <3> SUFFICES ASSUME NEW h \in Places(p) PROVE c[NameIn(p, h)] = EntryIn(q, h)
      OBVIOUS
    <3>1. /\ NameIn(p, h) \in WbNames /\ v[NameIn(p, h)] = EntryIn(p, h)
          /\ v[NameIn(p, h)] # NOENTRY
      BY <2>1, PlaceType, BoardIs DEF Whole
    <3> HIDE DEF v
    <3>2. E(NameIn(p, h)) = EntryIn(q, h)
      BY <2>4, <2>8, <3>1
    <3> HIDE DEF E
    <3> QED
      BY <3>1, <3>2
  <2>10. \A k \in WbNames : v[k] = NOENTRY => c[k] = NOENTRY
    OBVIOUS
  <2>11. c = [k \in WbNames |-> c[k]]
    OBVIOUS
  <2> HIDE DEF c
  <2>12. Whole(q) /\ BoardOf(q) = c
    BY <2>1, <2>4, <2>9, <2>10, <2>11, SameKeysBoard
  <2>13. MapInv'
    BY <1>1, <2>12 DEF MapInv
  <2>14. [k \in WbNames |-> IF Lookup(p, k) = {} THEN NOENTRY ELSE LookupEntry(p, k)] = v
    BY DEF BoardOf
  <2> HIDE DEF v, E
  <2>15. Board' = c
    BY <1>1, <1>2, <2>12
  <2>16. v # NOCKPT
    <3>1. v \in [WbNames -> WbEntries \cup {NOENTRY}]
      BY <2>1, BoardIs DEF v
    <3> QED
      BY <3>1, WbAssumption
  <2>17. M!Start
    <3>1. (wbpages # <<>>)' = TRUE /\ (wbpages # <<>>) = FALSE
      BY <1>1, <2>3
    <3> QED
      BY <1>1, <1>4, <2>6, <2>8, <2>14, <2>15, <2>16, <3>1 DEF M!Start, c, E, p
  <2> QED
    BY <2>13, <2>17
<1> QED
  BY <1>3, <1>4

\* What the map makes of a line of a file: it is left out, or does what it says.
MapLine(b, d) ==
    CASE d.op = "define" -> {b, M!Define(b, d.key, d.val, d.opts)}
      [] d.op = "assign" -> IF b[d.key] = NOENTRY THEN {b}
                            ELSE {b, [b EXCEPT ![d.key] = M!Stored(@, d.val)]}
      [] d.op = "toomany" -> IF b[d.key] = NOENTRY THEN {b}
                             ELSE {b, [b EXCEPT ![d.key].val = d.val]}
MapLines(B, d) == UNION {MapLine(b, d) : b \in B}

MapFile(b, f) == M!FoldLeft(LAMBDA B, d : UNION {MapLine(c, d) : c \in B}, {b}, f)

Boards == [WbNames -> WbEntries \cup {NOENTRY}]

LEMMA MapLineType ==
    ASSUME NEW b \in Boards, NEW d, LineOK(d)
    PROVE  MapLine(b, d) \in SUBSET Boards
<1>1. d.key \in WbNames /\ d.val \in WbValues /\ b[d.key] \in WbEntries \cup {NOENTRY}
  BY DEF LineOK, Boards
<1>2. \A e \in WbEntries : [b EXCEPT ![d.key] = e] \in Boards
  BY <1>1 DEF Boards
<1>3. CASE d.op = "define"
  <2>1. M!NewEntry(d.val, d.opts, TRUE) \in WbEntries
    BY <1>1, NewEntryType
  <2>2. M!Define(b, d.key, d.val, d.opts) \in Boards
    BY <1>2, <2>1 DEF M!Define
  <2>3. MapLine(b, d) = {b, M!Define(b, d.key, d.val, d.opts)}
    BY <1>3 DEF MapLine
  <2> QED
    BY <2>2, <2>3
<1>4. CASE d.op = "assign"
  <2>1. b[d.key] # NOENTRY => M!Stored(b[d.key], d.val) \in WbEntries
    BY <1>1, EntryOps
  <2>2. b[d.key] # NOENTRY => [b EXCEPT ![d.key] = M!Stored(@, d.val)] \in Boards
    BY <1>2, <2>1
  <2>3. MapLine(b, d) = IF b[d.key] = NOENTRY THEN {b}
                        ELSE {b, [b EXCEPT ![d.key] = M!Stored(@, d.val)]}
    BY <1>4 DEF MapLine
  <2> QED
    BY <2>2, <2>3
<1>5. CASE d.op = "toomany"
  <2>1. b[d.key] # NOENTRY => [b[d.key] EXCEPT !.val = d.val] \in WbEntries
    BY <1>1, EntryOps
  <2>2. b[d.key] # NOENTRY => [b EXCEPT ![d.key].val = d.val] \in Boards
    BY <1>2, <2>1
  <2>3. MapLine(b, d) = IF b[d.key] = NOENTRY THEN {b}
                        ELSE {b, [b EXCEPT ![d.key].val = d.val]}
    BY <1>5 DEF MapLine
  <2> QED
    BY <2>2, <2>3
<1> QED
  BY <1>3, <1>4, <1>5 DEF LineOK

LEMMA MapFileSteps ==
    ASSUME NEW f \in WbFiles, NEW b \in Boards
    PROVE  \E w \in [0 .. Len(f) -> SUBSET Boards] :
             /\ w[0] = {b}
             /\ \A k \in 0 .. Len(f) - 1 : w[k + 1] = MapLines(w[k], f[k + 1])
             /\ w[Len(f)] = MapFile(b, f)
<1> DEFINE N == Len(f)
           R == SUBSET Boards
           r0 == {b}
           h == [p \in (1 .. N) \X R |-> MapLines(p[2], f[p[1]])]
           Meets(g) == g = [s \in SUBSET DOMAIN f |->
                              IF s = {} THEN r0 ELSE MapLines(g[s \ {Max(s)}], f[Max(s)])]
           it == CHOOSE g : Meets(g)
<1>1. N \in Nat /\ DOMAIN f = 1 .. N /\ \A i \in 1 .. N : LineOK(f[i])
  BY FileLines
<1>2. h \in [(1 .. N) \X R -> R]
  <2>1. ASSUME NEW p \in (1 .. N) \X R PROVE MapLines(p[2], f[p[1]]) \in R
    <3>1. p[1] \in 1 .. N /\ p[2] \in SUBSET Boards
      OBVIOUS
    <3>2. \A c \in p[2] : MapLine(c, f[p[1]]) \in SUBSET Boards
      BY <1>1, <3>1, MapLineType
    <3> QED
      BY <3>2 DEF MapLines
  <2> HIDE DEF R
  <2> QED
    BY <2>1
<1>3. \A s \in SUBSET (1 .. N) : s # {} => Max(s) \in 1 .. N /\ s \ {Max(s)} \in SUBSET (1 .. N)
  BY <1>1, MaxOf
<1>4. MapFile(b, f) = it[DOMAIN f]
  BY DEF MapFile, M!FoldLeft, M!MapThenFoldSet, M!Max, Max, MapLines
<1>5. r0 \in R
  OBVIOUS
<1> HIDE DEF r0, R
<1>6. Meets(it)
  <2>1. PICK g \in [SUBSET (1 .. N) -> R] : IsFold(g, N, r0, h)
    <3> HIDE DEF h, N
    <3> QED
      BY <1>1, <1>2, <1>5, FoldExists
  <2>2. Meets(g)
    BY <1>1, <1>3, <2>1 DEF IsFold
  <2> HIDE DEF Meets
  <2> QED
    BY <2>2
<1>7. \E w \in [0 .. N -> R] : StepsTo(it[1 .. N], w, N, r0, h)
  <2> HIDE DEF it
  <2>1. it[{}] = r0
    BY <1>6
  <2>2. ASSUME NEW s \in SUBSET (1 .. N), s # {}, it[s \ {Max(s)}] \in R
        PROVE  it[s] = h[<<Max(s), it[s \ {Max(s)}]>>]
    BY <1>1, <1>3, <1>6, <2>2
  <2>3. Folds(it, N, R, r0, h)
    BY <2>1, <2>2 DEF Folds
  <2> HIDE DEF h, N
  <2> QED
    BY <1>1, <1>2, <1>5, <2>3, FoldSteps
<1> QED
  <2> HIDE DEF it
  <2>1. PICK w \in [0 .. N -> R] : StepsTo(it[1 .. N], w, N, r0, h)
    BY <1>7
  <2>2. \A k \in 0 .. N - 1 : k + 1 \in 1 .. N /\ w[k] \in R
    <3>1. N \in Nat
      BY <1>1
    <3> HIDE DEF N, h, Meets
    <3>2. \A k \in 0 .. N - 1 : k + 1 \in 1 .. N /\ k \in 0 .. N
      BY <3>1
    <3> QED
      BY <3>2
  <2>3. \A k \in 0 .. N - 1 : w[k + 1] = MapLines(w[k], f[k + 1])
    BY <2>1, <2>2 DEF StepsTo
  <2>4. w[0] = r0 /\ w[N] = MapFile(b, f)
    BY <1>1, <1>4, <2>1 DEF StepsTo
  <2> QED
    BY <2>3, <2>4 DEF r0, R

\* A line does to the pages what the map allows.
LEMMA ReadLineMaps ==
    ASSUME NEW r \in Reads, Whole(r.pages), r.pages # <<>>, NEW d, LineOK(d), NEW mode
    PROVE  LET q == ReadLine(r, d, mode).pages IN
           Whole(q) /\ q # <<>> /\ BoardOf(q) \in MapLine(BoardOf(r.pages), d)
<1> DEFINE p == r.pages
           b == BoardOf(p)
           q == ReadLine(r, d, mode).pages
<1>1. b \in MapLine(b, d)
  BY DEF MapLine, LineOK
<1>2. CASE ReadLine(r, d, mode) = r
  BY <1>1, <1>2
<1>3. CASE ReadLine(r, d, mode) # r /\ d.op = "define"
  <2> DEFINE e == M!NewEntry(d.val, d.opts, TRUE)
  <2>1. Lookup(p, d.key) = {} /\ q = AddKey(p, d.key, e)
    BY <1>3 DEF ReadLine, DefineKey
  <2>2. e \in WbEntries /\ d.key \in WbNames
    BY NewEntryType DEF LineOK
  <2> HIDE DEF e, p, q
  <2>3. Whole(q) /\ BoardOf(q) = [b EXCEPT ![d.key] = e] /\ q # <<>>
    BY <2>1, <2>2, AddKeyBoard DEF p
  <2>4. b[d.key] = NOENTRY
    BY <2>1, <2>2, BoardIs DEF p
  <2>5. BoardOf(q) = M!Define(b, d.key, d.val, d.opts)
    BY <2>3, <2>4 DEF M!Define, e
  <2>6. M!Define(b, d.key, d.val, d.opts) \in MapLine(b, d)
    BY <1>3 DEF MapLine
  <2> QED
    BY <2>3, <2>5, <2>6 DEF q, p
<1>4. CASE ReadLine(r, d, mode) # r /\ d.op # "define"
  <2> DEFINE e == LookupEntry(p, d.key)
             n == IF d.op = "toomany" THEN [e EXCEPT !.val = d.val] ELSE M!Stored(e, d.val)
  <2>1. Lookup(p, d.key) # {} /\ q = SetEntry(p, d.key, n)
    <3>1. ReadLine(r, d, mode) = AssignKey(r, d, mode = "strict")
      BY <1>4 DEF ReadLine
    <3>2. Assignable(r, d, mode = "strict")
      BY <1>4, <3>1 DEF AssignKey
    <3>3. AssignKey(r, d, mode = "strict")
          = [r EXCEPT !.pages = SetEntry(p, d.key, n), !.assigned = @ \cup {d.key}]
      BY <3>2 DEF AssignKey, Reads
    <3> HIDE DEF n
    <3> QED
      BY <3>1, <3>2, <3>3 DEF Assignable, Reads
  <2>2. e \in WbEntries /\ d.key \in WbNames /\ d.val \in WbValues
    BY <2>1, EntryFound DEF Whole, LineOK
  <2>3. e = b[d.key] /\ b[d.key] # NOENTRY
    BY <2>1, <2>2, BoardIs
  <2> HIDE DEF e
  <2>4. n \in WbEntries
    BY <2>2, EntryOps
  <2>5. Whole(q) /\ BoardOf(q) = [b EXCEPT ![d.key] = n] /\ q # <<>>
    <3> HIDE DEF n, p, q
    <3> QED
      BY <2>1, <2>2, <2>4, SetEntryBoard DEF p
  <2>6. d.op = "toomany" \/ d.op = "assign"
    BY <1>4 DEF LineOK
  <2>7. [b EXCEPT ![d.key] = n] \in MapLine(b, d)
    <3>1. CASE d.op = "toomany"
      <4>1. n = [b[d.key] EXCEPT !.val = d.val]
        BY <2>3, <3>1
      <4>2. MapLine(b, d) = {b, [b EXCEPT ![d.key].val = d.val]}
        BY <2>3, <3>1 DEF MapLine
      <4> HIDE DEF b
      <4> QED
        BY <4>1, <4>2
    <3>2. CASE d.op = "assign"
      <4>1. n = M!Stored(b[d.key], d.val)
        BY <2>3, <3>2
      <4>2. MapLine(b, d) = {b, [b EXCEPT ![d.key] = M!Stored(@, d.val)]}
        BY <2>3, <3>2 DEF MapLine
      <4> HIDE DEF b
      <4> QED
        BY <4>1, <4>2
    <3> QED
      BY <2>6, <3>1, <3>2
  <2> QED
    BY <2>5, <2>7
<1> QED
  BY <1>2, <1>3, <1>4

\* So a file does to the pages what the map allows of it, line after line.
LEMMA FileMaps ==
    ASSUME NEW f \in WbFiles, NEW mode, Whole(wbpages), wbpages # <<>>
    PROVE  LET q == FilePages(wbpages, f, mode) IN
           Whole(q) /\ q # <<>> /\ BoardOf(q) \in MapFile(BoardOf(wbpages), f)
<1> DEFINE N == Len(f)
           b == BoardOf(wbpages)
<1>1. N \in Nat /\ \A i \in 1 .. N : LineOK(f[i])
  BY FileLines
<1>2. PICK w \in [0 .. N -> Reads] :
         /\ w[0] = [pages |-> wbpages, defined |-> {}, assigned |-> {}]
         /\ \A k \in 0 .. N - 1 : w[k + 1] = ReadLine(w[k], f[k + 1], mode)
         /\ w[N].pages = FilePages(wbpages, f, mode)
  BY ReadSteps DEF Whole
<1>3. PICK x \in [0 .. N -> SUBSET Boards] :
         /\ x[0] = {b}
         /\ \A k \in 0 .. N - 1 : x[k + 1] = MapLines(x[k], f[k + 1])
         /\ x[N] = MapFile(b, f)
  <2>1. b \in Boards
    BY BoardIs DEF Boards
  <2> QED
    BY <2>1, MapFileSteps
<1> DEFINE At(n) == Whole(w[n].pages) /\ w[n].pages # <<>> /\ BoardOf(w[n].pages) \in x[n]
           S == {n \in Nat : n <= N => At(n)}
<1> HIDE DEF N
<1>4. 0 \in S
  BY <1>2, <1>3
<1>5. ASSUME NEW n \in S PROVE n + 1 \in S
  <2>1. SUFFICES ASSUME n + 1 <= N PROVE At(n + 1)
    OBVIOUS
  <2>2. n \in 0 .. N - 1 /\ n \in 0 .. N /\ n + 1 \in 1 .. N /\ At(n)
    BY <1>1, <2>1
  <2>3. w[n] \in Reads /\ LineOK(f[n + 1]) /\ w[n + 1] = ReadLine(w[n], f[n + 1], mode)
    BY <1>1, <1>2, <2>2
  <2>4. /\ Whole(w[n + 1].pages) /\ w[n + 1].pages # <<>>
        /\ BoardOf(w[n + 1].pages) \in MapLine(BoardOf(w[n].pages), f[n + 1])
    BY <2>2, <2>3, ReadLineMaps
  <2>5. x[n + 1] = MapLines(x[n], f[n + 1])
    BY <1>3, <2>2
  <2>6. BoardOf(w[n + 1].pages) \in x[n + 1]
    BY <2>2, <2>4, <2>5 DEF MapLines
  <2> QED
    BY <2>4, <2>6
<1>6. N \in S
  <2>1. S \in SUBSET Nat
    OBVIOUS
  <2> HIDE DEF S
  <2> QED
    BY <1>1, <1>4, <1>5, <2>1, AllNumbers
<1>7. At(N)
  BY <1>1, <1>6
<1> QED
  BY <1>2, <1>3, <1>7

LEMMA ReadMaps ==
    ASSUME MapInv, NEW f \in WbFiles, NEW mode, WbRead(f, mode)
    PROVE  MapInv' /\ M!Read
<1> DEFINE q == FilePages(wbpages, f, mode)
<1>1. wbpages # <<>> /\ wbpages' = q /\ wbckpt' = wbckpt /\ Whole(wbpages)
  BY DEF WbRead, FilePages, MapInv
<1>2. Whole(q) /\ q # <<>> /\ BoardOf(q) \in MapFile(BoardOf(wbpages), f)
  BY <1>1, FileMaps
<1> HIDE DEF q
<1>3. MapInv'
  BY <1>1, <1>2 DEF MapInv
<1>4. Board = BoardOf(wbpages) /\ Board' = BoardOf(q)
  <2>1. Board' = BoardOf(wbpages')
    BY DEF Board, BoardOf
  <2> QED
    BY <1>1, <2>1 DEF Board, BoardOf
<1>5. Board' \in MapFile(Board, f)
  BY <1>2, <1>4
<1>6. M!Read
  <2>1. (wbpages # <<>>)' = (wbpages # <<>>)
    BY <1>1, <1>2
  <2> QED
    BY <1>1, <1>5, <2>1 DEF M!Read, MapFile, MapLine
<1> QED
  BY <1>3, <1>6

LEMMA SaveMaps ==
    ASSUME MapInv, WbCheckpoint
    PROVE  MapInv' /\ M!Save
<1>1. wbpages # <<>> /\ wbckpt' = wbpages /\ wbpages' = wbpages /\ Whole(wbpages)
  BY DEF WbCheckpoint, MapInv
<1>2. MapInv'
  BY <1>1 DEF MapInv
<1>3. wbpages # NOCKPT
  BY <1>1, WbAssumption DEF Whole, PagesOK
<1>4. BoardOf(Reverse(wbckpt')) = Board
  BY <1>1, ReverseBoard DEF Board, BoardOf
<1>5. Board' = Board
  BY <1>1 DEF Board
<1>6. M!Save
  BY <1>1, <1>3, <1>4, <1>5 DEF M!Save, BoardOf
<1> QED
  BY <1>2, <1>6

LEMMA DieMaps ==
    ASSUME MapInv, WbDie
    PROVE  MapInv' /\ M!Die
<1>1. wbpages' = <<>> /\ wbckpt' = wbckpt
  BY DEF WbDie
<1>2. MapInv'
  BY <1>1, NoPlace DEF MapInv
<1>3. Board' = M!Nothing
  <2>1. Board' = BoardOf(wbpages')
    BY DEF Board, BoardOf
  <2> QED
    BY <1>1, <2>1, NoPlace
<1>4. M!Die
  BY <1>1, <1>3 DEF M!Die
<1> QED
  BY <1>2, <1>4

\* The pages implement the map: whatever the sizes of the keys, the pages they went to and the
\* order a restart brings the pages back in, every call, restart and directive file does to the
\* names what WbMap promises, in a program that names its checkpoint before it puts a key.
THEOREM WbImplementsMap ==
    ASSUME WbInitFirst
    PROVE  WbSpec => ImplementsMap
<1>1. WbInit => MapInv /\ M!MapInit
  <2> SUFFICES ASSUME WbInit PROVE MapInv /\ M!MapInit
    OBVIOUS
  <2>1. wbpages = <<>> /\ wbckpt = NOCKPT
    BY DEF WbInit
  <2>2. Board = M!Nothing
    BY <2>1, NoPlace DEF Board, BoardOf
  <2>3. MapInv
    BY <2>1, NoPlace DEF MapInv
  <2> QED
    BY <2>1, <2>2, <2>3 DEF M!MapInit
<1>2. MapInv /\ [WbNext]_wbvars => MapInv' /\ (UNCHANGED wbvars \/ M!MapNext)
  <2> SUFFICES ASSUME MapInv, [WbNext]_wbvars
               PROVE  MapInv' /\ (UNCHANGED wbvars \/ M!MapNext)
    OBVIOUS
  <2>1. CASE WbStart
    BY <2>1, StartMaps DEF M!MapNext
  <2>2. CASE WbCheckpoint
    BY <2>2, SaveMaps DEF M!MapNext
  <2>3. CASE WbDie
    BY <2>3, DieMaps DEF M!MapNext
  <2>4. ASSUME NEW c \in WbPuts, WbPut(c.key, c.val, c.opts, c.wrong, c.create)
        PROVE  MapInv' /\ M!MapNext
    BY <2>4, PutMaps DEF M!MapNext
  <2>5. ASSUME NEW S \in WbPrefixes, WbLock(S) PROVE MapInv' /\ M!MapNext
    BY <2>5, LockMaps DEF M!MapNext
  <2>6. ASSUME NEW f \in WbFiles, NEW mode, WbRead(f, mode) PROVE MapInv' /\ M!MapNext
    BY <2>6, ReadMaps DEF M!MapNext
  <2>7. CASE UNCHANGED wbvars
    BY <2>7 DEF wbvars, MapInv
  <2> QED
    BY <2>1, <2>2, <2>3, <2>4, <2>5, <2>6, <2>7 DEF WbNext
<1> QED
  BY <1>1, <1>2, PTL DEF WbSpec, ImplementsMap
=============================================================================
