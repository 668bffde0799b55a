---------------------------- MODULE XdfLink_proofs ----------------------------
(* Why a handle found in linked files stays with its record, and why nothing leads to a
   page that was given back: walks over pages, and what each call does to them. *)
EXTENDS XdfLink, FiniteSetTheorems, WellFoundedInduction, TLAPS

-----------------------------------------------------------------------------
(* Numbers and walks.                                                      *)

\* A set of numbers has a least element.
LEMMA LeastNumber ==
    ASSUME NEW S \in SUBSET Nat, S # {}
    PROVE  \E m \in S : \A k \in S : m <= k
<1>1. PICK R : R = OpToRel(<, Nat)
  OBVIOUS
<1>2. PICK x \in S : \A y \in S : ~(<<y, x>> \in R)
  BY <1>1, WFMin, NatLessThanWellFounded
<1>3. \A y \in S : <<y, x>> \in R <=> y < x
  BY <1>1, SMT DEF OpToRel
<1>4. \A y \in S : ~(y < x)
  BY <1>2, <1>3
<1>5. x \in Nat /\ \A y \in S : y \in Nat
  OBVIOUS
<1>6. QED
  BY <1>4, <1>5

\* The places a walk of n pages goes through.
IsWalk(w, pl, n) == w = [k \in 0 .. n |-> IF k = 0 THEN pl ELSE NextPage(w[k - 1])]

\* There is one of every length.
LEMMA WalkExists ==
    ASSUME NEW pl, NEW n \in Nat
    PROVE  \E w : IsWalk(w, pl, n)
<1> DEFINE S == {m \in Nat : ~ \E w : IsWalk(w, pl, m)}
<1>1. SUFFICES S = {}
  OBVIOUS
<1>2. ASSUME S # {} PROVE FALSE
  <2>1. PICK m \in S : \A k \in S : m <= k
    BY <1>2, LeastNumber
  <2>2. m # 0
    <3>1. PICK w : w = [k \in 0 .. 0 |-> pl]
      OBVIOUS
    <3>2. \A k \in 0 .. 0 : k = 0
      OBVIOUS
    <3>3. IsWalk(w, pl, 0)
      BY <3>1, <3>2 DEF IsWalk
    <3>4. QED
      BY <2>1, <3>3
  <2>3. m - 1 \in Nat /\ m - 1 \notin S
    BY <2>1, <2>2
  <2>4. PICK w : IsWalk(w, pl, m - 1)
    BY <2>3
  <2>5. PICK v : v = [k \in 0 .. m |-> IF k = m THEN NextPage(w[m - 1]) ELSE w[k]]
    OBVIOUS
  <2>6. w = [k \in 0 .. m - 1 |-> IF k = 0 THEN pl ELSE NextPage(w[k - 1])]
    BY <2>4 DEF IsWalk
  <2>7. \A k \in 0 .. m - 1 : v[k] = w[k] /\ w[k] = IF k = 0 THEN pl ELSE NextPage(w[k - 1])
    BY <2>1, <2>5, <2>6
  <2>8. ASSUME NEW k \in 0 .. m
        PROVE  v[k] = IF k = 0 THEN pl ELSE NextPage(v[k - 1])
    <3>1. CASE k = m
      <4>1. v[m] = NextPage(w[m - 1]) /\ v[m - 1] = w[m - 1]
        BY <2>2, <2>3, <2>5, <2>7
      <4>2. QED
        BY <2>2, <3>1, <4>1
    <3>2. CASE k # m
      <4>1. k \in 0 .. m - 1
        BY <2>1, <3>2
      <4>2. k # 0 => k - 1 \in 0 .. m - 1
        BY <2>1, <4>1
      <4>3. v[k] = w[k] /\ (k # 0 => v[k - 1] = w[k - 1])
        BY <2>7, <4>1, <4>2
      <4>4. QED
        BY <2>7, <4>1, <4>3
    <3>3. QED
      BY <3>1, <3>2
  <2>9. IsWalk(v, pl, m)
    <3>1. v = [k \in 0 .. m |-> v[k]]
      BY <2>5
    <3>2. QED
      BY <2>8, <3>1 DEF IsWalk
  <2>10. QED
    BY <2>1, <2>9
<1>3. QED
  BY <1>2

\* Walks from the same page go through the same pages, as far as both go.
LEMMA WalkUnique ==
    ASSUME NEW pl, NEW n \in Nat, NEW m \in Nat, n <= m, NEW w, IsWalk(w, pl, n),
           NEW v, IsWalk(v, pl, m), NEW j \in 0 .. n
    PROVE  w[j] = v[j]
<1> DEFINE S == {k \in 0 .. n : w[k] # v[k]}
<1>1. \A k \in 0 .. n : /\ w[k] = IF k = 0 THEN pl ELSE NextPage(w[k - 1])
                        /\ v[k] = IF k = 0 THEN pl ELSE NextPage(v[k - 1])
  <2>1. w = [k \in 0 .. n |-> IF k = 0 THEN pl ELSE NextPage(w[k - 1])]
    BY DEF IsWalk
  <2>2. v = [k \in 0 .. m |-> IF k = 0 THEN pl ELSE NextPage(v[k - 1])]
    BY DEF IsWalk
  <2>3. \A k \in 0 .. n : k \in 0 .. m
    OBVIOUS
  <2>4. QED
    BY <2>1, <2>2, <2>3
<1>2. ASSUME S # {} PROVE FALSE
  <2>1. S \in SUBSET Nat
    OBVIOUS
  <2>2. PICK k \in S : \A i \in S : k <= i
    BY <1>2, <2>1, LeastNumber
  <2>3. k # 0
    BY <1>1, <2>2
  <2>4. k - 1 \in 0 .. n /\ k - 1 \notin S
    BY <2>2, <2>3
  <2>5. w[k - 1] = v[k - 1]
    BY <2>4
  <2>6. w[k] = v[k]
    BY <1>1, <2>2, <2>3, <2>5
  <2>7. QED
    BY <2>2, <2>6
<1>3. QED
  BY <1>2

\* The page n pages ahead is the last of a walk.
LEMMA AheadWalk ==
    ASSUME NEW pl, NEW n \in Nat
    PROVE  \E w : IsWalk(w, pl, n) /\ Ahead(pl, n) = w[n]
<1>1. PICK w : w = [k \in 0 .. n |-> IF k = 0 THEN pl ELSE NextPage(w[k - 1])]
  BY WalkExists DEF IsWalk
<1> DEFINE a == CHOOSE a : a = [k \in 0 .. n |-> IF k = 0 THEN pl ELSE NextPage(a[k - 1])]
<1>2. a = [k \in 0 .. n |-> IF k = 0 THEN pl ELSE NextPage(a[k - 1])]
  BY <1>1
<1>3. Ahead(pl, n) = a[n]
  BY DEF Ahead
<1>4. IsWalk(a, pl, n)
  BY <1>2 DEF IsWalk
<1>5. QED
  BY <1>3, <1>4

\* Page by page.
LEMMA AheadStep ==
    ASSUME NEW pl
    PROVE  /\ Ahead(pl, 0) = pl
           /\ \A n \in Nat : Ahead(pl, n + 1) = NextPage(Ahead(pl, n))
<1>1. Ahead(pl, 0) = pl
  <2>1. PICK w : IsWalk(w, pl, 0) /\ Ahead(pl, 0) = w[0]
    BY AheadWalk
  <2>2. 0 \in 0 .. 0 /\ w = [k \in 0 .. 0 |-> IF k = 0 THEN pl ELSE NextPage(w[k - 1])]
    BY <2>1 DEF IsWalk
  <2>3. w[0] = pl
    BY <2>2
  <2>4. QED
    BY <2>1, <2>3
<1>2. ASSUME NEW n \in Nat
      PROVE  Ahead(pl, n + 1) = NextPage(Ahead(pl, n))
  <2>1. PICK w : IsWalk(w, pl, n) /\ Ahead(pl, n) = w[n]
    BY AheadWalk
  <2>2. n + 1 \in Nat
    OBVIOUS
  <2>3. PICK v : IsWalk(v, pl, n + 1) /\ Ahead(pl, n + 1) = v[n + 1]
    BY <2>2, AheadWalk
  <2>4. w[n] = v[n]
    <3>1. n \in 0 .. n /\ n <= n + 1
      OBVIOUS
    <3>2. QED
      BY <2>1, <2>2, <2>3, <3>1, WalkUnique
  <2>5. v = [k \in 0 .. n + 1 |-> IF k = 0 THEN pl ELSE NextPage(v[k - 1])]
    BY <2>3 DEF IsWalk
  <2>6. v[n + 1] = NextPage(v[n])
    <3>1. n + 1 \in 0 .. n + 1 /\ n + 1 # 0 /\ (n + 1) - 1 = n
      OBVIOUS
    <3>2. QED
      BY <2>5, <3>1
  <2>7. QED
    BY <2>1, <2>3, <2>4, <2>6
<1>3. QED
  BY <1>1, <1>2

\* Induction, on the set of the numbers for which something holds.
LEMMA AllNumbers ==
    ASSUME NEW S \in SUBSET Nat, 0 \in S, \A n \in S : n + 1 \in S
    PROVE  \A n \in Nat : n \in S
<1>1. ASSUME NEW m \in Nat \ S PROVE FALSE
  <2>1. PICK k \in Nat \ S : \A i \in Nat \ S : k <= i
    <3>1. Nat \ S \in SUBSET Nat /\ Nat \ S # {}
      BY <1>1
    <3>2. QED
      BY <3>1, LeastNumber
  <2>2. k - 1 \in Nat /\ k - 1 \in S
    BY <2>1
  <2>3. (k - 1) + 1 = k
    BY <2>1
  <2>4. QED
    BY <2>1, <2>2, <2>3
<1>2. QED
  BY <1>1

\* Nothing lies behind no page.
LEMMA NothingAhead == \A n \in Nat : Ahead(NULLPAGE, n) = NULLPAGE
<1> DEFINE S == {n \in Nat : Ahead(NULLPAGE, n) = NULLPAGE}
<1>1. 0 \in S
  BY AheadStep
<1>2. ASSUME NEW n \in S PROVE n + 1 \in S
  <2>1. Ahead(NULLPAGE, n + 1) = NextPage(NULLPAGE)
    BY AheadStep
  <2>2. NextPage(NULLPAGE) = NULLPAGE
    BY DEF NextPage
  <2>3. QED
    BY <2>1, <2>2
<1>3. \A n \in Nat : n \in S
  BY <1>1, <1>2, AllNumbers
<1>4. QED
  BY <1>3

\* A walk may rest on the way.
LEMMA AheadTwice ==
    ASSUME NEW pl, NEW a \in Nat, NEW b \in Nat
    PROVE  Ahead(Ahead(pl, a), b) = Ahead(pl, a + b)
<1> DEFINE S == {n \in Nat : Ahead(Ahead(pl, a), n) = Ahead(pl, a + n)}
<1>1. 0 \in S
  BY AheadStep
<1>2. ASSUME NEW n \in S PROVE n + 1 \in S
  <2>1. n \in Nat /\ a + n \in Nat /\ a + (n + 1) = (a + n) + 1
    OBVIOUS
  <2>2. Ahead(Ahead(pl, a), n + 1) = NextPage(Ahead(Ahead(pl, a), n))
    BY <2>1, AheadStep
  <2>3. Ahead(pl, (a + n) + 1) = NextPage(Ahead(pl, a + n))
    BY <2>1, AheadStep
  <2>4. QED
    BY <2>1, <2>2, <2>3
<1> HIDE DEF S
<1>3. S \in SUBSET Nat
  BY DEF S
<1>4. b \in S
  BY <1>1, <1>2, <1>3, AllNumbers
<1>5. QED
  BY <1>4 DEF S

\* A file is walked through page by page.
LEMMA AheadInFile ==
    ASSUME NEW f \in LFiles, NEW i \in Nat, NEW n \in Nat, i + n <= Npages(f),
           Npages(f) \in Nat
    PROVE  Ahead(<<f, i>>, n) = <<f, i + n>>
<1> DEFINE S == {k \in Nat : k <= n => Ahead(<<f, i>>, k) = <<f, i + k>>}
<1>1. 0 \in S
  BY AheadStep
<1>2. ASSUME NEW k \in S PROVE k + 1 \in S
  <2>1. SUFFICES ASSUME k + 1 <= n PROVE Ahead(<<f, i>>, k + 1) = <<f, i + (k + 1)>>
    OBVIOUS
  <2>2. Ahead(<<f, i>>, k) = <<f, i + k>> /\ i + k < Npages(f) /\ i + k \in Nat
    BY <2>1
  <2>3. <<f, i + k>> # NULLPAGE /\ <<f, i + k>> # FREED
    BY <2>2, LinkAssumption
  <2>4. NextPage(<<f, i + k>>) = <<f, i + k + 1>>
    BY <2>2, <2>3 DEF NextPage
  <2>5. Ahead(<<f, i>>, k + 1) = NextPage(<<f, i + k>>)
    <3>1. PICK pl : pl = <<f, i>>
      OBVIOUS
    <3>2. k \in Nat
      OBVIOUS
    <3>3. Ahead(pl, k + 1) = NextPage(Ahead(pl, k))
      BY <3>2, AheadStep
    <3>4. QED
      BY <2>2, <3>1, <3>3
  <2>6. i + k + 1 = i + (k + 1)
    OBVIOUS
  <2>7. QED
    BY <2>4, <2>5, <2>6
<1> HIDE DEF S
<1>3. S \in SUBSET Nat
  BY DEF S
<1>4. n \in S
  BY <1>1, <1>2, <1>3, AllNumbers
<1>5. QED
  BY <1>4 DEF S

\* Walks of n + 1 pages are walks of n pages and one more, in every state.
StepByStep == \A pl : /\ Ahead(pl, 0) = pl
                      /\ \A n \in Nat : Ahead(pl, n + 1) = NextPage(Ahead(pl, n))

LEMMA StepByStepNext == StepByStep /\ StepByStep'
<1>1. StepByStep
  BY AheadStep DEF StepByStep
<1>2. QED
  BY <1>1, PTL

\* A step keeps the next page of every page that has one, of the files F; none is of others.
NextKept(F) ==
    \A x \in F \X Nat : \/ NextPage(x) = NULLPAGE
                        \/ NextPage(x) \in F \X Nat /\ NextPage(x)' = NextPage(x)

\* It keeps where walks from the page pl lead.
WalksKept(F, pl) ==
    \A n \in Nat : \/ Ahead(pl, n) = NULLPAGE
                   \/ Ahead(pl, n) \in F \X Nat /\ Ahead(pl, n)' = Ahead(pl, n)

LEMMA WalkKept ==
    ASSUME NEW F, NEW pl \in F \X Nat, NextKept(F)
    PROVE  WalksKept(F, pl)
<1> DEFINE S == {n \in Nat : \/ Ahead(pl, n) = NULLPAGE
                             \/ Ahead(pl, n) \in F \X Nat /\ Ahead(pl, n)' = Ahead(pl, n)}
<1>1. Ahead(pl, 0) = pl /\ Ahead(pl, 0)' = pl
  BY StepByStepNext DEF StepByStep
<1>2. ASSUME NEW n \in S PROVE n + 1 \in S
  <2>1. PICK x : x = Ahead(pl, n)
    OBVIOUS
  <2>2. n \in Nat /\ Ahead(pl, n + 1) = NextPage(x)
    BY <2>1, AheadStep
  <2>3. CASE x = NULLPAGE
    BY <2>2, <2>3 DEF NextPage
  <2>4. CASE x # NULLPAGE
    <3>1. x \in F \X Nat /\ Ahead(pl, n)' = x
      BY <2>1, <2>4
    <3>2. Ahead(pl, n + 1)' = NextPage(Ahead(pl, n))'
      BY <2>2, StepByStepNext DEF StepByStep
    <3>3. NextPage(Ahead(pl, n))' = NextPage(x)'
      BY <3>1 DEF NextPage
    <3>4. \/ NextPage(x) = NULLPAGE
          \/ NextPage(x) \in F \X Nat /\ NextPage(x)' = NextPage(x)
      BY <3>1 DEF NextKept
    <3>5. QED
      BY <2>2, <3>2, <3>3, <3>4
  <2>5. QED
    BY <2>3, <2>4
<1> HIDE DEF S
<1>3. 0 \in S
  BY <1>1 DEF S
<1>4. S \in SUBSET Nat
  BY DEF S
<1>5. \A n \in Nat : n \in S
  BY <1>2, <1>3, <1>4, AllNumbers
<1>6. QED
  BY <1>5 DEF S, WalksKept

-----------------------------------------------------------------------------
(* What is known of the files, their links and the handle that is held.    *)

\* A position has the four fields of the file table.
IsPosition(c) ==
    c = [cur_dir_page |-> c.cur_dir_page, cur_entry |-> c.cur_entry,
         cur_pageno |-> c.cur_pageno, page_record |-> c.page_record]

LinkTypes ==
    /\ lpage \in [LFiles -> Seq(Seq(BOOLEAN))]
    /\ link \in [LFiles -> LFiles \cup {NULLPAGE}]
    /\ next_page \in [LFiles -> LFiles \cup {NULLPAGE}]
    /\ link_list \in Seq(LFiles)
    /\ lpos = [f \in LFiles |-> lpos[f]] /\ \A f \in LFiles : IsPosition(lpos[f])

\* A last page leads to another file only while its file is linked to that one, and both
\* are open.
LinksOpen ==
    \A f \in LFiles : next_page[f] # NULLPAGE =>
        link[f] = next_page[f] /\ IsOpen(f) /\ IsOpen(next_page[f])

\* The place pl is page number n of the file f and those linked to it.
Numbered(f, n, pl) == n \in Nat /\ pl # NULLPAGE /\ TargetPage(f, n) = pl

\* The handle that is held designates its record, and so does the position of the search
\* as long as it is behind that record.
HeldFound ==
    held # NotHeld =>
        LET f == held.handle[1] IN
        /\ f \in LFiles /\ IsOpen(f)
        /\ held.record \in Nat /\ held.place \in LFiles \X Nat
        /\ Numbered(f, held.handle[2], held.place)
        /\ lpos[f].cur_entry = <<held.place, held.record + 1>>
              /\ lpos[f].cur_dir_page = held.place
           => Numbered(f, lpos[f].cur_pageno, held.place)

\* What a search returned.
FoundKnown == lfound.status \in Statuses \cup {NULLPAGE} \/ lfound.start = NULLPAGE

LinkInv == LinkTypes /\ LinksOpen /\ FoundKnown

-----------------------------------------------------------------------------
(* Lemmas about the state.                                                 *)

\* Pages are known by file and number, pointers to none are not.
PlacesKnown ==
    /\ \A f \in LFiles : /\ Npages(f) \in Nat /\ lpage[f] \in Seq(Seq(BOOLEAN))
                         /\ IsOpen(f) <=> Npages(f) > 0
                         /\ link[f] \in LFiles \cup {NULLPAGE}
                         /\ next_page[f] \in LFiles \cup {NULLPAGE}
    /\ \A x \in LFiles \X Nat :
          /\ x # NULLPAGE /\ x # FREED /\ x[1] \in LFiles /\ x[2] \in Nat
          /\ x = <<x[1], x[2]>>
    /\ NULLPAGE \notin LFiles

LEMMA PlaceFacts == LinkTypes => PlacesKnown
<1> SUFFICES ASSUME LinkTypes PROVE PlacesKnown
  OBVIOUS
<1>1. \A f \in LFiles : /\ lpage[f] \in Seq(Seq(BOOLEAN))
                        /\ link[f] \in LFiles \cup {NULLPAGE}
                        /\ next_page[f] \in LFiles \cup {NULLPAGE}
  BY DEF LinkTypes
<1>2. \A f \in LFiles : Npages(f) \in Nat /\ (IsOpen(f) <=> Npages(f) > 0)
  BY <1>1 DEF Npages, IsOpen
<1>3. \A x \in LFiles \X Nat : x # NULLPAGE /\ x # FREED
  BY LinkAssumption
<1>4. NULLPAGE \notin LFiles
  BY LinkAssumption
<1>5. QED
  BY <1>1, <1>2, <1>3, <1>4 DEF PlacesKnown

\* The page behind a page, as its file and its links say.
NextKnown ==
    \A x \in LFiles \X Nat :
        NextPage(x) = IF x[2] < Npages(x[1]) THEN <<x[1], x[2] + 1>>
                      ELSE IF next_page[x[1]] # NULLPAGE THEN <<next_page[x[1]], 1>>
                      ELSE NULLPAGE

LEMMA NextFacts == LinkTypes => NextKnown
<1> SUFFICES ASSUME LinkTypes, NEW x \in LFiles \X Nat
             PROVE  NextPage(x) = IF x[2] < Npages(x[1]) THEN <<x[1], x[2] + 1>>
                                  ELSE IF next_page[x[1]] # NULLPAGE
                                  THEN <<next_page[x[1]], 1>>
                                  ELSE NULLPAGE
  BY DEF NextKnown
<1>1. x # NULLPAGE /\ x # FREED /\ x[1] \in LFiles /\ NULLPAGE \notin LFiles
  BY PlaceFacts DEF PlacesKnown
<1>2. next_page[x[1]] \in LFiles \cup {NULLPAGE}
  BY <1>1 DEF LinkTypes
<1>3. QED
  BY <1>1, <1>2 DEF NextPage

\* The same after a step.
LEMMA FactsNext == LinkTypes' => PlacesKnown' /\ NextKnown'
<1>1. LinkTypes => PlacesKnown /\ NextKnown
  BY PlaceFacts, NextFacts
<1>2. QED
  BY <1>1, PTL

\* Behind the last page of a file that leads nowhere there is nothing.
LEMMA NothingBehind ==
    ASSUME LinkTypes, NEW f \in LFiles, next_page[f] = NULLPAGE, NEW k \in Nat
    PROVE  Ahead(<<f, Npages(f)>>, k + 1) = NULLPAGE
<1>1. PICK y \in LFiles \X Nat : y = <<f, Npages(f)>>
  BY PlaceFacts DEF PlacesKnown
<1>2. NextPage(y) = NULLPAGE
  BY <1>1, PlaceFacts, NextFacts DEF NextKnown, PlacesKnown
<1>3. Ahead(y, 0) = y /\ Ahead(y, 0 + 1) = NextPage(Ahead(y, 0))
  BY AheadStep
<1>4. Ahead(y, 1) = NULLPAGE
  BY <1>2, <1>3
<1>5. Ahead(Ahead(y, 1), k) = Ahead(y, 1 + k)
  BY AheadTwice
<1>6. Ahead(NULLPAGE, k) = NULLPAGE
  BY NothingAhead
<1>7. 1 + k = k + 1
  OBVIOUS
<1>8. QED
  BY <1>1, <1>4, <1>5, <1>6, <1>7

\* The pages behind page number n have the numbers behind it, also over the end of a file.
LEMMA NumberAhead ==
    ASSUME LinkTypes, LinksOpen, NEW f \in LFiles, NEW n, NEW pl, Numbered(f, n, pl),
           NEW k \in Nat, Ahead(pl, k) # NULLPAGE
    PROVE  Numbered(f, n + k, Ahead(pl, k))
<1>1. n \in Nat /\ n + k \in Nat /\ TargetPage(f, n) = pl /\ pl # NULLPAGE
  BY DEF Numbered
<1>2. /\ Npages(f) \in Nat /\ link[f] \in LFiles \cup {NULLPAGE}
      /\ next_page[f] # NULLPAGE => link[f] # NULLPAGE
  BY PlaceFacts DEF PlacesKnown, LinksOpen
<1>3. CASE n + k < Npages(f)
  <2>1. pl = <<f, n + 1>> /\ n + 1 \in Nat /\ (n + 1) + k <= Npages(f)
    BY <1>1, <1>2, <1>3 DEF TargetPage
  <2>2. Ahead(<<f, n + 1>>, k) = <<f, (n + 1) + k>>
    BY <1>2, <2>1, AheadInFile
  <2>3. (n + 1) + k = (n + k) + 1
    BY <1>1
  <2>4. TargetPage(f, n + k) = <<f, (n + k) + 1>>
    BY <1>3 DEF TargetPage
  <2>5. QED
    BY <1>1, <2>1, <2>2, <2>3, <2>4 DEF Numbered
<1>4. CASE n < Npages(f) /\ ~(n + k < Npages(f))
  <2> DEFINE a == Npages(f) - n - 1
             b == n + k - Npages(f)
  <2>1. /\ pl = <<f, n + 1>> /\ n + 1 \in Nat /\ a \in Nat /\ b \in Nat /\ b + 1 \in Nat
        /\ (n + 1) + a = Npages(f) /\ (n + 1) + a <= Npages(f) /\ a + (b + 1) = k
    BY <1>1, <1>2, <1>4 DEF TargetPage
  <2> HIDE DEF a, b
  <2>2. Ahead(pl, a) = <<f, Npages(f)>>
    BY <1>2, <2>1, AheadInFile
  <2>3. Ahead(Ahead(pl, a), b + 1) = Ahead(pl, a + (b + 1))
    BY <2>1, AheadTwice
  <2>4. Ahead(pl, k) = Ahead(<<f, Npages(f)>>, b + 1)
    BY <2>1, <2>2, <2>3
  <2>5. link[f] # NULLPAGE
    BY <1>2, <2>1, <2>4, NothingBehind
  <2>6. n + k - Npages(f) + 1 = b + 1
    BY DEF b
  <2>7. TargetPage(f, n + k) = Ahead(<<f, Npages(f)>>, b + 1)
    <3>1. TargetPage(f, n + k) = Ahead(<<f, Npages(f)>>, n + k - Npages(f) + 1)
      BY <1>1, <1>2, <1>4, <2>5 DEF TargetPage
    <3>2. QED
      BY <2>6, <3>1
  <2>8. QED
    BY <1>1, <2>4, <2>7 DEF Numbered
<1>5. CASE ~(n < Npages(f))
  <2>1. link[f] # NULLPAGE /\ pl = Ahead(<<f, Npages(f)>>, n - Npages(f) + 1)
    BY <1>1, <1>5 DEF TargetPage
  <2>2. PICK a \in Nat : a = n - Npages(f) + 1
    BY <1>1, <1>2, <1>5
  <2>3. Ahead(Ahead(<<f, Npages(f)>>, a), k) = Ahead(<<f, Npages(f)>>, a + k)
    BY AheadTwice
  <2>4. a + k = n + k - Npages(f) + 1 /\ ~(n + k < Npages(f))
    BY <1>1, <1>2, <1>5, <2>2
  <2>5. TargetPage(f, n + k) = Ahead(<<f, Npages(f)>>, a + k)
    <3>1. TargetPage(f, n + k) = Ahead(<<f, Npages(f)>>, n + k - Npages(f) + 1)
      BY <1>1, <1>2, <2>1, <2>4 DEF TargetPage
    <3>2. QED
      BY <2>4, <3>1
  <2>6. QED
    BY <1>1, <2>1, <2>2, <2>3, <2>5 DEF Numbered
<1>6. QED
  BY <1>1, <1>2, <1>3, <1>4, <1>5

\* A step that keeps the number of pages of the files F and where their last pages lead,
\* or adds pages behind one that leads nowhere, keeps what their page numbers designate.
FilesKept(F) ==
    \A f \in F :
        /\ Npages(f) <= Npages(f)' /\ link'[f] = link[f]
        /\ next_page[f] # NULLPAGE => /\ next_page[f] \in F /\ next_page'[f] = next_page[f]
                                      /\ Npages(f)' = Npages(f)

LEMMA NumberKept ==
    ASSUME LinkTypes, LinkTypes', NEW F \in SUBSET LFiles, FilesKept(F),
           NEW f \in F, NEW n, NEW pl, Numbered(f, n, pl)
    PROVE  Numbered(f, n, pl)' /\ pl \in F \X Nat
<1>1. ASSUME NEW x \in F \X Nat
      PROVE  \/ NextPage(x) = NULLPAGE
             \/ NextPage(x) \in F \X Nat /\ NextPage(x)' = NextPage(x)
  <2>1. x \in LFiles \X Nat /\ x[1] \in F /\ x[2] \in Nat
    OBVIOUS
  <2>2. /\ NextPage(x) = IF x[2] < Npages(x[1]) THEN <<x[1], x[2] + 1>>
                         ELSE IF next_page[x[1]] # NULLPAGE THEN <<next_page[x[1]], 1>>
                         ELSE NULLPAGE
        /\ NextPage(x)' = IF x[2] < Npages(x[1])' THEN <<x[1], x[2] + 1>>
                          ELSE IF next_page'[x[1]] # NULLPAGE THEN <<next_page'[x[1]], 1>>
                          ELSE NULLPAGE
    BY <2>1, NextFacts, FactsNext DEF NextKnown
  <2>3. /\ Npages(x[1]) \in Nat /\ Npages(x[1])' \in Nat
        /\ Npages(x[1]) <= Npages(x[1])'
        /\ next_page[x[1]] # NULLPAGE => /\ next_page[x[1]] \in F
                                         /\ next_page'[x[1]] = next_page[x[1]]
                                         /\ Npages(x[1])' = Npages(x[1])
    BY <2>1, PlaceFacts, FactsNext DEF FilesKept, PlacesKnown
  <2>4. QED
    BY <2>1, <2>2, <2>3
<1>2. n \in Nat /\ pl # NULLPAGE /\ TargetPage(f, n) = pl
  BY DEF Numbered
<1>3. /\ Npages(f) \in Nat /\ Npages(f)' \in Nat /\ Npages(f) <= Npages(f)'
      /\ link'[f] = link[f]
  BY <1>2, PlaceFacts, FactsNext DEF FilesKept, PlacesKnown
<1>4. CASE n < Npages(f)
  BY <1>2, <1>3, <1>4 DEF TargetPage, Numbered
<1>5. CASE ~(n < Npages(f))
  <2> DEFINE end == <<f, Npages(f)>>
             k == n - Npages(f)
  <2>1. k \in Nat /\ k + 1 \in Nat /\ 1 + k = k + 1
    BY <1>2, <1>3, <1>5
  <2>2. link[f] # NULLPAGE /\ pl = Ahead(end, k + 1)
    BY <1>2, <1>3, <1>5 DEF TargetPage
  <2>3. end \in F \X Nat /\ end \in LFiles \X Nat
    BY <1>3
  <2>4. next_page[f] # NULLPAGE
    BY <1>2, <2>1, <2>2, NothingBehind
  <2>5. Npages(f)' = Npages(f)
    BY <2>4 DEF FilesKept
  <2>6. PICK y \in F \X Nat : y = end
    BY <2>3
  <2>7. WalksKept(F, y)
    BY <1>1, WalkKept DEF NextKept
  <2>8. PICK m \in Nat : m = k + 1
    BY <2>1
  <2>9. pl \in F \X Nat /\ Ahead(y, m)' = pl
    <3>1. pl = Ahead(y, m)
      BY <2>2, <2>6, <2>8
    <3>2. QED
      BY <1>2, <2>7, <2>8, <3>1, Zenon DEF WalksKept
  <2>10. Ahead(<<f, Npages(f)>>, n - Npages(f) + 1)' = Ahead(y, m)'
    BY <2>5, <2>6, <2>8
  <2>11. QED
    BY <1>2, <1>3, <1>5, <2>2, <2>5, <2>8, <2>9, <2>10 DEF TargetPage, Numbered
<1>6. QED
  BY <1>4, <1>5

-----------------------------------------------------------------------------
(* Searches.                                                               *)

\* A position whose fields are set one by one.
PageSet(c, d, x) ==
    /\ IsPosition(d) /\ d.cur_dir_page = x /\ d.cur_entry = c.cur_entry
    /\ d.cur_pageno = c.cur_pageno /\ d.page_record = c.page_record
EntrySet(c, d, x) ==
    /\ IsPosition(d) /\ d.cur_dir_page = c.cur_dir_page /\ d.cur_entry = x
    /\ d.cur_pageno = c.cur_pageno /\ d.page_record = c.page_record
NumberSet(c, d, x) ==
    /\ IsPosition(d) /\ d.cur_dir_page = c.cur_dir_page /\ d.cur_entry = c.cur_entry
    /\ d.cur_pageno = x /\ d.page_record = c.page_record
RecordSet(c, d, x) ==
    /\ IsPosition(d) /\ d.cur_dir_page = c.cur_dir_page /\ d.cur_entry = c.cur_entry
    /\ d.cur_pageno = c.cur_pageno /\ d.page_record = x

LEMMA PositionSet ==
    ASSUME NEW c, IsPosition(c), NEW x
    PROVE  /\ PageSet(c, [c EXCEPT !.cur_dir_page = x], x)
           /\ EntrySet(c, [c EXCEPT !.cur_entry = x], x)
           /\ NumberSet(c, [c EXCEPT !.cur_pageno = x], x)
           /\ RecordSet(c, [c EXCEPT !.page_record = x], x)
<1>1. PICK a, b, d, e : c = [cur_dir_page |-> a, cur_entry |-> b, cur_pageno |-> d,
                             page_record |-> e]
  BY DEF IsPosition
<1>2. /\ [c EXCEPT !.cur_dir_page = x] = [cur_dir_page |-> x, cur_entry |-> b,
                                         cur_pageno |-> d, page_record |-> e]
      /\ [c EXCEPT !.cur_entry = x] = [cur_dir_page |-> a, cur_entry |-> x,
                                      cur_pageno |-> d, page_record |-> e]
      /\ [c EXCEPT !.cur_pageno = x] = [cur_dir_page |-> a, cur_entry |-> b,
                                       cur_pageno |-> x, page_record |-> e]
      /\ [c EXCEPT !.page_record = x] = [cur_dir_page |-> a, cur_entry |-> b,
                                        cur_pageno |-> d, page_record |-> x]
  BY <1>1
<1>3. QED
  BY <1>1, <1>2 DEF IsPosition, PageSet, EntrySet, NumberSet, RecordSet

\* The record a search returns for f has the number its handle says, and the position is
\* behind it.
HandleRight(f, m) ==
    m.status = "handle" =>
        /\ m.handle[1] = f /\ m.record \in Nat /\ m.place \in LFiles \X Nat
        /\ Numbered(f, m.handle[2], m.place)
        /\ m.pos.cur_pageno = m.handle[2]

\* The first of some pairs of a page and a record.
LEMMA FirstIsOne ==
    ASSUME NEW S \in SUBSET (Nat \X Nat), S # {}
    PROVE  First(S) \in S
<1>1. \A x \in Nat \X Nat : x[1] \in Nat /\ x[2] \in Nat
  OBVIOUS
<1>2. PICK m \in {x[1] : x \in S} : \A k \in {x[1] : x \in S} : m <= k
  <2>1. {x[1] : x \in S} \in SUBSET Nat /\ {x[1] : x \in S} # {}
    BY <1>1
  <2>2. QED
    BY <2>1, LeastNumber
<1>3. PICK n \in {x[2] : x \in {y \in S : y[1] = m}} :
         \A k \in {x[2] : x \in {y \in S : y[1] = m}} : n <= k
  <2>1. /\ {x[2] : x \in {y \in S : y[1] = m}} \in SUBSET Nat
        /\ {x[2] : x \in {y \in S : y[1] = m}} # {}
    BY <1>1, <1>2
  <2>2. QED
    BY <2>1, LeastNumber
<1>4. PICK x \in S : x[1] = m /\ x[2] = n
  BY <1>3
<1>5. \A y \in S : x[1] < y[1] \/ (x[1] = y[1] /\ x[2] <= y[2])
  BY <1>1, <1>2, <1>3, <1>4
<1>6. QED
  BY <1>5 DEF First

\* What a search looks at are records of pages ahead.
LEMMA FromFacts ==
    ASSUME NEW pl, NEW rec
    PROVE  /\ From(pl, rec) \in SUBSET (Nat \X Nat)
           /\ \A x \in From(pl, rec) : Ahead(pl, x[1]) \in LFiles \X Nat
<1>1. MaxPageNumber \in Nat /\ LEntries \in Nat
  BY FS_CardinalityType, LinkAssumption DEF MaxPageNumber
<1>2. QED
  BY <1>1 DEF From, LiveAt

\* next_match from a page whose number is known returns a record whose number is known.
LEMMA NextOfLinkRight ==
    ASSUME LinkTypes, LinksOpen, NEW f \in LFiles, NEW c, IsPosition(c)
    PROVE  /\ NextOfLink(f, c).status \in Statuses /\ IsPosition(NextOfLink(f, c).pos)
           /\ (c.cur_entry = <<c.cur_dir_page, c.page_record>> /\ c.cur_dir_page # NULLPAGE
                  => Numbered(f, c.cur_pageno, c.cur_dir_page))
                => HandleRight(f, NextOfLink(f, c))
<1> DEFINE m == NextOfLink(f, c)
           from == From(c.cur_dir_page, c.page_record)
           x == First(from)
           at == Ahead(c.cur_dir_page, x[1])
           lost == c.cur_dir_page = NULLPAGE \/ c.cur_entry # <<c.cur_dir_page, c.page_record>>
<1>1. CASE lost
  <2>1. m = [pos |-> c, status |-> "ERR_NO_POS"]
    BY <1>1 DEF NextOfLink
  <2>2. QED
    BY <2>1 DEF HandleRight, Statuses
<1>2. CASE ~lost /\ from = {}
  <2>1. PICK a, b, d, e : m = [pos |-> [cur_dir_page |-> a, cur_entry |-> b, cur_pageno |-> d,
                                        page_record |-> e], status |-> "ERR_NOT_FOUND"]
    BY <1>2, Zenon DEF NextOfLink
  <2>2. QED
    BY <2>1 DEF HandleRight, Statuses, IsPosition
<1>3. CASE ~lost /\ from # {}
  <2>1. m = [pos |-> [cur_dir_page |-> at, cur_entry |-> <<at, x[2] + 1>>,
                      cur_pageno |-> c.cur_pageno + x[1], page_record |-> x[2] + 1],
             status |-> "handle", place |-> at, record |-> x[2],
             handle |-> <<f, c.cur_pageno + x[1], x[2]>>]
    BY <1>3, Zenon DEF NextOfLink
  <2>2. x \in from /\ x[1] \in Nat /\ x[2] \in Nat /\ at \in LFiles \X Nat
    BY <1>3, FromFacts, FirstIsOne
  <2> HIDE DEF x, from
  <2>3. at # NULLPAGE
    BY <2>2, PlaceFacts DEF PlacesKnown
  <2>4. Numbered(f, c.cur_pageno, c.cur_dir_page) => Numbered(f, c.cur_pageno + x[1], at)
    BY <2>2, <2>3, NumberAhead
  <2> HIDE DEF at
  <2>5. QED
    BY <1>3, <2>1, <2>2, <2>4 DEF HandleRight, Statuses, IsPosition
<1>4. QED
  BY <1>1, <1>2, <1>3

\* A place behind the last page of a file is as many pages on as its number says.
LEMMA NumberBehind ==
    ASSUME LinkTypes, NEW f \in LFiles, link[f] # NULLPAGE, NEW k \in Nat \ {0},
           Ahead(<<f, Npages(f)>>, k) # NULLPAGE
    PROVE  Numbered(f, Npages(f) - 1 + k, Ahead(<<f, Npages(f)>>, k))
<1>1. Npages(f) \in Nat
  BY PlaceFacts DEF PlacesKnown
<1>2. PICK n \in Nat : n = Npages(f) - 1 + k
  BY <1>1
<1>3. ~(n < Npages(f)) /\ n - Npages(f) + 1 = k
  BY <1>1, <1>2
<1>4. TargetPage(f, n) = Ahead(<<f, Npages(f)>>, n - Npages(f) + 1)
  BY <1>1, <1>3 DEF TargetPage
<1>5. QED
  BY <1>2, <1>3, <1>4 DEF Numbered

\* The walk of c_xdfloc2 to a page of another file ends on a page whose number it counted.
LEMMA WalkRight ==
    ASSUME LinkTypes, NEW f \in LFiles, NEW n \in Nat, ~(n < Npages(f)), NEW c, c = WalkTo(f, n)
    PROVE  /\ IsPosition(c)
           /\ link[f] # NULLPAGE /\ c.cur_dir_page # NULLPAGE
                => Numbered(f, c.cur_pageno, c.cur_dir_page)
<1> DEFINE d == n - (Npages(f) - 1)
           steps == {k \in 1 .. Walked(d) :
                        k = Walked(d) \/ Ahead(<<f, Npages(f)>>, k) = NULLPAGE}
           k == CHOOSE k \in steps : \A j \in steps : k <= j
<1>1. Npages(f) \in Nat /\ d \in Nat /\ IsPosition(lpos[f])
  BY PlaceFacts DEF PlacesKnown, LinkTypes
<1>2. Walked(d) \in Nat /\ Walked(d) >= 1
  <2>1. \A e \in Nat : e \div 2 \in Nat
    OBVIOUS
  <2>2. QED
    BY <1>1, <2>1 DEF Walked
<1>3. c = [lpos[f] EXCEPT !.cur_dir_page = Ahead(<<f, Npages(f)>>, k),
                          !.cur_pageno = Npages(f) - 1 + k]
  BY DEF WalkTo
<1>4. k \in Nat \ {0}
  <2>1. steps \in SUBSET Nat /\ Walked(d) \in steps
    BY <1>2
  <2>2. \E i \in steps : \A j \in steps : i <= j
    BY <2>1, LeastNumber
  <2>3. k \in steps
    BY <2>2
  <2>4. \A j \in steps : j \in Nat \ {0}
    BY <1>2
  <2> HIDE DEF k, steps
  <2>5. QED
    BY <2>3, <2>4
<1> HIDE DEF k
<1>5. /\ IsPosition(c) /\ c.cur_dir_page = Ahead(<<f, Npages(f)>>, k)
      /\ c.cur_pageno = Npages(f) - 1 + k
  <2>1. PICK y, i : y = Ahead(<<f, Npages(f)>>, k) /\ i = Npages(f) - 1 + k
    OBVIOUS
  <2>2. PICK b : b = [lpos[f] EXCEPT !.cur_dir_page = y]
    OBVIOUS
  <2>3. PageSet(lpos[f], b, y)
    BY <1>1, <2>2, PositionSet
  <2>4. c = [b EXCEPT !.cur_pageno = i]
    BY <1>3, <2>1, <2>2
  <2>5. NumberSet(b, c, i)
    BY <2>3, <2>4, PositionSet DEF PageSet
  <2>6. QED
    BY <2>1, <2>3, <2>5 DEF PageSet, NumberSet
<1>6. QED
  BY <1>4, <1>5, NumberBehind

\* Where c_xdfloc2 starts, unless it has lost its way.
LEMMA StartRight ==
    ASSUME LinkTypes, NEW f \in LFiles, NEW n \in Nat, NEW rec, NEW cur,
           NEW c, c = StartAt(f, n, rec, cur)
    PROVE  /\ IsPosition(c)
           /\ (n >= Npages(f) /\ n # cur => link[f] # NULLPAGE) /\ c.cur_dir_page # NULLPAGE
                => Numbered(f, c.cur_pageno, c.cur_dir_page)
<1> DEFINE page == IF n < Npages(f) THEN <<f, n + 1>> ELSE NULLPAGE
           own == [lpos[f] EXCEPT !.cur_dir_page = page, !.cur_pageno = n]
           b   == IF n = cur \/ n < Npages(f) THEN own ELSE WalkTo(f, n)
<1>1. Npages(f) \in Nat /\ IsPosition(lpos[f])
  BY PlaceFacts DEF PlacesKnown, LinkTypes
<1>2. c = [b EXCEPT !.cur_entry = <<b.cur_dir_page, rec>>, !.page_record = rec]
  BY DEF StartAt
<1>3. IsPosition(own) /\ own.cur_dir_page = page /\ own.cur_pageno = n
  <2>1. PICK y, o : y = page /\ o = own
    OBVIOUS
  <2>2. PICK a : a = [lpos[f] EXCEPT !.cur_dir_page = y]
    OBVIOUS
  <2>3. PageSet(lpos[f], a, y)
    BY <1>1, <2>2, PositionSet
  <2>4. o = [a EXCEPT !.cur_pageno = n]
    BY <2>1, <2>2
  <2>5. NumberSet(a, o, n)
    BY <2>3, <2>4, PositionSet DEF PageSet
  <2>6. QED
    BY <2>1, <2>3, <2>5 DEF PageSet, NumberSet
<1>4. n < Npages(f) => Numbered(f, n, <<f, n + 1>>)
  <2>1. <<f, n + 1>> \in LFiles \X Nat
    OBVIOUS
  <2>2. QED
    BY <2>1, PlaceFacts DEF PlacesKnown, Numbered, TargetPage
<1> HIDE DEF own
<1>5. /\ IsPosition(b)
      /\ (n >= Npages(f) /\ n # cur => link[f] # NULLPAGE) /\ b.cur_dir_page # NULLPAGE
           => Numbered(f, b.cur_pageno, b.cur_dir_page)
  <2>1. CASE n = cur \/ n < Npages(f)
    BY <1>1, <1>3, <1>4, <2>1
  <2>2. CASE ~(n = cur \/ n < Npages(f))
    <3>1. IsPosition(b) /\ (link[f] # NULLPAGE /\ b.cur_dir_page # NULLPAGE
                              => Numbered(f, b.cur_pageno, b.cur_dir_page))
      BY <2>2, WalkRight
    <3>2. n >= Npages(f) /\ n # cur
      BY <1>1, <2>2
    <3>3. QED
      BY <3>1, <3>2
  <2>3. QED
    BY <2>1, <2>2
<1> HIDE DEF b
<1>6. IsPosition(c) /\ c.cur_dir_page = b.cur_dir_page /\ c.cur_pageno = b.cur_pageno
  <2>1. PICK y : y = <<b.cur_dir_page, rec>>
    OBVIOUS
  <2>2. PICK a : a = [b EXCEPT !.cur_entry = y]
    OBVIOUS
  <2>3. EntrySet(b, a, y)
    BY <1>5, <2>2, PositionSet
  <2>4. c = [a EXCEPT !.page_record = rec]
    BY <1>2, <2>1, <2>2
  <2>5. RecordSet(a, c, rec)
    BY <2>3, <2>4, PositionSet DEF EntrySet
  <2>6. QED
    BY <2>3, <2>5 DEF EntrySet, RecordSet
<1>7. QED
  BY <1>5, <1>6

-----------------------------------------------------------------------------
(* What a search returns.                                                  *)

\* Walks are the same when pages and pointers are.
LEMMA AheadSame ==
    ASSUME UNCHANGED <<lpage, next_page>>, NEW pl, NEW n \in Nat
    PROVE  Ahead(pl, n)' = Ahead(pl, n)
<1> DEFINE S == {k \in Nat : Ahead(pl, k)' = Ahead(pl, k)}
<1>1. Ahead(pl, 0) = pl /\ Ahead(pl, 0)' = pl
  BY StepByStepNext DEF StepByStep
<1>2. ASSUME NEW k \in S PROVE k + 1 \in S
  <2>1. PICK x : x = Ahead(pl, k)
    OBVIOUS
  <2>2. k \in Nat /\ Ahead(pl, k + 1) = NextPage(x)
    BY <2>1, AheadStep
  <2>3. Ahead(pl, k + 1)' = NextPage(Ahead(pl, k))'
    BY <2>2, StepByStepNext DEF StepByStep
  <2>4. Ahead(pl, k)' = x
    BY <2>1
  <2>5. NextPage(Ahead(pl, k))' = NextPage(x)'
    BY <2>4 DEF NextPage
  <2>6. NextPage(x)' = NextPage(x)
    BY DEF NextPage, Npages
  <2>7. QED
    BY <2>2, <2>3, <2>5, <2>6
<1> HIDE DEF S
<1>3. 0 \in S /\ S \in SUBSET Nat
  BY <1>1 DEF S
<1>4. n \in S
  BY <1>2, <1>3, AllNumbers
<1>5. QED
  BY <1>4 DEF S

\* So is what is found on them.
LEMMA FromSame ==
    ASSUME UNCHANGED <<lpage, next_page>>, NEW pl, NEW rec
    PROVE  From(pl, rec)' = From(pl, rec)
<1>1. MaxPageNumber \in Nat /\ LEntries \in Nat
  BY FS_CardinalityType, LinkAssumption DEF MaxPageNumber
<1>2. PICK X : X = (0 .. MaxPageNumber) \X (0 .. LEntries - 1)
  OBVIOUS
<1>3. ASSUME NEW x \in X
      PROVE  LiveAt(Ahead(pl, x[1]), x[2])' = LiveAt(Ahead(pl, x[1]), x[2])
  <2>1. x[1] \in Nat
    BY <1>1, <1>2
  <2>2. PICK y : y = Ahead(pl, x[1])
    OBVIOUS
  <2>3. Ahead(pl, x[1])' = y
    BY <2>1, <2>2, AheadSame
  <2>4. LiveAt(y, x[2])' = LiveAt(y, x[2])
    BY DEF LiveAt, Npages
  <2>5. LiveAt(Ahead(pl, x[1]), x[2])' = LiveAt(y, x[2])'
    BY <2>3 DEF LiveAt
  <2>6. QED
    BY <2>2, <2>4, <2>5
<1>4. /\ From(pl, rec) = {x \in X : LiveAt(Ahead(pl, x[1]), x[2]) /\ (x[1] = 0 => x[2] >= rec)}
      /\ From(pl, rec)' = {x \in X : /\ LiveAt(Ahead(pl, x[1]), x[2])'
                                     /\ (x[1] = 0 => x[2] >= rec)}
  BY <1>2 DEF From, MaxPageNumber
<1>5. QED
  BY <1>3, <1>4

\* What a search that begins at record rec of the page pl has to return.
FindsFirstOf(pl, rec, status, at) ==
    /\ status = "handle" =>
          /\ From(pl, rec) # {}
          /\ at = <<Ahead(pl, First(From(pl, rec))[1]), First(From(pl, rec))[2]>>
    /\ status = "ERR_NOT_FOUND" => From(pl, rec) = {}
    /\ status \in {"handle", "ERR_NOT_FOUND"}

LEMMA FindsSame ==
    ASSUME UNCHANGED <<lpage, next_page>>, NEW pl, NEW rec, NEW status, NEW at,
           FindsFirstOf(pl, rec, status, at)
    PROVE  FindsFirstOf(pl, rec, status, at)'
<1>1. PICK S : S = From(pl, rec)
  OBVIOUS
<1>2. From(pl, rec)' = S
  BY <1>1, FromSame
<1>3. PICK x : x = First(S)
  OBVIOUS
<1>4. S # {} => Ahead(pl, x[1])' = Ahead(pl, x[1])
  <2>1. S # {} => x \in S
    BY <1>1, <1>3, FromFacts, FirstIsOne
  <2>2. S # {} => x[1] \in Nat
    BY <1>1, <2>1, FromFacts
  <2>3. QED
    BY <2>2, AheadSame
<1>5. First(From(pl, rec))' = x
  BY <1>2, <1>3 DEF First
<1>6. /\ status = "handle" => S # {} /\ at = <<Ahead(pl, x[1]), x[2]>>
      /\ status = "ERR_NOT_FOUND" => S = {}
      /\ status \in {"handle", "ERR_NOT_FOUND"}
  BY <1>1, <1>3 DEF FindsFirstOf
<1>7. /\ FindsFirstOf(pl, rec, status, at)' =
            (/\ status = "handle" =>
                   /\ From(pl, rec)' # {}
                   /\ at = <<Ahead(pl, First(From(pl, rec))[1])', First(From(pl, rec))'[2]>>
             /\ status = "ERR_NOT_FOUND" => From(pl, rec)' = {}
             /\ status \in {"handle", "ERR_NOT_FOUND"})
  BY DEF FindsFirstOf
<1>8. Ahead(pl, First(From(pl, rec))[1])' = Ahead(pl, x[1])'
  BY <1>5 DEF Ahead
<1>9. QED
  BY <1>2, <1>4, <1>5, <1>6, <1>7, <1>8

\* next_match does, from a position whose entry is that of its page and record.
AtFound(m) == IF m.status = "handle" THEN <<m.place, m.record>> ELSE NULLPAGE
LEMMA NextOfLinkFinds ==
    ASSUME NEW f, NEW c, NEW m, m = NextOfLink(f, c), c.cur_dir_page # NULLPAGE,
           c.cur_entry = <<c.cur_dir_page, c.page_record>>
    PROVE  FindsFirstOf(c.cur_dir_page, c.page_record, m.status, AtFound(m))
<1>1. PICK S : S = From(c.cur_dir_page, c.page_record)
  OBVIOUS
<1>2. PICK x : x = First(S)
  OBVIOUS
<1>3. PICK at : at = Ahead(c.cur_dir_page, x[1])
  OBVIOUS
<1>4. CASE S = {}
  <2>1. PICK pos : m = [pos |-> pos, status |-> "ERR_NOT_FOUND"]
    BY <1>1, <1>4, Zenon DEF NextOfLink
  <2>2. m.status = "ERR_NOT_FOUND"
    BY <2>1
  <2>3. QED
    BY <1>1, <1>4, <2>2 DEF FindsFirstOf
<1>5. CASE S # {}
  <2>1. PICK pos, handle : m = [pos |-> pos, status |-> "handle", place |-> at, record |-> x[2],
                                handle |-> handle]
    BY <1>1, <1>2, <1>3, <1>5, Zenon DEF NextOfLink
  <2>2. m.status = "handle" /\ AtFound(m) = <<at, x[2]>>
    BY <2>1 DEF AtFound
  <2>3. QED
    BY <1>1, <1>2, <1>3, <1>5, <2>2 DEF FindsFirstOf
<1>6. QED
  BY <1>4, <1>5

-----------------------------------------------------------------------------
(* Where a search begins.                                                  *)

\* What is set in a position is found there, what is not stays.
PlaceSet(d, x, z) == IsPosition(d) /\ d.cur_dir_page = x /\ d.cur_pageno = z
RecordAt(c, e, y, r) ==
    /\ IsPosition(e) /\ e.cur_entry = y /\ e.page_record = r
    /\ e.cur_dir_page = c.cur_dir_page /\ e.cur_pageno = c.cur_pageno

LEMMA PlaceMoved ==
    ASSUME NEW c, IsPosition(c), NEW x, NEW y,
           NEW d, d = [c EXCEPT !.cur_dir_page = x, !.cur_pageno = y]
    PROVE  PlaceSet(d, x, y)
<1>1. PICK a : a = [c EXCEPT !.cur_dir_page = x]
  OBVIOUS
<1>2. PageSet(c, a, x)
  BY <1>1, PositionSet
<1>3. d = [a EXCEPT !.cur_pageno = y]
  BY <1>1
<1>4. IsPosition(a)
  BY <1>2 DEF PageSet
<1>5. NumberSet(a, [a EXCEPT !.cur_pageno = y], y)
  BY <1>4, PositionSet
<1>6. NumberSet(a, d, y)
  BY <1>3, <1>5, Zenon
<1>7. QED
  BY <1>2, <1>6 DEF PageSet, NumberSet, PlaceSet

LEMMA RecordMoved ==
    ASSUME NEW c, IsPosition(c), NEW x, NEW y,
           NEW d, d = [c EXCEPT !.cur_entry = x, !.page_record = y]
    PROVE  RecordAt(c, d, x, y)
<1>1. PICK a : a = [c EXCEPT !.cur_entry = x]
  OBVIOUS
<1>2. EntrySet(c, a, x)
  BY <1>1, PositionSet
<1>3. d = [a EXCEPT !.page_record = y]
  BY <1>1
<1>4. IsPosition(a)
  BY <1>2 DEF EntrySet
<1>5. RecordSet(a, [a EXCEPT !.page_record = y], y)
  BY <1>4, PositionSet
<1>6. RecordSet(a, d, y)
  BY <1>3, <1>5, Zenon
<1>7. QED
  BY <1>2, <1>6 DEF EntrySet, RecordSet, RecordAt

\* The walk of c_xdfloc2 reaches the first two pages behind the file's own.
LEMMA WalkReaches ==
    ASSUME LinkTypes, NEW f \in LFiles, NEW n \in Nat, ~(n < Npages(f)), n < Npages(f) + 2,
           NEW pl, pl = TargetPage(f, n), pl # NULLPAGE, NEW c, c = WalkTo(f, n)
    PROVE  link[f] # NULLPAGE /\ c.cur_dir_page = pl /\ c.cur_pageno \in Nat /\ IsPosition(c)
<1> DEFINE d == n - (Npages(f) - 1)
           end == <<f, Npages(f)>>
           steps == {k \in 1 .. Walked(d) : k = Walked(d) \/ Ahead(end, k) = NULLPAGE}
           k == CHOOSE k \in steps : \A j \in steps : k <= j
<1>1. Npages(f) \in Nat /\ IsPosition(lpos[f])
  BY PlaceFacts DEF PlacesKnown, LinkTypes
<1>2. d \in {1, 2} /\ Walked(d) = d
  <2>1. d = 1 \/ d = 2
    BY <1>1
  <2>2. Walked(1) = 1 /\ Walked(2) = 2
    BY DEF Walked
  <2> QED
    BY <2>1, <2>2
<1>3. link[f] # NULLPAGE /\ pl = Ahead(end, d)
  <2>1. n - Npages(f) + 1 = d
    BY <1>1
  <2> QED
    BY <2>1 DEF TargetPage
<1> HIDE DEF d, end
<1>4. d = 2 => Ahead(end, 1) # NULLPAGE
  <2>1. Ahead(end, 1 + 1) = NextPage(Ahead(end, 1))
    BY AheadStep
  <2>2. NextPage(NULLPAGE) = NULLPAGE
    BY DEF NextPage
  <2>3. 1 + 1 = 2
    OBVIOUS
  <2> QED
    BY <1>3, <2>1, <2>2, <2>3
<1>5. steps = {d}
  BY <1>2, <1>3, <1>4
<1>6. k = d
  <2>1. \A i \in {d} : i <= d
    BY <1>2
  <2> QED
    BY <1>5, <2>1
<1>7. c = [lpos[f] EXCEPT !.cur_dir_page = Ahead(end, k), !.cur_pageno = Npages(f) - 1 + k]
  BY DEF WalkTo, d, end
<1> HIDE DEF k
<1>8. c.cur_dir_page = pl /\ c.cur_pageno = Npages(f) - 1 + d /\ IsPosition(c)
  <2>1. PICK i : i = Npages(f) - 1 + d
    OBVIOUS
  <2>2. c = [lpos[f] EXCEPT !.cur_dir_page = pl, !.cur_pageno = i]
    BY <1>3, <1>6, <1>7, <2>1
  <2>3. PlaceSet(c, pl, i)
    BY <1>1, <2>2, PlaceMoved
  <2> QED
    BY <2>1, <2>3 DEF PlaceSet
<1> QED
  BY <1>1, <1>2, <1>3, <1>8

\* c_xdfloc2 begins at the page and the record it was asked for, when the page is not so
\* far behind and not the one a search stands on.
LEMMA StartReaches ==
    ASSUME LinkTypes, NEW f \in LFiles, NEW n \in Nat, NEW rec, NEW cur,
           n < Npages(f) \/ (n < Npages(f) + 2 /\ n # cur),
           NEW pl, pl = TargetPage(f, n), pl # NULLPAGE, NEW c, c = StartAt(f, n, rec, cur)
    PROVE  /\ c.cur_dir_page = pl /\ c.cur_entry = <<pl, rec>> /\ c.page_record = rec
           /\ ~(n < Npages(f)) => link[f] # NULLPAGE
<1> DEFINE own == [lpos[f] EXCEPT !.cur_dir_page = IF n < Npages(f) THEN <<f, n + 1>> ELSE NULLPAGE,
                                  !.cur_pageno = n]
           b == IF n = cur \/ n < Npages(f) THEN own ELSE WalkTo(f, n)
<1>1. Npages(f) \in Nat /\ IsPosition(lpos[f])
  BY PlaceFacts DEF PlacesKnown, LinkTypes
<1>2. c = [b EXCEPT !.cur_entry = <<b.cur_dir_page, rec>>, !.page_record = rec]
  BY DEF StartAt
<1>3. IsPosition(b) /\ b.cur_dir_page = pl /\ (~(n < Npages(f)) => link[f] # NULLPAGE)
  <2>1. CASE n < Npages(f)
    <3>1. b = [lpos[f] EXCEPT !.cur_dir_page = <<f, n + 1>>, !.cur_pageno = n]
      BY <2>1
    <3> HIDE DEF b
    <3>2. pl = <<f, n + 1>>
      BY <2>1 DEF TargetPage
    <3>3. PlaceSet(b, pl, n)
      BY <1>1, <3>1, <3>2, PlaceMoved
    <3> QED
      BY <2>1, <3>3 DEF PlaceSet
  <2>2. CASE ~(n < Npages(f))
    <3>1. b = WalkTo(f, n) /\ n < Npages(f) + 2
      BY <2>2
    <3> HIDE DEF b
    <3> QED
      BY <2>2, <3>1, WalkReaches
  <2> QED
    BY <2>1, <2>2
<1> HIDE DEF b
<1>4. PICK y : y = <<b.cur_dir_page, rec>>
  OBVIOUS
<1>5. c = [b EXCEPT !.cur_entry = y, !.page_record = rec]
  BY <1>2, <1>4
<1>6. RecordAt(b, c, y, rec)
  BY <1>3, <1>5, RecordMoved
<1> QED
  BY <1>3, <1>4, <1>6 DEF RecordAt

\* The page number it begins with.
LEMMA StartNumber ==
    ASSUME LinkTypes, NEW f \in LFiles, NEW n \in Nat, NEW rec, NEW cur,
           NEW c, c = StartAt(f, n, rec, cur), c.cur_dir_page # NULLPAGE,
           n >= Npages(f) /\ n # cur => link[f] # NULLPAGE
    PROVE  c.cur_pageno \in Nat
BY StartRight DEF Numbered

\* What next_match leaves when it returns a record.
LEMMA NextOfLinkPos ==
    ASSUME NEW f, NEW c, NEW m, m = NextOfLink(f, c), m.status = "handle"
    PROVE  /\ c.cur_dir_page # NULLPAGE /\ c.cur_entry = <<c.cur_dir_page, c.page_record>>
           /\ m.handle[1] = f /\ m.record \in Nat /\ m.place \in LFiles \X Nat
           /\ m.pos.page_record = m.record + 1 /\ m.pos.cur_dir_page = m.place
           /\ c.cur_pageno \in Nat => m.pos.cur_pageno \in Nat
<1> DEFINE from == From(c.cur_dir_page, c.page_record)
           x == First(from)
           at == Ahead(c.cur_dir_page, x[1])
           lost == c.cur_dir_page = NULLPAGE \/ c.cur_entry # <<c.cur_dir_page, c.page_record>>
<1>1. ~lost
  <2>1. lost => m = [pos |-> c, status |-> "ERR_NO_POS"]
    BY DEF NextOfLink
  <2> QED
    BY <2>1
<1>2. from # {}
  <2>1. from = {} => \E pos : m = [pos |-> pos, status |-> "ERR_NOT_FOUND"]
    BY <1>1, Zenon DEF NextOfLink
  <2>2. \A pos : [pos |-> pos, status |-> "ERR_NOT_FOUND"].status = "ERR_NOT_FOUND"
    OBVIOUS
  <2> HIDE DEF from
  <2> QED
    BY <2>1, <2>2
<1>3. m = [pos |-> [cur_dir_page |-> at, cur_entry |-> <<at, x[2] + 1>>,
                    cur_pageno |-> c.cur_pageno + x[1], page_record |-> x[2] + 1],
           status |-> "handle", place |-> at, record |-> x[2],
           handle |-> <<f, c.cur_pageno + x[1], x[2]>>]
  BY <1>1, <1>2, Zenon DEF NextOfLink
<1>4. x[1] \in Nat /\ x[2] \in Nat /\ at \in LFiles \X Nat
  BY <1>2, FromFacts, FirstIsOne
<1> HIDE DEF from, x, at
<1> QED
  BY <1>1, <1>3, <1>4

-----------------------------------------------------------------------------
(* Every call.                                                             *)

\* What a call leaves in the position and returns, as a search.
FindGood(m) == m.status \in Statuses /\ IsPosition(m.pos)

\* After a search the handle that is held is the one it returned, or none.
LEMMA FoundStep ==
    ASSUME LinkInv, NEW f \in LFiles, IsOpen(f), NEW m, NEW start, NEW far,
           Found(f, m, start, far), FindGood(m)
    PROVE  LinkInv' /\ ((start # NULLPAGE => HandleRight(f, m)) => HeldFound')
<1>1. /\ lpos' = [lpos EXCEPT ![f] = m.pos]
      /\ lpage' = lpage /\ link' = link /\ next_page' = next_page /\ link_list' = link_list
      /\ lfound'.status = m.status /\ lfound'.start = start
      /\ held' = IF m.status = "handle" /\ start # NULLPAGE
                 THEN [handle |-> m.handle, place |-> m.place, record |-> m.record]
                 ELSE NotHeld
  BY DEF Found
<1>2. /\ lpos = [g \in LFiles |-> lpos[g]]
      /\ \A g \in LFiles : IsPosition(lpos[g])
  BY DEF LinkInv, LinkTypes
<1>3. lpos'[f] = m.pos /\ lpos' = [g \in LFiles |-> IF g = f THEN m.pos ELSE lpos[g]]
  BY <1>1, <1>2
<1>4. LinkTypes'
  <2>1. \A g \in LFiles : IsPosition(lpos[g])'
    BY <1>2, <1>3 DEF FindGood, IsPosition
  <2>2. lpos' = [g \in LFiles |-> lpos'[g]]
    BY <1>3
  <2>3. QED
    BY <1>1, <2>1, <2>2 DEF LinkInv, LinkTypes, IsPosition
<1>5. LinksOpen'
  BY <1>1 DEF LinkInv, LinksOpen, IsOpen
<1>6. FoundKnown'
  BY <1>1 DEF FoundKnown, FindGood
<1>7. ASSUME start # NULLPAGE => HandleRight(f, m) PROVE HeldFound'
  <2>1. SUFFICES ASSUME held' # NotHeld PROVE HeldFound'
    BY DEF HeldFound
  <2>2. HandleRight(f, m) /\ m.status = "handle"
    BY <1>1, <1>7, <2>1
  <2>3. held'.handle = m.handle /\ held'.place = m.place /\ held'.record = m.record
    BY <1>1, <2>1
  <2>4. /\ m.handle[1] = f /\ m.record \in Nat /\ m.place \in LFiles \X Nat
        /\ Numbered(f, m.handle[2], m.place) /\ m.pos.cur_pageno = m.handle[2]
    BY <2>2 DEF HandleRight
  <2>5. \A n, pl : Numbered(f, n, pl)' = Numbered(f, n, pl)
    BY <1>1 DEF Numbered, TargetPage, Ahead, NextPage, Npages
  <2>6. IsOpen(f)'
    BY <1>1 DEF IsOpen
  <2>7. QED
    BY <1>3, <2>3, <2>4, <2>5, <2>6 DEF HeldFound
<1>8. QED
  BY <1>4, <1>5, <1>6, <1>7 DEF LinkInv

\* c_xdfloc2 from the beginning or behind a handle.
LEMMA LocateRight ==
    ASSUME LinkInv, NEW f \in LFiles, NEW n \in Nat, NEW record, LLocate(f, n, record)
    PROVE  LinkInv' /\ HeldFound'
<1> DEFINE cur == IF record = -1 THEN -1 ELSE lpos[f].cur_pageno
           c == StartAt(f, n, record + 1, cur)
           outside == n >= Npages(f) /\ n # cur
           m == IF outside /\ link[f] = NULLPAGE THEN Refused(f, lpos[f])
                ELSE IF outside /\ c.cur_dir_page = NULLPAGE THEN Refused(f, c)
                ELSE NextOfLink(f, c)
<1>1. PICK start, far : IsOpen(f) /\ Found(f, m, start, far)
  BY Zenon DEF LLocate
<1>2. /\ IsPosition(c) /\ IsPosition(lpos[f]) /\ LinkTypes /\ LinksOpen
      /\ (outside => link[f] # NULLPAGE) /\ c.cur_dir_page # NULLPAGE
           => Numbered(f, c.cur_pageno, c.cur_dir_page)
  BY StartRight DEF LinkInv, LinkTypes
<1>3. \A b : IsPosition(b) => /\ FindGood(Refused(f, b))
                              /\ Refused(f, b).status # "handle"
  <2> SUFFICES ASSUME NEW b, IsPosition(b)
               PROVE  FindGood(Refused(f, b)) /\ Refused(f, b).status # "handle"
    OBVIOUS
  <2>1. PICK a : a = [b EXCEPT !.cur_entry = NULLPAGE]
    OBVIOUS
  <2>2. IsPosition(a)
    BY <2>1, PositionSet DEF EntrySet
  <2>3. PICK d : d = [a EXCEPT !.page_record = lpos[f].page_record]
    OBVIOUS
  <2>4. IsPosition(d)
    BY <2>2, <2>3, PositionSet DEF RecordSet
  <2>5. Refused(f, b) = [pos |-> d, status |-> "ERR_BAD_PAGENO"]
    BY <2>1, <2>3 DEF Refused
  <2>6. QED
    BY <2>4, <2>5 DEF FindGood, Statuses
<1> HIDE DEF c, outside
<1>4. FindGood(m) /\ HandleRight(f, m)
  <2>1. CASE outside /\ link[f] = NULLPAGE
    BY <1>2, <1>3, <2>1 DEF HandleRight
  <2>2. CASE ~(outside /\ link[f] = NULLPAGE) /\ outside /\ c.cur_dir_page = NULLPAGE
    BY <1>2, <1>3, <2>2 DEF HandleRight
  <2>3. CASE /\ ~(outside /\ link[f] = NULLPAGE)
             /\ ~(outside /\ c.cur_dir_page = NULLPAGE)
    <3>1. m = NextOfLink(f, c)
      BY <2>3
    <3>2. c.cur_dir_page # NULLPAGE => Numbered(f, c.cur_pageno, c.cur_dir_page)
      BY <1>2, <2>3
    <3>3. FindGood(NextOfLink(f, c)) /\ HandleRight(f, NextOfLink(f, c))
      BY <1>2, <3>2, NextOfLinkRight DEF FindGood
    <3>4. QED
      BY <3>1, <3>3
  <2>4. QED
    BY <2>1, <2>2, <2>3
<1> HIDE DEF m
<1>5. QED
  BY <1>1, <1>4, FoundStep

\* fstsui, from where the last search stopped.
LEMMA SuiRight ==
    ASSUME LinkInv, NEW f \in LFiles, LSui(f)
    PROVE  LinkInv' /\ (HeldFound => HeldFound')
<1> DEFINE c == lpos[f]
           m == IF c.cur_entry = NULLPAGE \/ c.cur_pageno = -1
                THEN [pos |-> c, status |-> "ERR_NO_POS"] ELSE NextOfLink(f, c)
           start == IF held # NotHeld /\ held.handle[1] = f
                       /\ c.cur_entry = <<held.place, held.record + 1>>
                    THEN c.cur_entry ELSE NULLPAGE
<1>1. CASE c.cur_dir_page = FREED
  <2>1. /\ lfound'.start = NULLPAGE /\ held' = NotHeld
        /\ lpage' = lpage /\ link' = link /\ next_page' = next_page
        /\ link_list' = link_list /\ lpos' = lpos
    BY <1>1 DEF LSui
  <2>2. LinkTypes' /\ LinksOpen'
    BY <2>1 DEF LinkInv, LinkTypes, LinksOpen, IsOpen, IsPosition
  <2>3. FoundKnown' /\ HeldFound'
    BY <2>1 DEF FoundKnown, HeldFound
  <2>4. QED
    BY <2>2, <2>3 DEF LinkInv
<1>2. CASE c.cur_dir_page # FREED
  <2>1. IsOpen(f) /\ Found(f, m, start, FALSE)
    BY <1>2, Zenon DEF LSui
  <2>2. IsPosition(c) /\ LinkTypes /\ LinksOpen
    BY DEF LinkInv, LinkTypes
  <2>3. FindGood(m)
    <3>1. CASE c.cur_entry = NULLPAGE \/ c.cur_pageno = -1
      <4>1. m = [pos |-> c, status |-> "ERR_NO_POS"]
        BY <3>1
      <4> HIDE DEF m, c
      <4>2. QED
        BY <2>2, <4>1 DEF FindGood, Statuses
    <3>2. CASE ~(c.cur_entry = NULLPAGE \/ c.cur_pageno = -1)
      BY <2>2, <3>2, NextOfLinkRight DEF FindGood
    <3>3. QED
      BY <3>1, <3>2
  <2>4. ASSUME HeldFound, start # NULLPAGE
        PROVE  HandleRight(f, m)
    <3>1. /\ held # NotHeld /\ held.handle[1] = f
          /\ c.cur_entry = <<held.place, held.record + 1>>
      BY <2>4
    <3>2. c.cur_dir_page = held.place => Numbered(f, c.cur_pageno, held.place)
      BY <2>4, <3>1 DEF HeldFound
    <3>3. c.cur_entry = <<c.cur_dir_page, c.page_record>> /\ c.cur_dir_page # NULLPAGE
            => Numbered(f, c.cur_pageno, c.cur_dir_page)
      BY <3>1, <3>2
    <3>4. HandleRight(f, NextOfLink(f, c))
      BY <2>2, <3>3, NextOfLinkRight
    <3>5. m.status = "handle" => m = NextOfLink(f, c)
      OBVIOUS
    <3> HIDE DEF m
    <3>6. QED
      BY <3>4, <3>5 DEF HandleRight
  <2> HIDE DEF m, start
  <2>5. QED
    BY <2>1, <2>3, <2>4, FoundStep
<1>3. QED
  BY <1>1, <1>2

\* Between searches the handle stays with its record when its file is one of those that
\* keep their page numbers, and the position of its file stays or is numbered right.
LEMMA HeldStep ==
    ASSUME LinkTypes, HeldFound, LinkTypes', NEW F \in SUBSET LFiles, FilesKept(F),
           held' = held \/ held' = NotHeld,
           held' # NotHeld => held.handle[1] \in F /\ IsOpen(held.handle[1])',
           \A g \in LFiles : \/ lpos'[g] = lpos[g] \/ lpos'[g].cur_dir_page = FREED
                             \/ held' = NotHeld \/ g # held.handle[1]
                             \/ lpos'[g].cur_entry # <<held.place, held.record + 1>>
                             \/ Numbered(g, lpos'[g].cur_pageno, lpos'[g].cur_dir_page)
    PROVE  HeldFound'
<1> SUFFICES ASSUME held' # NotHeld PROVE HeldFound'
  BY DEF HeldFound
<1>1. PICK f, n, pl, rec, cur : /\ f = held.handle[1] /\ n = held.handle[2] /\ pl = held.place
                                /\ rec = held.record /\ cur = lpos'[f].cur_pageno
  OBVIOUS
<1>2. /\ held' = held /\ f \in F /\ f \in LFiles /\ IsOpen(held.handle[1])'
      /\ rec \in Nat /\ pl \in LFiles \X Nat /\ pl # FREED
      /\ Numbered(f, n, pl)
      /\ lpos[f].cur_entry = <<pl, rec + 1>> /\ lpos[f].cur_dir_page = pl
         => Numbered(f, lpos[f].cur_pageno, pl)
  BY <1>1, LinkAssumption DEF HeldFound
<1>3. \A k : Numbered(f, k, pl) => Numbered(f, k, pl)'
  BY <1>2, NumberKept
<1>4. lpos'[f].cur_entry = <<pl, rec + 1>> /\ lpos'[f].cur_dir_page = pl
        => Numbered(f, cur, pl)
  BY <1>1, <1>2
<1>5. /\ Numbered(f, n, pl)'
      /\ lpos'[f].cur_entry = <<pl, rec + 1>> /\ lpos'[f].cur_dir_page = pl
         => Numbered(f, cur, pl)'
  BY <1>2, <1>3, <1>4
<1>6. /\ held'.handle[1] = f /\ held'.handle[2] = n /\ held'.place = pl
      /\ held'.record = rec
  BY <1>1, <1>2
<1>7. IsOpen(f)'
  BY <1>1, <1>2, <1>6 DEF IsOpen
<1>8. QED
  BY <1>1, <1>2, <1>5, <1>6, <1>7 DEF HeldFound

\* c_xdfopn: the pages of a file nothing leads to.
LEMMA OpenRight ==
    ASSUME LinkInv, NEW f \in LFiles, NEW n \in Nat, LOpen(f, n)
    PROVE  LinkInv' /\ (HeldFound => HeldFound')
<1>1. /\ ~IsOpen(f) /\ link' = link /\ next_page' = next_page /\ link_list' = link_list
      /\ lpos' = lpos /\ held' = held /\ lfound' = NoFind
  BY DEF LOpen
<1>2. PICK s \in Seq(Seq(BOOLEAN)) : lpage' = [lpage EXCEPT ![f] = s]
  <2> DEFINE full == n \div LEntries
             page(k) == [i \in 1 .. k |-> TRUE]
             some == [i \in 1 .. full |-> page(LEntries)]
             more == [i \in 1 .. full + 1 |->
                        IF i <= full THEN page(LEntries) ELSE page(n % LEntries)]
  <2>1. full \in Nat /\ n % LEntries \in Nat /\ LEntries \in Nat
    BY LinkAssumption
  <2>2. \A k \in Nat : page(k) \in Seq(BOOLEAN)
    OBVIOUS
  <2>3. page(LEntries) \in Seq(BOOLEAN) /\ page(n % LEntries) \in Seq(BOOLEAN)
    BY <2>1, <2>2
  <2>4. lpage' = [lpage EXCEPT ![f] = IF n # 0 /\ n % LEntries = 0 THEN some ELSE more]
    BY DEF LOpen
  <2> HIDE DEF full, page
  <2>5. some \in Seq(Seq(BOOLEAN)) /\ more \in Seq(Seq(BOOLEAN))
    BY <2>1, <2>3
  <2> HIDE DEF some, more
  <2>6. QED
    BY <2>4, <2>5
<1>3. \A g \in LFiles : g # f => lpage'[g] = lpage[g] /\ (IsOpen(g)' <=> IsOpen(g))
  BY <1>2 DEF LinkInv, LinkTypes, IsOpen
<1>4. LinkTypes'
  BY <1>1, <1>2 DEF LinkInv, LinkTypes, IsPosition
<1>5. LinksOpen'
  <2>1. \A g \in LFiles : next_page[g] # NULLPAGE => next_page[g] \in LFiles
    BY DEF LinkInv, LinkTypes
  <2>2. QED
    BY <1>1, <1>3, <2>1 DEF LinkInv, LinksOpen
<1>6. FoundKnown'
  BY <1>1 DEF FoundKnown, NoFind
<1>7. ASSUME HeldFound PROVE HeldFound'
  <2>1. PICK F \in SUBSET LFiles : F = {g \in LFiles : IsOpen(g)}
    OBVIOUS
  <2>2. FilesKept(F)
    <3>1. \A g \in F : lpage'[g] = lpage[g]
      BY <1>1, <1>3, <2>1
    <3>2. \A g \in F : Npages(g)' = Npages(g) /\ Npages(g) \in Nat
      BY <2>1, <3>1, PlaceFacts DEF Npages, PlacesKnown, LinkInv
    <3>3. \A g \in F : next_page[g] # NULLPAGE => next_page[g] \in F
      BY <2>1 DEF LinkInv, LinksOpen, LinkTypes
    <3>4. QED
      BY <1>1, <3>2, <3>3 DEF FilesKept
  <2>3. held # NotHeld => held.handle[1] \in F /\ IsOpen(held.handle[1])'
    BY <1>1, <1>3, <1>7, <2>1 DEF HeldFound
  <2>4. QED
    BY <1>1, <1>4, <1>7, <2>2, <2>3, HeldStep DEF LinkInv
<1>8. QED
  BY <1>4, <1>5, <1>6, <1>7 DEF LinkInv

\* c_xdfcls of a file that is not linked: nothing leads to its pages.
LEMMA CloseRight ==
    ASSUME LinkInv, NEW f \in LFiles, LClose(f)
    PROVE  LinkInv' /\ (HeldFound => HeldFound')
<1>1. /\ IsOpen(f) /\ link[f] = NULLPAGE /\ LinkedTo(f) = {} /\ link' = link
      /\ lpage' = [lpage EXCEPT ![f] = <<>>] /\ link_list' = link_list /\ lfound' = NoFind
      /\ next_page' = [g \in LFiles |-> IF next_page[g] = f THEN FREED ELSE next_page[g]]
      /\ lpos' = [g \in LFiles |->
            IF g = f THEN LNoPos
            ELSE IF lpos[g].cur_dir_page \in {f} \X (1 .. Npages(f))
            THEN [lpos[g] EXCEPT !.cur_dir_page = FREED] ELSE lpos[g]]
      /\ held' = IF held # NotHeld /\ (held.handle[1] = f \/ held.place[1] = f)
                 THEN NotHeld ELSE held
  BY DEF LClose
<1>2. \A g \in LFiles : next_page[g] # f
  <2>1. \A g \in LFiles : link[g] # f
    BY <1>1 DEF LinkedTo
  <2>2. f # NULLPAGE
    BY PlaceFacts DEF PlacesKnown, LinkInv
  <2>3. QED
    BY <2>1, <2>2 DEF LinkInv, LinksOpen
<1>3. next_page' = next_page
  BY <1>1, <1>2 DEF LinkInv, LinkTypes
<1>4. \A g \in LFiles : g # f => lpage'[g] = lpage[g] /\ (IsOpen(g)' <=> IsOpen(g))
  BY <1>1 DEF LinkInv, LinkTypes, IsOpen
<1>5. /\ lpos' = [g \in LFiles |-> lpos'[g]]
      /\ \A g \in LFiles : /\ IsPosition(lpos'[g])
                           /\ \/ g = f \/ lpos'[g] = lpos[g]
                              \/ lpos'[g].cur_dir_page = FREED
  <2>1. ASSUME NEW g \in LFiles
        PROVE  /\ IsPosition(lpos'[g])
               /\ \/ g = f \/ lpos'[g] = lpos[g]
                  \/ lpos'[g].cur_dir_page = FREED
    <3>1. IsPosition(lpos[g])
      BY DEF LinkInv, LinkTypes
    <3>2. PageSet(lpos[g], [lpos[g] EXCEPT !.cur_dir_page = FREED], FREED)
      BY <3>1, PositionSet
    <3>3. IsPosition(LNoPos)
      BY DEF IsPosition, LNoPos
    <3>4. \/ (g = f /\ lpos'[g] = LNoPos) \/ lpos'[g] = lpos[g]
          \/ lpos'[g] = [lpos[g] EXCEPT !.cur_dir_page = FREED]
      BY <1>1
    <3>5. QED
      BY <3>1, <3>2, <3>3, <3>4 DEF PageSet
  <2>2. QED
    BY <1>1, <2>1
<1>6. LinkTypes'
  <2>1. lpage' \in [LFiles -> Seq(Seq(BOOLEAN))]
    BY <1>1 DEF LinkInv, LinkTypes
  <2>2. QED
    BY <1>1, <1>3, <1>5, <2>1 DEF LinkInv, LinkTypes, IsPosition
<1>7. LinksOpen'
  <2>1. \A g \in LFiles : next_page[g] # NULLPAGE => next_page[g] \in LFiles /\ g # f
    BY <1>1 DEF LinkInv, LinkTypes, LinksOpen
  <2>2. QED
    BY <1>1, <1>2, <1>3, <1>4, <2>1 DEF LinkInv, LinksOpen
<1>8. FoundKnown'
  BY <1>1 DEF FoundKnown, NoFind
<1>9. ASSUME HeldFound PROVE HeldFound'
  <2>1. PICK F \in SUBSET LFiles : F = {g \in LFiles : g # f /\ IsOpen(g)}
    OBVIOUS
  <2>2. FilesKept(F)
    <3>1. \A g \in F : lpage'[g] = lpage[g]
      BY <1>4, <2>1
    <3>2. \A g \in F : Npages(g)' = Npages(g) /\ Npages(g) \in Nat
      BY <2>1, <3>1, PlaceFacts DEF Npages, PlacesKnown, LinkInv
    <3>3. \A g \in F : next_page[g] # NULLPAGE => next_page[g] \in F
      BY <1>2, <2>1 DEF LinkInv, LinksOpen, LinkTypes
    <3>4. QED
      BY <1>1, <1>3, <3>2, <3>3 DEF FilesKept
  <2>3. held' = held \/ held' = NotHeld
    BY <1>1
  <2>4. held' # NotHeld => /\ held.handle[1] \in F /\ IsOpen(held.handle[1])'
                           /\ held.handle[1] # f
    BY <1>1, <1>4, <1>9, <2>1 DEF HeldFound
  <2>5. \A g \in LFiles : \/ lpos'[g] = lpos[g] \/ lpos'[g].cur_dir_page = FREED
                          \/ held' = NotHeld \/ g # held.handle[1]
    BY <1>5, <2>4
  <2>6. QED
    BY <1>6, <1>9, <2>2, <2>3, <2>4, <2>5, HeldStep DEF LinkInv
<1>10. QED
  BY <1>6, <1>7, <1>8, <1>9 DEF LinkInv

\* c_xdfput at the end of a file: a handle is kept when no page is added to linked files.
LEMMA PutRight ==
    ASSUME LinkInv, NEW f \in LFiles, LPut(f)
    PROVE  LinkInv' /\ (HeldFound /\ ~PutsLinked => HeldFound')
<1> DEFINE full == Len(LastPage(f)) = LEntries
           last == IF full THEN <<f, Npages(f) + 1>> ELSE <<f, Npages(f)>>
           rec  == IF full THEN 0 ELSE Len(LastPage(f))
           more == IF full THEN Append(lpage[f], <<TRUE>>)
                   ELSE [lpage[f] EXCEPT ![Npages(f)] = Append(LastPage(f), TRUE)]
           pos  == [lpos[f] EXCEPT !.cur_dir_page = last, !.cur_entry = <<last, rec>>,
                                   !.cur_pageno = Npages(f) - 1]
<1>1. /\ IsOpen(f) /\ (full => link[f] = NULLPAGE \/ PutsLinked)
      /\ link' = link /\ link_list' = link_list /\ held' = held /\ lfound' = NoFind
      /\ next_page' = [next_page EXCEPT ![f] = IF full THEN NULLPAGE ELSE @]
  BY DEF LPut
<1>2. lpage' = [lpage EXCEPT ![f] = more] /\ lpos' = [lpos EXCEPT ![f] = pos]
  <2> USE DEF LinkInv, LinkTypes
  <2>1. lpage' = [lpage EXCEPT ![f] = more]
    BY DEF LPut
  <2>2. lpos' = [lpos EXCEPT ![f] = pos]
    <3>1. PICK x, y, z : x = last /\ y = <<last, rec>> /\ z = Npages(f) - 1
      OBVIOUS
    <3>2. lpos' = [lpos EXCEPT ![f].cur_dir_page = x, ![f].cur_entry = y, ![f].cur_pageno = z]
      BY <3>1, Zenon DEF LPut
    <3>3. lpos' = [lpos EXCEPT ![f] = [lpos[f] EXCEPT !.cur_dir_page = x, !.cur_entry = y,
                                                    !.cur_pageno = z]]
      BY <3>2
    <3>4. QED
      BY <3>1, <3>3
  <2>3. QED
    BY <2>1, <2>2
<1>3. /\ Npages(f) \in Nat /\ Npages(f) > 0 /\ lpage[f] \in Seq(Seq(BOOLEAN))
      /\ IsPosition(lpos[f])
  BY <1>1, PlaceFacts DEF PlacesKnown, LinkInv, LinkTypes
<1>4. /\ more \in Seq(Seq(BOOLEAN)) /\ Len(more) = Npages(f) + (IF full THEN 1 ELSE 0)
  <2>1. PICK s \in Seq(Seq(BOOLEAN)) : s = lpage[f]
    BY <1>3
  <2> DEFINE n == Npages(f)
  <2>2. n \in 1 .. Len(s) /\ Len(s) = n
    BY <1>3, <2>1 DEF Npages
  <2> HIDE DEF n
  <2>3. <<TRUE>> \in Seq(BOOLEAN)
    OBVIOUS
  <2>4. Append(s, <<TRUE>>) \in Seq(Seq(BOOLEAN)) /\ Len(Append(s, <<TRUE>>)) = Len(s) + 1
    BY <2>3
  <2>5. Append(s[n], TRUE) \in Seq(BOOLEAN)
    BY <2>2
  <2>6. PICK t : t = [s EXCEPT ![n] = Append(s[n], TRUE)]
    OBVIOUS
  <2>7. t \in Seq(Seq(BOOLEAN)) /\ Len(t) = Len(s)
    BY <2>2, <2>5, <2>6
  <2>8. (full /\ more = Append(s, <<TRUE>>)) \/ (~full /\ more = t)
    BY <2>1, <2>6 DEF LastPage, n
  <2> HIDE DEF full, more
  <2>9. CASE full
    <3>1. more = Append(s, <<TRUE>>)
      BY <2>8, <2>9
    <3>2. QED
      BY <2>1, <2>2, <2>4, <2>9, <3>1 DEF n
  <2>10. CASE ~full
    <3>1. more = t
      BY <2>8, <2>10
    <3>2. QED
      BY <2>1, <2>2, <2>7, <2>10, <3>1 DEF n
  <2>11. QED
    BY <2>9, <2>10
<1>5. /\ IsPosition(pos) /\ pos.cur_dir_page = last /\ pos.cur_entry = <<last, rec>>
      /\ pos.cur_pageno = Npages(f) - 1
  <2>1. PICK x, y, z : x = last /\ y = <<last, rec>> /\ z = Npages(f) - 1
    OBVIOUS
  <2>2. PICK a : a = [lpos[f] EXCEPT !.cur_dir_page = x]
    OBVIOUS
  <2>3. PageSet(lpos[f], a, x)
    BY <1>3, <2>2, PositionSet
  <2>4. PICK b : b = [a EXCEPT !.cur_entry = y]
    OBVIOUS
  <2>5. EntrySet(a, b, y)
    BY <2>3, <2>4, PositionSet DEF PageSet
  <2>6. pos = [b EXCEPT !.cur_pageno = z]
    BY <2>1, <2>2, <2>4
  <2>7. NumberSet(b, pos, z)
    BY <2>5, <2>6, PositionSet DEF EntrySet
  <2>8. QED
    BY <2>1, <2>3, <2>5, <2>7 DEF PageSet, EntrySet, NumberSet
<1> HIDE DEF more, pos
<1>6. \A g \in LFiles : /\ lpage'[g] = IF g = f THEN more ELSE lpage[g]
                        /\ lpos'[g] = IF g = f THEN pos ELSE lpos[g]
                        /\ next_page'[g] = IF g = f /\ full THEN NULLPAGE ELSE next_page[g]
  BY <1>1, <1>2 DEF LinkInv, LinkTypes
<1>7. LinkTypes'
  <2>1. lpage' \in [LFiles -> Seq(Seq(BOOLEAN))]
    BY <1>2, <1>4 DEF LinkInv, LinkTypes
  <2>2. next_page' \in [LFiles -> LFiles \cup {NULLPAGE}]
    BY <1>1 DEF LinkInv, LinkTypes
  <2>3. lpos' = [g \in LFiles |-> lpos'[g]] /\ \A g \in LFiles : IsPosition(lpos'[g])
    BY <1>2, <1>5, <1>6 DEF LinkInv, LinkTypes
  <2>4. QED
    BY <1>1, <2>1, <2>2, <2>3 DEF LinkInv, LinkTypes, IsPosition
<1>8. \A g \in LFiles : /\ IsOpen(g) => IsOpen(g)'
                        /\ Npages(g)' = Npages(g) + (IF g = f /\ full THEN 1 ELSE 0)
  <2>1. \A g \in LFiles : Npages(g) \in Nat /\ (IsOpen(g) <=> Npages(g) > 0)
    BY PlaceFacts DEF PlacesKnown, LinkInv
  <2>2. \A g \in LFiles : Npages(g)' = Npages(g) + (IF g = f /\ full THEN 1 ELSE 0)
    <3> HIDE DEF full
    <3>1. \A g \in LFiles : Npages(g)' = Len(lpage'[g]) /\ Npages(g) = Len(lpage[g])
      BY DEF Npages
    <3>2. QED
      BY <1>4, <1>6, <2>1, <3>1
  <2>3. \A g \in LFiles : IsOpen(g)' <=> Npages(g)' > 0
    BY <1>7, FactsNext DEF PlacesKnown
  <2>4. QED
    BY <2>1, <2>2, <2>3
<1>9. LinksOpen'
  <2>1. \A g \in LFiles : next_page[g] # NULLPAGE => next_page[g] \in LFiles
    BY DEF LinkInv, LinkTypes
  <2>2. \A g \in LFiles : next_page'[g] # NULLPAGE =>
            next_page'[g] = next_page[g] /\ next_page[g] # NULLPAGE
    BY <1>6
  <2>3. QED
    BY <1>1, <1>8, <2>1, <2>2 DEF LinkInv, LinksOpen
<1>10. FoundKnown'
  BY <1>1 DEF FoundKnown, NoFind
<1>11. ASSUME HeldFound, ~PutsLinked PROVE HeldFound'
  <2>1. PICK F \in SUBSET LFiles : F = {g \in LFiles : IsOpen(g)}
    OBVIOUS
  <2>2. FilesKept(F)
    <3>1. ASSUME NEW g \in F
          PROVE  /\ Npages(g) <= Npages(g)' /\ link'[g] = link[g]
                 /\ next_page[g] # NULLPAGE =>
                       /\ next_page[g] \in F /\ next_page'[g] = next_page[g]
                       /\ Npages(g)' = Npages(g)
      <4>1. g \in LFiles /\ Npages(g) \in Nat /\ next_page[g] \in LFiles \cup {NULLPAGE}
        BY PlaceFacts DEF PlacesKnown, LinkInv
      <4>2. next_page[g] # NULLPAGE => next_page[g] \in F
        BY <2>1, <4>1 DEF LinkInv, LinksOpen
      <4>3. next_page[g] # NULLPAGE => ~(g = f /\ full)
        BY <1>1, <1>11, <4>1 DEF LinkInv, LinksOpen
      <4>4. QED
        BY <1>1, <1>6, <1>8, <4>1, <4>2, <4>3
    <3>2. QED
      BY <3>1 DEF FilesKept
  <2>3. held # NotHeld => held.handle[1] \in F /\ IsOpen(held.handle[1])'
                          /\ held.record \in Nat
    BY <1>1, <1>8, <1>11, <2>1 DEF HeldFound, IsOpen
  <2>4. ~full => Numbered(f, Npages(f) - 1, last)
    <3>1. last \in LFiles \X Nat
      BY <1>3
    <3>2. QED
      BY <1>3, <3>1, PlaceFacts DEF PlacesKnown, LinkInv, Numbered, TargetPage
  <2>5. held # NotHeld /\ full => pos.cur_entry # <<held.place, held.record + 1>>
    BY <1>5, <2>3
  <2>6. ASSUME NEW g \in LFiles
        PROVE  \/ lpos'[g] = lpos[g] \/ held' = NotHeld
               \/ lpos'[g].cur_entry # <<held.place, held.record + 1>>
               \/ Numbered(g, lpos'[g].cur_pageno, lpos'[g].cur_dir_page)
    BY <1>1, <1>5, <1>6, <2>4, <2>5
  <2>7. QED
    BY <1>1, <1>7, <1>11, <2>2, <2>3, <2>6, HeldStep DEF LinkInv
<1>12. QED
  BY <1>7, <1>9, <1>10, <1>11 DEF LinkInv

\* A step that leaves the positions, the links and the lengths of the files as they are.
LEMMA LengthsKept ==
    ASSUME LinkInv, lpage' \in [LFiles -> Seq(Seq(BOOLEAN))], lfound' = NoFind,
           \A g \in LFiles : Len(lpage'[g]) = Len(lpage[g]),
           UNCHANGED <<link, next_page, link_list, lpos>>, held' = held \/ held' = NotHeld
    PROVE  LinkInv' /\ (HeldFound => HeldFound')
<1>1. LinkTypes'
  BY DEF LinkInv, LinkTypes, IsPosition
<1>2. \A g \in LFiles : /\ IsOpen(g)' <=> IsOpen(g)
                        /\ Npages(g)' = Npages(g) /\ Npages(g) \in Nat
  <2>1. \A g \in LFiles : Npages(g) \in Nat /\ (IsOpen(g) <=> Npages(g) > 0)
    BY PlaceFacts DEF PlacesKnown, LinkInv
  <2>2. \A g \in LFiles : Npages(g)' = Npages(g)
    BY DEF Npages
  <2>3. \A g \in LFiles : IsOpen(g)' <=> Npages(g)' > 0
    BY <1>1, FactsNext DEF PlacesKnown
  <2>4. QED
    BY <2>1, <2>2, <2>3
<1>3. LinksOpen'
  <2>1. \A g \in LFiles : next_page[g] # NULLPAGE => next_page[g] \in LFiles
    BY DEF LinkInv, LinkTypes
  <2>2. QED
    BY <1>2, <2>1 DEF LinkInv, LinksOpen
<1>4. FoundKnown'
  BY DEF FoundKnown, NoFind
<1>5. ASSUME HeldFound PROVE HeldFound'
  <2>1. FilesKept(LFiles)
    BY <1>2 DEF FilesKept, LinkInv, LinkTypes
  <2>2. held' # NotHeld => held.handle[1] \in LFiles /\ IsOpen(held.handle[1])'
    BY <1>2, <1>5 DEF HeldFound
  <2>3. QED
    BY <1>1, <1>5, <2>1, <2>2, HeldStep DEF LinkInv
<1>6. QED
  BY <1>1, <1>3, <1>4, <1>5 DEF LinkInv

\* c_xdfdel: an entry is marked, no page goes.
LEMMA DeleteRight ==
    ASSUME LinkInv, NEW h, LDelete(h)
    PROVE  LinkInv' /\ (HeldFound => HeldFound')
<1> DEFINE r == h[3] + 1
<1>1. PICK g \in LFiles, i \in Nat :
         /\ lpage' = [lpage EXCEPT ![g][i][r] = FALSE]
         /\ lfound' = NoFind /\ held' = held
         /\ UNCHANGED <<link, next_page, link_list, lpos>>
  <2>1. PICK pl \in LFiles \X Nat : pl = TargetPage(h[1], h[2])
    BY DEF LDelete, LiveAt
  <2>2. pl[1] \in LFiles /\ pl[2] \in Nat
    OBVIOUS
  <2>3. QED
    BY <2>1, <2>2 DEF LDelete
<1> HIDE DEF r
<1>2. PICK s \in Seq(Seq(BOOLEAN)) : s = lpage[g]
  BY DEF LinkInv, LinkTypes
<1>3. PICK page : page = [s[i] EXCEPT ![r] = FALSE]
  OBVIOUS
<1>4. PICK t : t = [s EXCEPT ![i] = page]
  OBVIOUS
<1>5. lpage' = [lpage EXCEPT ![g] = t]
  BY <1>1, <1>2, <1>3, <1>4
<1>6. t \in Seq(Seq(BOOLEAN)) /\ Len(t) = Len(s)
  <2>1. CASE i \in DOMAIN s
    <3>1. s[i] \in Seq(BOOLEAN)
      BY <2>1
    <3>2. page \in Seq(BOOLEAN)
      <4>1. PICK b \in Seq(BOOLEAN) : b = s[i]
        BY <3>1
      <4>2. page = [b EXCEPT ![r] = FALSE]
        BY <1>3, <4>1
      <4>3. Len(b) \in Nat /\ DOMAIN b = 1 .. Len(b) /\ \A k \in 1 .. Len(b) : b[k] \in BOOLEAN
        OBVIOUS
      <4>4. page = [k \in 1 .. Len(b) |-> IF k = r THEN FALSE ELSE b[k]]
        BY <4>2, <4>3
      <4>5. \A k \in 1 .. Len(b) : (IF k = r THEN FALSE ELSE b[k]) \in BOOLEAN
        BY <4>3
      <4>6. page \in [1 .. Len(b) -> BOOLEAN]
        BY <4>4, <4>5, Zenon
      <4>7. QED
        BY <4>3, <4>6
    <3>3. QED
      BY <1>4, <2>1, <3>2
  <2>2. CASE i \notin DOMAIN s
    <3>1. t = s
      BY <1>4, <2>2
    <3>2. QED
      BY <3>1
  <2>3. QED
    BY <2>1, <2>2
<1>7. lpage' \in [LFiles -> Seq(Seq(BOOLEAN))] /\ \A f \in LFiles : Len(lpage'[f]) = Len(lpage[f])
  BY <1>2, <1>5, <1>6 DEF LinkInv, LinkTypes
<1>8. QED
  BY <1>1, <1>7, LengthsKept

\* fstlnk: only open files are linked.
LEMMA LnkRight ==
    ASSUME LinkInv, NEW list \in Lists, Fstlnk(list)
    PROVE  LinkInv' /\ (HeldFound => HeldFound')
<1>1. /\ \A f \in LFiles : link[f] = NULLPAGE
      /\ link_list' = list /\ lpage' = lpage /\ lpos' = lpos
      /\ lfound' = NoFind /\ held' = NotHeld
      /\ link' = [f \in LFiles |-> IF Followers(list, f) = {} THEN link[f]
                                   ELSE CHOOSE g \in Followers(list, f) : TRUE]
      /\ next_page' = [f \in LFiles |-> IF Followers(list, f) = {} THEN next_page[f]
                                        ELSE link'[f]]
  BY DEF Fstlnk
<1>2. list \in Seq(LFiles)
  BY LinkAssumption
<1>3. ASSUME NEW f \in LFiles, NEW g \in Followers(list, f)
      PROVE  g \in LFiles /\ IsOpen(g) /\ IsOpen(f)
  <2>1. PICK i \in OpenPrefix(list) : i > 1 /\ list[i - 1] = f /\ list[i] = g
    BY DEF Followers
  <2>2. i \in DOMAIN list /\ i \in 1 .. Len(list) /\ \A j \in 1 .. i : IsOpen(list[j])
    BY <1>2, <2>1 DEF OpenPrefix
  <2>3. i \in 1 .. i /\ i - 1 \in 1 .. i
    BY <2>1, <2>2
  <2>4. QED
    BY <1>2, <2>1, <2>2, <2>3
<1>4. ASSUME NEW f \in LFiles
      PROVE  \/ link'[f] = NULLPAGE /\ next_page'[f] = NULLPAGE
             \/ /\ link'[f] \in LFiles /\ next_page'[f] = link'[f]
                /\ IsOpen(f) /\ IsOpen(link'[f])
  <2>1. next_page[f] = NULLPAGE
    BY <1>1, PlaceFacts DEF LinkInv, LinksOpen, PlacesKnown
  <2>2. CASE Followers(list, f) = {}
    BY <1>1, <2>1, <2>2
  <2>3. CASE Followers(list, f) # {}
    <3>1. link'[f] \in Followers(list, f) /\ next_page'[f] = link'[f]
      BY <1>1, <2>3
    <3>2. QED
      BY <1>3, <3>1
  <2>4. QED
    BY <2>2, <2>3
<1>5. LinkTypes'
  <2>1. link' \in [LFiles -> LFiles \cup {NULLPAGE}]
    BY <1>1, <1>4
  <2>2. next_page' \in [LFiles -> LFiles \cup {NULLPAGE}]
    BY <1>1, <1>4
  <2>3. QED
    BY <1>1, <1>2, <2>1, <2>2 DEF LinkInv, LinkTypes, IsPosition
<1>6. LinksOpen'
  <2>1. \A f \in LFiles : IsOpen(f)' <=> IsOpen(f)
    BY <1>1 DEF IsOpen
  <2>2. QED
    BY <1>4, <2>1 DEF LinksOpen
<1>7. FoundKnown' /\ HeldFound'
  BY <1>1 DEF FoundKnown, NoFind, HeldFound
<1>8. QED
  BY <1>5, <1>6, <1>7 DEF LinkInv

\* fstunl: the links and the pointers of the same files go.
LEMMA UnlRight ==
    ASSUME LinkInv, Fstunl
    PROVE  LinkInv' /\ (HeldFound => HeldFound')
<1>1. PICK files :
         /\ link' = [f \in LFiles |-> IF f \in files THEN NULLPAGE ELSE link[f]]
         /\ next_page' = [f \in LFiles |-> IF f \in files THEN NULLPAGE ELSE next_page[f]]
         /\ lfound' = NoFind /\ held' = NotHeld
         /\ UNCHANGED <<lpage, link_list, lpos>>
  BY DEF Fstunl
<1>2. LinkTypes'
  BY <1>1 DEF LinkInv, LinkTypes, IsPosition
<1>3. LinksOpen'
  BY <1>1 DEF LinkInv, LinksOpen, IsOpen
<1>4. FoundKnown' /\ HeldFound'
  BY <1>1 DEF FoundKnown, NoFind, HeldFound
<1>5. QED
  BY <1>2, <1>3, <1>4 DEF LinkInv

-----------------------------------------------------------------------------
(* What the searches return, call by call.                                 *)

\* The position of the file of the handle that is held: behind its record, as long as its
\* entry is there.
HeldAt ==
    held # NotHeld =>
        LET f == held.handle[1]
            c == lpos[f] IN
        /\ f \in LFiles /\ held.record \in Nat /\ held.place \in LFiles \X Nat
        /\ c.page_record = held.record + 1
        /\ c.cur_entry = <<held.place, held.record + 1>>
           => c.cur_dir_page = held.place /\ c.cur_pageno \in Nat

\* What the last search returned is what it had to.
FoundFirst ==
    lfound.start # NULLPAGE /\ ~lfound.far =>
        \E pl, rec, status, at :
            /\ lfound.start = <<pl, rec>> /\ lfound.status = status /\ lfound.at = at
            /\ FindsFirstOf(pl, rec, status, at)

\* A search holds the record behind which it leaves the position.
LEMMA FoundAt ==
    ASSUME LinkTypes, NEW f \in LFiles, NEW m, NEW start, NEW far, Found(f, m, start, far),
           m.status = "handle" /\ start # NULLPAGE =>
               \E c : m = NextOfLink(f, c) /\ c.cur_pageno \in Nat
    PROVE  HeldAt'
<1>1. /\ lpos' = [lpos EXCEPT ![f] = m.pos]
      /\ held' = IF m.status = "handle" /\ start # NULLPAGE
                 THEN [handle |-> m.handle, place |-> m.place, record |-> m.record]
                 ELSE NotHeld
  BY DEF Found
<1>2. SUFFICES ASSUME held' # NotHeld PROVE HeldAt'
  BY DEF HeldAt
<1>3. /\ m.status = "handle" /\ start # NULLPAGE
      /\ held'.handle = m.handle /\ held'.place = m.place /\ held'.record = m.record
  BY <1>1, <1>2
<1>4. PICK c : m = NextOfLink(f, c) /\ c.cur_pageno \in Nat
  BY <1>3
<1>5. /\ m.handle[1] = f /\ m.record \in Nat /\ m.place \in LFiles \X Nat
      /\ m.pos.page_record = m.record + 1 /\ m.pos.cur_dir_page = m.place
      /\ m.pos.cur_pageno \in Nat
  BY <1>3, <1>4, NextOfLinkPos
<1>6. lpos'[f] = m.pos
  BY <1>1 DEF LinkTypes
<1>7. QED
  BY <1>3, <1>5, <1>6 DEF HeldAt

\* A search that begins where it is said to finds what it has to.
LEMMA FoundFinds ==
    ASSUME NEW f, NEW m, NEW start, NEW far, Found(f, m, start, far),
           start # NULLPAGE /\ ~far =>
               \E c : /\ m = NextOfLink(f, c) /\ c.cur_dir_page # NULLPAGE
                      /\ start = <<c.cur_dir_page, c.page_record>> /\ c.cur_entry = start
    PROVE  FoundFirst'
<1>1. /\ UNCHANGED <<lpage, next_page>>
      /\ lfound' = [status |-> m.status, start |-> start, far |-> far, at |-> AtFound(m)]
  BY DEF Found, AtFound
<1>2. SUFFICES ASSUME lfound'.start # NULLPAGE /\ ~lfound'.far PROVE FoundFirst'
  BY DEF FoundFirst
<1>3. PICK c : /\ m = NextOfLink(f, c) /\ c.cur_dir_page # NULLPAGE
               /\ start = <<c.cur_dir_page, c.page_record>> /\ c.cur_entry = start
  BY <1>1, <1>2
<1>4. PICK pl, rec, status, at : /\ pl = c.cur_dir_page /\ rec = c.page_record
                                 /\ status = m.status /\ at = AtFound(m)
  OBVIOUS
<1>5. FindsFirstOf(pl, rec, status, at)
  BY <1>3, <1>4, NextOfLinkFinds
<1>6. FindsFirstOf(pl, rec, status, at)'
  BY <1>1, <1>5, FindsSame
<1>7. lfound'.start = <<pl, rec>> /\ lfound'.status = status /\ lfound'.at = at
  BY <1>1, <1>3, <1>4
<1>8. QED
  BY <1>6, <1>7 DEF FoundFirst

\* c_xdfloc2 from the beginning or behind a handle.
LEMMA LocateFinds ==
    ASSUME LinkInv, NEW f \in LFiles, NEW n \in Nat, NEW record, LLocate(f, n, record)
    PROVE  HeldAt' /\ FoundFirst'
<1> DEFINE cur == IF record = -1 THEN -1 ELSE lpos[f].cur_pageno
           c == StartAt(f, n, record + 1, cur)
           outside == n >= Npages(f) /\ n # cur
           m == IF outside /\ link[f] = NULLPAGE THEN Refused(f, lpos[f])
                ELSE IF outside /\ c.cur_dir_page = NULLPAGE THEN Refused(f, c)
                ELSE NextOfLink(f, c)
           start == IF TargetPage(f, n) = NULLPAGE THEN NULLPAGE
                    ELSE <<TargetPage(f, n), record + 1>>
           far == n >= Npages(f) + 2 \/ (n >= Npages(f) /\ n = cur)
<1>1. Found(f, m, start, far)
  BY Zenon DEF LLocate
<1>2. LinkTypes /\ Npages(f) \in Nat
  BY PlaceFacts DEF PlacesKnown, LinkInv
<1>3. \A b : Refused(f, b).status # "handle"
  <2>1. \A b : \E pos : Refused(f, b) = [pos |-> pos, status |-> "ERR_BAD_PAGENO"]
    BY Zenon DEF Refused
  <2>2. \A pos : [pos |-> pos, status |-> "ERR_BAD_PAGENO"].status # "handle"
    OBVIOUS
  <2> QED
    BY <2>1, <2>2
<1>4. m.status = "handle" => m = NextOfLink(f, c) /\ c.cur_pageno \in Nat
  <2>1. SUFFICES ASSUME m.status = "handle"
                 PROVE  m = NextOfLink(f, c) /\ c.cur_pageno \in Nat
    OBVIOUS
  <2>2. m = NextOfLink(f, c) /\ (outside => link[f] # NULLPAGE)
    BY <1>3, <2>1, Zenon
  <2> HIDE DEF m
  <2>3. c.cur_dir_page # NULLPAGE
    BY <2>1, <2>2, NextOfLinkPos
  <2>4. c.cur_pageno \in Nat
    BY <1>2, <2>2, <2>3, StartNumber
  <2> QED
    BY <2>2, <2>4
<1>5. ASSUME start # NULLPAGE, ~far
      PROVE  /\ m = NextOfLink(f, c) /\ c.cur_dir_page # NULLPAGE
             /\ start = <<c.cur_dir_page, c.page_record>> /\ c.cur_entry = start
  <2>1. PICK pl : pl = TargetPage(f, n)
    OBVIOUS
  <2>2. pl # NULLPAGE /\ start = <<pl, record + 1>>
    BY <1>5, <2>1
  <2>3. n < Npages(f) \/ (n < Npages(f) + 2 /\ n # cur)
    BY <1>2, <1>5
  <2>4. /\ c.cur_dir_page = pl /\ c.cur_entry = <<pl, record + 1>>
        /\ c.page_record = record + 1
        /\ ~(n < Npages(f)) => link[f] # NULLPAGE
    BY <1>2, <2>1, <2>2, <2>3, StartReaches
  <2>5. outside => ~(n < Npages(f))
    BY <1>2
  <2> HIDE DEF c, outside, start
  <2>6. m = NextOfLink(f, c)
    BY <2>2, <2>4, <2>5, Zenon
  <2> QED
    BY <2>2, <2>4, <2>6
<1> HIDE DEF m, start, far, c
<1>6. HeldAt'
  BY <1>1, <1>2, <1>4, FoundAt
<1>7. FoundFirst'
  BY <1>1, <1>5, FoundFinds
<1>8. QED
  BY <1>6, <1>7

\* fstsui behind the record that is held.
LEMMA SuiFinds ==
    ASSUME LinkInv, HeldAt, NEW f \in LFiles, LSui(f)
    PROVE  HeldAt' /\ FoundFirst'
<1> DEFINE c == lpos[f]
           m == IF c.cur_entry = NULLPAGE \/ c.cur_pageno = -1
                THEN [pos |-> c, status |-> "ERR_NO_POS"] ELSE NextOfLink(f, c)
           start == IF held # NotHeld /\ held.handle[1] = f
                       /\ c.cur_entry = <<held.place, held.record + 1>>
                    THEN c.cur_entry ELSE NULLPAGE
<1>1. CASE c.cur_dir_page = FREED
  <2>1. lfound'.start = NULLPAGE /\ held' = NotHeld
    BY <1>1 DEF LSui
  <2> QED
    BY <2>1 DEF HeldAt, FoundFirst
<1>2. CASE c.cur_dir_page # FREED
  <2>1. Found(f, m, start, FALSE)
    BY <1>2, Zenon DEF LSui
  <2>2. LinkTypes /\ PlacesKnown
    BY PlaceFacts DEF LinkInv
  <2>3. ASSUME start # NULLPAGE
        PROVE  /\ m = NextOfLink(f, c) /\ c.cur_dir_page # NULLPAGE /\ c.cur_pageno \in Nat
               /\ start = <<c.cur_dir_page, c.page_record>> /\ c.cur_entry = start
    <3>1. /\ held # NotHeld /\ held.handle[1] = f /\ start = c.cur_entry
          /\ c.cur_entry = <<held.place, held.record + 1>>
      BY <2>3
    <3>2. /\ c.page_record = held.record + 1 /\ c.cur_dir_page = held.place
          /\ c.cur_pageno \in Nat /\ held.place \in LFiles \X Nat
      BY <3>1 DEF HeldAt
    <3>3. c.cur_entry # NULLPAGE
      BY <2>3, <3>1
    <3>4. c.cur_pageno # -1 /\ c.cur_dir_page # NULLPAGE
      BY <2>2, <3>2 DEF PlacesKnown
    <3> HIDE DEF c, start
    <3>5. m = NextOfLink(f, c)
      BY <3>3, <3>4, Zenon
    <3> QED
      BY <3>1, <3>2, <3>4, <3>5
  <2> HIDE DEF m, start, c
  <2>4. HeldAt'
    BY <2>1, <2>2, <2>3, FoundAt
  <2>5. FoundFirst'
    BY <2>1, <2>3, FoundFinds
  <2> QED
    BY <2>4, <2>5
<1>3. QED
  BY <1>1, <1>2

\* c_xdfput leaves the position on the last page, at an entry that is the one behind the
\* record held only when it was put there.
LEMMA PutAt ==
    ASSUME LinkInv, HeldAt, NEW f \in LFiles, LPut(f)
    PROVE  HeldAt'
<1> DEFINE full == Len(LastPage(f)) = LEntries
           last == IF full THEN <<f, Npages(f) + 1>> ELSE <<f, Npages(f)>>
<1>1. /\ IsOpen(f) /\ held' = held
      /\ lpos' = [lpos EXCEPT ![f].cur_dir_page = last,
                              ![f].cur_entry = <<last, IF full THEN 0 ELSE Len(LastPage(f))>>,
                              ![f].cur_pageno = Npages(f) - 1]
  BY DEF LPut
<1>2. Npages(f) - 1 \in Nat
  BY <1>1, PlaceFacts DEF PlacesKnown, LinkInv
<1>3. IsPosition(lpos[f]) /\ lpos = [g \in LFiles |-> lpos[g]]
  BY DEF LinkInv, LinkTypes
<1> HIDE DEF last
<1>4. PICK e, i : e = <<last, IF full THEN 0 ELSE Len(LastPage(f))>> /\ i = Npages(f) - 1
  OBVIOUS
<1> HIDE DEF full
<1>5. PICK a : a = [lpos[f] EXCEPT !.cur_dir_page = last]
  OBVIOUS
<1>6. PICK b : b = [a EXCEPT !.cur_entry = e]
  OBVIOUS
<1>7. PICK d : d = [b EXCEPT !.cur_pageno = i]
  OBVIOUS
<1>8. lpos' = [g \in LFiles |-> IF g = f THEN d ELSE lpos[g]]
  BY <1>1, <1>3, <1>4, <1>5, <1>6, <1>7
<1>9. PageSet(lpos[f], a, last) /\ EntrySet(a, b, e) /\ NumberSet(b, d, i)
  <2>1. PageSet(lpos[f], a, last)
    BY <1>3, <1>5, PositionSet
  <2>2. EntrySet(a, b, e)
    BY <1>6, <2>1, PositionSet DEF PageSet
  <2>3. NumberSet(b, d, i)
    BY <1>7, <2>2, PositionSet DEF EntrySet
  <2> QED
    BY <2>1, <2>2, <2>3
<1>10. /\ d.cur_dir_page = last /\ d.cur_entry = e /\ d.cur_pageno = i
       /\ d.page_record = lpos[f].page_record
  BY <1>9 DEF PageSet, EntrySet, NumberSet
<1>11. \A pl, rec : e = <<pl, rec>> => last = pl
  BY <1>4
<1>12. QED
  BY <1>1, <1>2, <1>4, <1>8, <1>10, <1>11 DEF HeldAt

\* c_xdfcls forgets the position of its file, and the page of another one only when the
\* record held is not there.
LEMMA CloseAt ==
    ASSUME LinkInv, HeldAt, NEW f \in LFiles, LClose(f)
    PROVE  HeldAt'
<1>1. /\ lpos' = [g \in LFiles |->
            IF g = f THEN LNoPos
            ELSE IF lpos[g].cur_dir_page \in {f} \X (1 .. Npages(f))
            THEN [lpos[g] EXCEPT !.cur_dir_page = FREED] ELSE lpos[g]]
      /\ held' = IF held # NotHeld /\ (held.handle[1] = f \/ held.place[1] = f)
                 THEN NotHeld ELSE held
  BY DEF LClose
<1>2. SUFFICES ASSUME held' # NotHeld PROVE HeldAt'
  BY DEF HeldAt
<1>3. PICK g, pl, rec : g = held.handle[1] /\ pl = held.place /\ rec = held.record
  OBVIOUS
<1>4. held' = held /\ held # NotHeld /\ g # f /\ pl[1] # f
  BY <1>1, <1>2, <1>3
<1>5. /\ g \in LFiles /\ rec \in Nat /\ pl \in LFiles \X Nat
      /\ lpos[g].page_record = rec + 1
      /\ lpos[g].cur_entry = <<pl, rec + 1>>
         => lpos[g].cur_dir_page = pl /\ lpos[g].cur_pageno \in Nat
  BY <1>3, <1>4 DEF HeldAt
<1>6. /\ lpos'[g].page_record = rec + 1
      /\ lpos'[g].cur_entry = <<pl, rec + 1>>
         => lpos'[g].cur_dir_page = pl /\ lpos'[g].cur_pageno \in Nat
  <2>1. CASE lpos[g].cur_dir_page \in {f} \X (1 .. Npages(f))
    <3>1. PICK d : d = [lpos[g] EXCEPT !.cur_dir_page = FREED]
      OBVIOUS
    <3>2. lpos'[g] = d
      BY <1>1, <1>4, <1>5, <2>1, <3>1
    <3>3. PageSet(lpos[g], d, FREED)
      BY <1>5, <3>1, PositionSet DEF LinkInv, LinkTypes
    <3>4. lpos[g].cur_dir_page # pl
      BY <1>4, <2>1
    <3> QED
      BY <1>5, <3>2, <3>3, <3>4 DEF PageSet
  <2>2. CASE lpos[g].cur_dir_page \notin {f} \X (1 .. Npages(f))
    <3>1. lpos'[g] = lpos[g]
      BY <1>1, <1>4, <1>5, <2>2
    <3> QED
      BY <1>5, <3>1
  <2> QED
    BY <2>1, <2>2
<1>7. QED
  BY <1>3, <1>4, <1>5, <1>6 DEF HeldAt

-----------------------------------------------------------------------------
(* The theorems.                                                           *)

\* No file is open at first, and nothing is held.
LEMMA LinkInitRight == LinkInit => LinkInv /\ HeldFound
<1> SUFFICES ASSUME LinkInit PROVE LinkInv /\ HeldFound
  OBVIOUS
<1>1. LinkTypes
  <2>1. IsPosition(LNoPos)
    BY DEF IsPosition, LNoPos
  <2>2. \A f \in LFiles : lpos[f] = LNoPos
    BY DEF LinkInit
  <2>3. lpos = [f \in LFiles |-> lpos[f]] /\ \A f \in LFiles : IsPosition(lpos[f])
    BY <2>1, <2>2 DEF LinkInit
  <2>4. QED
    BY <2>3 DEF LinkInit, LinkTypes
<1>2. LinksOpen
  BY DEF LinkInit, LinksOpen
<1>3. FoundKnown /\ HeldFound
  BY DEF LinkInit, FoundKnown, HeldFound, NoFind
<1>4. QED
  BY <1>1, <1>2, <1>3 DEF LinkInv

\* Every call keeps what is known of the links, and the handle when no page is added to
\* linked files.
LEMMA LinkStepRight ==
    ASSUME LinkInv, [LinkNext]_lvars
    PROVE  LinkInv' /\ (HeldFound /\ ~PutsLinked => HeldFound')
<1>1. ASSUME NEW f \in LFiles, NEW n \in 0 .. LEntries * LMaxPages[f], LOpen(f, n)
      PROVE  LinkInv' /\ (HeldFound => HeldFound')
  <2>1. LMaxPages[f] \in Nat /\ LEntries \in Nat
    BY LinkAssumption
  <2>2. n \in Nat
    BY <2>1
  <2>3. QED
    BY <1>1, <2>2, OpenRight
<1>2. ASSUME NEW f \in LFiles, LClose(f) \/ LSui(f)
      PROVE  LinkInv' /\ (HeldFound => HeldFound')
  BY <1>2, CloseRight, SuiRight
<1>3. ASSUME NEW f \in LFiles, LPut(f)
      PROVE  LinkInv' /\ (HeldFound /\ ~PutsLinked => HeldFound')
  BY <1>3, PutRight
<1>4. ASSUME NEW f \in LFiles, LLocate(f, 0, -1)
      PROVE  LinkInv' /\ HeldFound'
  BY <1>4, LocateRight
<1>5. ASSUME NEW f \in LFiles, NEW n \in 0 .. MaxPageNumber, NEW record \in 0 .. LEntries - 1,
             LLocate(f, n, record) \/ LDelete(<<f, n, record>>)
      PROVE  LinkInv' /\ (HeldFound => HeldFound')
  <2>1. MaxPageNumber \in Nat
    BY FS_CardinalityType, LinkAssumption DEF MaxPageNumber
  <2>2. n \in Nat
    BY <2>1
  <2>3. CASE LLocate(f, n, record)
    BY <2>2, <2>3, LocateRight
  <2>4. CASE LDelete(<<f, n, record>>)
    BY <2>4, DeleteRight
  <2>5. QED
    BY <1>5, <2>3, <2>4
<1>6. ASSUME NEW list \in Lists, Fstlnk(list)
      PROVE  LinkInv' /\ (HeldFound => HeldFound')
  BY <1>6, LnkRight
<1>7. ASSUME Fstunl
      PROVE  LinkInv' /\ (HeldFound => HeldFound')
  BY <1>7, UnlRight
<1>8. ASSUME UNCHANGED lvars
      PROVE  LinkInv' /\ (HeldFound => HeldFound')
  <2>1. /\ lpage' = lpage /\ link' = link /\ next_page' = next_page
        /\ link_list' = link_list /\ lpos' = lpos /\ lfound' = lfound /\ held' = held
    BY <1>8 DEF lvars
  <2>2. LinkTypes' /\ LinksOpen' /\ FoundKnown'
    BY <2>1 DEF LinkInv, LinkTypes, LinksOpen, FoundKnown, IsOpen, IsPosition
  <2>3. ASSUME HeldFound PROVE HeldFound'
    <3>1. LinkTypes /\ LinkTypes'
      BY <2>2 DEF LinkInv
    <3>2. FilesKept(LFiles)
      BY <2>1, <3>1, PlaceFacts DEF FilesKept, LinkTypes, Npages, PlacesKnown
    <3>3. held' # NotHeld => held.handle[1] \in LFiles /\ IsOpen(held.handle[1])'
      BY <2>1, <2>3 DEF HeldFound, IsOpen
    <3>4. QED
      BY <2>1, <2>3, <3>1, <3>2, <3>3, HeldStep
  <2>4. QED
    BY <2>2, <2>3 DEF LinkInv
<1>9. QED
  BY <1>1, <1>2, <1>3, <1>4, <1>5, <1>6, <1>7, <1>8 DEF LinkNext

\* A program that unlinks its files before it closes them follows no pointer to a page
\* c_xdfcls gave back, in any search of c_xdfloc2 that does not go on with an old one:
\* whatever the files, the lists and the pages put meanwhile.
THEOREM NothingFreedIsFollowed == LinkSpec => []FollowsNoFreedPage
<1>1. LinkInit => LinkInv
  BY LinkInitRight
<1>2. LinkInv /\ [LinkNext]_lvars => LinkInv'
  BY LinkStepRight
<1>3. LinkInv => FollowsNoFreedPage
  <2> SUFFICES ASSUME LinkInv PROVE FollowsNoFreedPage
    OBVIOUS
  <2>1. FREED \notin LFiles \cup {NULLPAGE} /\ FREED \notin Statuses \cup {NULLPAGE}
    BY LinkAssumption
  <2>2. \A f \in LFiles : next_page[f] \in LFiles \cup {NULLPAGE}
    BY DEF LinkInv, LinkTypes
  <2>3. QED
    BY <2>1, <2>2 DEF LinkInv, FoundKnown, FollowsNoFreedPage
<1>4. QED
  BY <1>1, <1>2, <1>3, PTL DEF LinkSpec

\* When programs add no page to a file that is linked to another, the handle of a record
\* found in linked files designates that record to c_xdfget2 and c_xdfdel for as long as
\* the list is not changed and its files stay open.
THEOREM HandlesStayInLinks ==
    ASSUME ~PutsLinked
    PROVE  LinkSpec => []HandleStaysWithRecord
<1>1. LinkInit => LinkInv /\ HeldFound
  BY LinkInitRight
<1>2. LinkInv /\ HeldFound /\ [LinkNext]_lvars => LinkInv' /\ HeldFound'
  BY LinkStepRight
<1>3. LinkInv /\ HeldFound => HandleStaysWithRecord
  BY DEF HeldFound, Numbered, HandleStaysWithRecord
<1>4. QED
  BY <1>1, <1>2, <1>3, PTL DEF LinkSpec

\* Every call keeps what is known of the record that is held, and a search returns what
\* it has to.
LEMMA FindsStep ==
    ASSUME LinkInv, HeldAt, FoundFirst, [LinkNext]_lvars
    PROVE  HeldAt' /\ FoundFirst'
<1>1. ASSUME lfound' = NoFind PROVE FoundFirst'
  BY <1>1 DEF FoundFirst, NoFind
<1>2. ASSUME NEW f \in LFiles, NEW n, LOpen(f, n)
      PROVE  HeldAt' /\ FoundFirst'
  <2>1. held' = held /\ lpos' = lpos /\ lfound' = NoFind
    BY <1>2 DEF LOpen
  <2> QED
    BY <1>1, <2>1 DEF HeldAt
<1>3. ASSUME NEW f \in LFiles, LClose(f)
      PROVE  HeldAt' /\ FoundFirst'
  <2>1. lfound' = NoFind
    BY <1>3 DEF LClose
  <2> QED
    BY <1>1, <1>3, <2>1, CloseAt
<1>4. ASSUME NEW f \in LFiles, LPut(f)
      PROVE  HeldAt' /\ FoundFirst'
  <2>1. lfound' = NoFind
    BY <1>4 DEF LPut
  <2> QED
    BY <1>1, <1>4, <2>1, PutAt
<1>5. ASSUME NEW f \in LFiles, LSui(f)
      PROVE  HeldAt' /\ FoundFirst'
  BY <1>5, SuiFinds
<1>6. ASSUME NEW f \in LFiles, LLocate(f, 0, -1)
      PROVE  HeldAt' /\ FoundFirst'
  BY <1>6, LocateFinds
<1>7. ASSUME NEW f \in LFiles, NEW n \in 0 .. MaxPageNumber, NEW record,
             LLocate(f, n, record)
      PROVE  HeldAt' /\ FoundFirst'
  <2>1. n \in Nat
    BY FS_CardinalityType, LinkAssumption DEF MaxPageNumber
  <2> QED
    BY <1>7, <2>1, LocateFinds
<1>8. ASSUME NEW h, LDelete(h)
      PROVE  HeldAt' /\ FoundFirst'
  <2>1. held' = held /\ lpos' = lpos /\ lfound' = NoFind
    BY <1>8 DEF LDelete
  <2> QED
    BY <1>1, <2>1 DEF HeldAt
<1>9. ASSUME NEW list \in Lists, Fstlnk(list)
      PROVE  HeldAt' /\ FoundFirst'
  <2>1. held' = NotHeld /\ lfound' = NoFind
    BY <1>9 DEF Fstlnk
  <2> QED
    BY <1>1, <2>1 DEF HeldAt
<1>10. ASSUME Fstunl
       PROVE  HeldAt' /\ FoundFirst'
  <2>1. held' = NotHeld /\ lfound' = NoFind
    BY <1>10 DEF Fstunl
  <2> QED
    BY <1>1, <2>1 DEF HeldAt
<1>11. ASSUME UNCHANGED lvars
       PROVE  HeldAt' /\ FoundFirst'
  <2>1. held' = held /\ lpos' = lpos /\ lfound' = lfound /\ UNCHANGED <<lpage, next_page>>
    BY <1>11 DEF lvars
  <2>2. HeldAt'
    BY <2>1 DEF HeldAt
  <2>3. ASSUME lfound'.start # NULLPAGE, ~lfound'.far PROVE FoundFirst'
    <3>1. PICK pl, rec, status, at :
             /\ lfound.start = <<pl, rec>> /\ lfound.status = status /\ lfound.at = at
             /\ FindsFirstOf(pl, rec, status, at)
      BY <2>1, <2>3 DEF FoundFirst
    <3>2. FindsFirstOf(pl, rec, status, at)'
      BY <2>1, <3>1, FindsSame
    <3> QED
      BY <2>1, <3>1, <3>2 DEF FoundFirst
  <2> QED
    BY <2>2, <2>3 DEF FoundFirst
<1>12. QED
  BY <1>2, <1>3, <1>4, <1>5, <1>6, <1>7, <1>8, <1>9, <1>10, <1>11 DEF LinkNext

\* A search of linked files begun at the beginning, behind a record of the first two pages
\* behind the file's own, or behind the record it returned last, returns the first record
\* there is from there on over all the linked files, and none only when there is none:
\* whatever the files, the lists, and what is put, deleted, opened and closed meanwhile.
THEOREM SearchesFindNext == LinkSpec => []LinkedSearchFindsNext
<1>1. LinkInit => LinkInv /\ HeldAt /\ FoundFirst
  <2>1. LinkInit => held = NotHeld /\ lfound = NoFind
    BY DEF LinkInit
  <2>2. LinkInit => HeldAt /\ FoundFirst
    BY <2>1 DEF HeldAt, FoundFirst, NoFind
  <2> QED
    BY <2>2, LinkInitRight
<1>2. LinkInv /\ HeldAt /\ FoundFirst /\ [LinkNext]_lvars => LinkInv' /\ HeldAt' /\ FoundFirst'
  BY LinkStepRight, FindsStep
<1>3. FoundFirst => LinkedSearchFindsNext
  <2> SUFFICES ASSUME FoundFirst, lfound.start # NULLPAGE, ~lfound.far
               PROVE  LinkedSearchFindsNext
    BY DEF LinkedSearchFindsNext
  <2>1. PICK pl, rec, status, at :
           /\ lfound.start = <<pl, rec>> /\ lfound.status = status /\ lfound.at = at
           /\ FindsFirstOf(pl, rec, status, at)
    BY DEF FoundFirst
  <2>2. lfound.start[1] = pl /\ lfound.start[2] = rec
    BY <2>1
  <2> QED
    BY <2>1, <2>2 DEF FindsFirstOf, LinkedSearchFindsNext
<1>4. QED
  BY <1>1, <1>2, <1>3, PTL DEF LinkSpec
=============================================================================
