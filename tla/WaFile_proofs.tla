---------------------------- MODULE WaFile_proofs ---------------------------
(***************************************************************************)
(* Why no page buffer is lost, why a slot is free when its file is closed, *)
(* and why a program with one page to a file is never stopped: the unit    *)
(* table, the slots and the pages, and what each knows of the others.      *)
(***************************************************************************)
EXTENDS WaFile, FiniteSetTheorems, SequenceTheorems, WellFoundedInduction, TLAPS

IsOpened(u) == fgfdt[u].open_flag = 1

\* The pages of a slot, whatever words they hold.
IsPages(q) == \E W : q \in Seq([wa0 : Int, walast : Int, touch : {0, 1}, word : W])
IsWords(q) == \E W : q \in Seq(W)

WaTypes ==
    /\ cfg_size \in Nat /\ cfg_nb \in Nat \ {0}
    /\ global_count \in Nat /\ nfree \in Int /\ nfree >= -1
    /\ descriptor \in [Fds -> Names \cup {NoName}]
    /\ DOMAIN wadisk = Names /\ \A f \in Names : IsWords(wadisk[f])
    /\ fgfdt \in [Units -> [name : Names \cup {NoName}, fd : Int, open_flag : {0, 1},
                            file_size : Int]]
    /\ DOMAIN wafile = Slots
    /\ \A s \in Slots : \E d \in Int : \E q :
          IsPages(q) /\ wafile[s] = [file_desc |-> d, page |-> q]
    /\ todo = NoTodo \/ todo \in [kind : {"read", "write"}, unit : Units, adr : Int, n : Int,
                                  word : Words \cup {Junk}, hole : Int]

\* The descriptors the system gave out are those of the open units, and a file is on one
\* unit.
Connected ==
    /\ \A u \in Units : IsOpened(u) =>
          /\ fgfdt[u].fd \in Fds /\ fgfdt[u].name \in Names
          /\ descriptor[fgfdt[u].fd] = fgfdt[u].name
    /\ \A u, v \in Units : fgfdt[u].name = fgfdt[v].name /\ fgfdt[u].name # NoName => u = v
    /\ \A d \in Fds : descriptor[d] # NoName => \E u \in Units : IsOpened(u) /\ fgfdt[u].fd = d

\* A slot that is free has no pages, and a request is for a unit that has a slot.
Cached ==
    /\ BuffersConserved
    /\ \A s \in Slots : wafile[s].file_desc = -1 \/ cfg_size = 0 => wafile[s].page = <<>>
    /\ todo # NoTodo => IsOpened(todo.unit) /\ SlotsOf(todo.unit) # {}

WaInv == WaTypes /\ Connected /\ Cached

\* When no unit is forgotten while it is open, each open unit has a slot of its own, and
\* no other slot is in use.
SlotsMatch ==
    /\ \A u \in Units : IsOpened(u) => SlotsOf(u) # {}
    /\ \A s \in Slots : wafile[s].file_desc # -1 =>
          \E u \in Units : IsOpened(u) /\ fgfdt[u].fd = wafile[s].file_desc
    /\ \A s, t \in Slots :
          wafile[s].file_desc = wafile[t].file_desc /\ wafile[s].file_desc # -1 => s = t
    /\ says = "too_many_open_files" => \A s \in Slots : wafile[s].file_desc # -1

\* The size in FGFDT is that of the file once the page in core is written.  A page that
\* is not to be written ends where the file does, or is beyond.
SizeRight(u, s) ==
    LET onDisk == Len(wadisk[fgfdt[u].name])
        size   == fgfdt[u].file_size
        p      == wafile[s].page[1]
    IN IF wafile[s].page = <<>> THEN size = onDisk
       ELSE IF p.touch = 0 THEN size = onDisk /\ (p.walast <= size \/ p.walast < p.wa0)
       ELSE size = AtLeast(onDisk, p.walast)

OnePage ==
    /\ \A u \in Units : IsOpened(u) => \A s \in SlotsOf(u) : SizeRight(u, s)
    /\ todo # NoTodo /\ todo.kind = "write" => Piece.adr <= fgfdt[todo.unit].file_size + 1

-----------------------------------------------------------------------------
(* Numbers, sets and sequences.                                            *)

\* A set of numbers has a least element.
LEMMA LeastIsLeast ==
    ASSUME NEW S \in SUBSET Nat, S # {}
    PROVE  Least(S) \in S /\ \A k \in S : Least(S) <= k
<1>1. PICK R : R = OpToRel(<, Nat)
  OBVIOUS
<1>2. PICK x \in S : \A y \in S : ~(<<y, x>> \in R)
  BY <1>1, WFMin, NatLessThanWellFounded
<1>3. \A y \in S : <<y, x>> \in R <=> y < x
  BY <1>1, SMT DEF OpToRel
<1>4. \A y \in S : x <= y
  <2>1. \A y \in S : ~(y < x)
    BY <1>2, <1>3
  <2>2. x \in Nat /\ \A y \in S : y \in Nat
    OBVIOUS
  <2>3. QED
    BY <2>1, <2>2
<1>5. Least(S) = x
  <2>1. \A y \in S : y <= x /\ x <= y => y = x
    OBVIOUS
  <2>2. x \in S /\ (\A y \in S : x <= y)
        /\ \A z \in S : (\A y \in S : z <= y) => z = x
    BY <1>4, <2>1
  <2>3. QED
    BY <2>2, Zenon DEF Least
<1>6. QED
  BY <1>4, <1>5

\* Division by the size of a page.
LEMMA Divides ==
    ASSUME NEW a \in Int, NEW n \in Nat \ {0}
    PROVE  /\ a \div n \in Int /\ a % n \in 0 .. n - 1
           /\ \A k \in Int : k * n \in Int
OBVIOUS

\* What the pages of a slot become.
LEMMA NoPages == IsPages(<<>>) /\ Len(<<>>) = 0
BY DEF IsPages

\* A sequence of pages, by its length; what each page has.
LEMMA PagesFacts ==
    ASSUME NEW q, IsPages(q)
    PROVE  /\ Len(q) \in Nat /\ DOMAIN q = 1 .. Len(q)
           /\ q = <<>> <=> Len(q) = 0
           /\ \A i \in DOMAIN q : /\ q[i].wa0 \in Int /\ q[i].walast \in Int
                                  /\ q[i].touch \in {0, 1}
<1>1. PICK W : q \in Seq([wa0 : Int, walast : Int, touch : {0, 1}, word : W])
  BY DEF IsPages
<1>2. Len(q) \in Nat /\ DOMAIN q = 1 .. Len(q) /\ (q = <<>> <=> Len(q) = 0)
  BY <1>1, LenProperties, EmptySeq
<1>3. \A i \in DOMAIN q : q[i] \in [wa0 : Int, walast : Int, touch : {0, 1}, word : W]
  BY <1>1, <1>2, ElementOfSeq
<1>4. QED
  BY <1>2, <1>3

IsPage(p) == \E a, b \in Int, t \in {0, 1} : \E w :
                p = [wa0 |-> a, walast |-> b, touch |-> t, word |-> w]

\* A page that get_new_page appends is the last.
LEMMA PageAdded ==
    ASSUME NEW q, IsPages(q), NEW p, IsPage(p)
    PROVE  /\ IsPages(Append(q, p)) /\ Len(Append(q, p)) = Len(q) + 1
           /\ Append(q, p)[Len(q) + 1] = p
<1>1. PICK W : q \in Seq([wa0 : Int, walast : Int, touch : {0, 1}, word : W])
  BY DEF IsPages
<1>0. PICK a, b \in Int, t \in {0, 1} : \E w :
         p = [wa0 |-> a, walast |-> b, touch |-> t, word |-> w]
  BY Zenon DEF IsPage
<1> PICK w : p = [wa0 |-> a, walast |-> b, touch |-> t, word |-> w]
  BY <1>0
<1> DEFINE P == [wa0 : Int, walast : Int, touch : {0, 1}, word : W \cup {w}]
<1>2. q \in Seq(P) /\ p \in P
  <2>1. [wa0 : Int, walast : Int, touch : {0, 1}, word : W] \subseteq P
    OBVIOUS
  <2>2. QED
    BY <1>1, <2>1, SeqMonotonic
<1>3. /\ Append(q, p) \in Seq(P) /\ Len(Append(q, p)) = Len(q) + 1
      /\ Append(q, p)[Len(q) + 1] = p
  BY <1>2, AppendProperties
<1>4. QED
  BY <1>3, Zenon DEF IsPages

\* A page that is written on takes the place it had.
LEMMA PageReplaced ==
    ASSUME NEW q, IsPages(q), NEW p, IsPage(p), NEW i \in DOMAIN q,
           NEW r, r = [q EXCEPT ![i] = p]
    PROVE  IsPages(r) /\ Len(r) = Len(q) /\ r[i] = p
<1>1. PICK W : q \in Seq([wa0 : Int, walast : Int, touch : {0, 1}, word : W])
  BY DEF IsPages
<1>0. PICK a, b \in Int, t \in {0, 1} : \E w :
         p = [wa0 |-> a, walast |-> b, touch |-> t, word |-> w]
  BY Zenon DEF IsPage
<1> PICK w : p = [wa0 |-> a, walast |-> b, touch |-> t, word |-> w]
  BY <1>0
<1> DEFINE P == [wa0 : Int, walast : Int, touch : {0, 1}, word : W \cup {w}]
<1>2. q \in Seq(P) /\ p \in P
  <2>1. [wa0 : Int, walast : Int, touch : {0, 1}, word : W] \subseteq P
    OBVIOUS
  <2>2. QED
    BY <1>1, <2>1, SeqMonotonic
<1>3. i \in 1 .. Len(q)
  BY PagesFacts
<1>4. /\ [q EXCEPT ![i] = p] \in Seq(P) /\ Len([q EXCEPT ![i] = p]) = Len(q)
      /\ [q EXCEPT ![i] = p][i] = p
  BY <1>2, <1>3, ExceptSeq
<1>5. QED
  BY <1>4, Zenon DEF IsPages

\* A page that is scrapped leaves one less.
LEMMA PageRemoved ==
    ASSUME NEW q, IsPages(q), NEW i \in DOMAIN q
    PROVE  IsPages(RemoveAt(q, i)) /\ Len(RemoveAt(q, i)) = Len(q) - 1
<1>1. PICK W : q \in Seq([wa0 : Int, walast : Int, touch : {0, 1}, word : W])
  BY DEF IsPages
<1> DEFINE P == [wa0 : Int, walast : Int, touch : {0, 1}, word : W]
<1>2. /\ Len(q) \in Nat /\ i \in 1 .. Len(q)
      /\ \A k \in 1 .. Len(q) : q[k] \in P
  BY <1>1, LenProperties, ElementOfSeq
<1>3. SubSeq(q, 1, i - 1) \in Seq(P) /\ Len(SubSeq(q, 1, i - 1)) = i - 1
  <2>1. \A k \in 1 .. i - 1 : q[k] \in P
    BY <1>2
  <2>2. QED
    BY <1>2, <2>1, SubSeqProperties
<1>4. SubSeq(q, i + 1, Len(q)) \in Seq(P) /\ Len(SubSeq(q, i + 1, Len(q))) = Len(q) - i
  <2>1. \A k \in i + 1 .. Len(q) : q[k] \in P
    BY <1>2
  <2>2. QED
    BY <1>2, <2>1, SubSeqProperties
<1>5. RemoveAt(q, i) \in Seq(P) /\ Len(RemoveAt(q, i)) = Len(q) - 1
  <2>1. PICK s, t : s = SubSeq(q, 1, i - 1) /\ t = SubSeq(q, i + 1, Len(q))
    OBVIOUS
  <2>2. s \in Seq(P) /\ t \in Seq(P) /\ Len(s) + Len(t) = Len(q) - 1
    <3>1. s \in Seq(P) /\ Len(s) = i - 1
      BY <1>3, <2>1, Zenon
    <3>2. t \in Seq(P) /\ Len(t) = Len(q) - i
      BY <1>4, <2>1, Zenon
    <3>3. Len(q) \in Nat /\ i \in Nat
      BY <1>2
    <3>4. QED
      BY <3>1, <3>2, <3>3
  <2>3. RemoveAt(q, i) = s \o t
    BY <2>1 DEF RemoveAt
  <2>4. QED
    BY <2>2, <2>3, ConcatProperties
<1>6. QED
  BY <1>5, Zenon DEF IsPages

\* The words of a file are as many as a function on 1 .. n says.
LEMMA WordsFacts ==
    /\ \A q : IsWords(q) => Len(q) \in Nat
    /\ \A n \in Nat : \A q : DOMAIN q = 1 .. n /\ q = [i \in 1 .. n |-> q[i]] =>
                            IsWords(q) /\ Len(q) = n
<1>1. ASSUME NEW q, IsWords(q) PROVE Len(q) \in Nat
  <2>1. PICK W : q \in Seq(W)
    BY <1>1 DEF IsWords
  <2>2. QED
    BY <2>1, LenProperties
<1>2. ASSUME NEW n \in Nat, NEW q, DOMAIN q = 1 .. n, q = [i \in 1 .. n |-> q[i]]
      PROVE  IsWords(q) /\ Len(q) = n
  <2>1. q \in Seq({q[i] : i \in 1 .. n})
    <3>1. q \in [1 .. n -> {q[i] : i \in 1 .. n}]
      BY <1>2
    <3>2. QED
      BY <1>2, <3>1, SeqDef
  <2>2. Len(q) = n
    BY <1>2, <2>1, LenProperties
  <2>3. QED
    BY <2>1, <2>2, Zenon DEF IsWords
<1>3. QED
  BY <1>1, <1>2

-----------------------------------------------------------------------------
(* Slots, descriptors, and the pages in core.                              *)

\* A unit finds one of its slots.
LEMMA SlotFound ==
    ASSUME NEW u \in Units, SlotsOf(u) # {}
    PROVE  SlotOf(u) \in SlotsOf(u) /\ SlotOf(u) \in Slots
<1>1. SlotsOf(u) \in SUBSET Slots /\ Slots \in SUBSET Nat
  BY WaAssumption DEF SlotsOf, Slots
<1>2. QED
  BY <1>1, LeastIsLeast DEF SlotOf

\* There is one more descriptor than there are units.
LEMMA DescriptorLeft ==
    ASSUME WaTypes, Connected
    PROVE  \E d \in Fds : descriptor[d] = NoName
<1>1. SUFFICES ASSUME \A d \in Fds : descriptor[d] # NoName PROVE FALSE
  OBVIOUS
<1> DEFINE n == Cardinality(Units)
           by == [d \in Fds |-> CHOOSE u \in Units : IsOpened(u) /\ fgfdt[u].fd = d]
<1>2. \A d \in Fds : by[d] \in Units /\ fgfdt[by[d]].fd = d
  BY <1>1, Zenon DEF Connected
<1>3. IsFiniteSet(Units) /\ n \in Nat
  BY WaAssumption, FS_CardinalityType
<1>4. IsFiniteSet(Fds) /\ Cardinality(Fds) = n + 1
  <2>1. 3 \in Int /\ 3 + n \in Int /\ ~(3 > 3 + n) /\ 3 + n - 3 + 1 = n + 1
    BY <1>3
  <2>2. \A a, b \in Int : /\ IsFiniteSet(a .. b)
                          /\ a <= b => Cardinality(a .. b) = b - a + 1
    BY FS_Interval
  <2>3. IsFiniteSet(3 .. 3 + n) /\ Cardinality(3 .. 3 + n) = (3 + n) - 3 + 1
    BY <1>3, <2>1, <2>2
  <2>4. QED
    BY <1>3, <2>3 DEF Fds
<1>5. by \in [Fds -> Units]
  BY <1>2
<1>6. PICK d, e \in Fds : d # e /\ by[d] = by[e]
  <2> HIDE DEF by
  <2>1. Cardinality(Units) < Cardinality(Fds)
    BY <1>3, <1>4
  <2>2. QED
    BY <1>3, <1>4, <1>5, <2>1, FS_PigeonHole
<1>7. QED
  <2> HIDE DEF by
  <2> QED
    BY <1>2, <1>6

\* The pages in core are the pages of the slots.
LEMMA InCore ==
    /\ \A x \in PagesInCore : \E s \in Slots : x \in {s} \X DOMAIN wafile[s].page
    /\ \A s \in Slots : {s} \X DOMAIN wafile[s].page \subseteq PagesInCore
BY DEF PagesInCore

\* They are finitely many.
LEMMA CoreFinite ==
    ASSUME WaTypes, Cached
    PROVE  IsFiniteSet(PagesInCore) /\ Cardinality(PagesInCore) \in Nat
<1>1. \A s \in Slots : DOMAIN wafile[s].page \subseteq 1 .. cfg_nb
  <2> TAKE s \in Slots
  <2>1. DOMAIN wafile[s].page = 1 .. Len(wafile[s].page) /\ Len(wafile[s].page) \in Nat
    BY PagesFacts DEF WaTypes
  <2>2. Len(wafile[s].page) <= cfg_nb
    BY DEF Cached, BuffersConserved
  <2>3. QED
    BY <2>1, <2>2 DEF WaTypes
<1>2. PagesInCore \in SUBSET (Slots \X (1 .. cfg_nb))
  BY <1>1, InCore
<1>3. IsFiniteSet(Slots) /\ IsFiniteSet(1 .. cfg_nb)
  BY FS_Interval, WaAssumption DEF Slots, WaTypes
<1>4. IsFiniteSet(Slots \X (1 .. cfg_nb))
  BY <1>3, FS_Product
<1>5. QED
  BY <1>2, <1>4, FS_Subset, FS_CardinalityType

\* When the pages of one slot change, so does their number.
LEMMA CoreChanged ==
    ASSUME NEW s \in Slots, NEW m \in Nat, NEW n \in Nat, IsFiniteSet(PagesInCore),
           \A t \in Slots \ {s} : wafile'[t].page = wafile[t].page,
           DOMAIN wafile[s].page = 1 .. m, DOMAIN wafile'[s].page = 1 .. n
    PROVE  Cardinality(PagesInCore') = Cardinality(PagesInCore) - m + n
<1> DEFINE R == UNION {{t} \X DOMAIN wafile[t].page : t \in Slots \ {s}}
<1>1. PagesInCore = R \cup ({s} \X (1 .. m)) /\ PagesInCore' = R \cup ({s} \X (1 .. n))
  BY DEF PagesInCore
<1>2. R \cap ({s} \X (1 .. m)) = {} /\ R \cap ({s} \X (1 .. n)) = {}
  OBVIOUS
<1>3. R \in SUBSET PagesInCore
  BY <1>1
<1> HIDE DEF R
<1>4. IsFiniteSet(R) /\ Cardinality(R) \in Nat
  BY <1>3, FS_Subset, FS_CardinalityType
<1>5. \A k \in Nat : IsFiniteSet({s} \X (1 .. k)) /\ Cardinality({s} \X (1 .. k)) = k
  <2> TAKE k \in Nat
  <2>1. IsFiniteSet({s}) /\ Cardinality({s}) = 1
    BY FS_Singleton
  <2>2. IsFiniteSet(1 .. k) /\ Cardinality(1 .. k) = k
    BY FS_Interval
  <2>3. /\ IsFiniteSet({s} \X (1 .. k))
        /\ Cardinality({s} \X (1 .. k)) = Cardinality({s}) * Cardinality(1 .. k)
    BY <2>1, <2>2, FS_Product, Zenon
  <2>4. 1 * k = k
    OBVIOUS
  <2>5. QED
    BY <2>1, <2>2, <2>3, <2>4
<1>6. Cardinality({}) = 0
  BY FS_EmptySet
<1>7. \A k \in Nat : R \cap ({s} \X (1 .. k)) = {} =>
         Cardinality(R \cup ({s} \X (1 .. k))) = Cardinality(R) + k
  <2> TAKE k \in Nat
  <2> HAVE R \cap ({s} \X (1 .. k)) = {}
  <2>1. Cardinality(R \cup ({s} \X (1 .. k)))
          = Cardinality(R) + Cardinality({s} \X (1 .. k)) - Cardinality(R \cap ({s} \X (1 .. k)))
    BY <1>4, <1>5, FS_Union, Zenon
  <2>2. Cardinality(R \cap ({s} \X (1 .. k))) = 0
    BY <1>6, Zenon
  <2>3. Cardinality({s} \X (1 .. k)) = k
    BY <1>5, Zenon
  <2>4. QED
    BY <1>4, <2>1, <2>2, <2>3
<1>8. Cardinality(PagesInCore) = Cardinality(R) + m /\ Cardinality(PagesInCore') = Cardinality(R) + n
  BY <1>1, <1>2, <1>7
<1>9. QED
  BY <1>4, <1>8

\* What a slot holds.
LEMMA SlotFacts ==
    ASSUME WaTypes, NEW s \in Slots
    PROVE  /\ wafile[s].file_desc \in Int /\ IsPages(wafile[s].page)
           /\ wafile[s] = [file_desc |-> wafile[s].file_desc, page |-> wafile[s].page]
           /\ Len(wafile[s].page) \in Nat
           /\ DOMAIN wafile[s].page = 1 .. Len(wafile[s].page)
           /\ wafile[s].page = <<>> <=> Len(wafile[s].page) = 0
<1>0. PICK d \in Int : \E q : IsPages(q) /\ wafile[s] = [file_desc |-> d, page |-> q]
  BY DEF WaTypes
<1>1. PICK q : IsPages(q) /\ wafile[s] = [file_desc |-> d, page |-> q]
  BY <1>0
<1>2. wafile[s].file_desc = d /\ wafile[s].page = q
  BY <1>1
<1>3. QED
  BY <1>1, <1>2, PagesFacts

\* One slot changes.
SlotBecomes(s, d, q) ==
    \/ wafile' = [wafile EXCEPT ![s].file_desc = d, ![s].page = q]
    \/ wafile' = [wafile EXCEPT ![s] = [file_desc |-> d, page |-> q]]
    \/ wafile' = [wafile EXCEPT ![s].page = q] /\ d = wafile[s].file_desc

\* The other slots stay as they are.
LEMMA SlotChanged ==
    ASSUME WaTypes, NEW s \in Slots, NEW d \in Int, NEW q, IsPages(q),
           SlotBecomes(s, d, q)
    PROVE  /\ DOMAIN wafile' = Slots
           /\ \A t \in Slots : \E e \in Int : \E r :
                 IsPages(r) /\ wafile'[t] = [file_desc |-> e, page |-> r]
           /\ wafile'[s].file_desc = d /\ wafile'[s].page = q
           /\ \A t \in Slots \ {s} : wafile'[t] = wafile[t]
<1>1. /\ wafile[s] = [file_desc |-> wafile[s].file_desc, page |-> wafile[s].page]
      /\ DOMAIN wafile = Slots
  BY SlotFacts DEF WaTypes
<1>2. wafile'[s] = [file_desc |-> d, page |-> q] /\ DOMAIN wafile' = Slots
  BY <1>1 DEF SlotBecomes
<1>3. \A t \in Slots \ {s} : wafile'[t] = wafile[t]
  BY <1>1 DEF SlotBecomes
<1>4. \A t \in Slots : \E e \in Int : \E r :
                 IsPages(r) /\ wafile'[t] = [file_desc |-> e, page |-> r]
  <2> TAKE t \in Slots
  <2>1. CASE t = s
    BY <1>2, <2>1
  <2>2. CASE t # s
    BY <1>3, <2>2 DEF WaTypes
  <2>3. QED
    BY <2>1, <2>2
<1>5. QED
  BY <1>2, <1>3, <1>4

\* The part of a request that is worked on next.
LEMMA PieceFacts ==
    ASSUME WaTypes, todo # NoTodo
    PROVE  /\ Piece.adr \in Int /\ Piece.n \in Int
           /\ todo.hole > 0 => Piece.adr = todo.adr - todo.hole + 1 /\ Piece.n <= todo.hole
           /\ ~(todo.hole > 0) => Piece.adr = todo.adr
<1> DEFINE adr == IF todo.hole > 0 THEN todo.adr - todo.hole + 1 ELSE todo.adr
           n   == IF todo.hole > 0 THEN todo.hole ELSE todo.n
           lastadr == ((adr + cfg_size - 1) \div cfg_size) * cfg_size
<1>1. adr \in Int /\ n \in Int /\ cfg_size \in Nat
  BY DEF WaTypes
<1>2. cfg_size # 0 => lastadr \in Int
  <2> HIDE DEF adr
  <2> SUFFICES ASSUME cfg_size # 0 PROVE lastadr \in Int
    OBVIOUS
  <2>1. adr + cfg_size - 1 \in Int /\ cfg_size \in Nat \ {0} /\ cfg_size \in Int
    BY <1>1
  <2>2. (adr + cfg_size - 1) \div cfg_size \in Int
    BY <2>1, Divides
  <2>3. QED
    BY <2>1, <2>2
<1>3. /\ Piece.adr = adr
      /\ Piece.n = IF cfg_size = 0 THEN n ELSE AtMost(n, lastadr - adr + 1)
  BY DEF Piece
<1>4. Piece.n \in Int /\ Piece.n <= n
  <2> HIDE DEF adr, n, lastadr
  <2> QED
    BY <1>1, <1>2, <1>3 DEF AtMost
<1>5. QED
  <2> HIDE DEF lastadr
  <2> QED
    BY <1>1, <1>3, <1>4

\* What is left of it afterwards.
LEMMA DoneFacts ==
    ASSUME WaTypes, todo # NoTodo, Done(Piece.n)
    PROVE  /\ todo' = NoTodo \/ todo' \in [kind : {"read", "write"}, unit : Units, adr : Int,
                                          n : Int, word : Words \cup {Junk}, hole : Int]
           /\ todo' # NoTodo => todo'.unit = todo.unit /\ todo'.kind = todo.kind
           /\ todo' # NoTodo =>
                 LET next == IF todo'.hole > 0 THEN todo'.adr - todo'.hole + 1 ELSE todo'.adr
                 IN next <= Piece.adr + Piece.n
<1>1. todo \in [kind : {"read", "write"}, unit : Units, adr : Int, n : Int,
                word : Words \cup {Junk}, hole : Int]
  BY DEF WaTypes
<1>2. PICK k \in Int : k = Piece.n
  BY PieceFacts
<1>3. CASE todo.hole > 0
  <2>1. todo' = [todo EXCEPT !.hole = @ - k]
    BY <1>2, <1>3 DEF Done
  <2>2. todo'.hole = todo.hole - k /\ todo'.adr = todo.adr /\ k <= todo.hole
    BY <1>1, <1>2, <1>3, <2>1, PieceFacts
  <2>3. QED
    BY <1>1, <1>2, <1>3, <2>1, <2>2, PieceFacts
<1>4. CASE ~(todo.hole > 0) /\ k = todo.n
  BY <1>2, <1>4 DEF Done
<1>5. CASE ~(todo.hole > 0) /\ k # todo.n
  <2>1. todo' = [todo EXCEPT !.adr = @ + k, !.n = @ - k]
    BY <1>2, <1>5 DEF Done
  <2>2. todo'.hole = todo.hole /\ todo'.adr = todo.adr + k
    BY <1>1, <2>1
  <2>3. Piece.adr = todo.adr
    BY <1>5, PieceFacts, Zenon
  <2>4. /\ todo' \in [kind : {"read", "write"}, unit : Units, adr : Int, n : Int,
                      word : Words \cup {Junk}, hole : Int]
        /\ todo'.unit = todo.unit /\ todo'.kind = todo.kind
    <3>1. PICK a \in Int, b \in Int : a = todo.adr + k /\ b = todo.n - k
      BY <1>1
    <3>2. todo' = [todo EXCEPT !.adr = a, !.n = b]
      BY <2>1, <3>1, Zenon
    <3>3. QED
      BY <1>1, <3>2
  <2>5. todo'.adr = Piece.adr + Piece.n /\ ~(todo'.hole > 0)
    BY <1>2, <1>5, <2>2, <2>3
  <2>6. todo'.adr <= Piece.adr + Piece.n
    BY <1>1, <1>2, <2>3, <2>5
  <2>7. QED
    BY <2>4, <2>5, <2>6, Zenon
<1>6. QED
  BY <1>3, <1>4, <1>5

-----------------------------------------------------------------------------
(* The invariant of the page buffers.                                      *)

\* At first no unit is open, no slot in use and no page in core.
LEMMA InitWaInv == WaInit => WaInv
<1> SUFFICES ASSUME WaInit PROVE WaInv
  OBVIOUS
<1>1. wafile = [s \in Slots |-> [file_desc |-> -1, page |-> <<>>]] /\ todo = NoTodo
  BY DEF WaInit, NoSlotUsed
<1>2. IsPages(<<>>) /\ Len(<<>>) = 0 /\ IsWords(<<>>)
  BY NoPages DEF IsWords
<1>3. WaTypes
  <2>1. \A s \in Slots : \E d \in Int : \E q :
            IsPages(q) /\ wafile[s] = [file_desc |-> d, page |-> q]
    BY <1>1, <1>2
  <2>2. cfg_size \in Nat /\ cfg_nb \in Nat \ {0}
    BY WaAssumption DEF WaInit
  <2>3. fgfdt \in [Units -> [name : Names \cup {NoName}, fd : Int, open_flag : {0, 1},
                             file_size : Int]]
    BY DEF WaInit, NoUnit
  <2>4. QED
    BY <1>1, <1>2, <2>1, <2>2, <2>3 DEF WaInit, WaTypes
<1>4. Connected
  BY DEF WaInit, NoUnit, IsOpened, Connected
<1>5. Cached
  <2>1. PagesInCore = {}
    BY <1>1 DEF PagesInCore
  <2>2. Cardinality(PagesInCore) = 0
    BY <2>1, FS_EmptySet
  <2>3. BuffersConserved
    BY <1>1, <1>2, <1>3, <2>2, WaAssumption DEF WaInit, BuffersConserved, WaTypes
  <2>4. QED
    BY <1>1, <2>3 DEF Cached
<1>6. QED
  BY <1>3, <1>4, <1>5 DEF WaInv

\* What qqcopen does: it says that there is no slot, or takes one, which has no page.
NoSlot == /\ says' = "too_many_open_files"
          /\ UNCHANGED <<descriptor, fgfdt, wafile>>
          /\ \A s \in Slots : wafile[s].file_desc # -1
Takes(u, f, d, s) ==
    /\ descriptor[d] = NoName /\ wafile[s].file_desc = -1
    /\ descriptor' = [descriptor EXCEPT ![d] = f]
    /\ wafile' = [wafile EXCEPT ![s].file_desc = d, ![s].page = <<>>]
    /\ fgfdt' = [fgfdt EXCEPT ![u] = [name |-> f, fd |-> d, open_flag |-> 1,
                                      file_size |-> Len(wadisk[f])]]
    /\ says' = says

\* qqcopen finds no slot, or takes a free one and a free descriptor.
LEMMA ConnectFacts ==
    ASSUME WaInv, NEW u \in Units, NEW f \in Names, Connect(u, f)
    PROVE  NoSlot \/ \E d \in Fds, s \in Slots : Takes(u, f, d, s)
<1> DEFINE free == {s \in Slots : wafile[s].file_desc = -1}
           fds  == {d \in Fds : descriptor[d] = NoName}
           d    == Least(fds)
           s    == Least(free)
<1>1. CASE free = {}
  BY <1>1 DEF Connect, NoSlot
<1>2. CASE free # {}
  <2>1. s \in free
    <3>1. free \in SUBSET Nat
      BY DEF Slots
    <3>2. QED
      BY <1>2, <3>1, LeastIsLeast
  <2>2. d \in fds
    <3>1. fds \in SUBSET Nat /\ fds # {}
      <4>1. Cardinality(Units) \in Nat
        BY WaAssumption, FS_CardinalityType
      <4>2. QED
        BY <4>1, DescriptorLeft DEF Fds, WaInv
    <3>2. QED
      BY <3>1, LeastIsLeast
  <2>3. /\ descriptor' = [descriptor EXCEPT ![d] = f]
        /\ wafile' = [wafile EXCEPT ![s].file_desc = d,
                                    ![s].page = IF cfg_size = 0 THEN @ ELSE <<>>]
        /\ fgfdt' = [fgfdt EXCEPT ![u] = [name |-> f, fd |-> d, open_flag |-> 1,
                                          file_size |-> Len(wadisk[f])]]
        /\ says' = says
    BY <1>2 DEF Connect
  <2> HIDE DEF d, s, free, fds
  <2>4. wafile[s].page = <<>> /\ wafile[s].file_desc = -1 /\ s \in Slots
    BY <2>1 DEF WaInv, Cached, free
  <2>5. wafile' = [wafile EXCEPT ![s].file_desc = d, ![s].page = <<>>]
    <3>1. /\ wafile[s] = [file_desc |-> wafile[s].file_desc, page |-> wafile[s].page]
          /\ DOMAIN wafile = Slots
      BY <2>4, SlotFacts DEF WaTypes, WaInv
    <3>2. QED
      BY <2>3, <2>4, <3>1
  <2>6. d \in Fds /\ descriptor[d] = NoName
    BY <2>2 DEF fds
  <2>7. Takes(u, f, d, s)
    BY <2>3, <2>4, <2>5, <2>6 DEF Takes
  <2>8. QED
    BY <2>4, <2>6, <2>7
<1>3. QED
  BY <1>1, <1>2

\* The buffers stay where they are.
LEMMA ConnectStep ==
    ASSUME WaInv, NEW u \in Units, NEW f \in Names, todo = NoTodo, ~IsOpened(u),
           \A v \in Units : v # u => fgfdt[v].name # f,
           Connect(u, f), UNCHANGED <<wadisk, config, cache, todo>>
    PROVE  WaInv'
<1> USE DEF WaInv
<1>1. CASE UNCHANGED <<descriptor, fgfdt, wafile>>
  <2>1. WaTypes'
    BY <1>1 DEF WaTypes, config, cache
  <2>2. Connected'
    BY <1>1 DEF Connected, IsOpened
  <2>3. Cached'
    BY <1>1 DEF Cached, config, cache, BuffersConserved, PagesInCore
  <2>4. QED
    BY <2>1, <2>2, <2>3
<1>2. ASSUME NEW d \in Fds, NEW s \in Slots,
             descriptor[d] = NoName, wafile[s].file_desc = -1,
             descriptor' = [descriptor EXCEPT ![d] = f],
             wafile' = [wafile EXCEPT ![s].file_desc = d, ![s].page = <<>>],
             fgfdt' = [fgfdt EXCEPT ![u] = [name |-> f, fd |-> d, open_flag |-> 1,
                                            file_size |-> Len(wadisk[f])]]
      PROVE  WaInv'
  <2>1. d \in Int /\ d # -1 /\ Len(wadisk[f]) \in Int
    <3>1. Cardinality(Units) \in Nat
      BY WaAssumption, FS_CardinalityType
    <3>2. Len(wadisk[f]) \in Nat
      BY WordsFacts DEF WaTypes
    <3>3. QED
      BY <3>1, <3>2 DEF Fds
  <2>2. /\ DOMAIN wafile' = Slots
        /\ \A t \in Slots : \E e \in Int : \E r :
              IsPages(r) /\ wafile'[t] = [file_desc |-> e, page |-> r]
        /\ wafile'[s].file_desc = d /\ wafile'[s].page = <<>>
        /\ \A t \in Slots \ {s} : wafile'[t] = wafile[t]
    <3>1. PICK q : q = <<>>
      OBVIOUS
    <3>2. IsPages(q) /\ SlotBecomes(s, d, q)
      BY <1>2, <3>1, NoPages DEF SlotBecomes
    <3>3. QED
      BY <2>1, <3>1, <3>2, SlotChanged
  <2>3. WaTypes'
    <3>1. fgfdt' \in [Units -> [name : Names \cup {NoName}, fd : Int, open_flag : {0, 1},
                                file_size : Int]]
      BY <1>2, <2>1 DEF WaTypes
    <3>2. descriptor' \in [Fds -> Names \cup {NoName}]
      BY <1>2 DEF WaTypes
    <3>3. QED
      BY <2>2, <3>1, <3>2 DEF WaTypes, config, cache, NoTodo
  <2>4. Connected'
    <3>1. /\ fgfdt'[u] = [name |-> f, fd |-> d, open_flag |-> 1, file_size |-> Len(wadisk[f])]
          /\ \A v \in Units \ {u} : fgfdt'[v] = fgfdt[v]
          /\ \A e \in Fds : descriptor'[e] = IF e = d THEN f ELSE descriptor[e]
      BY <1>2 DEF WaTypes
    <3>2. f # NoName
      BY WaAssumption
    <3>3. \A v \in Units : IsOpened(v)' =>
             /\ fgfdt'[v].fd \in Fds /\ fgfdt'[v].name \in Names
             /\ descriptor'[fgfdt'[v].fd] = fgfdt'[v].name
      <4> TAKE v \in Units
      <4>1. CASE v = u
        BY <1>2, <3>1, <4>1
      <4>2. CASE v # u
        <5>1. IsOpened(v)' => IsOpened(v) /\ fgfdt'[v] = fgfdt[v]
          BY <3>1, <4>2 DEF IsOpened
        <5>2. IsOpened(v) => fgfdt[v].fd # d
          BY <1>2, WaAssumption DEF Connected
        <5>3. QED
          BY <3>1, <5>1, <5>2 DEF Connected
      <4>3. QED
        BY <4>1, <4>2
    <3>4. \A v, w \in Units : fgfdt'[v].name = fgfdt'[w].name /\ fgfdt'[v].name # NoName => v = w
      BY <3>1 DEF Connected
    <3>5. \A e \in Fds : descriptor'[e] # NoName =>
             \E v \in Units : IsOpened(v)' /\ fgfdt'[v].fd = e
      <4> TAKE e \in Fds
      <4>1. CASE e = d
        BY <3>1, <4>1 DEF IsOpened
      <4>2. CASE e # d
        <5> SUFFICES ASSUME descriptor'[e] # NoName
                     PROVE  \E v \in Units : IsOpened(v)' /\ fgfdt'[v].fd = e
          OBVIOUS
        <5>1. PICK v \in Units : IsOpened(v) /\ fgfdt[v].fd = e
          BY <3>1, <4>2 DEF Connected
        <5>2. v # u
          BY <5>1
        <5>3. QED
          BY <3>1, <5>1, <5>2 DEF IsOpened
      <4>3. QED
        BY <4>1, <4>2
    <3>6. QED
      BY <3>3, <3>4, <3>5 DEF Connected
  <2>5. Cached'
    <3>1. wafile[s].page = <<>>
      BY <1>2 DEF Cached
    <3>2. \A t \in Slots : wafile'[t].page = wafile[t].page
      BY <2>2, <3>1
    <3>3. PagesInCore' = PagesInCore
      BY <3>2 DEF PagesInCore
    <3>4. BuffersConserved'
      BY <3>2, <3>3 DEF Cached, BuffersConserved, config, cache
    <3>5. \A t \in Slots : wafile'[t].file_desc = -1 \/ cfg_size' = 0 => wafile'[t].page = <<>>
      BY <2>1, <2>2, <3>2 DEF Cached, config
    <3>6. QED
      BY <3>4, <3>5 DEF Cached, NoTodo
  <2>6. QED
    BY <2>3, <2>4, <2>5
<1>3. ASSUME NEW d \in Fds, NEW s \in Slots, Takes(u, f, d, s) PROVE WaInv'
  BY <1>2, <1>3 DEF Takes
<1>4. CASE NoSlot
  BY <1>1, <1>4 DEF NoSlot
<1>5. QED
  BY <1>3, <1>4, ConnectFacts, Zenon

-----------------------------------------------------------------------------
(* Closing: the pages of the slot go to the disk.                          *)

\* Writing a page leaves words, up to its last one if that is behind them.
LEMMA WordsAfterFacts ==
    ASSUME NEW w, IsWords(w), NEW p, p.walast \in Int
    PROVE  /\ IsWords(WordsAfter(w, p))
           /\ Len(WordsAfter(w, p)) = IF p.touch = 0 THEN Len(w) ELSE AtLeast(Len(w), p.walast)
<1>1. CASE p.touch = 0
  BY <1>1 DEF WordsAfter
<1>2. CASE p.touch # 0
  <2> DEFINE n == AtLeast(Len(w), p.walast)
  <2>1. n \in Nat
    BY WordsFacts DEF AtLeast
  <2>2. /\ DOMAIN WordsAfter(w, p) = 1 .. n
        /\ WordsAfter(w, p) = [i \in 1 .. n |-> WordsAfter(w, p)[i]]
    <3> HIDE DEF n
    <3> DEFINE F(i) == IF i \in p.wa0 .. p.walast THEN p.word[i - p.wa0]
                       ELSE IF i <= Len(w) THEN w[i] ELSE Junk
    <3>1. WordsAfter(w, p) = [i \in 1 .. n |-> F(i)]
      BY <1>2, Zenon DEF WordsAfter, n
    <3> HIDE DEF F
    <3>2. QED
      BY <3>1
  <2>3. IsWords(WordsAfter(w, p)) /\ Len(WordsAfter(w, p)) = n
    <3> HIDE DEF n
    <3> QED
      BY <2>1, <2>2, WordsFacts
  <2>4. QED
    BY <1>2, <2>3
<1>3. QED
  BY <1>1, <1>2

\* The words after the first k pages, for each k up to n.
Writes(f, q, g, n) ==
    g = [k \in 0 .. n |-> IF k = 0 THEN wadisk[f] ELSE WordsAfter(g[k - 1], q[k])]

\* There are such words.
LEMMA WritesExist ==
    ASSUME NEW f, NEW q, IsPages(q)
    PROVE  \E g : Writes(f, q, g, Len(q))
<1> DEFINE S == {n \in Nat : n <= Len(q) /\ ~ \E g : Writes(f, q, g, n)}
<1>1. Len(q) \in Nat
  BY PagesFacts
<1>2. SUFFICES ASSUME S # {} PROVE FALSE
  BY <1>1
<1>3. PICK n \in S : \A k \in S : n <= k
  <2>1. S \in SUBSET Nat
    OBVIOUS
  <2> HIDE DEF S
  <2>2. QED
    BY <1>2, <2>1, LeastIsLeast
<1>4. n # 0
  <2> DEFINE g == [k \in 0 .. 0 |-> wadisk[f]]
  <2>1. g = [k \in 0 .. 0 |-> IF k = 0 THEN wadisk[f] ELSE WordsAfter(g[k - 1], q[k])]
    <3>1. \A k \in 0 .. 0 : k = 0
      OBVIOUS
    <3>2. QED
      BY <3>1, Zenon
  <2>2. Writes(f, q, g, 0)
    BY <2>1, Zenon DEF Writes
  <2> HIDE DEF g
  <2>3. QED
    BY <2>2
<1>5. PICK m \in Nat : n = m + 1 /\ m <= Len(q)
  <2>1. n - 1 \in Nat /\ n = (n - 1) + 1 /\ n - 1 <= Len(q)
    BY <1>1, <1>4
  <2>2. QED
    BY <2>1
<1>6. PICK g : Writes(f, q, g, m)
  <2>1. m \notin S
    BY <1>3, <1>5
  <2>2. QED
    BY <1>5, <2>1
<1> DEFINE h == [k \in 0 .. n |-> IF k = n THEN WordsAfter(g[m], q[n]) ELSE g[k]]
<1>7. h = [k \in 0 .. n |-> IF k = 0 THEN wadisk[f] ELSE WordsAfter(h[k - 1], q[k])]
  <2>1. \A k \in 0 .. n : h[k] = IF k = n THEN WordsAfter(g[m], q[n]) ELSE g[k]
    OBVIOUS
  <2>2. /\ g[0] = wadisk[f]
        /\ \A k \in 0 .. m : k # 0 => g[k] = WordsAfter(g[k - 1], q[k])
    <3>1. g = [k \in 0 .. m |-> IF k = 0 THEN wadisk[f] ELSE WordsAfter(g[k - 1], q[k])]
      BY <1>6, Zenon DEF Writes
    <3> DEFINE F(k) == WordsAfter(g[k - 1], q[k])
    <3>2. \A k \in 0 .. m : g[k] = IF k = 0 THEN wadisk[f] ELSE F(k)
      BY <3>1, Zenon
    <3>3. 0 \in 0 .. m
      BY <1>5
    <3>4. QED
      BY <3>2, <3>3
  <2> HIDE DEF h
  <2>3. \A k \in 0 .. n : h[k] = IF k = 0 THEN wadisk[f] ELSE WordsAfter(h[k - 1], q[k])
    <3> TAKE k \in 0 .. n
    <3>1. CASE k = 0
      BY <1>4, <2>1, <2>2, <3>1
    <3>2. CASE k = n
      <4>1. k - 1 = m /\ h[m] = g[m] /\ k # 0
        BY <1>5, <2>1, <3>2
      <4>2. QED
        BY <2>1, <3>2, <4>1
    <3>3. CASE k # 0 /\ k # n
      <4>1. k \in 0 .. m /\ k - 1 \in 0 .. n /\ k - 1 # n
        BY <1>5, <3>3
      <4>2. h[k] = g[k] /\ h[k - 1] = g[k - 1]
        BY <2>1, <3>3, <4>1
      <4>3. QED
        BY <2>2, <3>3, <4>1, <4>2
    <3>4. QED
      BY <3>1, <3>2, <3>3
  <2>4. h = [k \in 0 .. n |-> h[k]]
    BY DEF h
  <2>5. QED
    BY <2>3, <2>4, Zenon
<1>8. Writes(f, q, h, n)
  BY <1>7, Zenon DEF Writes
<1>9. QED
  <2> HIDE DEF h
  <2> QED
    BY <1>3, <1>8

\* What waclos leaves on the disk are words, those that were there but for the pages.
LEMMA FlushedFacts ==
    ASSUME NEW f, IsWords(wadisk[f]), NEW q, IsPages(q)
    PROVE  /\ IsWords(Flushed(f, q))
           /\ Len(q) = 0 => Flushed(f, q) = wadisk[f]
           /\ Len(q) = 1 => Flushed(f, q) = WordsAfter(wadisk[f], q[1])
<1>1. PICK g : g = [k \in 0 .. Len(q) |-> IF k = 0 THEN wadisk[f] ELSE WordsAfter(g[k - 1], q[k])]
               /\ Flushed(f, q) = g[Len(q)]
  <2> DEFINE g == CHOOSE h : Writes(f, q, h, Len(q))
  <2>1. Writes(f, q, g, Len(q))
    BY WritesExist, Zenon
  <2>2. Flushed(f, q) = g[Len(q)]
    BY Zenon DEF Flushed, Writes
  <2>3. QED
    BY <2>1, <2>2, Zenon DEF Writes
<1>2. /\ Len(q) \in Nat
      /\ g[0] = wadisk[f]
      /\ \A k \in 1 .. Len(q) : g[k] = WordsAfter(g[k - 1], q[k])
  <2>1. Len(q) \in Nat
    BY PagesFacts
  <2> DEFINE F(k) == WordsAfter(g[k - 1], q[k])
  <2>2. \A k \in 0 .. Len(q) : g[k] = IF k = 0 THEN wadisk[f] ELSE F(k)
    BY <1>1, Zenon
  <2>3. QED
    BY <2>1, <2>2
<1> DEFINE S == {k \in Nat : k <= Len(q) /\ ~IsWords(g[k])}
<1>3. S = {}
  <2> SUFFICES ASSUME S # {} PROVE FALSE
    OBVIOUS
  <2>1. PICK n \in S : \A k \in S : n <= k
    <3>1. S \in SUBSET Nat
      OBVIOUS
    <3> HIDE DEF S
    <3>2. QED
      BY <3>1, LeastIsLeast
  <2>2. n # 0
    BY <1>2
  <2>3. n \in 1 .. Len(q) /\ n - 1 \in Nat /\ n - 1 \notin S
    BY <1>2, <2>1, <2>2
  <2>4. IsWords(g[n - 1])
    BY <1>2, <2>3
  <2>5. q[n].walast \in Int
    BY <2>3, PagesFacts
  <2>6. IsWords(g[n])
    BY <1>2, <2>3, <2>4, <2>5, WordsAfterFacts
  <2>7. QED
    BY <2>6
<1>4. IsWords(Flushed(f, q))
  <2>1. Len(q) \notin S
    BY <1>3
  <2>2. QED
    BY <1>1, <1>2, <2>1
<1>5. (Len(q) = 0 => Flushed(f, q) = wadisk[f])
      /\ (Len(q) = 1 => Flushed(f, q) = WordsAfter(wadisk[f], q[1]))
  <2>1. Len(q) = 1 => g[1] = WordsAfter(g[0], q[1])
    BY <1>2
  <2>2. QED
    BY <1>1, <1>2, <2>1
<1>6. QED
  BY <1>4, <1>5

\* The buffers are as many after m pages gave way to n.
LEMMA BuffersCounted ==
    ASSUME global_count \in Int, nfree \in Int, global_count' \in Int, nfree' \in Int,
           global_count = nfree + 1 + Cardinality(PagesInCore),
           Cardinality(PagesInCore) \in Int, NEW m \in Int, NEW n \in Int,
           global_count' - nfree' = global_count - nfree + n - m,
           Cardinality(PagesInCore') = Cardinality(PagesInCore) - m + n
    PROVE  global_count' = nfree' + 1 + Cardinality(PagesInCore')
<1>1. PICK h \in Int, l \in Int : h = global_count' /\ l = nfree'
  OBVIOUS
<1>2. PICK c \in Int : c = Cardinality(PagesInCore)
  OBVIOUS
<1>0. PICK e : e = Cardinality(PagesInCore')
  OBVIOUS
<1>3. global_count = nfree + 1 + c /\ e = c - m + n /\ h - l = global_count - nfree + n - m
  BY <1>0, <1>1, <1>2
<1>4. h = l + 1 + e
  BY <1>3
<1>5. QED
  BY <1>0, <1>1, <1>2, <1>4

\* One slot changes, and its buffers are counted.
LEMMA SlotStep ==
    ASSUME WaInv, NEW s \in Slots, NEW d \in Int, NEW q, IsPages(q),
           SlotBecomes(s, d, q),
           d = -1 \/ cfg_size = 0 => q = <<>>,
           Len(q) <= cfg_nb, UNCHANGED config,
           global_count' \in Nat, global_count' <= WA_PAGE_LIMIT, nfree' \in Int,
           global_count' - nfree'
              = global_count - nfree + Len(q) - Len(wafile[s].page)
    PROVE  /\ BuffersConserved'
           /\ \A t \in Slots : wafile'[t].file_desc = -1 \/ cfg_size' = 0 => wafile'[t].page = <<>>
<1> USE DEF WaInv
<1>1. /\ DOMAIN wafile' = Slots
      /\ wafile'[s].file_desc = d /\ wafile'[s].page = q
      /\ \A t \in Slots \ {s} : wafile'[t] = wafile[t]
  BY SlotChanged
<1>2. /\ DOMAIN wafile[s].page = 1 .. Len(wafile[s].page) /\ Len(wafile[s].page) \in Nat
      /\ DOMAIN q = 1 .. Len(q) /\ Len(q) \in Nat
  BY SlotFacts, PagesFacts
<1>3. Cardinality(PagesInCore') = Cardinality(PagesInCore) - Len(wafile[s].page) + Len(q)
  <2>1. PICK m \in Nat, n \in Nat : m = Len(wafile[s].page) /\ n = Len(q)
    BY <1>2
  <2>2. /\ DOMAIN wafile[s].page = 1 .. m /\ DOMAIN wafile'[s].page = 1 .. n
        /\ \A t \in Slots \ {s} : wafile'[t].page = wafile[t].page
        /\ IsFiniteSet(PagesInCore)
    BY <1>1, <1>2, <2>1, CoreFinite
  <2>3. Cardinality(PagesInCore') = Cardinality(PagesInCore) - m + n
    BY <2>2, CoreChanged
  <2>4. QED
    BY <2>1, <2>3
<1>4. BuffersConserved'
  <2>1. global_count = nfree + 1 + Cardinality(PagesInCore) /\ Cardinality(PagesInCore) \in Nat
    BY CoreFinite DEF Cached, BuffersConserved
  <2>2. global_count' = nfree' + 1 + Cardinality(PagesInCore')
    <3>1. global_count \in Int /\ nfree \in Int
      BY DEF WaTypes
    <3>2. /\ global_count' \in Int /\ nfree' \in Int /\ Cardinality(PagesInCore) \in Int
          /\ Len(wafile[s].page) \in Int /\ Len(q) \in Int
      BY <1>2, <2>1
    <3>3. QED
      BY <1>3, <2>1, <3>1, <3>2, BuffersCounted, Zenon
  <2>3. \A t \in Slots : Len(wafile'[t].page) <= cfg_nb'
    BY <1>1 DEF Cached, BuffersConserved, config
  <2>4. QED
    BY <2>2, <2>3 DEF BuffersConserved
<1>5. QED
  BY <1>1, <1>4 DEF Cached, config

\* A unit is closed or forgotten.
LEMMA UnitGone ==
    ASSUME WaInv, NEW u \in Units, NEW e,
           e \in [name : Names \cup {NoName}, fd : Int, open_flag : {0}, file_size : Int],
           e.name \in {NoName, fgfdt[u].name},
           fgfdt' = [fgfdt EXCEPT ![u] = e],
           \A d \in Fds : descriptor'[d] = IF IsOpened(u) /\ d = fgfdt[u].fd THEN NoName
                                           ELSE descriptor[d]
    PROVE  Connected'
<1> USE DEF WaInv
<1>1. fgfdt'[u] = e /\ \A v \in Units \ {u} : fgfdt'[v] = fgfdt[v]
  BY DEF WaTypes
<1>2. \A v \in Units : IsOpened(v)' => v # u /\ IsOpened(v) /\ fgfdt'[v] = fgfdt[v]
  BY <1>1 DEF IsOpened
<1>3. \A v \in Units : IsOpened(v)' =>
          /\ fgfdt'[v].fd \in Fds /\ fgfdt'[v].name \in Names
          /\ descriptor'[fgfdt'[v].fd] = fgfdt'[v].name
  <2> TAKE v \in Units
  <2> HAVE IsOpened(v)'
  <2>1. v # u /\ IsOpened(v) /\ fgfdt'[v] = fgfdt[v]
    BY <1>2
  <2>2. /\ fgfdt[v].fd \in Fds /\ fgfdt[v].name \in Names
        /\ descriptor[fgfdt[v].fd] = fgfdt[v].name
    BY <2>1 DEF Connected
  <2>3. IsOpened(u) => fgfdt[v].fd # fgfdt[u].fd
    BY <2>1, <2>2, WaAssumption DEF Connected
  <2>4. QED
    BY <2>1, <2>2, <2>3
<1>4. \A v, w \in Units : fgfdt'[v].name = fgfdt'[w].name /\ fgfdt'[v].name # NoName => v = w
  BY <1>1 DEF Connected
<1>5. \A d \in Fds : descriptor'[d] # NoName => \E v \in Units : IsOpened(v)' /\ fgfdt'[v].fd = d
  <2> TAKE d \in Fds
  <2> HAVE descriptor'[d] # NoName
  <2>1. ~(IsOpened(u) /\ d = fgfdt[u].fd) /\ descriptor[d] # NoName
    OBVIOUS
  <2>2. PICK v \in Units : IsOpened(v) /\ fgfdt[v].fd = d
    BY <2>1 DEF Connected
  <2>3. v # u
    BY <2>1, <2>2
  <2>4. QED
    BY <1>1, <2>2, <2>3 DEF IsOpened
<1>6. QED
  BY <1>3, <1>4, <1>5 DEF Connected

\* Of the units only the size of a file changes.
LEMMA SizeStep ==
    ASSUME WaInv, UNCHANGED descriptor,
           \/ UNCHANGED fgfdt
           \/ \E u \in Units, z \in Int : fgfdt' = [fgfdt EXCEPT ![u].file_size = z]
    PROVE  /\ Connected'
           /\ fgfdt' \in [Units -> [name : Names \cup {NoName}, fd : Int, open_flag : {0, 1},
                                    file_size : Int]]
           /\ \A v \in Units : fgfdt'[v].fd = fgfdt[v].fd /\ (IsOpened(v)' <=> IsOpened(v))
<1> USE DEF WaInv
<1>1. \A v \in Units : /\ fgfdt'[v].fd = fgfdt[v].fd /\ fgfdt'[v].name = fgfdt[v].name
                       /\ fgfdt'[v].open_flag = fgfdt[v].open_flag
  BY DEF WaTypes
<1>2. \A v \in Units : IsOpened(v)' <=> IsOpened(v)
  BY <1>1 DEF IsOpened
<1>3. Connected'
  BY <1>1, <1>2 DEF Connected
<1>4. fgfdt' \in [Units -> [name : Names \cup {NoName}, fd : Int, open_flag : {0, 1},
                            file_size : Int]]
  BY DEF WaTypes
<1>5. QED
  BY <1>1, <1>2, <1>3, <1>4

\* What an open unit is connected to.
LEMMA UnitFacts ==
    ASSUME WaInv, NEW u \in Units, IsOpened(u)
    PROVE  /\ fgfdt[u].fd \in Fds /\ descriptor[fgfdt[u].fd] = fgfdt[u].name
           /\ fgfdt[u].name \in Names /\ fgfdt[u].file_size \in Int
           /\ IsWords(wadisk[fgfdt[u].name])
BY DEF WaInv, Connected, WaTypes

\* The buffers of a unit that is closed go back to free_list.
LEMMA WaclosStep ==
    ASSUME WaInv, NEW u \in Units, Waclos(u)
    PROVE  WaInv'
<1> DEFINE s == SlotOf(u)
           f == fgfdt[u].name
           q == wafile[s].page
<1>1. /\ IsOpened(u) /\ SlotsOf(u) # {} /\ todo = NoTodo /\ todo' = NoTodo
      /\ UNCHANGED <<config, global_count>>
  BY DEF Waclos, IsOpened, Ready
<1>2. s \in Slots
  BY <1>1, SlotFound
<1>3. /\ descriptor[fgfdt[u].fd] = f /\ f \in Names /\ IsWords(wadisk[f])
  BY <1>1, UnitFacts
<1>4. /\ wadisk' = [wadisk EXCEPT ![f] = Flushed(f, q)]
      /\ nfree' = nfree + Len(q)
      /\ wafile' = [wafile EXCEPT ![s] = [file_desc |-> -1, page |-> <<>>]]
      /\ fgfdt' = [fgfdt EXCEPT ![u].fd = -1, ![u].open_flag = 0,
                                ![u].file_size = IF cfg_size = 0 THEN @ ELSE 0]
      /\ descriptor' = [descriptor EXCEPT ![fgfdt[u].fd] = NoName]
  BY <1>3 DEF Waclos, BuffersFreed, SlotClosed, NoSlotUsed
<1> HIDE DEF s, f, q
<1>5. IsPages(q) /\ Len(q) \in Nat
  BY <1>2, SlotFacts DEF WaInv, q
<1>6. /\ BuffersConserved'
      /\ \A t \in Slots : wafile'[t].file_desc = -1 \/ cfg_size' = 0 => wafile'[t].page = <<>>
  <2>1. /\ global_count' - nfree' = global_count - nfree + Len(<<>>) - Len(q)
        /\ global_count' \in Nat /\ nfree' \in Int
        /\ Len(<<>>) <= cfg_nb
    BY <1>1, <1>4, <1>5, NoPages DEF WaInv, WaTypes
  <2>2. global_count' <= WA_PAGE_LIMIT
    BY <1>1 DEF WaInv, Cached, BuffersConserved
  <2>3. PICK d \in Int : d = -1
    OBVIOUS
  <2> PICK r : r = <<>>
    OBVIOUS
  <2>4. SlotBecomes(s, d, r)
    BY <1>4, <2>3 DEF SlotBecomes
  <2>5. IsPages(r) /\ Len(r) <= cfg_nb /\ (d = -1 \/ cfg_size = 0 => r = <<>>)
        /\ global_count' - nfree' = global_count - nfree + Len(r) - Len(wafile[s].page)
    BY <2>1, <2>3, NoPages DEF q
  <2>6. QED
    BY <1>1, <1>2, <2>1, <2>2, <2>4, <2>5, SlotStep
<1>7. fgfdt' = [fgfdt EXCEPT ![u] = [name |-> fgfdt[u].name, fd |-> -1, open_flag |-> 0,
                                     file_size |-> fgfdt'[u].file_size]]
      /\ fgfdt'[u].file_size \in Int
  <2>1. fgfdt[u] \in [name : Names \cup {NoName}, fd : Int, open_flag : {0, 1}, file_size : Int]
        /\ DOMAIN fgfdt = Units
    BY DEF WaInv, WaTypes
  <2>2. PICK z \in Int : z = IF cfg_size = 0 THEN fgfdt[u].file_size ELSE 0
    BY <2>1
  <2>3. fgfdt' = [fgfdt EXCEPT ![u].fd = -1, ![u].open_flag = 0, ![u].file_size = z]
    BY <1>4, <2>2
  <2>4. fgfdt'[u] = [name |-> fgfdt[u].name, fd |-> -1, open_flag |-> 0, file_size |-> z]
    BY <2>1, <2>3
  <2>5. QED
    BY <2>1, <2>3, <2>4
<1>8. Connected'
  <2> DEFINE e == [name |-> fgfdt[u].name, fd |-> -1, open_flag |-> 0,
                   file_size |-> fgfdt'[u].file_size]
  <2>1. e \in [name : Names \cup {NoName}, fd : Int, open_flag : {0}, file_size : Int]
    BY <1>7 DEF WaInv, WaTypes
  <2>2. \A d \in Fds : descriptor'[d] = IF IsOpened(u) /\ d = fgfdt[u].fd THEN NoName
                                        ELSE descriptor[d]
    BY <1>1, <1>4 DEF WaInv, WaTypes
  <2>3. e.name = fgfdt[u].name /\ fgfdt' = [fgfdt EXCEPT ![u] = e]
    BY <1>7
  <2> HIDE DEF e
  <2>4. QED
    BY <2>1, <2>2, <2>3, UnitGone
<1>9. WaTypes'
  <2>1. DOMAIN wadisk' = Names /\ \A g \in Names : IsWords(wadisk'[g])
    <3>1. IsWords(Flushed(f, q))
      BY <1>3, <1>5, FlushedFacts
    <3>2. QED
      BY <1>3, <1>4, <3>1 DEF WaInv, WaTypes
  <2>2. fgfdt' \in [Units -> [name : Names \cup {NoName}, fd : Int, open_flag : {0, 1},
                              file_size : Int]]
    BY <1>7 DEF WaInv, WaTypes
  <2>3. DOMAIN wafile' = Slots /\ \A t \in Slots : \E d \in Int : \E r :
           IsPages(r) /\ wafile'[t] = [file_desc |-> d, page |-> r]
    <3>1. PICK d \in Int : d = -1
      OBVIOUS
    <3> PICK r : r = <<>>
      OBVIOUS
    <3>2. SlotBecomes(s, d, r) /\ IsPages(r)
      BY <1>4, <3>1, NoPages DEF SlotBecomes
    <3>3. QED
      BY <1>2, <3>2, SlotChanged DEF WaInv
  <2>4. nfree' \in Int /\ nfree' >= -1
    BY <1>4, <1>5 DEF WaInv, WaTypes
  <2>5. descriptor' \in [Fds -> Names \cup {NoName}]
    BY <1>4 DEF WaInv, WaTypes
  <2>6. QED
    BY <1>1, <2>1, <2>2, <2>3, <2>4, <2>5 DEF WaInv, WaTypes, config
<1>10. QED
  BY <1>1, <1>6, <1>8, <1>9 DEF WaInv, Cached

\* Forgetting a unit touches no page.
LEMMA FclosStep ==
    ASSUME WaInv, NEW u \in Units, Fclos(u)
    PROVE  WaInv'
<1>1. /\ descriptor' = [d \in Fds |-> IF IsOpened(u) /\ d = fgfdt[u].fd
                                      THEN NoName ELSE descriptor[d]]
      /\ fgfdt' = [fgfdt EXCEPT ![u] = NoUnit]
      /\ UNCHANGED <<wadisk, wafile, config, cache, todo>> /\ todo = NoTodo
  BY DEF Fclos, IsOpened, Ready
<1>2. Connected'
  <2>1. NoUnit \in [name : Names \cup {NoName}, fd : Int, open_flag : {0}, file_size : Int]
        /\ NoUnit.name = NoName
    BY DEF NoUnit
  <2>2. QED
    BY <1>1, <2>1, UnitGone
<1>3. WaTypes'
  <2>1. descriptor' \in [Fds -> Names \cup {NoName}]
    BY <1>1 DEF WaInv, WaTypes
  <2>2. fgfdt' \in [Units -> [name : Names \cup {NoName}, fd : Int, open_flag : {0, 1},
                              file_size : Int]]
    BY <1>1 DEF WaInv, WaTypes, NoUnit
  <2>3. QED
    BY <1>1, <2>1, <2>2 DEF WaInv, WaTypes, config, cache
<1>4. Cached'
  BY <1>1 DEF WaInv, Cached, BuffersConserved, PagesInCore, config, cache
<1>5. QED
  BY <1>2, <1>3, <1>4 DEF WaInv

-----------------------------------------------------------------------------
(* Requests, page by page.                                                 *)

\* The unit a request is for.
LEMMA RequestFacts ==
    ASSUME WaInv, todo # NoTodo
    PROVE  /\ todo.unit \in Units /\ IsOpened(todo.unit)
           /\ SlotOf(todo.unit) \in Slots
           /\ wafile[SlotOf(todo.unit)].file_desc = fgfdt[todo.unit].fd
           /\ fgfdt[todo.unit].fd \in Fds /\ fgfdt[todo.unit].fd # -1
           /\ descriptor[fgfdt[todo.unit].fd] = fgfdt[todo.unit].name
           /\ fgfdt[todo.unit].name \in Names /\ fgfdt[todo.unit].file_size \in Int
           /\ IsWords(wadisk[fgfdt[todo.unit].name])
<1>1. todo.unit \in Units /\ IsOpened(todo.unit) /\ SlotsOf(todo.unit) # {}
  BY DEF WaInv, WaTypes, Cached
<1>2. SlotOf(todo.unit) \in SlotsOf(todo.unit) /\ SlotOf(todo.unit) \in Slots
  BY <1>1, SlotFound
<1>3. wafile[SlotOf(todo.unit)].file_desc = fgfdt[todo.unit].fd
  BY <1>2 DEF SlotsOf
<1>4. -1 \notin Fds
  BY WaAssumption, FS_CardinalityType DEF Fds
<1>5. QED
  BY <1>1, <1>2, <1>3, <1>4, UnitFacts

\* A page read: it ends with the file, or before it begins.
LEMMA PageInFacts ==
    ASSUME NEW f, IsWords(wadisk[f]), NEW a \in Int, NEW n \in Int
    PROVE  LET p == PageIn(f, a, n) IN
           /\ p = [wa0 |-> a, walast |-> p.walast, touch |-> 0, word |-> p.word]
           /\ p.wa0 = a /\ p.touch = 0 /\ p.walast \in Int
           /\ p.walast = a + AtMost(n, AtLeast(Len(wadisk[f]) - a + 1, 0)) - 1
<1>1. Len(wadisk[f]) \in Nat
  BY WordsFacts
<1>2. AtMost(n, AtLeast(Len(wadisk[f]) - a + 1, 0)) \in Int
  BY <1>1 DEF AtMost, AtLeast
<1>3. QED
  BY <1>2 DEF PageIn

\* A buffer for a page there is room for.
LEMMA BufferFacts ==
    ASSUME WaInv, HasRoom, Buffer(NeedsPage)
    PROVE  /\ global_count' \in Nat /\ global_count' <= WA_PAGE_LIMIT /\ nfree' \in Int
           /\ nfree' >= -1
           /\ NeedsPage => /\ global_count' - nfree' = global_count - nfree + 1
                           /\ Len(wafile[SlotOf(todo.unit)].page) < cfg_nb
           /\ ~NeedsPage => global_count' - nfree' = global_count - nfree
<1>1. /\ global_count \in Nat /\ nfree \in Int /\ nfree >= -1 /\ global_count <= WA_PAGE_LIMIT
      /\ cfg_nb \in Nat /\ WA_PAGE_LIMIT \in Nat
  BY WaAssumption DEF WaInv, WaTypes, Cached, BuffersConserved
<1>2. CASE ~NeedsPage
  BY <1>1, <1>2 DEF Buffer, cache
<1>3. CASE NeedsPage
  <2>1. ~FileFull(SlotOf(todo.unit)) /\ ~CacheFull
    BY <1>3 DEF HasRoom
  <2>2. Len(wafile[SlotOf(todo.unit)].page) \in Nat
    <3>1. todo # NoTodo
      BY <1>3 DEF NeedsPage
    <3>2. QED
      BY <3>1, RequestFacts, SlotFacts DEF WaInv
  <2>3. Len(wafile[SlotOf(todo.unit)].page) < cfg_nb
    BY <1>1, <2>1, <2>2 DEF FileFull
  <2>4. CASE nfree >= 0
    <3>1. PICK k \in Int : k = nfree - 1
      BY <1>1
    <3>2. nfree' = k /\ global_count' = global_count
      BY <1>3, <2>4, <3>1 DEF Buffer
    <3>3. k >= -1 /\ global_count - k = global_count - nfree + 1
      BY <1>1, <2>4, <3>1
    <3>4. QED
      BY <1>1, <1>3, <2>3, <3>2, <3>3
  <2>5. CASE ~(nfree >= 0)
    <3>1. PICK g \in Nat : g = global_count + 1
      BY <1>1
    <3>2. nfree' = nfree /\ global_count' = g
      BY <1>1, <1>3, <2>5, <3>1 DEF Buffer
    <3>3. g <= WA_PAGE_LIMIT /\ g - nfree = global_count - nfree + 1
      <4>1. ~(global_count >= WA_PAGE_LIMIT)
        BY <1>1, <2>1, <2>5 DEF CacheFull
      <4>2. QED
        BY <1>1, <3>1, <4>1
    <3>4. QED
      BY <1>1, <1>3, <2>3, <3>2, <3>3
  <2>6. QED
    BY <2>4, <2>5
<1>4. QED
  BY <1>2, <1>3

\* The page of a piece that needs none.
LEMMA PageFound ==
    ASSUME WaInv, todo # NoTodo, says = "nothing", cfg_size > 0, ~NeedsPage
    PROVE  LET s == SlotOf(todo.unit)
               i == PageWith(s, Piece)
           IN i \in DOMAIN wafile[s].page /\ Holds(wafile[s].page[i], Piece)
<1> DEFINE s == SlotOf(todo.unit)
           fit == {i \in DOMAIN wafile[s].page : Holds(wafile[s].page[i], Piece)}
<1>1. PageWith(s, Piece) # 0
  BY DEF NeedsPage
<1>2. fit # {} /\ PageWith(s, Piece) = Least(fit)
  <2>1. PageWith(s, Piece) = IF fit = {} THEN 0 ELSE Least(fit)
    BY Zenon DEF PageWith
  <2>2. QED
    BY <1>1, <2>1
<1>3. fit \in SUBSET Nat
  <2>1. s \in Slots
    BY RequestFacts
  <2> HIDE DEF s
  <2>2. DOMAIN wafile[s].page = 1 .. Len(wafile[s].page) /\ Len(wafile[s].page) \in Nat
    BY <2>1, SlotFacts DEF WaInv
  <2>3. \A n \in Nat : 1 .. n \subseteq Nat
    OBVIOUS
  <2>4. QED
    BY <2>2, <2>3
<1>4. Least(fit) \in fit
  BY <1>2, <1>3, LeastIsLeast
<1>5. QED
  BY <1>2, <1>4, Zenon

\* The page a write begins with: one that is in core, one read, or a raw one.
WriteBase(base) ==
    LET u == todo.unit
        f == descriptor[fgfdt[u].fd]
        a == Piece
        size == fgfdt[u].file_size
    IN IF ~NeedsPage THEN base = wafile[SlotOf(u)].page[PageWith(SlotOf(u), a)]
       ELSE IF Rereads(a, size) THEN base = PageIn(f, Wa0(a), Expected(size, Wa0(a)))
       ELSE base = PageRaw(Wa0(a))

\* The first word of a page, and how many words are asked of it.
LEMMA Wa0Facts ==
    ASSUME WaInv, todo # NoTodo, cfg_size > 0
    PROVE  /\ Wa0(Piece) \in Int
           /\ \A size \in Int : Expected(size, Wa0(Piece)) \in Int
<1>1. Piece.adr \in Int /\ cfg_size \in Nat \ {0}
  BY PieceFacts DEF WaInv, WaTypes
<1>2. PICK k \in Int : k = Piece.adr % cfg_size
  BY <1>1, Divides
<1>3. Wa0(Piece) \in Int
  BY <1>1, <1>2 DEF Wa0, AtLeast
<1>4. QED
  BY <1>1, <1>3 DEF Expected

\* A page in core, a page read again or one left by another: each is a page.
LEMMA WriteBaseFacts ==
    ASSUME WaInv, todo # NoTodo, says = "nothing", cfg_size > 0, NEW base, WriteBase(base)
    PROVE  /\ base.wa0 \in Int /\ base.walast \in Int /\ base.touch \in {0, 1}
           /\ NeedsPage => base = [wa0 |-> base.wa0, walast |-> base.walast, touch |-> 0,
                                   word |-> base.word]
           /\ ~NeedsPage => \E w : base = [wa0 |-> base.wa0, walast |-> base.walast,
                                           touch |-> base.touch, word |-> w]
<1> DEFINE u == todo.unit
           s == SlotOf(u)
           f == fgfdt[u].name
           i == PageWith(s, Piece)
<1>1. /\ s \in Slots /\ descriptor[fgfdt[u].fd] = f /\ IsWords(wadisk[f])
      /\ fgfdt[u].file_size \in Int
  BY RequestFacts
<1>2. /\ Wa0(Piece) \in Int /\ Expected(fgfdt[u].file_size, Wa0(Piece)) \in Int
  BY <1>1, Wa0Facts
<1>3. CASE ~NeedsPage
  <2>1. base = wafile[s].page[i] /\ i \in DOMAIN wafile[s].page
    BY <1>3, PageFound DEF WriteBase
  <2>2. PICK W : wafile[s].page \in Seq([wa0 : Int, walast : Int, touch : {0, 1}, word : W])
    <3> HIDE DEF s
    <3> QED
      BY <1>1, SlotFacts DEF WaInv, IsPages
  <2> HIDE DEF s, i
  <2>3. base \in [wa0 : Int, walast : Int, touch : {0, 1}, word : W]
    <3>1. i \in 1 .. Len(wafile[s].page)
      BY <1>1, <2>1, SlotFacts DEF WaInv
    <3>2. QED
      BY <2>1, <2>2, <3>1, ElementOfSeq
  <2>4. QED
    BY <1>3, <2>3
<1>4. CASE NeedsPage /\ Rereads(Piece, fgfdt[u].file_size)
  <2>1. base = PageIn(f, Wa0(Piece), Expected(fgfdt[u].file_size, Wa0(Piece)))
    BY <1>1, <1>4 DEF WriteBase
  <2> HIDE DEF f
  <2>2. QED
    BY <1>1, <1>2, <1>4, <2>1, PageInFacts
<1>5. CASE NeedsPage /\ ~Rereads(Piece, fgfdt[u].file_size)
  <2>1. base = PageRaw(Wa0(Piece))
    BY <1>5 DEF WriteBase
  <2>2. QED
    BY <1>2, <1>5, <2>1 DEF PageRaw
<1>6. QED
  BY <1>3, <1>4, <1>5

\* What wa_page_write does to the pages of the slot, and to the size of the file.
WritesPage(base, p, q, last) ==
    LET s   == SlotOf(todo.unit)
        old == wafile[s].page
    IN /\ WriteBase(base)
       /\ p.wa0 = base.wa0 /\ p.walast = AtLeast(base.walast, last) /\ p.touch = 1
       /\ IsPages(q)
       /\ wafile' = [wafile EXCEPT ![s].page = q]
       /\ NeedsPage => Len(q) = Len(old) + 1 /\ q[Len(old) + 1] = p
       /\ ~NeedsPage => /\ Len(q) = Len(old)
                        /\ PageWith(s, Piece) \in DOMAIN old /\ q[PageWith(s, Piece)] = p
                        /\ Holds(old[PageWith(s, Piece)], Piece)
       /\ fgfdt' = [fgfdt EXCEPT ![todo.unit].file_size
                                     = AtLeast(fgfdt[todo.unit].file_size, last)]

\* A write leaves the page written on among the pages of the slot, and the size in FGFDT.
LEMMA WriteFacts ==
    ASSUME WaInv, WritePage
    PROVE  /\ todo # NoTodo /\ Piece.adr + Piece.n - 1 \in Int
           /\ \E base, p, q : WritesPage(base, p, q, Piece.adr + Piece.n - 1)
<1> DEFINE u == todo.unit
           s == SlotOf(u)
           old == wafile[s].page
           a == Piece
           f == descriptor[fgfdt[u].fd]
           size == fgfdt[u].file_size
           i == IF NeedsPage THEN Len(old) + 1 ELSE PageWith(s, a)
           base == IF ~NeedsPage THEN old[i]
                   ELSE IF Rereads(a, size) THEN PageIn(f, Wa0(a), Expected(size, Wa0(a)))
                   ELSE PageRaw(Wa0(a))
           last == a.adr + a.n - 1
           p == [base EXCEPT
                   !.touch = 1, !.walast = AtLeast(@, last),
                   !.word = [k \in DOMAIN @ |-> IF base.wa0 + k \in a.adr .. last
                                                THEN a.word ELSE @[k]]]
           q == IF NeedsPage THEN Append(old, p) ELSE [old EXCEPT ![i] = p]
<1>1. todo # NoTodo /\ says = "nothing" /\ cfg_size > 0
  <2>1. todo.kind = "write" /\ says = "nothing" /\ cfg_size > 0
    BY Zenon DEF WritePage
  <2>2. QED
    BY <2>1 DEF NoTodo
<1>2. /\ wafile' = [wafile EXCEPT ![s].page = q]
      /\ fgfdt' = [fgfdt EXCEPT ![u].file_size = AtLeast(@, last)]
  BY Zenon DEF WritePage
<1>3. last \in Int /\ s \in Slots
  BY <1>1, PieceFacts, RequestFacts DEF WaInv
<1>4. WriteBase(base)
  BY Zenon DEF WriteBase
<1>5. fgfdt' = [fgfdt EXCEPT ![u].file_size = AtLeast(fgfdt[u].file_size, last)]
  <2> HIDE DEF last, u
  <2> QED
    BY <1>2
<1> HIDE DEF base
<1>0. PICK wa, wb \in Int, wt \in {0, 1} :
         \E w : base = [wa0 |-> wa, walast |-> wb, touch |-> wt, word |-> w]
  BY <1>1, <1>4, WriteBaseFacts
<1>6. PICK ww : base = [wa0 |-> wa, walast |-> wb, touch |-> wt, word |-> ww]
  BY <1>0
<1>7. PICK wl \in Int : wl = AtLeast(wb, last)
  BY <1>3 DEF AtLeast
<1>8. base.wa0 = wa /\ base.walast = wb /\ base.word = ww
  BY <1>6
<1>9. PICK nw : nw = [k \in DOMAIN ww |-> IF wa + k \in a.adr .. last THEN a.word ELSE ww[k]]
  OBVIOUS
<1>10. p = [wa0 |-> wa, walast |-> wl, touch |-> 1, word |-> nw] /\ IsPage(p)
  <2>1. p = [base EXCEPT !.touch = 1, !.walast = wl, !.word = nw]
    <3>1. p = [base EXCEPT !.touch = 1, !.walast = AtLeast(base.walast, last),
                 !.word = [k \in DOMAIN base.word |-> IF base.wa0 + k \in a.adr .. last
                                                      THEN a.word ELSE base.word[k]]]
      <4> HIDE DEF last, a
      <4> QED
        BY <1>6
    <3>2. QED
      <4> HIDE DEF p, last, a
      <4> QED
        BY <3>1, <1>7, <1>8, <1>9, Zenon
  <2> HIDE DEF p
  <2>2. p = [wa0 |-> wa, walast |-> wl, touch |-> 1, word |-> nw]
    BY <1>6, <2>1
  <2>3. 1 \in {0, 1}
    OBVIOUS
  <2>4. QED
    BY <2>2, <2>3, Zenon DEF IsPage
<1> HIDE DEF p
<1>11. IsPages(old) /\ DOMAIN old = 1 .. Len(old)
  BY <1>3, SlotFacts DEF WaInv
<1>12. ~NeedsPage => PageWith(s, a) \in DOMAIN old /\ Holds(old[PageWith(s, a)], a)
  BY <1>1, PageFound
<1>13. /\ IsPages(q)
       /\ NeedsPage => Len(q) = Len(old) + 1 /\ q[Len(old) + 1] = p
       /\ ~NeedsPage => Len(q) = Len(old) /\ q[PageWith(s, a)] = p
  <2> HIDE DEF old, a, s
  <2>1. CASE NeedsPage
    <3>1. q = Append(old, p)
      BY <2>1
    <3>2. QED
      BY <1>10, <1>11, <2>1, <3>1, PageAdded
  <2>2. CASE ~NeedsPage
    <3>1. i = PageWith(s, a) /\ q = [old EXCEPT ![i] = p]
      BY <2>2
    <3>2. i \in DOMAIN old
      BY <1>12, <2>2, <3>1
    <3> HIDE DEF i, q
    <3>3. IsPages(q) /\ Len(q) = Len(old) /\ q[i] = p
      <4>1. q = [old EXCEPT ![i] = p]
        BY <3>1
      <4>2. IsPages(old) /\ IsPage(p)
        BY <1>10, <1>11
      <4>3. QED
        BY <3>2, <4>1, <4>2, PageReplaced
    <3>4. QED
      BY <2>2, <3>1, <3>3
  <2>3. QED
    BY <2>1, <2>2
<1>14. p.wa0 = base.wa0 /\ p.walast = AtLeast(base.walast, last) /\ p.touch = 1
  BY <1>7, <1>8, <1>10
<1> HIDE DEF q
<1>15. WritesPage(base, p, q, last)
  BY <1>2, <1>4, <1>5, <1>12, <1>13, <1>14, Zenon DEF WritesPage
<1>16. QED
  BY <1>1, <1>3, <1>15, Zenon

\* What wa_page_read does to the pages of the slot.
ReadsPage(q) ==
    LET s   == SlotOf(todo.unit)
        old == wafile[s].page
    IN /\ IsPages(q)
       /\ wafile' = [wafile EXCEPT ![s].page = q]
       /\ NeedsPage =>
             /\ Len(q) = Len(old) + 1
             /\ q[Len(old) + 1] = PageIn(fgfdt[todo.unit].name, Wa0(Piece), cfg_size)
       /\ ~NeedsPage => q = old

\* A read leaves the pages of the slot as they are, or appends the page it reads.
LEMMA ReadFacts ==
    ASSUME WaInv, ReadPage
    PROVE  todo # NoTodo /\ \E q : ReadsPage(q)
<1> DEFINE u == todo.unit
           s == SlotOf(u)
           old == wafile[s].page
           f == fgfdt[u].name
           read == PageIn(f, Wa0(Piece), cfg_size)
           q == IF NeedsPage THEN Append(old, read) ELSE old
<1>1. todo # NoTodo /\ cfg_size > 0
  <2>1. todo.kind = "read" /\ cfg_size > 0
    BY Zenon DEF ReadPage
  <2>2. QED
    BY <2>1 DEF NoTodo
<1>2. /\ s \in Slots /\ descriptor[fgfdt[u].fd] = f /\ IsWords(wadisk[f])
  BY <1>1, RequestFacts
<1>3. wafile' = [wafile EXCEPT ![s].page = q]
  <2>1. wafile' = [wafile EXCEPT ![s].page =
                      IF NeedsPage
                      THEN Append(old, PageIn(descriptor[fgfdt[u].fd], Wa0(Piece), cfg_size))
                      ELSE old]
    BY Zenon DEF ReadPage
  <2>2. QED
    BY <1>2, <2>1
<1> HIDE DEF f
<1>4. IsPage(read)
  <2>1. cfg_size \in Int /\ Wa0(Piece) \in Int
    BY <1>1, Wa0Facts DEF WaInv, WaTypes
  <2>2. /\ read = [wa0 |-> Wa0(Piece), walast |-> read.walast, touch |-> 0, word |-> read.word]
        /\ read.walast \in Int /\ 0 \in {0, 1}
    BY <1>2, <2>1, PageInFacts
  <2> HIDE DEF read
  <2>3. QED
    BY <2>1, <2>2, Zenon DEF IsPage
<1> HIDE DEF read
<1>5. IsPages(old)
  BY <1>2, SlotFacts DEF WaInv
<1>6. IsPages(q) /\ (NeedsPage => Len(q) = Len(old) + 1 /\ q[Len(old) + 1] = read)
      /\ (~NeedsPage => q = old)
  <2> HIDE DEF old
  <2>1. CASE NeedsPage
    <3>1. q = Append(old, read)
      BY <2>1
    <3>2. QED
      BY <1>4, <1>5, <2>1, <3>1, PageAdded
  <2>2. CASE ~NeedsPage
    BY <1>5, <2>2
  <2>3. QED
    BY <2>1, <2>2
<1> HIDE DEF q
<1>7. ReadsPage(q)
  BY <1>3, <1>6, Zenon DEF ReadsPage, read, f
<1>8. QED
  BY <1>1, <1>7

\* Either way the buffers are accounted for.
LEMMA PageStep ==
    ASSUME WaInv, todo # NoTodo, cfg_size > 0, HasRoom, Buffer(NeedsPage), Done(Piece.n),
           UNCHANGED <<wadisk, descriptor, config>>, NEW q, IsPages(q),
           wafile' = [wafile EXCEPT ![SlotOf(todo.unit)].page = q],
           NeedsPage => Len(q) = Len(wafile[SlotOf(todo.unit)].page) + 1,
           ~NeedsPage => Len(q) = Len(wafile[SlotOf(todo.unit)].page),
           \/ UNCHANGED fgfdt
           \/ \E u \in Units, z \in Int : fgfdt' = [fgfdt EXCEPT ![u].file_size = z]
    PROVE  WaInv'
<1> DEFINE s == SlotOf(todo.unit)
           old == wafile[s].page
<1>1. /\ s \in Slots /\ wafile[s].file_desc # -1 /\ wafile[s].file_desc \in Int
      /\ Len(old) \in Nat /\ todo.unit \in Units /\ Len(q) \in Nat
      /\ cfg_size \in Nat
  BY RequestFacts, SlotFacts, PagesFacts DEF WaInv, WaTypes
<1>2. /\ global_count' \in Nat /\ global_count' <= WA_PAGE_LIMIT /\ nfree' \in Int
      /\ nfree' >= -1
  BY BufferFacts
<1>3. SlotBecomes(s, wafile[s].file_desc, q)
  BY DEF SlotBecomes
<1>4. global_count' - nfree' = global_count - nfree + Len(q) - Len(old)
  <2>1. global_count - nfree \in Int
    BY DEF WaInv, WaTypes
  <2>2. PICK c \in Int : c = global_count' - nfree'
    BY <1>2
  <2>3. c = global_count - nfree + Len(q) - Len(old)
    <3>1. NeedsPage => c = global_count - nfree + 1 /\ Len(q) = Len(old) + 1
      BY <2>2, BufferFacts
    <3>2. ~NeedsPage => c = global_count - nfree /\ Len(q) = Len(old)
      BY <2>2, BufferFacts
    <3> HIDE DEF old
    <3>3. QED
      BY <1>1, <2>1, <3>1, <3>2
  <2>4. QED
    BY <2>2, <2>3
<1>5. Len(q) <= cfg_nb
  <2>1. Len(old) <= cfg_nb /\ cfg_nb \in Nat
    BY <1>1 DEF WaInv, WaTypes, Cached, BuffersConserved
  <2>2. NeedsPage => Len(old) < cfg_nb
    BY BufferFacts
  <2> HIDE DEF old
  <2>3. QED
    BY <1>1, <2>1, <2>2 DEF old
<1>6. /\ BuffersConserved'
      /\ \A t \in Slots : wafile'[t].file_desc = -1 \/ cfg_size' = 0 => wafile'[t].page = <<>>
  <2>1. wafile[s].file_desc = -1 \/ cfg_size = 0 => q = <<>>
    BY <1>1
  <2> HIDE DEF s
  <2>2. PICK d \in Int : d = wafile[s].file_desc
    BY <1>1
  <2>3. QED
    BY <1>1, <1>2, <1>3, <1>4, <1>5, <2>1, <2>2, SlotStep
<1>7. /\ DOMAIN wafile' = Slots
      /\ \A t \in Slots : \E e \in Int : \E r :
            IsPages(r) /\ wafile'[t] = [file_desc |-> e, page |-> r]
      /\ \A t \in Slots : wafile'[t].file_desc = wafile[t].file_desc
  <2> HIDE DEF s
  <2>1. /\ DOMAIN wafile' = Slots
        /\ \A t \in Slots : \E e \in Int : \E r :
              IsPages(r) /\ wafile'[t] = [file_desc |-> e, page |-> r]
        /\ wafile'[s].file_desc = wafile[s].file_desc
        /\ \A t \in Slots \ {s} : wafile'[t] = wafile[t]
    BY <1>1, <1>3, SlotChanged DEF WaInv
  <2>2. QED
    BY <2>1
<1>8. /\ Connected'
      /\ fgfdt' \in [Units -> [name : Names \cup {NoName}, fd : Int, open_flag : {0, 1},
                               file_size : Int]]
      /\ \A v \in Units : fgfdt'[v].fd = fgfdt[v].fd /\ (IsOpened(v)' <=> IsOpened(v))
  BY SizeStep
<1>9. todo' = NoTodo \/ todo' \in [kind : {"read", "write"}, unit : Units, adr : Int,
                                   n : Int, word : Words \cup {Junk}, hole : Int]
  BY DoneFacts DEF WaInv
<1>10. WaTypes'
  BY <1>2, <1>7, <1>8, <1>9 DEF WaInv, WaTypes, config, NoTodo
<1>11. todo' # NoTodo => (IsOpened(todo.unit) /\ SlotsOf(todo.unit) # {})'
  <2>1. IsOpened(todo.unit) /\ SlotsOf(todo.unit) # {}
    BY DEF WaInv, Cached
  <2>2. todo' # NoTodo => todo'.unit = todo.unit
    BY DoneFacts DEF WaInv
  <2>3. (\A v \in Units : SlotsOf(v)' = SlotsOf(v))
    BY <1>7, <1>8 DEF SlotsOf
  <2>4. (\A v \in Units : IsOpened(v)' <=> IsOpened(v))
    BY <1>8
  <2>5. QED
    BY <1>1, <2>1, <2>2, <2>3, <2>4 DEF SlotsOf, IsOpened
<1>12. Cached'
  BY <1>6, <1>11 DEF Cached, NoTodo
<1>13. QED
  BY <1>8, <1>10, <1>12 DEF WaInv

\* A write keeps the invariant.
LEMMA WriteStep == ASSUME WaInv, WritePage PROVE WaInv'
<1>1. PICK last \in Int : last = Piece.adr + Piece.n - 1
  BY WriteFacts
<1>2. PICK base, p, q : WritesPage(base, p, q, last)
  BY <1>1, WriteFacts
<1>3. todo # NoTodo /\ todo.unit \in Units /\ fgfdt[todo.unit].file_size \in Int
  BY WriteFacts, RequestFacts
<1>4. /\ cfg_size > 0 /\ HasRoom /\ Buffer(NeedsPage) /\ Done(Piece.n)
      /\ UNCHANGED <<wadisk, descriptor, config>>
  BY Zenon DEF WritePage
<1>5. \E u \in Units, z \in Int : fgfdt' = [fgfdt EXCEPT ![u].file_size = z]
  <2>1. AtLeast(fgfdt[todo.unit].file_size, last) \in Int
    BY <1>3 DEF AtLeast
  <2>2. fgfdt' = [fgfdt EXCEPT ![todo.unit].file_size
                                   = AtLeast(fgfdt[todo.unit].file_size, last)]
    BY <1>2, Zenon DEF WritesPage
  <2>3. QED
    BY <1>3, <2>1, <2>2, Zenon
<1>6. /\ IsPages(q)
      /\ wafile' = [wafile EXCEPT ![SlotOf(todo.unit)].page = q]
      /\ NeedsPage => Len(q) = Len(wafile[SlotOf(todo.unit)].page) + 1
      /\ ~NeedsPage => Len(q) = Len(wafile[SlotOf(todo.unit)].page)
  BY <1>2, Zenon DEF WritesPage
<1>7. QED
  BY <1>3, <1>4, <1>5, <1>6, PageStep, Zenon

\* A read keeps the invariant.
LEMMA ReadStep == ASSUME WaInv, ReadPage PROVE WaInv'
<1>1. PICK q : ReadsPage(q)
  BY ReadFacts
<1>2. todo # NoTodo
  BY ReadFacts
<1>3. /\ cfg_size > 0 /\ HasRoom /\ Buffer(NeedsPage) /\ Done(Piece.n)
      /\ UNCHANGED <<wadisk, descriptor, config>> /\ UNCHANGED fgfdt
  <2>1. /\ cfg_size > 0 /\ HasRoom /\ Buffer(NeedsPage) /\ Done(Piece.n)
        /\ UNCHANGED <<wadisk, descriptor, fgfdt, config>>
    BY Zenon DEF ReadPage
  <2>2. QED
    BY <2>1
<1>4. /\ IsPages(q)
      /\ wafile' = [wafile EXCEPT ![SlotOf(todo.unit)].page = q]
      /\ NeedsPage => Len(q) = Len(wafile[SlotOf(todo.unit)].page) + 1
      /\ ~NeedsPage => Len(q) = Len(wafile[SlotOf(todo.unit)].page)
  BY <1>1, Zenon DEF ReadsPage
<1>5. QED
  BY <1>2, <1>3, <1>4, PageStep, Zenon

\* What scrap_page does: the page goes, to the disk if it was written on.
Scraps(s, i) ==
    LET p == wafile[s].page[i]
        f == descriptor[wafile[s].file_desc]
    IN /\ wadisk' = IF p.touch = 1 THEN [wadisk EXCEPT ![f] = WordsAfter(wadisk[f], p)] ELSE wadisk
       /\ wafile' = [wafile EXCEPT ![s].page = RemoveAt(wafile[s].page, i)]
       /\ nfree' = nfree + 1
       /\ says' = says
       /\ f = NoName => p.touch # 1
CannotScrap(s, i) ==
    /\ descriptor[wafile[s].file_desc] = NoName
    /\ says' = "cannot_write_page"
    /\ UNCHANGED <<wadisk, wafile, nfree>>

\* scrap_page scraps the page, or stops the program because it cannot.
LEMMA ScrapFacts ==
    ASSUME NEW s \in Slots, NEW i, Scrap(s, i)
    PROVE  /\ todo # NoTodo /\ i \in DOMAIN wafile[s].page
           /\ Scraps(s, i) \/ CannotScrap(s, i)
           /\ UNCHANGED <<descriptor, fgfdt, config, global_count, todo>>
<1>1. todo # NoTodo /\ i \in DOMAIN wafile[s].page
  BY Zenon DEF Scrap, NeedsPage
<1> DEFINE cond == descriptor[wafile[s].file_desc] = NoName /\ wafile[s].page[i].touch = 1
           A == /\ says' = "cannot_write_page"
                /\ UNCHANGED <<wadisk, wafile, nfree>>
           B == /\ wadisk' = IF wafile[s].page[i].touch = 1
                             THEN [wadisk EXCEPT ![descriptor[wafile[s].file_desc]]
                                                    = WordsAfter(@, wafile[s].page[i])]
                             ELSE wadisk
                /\ wafile' = [wafile EXCEPT ![s].page = RemoveAt(@, i)]
                /\ nfree' = nfree + 1
                /\ UNCHANGED says
<1>2. IF cond THEN A ELSE B
  BY Zenon DEF Scrap
<1>3. ASSUME cond PROVE CannotScrap(s, i)
  <2>1. A
    <3> HIDE DEF A, B, cond
    <3> QED
      BY <1>2, <1>3
  <2>2. QED
    BY <1>3, <2>1, Zenon DEF CannotScrap
<1>4. ASSUME ~cond PROVE Scraps(s, i)
  <2>1. B
    <3> HIDE DEF A, B, cond
    <3> QED
      BY <1>2, <1>4
  <2>2. says' = says /\ (descriptor[wafile[s].file_desc] = NoName => wafile[s].page[i].touch # 1)
    BY <1>4, <2>1
  <2>3. /\ wadisk' = IF wafile[s].page[i].touch = 1
                    THEN [wadisk EXCEPT ![descriptor[wafile[s].file_desc]]
                            = WordsAfter(wadisk[descriptor[wafile[s].file_desc]], wafile[s].page[i])]
                    ELSE wadisk
        /\ wafile' = [wafile EXCEPT ![s].page = RemoveAt(wafile[s].page, i)]
        /\ nfree' = nfree + 1
    BY <2>1
  <2>4. QED
    BY <2>2, <2>3, Zenon DEF Scraps
<1>5. UNCHANGED <<descriptor, fgfdt, config, global_count, todo>>
  BY Zenon DEF Scrap
<1>6. QED
  BY <1>1, <1>3, <1>4, <1>5

\* Scrapping a page gives its buffer to free_list.
LEMMA ScrapStep ==
    ASSUME WaInv, NEW s \in Slots, NEW i, Scrap(s, i)
    PROVE  WaInv'
<1> DEFINE old == wafile[s].page
           q == RemoveAt(old, i)
           f == descriptor[wafile[s].file_desc]
<1>1. /\ UNCHANGED <<descriptor, fgfdt, config, global_count, todo>>
      /\ i \in DOMAIN old
  BY ScrapFacts
<1>2. Connected'
  BY <1>1 DEF WaInv, Connected, IsOpened
<1>3. CASE CannotScrap(s, i)
  <2>1. UNCHANGED <<wadisk, wafile, nfree>>
    BY <1>3 DEF CannotScrap
  <2>2. WaTypes'
    BY <1>1, <2>1 DEF WaInv, WaTypes, config, NoTodo
  <2>3. Cached'
    BY <1>1, <2>1
    DEF WaInv, Cached, BuffersConserved, PagesInCore, config, NoTodo, SlotsOf, IsOpened
  <2>4. QED
    BY <1>2, <2>2, <2>3 DEF WaInv
<1>4. CASE Scraps(s, i)
  <2>1. /\ wafile[s].file_desc # -1 /\ wafile[s].file_desc \in Int /\ cfg_size # 0
        /\ IsPages(old) /\ Len(old) \in Nat /\ DOMAIN old = 1 .. Len(old)
    <3>1. old # <<>>
      BY <1>1
    <3>2. wafile[s].file_desc # -1 /\ cfg_size # 0
      BY <3>1 DEF WaInv, Cached
    <3>3. QED
      BY <3>2, SlotFacts DEF WaInv
  <2>2. IsPages(q) /\ Len(q) = Len(old) - 1
    <3> HIDE DEF old
    <3> QED
      BY <1>1, <2>1, PageRemoved
  <2> HIDE DEF q
  <2>3. wafile' = [wafile EXCEPT ![s].page = q] /\ nfree' = nfree + 1
    BY <1>4, Zenon DEF Scraps, q
  <2>4. SlotBecomes(s, wafile[s].file_desc, q)
    BY <2>3 DEF SlotBecomes
  <2>5. /\ BuffersConserved'
        /\ \A t \in Slots : wafile'[t].file_desc = -1 \/ cfg_size' = 0 => wafile'[t].page = <<>>
    <3>1. nfree \in Int /\ global_count \in Nat /\ global_count <= WA_PAGE_LIMIT
          /\ Len(old) <= cfg_nb /\ cfg_nb \in Nat
      BY DEF WaInv, WaTypes, Cached, BuffersConserved
    <3>2. PICK k \in Int : k = nfree + 1
      BY <3>1
    <3>3. nfree' = k /\ global_count' = global_count
      BY <1>1, <2>3, <3>2
    <3> HIDE DEF old
    <3>4. global_count - k = global_count - nfree + Len(q) - Len(old) /\ Len(q) <= cfg_nb
      BY <2>1, <2>2, <3>1, <3>2
    <3>5. PICK d \in Int : d = wafile[s].file_desc
      BY <2>1
    <3>6. global_count' - nfree' = global_count - nfree + Len(q) - Len(wafile[s].page)
      BY <3>3, <3>4 DEF old
    <3>7. d = -1 \/ cfg_size = 0 => q = <<>>
      BY <2>1, <3>5
    <3>8. /\ SlotBecomes(s, d, q) /\ UNCHANGED config
          /\ global_count' \in Nat /\ global_count' <= WA_PAGE_LIMIT /\ nfree' \in Int
      BY <1>1, <2>4, <3>1, <3>2, <3>3, <3>5
    <3>9. QED
      BY <2>2, <3>4, <3>6, <3>7, <3>8, SlotStep
  <2>6. /\ DOMAIN wafile' = Slots
        /\ \A t \in Slots : \E e \in Int : \E r :
              IsPages(r) /\ wafile'[t] = [file_desc |-> e, page |-> r]
        /\ \A t \in Slots : wafile'[t].file_desc = wafile[t].file_desc
    <3>1. /\ DOMAIN wafile' = Slots
          /\ \A t \in Slots : \E e \in Int : \E r :
                IsPages(r) /\ wafile'[t] = [file_desc |-> e, page |-> r]
          /\ wafile'[s].file_desc = wafile[s].file_desc
          /\ \A t \in Slots \ {s} : wafile'[t] = wafile[t]
      BY <2>1, <2>2, <2>4, SlotChanged DEF WaInv
    <3>2. QED
      BY <3>1
  <2>7. DOMAIN wadisk' = Names /\ \A g \in Names : IsWords(wadisk'[g])
    <3>1. CASE old[i].touch = 1
      <4>1. wadisk' = [wadisk EXCEPT ![f] = WordsAfter(wadisk[f], old[i])]
        BY <1>4, <3>1, Zenon DEF Scraps
      <4>2. old[i].walast \in Int
        <5> HIDE DEF old
        <5> QED
          BY <1>1, <2>1, PagesFacts
      <4>3. f \in Names => IsWords(WordsAfter(wadisk[f], old[i]))
        <5> HIDE DEF old, f
        <5> QED
          BY <4>2, WordsAfterFacts DEF WaInv, WaTypes
      <4>4. QED
        <5> HIDE DEF old, f
        <5> QED
          BY <4>1, <4>3 DEF WaInv, WaTypes
    <3>2. CASE old[i].touch # 1
      <4>1. wadisk' = wadisk
        BY <1>4, <3>2, Zenon DEF Scraps
      <4>2. QED
        BY <4>1 DEF WaInv, WaTypes
    <3>3. QED
      BY <3>1, <3>2
  <2>8. WaTypes'
    <3>1. nfree' \in Int /\ nfree' >= -1
      BY <2>3 DEF WaInv, WaTypes
    <3>2. QED
      BY <1>1, <2>6, <2>7, <3>1 DEF WaInv, WaTypes, config, NoTodo
  <2>9. Cached'
    <3>1. todo' # NoTodo => (IsOpened(todo.unit) /\ SlotsOf(todo.unit) # {})'
      BY <1>1, <2>6 DEF WaInv, Cached, SlotsOf, IsOpened
    <3>2. QED
      BY <2>5, <3>1 DEF Cached, NoTodo
  <2>10. QED
    BY <1>2, <2>8, <2>9 DEF WaInv
<1>5. QED
  BY <1>3, <1>4, ScrapFacts

\* Without pages words go to the disk at once.
DirectWrites ==
    LET u == todo.unit
        f == fgfdt[u].name
        last == Piece.adr + Piece.n - 1
    IN \/ todo.kind # "write" /\ UNCHANGED <<wadisk, fgfdt>>
       \/ /\ fgfdt' = [fgfdt EXCEPT ![u].file_size = AtLeast(fgfdt[u].file_size, last)]
          /\ \E p : /\ p.touch = 1 /\ p.walast = last
                    /\ wadisk' = [wadisk EXCEPT ![f] = WordsAfter(wadisk[f], p)]

\* A request without pages writes the words on disk and the size in FGFDT, or reads.
LEMMA DirectFacts ==
    ASSUME WaInv, Direct
    PROVE  /\ todo # NoTodo /\ cfg_size = 0 /\ Done(Piece.n) /\ Piece.adr + Piece.n - 1 \in Int
           /\ DirectWrites
           /\ UNCHANGED <<descriptor, wafile, config, cache, says>>
<1> DEFINE u == todo.unit
           f == fgfdt[u].name
           last == Piece.adr + Piece.n - 1
           p == [wa0 |-> Piece.adr, walast |-> last, touch |-> 1,
                 word |-> [k \in 0 .. Piece.n - 1 |-> Piece.word]]
           A == /\ wadisk' = [wadisk EXCEPT ![descriptor[fgfdt[u].fd]] = WordsAfter(@, p)]
                /\ fgfdt' = [fgfdt EXCEPT ![u].file_size = AtLeast(@, last)]
                /\ got' = <<>>
           B == /\ got' = SubSeq(wadisk[descriptor[fgfdt[u].fd]], Piece.adr, last)
                /\ UNCHANGED <<wadisk, fgfdt>>
<1>1. /\ todo # NoTodo /\ cfg_size = 0 /\ Done(Piece.n)
      /\ UNCHANGED <<descriptor, wafile, config, cache, says>>
  BY Zenon DEF Direct
<1>2. IF todo.kind = "write" THEN A ELSE B
  BY Zenon DEF Direct
<1>3. last \in Int
  BY <1>1, PieceFacts DEF WaInv
<1>4. descriptor[fgfdt[u].fd] = f
  BY <1>1, RequestFacts
<1>5. ASSUME A PROVE DirectWrites
  <2>1. p.touch = 1 /\ p.walast = last
    OBVIOUS
  <2>2. /\ fgfdt' = [fgfdt EXCEPT ![u].file_size = AtLeast(fgfdt[u].file_size, last)]
        /\ wadisk' = [wadisk EXCEPT ![f] = WordsAfter(wadisk[f], p)]
    <3> HIDE DEF p, last
    <3> QED
      BY <1>4, <1>5
  <2> HIDE DEF p
  <2>3. QED
    BY <2>1, <2>2, Zenon DEF DirectWrites
<1>6. ASSUME B, todo.kind # "write" PROVE DirectWrites
  BY <1>6, Zenon DEF DirectWrites
<1>7. DirectWrites
  <2> HIDE DEF A, B
  <2> QED
    BY <1>2, <1>5, <1>6
<1>8. QED
  BY <1>1, <1>3, <1>7

\* A request without pages keeps the invariant.
LEMMA DirectStep == ASSUME WaInv, Direct PROVE WaInv'
<1> DEFINE u == todo.unit
           f == fgfdt[u].name
<1>1. /\ todo # NoTodo /\ Done(Piece.n) /\ Piece.adr + Piece.n - 1 \in Int /\ DirectWrites
      /\ UNCHANGED <<descriptor, wafile, config, cache>>
  BY DirectFacts
<1>2. PICK last \in Int : last = Piece.adr + Piece.n - 1
  BY <1>1
<1>3. u \in Units /\ f \in Names /\ IsWords(wadisk[f]) /\ fgfdt[u].file_size \in Int
  BY <1>1, RequestFacts
<1>4. /\ DOMAIN wadisk' = Names /\ \A g \in Names : IsWords(wadisk'[g])
      /\ \/ UNCHANGED fgfdt
         \/ \E v \in Units, z \in Int : fgfdt' = [fgfdt EXCEPT ![v].file_size = z]
  <2>1. CASE UNCHANGED <<wadisk, fgfdt>>
    BY <2>1 DEF WaInv, WaTypes
  <2>2. CASE ~UNCHANGED <<wadisk, fgfdt>>
    <3>1. /\ fgfdt' = [fgfdt EXCEPT ![u].file_size = AtLeast(fgfdt[u].file_size, last)]
          /\ \E p : /\ p.touch = 1 /\ p.walast = last
                    /\ wadisk' = [wadisk EXCEPT ![f] = WordsAfter(wadisk[f], p)]
      BY <1>1, <1>2, <2>2, Zenon DEF DirectWrites
    <3>2. PICK p : p.touch = 1 /\ p.walast = last
                   /\ wadisk' = [wadisk EXCEPT ![f] = WordsAfter(wadisk[f], p)]
      BY <3>1
    <3>3. AtLeast(fgfdt[u].file_size, last) \in Int
      BY <1>3 DEF AtLeast
    <3>4. \E v \in Units, z \in Int : fgfdt' = [fgfdt EXCEPT ![v].file_size = z]
      BY <1>3, <3>1, <3>3, Zenon
    <3>5. IsWords(WordsAfter(wadisk[f], p))
      <4> HIDE DEF f
      <4> QED
        BY <1>3, <3>2, WordsAfterFacts
    <3> HIDE DEF f
    <3>6. DOMAIN wadisk' = Names /\ \A g \in Names : IsWords(wadisk'[g])
      BY <1>3, <3>2, <3>5 DEF WaInv, WaTypes
    <3>7. QED
      BY <3>4, <3>6
  <2>3. QED
    BY <2>1, <2>2
<1>5. /\ Connected'
      /\ fgfdt' \in [Units -> [name : Names \cup {NoName}, fd : Int, open_flag : {0, 1},
                               file_size : Int]]
      /\ \A v \in Units : fgfdt'[v].fd = fgfdt[v].fd /\ (IsOpened(v)' <=> IsOpened(v))
  BY <1>1, <1>4, SizeStep
<1>6. /\ todo' = NoTodo \/ todo' \in [kind : {"read", "write"}, unit : Units, adr : Int,
                                   n : Int, word : Words \cup {Junk}, hole : Int]
      /\ todo' # NoTodo => todo'.unit = todo.unit
  BY <1>1, DoneFacts DEF WaInv
<1>7. WaTypes'
  BY <1>1, <1>4, <1>5, <1>6 DEF WaInv, WaTypes, config, cache, NoTodo
<1>8. Cached'
  <2>1. BuffersConserved'
    BY <1>1 DEF WaInv, Cached, BuffersConserved, PagesInCore, config, cache
  <2>2. todo' # NoTodo => (IsOpened(todo.unit) /\ SlotsOf(todo.unit) # {})'
    <3>1. IsOpened(u) /\ SlotsOf(u) # {}
      BY <1>1 DEF WaInv, Cached
    <3>2. \A v \in Units : SlotsOf(v)' = SlotsOf(v) /\ (IsOpened(v)' <=> IsOpened(v))
      BY <1>1, <1>5 DEF SlotsOf
    <3>3. QED
      BY <1>3, <1>6, <3>1, <3>2 DEF SlotsOf, IsOpened
  <2>3. QED
    BY <1>1, <2>1, <2>2 DEF WaInv, Cached, config, NoTodo
<1>9. QED
  BY <1>5, <1>7, <1>8 DEF WaInv

\* What a call asks for is a request.
LEMMA RequestStep ==
    ASSUME WaInv, NEW u \in Units, NEW adr \in Adrs, NEW n \in Lengths,
           Waread(u, adr, n) \/ \E w \in Words : Wawrit(u, adr, n, w)
    PROVE  /\ WaInv' /\ UNCHANGED <<wadisk, descriptor, fgfdt, wafile, config, cache, says>>
           /\ todo' # NoTodo /\ todo'.unit = u /\ IsOpened(u)
           /\ todo'.kind = "write" =>
                 \/ todo'.hole = 0 /\ adr <= fgfdt[u].file_size + 1
                 \/ todo'.hole > 0 /\ todo'.hole = adr - fgfdt[u].file_size
           /\ todo'.adr = adr
<1>1. /\ fgfdt[u].file_size \in Int /\ adr \in Int /\ n \in Int
  BY WaAssumption DEF WaInv, WaTypes
<1> DEFINE size == fgfdt[u].file_size
           Asked ==
      /\ todo' \in [kind : {"read", "write"}, unit : Units, adr : Int, n : Int,
                    word : Words \cup {Junk}, hole : Int]
      /\ todo'.unit = u /\ todo'.adr = adr
      /\ todo'.kind = "write" =>
                 \/ todo'.hole = 0 /\ adr <= size + 1
                 \/ todo'.hole > 0 /\ todo'.hole = adr - size
      /\ IsOpened(u) /\ SlotsOf(u) # {}
      /\ UNCHANGED <<wadisk, descriptor, fgfdt, wafile, config, cache, says>>
<1>2. Asked
  <2>1. CASE Waread(u, adr, n)
    <3>1. PICK m \in Int : m = AtMost(n, size - adr + 1)
      BY <1>1 DEF AtMost
    <3>2. todo' = [kind |-> "read", unit |-> u, adr |-> adr, n |-> m, word |-> Junk, hole |-> 0]
      BY <2>1, <3>1 DEF Waread
    <3>3. QED
      BY <1>1, <2>1, <3>2 DEF Waread, IsOpened
  <2>2. ASSUME NEW w \in Words, Wawrit(u, adr, n, w)
        PROVE  Asked
    <3>1. PICK h \in Int : h = IF adr > size + 1 THEN adr - size ELSE 0
      BY <1>1
    <3>2. todo' = [kind |-> "write", unit |-> u, adr |-> adr, n |-> n, word |-> w, hole |-> h]
      BY <2>2, <3>1 DEF Wawrit
    <3>3. (h = 0 /\ adr <= size + 1) \/ (h > 0 /\ h = adr - size)
      BY <1>1, <3>1
    <3>4. QED
      BY <1>1, <2>2, <3>2, <3>3 DEF Wawrit, IsOpened
  <2>3. QED
    BY <2>1, <2>2
<1>3. todo' # NoTodo
  BY <1>2 DEF NoTodo
<1>4. WaTypes'
  BY <1>2 DEF WaInv, WaTypes, config, cache
<1>5. Connected'
  BY <1>2 DEF WaInv, Connected, IsOpened
<1>6. Cached'
  BY <1>2 DEF WaInv, Cached, BuffersConserved, PagesInCore, config, cache, SlotsOf, IsOpened
<1>7. QED
  BY <1>2, <1>3, <1>4, <1>5, <1>6 DEF WaInv

\* Nothing happens.
LEMMA WaStutters == ASSUME WaInv, UNCHANGED wavars PROVE WaInv'
<1>1. UNCHANGED <<wadisk, descriptor, fgfdt, wafile, cfg_size, cfg_nb, global_count, nfree, todo>>
  BY DEF wavars
<1>2. WaTypes'
  BY <1>1 DEF WaInv, WaTypes, NoTodo
<1>3. Connected'
  BY <1>1 DEF WaInv, Connected, IsOpened
<1>4. Cached'
  BY <1>1 DEF WaInv, Cached, BuffersConserved, PagesInCore, SlotsOf, IsOpened
<1>5. QED
  BY <1>2, <1>3, <1>4 DEF WaInv

\* Opening: a unit that has no file gets one that is on no other, or its own again.
Opens(u, f) ==
    /\ Ready /\ fgfdt[u].open_flag = 0 /\ Connect(u, f) /\ got' = <<>>
    /\ UNCHANGED <<wadisk, config, cache, todo>>
    /\ \A v \in Units : v # u => fgfdt[v].name # f

\* c_fnom and c_waopen2 both open: the file is on no other unit.
LEMMA OpensFacts ==
    ASSUME WaInv, NEW u \in Units,
           Waopen(u) \/ \E f \in Names : Fnom(u, f)
    PROVE  \E f \in Names : Opens(u, f)
<1>1. CASE Waopen(u)
  <2>1. fgfdt[u].name \in Names /\ fgfdt[u].name # NoName
    BY <1>1 DEF Waopen, WaInv, WaTypes
  <2>2. \A v \in Units : v # u => fgfdt[v].name # fgfdt[u].name
    BY <2>1 DEF WaInv, Connected
  <2>3. Opens(u, fgfdt[u].name)
    BY <1>1, <2>2, Zenon DEF Opens, Waopen
  <2>4. QED
    BY <2>1, <2>3
<1>2. ASSUME NEW f \in Names, Fnom(u, f) PROVE Opens(u, f)
  <2>1. fgfdt[u].name = NoName /\ \A v \in Units : fgfdt[v].name # f
    BY <1>2, Zenon DEF Fnom
  <2>2. fgfdt[u].open_flag = 0
    <3>1. ~IsOpened(u)
      BY <2>1, WaAssumption DEF WaInv, Connected
    <3>2. QED
      BY <3>1 DEF WaInv, WaTypes, IsOpened
  <2>3. QED
    BY <1>2, <2>1, <2>2, Zenon DEF Opens, Fnom
<1>3. QED
  BY <1>1, <1>2

\* Opening keeps the invariant.
LEMMA OpensStep == ASSUME WaInv, NEW u \in Units, NEW f \in Names, Opens(u, f) PROVE WaInv'
<1>1. todo = NoTodo /\ ~IsOpened(u)
  BY DEF Opens, Ready, IsOpened
<1>2. QED
  BY <1>1, ConnectStep DEF Opens

\* The steps of the program, by name.
WaStep ==
    \/ \E u \in Units :
          \/ \E f \in Names : Opens(u, f)
          \/ Waclos(u) \/ Fclos(u)
          \/ \E adr \in Adrs, n \in Lengths :
                Waread(u, adr, n) \/ \E w \in Words : Wawrit(u, adr, n, w)
    \/ \E s \in Slots : \E i : Scrap(s, i)
    \/ WritePage \/ ReadPage \/ Direct \/ UNCHANGED wavars

\* Every step is one of these.
LEMMA WaSteps == ASSUME WaInv, [WaNext]_wavars PROVE WaStep
<1>1. ASSUME NEW u \in Units, Waopen(u) \/ \E f \in Names : Fnom(u, f) PROVE WaStep
  BY <1>1, OpensFacts, Zenon DEF WaStep
<1>2. QED
  BY <1>1, Zenon DEF WaNext, WaStep

\* Every step keeps the invariant.
LEMMA WaInvKept == ASSUME WaInv, [WaNext]_wavars PROVE WaInv'
<1>1. WaStep
  BY WaSteps
<1>2. ASSUME NEW u \in Units, NEW f \in Names, Opens(u, f) PROVE WaInv'
  BY <1>2, OpensStep
<1>3. ASSUME NEW u \in Units, Waclos(u) \/ Fclos(u) PROVE WaInv'
  BY <1>3, WaclosStep, FclosStep
<1>4. ASSUME NEW u \in Units, NEW adr \in Adrs, NEW n \in Lengths,
             Waread(u, adr, n) \/ \E w \in Words : Wawrit(u, adr, n, w)
      PROVE  WaInv'
  BY <1>4, RequestStep
<1>5. ASSUME NEW s \in Slots, NEW i, Scrap(s, i) PROVE WaInv'
  BY <1>5, ScrapStep
<1>6. QED
  BY <1>1, <1>2, <1>3, <1>4, <1>5, WriteStep, ReadStep, DirectStep, WaStutters, Zenon DEF WaStep

\* Every page buffer is on free_list or holds one page, there are no more than the limit
\* WA_CONFIG sets, and no file has more than its share, whatever programs open, close and
\* ask for, and in whatever way room is made for pages.
THEOREM BuffersStayConserved == WaSpec => []BuffersConserved
<1>1. WaInit => WaInv
  BY InitWaInv
<1>2. WaInv /\ [WaNext]_wavars => WaInv'
  BY WaInvKept
<1>3. WaInv => BuffersConserved
  BY DEF WaInv, Cached
<1>4. QED
  BY <1>1, <1>2, <1>3, PTL DEF WaSpec

-----------------------------------------------------------------------------
(* When no unit is forgotten while it is open.                             *)

\* The steps that change neither descriptors nor slots.
LEMMA SlotsSame ==
    ASSUME SlotsMatch,
           \A t \in Slots : wafile'[t].file_desc = wafile[t].file_desc,
           \A v \in Units : fgfdt'[v].fd = fgfdt[v].fd /\ (IsOpened(v)' <=> IsOpened(v)),
           says' = "too_many_open_files" => says = "too_many_open_files"
    PROVE  SlotsMatch'
<1>1. \A v \in Units : SlotsOf(v)' = SlotsOf(v)
  BY DEF SlotsOf
<1>2. (\A u \in Units : IsOpened(u) => SlotsOf(u) # {})'
  BY <1>1 DEF SlotsMatch
<1>3. (\A s \in Slots : wafile[s].file_desc # -1 =>
          \E u \in Units : IsOpened(u) /\ fgfdt[u].fd = wafile[s].file_desc)'
  BY DEF SlotsMatch
<1>4. (\A s, t \in Slots :
          wafile[s].file_desc = wafile[t].file_desc /\ wafile[s].file_desc # -1 => s = t)'
  BY DEF SlotsMatch
<1>5. (says = "too_many_open_files" => \A s \in Slots : wafile[s].file_desc # -1)'
  BY DEF SlotsMatch
<1>6. QED
  BY <1>2, <1>3, <1>4, <1>5 DEF SlotsMatch

\* A unit that is opened takes a slot nobody has.
LEMMA OpensMatches ==
    ASSUME WaInv, SlotsMatch, NEW u \in Units, NEW f \in Names, Opens(u, f)
    PROVE  SlotsMatch'
<1>1. Connect(u, f) /\ says = "nothing" /\ ~IsOpened(u)
  BY DEF Opens, Ready, IsOpened
<1>2. CASE NoSlot
  <2>1. UNCHANGED <<descriptor, fgfdt, wafile>> /\ \A s \in Slots : wafile[s].file_desc # -1
    BY <1>2 DEF NoSlot
  <2>2. \A v \in Units : SlotsOf(v)' = SlotsOf(v) /\ (IsOpened(v)' <=> IsOpened(v))
    BY <2>1 DEF SlotsOf, IsOpened
  <2>3. QED
    BY <2>1, <2>2 DEF SlotsMatch
<1>3. ASSUME NEW d \in Fds, NEW s \in Slots, Takes(u, f, d, s) PROVE SlotsMatch'
  <2>1. /\ descriptor[d] = NoName /\ wafile[s].file_desc = -1 /\ says' = says
        /\ wafile'[s].file_desc = d
        /\ \A t \in Slots \ {s} : wafile'[t].file_desc = wafile[t].file_desc
        /\ fgfdt'[u].fd = d /\ fgfdt'[u].open_flag = 1
        /\ \A v \in Units \ {u} : fgfdt'[v] = fgfdt[v]
    <3>1. /\ wafile[s] = [file_desc |-> wafile[s].file_desc, page |-> wafile[s].page]
          /\ DOMAIN wafile = Slots /\ DOMAIN fgfdt = Units
      BY SlotFacts DEF WaInv, WaTypes
    <3>2. QED
      BY <1>3, <3>1 DEF Takes
  <2>2. d # -1
    BY WaAssumption, FS_CardinalityType DEF Fds
  <2>3. \A v \in Units : IsOpened(v) => v # u /\ fgfdt[v].fd # d
    BY <1>1, <2>1, UnitFacts, WaAssumption
  <2>4. \A t \in Slots : wafile[t].file_desc # d
    BY <2>2, <2>3 DEF SlotsMatch
  <2>5. (\A v \in Units : IsOpened(v) => SlotsOf(v) # {})'
    <3>1. SUFFICES ASSUME NEW v \in Units, IsOpened(v)'
                   PROVE  \E t \in Slots : wafile'[t].file_desc = fgfdt'[v].fd
      BY DEF SlotsOf
    <3>2. CASE v = u
      BY <2>1, <3>2
    <3>3. CASE v # u
      <4>1. IsOpened(v) /\ fgfdt'[v] = fgfdt[v]
        BY <2>1, <3>1, <3>3 DEF IsOpened
      <4>2. PICK t \in Slots : wafile[t].file_desc = fgfdt[v].fd
        BY <4>1 DEF SlotsMatch, SlotsOf
      <4>3. t # s
        BY <2>1, <4>1, <4>2, UnitFacts, WaAssumption, FS_CardinalityType DEF Fds
      <4>4. QED
        BY <2>1, <4>1, <4>2, <4>3
    <3>4. QED
      BY <3>2, <3>3
  <2>6. (\A t \in Slots : wafile[t].file_desc # -1 =>
            \E v \in Units : IsOpened(v) /\ fgfdt[v].fd = wafile[t].file_desc)'
    <3>1. SUFFICES ASSUME NEW t \in Slots, wafile'[t].file_desc # -1
                   PROVE  \E v \in Units : IsOpened(v)' /\ fgfdt'[v].fd = wafile'[t].file_desc
      OBVIOUS
    <3>2. CASE t = s
      BY <2>1, <3>2 DEF IsOpened
    <3>3. CASE t # s
      <4>1. PICK v \in Units : IsOpened(v) /\ fgfdt[v].fd = wafile[t].file_desc
        BY <2>1, <3>1, <3>3 DEF SlotsMatch
      <4>2. v # u
        BY <2>3, <4>1
      <4>3. QED
        BY <2>1, <3>3, <4>1, <4>2 DEF IsOpened
    <3>4. QED
      BY <3>2, <3>3
  <2>7. (\A t, r \in Slots :
            wafile[t].file_desc = wafile[r].file_desc /\ wafile[t].file_desc # -1 => t = r)'
    BY <2>1, <2>4 DEF SlotsMatch
  <2>8. (says = "too_many_open_files" => \A t \in Slots : wafile[t].file_desc # -1)'
    BY <1>1, <2>1
  <2>9. QED
    BY <2>5, <2>6, <2>7, <2>8 DEF SlotsMatch
<1>4. QED
  BY <1>1, <1>2, <1>3, ConnectFacts

\* A unit that is closed gives its slot back.
LEMMA WaclosMatches ==
    ASSUME WaInv, SlotsMatch, NEW u \in Units, Waclos(u)
    PROVE  SlotsMatch'
<1> DEFINE s == SlotOf(u)
<1>1. /\ IsOpened(u) /\ SlotsOf(u) # {} /\ says = "nothing" /\ says' = says
  BY DEF Waclos, IsOpened, Ready
<1>2. s \in Slots /\ wafile[s].file_desc = fgfdt[u].fd
  BY <1>1, SlotFound DEF SlotsOf
<1>3. /\ wafile' = [wafile EXCEPT ![s] = NoSlotUsed]
      /\ fgfdt' = [fgfdt EXCEPT ![u].fd = -1, ![u].open_flag = 0,
                                ![u].file_size = IF cfg_size = 0 THEN @ ELSE 0]
  BY Zenon DEF Waclos, SlotClosed
<1> HIDE DEF s
<1>4. /\ wafile'[s].file_desc = -1 /\ \A t \in Slots \ {s} : wafile'[t] = wafile[t]
      /\ fgfdt'[u].open_flag = 0 /\ \A v \in Units \ {u} : fgfdt'[v] = fgfdt[v]
  <2>1. DOMAIN wafile = Slots /\ DOMAIN fgfdt = Units
    BY DEF WaInv, WaTypes
  <2>2. \A v \in Units : fgfdt[v] \in [name : Names \cup {NoName}, fd : Int, open_flag : {0, 1},
                                       file_size : Int]
    BY DEF WaInv, WaTypes
  <2>3. PICK z : z = IF cfg_size = 0 THEN fgfdt[u].file_size ELSE 0
    OBVIOUS
  <2>4. fgfdt' = [fgfdt EXCEPT ![u].fd = -1, ![u].open_flag = 0, ![u].file_size = z]
    BY <1>3, <2>3
  <2>5. QED
    BY <1>2, <1>3, <2>1, <2>2, <2>4 DEF NoSlotUsed
<1>5. \A v \in Units : IsOpened(v) /\ v # u => fgfdt[v].fd # fgfdt[u].fd
  BY <1>1, UnitFacts, WaAssumption DEF WaInv, Connected
<1>6. (\A v \in Units : IsOpened(v) => SlotsOf(v) # {})'
  <2>1. SUFFICES ASSUME NEW v \in Units, IsOpened(v)'
                 PROVE  \E t \in Slots : wafile'[t].file_desc = fgfdt'[v].fd
    BY DEF SlotsOf
  <2>2. v # u /\ IsOpened(v) /\ fgfdt'[v] = fgfdt[v]
    BY <1>4, <2>1 DEF IsOpened
  <2>3. PICK t \in Slots : wafile[t].file_desc = fgfdt[v].fd
    BY <2>2 DEF SlotsMatch, SlotsOf
  <2>4. t # s
    BY <1>2, <1>5, <2>2, <2>3
  <2>5. QED
    BY <1>4, <2>2, <2>3, <2>4
<1>7. (\A t \in Slots : wafile[t].file_desc # -1 =>
          \E v \in Units : IsOpened(v) /\ fgfdt[v].fd = wafile[t].file_desc)'
  <2>1. SUFFICES ASSUME NEW t \in Slots, wafile'[t].file_desc # -1
                 PROVE  \E v \in Units : IsOpened(v)' /\ fgfdt'[v].fd = wafile'[t].file_desc
    OBVIOUS
  <2>2. t # s /\ wafile'[t] = wafile[t]
    BY <1>4, <2>1
  <2>3. PICK v \in Units : IsOpened(v) /\ fgfdt[v].fd = wafile[t].file_desc
    BY <2>1, <2>2 DEF SlotsMatch
  <2>4. v # u
    BY <1>2, <2>1, <2>2, <2>3 DEF SlotsMatch
  <2>5. QED
    BY <1>4, <2>2, <2>3, <2>4 DEF IsOpened
<1>8. (\A t, r \in Slots :
          wafile[t].file_desc = wafile[r].file_desc /\ wafile[t].file_desc # -1 => t = r)'
  BY <1>4 DEF SlotsMatch
<1>9. QED
  BY <1>1, <1>6, <1>7, <1>8 DEF SlotsMatch

\* What requests say.
LEMMA SaysFacts ==
    ASSUME WritePage \/ ReadPage
    PROVE  says' \in {says, "cannot_read_page", "overlapping_pages"}
<1> DEFINE Said(x, y) == says' = IF x THEN "cannot_read_page"
                                 ELSE IF y THEN "overlapping_pages" ELSE says
<1>1. \A x, y \in BOOLEAN : Said(x, y) => says' \in {says, "cannot_read_page", "overlapping_pages"}
  OBVIOUS
<1>2. QED
  BY <1>1, Zenon DEF WritePage, ReadPage

\* Nothing else gives or takes a slot.
LEMMA SlotsMatchKept ==
    ASSUME ~FclosesOpen, WaInv, SlotsMatch, [WaNext]_wavars
    PROVE  SlotsMatch'
<1>1. WaStep
  BY WaSteps
<1>2. ASSUME NEW u \in Units, Fclos(u) PROVE SlotsMatch'
  <2>1. fgfdt[u].open_flag # 1 /\ fgfdt' = [fgfdt EXCEPT ![u] = NoUnit] /\ says' = says
        /\ wafile' = wafile
    BY <1>2, Zenon DEF Fclos
  <2>2. \A v \in Units : IsOpened(v)' => v # u /\ IsOpened(v) /\ fgfdt'[v] = fgfdt[v]
    BY <2>1 DEF WaInv, WaTypes, IsOpened, NoUnit
  <2>3. \A v \in Units : IsOpened(v) => IsOpened(v)' /\ fgfdt'[v] = fgfdt[v]
    BY <2>1 DEF WaInv, WaTypes, IsOpened
  <2>4. (\A v \in Units : IsOpened(v) => SlotsOf(v) # {})'
    BY <2>1, <2>2 DEF SlotsMatch, SlotsOf
  <2>5. (\A t \in Slots : wafile[t].file_desc # -1 =>
            \E v \in Units : IsOpened(v) /\ fgfdt[v].fd = wafile[t].file_desc)'
    BY <2>1, <2>3 DEF SlotsMatch
  <2>6. QED
    BY <2>1, <2>4, <2>5 DEF SlotsMatch
<1>3. ASSUME NEW u \in Units, NEW adr \in Adrs, NEW n \in Lengths,
             Waread(u, adr, n) \/ \E w \in Words : Wawrit(u, adr, n, w)
      PROVE  SlotsMatch'
  <2>1. UNCHANGED <<fgfdt, wafile, says>>
    BY <1>3, RequestStep
  <2>2. QED
    BY <2>1, SlotsSame DEF IsOpened
<1>4. ASSUME NEW s \in Slots, NEW i, Scrap(s, i) PROVE SlotsMatch'
  <2>1. UNCHANGED fgfdt /\ (Scraps(s, i) \/ CannotScrap(s, i))
    BY <1>4, ScrapFacts
  <2>2. says' = says \/ says' = "cannot_write_page"
    BY <2>1, Zenon DEF Scraps, CannotScrap
  <2>3. \A t \in Slots : wafile'[t].file_desc = wafile[t].file_desc
    <3>1. CASE CannotScrap(s, i)
      BY <3>1 DEF CannotScrap
    <3>2. CASE Scraps(s, i)
      <4>1. wafile' = [wafile EXCEPT ![s].page = RemoveAt(wafile[s].page, i)]
        BY <3>2, Zenon DEF Scraps
      <4>2. /\ wafile[s] = [file_desc |-> wafile[s].file_desc, page |-> wafile[s].page]
            /\ DOMAIN wafile = Slots
        BY SlotFacts DEF WaInv, WaTypes
      <4>3. QED
        BY <4>1, <4>2
    <3>3. QED
      BY <2>1, <3>1, <3>2
  <2>4. QED
    BY <2>1, <2>2, <2>3, SlotsSame DEF IsOpened
<1>5. ASSUME WritePage \/ ReadPage PROVE SlotsMatch'
  <2> DEFINE s == SlotOf(todo.unit)
  <2>1. s \in Slots
    BY <1>5, WriteFacts, ReadFacts, RequestFacts
  <2>2. PICK q : wafile' = [wafile EXCEPT ![s].page = q]
    <3>1. CASE WritePage
      BY <3>1, WriteFacts, Zenon DEF WritesPage
    <3>2. CASE ReadPage
      BY <3>2, ReadFacts, Zenon DEF ReadsPage
    <3>3. QED
      BY <1>5, <3>1, <3>2
  <2> HIDE DEF s
  <2>3. \A t \in Slots : wafile'[t].file_desc = wafile[t].file_desc
    <3>1. /\ wafile[s] = [file_desc |-> wafile[s].file_desc, page |-> wafile[s].page]
          /\ DOMAIN wafile = Slots
      BY <2>1, SlotFacts DEF WaInv, WaTypes
    <3>2. QED
      BY <2>1, <2>2, <3>1
  <2>4. \A v \in Units : fgfdt'[v].fd = fgfdt[v].fd /\ (IsOpened(v)' <=> IsOpened(v))
    <3>1. CASE WritePage
      <4>1. \E z : fgfdt' = [fgfdt EXCEPT ![todo.unit].file_size = z]
        BY <3>1, WriteFacts, Zenon DEF WritesPage
      <4>2. QED
        BY <4>1 DEF WaInv, WaTypes, IsOpened
    <3>2. CASE ReadPage
      <4>1. fgfdt' = fgfdt
        BY <3>2, Zenon DEF ReadPage
      <4>2. QED
        BY <4>1 DEF IsOpened
    <3>3. QED
      BY <1>5, <3>1, <3>2
  <2>5. QED
    BY <1>5, <2>3, <2>4, SaysFacts, SlotsSame
<1>6. ASSUME Direct PROVE SlotsMatch'
  <2>1. UNCHANGED <<wafile, says>> /\ DirectWrites
    BY <1>6, DirectFacts
  <2>2. \A v \in Units : fgfdt'[v].fd = fgfdt[v].fd /\ (IsOpened(v)' <=> IsOpened(v))
    <3>1. \E z : fgfdt' = [fgfdt EXCEPT ![todo.unit].file_size = z] \/ fgfdt' = fgfdt
      BY <2>1, Zenon DEF DirectWrites
    <3>2. QED
      BY <3>1 DEF WaInv, WaTypes, IsOpened
  <2>3. QED
    BY <2>1, <2>2, SlotsSame
<1>7. ASSUME UNCHANGED wavars PROVE SlotsMatch'
  BY <1>7, SlotsSame DEF wavars, IsOpened
<1>8. QED
  BY <1>1, <1>2, <1>3, <1>4, <1>5, <1>6, <1>7, OpensMatches, WaclosMatches, Zenon DEF WaStep

\* As many units are open as there are slots, when there is none left.
LEMMA SlotsAreUnits ==
    ASSUME WaInv, SlotsMatch, says = "too_many_open_files"
    PROVE  Cardinality({u \in Units : fgfdt[u].open_flag = 1}) = MAXWAFILES
<1> DEFINE Open == {u \in Units : fgfdt[u].open_flag = 1}
           of(s) == CHOOSE u \in Units : IsOpened(u) /\ fgfdt[u].fd = wafile[s].file_desc
           by == [s \in Slots |-> of(s)]
<1>1. \A s \in Slots : of(s) \in Open /\ fgfdt[of(s)].fd = wafile[s].file_desc
  <2> TAKE s \in Slots
  <2>1. \E u \in Units : IsOpened(u) /\ fgfdt[u].fd = wafile[s].file_desc
    BY DEF SlotsMatch
  <2>2. of(s) \in Units /\ IsOpened(of(s)) /\ fgfdt[of(s)].fd = wafile[s].file_desc
    BY <2>1
  <2> HIDE DEF of
  <2>3. QED
    BY <2>2 DEF IsOpened
<1> HIDE DEF of
<1>2. \A s, t \in Slots : of(s) = of(t) => s = t
  BY <1>1 DEF SlotsMatch
<1>3. \A u \in Open : \E s \in Slots : of(s) = u
  <2> TAKE u \in Open
  <2>1. PICK s \in Slots : wafile[s].file_desc = fgfdt[u].fd
    BY DEF SlotsMatch, SlotsOf, IsOpened
  <2>2. of(s) \in Open /\ fgfdt[of(s)].fd = fgfdt[u].fd
    BY <1>1, <2>1
  <2>3. fgfdt[of(s)].name = fgfdt[u].name /\ fgfdt[u].name # NoName
    BY <2>2, UnitFacts, WaAssumption DEF IsOpened
  <2>4. of(s) = u
    BY <2>2, <2>3 DEF WaInv, Connected
  <2>5. QED
    BY <2>4
<1>4. by \in Bijection(Slots, Open)
  <2>1. by \in [Slots -> Open]
    BY <1>1
  <2>2. \A s, t \in Slots : by[s] = by[t] => s = t
    BY <1>2
  <2>3. \A u \in Open : \E s \in Slots : by[s] = u
    BY <1>3
  <2> HIDE DEF by, Open
  <2>4. QED
    BY <2>1, <2>2, <2>3 DEF Bijection, Injection, Surjection, IsInjective
<1>5. IsFiniteSet(Slots) /\ Cardinality(Slots) = MAXWAFILES
  <2>1. 1 \in Int /\ MAXWAFILES \in Int /\ 1 <= MAXWAFILES /\ MAXWAFILES - 1 + 1 = MAXWAFILES
    BY WaAssumption
  <2>2. \A a, b \in Int : /\ IsFiniteSet(a .. b)
                          /\ a <= b => Cardinality(a .. b) = b - a + 1
    BY FS_Interval
  <2>3. IsFiniteSet(1 .. MAXWAFILES) /\ Cardinality(1 .. MAXWAFILES) = MAXWAFILES - 1 + 1
    BY <2>1, <2>2
  <2>4. QED
    BY <2>1, <2>3 DEF Slots
<1>6. Cardinality(Slots) = Cardinality(Open)
  <2> HIDE DEF by, Open
  <2> QED
    BY <1>4, <1>5, FS_Bijection DEF ExistsBijection
<1>7. QED
  BY <1>5, <1>6

\* A file is refused only when every slot belongs to a unit that is open, as long as
\* programs waclos what they opened before they fclos it.
THEOREM RefusedOnlyWhenFull == ~FclosesOpen => (WaSpec => []RefusedWhenFull)
<1> SUFFICES ASSUME ~FclosesOpen PROVE WaSpec => []RefusedWhenFull
  OBVIOUS
<1>1. WaInit => WaInv /\ SlotsMatch
  <2>1. WaInit => SlotsMatch
    BY DEF WaInit, SlotsMatch, IsOpened, NoUnit, NoSlotUsed
  <2>2. QED
    BY <2>1, InitWaInv
<1>2. WaInv /\ SlotsMatch /\ [WaNext]_wavars => (WaInv /\ SlotsMatch)'
  BY WaInvKept, SlotsMatchKept
<1>3. WaInv /\ SlotsMatch => RefusedWhenFull
  BY SlotsAreUnits DEF RefusedWhenFull
<1>4. QED
  BY <1>1, <1>2, <1>3, PTL DEF WaSpec

-----------------------------------------------------------------------------
(* With one page to a file.                                                *)

\* How many words are asked of a page, c words long, from word a on of a file with z words,
\* and how many are read.
WordsAsked(c, z, a) == IF c + a > z THEN z + 1 - a ELSE c
WordsGot(n, z, a)   == AtMost(n, AtLeast(z - a + 1, 0))

\* What is read of a page is as much as is expected, and ends where the file does.
LEMMA WordsRead ==
    ASSUME NEW c \in Nat, NEW z \in Nat, NEW a \in Int, NEW e, e = WordsAsked(c, z, a),
           NEW n, n = c \/ n = e, NEW m, m = WordsGot(n, z, a)
    PROVE  /\ e \in Int /\ n \in Int /\ m \in Int
           /\ ~(a + m - 1 - a + 1 < e)
           /\ a + m - 1 <= z \/ a + m - 1 < a
           /\ n = e => a + m - 1 <= z
<1>1. (c + a > z /\ e = z + 1 - a) \/ (c + a <= z /\ e = c)
  BY DEF WordsAsked
<1>2. e \in Int /\ n \in Int /\ m \in Int
  BY <1>1 DEF AtMost, AtLeast, WordsGot
<1>3. CASE n = c
  BY <1>1, <1>2, <1>3 DEF AtMost, AtLeast, WordsGot
<1>4. CASE n = e
  BY <1>1, <1>2, <1>4 DEF AtMost, AtLeast, WordsGot
<1>5. QED
  BY <1>2, <1>3, <1>4

\* A page that is read has the words asked of it when the file is as long on disk as its
\* size says, and ends with the file, or before it begins.
LEMMA NotShort ==
    ASSUME NEW f, IsWords(wadisk[f]), NEW a \in Int, cfg_size \in Nat,
           NEW size, size = Len(wadisk[f]), NEW n \in {cfg_size, Expected(size, a)}
    PROVE  LET p == PageIn(f, a, n) IN
           /\ ~(p.walast - p.wa0 + 1 < Expected(size, a))
           /\ p.walast <= size \/ p.walast < p.wa0
           /\ n = Expected(size, a) => p.walast <= size
<1>1. PICK z \in Nat : z = size
  BY WordsFacts
<1>2. PICK c \in Nat : c = cfg_size
  OBVIOUS
<1>3. PICK e : e = Expected(size, a)
  OBVIOUS
<1>4. PICK m : m = WordsGot(n, z, a)
  OBVIOUS
<1>5. e = WordsAsked(c, z, a)
  BY <1>1, <1>2, <1>3 DEF Expected, WordsAsked
<1>6. /\ e \in Int /\ n \in Int /\ m \in Int
      /\ ~(a + m - 1 - a + 1 < e)
      /\ a + m - 1 <= z \/ a + m - 1 < a
      /\ n = e => a + m - 1 <= z
  <2>1. n = c \/ n = e
    BY <1>2, <1>3
  <2>2. QED
    BY <1>4, <1>5, <2>1, WordsRead
<1>7. PageIn(f, a, n).wa0 = a /\ PageIn(f, a, n).walast = a + m - 1
  <2>1. Len(wadisk[f]) = z
    BY <1>1
  <2>2. PICK p : p = PageIn(f, a, n)
    OBVIOUS
  <2>3. n \in Int
    BY <1>6
  <2>4. p.wa0 = a /\ p.walast = a + AtMost(n, AtLeast(Len(wadisk[f]) - a + 1, 0)) - 1
    BY <2>2, <2>3, PageInFacts
  <2>5. QED
    BY <1>4, <2>1, <2>2, <2>4 DEF WordsGot
<1>8. QED
  BY <1>1, <1>3, <1>6, <1>7

\* Why a request stops the program.
ShortWrite ==
    LET u    == todo.unit
        size == fgfdt[u].file_size
        read == PageIn(descriptor[fgfdt[u].fd], Wa0(Piece), Expected(size, Wa0(Piece)))
    IN NeedsPage /\ Rereads(Piece, size)
       /\ read.walast - read.wa0 + 1 < Expected(size, Wa0(Piece))
ShortRead ==
    LET u    == todo.unit
        read == PageIn(descriptor[fgfdt[u].fd], Wa0(Piece), cfg_size)
    IN NeedsPage /\ read.walast - read.wa0 + 1 < Expected(fgfdt[u].file_size, Wa0(Piece))
TwoPages(q) == \E j, k \in DOMAIN q : j # k

\* A write stops the program only for a page that is short or one that is not alone.
LEMMA WriteSays ==
    ASSUME WritePage
    PROVE  \E all : /\ wafile' = [wafile EXCEPT ![SlotOf(todo.unit)].page = all]
                    /\ says' = says \/ ShortWrite \/ TwoPages(all)
<1> DEFINE Over(q) == \E j, k \in DOMAIN q :
                         j # k /\ q[j].wa0 \in q[k].wa0 .. q[k].wa0 + cfg_size - 1
<1> DEFINE u == todo.unit
           s == SlotOf(u)
           old == wafile[s].page
           a == Piece
           f == descriptor[fgfdt[u].fd]
           size == fgfdt[u].file_size
           i == IF NeedsPage THEN Len(old) + 1 ELSE PageWith(s, a)
           base == IF ~NeedsPage THEN old[i]
                   ELSE IF Rereads(a, size) THEN PageIn(f, Wa0(a), Expected(size, Wa0(a)))
                   ELSE PageRaw(Wa0(a))
           last == a.adr + a.n - 1
           p == [base EXCEPT
                   !.touch = 1, !.walast = AtLeast(@, last),
                   !.word = [k \in DOMAIN @ |-> IF base.wa0 + k \in a.adr .. last
                                                THEN a.word ELSE @[k]]]
           all == IF NeedsPage THEN Append(old, p) ELSE [old EXCEPT ![i] = p]
<1>1. /\ wafile' = [wafile EXCEPT ![s].page = all]
      /\ says' = IF ShortWrite THEN "cannot_read_page"
                 ELSE IF Over(all) THEN "overlapping_pages" ELSE says
  BY Zenon DEF WritePage, ShortWrite
<1>2. \A q : Over(q) => TwoPages(q)
  BY Zenon DEF TwoPages
<1> HIDE DEF Over, all
<1>3. says' = says \/ ShortWrite \/ TwoPages(all)
  BY <1>1, <1>2
<1>4. QED
  BY <1>1, <1>3, Zenon

\* A read stops the program only for a page that is short or one that is not alone.
LEMMA ReadSays ==
    ASSUME ReadPage
    PROVE  \E all : /\ wafile' = [wafile EXCEPT ![SlotOf(todo.unit)].page = all]
                    /\ says' = says \/ ShortRead \/ TwoPages(all)
<1> DEFINE Over(q, p) == \E j, k \in DOMAIN q :
                            j # k /\ q[j].wa0 \in p.wa0 .. p.wa0 + cfg_size - 1
<1>1. \E all, p : /\ wafile' = [wafile EXCEPT ![SlotOf(todo.unit)].page = all]
                  /\ says' = IF ShortRead THEN "cannot_read_page"
                             ELSE IF Over(all, p) THEN "overlapping_pages" ELSE says
  BY Zenon DEF ReadPage, ShortRead
<1>2. \A all, p : Over(all, p) => TwoPages(all)
  BY Zenon DEF TwoPages
<1> HIDE DEF Over
<1>3. QED
  BY <1>1, <1>2

\* The request goes on where the file ends, or before.
LEMMA NextPiece ==
    ASSUME WaInv, todo # NoTodo, Done(Piece.n), NEW size \in Int,
           Piece.adr + Piece.n - 1 <= size, todo' # NoTodo
    PROVE  Piece.adr' <= size + 1
<1>1. Piece.adr \in Int /\ Piece.n \in Int
  BY PieceFacts DEF WaInv
<1>2. PICK next : next = IF todo'.hole > 0 THEN todo'.adr - todo'.hole + 1 ELSE todo'.adr
  OBVIOUS
<1>3. next <= Piece.adr + Piece.n /\ next \in Int
  BY <1>2, DoneFacts DEF WaInv
<1>4. Piece.adr' = next
  BY <1>2 DEF Piece
<1>5. QED
  BY <1>1, <1>3, <1>4

\* The page of a unit, and what it says of the size of the file.
LEMMA OnePageFacts ==
    ASSUME WaInv, OnePage, cfg_nb = 1, todo # NoTodo
    PROVE  LET u == todo.unit
               s == SlotOf(u)
           IN /\ SizeRight(u, s) /\ s \in SlotsOf(u)
              /\ Len(wafile[s].page) <= 1
              /\ todo.kind = "write" => Piece.adr <= fgfdt[u].file_size + 1
              /\ NeedsPage /\ HasRoom => wafile[s].page = <<>>
<1> DEFINE u == todo.unit
           s == SlotOf(u)
<1>1. u \in Units /\ IsOpened(u) /\ SlotsOf(u) # {} /\ s \in SlotsOf(u) /\ s \in Slots
  BY RequestFacts, SlotFound DEF WaInv, Cached
<1>2. SizeRight(u, s) /\ (todo.kind = "write" => Piece.adr <= fgfdt[u].file_size + 1)
  BY <1>1 DEF OnePage
<1>3. Len(wafile[s].page) <= 1
  BY <1>1 DEF WaInv, Cached, BuffersConserved
<1>4. NeedsPage /\ HasRoom => wafile[s].page = <<>>
  <2>1. NeedsPage /\ HasRoom => ~(Len(wafile[s].page) >= 1)
    BY DEF HasRoom, FileFull
  <2> HIDE DEF s
  <2>2. QED
    BY <1>1, <2>1, SlotFacts DEF WaInv
<1>5. QED
  BY <1>1, <1>2, <1>3, <1>4

\* The other units keep their pages and their sizes.
LEMMA OthersRight ==
    ASSUME WaInv, SlotsMatch, OnePage, NEW u \in Units, IsOpened(u), NEW s \in SlotsOf(u),
           \A t \in Slots \ {s} : wafile'[t] = wafile[t],
           wafile'[s].file_desc = wafile[s].file_desc,
           \A v \in Units \ {u} : fgfdt'[v] = fgfdt[v],
           fgfdt'[u].fd = fgfdt[u].fd /\ fgfdt'[u].open_flag = fgfdt[u].open_flag,
           \A f \in Names \ {fgfdt[u].name} : wadisk'[f] = wadisk[f],
           SizeRight(u, s)'
    PROVE  (\A v \in Units : IsOpened(v) => \A t \in SlotsOf(v) : SizeRight(v, t))'
<1> SUFFICES ASSUME NEW v \in Units, IsOpened(v)', NEW t \in Slots,
                    wafile'[t].file_desc = fgfdt'[v].fd
             PROVE  SizeRight(v, t)'
  BY DEF SlotsOf
<1>1. s \in Slots /\ wafile[s].file_desc = fgfdt[u].fd /\ fgfdt[u].fd # -1
  <2>1. -1 \notin Fds
    BY WaAssumption, FS_CardinalityType DEF Fds
  <2>2. QED
    BY <2>1, UnitFacts DEF SlotsOf
<1>2. wafile[t].file_desc = wafile'[t].file_desc
  BY <1>1
<1>3. CASE v = u
  <2>1. t = s
    BY <1>1, <1>2, <1>3 DEF SlotsMatch
  <2>2. QED
    BY <1>3, <2>1
<1>4. CASE v # u
  <2>1. IsOpened(v) /\ fgfdt'[v] = fgfdt[v]
    BY <1>4 DEF IsOpened
  <2>2. fgfdt[v].name # fgfdt[u].name /\ fgfdt[v].name \in Names
        /\ fgfdt[v].fd # fgfdt[u].fd
    BY <1>4, <2>1, UnitFacts, WaAssumption DEF WaInv, Connected
  <2>3. t # s
    BY <1>1, <1>2, <2>1, <2>2
  <2>4. SizeRight(v, t)
    BY <1>2, <2>1 DEF OnePage, SlotsOf
  <2>5. wafile'[t] = wafile[t] /\ wadisk'[fgfdt[v].name] = wadisk[fgfdt[v].name]
    BY <2>2, <2>3
  <2>6. QED
    BY <2>1, <2>4, <2>5 DEF SizeRight
<1>5. QED
  BY <1>3, <1>4

\* What the pages become when there is at most one.
LEMMA PageIsFirst ==
    ASSUME WaInv, WaInv', cfg_nb = 1, UNCHANGED config, NEW s \in Slots, NEW q,
           wafile' = [wafile EXCEPT ![s].page = q]
    PROVE  /\ wafile'[s].page = q /\ wafile'[s].file_desc = wafile[s].file_desc
           /\ \A t \in Slots \ {s} : wafile'[t] = wafile[t]
           /\ Len(q) <= 1 /\ ~TwoPages(q)
<1>1. /\ wafile[s] = [file_desc |-> wafile[s].file_desc, page |-> wafile[s].page]
      /\ DOMAIN wafile = Slots
  BY SlotFacts DEF WaInv, WaTypes
<1>2. /\ wafile'[s].page = q /\ wafile'[s].file_desc = wafile[s].file_desc
      /\ \A t \in Slots \ {s} : wafile'[t] = wafile[t]
  BY <1>1
<1>3. Len(q) <= 1
  <2>1. BuffersConserved' /\ cfg_nb' = 1
    BY DEF WaInv, Cached, config
  <2>2. Len(wafile'[s].page) <= 1
    BY <2>1 DEF BuffersConserved
  <2>3. QED
    BY <1>2, <2>2
<1>4. ~TwoPages(q)
  <2>1. IsPages(q)
    <3>1. PICK d \in Int : \E r : IsPages(r) /\ wafile'[s] = [file_desc |-> d, page |-> r]
      BY DEF WaInv, WaTypes
    <3>2. PICK r : IsPages(r) /\ wafile'[s] = [file_desc |-> d, page |-> r]
      BY <3>1
    <3>3. wafile'[s].page = r
      BY <3>2
    <3>4. QED
      BY <1>2, <3>2, <3>3
  <2>2. DOMAIN q = 1 .. Len(q) /\ Len(q) \in Nat
    BY <2>1, PagesFacts
  <2>3. \A j, k \in DOMAIN q : j = k
    BY <1>3, <2>2
  <2>4. QED
    BY <2>3 DEF TwoPages
<1>5. QED
  BY <1>2, <1>3, <1>4

\* The size of the file after a write is that of the disk once the page is written: where
\* the page ended makes no difference.
LEMMA WriteSize ==
    ASSUME NEW size \in Int, NEW disk \in Nat, NEW w \in Int, NEW last \in Int, w <= size,
           size = disk \/ size = AtLeast(disk, w)
    PROVE  AtLeast(size, last) = AtLeast(disk, AtLeast(w, last))
BY DEF AtLeast

\* A write makes the page in core and the size in FGFDT agree again.
LEMMA WriteOnePage ==
    ASSUME WaInv, WaInv', SlotsMatch, OnePage, cfg_nb = 1, WritePage
    PROVE  OnePage' /\ says' = says
<1> DEFINE u == todo.unit
           s == SlotOf(u)
           f == fgfdt[u].name
           old == wafile[s].page
           size == fgfdt[u].file_size
           disk == Len(wadisk[f])
<1>1. PICK last \in Int : last = Piece.adr + Piece.n - 1
  BY WriteFacts
<1>2. PICK base, p, q : WritesPage(base, p, q, last)
  BY <1>1, WriteFacts
<1>3. /\ todo.kind = "write" /\ says = "nothing" /\ cfg_size > 0 /\ HasRoom
      /\ UNCHANGED <<wadisk, descriptor, config>> /\ Done(Piece.n)
  BY Zenon DEF WritePage
<1>4. /\ u \in Units /\ IsOpened(u) /\ s \in Slots /\ f \in Names /\ IsWords(wadisk[f])
      /\ size \in Int /\ descriptor[fgfdt[u].fd] = f /\ todo # NoTodo
      /\ cfg_size \in Nat
  BY WriteFacts, RequestFacts DEF WaInv, WaTypes
<1>5. /\ SizeRight(u, s) /\ s \in SlotsOf(u) /\ Piece.adr <= size + 1
      /\ NeedsPage => old = <<>>
  BY <1>3, <1>4, OnePageFacts
<1>6. /\ wafile'[s].page = q /\ wafile'[s].file_desc = wafile[s].file_desc
      /\ \A t \in Slots \ {s} : wafile'[t] = wafile[t]
      /\ Len(q) <= 1
  <2>1. wafile' = [wafile EXCEPT ![s].page = q]
    BY <1>2, Zenon DEF WritesPage
  <2> HIDE DEF s
  <2>2. QED
    BY <1>3, <1>4, <2>1, PageIsFirst
<1>7. /\ base.wa0 \in Int /\ base.walast \in Int /\ base.touch \in {0, 1}
      /\ WriteBase(base)
  <2>1. WriteBase(base)
    BY <1>2, Zenon DEF WritesPage
  <2>2. QED
    BY <1>3, <1>4, <2>1, WriteBaseFacts
<1>8. p.touch = 1 /\ p.walast = AtLeast(base.walast, last) /\ IsPages(q)
  BY <1>2, Zenon DEF WritesPage
<1>9. q # <<>> /\ q[1] = p /\ (~NeedsPage => old # <<>> /\ base = old[1] /\ Holds(base, Piece))
  <2>1. IsPages(old) /\ Len(old) \in Nat /\ DOMAIN old = 1 .. Len(old)
        /\ (old = <<>> <=> Len(old) = 0)
    BY <1>4, SlotFacts DEF WaInv
  <2>2. q = <<>> <=> Len(q) = 0
    BY <1>8, PagesFacts
  <2>3. CASE NeedsPage
    <3>1. Len(q) = Len(old) + 1 /\ q[Len(old) + 1] = p
      BY <1>2, <2>3, Zenon DEF WritesPage
    <3>2. Len(old) = 0
      BY <1>5, <2>1, <2>3
    <3>3. QED
      BY <2>2, <2>3, <3>1, <3>2
  <2>4. CASE ~NeedsPage
    <3>1. /\ Len(q) = Len(old)
          /\ PageWith(s, Piece) \in DOMAIN old /\ q[PageWith(s, Piece)] = p
          /\ Holds(old[PageWith(s, Piece)], Piece)
      BY <1>2, <2>4, Zenon DEF WritesPage
    <3>2. base = old[PageWith(s, Piece)]
      BY <1>7, <2>4, Zenon DEF WriteBase
    <3>3. PageWith(s, Piece) = 1
      <4> HIDE DEF old
      <4> QED
        BY <1>6, <2>1, <3>1
    <3>4. old # <<>> /\ Len(q) # 0
      <4> HIDE DEF old
      <4> QED
        BY <2>1, <3>1
    <3>5. QED
      BY <2>2, <2>4, <3>1, <3>2, <3>3, <3>4
  <2>5. QED
    BY <2>3, <2>4
<1>10. disk \in Nat
  BY <1>4, WordsFacts
<1>11. base.walast <= size /\ (size = disk \/ size = AtLeast(disk, base.walast))
  <2>1. ASSUME ~NeedsPage PROVE <1>11
    <3>1. base = old[1] /\ old # <<>> /\ base.wa0 <= Piece.adr
      BY <1>9, <2>1 DEF Holds
    <3>2. \/ base.touch = 0 /\ size = disk /\ (base.walast <= size \/ base.walast < base.wa0)
          \/ base.touch # 0 /\ size = AtLeast(disk, base.walast)
      BY <1>5, <3>1 DEF SizeRight
    <3>3. Piece.adr \in Int
      BY <1>4, PieceFacts DEF WaInv
    <3> HIDE DEF u, s, f, old, size, disk
    <3>4. QED
      BY <1>4, <1>5, <1>7, <1>10, <3>1, <3>2, <3>3 DEF AtLeast
  <2>2. NeedsPage => size = disk
    BY <1>5 DEF SizeRight
  <2>3. ASSUME NeedsPage, Rereads(Piece, size) PROVE base.walast <= size
    <3>1. base = PageIn(f, Wa0(Piece), Expected(size, Wa0(Piece)))
      BY <1>4, <1>7, <2>3, Zenon DEF WriteBase
    <3>2. Wa0(Piece) \in Int
      BY <1>3, <1>4, Wa0Facts
    <3>3. size = Len(wadisk[f])
      BY <2>2, <2>3
    <3> HIDE DEF f, size
    <3>4. QED
      BY <1>4, <3>1, <3>2, <3>3, NotShort
  <2>4. ASSUME NeedsPage, ~Rereads(Piece, size) PROVE base.walast <= size
    <3>1. base = PageRaw(Wa0(Piece))
      BY <1>7, <2>4, Zenon DEF WriteBase
    <3>2. base.walast = 0
      BY <3>1 DEF PageRaw
    <3>3. QED
      BY <1>10, <2>2, <2>4, <3>2
  <2>5. QED
    BY <2>1, <2>2, <2>3, <2>4
<1>12. fgfdt' = [fgfdt EXCEPT ![u].file_size = AtLeast(size, last)]
  BY <1>2, Zenon DEF WritesPage
<1>0. PICK x \in Units, y \in Slots : x = u /\ y = s
  BY <1>4
<1>13. /\ fgfdt'[x].file_size = AtLeast(size, last) /\ fgfdt'[x].name = f
       /\ fgfdt'[x].fd = fgfdt[x].fd /\ fgfdt'[x].open_flag = fgfdt[x].open_flag
       /\ \A v \in Units \ {x} : fgfdt'[v] = fgfdt[v]
  <2> HIDE DEF size
  <2> QED
    BY <1>0, <1>4, <1>12 DEF WaInv, WaTypes
<1>14. SizeRight(x, y)'
  <2>1. AtLeast(size, last) = AtLeast(disk, AtLeast(base.walast, last))
    <3> HIDE DEF size, disk
    <3> QED
      BY <1>4, <1>7, <1>10, <1>11, WriteSize
  <2>2. Len(wadisk'[fgfdt'[x].name]) = disk
    BY <1>3, <1>13
  <2>3. /\ wafile'[y].page # <<>> /\ wafile'[y].page[1].touch = 1
        /\ wafile'[y].page[1].walast = AtLeast(base.walast, last)
    BY <1>0, <1>6, <1>8, <1>9
  <2> HIDE DEF u, s, f, old, size, disk
  <2>4. SizeRight(x, y)' = (fgfdt'[x].file_size = AtLeast(disk, AtLeast(base.walast, last)))
    BY <2>2, <2>3 DEF SizeRight
  <2>5. QED
    BY <1>13, <2>1, <2>4
<1>15. (\A v \in Units : IsOpened(v) => \A t \in SlotsOf(v) : SizeRight(v, t))'
  <2>1. IsOpened(x) /\ y \in SlotsOf(x)
    BY <1>0, <1>4, <1>5
  <2>2. /\ wafile'[y].file_desc = wafile[y].file_desc
        /\ \A t \in Slots \ {y} : wafile'[t] = wafile[t]
        /\ \A g \in Names \ {fgfdt[x].name} : wadisk'[g] = wadisk[g]
    BY <1>0, <1>3, <1>6
  <2>3. QED
    BY <1>13, <1>14, <2>1, <2>2, OthersRight
<1>16. todo' # NoTodo => Piece.adr' <= fgfdt'[x].file_size + 1
  <2>1. AtLeast(size, last) \in Int /\ last <= AtLeast(size, last)
    BY <1>4 DEF AtLeast
  <2>2. QED
    BY <1>1, <1>3, <1>4, <1>13, <2>1, NextPiece
<1>17. OnePage'
  <2>1. todo' # NoTodo => todo'.unit = x
    BY <1>0, <1>3, <1>4, DoneFacts DEF WaInv
  <2>2. (todo # NoTodo /\ todo.kind = "write" => Piece.adr <= fgfdt[todo.unit].file_size + 1)'
    BY <1>16, <2>1 DEF NoTodo
  <2>3. QED
    BY <1>15, <2>2 DEF OnePage
<1>18. says' = says
  <2>1. ~ShortWrite
    <3>1. SUFFICES ASSUME NeedsPage, Rereads(Piece, size)
                   PROVE  LET r == PageIn(f, Wa0(Piece), Expected(size, Wa0(Piece)))
                          IN ~(r.walast - r.wa0 + 1 < Expected(size, Wa0(Piece)))
      BY <1>4 DEF ShortWrite
    <3>2. Wa0(Piece) \in Int
      BY <1>3, <1>4, Wa0Facts
    <3>3. size = Len(wadisk[f])
      BY <1>5, <3>1 DEF SizeRight
    <3> HIDE DEF f, size
    <3>4. QED
      BY <1>4, <3>2, <3>3, NotShort
  <2>2. PICK all : /\ wafile' = [wafile EXCEPT ![s].page = all]
                   /\ says' = says \/ ShortWrite \/ TwoPages(all)
    BY WriteSays
  <2>3. ~TwoPages(all)
    <3> HIDE DEF s
    <3> QED
      BY <1>3, <1>4, <2>2, PageIsFirst
  <2>4. QED
    BY <2>1, <2>2, <2>3
<1>19. QED
  BY <1>17, <1>18

\* A read may bring the one page of the unit into core, with what is on disk.
LEMMA ReadOnePage ==
    ASSUME WaInv, WaInv', SlotsMatch, OnePage, cfg_nb = 1, ReadPage
    PROVE  OnePage' /\ says' = says
<1> DEFINE u == todo.unit
           s == SlotOf(u)
           f == fgfdt[u].name
           old == wafile[s].page
           size == fgfdt[u].file_size
           read == PageIn(f, Wa0(Piece), cfg_size)
<1>1. PICK q : ReadsPage(q)
  BY ReadFacts
<1>2. /\ todo.kind = "read" /\ says = "nothing" /\ cfg_size > 0 /\ HasRoom
      /\ UNCHANGED <<wadisk, descriptor, fgfdt, config>> /\ Done(Piece.n)
  BY Zenon DEF ReadPage
<1>3. /\ u \in Units /\ IsOpened(u) /\ s \in Slots /\ f \in Names /\ IsWords(wadisk[f])
      /\ size \in Int /\ descriptor[fgfdt[u].fd] = f /\ todo # NoTodo
      /\ cfg_size \in Nat
  BY ReadFacts, RequestFacts DEF WaInv, WaTypes
<1>4. /\ SizeRight(u, s) /\ s \in SlotsOf(u)
      /\ NeedsPage => old = <<>>
  BY <1>2, <1>3, OnePageFacts
<1>5. /\ wafile'[s].page = q /\ wafile'[s].file_desc = wafile[s].file_desc
      /\ \A t \in Slots \ {s} : wafile'[t] = wafile[t]
  <2>1. wafile' = [wafile EXCEPT ![s].page = q]
    BY <1>1, Zenon DEF ReadsPage
  <2> HIDE DEF s
  <2>2. QED
    BY <1>2, <1>3, <2>1, PageIsFirst
<1>6. Wa0(Piece) \in Int
  BY <1>2, <1>3, Wa0Facts
<1>7. NeedsPage => q # <<>> /\ q[1] = read /\ size = Len(wadisk[f])
  <2> HAVE NeedsPage
  <2>1. IsPages(q) /\ Len(q) = Len(old) + 1 /\ q[Len(old) + 1] = read
    BY <1>1, Zenon DEF ReadsPage
  <2>2. Len(old) = 0 /\ size = Len(wadisk[f])
    BY <1>3, <1>4, SlotFacts DEF SizeRight, WaInv
  <2>3. q # <<>>
    <3> HIDE DEF old
    <3> QED
      BY <2>1, <2>2, PagesFacts
  <2> HIDE DEF old, read, size
  <2>4. QED
    BY <2>1, <2>2, <2>3
<1>0. PICK x \in Units, y \in Slots : x = u /\ y = s
  BY <1>3
<1>8. SizeRight(x, y)'
  <2>1. CASE NeedsPage
    <3>1. PICK p : p = read
      OBVIOUS
    <3>2. p.touch = 0 /\ (p.walast <= size \/ p.walast < p.wa0)
      <4>1. p.touch = 0
        BY <1>3, <1>6, <3>1, PageInFacts
      <4>2. size = Len(wadisk[f])
        BY <1>7, <2>1
      <4> HIDE DEF f, size
      <4>3. QED
        BY <1>3, <1>6, <3>1, <4>1, <4>2, NotShort
    <3>3. wafile'[y].page # <<>> /\ wafile'[y].page[1] = p
      BY <1>0, <1>5, <1>7, <2>1, <3>1
    <3>4. fgfdt' = fgfdt /\ wadisk' = wadisk /\ size = Len(wadisk[f])
      BY <1>2, <1>7, <2>1
    <3> HIDE DEF read
    <3>5. QED
      BY <1>0, <3>2, <3>3, <3>4 DEF SizeRight
  <2>2. CASE ~NeedsPage
    <3>1. q = old
      BY <1>1, <2>2, Zenon DEF ReadsPage
    <3>2. wafile'[y].page = wafile[y].page /\ fgfdt' = fgfdt /\ wadisk' = wadisk
      BY <1>0, <1>2, <1>5, <3>1
    <3>3. SizeRight(x, y)
      BY <1>0, <1>4
    <3>4. QED
      BY <3>2, <3>3 DEF SizeRight
  <2>3. QED
    BY <2>1, <2>2
<1>9. (\A v \in Units : IsOpened(v) => \A t \in SlotsOf(v) : SizeRight(v, t))'
  <2>1. IsOpened(x) /\ y \in SlotsOf(x)
    BY <1>0, <1>3, <1>4
  <2>2. /\ wafile'[y].file_desc = wafile[y].file_desc
        /\ \A t \in Slots \ {y} : wafile'[t] = wafile[t]
    BY <1>0, <1>5
  <2>3. QED
    BY <1>2, <1>8, <2>1, <2>2, OthersRight
<1>10. todo' # NoTodo => todo'.kind = "read"
  BY <1>2, <1>3, DoneFacts DEF WaInv
<1>11. OnePage'
  BY <1>9, <1>10 DEF OnePage
<1>12. says' = says
  <2>1. ~ShortRead
    <3>1. SUFFICES ASSUME NeedsPage
                   PROVE  LET r == PageIn(f, Wa0(Piece), cfg_size)
                          IN ~(r.walast - r.wa0 + 1 < Expected(size, Wa0(Piece)))
      BY <1>3 DEF ShortRead
    <3>2. size = Len(wadisk[f])
      BY <1>7, <3>1
    <3> HIDE DEF f, size
    <3>3. QED
      BY <1>3, <1>6, <3>2, NotShort
  <2>2. PICK all : /\ wafile' = [wafile EXCEPT ![s].page = all]
                   /\ says' = says \/ ShortRead \/ TwoPages(all)
    BY ReadSays
  <2>3. ~TwoPages(all)
    <3> HIDE DEF s
    <3> QED
      BY <1>2, <1>3, <2>2, PageIsFirst
  <2>4. QED
    BY <2>1, <2>2, <2>3
<1>13. QED
  BY <1>11, <1>12

\* A page scrapped leaves the file as long on disk as its size says, and the pages of an
\* open slot have a file to go to.
LEMMA ScrapOnePage ==
    ASSUME WaInv, WaInv', SlotsMatch, OnePage, cfg_nb = 1, NEW s \in Slots, NEW i, Scrap(s, i)
    PROVE  OnePage' /\ says' = says
<1> DEFINE old == wafile[s].page
<1>1. /\ todo # NoTodo /\ i \in DOMAIN old
      /\ UNCHANGED <<descriptor, fgfdt, config, global_count, todo>>
      /\ Scraps(s, i) \/ CannotScrap(s, i)
  BY ScrapFacts
<1>2. /\ IsPages(old) /\ Len(old) \in Nat /\ DOMAIN old = 1 .. Len(old)
      /\ Len(old) <= 1
      /\ old = <<>> <=> Len(old) = 0
  BY SlotFacts DEF WaInv, Cached, BuffersConserved
<1>3. i = 1 /\ Len(old) = 1 /\ old # <<>>
  <2> HIDE DEF old
  <2> QED
    BY <1>1, <1>2
<1>4. wafile[s].file_desc # -1
  BY <1>3 DEF WaInv, Cached
<1>5. PICK v \in Units : IsOpened(v) /\ fgfdt[v].fd = wafile[s].file_desc
  BY <1>4 DEF SlotsMatch
<1>6. PICK f \in Names : fgfdt[v].name = f /\ descriptor[wafile[s].file_desc] = f
  BY <1>5, UnitFacts
<1>7. f # NoName /\ IsWords(wadisk[f]) /\ Len(wadisk[f]) \in Nat
  BY <1>6, WaAssumption, WordsFacts DEF WaInv, WaTypes
<1>8. Scraps(s, i)
  BY <1>1, <1>6, <1>7 DEF CannotScrap
<1>9. /\ says' = says
      /\ wafile' = [wafile EXCEPT ![s].page = RemoveAt(old, i)]
      /\ wadisk' = IF old[i].touch = 1 THEN [wadisk EXCEPT ![f] = WordsAfter(wadisk[f], old[i])]
                   ELSE wadisk
  BY <1>6, <1>8, Zenon DEF Scraps
<1>10. wafile'[s].page = <<>> /\ wafile'[s].file_desc = wafile[s].file_desc
       /\ \A t \in Slots \ {s} : wafile'[t] = wafile[t]
  <2>1. IsPages(RemoveAt(old, i)) /\ Len(RemoveAt(old, i)) = 0
    <3> HIDE DEF old
    <3>1. IsPages(RemoveAt(old, i)) /\ Len(RemoveAt(old, i)) = Len(old) - 1
      BY <1>1, <1>2, PageRemoved, Zenon
    <3>2. QED
      BY <1>3, <3>1
  <2>2. PICK q : q = RemoveAt(old, i)
    OBVIOUS
  <2>3. q = <<>>
    BY <2>1, <2>2, PagesFacts
  <2>4. UNCHANGED config
    BY <1>1
  <2>5. wafile' = [wafile EXCEPT ![s].page = q]
    BY <1>9, <2>2
  <2> HIDE DEF old
  <2>6. QED
    BY <2>3, <2>4, <2>5, PageIsFirst
<1>11. old[1].touch \in {0, 1} /\ old[1].walast \in Int
  <2> HIDE DEF old
  <2> QED
    BY <1>1, <1>2, <1>3, PagesFacts
<1>12. SizeRight(v, s)
  BY <1>5 DEF OnePage, SlotsOf
<1>13. fgfdt[v].file_size = Len(wadisk'[f])
  <2>1. CASE old[1].touch = 0
    <3>1. wadisk' = wadisk
      BY <1>3, <1>9, <2>1
    <3>2. fgfdt[v].file_size = Len(wadisk[f])
      BY <1>3, <1>6, <1>12, <2>1 DEF SizeRight
    <3>3. QED
      BY <3>1, <3>2
  <2>2. CASE old[1].touch = 1
    <3>1. wadisk' = [wadisk EXCEPT ![f] = WordsAfter(wadisk[f], old[1])]
      BY <1>3, <1>9, <2>2
    <3>2. wadisk'[f] = WordsAfter(wadisk[f], old[1])
      BY <3>1 DEF WaInv, WaTypes
    <3>3. Len(WordsAfter(wadisk[f], old[1])) = AtLeast(Len(wadisk[f]), old[1].walast)
      <4> HIDE DEF old
      <4> QED
        BY <1>7, <1>11, <2>2, WordsAfterFacts
    <3>4. fgfdt[v].file_size = AtLeast(Len(wadisk[f]), old[1].walast)
      BY <1>3, <1>6, <1>12, <2>2 DEF SizeRight
    <3>5. QED
      BY <3>2, <3>3, <3>4
  <2>3. QED
    BY <1>11, <2>1, <2>2
<1>14. SizeRight(v, s)'
  <2>1. fgfdt'[v].file_size = Len(wadisk'[fgfdt'[v].name])
    BY <1>1, <1>6, <1>13
  <2>2. QED
    BY <1>10, <2>1 DEF SizeRight
<1>15. (\A w \in Units : IsOpened(w) => \A t \in SlotsOf(w) : SizeRight(w, t))'
  <2>1. s \in SlotsOf(v)
    BY <1>5 DEF SlotsOf
  <2>2. \A g \in Names \ {fgfdt[v].name} : wadisk'[g] = wadisk[g]
    BY <1>6, <1>9 DEF WaInv, WaTypes
  <2>3. QED
    BY <1>1, <1>5, <1>10, <1>14, <2>1, <2>2, OthersRight
<1>16. (todo # NoTodo /\ todo.kind = "write" => Piece.adr <= fgfdt[todo.unit].file_size + 1)'
  <2>1. Piece' = Piece
    BY <1>1 DEF Piece, config
  <2>2. QED
    BY <1>1, <2>1 DEF OnePage, NoTodo
<1>17. QED
  BY <1>9, <1>15, <1>16 DEF OnePage

\* Without pages there is nothing to disagree with: a write makes the file as long as the
\* unit says.
LEMMA DirectOnePage ==
    ASSUME WaInv, WaInv', SlotsMatch, OnePage, cfg_nb = 1, Direct
    PROVE  OnePage' /\ says' = says
<1> DEFINE u == todo.unit
           s == SlotOf(u)
           f == fgfdt[u].name
           size == fgfdt[u].file_size
           last == Piece.adr + Piece.n - 1
<1>1. /\ todo # NoTodo /\ cfg_size = 0 /\ Done(Piece.n) /\ last \in Int /\ DirectWrites
      /\ UNCHANGED <<descriptor, wafile, config, cache, says>>
  BY DirectFacts
<1>2. /\ u \in Units /\ IsOpened(u) /\ s \in Slots /\ f \in Names /\ IsWords(wadisk[f])
      /\ size \in Int
  BY <1>1, RequestFacts
<1>3. SizeRight(u, s) /\ s \in SlotsOf(u)
  BY <1>1, <1>2, OnePageFacts
<1>4. wafile[s].page = <<>>
  BY <1>1, <1>2 DEF WaInv, Cached
<1>0. PICK x \in Units, y \in Slots : x = u /\ y = s
  BY <1>2
<1>5. PICK g \in Names, z \in Int, l \in Int : g = f /\ z = size /\ l = last
  BY <1>1, <1>2
<1>6. /\ fgfdt[x].name = g /\ fgfdt[x].file_size = z /\ z = Len(wadisk[g])
      /\ Len(wadisk[g]) \in Nat /\ IsOpened(x) /\ y \in SlotsOf(x) /\ wafile[y].page = <<>>
  BY <1>0, <1>2, <1>3, <1>4, <1>5, WordsFacts DEF SizeRight
<1>7. /\ fgfdt'[x].name = g /\ fgfdt'[x].fd = fgfdt[x].fd
      /\ fgfdt'[x].open_flag = fgfdt[x].open_flag
      /\ \A v \in Units \ {x} : fgfdt'[v] = fgfdt[v]
      /\ \A h \in Names \ {g} : wadisk'[h] = wadisk[h]
      /\ fgfdt'[x].file_size = Len(wadisk'[g])
      /\ todo.kind = "write" => fgfdt'[x].file_size >= l
  <2>1. \/ todo.kind # "write" /\ UNCHANGED <<wadisk, fgfdt>>
        \/ /\ fgfdt' = [fgfdt EXCEPT ![x].file_size = AtLeast(z, l)]
           /\ \E p : /\ p.touch = 1 /\ p.walast = l
                     /\ wadisk' = [wadisk EXCEPT ![g] = WordsAfter(wadisk[g], p)]
    BY <1>0, <1>1, <1>5, Zenon DEF DirectWrites
  <2>2. CASE todo.kind # "write" /\ UNCHANGED <<wadisk, fgfdt>>
    BY <1>6, <2>2
  <2>3. ASSUME fgfdt' = [fgfdt EXCEPT ![x].file_size = AtLeast(z, l)],
               NEW p, p.touch = 1, p.walast = l,
               wadisk' = [wadisk EXCEPT ![g] = WordsAfter(wadisk[g], p)]
        PROVE  /\ fgfdt'[x].name = g /\ fgfdt'[x].fd = fgfdt[x].fd
               /\ fgfdt'[x].open_flag = fgfdt[x].open_flag
               /\ \A v \in Units \ {x} : fgfdt'[v] = fgfdt[v]
               /\ \A h \in Names \ {g} : wadisk'[h] = wadisk[h]
               /\ fgfdt'[x].file_size = Len(wadisk'[g]) /\ fgfdt'[x].file_size >= l
    <3>1. Len(WordsAfter(wadisk[g], p)) = AtLeast(z, l)
      <4>1. IsWords(wadisk[g]) /\ p.walast \in Int
        BY <1>2, <1>5, <2>3
      <4>2. Len(WordsAfter(wadisk[g], p)) = AtLeast(Len(wadisk[g]), p.walast)
        BY <2>3, <4>1, WordsAfterFacts
      <4>3. QED
        BY <1>6, <2>3, <4>2
    <3>2. wadisk'[g] = WordsAfter(wadisk[g], p) /\ \A h \in Names \ {g} : wadisk'[h] = wadisk[h]
      BY <2>3 DEF WaInv, WaTypes
    <3>3. /\ fgfdt'[x].name = g /\ fgfdt'[x].fd = fgfdt[x].fd
          /\ fgfdt'[x].open_flag = fgfdt[x].open_flag
          /\ fgfdt'[x].file_size = AtLeast(z, l)
          /\ \A v \in Units \ {x} : fgfdt'[v] = fgfdt[v]
      BY <1>6, <2>3 DEF WaInv, WaTypes
    <3>4. AtLeast(z, l) >= l
      BY DEF AtLeast
    <3>5. QED
      BY <3>1, <3>2, <3>3, <3>4
  <2>4. QED
    BY <2>1, <2>2, <2>3
<1>8. SizeRight(x, y)'
  BY <1>1, <1>6, <1>7 DEF SizeRight
<1>9. (\A v \in Units : IsOpened(v) => \A t \in SlotsOf(v) : SizeRight(v, t))'
  BY <1>1, <1>6, <1>7, <1>8, OthersRight
<1>10. (todo # NoTodo /\ todo.kind = "write" => Piece.adr <= fgfdt[todo.unit].file_size + 1)'
  <2> SUFFICES ASSUME todo' # NoTodo, todo'.kind = "write"
               PROVE  Piece.adr' <= fgfdt'[todo'.unit].file_size + 1
    BY DEF NoTodo
  <2>1. todo'.unit = x /\ todo.kind = "write"
    BY <1>0, <1>1, DoneFacts DEF WaInv
  <2>2. PICK w \in Int : w = fgfdt'[x].file_size
    BY <1>2, <1>5, <1>6, <1>7, WordsFacts DEF WaInv, WaTypes
  <2>3. last <= w
    BY <1>5, <1>7, <2>1, <2>2
  <2>4. Piece.adr' <= w + 1
    BY <1>1, <2>3, NextPiece
  <2>5. QED
    BY <2>1, <2>2, <2>4
<1>11. QED
  BY <1>1, <1>9, <1>10 DEF OnePage

\* A unit keeps what it knows of the size of its file when neither the unit, its slot nor
\* the file changes.
LEMMA SizesKept ==
    ASSUME OnePage,
           \A v \in Units : IsOpened(v)' =>
              \A t \in Slots : wafile'[t].file_desc = fgfdt'[v].fd =>
                 \/ SizeRight(v, t)'
                 \/ /\ IsOpened(v) /\ fgfdt'[v] = fgfdt[v] /\ wafile'[t] = wafile[t]
                    /\ wadisk'[fgfdt[v].name] = wadisk[fgfdt[v].name]
    PROVE  (\A v \in Units : IsOpened(v) => \A t \in SlotsOf(v) : SizeRight(v, t))'
<1> SUFFICES ASSUME NEW v \in Units, IsOpened(v)', NEW t \in Slots,
                    wafile'[t].file_desc = fgfdt'[v].fd
             PROVE  SizeRight(v, t)'
  BY DEF SlotsOf
<1>1. CASE SizeRight(v, t)'
  BY <1>1
<1>2. CASE /\ IsOpened(v) /\ fgfdt'[v] = fgfdt[v] /\ wafile'[t] = wafile[t]
           /\ wadisk'[fgfdt[v].name] = wadisk[fgfdt[v].name]
  <2>1. SizeRight(v, t)
    BY <1>2 DEF OnePage, SlotsOf
  <2>2. QED
    BY <1>2, <2>1 DEF SizeRight
<1>3. QED
  BY <1>1, <1>2

\* A file that is opened is as long as it is on disk, and its slot is empty.
LEMMA OpensOnePage ==
    ASSUME WaInv, SlotsMatch, OnePage, NEW u \in Units, NEW f \in Names, Opens(u, f)
    PROVE  OnePage' /\ says' \in {says, "too_many_open_files"}
<1>1. /\ Connect(u, f) /\ ~IsOpened(u) /\ UNCHANGED <<wadisk, config, cache, todo>>
      /\ todo = NoTodo
  BY DEF Opens, Ready, IsOpened
<1>2. ASSUME NoSlot
      PROVE  (\A v \in Units : IsOpened(v) => \A t \in SlotsOf(v) : SizeRight(v, t))'
             /\ says' = "too_many_open_files"
  <2>1. UNCHANGED <<descriptor, fgfdt, wafile>> /\ says' = "too_many_open_files"
    BY <1>2 DEF NoSlot
  <2>2. QED
    BY <1>1, <2>1, SizesKept DEF IsOpened
<1>3. ASSUME NEW d \in Fds, NEW s \in Slots, Takes(u, f, d, s)
      PROVE  (\A v \in Units : IsOpened(v) => \A t \in SlotsOf(v) : SizeRight(v, t))'
             /\ says' = says
  <2>1. /\ descriptor[d] = NoName /\ wafile[s].file_desc = -1 /\ says' = says
        /\ wafile'[s].file_desc = d /\ wafile'[s].page = <<>>
        /\ \A t \in Slots \ {s} : wafile'[t] = wafile[t]
        /\ fgfdt'[u] = [name |-> f, fd |-> d, open_flag |-> 1, file_size |-> Len(wadisk[f])]
        /\ \A v \in Units \ {u} : fgfdt'[v] = fgfdt[v]
    <3>1. /\ wafile[s] = [file_desc |-> wafile[s].file_desc, page |-> wafile[s].page]
          /\ DOMAIN wafile = Slots /\ DOMAIN fgfdt = Units
      BY SlotFacts DEF WaInv, WaTypes
    <3>2. QED
      BY <1>3, <3>1 DEF Takes
  <2>2. d # -1
    BY WaAssumption, FS_CardinalityType DEF Fds
  <2>3. \A v \in Units : IsOpened(v) => v # u /\ fgfdt[v].fd # d
    BY <1>1, <2>1, UnitFacts, WaAssumption
  <2>4. \A t \in Slots : wafile[t].file_desc # d
    BY <2>2, <2>3 DEF SlotsMatch
  <2>5. ASSUME NEW v \in Units, IsOpened(v)', NEW t \in Slots,
               wafile'[t].file_desc = fgfdt'[v].fd
        PROVE  \/ SizeRight(v, t)'
               \/ /\ IsOpened(v) /\ fgfdt'[v] = fgfdt[v] /\ wafile'[t] = wafile[t]
                  /\ wadisk'[fgfdt[v].name] = wadisk[fgfdt[v].name]
    <3>1. CASE v = u
      <4>1. t = s
        BY <2>1, <2>4, <2>5, <3>1
      <4>2. fgfdt'[v].file_size = Len(wadisk'[fgfdt'[v].name]) /\ wafile'[t].page = <<>>
        BY <1>1, <2>1, <3>1, <4>1
      <4>3. QED
        BY <4>2 DEF SizeRight
    <3>2. CASE v # u
      <4>1. IsOpened(v) /\ fgfdt'[v] = fgfdt[v]
        BY <2>1, <2>5, <3>2 DEF IsOpened
      <4>2. t # s
        BY <2>1, <2>3, <2>5, <4>1
      <4>3. QED
        BY <1>1, <2>1, <4>1, <4>2
    <3>3. QED
      BY <3>1, <3>2
  <2>6. QED
    BY <2>1, <2>5, SizesKept
<1>4. (todo # NoTodo /\ todo.kind = "write" => Piece.adr <= fgfdt[todo.unit].file_size + 1)'
  BY <1>1 DEF NoTodo
<1>5. QED
  BY <1>1, <1>2, <1>3, <1>4, ConnectFacts DEF OnePage

\* Closing a unit writes its page; the other units are of other files.
LEMMA WaclosOnePage ==
    ASSUME WaInv, OnePage, NEW u \in Units, Waclos(u)
    PROVE  OnePage' /\ says' = says
<1> DEFINE s == SlotOf(u)
           f == fgfdt[u].name
<1>1. /\ IsOpened(u) /\ SlotsOf(u) # {} /\ todo' = NoTodo /\ says' = says
  BY DEF Waclos, IsOpened, Ready
<1>2. s \in Slots /\ f \in Names /\ descriptor[fgfdt[u].fd] = f /\ fgfdt[u].fd \in Fds
  BY <1>1, SlotFound, UnitFacts
<1>3. /\ wafile' = [wafile EXCEPT ![s] = NoSlotUsed]
      /\ fgfdt' = [fgfdt EXCEPT ![u].fd = -1, ![u].open_flag = 0,
                                ![u].file_size = IF cfg_size = 0 THEN @ ELSE 0]
      /\ wadisk' = [wadisk EXCEPT ![descriptor[fgfdt[u].fd]]
                                    = Flushed(descriptor[fgfdt[u].fd], wafile[s].page)]
  BY Zenon DEF Waclos, SlotClosed
<1>4. \A g \in Names \ {f} : wadisk'[g] = wadisk[g]
  BY <1>2, <1>3 DEF WaInv, WaTypes
<1> HIDE DEF s, f
<1>5. /\ wafile'[s].file_desc = -1 /\ \A t \in Slots \ {s} : wafile'[t] = wafile[t]
      /\ fgfdt'[u].open_flag = 0 /\ \A v \in Units \ {u} : fgfdt'[v] = fgfdt[v]
  <2>1. DOMAIN wafile = Slots /\ DOMAIN fgfdt = Units
    BY DEF WaInv, WaTypes
  <2>2. \A v \in Units : fgfdt[v] \in [name : Names \cup {NoName}, fd : Int, open_flag : {0, 1},
                                       file_size : Int]
    BY DEF WaInv, WaTypes
  <2>3. PICK z : z = IF cfg_size = 0 THEN fgfdt[u].file_size ELSE 0
    OBVIOUS
  <2>4. fgfdt' = [fgfdt EXCEPT ![u].fd = -1, ![u].open_flag = 0, ![u].file_size = z]
    BY <1>3, <2>3
  <2>5. QED
    BY <1>2, <1>3, <2>1, <2>2, <2>4 DEF NoSlotUsed
<1>6. -1 \notin Fds
  BY WaAssumption, FS_CardinalityType DEF Fds
<1>7. ASSUME NEW v \in Units, IsOpened(v)', NEW t \in Slots,
             wafile'[t].file_desc = fgfdt'[v].fd
      PROVE  /\ IsOpened(v) /\ fgfdt'[v] = fgfdt[v] /\ wafile'[t] = wafile[t]
             /\ wadisk'[fgfdt[v].name] = wadisk[fgfdt[v].name]
  <2>1. v # u /\ IsOpened(v) /\ fgfdt'[v] = fgfdt[v]
    BY <1>5, <1>7 DEF IsOpened
  <2>2. fgfdt[v].name # f /\ fgfdt[v].name \in Names /\ fgfdt[v].fd \in Fds
    BY <1>1, <2>1, UnitFacts, WaAssumption DEF WaInv, Connected, f
  <2>3. t # s
    BY <1>5, <1>6, <1>7, <2>1, <2>2
  <2>4. QED
    BY <1>4, <1>5, <2>1, <2>2, <2>3
<1>8. (\A v \in Units : IsOpened(v) => \A t \in SlotsOf(v) : SizeRight(v, t))'
  BY <1>7, SizesKept
<1>9. QED
  BY <1>1, <1>8 DEF OnePage, NoTodo

\* A unit that is forgotten was closed.
LEMMA FclosOnePage ==
    ASSUME ~FclosesOpen, WaInv, OnePage, NEW u \in Units, Fclos(u)
    PROVE  OnePage' /\ says' = says
<1>1. fgfdt' = [fgfdt EXCEPT ![u] = NoUnit] /\ UNCHANGED <<wadisk, wafile, todo, says>>
      /\ todo = NoTodo
  BY Zenon DEF Fclos, Ready
<1>2. \A v \in Units : IsOpened(v)' => IsOpened(v) /\ fgfdt'[v] = fgfdt[v]
  BY <1>1 DEF WaInv, WaTypes, IsOpened, NoUnit
<1>3. (\A v \in Units : IsOpened(v) => \A t \in SlotsOf(v) : SizeRight(v, t))'
  BY <1>1, <1>2, SizesKept
<1>4. QED
  BY <1>1, <1>3 DEF OnePage, NoTodo

\* A write begins where the file ends, or before, and so does the hole before it.
LEMMA RequestOnePage ==
    ASSUME WaInv, OnePage, NEW u \in Units, NEW adr \in Adrs, NEW n \in Lengths,
           Waread(u, adr, n) \/ \E w \in Words : Wawrit(u, adr, n, w)
    PROVE  OnePage' /\ says' = says
<1> DEFINE size == fgfdt[u].file_size
<1>1. /\ WaInv' /\ UNCHANGED <<wadisk, descriptor, fgfdt, wafile, config, cache, says>>
      /\ todo' # NoTodo /\ todo'.unit = u /\ IsOpened(u)
      /\ todo'.kind = "write" =>
            \/ todo'.hole = 0 /\ adr <= size + 1
            \/ todo'.hole > 0 /\ todo'.hole = adr - size
      /\ todo'.adr = adr
  BY RequestStep
<1>2. (\A v \in Units : IsOpened(v) => \A t \in SlotsOf(v) : SizeRight(v, t))'
  BY <1>1, SizesKept DEF IsOpened
<1>3. (todo # NoTodo /\ todo.kind = "write" => Piece.adr <= fgfdt[todo.unit].file_size + 1)'
  <2> SUFFICES ASSUME todo'.kind = "write"
               PROVE  Piece.adr' <= fgfdt'[u].file_size + 1
    BY <1>1
  <2>1. size \in Int /\ adr \in Int
    BY WaAssumption DEF WaInv, WaTypes
  <2>2. PICK z \in Int : z = size
    BY <2>1
  <2> PICK h : h = todo'.hole
    OBVIOUS
  <2>3. Piece.adr' = IF h > 0 THEN adr - h + 1 ELSE adr
    BY <1>1, <2>2 DEF Piece
  <2>4. (h = 0 /\ adr <= z + 1) \/ (h > 0 /\ h = adr - z)
    BY <1>1, <2>2
  <2>5. fgfdt'[u].file_size = z
    BY <1>1, <2>2
  <2> HIDE DEF size
  <2>6. QED
    BY <2>1, <2>2, <2>3, <2>4, <2>5
<1>4. QED
  BY <1>1, <1>2, <1>3 DEF OnePage

\* Every step, when WA_PAGE_NB is 1.
LEMMA OnePageKept ==
    ASSUME ~FclosesOpen, WaInv, WaInv', SlotsMatch, OnePage, cfg_nb = 1, [WaNext]_wavars
    PROVE  OnePage' /\ says' \in {says, "too_many_open_files"}
<1>1. WaStep
  BY WaSteps
<1>2. ASSUME NEW u \in Units, NEW f \in Names, Opens(u, f)
      PROVE  OnePage' /\ says' \in {says, "too_many_open_files"}
  BY <1>2, OpensOnePage
<1>3. ASSUME NEW u \in Units, Waclos(u) \/ Fclos(u)
      PROVE  OnePage' /\ says' \in {says, "too_many_open_files"}
  BY <1>3, WaclosOnePage, FclosOnePage
<1>4. ASSUME NEW u \in Units, NEW adr \in Adrs, NEW n \in Lengths,
             Waread(u, adr, n) \/ \E w \in Words : Wawrit(u, adr, n, w)
      PROVE  OnePage' /\ says' \in {says, "too_many_open_files"}
  BY <1>4, RequestOnePage
<1>5. ASSUME NEW s \in Slots, NEW i, Scrap(s, i)
      PROVE  OnePage' /\ says' \in {says, "too_many_open_files"}
  BY <1>5, ScrapOnePage
<1>6. ASSUME WritePage \/ ReadPage \/ Direct
      PROVE  OnePage' /\ says' \in {says, "too_many_open_files"}
  BY <1>6, WriteOnePage, ReadOnePage, DirectOnePage
<1>7. ASSUME UNCHANGED wavars PROVE OnePage' /\ says' \in {says, "too_many_open_files"}
  <2>1. UNCHANGED <<wadisk, fgfdt, wafile, cfg_size, todo, says>>
    BY <1>7 DEF wavars
  <2>2. (\A v \in Units : IsOpened(v) => \A t \in SlotsOf(v) : SizeRight(v, t))'
    BY <2>1, SizesKept DEF IsOpened
  <2>3. Piece' = Piece
    BY <2>1 DEF Piece
  <2>4. QED
    BY <2>1, <2>2, <2>3 DEF OnePage, NoTodo
<1>8. QED
  BY <1>1, <1>2, <1>3, <1>4, <1>5, <1>6, <1>7, Zenon DEF WaStep

\* WA_CONFIG is read once.
LEMMA ConfigKept == ASSUME WaInv, [WaNext]_wavars PROVE UNCHANGED config
<1>1. WaStep
  BY WaSteps
<1>2. ASSUME NEW u \in Units, NEW f \in Names, Opens(u, f) PROVE UNCHANGED config
  BY <1>2, Zenon DEF Opens
<1>3. ASSUME NEW u \in Units, Waclos(u) \/ Fclos(u) PROVE UNCHANGED config
  BY <1>3, Zenon DEF Waclos, Fclos
<1>4. ASSUME NEW u \in Units, NEW adr \in Adrs, NEW n \in Lengths,
             Waread(u, adr, n) \/ \E w \in Words : Wawrit(u, adr, n, w)
      PROVE  UNCHANGED config
  BY <1>4, RequestStep
<1>5. ASSUME NEW s \in Slots, NEW i, Scrap(s, i) PROVE UNCHANGED config
  BY <1>5, ScrapFacts
<1>6. ASSUME WritePage \/ ReadPage \/ Direct PROVE UNCHANGED config
  BY <1>6, Zenon DEF WritePage, ReadPage, Direct
<1>7. ASSUME UNCHANGED wavars PROVE UNCHANGED config
  BY <1>7 DEF wavars, config
<1>8. QED
  BY <1>1, <1>2, <1>3, <1>4, <1>5, <1>6, <1>7, Zenon DEF WaStep

\* What is true with one page to a file: the sizes are right, and nothing stopped the
\* program.
OnePageInv ==
    cfg_nb = 1 => OnePage /\ says \in {"nothing", "too_many_open_files"}

\* With one page to a file, the default, no request stops a program that closes its units
\* with waclos before it forgets them: no page overlaps another, a page to be written has
\* its file, and a page read again is as long on disk as the size in FGFDT says.
THEOREM NeverStoppedWithOnePage == ~FclosesOpen => (WaSpec => []SurvivesWithOnePage)
<1> SUFFICES ASSUME ~FclosesOpen PROVE WaSpec => []SurvivesWithOnePage
  OBVIOUS
<1>1. WaInit => WaInv /\ SlotsMatch /\ OnePageInv
  <2> HAVE WaInit
  <2>1. WaInv /\ SlotsMatch
    BY InitWaInv DEF WaInit, SlotsMatch, IsOpened, NoUnit, NoSlotUsed
  <2>2. \A u \in Units : ~IsOpened(u)
    BY DEF WaInit, IsOpened, NoUnit
  <2>3. OnePageInv
    BY <2>2 DEF WaInit, OnePageInv, OnePage, NoTodo
  <2>4. QED
    BY <2>1, <2>3
<1>2. WaInv /\ SlotsMatch /\ OnePageInv /\ [WaNext]_wavars => (WaInv /\ SlotsMatch /\ OnePageInv)'
  <2> HAVE WaInv /\ SlotsMatch /\ OnePageInv /\ [WaNext]_wavars
  <2>1. WaInv' /\ SlotsMatch'
    BY WaInvKept, SlotsMatchKept
  <2>2. cfg_nb' = cfg_nb
    BY ConfigKept DEF config
  <2>3. OnePageInv'
    BY <2>1, <2>2, OnePageKept DEF OnePageInv
  <2>4. QED
    BY <2>1, <2>3
<1>3. OnePageInv => SurvivesWithOnePage
  BY DEF OnePageInv, SurvivesWithOnePage
<1>4. QED
  BY <1>1, <1>2, <1>3, PTL DEF WaSpec
=============================================================================
