------------------------------ MODULE EzGrids -------------------------------
(* The tables of the interpolation package (src/src/interp): grids in       *)
(* Grille, numbered from 0 and chained by hash from gr_list, and for each   *)
(* output grid a hashed table gset of the input grids it was paired with.   *)
(* A grid that is defined again must get the number it has.                 *)
EXTENDS Integers, Sequences, FiniteSetsExt

CONSTANTS
    EzDefs,        \* definitions a program may give
    EzHow,         \* what each is given to: "fmem", "ffile" or "supergrid"
    EzKey,         \* what each says: typ, ref, n, ig, igref and ax, see EzSame
    EzParts,       \* the definitions a Yin-Yang grid is made of
    EzOnFile,      \* definitions whose descriptors are found on their file
    EzHash(_),     \* ez_calc_crc, of a key
    EzHashes,      \* the values it takes
    EzPrimes,      \* primes[], from cur_log_chunk on
    EzMaxGrids     \* bound: grids defined at a time

VARIABLES
    Grille,        \* the grids, [0 .. EzMaxGrids - 1 -> entry]
    gr_list,       \* first grid of each chain, EzNULL when there is none
    nGrilles,
    iset,          \* <<iset_gdin, iset_gdout>>
    held,          \* <<number, definition>> of the grids the program defined
    closing        \* the program releases all of its grids

tablevars == <<Grille, gr_list, nGrilles, iset, held, closing>>

EzNULL == -1
EzUndefined == -1

\* Axes are sequences, <<>> for NULL: the part of an axis between 45 and 315
\* or -45 and 45 degrees is the axis with "core" behind it.
EzNoKey == [typ |-> "", ref |-> "", n |-> "", ig |-> "", igref |-> "", ax |-> <<>>]

EzIrregular == {"Y", "Z", "G"}

\* A pair, in the gset of its output grid: the input grid; x and y of the
\* output points, said by the two keys they were computed from; the points of
\* each zone; and for each part of the output the points masked, with x and y
\* in each part of the input.  The three flags say what has been computed.
EzNoZones == [dehors |-> {}, nord |-> {}, sud |-> {}, polenord |-> {}, polesud |-> {}]
EzNoMask == [maskout |-> {}, yin |-> <<>>, yan |-> <<>>]
EzSet(g) == [gdin |-> g, xy |-> <<>>, xxx |-> FALSE, zones |-> EzNoZones, zoned |-> FALSE,
             parts |-> <<EzNoMask, EzNoMask>>, yyxxx |-> FALSE]
EzNoSets(log) == [k \in 0 .. EzPrimes[log] - 1 |-> EzSet(-1)]

EzNoGrid == [key |-> EzNoKey, sub |-> <<>>, mask |-> 0, access |-> 0, bucket |-> 0, next |-> 0,
             last |-> 0, log |-> 0, n_gdin |-> 0, gset |-> <<>>, gdin_for |-> <<>>]
\* idx_last_gdin is cleared with the rest of a regular grid, -1 in the others.
EzEntry(k, b) == [EzNoGrid EXCEPT !.key = k, !.access = 1, !.bucket = b, !.next = -1,
                                  !.last = IF k.typ \in EzIrregular \cup {"U"} THEN -1 ELSE 0]

EzTables == [g |-> Grille, h |-> gr_list, n |-> nGrilles]
EzBecome(t) == Grille' = t.g /\ gr_list' = t.h /\ nGrilles' = t.n
EzEmpty == [g |-> [i \in 0 .. EzMaxGrids - 1 |-> EzNoGrid], h |-> [b \in EzHashes |-> EzNULL], n |-> 0]

(* --------------------------- looking for a grid -------------------------- *)
\* The chain of a hash value, from its first grid.
EzChain(t, b) ==
    LET from[i \in -1 .. t.n - 1] == IF i = EzNULL THEN <<>> ELSE <<i>> \o from[t.g[i].next]
    IN  from[t.h[b]]

\* c_ez_findgrid: n stands for ni and nj, for a Yin-Yang grid for ni_ax and
\* nj_ay, which c_ezgdef_supergrid leaves 0: EzSizesHashed.  A Yin-Yang grid is
\* found by its ref, or else as any other.  Axes are compared
\* only when both are there.  Two keys on one chain that differ in igref only
\* would be compared for ever: EzNoLoop.
ASSUME EzNoLoop ==
    \A d, e \in EzDefs :
        /\ EzHash(EzKey[d]) = EzHash(EzKey[e])
        /\ \A field \in {"typ", "n", "ig"} : EzKey[d][field] = EzKey[e][field]
        => EzKey[d].igref = EzKey[e].igref
ASSUME EzSizesHashed ==
    \A d, e \in {d \in EzDefs : EzHow[d] = "supergrid"} :
        EzHash(EzKey[d]) = EzHash(EzKey[e]) => EzKey[d].n = EzKey[e].n
EzSameButAxes(k, r) ==                                                       \* mutant
    k.typ = r.typ /\ k.n = r.n /\ k.ig = r.ig /\ k.igref = r.igref /\ k.ref = r.ref
EzSame(k, r) ==
    /\ k.typ = r.typ /\ k.n = r.n /\ k.ig = r.ig
    /\ \/ k.typ = "U" /\ k.ref = r.ref
       \/ k.typ = "G"
       \/ k.igref = r.igref /\ (<<>> \in {k.ax, r.ax} \/ k.ax = r.ax)

\* c_ez_addgrid: at the end of the chain, in the first place after the others
EzAdd(t, chain, b, k) ==
    LET chained == IF chain = <<>> THEN t.g ELSE [t.g EXCEPT ![chain[Len(chain)]].next = t.n]
    IN  [t |-> [g |-> [chained EXCEPT ![t.n] = EzEntry(k, b)],
                h |-> IF chain = <<>> THEN [t.h EXCEPT ![b] = t.n] ELSE t.h,
                n |-> t.n + 1],
         id |-> t.n, new |-> TRUE]

\* c_ez_findgrid, then c_ez_addgrid.  The grid looked at last counts one more
\* user, also when it is not the one.
EzFindInChain(t, chain, b, k) ==
    LET match == {j \in DOMAIN chain : EzSame(k, t.g[chain[j]].key)}
        seen == chain[IF match = {} THEN Len(chain) ELSE Min(match)]
        counted == [t EXCEPT !.g[seen].access = @ + 1]
    IN  IF chain = <<>> THEN EzAdd(t, chain, b, k)
        ELSE IF match = {} THEN EzAdd(counted, chain, b, k)
        ELSE [t |-> counted, id |-> seen, new |-> FALSE]
EzFindOrAdd(t, b, k) == EzFindInChain(t, EzChain(t, b), b, k)

\* The tables are allocated again when they have no grid.
EzIdentifyReg(t, k) == EzFindOrAdd(IF t.n = 0 THEN EzEmpty ELSE t, EzHash(k), k)
EzIdentifyIrreg(t, k) == EzFindOrAdd(IF t.n = 0 THEN EzEmpty ELSE t, EzHash(k), k)

(* ---------------------------- defining a grid ---------------------------- *)
\* c_ezdefaxes: the axes given are copied, those of a Gaussian grid computed.
EzAxes(k, given) ==
    CASE k.typ \in {"Z", "Y"} -> [k EXCEPT !.ax = given.ax]
      [] k.typ = "G" -> [k EXCEPT !.ref = "L", !.igref = "L", !.ax = <<"gauss">>]
      [] OTHER -> k

\* c_ezgdef_fmem
EzDefaxes(f, k) == [f EXCEPT !.t.g[f.id].key = EzAxes(@, k)]
EzMem(t, k) == EzDefaxes(IF k.typ \in EzIrregular THEN EzIdentifyIrreg(t, k) ELSE EzIdentifyReg(t, k), k)

\* c_ezgdef_yymask: the part of a grid that is Yin or Yang alone, as a grid
EzMaskKey(k) == [k EXCEPT !.n = "core", !.ig = k.igref, !.ax = Append(@, "core")]
EzMasked(m, i) == [m.t EXCEPT !.g[i].mask = m.id]
EzYyMask(t, i) == EzMasked(EzMem(t, EzMaskKey(t.g[i].key)), i)

\* Lire_enrUvercode1: the two parts a record says, and the mask of each
EzAddPart(f, u) == [EzYyMask(f.t, f.id) EXCEPT !.g[u].sub = Append(@, f.id)]
EzReadParts(t, u, parts) ==
    EzAddPart(EzMem(EzAddPart(EzMem(t, EzKey[parts[1]]), u), EzKey[parts[2]]), u)

\* LireEnrPositionnels: first what the descriptors say, without their axes,
\* then, for a grid that is new, their data
EzDescribed(d) == [EzKey[d] EXCEPT !.ax = <<>>]
EzReadAxes(t, i, d) == [t EXCEPT !.g[i].key.ax = EzKey[d].ax]

\* c_ezgdef_ffile
EzFile(t, d) ==
    LET k == EzKey[d]
        u == IF t.n = 0 THEN EzEmpty ELSE t
        f == EzFindOrAdd(u, EzHash(EzDescribed(d)), EzDescribed(d))
    IN  IF k.typ \notin {"Y", "Z", "U"} THEN EzMem(t, k)
        ELSE IF d \notin EzOnFile THEN [t |-> u, id |-> -1, new |-> FALSE]
        ELSE IF ~f.new THEN f
        ELSE IF k.typ = "U" THEN [f EXCEPT !.t = EzReadParts(@, f.id, EzParts[d])]
        ELSE [f EXCEPT !.t = EzReadAxes(@, f.id, d)]

\* c_ezgdef_supergrid: ig and, in the hash, the axes are those of the first
\* part; the grid keeps no axes of its own.
EzVercode == "1"
EzSuperKey(t, d, sub) == [EzKey[d] EXCEPT !.ig = t.g[sub[1]].key.ig, !.ax = <<>>]
EzSuper(t, d, sub) ==
    LET k == EzSuperKey(t, d, sub)
        f == EzFindOrAdd(t, EzHash([k EXCEPT !.ax = t.g[sub[1]].key.ax]), k)
    IN  IF Len(sub) <= 1 \/ k.igref # EzVercode THEN [t |-> t, id |-> -1, new |-> FALSE]
        ELSE IF ~f.new THEN f
        ELSE [f EXCEPT !.t = EzYyMask(EzYyMask([@ EXCEPT !.g[f.id].sub = sub], sub[1]), sub[2])]

(* ------------------------- pairs of grids (gset) ------------------------- *)
\* Places of a table of n, in the order they are looked at from place k on;
\* the first of them that ends the search.
EzFrom(k, n) == [j \in 1 .. n |-> (k + j - 1) % n]
EzFirst(places, ends) ==
    LET good == {j \in DOMAIN places : places[j] \in ends}
    IN  IF good = {} THEN -1 ELSE places[Min(good)]

\* allocate_gridset_table
EzAllocate(e) == [e EXCEPT !.gset = EzNoSets(1), !.log = 1]

\* reallocate_gridset_table: to the next prime, each pair at its new place
EzReallocate(e) ==
    LET p == EzPrimes[e.log + 1]
        put[k \in -1 .. EzPrimes[e.log] - 1] ==
            IF k = -1 THEN EzNoSets(e.log + 1)
            ELSE IF e.gset[k].gdin = -1 THEN put[k - 1]
            ELSE LET free == {j \in DOMAIN put[k - 1] : put[k - 1][j].gdin = -1}
                 IN  [put[k - 1] EXCEPT ![EzFirst(EzFrom(e.gset[k].gdin % p, p), free)] = e.gset[k]]
    IN  [e EXCEPT !.gset = put[EzPrimes[e.log] - 1], !.log = @ + 1]

\* c_ezdefset, but for iset: finds the pair or makes it
EzPairAt(t, e, place, gdin, gdout) ==
    LET p == EzPrimes[e.log]
        added == [e EXCEPT !.gset[place] = EzSet(gdin), !.n_gdin = @ + 1]
        grown == IF added.n_gdin >= p \div 2 THEN EzReallocate(added) ELSE added
    IN  IF e.gset[place].gdin = gdin
        THEN [t EXCEPT !.g[gdout] = IF place = gdin % p THEN e ELSE [e EXCEPT !.last = gdin]]
        ELSE LET paired == [t EXCEPT !.g[gdout] = grown]
             IN  [paired EXCEPT !.g[gdin].gdin_for = Append(@, gdout)]
EzPairIn(t, e, gdin, gdout) ==
    LET p == EzPrimes[e.log]
        usable == {k \in DOMAIN e.gset : e.gset[k].gdin \in {gdin, -1}}
    IN  EzPairAt(t, e, EzFirst(EzFrom(gdin % p, p), usable), gdin, gdout)
EzPair(t, gdin, gdout) ==
    EzPairIn(t, IF t.g[gdout].n_gdin = 0 THEN EzAllocate(t.g[gdout]) ELSE t.g[gdout], gdin, gdout)

\* The place of a pair from place k on, up to the first free place, going
\* back to place 0 from place n.
EzIfThere(e, place, gdin) == IF place # -1 /\ e.gset[place].gdin = gdin THEN place ELSE -1
EzProbe(e, k, n, gdin) ==
    LET ends == {j \in DOMAIN e.gset : e.gset[j].gdin \in {gdin, -1}}
    IN  EzIfThere(e, EzFirst(EzFrom(k, n), ends), gdin)

\* c_find_gdin: the place of a pair, tried where the last one was (at its
\* hash, if there was none), at its hash for the size a table begins with, and
\* from there on.  Behind the last place of a table it looks at what is not of
\* the table: of what may be there, a place without a pair.
EzFindFurther(t, gdout, at) == [t |-> IF at = -1 THEN t ELSE [t EXCEPT !.g[gdout].last = at], at |-> at]
EzFindIn(t, gdin, gdout, fresh) ==
    LET e == t.g[gdout]
        first == IF fresh THEN gdin % EzPrimes[e.log] ELSE e.last
        direct == gdin % EzPrimes[1]
    IN  IF e.gset[first].gdin = gdin THEN [t |-> t, at |-> first]
        ELSE IF e.gset[direct].gdin = gdin THEN [t |-> t, at |-> direct]
        ELSE EzFindFurther(t, gdout, IF direct + 1 = EzPrimes[e.log] THEN -1
                                     ELSE EzProbe(e, direct + 1, EzPrimes[e.log], gdin))
EzFindPair(t, gdin, gdout) ==
    IF t.g[gdout].last = -1 THEN EzFindIn(EzPair(t, gdin, gdout), gdin, gdout, TRUE)
    ELSE EzFindIn(t, gdin, gdout, FALSE)

(* --------------------------- releasing a grid ---------------------------- *)
\* ez_find_gdin_in_gset, which goes back to place 0 from where the first size
\* of a table ends
EzPlaceIn(e, gdin) ==
    LET k == gdin % EzPrimes[e.log]
    IN  IF e.gset[k].gdin = gdin THEN k ELSE EzProbe(e, k, EzPrimes[1], gdin)
\* c_ezfreegridset: the data of the pair go, its number and its flags stay.
EzFreed(s) == [s EXCEPT !.xy = <<>>, !.zones = EzNoZones]

\* EliminerGrille.  The whole chain of the grid is dropped from gr_list.
EzEliminate(t, i) ==
    LET left == IF t.g[i].access > 0 THEN t.g[i].access - 1 ELSE 0
        users == {t.g[i].gdin_for[j] : j \in DOMAIN t.g[i].gdin_for}
        freed == [o \in DOMAIN t.g |->
                    IF o \in users THEN [t.g[o] EXCEPT !.gset[EzPlaceIn(t.g[o], i)] = EzFreed(@)]
                    ELSE t.g[o]]
    IN  IF left > 0 THEN [t EXCEPT !.g[i].access = left]
        ELSE [g |-> [freed EXCEPT ![i] = EzNoGrid], h |-> [t.h EXCEPT ![t.g[i].bucket] = EzNULL],
              n |-> t.n - 1]

(* -------------------------------- the calls ------------------------------ *)
EzHeld == {x[1] : x \in held}
EzIsHeldAs(i, d) == <<i, d>> \in held
\* The most grids a definition makes: a Yin-Yang grid has two parts, which
\* have a mask each.
EzNeeds(d) == IF EzKey[d].typ # "U" THEN 1 ELSE IF EzHow[d] = "ffile" THEN 5 ELSE 3
EzKeeps(f, d) == /\ EzBecome(f.t)
                 /\ held' = IF f.id = -1 THEN held ELSE held \cup {<<f.id, d>>}
                 /\ UNCHANGED <<iset, closing>>

\* c_ezgdef_fmem, and c_ezgdef_fll and c_ezgdef, which end there
EzGdefFmem(d) == /\ EzHow[d] = "fmem" /\ ~closing /\ nGrilles + EzNeeds(d) <= EzMaxGrids
                 /\ EzKeeps(EzMem(EzTables, EzKey[d]), d)
\* c_ezgdef_ffile, and c_ezqkdef
EzGdefFfile(d) == /\ EzHow[d] = "ffile" /\ ~closing /\ nGrilles + EzNeeds(d) <= EzMaxGrids
                  /\ EzKeeps(EzFile(EzTables, d), d)
EzGdefSupergrid(d) ==
    /\ EzHow[d] = "supergrid" /\ ~closing /\ nGrilles + EzNeeds(d) <= EzMaxGrids
    /\ \E yin, yan \in EzHeld :
          /\ EzIsHeldAs(yin, EzParts[d][1]) /\ EzIsHeldAs(yan, EzParts[d][2])
          /\ EzKeeps(EzSuper(EzTables, d, <<yin, yan>>), d)

\* c_ezget_subgridids: the program learns the numbers of the parts.
EzSubgridids(i, d) ==
    /\ EzIsHeldAs(i, d) /\ ~closing /\ Len(Grille[i].sub) = 2
    /\ held' = held \cup {<<Grille[i].sub[k], EzParts[d][k]>> : k \in 1 .. 2}
    /\ UNCHANGED <<Grille, gr_list, nGrilles, iset, closing>>

\* c_gdrls, the way a program can use it: on the last grid defined, when it
\* is alone in its chain and nothing was paired with it as an input; on a
\* grid that was defined more than once; or on all of the grids, inputs
\* before their outputs.  Otherwise the next definition takes the place of a
\* grid in use, or a pair is looked for in a grid that is gone (% primes[0]).
EzIsPaired(gdin, gdout) == Grille[gdout].n_gdin > 0 /\ EzPlaceIn(Grille[gdout], gdin) # -1
EzReleasable(i) ==
    \/ Grille[i].access > 1
    \/ /\ \A j \in DOMAIN Grille[i].gdin_for : EzIsPaired(i, Grille[i].gdin_for[j])
       /\ closing \/ /\ i = nGrilles - 1 /\ gr_list[Grille[i].bucket] = i
                     /\ Grille[i].gdin_for = <<>> /\ EzKey[CHOOSE d \in EzDefs : EzIsHeldAs(i, d)].typ # "U"
                     /\ \A o \in 0 .. i - 1 : i # Grille[o].mask /\ \A k \in DOMAIN Grille[o].sub : i # Grille[o].sub[k]
EzRelease(i) ==
    /\ i \in EzHeld /\ EzReleasable(i)
    /\ LET t == EzEliminate(EzTables, i)
       IN  /\ EzBecome(t)
           /\ held' = IF t.g[i].key = EzNoKey THEN {x \in held : x[1] # i} ELSE held
           /\ closing' = (closing /\ t.n > 0)
    /\ UNCHANGED iset

\* c_ezdefset
EzDefset(gdout, gdin) ==
    LET out == IF gdout = EzUndefined THEN gdin ELSE gdout
    IN  /\ gdin \in EzHeld /\ out \in EzHeld /\ ~closing
        /\ EzBecome(EzPair(EzTables, gdin, out))
        /\ iset' = <<gdin, out>>
        /\ UNCHANGED <<held, closing>>

EzCloseAll == /\ ~closing /\ nGrilles > 0 /\ closing' = TRUE
              /\ UNCHANGED <<Grille, gr_list, nGrilles, iset, held>>

EzGridsInit == /\ Grille = EzEmpty.g /\ gr_list = EzEmpty.h /\ nGrilles = 0
               /\ iset = <<EzUndefined, EzUndefined>> /\ held = {} /\ closing = FALSE
=============================================================================
