------------------------------ MODULE EzInterp ------------------------------
(* Interpolation between the grids of EzGrids: c_ezsint, c_ezuvint and      *)
(* c_ezwdint for the pair given to c_ezdefset, with the options in          *)
(* groptions, between plain and Yin-Yang grids.  Positions, zones and masks *)
(* of a pair are computed once and kept.  A point of the output is said by  *)
(* where its value comes from, see EzValue.                                 *)
EXTENDS EzGrids

CONSTANTS
    EzPoints(_),        \* points of the grid of a key
    EzWhere(_, _),      \* a point in the grid of a key: "out", "nord", "sud",
                        \* "polenord", "polesud" or "mid"
    EzExtension(_),     \* extension of the grid of a key, 0, 1 or 2
    EzSpans(_),         \* its longitudes span 358 degrees
    EzPrograms          \* programs: the definitions each gives (defs), to what
                        \* it pairs them (pairs, <<output, input>>), its options
                        \* and values, the grids it gives as subgridid (subgrids),
                        \* and the bound of its calls (calls)

VARIABLES
    groptions,
    ezprogram,          \* the program that runs
    ezlast,             \* its last interpolation, or EzNothing
    ezcalls             \* calls so far
ezvars == <<tablevars, groptions, ezprogram, ezlast, ezcalls>>

(* -------------------------------- options -------------------------------- *)
EzFrench == [correction_polaire |-> "polar_correction", degre_interp |-> "interp_degree",
             degre_extrap |-> "extrap_degree", use_1sousgrille |-> "use_1subgrid",
             oui |-> "yes", ouiouioui |-> "yesyesyes", non |-> "no", voisin |-> "nearest",
             lineair |-> "linear", lineaire |-> "linear", cubique |-> "cubic",
             neutre |-> "neutral", valeur |-> "value"]
EzTranslated(w) == IF w \in DOMAIN EzFrench THEN EzFrench[w] ELSE w

EzAverages == {"average", "sph_average"}
EzAccepted == [use_1subgrid |-> {"yes", "no"}, verbose |-> {"yes", "yesyesyes", "no"},
               polar_correction |-> {"yes", "no"},
               interp_degree |-> {"nearest", "linear", "cubic"} \cup EzAverages,
               extrap_degree |-> {"neutral", "nearest", "linear", "cubic", "maximum", "minimum",
                                  "value", "abort"},
               cloud_interp_alg |-> {"linear", "distance"}]
\* "neutral" copies the number of the degree: those of the averages are the
\* numbers of "maximum" and "minimum".
EzNeutral(degree) == CASE degree = "average" -> "maximum" [] degree = "sph_average" -> "minimum"
                       [] OTHER -> degree
\* c_ezsetopt: what it does not know changes nothing.
EzSetopt(o, option, value) ==
    LET opt == EzTranslated(option)
        val == EzTranslated(value)
    IN  IF opt \notin DOMAIN EzAccepted THEN o
        ELSE IF val \notin EzAccepted[opt] THEN o
        ELSE [o EXCEPT ![opt] = IF opt = "extrap_degree" /\ val = "neutral"
                                THEN EzNeutral(o.interp_degree) ELSE val]
\* c_ezgetopt: averages have no name.
EzGetopt(o, option) ==
    LET val == o[EzTranslated(option)]
        words == {w \in DOMAIN EzFrench : EzFrench[w] = val /\ w # "lineair"}
        error == val \in EzAverages
    IN  IF option \in {"degre_interp", "degre_extrap"}
        THEN IF error THEN "erreur" ELSE IF words = {} THEN val ELSE CHOOSE w \in words : TRUE
        ELSE IF error THEN "error" ELSE val
\* c_ezsetfval and c_ezsetival
EzSetfval(o, option, v) ==
    IF option \in {"extrap_value", "missing_gridpt_distance", "missing_distance_threshold"}
    THEN [o EXCEPT ![option] = v] ELSE o
EzSetival(o, option, v) ==
    IF option \in {"weight_number", "missing_points_tolerance", "subgridid"}
    THEN [o EXCEPT ![option] = v] ELSE o
\* c_ezgetval
EzGetval(o, option) == o[option]

EzFirstOptions ==
    [use_1subgrid |-> "no", verbose |-> "no", polar_correction |-> "yes", interp_degree |-> "cubic",
     extrap_degree |-> "maximum", cloud_interp_alg |-> "distance", extrap_value |-> "0",
     missing_gridpt_distance |-> "0.5", missing_distance_threshold |-> "3.0", weight_number |-> 16,
     missing_points_tolerance |-> 0, subgridid |-> -1, vecteur |-> FALSE]

(* ------------------------ positions, zones, values ----------------------- *)
\* A value: the section of the input field it was taken from, the grid that
\* section is on, the pair of grids the position was computed from, the degree
\* or what stands for one, the zone it was corrected for, and the grids its
\* wind was turned by.
EzValue(section, key, xy, degree) ==
    [section |-> section, by |-> key, at |-> xy, degree |-> degree, zone |-> "", turned |-> <<>>]

EzPairOf(t, gdin, gdout) == t.g[gdout].gset[EzFindPair(t, gdin, gdout).at]

\* ez_calcxy: once for a pair
EzCalcxyAt(f, gdin, gdout) ==
    IF f.t.g[gdout].gset[f.at].xxx THEN f.t
    ELSE [f.t EXCEPT !.g[gdout].gset[f.at].xy = <<f.t.g[gdin].key, f.t.g[gdout].key>>,
                     !.g[gdout].gset[f.at].xxx = TRUE]
EzCalcxy(t, gdin, gdout) == EzCalcxyAt(EzFindPair(t, gdin, gdout), gdin, gdout)

EzZone(in, out, places) == {p \in EzPoints(out) : EzWhere(p, in) \in places}
EzDefzoneDehors(in, out) == EzZone(in, out, {"out"})
EzDefzoneNord(in, out) == EzZone(in, out, {"nord", "polenord"})
EzDefzoneSud(in, out) == EzZone(in, out, {"sud", "polesud"})
EzDefzonePolenord(in, out) == EzZone(in, out, {"polenord"})
EzDefzonePolesud(in, out) == EzZone(in, out, {"polesud"})

\* ez_defzones: points of a limited grid may be outside of it, those of a
\* global one beyond its last rows.  It is the extension of the output grid
\* that is looked at for an L grid, which then goes on as a Z grid.
EzLimited(in, out) ==
    \/ in.typ \in {"N", "S", "!"}
    \/ in.typ = "L" /\ EzExtension(out) = 0
    \/ /\ in.typ \in {"L", "Y", "Z"}
       /\ in.ref \in {"N", "S"} \/ (in.ref \in {"E", "L"} /\ ~EzSpans(in))
EzZones(in, out) ==
    IF EzLimited(in, out) THEN [EzNoZones EXCEPT !.dehors = EzDefzoneDehors(in, out)]
    ELSE [dehors |-> {}, nord |-> EzDefzoneNord(in, out), sud |-> EzDefzoneSud(in, out),
          polenord |-> EzDefzonePolenord(in, out), polesud |-> EzDefzonePolesud(in, out)]
EzDefzonesAt(f, gdin, gdout) ==
    IF f.t.g[gdout].gset[f.at].zoned THEN f.t
    ELSE [f.t EXCEPT !.g[gdout].gset[f.at].zones = EzZones(f.t.g[gdin].key, f.t.g[gdout].key),
                     !.g[gdout].gset[f.at].zoned = TRUE]
EzDefzones(t, gdin, gdout) == EzDefzonesAt(EzFindPair(t, gdin, gdout), gdin, gdout)

\* c_gdinterp: averages are for output grids in latitude and longitude.
EzDegree(o, out) ==
    IF o.interp_degree \in EzAverages /\ out.typ \notin {"L", "A", "B", "G"} THEN "linear"
    ELSE o.interp_degree

\* Where an interpolation is: the tables t, the options o and the pair iset.
EzState == [t |-> EzTables, o |-> groptions, iset |-> iset]
EzDefsetIn(s, gdout, gdin) == [s EXCEPT !.t = EzPair(@, gdin, gdout), !.iset = <<gdin, gdout>>]

EzCorrect(z, points, zone, degree) ==
    [p \in DOMAIN z |-> IF p \in points THEN [z[p] EXCEPT !.zone = zone, !.degree = degree] ELSE z[p]]

\* ez_corrval, with ez_corrval_aunord and ez_corrval_ausud
EzFudge(o) ==
    IF o.extrap_degree \notin {"maximum", "minimum", "value"} THEN o.extrap_degree
    ELSE IF o.vecteur THEN "zero"
    ELSE IF o.extrap_degree = "value" THEN o.extrap_value ELSE o.extrap_degree
EzCorrvalAunord(z, zones, degree) == EzCorrect(z, zones.nord, "nord", degree)
EzCorrvalAusud(z, zones, degree) == EzCorrect(z, zones.sud, "sud", degree)
EzCorrval(s, zones, z) ==
    LET dehors == EzCorrect(z, zones.dehors, "dehors", EzFudge(s.o))
        rows == EzCorrvalAusud(EzCorrvalAunord(dehors, zones, s.o.interp_degree), zones, s.o.interp_degree)
        poles == EzCorrect(EzCorrect(rows, zones.polenord, "polenord", "pole"), zones.polesud, "polesud", "pole")
        stopped == zones.dehors # {} /\ s.o.extrap_degree = "abort"
    IN  [s |-> s, z |-> IF stopped THEN z ELSE IF s.o.vecteur THEN dehors ELSE poles,
         code |-> IF stopped THEN -1 ELSE IF zones.dehors # {} THEN 2 ELSE 0]

\* c_gdinterp, once the positions are known, and the zones
EzPairIset(s) == EzPairOf(s.t, s.iset[1], s.iset[2])
EzGdinterp(s, section) ==
    LET in == s.t.g[s.iset[1]].key
        out == s.t.g[s.iset[2]].key
        xy == EzPairIset(s).xy
    IN  [p \in EzPoints(out) |-> EzValue(section, in, xy, EzDegree(s.o, out))]
EzCorrected(s, z) == EzCorrval(s, EzPairIset(s).zones, z)
\* c_ezsint_orig, of one section of the field
EzSintPlaced(s, section) ==
    IF s.o.polar_correction = "no" THEN [s |-> s, z |-> EzGdinterp(s, section), code |-> 0]
    ELSE EzCorrected([s EXCEPT !.t = EzDefzones(@, s.iset[1], s.iset[2])], EzGdinterp(s, section))
EzSintOrig(s, section) ==
    LET in == s.t.g[s.iset[1]].key
    IN  IF s.iset[1] # s.iset[2]
        THEN EzSintPlaced([s EXCEPT !.t = EzCalcxy(@, s.iset[1], s.iset[2])], section)
        ELSE [s |-> s, z |-> [p \in EzPoints(in) |-> EzValue(section, in, <<in, in>>, "copy")], code |-> 1]

\* c_gdwdfuv, speed and direction from the components on a grid, and c_gduvfwd
EzGdwdfuv(v) == [v EXCEPT !.turned = Append(@, v.by)]
EzGduvfwd(v, out) == [v EXCEPT !.turned = Append(@, out)]

\* ez_corrvec_aunord and ez_corrvec_ausud: rows at the poles from winds there
EzCorrvecAunord(z, zones) == EzCorrect(z, zones.nord, "nord", "polarwind")
EzCorrvecAusud(z, zones) == EzCorrect(z, zones.sud, "sud", "polarwind")
EzCorrvec(z, zones) == EzCorrvecAusud(EzCorrvecAunord(z, zones), zones)

\* c_ezwdint_orig, of both components the same way.  A refusal of c_ezsint is
\* forgotten.
EzWinds(v) ==
    LET z == IF v.s.o.polar_correction = "yes" THEN EzCorrvec(v.z, EzPairIset(v.s).zones) ELSE v.z
    IN  [s |-> [v.s EXCEPT !.o.vecteur = FALSE], z |-> [p \in DOMAIN v.z |-> EzGdwdfuv(z[p])],
         code |-> IF v.code = 2 THEN 2 ELSE 0]
EzWdintOrig(s, section) == EzWinds(EzSintOrig([s EXCEPT !.o.vecteur = TRUE], section))
\* c_ezuvint_orig: the same, and back to components on the output grid
EzComponents(v, out) == [v EXCEPT !.z = [p \in DOMAIN v.z |-> EzGduvfwd(v.z[p], out)]]
EzUvintOrig(s, section) == EzComponents(EzWdintOrig(s, section), s.t.g[s.iset[2]].key)
EzOrig(s, section, kind) ==
    CASE kind = "s" -> EzSintOrig(s, section)
      [] kind = "uv" -> EzUvintOrig(s, section)
      [] kind = "wd" -> EzWdintOrig(s, section)

(* ------------------------------- Yin-Yang -------------------------------- *)
\* c_ezyymint: a field of zeros on the part of Yin that is Yin alone, 1 where
\* it is extrapolated: the points to take from Yang
EzYymintAsAsked(s, gdout, yin) ==                                             \* mutant
    LET m == EzSintOrig(EzDefsetIn(s, gdout, s.t.g[yin].mask), 1)
    IN  [s |-> m.s, maskout |-> {p \in DOMAIN m.z : m.z[p].degree = "1"}]
EzMasking(o) == EzSetopt(EzSetfval(EzSetopt(o, "interp_degree", "nearest"), "extrap_value", "1"),
                         "extrap_degree", "value")
EzMask(m, o) ==
    LET extrap == EzGetopt(o, "extrap_degree")
        back == EzSetopt(m.s.o, "interp_degree", EzGetopt(o, "interp_degree"))
        valued == IF extrap = "value"
                  THEN EzSetfval(back, "extrap_value", EzGetval(o, "extrap_value")) ELSE back
    IN  [s |-> [m.s EXCEPT !.o = EzSetopt(valued, "extrap_degree", extrap)],
         maskout |-> {p \in DOMAIN m.z : m.z[p].degree = "1"}]
EzYymint(s, gdout, yin) ==
    EzMask(EzSintOrig(EzDefsetIn([s EXCEPT !.o = EzMasking(@)], gdout, s.t.g[yin].mask), 1), s.o)

\* c_ezyy_calcxy: once for a pair.  Its place at is found before the masks,
\* which pair more grids with gdout.
EzSections(t, i) == IF t.g[i].sub = <<>> THEN <<i>> ELSE t.g[i].sub
EzKeepMasks(s, after, at, maskouts) ==
    LET gdout == s.iset[2]
        ins == s.t.g[s.iset[1]].sub
        outs == EzSections(s.t, gdout)
        part(k) == [maskout |-> maskouts[k], yin |-> <<s.t.g[ins[1]].key, s.t.g[outs[k]].key>>,
                    yan |-> <<s.t.g[ins[2]].key, s.t.g[outs[k]].key>>]
    IN  [after EXCEPT !.t.g[gdout].gset[at].parts = <<part(1), IF Len(outs) = 1 THEN EzNoMask ELSE part(2)>>,
                      !.t.g[gdout].gset[at].yyxxx = TRUE]
EzBothMasks(s, at, yin, yan) == EzKeepMasks(s, yan.s, at, <<yin.maskout, yan.maskout>>)
EzSecondMask(s, at, yin) ==
    LET outs == EzSections(s.t, s.iset[2])
    IN  IF Len(outs) = 1 THEN EzKeepMasks(s, yin.s, at, <<yin.maskout>>)
        ELSE EzBothMasks(s, at, yin, EzYymint(yin.s, outs[2], s.t.g[s.iset[1]].sub[1]))
EzYyCalcxy(s, at) ==
    LET gdout == s.iset[2]
    IN  IF s.t.g[gdout].gset[at].yyxxx THEN s
        ELSE EzSecondMask(s, at, EzYymint(s, EzSections(s.t, gdout)[1], s.t.g[s.iset[1]].sub[1]))

\* c_gdxysval and c_gdxyvval: at positions in a plain grid, no zone corrected
EzGdxysval(s, section, gdin, xy, out) == EzValue(section, s.t.g[gdin].key, xy, EzDegree(s.o, out))

\* The end of c_ezyysint: each point of a part of the output from Yang if it
\* is masked, from Yin otherwise
EzMerge(s, at, gdin, gdout) ==
    LET ins == s.t.g[gdin].sub
        outs == EzSections(s.t, gdout)
        from(k, p, out) ==
            LET part == s.t.g[gdout].gset[at].parts[k]
            IN  IF p \in part.maskout THEN EzGdxysval(s, 2, ins[2], part.yan, out)
                ELSE EzGdxysval(s, 1, ins[1], part.yin, out)
    IN  [k \in DOMAIN outs |-> LET out == s.t.g[outs[k]].key
                               IN  [p \in EzPoints(out) |-> from(k, p, out)]]
\* of c_ezyywdint
EzMergeWd(s, at, gdin, gdout) ==
    LET z == EzMerge(s, at, gdin, gdout)
    IN  [k \in DOMAIN z |-> [p \in DOMAIN z[k] |-> EzGdwdfuv(z[k][p])]]
\* and of c_ezyyuvint
EzMergeUv(s, at, gdin, gdout) ==
    LET z == EzMergeWd(s, at, gdin, gdout)
        outs == EzSections(s.t, gdout)
    IN  [k \in DOMAIN z |-> [p \in DOMAIN z[k] |-> EzGduvfwd(z[k][p], s.t.g[outs[k]].key)]]

EzRefused(s) == [s |-> s, z |-> <<>>, code |-> -1]
EzOne(r) == [s |-> r.s, z |-> <<r.z>>, code |-> r.code]

\* c_ezyysint, c_ezyyuvint, c_ezyywdint: to a Yin-Yang grid; from one of the
\* two parts, or from both
EzTwo(yin, yan) ==
    [s |-> yan.s, z |-> <<yin.z, yan.z>>, code |-> IF 2 \in {yin.code, yan.code} THEN 2 ELSE 0]
EzToYang(yin, gdin, outs, kind) == EzTwo(yin, EzOrig(EzDefsetIn(yin.s, outs[2], gdin), 1, kind))
EzToYinYang(s, kind) ==
    LET gdin == s.iset[1]
        outs == s.t.g[s.iset[2]].sub
    IN  EzToYang(EzOrig(EzDefsetIn(s, outs[1], gdin), 1, kind), gdin, outs, kind)
EzFromBoth(s, at, gdin, gdout, kind) ==
    [s |-> s, code |-> 0,
     z |-> CASE kind = "s" -> EzMerge(s, at, gdin, gdout)
             [] kind = "uv" -> EzMergeUv(s, at, gdin, gdout)
             [] kind = "wd" -> EzMergeWd(s, at, gdin, gdout)]
EzYyAt(s, at, kind) ==
    LET gdout == s.iset[2]
        ins == s.t.g[s.iset[1]].sub
        same == {k \in DOMAIN ins : ins[k] = gdout}
        chosen == {k \in DOMAIN ins : ins[k] = s.o.subgridid}
        only(k) == EzOne(EzOrig(EzDefsetIn(s, gdout, ins[k]), k, kind))
    IN  IF ins = <<>> THEN EzToYinYang(s, kind)
        ELSE IF same = {} /\ s.o.use_1subgrid = "yes" /\ (s.t.g[gdout].sub # <<>> \/ chosen = {})
        THEN EzRefused(s)
        ELSE IF same # {} \/ s.o.use_1subgrid = "yes" THEN only(Min(IF same # {} THEN same ELSE chosen))
        ELSE EzFromBoth(EzYyCalcxy(s, at), at, s.iset[1], gdout, kind)
EzEnter(s, f, kind) == EzYyAt([s EXCEPT !.t = f.t], f.at, kind)
EzYy(s, kind) == EzEnter(s, EzFindPair(s.t, s.iset[1], s.iset[2]), kind)

\* c_ezsint, c_ezuvint, c_ezwdint
EzIntMoved(s, kind) ==                                                        \* mutant
    IF s.iset[1] = s.iset[2] \/ (s.t.g[s.iset[1]].sub = <<>> /\ s.t.g[s.iset[2]].sub = <<>>)
    THEN EzOne(EzOrig(s, 1, kind)) ELSE EzYy(s, kind)
EzInt(s, kind) ==
    IF s.iset[1] = s.iset[2] \/ (s.t.g[s.iset[1]].sub = <<>> /\ s.t.g[s.iset[2]].sub = <<>>)
    THEN EzOne(EzOrig(s, 1, kind))
    ELSE [EzYy(s, kind) EXCEPT !.s.iset = s.iset]

(* -------------------------------- the calls ------------------------------ *)
EzNothing == <<>>
EzCount == ezcalls < ezprogram.calls /\ ezcalls' = ezcalls + 1

\* The way a program can use it: c_ezdefset found or made the pair, and
\* neither grid was released; a Yin-Yang grid is not interpolated to itself,
\* nor with averages, which need the zones off as well; and masks need the
\* polar correction, without which no point is outside.
EzUsable ==
    /\ iset[1] \in EzHeld /\ iset[2] \in EzHeld /\ ~closing
    /\ EzIsPaired(iset[1], iset[2])
    /\ LET yy == \E k \in 1 .. 2 : Grille[iset[k]].sub # <<>>
       IN  /\ yy => iset[1] # iset[2]
           /\ groptions.interp_degree \in EzAverages => ~yy /\ groptions.polar_correction = "no"
           /\ Grille[iset[1]].sub # <<>> => "yes" \in {groptions.polar_correction, groptions.use_1subgrid}
EzReturn(kind, r) ==
    /\ EzBecome(r.s.t) /\ groptions' = r.s.o /\ iset' = r.s.iset
    /\ ezlast' = [kind |-> kind, iset |-> iset, o |-> groptions, z |-> r.z, code |-> r.code]
    /\ UNCHANGED <<held, closing>>
EzInterpolate(kind) ==
    /\ EzCount
    /\ IF iset = <<EzUndefined, EzUndefined>> THEN kind = "s" /\ EzReturn(kind, EzRefused(EzState))
       ELSE EzUsable /\ EzReturn(kind, EzInt(EzState, kind))
EzSint == EzInterpolate("s")
EzUvint == EzInterpolate("uv")
EzWdint == EzInterpolate("wd")

EzSet1(o) == EzCount /\ groptions' = o /\ ezlast' = EzNothing /\ UNCHANGED tablevars
EzOption == \E x \in ezprogram.options : EzSet1(EzSetopt(groptions, x[1], x[2]))
EzSetval == \E x \in ezprogram.values : EzSet1(EzSetfval(groptions, x[1], x[2]))
EzSubgrid == \E x \in held : x[2] \in ezprogram.subgrids /\ EzSet1(EzSetival(groptions, "subgridid", x[1]))

EzDefine == \E d \in ezprogram.defs : EzGdefFmem(d) \/ EzGdefFfile(d) \/ EzGdefSupergrid(d)
EzAskParts == \E x \in held : EzSubgridids(x[1], x[2])
EzPairUp == \E x, y \in held : \/ <<x[2], y[2]>> \in ezprogram.pairs /\ EzDefset(x[1], y[1])
                               \/ <<"", y[2]>> \in ezprogram.pairs /\ EzDefset(EzUndefined, y[1])
EzLetGo == \E i \in EzHeld : EzRelease(i)
EzTable == /\ EzDefine \/ EzAskParts \/ EzPairUp \/ EzLetGo \/ EzCloseAll
           /\ EzCount /\ ezlast' = EzNothing /\ UNCHANGED groptions

(* ------------------------------ properties ------------------------------- *)
\* c_ezgprm and c_ezgxprm
EzGxprm(e) == [typ |-> e.key.typ, n |-> e.key.n, ig |-> e.key.ig, ref |-> e.key.ref, igref |-> e.key.igref]

EzMeant(d) == EzAxes(EzKey[d], EzKey[d])
EzReads(i, k) == EzGxprm(Grille[i]) = EzGxprm([key |-> k]) /\ Grille[i].key.ax = k.ax
EzSaysYinYang(d) ==
    IF EzHow[d] = "ffile" THEN EzDescribed(d)
    ELSE [EzKey[d] EXCEPT !.ig = EzMeant(EzParts[d][1]).ig, !.ax = <<>>]
EzStaysDefined(i, d) ==
    IF EzKey[d].typ # "U" THEN EzReads(i, EzMeant(d))
    ELSE /\ EzReads(i, EzSaysYinYang(d)) /\ Len(Grille[i].sub) = 2
         /\ \A k \in 1 .. 2 : LET part == Grille[i].sub[k]
                                  meant == EzMeant(EzParts[d][k])
                              IN  EzReads(part, meant) /\ EzReads(Grille[part].mask, EzMaskKey(meant))

\* Whatever else is defined, paired, interpolated or released, the number a
\* program was given for a grid goes on meaning that grid, for a Yin-Yang
\* grid with its two parts and their masks in that order, and defining the
\* grid again gives the same number (chains of gr_list, EliminerGrille).
GridsStayDefined ==
    ~closing => /\ \A x \in held : EzStaysDefined(x[1], x[2])
                /\ \A x, y \in held : x[2] = y[2] => x[1] = y[1]

\* What a point of the output is, said from the two definitions alone.
EzDefinition(i) == CHOOSE d \in EzDefs : EzIsHeldAs(i, d)
EzSectionKeys(d) == IF EzKey[d].typ # "U" THEN <<EzMeant(d)>> ELSE <<EzMeant(EzParts[d][1]), EzMeant(EzParts[d][2])>>
EzMerged(ins, outs, o) ==
    Len(ins) = 2 /\ o.use_1subgrid = "no" /\ (Len(outs) = 2 \/ outs[1] \notin {ins[1], ins[2]})
EzSource(ins, outs, o, numbers, p) ==
    IF Len(ins) = 1 THEN 1
    ELSE IF EzMerged(ins, outs, o) THEN IF EzWhere(p, EzMaskKey(ins[1])) = "out" THEN 2 ELSE 1
    ELSE CHOOSE k \in 1 .. 2 : IF outs[1] \in {ins[1], ins[2]} THEN ins[k] = outs[1]
                               ELSE numbers[k] = o.subgridid
EzExpectedZone(in, out, kind, p) ==
    LET w == EzWhere(p, in)
    IN  CASE EzLimited(in, out) -> IF w = "out" THEN "dehors" ELSE ""
          [] w \in {"mid", "out"} -> ""
          [] kind = "s" -> w
          [] OTHER -> IF w \in {"nord", "polenord"} THEN "nord" ELSE "sud"
EzExpectedDegree(o, kind, zone) ==
    CASE zone = "" -> o.interp_degree
      [] zone = "dehors" -> EzFudge([o EXCEPT !.vecteur = (kind # "s")])
      [] kind # "s" -> "polarwind"
      [] zone \in {"polenord", "polesud"} -> "pole"
      [] OTHER -> o.interp_degree

\* Every value of an interpolation comes from the section of the field that
\* covers its point, on the grid of that section, at the position the point
\* has there, with the degree asked for, corrected for the zone the point is
\* in, and its wind turned by the grid it came from: also when the positions,
\* zones and masks were kept from an earlier call made under other options,
\* and when the tables have grown since.
InterpolatesFromItsParts ==
    ezlast # EzNothing /\ ezlast.z # <<>> =>
        LET o == ezlast.o
            kind == ezlast.kind
            ins == EzSectionKeys(EzDefinition(ezlast.iset[1]))
            outs == EzSectionKeys(EzDefinition(ezlast.iset[2]))
            as(k, p) ==
                LET from == EzSource(ins, outs, o, Grille[ezlast.iset[1]].sub, p)
                    in == ins[from]
                    merged == EzMerged(ins, outs, o)
                    plain == merged \/ o.polar_correction = "no" \/ in = outs[k]
                    zone == IF plain THEN "" ELSE EzExpectedZone(in, outs[k], kind, p)
                    zoned == IF zone = "dehors" /\ o.extrap_degree = "abort" THEN "" ELSE zone
                IN  [section |-> from, by |-> in, at |-> <<in, outs[k]>>, zone |-> zoned,
                     degree |-> IF in = outs[k] /\ ~merged THEN "copy" ELSE EzExpectedDegree(o, kind, zoned),
                     turned |-> CASE kind = "s" -> <<>> [] kind = "uv" -> <<in, outs[k]>> [] OTHER -> <<in>>]
        IN  /\ Len(ezlast.z) = Len(outs)
            /\ \A k \in DOMAIN outs : ezlast.z[k] = [p \in EzPoints(outs[k]) |-> as(k, p)]
            /\ ezlast.code = 2 <=> \E k \in DOMAIN outs : \E p \in EzPoints(outs[k]) : as(k, p).zone = "dehors"

\* An interpolation leaves the pair and the options as the program set them,
\* though it pairs other grids and sets other options on its way (c_ezyymint):
\* all but the value of extrapolation when another extrapolation is asked for.
EzInterpolated == ezcalls' # ezcalls /\ ezlast' # EzNothing
PairAndOptionsKept ==
    [][EzInterpolated =>
        /\ iset' = iset
        /\ \A option \in DOMAIN groptions \ {"extrap_value"} : groptions'[option] = groptions[option]
        /\ groptions.extrap_degree = "value" => groptions'.extrap_value = groptions.extrap_value]_ezvars

EzInit == /\ EzGridsInit /\ groptions = EzFirstOptions /\ ezlast = EzNothing /\ ezcalls = 0
          /\ ezprogram \in EzPrograms
EzNext == /\ EzTable \/ EzSint \/ EzUvint \/ EzWdint \/ EzOption \/ EzSetval \/ EzSubgrid
          /\ UNCHANGED ezprogram
=============================================================================
