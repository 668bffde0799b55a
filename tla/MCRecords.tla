----------------------------- MODULE MCRecords ------------------------------
(* What a record goes through between a program and a file: the filters and *)
(* searches that choose it, the reports and fields it holds, the packers    *)
(* and compressors of its data, the codes of its levels, dates and grid,    *)
(* and the grids it is interpolated between.  One part runs at a time; the  *)
(* parts share no variable, and the others stay as they began.              *)
EXTENDS Excdes, Burp, FstRecord, MissingValue, FstFind, Calendar, Compressor,
        TokenPacker, IpCodes, FloatPacker, GridCodes, EzInterp, TLC

CONSTANTS pa, pb, ea, eb, ka, va, la, lb, na, nb

VARIABLE part

recordsvars == <<part, rqvars, burpvars, fstvars, mvvars, findvars, calendarvars,
                 compressorvars, packervars, ipvars, fpvars, gcvars, ezvars>>

(* filters: set 1 has a name, a date and a grid, set 0 values, ranges with  *)
(* and without a step.  Records have a grid with ig2 and ig4 apart or alike *)
MCGrid(g, a, b) == [grtyp |-> g, ig2 |-> a, ig4 |-> b]
MCAsk == [s \in Sets |-> [i \in Criteria |->
            CASE i = "suppl"   -> IF s = 1 THEN {<<MCGrid(pa, 2, -1)>>} ELSE {}
              [] i = "ip1"     -> IF s = 1 THEN {} ELSE {<<2, -2, 3>>, <<1, -2, 3, -3, 2>>, <<5, 3>>}
              [] i = "dates"   -> IF s = 1 THEN {<<-1>>} ELSE {<<2, -2>>, <<1, -2, 3, -3, 2>>, <<2, 3>>}
              [] i = "nomvars" -> {<<pa>>}]]
MCLevel == [v \in 1 .. 5 |-> IF v <= 3 THEN [kind |-> 1, p |-> v]
                             ELSE IF v = 4 THEN [kind |-> 2, p |-> 2] ELSE [kind |-> 1, p |-> 2]]
MCBegins == {<<pa, pa>>, <<pb, pb>>}
MCAskGrid == [s \in Sets |-> [i \in Criteria |-> IF s = 0 /\ i = "suppl" THEN {<<MCGrid(ANY, -1, 1)>>} ELSE {}]]
Candidate(l, d, n, g) == [ip1 |-> l, dates |-> d, nomvars |-> n, name |-> n] @@ g
MCCandidates == {Candidate(l, d, pa, MCGrid(pa, 1, 2)) : l \in 1 .. 3, d \in 1 .. 3}
                \cup {Candidate(5, 1, pa, MCGrid(pb, 2, 1)), Candidate(4, 1, pa, MCGrid(pa, 2, 2)),
                      Candidate(2, 2, pb, MCGrid(pb, 1, 1)), Candidate(2, 2, pb, MCGrid(pa, 2, 1))}

(* reports: a short block, one with more elements than a header holds, one  *)
(* with repeated and coded elements                                         *)
MCBlock(l, nt, b, t, n, d, v) ==
    [list |-> l, nval |-> 1, nt |-> nt, bfam |-> b, btyp |-> t, nbit |-> n, datyp |-> d, tbl |-> v]
MCNewBlocks == {MCBlock(<<ea>>, 3, 65, <<1, 2, 3>>, 2, 2, <<1, -1, 3>>),
                MCBlock(<<ea, eb, ea, eb>>, 1, 2, <<1, 2, 4>>, 12, 2, <<5, -4, 0, -1>>),
                MCBlock(<<ea, NoElement, eb, CODE7, ea, CODE7>>, 1, 65, <<1, 1, 4>>, 2, 7,
                        <<5, 6, 7, 8, 9, 10>>)}
MCNewValues == {<<2^22, -1, 0>>, <<-5, 6, -1>>, <<2^24, 2, 3, -4>>}
MCFamilies == {-1, 65, 2}
MCTypes == {<<-1, -1, -1>>, <<1, -1, 4>>}

(* fields: every data type, alone, compressed and with missing values       *)
MCRequest(len, d, n, marked) == [len |-> len, datyp |-> d, npak |-> n, marks |-> marked]
MCFRequests ==
    {MCRequest(4, d, n, FALSE) : d \in {1, 129, 134, 133, 197, 801}, n \in {-32, -12}}
    \cup {MCRequest(4, d, -16, TRUE) : d \in {65, 197}}
    \cup {MCRequest(8, d, n, TRUE) : d \in {1, 69, 193}, n \in {-64, -16}}
    \cup {MCRequest(l, d, n, TRUE) : l \in {1, 2, 4}, d \in {2, 130, 132, 194}, n \in {-16, -5}}
    \cup {MCRequest(4, d, n, FALSE) : d \in {3, 131, 8, 6}, n \in {-8, -20, 1}}
    \cup {MCRequest(1, 7, -8, FALSE), MCRequest(8, 8, -64, FALSE), MCRequest(4, 9, -8, FALSE)}
    \cup {MCRequest(4, 66, 1, TRUE), MCRequest(1, 7, -7, FALSE), MCRequest(4, 136, -32, FALSE),
          MCRequest(4, 1, -65, FALSE), MCRequest(4, 135, -8, TRUE)}
MCFRewrites == {q \in MCFRequests : q.datyp \in {801, 7}}
MCRemap == <<<<6, 134>>, <<0, 0>>>>

(* missing values: integers of 4 bits and 3, reals of a few hundreds        *)
MCMvWidth == [t \in MvSigned \cup MvUnsigned |-> IF t \in {"int", "uint"} THEN 4 ELSE 3]
MCMvMark == [t \in MvTypes |-> CASE t = "int" -> -8
                                 [] t \in {"short", "byte"} -> -4
                                 [] t = "uint" -> 15
                                 [] t \in {"ushort", "ubyte"} -> 7
                                 [] OTHER -> -900]
MCMvValues == [t \in MvTypes |-> CASE t = "int" -> {-8, -1, 0, 4, 5, 7}
                                   [] t = "short" -> {-4, -3, -2, -1, 0, 3}
                                   [] t = "byte" -> {-4, -3, -2}
                                   [] t = "uint" -> {0, 3, 6, 7, 15}
                                   [] t = "ushort" -> {0, 2, 6, 7}
                                   [] t = "ubyte" -> {1, 3, 7}
                                   [] OTHER -> {-900, -200, -100, 0, 200}]
MCMvMarks == {[MCMvMark EXCEPT !["int"] = 5, !["ushort"] = 0]}

(* searches: 850 mb in the old code and in two new ones, 500 mb, 6 hours    *)
NewStyle(kind, x, n) == kind * 2^24 + x * 2^20 + n
P850  == NewStyle(2, 5, 850)
P850b == NewStyle(2, 6, 8500)
P500  == NewStyle(2, 5, 500)
H6    == NewStyle(10, 5, 6)
H12   == NewStyle(10, 5, 12)
MCLevelOf == [c \in {P850, P850b, 850, P500, 500, H6, 6, H12, 0} |->
                CASE c \in {P850, P850b, 850} -> "p850"
                  [] c \in {P500, 500} -> "p500"
                  [] c = H6 -> "h6"
                  [] c = H12 -> "h12"
                  [] OTHER -> "none"]
MCNewCode == [l \in {"p850", "p500", "h6"} |-> CASE l = "p850" -> P850 [] l = "p500" -> P500 [] l = "h6" -> H6]
MCOldCode == [l \in {"p850", "p500", "h6"} |-> CASE l = "p850" -> 850 [] l = "p500" -> 500 [] l = "h6" -> -9999]
MCRecord(ip1, ip2, label, date, g) ==
    [ip |-> <<ip1, ip2, 0>>, name |-> na, label |-> label, date |-> date, grid |-> g, live |-> TRUE]
MCKeys(ip1, ip2, name, label, date) ==
    [ip |-> <<ip1, ip2, -1>>, name |-> name, label |-> label, date |-> date]
MCFirst == <<MCRecord(850, 6, <<la, la>>, 101, 1), MCRecord(P500, H6, <<la, lb>>, 102, 1),
             MCRecord(P850b, H6, <<lb, la>>, 111, 2)>>
MCNewRecords == {MCRecord(P850, H6, <<la, la>>, 102, 1)}
MCSearches == {MCKeys(P850, -1, na, BLANK, -1), MCKeys(P500, H6, BLANK, <<la, la>>, 105)}
MCEdits == {MCKeys(500, -1, BLANK, <<la, la>>, 115)}
MCMasks == {[ip |-> <<0, 28, 0>>, label |-> {2}]}
MCTableLevels == <<{"p850", "p500"}, {"h6"}, {}>>

(* dates: around 29 February, the ends of the basic range, the epoch and    *)
(* the date whose stamp says "error"                                        *)
MCDate(y, m, d, h, s) == [y |-> y, m |-> m, d |-> d, h |-> h, s |-> s]
MCStarts == {MCDate(2000, 2, 28, 20, 1800), MCDate(1999, 12, 31, 12, 0), MCDate(1979, 12, 31, 23, 0),
             MCDate(1980, 1, 1, 0, 1800), MCDate(2235, 12, 30, 0, 0), MCDate(1900, 1, 2, 0, 0),
             MCDate(2004, 3, 1, 0, 5), MCDate(2001, 1, 31, 12, 0), MCDate(2000, 2, 29, 0, 0),
             MCDate(2001, 5, 31, 0, 0), MCDate(1910, 10, 10, 9, 0), MCDate(1896, 2, 28, 18, 0)}
\* in units of five seconds: a day, six hours, a year, half an hour, four years, a month
MCIncrements == {17280, -17280, 720 * 6, 720 * 24 * 365, -720 * 24 * 365, 360, 17280 * 1461, -720 * 24 * 30}
MCCommands == {"set", "unset"} \X {"365_day", "360_day", "gregorian"}

(* compression: fields of 16 bits framed by a corner and an edge, rows that *)
(* repeat or do not; reals whose signs, exponents and mantissas do          *)
Framed == {[ni |-> 7, nj |-> 5, nbits |-> 4,
            v |-> [k \in 1 .. 35 |-> IF k = 1 THEN corner ELSE IF k <= 7 \/ k % 7 = 1 THEN edge
                                     ELSE IF k = odd THEN 3 ELSE inside]] :
              corner \in {0, 15}, edge \in {0, 7, 15}, inside \in {0, 9, 15}, odd \in {0, 17, 26}}
Rows4 == {<<0, 0, 0, 0>>, <<0, 1, 0, 1>>, <<1, 1, 1, 0>>}
MCFields16 ==
    Framed
    \cup {[ni |-> 4, nj |-> 3, nbits |-> n, v |-> a \o b \o c] :
              a \in Rows4, b \in Rows4, c \in {<<0, 1, 0, 0>>, <<9, 9, 8, 9>>, <<15, 0, 0, 0>>}, n \in {1, 4}}
    \cup {[ni |-> 4, nj |-> 1, nbits |-> 2, v |-> <<1, 2, 3, 0>>],
          [ni |-> 5, nj |-> 5, nbits |-> 3, v |-> [k \in 1 .. 25 |-> k % 7]]}
Cells == 1 .. 30
MCSigns == {[k \in Cells |-> 1], [k \in Cells |-> k % 2], [k \in Cells |-> IF k > 3 THEN 1 ELSE 0],
            [k \in Cells |-> IF k < 11 THEN 0 ELSE k % 2]}
MCExponents == {[k \in Cells |-> 2], [k \in Cells |-> k % 2], [k \in Cells |-> IF k > 24 THEN 4 ELSE 1],
                [k \in Cells |-> IF k % 6 \in {1, 2} THEN 2 ELSE 1]}
MCMantissas == {[k \in Cells |-> 5], [k \in Cells |-> k % 8], [k \in Cells |-> IF k = 14 THEN 7 ELSE 0],
                [k \in Cells |-> k \div 6]}
MCFields32 ==
    {[ni |-> 6, nj |-> 5, nbits |-> b, v |-> [k \in Cells |-> [s |-> s[k], e |-> e[k], m |-> m[k]]]] :
        s \in MCSigns, e \in MCExponents, m \in MCMantissas, b \in 2 .. 3}
    \cup {[ni |-> 3, nj |-> 2, nbits |-> 3, v |-> [k \in 1 .. 6 |-> [s |-> 0, e |-> 1, m |-> k]]]}
MCLevels == {0, 1, 7}

(* tokens: arrays of words of 4 bits                                        *)
MCArrays == [kind \in {"unsigned", "signed", "short", "char"} |->
               CASE kind = "unsigned" -> {<<15, 1, 9, 4>>}
                 [] kind = "signed" -> {<<-8, 7>>, <<-1, 2, -2, 1>>}
                 [] kind = "short" -> {<<3, 1, 2, 0>>}
                 [] kind = "char" -> {<<1, 0>>}]
MCAuto == -1
MCSizes == {-1, 0, 2, 4}

(* codes of levels and times: every kind with its ends, values either style *)
(* rounds, values of the wrong range                                        *)
MCSingles == {<<0, Dec(-500, 0)>>, <<0, ZERO>>, <<0, Dec(123456, -1)>>, <<0, Dec(100000, 0)>>,
              <<1, ZERO>>, <<1, Dec(85, -2)>>, <<1, ONE>>,
              <<2, ZERO>>, <<2, Dec(5, -4)>>, <<2, Dec(1, -3)>>, <<2, Dec(99, -4)>>, <<2, Dec(25, -2)>>,
              <<2, Dec(998, -2)>>, <<2, Dec(8504, -1)>>, <<2, Dec(10996, -1)>>, <<2, Dec(1100, 0)>>,
              <<3, Dec(-3, 0)>>, <<3, Dec(50, 0)>>, <<3, Dec(101, 0)>>, <<3, Dec(1, 10)>>, <<3, Dec(-48, 7)>>,
              <<4, Dec(2, 0)>>, <<5, Dec(5, -1)>>, <<5, ONE>>, <<6, ONE>>, <<6, Dec(300, 0)>>,
              <<7, ZERO>>, <<10, ZERO>>, <<10, Dec(36, 0)>>, <<15, Dec(123456, 0)>>, <<15, Dec(-1, 0)>>,
              <<17, ONE>>, <<17, Dec(12345, 0)>>, <<17, Dec(48, 7)>>, <<17, Dec(5, 8)>>, <<17, Dec(1, 10)>>,
              <<21, ZERO>>, <<21, Dec(1001, -7)>>, <<21, ONE>>, <<21, Dec(125, -1)>>, <<5, Dec(2, 0)>>, <<-1, ONE>>}
MCPairs(k, S) == {[lo |-> a, hi |-> b, kind |-> k] : a \in S, b \in S}
MCLayers == MCPairs(0, {ZERO, Dec(-10, 0), Dec(5000, 0)}) \cup MCPairs(2, {ZERO, Dec(850, 0), Dec(5, -1)})
            \cup MCPairs(1, {ZERO, ONE}) \cup MCPairs(5, {Dec(995, -3), Dec(2, -1)})
            \cup MCPairs(3, {Dec(-3, 0), Dec(7, 0)})
            \cup MCPairs(7, {Dec(10, 0), Dec(250, 0)}) \cup MCPairs(21, {ONE, ZERO}) \cup MCPairs(10, {ONE})
MCDurations == MCPairs(10, {ZERO, Dec(36, 0), Dec(5, -1)}) \cup MCPairs(2, {ONE})
MCExtras == {[lo |-> v[2], hi |-> v[2], kind |-> v[1]] : v \in
               {<<10, Dec(12, 0)>>, <<2, Dec(500, 0)>>, <<2, ZERO>>, <<3, Dec(7, 0)>>, <<15, Dec(300, 0)>>,
                <<17, Dec(3, 0)>>, <<21, ZERO>>, <<0, Dec(100, 0)>>, <<-1, ONE>>}}
MCPoints == {<<0, ZERO>>, <<0, Dec(-10, 0)>>, <<2, Dec(850, 0)>>, <<2, Dec(5, -1)>>, <<2, ZERO>>, <<5, ONE>>, <<21, Dec(25, 0)>>,
             <<10, ZERO>>, <<10, Dec(36, 0)>>, <<15, Dec(3, 0)>>, <<17, Dec(3, 0)>>, <<17, Dec(6, 8)>>, <<7, Dec(4, 0)>>, <<7, ONE>>}

(* packed reals: fields of two values and of three, zeros and denormals too *)
MCReals == [s : 0 .. 1, e : {0, 1, 3, 6}, m : {0, 5, 7}]
MCFew == [s : 0 .. 1, e : {0, 2, 5}, m : {1, 6}]
MCFloats == [1 .. 2 -> MCReals] \cup [1 .. 3 -> MCFew]

(* grids: the ends of every range, values between two codes, a pole near    *)
(* and far                                                                  *)
Tuples(g, A, B, C, D) == {<<g, <<a, b, c, d>>>> : a \in A, b \in B, c \in C, d \in D}
Lats == {-90 * DEGREE, -4512345, -1249, 0, 1251, 3012500, 90 * DEGREE}
Lons == {-180 * DEGREE, -7512345, -1250, 0, 1000, 18000001, 31959999, 31960000, 35999600, 360 * DEGREE}
Steps == {25000, 150000, 100499}
FarPoles == {<<-50000, 1000>>, <<100000, 30000>>, <<30000, -12345>>}
Angles == {-250 * DEGREE, -18001000, -180 * DEGREE, -1050000, 0, 2112345, 18100000, 360 * DEGREE, 400 * DEGREE}
MCCorner == [p \in FarPoles |-> CASE p[1] = -50000 -> <<0, 0>> [] p[1] = 100000 -> <<9012, 35999>>
                                  [] OTHER -> <<18000, 18123>>]
MCGrids == Tuples("L", Lats, Lons, Steps, Steps)
      \cup Tuples("C", Lats, Lons, {18 * DEGREE, 50000}, {36 * DEGREE, 25000})
      \cup Tuples("E", Lats, Lons, Lats, Lons)
      \cup Tuples("+", Lats, Lons, {0}, {0})
      \cup Tuples("H", {4050, 4060}, Lats, {500, 10250}, Lons)
      \cup Tuples("G", {0, 1, 2}, {0, 1}, {0}, {0})
      \cup UNION {Tuples(g, {0, 1005, 20474}, {10, 20470}, {25000, 381000, 3200000}, Angles) : g \in {"N", "S"}}
      \cup UNION {UNION {Tuples(g, {p[1]}, {p[2]}, {25000, 204700, 204701, 381400}, Angles) : p \in FarPoles} : g \in {"N", "S"}}

(* interpolation: Yin and Yang, given or read as one grid, with the part of *)
(* each that is its own (core), the part both cover (ring) and the rest;    *)
(* limited grids on one chain, a global one of each kind, a polar one       *)
LocalGrid(r, n, i, x) == [typ |-> "Z", ref |-> r, n |-> n, ig |-> i, igref |-> i, ax |-> x]
PlainGrid(t, n) == [typ |-> t, ref |-> "", n |-> n, ig |-> "0", igref |-> "", ax |-> <<>>]
YinYang(n) == [typ |-> "U", ref |-> "F", n |-> n, ig |-> "0", igref |-> "1", ax |-> <<>>]
MCEzKey == [yin |-> LocalGrid("E", "yy", "rot1", <<"lam">>), yan |-> LocalGrid("E", "yy", "rot2", <<"lam">>),
            u |-> YinYang("yy"), v |-> YinYang("yy"), fu |-> YinYang("yf"),
            za |-> LocalGrid("L", "z", "l", <<"a">>), zb |-> LocalGrid("L", "z", "l", <<"b">>),
            zf |-> [LocalGrid("L", "z", "l", <<"a">>) EXCEPT !.ig = "ip"], zn |-> LocalGrid("L", "none", "l", <<"a">>),
            r |-> PlainGrid("L", "r"), g |-> PlainGrid("G", "g"), ps |-> PlainGrid("N", "ps")]
MCEzDefs == DOMAIN MCEzKey
MCEzHow == [d \in MCEzDefs |-> CASE d \in {"u", "v"} -> "supergrid" [] d \in {"fu", "zf", "zn", "ps"} -> "ffile"
                                 [] OTHER -> "fmem"]
MCEzParts == [d \in MCEzDefs |-> IF d = "v" THEN <<"yan", "yin">> ELSE <<"yin", "yan">>]
MCEzHash(k) == CASE k.typ = "Z" -> 0 [] k.typ = "G" -> 1 [] OTHER -> 2
MCEzPrimes == <<7, 13>>
MCEzPoints(k) ==
    CASE k.typ = "Z" /\ "core" = k.n -> {"core"}
      [] k.ig = "rot1" -> {"core", "ring"}
      [] k.ig = "rot2" -> {"ring", "back"}
      [] k.typ = "Z" -> IF k.ax = <<"a">> THEN {"core"} ELSE {"back"}
      [] k.typ = "L" -> {"core", "back", "pole"}
      [] k.typ = "G" -> {"core", "far", "south"}
      [] OTHER -> {"pole", "far"}
MCEzWhere(p, k) ==
    CASE k.typ \in {"L", "G"} -> (CASE p = "pole" -> "polenord" [] p = "far" -> "nord" [] p = "south" -> "polesud" [] OTHER -> "mid")
      [] k.typ = "N" -> IF p \in {"pole", "far"} THEN "mid" ELSE "out"
      [] k.n = "core" -> IF k.ig = "rot1" THEN IF p = "core" THEN "mid" ELSE "out" ELSE IF p = "back" THEN "mid" ELSE "out"
      [] k.ig = "rot1" -> IF p \in {"core", "ring"} THEN "mid" ELSE "out"
      [] k.ig = "rot2" -> IF p = "core" THEN "out" ELSE "mid"
      [] OTHER -> IF p = (IF k.ax = <<"a">> THEN "core" ELSE "back") THEN "mid" ELSE "out"
MCEzExtension(k) == IF k.typ = "L" THEN 2 ELSE 0
MCEzSpans(k) == FALSE
Program(d, p, o, v, s, n) == [defs |-> d, pairs |-> p, options |-> o, values |-> v, subgrids |-> s, calls |-> n]
MCEzPrograms ==
    {Program({"fu", "r", "g"}, {<<"r", "fu">>, <<"r", "g">>}, {<<"degre_interp", "voisin">>, <<"extrap_degree", "value">>},
             {<<"extrap_value", "-99">>}, {}, 7),
     Program({"fu", "za"}, {<<"fu", "za">>, <<"za", "fu">>, <<"za", "yan">>}, {<<"use_1subgrid", "yes">>, <<"polar_correction", "no">>}, {}, {"yan"}, 7),
     Program({"yin", "yan", "u", "v"}, {<<"v", "u">>, <<"yin", "u">>}, {<<"extrap_degree", "abort">>}, {}, {}, 8),
     Program({"za", "zb", "zf", "zn"}, {<<"zb", "za">>, <<"", "zf">>}, {<<"extrap_degree", "abort">>, <<"extrap_degree", "neutre">>}, {}, {}, 7),
     Program({"g", "r", "ps"}, {<<"g", "r">>, <<"r", "g">>, <<"r", "ps">>}, {<<"polar_correction", "no">>, <<"interp_degree", "average">>, <<"verbose", "maybe">>}, {}, {}, 7)}

RecordsInit ==
    /\ part \in {"filters", "reports", "fields", "missing", "find", "dates", "compress",
                 "tokens", "ips", "floats", "grids", "interp"}
    /\ ReqInit /\ BurpInit /\ FstInit /\ MvInit /\ FindInit /\ CalendarInit /\ CompressorInit
    /\ part # "dates" => ~options.env
    /\ PackerInit /\ IpInit /\ FloatsInit /\ GridInit /\ EzInit
    /\ part # "interp" => ezprogram = CHOOSE p \in EzPrograms : TRUE

FilterStep == part = "filters" /\ ReqNext
              /\ UNCHANGED <<part, burpvars, fstvars, mvvars, findvars, calendarvars,
                             compressorvars, packervars, ipvars, fpvars, gcvars, ezvars>>
ReportStep == part = "reports" /\ BurpNext
              /\ UNCHANGED <<part, rqvars, fstvars, mvvars, findvars, calendarvars,
                             compressorvars, packervars, ipvars, fpvars, gcvars, ezvars>>
FieldStep == part = "fields" /\ FstNext
             /\ UNCHANGED <<part, rqvars, burpvars, mvvars, findvars, calendarvars,
                            compressorvars, packervars, ipvars, fpvars, gcvars, ezvars>>
MissingStep == part = "missing" /\ MvNext
               /\ UNCHANGED <<part, rqvars, burpvars, fstvars, findvars, calendarvars,
                              compressorvars, packervars, ipvars, fpvars, gcvars, ezvars>>
FindStep == part = "find" /\ FindNext
            /\ UNCHANGED <<part, rqvars, burpvars, fstvars, mvvars, calendarvars,
                           compressorvars, packervars, ipvars, fpvars, gcvars, ezvars>>
DateStep == part = "dates" /\ CalendarNext
            /\ UNCHANGED <<part, rqvars, burpvars, fstvars, mvvars, findvars,
                           compressorvars, packervars, ipvars, fpvars, gcvars, ezvars>>
CompressStep == part = "compress" /\ CompressorNext
                /\ UNCHANGED <<part, rqvars, burpvars, fstvars, mvvars, findvars,
                               calendarvars, packervars, ipvars, fpvars, gcvars, ezvars>>
TokenStep == part = "tokens" /\ PackerNext
             /\ UNCHANGED <<part, rqvars, burpvars, fstvars, mvvars, findvars,
                            calendarvars, compressorvars, ipvars, fpvars, gcvars, ezvars>>
IpStep == part = "ips" /\ IpNext
          /\ UNCHANGED <<part, rqvars, burpvars, fstvars, mvvars, findvars,
                         calendarvars, compressorvars, packervars, fpvars, gcvars, ezvars>>
FloatStep == part = "floats" /\ FloatsNext
             /\ UNCHANGED <<part, rqvars, burpvars, fstvars, mvvars, findvars,
                            calendarvars, compressorvars, packervars, ipvars, gcvars, ezvars>>
GridStep == part = "grids" /\ GridNext
            /\ UNCHANGED <<part, rqvars, burpvars, fstvars, mvvars, findvars,
                           calendarvars, compressorvars, packervars, ipvars, fpvars, ezvars>>

InterpStep == part = "interp" /\ EzNext
              /\ UNCHANGED <<part, rqvars, burpvars, fstvars, mvvars, findvars,
                             calendarvars, compressorvars, packervars, ipvars, fpvars, gcvars>>

RecordsNext == \/ FilterStep \/ ReportStep \/ FieldStep \/ MissingStep \/ FindStep \/ DateStep
               \/ CompressStep \/ TokenStep \/ IpStep \/ FloatStep \/ GridStep \/ InterpStep
RecordsSpec == RecordsInit /\ [][RecordsNext]_recordsvars
=============================================================================
