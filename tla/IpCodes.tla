------------------------------ MODULE IpCodes ------------------------------
(* Levels and times written as the integers ip1, ip2 and ip3 of a record:   *)
(* convip_plus (one value and its kind to or from one integer, in the old   *)
(* style of 15 bits or the new one of 28) and the calls that handle the     *)
(* three integers of a record together, EncodeIp/DecodeIp and               *)
(* ConvertPKtoIP/ConvertIPtoPK, which also put the two ends of a range in   *)
(* order.                                                                   *)
(*                                                                          *)
(* A real is a decimal number of seven digits, [m, e] for m * 10^(e - 6),   *)
(* |m| in 10^6 .. 10^7 - 1 or the zero [0, 0]: as many digits as a REAL*4   *)
(* holds.  The text convip can also give of a value is left out.            *)
EXTENDS Integers, Sequences

CONSTANTS Singles,     \* the <<kind, value>> a program encodes one by one
          Layers,      \* the FLOAT_IP it gives as RP1
          Durations,   \*   as RP2
          Extras,      \*   and as RP3
          Points       \* the <<kind, value>> it gives to ConvertPKtoIP

VARIABLES newstyle,    \* the saved NEWSTYLE of convip_plus
          ipasked,     \* what the last encoding call was asked for
          ips,         \* the integers it gave
          ipgot        \* what the last decoding call made of them
ipvars == <<newstyle, ipasked, ips, ipgot>>

(* ------------------------------ decimals -------------------------------- *)
Size(n) == IF n < 0 THEN -n ELSE n
Dec(n, x) ==                                                 \* n * 10^x
    IF n = 0 THEN [m |-> 0, e |-> 0]
    ELSE LET k == CHOOSE i \in 0 .. 6 : Size(n) * 10^i \in 10^6 .. 10^7 - 1
         IN  [m |-> n * 10^k, e |-> x - k + 6]
ZERO == Dec(0, 0)
ONE  == Dec(1, 0)
Rank(v) ==                                \* the order of the reals, exponents
    IF v.m < 0 THEN v.m - (v.e + 20) * 10^7             \* being above -20
    ELSE IF v.m > 0 THEN v.m + (v.e + 20) * 10^7 ELSE 0
Below(a, b) == Rank(a) < Rank(b)
Magnitude(v) == [v EXCEPT !.m = Size(@)]
NintAt(n, x) ==                                          \* nint(n * 10^x)
    IF x >= 0 THEN n * 10^x
    ELSE IF x < -8 THEN 0
    ELSE LET r == (Size(n) + 5 * 10^(-x - 1)) \div 10^(-x)
         IN  IF n < 0 THEN -r ELSE r

(* ------------------------------- kinds ---------------------------------- *)
PRESSURE  == 2
ARBITRARY == 3
HOURS     == 10
SAMPLES   == 15
NOKIND    == -1
MaxKind   == 31
ValidKind == (0 .. 7) \cup {HOURS, SAMPLES, 17, 21, MaxKind}
LevelKinds == (0 .. 7) \cup {21}
Ascending  == {0, 4, 21}             \* larger values are higher up
Descending == {1, 2, 7}              \* larger values are lower down
InvalidKind(k) == k < 0 \/ (k > MaxKind /\ k % 16 # 15)

LowVal(k) == CASE k \in {0, 4} -> Dec(-20000, 0)
               [] k \in {1, 2, 5, 7, HOURS, 21} -> ZERO
               [] k \in {6, 17} -> ONE
               [] OTHER -> Dec(-48, 7)
HiVal(k) == CASE k \in {0, 4} -> Dec(100000, 0)
              [] k \in {1, 5} -> ONE
              [] k = 2 -> Dec(1100, 0)
              [] k = 6 -> Dec(200000, 0)
              [] k = 7 -> Dec(20000, 0)
              [] k = 21 -> Dec(1000000, 0)
              [] OTHER -> Dec(1, 10)
\* What too small a value is replaced by before it is coded; the size below
\* which a decoded value is one of those, and what it then stands for.
ZeroVal(k)   == IF k \in {6, 17} THEN ONE ELSE IF k = 21 THEN Dec(1001, -7) ELSE ZERO
ZeroLimit(k) == CASE k \in {6, 17} -> Dec(1001, -3)
                  [] k = 21 -> Dec(1002001, -10)
                  [] OTHER -> ZERO
ZeroVal2(k)  == IF k \in {6, 17} THEN ONE ELSE ZERO
\* The factor of a kind: kinds 1 and 17, 5 and 21 have the same four bits in
\* the code, and the factor keeps their mantissas apart.
Factored(k, v)   == CASE k = 17 -> [v EXCEPT !.m = -@]
                      [] k = 21 /\ v.m # 0 -> [v EXCEPT !.e = @ + 4]
                      [] OTHER -> v
Unfactored(k, v) == CASE k = 17 -> [v EXCEPT !.m = -@]
                      [] k = 21 /\ v.m # 0 -> [v EXCEPT !.e = @ - 4]
                      [] OTHER -> v

(* --------------------- one value, the new style ------------------------- *)
NOCODE == -999999        \* what convip returns when it refuses
Clamp(x) == IF x < 0 THEN 0 ELSE IF x > 15 THEN 15 ELSE x
\* The loop that multiplies and divides by ten ends with six digits of a
\* positive value and with a mantissa of 4800 .. 47999 of a negative one,
\* unless the pseudo exponent reaches an end of its range; what is larger then
\* is refused, and all the bits of -1 are left.
PseudoExponent(t) == IF t.m = 0 THEN 15
               ELSE Clamp(IF t.m > 0 THEN 9 - t.e
                          ELSE IF -t.m < 4800000 THEN 8 - t.e ELSE 7 - t.e)
Coded(k, t) ==
    LET iexp == PseudoExponent(t)
        temp == [Magnitude(t) EXCEPT !.e = @ + iexp - 4]
        limit1 == Dec(IF t.m < 0 THEN 48 ELSE 1000, 3)
    IN  IF Below(limit1, temp) THEN -1
        ELSE (k % 16) * 2^24 + iexp * 2^20 + NintAt(temp.m, temp.e - 6)
               + (IF t.m < 0 THEN 1000000 ELSE 0)
Encode15(k, p) ==                                \* plain integers, kind 15
    IF k # SAMPLES \/ Below(p, Dec(-1, 0)) \/ Below(Dec(2000001, 0), p) THEN -1
    ELSE LET ipv == NintAt(p.m, p.e - 6)
         IN  IF ipv \in 0 .. 2000000 THEN SAMPLES * 2^24 + ipv ELSE -1
EncodeNew(k, p) ==
    IF k % 16 = 15 THEN Encode15(k, p)
    ELSE IF Below(p, LowVal(k)) \/ Below(HiVal(k), p) THEN NOCODE
    ELSE LET q == IF Below(Magnitude(p), ZeroVal(k)) THEN ZeroVal(k) ELSE p
         IN  Coded(k, Factored(k, q))

NotDecoded == [kind |-> NOKIND, p |-> Dec(-999999, 0)]
SignedMantissa(item) == IF item > 1000000 THEN 1000000 - item ELSE item
ReadAs(k, v) == IF Below(v, LowVal(k)) \/ Below(HiVal(k), v) THEN NotDecoded
                ELSE [kind |-> k,
                      p |-> IF Below(Magnitude(v), ZeroLimit(k)) THEN ZeroVal2(k) ELSE v]
OrElse(d, other) == IF d = NotDecoded THEN other ELSE d
\* A value outside the range of its kind is tried as the kind 16 further on.
DecodeNew(ip) ==
    LET k == (ip \div 2^24) % 16
        v == Dec(SignedMantissa(ip % 2^20), 4 - ((ip \div 2^20) % 16))
    IN  IF k = 15 THEN (IF ip % 2^24 <= 2000000
                        THEN [kind |-> SAMPLES, p |-> Dec(ip % 2^24, 0)] ELSE NotDecoded)
        ELSE IF k \notin ValidKind THEN NotDecoded
        ELSE OrElse(ReadAs(k, Unfactored(k, v)),
                    IF k + 16 \in ValidKind THEN ReadAs(k + 16, Unfactored(k + 16, v))
                    ELSE NotDecoded)

(* --------------------- one value, the old style ------------------------- *)
Times(p, f, x) == NintAt(f * p.m, p.e - 6 + x)       \* nint(f * 10^x * p)
PressureCode(p) ==
    LET Least(n, x) == ~Below(p, Dec(n, x))
    IN  CASE Least(999999, -5) -> Times(p, 1, 0)
          [] ~Least(999999, -5) /\ Least(999999, -6) -> 1800 + Times(p, 2, 1)
          [] ~Least(999999, -6) /\ Least(999999, -7) -> 1600 + Times(p, 2, 2)
          [] ~Least(999999, -7) /\ Least(999999, -8) -> 1400 + Times(p, 2, 3)
          [] ~Least(999999, -8) /\ Least(999999, -9) -> 1200 + Times(p, 2, 4)
          [] OTHER -> 0
Bounded(n, lo, hi) == IF n < lo THEN lo ELSE IF n > hi THEN hi ELSE n
EncodeOld(k, p) ==
    CASE k = 0 -> IF p.e > 6 THEN (IF p.m < 0 THEN 12001 ELSE 32000)
                  ELSE Bounded(12001 + Times(p, 2, -1), 12001, 32000)
      [] k = 1 /\ ~Below(p, ZERO) /\ ~Below(ONE, p) -> 2000 + Times(p, 1, 4)
      [] k = PRESSURE /\ ~Below(p, ZERO) /\ Below(p, Dec(1100, 0)) -> PressureCode(p)
      [] k = ARBITRARY /\ p.e <= 6 /\ Times(p, 1, 0) \in 0 .. 100 -> 1200 - Times(p, 1, 0)
      [] OTHER -> NOCODE
DecodeOld(ip) ==
    LET As(k, n, x) == [kind |-> k, p |-> Dec(n, x)]
    IN  CASE ip \in 12001 .. 32000 -> As(0, 5 * (ip - 12001), 0)
          [] ip \in 2000 .. 12000  -> As(1, ip - 2000, -4)
          [] ip \in 0 .. 1099      -> As(PRESSURE, ip, 0)
          [] ip \in 1201 .. 1399   -> As(PRESSURE, 5 * (ip - 1200), -5)
          [] ip \in 1400 .. 1599   -> As(PRESSURE, 5 * (ip - 1400), -4)
          [] ip \in 1600 .. 1799   -> As(PRESSURE, 5 * (ip - 1600), -3)
          [] ip \in 1800 .. 1999   -> As(PRESSURE, 5 * (ip - 1800), -2)
          [] ip \in 1100 .. 1200   -> As(ARBITRARY, 1200 - ip, 0)
          [] OTHER -> As(ARBITRARY, ip, 0)

\* convip_plus with mode 1, 2 or 3 and with mode -1.
Encode(k, p, new) == IF InvalidKind(k) THEN NOCODE
                     ELSE IF k = PRESSURE /\ p = ZERO THEN 0
                     ELSE IF new THEN EncodeNew(k, p) ELSE EncodeOld(k, p)
Decode(ip) == IF ip > 32767 THEN DecodeNew(ip) ELSE DecodeOld(ip)

(* ----------------- the three integers, by ranges ------------------------ *)
LowerFirstDown(k, a, b) ==                                       \* mutant
    IF Below(b, a) /\ k \in Ascending THEN <<b, a>> ELSE <<a, b>>
LowerFirst(k, a, b) ==          \* the two ends, the lower in the atmosphere first
    IF \/ Below(b, a) /\ k \in Ascending
       \/ Below(a, b) /\ k \in Descending
    THEN <<b, a>> ELSE <<a, b>>
LatestFirst(a, b) == IF Below(a, b) THEN <<b, a>> ELSE <<a, b>>
IsRange(r) == r.lo # r.hi
Single(v, k) == [lo |-> v, hi |-> v, kind |-> k]
Failed == [status |-> {"ERROR"}, ips |-> <<-1, -1, -1>>]

\* encode_ip_0: a level or a pair of them, a time or a pair of them; a third
\* value when neither is a pair.
EncodeIp(r1, r2, r3) ==
    IF \/ InvalidKind(r1.kind) \/ InvalidKind(r2.kind)
       \/ r1.kind \notin LevelKinds \/ r2.kind # HOURS
       \/ IsRange(r1) /\ IsRange(r2)
       \/ ~IsRange(r1) /\ ~IsRange(r2) /\ InvalidKind(r3.kind)
    THEN Failed
    ELSE LET levels == LowerFirst(r1.kind, r1.lo, r1.hi)
             hours == LatestFirst(r2.lo, r2.hi)
             third == IF IsRange(r1) THEN <<r1.kind, levels[2]>>
                      ELSE IF IsRange(r2) THEN <<HOURS, hours[2]>>
                      ELSE <<r3.kind, r3.lo>>
         IN  [status |-> {},
              ips |-> <<Encode(r1.kind, levels[1], TRUE), Encode(HOURS, hours[1], TRUE),
                        Encode(third[1], third[2], TRUE)>>]

\* What an old style ip3 is guessed to be.
GuessedThird(ip3) == IF ip3 <= 240
                     THEN [kind |-> HOURS, p |-> Dec(ip3, 0), flag |-> "BAD_GUESS"]
                     ELSE [kind |-> ARBITRARY, p |-> Dec(ip3, 0), flag |-> "TERRIBLE_GUESS"]
Undefined == [status |-> {"ERROR"}, rp |-> <<>>]
GoodGuess(S) == IF \E ip \in S : ip < 32768 THEN {"GOOD_GUESS"} ELSE {}
RangesTold(ip, d1, d2, d3) ==
    LET r3 == IF ip[3] < 32768 THEN GuessedThird(ip[3]) ELSE d3
        noThird == [lo |-> ZERO, hi |-> ZERO, kind |-> NOKIND]
        hours == LatestFirst(d2.p, d3.p)
        levels == LowerFirst(d1.kind, d1.p, d3.p)
    IN  IF \/ \E i \in 1 .. 3 : ip[i] < 0
           \/ d1.kind \notin LevelKinds
           \/ ip[2] >= 32768 /\ d2.kind # HOURS
           \/ ip[3] >= 32768 /\ d3.kind = NOKIND
        THEN Undefined
        ELSE [status |-> GoodGuess({ip[1], ip[2]})
                         \cup (IF ip[3] < 32768 THEN {r3.flag} ELSE {})
                         \cup (IF d1.kind > 6 \/ d2.kind # HOURS THEN {"ERROR"} ELSE {}),
              rp |-> IF d3.kind = HOURS /\ d2.kind = HOURS
                     THEN <<Single(d1.p, d1.kind),
                            [lo |-> hours[2], hi |-> hours[1], kind |-> HOURS], noThird>>
                     ELSE IF d3.kind <= 6 /\ d3.kind = d1.kind
                     THEN <<[lo |-> levels[1], hi |-> levels[2], kind |-> d1.kind],
                            Single(d2.p, HOURS), noThird>>
                     ELSE <<Single(d1.p, d1.kind), Single(d2.p, HOURS),
                            Single(r3.p, r3.kind)>>]
\* decode_ip_0.  The kinds of an old style ip2 or ip3 are never stored where
\* the tests for ranges look: u2 and u3 stand for what is found there.
OldStyleOr(ip, k, p) == IF ip < 32768 THEN [kind |-> k, p |-> p] ELSE Decode(ip)
DecodeIp(ip, u2, u3) ==
    RangesTold(ip, Decode(ip[1]), OldStyleOr(ip[2], u2, Dec(ip[2], 0)), OldStyleOr(ip[3], u3, ZERO))

(* ---------------- the three integers, value by value -------------------- *)
\* encode_ip_2: a level, a time (or a level) and anything; v is three
\* <<kind, value>>, ip their codes.
Arranged(v, k, ip) ==
    IF \/ k[1] = k[2] /\ k[3] = HOURS /\ LowerFirst(k[1], v[1][2], v[2][2])[1] = v[1][2]
       \/ k[2] = HOURS /\ k[3] = HOURS /\ Below(v[2][2], v[3][2])
    THEN <<ip[1], ip[3], ip[2]>>
    ELSE IF k[1] = k[2] /\ k[3] = HOURS THEN <<ip[2], ip[3], ip[1]>> ELSE ip
ConvertPKtoIP(v) ==
    LET k == [i \in 1 .. 3 |-> v[i][1]]
    IN  IF \/ \E i \in 1 .. 3 : InvalidKind(k[i])
           \/ k[1] \notin LevelKinds
           \/ k[2] \notin LevelKinds \cup {HOURS}
        THEN Failed
        ELSE [status |-> IF k[2] \in LevelKinds THEN {"WARNING"} ELSE {},
              ips |-> Arranged(v, k, [i \in 1 .. 3 |-> Encode(k[i], v[i][2], TRUE)])]

\* decode_ip_2, which takes a time given as ip1 for the second value.
InOrderTold(d1, d2, d3) ==
    LET levels == LowerFirst(d1.kind, d1.p, d3.p)
        hours == LatestFirst(d2.p, d3.p)
    IN  IF d1.kind = d3.kind
        THEN <<<<d1.kind, levels[1]>>, <<d2.kind, d2.p>>, <<d3.kind, levels[2]>>>>
        ELSE IF d2.kind = HOURS /\ d3.kind = HOURS
        THEN <<<<d1.kind, d1.p>>, <<HOURS, hours[1]>>, <<HOURS, hours[2]>>>>
        ELSE <<<<d1.kind, d1.p>>, <<d2.kind, d2.p>>, <<d3.kind, d3.p>>>>
PointsTold(ip, swapped, d1, d2, d3) ==
    IF \/ \E i \in 1 .. 3 : ip[i] < 0
       \/ d1.kind \notin LevelKinds
       \/ d2.kind \notin LevelKinds \cup {HOURS}
       \/ InvalidKind(d3.kind)
    THEN Undefined
    ELSE [status |-> (IF swapped \/ d2.kind \in LevelKinds THEN {"WARNING"} ELSE {})
                     \cup GoodGuess({ip[1], ip[2]})
                     \cup (IF ip[3] < 32768 THEN {d3.flag} ELSE {}),
          rp |-> IF d1.kind = d2.kind /\ d3.kind = HOURS
                 THEN InOrderTold(d1, d3, d2) ELSE InOrderTold(d1, d2, d3)]
LevelFirst(ip, swapped) ==
    PointsTold(ip, swapped, Decode(ip[1]), OldStyleOr(ip[2], HOURS, Dec(ip[2], 0)),
               IF ip[3] < 32768 THEN GuessedThird(ip[3]) ELSE Decode(ip[3]))
ConvertIPtoPK(given) == IF Decode(given[1]).kind = HOURS
                        THEN LevelFirst(<<given[2], given[1], given[3]>>, TRUE)
                        ELSE LevelFirst(given, FALSE)

(* ------------------------------ the calls ------------------------------- *)
NotAsked == [call |-> "none"]
NotGot   == [call |-> "none"]
IpInit == /\ newstyle = FALSE
          /\ ipasked = NotAsked /\ ips = <<>> /\ ipgot = NotGot

\* convip, mode 0: the new style for every call of mode 1 from now on.
ForceNewStyle == ~newstyle /\ newstyle' = TRUE /\ UNCHANGED <<ipasked, ips, ipgot>>

\* convip, modes 1, 2 and 3.
Convip(v, mode) ==
    LET new == mode = 2 \/ (mode = 1 /\ newstyle)
    IN  /\ ipasked' = [call |-> "convip", kind |-> v[1], p |-> v[2], new |-> new]
        /\ ips' = <<Encode(v[1], v[2], new)>>
        /\ ipgot' = NotGot /\ UNCHANGED newstyle

TripleEncoded(call, v, e) ==
    /\ "ERROR" \notin e.status
    /\ ipasked' = [call |-> call, rp |-> v]
    /\ ips' = e.ips
    /\ ipgot' = NotGot /\ UNCHANGED newstyle
EncodeRanges(r1, r2, r3) == TripleEncoded("EncodeIp", <<r1, r2, r3>>, EncodeIp(r1, r2, r3))
EncodePoints(v) == TripleEncoded("ConvertPKtoIP", v, ConvertPKtoIP(v))

DecodeOne ==
    /\ ipgot = NotGot /\ ipasked.call = "convip" /\ ips[1] >= 0
    /\ ipgot' = [call |-> "convip", status |-> {}, rp |-> Decode(ips[1])]
    /\ UNCHANGED <<newstyle, ipasked, ips>>

TripleDecoded(call, d) ==
    /\ ipgot = NotGot /\ Len(ips) = 3
    /\ ipgot' = [call |-> call, status |-> d.status, rp |-> d.rp]
    /\ UNCHANGED <<newstyle, ipasked, ips>>
DecodeRanges ==
    \E u2, u3 \in {NOKIND, PRESSURE, HOURS} : TripleDecoded("DecodeIp", DecodeIp(ips, u2, u3))
DecodePoints == TripleDecoded("ConvertIPtoPK", ConvertIPtoPK(ips))

\* Bound: one question; nothing but the style is left for a second one.
Ready == ipasked = NotAsked
IpNext == \/ ForceNewStyle
          \/ Ready /\ \E v \in Singles, mode \in 1 .. 3 : Convip(v, mode)
          \/ Ready /\ \E r1 \in Layers, r2 \in Durations, r3 \in Extras : EncodeRanges(r1, r2, r3)
          \/ Ready /\ \E v1, v2, v3 \in Points : EncodePoints(<<v1, v2, v3>>)
          \/ DecodeOne \/ DecodeRanges \/ DecodePoints
IpSpec == IpInit /\ [][IpNext]_ipvars

(* ----------------------------- properties ------------------------------- *)
Coarse(v, e) == IF v.e < e - 6 THEN 0            \* v in units of 10^(e - 6)
                ELSE IF v.m < 0 THEN -(Size(v.m) \div 10^(e - v.e))
                ELSE v.m \div 10^(e - v.e)
Differ(a, b) == LET e == IF a.e < b.e THEN b.e ELSE a.e
                IN  Size(Coarse(a, e) - Coarse(b, e))
\* The new style keeps six digits, of a negative value four or five.
Near(a, b) == Differ(a, b) <= 501
\* The old style keeps a value to within half of the step of its table.
HalfStep(k, p) ==
    CASE k = 0 -> Dec(25, -1)
      [] k = 1 -> Dec(5, -5)
      [] k = PRESSURE -> IF ~Below(p, Dec(999999, -5)) THEN Dec(5, -1)
                         ELSE IF p.e < -3 \/ p = ZERO THEN Dec(1, -3) ELSE Dec(25, p.e - 3)
      [] OTHER -> Dec(5, -1)
NearOld(k, a, b) ==
    LET step == HalfStep(k, a)
        e == CHOOSE x \in {a.e, b.e, step.e} : x >= a.e /\ x >= b.e /\ x >= step.e
    IN  Size(Coarse(a, e) - Coarse(b, e)) <= 1 + Coarse(step, e)
\* Where the old style does not come back: heights it has no code for, and
\* pressures just under a power of ten, rounded up to the first code of the
\* next table.
LostByOldStyle(k, p) ==
    \/ k = 0 /\ (Below(p, ZERO) \/ Below(Dec(99995, 0), p))
    \/ k = PRESSURE /\ PressureCode(p) \in {1100, 1400, 1600, 1800, 2000}
\* Where the new style has no code: kind 17 is coded as a negative value, whose
\* limit its range of 1 to 1.0e10 goes beyond.
LostByNewStyle(k, p) == k = 17 /\ Below(Dec(48, 7), p)
Codable(k, p) == k \in ValidKind /\ k % 16 # 15 /\ ~Below(p, LowVal(k)) /\ ~Below(HiVal(k), p)

\* One value at a time: in the new style a value within the range of its kind
\* has a code, and whatever the style in force, an integer that convip
\* gave for a value decodes to a value of the same kind and the same within
\* the precision of its style; kinds that share their four bits (1 and 17, 5
\* and 21) are told apart by the range of the value alone
\* (convip_plus.f90:163-311).
ValueComesBack ==
    /\ ipasked.call = "convip" /\ ipasked.new /\ Codable(ipasked.kind, ipasked.p) =>
          ips[1] >= 0 \/ LostByNewStyle(ipasked.kind, ipasked.p)
    /\ ipgot.call = "convip" =>
       LET old == ips[1] <= 32767
       IN  \/ /\ ipgot.rp.kind = ipasked.kind
              /\ IF old THEN NearOld(ipasked.kind, ipasked.p, ipgot.rp.p)
                 ELSE \/ Near(ipasked.p, ipgot.rp.p)
                      \/ Below(Magnitude(ipasked.p), ZeroLimit(ipasked.kind))
           \/ old /\ LostByOldStyle(ipasked.kind, ipasked.p)

Ends(r) == IF r.kind = NOKIND THEN {} ELSE {<<r.kind, r.lo>>, <<r.kind, r.hi>>}
TripleAsked == IF ipasked.call = "EncodeIp"
         THEN LET r == ipasked.rp
              IN  Ends(r[1]) \cup Ends(r[2])
                     \cup (IF IsRange(r[1]) \/ IsRange(r[2]) THEN {} ELSE {<<r[3].kind, r[3].lo>>})
         ELSE {ipasked.rp[i] : i \in 1 .. 3}
TripleTold  == IF ipgot.call = "DecodeIp" THEN UNION {Ends(ipgot.rp[i]) : i \in 1 .. 3}
         ELSE {ipgot.rp[i] : i \in 1 .. 3}
Alike(a, b) == a[1] = b[1] /\ (Near(a[2], b[2]) \/ Below(Magnitude(a[2]), ZeroLimit(a[1])))
NotAbove(k, a, b) == /\ k \in Ascending => ~Below(b, a)
                     /\ k \in Descending => ~Below(a, b)
InOrder == IF ipgot.call = "DecodeIp"
           THEN LET r == ipgot.rp
                IN  NotAbove(r[1].kind, r[1].lo, r[1].hi) /\ ~Below(r[2].hi, r[2].lo)
           ELSE LET r == ipgot.rp
                IN  /\ r[1][1] = r[3][1] => NotAbove(r[1][1], r[1][2], r[3][2])
                    /\ r[2][1] = HOURS /\ r[3][1] = HOURS => ~Below(r[2][2], r[3][2])

\* Three together: the levels and times that either call put in ip1, ip2 and
\* ip3, in whatever order they were given, are the ones that either call
\* finds there when it reports neither an error nor a guess, the lower level
\* first and the ends of a range of times in the order the call promises
\* (convert_ip123.f90:243-655).
TripleComesBack ==
    (ipgot.call \in {"DecodeIp", "ConvertIPtoPK"} /\ ipgot.status \subseteq {"WARNING"}) =>
       /\ \A a \in TripleAsked : \E b \in TripleTold : Alike(a, b)
       /\ \A b \in TripleTold : \E a \in TripleAsked : Alike(a, b)
       /\ InOrder

\* Levels and times come back, one value at a time and three together.
CodesComeBack == ValueComesBack /\ TripleComesBack
=============================================================================
