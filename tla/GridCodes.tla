----------------------------- MODULE GridCodes ------------------------------
(* cxgaig and cigaxg: the four real descriptors of a grid as the integers   *)
(* ig1 .. ig4 of a record, and back.  Angles are in hundred thousandths of  *)
(* a degree and lengths in metres; PI and PJ of a polar grid in hundredths. *)
EXTENDS Integers, Sequences

CONSTANTS Grids,     \* the <<type, descriptors>> a program gives
          Corner     \* what llfxy computes for a polar grid whose pole is too
                     \* far off for the old style, <<PI, PJ>>: the distance
                     \* from the north pole and the longitude of its point
                     \* (1, 1), in hundredths of a degree; xyfll goes back

VARIABLES grid,      \* the grid given to cxgaig
          igs,       \* the integers it made
          gridback   \* what cigaxg made of them
gcvars == <<grid, igs, gridback>>

DEGREE == 100000
NintDiv(a, b) == IF a < 0 THEN -((b \div 2 - a) \div b)             \* nint(a / b)
                 ELSE (a + b \div 2) \div b
\* The loops that add a turn until the value is not negative.
Turned(n, turn) == IF n < 0 THEN n % turn ELSE n
Least2(n) == n % 4
\* n in bits 2 and up, and the two low bits of another value below it
Joined(n, bits) == 4 * n + bits

(* ------------------------------- cxgaig --------------------------------- *)
OldPolar(x) == <<NintDiv(x[2], 10), NintDiv(x[1], 10),
                 Turned(NintDiv(x[4], DEGREE \div 100), 36000), NintDiv(x[3], 100)>>
FitsOldPolar(x) == LET ig == OldPolar(x)
                   IN  ig[1] \in 0 .. 2047 /\ ig[2] \in 0 .. 2047 /\ ig[4] <= 32000
\* The new style says where the point (1, 1) is.  The sign of the angle and
\* the unit of the distance are bits of the same integers.
NewPolar(x) ==
    LET far == x[3] > 204700
        signed == NintDiv(x[4], DEGREE \div 10)
        size == IF signed < 0 THEN -signed ELSE signed
        folded == IF size > 1800 THEN (IF size > 3600 THEN size - 3600 ELSE 3600 - size) ELSE size
        place == Corner[<<x[1], x[2]>>]
    IN  <<IF far THEN NintDiv(x[3], 1000) ELSE NintDiv(x[3], 100),
          folded,
          (IF far THEN 32768 ELSE 0) + NintDiv(place[2] * 32767, 36000),
          32768 + (IF signed < 0 THEN 16384 ELSE 0) + (IF size > 1800 THEN 16384 ELSE 0)
                + NintDiv(place[1] * 16383, 18000)>>
LatLon(x) == <<NintDiv(x[3], 1000), NintDiv(x[4], 1000), NintDiv(90 * DEGREE + x[1], 1000),
               Turned(NintDiv(x[2], 1000), 36000)>>
LatLonC(x) == [LatLon(x) EXCEPT ![1] = NintDiv(180 * DEGREE, x[3]), ![2] = NintDiv(360 * DEGREE, x[4])]
Lambert(x) == <<Turned(NintDiv(x[4], DEGREE \div 5), 1800), NintDiv(2 * x[3], 1000), x[1],
                NintDiv(90 * DEGREE + x[2], 1000)>>
\* Fortieths of a degree: two bits of the first go to ig3 and two of the
\* second to ig4, a negative second is counted from 7201, and a longitude
\* that does not fit is taken modulo 16384.
Rotated(x) ==
    LET Fortieth(a) == NintDiv(a, DEGREE \div 40)
        first == Fortieth(x[1] + 90 * DEGREE)
        second == Fortieth(x[3]) + (IF Fortieth(x[3]) < 0 THEN 7201 ELSE 0)
        lon1 == Fortieth(Turned(x[2], 360 * DEGREE) + 90 * DEGREE)
        lon2 == Fortieth(Turned(x[4], 360 * DEGREE))
    IN  <<first \div 4, second \div 4,
          Joined(IF lon1 >= 16384 THEN lon1 - 16384 ELSE lon1, Least2(first)),
          Joined(lon2, Least2(second))>>
\* Hundredths in ig3 and ig4, as always, and what is left of them, plus 1000,
\* in ig1 and ig2.
PointHalf(a) == LET c == NintDiv(a, 1000) IN <<c, a - 1000 * c + 1000>>
Point(x) == LET lat == PointHalf(x[1] + 100 * DEGREE)
                lon == PointHalf(IF x[2] < 0 THEN x[2] + 360 * DEGREE ELSE x[2])
            IN  <<lat[2], lon[2], lat[1], lon[1]>>

Cxgaig(g, x) == CASE g \in {"N", "S"} -> IF FitsOldPolar(x) THEN OldPolar(x) ELSE NewPolar(x)
                  [] g \in {"A", "B", "G"} -> <<x[1], x[2], 0, 0>>
                  [] g = "C" -> LatLonC(x)
                  [] g = "L" -> LatLon(x)
                  [] g = "H" -> Lambert(x)
                  [] g = "E" -> Rotated(x)
                  [] g = "+" -> Point(x)

(* ------------------------------- cigaxg --------------------------------- *)
FromOldPolar(ig) == <<10 * ig[2], 10 * ig[1], 100 * ig[4], (DEGREE \div 100) * ig[3]>>
\* The first two are given as the place of the point (1, 1).
FromNewPolar(ig) ==
    LET far == ig[3] > 32767
        j3 == IF far THEN ig[3] - 32768 ELSE ig[3]
        other == ig[4] - 32768 > 16383
        j4 == ig[4] - 32768 - (IF other THEN 16384 ELSE 0)
    IN  <<NintDiv(j4 * 18000, 16383), NintDiv(j3 * 36000, 32767),
          (IF far THEN 1000 ELSE 100) * ig[1],
          IF other THEN 360 * DEGREE - (DEGREE \div 10) * ig[2] ELSE (DEGREE \div 10) * ig[2]>>
FromLatLon(ig) == <<1000 * ig[3] - 90 * DEGREE, 1000 * ig[4], 1000 * ig[1], 1000 * ig[2]>>
FromLatLonC(ig) == [FromLatLon(ig) EXCEPT ![3] = NintDiv(180 * DEGREE, ig[1]),
                                          ![4] = NintDiv(360 * DEGREE, ig[2])]
FromLambert(ig) == <<ig[3], 1000 * ig[4] - 90 * DEGREE, 500 * ig[2], (DEGREE \div 5) * ig[1]>>
FromRotatedEven(ig) ==                                                 \* mutant
    LET Degrees(n) == (DEGREE \div 40) * n
        first == Joined(ig[1], Least2(ig[3]))
        second == Joined(ig[2], Least2(ig[4]))
        lon1 == ig[3] \div 4
    IN  <<Degrees(first - 3600),
          Degrees((IF lon1 < 3559 THEN lon1 + 16384 ELSE lon1) - 3600),
          Degrees(IF second > 3600 THEN second - 7200 ELSE second),
          Degrees(ig[4] \div 4)>>
FromRotated(ig) ==
    LET Degrees(n) == (DEGREE \div 40) * n
        first == Joined(ig[1], Least2(ig[3]))
        second == Joined(ig[2], Least2(ig[4]))
        lon1 == ig[3] \div 4
    IN  <<Degrees(first - 3600),
          Degrees((IF lon1 < 3559 THEN lon1 + 16384 ELSE lon1) - 3600),
          Degrees(IF second > 3600 THEN second - 7201 ELSE second),
          Degrees(ig[4] \div 4)>>
FromPoint(ig) ==
    <<1000 * ig[3] - 100 * DEGREE + (IF ig[1] # 0 THEN ig[1] - 1000 ELSE 0),
      1000 * ig[4] + (IF ig[2] # 0 THEN ig[2] - 1000 ELSE 0), 0, 0>>
Cigaxg(g, ig) == CASE g \in {"N", "S"} -> IF ig[4] < 32768 THEN FromOldPolar(ig) ELSE FromNewPolar(ig)
                   [] g \in {"A", "B", "G"} -> <<ig[1], ig[2], 0, 0>>
                   [] g = "C" -> FromLatLonC(ig)
                   [] g = "L" -> FromLatLon(ig)
                   [] g = "H" -> FromLambert(ig)
                   [] g = "E" -> FromRotated(ig)
                   [] g = "+" -> FromPoint(ig)

(* ------------------------------ the calls ------------------------------- *)
GridInit == grid = <<>> /\ igs = <<>> /\ gridback = <<>>
EncodeGrid(g) == grid' = g /\ igs' = Cxgaig(g[1], g[2]) /\ UNCHANGED gridback
DecodeGrid == /\ igs # <<>> /\ gridback = <<>>
              /\ gridback' = Cigaxg(grid[1], igs) /\ UNCHANGED <<grid, igs>>
GridNext == \/ grid = <<>> /\ \E g \in Grids : EncodeGrid(g)
            \/ DecodeGrid
GridSpec == GridInit /\ [][GridNext]_gcvars

(* ----------------------------- properties ------------------------------- *)
Apart(a, b) == IF a < b THEN b - a ELSE a - b
OffTurn(a, b) == LET d == (a - b) % (360 * DEGREE) IN IF d > 180 * DEGREE THEN 360 * DEGREE - d ELSE d
\* The angle of a polar grid in the new style has a bit for its sign, which
\* is added twice to one below -180 and says nothing of one above 360.
AngleLost(x) == ~FitsOldPolar(x) /\ (x[4] < -180 * DEGREE - DEGREE \div 20
                                      \/ x[4] > 360 * DEGREE + DEGREE \div 20)
\* The descriptors of a grid come back from the integers of its type to
\* within half of the unit each is kept in, angles to within a turn
\* (xgaig.f90:52-192, igaxg.f90:49-139).
GridComesBack ==
    gridback # <<>> =>
       LET g == grid[1]
           x == grid[2]
           y == gridback
           Within(i, unit) == 2 * Apart(x[i], y[i]) <= unit
           Turns(i, unit) == 2 * OffTurn(x[i], y[i]) <= unit
       IN  CASE g \in {"N", "S"} ->
                  IF FitsOldPolar(x)
                  THEN Within(1, 10) /\ Within(2, 10) /\ Within(3, 100) /\ Turns(4, 1000)
                  ELSE \/ AngleLost(x)
                       \/ LET place == Corner[<<x[1], x[2]>>]
                          IN  /\ Apart(y[1], place[1]) <= 1 /\ Apart(y[2], place[2]) <= 1
                              /\ Within(3, IF x[3] > 204700 THEN 1000 ELSE 100) /\ Turns(4, 10000)
             [] g \in {"A", "B", "G"} -> y[1] = x[1] /\ y[2] = x[2]
             [] g = "C" -> Within(1, 1000) /\ Turns(2, 1000) /\ Within(3, 2) /\ Within(4, 2)
             [] g = "L" -> Within(1, 1000) /\ Turns(2, 1000) /\ Within(3, 1000) /\ Within(4, 1000)
             [] g = "H" -> y[1] = x[1] /\ Within(2, 1000) /\ Within(3, 500) /\ Turns(4, 20000)
             [] g = "E" -> Within(1, 2500) /\ Turns(2, 2500) /\ Within(3, 2500) /\ Turns(4, 2500)
             [] g = "+" -> y[1] = x[1] /\ OffTurn(x[2], y[2]) = 0
=============================================================================
