------------------------------ MODULE Calendar ------------------------------
(***************************************************************************)
(* Dates (src/base/moduledate.f90): the stamps of the standard files, old  *)
(* (month, day, year, hour and run number as digits, before 2000), new     *)
(* (5 second intervals, by groups of 8 in 10) and extended (hours, years 0 *)
(* to 9999, kept as a negative integer of 32 bits), their conversions, and *)
(* the arithmetic on them under three calendars: gregorian, years of 365   *)
(* days and years of 360 days, the last two done by counting the days the  *)
(* gregorian result is off.  True dates count intervals of 5 s from 1980,  *)
(* extended ones hours from year 0.  Hours are counted in Units of 5 s, so *)
(* that a real number of hours is an integer.                              *)
(***************************************************************************)
EXTENDS Integers, Sequences, SequencesExt

CONSTANTS
    Starts,       \* dates the program begins from: [y, m, d, h, s], s seconds of the hour
    Increments,   \* what it adds, in Units
    Commands,     \* <<command, calendar>> it gives NewDate_Options
    Environment,  \* calendars NEWDATE_OPTIONS may name, "none" when it is not set
    MaxSteps      \* bound: additions and conversions between two beginnings

ASSUME CalendarAssumption ==
    /\ Increments \subseteq Int /\ MaxSteps \in Nat
    /\ Commands \subseteq {"set", "unset"} \X {"gregorian", "365_day", "360_day"}

VARIABLES
    options,   \* [env, no_leap_years, ccclx_days]: env, the environment names one
    first,     \* the stamp the program began from
    stamp,     \* where it is now
    reckoned,  \* what the calendar says: <<day, unit>> of first and of stamp (history)
    kept,      \* the dates are days of the calendar in use (history)
    steps

calendarvars == <<options, first, stamp, reckoned, kept, steps>>

-----------------------------------------------------------------------------
\* Integer division as Fortran does it, and the numbers of the source.
Quo(a, b) == IF a >= 0 THEN a \div b ELSE -((-a) \div b)
Rem(a, b) == a - b * Quo(a, b)
Nint(a, b) == IF a >= 0 THEN (2 * a + b) \div (2 * b) ELSE -((b - 2 * a) \div (2 * b))

tdstart  == 123200000
jd0      == 1721060
jd1900   == 2415021
jd1980   == 2444240
jd2236   == 2537742
td1900   == -504904320
td2000   == 126230400
td2235   == 1615714548
troisg   == -1294967296    \* 3 000 000 000 in 32 bits
max_offset == 109572750
exception  == 16663825     \* the hour 01Z of 1901/01/01
BadStamp   == 101010101
Hour     == 720
Day      == 24 * Hour
NONE     == -2000000000    \* no true date: the conversion failed
NoDate   == [y |-> -1, m |-> 0, d |-> 0, h |-> 0, s |-> 0]

bissextile(y) == (y % 4 = 0 /\ y % 100 # 0) \/ y % 400 = 0

\* jd and datec: days of the julian calendar.
jd(y, m, d) ==
    LET q == Quo(m - 14, 12) IN
    d - 32075 + (1461 * (y + 4800 + q)) \div 4 + Quo(367 * (m - 2 - q * 12), 12)
      - (3 * ((y + 4900 + q) \div 100)) \div 4

datec(j) ==
    LET n == (4 * (j + 68569)) \div 146097
        l == j + 68569 - (146097 * n + 3) \div 4
        i == (4000 * (l + 1)) \div 1461001
        k == l - (1461 * i) \div 4 + 31
        c == (80 * k) \div 2447
    IN  [y |-> 100 * (n - 49) + i + c \div 11, m |-> c + 2 - 12 * (c \div 11),
         d |-> k - (2447 * c) \div 80]

At(date, h, s) == [y |-> date.y, m |-> date.m, d |-> date.d, h |-> h, s |-> s]

-----------------------------------------------------------------------------
\* newdate (naetwed).  What may be a date: validtm, validtme with the test of 29 February.
mdays == <<31, 29, 31, 30, 31, 30, 31, 31, 30, 31, 30, 31>>
RealDate(p) ==
    /\ p.m \in 1 .. 12 /\ p.d \in 1 .. mdays[p.m] /\ p.h \in 0 .. 23
    /\ (p.m = 2 /\ p.d = 29) => bissextile(p.y)
validtm(p)  == p.y \in 1900 .. 2235 /\ RealDate(p)
validtme(p) == p.y \in 0 .. 9999 /\ RealDate(p)
validtd(t)  == t >= 0 \/ (t >= td1900 /\ Rem(t - td1900, Hour) = 0)

\* modes 2, -2: a printable date and a true date.
FirstOf1901 == [y |-> 1901, m |-> 1, d |-> 1, h |-> 1, s |-> 0]   \* kept for extended stamps
TrueDate(p) ==
    IF p = FirstOf1901 THEN exception
    ELSE IF validtm(p) THEN (jd(p.y, p.m, p.d) - jd1980) * Day + p.h * Hour + p.s \div 5 ELSE NONE
PrintTrue(t) ==
    IF ~validtd(t) THEN NoDate
    ELSE LET u == (t - td1900) % Day
         IN  At(datec(jd1900 + (t - td1900) \div Day), u \div Hour, (u % Hour) * 5)

\* modes 7, -7: a printable date and an extended true date.
ExtTrueDate(p) == IF validtme(p) THEN (jd(p.y, p.m, p.d) - jd0) * 24 + p.h ELSE NONE
PrintExtTrue(t) ==
    LET p == At(datec(jd0 + Quo(t, 24)), Rem(t, 24), 0)
    IN  IF validtd(t) /\ validtme(p) THEN p ELSE NoDate

\* How true dates are put in stamps and taken out.
Tens(t)   == Quo(t, 8) * 10 + Rem(t, 8)
Eights(n) == (n \div 10) * 8 + (n % 10)
OldStamp(p, run) == p.m * 10000000 + p.d * 100000 + (p.y - 1900) * 1000 + p.h * 10 + run
OldDate(n) ==
    [y |-> ((n \div 1000) % 100) + 1900, m |-> (n \div 10000000) % 100,
     d |-> (n \div 100000) % 100, h |-> (n \div 10) % 100, s |-> 0]

\* mode 5: a printable date to an extended stamp.  Modes 3 and -3 are those of most callers.
ExtStamp(p) == IF validtme(p) THEN Tens(ExtTrueDate(p)) + troisg ELSE BadStamp

ToStamp(p) ==
    IF p = FirstOf1901 \/ p.y \notin 1900 .. 2235
    THEN ExtStamp(p)
    ELSE IF ~validtm(p) THEN BadStamp
    ELSE IF p.y >= 2000 \/ (p.y >= 1980 /\ p.s # 0) THEN tdstart + Tens(TrueDate(p))
    ELSE OldStamp(p, 0)

ToPrintable(n) ==
    LET p == IF n < -1
             THEN LET e == Eights(n - troisg)
                  IN  IF n - troisg \in 0 .. max_offset - 1
                      THEN At(datec(jd0 + e \div 24), e % 24, 0) ELSE NoDate
             ELSE IF n >= tdstart THEN PrintTrue(Eights(n - tdstart))
             ELSE OldDate(n)
    IN  IF (n < -1 /\ validtme(p)) \/ validtm(p) THEN p ELSE NoDate

\* modes 1, -1: a stamp and a true date with a run number.
OfStamp(n) ==
    LET p == OldDate(n)
        t == IF n >= tdstart THEN Eights(n - tdstart)
             ELSE (jd(p.y, p.m, p.d) - jd1980) * Day + p.h * Hour
    IN  IF n >= -1 /\ validtd(t) THEN [t |-> t, run |-> IF n >= tdstart THEN 0 ELSE n % 10]
        ELSE [t |-> NONE, run |-> 0]

StampOf(t, run) ==
    IF run > 9 \/ ~validtd(t) THEN BadStamp
    ELSE IF t >= td2000 \/ Rem(t, Hour) # 0 THEN tdstart + Tens(t)
    ELSE OldStamp(PrintTrue(t), run)

\* modes 6, -6: a stamp and an extended true date.
ExtOfStamp(n) ==
    IF n < -1 THEN IF n - troisg \in 0 .. max_offset THEN Eights(n - troisg) ELSE NONE
    ELSE LET p == IF n >= tdstart THEN PrintTrue(Eights(n - tdstart)) ELSE OldDate(n)
         IN  (jd(p.y, p.m, p.d) - jd0) * 24 + p.h

ExtStampOf(t) ==
    IF t = exception \/ Quo(t, 24) + jd0 < jd1900 \/ Quo(t, 24) + jd0 >= jd2236
    THEN Tens(t) + troisg
    ELSE StampOf((Quo(t, 24) + jd0 - jd1980) * Day + Rem(t, 24) * Hour, 0)

\* modes -4 and 4: the array of 14 words and back (dmagtp2, itdmag2).  A year below 100
\* is read as one of the century before 2000.
ToArray(n) ==
    LET p == ToPrintable(n)
        q == IF p = NoDate THEN [y |-> 1910, m |-> 10, d |-> 10, h |-> 10, s |-> 0] ELSE p
    IN  [date |-> q, weekday |-> 1 + ((jd(q.y, q.m, q.d) + 1) % 7)]

OfArray(a) == ToStamp([a.date EXCEPT !.y = IF @ \in 0 .. 99 THEN @ + 1900 ELSE @])

-----------------------------------------------------------------------------
\* NewDate_Options: the calendar; what the environment names has precedence.
Chosen(env, c) == [env |-> env, no_leap_years |-> c # "gregorian", ccclx_days |-> c = "360_day"]
FromEnvironment(c) == Chosen(c # "none", IF c = "none" THEN "gregorian" ELSE c)

Unchosen(o, c) ==
    LET no == CASE c = "365_day" -> FALSE [] c = "gregorian" -> TRUE [] OTHER -> o.no_leap_years
    IN  [o EXCEPT !.no_leap_years = no, !.ccclx_days = @ /\ c # "360_day" /\ ~no]

InUse(o) == IF o.ccclx_days THEN "360_day" ELSE IF o.no_leap_years THEN "365_day" ELSE "gregorian"

\* A true date of either kind, printed and back; the units of a day in it.
Printed(t, ext) == IF ext THEN PrintExtTrue(t) ELSE PrintTrue(t)
TrueOf(p, ext)  == IF ext THEN ExtTrueDate(p) ELSE TrueDate(p)
OneDay(ext)   == IF ext THEN 24 ELSE Day

\* LeapYear_Adjust: the 29ths of February between two true dates.  When adding, each one
\* found moves the end by a day, which may bring in another.
LeapDay(f, year, t2, add, back, ext) ==
    LET feb28 == TrueOf([y |-> year, m |-> 2, d |-> 28, h |-> 23, s |-> 3595], ext)
        feb29 == TrueOf([y |-> year, m |-> 2, d |-> 29, h |-> IF back THEN 23 ELSE 0,
                       s |-> IF back THEN 3595 ELSE 0], ext)
        in    == IF back THEN t2 >= feb28 /\ f.t <= feb29 ELSE t2 <= feb28 /\ f.t >= feb29
        by    == IF back THEN -1 ELSE 1
    IN  IF bissextile(year) /\ in THEN [n |-> f.n + by, t |-> f.t + add * by] ELSE f

Years(from, to, back) ==
    IF back THEN [i \in 1 .. from - to + 1 |-> from + 1 - i]
    ELSE [i \in 1 .. to - from + 1 |-> from - 1 + i]

Count(f, years, t2, add, back, ext) ==
    FoldLeft(LAMBDA g, y : LeapDay(g, y, t2, add, back, ext), f, years)

\* Once the end has moved, the years it has entered.
CountAgain(f, p1, t2, add, back, ext) ==
    LET y1L == Printed(f.t, ext).y
    IN  IF y1L = -1 THEN f.n           \* out of range, as far as the first pass went
        ELSE Count(f, Years(IF back THEN p1.y - 1 ELSE p1.y + 1, y1L, back), t2, add, back, ext).n

LeapDays(t1, t2, p1, p2, add, ext) ==
    LET back == p2.y > p1.y \/ (p2.y = p1.y /\ p2.m > p1.m)
    IN  IF p1 = NoDate THEN 0      \* a part of an hour before 1980: no stamp for it anyway
        ELSE CountAgain(Count([n |-> 0, t |-> t1], Years(p2.y, p1.y, back), t2, add, back, ext),
                        p1, t2, add, back, ext)

\* mutant: the days found do not move the end
LeapYearAdjustOnce(t1, t2, ext, adding) ==
    LeapDays(t1, t2, Printed(t1, ext), Printed(t2, ext), 0, ext)

LeapYearAdjust(t1, t2, ext, adding) ==
    LeapDays(t1, t2, Printed(t1, ext), Printed(t2, ext), IF adding THEN OneDay(ext) ELSE 0, ext)

\* CcclxDays_Adjust: months of 30 days over gregorian ones, 31 January being the first
\* of February and 1 March its last; a date no such day stands for gives a number of days
\* meant to stop the caller.
TooMany == 89478485
NotOf360(p) == (p.d > 28 /\ p.m = 2) \/ (p.d > 30 /\ p.m > 4)

DayOf360(p) ==
    CASE p.m = 1 /\ p.d = 31 -> 31
      [] p.m = 2             -> 31 + p.d
      [] p.m = 3 /\ p.d = 1  -> 60
      [] p.m = 3 /\ p.d # 1  -> 60 + p.d - 1
      [] OTHER               -> (p.m - 1) * 30 + p.d

DateOf360(day) ==     \* day in 1 .. 360
    LET m == (day - 1) \div 30 + 1
        d == day - (m - 1) * 30
    IN  CASE m = 2 /\ d = 1  -> [m |-> 1, d |-> 31]
          [] m = 2 /\ d = 30 -> [m |-> 3, d |-> 1]
          [] m = 2 /\ d \in 2 .. 29 -> [m |-> 2, d |-> d - 1]
          [] m = 3           -> [m |-> 3, d |-> d + 1]
          [] OTHER           -> [m |-> m, d |-> d]

\* The date n Units away from p; hours, minutes and seconds carry into the day, the day
\* into the year.
Later360(p, n) ==
    LET at == p.h * Hour + p.s \div 5 + n
        d0 == DayOf360(p) + at \div Day - 1
        md == DateOf360((d0 % 360) + 1)
    IN  [y |-> p.y + d0 \div 360, m |-> md.m, d |-> md.d,
         h |-> (at % Day) \div Hour, s |-> (at % Hour) * 5]

CcclxDays(t1, t2, p1, p2, ext, adding) ==
    LET unit == IF ext THEN Hour ELSE 1
        ends == TrueOf(Later360(p2, (t1 - t2) * unit), ext)
        days == (p1.y - p2.y) * 360 + DayOf360(p1) - DayOf360(p2)
    IN  IF NotOf360(p2) THEN IF adding THEN TooMany ELSE -TooMany
        ELSE IF adding THEN IF ends = NONE THEN NONE ELSE Quo(ends - t1, OneDay(ext))
        ELSE IF NotOf360(p1) THEN TooMany
        ELSE Quo((t1 - t2) - days * OneDay(ext)
                   - ((p1.h - p2.h) * Hour + (p1.s - p2.s) \div 5) \div unit, OneDay(ext))

CcclxDaysAdjust(t1, t2, ext, adding) ==
    CcclxDays(t1, t2, Printed(t1, ext), Printed(t2, ext), ext, adding)

CalendarAdjust(o, t1, t2, ext, adding) ==
    CASE InUse(o) = "360_day"  -> CcclxDaysAdjust(t1, t2, ext, adding)
      [] InUse(o) = "365_day"  -> LeapYearAdjust(t1, t2, ext, adding)
      [] InUse(o) = "gregorian" -> 0

-----------------------------------------------------------------------------
\* incdat (IDNACT): the stamp n2 moved by u Units.  Before 1980, and in INCDATI, hours are
\* rounded; what leaves 1900 .. 2235 is done again in extended true dates.  UNSPECIFIED is
\* what comes out of a variable that was never set, or of a sum beyond 32 bits.
UNSPECIFIED == -1999999999

ExtStampAfter(t1, days) ==
    IF days \in {NONE, TooMany} THEN UNSPECIFIED ELSE ExtStampOf(t1 + days * 24)

IncExtended(o, t2, u) ==
    LET t1 == t2 + Nint(u, Hour)
    IN  IF t2 = NONE THEN BadStamp ELSE ExtStampAfter(t1, CalendarAdjust(o, t1, t2, TRUE, TRUE))

IncPrinted(o, n2, u) == IncExtended(o, ExtTrueDate(ToPrintable(n2)), u)

WholeHours(t) == Quo(t + (IF t >= 0 THEN Hour \div 2 ELSE -(Hour \div 2)), Hour) * Hour

\* Of the gregorian end t, days being what the calendar adds.
IncAdjusted(o, n2, u, run, t, days) ==
    LET t1 == t + (IF days = TooMany THEN -8 * Hour      \* TooMany days in 32 bits
                   ELSE days * Day)
    IN  IF days = NONE THEN UNSPECIFIED
        ELSE IF t1 \in td1900 .. td2235 THEN StampOf(t1, run)
        ELSE IncPrinted(o, n2, u)

IncTrue(o, n2, u, rounding, b) ==
    LET hrs == rounding \/ b.t < 0
        t2  == IF hrs THEN WholeHours(b.t) ELSE b.t
        add == IF hrs THEN Hour * Nint(u, Hour) ELSE u
    IN  IF b.t = NONE THEN BadStamp
        ELSE IF td1900 - t2 <= add /\ add <= td2235 - t2
             THEN IncAdjusted(o, n2, u, b.run, t2 + add,
                              CalendarAdjust(o, t2 + add, t2, FALSE, TRUE))
        ELSE IncPrinted(o, n2, u)

IncDat(o, n2, u, rounding) ==
    IF n2 < -1 THEN IncExtended(o, ExtOfStamp(n2), u)
    ELSE IncTrue(o, n2, u, rounding, OfStamp(n2))

\* difdat (DDIAFT): n1 - n2 in Units; UNSPECIFIED for what no caller takes for a difference.
Dated(n, ext, rounding) ==
    LET t == OfStamp(n).t
    IN  IF ~ext THEN IF rounding /\ t # NONE THEN WholeHours(t) ELSE t
        ELSE IF n < -1 THEN ExtOfStamp(n) ELSE ExtTrueDate(ToPrintable(n))

DaysApart(t1, t2, ext, days) ==
    IF NONE \in {t1, t2} \/ days \in {TooMany, -TooMany} THEN UNSPECIFIED
    ELSE (t1 - t2 - days * OneDay(ext)) * (IF ext THEN Hour ELSE 1)

Difference(o, t1, t2, ext) == DaysApart(t1, t2, ext, CalendarAdjust(o, t1, t2, ext, FALSE))

DifDat(o, n1, n2, rounding) ==
    LET ext == n1 < -1 \/ n2 < -1
    IN  Difference(o, Dated(n1, ext, rounding), Dated(n2, ext, rounding), ext)

-----------------------------------------------------------------------------
\* The calendars themselves: days since year 0, by the lengths of months and years.
MonthDays(c, y) ==
    [m \in 1 .. 12 |->
        CASE c = "360_day" /\ m > 4 -> 30
          [] m = 2 -> IF c = "gregorian" /\ bissextile(y) THEN 29 ELSE 28
          [] OTHER -> mdays[m]]

YearsBefore(c, y) ==
    CASE c = "360_day"   -> 360 * y
      [] c = "365_day"   -> 365 * y
      [] c = "gregorian" -> 365 * y + (y + 3) \div 4 - (y + 99) \div 100 + (y + 399) \div 400

DayOf(c, p) == YearsBefore(c, p.y)
                 + FoldLeft(+, 0, SubSeq(MonthDays(c, p.y), 1, p.m - 1)) + p.d - 1
Reckon(c, p) == <<DayOf(c, p), p.h * Hour + p.s \div 5>>
Has(c, p) == validtme(p) /\ p.d <= MonthDays(c, p.y)[p.m]

Moved(r, u)  == <<r[1] + (r[2] + u) \div Day, (r[2] + u) % Day>>
Floored(r)   == <<r[1], r[2] - (r[2] % Hour)>>
Rounded(r)   == Floored(Moved(r, Hour \div 2))
Before(c, r, y) == r[1] < YearsBefore(c, y)
Extended(c, r)  == Before(c, r, 1900) \/ ~Before(c, r, 2236)

\* Where u Units after r, of stamp n, is: extended stamps and those before 1980 hold whole hours.
Expected(c, r, u, rounding, n) ==
    LET coarse == rounding \/ n < -1 \/ Before(c, r, 1980)
        e == IF coarse THEN Moved(Rounded(r), Hour * Nint(u, Hour)) ELSE Moved(r, u)
    IN  IF Extended(c, e) THEN Moved(Floored(r), Hour * Nint(u, Hour)) ELSE e

\* A stamp can hold it.
Holds(c, r) == /\ ~Before(c, r, 0) /\ Before(c, r, 10000)
               /\ Before(c, r, 1980) => r[2] % Hour = 0

-----------------------------------------------------------------------------
\* INCDATI may round to a day the calendar has not: 29 February under 365_day.
RoundsToADay(c, n, rounding) ==
    (rounding /\ n >= -1) => Has(c, PrintTrue(WholeHours(OfStamp(n).t)))

\* A program begins from a date, adds hours to it, converts it, and changes calendars.
Begin(p) ==
    \E n \in {ToStamp(p)} : \E r \in {Reckon(InUse(options), ToPrintable(n))} :
    /\ n # BadStamp
    /\ first' = n /\ stamp' = n
    /\ reckoned' = <<r, r>>
    /\ kept' = Has(InUse(options), ToPrintable(n))
    /\ steps' = 0
    /\ UNCHANGED options

OneCall == steps < MaxSteps /\ steps' = steps + 1          \* bound

Add(u, rounding) ==
    LET c == InUse(options) IN
    \E n \in {IncDat(options, stamp, u, rounding)} :
    \E e \in {Expected(c, reckoned[2], u, rounding, stamp)} :
    /\ OneCall
    /\ IF n # UNSPECIFIED THEN stamp' = n ELSE stamp' \in {ToStamp(p) : p \in Starts}
    /\ reckoned' = [reckoned EXCEPT ![2] = e]
    /\ kept' = (kept /\ Holds(c, e) /\ n # UNSPECIFIED
                  /\ RoundsToADay(c, stamp, rounding))
    /\ UNCHANGED <<options, first>>

\* Through a true date, an array, a printable date: the stamp it gives stands for the same.
Convert(n) ==
    /\ OneCall
    /\ stamp' = n
    /\ UNCHANGED <<options, first, reckoned, kept>>

ThroughTrueDate == LET b == OfStamp(stamp)
                   IN  b.t # NONE /\ Convert(StampOf(b.t, b.run))
ThroughPrintable == ToPrintable(stamp) # NoDate /\ Convert(ToStamp(ToPrintable(stamp)))
ThroughArray == ToPrintable(stamp).y > 99 /\ Convert(OfArray(ToArray(stamp)))

\* Through an extended true date or an extended stamp: minutes are lost.
ThroughExtended ==
    \E n \in {ExtStampOf(ExtOfStamp(stamp)), ExtStamp(ToPrintable(stamp))} :
        /\ OneCall
        /\ ToPrintable(stamp) # NoDate
        /\ stamp' = n
        /\ reckoned' = [reckoned EXCEPT ![2] = Floored(@)]
        /\ UNCHANGED <<options, first, kept>>

NewDateOptions(command, c) ==
    LET o == IF options.env THEN options
             ELSE IF command = "set" THEN Chosen(FALSE, c) ELSE Unchosen(options, c) IN
    \E p \in {ToPrintable(stamp)} :
    /\ o # options
    /\ options' = o
    /\ first' = stamp
    /\ kept' = Has(InUse(o), p)
    /\ reckoned' = IF p = NoDate THEN reckoned ELSE <<Reckon(InUse(o), p), Reckon(InUse(o), p)>>
    /\ UNCHANGED <<stamp, steps>>

CalendarInit ==
    /\ \E c \in Environment : options = FromEnvironment(c)
    /\ first = BadStamp /\ stamp = BadStamp
    /\ reckoned \in {<<r, r>> : r \in {Reckon(InUse(options), ToPrintable(BadStamp))}}
    /\ kept = FALSE
    /\ steps = MaxSteps      \* nothing to add to yet

CalendarNext ==
    \/ \E p \in Starts : Begin(p)
    \/ \E u \in Increments, rounding \in BOOLEAN : Add(u, rounding)
    \/ ThroughTrueDate \/ ThroughPrintable \/ ThroughArray \/ ThroughExtended
    \/ \E x \in Commands : NewDateOptions(x[1], x[2])

CalendarSpec == CalendarInit /\ [][CalendarNext]_calendarvars

\* However a date was reached, by additions across years, stamps of other kinds and
\* conversions, its stamp is the day the calendar in use says it is, and the difference
\* with the date begun from is what was added.  (The alternative calendars correct a
\* gregorian result by counting days that move while they are counted.)
DatesFollowCalendar ==
    LET c == InUse(options)
        p == ToPrintable(stamp)
        ext == first < -1 \/ stamp < -1
        Held(r) == IF ext THEN Floored(r) ELSE r IN
    kept =>
        /\ p # NoDate
        /\ Reckon(c, p) = reckoned[2]
        /\ DifDat(options, stamp, first, FALSE)
             = (Held(reckoned[2])[1] - Held(reckoned[1])[1]) * Day
                 + Held(reckoned[2])[2] - Held(reckoned[1])[2]
=============================================================================
