---------------------------------- MODULE Dates ----------------------------------
(***************************************************************************)
(* dmDate and dmTime: a day is its Julian number, a time is a day and the  *)
(* seconds since midnight. The factors 365.25, 30.6001 and 36524.65 of the *)
(* code are fractions here: on the days from 15 October 1582 to 10 April   *)
(* 11000 the code's doubles give the same whole numbers.                   *)
(***************************************************************************)
EXTENDS Integers

CONSTANTS
  FirstDays,        \* Julian numbers to begin at
  Span,             \* how many days to go from there
  NearMidnight      \* how many seconds from it

ASSUME DatesAssumption ==
  /\ FirstDays \subseteq Nat /\ Span \in Nat
  /\ \A n \in FirstDays : 2299161 <= n /\ n + Span <= 5738828

VARIABLES
  ndays, nsecs, firstDay

SECONDS_PER_DAY == 86400
IGREG == 15 + 31 * (10 + 12 * 1582)

-----------------------------------------------------------------------------
__dm_dtojul(d, m, y) ==
  LET jy == IF m > 2 THEN y ELSE y - 1
      jm == IF m > 2 THEN m + 1 ELSE m + 13
      ja == jy \div 100
      julian == (1461 * jy) \div 4 + (306001 * jm) \div 10000 + d + 1720995
  IN IF d + 31 * (m + 12 * y) >= IGREG THEN julian + 2 - ja + ja \div 4 ELSE julian

(* Dates count as Gregorian from the number IGREG on, which numbers a date  *)
(* otherwise than Julian numbers do.                                        *)
__dm_jultod_NoLeapCentury(julian) == 
  LET jalpha == (100 * (julian - 1867216) - 25) \div 3652465
      jb == 1524 + IF julian >= IGREG THEN julian + 1 + jalpha ELSE julian
      jc == 6680 + (100 * (jb - 2439870) - 12210) \div 36525
      jd == (1461 * jc) \div 4
      je == (10000 * (jb - jd)) \div 306001
      month == IF je - 1 > 12 THEN je - 13 ELSE je - 1
  IN [day |-> jb - jd - (306001 * je) \div 10000, month |-> month,
      year |-> IF month > 2 THEN jc - 4716 ELSE jc - 4715]
__dm_jultod(julian) ==
  LET jalpha == (100 * (julian - 1867216) - 25) \div 3652465
      jb == 1524 + IF julian >= IGREG THEN julian + 1 + jalpha - jalpha \div 4 ELSE julian
      jc == 6680 + (100 * (jb - 2439870) - 12210) \div 36525
      jd == (1461 * jc) \div 4
      je == (10000 * (jb - jd)) \div 306001
      month == IF je - 1 > 12 THEN je - 13 ELSE je - 1
  IN [day |-> jb - jd - (306001 * je) \div 10000, month |-> month,
      year |-> IF month > 2 THEN jc - 4716 ELSE jc - 4715]

WeekDay(julian) == (julian + 1) % 7

-----------------------------------------------------------------------------
(* operator+=: what is before midnight is turned into days before.          *)
Plus(t, n) ==
  LET s == t.nsecs + n
  IN IF s < 0
     THEN [ndays |-> t.ndays - (1 + ((-s) \div SECONDS_PER_DAY)),
           nsecs |-> SECONDS_PER_DAY - ((-s) % SECONDS_PER_DAY)]
     ELSE [ndays |-> t.ndays + s \div SECONDS_PER_DAY, nsecs |-> s % SECONDS_PER_DAY]

Increment(t) ==
  IF t.nsecs + 1 = SECONDS_PER_DAY THEN [ndays |-> t.ndays + 1, nsecs |-> 0]
  ELSE [t EXCEPT !.nsecs = @ + 1]
Decrement(t) ==
  IF t.nsecs - 1 < 0 THEN [ndays |-> t.ndays - 1, nsecs |-> SECONDS_PER_DAY - 1]
  ELSE [t EXCEPT !.nsecs = @ - 1]

Hour(t) == t.nsecs \div 3600
Minutes(t) == (t.nsecs % 3600) \div 60
Seconds(t) == (t.nsecs % 3600) % 60
SetTime(t, h, m, s) == Plus([t EXCEPT !.nsecs = 0], h * 3600 + m * 60 + s)

Compare(t, u) == IF t.ndays = u.ndays THEN t.nsecs - u.nsecs ELSE t.ndays - u.ndays

-----------------------------------------------------------------------------
Now == [ndays |-> ndays, nsecs |-> nsecs]
Amounts == {k * SECONDS_PER_DAY + d : k \in -2..2, d \in -1..1}

BecomeTime(t) ==
  /\ t.ndays \in firstDay..firstDay + Span
  /\ t.nsecs <= NearMidnight \/ t.nsecs >= SECONDS_PER_DAY - NearMidnight
  /\ t.nsecs <= SECONDS_PER_DAY + NearMidnight
  /\ ndays' = t.ndays /\ nsecs' = t.nsecs /\ UNCHANGED firstDay

DatesInit == firstDay \in FirstDays /\ ndays = firstDay /\ nsecs = 0

DatesNext ==
  \/ \E n \in Amounts : BecomeTime(Plus(Now, n))
  \/ BecomeTime(Increment(Now)) \/ BecomeTime(Decrement(Now))
  \/ BecomeTime(SetTime(Now, Hour(Now), Minutes(Now), Seconds(Now)))

DatesSpec == DatesInit /\ [][DatesNext]_<<ndays, nsecs, firstDay>>
-----------------------------------------------------------------------------
(* The calendar: the day after a day.                                       *)
Leap(y) == y % 4 = 0 /\ (y % 100 # 0 \/ y % 400 = 0)
DaysIn(m, y) == CASE m = 2 -> (IF Leap(y) THEN 29 ELSE 28)
                  [] m \in {4, 6, 9, 11} -> 30
                  [] OTHER -> 31
DayAfter(d) ==
  IF d.day < DaysIn(d.month, d.year) THEN [d EXCEPT !.day = @ + 1]
  ELSE IF d.month < 12 THEN [day |-> 1, month |-> d.month + 1, year |-> d.year]
  ELSE [day |-> 1, month |-> 1, year |-> d.year + 1]

(* The code has 36524.65 for the 36524.25 days of a century, and so it      *)
(* begins a century without a leap day late: after 28 February it counts on *)
(* as in other fourth years, for some days (seven in 2100, and 0.4 of a day *)
(* more with every century).                                                *)
MarchOfCentury(julian) ==
  LET year == __dm_jultod(julian).year
      late == (2 * (year \div 100) - 4) \div 5
  IN /\ year % 100 = 0 /\ ~Leap(year)
     /\ julian - __dm_dtojul(28, 2, year) \in 0..late

(* Days have the dates of the calendar, one after the other, and a date     *)
(* gives its day back. Seconds are added exactly, whatever days they cross, *)
(* and stay within a day, except that a sum of whole days before midnight   *)
(* comes out as the second 86400; and times compare as they follow.         *)
TimesFollowCalendar ==
  /\ ~MarchOfCentury(ndays) =>
       LET d == __dm_jultod(ndays)
       IN /\ __dm_jultod(ndays + 1) = DayAfter(d)
          /\ __dm_dtojul(d.day, d.month, d.year) = ndays
          /\ WeekDay(ndays + 1) = (WeekDay(ndays) + 1) % 7
  /\ nsecs < SECONDS_PER_DAY =>
       /\ \A n \in Amounts :
            LET t == Plus(Now, n)
                Normal(u) == u.nsecs \in 0..SECONDS_PER_DAY - 1
            IN /\ (t.ndays - ndays) * SECONDS_PER_DAY + t.nsecs = nsecs + n
               /\ Normal(t) \/ (nsecs + n < 0 /\ t.nsecs = SECONDS_PER_DAY)
               /\ Normal(t) => (Compare(t, Now) > 0 <=> n > 0) /\ (Compare(t, Now) = 0 <=> n = 0)
       /\ Plus(Now, 1) = Increment(Now)
       /\ SetTime(Now, Hour(Now), Minutes(Now), Seconds(Now)) = Now
=============================================================================
