---------------------------- MODULE TemporalCasts ----------------------------
(***************************************************************************)
(* castTemporal() of the temporal vectors (src/src/ConstantImp.cpp) and of *)
(* the temporal scalars (src/src/ScalarImp.cpp), which are written out     *)
(* once more, and the calendar of src/src/Util.cpp.                        *)
(*                                                                         *)
(* A moment is a count of days, hours, seconds, milliseconds or            *)
(* nanoseconds, negative before 1970; a time of the day is a count since   *)
(* midnight, and a month is twelve times its year and its place in it.     *)
(* The ratios of the units are constants, as are the bits of an int and of *)
(* a long, which end in 2038 and in 2262; the calendar is the real one.    *)
(* The lowest number of an int and of a long stands for null.              *)
(***************************************************************************)
EXTENDS Integers, Sequences

CONSTANTS
  HoursPerDay, MinutesPerHour, SecondsPerMinute, MsPerSecond, NsPerMs,
  IntBits, LongBits

CastAssumption ==
  /\ \A ratio \in {HoursPerDay, MinutesPerHour, SecondsPerMinute, MsPerSecond, NsPerMs} :
       ratio \in Nat \ {0, 1}
  /\ IntBits \in Nat \ {0, 1} /\ LongBits \in Nat /\ IntBits < LongBits

Instants == {"DATE", "DATEHOUR", "DATETIME", "TIMESTAMP", "NANOTIMESTAMP"}
TimesOfDay == {"MINUTE", "SECOND", "TIME", "NANOTIME"}
Temporal == Instants \cup TimesOfDay \cup {"MONTH"}
Longs == {"TIMESTAMP", "NANOTIMESTAMP", "NANOTIME", "LONG"}

SecondsPerHour == MinutesPerHour * SecondsPerMinute
SecondsPerDay == HoursPerDay * SecondsPerHour

(* The nanoseconds of one of each.                                          *)
Unit(type) ==
  CASE type \in {"NANOTIMESTAMP", "NANOTIME"} -> 1
    [] type \in {"TIMESTAMP", "TIME"} -> NsPerMs
    [] type \in {"DATETIME", "SECOND"} -> NsPerMs * MsPerSecond
    [] type = "MINUTE" -> NsPerMs * MsPerSecond * SecondsPerMinute
    [] type = "DATEHOUR" -> NsPerMs * MsPerSecond * SecondsPerHour
    [] type = "DATE" -> NsPerMs * MsPerSecond * SecondsPerDay

(* tmporalRatioMatrix, where one unit is made of the other.                 *)
Ratio(larger, smaller) == Unit(larger) \div Unit(smaller)

Bits(type) == IF type \in Longs THEN LongBits ELSE IntBits
Null(type) == -(2^(Bits(type) - 1))
Fits(type, n) == Null(type) < n /\ n < -Null(type)

(* What is left of a number in the bits of a type.                          *)
Held(type, n) == ((n - Null(type)) % 2^Bits(type)) + Null(type)

(* The division of C, towards zero, and its remainder.                      *)
Quot(n, by) == IF n >= 0 THEN n \div by ELSE -((-n) \div by)
Rem(n, by) == n - by * Quot(n, by)

-----------------------------------------------------------------------------
(* The calendar *)

LeapYear(year) == (year % 4 = 0 /\ year % 100 # 0) \/ year % 400 = 0

(* cumMonthDays and cumLeapMonthDays: the days before month m + 1           *)
DaysBefore(m, year) ==
  <<0, 31, 59, 90, 120, 151, 181, 212, 243, 273, 304, 334, 365>>[m + 1]
    + (IF LeapYear(year) /\ m >= 2 THEN 1 ELSE 0)

(* The days of the first years of four hundred.                             *)
DaysOf(years) == 365 * years + (IF years = 0 THEN 0 ELSE (years - 1) \div 4 + 1 - (years - 1) \div 100)

(* countDays() of the first of a month                                      *)
FirstDay(month) ==
  LET year == month \div 12
  IN  (year \div 400) * 146097 + DaysOf(year % 400) - 719529 + DaysBefore(month % 12, year) + 1

(* The month that parseDate() finds a day in: the year is guessed from 365  *)
(* days a year and the month from 32 days a month, and each is corrected.   *)
MonthOf(date) ==
  LET days == date + 719529
      offset == days % 146097
      guess == offset \div 365
      year == 400 * (days \div 146097) + (IF DaysOf(guess) >= offset THEN guess - 1 ELSE guess)
      since == offset - DaysOf(guess)
      day == IF since <= 0 THEN since + DaysBefore(12, year) ELSE since
      month == day \div 32 + 1
  IN  12 * year + (IF day > DaysBefore(month, year) THEN month ELSE month - 1)

-----------------------------------------------------------------------------
(* The casts *)

Castable(from, to) ==
  \/ from = to
  \/ from = "DATE" /\ to \in Instants \cup {"MONTH"}
  \/ from \in Instants \ {"DATE"} /\ to \in Temporal
  \/ from \in TimesOfDay /\ to \in TimesOfDay

(* From one unit to another, without what is less than one.                 *)
Scaled(from, to, n) ==
  IF Unit(from) >= Unit(to) THEN n * Ratio(from, to) ELSE Quot(n, Ratio(to, from))

(* One less for what is left over before 1970.                              *)
Down(n, by, tail) == Quot(n, by) - (IF n < 0 /\ Rem(n, tail) # 0 THEN 1 ELSE 0)

(* The part of a day that a moment before 1970 is in counts from midnight.  *)
OfDay(n, day) == Rem(n, day) + (IF n < 0 /\ Rem(n, day) # 0 THEN day ELSE 0)

(* A vector of timestamps looks for what is left over of an hour in units   *)
(* of seconds, a timestamp by itself in its own.                            *)
LeftOver(from, to, vector) ==
  IF vector /\ from = "TIMESTAMP" /\ to = "DATEHOUR" THEN SecondsPerHour ELSE Ratio(to, from)

OfInstant(from, to, vector, n) ==
  CASE to = "MONTH" -> MonthOf(Quot(n, Ratio("DATE", from)))
    [] to \in Instants /\ Unit(from) >= Unit(to) -> n * Ratio(from, to)
    [] to \in Instants /\ Unit(from) < Unit(to) -> Down(n, Ratio(to, from), LeftOver(from, to, vector))
    [] to \in TimesOfDay ->
         LET unit == CASE from = "DATETIME" -> "SECOND" [] from = "TIMESTAMP" -> "TIME"
                       [] from = "NANOTIMESTAMP" -> "NANOTIME"
         IN  Scaled(unit, to, OfDay(n, Ratio("DATE", from)))

(* The seconds of an hour are computed in an int, unless the compiler,      *)
(* which may take it that they fit, computes in more.                       *)
Seconds(wide, hour) ==
  IF wide THEN hour * SecondsPerHour ELSE Held("DATEHOUR", hour * SecondsPerHour)

OfDateHour(to, wide, n) ==
  CASE to = "DATETIME" -> n * SecondsPerHour
    [] to \in {"TIMESTAMP", "NANOTIMESTAMP"} -> n * Ratio("DATETIME", to) * SecondsPerHour
    [] to = "DATE" -> Quot(Seconds(wide, n), SecondsPerDay)
    [] to = "MONTH" -> MonthOf(Quot(Seconds(wide, n), SecondsPerDay))
    [] to = "NANOTIME" -> Scaled("SECOND", to, Rem(n * SecondsPerHour, SecondsPerDay))
    [] to \in {"TIME", "SECOND", "MINUTE"} -> Scaled("SECOND", to, Rem(Seconds(wide, n), SecondsPerDay))

Cast(from, to, vector, wide, n) ==
  CASE n = Null(from) -> Null(to)
    [] n # Null(from) /\ from = to -> n
    [] n # Null(from) /\ from # to ->
         Held(to, IF from = "DATEHOUR" THEN OfDateHour(to, wide, n)
                  ELSE IF from \in TimesOfDay THEN Scaled(from, to, n)
                  ELSE OfInstant(from, to, vector, n))

VectorCast(from, to, wide, n) == Cast(from, to, TRUE, wide, n)
ScalarCast(from, to, wide, n) == Cast(from, to, FALSE, wide, n)

-----------------------------------------------------------------------------
(* What a cast means *)

(* The unit that a moment is in, the time that it has on its day, or its    *)
(* month.                                                                   *)
Exact(from, to, n) ==
  IF from = to THEN n
  ELSE LET ns == n * Unit(from)
       IN  CASE to = "MONTH" -> MonthOf(ns \div Unit("DATE"))
             [] to \in Instants \/ from \in TimesOfDay -> ns \div Unit(to)
             [] from \in Instants /\ to \in TimesOfDay -> (ns % Unit("DATE")) \div Unit(to)

(* Where the code casts otherwise: a month before 1970 of a moment after    *)
(* midnight, and what an hour before 1970 after midnight is cast to beside  *)
(* finer moments; a vector of timestamps before 1970 on a full second of    *)
(* those that an hour has, as LeftOver counts them, and not on a full hour; *)
(* and what the type does not hold.                                         *)
Inexact(from, to, vector, n) ==
  LET midnight == n % Ratio("DATE", from) = 0
  IN  /\ n # Null(from) /\ from # to
      /\ \/ from \in Instants /\ to = "MONTH" /\ n < 0 /\ ~midnight
         \/ from = "DATEHOUR" /\ to \in {"DATE"} \cup TimesOfDay /\ n < 0 /\ ~midnight
         \/ vector /\ from = "TIMESTAMP" /\ to = "DATEHOUR" /\ n < 0
            /\ n % SecondsPerHour = 0 /\ n % Ratio(to, from) # 0
         \/ ~Fits(to, Exact(from, to, n))
         \/ from = "DATEHOUR" /\ to \notin Longs /\ ~Fits(from, n * SecondsPerHour)
=============================================================================
