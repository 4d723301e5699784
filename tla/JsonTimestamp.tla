---------------------------- MODULE JsonTimestamp -----------------------------
(***************************************************************************)
(* adapters/http/json_timestamp.cpp: append_json_timestamp().  A timestamp *)
(* counts units since 1970-01-01T00:00:00, before it in negative numbers.  *)
(*                                                                         *)
(* External: std::chrono's floor, year_month_day (the proleptic Gregorian  *)
(* calendar) and hh_mm_ss.                                                 *)
(***************************************************************************)
EXTENDS Integers, Sequences, FiniteSets

CONSTANTS
    HoursPerDay, MinutesPerHour, SecondsPerMinute,  \* 24, 60, 60
    MillisecondsPerSecond,                          \* 1000
    UnsignedModulus                                 \* 2^32

ASSUME UnitsAssumption ==
    /\ \A units \in {HoursPerDay, MinutesPerHour, SecondsPerMinute} : units \in 1 .. 100
    /\ MillisecondsPerSecond \in 1 .. 1000
    /\ UnsignedModulus \in Nat /\ UnsignedModulus > 9999

SecondsPerDay == HoursPerDay * MinutesPerHour * SecondsPerMinute
Day == SecondsPerDay * MillisecondsPerSecond

-----------------------------------------------------------------------------
(* The calendar.                                                           *)

IsLeap(year) == (year % 4 = 0 /\ year % 100 # 0) \/ year % 400 = 0
MonthLengths(year) ==
    <<31, IF IsLeap(year) THEN 29 ELSE 28, 31, 30, 31, 30, 31, 31, 30, 31, 30, 31>>

(* Days from the first of January of the year 0 to that of this one. *)
DaysBeforeYear(year) ==
    365 * year + (year + 3) \div 4 - (year + 99) \div 100 + (year + 399) \div 400
DaysBeforeMonth(year, month) ==
    LET days[m \in 1 .. 12] ==
          IF m = 1 THEN 0 ELSE days[m - 1] + MonthLengths(year)[m - 1]
    IN  days[month]

(* year_month_day{day} *)
DateOf(days) ==
    LET sinceZero == days + DaysBeforeYear(1970)
        guess == sinceZero \div 366
        year == CHOOSE y \in guess .. guess + 30 :
                  DaysBeforeYear(y) <= sinceZero /\ sinceZero < DaysBeforeYear(y + 1)
        dayOfYear == sinceZero - DaysBeforeYear(year)
        month == CHOOSE m \in 1 .. 12 :
                   /\ DaysBeforeMonth(year, m) <= dayOfYear
                   /\ dayOfYear < DaysBeforeMonth(year, m) + MonthLengths(year)[m]
    IN  [year |-> year, month |-> month, day |-> dayOfYear - DaysBeforeMonth(year, month) + 1]

(* Mutant: duration_cast rounds toward zero. *)
CastDays(instant) == IF instant >= 0 THEN instant \div Day ELSE -((-instant) \div Day)

(* std::chrono::floor<std::chrono::days> *)
FloorDays(instant) == instant \div Day

(* The precondition of json_timestamp.hpp: the years that RFC 3339 writes. *)
WritableInstants ==
    -DaysBeforeYear(1970) * Day .. (DaysBeforeYear(10000) - DaysBeforeYear(1970)) * Day - 1

-----------------------------------------------------------------------------
(* The text, a sequence of digits (numbers) and the marks between them     *)
(* (negative numbers).                                                     *)

Dash == -1
Colon == -2
Point == -3
LetterT == -4
LetterZ == -5
Mark == -6

(* std::to_string of what static_cast<unsigned> makes of a value. *)
Decimal(value) ==
    LET digits[n \in Nat] == IF n < 10 THEN <<n>> ELSE Append(digits[n \div 10], n % 10)
    IN  digits[value % UnsignedModulus]

(* append_zero_padded *)
ZeroPadded(value, width) ==
    LET digits == Decimal(value) IN
    IF Len(digits) < width THEN [i \in 1 .. width - Len(digits) |-> 0] \o digits
    ELSE digits

(* append_json_timestamp *)
AppendJsonTimestamp(timestamp) ==
    LET day == FloorDays(timestamp)
        date == DateOf(day)
        milliseconds == timestamp - day * Day
        seconds == milliseconds \div MillisecondsPerSecond
        minutes == seconds \div SecondsPerMinute
        hours == minutes \div MinutesPerHour
    IN
    <<Mark>> \o ZeroPadded(date.year, 4) \o <<Dash>>
      \o ZeroPadded(date.month, 2) \o <<Dash>>
      \o ZeroPadded(date.day, 2) \o <<LetterT>>
      \o ZeroPadded(hours, 2) \o <<Colon>>
      \o ZeroPadded(minutes % MinutesPerHour, 2) \o <<Colon>>
      \o ZeroPadded(seconds % SecondsPerMinute, 2) \o <<Point>>
      \o ZeroPadded(milliseconds % MillisecondsPerSecond, 3)
      \o <<LetterZ, Mark>>

-----------------------------------------------------------------------------
(* The text by RFC 3339, from the other side.                              *)

Layout ==
    <<{Mark}, 0 .. 9, 0 .. 9, 0 .. 9, 0 .. 9, {Dash}, 0 .. 9, 0 .. 9, {Dash},
      0 .. 9, 0 .. 9, {LetterT}, 0 .. 9, 0 .. 9, {Colon}, 0 .. 9, 0 .. 9, {Colon},
      0 .. 9, 0 .. 9, {Point}, 0 .. 9, 0 .. 9, 0 .. 9, {LetterZ}, {Mark}>>

IsDateTime(text) ==
    Len(text) = Len(Layout) /\ \A i \in DOMAIN Layout : text[i] \in Layout[i]

(* The number that stands at these places. *)
NumberAt(text, first, last) ==
    LET number[n \in first - 1 .. last] ==
          IF n = first - 1 THEN 0 ELSE 10 * number[n - 1] + text[n]
    IN  number[last]

(* Days since 1970-01-01, by counting the leap years before.               *)
LeapYearsBefore(year) == Cardinality({y \in 0 .. year - 1 : IsLeap(y)})
DaysCounted(year, month, day) ==
    365 * (year - 1970) + LeapYearsBefore(year) - LeapYearsBefore(1970)
      + DaysBeforeMonth(year, month) + day - 1

(* The instant a text stands for, in RFC 3339's ranges.                    *)
IsInstant(text, timestamp) ==
    LET year == NumberAt(text, 2, 5)
        month == NumberAt(text, 7, 8)
        day == NumberAt(text, 10, 11)
        hour == NumberAt(text, 13, 14)
        minute == NumberAt(text, 16, 17)
        second == NumberAt(text, 19, 20)
    IN  /\ IsDateTime(text)
        /\ month \in 1 .. 12 /\ day \in 1 .. MonthLengths(year)[month]
        /\ hour < HoursPerDay /\ minute < MinutesPerHour /\ second < SecondsPerMinute
        /\ timestamp =
              (((DaysCounted(year, month, day) * HoursPerDay + hour) * MinutesPerHour
                 + minute) * SecondsPerMinute + second) * MillisecondsPerSecond
               + NumberAt(text, 22, 24)
==============================================================================
