------------------------------ MODULE Rfc3339 ------------------------------
(***************************************************************************)
(* _rfc3339_to_epoch_seconds (client/publish.py): the hand-written parser  *)
(* that tells when a price lock lapses.  A timestamp is its fields: text   *)
(* that is no digits where digits belong is NoDigits, and a separator is   *)
(* in its place or not.  An instant is a pair of days since 1970-01-01 and *)
(* seconds, of which there may be fewer than none or more than a day's.    *)
(***************************************************************************)
EXTENDS Integers, FiniteSets

NoDigits == -1
NoInstant == <<>>

Leap(year) == (year % 4 = 0 /\ year % 100 # 0) \/ year % 400 = 0

\* _days_in_month.
DaysInMonth(year, month) ==
  IF month \in {1, 3, 5, 7, 8, 10, 12} THEN 31
  ELSE IF month \in {4, 6, 9, 11} THEN 30
  ELSE IF Leap(year) THEN 29 ELSE 28

\* Mutated form: January and February count to the year they are in.
DaysFromCivil_SameYear(year, month, day) ==
  LET era == year \div 400
      yoe == year - era * 400
      doy == (153 * ((month + 9) % 12) + 2) \div 5 + day - 1
  IN era * 146097 + yoe * 365 + yoe \div 4 - yoe \div 100 + doy - 719468

\* _days_from_civil.
DaysFromCivil(year, month, day) ==
  LET y == IF month <= 2 THEN year - 1 ELSE year
      era == y \div 400
      yoe == y - era * 400
      doy == (153 * ((month + 9) % 12) + 2) \div 5 + day - 1
  IN era * 146097 + yoe * 365 + yoe \div 4 - yoe \div 100 + doy - 719468

\* The offset in seconds; kind is "Z", "+", "-" or "other".
OffsetSeconds(offset) ==
  LET magnitude == offset.hours * 3600 + offset.minutes * 60
  IN CASE offset.kind = "+" -> magnitude
       [] offset.kind = "-" -> -magnitude
       [] OTHER -> 0

\* The last two lines of _rfc3339_to_epoch_seconds; second 60 is not special.
EpochOf(ts) ==
  <<DaysFromCivil(ts.year, ts.month, ts.day),
    ts.hour * 3600 + ts.minute * 60 + ts.second - OffsetSeconds(ts.offset)>>

Legible(ts) ==
  /\ NoDigits \notin {ts.year, ts.month, ts.day, ts.hour, ts.minute, ts.second}
  /\ ts.separated
  /\ ts.month \in 1..12 /\ ts.day \in 1..DaysInMonth(ts.year, ts.month)
  /\ ts.hour <= 23 /\ ts.minute <= 59 /\ ts.second <= 60
  /\ ts.fraction # "a dot and no digits"
  /\ ts.offset.kind = "Z"
       \/ /\ ts.offset.kind \in {"+", "-"}
          /\ ts.offset.hours \in 0..23 /\ ts.offset.minutes \in 0..59

\* _rfc3339_to_epoch_seconds.
ToEpochSeconds(ts) == IF Legible(ts) THEN EpochOf(ts) ELSE NoInstant

-----------------------------------------------------------------------------
(* The calendar, as the reference: a day after the other from 1970 on.     *)

NextDate(d) ==
  IF d.day < DaysInMonth(d.year, d.month) THEN [d EXCEPT !.day = @ + 1]
  ELSE IF d.month < 12 THEN [d EXCEPT !.day = 1, !.month = @ + 1]
  ELSE [year |-> d.year + 1, month |-> 1, day |-> 1]

Dates(year) == {d \in [year : {year}, month : 1..12, day : 1..31] : d.day <= DaysInMonth(year, d.month)}
DayNumber(d) == DaysFromCivil(d.year, d.month, d.day)
AfterACycle(d) == [year |-> d.year + 400, month |-> d.month, day |-> d.day]

Zulu == [kind |-> "Z", hours |-> 0, minutes |-> 0]
Offset(kind, hours, minutes) == [kind |-> kind, hours |-> hours, minutes |-> minutes]
At(d, hour, minute, second, offset) ==
  [year |-> d.year, month |-> d.month, day |-> d.day, hour |-> hour, minute |-> minute,
   second |-> second, separated |-> TRUE, fraction |-> "none", offset |-> offset]

\* The same instant, whichever day it is counted from.
Same(a, b) ==
  a # NoInstant /\ b # NoInstant /\ (a[1] - b[1]) * 86400 = b[2] - a[2]

\* Of the texts that look like dates of a year, midnight of the dates it has is read.
OnlyDatesAreRead(year, month, day) ==
  LET d == [year |-> year, month |-> month, day |-> day]
  IN ToEpochSeconds(At(d, 0, 0, 0, Zulu)) = NoInstant <=> d \notin Dates(year)

(* The days of a year follow each other one by one, into the next year     *)
(* too, from day 0 on the first of January 1970; the Gregorian cycle is    *)
(* 400 years long; a date the calendar has not is refused                  *)
(* (_days_from_civil, _days_in_month).                                     *)
CalendarIsGregorian(year) ==
  /\ DaysFromCivil(1970, 1, 1) = 0
  /\ \A d \in Dates(year) :
       /\ DayNumber(NextDate(d)) = DayNumber(d) + 1
       /\ DayNumber(AfterACycle(d)) = DayNumber(d) + 146097
  /\ Cardinality(Dates(year)) = DaysFromCivil(year + 1, 1, 1) - DaysFromCivil(year, 1, 1)
  /\ \A month \in 0..13, day \in 0..32 : OnlyDatesAreRead(year, month, day)

(* One instant written at two offsets is one number, and midnight is the   *)
(* end of the day before, a leap second included                           *)
(* (_rfc3339_to_epoch_seconds).                                            *)
OffsetsAgree(year) ==
  \A d \in {x \in Dates(year) : x.day \in {1, 28, 29, 30, 31}} :
    /\ \A hours \in {0, 1, 14}, minutes \in {0, 30} :
         LET utc == ToEpochSeconds(At(d, 9, 30, 0, Zulu))
             east == At(d, 9 + hours, 30 + minutes, 0, Offset("+", hours, minutes))
             west == At(d, 9 - hours, 30 - minutes, 0, Offset("-", hours, minutes))
         IN /\ east.hour <= 23 /\ east.minute <= 59 => Same(ToEpochSeconds(east), utc)
            /\ west.hour >= 0 => Same(ToEpochSeconds(west), utc)
    /\ Same(ToEpochSeconds(At(d, 23, 59, 60, Zulu)), ToEpochSeconds(At(NextDate(d), 0, 0, 0, Zulu)))
    /\ Same(ToEpochSeconds(At(d, 22, 0, 0, Offset("-", 2, 0))), ToEpochSeconds(At(NextDate(d), 0, 0, 0, Zulu)))

\* _rfc3339_to_epoch_seconds, which decides when a price lock lapses: days
\* are counted as the calendar has them, and offsets and leap seconds cancel.
ClockIsTheCalendar(year) == CalendarIsGregorian(year) /\ OffsetsAgree(year)
=============================================================================
