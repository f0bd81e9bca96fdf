------------------------------ MODULE Calendar ------------------------------
(***************************************************************************)
(* When an installation token expires: parse_iso8601_utc of                *)
(* src/github/app_auth.rs and the two conversions it uses.  A time is a    *)
(* record of the six numbers in the text; each has two digits (the year    *)
(* four), and may have a sign in place of the first.  An instant is a day  *)
(* since 1970-01-01 and a second of that day.  What is not a valid time    *)
(* reads as {}.  TLA+ rounds quotients down where Rust rounds toward zero; *)
(* of what is divided here, only `era` can be negative, and the code       *)
(* adjusts that one so that it is rounded down.                            *)
(***************************************************************************)
EXTENDS Totals

(* Years are counted in eras of 400, days from March 1st of year 0 on.     *)
EraDays     == 146097
EraEnd      == 146096
CenturyDays == 36524
EpochDay    == 719468

DayOfYear(month, day) ==
  (153 * (IF month > 2 THEN month - 3 ELSE month + 9) + 2) \div 5 + day - 1

(* Mutant: the year is taken to begin in January.                          *)
DaysFromCivilOfJanuary(year, month, day) ==
  LET era == year \div 400
      yoe == year % 400
  IN  era * EraDays + yoe * 365 + yoe \div 4 - yoe \div 100 + DayOfYear(month, day) - EpochDay

(* days_from_civil: years begin in March.                                  *)
DaysFromCivil(year, month, day) ==
  LET y   == IF month <= 2 THEN year - 1 ELSE year
      era == y \div 400
      yoe == y - era * 400
  IN  era * EraDays + yoe * 365 + yoe \div 4 - yoe \div 100 + DayOfYear(month, day) - EpochDay

(* civil_from_days                                                         *)
CivilFromDays(days) ==
  LET z   == days + EpochDay
      era == z \div EraDays
      doe == z - era * EraDays
      yoe == (doe - doe \div 1460 + doe \div CenturyDays - doe \div EraEnd) \div 365
      doy == doe - (365 * yoe + yoe \div 4 - yoe \div 100)
      mp  == (5 * doy + 2) \div 153
      m   == IF mp < 10 THEN mp + 3 ELSE mp - 9
      y   == yoe + era * 400
  IN  <<IF m <= 2 THEN y + 1 ELSE y, m, doy - (153 * mp + 2) \div 5 + 1>>

(* parse_iso8601_utc                                                       *)
Instant(t) ==
  LET days == DaysFromCivil(t.year, t.month, t.day)
      valid == /\ t.month \in 1..12 /\ t.hour < 24 /\ t.minute < 60 /\ t.second < 60
               /\ CivilFromDays(days) = <<t.year, t.month, t.day>>
               /\ days >= 0
  IN  IF valid THEN {[day |-> days, second |-> t.hour * 3600 + t.minute * 60 + t.second]}
      ELSE {}

-----------------------------------------------------------------------------
(* The reference: the calendar, counted month by month.                    *)

Leap(year) == year % 4 = 0 /\ (year % 100 # 0 \/ year % 400 = 0)

DaysOfMonth(year, month) ==
  CASE month \in {4, 6, 9, 11} -> 30
    [] month = 2 -> IF Leap(year) THEN 29 ELSE 28
    [] OTHER -> 31

DaysOfMonths(year, months) == Total([m \in 1..months |-> DaysOfMonth(year, m)])

DaysBefore(year, month) ==
  Total([n \in 1..year - 1970 |-> DaysOfMonths(1969 + n, 12)])
    + DaysOfMonths(year, month - 1)

InstantByMonths(t) ==
  IF /\ t.year >= 1970 /\ t.month \in 1..12 /\ t.day \in 1..DaysOfMonth(t.year, t.month)
     /\ t.hour \in 0..23 /\ t.minute \in 0..59 /\ t.second \in 0..59
    THEN {[day |-> DaysBefore(t.year, t.month) + t.day - 1,
           second |-> t.hour * 3600 + t.minute * 60 + t.second]}
    ELSE {}
=============================================================================
