------------------------------ MODULE Instants ------------------------------
(***************************************************************************)
(* Which readings name an instant: namesARealInstant of the Clock port,    *)
(* timestampValue of DecisionLogEntry and committedAtValue of              *)
(* CommitReceipt.  The three carry the same arithmetic.                    *)
(*                                                                         *)
(* A reading is seen as the numbers its digits spell; a value of another   *)
(* type or another spelling is Unreadable.                                 *)
(***************************************************************************)
EXTENDS Integers

CONSTANT Unreadable

MonthLengths == <<31, 28, 31, 30, 31, 30, 31, 31, 30, 31, 30, 31>>

IsLeapYear(year) == (year % 4 = 0 /\ year % 100 # 0) \/ year % 400 = 0

LengthOfMonth(year, month) ==
    IF month = 2 /\ IsLeapYear(year) THEN 29 ELSE MonthLengths[month]

(* The date half of the three checks.                                      *)
NamesARealDay(year, month, day) ==
    /\ year >= 1
    /\ month \in 1 .. 12
    /\ day >= 1 /\ day <= LengthOfMonth(year, month)

(* Their time half.                                                        *)
NamesARealTime(hour, minute, second) == hour <= 23 /\ minute <= 59 /\ second <= 59

NamesARealInstant(r) ==
    /\ r # Unreadable
    /\ NamesARealDay(r.year, r.month, r.day)
    /\ NamesARealTime(r.hour, r.minute, r.second)

----------------------------------------------------------------------------
(* The reference: the proleptic Gregorian calendar as a count of days.  A  *)
(* year runs from March, so that the leap day is its last; four centuries  *)
(* have 146097 days.                                                       *)

DaysFromCivil(year, month, day) ==
    LET y == IF month <= 2 THEN year - 1 ELSE year
        dayOfYear == (153 * ((month + 9) % 12) + 2) \div 5 + day - 1
    IN  365 * y + y \div 4 - y \div 100 + y \div 400 + dayOfYear

CivilFromDays(days) ==
    LET era == days \div 146097
        dayOfEra == days % 146097
        yearOfEra == (dayOfEra - dayOfEra \div 1460 + dayOfEra \div 36524
                        - dayOfEra \div 146096) \div 365
        dayOfYear == dayOfEra - (365 * yearOfEra + yearOfEra \div 4 - yearOfEra \div 100)
        m == (5 * dayOfYear + 2) \div 153
        month == IF m < 10 THEN m + 3 ELSE m - 9
    IN  <<era * 400 + yearOfEra + (IF month <= 2 THEN 1 ELSE 0),
          month,
          dayOfYear - (153 * m + 2) \div 5 + 1>>

(* A day is accepted exactly when the count of days brings it back: a day  *)
(* that a lenient parser would roll into the next month is refused, and    *)
(* none that exists is.  Two digits spell months and days up to 99.        *)
InstantsAreReal(year) ==
    /\ \A month \in 1 .. 12, day \in 0 .. 32 :
          NamesARealDay(year, month, day) <=>
              year >= 1 /\ CivilFromDays(DaysFromCivil(year, month, day)) = <<year, month, day>>
    /\ \A month \in {0, 13, 99}, day \in {1, 28} : ~NamesARealDay(year, month, day)
=============================================================================
