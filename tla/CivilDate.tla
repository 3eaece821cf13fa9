----------------------------- MODULE CivilDate -----------------------------
(***************************************************************************)
(* The date in the name of a JSONL file: ymd_from_unix_secs computes it in *)
(* closed form from the number of days since 1970-01-01.  The calendar is  *)
(* turned by its rules, day by day, so that the closed form can be         *)
(* compared with it over a range.                                          *)
(***************************************************************************)
EXTENDS Integers

CONSTANTS FirstDay, LastDay     \* bounds: the days compared, from 1970-01-01

ASSUME RangeAssumption == FirstDay \in Int /\ LastDay \in Int /\ 0 \in FirstDay..LastDay

(* Days are counted from 1 March of the year 0, in eras of 400 years.  The *)
(* division of a negative number rounds towards zero.                      *)
EraOf(z) == IF z >= 0 THEN z \div 146097 ELSE -((146096 - z) \div 146097)

(* Faulty variant: the last day of an era counts as the next year's. *)
YearOf_EraEnd(doe) == (doe - doe \div 1460 + doe \div 36524) \div 365

(* The year, from March, of a day of the era. *)
YearOf(doe) == (doe - doe \div 1460 + doe \div 36524 - doe \div 146096) \div 365

YearStart(yoe) == 365 * yoe + yoe \div 4 - yoe \div 100

(* The date of the doy-th day of the yoe-th year: months come in groups of *)
(* five with 153 days, and January and February are the next year's.       *)
Civil(era, yoe, doy) ==
    LET mp == (5 * doy + 2) \div 153
        m == IF mp < 10 THEN mp + 3 ELSE mp - 9
    IN  [y |-> yoe + era * 400 + (IF m <= 2 THEN 1 ELSE 0), m |-> m,
         d |-> doy - (153 * mp + 2) \div 5 + 1]

(* ymd_from_unix_secs *)
Ymd(n) ==
    LET z == n + 719468
        doe == z - EraOf(z) * 146097
    IN  Civil(EraOf(z), YearOf(doe), doe - YearStart(YearOf(doe)))

----------------------------------------------------------------------------
(* The Gregorian calendar. *)

Leap(y) == y % 4 = 0 /\ (y % 100 = 0 => y % 400 = 0)

MonthLength(y, m) ==
    IF m = 2 THEN (IF Leap(y) THEN 29 ELSE 28)
    ELSE IF m \in {4, 6, 9, 11} THEN 30 ELSE 31

Tomorrow(t) ==
    IF t.d < MonthLength(t.y, t.m) THEN [t EXCEPT !.d = @ + 1]
    ELSE IF t.m < 12 THEN [t EXCEPT !.m = @ + 1, !.d = 1]
    ELSE [y |-> t.y + 1, m |-> 1, d |-> 1]

(* The closed form starts at the epoch and goes where the calendar goes:   *)
(* leap years, centuries and the end of a 400-year era included.           *)
FollowsCalendar ==
    /\ Ymd(0) = [y |-> 1970, m |-> 1, d |-> 1]
    /\ \A n \in FirstDay..(LastDay - 1) : Ymd(n + 1) = Tomorrow(Ymd(n))
============================================================================
