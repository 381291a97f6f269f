--------------------------------- MODULE Mjd ---------------------------------
(***************************************************************************)
(* mjd.c: the device's dates (Modified Julian Days, 16 bits) to the host's *)
(* and back, as Annex C of ETSI EN 300 468 computes them in floating       *)
(* point.  What its casts cut off is cut off the exact quotients here:     *)
(* none of them lies on an integer, but where 365.25 is multiplied, which  *)
(* floating point does exactly.  The time of day is copied as it is: a     *)
(* time_t is a number of days here.                                        *)
(***************************************************************************)
EXTENDS Integers

(* A cast to int cuts off towards zero. *)
Quotient(a, b) == IF a >= 0 THEN a \div b ELSE -((-a) \div b)

(* (int) (y * 365.25) and (int) (m * 30.6001) *)
YearDays(y) == Quotient(1461 * y, 4)

MonthDays(m) == Quotient(306001 * m, 10000)

(* Slip: only the fourteenth month belongs to the next year. *)
NextYearJanuary(m) == IF m = 14 THEN 1 ELSE 0

NextYear(m) == IF m \in {14, 15} THEN 1 ELSE 0

(* tfdt_to_time up to its call of mktime: year since 1900, month, day. *)
TfdtDate(mjd) ==
  LET y == Quotient(20 * mjd - 301564, 7305)
      t == mjd - YearDays(y)
      m == Quotient(10000 * t - 149561000, 306001)
      k == NextYear(m)
  IN [year |-> y + k, month |-> m - 1 - 12 * k, day |-> t - 14956 - MonthDays(m)]

(* time_to_tfdt after its call of localtime; put_u16 keeps 16 bits. *)
TimeToTfdt(date) ==
  LET k == IF date.month \in {1, 2} THEN 1 ELSE 0
  IN (14956 + date.day + YearDays(date.year - k) + MonthDays(date.month + 1 + 12 * k))
       % 65536

-----------------------------------------------------------------------------
(***************************************************************************)
(* The calendar, as mktime and localtime know it, by its definition: days  *)
(* since 1900-01-01 (which is MJD 15020).                                  *)
(***************************************************************************)
Leap(year) == (year + 1900) % 4 = 0 /\ ((year + 1900) % 100 # 0 \/ (year + 1900) % 400 = 0)

Length(year, month) ==
  IF month = 2 THEN IF Leap(year) THEN 29 ELSE 28
  ELSE IF month \in {4, 6, 9, 11} THEN 30 ELSE 31

DaysBefore(year, month) ==
  LET before[m \in 1..12] == IF m = 1 THEN 0 ELSE before[m - 1] + Length(year, m - 1)
  IN before[month]

(* From 1900 on, which is no leap year, every fourth is one until 2100, and *)
(* before it down to 1800.                                                  *)
LeapYearsBefore(year) ==
  IF year > 0 THEN (year - 1) \div 4 ELSE -((-year) \div 4)

mktime(date) ==
  LET year == date.year + (date.month - 1) \div 12
      month == ((date.month - 1) % 12) + 1
  IN 365 * year + LeapYearsBefore(year) + DaysBefore(year, month) + date.day - 1

IsDate(date) == date.month \in 1..12 /\ date.day \in 1..Length(date.year, date.month)

tfdt_to_time(mjd) == mktime(TfdtDate(mjd))

=============================================================================
