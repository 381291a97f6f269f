---------------------------- MODULE PuppyDir_proofs ----------------------------
(***************************************************************************)
(* What holds of puppy-dir for every listing and every initial size of the *)
(* buffer.  First the dates, which are arithmetic: the quotients of mjd.c  *)
(* against the calendar's definition.  Then the order: what the parts of a *)
(* name are and what the comparators say of two elements, and that they do *)
(* not contradict themselves on a listing that can be sorted.  Then the    *)
(* buffer, by an inductive invariant on how much of the listing has been   *)
(* decoded and what the elements behind it are.  Last what main makes of   *)
(* the copy: the entries in another order, and the lines printed as places *)
(* in it.                                                                  *)
(***************************************************************************)
EXTENDS PuppyDir, SequenceTheorems, FiniteSetTheorems, WellFoundedInduction, TLAPS

(* The days of a year before each of its months. *)
MonthBegins(year) ==
  LET march == IF Dates!Leap(year) THEN 60 ELSE 59
  IN [m \in 1..12 |->
        IF m = 1 THEN 0 ELSE IF m = 2 THEN 31 ELSE IF m = 3 THEN march
        ELSE IF m = 4 THEN march + 31 ELSE IF m = 5 THEN march + 61
        ELSE IF m = 6 THEN march + 92 ELSE IF m = 7 THEN march + 122
        ELSE IF m = 8 THEN march + 153 ELSE IF m = 9 THEN march + 184
        ELSE IF m = 10 THEN march + 214 ELSE IF m = 11 THEN march + 245 ELSE march + 275]

(***************************************************************************)
(* The calendar's recursion over the months adds up to that table.  A      *)
(* recursive function is chosen by its equation: the table satisfies it,   *)
(* so that what is chosen does, and the months follow one by one.          *)
(***************************************************************************)
LEMMA DaysBeforeMonths ==
  ASSUME NEW year, NEW month \in 1..12
  PROVE Dates!DaysBefore(year, month) = MonthBegins(year)[month]
<1> DEFINE Step(b) ==
             [m \in 1..12 |-> IF m = 1 THEN 0 ELSE b[m - 1] + Dates!Length(year, m - 1)]
           W == MonthBegins(year)
           B == CHOOSE b : b = Step(b)
<1>1. W = Step(W)
  <2>1. \A m \in 1..12 : W[m] = IF m = 1 THEN 0 ELSE W[m - 1] + Dates!Length(year, m - 1)
    <3> SUFFICES ASSUME NEW m \in 1..12
                 PROVE W[m] = IF m = 1 THEN 0 ELSE W[m - 1] + Dates!Length(year, m - 1)
      OBVIOUS
    <3> QED
      BY DEF MonthBegins, Dates!Length
  <2>2. W = [m \in 1..12 |-> W[m]]
    BY DEF MonthBegins
  <2> HIDE DEF W
  <2> QED
    BY <2>1, <2>2
<1>2. B = Step(B)
  <2> HIDE DEF Step, W
  <2> QED
    BY <1>1, Zenon
<1>3. \A m \in 1..12 : B[m] = IF m = 1 THEN 0 ELSE B[m - 1] + Dates!Length(year, m - 1)
  <2> HIDE DEF B
  <2> QED
    BY <1>2
<1>4. \A m \in 1..12 : W[m] = B[m]
  <2> HIDE DEF B
  <2> DEFINE february == Dates!Length(year, 2)
  <2>1. /\ B[1] = 0 /\ B[2] = 31 /\ B[3] = 31 + february /\ B[4] = 62 + february
        /\ B[5] = 92 + february /\ B[6] = 123 + february
    BY <1>3 DEF Dates!Length
  <2>2. /\ B[7] = 153 + february /\ B[8] = 184 + february /\ B[9] = 215 + february
        /\ B[10] = 245 + february /\ B[11] = 276 + february /\ B[12] = 306 + february
    BY <1>3, <2>1 DEF Dates!Length
  <2> QED
    BY <2>1, <2>2 DEF Dates!Length, MonthBegins
<1>5. Dates!DaysBefore(year, month) = B[month]
  BY Zenon DEF Dates!DaysBefore
<1> QED
  <2> HIDE DEF B
  <2> QED
    BY <1>4, <1>5

(* From 1900-03-01 to the last day that 16 bits name. *)
Days == 15079..65535

(* Years that begin in March: the year of a day, the days of that year up to *)
(* and with it (its first is day 123), and its month (March is month 4).     *)
Year(mjd) == (20 * mjd - 301564) \div 7305
DayOfYear(mjd) == mjd - 14956 - Dates!YearDays(Year(mjd))
Month(z) == (10000 * z - 1000) \div 306001

(* 1900 is the one year divisible by 4 that is no leap year. *)
LEMMA LeapYears ==
  ASSUME NEW year \in 0..139
  PROVE Dates!Leap(year) <=> year % 4 = 0 /\ year # 0
<1>1. PICK c \in 0..34, r \in 0..3 : year = 4 * c + r
  OBVIOUS
<1>2. (year + 1900) % 4 = r /\ year % 4 = r
  BY <1>1
<1>3. (year + 1900) % 100 = 0 <=> year \in {0, 100}
  OBVIOUS
<1>4. (year + 1900) % 400 = 0 <=> year = 100
  OBVIOUS
<1> QED
  BY <1>2, <1>3, <1>4 DEF Dates!Leap

(* Of what is not negative a cast cuts off what \div does. *)
LEMMA NothingCut ==
  ASSUME NEW a \in Int, NEW b \in Int, a >= 0
  PROVE Dates!Quotient(a, b) = a \div b
  BY DEF Dates!Quotient

(***************************************************************************)
(* The first quotient of tfdt_to_time: no day falls outside its year, and  *)
(* only before a leap year's end of February is there a day 488.           *)
(***************************************************************************)
LEMMA YearOfDay ==
  ASSUME NEW mjd \in Days
  PROVE /\ Year(mjd) \in 0..138
        /\ DayOfYear(mjd) \in 123..488
        /\ DayOfYear(mjd) = 488 => Year(mjd) % 4 = 3
<1> DEFINE y == Year(mjd)
<1>1. y \in 0..138
  BY DEF Year, Days
<1>2. 7305 * y <= 20 * mjd - 301564 /\ 20 * mjd - 301564 < 7305 * y + 7305
  BY DEF Year, Days
<1> HIDE DEF y
<1>3. PICK c \in 0..34, r \in 0..3 : y = 4 * c + r
  BY <1>1
<1>4. y % 4 = r
  BY <1>1, <1>3
<1>5. DayOfYear(mjd) = mjd - 14956 - Dates!YearDays(y)
  BY DEF y, DayOfYear
<1>6. DayOfYear(mjd) \in 123..488 /\ (DayOfYear(mjd) = 488 => r = 3)
  <2> DEFINE n == mjd - 1461 * c
  <2>1. n \in Int /\ mjd = n + 1461 * c
    BY DEF Days
  <2>2. 7305 * r <= 20 * n - 301564 /\ 20 * n - 301564 < 7305 * r + 7305
    BY <1>2, <1>3, <2>1
  <2> HIDE DEF n
  <2>3. CASE r = 0
    <3>1. Dates!YearDays(y) = 1461 * c + 0
      BY <1>3, <2>3 DEF Dates!YearDays, Dates!Quotient
    <3>2. n \in 15079..15443
      BY <2>1, <2>2, <2>3
    <3>3. DayOfYear(mjd) = n - 14956
      BY <1>5, <2>1, <3>1, <3>2
    <3> QED
      BY <2>3, <3>2, <3>3
  <2>4. CASE r = 1
    <3>1. Dates!YearDays(y) = 1461 * c + 365
      BY <1>3, <2>4 DEF Dates!YearDays, Dates!Quotient
    <3>2. n \in 15444..15808
      BY <2>1, <2>2, <2>4
    <3>3. DayOfYear(mjd) = n - 15321
      BY <1>5, <2>1, <3>1, <3>2
    <3> QED
      BY <2>4, <3>2, <3>3
  <2>5. CASE r = 2
    <3>1. Dates!YearDays(y) = 1461 * c + 730
      BY <1>3, <2>5 DEF Dates!YearDays, Dates!Quotient
    <3>2. n \in 15809..16173
      BY <2>1, <2>2, <2>5
    <3>3. DayOfYear(mjd) = n - 15686
      BY <1>5, <2>1, <3>1, <3>2
    <3> QED
      BY <2>5, <3>2, <3>3
  <2>6. CASE r = 3
    <3>1. Dates!YearDays(y) = 1461 * c + 1095
      BY <1>3, <2>6 DEF Dates!YearDays, Dates!Quotient
    <3>2. n \in 16174..16539
      BY <2>1, <2>2, <2>6
    <3>3. DayOfYear(mjd) = n - 16051
      BY <1>5, <2>1, <3>1, <3>2
    <3> QED
      BY <2>6, <3>2, <3>3
  <2> QED
    BY <2>3, <2>4, <2>5, <2>6
<1> QED
  BY <1>1, <1>4, <1>6 DEF y

(* The days that end before each month, day 123 being the first. *)
MonthTable(m) ==
  IF m = 4 THEN 122 ELSE IF m = 5 THEN 153 ELSE IF m = 6 THEN 183 ELSE IF m = 7 THEN 214
  ELSE IF m = 8 THEN 244 ELSE IF m = 9 THEN 275 ELSE IF m = 10 THEN 306 ELSE IF m = 11 THEN 336
  ELSE IF m = 12 THEN 367 ELSE IF m = 13 THEN 397 ELSE IF m = 14 THEN 428 ELSE 459

(* 30.6001 days to a month, rounded down, is that table. *)
LEMMA MonthsInDays ==
  ASSUME NEW m \in 4..15
  PROVE Dates!MonthDays(m) = MonthTable(m)
BY DEF Dates!MonthDays, Dates!Quotient, MonthTable

(* The second quotient of tfdt_to_time: no day falls outside its month. *)
LEMMA MonthOfDay ==
  ASSUME NEW z \in 123..488
  PROVE /\ Month(z) \in 4..15
        /\ z > MonthTable(Month(z))
        /\ Month(z) < 15 => z <= MonthTable(Month(z) + 1)
<1> DEFINE m == Month(z)
<1>1. m \in 4..15
  BY DEF Month
<1>2. 306001 * m <= 10000 * z - 1000 /\ 10000 * z - 1000 < 306001 * m + 306001
  BY DEF Month
<1> HIDE DEF m
<1>3. z > MonthTable(m) /\ (m < 15 => z <= MonthTable(m + 1))
  BY <1>1, <1>2 DEF MonthTable
<1> QED
  BY <1>1, <1>3 DEF m

(***************************************************************************)
(* The date that tfdt_to_time gives to mktime is one of the calendar and   *)
(* the right one, and time_to_tfdt makes the same day of it.               *)
(***************************************************************************)
LEMMA DateOfDay ==
  ASSUME NEW mjd \in Days,
         NEW date, date = Dates!TfdtDate(mjd)
  PROVE /\ Dates!mktime(date) = mjd - 15020
        /\ Dates!IsDate(date)
        /\ Dates!TimeToTfdt(date) = mjd
<1> DEFINE y == Year(mjd)
           z == DayOfYear(mjd)
           m == Month(z)
           k == Dates!NextYear(m)
<1>1. /\ y \in 0..138 /\ z \in 123..488 /\ (z = 488 => y % 4 = 3)
  BY YearOfDay
<1>2. /\ m \in 4..15 /\ z > MonthTable(m) /\ (m < 15 => z <= MonthTable(m + 1))
  BY <1>1, MonthOfDay
<1>3. mjd = z + 14956 + Dates!YearDays(y) /\ Dates!YearDays(y) \in Int
  <2>1. z = mjd - 14956 - Dates!YearDays(y)
    BY DEF DayOfYear
  <2>2. Dates!YearDays(y) \in Int
    BY <1>1 DEF Dates!YearDays, Dates!Quotient
  <2> QED
    BY <2>1, <2>2 DEF Days
<1>a. Dates!Quotient(20 * mjd - 301564, 7305) = y
  <2>1. 20 * mjd - 301564 \in Int /\ 20 * mjd - 301564 >= 0
    BY DEF Days
  <2>2. PICK a \in Int : a = 20 * mjd - 301564
    BY <2>1
  <2>3. Dates!Quotient(a, 7305) = a \div 7305
    BY <2>1, <2>2, NothingCut, SMT
  <2> QED
    BY <2>2, <2>3, SMT DEF Year
<1>b. Dates!Quotient(10000 * z - 1000, 306001) = m
  <2>1. PICK a \in Int : a = 10000 * z - 1000
    BY <1>1, SMT
  <2>2. a >= 0
    BY <1>1, <2>1, SMT
  <2>3. Dates!Quotient(a, 306001) = a \div 306001
    BY <2>2, NothingCut, SMT
  <2> QED
    BY <2>1, <2>3, SMT DEF Month
<1>4. date = [year |-> y + k, month |-> m - 1 - 12 * k, day |-> z - MonthTable(m)]
  <2>1. 10000 * (mjd - Dates!YearDays(y)) - 149561000 = 10000 * z - 1000
    BY <1>3, <1>1
  <2>2. mjd - Dates!YearDays(y) - 14956 = z
    BY <1>3, <1>1
  <2>3. Dates!MonthDays(m) = MonthTable(m)
    BY <1>2, MonthsInDays
  <2> QED
    BY <1>a, <1>b, <2>1, <2>2, <2>3 DEF Dates!TfdtDate
<1>5. k = (IF m \in {14, 15} THEN 1 ELSE 0)
  BY DEF Dates!NextYear
<1>6. /\ date.month \in 1..12 /\ date.year \in 0..139 /\ date.day \in Int
      /\ date.year = y + k /\ date.month = m - 1 - 12 * k /\ date.day = z - MonthTable(m)
  BY <1>1, <1>2, <1>4, <1>5 DEF MonthTable
<1> HIDE DEF y, z, m, k
<1>7. Dates!Leap(date.year) <=> date.year % 4 = 0 /\ date.year # 0
  BY <1>6, LeapYears
<1>8. Dates!IsDate(date)
  <2>1. date.day >= 1
    BY <1>1, <1>2, <1>6 DEF MonthTable
  <2>2. date.day <= Dates!Length(date.year, date.month)
    <3>1. CASE m = 15
      <4>1. date.month = 2 /\ date.day = z - 459 /\ date.year = y + 1
        BY <1>5, <1>6, <3>1 DEF MonthTable
      <4>2. z = 488 => Dates!Leap(date.year)
        BY <1>1, <1>7, <4>1
      <4> QED
        BY <1>1, <4>1, <4>2 DEF Dates!Length
    <3>2. CASE m < 15
      BY <1>1, <1>2, <1>5, <1>6, <3>2 DEF MonthTable, Dates!Length
    <3> QED
      BY <1>2, <3>1, <3>2
  <2> QED
    BY <1>6, <2>1, <2>2 DEF Dates!IsDate, Dates!Length
<1>9. Dates!TimeToTfdt(date) = mjd
  <2>1. (IF date.month \in {1, 2} THEN 1 ELSE 0) = k
    BY <1>2, <1>5, <1>6
  <2>2. date.year - k = y /\ date.month + 1 + 12 * k = m
    BY <1>1, <1>2, <1>5, <1>6
  <2>3. Dates!MonthDays(m) = MonthTable(m) /\ MonthTable(m) \in Int
    BY <1>2, MonthsInDays DEF MonthTable
  <2>4. 14956 + date.day + Dates!YearDays(y) + Dates!MonthDays(m) = mjd
    BY <1>1, <1>3, <1>6, <2>3
  <2>5. mjd % 65536 = mjd
    <3>1. mjd \in Nat /\ mjd < 65536
      BY DEF Days
    <3> QED
      BY <3>1, SMTT(30)
  <2> QED
    BY <2>1, <2>2, <2>4, <2>5 DEF Dates!TimeToTfdt
<1>10. Dates!mktime(date) = mjd - 15020
  <2>1. (date.month - 1) \div 12 = 0 /\ (date.month - 1) % 12 = date.month - 1
    BY <1>6
  <2>2. Dates!mktime(date) = 365 * date.year + Dates!LeapYearsBefore(date.year)
                       + MonthBegins(date.year)[date.month] + date.day - 1
    BY <1>6, <2>1, DaysBeforeMonths DEF Dates!mktime
  <2>3. Dates!YearDays(y) = 365 * y + y \div 4
    BY <1>1 DEF Dates!YearDays, Dates!Quotient
  <2>4. CASE m < 14
    <3>1. date.year = y /\ date.month = m - 1
      <4>1. k = 0
        BY <1>2, <1>5, <2>4
      <4> QED
        BY <1>1, <1>2, <1>6, <4>1
    <3>2. Dates!LeapYearsBefore(y) + (IF Dates!Leap(y) THEN 60 ELSE 59) = y \div 4 + 59
      BY <1>1, <1>7, <3>1 DEF Dates!LeapYearsBefore
    <3>3. MonthBegins(y)[m - 1] = (IF Dates!Leap(y) THEN 60 ELSE 59) + MonthTable(m) - 122
      BY <1>2, <2>4 DEF MonthBegins, MonthTable
    <3> QED
      <4>1. PICK leaps \in Int : leaps = Dates!LeapYearsBefore(y)
        BY <1>1 DEF Dates!LeapYearsBefore
      <4>2. PICK march \in Int : march = IF Dates!Leap(y) THEN 60 ELSE 59
        OBVIOUS
      <4>3. PICK table \in Int : table = MonthTable(m)
        BY <1>2 DEF MonthTable
      <4>4. leaps + march = y \div 4 + 59
        BY <3>2, <4>1, <4>2, Zenon
      <4>5. Dates!mktime(date) = 365 * y + leaps + (march + table - 122) + (z - table) - 1
        <5>1. MonthBegins(date.year)[date.month] = march + table - 122
          BY <3>1, <3>3, <4>2, <4>3
        <5>2. Dates!LeapYearsBefore(date.year) = leaps /\ date.day = z - table
          BY <1>6, <3>1, <4>1, <4>3
        <5> QED
          BY <2>2, <3>1, <5>1, <5>2
      <4> QED
        BY <1>1, <1>3, <2>3, <4>4, <4>5, SMT
  <2>5. CASE m >= 14
    <3>1. date.year = y + 1 /\ date.month = m - 13
      BY <1>2, <1>5, <1>6, <2>5
    <3>2. Dates!LeapYearsBefore(y + 1) = y \div 4
      BY <1>1 DEF Dates!LeapYearsBefore
    <3>3. MonthBegins(y + 1)[m - 13] = MonthTable(m) - 428
      BY <1>2, <2>5 DEF MonthBegins, MonthTable
    <3> QED
      BY <1>1, <1>2, <1>3, <1>6, <2>2, <2>3, <3>1, <3>2, <3>3 DEF MonthTable
  <2> QED
    BY <1>2, <2>4, <2>5
<1> QED
  BY <1>8, <1>9, <1>10

-----------------------------------------------------------------------------
(* What decode_dir leaves of an entry. *)
LEMMA DecodedFields ==
  ASSUME NEW e
  PROVE /\ Decoded(e).name = e.name /\ Decoded(e).size = e.size
        /\ Decoded(e).time = Dates!tfdt_to_time(e.mjd)
BY DEF Decoded

(* The day that a decoded entry has. *)
LEMMA TimeOfDay ==
  ASSUME NEW e, e.mjd \in Days
  PROVE Decoded(e).time = e.mjd - 15020
<1>1. Decoded(e).time = Dates!mktime(Dates!TfdtDate(e.mjd))
  BY DecodedFields DEF Dates!tfdt_to_time
<1> QED
  BY <1>1, DateOfDay

(* A set of numbers has a least one, and a set of places a greatest one. *)
LEMMA LeastOf ==
  ASSUME NEW S, S \subseteq Nat, S # {}
  PROVE \E i \in S : \A j \in S : i <= j
<1>1. IsWellFoundedOn(OpToRel(<, Nat), Nat)
  BY NatLessThanWellFounded
<1>2. PICK i \in S : \A j \in S : ~ (<<j, i>> \in OpToRel(<, Nat))
  BY <1>1, WFMin, Zenon
<1>3. ASSUME NEW j \in S PROVE i <= j
  <2>1. ~ (<<j, i>> \in OpToRel(<, Nat))
    BY <1>2
  <2>2. i \in Nat /\ j \in Nat
    OBVIOUS
  <2> QED
    BY <2>1, <2>2 DEF OpToRel
<1> QED
  BY <1>3

LEMMA GreatestOf ==
  ASSUME NEW n \in Nat, NEW S, S \subseteq 1..n, S # {}
  PROVE \E i \in S : \A j \in S : i >= j
<1> DEFINE T == {n - i : i \in S}
<1>1. T \subseteq Nat /\ T # {}
  <2>1. \A i \in S : n - i \in Nat
    OBVIOUS
  <2>2. PICK i \in S : TRUE
    OBVIOUS
  <2>3. n - i \in T
    OBVIOUS
  <2> QED
    BY <2>1, <2>3
<1>2. PICK t \in T : \A u \in T : t <= u
  <2> HIDE DEF T
  <2> QED
    BY <1>1, LeastOf
<1>3. PICK i \in S : t = n - i
  BY <1>2
<1>4. ASSUME NEW j \in S PROVE i >= j
  <2>1. n - j \in T
    OBVIOUS
  <2>2. t <= n - j
    BY <1>2, <2>1
  <2> QED
    BY <1>3, <2>2
<1> QED
  BY <1>4

(* What strrchr finds: the one place of the character with none behind it. *)
LEMMA LastPlace ==
  ASSUME NEW name \in Seq(Nat), NEW char
  PROVE \/ /\ strrchr(name, char) = 0
           /\ \A i \in 1..Len(name) : name[i] # char
        \/ /\ strrchr(name, char) \in 1..Len(name)
           /\ name[strrchr(name, char)] = char
           /\ \A i \in 1..Len(name) : name[i] = char => i <= strrchr(name, char)
<1> DEFINE I == {i \in 1..Len(name) : name[i] = char}
<1>1. strrchr(name, char) = IF I # {} THEN Max(I) ELSE 0
  BY Zenon DEF strrchr, SelectLastInSeq
<1>2. CASE I = {}
  BY <1>1, <1>2
<1>3. CASE I # {}
  <2>1. Len(name) \in Nat /\ I \subseteq 1..Len(name)
    OBVIOUS
  <2>2. \E i \in I : \A j \in I : i >= j
    <3> HIDE DEF I
    <3> QED
      BY <1>3, <2>1, GreatestOf
  <2>3. Max(I) \in I /\ \A j \in I : Max(I) >= j
    <3> HIDE DEF I
    <3> QED
      BY <2>2, Zenon DEF Max
  <2>4. strrchr(name, char) = Max(I)
    BY <1>1, <1>3
  <2> DEFINE last == strrchr(name, char)
  <2>5. last \in I /\ \A j \in I : last >= j
    BY <2>3, <2>4
  <2> HIDE DEF last
  <2>6. \A i \in 1..Len(name) : name[i] = char => i <= last
    BY <2>5
  <2>7. last \in 1..Len(name) /\ name[last] = char
    BY <2>5
  <2> QED
    BY <2>6, <2>7 DEF last
<1> QED
  BY <1>2, <1>3

(* A character is where it is and not behind: that is where strrchr finds it. *)
LEMMA LastPlaceIs ==
  ASSUME NEW name \in Seq(Nat), NEW char, NEW i \in 1..Len(name),
         name[i] = char, \A j \in (i + 1)..Len(name) : name[j] # char
  PROVE strrchr(name, char) = i
<1> DEFINE last == strrchr(name, char)
<1>1. /\ last \in 1..Len(name) /\ name[last] = char
      /\ \A j \in 1..Len(name) : name[j] = char => j <= last
  BY LastPlace
<1> HIDE DEF last
<1>2. last = i
  BY <1>1
<1> QED
  BY <1>2 DEF last

(* The fields of an entry that arrives. *)
LEMMA EntryFields ==
  ASSUME NEW e \in Entry
  PROVE /\ e.name \in Seq(Nat) /\ e.title \in Seq(Nat)
        /\ e.number \in Nat /\ e.mjd \in Nat /\ e.size \in Nat
<1>1. \A S, N, M :
        \A x \in [name : S, title : S, number : N, mjd : M, size : N] :
          x.name \in S /\ x.title \in S /\ x.number \in N /\ x.mjd \in M /\ x.size \in N
  OBVIOUS
<1>2. e \in [name : Seq(Nat), title : Seq(Nat), number : Nat, mjd : MJDs, size : Nat]
  BY DEF Entry
<1>3. e.name \in Seq(Nat) /\ e.title \in Seq(Nat) /\ e.number \in Nat
      /\ e.mjd \in MJDs /\ e.size \in Nat
  BY <1>1, <1>2, Zenon
<1>4. \A n \in MJDs : n \in Nat
  BY DEF MJDs
<1> QED
  BY <1>3, <1>4, Zenon

(***************************************************************************)
(* extract_parts finds the title and the number that a name is made of, if *)
(* there is no dash or plus in the title and the number fits in an int.    *)
(***************************************************************************)
LEMMA Parsed ==
  ASSUME NEW e \in Entry, MadeOf(e),
         \A k \in 1..Len(e.title) : e.title[k] \notin {Dash, Plus}
  PROVE /\ extract_parts(e.name).len = Len(e.title)
        /\ e.number <= IntMax => extract_parts(e.name).number = e.number
<1> DEFINE name == e.name
           stem == Len(e.title)
           dot == strrchr(name, Dot)
           plus == strrchr(name, Plus)
           dash == strrchr(name, Dash)
           tail == SubSeq(name, dash + 1, dot - 1)
<1>1. name \in Seq(Nat) /\ e.title \in Seq(Nat) /\ stem \in Nat /\ Len(name) \in Nat
  <2>1. e.name \in Seq(Nat) /\ e.title \in Seq(Nat)
    BY EntryFields, Zenon
  <2> QED
    BY <2>1
<1>2. extract_parts(name) =
        IF dot = 0 THEN [len |-> Len(name), number |-> 0]
        ELSE IF plus \in 1..(dot - 1) THEN [len |-> plus - 1, number |-> 0]
        ELSE IF dash \in 1..(dot - 1)
             THEN [len |-> dash - 1,
                   number |-> IF \A i \in 1..Len(tail) : tail[i] \in Digits THEN atoi(tail) ELSE 0]
        ELSE [len |-> dot - 1, number |-> 0]
  BY Zenon DEF extract_parts
<1>3. stem <= Len(name) /\ \A i \in 1..stem : name[i] # Dash /\ name[i] # Plus
  BY <1>1 DEF MadeOf
<1>4. CASE stem = Len(name) /\ e.number = 0 /\ \A i \in 1..stem : e.title[i] # Dot
  <2>1. \A i \in 1..Len(name) : name[i] # Dot
    BY <1>1, <1>4 DEF MadeOf
  <2>2. dot = 0
    <3> HIDE DEF name
    <3>1. \/ dot = 0
          \/ dot \in 1..Len(name) /\ name[dot] = Dot
      BY <1>1, LastPlace
    <3> QED
      BY <2>1, <3>1
  <2> HIDE DEF name, stem, dot, plus, dash, tail
  <2>3. extract_parts(name) = [len |-> Len(name), number |-> 0]
    BY <1>2, <2>2
  <2> QED
    BY <1>4, <2>3 DEF name, stem
<1>5. CASE Extended(e, stem)
  <2>1. PICK d \in (stem + 1)..Len(name) :
          /\ name[d] = Dot /\ \A i \in (d + 1)..Len(name) : name[i] # Dot
          /\ \/ d = stem + 1 /\ e.number = 0
             \/ /\ d > stem + 1 /\ name[stem + 1] = Dash
                /\ \A i \in (stem + 2)..(d - 1) : name[i] \in Digits
                /\ \A i \in (d + 1)..Len(name) : name[i] # Dash
                /\ e.number = Decimal(SubSeq(name, stem + 2, d - 1))
             \/ /\ d > stem + 1 /\ name[stem + 1] = Plus
                /\ \A i \in ((stem + 2)..(d - 1)) \cup ((d + 1)..Len(name)) : name[i] # Plus
                /\ e.number = 0
    BY <1>5, Zenon DEF Extended
  <2>2. d \in 1..Len(name) /\ d \in Nat
    BY <1>1, <2>1
  <2>3. dot = d
    <3> HIDE DEF name
    <3> QED
      BY <1>1, <2>1, <2>2, LastPlaceIs
  <2>4. \/ plus = 0
        \/ plus \in 1..Len(name) /\ name[plus] = Plus
    <3> HIDE DEF name
    <3> QED
      BY <1>1, LastPlace
  <2>5. \/ dash = 0
        \/ dash \in 1..Len(name) /\ name[dash] = Dash
    <3> HIDE DEF name
    <3> QED
      BY <1>1, LastPlace
  <2> HIDE DEF stem, dot, name
  <2>6. CASE d = stem + 1 /\ e.number = 0
    <3> HIDE DEF plus, dash, tail
    <3>1. plus \notin 1..(d - 1) /\ dash \notin 1..(d - 1)
      BY <1>1, <1>3, <2>4, <2>5, <2>6
    <3>2. extract_parts(name) = [len |-> dot - 1, number |-> 0]
      BY <1>2, <2>2, <2>3, <3>1
    <3> QED
      BY <1>1, <2>3, <2>6, <3>2 DEF name, stem
  <2>7. CASE /\ d > stem + 1 /\ name[stem + 1] = Dash
             /\ \A i \in (stem + 2)..(d - 1) : name[i] \in Digits
             /\ \A i \in (d + 1)..Len(name) : name[i] # Dash
             /\ e.number = Decimal(SubSeq(name, stem + 2, d - 1))
    <3>1. \A i \in ((stem + 1) + 1)..Len(name) : name[i] # Dash
      <4>1. ASSUME NEW i \in ((stem + 1) + 1)..Len(name) PROVE name[i] # Dash
        <5>1. CASE i < d
          <6>1. i \in (stem + 2)..(d - 1)
            BY <1>1, <2>2, <5>1
          <6>2. name[i] \in Digits
            BY <2>7, <6>1
          <6> QED
            BY <6>2 DEF Digits, Dash
        <5>2. CASE i = d
          BY <2>1, <5>2 DEF Dot, Dash
        <5>3. CASE i > d
          <6>1. i \in (d + 1)..Len(name)
            BY <1>1, <2>2, <5>3
          <6> QED
            BY <2>7, <6>1
        <5> QED
          BY <1>1, <2>2, <5>1, <5>2, <5>3
      <4> QED
        BY <4>1
    <3>2. stem + 1 \in 1..Len(name)
      BY <1>1, <2>2, <2>7
    <3>3. dash = stem + 1
      BY <1>1, <2>7, <3>1, <3>2, LastPlaceIs
    <3>4. plus \notin 1..(d - 1)
      <4> HIDE DEF plus
      <4>1. ASSUME NEW i \in 1..(d - 1) PROVE name[i] # Plus
        <5>1. CASE i \in 1..stem
          BY <1>3, <5>1
        <5>2. CASE i = stem + 1
          BY <2>7, <5>2 DEF Dash, Plus
        <5>3. CASE i \in (stem + 2)..(d - 1)
          BY <2>7, <5>3 DEF Digits, Plus
        <5> QED
          BY <1>1, <2>2, <5>1, <5>2, <5>3
      <4> QED
        BY <2>4, <4>1
    <3>5. dash \in 1..(d - 1)
      BY <1>1, <2>2, <2>7, <3>3
    <3>6. tail = SubSeq(name, stem + 2, d - 1)
      BY <1>1, <2>3, <3>3
    <3>7. \A i \in 1..Len(tail) : tail[i] \in Digits
      <4>1. /\ Len(SubSeq(name, stem + 2, d - 1)) = d - 1 - (stem + 2) + 1
            /\ \A i \in 1..(d - 1 - (stem + 2) + 1) :
                 SubSeq(name, stem + 2, d - 1)[i] = name[stem + 2 + i - 1]
        BY <1>1, <2>2, <2>7, SubSeqProperties, SMTT(30)
      <4> HIDE DEF tail
      <4>2. ASSUME NEW i \in 1..Len(tail) PROVE tail[i] \in Digits
        <5>1. tail[i] = name[stem + 2 + i - 1] /\ i \in 1..(d - 1 - (stem + 2) + 1)
          BY <3>6, <4>1, <4>2
        <5>2. stem + 2 + i - 1 \in (stem + 2)..(d - 1)
          BY <1>1, <2>2, <5>1
        <5> QED
          BY <2>7, <5>1, <5>2
      <4> QED
        BY <4>2
    <3> HIDE DEF tail, dash, plus
    <3>8. extract_parts(name) = [len |-> dash - 1, number |-> atoi(tail)]
      BY <1>2, <2>2, <2>3, <3>4, <3>5, <3>7
    <3>9. e.number <= IntMax => atoi(tail) = e.number
      BY <2>7, <3>6, Zenon DEF atoi
    <3> QED
      BY <1>1, <3>3, <3>8, <3>9 DEF name, stem
  <2>8. CASE /\ d > stem + 1 /\ name[stem + 1] = Plus
             /\ \A i \in ((stem + 2)..(d - 1)) \cup ((d + 1)..Len(name)) : name[i] # Plus
             /\ e.number = 0
    <3>1. ASSUME NEW i \in ((stem + 1) + 1)..Len(name) PROVE name[i] # Plus
      <4>1. CASE i = d
        BY <2>1, <4>1 DEF Dot, Plus
      <4>2. CASE i # d
        <5>1. i \in ((stem + 2)..(d - 1)) \cup ((d + 1)..Len(name))
          BY <1>1, <2>2, <4>2
        <5> QED
          BY <2>8, <5>1
      <4> QED
        BY <4>1, <4>2
    <3>2. stem + 1 \in 1..Len(name)
      BY <1>1, <2>2, <2>8
    <3>3. plus = stem + 1
      BY <1>1, <2>8, <3>1, <3>2, LastPlaceIs
    <3> HIDE DEF tail, dash, plus
    <3>4. extract_parts(name) = [len |-> plus - 1, number |-> 0]
      BY <1>1, <1>2, <2>2, <2>3, <2>8, <3>3
    <3> QED
      BY <1>1, <2>8, <3>3, <3>4 DEF name, stem
  <2> QED
    BY <2>1, <2>6, <2>7, <2>8
<1> QED
  BY <1>4, <1>5 DEF MadeOf

(* The first place where two sequences differ. *)
Differ(s, t, i) ==
  /\ i \in Nat \ {0} /\ i <= Len(s) /\ i <= Len(t) /\ s[i] # t[i]
  /\ \A j \in 1..(i - 1) : s[j] = t[j]

(* There is one unless one sequence goes on from the other. *)
LEMMA SomeDifference ==
  ASSUME NEW s \in Seq(Nat), NEW t \in Seq(Nat), ~IsPrefix(s, t), ~IsPrefix(t, s)
  PROVE \E i : Differ(s, t, i)
<1> DEFINE D == {i \in 1..Len(s) : i <= Len(t) /\ s[i] # t[i]}
<1>1. Len(s) \in Nat /\ Len(t) \in Nat
  OBVIOUS
<1>2. ASSUME NEW u \in Seq(Nat), NEW v \in Seq(Nat), Len(u) <= Len(v),
             \A i \in 1..Len(u) : u[i] = v[i]
      PROVE IsPrefix(u, v)
  <2>1. Len(u) \in Nat /\ Len(v) \in Nat
    OBVIOUS
  <2>2. SubSeq(u, 1, Len(u)) = u
    BY SubSeqFull, Zenon
  <2>3. /\ SubSeq(v, 1, Len(u)) \in Seq(Nat) /\ Len(SubSeq(v, 1, Len(u))) = Len(u)
        /\ \A i \in 1..Len(u) : SubSeq(v, 1, Len(u))[i] = v[i]
    BY <1>2, <2>1, SubSeqProperties, SMTT(30)
  <2>4. SubSeq(v, 1, Len(u)) = u
    BY <1>2, <2>3, SeqEqual
  <2> QED
    BY <1>2, <2>2, <2>4 DEF IsPrefix
<1>3. D # {}
  <2> SUFFICES ASSUME D = {} PROVE FALSE
    OBVIOUS
  <2>1. \A i \in 1..Len(s) : i <= Len(t) => s[i] = t[i]
    OBVIOUS
  <2>2. CASE Len(s) <= Len(t)
    <3>1. \A i \in 1..Len(s) : s[i] = t[i]
      BY <1>1, <2>1, <2>2
    <3> QED
      BY <1>2, <2>2, <3>1
  <2>3. CASE Len(t) <= Len(s)
    <3>1. \A i \in 1..Len(t) : t[i] = s[i]
      BY <1>1, <2>1, <2>3
    <3> QED
      BY <1>2, <2>3, <3>1
  <2> QED
    BY <1>1, <2>2, <2>3
<1>4. PICK i \in D : \A j \in D : i <= j
  <2>1. D \subseteq Nat
    OBVIOUS
  <2> HIDE DEF D
  <2> QED
    BY <1>3, <2>1, LeastOf
<1>5. Differ(s, t, i)
  <2>1. i \in Nat \ {0} /\ i <= Len(s) /\ i <= Len(t) /\ s[i] # t[i]
    BY <1>1
  <2>2. ASSUME NEW j \in 1..(i - 1) PROVE s[j] = t[j]
    <3>1. j \in 1..Len(s) /\ j <= Len(t) /\ ~(i <= j)
      BY <1>1, <2>1
    <3>2. j \notin D
      BY <1>4, <3>1
    <3> QED
      BY <3>1, <3>2
  <2> QED
    BY <2>1, <2>2 DEF Differ
<1> QED
  BY <1>5

(* And one only, the same both ways. *)
LEMMA OneDifference ==
  ASSUME NEW s \in Seq(Nat), NEW t \in Seq(Nat), NEW i, NEW k,
         Differ(s, t, i), Differ(s, t, k)
  PROVE i = k /\ Differ(t, s, i)
<1>1. i \in Nat \ {0} /\ k \in Nat \ {0}
  BY DEF Differ
<1>2. ~ (i < k) /\ ~ (k < i)
  <2>1. /\ s[i] # t[i] /\ \A j \in 1..(i - 1) : s[j] = t[j]
        /\ s[k] # t[k] /\ \A j \in 1..(k - 1) : s[j] = t[j]
    BY DEF Differ
  <2>2. i \notin 1..(k - 1) /\ k \notin 1..(i - 1)
    BY <2>1
  <2> QED
    BY <1>1, <2>2
<1>3. i = k
  BY <1>1, <1>2
<1> QED
  BY <1>3 DEF Differ

(***************************************************************************)
(* Of two names that begin with their titles strcmp_len compares the       *)
(* titles.                                                                 *)
(***************************************************************************)
LEMMA TitlesCompared ==
  ASSUME NEW a \in Entry, NEW b \in Entry, MadeOf(a), MadeOf(b),
         NEW c, c = strcmp_len(a.name, Len(a.title), b.name, Len(b.title))
  PROVE /\ a.title = b.title => c = 0
        /\ \A i : Differ(a.title, b.title, i) => c = Char(a.title[i]) - Char(b.title[i])
<1> DEFINE D == {i \in 1..Len(a.title) : i <= Len(b.title) /\ a.name[i] # b.name[i]}
<1>1. c = IF D = {} THEN 0
          ELSE LET i == CHOOSE i \in D : \A j \in D : i <= j
               IN Char(a.name[i]) - Char(b.name[i])
  BY DEF strcmp_len
<1>2. /\ a.title \in Seq(Nat) /\ b.title \in Seq(Nat)
      /\ Len(a.title) \in Nat /\ Len(b.title) \in Nat
  BY EntryFields
<1>3. /\ \A i \in 1..Len(a.title) : a.name[i] = a.title[i]
      /\ \A i \in 1..Len(b.title) : b.name[i] = b.title[i]
  BY DEF MadeOf
<1>4. CASE a.title = b.title
  <2>1. D = {}
    BY <1>2, <1>3, <1>4
  <2>2. \A i : ~Differ(a.title, b.title, i)
    BY <1>4 DEF Differ
  <2> QED
    BY <1>1, <2>1, <2>2
<1>5. ASSUME NEW k, Differ(a.title, b.title, k)
      PROVE c = Char(a.title[k]) - Char(b.title[k])
  <2>1. /\ k \in Nat \ {0} /\ k <= Len(a.title) /\ k <= Len(b.title)
        /\ a.title[k] # b.title[k]
        /\ \A j \in 1..(k - 1) : a.title[j] = b.title[j]
    BY <1>5 DEF Differ
  <2>2. k \in D
    BY <1>2, <1>3, <2>1
  <2>3. ASSUME NEW j \in D PROVE k <= j
    <3>1. j \in 1..Len(a.title) /\ j <= Len(b.title) /\ a.title[j] # b.title[j]
      BY <1>2, <1>3
    <3> QED
      BY <1>2, <2>1, <3>1
  <2> DEFINE first == CHOOSE i \in D : \A j \in D : i <= j
  <2>4. first \in D /\ \A j \in D : first <= j
    <3> HIDE DEF D
    <3> QED
      BY <2>2, <2>3, Zenon
  <2>5. first = k
    <3>1. first <= k /\ k <= first
      <4> HIDE DEF D, first
      <4> QED
        BY <2>2, <2>3, <2>4
    <3>2. first \in Nat
      <4>1. D \subseteq Nat
        OBVIOUS
      <4> HIDE DEF D, first
      <4> QED
        BY <2>4, <4>1
    <3> HIDE DEF D, first
    <3> QED
      BY <2>1, <3>1, <3>2
  <2>6. c = Char(a.name[first]) - Char(b.name[first])
    <3>1. D # {}
      BY <2>2
    <3> HIDE DEF D
    <3> QED
      BY <1>1, <3>1
  <2> HIDE DEF first
  <2>7. a.name[k] = a.title[k] /\ b.name[k] = b.title[k]
    BY <1>2, <1>3, <2>1
  <2> QED
    BY <2>5, <2>6, <2>7
<1> QED
  BY <1>4, <1>5

(***************************************************************************)
(* The order of titles none of which goes on from another one: the first   *)
(* difference decides, and what is not before is the same or behind.       *)
(***************************************************************************)
LEMMA TitleOrder ==
  ASSUME NEW a \in Entry, NEW b \in Entry
  PROVE /\ a.title = b.title => ~TitleBefore(a, b)
        /\ a.title # b.title /\ ~IsPrefix(a.title, b.title) /\ ~IsPrefix(b.title, a.title)
             => \E i : /\ Differ(a.title, b.title, i) /\ Differ(b.title, a.title, i)
                       /\ a.title[i] \in Nat /\ b.title[i] \in Nat
                       /\ TitleBefore(a, b) <=> a.title[i] < b.title[i]
<1>1. /\ a.title \in Seq(Nat) /\ b.title \in Seq(Nat)
      /\ Len(a.title) \in Nat /\ Len(b.title) \in Nat
  BY EntryFields
<1>2. CASE a.title = b.title
  BY <1>1, <1>2 DEF TitleBefore
<1>3. CASE a.title # b.title /\ ~IsPrefix(a.title, b.title) /\ ~IsPrefix(b.title, a.title)
  <2>1. PICK i : Differ(a.title, b.title, i)
    BY <1>1, <1>3, SomeDifference
  <2>2. Differ(b.title, a.title, i)
    BY <1>1, <2>1, OneDifference
  <2>3. a.title[i] \in Nat /\ b.title[i] \in Nat
    BY <1>1, <2>1, ElementOfSeq DEF Differ
  <2>4. ASSUME a.title[i] < b.title[i] PROVE TitleBefore(a, b)
    BY <1>1, <2>1, <2>4 DEF Differ, TitleBefore
  <2>5. ASSUME TitleBefore(a, b) PROVE a.title[i] < b.title[i]
    <3>1. PICK k \in 1..Len(a.title) :
            /\ k <= Len(b.title) /\ a.title[k] < b.title[k]
            /\ \A j \in 1..(k - 1) : a.title[j] = b.title[j]
      BY <1>3, <2>5 DEF TitleBefore
    <3>2. a.title[k] \in Nat /\ b.title[k] \in Nat
      BY <1>1, <3>1, ElementOfSeq
    <3>3. Differ(a.title, b.title, k)
      BY <1>1, <3>1, <3>2 DEF Differ
    <3>4. i = k
      BY <1>1, <2>1, <3>3, OneDifference
    <3> QED
      BY <3>1, <3>4
  <2> QED
    BY <1>3, <2>1, <2>2, <2>3, <2>4, <2>5
<1> QED
  BY <1>2, <1>3

(* A difference that fits is returned as it is. *)
LEMMA Fits ==
  ASSUME NEW n \in Int, n < Limit, -n < Limit
  PROVE Int25(n) = n
<1>1. Limit \in Nat /\ 2 * Limit = 33554432
  BY SMT DEF Limit
<1>2. Int25(n) = ((n + Limit) % (2 * Limit)) - Limit
  BY DEF Int25
<1> DEFINE m == n + Limit
<1>3. m \in Int /\ 0 <= m /\ m < 33554432 /\ m - Limit = n
  BY <1>1, SMT
<1> HIDE DEF m
<1>4. m % 33554432 = m
  BY <1>3, SMT
<1>5. Int25(n) = (m % 33554432) - Limit
  BY <1>1, <1>2, SMT DEF m
<1> QED
  BY <1>3, <1>4, <1>5, SMT

(* And so is the difference of two numbers that an int holds. *)
LEMMA NumbersDiffer ==
  ASSUME NEW x \in Nat, NEW y \in Nat, x <= IntMax, y <= IntMax
  PROVE Int32(x - y) = x - y
<1>1. IntMax \in Nat
  BY SMT DEF IntMax
<1>2. x - y \in (-IntMax)..IntMax
  BY <1>1, SMT
<1> QED
  BY <1>2, Zenon DEF Int32

(* The fields for which the time counts. *)
Timed == {"time", "name_time"}

(* A listing of which the properties say the order. *)
Ordered ==
  /\ arrived \in Seq(Entry)
  /\ \A i \in 1..Len(arrived) :
       MadeOf(arrived[i]) /\ (options.field \in Timed => arrived[i].mjd \in Days)
  /\ options.field \in Fields \ {"unsorted"}
  /\ Sortable

LEMMA CompareByTime ==
  ASSUME Ordered, options.field \in Timed,
         NEW i \in 1..Len(arrived), NEW j \in 1..Len(arrived),
         /\ 675 * (arrived[i].mjd - arrived[j].mjd) < Limit
         /\ 675 * (arrived[j].mjd - arrived[i].mjd) < Limit
  PROVE compare_by_time(Decoded(arrived[i]), Decoded(arrived[j]))
          = 675 * (arrived[i].mjd - arrived[j].mjd)
<1>1. /\ Decoded(arrived[i]).time = arrived[i].mjd - 15020
      /\ Decoded(arrived[j]).time = arrived[j].mjd - 15020
      /\ arrived[i].mjd \in Nat /\ arrived[j].mjd \in Nat
  <2>1. arrived[i] \in Entry /\ arrived[j] \in Entry
    BY ElementOfSeq DEF Ordered
  <2> QED
    <3>1. arrived[i].mjd \in Days /\ arrived[j].mjd \in Days
      BY DEF Ordered
    <3> QED
      BY <2>1, <3>1, TimeOfDay, EntryFields
<1> DEFINE d == arrived[i].mjd - arrived[j].mjd
<1>2. d \in Int /\ 675 * d < Limit /\ -(675 * d) < Limit
  BY <1>1
<1>3. Decoded(arrived[i]).time - Decoded(arrived[j]).time = d
  <2> DEFINE t == Decoded(arrived[i]).time
             u == Decoded(arrived[j]).time
             x == arrived[i].mjd
             y == arrived[j].mjd
  <2>2. t = x - 15020 /\ u = y - 15020 /\ x \in Nat /\ y \in Nat
    BY <1>1, SMT
  <2> HIDE DEF t, u, x, y
  <2>3. t - u = x - y
    BY <2>2, SMT
  <2> QED
    BY <2>3 DEF t, u, x, y
<1> HIDE DEF d
<1>4. Int25(675 * d) = 675 * d
  BY <1>2, Fits
<1>5. compare_by_time(Decoded(arrived[i]), Decoded(arrived[j])) = Int25(675 * d)
  BY <1>3 DEF compare_by_time
<1> QED
  BY <1>4, <1>5 DEF d

(* What decides between entries of the same title. *)
Second(secondary, a, b) ==
  IF secondary = "number" THEN a.number - b.number ELSE 675 * (a.mjd - b.mjd)

FieldOf(secondary) == IF secondary = "number" THEN "name" ELSE "name_time"

(* A result of comparing names: the first difference of the titles decides, *)
(* or the number or the time.                                               *)
TitlesDecide(secondary, a, b, c) ==
  /\ a.title = b.title => c = Second(secondary, a, b)
  /\ a.title # b.title => ~IsPrefix(a.title, b.title) /\ ~IsPrefix(b.title, a.title)
  /\ \A k : Differ(a.title, b.title, k) => c = a.title[k] - b.title[k]

LEMMA CompareByName ==
  ASSUME Ordered, NEW i \in 1..Len(arrived), NEW j \in 1..Len(arrived),
         NEW secondary \in {"number", "time"}, options.field = FieldOf(secondary),
         NEW a, a = arrived[i], NEW b, b = arrived[j],
         NEW c, c = compare_by_name_and(secondary, Decoded(a), Decoded(b))
  PROVE TitlesDecide(secondary, a, b, c)
<1>1. a \in Entry /\ b \in Entry /\ MadeOf(a) /\ MadeOf(b)
  BY ElementOfSeq DEF Ordered
<1>2. /\ IF a.title = b.title
         THEN options.field = "name" \/ 675 * (a.mjd - b.mjd) < Limit
         ELSE ~IsPrefix(a.title, b.title)
      /\ \A k \in 1..Len(a.title) : a.title[k] < 128 /\ a.title[k] \notin {Dash, Plus}
      /\ options.field = "name" => a.number <= IntMax
  <2>1. options.field \in {"name", "name_time"}
    BY DEF FieldOf
  <2>2. Comparable(a, b)
    BY Zenon DEF Ordered, Sortable
  <2> QED
    BY <2>1, <2>2 DEF Comparable
<1>3. /\ IF b.title = a.title
         THEN options.field = "name" \/ 675 * (b.mjd - a.mjd) < Limit
         ELSE ~IsPrefix(b.title, a.title)
      /\ \A k \in 1..Len(b.title) : b.title[k] < 128 /\ b.title[k] \notin {Dash, Plus}
      /\ options.field = "name" => b.number <= IntMax
  <2>1. options.field \in {"name", "name_time"}
    BY DEF FieldOf
  <2>2. Comparable(b, a)
    BY Zenon DEF Ordered, Sortable
  <2> QED
    BY <2>1, <2>2 DEF Comparable
<1>4. /\ extract_parts(a.name).len = Len(a.title)
      /\ a.number <= IntMax => extract_parts(a.name).number = a.number
      /\ extract_parts(b.name).len = Len(b.title)
      /\ b.number <= IntMax => extract_parts(b.name).number = b.number
  BY <1>1, <1>2, <1>3, Parsed, Zenon
<1> DEFINE name_cmp == strcmp_len(a.name, Len(a.title), b.name, Len(b.title))
<1>5. c = IF name_cmp # 0 THEN name_cmp
          ELSE IF secondary = "number"
               THEN Int32(extract_parts(a.name).number - extract_parts(b.name).number)
          ELSE compare_by_time(Decoded(a), Decoded(b))
  <2>1. Decoded(a).name = a.name /\ Decoded(b).name = b.name
    BY DEF Decoded
  <2> QED
    BY <1>4, <2>1, Zenon DEF compare_by_name_and
<1>6. /\ a.title = b.title => name_cmp = 0
      /\ \A k : Differ(a.title, b.title, k) =>
           name_cmp = Char(a.title[k]) - Char(b.title[k])
  BY <1>1, TitlesCompared, Zenon
<1> HIDE DEF name_cmp
<1>7. ASSUME a.title = b.title
      PROVE c = Second(secondary, a, b)
  <2>1. CASE secondary = "number"
    <3>1. a.number <= IntMax /\ b.number <= IntMax
      BY <1>2, <1>3, <2>1 DEF FieldOf
    <3>2. c = Int32(a.number - b.number)
      BY <1>4, <1>5, <1>6, <1>7, <2>1, <3>1, Zenon
    <3>3. a.number \in Nat /\ b.number \in Nat
      BY <1>1, EntryFields
    <3>4. Int32(a.number - b.number) = a.number - b.number
      BY <3>1, <3>3, NumbersDiffer
    <3> QED
      BY <2>1, <3>2, <3>4 DEF Second
  <2>2. CASE secondary = "time"
    <3>1. options.field = "name_time"
      BY <2>2 DEF FieldOf
    <3>2. /\ 675 * (a.mjd - b.mjd) < Limit
          /\ 675 * (b.mjd - a.mjd) < Limit
      BY <1>2, <1>3, <1>7, <3>1
    <3>3. compare_by_time(Decoded(a), Decoded(b)) = 675 * (a.mjd - b.mjd)
      BY <3>1, <3>2, CompareByTime DEF Timed
    <3> QED
      BY <1>5, <1>6, <1>7, <2>2, <3>3 DEF Second
  <2> QED
    BY <2>1, <2>2
<1>8. ASSUME NEW k, Differ(a.title, b.title, k)
      PROVE c = a.title[k] - b.title[k]
  <2>1. name_cmp = Char(a.title[k]) - Char(b.title[k])
    BY <1>6, <1>8
  <2>2. a.title[k] \in Nat /\ b.title[k] \in Nat /\ a.title[k] # b.title[k]
    <3>1. a.title \in Seq(Nat) /\ b.title \in Seq(Nat)
      BY <1>1, EntryFields
    <3>2. /\ k \in 1..Len(a.title) /\ k \in 1..Len(b.title)
          /\ a.title[k] # b.title[k]
      BY <1>8, <3>1 DEF Differ
    <3> QED
      BY <3>1, <3>2, ElementOfSeq
  <2>3. Char(a.title[k]) = a.title[k] /\ Char(b.title[k]) = b.title[k]
    <3>1. k \in 1..Len(a.title) /\ k \in 1..Len(b.title)
      BY <1>1, <1>8, EntryFields DEF Differ
    <3> QED
      BY <1>2, <1>3, <2>2, <3>1 DEF Char
  <2>4. name_cmp = a.title[k] - b.title[k] /\ name_cmp # 0
    BY <2>1, <2>2, <2>3
  <2> QED
    BY <1>5, <2>4
<1> QED
  <2>1. a.title # b.title => ~IsPrefix(a.title, b.title) /\ ~IsPrefix(b.title, a.title)
    BY <1>2, <1>3
  <2> QED
    BY <1>7, <1>8, <2>1 DEF TitlesDecide

(* What the comparator of names says is the order of titles and numbers or times. *)
LEMMA NameSays ==
  ASSUME Ordered, NEW i \in 1..Len(arrived), NEW j \in 1..Len(arrived),
         NEW secondary \in {"number", "time"}, options.field = FieldOf(secondary),
         NEW a, a = arrived[i], NEW b, b = arrived[j],
         NEW c, c = compare_by_name_and(secondary, Decoded(a), Decoded(b))
  PROVE c \in Int /\ (c < 0 <=> Before(a, b)) /\ (c > 0 <=> Before(b, a))
<1>1. a \in Entry /\ b \in Entry
  BY ElementOfSeq DEF Ordered
<1>2. a.number \in Nat /\ b.number \in Nat /\ a.mjd \in Nat /\ b.mjd \in Nat
  BY <1>1, EntryFields
<1>3. /\ a.title = b.title => c = Second(secondary, a, b)
      /\ a.title # b.title => ~IsPrefix(a.title, b.title) /\ ~IsPrefix(b.title, a.title)
      /\ \A k : Differ(a.title, b.title, k) => c = a.title[k] - b.title[k]
  <2>1. TitlesDecide(secondary, a, b, c)
    BY CompareByName, Zenon
  <2> QED
    BY <2>1 DEF TitlesDecide
<1> DEFINE Then(x, y) == IF secondary = "number" THEN x.number < y.number ELSE x.mjd < y.mjd
<1>4. /\ Before(a, b) <=> TitleBefore(a, b) \/ (a.title = b.title /\ Then(a, b))
      /\ Before(b, a) <=> TitleBefore(b, a) \/ (a.title = b.title /\ Then(b, a))
  BY DEF Before, FieldOf
<1>5. CASE a.title = b.title
  <2>1. ~TitleBefore(a, b) /\ ~TitleBefore(b, a)
    BY <1>1, <1>5, TitleOrder
  <2>2. CASE secondary = "number"
    BY <1>2, <1>3, <1>4, <1>5, <2>1, <2>2 DEF Second
  <2>3. CASE secondary = "time"
    <3>1. c = 675 * (a.mjd - b.mjd)
      BY <1>3, <1>5, <2>3 DEF Second
    <3>2. Before(a, b) <=> a.mjd < b.mjd
      BY <1>4, <1>5, <2>1, <2>3
    <3>3. Before(b, a) <=> b.mjd < a.mjd
      BY <1>4, <1>5, <2>1, <2>3
    <3> QED
      BY <1>2, <3>1, <3>2, <3>3
  <2> QED
    BY <2>2, <2>3
<1>6. CASE a.title # b.title
  <2>1. PICK k : /\ Differ(a.title, b.title, k) /\ Differ(b.title, a.title, k)
                 /\ a.title[k] \in Nat /\ b.title[k] \in Nat
                 /\ TitleBefore(a, b) <=> a.title[k] < b.title[k]
    BY <1>1, <1>3, <1>6, TitleOrder
  <2>2. PICK l : /\ Differ(b.title, a.title, l)
                 /\ TitleBefore(b, a) <=> b.title[l] < a.title[l]
    BY <1>1, <1>3, <1>6, TitleOrder
  <2>3. k = l
    BY <1>1, <2>1, <2>2, OneDifference, EntryFields
  <2>4. c = a.title[k] - b.title[k]
    BY <1>3, <2>1
  <2>5. /\ Before(a, b) <=> TitleBefore(a, b)
        /\ Before(b, a) <=> TitleBefore(b, a)
    BY <1>4, <1>6
  <2> QED
    BY <2>1, <2>2, <2>3, <2>4, <2>5
<1> QED
  BY <1>5, <1>6

(***************************************************************************)
(* What the comparator of a field says of two elements is how the entries  *)
(* they were decoded from stand in the order asked for.                    *)
(***************************************************************************)
LEMMA ComparatorSays ==
  ASSUME Ordered, NEW i \in 1..Len(arrived), NEW j \in 1..Len(arrived),
         NEW c, c = comparator(options.field, Decoded(arrived[i]), Decoded(arrived[j]))
  PROVE /\ c \in Int
        /\ c < 0 <=> Before(arrived[i], arrived[j])
        /\ c > 0 <=> Before(arrived[j], arrived[i])
<1> DEFINE a == arrived[i]
           b == arrived[j]
<1>1. a \in Entry /\ b \in Entry
  BY ElementOfSeq DEF Ordered
<1>2. /\ a.mjd \in Nat /\ b.mjd \in Nat /\ a.size \in Nat /\ b.size \in Nat
  BY <1>1, EntryFields
<1>3. Comparable(a, b) /\ Comparable(b, a)
  BY Zenon DEF Ordered, Sortable
<1>4. CASE options.field = "name"
  <2>1. c = compare_by_name_and("number", Decoded(a), Decoded(b))
    BY <1>4 DEF comparator, compare_by_name
  <2> QED
    BY <1>4, <2>1, NameSays DEF FieldOf
<1>5. CASE options.field = "name_time"
  <2>1. c = compare_by_name_and("time", Decoded(a), Decoded(b))
    BY <1>5 DEF comparator, compare_by_name_time
  <2> QED
    BY <1>5, <2>1, NameSays DEF FieldOf
<1>6. CASE options.field = "time"
  <2>1. c = compare_by_time(Decoded(a), Decoded(b))
    BY <1>6 DEF comparator
  <2>2. /\ 675 * (a.mjd - b.mjd) < Limit
        /\ 675 * (b.mjd - a.mjd) < Limit
    BY <1>3, <1>6 DEF Comparable
  <2>3. c = 675 * (a.mjd - b.mjd)
    BY <1>6, <2>1, <2>2, CompareByTime DEF Timed
  <2>4. (Before(a, b) <=> a.mjd < b.mjd) /\ (Before(b, a) <=> b.mjd < a.mjd)
    BY <1>6 DEF Before
  <2> HIDE DEF a, b
  <2>5. c \in Int /\ (c < 0 <=> a.mjd < b.mjd) /\ (c > 0 <=> b.mjd < a.mjd)
    BY <1>2, <2>3
  <2> QED
    BY <2>4, <2>5 DEF a, b
<1>7. CASE options.field = "size"
  <2>1. c = compare_by_size(Decoded(a), Decoded(b))
    BY <1>7 DEF comparator
  <2>2. a.size - b.size < Limit /\ b.size - a.size < Limit
    BY <1>3, <1>7 DEF Comparable
  <2>3. c = a.size - b.size
    <3>1. Decoded(a).size = a.size /\ Decoded(b).size = b.size
      BY DEF Decoded
    <3>2. c = Int25(a.size - b.size)
      BY <2>1, <3>1 DEF compare_by_size
    <3> HIDE DEF a, b
    <3>3. a.size - b.size \in Int /\ -(a.size - b.size) < Limit
      <4>1. -(a.size - b.size) = b.size - a.size
        BY <1>2
      <4> QED
        BY <1>2, <2>2, <4>1
    <3> QED
      BY <2>2, <3>2, <3>3, Fits
  <2>4. (Before(a, b) <=> a.size < b.size) /\ (Before(b, a) <=> b.size < a.size)
    BY <1>7 DEF Before
  <2> HIDE DEF a, b
  <2>5. c \in Int /\ (c < 0 <=> a.size < b.size) /\ (c > 0 <=> b.size < a.size)
    BY <1>2, <2>3
  <2> QED
    BY <2>4, <2>5 DEF a, b
<1>8. options.field \in {"name", "time", "size", "name_time"}
  BY DEF Ordered, Fields
<1> QED
  BY <1>4, <1>5, <1>6, <1>7, <1>8

(* What is not before another entry is not before what that one is before. *)
LEMMA TitlesFollow ==
  ASSUME NEW a \in Entry, NEW b \in Entry, NEW d \in Entry,
         \A x, y \in {a, b, d} : x.title # y.title => ~IsPrefix(x.title, y.title),
         TitleBefore(a, d)
  PROVE \/ TitleBefore(a, b) \/ TitleBefore(b, d)
<1>1. CASE a.title = b.title
  BY <1>1 DEF TitleBefore
<1>2. CASE b.title = d.title
  BY <1>2 DEF TitleBefore
<1>3. CASE a.title # b.title /\ b.title # d.title
  <2>1. a.title # d.title
    BY TitleOrder
  <2>2. PICK p : /\ Differ(a.title, d.title, p) /\ a.title[p] < d.title[p]
                 /\ a.title[p] \in Nat /\ d.title[p] \in Nat
    BY <2>1, TitleOrder
  <2>3. PICK q : /\ Differ(a.title, b.title, q)
                 /\ a.title[q] \in Nat /\ b.title[q] \in Nat
                 /\ TitleBefore(a, b) <=> a.title[q] < b.title[q]
    BY <1>3, TitleOrder
  <2>4. PICK r : /\ Differ(b.title, d.title, r)
                 /\ b.title[r] \in Nat /\ d.title[r] \in Nat
                 /\ TitleBefore(b, d) <=> b.title[r] < d.title[r]
    BY <1>3, TitleOrder
  <2>5. /\ p \in Nat \ {0} /\ q \in Nat \ {0} /\ r \in Nat \ {0}
        /\ p <= Len(a.title) /\ q <= Len(a.title) /\ p <= Len(d.title)
        /\ Len(a.title) \in Nat /\ Len(d.title) \in Nat
        /\ \A k \in 1..(p - 1) : a.title[k] = d.title[k]
        /\ \A k \in 1..(q - 1) : a.title[k] = b.title[k]
        /\ \A k \in 1..(r - 1) : b.title[k] = d.title[k]
        /\ a.title[q] # b.title[q] /\ b.title[r] # d.title[r]
    <3>1. /\ p \in Nat \ {0} /\ p <= Len(a.title) /\ p <= Len(d.title)
          /\ \A k \in 1..(p - 1) : a.title[k] = d.title[k]
      BY <2>2, Zenon DEF Differ
    <3>2. /\ q \in Nat \ {0} /\ q <= Len(a.title) /\ a.title[q] # b.title[q]
          /\ \A k \in 1..(q - 1) : a.title[k] = b.title[k]
      BY <2>3, Zenon DEF Differ
    <3>3. /\ r \in Nat \ {0} /\ b.title[r] # d.title[r]
          /\ \A k \in 1..(r - 1) : b.title[k] = d.title[k]
      BY <2>4, Zenon DEF Differ
    <3>4. Len(a.title) \in Nat /\ Len(d.title) \in Nat
      BY EntryFields, LenProperties
    <3> QED
      BY <3>1, <3>2, <3>3, <3>4
  <2>6. CASE q < r
    <3>1. b.title[q] = d.title[q] /\ \A k \in 1..(q - 1) : a.title[k] = d.title[k]
      BY <2>5, <2>6
    <3>2. q = p
      <4>1. ~(q < p)
        BY <2>5, <3>1
      <4>2. ~(p < q)
        BY <2>2, <2>5, <3>1
      <4> QED
        BY <2>5, <4>1, <4>2
    <3> QED
      BY <2>2, <2>3, <3>1, <3>2
  <2>7. CASE r < q
    <3>1. a.title[r] = b.title[r] /\ \A k \in 1..(r - 1) : a.title[k] = d.title[k]
      BY <2>5, <2>7
    <3>2. r = p
      <4>1. ~(r < p)
        BY <2>5, <3>1
      <4>2. ~(p < r)
        BY <2>2, <2>5, <3>1
      <4> QED
        BY <2>5, <4>1, <4>2
    <3> QED
      BY <2>2, <2>4, <3>1, <3>2
  <2>8. CASE q = r
    <3>1. \A k \in 1..(q - 1) : a.title[k] = d.title[k]
      BY <2>5, <2>8
    <3>2. ~(p < q)
      BY <2>2, <2>5, <3>1
    <3>3. CASE p = q
      BY <2>2, <2>3, <2>4, <2>8, <3>3
    <3>4. CASE q < p
      <4>1. a.title[q] = d.title[q]
        BY <2>5, <3>4
      <4> QED
        BY <2>3, <2>4, <2>5, <2>8, <4>1
    <3> QED
      BY <2>5, <3>2, <3>3, <3>4
  <2> QED
    BY <2>5, <2>6, <2>7, <2>8
<1> QED
  BY <1>1, <1>2, <1>3

(* Of the order of a listing: who stands between two entries stands after *)
(* the one or before the other.                                           *)
LEMMA OrderIsWeak ==
  ASSUME Ordered, NEW i \in 1..Len(arrived), NEW j \in 1..Len(arrived),
         NEW k \in 1..Len(arrived), Before(arrived[i], arrived[k])
  PROVE Before(arrived[i], arrived[j]) \/ Before(arrived[j], arrived[k])
<1> DEFINE a == arrived[i]
           b == arrived[j]
           d == arrived[k]
<1>1. a \in Entry /\ b \in Entry /\ d \in Entry
  BY ElementOfSeq DEF Ordered
<1>2. /\ a.mjd \in Nat /\ b.mjd \in Nat /\ d.mjd \in Nat
      /\ a.size \in Nat /\ b.size \in Nat /\ d.size \in Nat
      /\ a.number \in Nat /\ b.number \in Nat /\ d.number \in Nat
  BY <1>1, EntryFields
<1>3. ASSUME options.field \in {"name", "name_time"}
      PROVE \A x, y \in {a, b, d} : x.title # y.title => ~IsPrefix(x.title, y.title)
  <2>1. \A x, y \in {a, b, d} : Comparable(x, y)
    BY Zenon DEF Ordered, Sortable
  <2> HIDE DEF a, b, d
  <2> QED
    BY <1>3, <2>1 DEF Comparable
<1>4. Before(a, d)
  OBVIOUS
<1>5. CASE options.field = "time"
  <2> HIDE DEF a, b, d
  <2> QED
    BY <1>2, <1>4, <1>5 DEF Before, a, b, d
<1>6. CASE options.field = "size"
  <2> HIDE DEF a, b, d
  <2> QED
    BY <1>2, <1>4, <1>6 DEF Before, a, b, d
<1>7. CASE options.field \in {"name", "name_time"}
  <2> HIDE DEF a, b, d
  <2> DEFINE Then(x, y) ==
               IF options.field = "name" THEN x.number < y.number ELSE x.mjd < y.mjd
  <2>1. \A x, y : Before(x, y) <=> TitleBefore(x, y) \/ (x.title = y.title /\ Then(x, y))
    BY <1>7 DEF Before
  <2>2. CASE TitleBefore(a, d)
    <3>1. TitleBefore(a, b) \/ TitleBefore(b, d)
      BY <1>1, <1>3, <1>7, <2>2, TitlesFollow
    <3> QED
      BY <2>1, <3>1 DEF a, b, d
  <2>3. CASE a.title = d.title /\ Then(a, d)
    <3>1. CASE b.title = a.title
      <4>1. Then(a, b) \/ Then(b, d)
        <5>1. CASE options.field = "name"
          BY <1>2, <2>3, <5>1
        <5>2. CASE options.field # "name"
          BY <1>2, <2>3, <5>2
        <5> QED
          BY <5>1, <5>2
      <4> QED
        BY <2>1, <2>3, <3>1, <4>1 DEF a, b, d
    <3>2. CASE b.title # a.title
      <4>0. ~IsPrefix(a.title, b.title) /\ ~IsPrefix(b.title, a.title)
        BY <1>3, <1>7, <3>2
      <4>1. PICK m : /\ Differ(a.title, b.title, m)
                     /\ a.title[m] \in Nat /\ b.title[m] \in Nat
                     /\ TitleBefore(a, b) <=> a.title[m] < b.title[m]
        BY <1>1, <3>2, <4>0, TitleOrder
      <4>2. PICK n : /\ Differ(b.title, a.title, n)
                     /\ TitleBefore(b, a) <=> b.title[n] < a.title[n]
        BY <1>1, <3>2, <4>0, TitleOrder
      <4>3. m = n
        BY <1>1, <4>1, <4>2, OneDifference, EntryFields
      <4>4. a.title[m] # b.title[m]
        BY <4>1 DEF Differ
      <4>5. TitleBefore(a, b) \/ TitleBefore(b, a)
        BY <4>1, <4>2, <4>3, <4>4
      <4>6. TitleBefore(b, a) => TitleBefore(b, d)
        BY <2>3 DEF TitleBefore
      <4> QED
        BY <2>1, <4>5, <4>6 DEF a, b, d
    <3> QED
      BY <3>1, <3>2
  <2> QED
    BY <1>4, <2>1, <2>2, <2>3
<1>8. options.field \in {"name", "time", "size", "name_time"}
  BY DEF Ordered, Fields
<1> QED
  BY <1>5, <1>6, <1>7, <1>8

(* So the comparator does not contradict itself, and qsort sorts. *)
LEMMA SortableIsConsistent ==
  ASSUME Ordered, NEW s, Len(s) = Len(arrived),
         \A i \in 1..Len(arrived) : s[i] = Decoded(arrived[i])
  PROVE Consistent(s, options.field)
<1>1. SUFFICES ASSUME NEW i \in 1..Len(arrived), NEW j \in 1..Len(arrived),
                      NEW k \in 1..Len(arrived)
      PROVE /\ comparator(options.field, s[i], s[j]) <= 0
               /\ comparator(options.field, s[j], s[k]) <= 0
                 => comparator(options.field, s[i], s[k]) <= 0
            /\ comparator(options.field, s[i], s[j]) < 0
                 <=> comparator(options.field, s[j], s[i]) > 0
  BY Zenon DEF Consistent
<1> DEFINE C(x, y) == comparator(options.field, s[x], s[y])
<1>2. ASSUME NEW x \in 1..Len(arrived), NEW y \in 1..Len(arrived)
      PROVE /\ C(x, y) \in Int
            /\ C(x, y) < 0 <=> Before(arrived[x], arrived[y])
            /\ C(x, y) > 0 <=> Before(arrived[y], arrived[x])
  <2>1. C(x, y) = comparator(options.field, Decoded(arrived[x]), Decoded(arrived[y]))
    BY Zenon
  <2> QED
    BY <2>1, ComparatorSays
<1>3. Before(arrived[k], arrived[i]) =>
        Before(arrived[k], arrived[j]) \/ Before(arrived[j], arrived[i])
  BY OrderIsWeak
<1> HIDE DEF C
<1>4. C(i, j) <= 0 /\ C(j, k) <= 0 => C(i, k) <= 0
  BY <1>2, <1>3
<1>5. C(i, j) < 0 <=> C(j, i) > 0
  BY <1>2
<1> QED
  BY <1>4, <1>5 DEF C

-----------------------------------------------------------------------------
(* What an element can be: an entry, the terminator, or not yet written to. *)
Blanks == [name : {<<>>, <<1>>}, time : {0}, size : {0}]

Stored == {Decoded(e) : e \in Entry} \cup Blanks

Steps == {"list", "end", "count", "sort", "print", "exit", "astray"}

(* The entries decoded are in the buffer's first elements. *)
Decodings ==
  /\ incoming \in Seq(Entry) /\ Len(incoming) <= Len(arrived)
  /\ \A i \in 1..Len(incoming) :
       incoming[i] = arrived[Len(arrived) - Len(incoming) + i]
  /\ \A i \in 1..(Len(arrived) - Len(incoming)) : data[i] = Decoded(arrived[i])

(* The buffer has room for what is counted, which is one element for each *)
(* entry decoded and then the terminator's, to which nothing is written   *)
(* before it is copied.                                                   *)
Room ==
  /\ allocated_els \in Nat \ {0}
  /\ cur_els = Len(arrived) - Len(incoming) + (IF step = "list" THEN 0 ELSE 1)
  /\ cur_els <= allocated_els
  /\ data \in Seq(Stored) /\ Len(data) = allocated_els
  /\ step \in {"list", "end"} =>
       \A i \in 1..Len(data) : i > Len(arrived) - Len(incoming) => data[i] = Uninitialised

(* The copy is one element longer than the listing, and main keeps to it. *)
Copied ==
  /\ entries \in Seq(Stored)
  /\ step \notin {"list", "end"} => Len(entries) = Len(arrived) + 1
  /\ step = "count" => entries[Len(arrived) + 1] = Uninitialised
  /\ num_entries \in Nat
  /\ step \in {"sort", "print", "exit"} => num_entries <= Len(entries)
  /\ step = "astray" => memory = "junk"

BufferInv ==
  /\ \E l \in Listings : arrived = l.listing
  /\ arrived \in Seq(Entry)
  /\ step \in Steps
  /\ step # "list" => incoming = <<>>
  /\ memory \in {"zero", "junk"}
  /\ Decodings /\ Room /\ Copied

(* A listing is a sequence of entries. *)
LEMMA ListingTypes ==
  ASSUME NEW l \in Listings
  PROVE l.listing \in Seq(Entry)
BY PuppyDirAssumption

(* The terminator and memory not written to are elements of the buffer. *)
LEMMA StoredElements ==
  /\ Terminator \in Stored
  /\ Uninitialised \in Stored
<1>1. Terminator \in Blanks
  BY DEF Terminator, Blanks
<1>2. Uninitialised \in Blanks
  BY DEF Uninitialised, Blanks
<1> QED
  BY <1>1, <1>2, Zenon DEF Stored

(* Memory just allocated has nothing written to it. *)
LEMMA AllocatedElements ==
  ASSUME NEW n \in Nat
  PROVE /\ Allocated(n) \in Seq(Stored) /\ Len(Allocated(n)) = n
        /\ \A i \in 1..n : Allocated(n)[i] = Uninitialised
<1>1. Uninitialised \in Stored
  BY StoredElements
<1> QED
  BY <1>1 DEF Allocated

(***************************************************************************)
(* What realloc returns has the new size, what was there before, and       *)
(* nothing written behind it; and what is counted has room in it.          *)
(***************************************************************************)
LEMMA Growth ==
  ASSUME BufferInv, buffer_add, memory' = memory
  PROVE /\ cur_els' = cur_els + 1
        /\ allocated_els' \in Nat \ {0} /\ cur_els' <= allocated_els'
        /\ Realloced \in Seq(Stored) /\ Len(Realloced) = allocated_els'
        /\ \A i \in 1..Len(data) : Realloced[i] = data[i]
        /\ \A i \in 1..Len(Realloced) : i > Len(data) => Realloced[i] = Uninitialised
<1>1. /\ allocated_els \in Nat \ {0} /\ cur_els \in Nat /\ cur_els <= allocated_els
      /\ data \in Seq(Stored) /\ Len(data) = allocated_els
  <2>1. Len(arrived) \in Nat /\ Len(incoming) \in Nat /\ Len(incoming) <= Len(arrived)
    BY DEF BufferInv, Decodings
  <2>2. /\ allocated_els \in Nat \ {0} /\ cur_els <= allocated_els
        /\ cur_els = Len(arrived) - Len(incoming) + (IF step = "list" THEN 0 ELSE 1)
        /\ data \in Seq(Stored) /\ Len(data) = allocated_els
    BY DEF BufferInv, Room
  <2> QED
    BY <2>1, <2>2
<1>2. CASE cur_els >= allocated_els
  <2>1. allocated_els' = 2 * allocated_els /\ cur_els' = cur_els + 1
    BY <1>2 DEF buffer_add
  <2>2. allocated_els' # allocated_els /\ allocated_els' - allocated_els = allocated_els
    BY <1>1, <2>1
  <2>3. Realloced = data \o Allocated(allocated_els)
    BY <2>2 DEF Realloced
  <2>4. /\ Allocated(allocated_els) \in Seq(Stored) /\ Len(Allocated(allocated_els)) = allocated_els
        /\ \A i \in 1..allocated_els : Allocated(allocated_els)[i] = Uninitialised
    BY <1>1, AllocatedElements
  <2> DEFINE more == Allocated(allocated_els)
  <2>5. more \in Seq(Stored) /\ Len(more) = allocated_els /\ Realloced = data \o more
    BY <2>3, <2>4
  <2>6. \A i \in 1..allocated_els : more[i] = Uninitialised
    BY <2>4
  <2> HIDE DEF more
  <2>7. data \in Seq(Stored) /\ Len(data) = allocated_els /\ allocated_els \in Nat
    BY <1>1
  <2>8. /\ data \o more \in Seq(Stored) /\ Len(data \o more) = Len(data) + Len(more)
        /\ \A i \in 1..(Len(data) + Len(more)) :
             (data \o more)[i] = IF i <= Len(data) THEN data[i] ELSE more[i - Len(data)]
    BY <2>5, <2>7, ConcatProperties, Zenon
  <2>9. /\ Realloced \in Seq(Stored) /\ Len(Realloced) = 2 * allocated_els
        /\ \A i \in 1..(2 * allocated_els) :
             Realloced[i] = IF i <= allocated_els THEN data[i] ELSE more[i - allocated_els]
    BY <2>5, <2>7, <2>8
  <2>10. ASSUME NEW i \in 1..Len(Realloced), i > Len(data)
         PROVE Realloced[i] = Uninitialised
    <3>1. Realloced[i] = more[i - allocated_els] /\ i - allocated_els \in 1..allocated_els
      BY <2>7, <2>9, <2>10
    <3> QED
      BY <2>6, <3>1
  <2> QED
    BY <1>1, <1>2, <2>1, <2>9, <2>10
<1>3. CASE ~(cur_els >= allocated_els)
  <2>1. allocated_els' = allocated_els /\ cur_els' = cur_els + 1
    BY <1>3 DEF buffer_add
  <2>2. Realloced = data
    BY <2>1 DEF Realloced
  <2> QED
    BY <1>1, <1>3, <2>1, <2>2
<1> QED
  BY <1>2, <1>3

(* The state after buffer_init. *)
LEMMA BufferInit == Init => BufferInv
<1> SUFFICES ASSUME Init PROVE BufferInv
  OBVIOUS
<1>1. PICK l \in Listings : incoming = l.listing /\ arrived = l.listing
  BY DEF Init
<1>2. l.listing \in Seq(Entry)
  BY ListingTypes
<1>3. /\ allocated_els \in Nat \ {0} /\ cur_els = 0 /\ data = Allocated(allocated_els)
      /\ step = "list" /\ entries = <<>> /\ num_entries = 0 /\ memory \in {"zero", "junk"}
  BY PuppyDirAssumption DEF Init
<1>4. /\ data \in Seq(Stored) /\ Len(data) = allocated_els
      /\ \A i \in 1..allocated_els : data[i] = Uninitialised
  BY <1>3, AllocatedElements
<1>5. Decodings
  BY <1>1, <1>2 DEF Decodings
<1>6. Room
  BY <1>1, <1>2, <1>3, <1>4 DEF Room
<1>7. Copied
  BY <1>3, EmptySeq DEF Copied
<1> QED
  BY <1>1, <1>2, <1>3, <1>5, <1>6, <1>7 DEF BufferInv, Steps

(* Whatever qsort makes of the entries, it has as many. *)
LEMMA SortKeepsLength ==
  ASSUME NEW s \in Seq(Stored), NEW field, NEW t \in sort_dir_entries(s, field)
  PROVE t \in Seq(Stored) /\ Len(t) = Len(s)
<1>1. CASE t = s
  BY <1>1
<1>2. CASE t \in Permuted(s)
  <2>1. PICK p \in Bijection(1..Len(s), 1..Len(s)) : t = [i \in 1..Len(s) |-> s[p[i]]]
    BY <1>2 DEF Permuted
  <2>2. p \in [1..Len(s) -> 1..Len(s)]
    BY <2>1, Zenon DEF Bijection, Injection
  <2> QED
    BY <2>1, <2>2
<1> QED
  BY <1>1, <1>2, Zenon DEF sort_dir_entries

(* An entry goes into the element behind those decoded before it. *)
LEMMA DecodeEntryKeeps ==
  ASSUME BufferInv, DecodeEntry
  PROVE BufferInv'
<1> DEFINE n == Len(arrived) - Len(incoming)
           e == Head(incoming)
<1>1. /\ step = "list" /\ incoming # <<>> /\ incoming' = Tail(incoming)
      /\ data' = [Realloced EXCEPT ![cur_els'] = Decoded(e)]
      /\ step' = step /\ memory' = memory /\ arrived' = arrived
      /\ entries' = entries /\ num_entries' = num_entries
  BY DEF DecodeEntry, mainVars
<1>2. /\ arrived \in Seq(Entry) /\ incoming \in Seq(Entry) /\ Len(incoming) <= Len(arrived)
      /\ \A i \in 1..Len(incoming) : incoming[i] = arrived[n + i]
      /\ \A i \in 1..n : data[i] = Decoded(arrived[i])
      /\ Len(data) = allocated_els /\ allocated_els \in Nat /\ cur_els = n /\ n <= Len(data)
  BY <1>1 DEF BufferInv, Decodings, Room
<1>3. /\ Tail(incoming) \in Seq(Entry) /\ Len(Tail(incoming)) = Len(incoming) - 1
      /\ \A i \in 1..(Len(incoming) - 1) : Tail(incoming)[i] = incoming[i + 1]
      /\ e = incoming[1] /\ Len(incoming) >= 1 /\ e \in Entry
  BY <1>1, <1>2, HeadTailProperties
<1>4. /\ cur_els' = cur_els + 1
      /\ allocated_els' \in Nat \ {0} /\ cur_els' <= allocated_els'
      /\ Realloced \in Seq(Stored) /\ Len(Realloced) = allocated_els'
      /\ \A i \in 1..Len(data) : Realloced[i] = data[i]
      /\ \A i \in 1..Len(Realloced) : i > Len(data) => Realloced[i] = Uninitialised
  BY <1>1, Growth DEF DecodeEntry
<1>5. Decoded(e) \in Stored
  BY <1>3, Zenon DEF Stored
<1>6. Len(arrived') - Len(incoming') = n + 1 /\ e = arrived[n + 1] /\ n \in Nat
  <2>1. Len(incoming) \in Nat /\ Len(arrived) \in Nat
    BY <1>2
  <2>2. n \in Nat /\ Len(arrived') - Len(incoming') = n + 1
    BY <1>1, <1>2, <1>3, <2>1
  <2>3. 1 \in 1..Len(incoming)
    BY <1>3, <2>1
  <2>4. incoming[1] = arrived[n + 1]
    BY <1>2, <2>3, Zenon
  <2> QED
    BY <1>3, <2>2, <2>4
<1>7. /\ data' \in Seq(Stored) /\ Len(data') = allocated_els'
      /\ \A i \in 1..Len(data') : i # n + 1 => data'[i] = Realloced[i]
      /\ data'[n + 1] = Decoded(arrived[n + 1])
  <2> HIDE DEF n, e
  <2>1. n + 1 \in 1..Len(Realloced) /\ cur_els' = n + 1
    BY <1>2, <1>4, <1>6
  <2>2. data' = [Realloced EXCEPT ![n + 1] = Decoded(e)]
    BY <1>1, <2>1
  <2> QED
    BY <1>4, <1>5, <1>6, <2>1, <2>2
<1>8. Uninitialised' = Uninitialised
  BY <1>1 DEF Uninitialised
<1>9. Decodings'
  <2>1. ASSUME NEW i \in 1..Len(incoming')
        PROVE incoming'[i] = arrived'[Len(arrived') - Len(incoming') + i]
    <3>1. i \in 1..(Len(incoming) - 1) /\ incoming'[i] = incoming[i + 1] /\ i + 1 \in 1..Len(incoming)
      BY <1>1, <1>2, <1>3, <2>1
    <3>2. incoming[i + 1] = arrived[n + (i + 1)]
      BY <1>2, <3>1, Zenon
    <3>3. n + (i + 1) = n + 1 + i
      BY <1>6, <3>1
    <3> QED
      BY <1>1, <1>6, <3>1, <3>2, <3>3
  <2>2. ASSUME NEW i \in 1..(Len(arrived') - Len(incoming'))
        PROVE data'[i] = (Decoded(arrived[i]))'
    <3>1. i \in 1..(n + 1)
      BY <1>6, <2>2
    <3>2. (Decoded(arrived[i]))' = Decoded(arrived[i])
      BY <1>1 DEF Decoded
    <3>3. CASE i \in 1..n
      <4>1. data[i] = Decoded(arrived[i])
        BY <1>2, <3>3
      <4>2. i \in 1..Len(data) /\ i # n + 1 /\ i \in 1..Len(data')
        BY <1>2, <1>4, <1>6, <1>7, <3>3
      <4>3. data'[i] = data[i]
        BY <1>4, <1>7, <4>2
      <4> QED
        BY <3>2, <4>1, <4>3
    <3>4. CASE i = n + 1
      BY <1>7, <3>2, <3>4
    <3> QED
      BY <1>6, <3>1, <3>3, <3>4
  <2>3. incoming' \in Seq(Entry) /\ Len(incoming') <= Len(arrived')
    BY <1>1, <1>2, <1>3
  <2> QED
    BY <2>1, <2>2, <2>3 DEF Decodings
<1>10. Room'
  <2>1. ASSUME NEW i \in 1..Len(data'), i > n + 1
        PROVE data'[i] = Uninitialised
    <3>1. data'[i] = Realloced[i] /\ i \in 1..Len(Realloced) /\ i > n
      BY <1>4, <1>6, <1>7, <2>1
    <3>2. CASE i > Len(data)
      BY <1>4, <3>1, <3>2
    <3>3. CASE i <= Len(data)
      <4>1. i \in 1..Len(data)
        BY <2>1, <3>3, <1>2, <1>4, <1>7
      <4>2. data[i] = Uninitialised
        BY <1>1, <3>1, <4>1 DEF BufferInv, Room
      <4> QED
        BY <1>4, <3>1, <4>1, <4>2
    <3> QED
      BY <1>2, <3>2, <3>3
  <2>2. cur_els' = Len(arrived') - Len(incoming') + (IF step' = "list" THEN 0 ELSE 1)
    BY <1>1, <1>2, <1>4, <1>6
  <2> QED
    BY <1>4, <1>6, <1>7, <1>8, <2>1, <2>2 DEF Room
<1>11. Copied'
  <2>1. Copied
    BY DEF BufferInv
  <2> QED
    BY <1>1, <2>1 DEF Copied
<1> QED
  BY <1>1, <1>9, <1>10, <1>11 DEF BufferInv

(* The terminator gets an element, and nothing is written to it yet. *)
LEMMA AddTerminatorKeeps ==
  ASSUME BufferInv, AddTerminator
  PROVE BufferInv'
<1>1. /\ step = "list" /\ step' = "end" /\ incoming = <<>> /\ incoming' = incoming
      /\ data' = Realloced /\ memory' = memory /\ arrived' = arrived
      /\ entries' = entries /\ num_entries' = num_entries
  BY DEF AddTerminator, mainVars
<1>2. /\ arrived \in Seq(Entry) /\ Len(incoming) = 0 /\ incoming \in Seq(Entry)
      /\ \A i \in 1..Len(arrived) : data[i] = Decoded(arrived[i])
      /\ Len(data) = allocated_els /\ allocated_els \in Nat /\ cur_els = Len(arrived)
      /\ Len(arrived) <= Len(data) /\ Len(arrived) \in Nat
  BY <1>1, EmptySeq DEF BufferInv, Decodings, Room
<1>3. /\ cur_els' = cur_els + 1
      /\ allocated_els' \in Nat \ {0} /\ cur_els' <= allocated_els'
      /\ Realloced \in Seq(Stored) /\ Len(Realloced) = allocated_els'
      /\ \A i \in 1..Len(data) : Realloced[i] = data[i]
      /\ \A i \in 1..Len(Realloced) : i > Len(data) => Realloced[i] = Uninitialised
  BY <1>1, Growth DEF AddTerminator
<1>4. Uninitialised' = Uninitialised
  BY <1>1 DEF Uninitialised
<1>5. Decodings'
  <2>1. ASSUME NEW i \in 1..(Len(arrived') - Len(incoming'))
        PROVE data'[i] = (Decoded(arrived[i]))'
    <3>1. i \in 1..Len(arrived) /\ i \in 1..Len(data)
      BY <1>1, <1>2, <2>1
    <3>2. (Decoded(arrived[i]))' = Decoded(arrived[i])
      BY <1>1 DEF Decoded
    <3> QED
      BY <1>1, <1>2, <1>3, <3>1, <3>2
  <2>2. incoming' \in Seq(Entry) /\ Len(incoming') = 0
    BY <1>1, <1>2
  <2> QED
    BY <1>1, <1>2, <2>1, <2>2 DEF Decodings
<1>6. Room'
  <2>1. ASSUME NEW i \in 1..Len(data'), i > Len(arrived)
        PROVE data'[i] = Uninitialised
    <3>1. CASE i > Len(data)
      BY <1>1, <1>3, <2>1, <3>1
    <3>2. CASE i <= Len(data)
      <4>1. i \in 1..Len(data) /\ i > Len(arrived) - Len(incoming)
        BY <1>2, <1>3, <1>1, <2>1, <3>2
      <4>2. data[i] = Uninitialised
        BY <1>1, <4>1 DEF BufferInv, Room
      <4> QED
        BY <1>1, <1>3, <4>1, <4>2
    <3> QED
      BY <1>2, <3>1, <3>2
  <2> QED
    BY <1>1, <1>2, <1>3, <1>4, <2>1 DEF Room
<1>7. Copied'
  <2>1. Copied
    BY DEF BufferInv
  <2> QED
    BY <1>1, <2>1 DEF Copied
<1> QED
  BY <1>1, <1>2, <1>5, <1>6, <1>7 DEF BufferInv, Steps

(***************************************************************************)
(* The terminator goes into the element behind the entries, and the copy   *)
(* has what that element was before.                                       *)
(***************************************************************************)
LEMMA DupValuesKeeps ==
  ASSUME BufferInv, DupValues
  PROVE BufferInv'
<1>1. /\ step = "end" /\ step' = "count" /\ entries' = SubSeq(data, 1, cur_els)
      /\ data' = [data EXCEPT ![cur_els] = Terminator]
      /\ incoming' = incoming /\ memory' = memory /\ arrived' = arrived
      /\ cur_els' = cur_els /\ allocated_els' = allocated_els /\ num_entries' = num_entries
  BY DEF DupValues
<1>2. /\ arrived \in Seq(Entry) /\ incoming = <<>> /\ Len(incoming) = 0
      /\ \A i \in 1..Len(arrived) : data[i] = Decoded(arrived[i])
      /\ data \in Seq(Stored) /\ Len(data) = allocated_els /\ allocated_els \in Nat \ {0}
      /\ cur_els = Len(arrived) + 1 /\ cur_els <= Len(data) /\ Len(arrived) \in Nat
      /\ \A i \in 1..Len(data) : i > Len(arrived) => data[i] = Uninitialised
  BY <1>1, EmptySeq DEF BufferInv, Decodings, Room
<1>3. Terminator \in Stored
  BY StoredElements
<1>4. /\ data' \in Seq(Stored) /\ Len(data') = Len(data)
      /\ \A i \in 1..Len(data) : i # cur_els => data'[i] = data[i]
  BY <1>1, <1>2, <1>3
<1>5. /\ entries' \in Seq(Stored) /\ Len(entries') = Len(arrived) + 1
      /\ entries'[Len(arrived) + 1] = Uninitialised
  <2>1. entries' \in Seq(Stored) /\ Len(entries') = cur_els
        /\ \A i \in 1..cur_els : entries'[i] = data[i]
    BY <1>1, <1>2, SubSeqProperties, SMTT(30)
  <2> QED
    BY <1>2, <2>1
<1>6. Uninitialised' = Uninitialised
  BY <1>1 DEF Uninitialised
<1>7. Decodings'
  <2>1. ASSUME NEW i \in 1..(Len(arrived') - Len(incoming'))
        PROVE data'[i] = (Decoded(arrived[i]))'
    <3>1. i \in 1..Len(arrived) /\ i \in 1..Len(data) /\ i # cur_els
      BY <1>1, <1>2, <2>1
    <3>2. (Decoded(arrived[i]))' = Decoded(arrived[i])
      BY <1>1 DEF Decoded
    <3> QED
      BY <1>2, <1>4, <3>1, <3>2
  <2> QED
    BY <1>1, <1>2, <2>1, EmptySeq DEF Decodings
<1>8. Room'
  BY <1>1, <1>2, <1>4 DEF Room
<1>9. Copied'
  <2>1. num_entries \in Nat
    BY DEF BufferInv, Copied
  <2> QED
    BY <1>1, <1>5, <1>6, <2>1 DEF Copied
<1> QED
  BY <1>1, <1>2, <1>7, <1>8, <1>9 DEF BufferInv, Steps

(* What main does leaves the buffer alone. *)
LEMMA MainKeepsBuffer ==
  ASSUME BufferInv, step \notin {"list", "end"}, step' \in Steps \ {"list", "end"},
         incoming' = incoming, bufVars' = bufVars, arrived' = arrived, Copied'
  PROVE BufferInv'
<1>1. /\ memory' = memory /\ data' = data /\ cur_els' = cur_els
      /\ allocated_els' = allocated_els
  BY DEF bufVars
<1>2. Decodings'
  <2>1. \A i : (Decoded(arrived[i]))' = Decoded(arrived[i])
    BY DEF Decoded
  <2>2. Decodings
    BY DEF BufferInv
  <2> QED
    BY <1>1, <2>1, <2>2 DEF Decodings
<1>3. Room'
  <2>1. Room
    BY DEF BufferInv
  <2> QED
    BY <1>1, <2>1 DEF Room
<1> QED
  BY <1>1, <1>2, <1>3 DEF BufferInv

(***************************************************************************)
(* The loop in main stops in the copy unless the copy's last element,      *)
(* never written to, reads as a name.                                      *)
(***************************************************************************)
LEMMA CountKeeps ==
  ASSUME BufferInv, Count
  PROVE BufferInv'
<1>1. /\ step = "count" /\ step' \in {"sort", "astray"} /\ entries' = entries
      /\ incoming' = incoming /\ bufVars' = bufVars /\ arrived' = arrived
  BY DEF Count
<1>2. /\ entries \in Seq(Stored) /\ Len(entries) = Len(arrived) + 1 /\ num_entries \in Nat
      /\ entries[Len(arrived) + 1] = Uninitialised /\ Len(arrived) \in Nat
  BY <1>1 DEF BufferInv, Copied
<1>3. CASE step' = "sort"
  <2>1. PICK n \in 0..(Len(entries) - 1) : num_entries' = n
    BY <1>3 DEF Count
  <2>2. num_entries' \in Nat /\ num_entries' <= Len(entries)
    BY <1>2, <2>1
  <2>3. Copied'
    BY <1>1, <1>2, <1>3, <2>2 DEF Copied
  <2> QED
    BY <1>1, <1>3, <2>3, MainKeepsBuffer DEF Steps
<1>4. CASE step' = "astray"
  <2>1. (\A i \in 1..Len(entries) : Named(i)) /\ num_entries' = num_entries
    BY <1>4 DEF Count
  <2>2. Named(Len(arrived) + 1)
    BY <1>2, <2>1
  <2>3. Uninitialised.name # <<>>
    BY <1>2, <2>2 DEF Named
  <2>4. memory # "zero"
    BY <2>3 DEF Uninitialised
  <2>5. memory' = "junk"
    BY <1>1, <2>4 DEF BufferInv, bufVars
  <2>6. Copied'
    BY <1>1, <1>2, <1>4, <2>1, <2>5 DEF Copied
  <2> QED
    BY <1>1, <1>4, <2>6, MainKeepsBuffer DEF Steps
<1> QED
  BY <1>1, <1>3, <1>4

(* Sorting the entries counted leaves the copy as long as it was. *)
LEMMA SortKeeps ==
  ASSUME BufferInv, Sort
  PROVE BufferInv'
<1>1. /\ step = "sort" /\ step' = "print" /\ num_entries' = num_entries
      /\ incoming' = incoming /\ bufVars' = bufVars /\ arrived' = arrived
  BY DEF Sort
<1>2. /\ entries \in Seq(Stored) /\ Len(entries) = Len(arrived) + 1 /\ num_entries \in Nat
      /\ num_entries <= Len(entries) /\ Len(arrived) \in Nat
  BY <1>1 DEF BufferInv, Copied
<1> DEFINE first == SubSeq(entries, 1, num_entries)
           rest == SubSeq(entries, num_entries + 1, Len(entries))
<1>3. PICK s \in sort_dir_entries(first, options.field) : entries' = s \o rest
  BY DEF Sort
<1>4. first \in Seq(Stored) /\ Len(first) = num_entries
  BY <1>2, SubSeqProperties, SMTT(30)
<1>5. rest \in Seq(Stored) /\ Len(rest) = Len(entries) - num_entries
  BY <1>2, SubSeqProperties, SMTT(30)
<1>6. s \in Seq(Stored) /\ Len(s) = num_entries
  BY <1>3, <1>4, SortKeepsLength
<1> HIDE DEF first, rest
<1>7. entries' \in Seq(Stored) /\ Len(entries') = Len(entries)
  <2>1. s \o rest \in Seq(Stored) /\ Len(s \o rest) = Len(s) + Len(rest)
    BY <1>5, <1>6, ConcatProperties, Zenon
  <2> QED
    BY <1>2, <1>3, <1>5, <1>6, <2>1
<1>8. Copied'
  BY <1>1, <1>2, <1>7 DEF Copied
<1> QED
  BY <1>1, <1>8, MainKeepsBuffer DEF Steps

(* Printing changes nothing that the invariant is about. *)
LEMMA PrintEntryKeeps ==
  ASSUME BufferInv, PrintEntry
  PROVE BufferInv'
<1>1. /\ step = "print" /\ step' = step /\ entries' = entries /\ num_entries' = num_entries
      /\ incoming' = incoming /\ bufVars' = bufVars /\ arrived' = arrived
  BY DEF PrintEntry
<1>2. Copied'
  BY <1>1 DEF BufferInv, Copied, bufVars
<1> QED
  BY <1>1, <1>2, MainKeepsBuffer DEF Steps

LEMMA PrintDoneKeeps ==
  ASSUME BufferInv, PrintDone
  PROVE BufferInv'
<1>1. /\ step = "print" /\ step' = "exit" /\ entries' = entries /\ num_entries' = num_entries
      /\ incoming' = incoming /\ bufVars' = bufVars /\ arrived' = arrived
  BY DEF PrintDone, mainVars
<1>2. Copied'
  BY <1>1 DEF BufferInv, Copied
<1> QED
  BY <1>1, <1>2, MainKeepsBuffer DEF Steps

(***************************************************************************)
(* The invariant holds for every listing and every initial size of the     *)
(* buffer.                                                                 *)
(***************************************************************************)
THEOREM BufferSpec == Spec => []BufferInv
<1>1. Init => BufferInv
  BY BufferInit
<1>2. BufferInv /\ [Next]_vars => BufferInv'
  <2> SUFFICES ASSUME BufferInv, [Next]_vars PROVE BufferInv'
    OBVIOUS
  <2>1. CASE DecodeEntry
    BY <2>1, DecodeEntryKeeps
  <2>2. CASE AddTerminator
    BY <2>2, AddTerminatorKeeps
  <2>3. CASE DupValues
    BY <2>3, DupValuesKeeps
  <2>4. CASE Count
    BY <2>4, CountKeeps
  <2>5. CASE Sort
    BY <2>5, SortKeeps
  <2>6. CASE PrintEntry
    BY <2>6, PrintEntryKeeps
  <2>7. CASE PrintDone
    BY <2>7, PrintDoneKeeps
  <2>8. CASE UNCHANGED vars
    <3>1. Decodings' <=> Decodings
      BY <2>8 DEF vars, bufVars, Decodings, Decoded
    <3> QED
      BY <2>8, <3>1 DEF vars, bufVars, mainVars, BufferInv, Room, Copied, Uninitialised
  <2> QED
    BY <2>1, <2>2, <2>3, <2>4, <2>5, <2>6, <2>7, <2>8 DEF Next
<1> QED
  BY <1>1, <1>2, PTL DEF Spec

(***************************************************************************)
(* BufferHolds: the elements counted have room in the live allocation and  *)
(* are the entries decoded so far, however often buffer_add moved them;    *)
(* the copy puppy_hdd_dir returns is one element longer.                   *)
(***************************************************************************)
THEOREM BufferKeepsEntries == Spec => []BufferHolds
<1>1. BufferInv => BufferHolds
  <2> SUFFICES ASSUME BufferInv PROVE BufferHolds
    OBVIOUS
  <2>1. /\ arrived \in Seq(Entry) /\ Len(incoming) \in Nat /\ Len(incoming) <= Len(arrived)
        /\ Len(arrived) \in Nat
        /\ \A i \in 1..(Len(arrived) - Len(incoming)) : data[i] = Decoded(arrived[i])
    BY DEF BufferInv, Decodings
  <2>2. Len(Collected) = Len(arrived) - Len(incoming)
    BY <2>1, SubSeqProperties, SMTT(30) DEF Collected
  <2>3. /\ cur_els <= allocated_els /\ Len(data) = allocated_els
        /\ step = "list" => cur_els = Len(arrived) - Len(incoming)
    <3>1. cur_els = Len(arrived) - Len(incoming) + (IF step = "list" THEN 0 ELSE 1)
      BY DEF BufferInv, Room
    <3>2. cur_els <= allocated_els /\ Len(data) = allocated_els
      BY DEF BufferInv, Room
    <3> QED
      BY <2>1, <3>1, <3>2
  <2>4. ASSUME NEW i \in 1..Len(Collected)
        PROVE data[i].name = arrived[i].name /\ data[i].size = arrived[i].size
    <3>1. data[i] = Decoded(arrived[i])
      BY <2>1, <2>2, <2>4
    <3> QED
      BY <3>1, DecodedFields
  <2>5. step \notin {"list", "end"} => Len(entries) = Len(arrived) + 1
    BY DEF BufferInv, Copied
  <2> QED
    BY <2>2, <2>3, <2>4, <2>5 DEF BufferHolds
<1> QED
  BY <1>1, BufferSpec, PTL

(***************************************************************************)
(* The first part of ListingShown: main reads past the copy only when the  *)
(* terminator that was never copied reads as a name.                       *)
(***************************************************************************)
THEOREM AstrayOnJunk == Spec => [](step = "astray" => memory = "junk")
<1>1. BufferInv => (step = "astray" => memory = "junk")
  BY DEF BufferInv, Copied
<1> QED
  BY <1>1, BufferSpec, PTL

(***************************************************************************)
(* DatesKept: for every day from 1900-03-01 on that an entry can have, its *)
(* time is that day, by way of a date of the calendar, and the way back    *)
(* leads to the same 16 bits.                                              *)
(***************************************************************************)
THEOREM DatesAreKept ==
  ASSUME \A l \in Listings : \A i \in 1..Len(l.listing) : l.listing[i].mjd \in Days
  PROVE Spec => []DatesKept
<1>1. BufferInv => DatesKept
  <2> SUFFICES ASSUME BufferInv PROVE DatesKept
    OBVIOUS
  <2>1. /\ arrived \in Seq(Entry) /\ Len(incoming) \in Nat /\ Len(incoming) <= Len(arrived)
        /\ Len(arrived) \in Nat
        /\ \A i \in 1..(Len(arrived) - Len(incoming)) : data[i] = Decoded(arrived[i])
    BY DEF BufferInv, Decodings
  <2>2. Len(Collected) = Len(arrived) - Len(incoming)
    BY <2>1, SubSeqProperties, SMTT(30) DEF Collected
  <2>3. PICK l \in Listings : arrived = l.listing
    BY DEF BufferInv
  <2>4. ASSUME NEW i \in 1..Len(Collected)
        PROVE /\ data[i].time = arrived[i].mjd - 15020
              /\ Dates!IsDate(Dates!TfdtDate(arrived[i].mjd))
              /\ Dates!TimeToTfdt(Dates!TfdtDate(arrived[i].mjd)) = arrived[i].mjd
    <3>1. data[i] = Decoded(arrived[i]) /\ i \in 1..Len(arrived)
      BY <2>1, <2>2, <2>4
    <3>2. arrived[i].mjd \in Days
      BY <2>3, <3>1
    <3>3. data[i].time = Dates!mktime(Dates!TfdtDate(arrived[i].mjd))
      BY <3>1, DecodedFields DEF Dates!tfdt_to_time
    <3> QED
      BY <3>2, <3>3, DateOfDay
  <2> QED
    BY <2>4 DEF DatesKept
<1> QED
  BY <1>1, BufferSpec, PTL

-----------------------------------------------------------------------------
(* Where the time counts, the days are ones that the device's calendar has. *)
CalendarDays ==
  \A l \in Listings : l.field \in Timed =>
    \A i \in 1..Len(l.listing) : l.listing[i].mjd \in Days

(* The places of a listing in another order, the one asked for if there is *)
(* one, and the copy's elements in it.                                     *)
AsAsked(p) ==
  CalendarDays /\ Sortable =>
    \A i, j \in 1..Len(arrived) : i < j => ~Before(arrived[p[j]], arrived[p[i]])

Sorted(p) ==
  /\ \A i \in 1..Len(arrived) : entries[i] = Decoded(arrived[p[i]])
  /\ AsAsked(p)

(* Where the lines printed come from: the places of the matching elements, *)
(* one after the other.                                                    *)
Matching(q) ==
  /\ \A k \in 1..Len(printed) :
       printed[k] = entries[q[k]] /\ entries[q[k]].name \in options.glob
  /\ \A k, l \in 1..Len(printed) : k < l => q[k] < q[l]
  /\ \A i \in 1..shown : entries[i].name \in options.glob =>
       \E k \in 1..Len(printed) : q[k] = i

Given ==
  \E l \in Listings : arrived = l.listing /\ options = [field |-> l.field, glob |-> l.glob]

Handed ==
  step \in {"count", "sort"} => \A i \in 1..Len(arrived) : entries[i] = Decoded(arrived[i])

Counted == step \in {"sort", "print", "exit"} => num_entries = Len(arrived)

Arranged ==
  step \in {"print", "exit"} =>
    \E p \in Bijection(1..Len(arrived), 1..Len(arrived)) : Sorted(p)

Printed ==
  /\ step \in {"list", "end", "count", "sort"} => shown = 0 /\ printed = <<>>
  /\ printed \in Seq(Stored) /\ shown \in Nat
  /\ step \in {"print", "exit"} =>
       /\ shown <= num_entries
       /\ \E q \in [1..Len(printed) -> 1..shown] : Matching(q)
  /\ step = "exit" => shown = num_entries

ListingInv == BufferInv /\ Given /\ Handed /\ Counted /\ Arranged /\ Printed

(* The entries of what is given have different names, and every one a name. *)
LEMMA DifferentNames ==
  ASSUME Given
  PROVE /\ \A i \in 1..Len(arrived) : MadeOf(arrived[i]) /\ arrived[i].name # <<>>
        /\ \A i, j \in 1..Len(arrived) : arrived[i].name = arrived[j].name => i = j
<1>1. PICK l \in Listings : arrived = l.listing
  BY DEF Given
<1>2. /\ \A i \in 1..Len(l.listing) : MadeOf(l.listing[i])
      /\ \A i, j \in 1..Len(l.listing) : l.listing[i].name = l.listing[j].name => i = j
  BY NamesAssumption, Zenon
<1>3. \A e : MadeOf(e) => e.name # <<>>
  BY Zenon DEF MadeOf
<1> QED
  BY <1>1, <1>2, <1>3, Zenon

LEMMA OptionsGiven ==
  ASSUME Given
  PROVE options.field \in Fields
<1>1. PICK l \in Listings : options = [field |-> l.field, glob |-> l.glob]
  BY DEF Given
<1>2. l.field \in Fields
  BY PuppyDirAssumption
<1> QED
  BY <1>1, <1>2

LEMMA ListingInit == Init => ListingInv
<1> SUFFICES ASSUME Init PROVE ListingInv
  OBVIOUS
<1>1. BufferInv
  BY BufferInit
<1>2. Given
  BY DEF Init, Given
<1>3. step = "list" /\ shown = 0 /\ printed = <<>>
  BY DEF Init
<1> QED
  BY <1>1, <1>2, <1>3, EmptySeq DEF ListingInv, Handed, Counted, Arranged, Printed

(* Until main counts nothing of this has begun. *)
LEMMA ListingKeeps ==
  ASSUME ListingInv, BufferInv', step' \in {"list", "end"},
         step \in {"list", "end"}, mainVars' = mainVars, arrived' = arrived
  PROVE ListingInv'
<1>1. /\ options' = options /\ shown' = shown /\ printed' = printed
  BY DEF mainVars
<1>2. Given'
  BY <1>1 DEF ListingInv, Given
<1>3. Printed'
  BY <1>1 DEF ListingInv, Printed
<1> QED
  BY <1>2, <1>3 DEF ListingInv, Handed, Counted, Arranged

LEMMA DupValuesLists ==
  ASSUME ListingInv, DupValues
  PROVE ListingInv'
<1>1. /\ step = "end" /\ step' = "count" /\ entries' = SubSeq(data, 1, cur_els)
      /\ arrived' = arrived /\ options' = options /\ shown' = shown /\ printed' = printed
  BY DEF DupValues
<1>2. BufferInv'
  BY DupValuesKeeps DEF ListingInv
<1>3. /\ arrived \in Seq(Entry) /\ Len(arrived) \in Nat
      /\ \A i \in 1..Len(arrived) : data[i] = Decoded(arrived[i])
      /\ data \in Seq(Stored) /\ cur_els = Len(arrived) + 1 /\ cur_els <= Len(data)
  BY <1>1, EmptySeq DEF ListingInv, BufferInv, Decodings, Room
<1>4. Handed'
  <2>1. \A i \in 1..cur_els : SubSeq(data, 1, cur_els)[i] = data[i]
    BY <1>3, SubSeqProperties, SMTT(30)
  <2>2. \A i \in 1..Len(arrived) : entries'[i] = Decoded(arrived[i])
    BY <1>1, <1>3, <2>1
  <2>3. \A i : (Decoded(arrived[i]))' = Decoded(arrived[i])
    BY <1>1 DEF Decoded
  <2> QED
    BY <1>1, <2>2, <2>3 DEF Handed
<1>5. Given'
  BY <1>1 DEF ListingInv, Given
<1>6. Printed'
  BY <1>1 DEF ListingInv, Printed
<1> QED
  BY <1>1, <1>2, <1>4, <1>5, <1>6 DEF ListingInv, Counted, Arranged

(* Every entry has a name and what is behind them has none: main counts the *)
(* entries.                                                                 *)
LEMMA CountLists ==
  ASSUME ListingInv, Count
  PROVE ListingInv'
<1>1. /\ step = "count" /\ step' \in {"sort", "astray"} /\ entries' = entries
      /\ arrived' = arrived /\ options' = options /\ shown' = shown /\ printed' = printed
  BY DEF Count
<1>2. BufferInv'
  BY CountKeeps DEF ListingInv
<1>3. /\ Len(arrived) \in Nat /\ Len(entries) = Len(arrived) + 1
      /\ \A i \in 1..Len(arrived) : entries[i] = Decoded(arrived[i])
  BY <1>1 DEF ListingInv, BufferInv, Copied, Handed
<1>4. Counted'
  <2> SUFFICES ASSUME step' = "sort" PROVE num_entries' = Len(arrived)
    BY <1>1 DEF Counted
  <2>1. PICK n \in 0..(Len(entries) - 1) : num_entries' = n /\ ~Named(n + 1)
    BY DEF Count
  <2>2. \A i \in 1..Len(arrived) : Named(i)
    <3>1. \A i \in 1..Len(arrived) : arrived[i].name # <<>>
      BY DifferentNames DEF ListingInv
    <3>2. \A i \in 1..Len(arrived) : entries[i].name = arrived[i].name
      BY <1>3, DecodedFields
    <3> QED
      BY <3>1, <3>2 DEF Named
  <2>3. ~(n < Len(arrived))
    BY <1>3, <2>1, <2>2
  <2> QED
    BY <1>3, <2>1, <2>3
<1>5. Handed'
  <2>1. \A i : (Decoded(arrived[i]))' = Decoded(arrived[i])
    BY <1>1 DEF Decoded
  <2> QED
    BY <1>1, <1>3, <2>1 DEF Handed
<1>6. Given'
  BY <1>1 DEF ListingInv, Given
<1>7. Printed'
  BY <1>1 DEF ListingInv, Printed
<1> QED
  BY <1>1, <1>2, <1>4, <1>5, <1>6, <1>7 DEF ListingInv, Arranged

(* Without a field to sort by, the order is the one of arrival. *)
LEMMA UnsortedAsked ==
  ASSUME ListingInv, options.field = "unsorted"
  PROVE AsAsked([i \in 1..Len(arrived) |-> i])
<1>1. ASSUME NEW i \in 1..Len(arrived) PROVE Place(arrived[i]) = i
  <2>1. \A k \in 1..Len(arrived) : arrived[k] = arrived[i] => k = i
    BY DifferentNames DEF ListingInv
  <2> QED
    BY <2>1 DEF Place
<1>2. ASSUME NEW i \in 1..Len(arrived), NEW j \in 1..Len(arrived), i < j
      PROVE ~Before(arrived[j], arrived[i])
  <2>1. Place(arrived[i]) = i /\ Place(arrived[j]) = j
    BY <1>1
  <2>2. Before(arrived[j], arrived[i]) <=> Place(arrived[j]) < Place(arrived[i])
    BY DEF Before
  <2> QED
    BY <1>2, <2>1, <2>2
<1> QED
  BY <1>2 DEF AsAsked

(***************************************************************************)
(* What sort_dir_entries may make of the decoded entries is them in some   *)
(* order, the one asked for if the listing can be sorted.                  *)
(***************************************************************************)
LEMMA SortAsAsked ==
  ASSUME ListingInv, NEW s \in Seq(Stored), Len(s) = Len(arrived),
         \A i \in 1..Len(arrived) : s[i] = Decoded(arrived[i]),
         NEW t \in sort_dir_entries(s, options.field)
  PROVE \E p \in Bijection(1..Len(arrived), 1..Len(arrived)) :
          /\ \A i \in 1..Len(arrived) : t[i] = Decoded(arrived[p[i]])
          /\ AsAsked(p)
<1> DEFINE n == Len(arrived)
<1>1. n \in Nat /\ arrived \in Seq(Entry)
  BY DEF ListingInv, BufferInv
<1>2. CASE options.field = "unsorted"
  <2> DEFINE p == [i \in 1..n |-> i]
  <2>1. t = s
    BY <1>2 DEF sort_dir_entries
  <2>2. p \in Bijection(1..n, 1..n)
    BY DEF Bijection, Injection, Surjection, IsInjective
  <2>3. \A i \in 1..n : t[i] = Decoded(arrived[p[i]])
    BY <2>1
  <2>4. AsAsked(p)
    BY <1>2, UnsortedAsked
  <2> QED
    BY <2>2, <2>3, <2>4
<1>3. CASE options.field # "unsorted"
  <2>1. t \in Permuted(s)
    BY <1>3, Zenon DEF sort_dir_entries
  <2>2. PICK p \in Bijection(1..Len(s), 1..Len(s)) : t = [i \in 1..Len(s) |-> s[p[i]]]
    BY <2>1 DEF Permuted
  <2>3. p \in Bijection(1..n, 1..n) /\ t = [i \in 1..n |-> s[p[i]]]
    BY <2>2
  <2>4. p \in [1..n -> 1..n]
    BY <2>3, Zenon DEF Bijection, Injection
  <2>5. \A i \in 1..n : t[i] = Decoded(arrived[p[i]])
    BY <2>3, <2>4
  <2>6. ASSUME CalendarDays, Sortable, NEW i \in 1..n, NEW j \in 1..n, i < j
        PROVE ~Before(arrived[p[j]], arrived[p[i]])
    <3>1. Ordered
      <4>1. \A k \in 1..Len(arrived) :
              MadeOf(arrived[k]) /\ (options.field \in Timed => arrived[k].mjd \in Days)
        <5>1. PICK l \in Listings :
                arrived = l.listing /\ options = [field |-> l.field, glob |-> l.glob]
          BY DEF ListingInv, Given
        <5>2. options.field \in Timed => \A k \in 1..Len(arrived) : arrived[k].mjd \in Days
          BY <2>6, <5>1 DEF CalendarDays
        <5> QED
          BY <5>2, DifferentNames DEF ListingInv
      <4>2. options.field \in Fields \ {"unsorted"}
        BY <1>3, OptionsGiven DEF ListingInv
      <4> QED
        BY <1>1, <2>6, <4>1, <4>2 DEF Ordered
    <3>2. Consistent(s, options.field)
      BY <3>1, SortableIsConsistent
    <3>3. InOrder(t, options.field)
      BY <1>3, <3>2, Zenon DEF sort_dir_entries
    <3>4. Len(t) = n
      BY <1>1, <2>3
    <3>5. comparator(options.field, t[i], t[j]) <= 0
      BY <2>6, <3>3, <3>4 DEF InOrder
    <3>6. p[i] \in 1..Len(arrived) /\ p[j] \in 1..Len(arrived)
      BY <2>4
    <3> DEFINE c == comparator(options.field, Decoded(arrived[p[i]]), Decoded(arrived[p[j]]))
    <3>7. c \in Int /\ (c > 0 <=> Before(arrived[p[j]], arrived[p[i]]))
      BY <3>1, <3>6, ComparatorSays
    <3>8. c <= 0
      BY <2>5, <3>5
    <3> HIDE DEF c
    <3> QED
      BY <3>7, <3>8
  <2>7. AsAsked(p)
    BY <2>6 DEF AsAsked
  <2> QED
    BY <2>3, <2>5, <2>7
<1> QED
  BY <1>2, <1>3

(* The order asked for is a matter of what arrived and the options. *)
LEMMA AsAskedStays ==
  ASSUME arrived' = arrived, options' = options, NEW p, AsAsked(p)
  PROVE AsAsked(p)'
<1>1. \A x, y : Before(x, y)' <=> Before(x, y)
  BY DEF Before, TitleBefore, Place
<1>2. Sortable' <=> Sortable
  BY DEF Sortable, Comparable
<1> QED
  BY <1>1, <1>2 DEF AsAsked

LEMMA SortLists ==
  ASSUME ListingInv, Sort
  PROVE ListingInv'
<1>1. /\ step = "sort" /\ step' = "print" /\ num_entries' = num_entries
      /\ arrived' = arrived /\ options' = options /\ shown' = shown /\ printed' = printed
  BY DEF Sort
<1>2. BufferInv'
  BY SortKeeps DEF ListingInv
<1>3. /\ entries \in Seq(Stored) /\ Len(arrived) \in Nat /\ Len(entries) = Len(arrived) + 1
      /\ num_entries = Len(arrived) /\ shown = 0 /\ printed = <<>>
      /\ \A i \in 1..Len(arrived) : entries[i] = Decoded(arrived[i])
  BY <1>1 DEF ListingInv, BufferInv, Copied, Handed, Counted, Printed
<1> DEFINE first == SubSeq(entries, 1, num_entries)
           rest == SubSeq(entries, num_entries + 1, Len(entries))
<1>4. PICK s \in sort_dir_entries(first, options.field) : entries' = s \o rest
  BY DEF Sort
<1>5. /\ first \in Seq(Stored) /\ Len(first) = Len(arrived)
      /\ \A i \in 1..Len(arrived) : first[i] = entries[i]
  BY <1>3, SubSeqProperties, SMTT(30)
<1>6. rest \in Seq(Stored)
  BY <1>3, SubSeqProperties, SMTT(30)
<1> HIDE DEF first, rest
<1>7. s \in Seq(Stored) /\ Len(s) = Len(arrived)
  BY <1>4, <1>5, SortKeepsLength
<1>8. \A i \in 1..Len(arrived) : entries'[i] = s[i]
  <2>1. /\ Len(rest) \in Nat
        /\ \A i \in 1..(Len(s) + Len(rest)) :
             (s \o rest)[i] = IF i <= Len(s) THEN s[i] ELSE rest[i - Len(s)]
    BY <1>6, <1>7, ConcatProperties, Zenon, LenProperties
  <2> QED
    BY <1>3, <1>4, <1>7, <2>1
<1>9. \A i \in 1..Len(arrived) : first[i] = Decoded(arrived[i])
  BY <1>3, <1>5
<1>10. PICK p \in Bijection(1..Len(arrived), 1..Len(arrived)) :
          /\ \A i \in 1..Len(arrived) : s[i] = Decoded(arrived[p[i]])
          /\ AsAsked(p)
  BY <1>4, <1>5, <1>9, SortAsAsked
<1>11. Arranged'
  <2>1. \A i \in 1..Len(arrived) : entries'[i] = Decoded(arrived[p[i]])
    BY <1>8, <1>10
  <2>2. \A e : (Decoded(e))' = Decoded(e)
    BY DEF Decoded
  <2>3. AsAsked(p)'
    BY <1>1, <1>10, AsAskedStays
  <2>4. Sorted(p)'
    BY <1>1, <2>1, <2>2, <2>3 DEF Sorted
  <2> QED
    BY <1>1, <1>10, <2>4, Zenon DEF Arranged
<1>12. Printed'
  <2>1. [k \in 1..0 |-> 0] \in [1..Len(printed') -> 1..shown']
    BY <1>1, <1>3, EmptySeq
  <2>2. Matching([k \in 1..0 |-> 0])'
    BY <1>1, <1>3, EmptySeq DEF Matching
  <2>3. \E q \in [1..Len(printed') -> 1..shown'] : Matching(q)'
    BY <2>1, <2>2, Zenon
  <2> QED
    <3>1. step' = "print" /\ shown' = 0 /\ shown' <= num_entries' /\ printed' = <<>>
      BY <1>1, <1>3
    <3>2. printed' \in Seq(Stored) /\ shown' \in Nat
      BY <3>1, EmptySeq
    <3> QED
      BY <2>3, <3>1, <3>2 DEF Printed
<1>13. Given' /\ Handed' /\ Counted'
  BY <1>1, <1>3 DEF ListingInv, Given, Handed, Counted
<1> QED
  BY <1>2, <1>11, <1>12, <1>13 DEF ListingInv

(* An entry that matches goes behind those printed, and no other does. *)
LEMMA PrintEntryLists ==
  ASSUME ListingInv, PrintEntry
  PROVE ListingInv'
<1>1. /\ step = "print" /\ step' = step /\ shown < num_entries /\ shown' = shown + 1
      /\ entries' = entries /\ num_entries' = num_entries /\ arrived' = arrived
      /\ options' = options
      /\ printed' = IF entries[shown + 1].name \in options.glob
                    THEN Append(printed, entries[shown + 1]) ELSE printed
  BY DEF PrintEntry
<1>2. BufferInv'
  BY PrintEntryKeeps DEF ListingInv
<1>3. /\ entries \in Seq(Stored) /\ Len(entries) = Len(arrived) + 1 /\ Len(arrived) \in Nat
      /\ num_entries = Len(arrived) /\ printed \in Seq(Stored) /\ shown \in Nat
  BY <1>1 DEF ListingInv, BufferInv, Copied, Counted, Printed
<1>4. PICK q \in [1..Len(printed) -> 1..shown] : Matching(q)
  BY <1>1 DEF ListingInv, Printed
<1>5. entries[shown + 1] \in Stored
  BY <1>1, <1>3, ElementOfSeq
<1>6. /\ \A k \in 1..Len(printed) :
           printed[k] = entries[q[k]] /\ entries[q[k]].name \in options.glob
      /\ \A k, l \in 1..Len(printed) : k < l => q[k] < q[l]
      /\ \A i \in 1..shown : entries[i].name \in options.glob =>
           \E k \in 1..Len(printed) : q[k] = i
  BY <1>4 DEF Matching
<1>7. ASSUME entries[shown + 1].name \in options.glob
      PROVE Printed'
  <2>1. PICK m \in Nat : m = Len(printed)
    BY <1>3
  <2>2. /\ printed' \in Seq(Stored) /\ Len(printed') = m + 1
        /\ \A k \in 1..m : printed'[k] = printed[k]
        /\ printed'[m + 1] = entries[shown + 1]
    <3>1. printed' = Append(printed, entries[shown + 1])
      BY <1>1, <1>7
    <3> QED
      BY <1>3, <1>5, <2>1, <3>1, AppendProperties
  <2>3. PICK r : r = [k \in 1..(m + 1) |-> IF k = m + 1 THEN shown + 1 ELSE q[k]]
    OBVIOUS
  <2>4. /\ r \in [1..(m + 1) -> 1..(shown + 1)]
        /\ r[m + 1] = shown + 1 /\ \A k \in 1..m : r[k] = q[k] /\ q[k] \in 1..shown
    BY <1>3, <1>4, <2>1, <2>3
  <2>5. ASSUME NEW k \in 1..(m + 1)
        PROVE printed'[k] = entries[r[k]] /\ entries[r[k]].name \in options.glob
    <3>1. CASE k = m + 1
      BY <1>7, <2>2, <2>4, <3>1
    <3>2. CASE k \in 1..m
      BY <1>6, <2>2, <2>4, <3>2, <2>1
    <3> QED
      BY <2>1, <3>1, <3>2
  <2>6. ASSUME NEW k \in 1..(m + 1), NEW l \in 1..(m + 1), k < l
        PROVE r[k] < r[l]
    <3>1. k \in 1..m
      BY <2>1, <2>6
    <3>2. CASE l = m + 1
      BY <1>3, <2>4, <3>1, <3>2
    <3>3. CASE l \in 1..m
      BY <1>6, <2>4, <2>6, <3>1, <3>3, <2>1
    <3> QED
      BY <2>1, <3>2, <3>3
  <2>7. ASSUME NEW i \in 1..(shown + 1), entries[i].name \in options.glob
        PROVE \E k \in 1..(m + 1) : r[k] = i
    <3>1. CASE i = shown + 1
      BY <2>1, <2>4, <3>1
    <3>2. CASE i \in 1..shown
      <4>1. PICK k \in 1..m : q[k] = i
        BY <1>6, <2>7, <3>2, <2>1
      <4> QED
        BY <2>1, <2>4, <4>1
    <3> QED
      BY <1>3, <3>1, <3>2
  <2>8. Matching(r)'
    BY <1>1, <2>2, <2>5, <2>6, <2>7 DEF Matching
  <2>9. \E f \in [1..Len(printed') -> 1..shown'] : Matching(f)'
    <3>1. r \in [1..Len(printed') -> 1..shown']
      BY <1>1, <2>2, <2>4
    <3> QED
      BY <2>8, <3>1, Zenon
  <2> QED
    BY <1>1, <1>3, <2>2, <2>9 DEF Printed
<1>8. ASSUME entries[shown + 1].name \notin options.glob
      PROVE Printed'
  <2>1. printed' = printed
    BY <1>1, <1>8
  <2>2. q \in [1..Len(printed') -> 1..shown']
    BY <1>1, <1>3, <1>4, <2>1
  <2>3. Matching(q)'
    <3>1. ASSUME NEW i \in 1..(shown + 1), entries[i].name \in options.glob
          PROVE \E k \in 1..Len(printed) : q[k] = i
      <4>1. i \in 1..shown
        <5>1. i # shown + 1
          BY <1>8, <3>1, Zenon
        <5> QED
          BY <1>3, <5>1
      <4> QED
        BY <1>6, <3>1, <4>1
    <3> QED
      BY <1>1, <1>6, <2>1, <3>1 DEF Matching
  <2> QED
    BY <1>1, <1>3, <2>1, <2>2, <2>3 DEF Printed
<1>9. Given' /\ Handed' /\ Counted'
  BY <1>1, <1>3 DEF ListingInv, Given, Handed, Counted
<1>10. Arranged'
  <2>1. PICK p \in Bijection(1..Len(arrived), 1..Len(arrived)) : Sorted(p)
    BY <1>1 DEF ListingInv, Arranged
  <2>2. Sorted(p)'
    BY <1>1, <2>1, AsAskedStays DEF Sorted, Decoded
  <2> QED
    BY <1>1, <2>1, <2>2, Zenon DEF Arranged
<1> QED
  BY <1>2, <1>7, <1>8, <1>9, <1>10 DEF ListingInv

LEMMA PrintDoneLists ==
  ASSUME ListingInv, PrintDone
  PROVE ListingInv'
<1>1. /\ step = "print" /\ step' = "exit" /\ shown = num_entries /\ shown' = shown
      /\ entries' = entries /\ num_entries' = num_entries /\ arrived' = arrived
      /\ options' = options /\ printed' = printed
  BY DEF PrintDone, mainVars
<1>2. BufferInv'
  BY PrintDoneKeeps DEF ListingInv
<1>3. Printed'
  <2>1. PICK q \in [1..Len(printed) -> 1..shown] : Matching(q)
    BY <1>1 DEF ListingInv, Printed
  <2>2. Matching(q)'
    BY <1>1, <2>1 DEF Matching
  <2>3. \E f \in [1..Len(printed') -> 1..shown'] : Matching(f)'
    BY <1>1, <2>1, <2>2
  <2> QED
    BY <1>1, <2>3 DEF ListingInv, Printed
<1>4. Given' /\ Handed' /\ Counted'
  BY <1>1 DEF ListingInv, Given, Handed, Counted
<1>5. Arranged'
  <2>1. PICK p \in Bijection(1..Len(arrived), 1..Len(arrived)) : Sorted(p)
    BY <1>1 DEF ListingInv, Arranged
  <2>2. Sorted(p)'
    BY <1>1, <2>1, AsAskedStays DEF Sorted, Decoded
  <2> QED
    BY <1>1, <2>1, <2>2, Zenon DEF Arranged
<1> QED
  BY <1>2, <1>3, <1>4, <1>5 DEF ListingInv

(***************************************************************************)
(* The invariant holds for every listing, field and pattern.               *)
(***************************************************************************)
THEOREM ListingSpec == Spec => []ListingInv
<1>1. Init => ListingInv
  BY ListingInit
<1>2. ListingInv /\ [Next]_vars => ListingInv'
  <2> SUFFICES ASSUME ListingInv, [Next]_vars PROVE ListingInv'
    OBVIOUS
  <2>1. CASE DecodeEntry
    <3>1. step = "list" /\ step' = "list" /\ mainVars' = mainVars /\ arrived' = arrived
      BY <2>1 DEF DecodeEntry
    <3> QED
      BY <2>1, <3>1, DecodeEntryKeeps, ListingKeeps DEF ListingInv
  <2>2. CASE AddTerminator
    <3>1. step = "list" /\ step' = "end" /\ mainVars' = mainVars /\ arrived' = arrived
      BY <2>2 DEF AddTerminator
    <3> QED
      BY <2>2, <3>1, AddTerminatorKeeps, ListingKeeps DEF ListingInv
  <2>3. CASE DupValues
    BY <2>3, DupValuesLists
  <2>4. CASE Count
    BY <2>4, CountLists
  <2>5. CASE Sort
    BY <2>5, SortLists
  <2>6. CASE PrintEntry
    BY <2>6, PrintEntryLists
  <2>7. CASE PrintDone
    BY <2>7, PrintDoneLists
  <2>8. CASE UNCHANGED vars
    <3>1. /\ step' = step /\ arrived' = arrived /\ options' = options /\ entries' = entries
          /\ num_entries' = num_entries /\ shown' = shown /\ printed' = printed
      BY <2>8 DEF vars, mainVars
    <3>2. BufferInv'
      <4>1. Decodings' <=> Decodings
        BY <2>8 DEF vars, bufVars, Decodings, Decoded
      <4> QED
        BY <2>8, <4>1 DEF ListingInv, vars, bufVars, mainVars, BufferInv, Room, Copied,
                          Uninitialised
    <3>3. Given' /\ Counted'
      BY <3>1 DEF ListingInv, Given, Counted
    <3>4. Handed'
      BY <3>1 DEF ListingInv, Handed, Decoded
    <3>5. Printed'
      <4>1. \A q : Matching(q)' <=> Matching(q)
        BY <3>1 DEF Matching
      <4> QED
        BY <3>1, <4>1 DEF ListingInv, Printed
    <3>6. Arranged'
      <4>1. \A p : Sorted(p) => Sorted(p)'
        BY <3>1, AsAskedStays DEF Sorted, Decoded
      <4> QED
        BY <3>1, <4>1 DEF ListingInv, Arranged
    <3> QED
      BY <3>2, <3>3, <3>4, <3>5, <3>6 DEF ListingInv
  <2> QED
    BY <2>1, <2>2, <2>3, <2>4, <2>5, <2>6, <2>7, <2>8 DEF Next
<1> QED
  BY <1>1, <1>2, PTL DEF Spec

(***************************************************************************)
(* Of a line printed the entry: the copy's element that it was is, by the  *)
(* permutation, the entry of a place.                                      *)
(***************************************************************************)
LinePlaces(p, q) ==
  /\ p \in [1..Len(arrived) -> 1..Len(arrived)]
  /\ \A i, j \in 1..Len(arrived) : p[i] = p[j] => i = j
  /\ \A m \in 1..Len(arrived) : \E i \in 1..Len(arrived) : p[i] = m
  /\ \A i \in 1..Len(arrived) : entries[i].name = arrived[p[i]].name
  /\ q \in [1..Len(printed) -> 1..Len(arrived)]
  /\ \A k \in 1..Len(printed) :
       printed[k] = entries[q[k]] /\ entries[q[k]].name \in options.glob
  /\ \A k, l \in 1..Len(printed) : k < l => q[k] < q[l]
  /\ \A i \in 1..Len(arrived) : entries[i].name \in options.glob =>
       \E k \in 1..Len(printed) : q[k] = i

LEMMA LinesHavePlaces ==
  ASSUME ListingInv, step = "exit"
  PROVE \E p, q : AsAsked(p) /\ LinePlaces(p, q)
<1>1. PICK p \in Bijection(1..Len(arrived), 1..Len(arrived)) : Sorted(p)
  BY DEF ListingInv, Arranged
<1>2. PICK q \in [1..Len(printed) -> 1..Len(arrived)] : Matching(q)
  BY DEF ListingInv, Printed, Counted
<1>3. /\ p \in [1..Len(arrived) -> 1..Len(arrived)]
      /\ \A i, j \in 1..Len(arrived) : p[i] = p[j] => i = j
      /\ \A m \in 1..Len(arrived) : \E i \in 1..Len(arrived) : p[i] = m
  BY <1>1 DEF Bijection, Injection, Surjection, IsInjective
<1>4. \A i \in 1..Len(arrived) : entries[i].name = arrived[p[i]].name
  BY <1>1, DecodedFields DEF Sorted
<1>5. shown = Len(arrived)
  BY DEF ListingInv, Printed, Counted
<1>6. /\ \A k \in 1..Len(printed) :
           printed[k] = entries[q[k]] /\ entries[q[k]].name \in options.glob
      /\ \A k, l \in 1..Len(printed) : k < l => q[k] < q[l]
      /\ \A i \in 1..Len(arrived) : entries[i].name \in options.glob =>
           \E k \in 1..Len(printed) : q[k] = i
  BY <1>2, <1>5 DEF Matching
<1>7. LinePlaces(p, q)
  BY <1>2, <1>3, <1>4, <1>6 DEF LinePlaces
<1>8. AsAsked(p)
  BY <1>1 DEF Sorted
<1> QED
  BY <1>7, <1>8

(* Every matching entry is printed once, whatever the order. *)
OncePrinted ==
  \A e \in {arrived[i] : i \in 1..Len(arrived)} :
    Cardinality({i \in 1..Len(printed) : printed[i].name = e.name})
      = (IF e.name \in options.glob THEN 1 ELSE 0)

LEMMA LinesAreSingle ==
  ASSUME ListingInv, step = "exit"
  PROVE OncePrinted
<1>1. PICK p, q : LinePlaces(p, q)
  BY LinesHavePlaces
<1>2. /\ p \in [1..Len(arrived) -> 1..Len(arrived)]
      /\ \A i, j \in 1..Len(arrived) : p[i] = p[j] => i = j
      /\ \A m \in 1..Len(arrived) : \E i \in 1..Len(arrived) : p[i] = m
      /\ \A i \in 1..Len(arrived) : entries[i].name = arrived[p[i]].name
  BY <1>1 DEF LinePlaces
<1>3. /\ q \in [1..Len(printed) -> 1..Len(arrived)]
      /\ \A k \in 1..Len(printed) :
           printed[k] = entries[q[k]] /\ entries[q[k]].name \in options.glob
      /\ \A k, l \in 1..Len(printed) : k < l => q[k] < q[l]
      /\ \A i \in 1..Len(arrived) : entries[i].name \in options.glob =>
           \E k \in 1..Len(printed) : q[k] = i
  BY <1>1 DEF LinePlaces
<1>4. \A i, j \in 1..Len(arrived) : arrived[i].name = arrived[j].name => i = j
  BY DifferentNames DEF ListingInv
<1>5. Len(printed) \in Nat /\ Len(arrived) \in Nat
  BY DEF ListingInv, Printed, BufferInv
<1>6. ASSUME NEW e \in {arrived[i] : i \in 1..Len(arrived)}
      PROVE Cardinality({i \in 1..Len(printed) : printed[i].name = e.name})
              = (IF e.name \in options.glob THEN 1 ELSE 0)
  <2> DEFINE lines == {i \in 1..Len(printed) : printed[i].name = e.name}
  <2>1. PICK m \in 1..Len(arrived) : e = arrived[m]
    OBVIOUS
  <2>2. PICK k \in 1..Len(arrived) : p[k] = m
    BY <1>2
  <2>3. entries[k].name = e.name
    BY <1>2, <2>1, <2>2
  <2>4. ASSUME NEW i \in lines PROVE q[i] = k /\ e.name \in options.glob
    <3>1. /\ i \in 1..Len(printed) /\ printed[i].name = e.name /\ q[i] \in 1..Len(arrived)
          /\ printed[i] = entries[q[i]] /\ entries[q[i]].name \in options.glob
      BY <1>3
    <3>2. arrived[p[q[i]]].name = arrived[m].name
      BY <1>2, <2>1, <3>1
    <3>3. p[q[i]] = m
      <4>1. p[q[i]] \in 1..Len(arrived)
        BY <1>2, <3>1
      <4> QED
        BY <1>4, <3>2, <4>1, Zenon
    <3> QED
      BY <1>2, <2>2, <3>1, <3>3
  <2>5. CASE e.name \in options.glob
    <3>1. PICK i \in 1..Len(printed) : q[i] = k
      BY <1>3, <2>3, <2>5
    <3>2. i \in lines
      BY <1>3, <2>3, <3>1
    <3>3. ASSUME NEW j \in lines PROVE j = i
      <4>1. q[j] = k /\ j \in 1..Len(printed)
        BY <2>4
      <4>2. ~(i < j) /\ ~(j < i)
        <5>1. q[i] \in Nat
          BY <1>3
        <5> HIDE DEF lines
        <5> QED
          BY <1>3, <3>1, <4>1, <5>1
      <4> HIDE DEF lines
      <4> QED
        BY <1>5, <4>1, <4>2
    <3>4. lines = {i}
      <4> HIDE DEF lines
      <4> QED
        BY <3>2, <3>3
    <3> QED
      BY <2>5, <3>4, FS_Singleton
  <2>6. CASE e.name \notin options.glob
    <3>1. lines = {}
      BY <2>4, <2>6
    <3> QED
      BY <2>6, <3>1, FS_EmptySet
  <2> QED
    BY <2>5, <2>6
<1> QED
  BY <1>6 DEF OncePrinted

(* And in the order asked for, if there is one. *)
LEMMA LinesAreInOrder ==
  ASSUME CalendarDays, ListingInv, step = "exit", Sortable,
         NEW k \in 1..Len(printed), NEW l \in 1..Len(printed), k < l
  PROVE ~Before(Origin(printed[l]), Origin(printed[k]))
<1>1. PICK p, q : AsAsked(p) /\ LinePlaces(p, q)
  BY LinesHavePlaces
<1>2. /\ p \in [1..Len(arrived) -> 1..Len(arrived)]
      /\ \A i \in 1..Len(arrived) : entries[i].name = arrived[p[i]].name
      /\ q \in [1..Len(printed) -> 1..Len(arrived)]
      /\ \A i \in 1..Len(printed) : printed[i] = entries[q[i]]
      /\ \A i, j \in 1..Len(printed) : i < j => q[i] < q[j]
  BY <1>1 DEF LinePlaces
<1>3. \A i, j \in 1..Len(arrived) : arrived[i].name = arrived[j].name => i = j
  BY DifferentNames DEF ListingInv
<1>4. ASSUME NEW i \in 1..Len(printed)
      PROVE Origin(printed[i]) = arrived[p[q[i]]]
  <2>1. q[i] \in 1..Len(arrived) /\ p[q[i]] \in 1..Len(arrived)
    BY <1>2
  <2>2. printed[i].name = arrived[p[q[i]]].name
    BY <1>2, <2>1
  <2>3. \A a \in {arrived[j] : j \in 1..Len(arrived)} :
          a.name = printed[i].name => a = arrived[p[q[i]]]
    BY <1>3, <2>1, <2>2
  <2>4. arrived[p[q[i]]] \in {arrived[j] : j \in 1..Len(arrived)}
    BY <2>1
  <2> QED
    BY <2>2, <2>3, <2>4, Zenon DEF Origin
<1>5. q[k] < q[l] /\ q[k] \in 1..Len(arrived) /\ q[l] \in 1..Len(arrived)
  BY <1>2
<1>6. ~Before(arrived[p[q[l]]], arrived[p[q[k]]])
  BY <1>1, <1>5 DEF AsAsked
<1> QED
  BY <1>4, <1>6, Zenon

(***************************************************************************)
(* The part of ListingShown that needs no order: puppy-dir, if it comes to *)
(* its end, has printed every entry of the listing that matches, once      *)
(* each, for every listing, even one that the comparators are at odds with *)
(* themselves on.                                                          *)
(***************************************************************************)
THEOREM MatchesPrintedOnce == Spec => [](step = "exit" => OncePrinted)
<1>1. ListingInv => (step = "exit" => OncePrinted)
  BY LinesAreSingle
<1> QED
  BY <1>1, ListingSpec, PTL

(***************************************************************************)
(* ListingShown: puppy-dir prints every entry of the listing that matches, *)
(* once each, in the order asked for if the listing can be sorted; main    *)
(* reads past the copy only when the terminator that was never copied      *)
(* reads as a name.                                                        *)
(***************************************************************************)
THEOREM ListingsAreShown ==
  ASSUME CalendarDays
  PROVE Spec => []ListingShown
<1>1. ListingInv => ListingShown
  <2> SUFFICES ASSUME ListingInv PROVE ListingShown
    OBVIOUS
  <2>1. step = "astray" => memory = "junk"
    BY DEF ListingInv, BufferInv, Copied
  <2>2. step = "exit" => OncePrinted
    BY LinesAreSingle
  <2>3. step = "exit" /\ Sortable =>
          \A k, l \in 1..Len(printed) :
            k < l => ~Before(Origin(printed[l]), Origin(printed[k]))
    BY LinesAreInOrder
  <2> QED
    BY <2>1, <2>2, <2>3, Zenon DEF ListingShown, OncePrinted
<1> QED
  BY <1>1, ListingSpec, PTL

================================================================================
