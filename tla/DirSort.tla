------------------------------- MODULE DirSort -------------------------------
(***************************************************************************)
(* How puppy-dir compares two entries: extract_parts, strcmp_len and the   *)
(* comparators it gives to qsort.  A name is the sequence of its bytes.    *)
(* Sizes are in units of 128 bytes and times in days, so that the 32 bits  *)
(* of the comparators' results fit in the model checker's numbers.         *)
(***************************************************************************)
EXTENDS Integers, Sequences, SequencesExt

CONSTANT SignedChars   \* char is signed (x86) or not (ARM)

ASSUME DirSortAssumption == SignedChars \in BOOLEAN

Plus == 43
Dash == 45
Dot  == 46
Digits == 48..57

(* strrchr: the last place of a character, 0 for none. *)
strrchr(name, char) == SelectLastInSeq(name, LAMBDA c : c = char)

(* The number that the digits say. *)
Decimal(digits) == FoldLeft(LAMBDA n, c : 10 * n + (c - 48), 0, digits)

(* What an int keeps of a number. *)
IntMax == 2147483647

Int32(n) ==
  IF n \in (-IntMax)..IntMax THEN n ELSE ((n + 2^31) % 2^32) - 2^31

(* The library's atoi is (int) strtol: 63 bits, of which the int keeps 32. *)
atoi(digits) ==
  LET n == Decimal(digits)
  IN IF n <= IntMax THEN n ELSE Int32(IF n < 2^63 THEN n ELSE 2^63 - 1)

(***************************************************************************)
(* "Given a file name like foo-123.rec, find the length of foo and the     *)
(* number 123.  Given foo+1200-1300.rec, the length of foo and no number." *)
(* Whatever follows the last dash is cut off, even if it is no number.     *)
(***************************************************************************)
extract_parts(name) ==
  LET dot == strrchr(name, Dot)
      plus == strrchr(name, Plus)
      dash == strrchr(name, Dash)
      tail == SubSeq(name, dash + 1, dot - 1)
  IN IF dot = 0 THEN [len |-> Len(name), number |-> 0]
     ELSE IF plus \in 1..(dot - 1) THEN [len |-> plus - 1, number |-> 0]
     ELSE IF dash \in 1..(dot - 1)
          THEN [len |-> dash - 1,
                number |-> IF \A i \in 1..Len(tail) : tail[i] \in Digits THEN atoi(tail) ELSE 0]
     ELSE [len |-> dot - 1, number |-> 0]

(* The number that a char is. *)
Char(c) == IF SignedChars /\ c >= 128 THEN c - 256 ELSE c

(* Slip: the lengths are not looked at. *)
strcmp_whole(a, a_len, b, b_len) ==
  LET differing == {i \in 1..Len(a) : i <= Len(b) /\ a[i] # b[i]}
  IN IF differing = {} THEN 0
     ELSE LET i == CHOOSE i \in differing : \A j \in differing : i <= j
          IN Char(a[i]) - Char(b[i])

(***************************************************************************)
(* The first difference decides; when one name ends first the two compare  *)
(* as equal.                                                               *)
(***************************************************************************)
strcmp_len(a, a_len, b, b_len) ==
  LET differing == {i \in 1..a_len : i <= b_len /\ a[i] # b[i]}
  IN IF differing = {} THEN 0
     ELSE LET i == CHOOSE i \in differing : \A j \in differing : i <= j
          IN Char(a[i]) - Char(b[i])

-----------------------------------------------------------------------------
(***************************************************************************)
(* A difference of 64-bit numbers is returned as an int.  128 bytes are    *)
(* 2^7, a day has 2^7 * 675 seconds: divided by 2^7 the int has 25 bits,   *)
(* which go from -Limit to Limit - 1.                                      *)
(***************************************************************************)
Limit == 16777216

Int25(n) == ((n + Limit) % (2 * Limit)) - Limit

compare_by_time(a, b) == Int25(675 * (a.time - b.time))

compare_by_size(a, b) == Int25(a.size - b.size)

compare_by_name_and(secondary, a, b) ==
  LET pa == extract_parts(a.name)
      pb == extract_parts(b.name)
      name_cmp == strcmp_len(a.name, pa.len, b.name, pb.len)
  IN IF name_cmp # 0 THEN name_cmp
     ELSE IF secondary = "number" THEN Int32(pa.number - pb.number)
     ELSE compare_by_time(a, b)

compare_by_name(a, b) == compare_by_name_and("number", a, b)

compare_by_name_time(a, b) == compare_by_name_and("time", a, b)

Fields == {"unsorted", "name", "time", "size", "name_time"}

comparator(field, a, b) ==
  CASE field = "name" -> compare_by_name(a, b)
    [] field = "time" -> compare_by_time(a, b)
    [] field = "size" -> compare_by_size(a, b)
    [] field = "name_time" -> compare_by_name_time(a, b)

(***************************************************************************)
(* What qsort may make of a sequence: a sorted permutation, or, when the   *)
(* comparator contradicts itself on these elements, any permutation.       *)
(***************************************************************************)
Consistent(s, field) ==
  \A i, j, k \in 1..Len(s) :
    /\ comparator(field, s[i], s[j]) <= 0 /\ comparator(field, s[j], s[k]) <= 0
         => comparator(field, s[i], s[k]) <= 0
    /\ comparator(field, s[i], s[j]) < 0 <=> comparator(field, s[j], s[i]) > 0

Permuted(s) == {[i \in 1..Len(s) |-> s[p[i]]] : p \in Bijection(1..Len(s), 1..Len(s))}

InOrder(s, field) == \A i, j \in 1..Len(s) : i < j => comparator(field, s[i], s[j]) <= 0

sort_dir_entries(s, field) ==
  IF field = "unsorted" THEN {s}
  ELSE IF Consistent(s, field) THEN {p \in Permuted(s) : InOrder(p, field)}
  ELSE Permuted(s)

=============================================================================
