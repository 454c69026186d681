-------------------------------- MODULE Ranges --------------------------------
(***************************************************************************)
(* The byte ranges of a PDF (ranged_object of web/api/documents.py and     *)
(* get_range of core/storage.py).  A Range header that matches             *)
(* RANGE_PATTERN names both ends, its first byte, or how many bytes of the *)
(* end it wants.                                                           *)
(***************************************************************************)
EXTENDS Integers

RangeHeaders == [kind : {"between"}, first : Nat, last : Nat]
                  \cup [kind : {"from"}, first : Nat]
                  \cup [kind : {"suffix"}, length : Nat]

First(r, size) ==
  IF r.kind # "suffix" THEN r.first
  ELSE IF r.length > size THEN 0 ELSE size - r.length
Last(r, size) ==
  IF r.kind = "between" /\ r.last < size - 1 THEN r.last ELSE size - 1
\* Otherwise 416.
Satisfiable(r, size) == First(r, size) < size /\ First(r, size) <= Last(r, size)

\* What get_range is asked for: its end is exclusive, and it refuses an empty
\* or negative range.
ObjectRange(r, size) == <<First(r, size), Last(r, size) + 1>>
GetRangeAccepts(range) == range[1] >= 0 /\ range[2] > range[1]
ContentLength(r, size) == Last(r, size) - First(r, size) + 1

\* What the header means (RFC 9110): byte b of an object of that size is wanted.
Wanted(r, size, b) ==
  \/ r.kind = "between" /\ r.first <= b /\ b <= r.last
  \/ r.kind = "from" /\ r.first <= b
  \/ r.kind = "suffix" /\ size - b <= r.length

\* The store is asked for exactly the bytes that are wanted and exist, the
\* answer is as long as it says, and 416 means that there are none.
RangeIsExact(r, size) ==
  LET range == ObjectRange(r, size) IN
  /\ Satisfiable(r, size) =>
       /\ GetRangeAccepts(range)
       /\ ContentLength(r, size) = range[2] - range[1]
       /\ \A b \in 0..(size - 1) : Wanted(r, size, b) <=> range[1] <= b /\ b < range[2]
       /\ range[2] <= size
  /\ ~Satisfiable(r, size) => \A b \in 0..(size - 1) : ~Wanted(r, size, b)
===============================================================================
