-------------------------------- MODULE Keys --------------------------------
(***************************************************************************)
(* Multidimensional keys: the order of the B-tree, the conversion of a key *)
(* with wildcards to a Berkeley DB key, and the test against the maximum   *)
(* of a range.                                                             *)
(*                                                                         *)
(* The values of an attribute are abstracted to 0..Top, in the order of    *)
(* attcmp: 0 is INT32_MIN, INT64_MIN or the empty string.                  *)
(***************************************************************************)
EXTENDS Naturals

CONSTANTS Columns,   \* the number of attributes of a key (attribute_count_)
          Varchars,  \* the columns of type kVarchar
          Top,       \* the greatest value of an attribute
          Fill,      \* the string of 127s that stands for a varchar wildcard
          Null       \* a wildcard

ASSUME ColumnsAssumption == Columns \in Nat \ {0} /\ Varchars \subseteq 1..Columns
ASSUME ValuesAssumption  == Top \in Nat /\ Fill \in 0..Top /\ Null \notin 0..Top

Keys     == [1..Columns -> 0..Top]
Patterns == [1..Columns -> (0..Top) \cup {Null}]

\* keycmp(a, b) < 0: the first attribute in which they differ decides.
Less(a, b) ==
  \E c \in 1..Columns : a[c] < b[c] /\ \A d \in 1..(c - 1) : a[d] = b[d]

\* GetBDBKey, never called with max = true: a wildcard becomes the least number,
\* but 127s in a varchar.
BDBKey(p) ==
  [c \in 1..Columns |-> IF p[c] # Null THEN p[c]
                        ELSE IF c \in Varchars THEN Fill ELSE 0]

\* The columns in which CheckBounds finds key k above max; it reports the first.
Above(k, max) == {c \in 1..Columns : max[c] # Null /\ k[c] > max[c]}

\* The range that GetRecords is asked for.
InRange(k, min, max) ==
  /\ Above(k, max) = {}
  /\ \A c \in 1..Columns : min[c] # Null => min[c] <= k[c]

\* A record is a key and the stamp of its insertion: Db::put appends a duplicate
\* to the set of duplicates of its key.
Precedes(r, s) == \/ Less(r.key, s.key)
                  \/ r.key = s.key /\ r.stamp < s.stamp
====
