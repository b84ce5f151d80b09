----------------------------- MODULE KeysProofs -----------------------------
(***************************************************************************)
(* The order of the B-tree, for every number of columns and every range of *)
(* values.                                                                 *)
(***************************************************************************)
EXTENDS Keys, FiniteSetTheorems, WellFoundedInduction, TLAPS

\* keycmp is irreflexive: a key is not below itself.
LEMMA LessIrreflexive == ASSUME NEW a \in Keys PROVE ~ Less(a, a)
  BY DEF Keys, Less

\* keycmp is transitive, as Berkeley DB demands of a B-tree comparison: the
\* earlier of the two deciding columns decides.
LEMMA LessTransitive ==
  ASSUME NEW a \in Keys, NEW b \in Keys, NEW c \in Keys, Less(a, b), Less(b, c)
  PROVE  Less(a, c)
<1>1. PICK i \in 1..Columns : a[i] < b[i] /\ \A d \in 1..(i - 1) : a[d] = b[d]
  BY DEF Less
<1>2. PICK j \in 1..Columns : b[j] < c[j] /\ \A d \in 1..(j - 1) : b[d] = c[d]
  BY DEF Less
<1>3. /\ Columns \in Nat /\ Top \in Nat
      /\ \A k \in 1..Columns : a[k] \in Nat /\ b[k] \in Nat /\ c[k] \in Nat
  BY ColumnsAssumption, ValuesAssumption DEF Keys
<1>4. CASE i < j
  <2>1. i \in 1..(j - 1) /\ \A d \in 1..(i - 1) : d \in 1..(j - 1)
    BY <1>3, <1>4
  <2>2. a[i] < c[i] /\ \A d \in 1..(i - 1) : a[d] = c[d]
    BY <1>1, <1>2, <2>1
  <2> QED BY <2>2 DEF Less
<1>5. CASE i = j
  <2>1. a[i] < c[i]
    BY <1>1, <1>2, <1>3, <1>5
  <2>2. \A d \in 1..(i - 1) : a[d] = c[d]
    BY <1>1, <1>2, <1>5
  <2> QED BY <2>1, <2>2 DEF Less
<1>6. CASE j < i
  <2>1. j \in 1..(i - 1) /\ \A d \in 1..(j - 1) : d \in 1..(i - 1)
    BY <1>3, <1>6
  <2>2. a[j] < c[j] /\ \A d \in 1..(j - 1) : a[d] = c[d]
    BY <1>1, <1>2, <2>1
  <2> QED BY <2>2 DEF Less
<1> QED BY <1>3, <1>4, <1>5, <1>6

\* Some column of a set of columns is the first.  By induction over finite sets: the
\* smallest set of columns without a first one would be one column larger than a set
\* that has one.
LEMMA FirstColumn ==
  ASSUME NEW D \in SUBSET (1..Columns), D # {}
  PROVE  \E c \in D : \A d \in D : c <= d
<1> DEFINE Bad == {E \in SUBSET (1..Columns) : E # {} /\ ~ \E c \in E : \A d \in E : c <= d}
<1> SUFFICES ASSUME Bad # {} PROVE FALSE
  OBVIOUS
<1>1. Bad \subseteq FiniteSubsetsOf(1..Columns)
  <2>1. IsFiniteSet(1..Columns)
    BY FS_Interval, ColumnsAssumption
  <2> QED BY <2>1, FS_Subset DEF FiniteSubsetsOf
<1>2. PICK E \in Bad : \A F \in Bad : ~ (<<F, E>> \in StrictSubsetOrdering(1..Columns))
  <2> HIDE DEF Bad
  <2> QED BY <1>1, FS_StrictSubsetOrderingWellFounded, WFMin
<1>3. E \subseteq 1..Columns /\ E # {} /\ \A d \in E : d \in Nat
  BY ColumnsAssumption
<1>4. PICK c \in E : \E d \in E : ~ (c <= d)
  BY <1>3
<1>5. E \ {c} # {} /\ <<E \ {c}, E>> \in StrictSubsetOrdering(1..Columns)
  <2>1. E \ {c} # {}
    BY <1>3, <1>4
  <2> QED BY <1>3, <2>1 DEF StrictSubsetOrdering
<1>6. E \ {c} \notin Bad
  <2> HIDE DEF Bad
  <2> QED BY <1>2, <1>5
<1>7. PICK e \in E \ {c} : \A d \in E \ {c} : e <= d
  BY <1>5, <1>6
<1>8. /\ \A d \in E : e <= d \/ d = c
      /\ c \in Nat /\ e \in Nat /\ \A d \in E : d \in Nat
  BY <1>3, <1>7, ColumnsAssumption
<1>9. CASE e <= c
  BY <1>7, <1>8, <1>9
<1>10. CASE c <= e
  BY <1>3, <1>8, <1>10
<1> QED BY <1>8, <1>9, <1>10

\* keycmp is total: of two keys that differ one is below the other.
LEMMA LessTotal ==
  ASSUME NEW a \in Keys, NEW b \in Keys, a # b
  PROVE  Less(a, b) \/ Less(b, a)
<1> DEFINE D == {c \in 1..Columns : a[c] # b[c]}
<1>1. D # {}
  <2>1. a = [c \in 1..Columns |-> a[c]] /\ b = [c \in 1..Columns |-> b[c]]
    BY DEF Keys
  <2> SUFFICES ASSUME \A c \in 1..Columns : a[c] = b[c] PROVE FALSE
    OBVIOUS
  <2>2. [c \in 1..Columns |-> a[c]] = [c \in 1..Columns |-> b[c]]
    OBVIOUS
  <2> QED BY <2>1, <2>2
<1>2. PICK c \in D : \A d \in D : c <= d
  <2> HIDE DEF D
  <2>1. D \in SUBSET (1..Columns)
    BY DEF D
  <2> QED BY <1>1, <2>1, FirstColumn
<1>3. \A d \in 1..(c - 1) : a[d] = b[d]
  BY <1>2, ColumnsAssumption
<1>4. a[c] \in 0..Top /\ b[c] \in 0..Top /\ a[c] # b[c] /\ c \in 1..Columns
  BY DEF Keys
<1>5. a[c] < b[c] \/ b[c] < a[c]
  BY <1>4, ValuesAssumption
<1> QED BY <1>3, <1>4, <1>5 DEF Less

\* The first attribute of keys in order does not descend: a scan may end at the
\* first key that is above its maximum there.
LEMMA FirstColumnAscends ==
  ASSUME NEW a \in Keys, NEW b \in Keys, Less(a, b)
  PROVE  a[1] <= b[1]
<1>1. PICK i \in 1..Columns : a[i] < b[i] /\ \A d \in 1..(i - 1) : a[d] = b[d]
  BY DEF Less
<1>2. Columns \in Nat /\ \A k \in 1..Columns : a[k] \in Nat /\ b[k] \in Nat
  BY ColumnsAssumption, ValuesAssumption DEF Keys
<1>3. CASE i = 1
  BY <1>1, <1>2, <1>3
<1>4. CASE i > 1
  <2>1. 1 \in 1..(i - 1) /\ 1 \in 1..Columns
    BY <1>2, <1>4
  <2> QED BY <1>1, <1>2, <2>1
<1> QED BY <1>2, <1>3, <1>4

\* The converted minimum is a key of the index.
LEMMA BDBKeyType == ASSUME NEW p \in Patterns PROVE BDBKey(p) \in Keys
  BY ValuesAssumption DEF Patterns, Keys, BDBKey

\* Without a varchar wildcard the converted minimum is at or below every key of
\* the range: DB_SET_RANGE skips none of them.
LEMMA MinimumBelowRange ==
  ASSUME NEW k \in Keys, NEW min \in Patterns, NEW max \in Patterns,
         InRange(k, min, max), \A c \in Varchars : min[c] # Null
  PROVE  ~ Less(k, BDBKey(min))
<1> SUFFICES ASSUME NEW c \in 1..Columns, k[c] < BDBKey(min)[c]
             PROVE  FALSE
  BY DEF Less
<1>1. k[c] \in 0..Top /\ BDBKey(min)[c] \in 0..Top
  <2>1. BDBKey(min) \in Keys
    BY BDBKeyType
  <2> QED BY <2>1 DEF Keys
<1>2. CASE min[c] # Null
  BY <1>1, <1>2, ValuesAssumption DEF InRange, BDBKey
<1>3. CASE min[c] = Null
  BY <1>1, <1>3, ValuesAssumption DEF BDBKey
<1> QED BY <1>2, <1>3

\* The order of records is transitive.
LEMMA PrecedesTransitive ==
  ASSUME NEW r \in [key : Keys, stamp : Nat], NEW s \in [key : Keys, stamp : Nat],
         NEW t \in [key : Keys, stamp : Nat], Precedes(r, s), Precedes(s, t)
  PROVE  Precedes(r, t)
<1>1. CASE Less(r.key, s.key) /\ Less(s.key, t.key)
  BY <1>1, LessTransitive DEF Precedes
<1>2. CASE ~ Less(r.key, s.key) \/ ~ Less(s.key, t.key)
  BY <1>2 DEF Precedes
<1> QED BY <1>1, <1>2

\* The records of an index are in order: no two records of one key share a stamp.
LEMMA PrecedesTotal ==
  ASSUME NEW r \in [key : Keys, stamp : Nat], NEW s \in [key : Keys, stamp : Nat],
         r.stamp = s.stamp => r = s
  PROVE  r = s \/ Precedes(r, s) \/ Precedes(s, r)
<1>1. CASE r.key # s.key
  BY <1>1, LessTotal DEF Precedes
<1>2. CASE r.key = s.key
  BY <1>2 DEF Precedes
<1> QED BY <1>1, <1>2

LEMMA PrecedesIrreflexive ==
  ASSUME NEW r \in [key : Keys, stamp : Nat]
  PROVE  ~ Precedes(r, r)
  BY LessIrreflexive DEF Precedes

\* Every finite set of records has a first one: where a cursor that moves on has a
\* record ahead, there is the record it comes to.
LEMMA FirstRecord ==
  ASSUME NEW S \in SUBSET [key : Keys, stamp : Nat], IsFiniteSet(S), S # {},
         \A r, s \in S : r.stamp = s.stamp => r = s
  PROVE  \E r \in S : \A s \in S : s = r \/ Precedes(r, s)
<1> DEFINE First(r, U) == \A s \in U : s = r \/ Precedes(r, s)
           Bad         == {U \in SUBSET S : U # {} /\ ~ \E r \in U : First(r, U)}
<1> SUFFICES ASSUME Bad # {} PROVE FALSE
  OBVIOUS
<1>1. Bad \subseteq FiniteSubsetsOf(S)
  BY FS_Subset DEF FiniteSubsetsOf
<1>2. PICK U \in Bad : \A V \in Bad : ~ (<<V, U>> \in StrictSubsetOrdering(S))
  <2> HIDE DEF Bad
  <2> QED BY <1>1, FS_StrictSubsetOrderingWellFounded, WFMin
<1>3. PICK x \in U : TRUE
  OBVIOUS
<1>4. CASE U = {x}
  BY <1>4
<1>5. CASE U # {x}
  <2>1. U \ {x} # {} /\ <<U \ {x}, U>> \in StrictSubsetOrdering(S)
    BY <1>3, <1>5 DEF StrictSubsetOrdering
  <2>2. U \ {x} \notin Bad
    <3> HIDE DEF Bad
    <3> QED BY <1>2, <2>1
  <2>3. PICK y \in U \ {x} : First(y, U \ {x})
    BY <2>1, <2>2
  <2>4. Precedes(x, y) \/ Precedes(y, x)
    BY PrecedesTotal
  <2>5. CASE Precedes(x, y)
    BY <2>3, <2>5, PrecedesTransitive
  <2>6. CASE Precedes(y, x)
    BY <2>3, <2>6
  <2> QED BY <2>4, <2>5, <2>6
<1> QED BY <1>4, <1>5

\* The least key of a range: wildcards of the minimum become the least value.
LeastKey(min) == [c \in 1..Columns |-> IF min[c] # Null THEN min[c] ELSE 0]

\* With a varchar wildcard in the minimum, the conversion skips the least key of
\* every range that has a key: 127s stand for the wildcard where the empty string
\* would.
LEMMA WildcardSkipsLeast ==
  ASSUME NEW min \in Patterns, NEW max \in Patterns, Fill > 0,
         \E c \in Varchars : min[c] = Null,
         \E k \in Keys : InRange(k, min, max)
  PROVE  /\ LeastKey(min) \in Keys /\ InRange(LeastKey(min), min, max)
         /\ Less(LeastKey(min), BDBKey(min))
<1> USE ValuesAssumption
<1>1. LeastKey(min) \in Keys
  BY DEF LeastKey, Patterns, Keys
<1>2. InRange(LeastKey(min), min, max)
  <2>1. PICK k \in Keys : InRange(k, min, max)
    OBVIOUS
  <2>2. ASSUME NEW c \in 1..Columns, max[c] # Null, LeastKey(min)[c] > max[c]
        PROVE  FALSE
    <3>1. k[c] \in 0..Top /\ max[c] \in 0..Top /\ ~ k[c] > max[c]
      BY <2>1, <2>2 DEF Keys, Patterns, InRange, Above
    <3>2. CASE min[c] # Null
      <4>1. min[c] \in 0..Top /\ min[c] <= k[c] /\ LeastKey(min)[c] = min[c]
        BY <2>1, <3>2 DEF InRange, LeastKey, Patterns
      <4> QED BY <2>2, <3>1, <4>1
    <3>3. CASE min[c] = Null
      BY <2>2, <3>1, <3>3 DEF LeastKey
    <3> QED BY <3>2, <3>3
  <2>3. ASSUME NEW c \in 1..Columns, min[c] # Null
        PROVE  min[c] <= LeastKey(min)[c]
    BY <2>3 DEF LeastKey, Patterns
  <2> QED BY <2>2, <2>3 DEF InRange, Above
<1>3. Less(LeastKey(min), BDBKey(min))
  <2> DEFINE D == {c \in 1..Columns : c \in Varchars /\ min[c] = Null}
  <2>1. D # {} /\ D \in SUBSET (1..Columns)
    BY ColumnsAssumption
  <2>2. PICK c \in D : \A d \in D : c <= d
    <3> HIDE DEF D
    <3> QED BY <2>1, FirstColumn
  <2>3. LeastKey(min)[c] = 0 /\ BDBKey(min)[c] = Fill
    BY DEF LeastKey, BDBKey
  <2>4. \A d \in 1..(c - 1) : d \in 1..Columns /\ d \notin D
    BY <2>2, ColumnsAssumption
  <2>5. \A d \in 1..(c - 1) : LeastKey(min)[d] = BDBKey(min)[d]
    BY <2>4 DEF LeastKey, BDBKey
  <2> QED BY <2>3, <2>5 DEF Less
<1> QED BY <1>1, <1>2, <1>3
====
