--------------------------- MODULE RangeScanProofs ---------------------------
(***************************************************************************)
(* Proofs about RangeScan: a scan is complete, ascending and bounded for   *)
(* every number of columns, every range and every number of insertions.    *)
(*                                                                         *)
(* The inductive invariant says what is true of a scan under way, which    *)
(* the properties leave open: what is owed and not yet returned is ahead   *)
(* of the cursor (Pending), what was returned is behind it (Behind).       *)
(***************************************************************************)
EXTENDS RangeScan, KeysProofs

\* Every record still owed to an open scan has been returned or is ahead.
Pending ==
  cursor = "open" => \A r \in owed : Promised(r) => r \in returned \/ r \in Ahead

\* The cursor of a scan that has begun stands at or after every record returned,
\* and not before the minimum.
Behind ==
  /\ ~initialized => returned = {}
  /\ cursor = "open" /\ initialized =>
       /\ ~ Less(pos.key, BDBKey(minKey))
       /\ \A r \in returned : r = pos \/ Precedes(r, pos)

IInv == TypeOK /\ Pending /\ Behind /\ Complete /\ Bounded

-----------------------------------------------------------------------------

LEMMA RowsAreRecords == Rows \subseteq [key : Keys, stamp : Nat]
  BY MaxStampAssumption DEF Rows

\* The placeholders are a key pattern and a record.
LEMMA Placeholders == AnyKey \in Patterns /\ AnyRow \in Rows
  BY ValuesAssumption, MaxStampAssumption DEF AnyKey, AnyRow, Patterns, Rows, Keys

\* The records ahead are records of the index.
LEMMA AheadOfRows == Ahead \subseteq rows
  BY DEF Ahead

\* The types, and which states an iterator can be in.
THEOREM TypeCorrect == Spec => []TypeOK
<1>1. Init => TypeOK
  <2>1. 0 \in 0..MaxStamp
    BY MaxStampAssumption
  <2> QED BY <2>1, Placeholders DEF Init, TypeOK, Answers, Faults
<1>2. TypeOK /\ [Next]_vars => TypeOK'
  <2> SUFFICES ASSUME TypeOK, [Next]_vars PROVE TypeOK'
    OBVIOUS
  <2> USE DEF TypeOK
  <2>1. ASSUME NEW k \in Keys, InsertRecord(k) PROVE TypeOK'
    <3>1. clock \in 0..MaxStamp /\ clock + 1 \in 0..MaxStamp
      BY <2>1, MaxStampAssumption DEF InsertRecord
    <3>2. rows' \subseteq Rows
      BY <2>1, <3>1 DEF InsertRecord, Rows
    <3>3. (\A r \in rows : r.stamp < clock)'
      <4> SUFFICES ASSUME NEW r \in rows' PROVE r.stamp < clock'
        OBVIOUS
      <4>1. r \in rows => r.stamp \in Nat /\ r.stamp < clock
        BY MaxStampAssumption DEF Rows
      <4>2. r \in rows \/ r.stamp = clock
        BY <2>1 DEF InsertRecord
      <4> QED BY <2>1, <3>1, <4>1, <4>2, MaxStampAssumption DEF InsertRecord
    <3> QED BY <2>1, <3>1, <3>2, <3>3
            DEF InsertRecord, keyVars, iterVars
  <2>2. ASSUME NEW r \in rows, DeleteRecord(r) PROVE TypeOK'
    BY <2>2 DEF DeleteRecord, keyVars, iterVars
  <2>3. ASSUME NEW r \in rows, Fetch(r) PROVE TypeOK'
    BY <2>3 DEF Fetch, Ended, Answer, SetEnded, rowVars, keyVars, Answers
  <2>4. ASSUME NEW range \in Ranges, GetRecords(range[1], range[2]) PROVE TypeOK'
    <3>1. range[1] \in Patterns /\ range[2] \in Patterns
      BY RangesAssumption
    <3>2. ~end /\ ~scanning /\ returned = {}
      BY <2>4 DEF GetRecords
    <3> QED BY <2>4, <3>1, <3>2 DEF GetRecords, rowVars, Answers
  <2>5. CASE GetRecordsThrows
    BY <2>5 DEF GetRecordsThrows, rowVars, keyVars, iterVars, Answers
  <2>6. CASE GetNext
    BY <2>6 DEF GetNext, Answer, rowVars, keyVars, iterVars, Answers
  <2>7. CASE FetchNone
    BY <2>7 DEF FetchNone, Ended, Answer, SetEnded, rowVars, keyVars, Answers
  <2>8. CASE FetchThrows
    BY <2>8 DEF FetchThrows, Answer, rowVars, keyVars, iterVars, Answers
  <2>9. CASE FetchFails
    BY <2>9 DEF FetchFails, Answer, SetEnded, rowVars, keyVars, Answers
  <2>10. CASE CloseIterator
    BY <2>10, Placeholders DEF CloseIterator, rowVars, Answers
  <2>11. CASE EndContext
    BY <2>11 DEF EndContext, rowVars, keyVars
  <2>12. CASE Crash
    BY <2>12 DEF Crash, rowVars, keyVars, iterVars, Faults
  <2>13. CASE CloseIteratorThrows
    BY <2>13 DEF CloseIteratorThrows, rowVars, keyVars, Answers
  <2>14. CASE UNCHANGED vars
    BY <2>14 DEF vars, rowVars, keyVars, iterVars
  <2> QED BY <2>1, <2>2, <2>3, <2>4, <2>5, <2>6, <2>7, <2>8, <2>9, <2>10, <2>11,
             <2>12, <2>13, <2>14 DEF Next, Halted
<1> QED BY <1>1, <1>2, PTL DEF Spec

-----------------------------------------------------------------------------

\* Fetch moves the cursor forward: it comes to stand after every record already
\* returned, and not before the minimum.
LEMMA FetchAdvances ==
  ASSUME TypeOK, Behind, NEW r \in rows, Fetch(r)
  PROVE  /\ ~ Less(r.key, BDBKey(minKey))
         /\ \A s \in returned : Precedes(s, r)
<1>1. /\ r \in [key : Keys, stamp : Nat] /\ pos \in [key : Keys, stamp : Nat]
      /\ \A s \in returned : s \in [key : Keys, stamp : Nat]
      /\ BDBKey(minKey) \in Keys
  BY RowsAreRecords, BDBKeyType DEF TypeOK
<1>2. r \in Ahead /\ cursor = "open"
  BY DEF Fetch
<1>3. CASE ~initialized
  BY <1>2, <1>3 DEF Ahead, Behind
<1>4. CASE initialized
  <2>1. Precedes(pos, r)
    BY <1>2, <1>4 DEF Ahead
  <2>2. ~ Less(pos.key, BDBKey(minKey)) /\ \A s \in returned : s = pos \/ Precedes(s, pos)
    BY <1>2, <1>4 DEF Behind
  <2>3. ~ Less(r.key, BDBKey(minKey))
    <3>1. Less(pos.key, r.key) \/ pos.key = r.key
      BY <2>1 DEF Precedes
    <3> QED BY <1>1, <2>2, <3>1, LessTransitive
  <2>4. ASSUME NEW s \in returned PROVE Precedes(s, r)
    BY <1>1, <2>1, <2>2, PrecedesTransitive
  <2> QED BY <2>3, <2>4
<1> QED BY <1>3, <1>4

\* What is owed and ahead of the cursor is, after Fetch, the record found or
\* ahead of that.
LEMMA FetchSkipsNothing ==
  ASSUME NEW r \in rows, Fetch(r), NEW s \in Ahead
  PROVE  s = r \/ s \in Ahead'
<1>1. s = r \/ Precedes(r, s)
  BY DEF Fetch, IsFirst
<1>2. s \in rows
  BY AheadOfRows
<1> QED BY <1>1, <1>2 DEF Fetch, Ahead, rowVars

\* When the first attribute of the record found is above the maximum, no record
\* of the range is left ahead.
LEMMA OverrunEndsRange ==
  ASSUME TypeOK, NEW r \in rows, Fetch(r), Overrun(r.key),
         NEW s \in Ahead, InRange(s.key, minKey, maxKey)
  PROVE  FALSE
<1>1. r.key \in Keys /\ s.key \in Keys
  BY AheadOfRows DEF TypeOK, Rows
<1>2. /\ 1 \in 1..Columns /\ maxKey[1] # Null /\ r.key[1] > maxKey[1]
      /\ ~ s.key[1] > maxKey[1]
  BY DEF Overrun, InRange, Above
<1>3. maxKey[1] \in Nat /\ r.key[1] \in Nat /\ s.key[1] \in Nat
  <2>1. maxKey \in Patterns
    BY DEF TypeOK
  <2>2. maxKey[1] \in 0..Top
    BY <1>2, <2>1 DEF Patterns
  <2>3. r.key[1] \in 0..Top /\ s.key[1] \in 0..Top
    BY <1>1, <1>2 DEF Keys
  <2> QED BY <2>2, <2>3, ValuesAssumption
<1>4. s.key = r.key \/ Less(r.key, s.key)
  BY DEF Fetch, IsFirst, Precedes
<1>5. r.key[1] <= s.key[1]
  BY <1>1, <1>3, <1>4, FirstColumnAscends
<1> QED BY <1>2, <1>3, <1>5

\* The invariant holds of every state of every scan.
THEOREM Inductive == Spec => []IInv
<1>1. Init => IInv
  <2> SUFFICES ASSUME Init PROVE Pending /\ Behind /\ Complete /\ Bounded /\ TypeOK
    BY DEF IInv
  <2>1. TypeOK
    <3>1. 0 \in 0..MaxStamp
      BY MaxStampAssumption
    <3> QED BY <3>1, Placeholders DEF Init, TypeOK, Answers, Faults
  <2> QED BY <2>1 DEF Init, Pending, Behind, Complete, Bounded
<1>2. IInv /\ TypeOK' /\ [Next]_vars => IInv'
  <2> SUFFICES ASSUME IInv, TypeOK', [Next]_vars
               PROVE  Pending' /\ Behind' /\ Complete' /\ Bounded'
    BY DEF IInv
  <2> USE DEF IInv
  <2>1. ASSUME NEW k \in Keys, InsertRecord(k)
        PROVE  Pending' /\ Behind' /\ Complete' /\ Bounded'
    <3>1. /\ rows \subseteq rows'
          /\ UNCHANGED <<keyVars, iterVars, returned, owed>>
      BY <2>1 DEF InsertRecord
    <3>2. Ahead \subseteq Ahead' /\ \A s : Promised(s)' <=> Promised(s)
      BY <3>1 DEF Ahead, Promised, WildVarchar, keyVars, iterVars
    <3>3. Pending'
      BY <3>1, <3>2 DEF Pending, keyVars, iterVars
    <3> QED BY <3>1, <3>2, <3>3 DEF Behind, Complete, Bounded, keyVars, iterVars
  <2>2. ASSUME NEW r \in rows, DeleteRecord(r)
        PROVE  Pending' /\ Behind' /\ Complete' /\ Bounded'
    <3>1. /\ rows' = rows \ {r} /\ owed' = owed \ {r}
          /\ UNCHANGED <<keyVars, iterVars, returned>>
      BY <2>2 DEF DeleteRecord
    <3>2. Ahead' = Ahead \ {r} /\ \A s : Promised(s)' <=> Promised(s)
      BY <3>1 DEF Ahead, Promised, WildVarchar, keyVars, iterVars
    <3>3. Pending'
      BY <3>1, <3>2 DEF Pending, keyVars, iterVars
    <3> QED BY <3>1, <3>2, <3>3 DEF Behind, Complete, Bounded, keyVars, iterVars
  <2>3. ASSUME NEW r \in rows, Fetch(r)
        PROVE  Pending' /\ Behind' /\ Complete' /\ Bounded'
    <3>1. /\ ~ Less(r.key, BDBKey(minKey)) /\ \A s \in returned : Precedes(s, r)
          /\ pos' = r /\ initialized' /\ cursor = "open" /\ status = "open" /\ ~end
          /\ UNCHANGED <<minKey, maxKey, owed, status>>
          /\ \A s : Promised(s)' <=> Promised(s)
      BY <2>3, FetchAdvances DEF Fetch, Promised, WildVarchar, keyVars, TypeOK
    <3>2. ASSUME NEW s \in owed, Promised(s)
          PROVE  s \in returned \/ s = r \/ s \in Ahead'
      <4>1. s \in returned \/ s \in Ahead
        BY <3>1, <3>2 DEF Pending
      <4> QED BY <2>3, <4>1, FetchSkipsNothing
    <3>3. CASE WithinMax(r.key)
      <4>1. returned' = returned \cup {r} /\ UNCHANGED <<end, cursor>>
        BY <2>3, <3>3 DEF Fetch
      <4>2. Pending'
        BY <3>1, <3>2, <4>1 DEF Pending
      <4>3. Behind' /\ Bounded' /\ Complete'
        BY <3>1, <3>3, <4>1 DEF Behind, Bounded, Complete, WithinMax
      <4> QED BY <4>2, <4>3
    <3>4. CASE ~WithinMax(r.key) /\ Overrun(r.key)
      <4>1. returned' = returned /\ cursor' # "open"
        BY <2>3, <3>4 DEF Fetch, Ended, SetEnded
      <4>2. ASSUME NEW s \in owed, Promised(s) PROVE s \in returned
        <5>1. s \in returned \/ s \in Ahead
          BY <3>1, <4>2 DEF Pending
        <5> QED BY <2>3, <3>4, <4>2, <5>1, OverrunEndsRange DEF Promised
      <4> QED BY <3>1, <4>1, <4>2 DEF Pending, Behind, Bounded, Complete
    <3>5. CASE ~WithinMax(r.key) /\ ~Overrun(r.key)
      <4>1. returned' = returned /\ UNCHANGED <<end, cursor>>
        BY <2>3, <3>5 DEF Fetch
      <4>2. ASSUME NEW s \in owed, Promised(s) PROVE s # r
        BY <3>5, <4>2 DEF Promised, InRange, WithinMax
      <4> QED BY <3>1, <3>2, <4>1, <4>2 DEF Pending, Behind, Bounded, Complete
    <3> QED BY <3>3, <3>4, <3>5
  <2>4. ASSUME NEW range \in Ranges, GetRecords(range[1], range[2])
        PROVE  Pending' /\ Behind' /\ Complete' /\ Bounded'
    <3>1. /\ status = "none" /\ ~initialized /\ ~end /\ returned = {}
          /\ owed' = rows /\ cursor' = "open" /\ minKey' \in Patterns /\ maxKey' \in Patterns
          /\ UNCHANGED <<rows, initialized, end, returned>>
      BY <2>4, RangesAssumption DEF GetRecords, TypeOK, rowVars
    <3>2. Pending'
      <4> SUFFICES ASSUME NEW r \in rows, Promised(r)'
                   PROVE  ~ Less(r.key, BDBKey(minKey'))
        BY <3>1 DEF Pending, Ahead, Promised, WildVarchar
      <4>1. CASE WildVarchar'
        BY <4>1 DEF Promised
      <4>2. CASE ~WildVarchar'
        <5>1. r.key \in Keys /\ \A c \in Varchars : minKey'[c] # Null
          BY <4>2 DEF TypeOK, Rows, WildVarchar
        <5>2. InRange(r.key, minKey', maxKey')
          BY DEF Promised
        <5> QED BY <3>1, <5>1, <5>2, MinimumBelowRange
      <4> QED BY <4>1, <4>2
    <3> QED BY <3>1, <3>2 DEF Behind, Complete, Bounded
  <2>5. CASE FetchNone
    <3>1. /\ Ahead = {} /\ cursor = "open" /\ cursor' # "open" /\ initialized'
          /\ UNCHANGED <<rowVars, keyVars, status, pos, returned, owed>>
          /\ \A s : Promised(s)' <=> Promised(s)
      BY <2>5 DEF FetchNone, Ended, SetEnded, Promised, WildVarchar, keyVars
    <3> QED BY <3>1 DEF Pending, Behind, Complete, Bounded, keyVars
  <2>6. CASE FetchFails
    BY <2>6 DEF FetchFails, SetEnded, Pending, Behind, Complete, Bounded, keyVars
  <2>7. CASE CloseIterator
    BY <2>7 DEF CloseIterator, Pending, Behind, Complete, Bounded
  <2>8. CASE EndContext \/ CloseIteratorThrows
    BY <2>8 DEF EndContext, CloseIteratorThrows, Pending, Behind, Complete, Bounded, Promised, WildVarchar,
                keyVars
  <2>9. CASE \/ GetRecordsThrows \/ GetNext \/ FetchThrows \/ Crash \/ UNCHANGED vars
    <3>1. UNCHANGED <<rowVars, keyVars, iterVars, returned, owed>>
      BY <2>9 DEF GetRecordsThrows, GetNext, FetchThrows, Crash, vars
    <3> QED BY <3>1 DEF Pending, Behind, Complete, Bounded, Ahead, Promised, WildVarchar,
                        rowVars, keyVars, iterVars
  <2> QED BY <2>1, <2>2, <2>3, <2>4, <2>5, <2>6, <2>7, <2>8, <2>9 DEF Next, Halted
<1> QED BY <1>1, <1>2, TypeCorrect, PTL DEF Spec

\* A scan is complete: after kErrorNotFound nothing of the range is missing.
THEOREM CompleteAlways == Spec => []Complete
<1>1. IInv => Complete
  BY DEF IInv
<1> QED BY <1>1, Inductive, PTL

\* Every record returned is between the converted minimum and the maximum.
THEOREM BoundedAlways == Spec => []Bounded
<1>1. IInv => Bounded
  BY DEF IInv
<1> QED BY <1>1, Inductive, PTL

\* Records are returned in ascending order and none is returned twice.
THEOREM AscendingAlways == Spec => Ascending
<1>1. IInv /\ [Next]_vars
        => [scanning /\ answer' = "ok" /\ ~scanning'
              => \A r \in returned : Precedes(r, pos')]_vars
  <2> SUFFICES ASSUME IInv, Next, scanning, answer' = "ok", ~scanning',
                      NEW s \in returned
               PROVE  Precedes(s, pos')
    OBVIOUS
  <2>1. TypeOK /\ Behind /\ status = "open"
    BY DEF IInv, TypeOK
  <2>2. ASSUME NEW r \in rows, Fetch(r) PROVE Precedes(s, pos')
    BY <2>1, <2>2, FetchAdvances DEF Fetch
  <2>3. ASSUME NEW k \in Keys, InsertRecord(k) PROVE FALSE
    BY <2>3 DEF InsertRecord
  <2>4. ASSUME NEW r \in rows, DeleteRecord(r) PROVE FALSE
    BY <2>4 DEF DeleteRecord
  <2>5. ASSUME NEW range \in Ranges, GetRecords(range[1], range[2]) PROVE FALSE
    BY <2>1, <2>5 DEF GetRecords
  <2>6. ~ (GetRecordsThrows \/ GetNext \/ FetchNone \/ FetchThrows \/ FetchFails
             \/ CloseIterator \/ CloseIteratorThrows \/ EndContext \/ Crash \/ Halted)
    BY <2>1 DEF GetRecordsThrows, GetNext, FetchNone, FetchThrows, FetchFails,
                CloseIterator, CloseIteratorThrows, EndContext, Crash, Halted, Ended, Answer, vars
  <2> QED BY <2>2, <2>3, <2>4, <2>5, <2>6 DEF Next
<1> QED BY <1>1, Inductive, PTL DEF Spec, Ascending

-----------------------------------------------------------------------------

\* The records of the index are finitely many, and each has a stamp of its own.
Stamped ==
  /\ IsFiniteSet(rows)
  /\ \A r, s \in rows : r.stamp = s.stamp => r = s

LEMMA StampedAlways == Spec => []Stamped
<1>1. Init => Stamped
  BY FS_EmptySet DEF Init, Stamped
<1>2. TypeOK /\ Stamped /\ [Next]_vars => Stamped'
  <2> SUFFICES ASSUME TypeOK, Stamped, [Next]_vars PROVE Stamped'
    OBVIOUS
  <2>1. ASSUME NEW k \in Keys, InsertRecord(k) PROVE Stamped'
    <3>1. rows' = rows \cup {[key |-> k, stamp |-> clock]}
      BY <2>1 DEF InsertRecord
    <3>2. IsFiniteSet(rows')
      BY <3>1, FS_AddElement DEF Stamped
    <3>3. \A r \in rows : r.stamp # clock
      <4>1. clock \in Nat /\ \A r \in rows : r.stamp \in Nat /\ r.stamp < clock
        BY MaxStampAssumption DEF TypeOK, Rows
      <4> QED BY <4>1
    <3> QED BY <3>1, <3>2, <3>3 DEF Stamped
  <2>2. ASSUME NEW r \in rows, DeleteRecord(r) PROVE Stamped'
    BY <2>2, FS_RemoveElement DEF DeleteRecord, Stamped
  <2>3. CASE UNCHANGED rows
    BY <2>3 DEF Stamped
  <2>4. \/ \E k \in Keys : InsertRecord(k)
        \/ \E r \in rows : DeleteRecord(r)
        \/ UNCHANGED rows
    BY DEF Next, Fetch, GetRecords, GetRecordsThrows, GetNext, FetchNone, FetchThrows,
       FetchFails, CloseIterator, CloseIteratorThrows, EndContext, Crash, Halted, vars, rowVars
  <2> QED BY <2>1, <2>2, <2>3, <2>4
<1> QED BY <1>1, <1>2, TypeCorrect, PTL DEF Spec

\* As long as records are ahead of it, a cursor has one record to move to, and only
\* one.
CursorFindsNext ==
  scanning /\ cursor = "open" /\ Ahead # {} =>
    \E r \in Ahead : IsFirst(r, Ahead) /\ \A s \in Ahead : IsFirst(s, Ahead) => s = r

\* A running GetNext is never stuck: with a cursor it can fetch the next record or
\* find that there is none, and which record that is nobody chooses.
THEOREM CursorFindsNextAlways == Spec => []CursorFindsNext
<1>1. TypeOK /\ Stamped => CursorFindsNext
  <2> SUFFICES ASSUME TypeOK, Stamped, Ahead # {}
               PROVE  \E r \in Ahead : /\ IsFirst(r, Ahead)
                                       /\ \A s \in Ahead : IsFirst(s, Ahead) => s = r
    BY DEF CursorFindsNext
  <2>1. Ahead \in SUBSET [key : Keys, stamp : Nat] /\ IsFiniteSet(Ahead)
    BY AheadOfRows, RowsAreRecords, FS_Subset DEF TypeOK, Stamped
  <2>2. \A r, s \in Ahead : r.stamp = s.stamp => r = s
    BY AheadOfRows DEF Stamped
  <2>3. PICK r \in Ahead : IsFirst(r, Ahead)
    BY <2>1, <2>2, FirstRecord DEF IsFirst
  <2>4. ASSUME NEW s \in Ahead, IsFirst(s, Ahead) PROVE s = r
    <3>1. s = r \/ (Precedes(r, s) /\ Precedes(s, r))
      BY <2>3, <2>4 DEF IsFirst
    <3> QED BY <2>1, <3>1, PrecedesTransitive, PrecedesIrreflexive
  <2> QED BY <2>3, <2>4
<1> QED BY <1>1, StampedAlways, TypeCorrect, PTL

\* What a step of a running GetNext does to the records ahead.
LEMMA RunningSteps ==
  ASSUME TypeOK, Next, scanning, scanning'
  PROVE  \/ \E k \in Keys : InsertRecord(k)
         \/ \E r \in rows : DeleteRecord(r)
         \/ EndContext
         \/ Crash /\ fault' # fault
         \/ UNCHANGED vars
         \/ \E r \in rows : Fetch(r) /\ UNCHANGED cursor
<1>1. status = "open" /\ (fault = "none" \/ UNCHANGED vars)
  BY DEF TypeOK, Next, Halted
<1>2. ~ (GetNext \/ FetchNone \/ FetchThrows \/ FetchFails \/ CloseIterator
           \/ CloseIteratorThrows \/ GetRecordsThrows)
  BY <1>1 DEF GetNext, FetchNone, FetchThrows, FetchFails, CloseIterator,
     CloseIteratorThrows, GetRecordsThrows, Ended, Answer
<1>3. \A range \in Ranges : ~ GetRecords(range[1], range[2])
  BY <1>1 DEF GetRecords
<1>4. \A r \in rows : Fetch(r) => UNCHANGED cursor
  BY DEF Fetch, Ended, Answer
<1>5. fault = "none" /\ Crash => fault' # fault
  BY DEF Crash
<1> QED BY <1>1, <1>2, <1>3, <1>4, <1>5 DEF Next, Halted

\* Fetch leaves the record it has found behind, and nothing new is ahead.
LEMMA FetchConsumes ==
  ASSUME TypeOK, NEW r \in rows, Fetch(r)
  PROVE  Ahead' \subseteq Ahead /\ r \in Ahead \ Ahead'
<1>1. /\ rows \subseteq [key : Keys, stamp : Nat] /\ pos \in [key : Keys, stamp : Nat]
      /\ BDBKey(minKey) \in Keys
  BY RowsAreRecords, BDBKeyType DEF TypeOK
<1>2. r \in Ahead /\ Ahead' = {s \in rows : Precedes(r, s)}
  BY DEF Fetch, Ahead, rowVars
<1>3. ~ Precedes(r, r)
  BY <1>1, PrecedesIrreflexive
<1>4. ASSUME NEW s \in rows, Precedes(r, s) PROVE s \in Ahead
  <2>1. CASE initialized
    BY <1>1, <1>2, <1>4, <2>1, PrecedesTransitive DEF Ahead
  <2>2. CASE ~initialized
    <3>1. ~ Less(r.key, BDBKey(minKey))
      BY <1>2, <2>2 DEF Ahead
    <3>2. Less(r.key, s.key) \/ r.key = s.key
      BY <1>4 DEF Precedes
    <3>3. ~ Less(s.key, BDBKey(minKey))
      BY <1>1, <3>1, <3>2, LessTransitive
    <3> QED BY <2>2, <3>3 DEF Ahead
  <2> QED BY <2>1, <2>2
<1> QED BY <1>2, <1>3, <1>4

LEMMA ForwardStep ==
  ASSUME TypeOK, Next, scanning, scanning'
  PROVE  /\ Ahead' \subseteq Ahead \cup (rows' \ rows)
         /\ UNCHANGED <<rows, cursor, fault>> =>
              UNCHANGED vars \/ (Ahead' \subseteq Ahead /\ pos' \in Ahead \ Ahead')
<1>1. ASSUME NEW r \in rows, Fetch(r)
      PROVE  Ahead' \subseteq Ahead /\ pos' \in Ahead \ Ahead'
  BY <1>1, FetchConsumes DEF Fetch
<1>2. ASSUME NEW k \in Keys, InsertRecord(k)
      PROVE  Ahead' \subseteq Ahead \cup (rows' \ rows) /\ rows' # rows
  <2>1. [key |-> k, stamp |-> clock] \notin rows
    <3>1. clock \in Nat /\ \A r \in rows : r.stamp \in Nat /\ r.stamp < clock
      BY MaxStampAssumption DEF TypeOK, Rows
    <3> QED BY <3>1
  <2> QED BY <1>2, <2>1 DEF InsertRecord, Ahead, keyVars, iterVars
<1>3. ASSUME NEW r \in rows, DeleteRecord(r)
      PROVE  Ahead' \subseteq Ahead /\ rows' # rows
  BY <1>3 DEF DeleteRecord, Ahead, keyVars, iterVars
<1>4. EndContext => Ahead' = Ahead /\ cursor' # cursor
  BY DEF EndContext, Ahead, rowVars, keyVars
<1>5. Crash => Ahead' = Ahead
  BY DEF Crash, Ahead, rowVars, keyVars, iterVars
<1>6. UNCHANGED vars => Ahead' = Ahead
  BY DEF Ahead, vars, rowVars, keyVars, iterVars
<1> QED BY <1>1, <1>2, <1>3, <1>4, <1>5, <1>6, RunningSteps

\* A running GetNext never looks at a record twice.
THEOREM OnlyForwardAlways == Spec => OnlyForward
<1>1. TypeOK /\ [Next]_vars
        => [scanning /\ scanning' =>
              /\ Ahead' \subseteq Ahead \cup (rows' \ rows)
              /\ UNCHANGED <<rows, cursor, fault>> => pos' \in Ahead \ Ahead']_vars
  BY ForwardStep
<1> QED BY <1>1, TypeCorrect, PTL DEF Spec, OnlyForward

\* The measure of the loop of GetNext: the number of records ahead.
Measure ==
  [][scanning /\ scanning' /\ UNCHANGED <<rows, cursor, fault>>
       => Cardinality(Ahead') < Cardinality(Ahead)]_vars

\* Every round of the loop of GetNext has fewer records ahead than the one before,
\* unless somebody inserts one: this is why it comes to an answer, for any number of
\* records.
THEOREM MeasureDecreases == Spec => Measure
<1>1. TypeOK /\ Stamped /\ [Next]_vars
        => [scanning /\ scanning' /\ UNCHANGED <<rows, cursor, fault>>
              => Cardinality(Ahead') < Cardinality(Ahead)]_vars
  <2> SUFFICES ASSUME TypeOK, Stamped, Next, ~ UNCHANGED vars, scanning, scanning',
                      UNCHANGED <<rows, cursor, fault>>
               PROVE  Cardinality(Ahead') < Cardinality(Ahead)
    OBVIOUS
  <2>1. Ahead' \subseteq Ahead /\ Ahead' # Ahead
    BY ForwardStep
  <2>2. IsFiniteSet(Ahead)
    BY AheadOfRows, FS_Subset DEF Stamped
  <2>3. IsFiniteSet(Ahead') /\ Cardinality(Ahead') \in Nat /\ Cardinality(Ahead) \in Nat
    BY <2>1, <2>2, FS_Subset, FS_CardinalityType
  <2>4. Cardinality(Ahead') <= Cardinality(Ahead)
    BY <2>1, <2>2, FS_Subset
  <2>5. Cardinality(Ahead') # Cardinality(Ahead)
    BY <2>1, <2>2, FS_Subset
  <2> QED BY <2>3, <2>4, <2>5
<1> QED BY <1>1, StampedAlways, TypeCorrect, PTL DEF Spec, Measure

-----------------------------------------------------------------------------

\* With a varchar wildcard in the minimum, a record with the least key of the range
\* is not found, if the range has a key at all.
LeastHidden ==
  status = "open" /\ WildVarchar /\ (\E k \in Keys : InRange(k, minKey, maxKey)) =>
    /\ LeastKey(minKey) \in Keys /\ InRange(LeastKey(minKey), minKey, maxKey)
    /\ \A r \in returned : r.key # LeastKey(minKey)

\* The disagreement of a varchar wildcard is there for every index with a varchar and
\* for every range: no scan returns its least key.
THEOREM LeastHiddenAlways == ASSUME Fill > 0 PROVE Spec => []LeastHidden
<1>1. IInv => LeastHidden
  <2> SUFFICES ASSUME IInv, WildVarchar, NEW k \in Keys, InRange(k, minKey, maxKey)
               PROVE  /\ LeastKey(minKey) \in Keys
                      /\ InRange(LeastKey(minKey), minKey, maxKey)
                      /\ \A r \in returned : r.key # LeastKey(minKey)
    BY DEF LeastHidden
  <2>1. minKey \in Patterns /\ maxKey \in Patterns /\ Bounded
    BY DEF IInv, TypeOK
  <2>2. /\ LeastKey(minKey) \in Keys /\ InRange(LeastKey(minKey), minKey, maxKey)
        /\ Less(LeastKey(minKey), BDBKey(minKey))
    BY <2>1, WildcardSkipsLeast DEF WildVarchar
  <2> QED BY <2>1, <2>2 DEF Bounded
<1> QED BY <1>1, Inductive, PTL
====
