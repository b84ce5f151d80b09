------------------------------ MODULE RangeScan ------------------------------
(***************************************************************************)
(* GetRecords, GetNext and CloseIterator: the scan of a key range by an    *)
(* iterator, while other calls insert and delete records.                  *)
(*                                                                         *)
(* GetNext moves a Berkeley DB cursor until it stands on a record that     *)
(* CheckBounds accepts, the first attribute is beyond the maximum, or no   *)
(* record is left.  A step is one cursor call and the check of the record  *)
(* it found.  The cursor is read committed: the records it will come to    *)
(* may change at any time.  Iterators share nothing but the records, so    *)
(* one is modelled and everything else is the environment.                 *)
(*                                                                         *)
(* A behaviour is cut at the first undefined behaviour ("fault").          *)
(***************************************************************************)
EXTENDS Keys

CONSTANTS Ranges,    \* the ranges GetRecords is asked for: <<min, max>>
          MaxStamp   \* bound on the number of insertions

ASSUME RangesAssumption   == Ranges \subseteq Patterns \X Patterns
ASSUME MaxStampAssumption == MaxStamp \in Nat

VARIABLES
  rows,         \* the records of the index
  clock,        \* the stamp of the next insertion
  status,       \* of the iterator: none, open (closed_ = false) or closed
  minKey,       \* Iterator::min_key_
  maxKey,       \* Iterator::max_key_
  cursor,       \* Iterator::cursor_: null, open, freed by Berkeley DB, or
                \* broken (Dbc::close has thrown, it may not be used)
  initialized,  \* Iterator::initialized_
  end,          \* Iterator::end_
  pos,          \* the record the cursor stands on
  scanning,     \* a GetNext is running
  answer,       \* the code of the last call on the iterator
  returned,     \* history: the records GetNext has returned
  owed,         \* history: the records in the index ever since GetRecords
  fault         \* the first undefined behaviour

rowVars  == <<rows, clock>>
keyVars  == <<minKey, maxKey>>
iterVars == <<status, cursor, initialized, end, pos>>
vars     == <<rowVars, keyVars, iterVars, scanning, answer, returned, owed, fault>>

Rows    == [key : Keys, stamp : 0..MaxStamp]
Answers == {"none", "ok", "not_found", "failed", "iterator_closed", "thrown"}
Faults  == {"none", "null_cursor", "cursor_freed", "cursor_broken"}

\* The values of fields that nothing reads.
AnyKey == [c \in 1..Columns |-> Null]
AnyRow == [key |-> [c \in 1..Columns |-> 0], stamp |-> 0]

Init ==
  /\ rows = {} /\ clock = 0
  /\ status = "none"
  /\ minKey = AnyKey /\ maxKey = AnyKey
  /\ cursor = "null" /\ initialized = FALSE /\ end = FALSE /\ pos = AnyRow
  /\ scanning = FALSE
  /\ answer = "none"
  /\ returned = {} /\ owed = {}
  /\ fault = "none"

-----------------------------------------------------------------------------
(* Helpers.                                                                *)

\* Mutant: DB_SET_RANGE again on every call.
RangeAgain == {r \in rows : ~ Less(r.key, BDBKey(minKey))}

\* The records DB_SET_RANGE, the first time, and later DB_NEXT choose from; the
\* cursor goes to the first of them.
Ahead == IF initialized THEN {r \in rows : Precedes(pos, r)}
                        ELSE {r \in rows : ~ Less(r.key, BDBKey(minKey))}

IsFirst(r, S) == \A s \in S : s = r \/ Precedes(r, s)

\* Mutant: only the first attribute is checked.
FirstWithinMax(k) == 1 \notin Above(k, maxKey)

\* CheckBounds accepts the key.
WithinMax(k) == Above(k, maxKey) = {}

\* Mutant: any attribute above the maximum ends the scan.
AnyAbove(k) == Above(k, maxKey) # {}

\* CheckBounds reports index 0: all following keys are above the maximum.
Overrun(k) == 1 \in Above(k, maxKey)

\* Mutant: the cursor stays open.
SetEndedOnly == end' = TRUE /\ UNCHANGED cursor

\* SetEnded closes the cursor.  Dbc::close may throw: cursor_ keeps the cursor, which
\* may not be used again.
SetEnded == end' = TRUE /\ cursor' \in {"null", "broken"}

Answer(code) == scanning' = FALSE /\ answer' = code

\* The scan has come to its end: kErrorNotFound, or what is caught of SetEnded.
Ended == SetEnded /\ Answer(IF cursor' = "null" THEN "not_found" ELSE "failed")

-----------------------------------------------------------------------------
(* The rest of the program: InsertRecord and DeleteRecord of any           *)
(* transaction, CloseIndex, CommitTransaction and AbortTransaction.        *)

InsertRecord(k) ==
  /\ clock < MaxStamp
  /\ rows' = rows \cup {[key |-> k, stamp |-> clock]}
  /\ clock' = clock + 1
  /\ UNCHANGED <<keyVars, iterVars, scanning, answer, returned, owed, fault>>

DeleteRecord(r) ==
  /\ rows' = rows \ {r}
  /\ owed' = owed \ {r}
  /\ UNCHANGED <<clock, keyVars, iterVars, scanning, answer, returned, fault>>

\* CloseIndex (Close does not close the iterators of the handle), the end of the
\* transaction, or DeleteIndex of another thread, which asks for writers only
\* and closes the handle under a running GetNext: the cursor is gone, the
\* iterator does not know.
EndContext ==
  /\ cursor = "open"
  /\ cursor' = "freed"
  /\ UNCHANGED <<rowVars, keyVars, status, initialized, end, pos, scanning, answer,
                 returned, owed, fault>>

-----------------------------------------------------------------------------
(* The iterator.                                                           *)

\* GetRecords makes the iterator.
GetRecords(min, max) ==
  /\ status = "none"
  /\ status' = "open"
  /\ minKey' = min /\ maxKey' = max
  /\ cursor' = "open"
  /\ owed' = rows
  /\ answer' = "ok"
  /\ UNCHANGED <<rowVars, initialized, end, pos, scanning, returned, fault>>

\* GetRecords; Db::cursor throws.
GetRecordsThrows ==
  /\ status = "none"
  /\ answer' = "failed"
  /\ UNCHANGED <<rowVars, keyVars, iterVars, scanning, returned, owed, fault>>

\* GetNext is called.
GetNext ==
  /\ ~scanning
  /\ status = "open" => cursor \in {"null", "open"}
  /\ IF status = "open" THEN scanning' = TRUE /\ UNCHANGED answer
                        ELSE Answer("iterator_closed")
  /\ UNCHANGED <<rowVars, keyVars, iterVars, returned, owed, fault>>

\* Dbc::get finds record r: it is returned, or the scan ends there, or the
\* cursor goes on.
Fetch(r) ==
  /\ scanning /\ cursor = "open"
  /\ r \in Ahead /\ IsFirst(r, Ahead)
  /\ pos' = r /\ initialized' = TRUE
  /\ IF WithinMax(r.key)
     THEN Answer("ok") /\ returned' = returned \cup {r} /\ UNCHANGED <<end, cursor>>
     ELSE /\ IF Overrun(r.key) THEN Ended
                               ELSE UNCHANGED <<end, cursor, scanning, answer>>
          /\ UNCHANGED returned
  /\ UNCHANGED <<rowVars, keyVars, status, owed, fault>>

\* Dbc::get finds no record.
FetchNone ==
  /\ scanning /\ cursor = "open"
  /\ Ahead = {}
  /\ initialized' = TRUE
  /\ Ended
  /\ UNCHANGED <<rowVars, keyVars, status, pos, returned, owed, fault>>

\* Dbc::get throws: the cursor stays where it was, GetNext may be called again.
FetchThrows ==
  /\ scanning /\ cursor = "open"
  /\ Answer("failed")
  /\ UNCHANGED <<rowVars, keyVars, iterVars, returned, owed, fault>>

\* Dbc::get returns some other error: the iterator is closed, if its cursor can be.
FetchFails ==
  /\ scanning /\ cursor = "open"
  /\ initialized' = TRUE
  /\ SetEnded
  /\ status' = IF cursor' = "null" THEN "closed" ELSE status
  /\ Answer("failed")
  /\ UNCHANGED <<rowVars, keyVars, pos, returned, owed, fault>>

\* Close, unless the iterator is closed already, and delete.
CloseIterator ==
  /\ status # "none" /\ ~scanning
  /\ status = "open" => cursor \in {"null", "open"}
  /\ status' = "none"
  /\ minKey' = AnyKey /\ maxKey' = AnyKey
  /\ cursor' = "null" /\ initialized' = FALSE /\ end' = FALSE /\ pos' = AnyRow
  /\ returned' = {} /\ owed' = {}
  /\ answer' = IF status = "open" THEN "ok" ELSE "iterator_closed"
  /\ UNCHANGED <<rowVars, scanning, fault>>

\* Dbc::close throws in Close: CloseIterator has no handler, the exception goes to the
\* caller, who keeps a closed iterator.
CloseIteratorThrows ==
  /\ status = "open" /\ ~scanning /\ cursor = "open"
  /\ status' = "closed" /\ cursor' = "broken"
  /\ answer' = "thrown"
  /\ UNCHANGED <<rowVars, keyVars, initialized, end, pos, scanning, returned, owed, fault>>

\* GetNext goes through cursor_ after the end of the scan, GetNext and
\* CloseIterator after Berkeley DB has freed the cursor, or has failed to close it.
Crash ==
  /\ \/ scanning /\ cursor = "null" /\ fault' = "null_cursor"
     \/ status = "open" /\ cursor = "freed" /\ fault' = "cursor_freed"
     \/ status = "open" /\ cursor = "broken" /\ fault' = "cursor_broken"
  /\ UNCHANGED <<rowVars, keyVars, iterVars, scanning, answer, returned, owed>>

Halted == fault # "none" /\ UNCHANGED vars

Next ==
  \/ /\ fault = "none"
     /\ \/ \E k \in Keys : InsertRecord(k)
        \/ \E r \in rows : DeleteRecord(r) \/ Fetch(r)
        \/ \E range \in Ranges : GetRecords(range[1], range[2])
        \/ GetRecordsThrows \/ GetNext \/ FetchNone \/ FetchThrows \/ FetchFails
        \/ CloseIterator \/ CloseIteratorThrows \/ EndContext \/ Crash
  \/ Halted

\* The steps a running GetNext takes on its own.
Step ==
  /\ scanning
  /\ (\E r \in rows : Fetch(r)) \/ FetchNone \/ Crash

\* The thread of a running GetNext is scheduled; no failure has to come to its
\* help, and nobody has to call it.
Fairness == WF_vars(fault = "none" /\ Step)

Spec     == Init /\ [][Next]_vars
FairSpec == Spec /\ Fairness

-----------------------------------------------------------------------------
(* Properties.                                                             *)

\* Types, and the states of an iterator: it has no cursor to use once its scan has
\* ended, none at all only then, and a running GetNext means an open iterator.
TypeOK ==
  /\ rows \subseteq Rows /\ clock \in 0..MaxStamp
  /\ \A r \in rows : r.stamp < clock
  /\ status \in {"none", "open", "closed"}
  /\ minKey \in Patterns /\ maxKey \in Patterns
  /\ cursor \in {"null", "open", "freed", "broken"}
  /\ initialized \in BOOLEAN /\ end \in BOOLEAN /\ scanning \in BOOLEAN
  /\ pos \in Rows
  /\ answer \in Answers
  /\ returned \subseteq Rows /\ owed \subseteq rows
  /\ fault \in Faults
  /\ scanning => status = "open"
  /\ cursor = "open" => status = "open" /\ ~end
  /\ status = "open" /\ cursor = "null" => end
  /\ status = "none" => cursor = "null" /\ ~end /\ ~initialized /\ returned = {}

\* A varchar of the minimum is a wildcard.
WildVarchar == \E c \in Varchars : minKey[c] = Null

\* What an open scan promises: the records of the range; with a varchar wildcard in
\* the minimum, only from the converted minimum on, in the order of the B-tree.
Promised(r) == /\ InRange(r.key, minKey, maxKey)
               /\ WildVarchar => ~ Less(r.key, BDBKey(minKey))

\* When GetNext answers kErrorNotFound it has returned every promised record that
\* was in the index all the time, whatever was inserted and deleted meanwhile and
\* however often a deadlock had to be retried.
Complete == status = "open" /\ cursor = "null" => \A r \in owed : Promised(r) => r \in returned

\* "n records with the same key are retrieved by n successive GetNext() calls",
\* in ascending order: a record that GetNext returns comes after all it has
\* returned before.
Ascending ==
  [][scanning /\ answer' = "ok" /\ ~scanning'
       => \A r \in returned : Precedes(r, pos')]_vars

\* Every record returned lies between the converted minimum, in the order of the
\* B-tree, and the maximum, in every attribute.
Bounded ==
  \A r \in returned : /\ ~ Less(r.key, BDBKey(minKey))
                      /\ Above(r.key, maxKey) = {}

\* A running GetNext that goes on leaves the record it has refused behind for good:
\* only insertions add to what is ahead of the cursor.
OnlyForward ==
  [][scanning /\ scanning' =>
       /\ Ahead' \subseteq Ahead \cup (rows' \ rows)
       /\ UNCHANGED <<rows, cursor, fault>> => pos' \in Ahead \ Ahead']_vars

\* The loop of GetNext over the records that CheckBounds refuses ends: GetNext
\* answers, unless the program has failed, whatever is deleted meanwhile and as
\* long as not ever more records are inserted ahead of the cursor.
GetNextReturns == scanning ~> ~scanning \/ fault # "none"

\* "All open iterators that use the specified index handle will be closed": a
\* call on one is answered kErrorIteratorClosed, not a use of its cursor.
ClosedWithHandle == fault # "cursor_freed"

====
