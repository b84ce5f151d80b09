---------------------------- MODULE RecordsProofs ----------------------------
(***************************************************************************)
(* Proofs about Records, for all keys, payloads and numbers of insertions  *)
(* and of threads: no record that matches all the time is missed, and      *)
(* without kMatchDuplicates the index keeps its promise.                   *)
(*                                                                         *)
(* A deletion under way adds to the types what its cursor has behind it    *)
(* (Inside) and has still to come to (OwedAhead).                          *)
(***************************************************************************)
EXTENDS Records, KeysProofs, FunctionTheorems

-----------------------------------------------------------------------------
(* The cursor.                                                             *)

LEMMA RowsAreRecords ==
  ASSUME NEW r \in Rows PROVE r.key \in Keys /\ r.stamp \in Nat /\ r.payload \in Payloads
  BY MaxStampAssumption DEF Rows

\* The record the cursor starts at matches, and comes before all others that do.
LEMMA FoundMatches ==
  ASSUME TypeOK, NEW q \in Calls, NEW r \in Found(q)
  PROVE  /\ r \in Guarantee!Matching(q)
         /\ \A s \in Guarantee!Matching(q) : s = r \/ Precedes(r, s)
<1>1. r \in Candidates(q) /\ r.key = q.key /\ r \in First(Candidates(q)) /\ q.key \in Keys
  BY DEF Found, First, Calls
<1>2. Guarantee!Matching(q) \subseteq Candidates(q)
  BY <1>1, LessIrreflexive DEF Guarantee!Matching, Guarantee!Matches, Candidates
<1>3. r \in Guarantee!Matching(q)
  BY <1>1 DEF Guarantee!Matching, Guarantee!Matches, Candidates
<1> QED BY <1>1, <1>2, <1>3 DEF First

\* When the cursor finds nothing, or a record with another key, nothing matches.
LEMMA NoneFoundNoneMatches ==
  ASSUME TypeOK, NEW q \in Calls, NoneFound(q)
  PROVE  Guarantee!Matching(q) = {}
<1> SUFFICES ASSUME NEW s \in Guarantee!Matching(q) PROVE FALSE
  OBVIOUS
<1>1. s \in Candidates(q) /\ s.key = q.key
  BY LessIrreflexive DEF Guarantee!Matching, Guarantee!Matches, Candidates, Calls
<1>2. PICK r \in First(Candidates(q)) : r.key # q.key
  BY <1>1 DEF NoneFound
<1>3. r \in Candidates(q) /\ Precedes(r, s) /\ r.key # s.key
  BY <1>1, <1>2 DEF First
<1>4. Less(r.key, q.key)
  BY <1>1, <1>3 DEF Precedes
<1>5. CASE "kIgnorePayload" \in q.flags
  BY <1>3, <1>4, <1>5 DEF Candidates
<1>6. CASE "kIgnorePayload" \notin q.flags
  BY <1>2, <1>3, <1>6 DEF Candidates
<1> QED BY <1>5, <1>6

\* What a modification finds and affects is in the index.
LEMMA AffectedInIndex ==
  ASSUME NEW q, NEW r \in Found(q)
  PROVE  r \in rows /\ r \in Affected(r, q) /\ Affected(r, q) \subseteq rows
  BY DEF Found, First, Candidates, Affected, Further

\* It has the key asked for, or comes after it; and it has the key asked for when the
\* payload is not ignored.
LEMMA AffectedAtOrAfter ==
  ASSUME TypeOK, NEW q \in Calls, NEW r \in Found(q), NEW s \in Affected(r, q)
  PROVE  /\ ~ Less(s.key, q.key)
         /\ "kIgnorePayload" \notin q.flags => s.key = q.key
<1>1. r.key = q.key /\ q.key \in Keys /\ r \in rows /\ s \in rows /\ s.key \in Keys
  <2>1. r.key = q.key /\ q.key \in Keys
    BY DEF Found, Calls
  <2>2. r \in rows /\ s \in rows
    BY AffectedInIndex
  <2> QED BY <2>1, <2>2 DEF TypeOK, Rows
<1>2. CASE s = r
  BY <1>1, <1>2, LessIrreflexive
<1>3. CASE s # r
  <2>1. Precedes(r, s) /\ ("kIgnorePayload" \notin q.flags => s.key = q.key)
    BY <1>1, <1>3 DEF Affected, Further
  <2>2. Less(q.key, s.key) \/ s.key = q.key
    BY <1>1, <2>1 DEF Precedes
  <2> QED BY <1>1, <2>1, <2>2, LessTransitive, LessIrreflexive
<1> QED BY <1>2, <1>3

LEMMA RequestType ==
  ASSUME NEW o \in Ops, NEW k \in Keys, NEW p \in Payloads, NEW flags \in FlagSets \cup {{}},
         NEW new \in Payloads
  PROVE  Request(o, k, p, flags, new) \in Calls
  BY DEF Request, Calls

\* The steps, with the calls they are steps of.
LEMMA Steps ==
  ASSUME Next
  PROVE  \/ \E k \in Keys, p \in Payloads : InsertRecord(k, p)
         \/ \E q \in Calls : FindNothing(q) \/ UpdateRecord(q) \/ DeleteRecord(q)
         \/ \E t \in Threads, q \in Calls : DeleteFirst(t, q)
         \/ \E t \in Threads : DeleteNext(t) \/ EndDelete(t)
<1>1. ASSUME NEW k \in Keys, NEW p \in Payloads, NEW flags \in FlagSets
      PROVE  /\ Request("delete", k, p, flags, p) \in Calls
             /\ \A new \in Payloads : Request("update", k, p, flags, new) \in Calls
  BY RequestType DEF Ops
<1> QED BY <1>1 DEF Next, Delete, Update

-----------------------------------------------------------------------------
(* Types.                                                                  *)

\* The records, and the stamps that tell them apart.
RowsOK == /\ rows \subseteq Rows /\ clock \in 0..MaxStamp
          /\ \A r \in rows : r.stamp < clock
          /\ \A r, s \in rows : r.stamp = s.stamp => r = s

\* The deletions under way.
DeletionsOK == /\ deletion \in [Threads -> Calls \cup {None}]
               /\ taken \in [Threads -> SUBSET rows]
               /\ \A t \in Threads : deletion[t] = None <=> taken[t] = {}
               /\ \A t, u \in Threads : t # u => taken[t] \cap taken[u] = {}

\* An update, of whatever records, leaves the stamps alone.
LEMMA ChangeKeepsRows ==
  ASSUME RowsOK, NEW S \in SUBSET rows, NEW new \in Payloads, Change(S, new), UNCHANGED clock
  PROVE  RowsOK' /\ rows \ S \subseteq rows'
<1>1. \A s \in rows : /\ [s EXCEPT !.payload = new] \in Rows
                      /\ [s EXCEPT !.payload = new].stamp = s.stamp
  BY DEF Rows, RowsOK
<1>2. \A u \in rows' : \E s \in rows :
        /\ u.stamp = s.stamp /\ u \in Rows
        /\ u = IF s \in S THEN [s EXCEPT !.payload = new] ELSE s
  BY <1>1 DEF Change, RowsOK
<1>3. rows \ S \subseteq rows'
  BY DEF Change
<1> QED BY <1>2, <1>3 DEF RowsOK

\* The records stay well-formed when some go.
LEMMA LossKeepsRows ==
  ASSUME RowsOK, rows' \subseteq rows, UNCHANGED clock
  PROVE  RowsOK'
  BY DEF RowsOK

\* A deletion stays what it is as long as nobody takes away what it has deleted.
LEMMA KeepsDeletions ==
  ASSUME DeletionsOK, UNCHANGED deletions, \A t \in Threads : taken[t] \subseteq rows'
  PROVE  DeletionsOK'
  BY DEF DeletionsOK, deletions

LEMMA TypeOKStep ==
  ASSUME TypeOK, [Next]_vars
  PROVE  TypeOK'
<1>1. RowsOK /\ DeletionsOK /\ owed \in [Threads -> SUBSET rows] /\ call \in Calls
      /\ answer \in {"none", "ok", "not_found", "failed"}
  BY DEF TypeOK, RowsOK, DeletionsOK
<1> SUFFICES /\ RowsOK' /\ DeletionsOK' /\ (owed \in [Threads -> SUBSET rows])'
             /\ call' \in Calls /\ answer' \in {"none", "ok", "not_found", "failed"}
  BY DEF TypeOK, RowsOK, DeletionsOK
<1>2. Keep => owed' \in [Threads -> SUBSET rows']
  BY DEF Keep, Still
<1>3. ASSUME NEW k \in Keys, NEW p \in Payloads, InsertRecord(k, p)
      PROVE  RowsOK' /\ DeletionsOK' /\ call' \in Calls
  <2>1. clock \in 0..MaxStamp /\ clock + 1 \in 0..MaxStamp /\ clock \in Nat
    BY <1>1, <1>3, MaxStampAssumption DEF InsertRecord, RowsOK
  <2>2. [key |-> k, stamp |-> clock, payload |-> p] \in Rows
    BY <2>1 DEF Rows
  <2>3. \A r \in rows : r.stamp \in Nat /\ r.stamp < clock /\ r.stamp # clock
    BY <1>1, <2>1, RowsAreRecords DEF RowsOK
  <2>4. (\A r \in rows : r.stamp < clock)'
    BY <1>3, <2>1, <2>3 DEF InsertRecord
  <2>5. (\A r, s \in rows : r.stamp = s.stamp => r = s)'
    BY <1>1, <1>3, <2>3 DEF InsertRecord, RowsOK
  <2>6. RowsOK'
    BY <1>1, <1>3, <2>1, <2>2, <2>4, <2>5 DEF InsertRecord, RowsOK
  <2>7. DeletionsOK'
    BY <1>1, <1>3, KeepsDeletions DEF InsertRecord, DeletionsOK
  <2>8. call' \in Calls
    BY <1>3, RequestType DEF InsertRecord, Ops
  <2> QED BY <2>6, <2>7, <2>8
<1>4. ASSUME NEW q \in Calls, UpdateRecord(q)
      PROVE  RowsOK' /\ DeletionsOK'
  <2>1. PICK r \in Found(q) :
          \E S \in SUBSET Affected(r, q) : Unlocked(S) /\ Change(S, q.new)
    BY <1>4 DEF UpdateRecord, Prefixes
  <2>2. PICK S \in SUBSET Affected(r, q) : Unlocked(S) /\ Change(S, q.new)
    BY <2>1
  <2>3. S \in SUBSET rows /\ q.new \in Payloads /\ UNCHANGED clock
    BY <1>4, <2>2, AffectedInIndex DEF Calls, UpdateRecord
  <2>4. RowsOK' /\ rows \ S \subseteq rows'
    BY <1>1, <2>2, <2>3, ChangeKeepsRows
  <2>5. DeletionsOK'
    BY <1>1, <1>4, <2>2, <2>4, KeepsDeletions DEF UpdateRecord, DeletionsOK, Unlocked
  <2> QED BY <2>4, <2>5
<1>5. ASSUME NEW q \in Calls, DeleteRecord(q)
      PROVE  RowsOK' /\ DeletionsOK'
  <2>1. PICK r \in Found(q) : Unlocked({r}) /\ rows' = rows \ {r}
    BY <1>5 DEF DeleteRecord
  <2>2. RowsOK'
    BY <1>1, <1>5, <2>1, LossKeepsRows DEF DeleteRecord
  <2>3. DeletionsOK'
    BY <1>1, <1>5, <2>1, KeepsDeletions DEF DeleteRecord, DeletionsOK, Unlocked
  <2> QED BY <2>2, <2>3
<1>6. ASSUME NEW t \in Threads, NEW q \in Calls, DeleteFirst(t, q)
      PROVE  RowsOK' /\ DeletionsOK' /\ owed' \in [Threads -> SUBSET rows']
  <2>1. PICK r \in Found(q) : Unlocked({r}) /\ taken' = [taken EXCEPT ![t] = {r}]
    BY <1>6 DEF DeleteFirst
  <2>2. r \in rows
    BY AffectedInIndex
  <2>3. UNCHANGED <<rows, clock>> /\ deletion' = [deletion EXCEPT ![t] = q]
    BY <1>6 DEF DeleteFirst
  <2>4. DeletionsOK'
    BY <1>1, <2>1, <2>2, <2>3, NoneAssumption DEF DeletionsOK, Unlocked
  <2> QED BY <1>1, <1>6, <2>3, <2>4 DEF DeleteFirst, RowsOK
<1>7. ASSUME NEW t \in Threads, DeleteNext(t)
      PROVE  RowsOK' /\ DeletionsOK'
  <2>1. PICK r \in First(Further(taken[t], deletion[t])) :
          Unlocked({r}) /\ taken' = [taken EXCEPT ![t] = @ \cup {r}]
    BY <1>7 DEF DeleteNext
  <2>2. r \in rows
    BY DEF First, Further
  <2>3. UNCHANGED <<rows, clock, deletion>>
    BY <1>7 DEF DeleteNext
  <2>4. DeletionsOK'
    BY <1>1, <1>7, <2>1, <2>2, <2>3 DEF DeletionsOK, Unlocked, DeleteNext
  <2> QED BY <1>1, <2>3, <2>4 DEF RowsOK
<1>8. ASSUME NEW t \in Threads, EndDelete(t)
      PROVE  /\ RowsOK' /\ DeletionsOK' /\ owed' \in [Threads -> SUBSET rows']
             /\ call' \in Calls
  <2>1. rows' \in {rows, rows \ taken[t]} /\ UNCHANGED clock
    BY <1>8 DEF EndDelete
  <2>2. RowsOK'
    BY <1>1, <2>1, LossKeepsRows
  <2>3. DeletionsOK'
    BY <1>1, <1>8, <2>1 DEF EndDelete, DeletionsOK
  <2>4. owed' \in [Threads -> SUBSET rows']
    BY <1>8 DEF EndDelete, Still
  <2>5. call' \in Calls
    BY <1>1, <1>8 DEF EndDelete, DeletionsOK
  <2> QED BY <2>2, <2>3, <2>4, <2>5
<1>9. CASE UNCHANGED vars
  BY <1>1, <1>9 DEF vars, deletions, RowsOK, DeletionsOK
<1>10. ASSUME NEW q \in Calls, FindNothing(q)
       PROVE  RowsOK' /\ DeletionsOK'
  BY <1>1, <1>10 DEF FindNothing, deletions, RowsOK, DeletionsOK
<1>11. CASE Next
  <2>1. CASE \E k \in Keys, p \in Payloads : InsertRecord(k, p)
    BY <1>2, <1>3, <2>1 DEF InsertRecord
  <2>2. CASE \E q \in Calls : FindNothing(q) \/ UpdateRecord(q) \/ DeleteRecord(q)
    BY <1>1, <1>2, <1>4, <1>5, <1>10, <2>2 DEF FindNothing, UpdateRecord, DeleteRecord
  <2>3. CASE \E t \in Threads, q \in Calls : DeleteFirst(t, q)
    BY <1>1, <1>6, <2>3 DEF DeleteFirst
  <2>4. CASE \E t \in Threads : DeleteNext(t)
    BY <1>1, <1>7, <2>4 DEF DeleteNext
  <2>5. CASE \E t \in Threads : EndDelete(t)
    BY <1>8, <2>5 DEF EndDelete
  <2> QED BY <1>11, <2>1, <2>2, <2>3, <2>4, <2>5, Steps
<1> QED BY <1>9, <1>11

\* Types, and the stamps that tell records apart.
THEOREM TypeCorrect == Spec => []TypeOK
<1>1. Init => TypeOK
  BY MaxStampAssumption DEF Init, TypeOK
<1>2. TypeOK /\ [Next]_vars => TypeOK'
  BY TypeOKStep
<1> QED BY <1>1, <1>2, PTL DEF Spec

-----------------------------------------------------------------------------
(* Deletions under way.                                                    *)

\* What a deletion has taken has its key, or comes after it.
Inside ==
  \A t \in Threads : \A r \in taken[t] :
    /\ ~ Less(r.key, deletion[t].key)
    /\ "kIgnorePayload" \notin deletion[t].flags => r.key = deletion[t].key

\* What it is owed it has taken, or comes to.
OwedAhead ==
  \A t \in Threads : \A r \in owed[t] :
    /\ deletion[t] # None /\ Matches(r, deletion[t])
    /\ r \in taken[t] \/ r \in Further(taken[t], deletion[t])

IInv == TypeOK /\ Inside /\ OwedAhead

\* Whatever else happens to the records, a deletion comes to those that still match:
\* they are where they were.
LEMMA StillAhead ==
  ASSUME IInv, TypeOK', NEW t \in Threads, deletion'[t] = deletion[t], taken'[t] = taken[t],
         NEW r \in Still(t, owed[t])
  PROVE  /\ deletion'[t] # None /\ Matches(r, deletion'[t])
         /\ r \in taken'[t] \/ r \in Further(taken[t], deletion[t])'
<1>1. r \in rows' /\ Matches(r, deletion[t])
  BY DEF Still
<1>2. PICK s \in owed[t] : s.stamp = r.stamp
  BY DEF Still
<1>3. /\ deletion[t] # None /\ Matches(s, deletion[t])
      /\ s \in taken[t] \/ s \in Further(taken[t], deletion[t])
  BY DEF IInv, OwedAhead
<1>4. CASE s \in taken[t]
  <2>1. s \in rows'
    BY <1>4 DEF TypeOK
  <2>2. s = r
    BY <1>1, <1>2, <2>1 DEF TypeOK
  <2> QED BY <1>1, <1>3, <1>4, <2>2
<1>5. CASE s \in Further(taken[t], deletion[t])
  <2>1. r.key = s.key /\ r.stamp = s.stamp /\ r.key = deletion[t].key
    BY <1>1, <1>2, <1>3 DEF Matches
  <2>2. \A u \in taken[t] : Precedes(u, r)
    BY <1>5, <2>1 DEF Further, Precedes
  <2> QED BY <1>1, <1>3, <2>1, <2>2 DEF Further
<1> QED BY <1>3, <1>4, <1>5

LEMMA IInvStep ==
  ASSUME IInv, TypeOK', [Next]_vars
  PROVE  IInv'
<1> SUFFICES Inside' /\ OwedAhead'
  BY DEF IInv
<1>0. TypeOK /\ Inside /\ OwedAhead
  BY DEF IInv
<1>1. CASE Keep /\ UNCHANGED deletions
  <2>1. Inside'
    BY <1>0, <1>1 DEF Inside, deletions
  <2>2. \A t \in Threads : owed'[t] = Still(t, owed[t])
    BY <1>1 DEF Keep
  <2> QED BY <1>1, <2>1, <2>2, StillAhead DEF OwedAhead, deletions
<1>2. ASSUME NEW t \in Threads, NEW q \in Calls, DeleteFirst(t, q)
      PROVE  Inside' /\ OwedAhead'
  <2>1. PICK r \in Found(q) : taken' = [taken EXCEPT ![t] = {r}]
    BY <1>2 DEF DeleteFirst
  <2>2. /\ deletion' = [deletion EXCEPT ![t] = q] /\ rows' = rows /\ q # None
        /\ owed' = [owed EXCEPT ![t] = {s \in rows : Matches(s, q)}]
    BY <1>2, NoneAssumption DEF DeleteFirst
  <2>3. r \in rows /\ ~ Less(r.key, q.key) /\ r.key = q.key
    BY <1>0, AffectedInIndex, AffectedAtOrAfter DEF Found
  <2>4. \A s \in rows : Matches(s, q) => s = r \/ s \in Further({r}, q)
    BY <1>0, FoundMatches DEF Guarantee!Matching, Guarantee!Matches, Matches, Further
  <2>5. Inside'
    BY <1>0, <2>1, <2>2, <2>3 DEF Inside, TypeOK
  <2>6. \A S, c : Further(S, c)' = Further(S, c)
    BY <2>2 DEF Further
  <2>7. OwedAhead'
    <3> SUFFICES ASSUME NEW u \in Threads, NEW s \in owed'[u]
                 PROVE  /\ deletion'[u] # None /\ Matches(s, deletion'[u])
                        /\ s \in taken'[u] \/ s \in Further(taken'[u], deletion'[u])
      BY <2>6 DEF OwedAhead
    <3>1. CASE u = t
      BY <1>0, <2>1, <2>2, <2>4, <3>1 DEF TypeOK
    <3>2. CASE u # t
      BY <1>0, <2>1, <2>2, <3>2 DEF OwedAhead, TypeOK
    <3> QED BY <3>1, <3>2
  <2> QED BY <2>5, <2>7
<1>3. ASSUME NEW t \in Threads, DeleteNext(t)
      PROVE  Inside' /\ OwedAhead'
  <2>1. PICK r \in First(Further(taken[t], deletion[t])) :
          taken' = [taken EXCEPT ![t] = @ \cup {r}]
    BY <1>3 DEF DeleteNext
  <2>2. UNCHANGED <<rows, deletion, owed>> /\ deletion[t] # None /\ deletion[t] \in Calls
    BY <1>0, <1>3 DEF DeleteNext, TypeOK
  <2>3. PICK s : s \in taken[t]
    BY <1>0, <2>2 DEF TypeOK
  <2>4. /\ r \in rows /\ r.key \in Keys /\ s.key \in Keys /\ deletion[t].key \in Keys
        /\ Precedes(s, r) /\ ~ Less(s.key, deletion[t].key)
    BY <1>0, <2>2, <2>3 DEF First, Further, TypeOK, Rows, Calls, Inside
  <2>5. ~ Less(r.key, deletion[t].key)
    <3>1. Less(s.key, r.key) \/ s.key = r.key
      BY <2>4 DEF Precedes
    <3> QED BY <2>4, <3>1, LessTransitive
  <2>6. "kIgnorePayload" \notin deletion[t].flags => r.key = deletion[t].key
    BY DEF First, Further
  <2>7. Inside'
    BY <1>0, <2>1, <2>2, <2>5, <2>6 DEF Inside, TypeOK
  <2>8. \A v \in Further(taken[t], deletion[t]) :
          v = r \/ v \in Further(taken[t] \cup {r}, deletion[t])
    BY DEF First, Further
  <2>9. \A S, c : Further(S, c)' = Further(S, c)
    BY <2>2 DEF Further
  <2>10. OwedAhead'
    <3> SUFFICES ASSUME NEW u \in Threads, NEW v \in owed[u]
                 PROVE  /\ deletion[u] # None /\ Matches(v, deletion[u])
                        /\ v \in taken'[u] \/ v \in Further(taken'[u], deletion[u])
      BY <2>2, <2>9 DEF OwedAhead
    <3>1. CASE u = t
      BY <1>0, <2>1, <2>8, <3>1 DEF OwedAhead, TypeOK
    <3>2. CASE u # t
      BY <1>0, <2>1, <3>2 DEF OwedAhead, TypeOK
    <3> QED BY <3>1, <3>2
  <2> QED BY <2>7, <2>10
<1>4. ASSUME NEW t \in Threads, EndDelete(t)
      PROVE  Inside' /\ OwedAhead'
  <2>1. /\ taken' = [taken EXCEPT ![t] = {}] /\ deletion' = [deletion EXCEPT ![t] = None]
        /\ owed' = [u \in Threads |-> IF u = t THEN {} ELSE Still(u, owed[u])]
    BY <1>4 DEF EndDelete
  <2>2. \A u \in Threads \ {t} : deletion'[u] = deletion[u] /\ taken'[u] = taken[u]
    BY <1>0, <2>1 DEF TypeOK
  <2>3. Inside'
    BY <1>0, <2>1, <2>2 DEF Inside, TypeOK
  <2>4. OwedAhead'
    <3> SUFFICES ASSUME NEW u \in Threads, NEW v \in owed'[u]
                 PROVE  /\ deletion'[u] # None /\ Matches(v, deletion'[u])
                        /\ v \in taken'[u] \/ v \in Further(taken[u], deletion[u])'
      BY DEF OwedAhead
    <3>1. u # t /\ v \in Still(u, owed[u])
      BY <2>1
    <3> QED BY <2>2, <3>1, StillAhead
  <2> QED BY <2>3, <2>4
<1>5. CASE UNCHANGED <<rows, deletions, owed>>
  BY <1>0, <1>5 DEF Inside, OwedAhead, Further, deletions
<1>6. CASE Next
  <2>1. CASE \/ \E k \in Keys, p \in Payloads : InsertRecord(k, p)
             \/ \E q \in Calls : UpdateRecord(q) \/ DeleteRecord(q)
    BY <1>1, <2>1 DEF InsertRecord, UpdateRecord, DeleteRecord, deletions
  <2>2. CASE \E q \in Calls : FindNothing(q)
    BY <1>5, <2>2 DEF FindNothing
  <2> QED BY <1>2, <1>3, <1>4, <1>6, <2>1, <2>2, Steps
<1>7. CASE UNCHANGED vars
  BY <1>5, <1>7 DEF vars
<1> QED BY <1>6, <1>7

\* What a deletion under way has taken and is owed.
THEOREM Inductive == Spec => []IInv
<1>1. Init => Inside /\ OwedAhead
  BY DEF Init, Inside, OwedAhead
<1>2. IInv /\ TypeOK' /\ [Next]_vars => IInv'
  BY IInvStep
<1> QED BY <1>1, <1>2, TypeCorrect, PTL DEF Spec, IInv

-----------------------------------------------------------------------------
(* The guarantee.                                                          *)

\* With kMatchDuplicates everything that matches is affected: it is the record
\* the cursor starts at, or lies after it.
LEMMA MatchesAffected ==
  ASSUME TypeOK, NEW q \in Calls, "kMatchDuplicates" \in q.flags, NEW r \in Found(q)
  PROVE  Guarantee!Matching(q) \subseteq Affected(r, q)
<1> SUFFICES ASSUME NEW s \in Guarantee!Matching(q) PROVE s \in Affected(r, q)
  OBVIOUS
<1>1. s = r \/ Precedes(r, s)
  BY FoundMatches
<1>2. s \in rows /\ s.key = q.key /\ r.key = q.key
  BY DEF Found, Guarantee!Matching, Guarantee!Matches
<1> QED BY <1>1, <1>2 DEF Affected, Further

\* So what an update affects is one of the choices it has.
LEMMA AffectedIsAChoice ==
  ASSUME TypeOK, NEW q \in Calls, NEW r \in Found(q)
  PROVE  Affected(r, q) \in Guarantee!Choices(q)
<1>1. CASE "kMatchDuplicates" \in q.flags
  BY <1>1, AffectedInIndex, MatchesAffected DEF Guarantee!Choices
<1>2. CASE "kMatchDuplicates" \notin q.flags
  BY <1>2, FoundMatches DEF Guarantee!Choices, Affected
<1> QED BY <1>1, <1>2

\* Every step is a step of the guarantee, or of a cursor that has not come to its end:
\* one matching record is modified, or with kMatchDuplicates all that have matched since
\* the call began, whatever other calls do meanwhile; or none matches and the answer is
\* kErrorNotFound.
THEOREM GuaranteeKept == Spec => MissesNothing
<1>1. Init => Guarantee!Init
  BY DEF Init, Guarantee!Init
<1>2. IInv /\ [Next]_vars => [Guarantee!Next]_(Guarantee!vars)
  <2> SUFFICES ASSUME IInv, Next PROVE Guarantee!Next \/ UNCHANGED Guarantee!vars
    BY DEF vars, deletions, Guarantee!vars
  <2>0. TypeOK
    BY DEF IInv
  <2>1. ASSUME NEW k \in Keys, NEW p \in Payloads, InsertRecord(k, p)
        PROVE  Guarantee!Insert(k, p)
    <3>1. clock \in 0..MaxStamp /\ \A r \in rows : r.stamp # clock
      <4>1. \A r \in rows : r.stamp \in Nat /\ r.stamp < clock
        BY <2>0, RowsAreRecords DEF TypeOK
      <4> QED BY <2>0, <4>1 DEF TypeOK
    <3>2. Guarantee!Keep /\ UNCHANGED deletion
      BY <2>1 DEF InsertRecord, Keep, Still, Matches, Guarantee!Keep, Guarantee!Still,
                  Guarantee!Matches, deletions
    <3> QED BY <2>1, <3>1, <3>2 DEF InsertRecord, Guarantee!Insert, Request, Guarantee!Request
  <2>2. ASSUME NEW q \in Calls, FindNothing(q)
        PROVE  Guarantee!NotFound(q)
    BY <2>0, <2>2, NoneFoundNoneMatches DEF FindNothing, Guarantee!NotFound, deletions
  <2>3. ASSUME NEW q \in Calls, UpdateRecord(q)
        PROVE  Guarantee!Update(q)
    <3>1. Guarantee!Keep /\ UNCHANGED deletion /\ call' = q
      BY <2>3 DEF UpdateRecord, Keep, Still, Matches, Guarantee!Keep, Guarantee!Still,
                  Guarantee!Matches, deletions
    <3>2. PICK r \in Found(q) :
            \/ Change(Affected(r, q), q.new) /\ answer' = "ok"
            \/ \E S \in SUBSET Affected(r, q) : Change(S, q.new) /\ answer' = "failed"
      BY <2>3 DEF UpdateRecord, Prefixes
    <3>3. /\ r \in Guarantee!Matching(q) /\ Affected(r, q) \in Guarantee!Choices(q)
          /\ Affected(r, q) \subseteq rows
      BY <2>0, FoundMatches, AffectedIsAChoice, AffectedInIndex
    <3> QED BY <3>1, <3>2, <3>3 DEF Guarantee!Update, Change, Guarantee!Change
  <2>4. ASSUME NEW q \in Calls, DeleteRecord(q)
        PROVE  Guarantee!Delete(q)
    <3>1. Guarantee!Keep /\ UNCHANGED deletion /\ call' = q
      BY <2>4 DEF DeleteRecord, Keep, Still, Matches, Guarantee!Keep, Guarantee!Still,
                  Guarantee!Matches, deletions
    <3>2. PICK r \in Found(q) : rows' = rows \ {r} /\ answer' \in {"ok", "failed"}
      BY <2>4 DEF DeleteRecord
    <3>3. r \in Guarantee!Matching(q)
      BY <2>0, FoundMatches
    <3> QED BY <2>4, <3>1, <3>2, <3>3 DEF DeleteRecord, Guarantee!Delete
  <2>5. ASSUME NEW t \in Threads, NEW q \in Calls, DeleteFirst(t, q)
        PROVE  Guarantee!BeginDelete(t, q)
    <3>1. Guarantee!Matching(q) # {}
      BY <2>0, <2>5, FoundMatches DEF DeleteFirst
    <3> QED BY <2>5, <3>1 DEF DeleteFirst, Guarantee!BeginDelete, Guarantee!Matching,
            Guarantee!Matches, Matches
  <2>6. ASSUME NEW t \in Threads, DeleteNext(t)
        PROVE  UNCHANGED Guarantee!vars
    BY <2>6 DEF DeleteNext, Guarantee!vars
  <2>7. ASSUME NEW t \in Threads, EndDelete(t)
        PROVE  Guarantee!EndDelete(t)
    <3>1. /\ owed' = [u \in Threads |-> IF u = t THEN {} ELSE Guarantee!Still(u, owed[u])]
          /\ deletion[t] # None /\ call' = deletion[t]
          /\ deletion' = [deletion EXCEPT ![t] = None]
      BY <2>7 DEF EndDelete, Still, Matches, Guarantee!Still, Guarantee!Matches
    <3>2. taken[t] \subseteq rows /\ taken[t] # {}
      BY <2>0, <3>1 DEF TypeOK
    <3>3. CASE Further(taken[t], deletion[t]) = {} /\ rows' = rows \ taken[t] /\ answer' = "ok"
      <4>1. owed[t] \subseteq taken[t]
        BY <3>3 DEF IInv, OwedAhead
      <4> QED BY <3>1, <3>2, <3>3, <4>1 DEF Guarantee!EndDelete
    <3>4. CASE rows' \in {rows, rows \ taken[t]} /\ answer' = "failed"
      BY <3>1, <3>4 DEF Guarantee!EndDelete
    <3> QED BY <2>7, <3>3, <3>4 DEF EndDelete
  \* Which calls those are.
  <2>8. ASSUME NEW k \in Keys, NEW p \in Payloads, NEW flags \in FlagSets,
               Delete(Request("delete", k, p, flags, p))
        PROVE  Guarantee!Next
    <3>1. Request("delete", k, p, flags, p) \in Calls
      BY RequestType DEF Ops
    <3>2. Request("delete", k, p, flags, p) = Guarantee!Request("delete", k, p, flags, p)
      BY DEF Request, Guarantee!Request
    <3>3. Guarantee!DeleteCall(Request("delete", k, p, flags, p))
      BY <2>2, <2>4, <2>5, <2>8, <3>1 DEF Delete, Guarantee!DeleteCall
    <3> QED BY <3>2, <3>3 DEF Guarantee!Next
  <2>9. ASSUME NEW k \in Keys, NEW p \in Payloads, NEW flags \in FlagSets,
               NEW new \in Payloads, Update(Request("update", k, p, flags, new))
        PROVE  Guarantee!Next
    <3>1. Request("update", k, p, flags, new) \in Calls
      BY RequestType DEF Ops
    <3>2. Request("update", k, p, flags, new) = Guarantee!Request("update", k, p, flags, new)
      BY DEF Request, Guarantee!Request
    <3>3. Guarantee!UpdateCall(Request("update", k, p, flags, new))
      BY <2>2, <2>3, <2>9, <3>1 DEF Update, Guarantee!UpdateCall
    <3> QED BY <3>2, <3>3 DEF Guarantee!Next
  <2> QED BY <2>1, <2>6, <2>7, <2>8, <2>9 DEF Next, Guarantee!Next
<1> QED BY <1>1, <1>2, Inductive, PTL DEF Spec, MissesNothing, Guarantee!Spec

-----------------------------------------------------------------------------

\* The callers do not use kMatchDuplicates.
OneAtATime == \A flags \in FlagSets : "kMatchDuplicates" \notin flags

\* Then no deletion is ever under way.
NoneUnderWay == deletion = [t \in Threads |-> None]

\* And the guarantee is the promise.
THEOREM PromiseKept == ASSUME OneAtATime PROVE Spec => KeepsPromise
<1>1. Guarantee!Init => Promise!Init
  BY DEF Guarantee!Init, Promise!Init
<1>2. NoneUnderWay /\ Guarantee!Next => Promise!Next
  <2>1. ASSUME NEW k \in Keys, NEW p \in Payloads, NEW flags \in FlagSets, NEW o,
               NEW new \in Payloads
        PROVE  LET q == Guarantee!Request(o, k, p, flags, new)
               IN  Guarantee!Choices(q) = Promise!Choices(q)
    BY DEF OneAtATime, Guarantee!Choices, Promise!Choices, Guarantee!Matching,
           Promise!Matching, Guarantee!Matches, Promise!Matches, Guarantee!Request
  <2> SUFFICES ASSUME NoneUnderWay, Guarantee!Next PROVE Promise!Next
    OBVIOUS
  <2>2. \A t \in Threads : ~ Guarantee!EndDelete(t)
    BY DEF NoneUnderWay, Guarantee!EndDelete
  <2>3. ASSUME NEW k \in Keys, NEW p \in Payloads, Guarantee!Insert(k, p)
        PROVE  Promise!Insert(k, p)
    BY <2>3 DEF Guarantee!Insert, Promise!Insert, Guarantee!Request, Promise!Request,
       Guarantee!Keep, Promise!Keep, Guarantee!Still, Promise!Still, Guarantee!Matches,
       Promise!Matches
  <2>4. ASSUME NEW k \in Keys, NEW p \in Payloads, NEW flags \in FlagSets, NEW new \in Payloads,
               Guarantee!UpdateCall(Guarantee!Request("update", k, p, flags, new))
        PROVE  Promise!UpdateCall(Promise!Request("update", k, p, flags, new))
    <3> DEFINE q == Guarantee!Request("update", k, p, flags, new)
    <3>1. Guarantee!Choices(q) = Promise!Choices(q)
      BY <2>1
    <3>2. q = Promise!Request("update", k, p, flags, new)
      BY DEF Guarantee!Request, Promise!Request
    <3> HIDE DEF q
    <3>3. Guarantee!NotFound(q) => Promise!NotFound(q)
      BY DEF Guarantee!NotFound, Promise!NotFound, Guarantee!Matching, Promise!Matching,
             Guarantee!Matches, Promise!Matches
    <3>4. Guarantee!Update(q) => Promise!Update(q)
      <4>1. Guarantee!Matching(q) = Promise!Matching(q) /\ (Guarantee!Keep => Promise!Keep)
        BY DEF Guarantee!Matching, Promise!Matching, Guarantee!Matches, Promise!Matches,
               Guarantee!Keep, Promise!Keep, Guarantee!Still, Promise!Still
      <4>2. \A S, n : Guarantee!Change(S, n) <=> Promise!Change(S, n)
        BY DEF Guarantee!Change, Promise!Change
      <4> QED BY <3>1, <4>1, <4>2 DEF Guarantee!Update, Promise!Update
    <3>5. Guarantee!UpdateCall(q)
      BY <2>4 DEF q
    <3> QED BY <3>2, <3>3, <3>4, <3>5 DEF Guarantee!UpdateCall, Promise!UpdateCall
  <2>5. ASSUME NEW k \in Keys, NEW p \in Payloads, NEW flags \in FlagSets,
               Guarantee!DeleteCall(Guarantee!Request("delete", k, p, flags, p))
        PROVE  Promise!DeleteCall(Promise!Request("delete", k, p, flags, p))
    BY <2>5 DEF Guarantee!DeleteCall, Promise!DeleteCall, Guarantee!Delete,
       Promise!Delete, Guarantee!BeginDelete, Promise!BeginDelete, Guarantee!NotFound,
       Promise!NotFound, Guarantee!Request, Promise!Request, Guarantee!Matching,
       Promise!Matching, Guarantee!Keep, Promise!Keep, Guarantee!Still, Promise!Still,
       Guarantee!Matches, Promise!Matches
  <2> QED BY <2>2, <2>3, <2>4, <2>5 DEF Guarantee!Next, Promise!Next
<1>3. UNCHANGED Guarantee!vars => UNCHANGED Promise!vars
  BY DEF Guarantee!vars, Promise!vars
<1>4. Init => NoneUnderWay
  BY DEF Init, NoneUnderWay
<1>5. NoneUnderWay /\ [Next]_vars => NoneUnderWay'
  <2> SUFFICES ASSUME NoneUnderWay, Next PROVE UNCHANGED deletion
    BY DEF NoneUnderWay, vars, deletions
  <2>1. \A k \in Keys, p \in Payloads, flags \in FlagSets, t \in Threads :
          ~ DeleteFirst(t, Request("delete", k, p, flags, p))
    BY DEF OneAtATime, DeleteFirst, Request
  <2>2. \A t \in Threads : ~ DeleteNext(t) /\ ~ EndDelete(t)
    BY DEF NoneUnderWay, DeleteNext, EndDelete
  <2> QED BY <2>1, <2>2 DEF Next, Delete, Update, InsertRecord, FindNothing, UpdateRecord,
             DeleteRecord, deletions
<1> QED BY <1>1, <1>2, <1>3, <1>4, <1>5, GuaranteeKept, PTL
        DEF Spec, MissesNothing, KeepsPromise, Guarantee!Spec, Promise!Spec

-----------------------------------------------------------------------------

\* kMatchDuplicates does no harm below the key asked for, nor, with a payload to
\* match, beyond its duplicates; and a call that fails does none either.
THEOREM OthersUntouchedAlways == Spec => OthersUntouched
<1>1. IInv /\ [Next]_vars =>
        [\A r \in rows :
           \/ Less(r.key, call'.key)
           \/ "kIgnorePayload" \notin call'.flags /\ r.key # call'.key
             => r \in rows']_vars
  <2> SUFFICES ASSUME IInv, Next, NEW s \in rows,
                      \/ Less(s.key, call'.key)
                      \/ "kIgnorePayload" \notin call'.flags /\ s.key # call'.key
               PROVE  s \in rows'
    OBVIOUS
  <2>0. TypeOK /\ Inside
    BY DEF IInv
  <2>1. ASSUME NEW q \in Calls, call' = q, NEW r \in Found(q)
        PROVE  s \notin Affected(r, q)
    BY <2>0, <2>1, AffectedAtOrAfter
  <2>2. ASSUME NEW q \in Calls, UpdateRecord(q)
        PROVE  s \in rows'
    <3>1. PICK r \in Found(q) : \E S \in SUBSET Affected(r, q) : Change(S, q.new)
      BY <2>2 DEF UpdateRecord, Prefixes
    <3> QED BY <2>1, <2>2, <3>1 DEF UpdateRecord, Change
  <2>3. ASSUME NEW q \in Calls, DeleteRecord(q)
        PROVE  s \in rows'
    BY <2>1, <2>3 DEF DeleteRecord, Affected
  <2>4. ASSUME NEW t \in Threads, EndDelete(t)
        PROVE  s \in rows'
    BY <2>0, <2>4 DEF EndDelete, Inside
  <2>5. CASE \/ \E k \in Keys, p \in Payloads : InsertRecord(k, p)
             \/ \E q \in Calls : FindNothing(q)
             \/ \E t \in Threads : DeleteNext(t) \/ \E q \in Calls : DeleteFirst(t, q)
    BY <2>5 DEF InsertRecord, FindNothing, DeleteNext, DeleteFirst
  <2> QED BY <2>2, <2>3, <2>4, <2>5, Steps
<1> QED BY <1>1, Inductive, PTL DEF Spec, OthersUntouched

-----------------------------------------------------------------------------

\* The records of the index are finitely many.
FiniteRows == IsFiniteSet(rows)

\* They stay so when some are changed.
LEMMA ChangeKeepsFinite ==
  ASSUME FiniteRows, NEW S \in SUBSET rows, NEW new, Change(S, new)
  PROVE  IsFiniteSet(rows')
<1> DEFINE changed == {[s EXCEPT !.payload = new] : s \in S}
<1>1. IsFiniteSet(S) /\ IsFiniteSet(rows \ S)
  BY FS_Subset DEF FiniteRows
<1>2. IsFiniteSet(changed)
  <2> DEFINE f == [s \in S |-> [s EXCEPT !.payload = new]]
  <2>1. f \in [S -> changed] /\ \A t \in changed : \E s \in S : f[s] = t
    OBVIOUS
  <2> HIDE DEF f, changed
  <2>2. f \in Surjection(S, changed)
    BY <2>1, Fun_IsSurj
  <2> QED BY <1>1, <2>2, FS_Surjection
<1> QED BY <1>1, <1>2, FS_Union DEF Change

LEMMA FiniteRowsAlways == Spec => []FiniteRows
<1>1. Init => FiniteRows
  BY FS_EmptySet DEF Init, FiniteRows
<1>2. FiniteRows /\ [Next]_vars => FiniteRows'
  <2> SUFFICES ASSUME FiniteRows, [Next]_vars PROVE IsFiniteSet(rows')
    BY DEF FiniteRows
  <2>1. ASSUME NEW k \in Keys, NEW p \in Payloads, InsertRecord(k, p)
        PROVE  IsFiniteSet(rows')
    BY <2>1, FS_AddElement DEF InsertRecord, FiniteRows
  <2>2. ASSUME NEW q \in Calls, UpdateRecord(q)
        PROVE  IsFiniteSet(rows')
    <3>1. PICK r \in Found(q) : \E S \in SUBSET Affected(r, q) : Change(S, q.new)
      BY <2>2 DEF UpdateRecord, Prefixes
    <3> QED BY <3>1, AffectedInIndex, ChangeKeepsFinite
  <2>3. ASSUME rows' \subseteq rows
        PROVE  IsFiniteSet(rows')
    BY <2>3, FS_Subset DEF FiniteRows
  <2>4. CASE \/ \E q \in Calls : FindNothing(q) \/ DeleteRecord(q)
             \/ \E t \in Threads : \/ DeleteNext(t) \/ EndDelete(t)
                                   \/ \E q \in Calls : DeleteFirst(t, q)
             \/ UNCHANGED vars
    BY <2>3, <2>4 DEF FindNothing, DeleteRecord, DeleteFirst, DeleteNext, EndDelete, vars
  <2> QED BY <2>1, <2>2, <2>4, Steps
<1> QED BY <1>1, <1>2, PTL DEF Spec

\* The cursor of a modification finds one record to start at, or none; and never
\* both or neither.
Answered ==
  \A q \in Calls :
    \/ (\E r \in rows : Found(q) = {r}) /\ ~ NoneFound(q)
    \/ Found(q) = {} /\ NoneFound(q)

\* A record the first Dbc::get can choose is the only one it can choose.
LEMMA FirstIsUnique ==
  ASSUME TypeOK, NEW S \in SUBSET rows, NEW r \in First(S), NEW s \in First(S)
  PROVE  r = s
<1>1. /\ r \in [key : Keys, stamp : Nat, payload : Payloads]
      /\ s \in [key : Keys, stamp : Nat, payload : Payloads]
  BY MaxStampAssumption DEF First, TypeOK, Rows
<1>2. r = s \/ (Precedes(r, s) /\ Precedes(s, r))
  BY DEF First
<1>3. Precedes(r, s) /\ Precedes(s, r) => FALSE
  BY <1>1, LessTransitive, LessIrreflexive DEF Precedes
<1> QED BY <1>2, <1>3

\* There is one: what FirstRecord says of keys and stamps, payloads do not change.
LEMMA FirstCandidate ==
  ASSUME TypeOK, NEW S \in SUBSET rows, IsFiniteSet(S), S # {}
  PROVE  First(S) # {}
<1> DEFINE bare(r) == [key |-> r.key, stamp |-> r.stamp]
           f       == [r \in S |-> bare(r)]
           B       == {bare(r) : r \in S}
<1>1. \A r \in S : /\ r.key \in Keys /\ r.stamp \in Nat
                   /\ \A s \in S : r.stamp = s.stamp => r = s
  BY MaxStampAssumption DEF TypeOK, Rows
<1>2. IsFiniteSet(B)
  <2>1. f \in [S -> B] /\ \A b \in B : \E r \in S : f[r] = b
    OBVIOUS
  <2> HIDE DEF f, B
  <2>2. f \in Surjection(S, B)
    BY <2>1, Fun_IsSurj
  <2> QED BY <2>2, FS_Surjection
<1>3. /\ B \in SUBSET [key : Keys, stamp : Nat] /\ B # {}
      /\ \A a, b \in B : a.stamp = b.stamp => a = b
  <2>1. \A r \in S : bare(r) \in [key : Keys, stamp : Nat]
    BY <1>1
  <2>2. ASSUME NEW r \in S, NEW s \in S, bare(r).stamp = bare(s).stamp
        PROVE  bare(r) = bare(s)
    BY <1>1, <2>2
  <2>3. \A b \in B : \E r \in S : b = bare(r)
    OBVIOUS
  <2>4. \E r \in S : bare(r) \in B
    OBVIOUS
  <2> HIDE DEF bare, B
  <2> QED BY <2>1, <2>2, <2>3, <2>4
<1>4. PICK b \in B : \A a \in B : a = b \/ Precedes(b, a)
  <2> HIDE DEF B
  <2> QED BY <1>2, <1>3, FirstRecord
<1>5. PICK r \in S : b = bare(r)
  OBVIOUS
<1>6. ASSUME NEW s \in S PROVE s = r \/ Precedes(r, s)
  <2>1. bare(s) = bare(r) \/ Precedes(bare(r), bare(s))
    BY <1>4, <1>5
  <2>2. bare(s) = bare(r) => s = r
    BY <1>1
  <2> QED BY <2>1, <2>2 DEF Precedes
<1> QED BY <1>6 DEF First

\* No modification is ever left without an answer, and which record it starts at
\* nobody chooses: a collection of records with keycmp in order is enough.
THEOREM AnsweredAlways == Spec => []Answered
<1>1. TypeOK /\ FiniteRows => Answered
  <2> SUFFICES ASSUME TypeOK, FiniteRows, NEW q \in Calls
               PROVE  \/ (\E r \in rows : Found(q) = {r}) /\ ~ NoneFound(q)
                      \/ Found(q) = {} /\ NoneFound(q)
    BY DEF Answered
  <2> DEFINE C == Candidates(q)
  <2>1. C \in SUBSET rows /\ IsFiniteSet(C)
    BY FS_Subset DEF Candidates, FiniteRows
  <2>2. CASE C = {}
    BY <2>2 DEF Found, NoneFound, First
  <2>3. CASE C # {}
    <3>1. PICK r : r \in First(C)
      BY <2>1, <2>3, FirstCandidate
    <3>2. r \in rows /\ First(C) = {r}
      BY <2>1, <3>1, FirstIsUnique DEF First
    <3>3. /\ Found(q) = {s \in First(C) : s.key = q.key}
          /\ NoneFound(q) <=> \E s \in First(C) : s.key # q.key
      BY <2>3 DEF Found, NoneFound
    <3> HIDE DEF C
    <3> QED BY <3>2, <3>3
  <2> QED BY <2>2, <2>3
<1> QED BY <1>1, TypeCorrect, FiniteRowsAlways, PTL
====
