------------------------------- MODULE Records -------------------------------
(***************************************************************************)
(* InsertRecord, UpdateRecord and DeleteRecord as a cursor performs them   *)
(* on the B-tree of one index.                                             *)
(*                                                                         *)
(* UpdateRecord runs in a serializable nested transaction, so it is one    *)
(* step here.  The cursor of DeleteRecord is read committed: it is certain *)
(* of the record it stands on, and holds what it has deleted, but between  *)
(* its calls others may change all the rest.  One cursor call (with the    *)
(* deletion of the record it found) is one step.                           *)
(*                                                                         *)
(* A call that throws leaves its nested transaction behind.  What that has *)
(* done becomes visible when the caller commits all the same (Berkeley DB  *)
(* commits unresolved children) and never otherwise; others are kept from  *)
(* it until then, so that this too is one step, and none when nothing      *)
(* becomes visible.  The transactions themselves are the subject of        *)
(* WriteGate.                                                              *)
(***************************************************************************)
EXTENDS Keys

CONSTANTS Payloads,
          FlagSets,    \* the combinations of ModFlags the callers use
          Threads,     \* the threads that delete with kMatchDuplicates
          None,        \* no call
          MaxStamp     \* bound on the number of insertions

ASSUME FlagsAssumption ==
  FlagSets \subseteq SUBSET {"kMatchDuplicates", "kIgnorePayload"}
ASSUME MaxStampAssumption == MaxStamp \in Nat

VARIABLES rows,      \* the records of the index, as others see them
          clock,     \* the stamp of the next insertion
          call,      \* history: the arguments of the last call that returned
          answer,    \* and its code
          deletion,  \* the deletion with kMatchDuplicates a thread is in
          taken,     \* what it has deleted, and not committed
          owed       \* history: what has matched it ever since its cursor found
                     \* the first record

deletions == <<deletion, taken>>
vars      == <<rows, clock, call, answer, deletions, owed>>

Rows == [key : Keys, stamp : 0..MaxStamp, payload : Payloads]

Ops  == {"none", "insert", "update", "delete"}

Calls ==
  [op : Ops, key : Keys, payload : Payloads, flags : FlagSets \cup {{}}, new : Payloads]

ASSUME NoneAssumption == None \notin Calls

Request(o, k, p, flags, new) ==
  [op |-> o, key |-> k, payload |-> p, flags |-> flags, new |-> new]

Init ==
  /\ rows = {} /\ clock = 0
  /\ call \in Calls /\ call.op = "none" /\ call.flags = {} /\ call.new = call.payload
  /\ answer = "none"
  /\ deletion = [t \in Threads |-> None]
  /\ taken = [t \in Threads |-> {}]
  /\ owed = [t \in Threads |-> {}]

-----------------------------------------------------------------------------
(* The cursor.  q is the call.                                             *)

\* The records the first Dbc::get chooses from: DB_SET_RANGE, or DB_GET_BOTH.
Candidates(q) ==
  IF "kIgnorePayload" \in q.flags THEN {r \in rows : ~ Less(r.key, q.key)}
                                  ELSE {r \in rows : r.key = q.key /\ r.payload = q.payload}

\* Those of S that the cursor comes to first.
First(S) == {r \in S : \A s \in S : s = r \/ Precedes(r, s)}

\* Mutant: the key that DB_SET_RANGE found is not compared.
AnyFound(q) == First(Candidates(q))

\* The record the cursor starts at, if it has the key asked for.
Found(q) == {r \in First(Candidates(q)) : r.key = q.key}

\* DB_NOTFOUND, or the record found has another key.
NoneFound(q) ==
  \/ Candidates(q) = {}
  \/ \E r \in First(Candidates(q)) : r.key # q.key

\* Mutant: DB_NEXT whatever the flags.
FurtherAny(S, q) == {s \in rows : \A r \in S : Precedes(r, s)}

\* The records that kMatchDuplicates goes on to from the last of those in S:
\* DB_NEXT_DUP comes to all later duplicates of the key; DB_NEXT comes to every later
\* record, as the key that the loop compares is that of the first record.
Further(S, q) ==
  {s \in rows : /\ \A r \in S : Precedes(r, s)
                /\ "kIgnorePayload" \notin q.flags => s.key = q.key}

\* The records a modification that starts at r affects.
Affected(r, q) ==
  {r} \cup (IF "kMatchDuplicates" \in q.flags THEN Further({r}, q) ELSE {})

\* What a cursor that goes through S has behind it when it comes to an end early.
Prefixes(S) == {T \in SUBSET S : \A r \in S, s \in T : Precedes(r, s) => r \in T}

\* Nobody comes past the write locks of a deletion under way.
Unlocked(S) == \A t \in Threads : S \cap taken[t] = {}

Change(S, new) == rows' = (rows \ S) \cup {[r EXCEPT !.payload = new] : r \in S}

-----------------------------------------------------------------------------
(* What deletions under way are owed.                                      *)

Matches(r, q) == r.key = q.key /\ ("kIgnorePayload" \in q.flags \/ r.payload = q.payload)

Still(t, S) == {r \in rows' : (\E s \in S : s.stamp = r.stamp) /\ Matches(r, deletion[t])}

Keep == owed' = [t \in Threads |-> Still(t, owed[t])]

-----------------------------------------------------------------------------
(* The operations.                                                         *)

\* Db::put.
InsertRecord(k, p) ==
  /\ call' = Request("insert", k, p, {}, p)
  /\ clock < MaxStamp
  /\ rows' = rows \cup {[key |-> k, stamp |-> clock, payload |-> p]}
  /\ clock' = clock + 1
  /\ answer' = "ok"
  /\ Keep /\ UNCHANGED deletions

\* The cursor of Index::Update or Index::Delete finds nothing.
FindNothing(q) ==
  /\ call' = q /\ answer' = "not_found"
  /\ NoneFound(q) /\ Unlocked(First(Candidates(q)))
  /\ UNCHANGED <<rows, clock, deletions, owed>>

\* Mutant: the new payload is put next to the old one, not at DB_CURRENT.
PutDuplicate(q) ==
  /\ call' = q
  /\ \E r \in Found(q) : rows' = rows \cup {[r EXCEPT !.payload = q.new]}
  /\ answer' = "ok"
  /\ Keep /\ UNCHANGED <<clock, deletions>>

\* Index::Update; it may throw on its way.
UpdateRecord(q) ==
  /\ call' = q
  /\ \E r \in Found(q) :
       \/ /\ Unlocked(Affected(r, q)) /\ Change(Affected(r, q), q.new)
          /\ answer' = "ok"
       \/ \E S \in Prefixes(Affected(r, q)) \ {{}} : /\ Unlocked(S) /\ Change(S, q.new)
                                                     /\ answer' = "failed"
  /\ Keep /\ UNCHANGED <<clock, deletions>>

\* Index::Delete without kMatchDuplicates: the record found is deleted; the commit may
\* throw.
DeleteRecord(q) ==
  /\ "kMatchDuplicates" \notin q.flags
  /\ call' = q /\ answer' \in {"ok", "failed"}
  /\ \E r \in Found(q) : Unlocked({r}) /\ rows' = rows \ {r}
  /\ Keep /\ UNCHANGED <<clock, deletions>>

\* Index::Delete with kMatchDuplicates: the first record.
DeleteFirst(t, q) ==
  /\ deletion[t] = None
  /\ "kMatchDuplicates" \in q.flags
  /\ \E r \in Found(q) : Unlocked({r}) /\ taken' = [taken EXCEPT ![t] = {r}]
  /\ deletion' = [deletion EXCEPT ![t] = q]
  /\ owed' = [owed EXCEPT ![t] = {r \in rows : Matches(r, q)}]
  /\ UNCHANGED <<rows, clock, call, answer>>

\* The loop over the duplicates.
DeleteNext(t) ==
  /\ deletion[t] # None
  /\ \E r \in First(Further(taken[t], deletion[t])) :
       Unlocked({r}) /\ taken' = [taken EXCEPT ![t] = @ \cup {r}]
  /\ UNCHANGED <<rows, clock, call, answer, deletion, owed>>

\* DB_NOTFOUND ends the loop, and the nested transaction commits; or something has
\* thrown, and the caller commits or aborts.
EndDelete(t) ==
  /\ deletion[t] # None
  /\ \/ /\ Further(taken[t], deletion[t]) = {}
        /\ rows' = rows \ taken[t] /\ answer' = "ok"
     \/ rows' \in {rows, rows \ taken[t]} /\ answer' = "failed"
  /\ call' = deletion[t]
  /\ deletion' = [deletion EXCEPT ![t] = None]
  /\ taken' = [taken EXCEPT ![t] = {}]
  /\ owed' = [u \in Threads |-> IF u = t THEN {} ELSE Still(u, owed[u])]
  /\ UNCHANGED clock

Delete(q) == FindNothing(q) \/ DeleteRecord(q) \/ \E t \in Threads : DeleteFirst(t, q)
Update(q) == FindNothing(q) \/ UpdateRecord(q)

Next ==
  \/ \E k \in Keys, p \in Payloads :
       \/ InsertRecord(k, p)
       \/ \E flags \in FlagSets :
            \/ Delete(Request("delete", k, p, flags, p))
            \/ \E new \in Payloads : Update(Request("update", k, p, flags, new))
  \/ \E t \in Threads : DeleteNext(t) \/ EndDelete(t)

Spec == Init /\ [][Next]_vars

-----------------------------------------------------------------------------
(* Properties.                                                             *)

\* Types; a stamp belongs to one record, and a record has one deletion at most.
TypeOK ==
  /\ rows \subseteq Rows /\ clock \in 0..MaxStamp
  /\ call \in Calls /\ answer \in {"none", "ok", "not_found", "failed"}
  /\ \A r \in rows : r.stamp < clock
  /\ \A r, s \in rows : r.stamp = s.stamp => r = s
  /\ deletion \in [Threads -> Calls \cup {None}]
  /\ taken \in [Threads -> SUBSET rows]
  /\ owed \in [Threads -> SUBSET rows]
  /\ \A t \in Threads : deletion[t] = None <=> taken[t] = {}
  /\ \A t, u \in Threads : t # u => taken[t] \cap taken[u] = {}

\* The records an index promises to have, and what is left of the promise.
Promise   == INSTANCE RecordStore WITH Stamps <- 0..MaxStamp, Exact <- TRUE, steady <- owed
Guarantee == INSTANCE RecordStore WITH Stamps <- 0..MaxStamp, Exact <- FALSE, steady <- owed

\* Wherever among the duplicates the cursor starts, and whatever others insert, update
\* and delete under a deletion: without kMatchDuplicates a modification affects exactly
\* one of the matching records, with it none that has matched from beginning to end is
\* missed, and kErrorNotFound is answered when, and only when, there is none.
MissesNothing == Guarantee!Spec

\* However far kMatchDuplicates goes on, and also when the call fails, a modification
\* leaves every record alone whose key is below its own, and with a payload to match,
\* every record of another key.
OthersUntouched ==
  [][\A r \in rows :
       \/ Less(r.key, call'.key)
       \/ "kIgnorePayload" \notin call'.flags /\ r.key # call'.key
         => r \in rows']_vars

\* "operations will affect all matching records", and no others.
KeepsPromise == Promise!Spec

====
