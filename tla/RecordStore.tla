----------------------------- MODULE RecordStore -----------------------------
(***************************************************************************)
(* What contest_interface.h promises of InsertRecord, UpdateRecord and     *)
(* DeleteRecord on one index: an index is a collection of records, equal   *)
(* ones allowed; a modification affects one of the matching records, or    *)
(* all of them with kMatchDuplicates, and answers kErrorNotFound when      *)
(* there is none.                                                          *)
(*                                                                         *)
(* A deletion with kMatchDuplicates begins and ends, and other calls come  *)
(* between: it affects all records that have matched ever since it began.  *)
(* Without Exact the promise is the weaker one that none of those is       *)
(* missed.  A call that fails may have affected some records.              *)
(***************************************************************************)
CONSTANTS Keys, Payloads,
          Stamps,     \* what tells equal records apart
          FlagSets,   \* the combinations of ModFlags that are used
          Threads,    \* the threads that delete with kMatchDuplicates
          None,       \* no call
          Exact       \* FALSE: kMatchDuplicates may affect further records

VARIABLES rows,       \* the records of the index: [key, stamp, payload]
          call,       \* the last call: [op, key, payload, flags, new]
          answer,     \* and the code it returned
          deletion,   \* the deletion with kMatchDuplicates a thread is in
          steady      \* the records that have matched it ever since it began

vars == <<rows, call, answer, deletion, steady>>

Request(o, k, p, flags, new) ==
  [op |-> o, key |-> k, payload |-> p, flags |-> flags, new |-> new]

Init == /\ rows = {}
        /\ call.op = "none" /\ answer = "none"
        /\ deletion = [t \in Threads |-> None]
        /\ steady = [t \in Threads |-> {}]

\* The call q is about the record r.
Matches(r, q) == r.key = q.key /\ ("kIgnorePayload" \in q.flags \/ r.payload = q.payload)

Matching(q) == {r \in rows : Matches(r, q)}

\* What of the records in S still matches t's deletion: updated, they are the same
\* records.
Still(t, S) == {r \in rows' : (\E s \in S : s.stamp = r.stamp) /\ Matches(r, deletion[t])}

Keep == steady' = [t \in Threads |-> Still(t, steady[t])]

\* The sets of records an update may choose to affect.
Choices(q) ==
  IF "kMatchDuplicates" \in q.flags
  THEN {S \in SUBSET rows : Matching(q) \subseteq S /\ (Exact => S = Matching(q))}
  ELSE {{r} : r \in Matching(q)}

Change(S, new) == rows' = (rows \ S) \cup {[r EXCEPT !.payload = new] : r \in S}

Insert(k, p) ==
  /\ call' = Request("insert", k, p, {}, p)
  /\ \/ /\ answer' = "ok"
        /\ \E n \in Stamps : /\ \A r \in rows : r.stamp # n
                             /\ rows' = rows \cup {[key |-> k, stamp |-> n, payload |-> p]}
     \/ answer' = "failed" /\ UNCHANGED rows
  /\ Keep /\ UNCHANGED deletion

NotFound(q) ==
  /\ call' = q /\ answer' = "not_found"
  /\ Matching(q) = {}
  /\ UNCHANGED <<rows, deletion, steady>>

Update(q) ==
  /\ call' = q
  /\ \/ answer' = "ok" /\ Matching(q) # {} /\ \E S \in Choices(q) : Change(S, q.new)
     \/ answer' = "failed" /\ \E S \in SUBSET rows : Change(S, q.new)
  /\ Keep /\ UNCHANGED deletion

Delete(q) ==
  /\ call' = q
  /\ \/ /\ answer' = "ok"
        /\ "kMatchDuplicates" \notin q.flags /\ \E r \in Matching(q) : rows' = rows \ {r}
     \/ answer' = "failed" /\ rows' \subseteq rows
  /\ Keep /\ UNCHANGED deletion

BeginDelete(t, q) ==
  /\ deletion[t] = None
  /\ deletion' = [deletion EXCEPT ![t] = q]
  /\ "kMatchDuplicates" \in q.flags /\ Matching(q) # {}
  /\ steady' = [steady EXCEPT ![t] = Matching(q)]
  /\ UNCHANGED <<rows, call, answer>>

EndDelete(t) ==
  /\ deletion[t] # None
  /\ call' = deletion[t]
  /\ \/ /\ answer' = "ok"
        /\ \E S \in SUBSET rows : /\ steady[t] \subseteq S /\ S # {}
                                  /\ Exact => S \subseteq Matching(deletion[t])
                                  /\ rows' = rows \ S
     \/ answer' = "failed" /\ rows' \subseteq rows
  /\ deletion' = [deletion EXCEPT ![t] = None]
  /\ steady' = [u \in Threads |-> IF u = t THEN {} ELSE Still(u, steady[u])]

DeleteCall(q) == Delete(q) \/ NotFound(q) \/ \E t \in Threads : BeginDelete(t, q)
UpdateCall(q) == Update(q) \/ NotFound(q)

Next ==
  \/ \E k \in Keys, p \in Payloads :
       \/ Insert(k, p)
       \/ \E flags \in FlagSets :
            \/ DeleteCall(Request("delete", k, p, flags, p))
            \/ \E new \in Payloads : UpdateCall(Request("update", k, p, flags, new))
  \/ \E t \in Threads : EndDelete(t)

Spec == Init /\ [][Next]_vars
====
