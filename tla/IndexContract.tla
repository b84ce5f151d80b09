---------------------------- MODULE IndexContract ----------------------------
(***************************************************************************)
(* What contest_interface.h promises of an index and the transactions that *)
(* modify it: a transaction may modify an index as long as it exists, and  *)
(* DeleteIndex removes it only when no unresolved transaction has modified *)
(* it (kErrorOpenTransactions otherwise).  A transaction nested in another *)
(* counts as that other one.                                               *)
(***************************************************************************)
CONSTANTS Indexes, Txns

VARIABLES exists,   \* the indexes that have not been deleted
          writers   \* for each index, the unresolved transactions that modified it

vars == <<exists, writers>>

Init == /\ exists = Indexes
        /\ writers = [i \in Indexes |-> {}]

\* InsertRecord, UpdateRecord or DeleteRecord modifies index i within p.
Modify(i, p) ==
  /\ i \in exists
  /\ writers' = [writers EXCEPT ![i] = @ \cup {p}]
  /\ UNCHANGED exists

\* CommitTransaction or AbortTransaction resolves p, or a failed operation is
\* rolled back: p's modifications of the indexes in S are settled.
Settle(p, S) ==
  /\ writers' = [i \in Indexes |-> IF i \in S THEN writers[i] \ {p} ELSE writers[i]]
  /\ UNCHANGED exists

\* DeleteIndex succeeds.
Drop(i) ==
  /\ i \in exists
  /\ writers[i] = {}
  /\ exists' = exists \ {i}
  /\ UNCHANGED writers

Next == \/ \E i \in Indexes : Drop(i)
        \/ \E p \in Txns : \/ \E i \in Indexes : Modify(i, p)
                           \/ \E S \in SUBSET Indexes : Settle(p, S)

Spec == Init /\ [][Next]_vars
====
