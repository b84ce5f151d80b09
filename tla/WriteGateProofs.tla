--------------------------- MODULE WriteGateProofs ---------------------------
(***************************************************************************)
(* Proofs about WriteGate, for any number of threads, indexes and          *)
(* transactions: when nobody begins a transaction at the address of a dead *)
(* DbTxn that a call has still to erase (NoEarlyReuse), the gate keeps     *)
(* DeleteIndex and the writers of an index apart.                          *)
(***************************************************************************)
EXTENDS WriteGate, TLAPS

-----------------------------------------------------------------------------
(* Type correctness.                                                       *)

LEMMA TypeOKInit == Init => TypeOK
BY NoneAssumption DEF Init, TypeOK, Ops, Labels, Faults, Nested, Gated

LEMMA TypeOKStep ==
  ASSUME TypeOK, [Next]_vars
  PROVE  TypeOK'
<1> USE NoneAssumption DEF TypeOK, Ops, Labels, Faults, Nested, Gated,
                           gateVars, txnVars, callVars
<1>1. ASSUME NEW t \in Threads, BeginTransaction(t)
      PROVE  TypeOK'
  BY <1>1 DEF BeginTransaction, TxnBegin
<1>2. ASSUME NEW t \in Threads, Resolve(t)
      PROVE  TypeOK'
  <2>1. thrown' \in BOOLEAN
    BY <1>2 DEF Resolve, Throw
  <2> QED
    BY <1>2, <2>1 DEF Resolve, Goto, Family
<1>3. ASSUME NEW t \in Threads, CloseTransaction(t)
      PROVE  TypeOK'
  BY <1>3 DEF CloseTransaction, Goto
<1>4. ASSUME NEW t \in Threads, NEW i \in Indexes, NEW o \in Ops, Call(t, i, o)
      PROVE  TypeOK'
  BY <1>4 DEF Call, Goto
<1>5. ASSUME NEW t \in Threads, Access(t)
      PROVE  TypeOK'
  BY <1>5 DEF Access, Goto
<1>6. ASSUME NEW t \in Threads, BeginNested(t)
      PROVE  TypeOK'
  BY <1>6 DEF BeginNested, Goto, TxnBegin
<1>7. ASSUME NEW t \in Threads, Gate(t)
      PROVE  TypeOK'
  BY <1>7 DEF Gate, Goto, Register, Admits, Writer
<1>8. ASSUME NEW t \in Threads, Compare(t)
      PROVE  TypeOK'
  BY <1>8 DEF Compare, Goto
<1>9. ASSUME NEW t \in Threads, Put(t)
      PROVE  TypeOK'
  <2>1. wrote' \in [Txns -> SUBSET Indexes]
    BY <1>9 DEF Put
  <2> QED
    BY <1>9, <2>1 DEF Put, Goto
<1>10. ASSUME NEW t \in Threads, Modify(t)
      PROVE  TypeOK'
  <2>1. thrown' \in BOOLEAN
    BY <1>10 DEF Modify, Throw
  <2> QED
    BY <1>10, <2>1 DEF Modify, Goto
<1>11. ASSUME NEW t \in Threads, RegisterParent(t)
      PROVE  TypeOK'
  <2>1. thrown' \in BOOLEAN
    BY <1>11 DEF RegisterParent, Throw
  <2> QED
    BY <1>11, <2>1 DEF RegisterParent, Goto, Register, Admits, CallerOf
<1>12. ASSUME NEW t \in Threads, CommitNested(t)
      PROVE  TypeOK'
  <2>1. thrown' \in BOOLEAN
    BY <1>12 DEF CommitNested, Throw
  <2> QED
    BY <1>12, <2>1 DEF CommitNested, Goto
<1>13. ASSUME NEW t \in Threads, EndNested(t)
      PROVE  TypeOK'
  BY <1>13 DEF EndNested, Goto, Unregistered
<1>14. ASSUME NEW t \in Threads, NEW i \in Indexes, MakeReadOnly(t, i)
      PROVE  TypeOK'
  BY <1>14 DEF MakeReadOnly, Goto, NoWriters
<1>15. ASSUME NEW t \in Threads, NEW u \in Threads, CloseHandle(t, u)
      PROVE  TypeOK'
  BY <1>15 DEF CloseHandle, Goto
<1>16. ASSUME NEW t \in Threads, DestroyStructure(t)
      PROVE  TypeOK'
  BY <1>16 DEF DestroyStructure, Goto, AllHandlesClosed
<1>17. ASSUME NEW t \in Threads, Crash(t) \/ \E i \in Indexes : ReuseStructure(t, i)
      PROVE  TypeOK'
  BY <1>17 DEF Crash, ReuseStructure, SomeHandleClosed
<1>18. CASE UNCHANGED vars
  BY <1>18 DEF vars
<1> QED
  BY <1>1, <1>2, <1>3, <1>4, <1>5, <1>6, <1>7, <1>8, <1>9, <1>10, <1>11,
    <1>12, <1>13, <1>14, <1>15, <1>16, <1>17, <1>18 DEF Next, Step, Enter,
    Halted

\* The types, and what each label says of a thread's pointers, whatever the
\* allocator does.
THEOREM TypeCorrect == Spec => []TypeOK
<1>1. Init => TypeOK
  BY TypeOKInit
<1>2. TypeOK /\ [Next]_vars => TypeOK'
  BY TypeOKStep
<1> QED
  BY <1>1, <1>2, PTL DEF Spec

-----------------------------------------------------------------------------
(* The inductive invariant.                                                *)

\* The index a thread is deleting is read-only, and still there.
Deleting ==
  \A t \in Threads :
    pc[t] = "closing" => arg[t] \in readOnly \cap catalog

\* A handle is closed, and a structure freed, on a read-only index only.
ReadOnlyFirst ==
  /\ \A t \in Threads : closed[t] \subseteq readOnly
  /\ Indexes \ catalog \subseteq readOnly

\* Nobody is registered with a read-only index.
ReadOnlyUnused == \A i \in readOnly : transactions[i] = {}

\* An operation past the gate is registered.
InsideRegistered ==
  \A t \in Threads : pc[t] \in Inside /\ Gated(t) => Writer(t) \in transactions[arg[t]]

\* No two pointers to a DbTxn are the same.
DistinctPointers ==
  \A t, u \in Threads :
    /\ tid[t] # None => tid[t] # tx[u]
    /\ t # u => /\ tx[t] # None => tx[t] # tx[u]
                /\ tid[t] # None => tid[t] # tid[u]

\* A transaction is resolved before it is deregistered.
ResolvedFirst ==
  \A t \in Threads :
    /\ pc[t] = "end" => tid[t] \notin live
    /\ pc[t] = "closetx" => tx[t] \notin live

\* An unresolved transaction is registered with every index it modified.
WritersRegistered ==
  \A p \in live : \A i \in wrote[p] : p \in transactions[i]

\* When a nested transaction commits, the one around it is registered with the
\* index it modified.
CallerRegistered ==
  \A t \in Threads :
    op[t] # "insert" =>
      /\ pc[t] \in {"gate", "cmp", "work"} => wrote[tid[t]] = {}
      /\ pc[t] = "register" => wrote[tid[t]] \subseteq {arg[t]}
      /\ pc[t] = "commit" /\ tx[t] # None =>
           \A i \in wrote[tid[t]] : tx[t] \in transactions[i]

\* A thread's transaction is not nested, and unresolved until it resolves it.
TopLevel ==
  \A t \in Threads : tx[t] # None =>
    /\ parent[tx[t]] = None
    /\ pc[t] # "closetx" => tx[t] \in live

\* A thread's nested transaction is nested in the thread's transaction, and
\* unresolved until it commits.
NestedInCaller ==
  \A t \in Threads : tid[t] # None =>
    /\ parent[tid[t]] = tx[t]
    /\ pc[t] # "end" => tid[t] \in live

IInv == /\ TypeOK /\ Deleting /\ ReadOnlyFirst /\ ReadOnlyUnused
        /\ InsideRegistered /\ DistinctPointers /\ ResolvedFirst
        /\ WritersRegistered /\ CallerRegistered

\* The invariant, with what the pointers point to: what the addresses of new
\* transactions are compared with, and what the refinement rests on.
RInv == IInv /\ TopLevel /\ NestedInCaller

\* Initially nobody is registered, and nothing is read-only.
LEMMA IInvInit == Init => IInv
<1> SUFFICES ASSUME Init PROVE IInv
  OBVIOUS
<1>1. TypeOK
  BY TypeOKInit
<1> QED
  BY <1>1, NoneAssumption DEF Init, IInv, Deleting, ReadOnlyFirst, ReadOnlyUnused,
       InsideRegistered, DistinctPointers, ResolvedFirst, WritersRegistered,
       CallerRegistered, Inside

OneThread == \A t, u \in Threads : t = u

\* Nobody begins a transaction at the address of a dead DbTxn that another thread
\* has still to erase: the allocator does not do it, or there is no other thread.
NoEarlyReuse == Quarantine \/ OneThread

\* No pointer has the address at which a transaction begins.  A thread that begins
\* one holds at most a transaction, and that is unresolved.
LEMMA FreshAddress ==
  ASSUME NoEarlyReuse, TypeOK, TopLevel, NEW t \in Threads, pc[t] \in {"idle", "enter"},
         NEW p \in Txns, p \notin live, Quarantine => ~Referenced(p)
  PROVE  ~Referenced(p)
<1>1. CASE Quarantine
  BY <1>1
<1>2. CASE OneThread
  <2>1. tid[t] = None /\ (tx[t] # None => tx[t] \in live)
    BY DEF TypeOK, TopLevel, Nested
  <2> QED BY <1>2, <2>1, NoneAssumption DEF OneThread, Referenced
<1> QED BY <1>1, <1>2 DEF NoEarlyReuse

\* Every step preserves the inductive invariant.
LEMMA IInvStep ==
  ASSUME NoEarlyReuse, RInv, [Next]_vars
  PROVE  IInv'
<1> USE NoneAssumption DEF gateVars, txnVars, callVars
<1> SUFFICES ASSUME TypeOK, Deleting, ReadOnlyFirst, ReadOnlyUnused,
                    InsideRegistered, DistinctPointers, ResolvedFirst,
                    WritersRegistered, CallerRegistered, TypeOK', TopLevel
             PROVE  IInv'
  BY TypeOKStep DEF IInv, RInv
<1>0. ASSUME NEW t \in Threads, pc[t] \in {"idle", "enter"}, NEW p \in Txns, p \notin live,
             Quarantine => ~Referenced(p)
      PROVE  /\ \A u \in Threads : tx[u] # p /\ tid[u] # p
  BY <1>0, FreshAddress DEF Referenced
<1>1. ASSUME NEW t \in Threads, BeginTransaction(t)
      PROVE  IInv'
  <2> USE <1>0, <1>1 DEF BeginTransaction, TxnBegin
  <2>1. InsideRegistered'
    BY DEF TypeOK, InsideRegistered, Inside, Nested, Gated, Writer
  <2>2. DistinctPointers'
    BY DEF TypeOK, DistinctPointers
  <2>3. ResolvedFirst'
    BY DEF TypeOK, ResolvedFirst, DistinctPointers, Nested
  <2>4. WritersRegistered'
    BY DEF TypeOK, WritersRegistered, InsideRegistered, CallerRegistered,
      ResolvedFirst, Inside, Nested, Gated, Writer
  <2>5. CallerRegistered'
    BY DEF TypeOK, CallerRegistered, InsideRegistered, ReadOnlyUnused,
      DistinctPointers, Inside, Nested, Gated, Writer
  <2> QED
    BY <2>1, <2>2, <2>3, <2>4, <2>5 DEF IInv, TypeOK, Deleting,
      ReadOnlyFirst, ReadOnlyUnused
<1>2. ASSUME NEW t \in Threads, Resolve(t)
      PROVE  IInv'
  <2> USE <1>2 DEF Resolve, Goto, Family
  <2>1. InsideRegistered'
    BY DEF TypeOK, InsideRegistered, Inside, Nested, Gated, Writer
  <2>2. DistinctPointers'
    BY DEF TypeOK, DistinctPointers
  <2>3. ResolvedFirst'
    BY DEF TypeOK, ResolvedFirst, DistinctPointers, Nested
  <2>4. WritersRegistered'
    BY DEF TypeOK, WritersRegistered, InsideRegistered, CallerRegistered,
      ResolvedFirst, Inside, Nested, Gated, Writer
  <2>5. CallerRegistered'
    BY DEF TypeOK, CallerRegistered, InsideRegistered, ReadOnlyUnused,
      DistinctPointers, Inside, Nested, Gated, Writer
  <2> QED
    BY <2>1, <2>2, <2>3, <2>4, <2>5 DEF IInv, TypeOK, Deleting,
      ReadOnlyFirst, ReadOnlyUnused
<1>3. ASSUME NEW t \in Threads, CloseTransaction(t)
      PROVE  IInv'
  <2> USE <1>3 DEF CloseTransaction, Goto
  <2>1. ReadOnlyUnused'
    BY DEF TypeOK, ReadOnlyUnused
  <2>2. InsideRegistered'
    BY DEF TypeOK, InsideRegistered, DistinctPointers, Inside, Nested,
      Gated, Writer
  <2>3. DistinctPointers'
    BY DEF TypeOK, DistinctPointers
  <2>4. WritersRegistered'
    BY DEF TypeOK, WritersRegistered, InsideRegistered, CallerRegistered,
      ResolvedFirst, Inside, Nested, Gated, Writer
  <2>5. CallerRegistered'
    BY DEF TypeOK, CallerRegistered, InsideRegistered, ReadOnlyUnused,
      DistinctPointers, Inside, Nested, Gated, Writer
  <2> QED
    BY <2>1, <2>2, <2>3, <2>4, <2>5 DEF IInv, TypeOK, Deleting,
      ReadOnlyFirst, ResolvedFirst, DistinctPointers, Nested
<1>4. ASSUME NEW t \in Threads, NEW i \in Indexes, NEW o \in Ops, Call(t, i, o)
      PROVE  IInv'
  <2> USE <1>4 DEF Call, Goto
  <2>1. InsideRegistered'
    BY DEF TypeOK, InsideRegistered, Inside, Nested, Gated, Writer
  <2>2. CallerRegistered'
    BY DEF TypeOK, CallerRegistered, InsideRegistered, ReadOnlyUnused,
      DistinctPointers, Inside, Nested, Gated, Writer
  <2> QED
    BY <2>1, <2>2 DEF IInv, TypeOK, Deleting, ReadOnlyFirst,
      ReadOnlyUnused, DistinctPointers, ResolvedFirst, Nested,
      WritersRegistered, InsideRegistered, CallerRegistered, Inside,
      Gated, Writer
<1>5. ASSUME NEW t \in Threads, Access(t)
      PROVE  IInv'
  <2> USE <1>5 DEF Access, Goto
  <2>1. InsideRegistered'
    BY DEF TypeOK, InsideRegistered, Inside, Nested, Gated, Writer
  <2>2. CallerRegistered'
    BY DEF TypeOK, CallerRegistered, InsideRegistered, ReadOnlyUnused,
      DistinctPointers, Inside, Nested, Gated, Writer
  <2> QED
    BY <2>1, <2>2 DEF IInv, TypeOK, Deleting, ReadOnlyFirst,
      ReadOnlyUnused, DistinctPointers, ResolvedFirst, Nested,
      WritersRegistered, InsideRegistered, CallerRegistered, Inside,
      Gated, Writer
<1>6. ASSUME NEW t \in Threads, BeginNested(t)
      PROVE  IInv'
  <2> USE <1>0, <1>6 DEF BeginNested, Goto, TxnBegin
  <2>1. InsideRegistered'
    BY DEF TypeOK, InsideRegistered, Inside, Nested, Gated, Writer
  <2>2. DistinctPointers'
    BY DEF TypeOK, DistinctPointers
  <2>3. ResolvedFirst'
    BY DEF TypeOK, ResolvedFirst, DistinctPointers, Nested
  <2>4. WritersRegistered'
    BY DEF TypeOK, WritersRegistered, InsideRegistered, CallerRegistered,
      ResolvedFirst, Inside, Nested, Gated, Writer
  <2>5. CallerRegistered'
    BY DEF TypeOK, CallerRegistered, InsideRegistered, ReadOnlyUnused,
      DistinctPointers, Inside, Nested, Gated, Writer
  <2> QED
    BY <2>1, <2>2, <2>3, <2>4, <2>5 DEF IInv, TypeOK, Deleting,
      ReadOnlyFirst, ReadOnlyUnused
<1>7. ASSUME NEW t \in Threads, Gate(t)
      PROVE  IInv'
  <2> USE <1>7 DEF Gate, Goto, Register, Admits
  <2>1. ReadOnlyUnused'
    BY DEF TypeOK, ReadOnlyUnused
  <2>2. InsideRegistered'
    BY DEF TypeOK, InsideRegistered, Inside, Nested, Gated, Writer
  <2>3. WritersRegistered'
    BY DEF TypeOK, WritersRegistered, InsideRegistered, CallerRegistered,
      ResolvedFirst, Inside, Nested, Gated, Writer
  <2>4. CallerRegistered'
    BY DEF TypeOK, CallerRegistered, InsideRegistered, ReadOnlyUnused,
      DistinctPointers, Inside, Nested, Gated, Writer
  <2> QED
    BY <2>1, <2>2, <2>3, <2>4 DEF IInv, TypeOK, Deleting, ReadOnlyFirst,
      DistinctPointers, ResolvedFirst, Nested
<1>8. ASSUME NEW t \in Threads, Compare(t)
      PROVE  IInv'
  <2> USE <1>8 DEF Compare, Goto
  <2>1. InsideRegistered'
    BY DEF TypeOK, InsideRegistered, Inside, Nested, Gated, Writer
  <2>2. CallerRegistered'
    BY DEF TypeOK, CallerRegistered, InsideRegistered, ReadOnlyUnused,
      DistinctPointers, Inside, Nested, Gated, Writer
  <2> QED
    BY <2>1, <2>2 DEF IInv, TypeOK, Deleting, ReadOnlyFirst,
      ReadOnlyUnused, DistinctPointers, ResolvedFirst, Nested,
      WritersRegistered, InsideRegistered, CallerRegistered, Inside,
      Gated, Writer
<1>9. ASSUME NEW t \in Threads, Put(t)
      PROVE  IInv'
  <2> USE <1>9 DEF Put, Goto
  <2>1. InsideRegistered'
    BY DEF TypeOK, InsideRegistered, Inside, Nested, Gated, Writer
  <2>2. WritersRegistered'
    BY DEF TypeOK, WritersRegistered, InsideRegistered, CallerRegistered,
      ResolvedFirst, Inside, Nested, Gated, Writer
  <2>3. CallerRegistered'
    BY DEF TypeOK, CallerRegistered, InsideRegistered, ReadOnlyUnused,
      DistinctPointers, Inside, Nested, Gated, Writer
  <2> QED
    BY <2>1, <2>2, <2>3 DEF IInv, TypeOK, Deleting, ReadOnlyFirst,
      ReadOnlyUnused, DistinctPointers, ResolvedFirst, Nested
<1>10. ASSUME NEW t \in Threads, Modify(t)
      PROVE  IInv'
  <2> USE <1>10 DEF Modify, Goto
  <2>1. InsideRegistered'
    BY DEF TypeOK, InsideRegistered, Inside, Nested, Gated, Writer
  <2>2. DistinctPointers'
    BY DEF TypeOK, DistinctPointers
  <2>3. WritersRegistered'
    BY DEF TypeOK, WritersRegistered, InsideRegistered, CallerRegistered,
      ResolvedFirst, Inside, Nested, Gated, Writer
  <2>4. CallerRegistered'
    BY DEF TypeOK, CallerRegistered, InsideRegistered, ReadOnlyUnused,
      DistinctPointers, Inside, Nested, Gated, Writer
  <2> QED
    BY <2>1, <2>2, <2>3, <2>4 DEF IInv, TypeOK, Deleting, ReadOnlyFirst,
      ReadOnlyUnused, ResolvedFirst, DistinctPointers, Nested
<1>11. ASSUME NEW t \in Threads, RegisterParent(t)
      PROVE  IInv'
  <2> USE <1>11 DEF RegisterParent, Goto, Register, Admits, CallerOf
  <2>1. ReadOnlyUnused'
    BY DEF TypeOK, ReadOnlyUnused
  <2>2. InsideRegistered'
    BY DEF TypeOK, InsideRegistered, Inside, Nested, Gated, Writer
  <2>3. DistinctPointers'
    BY DEF TypeOK, DistinctPointers
  <2>4. WritersRegistered'
    BY DEF TypeOK, WritersRegistered, InsideRegistered, CallerRegistered,
      ResolvedFirst, Inside, Nested, Gated, Writer
  <2>5. CallerRegistered'
    BY DEF TypeOK, CallerRegistered, InsideRegistered, ReadOnlyUnused,
      DistinctPointers, Inside, Nested, Gated, Writer
  <2> QED
    BY <2>1, <2>2, <2>3, <2>4, <2>5 DEF IInv, TypeOK, Deleting,
      ReadOnlyFirst, ResolvedFirst, DistinctPointers, Nested
<1>12. ASSUME NEW t \in Threads, CommitNested(t)
      PROVE  IInv'
  <2> USE <1>12 DEF CommitNested, Goto
  <2>1. InsideRegistered'
    BY DEF TypeOK, InsideRegistered, Inside, Nested, Gated, Writer
  <2>2. DistinctPointers'
    BY DEF TypeOK, DistinctPointers
  <2>3. ResolvedFirst'
    BY DEF TypeOK, ResolvedFirst, DistinctPointers, Nested
  <2>4. WritersRegistered'
    BY DEF TypeOK, WritersRegistered, InsideRegistered, CallerRegistered,
      ResolvedFirst, Inside, Nested, Gated, Writer
  <2>5. CallerRegistered'
    BY DEF TypeOK, CallerRegistered, InsideRegistered, ReadOnlyUnused,
      DistinctPointers, Inside, Nested, Gated, Writer
  <2> QED
    BY <2>1, <2>2, <2>3, <2>4, <2>5 DEF IInv, TypeOK, Deleting,
      ReadOnlyFirst, ReadOnlyUnused
<1>13. ASSUME NEW t \in Threads, EndNested(t)
      PROVE  IInv'
  <2> USE <1>13 DEF EndNested, Goto, Unregistered
  <2>1. ReadOnlyUnused'
    BY DEF TypeOK, ReadOnlyUnused
  <2>2. InsideRegistered'
    BY DEF TypeOK, InsideRegistered, DistinctPointers, Inside, Nested,
      Gated, Writer
  <2>3. DistinctPointers'
    BY DEF TypeOK, DistinctPointers
  <2>4. WritersRegistered'
    BY DEF TypeOK, WritersRegistered, InsideRegistered, CallerRegistered,
      ResolvedFirst, Inside, Nested, Gated, Writer
  <2>5. CallerRegistered'
    BY DEF TypeOK, CallerRegistered, InsideRegistered, ReadOnlyUnused,
      DistinctPointers, Inside, Nested, Gated, Writer
  <2> QED
    BY <2>1, <2>2, <2>3, <2>4, <2>5 DEF IInv, TypeOK, Deleting,
      ReadOnlyFirst, ResolvedFirst, DistinctPointers, Nested
<1>14. ASSUME NEW t \in Threads, NEW i \in Indexes, MakeReadOnly(t, i)
      PROVE  IInv'
  <2> USE <1>14 DEF MakeReadOnly, Goto, NoWriters
  <2>1. Deleting'
    BY DEF TypeOK, Deleting
  <2>2. ReadOnlyFirst'
    BY DEF TypeOK, ReadOnlyFirst, Deleting
  <2>3. ReadOnlyUnused'
    BY DEF TypeOK, ReadOnlyUnused
  <2>4. InsideRegistered'
    BY DEF TypeOK, InsideRegistered, Inside, Nested, Gated, Writer
  <2>5. CallerRegistered'
    BY DEF TypeOK, CallerRegistered, InsideRegistered, ReadOnlyUnused,
      DistinctPointers, Inside, Nested, Gated, Writer
  <2> QED
    BY <2>1, <2>2, <2>3, <2>4, <2>5 DEF IInv, TypeOK, DistinctPointers,
      ResolvedFirst, Nested, WritersRegistered, InsideRegistered,
      CallerRegistered, Inside, Gated, Writer
<1>15. ASSUME NEW t \in Threads, NEW u \in Threads, CloseHandle(t, u)
      PROVE  IInv'
  <2> USE <1>15 DEF CloseHandle, Goto
  <2>1. Deleting'
    BY DEF TypeOK, Deleting
  <2>2. ReadOnlyFirst'
    BY DEF TypeOK, ReadOnlyFirst, Deleting
  <2>3. InsideRegistered'
    BY DEF TypeOK, InsideRegistered, Inside, Nested, Gated, Writer
  <2>4. CallerRegistered'
    BY DEF TypeOK, CallerRegistered, InsideRegistered, ReadOnlyUnused,
      DistinctPointers, Inside, Nested, Gated, Writer
  <2> QED
    BY <2>1, <2>2, <2>3, <2>4 DEF IInv, TypeOK, ReadOnlyUnused,
      DistinctPointers, ResolvedFirst, Nested, WritersRegistered,
      InsideRegistered, CallerRegistered, Inside, Gated, Writer
<1>16. ASSUME NEW t \in Threads, DestroyStructure(t)
      PROVE  IInv'
  <2> USE <1>16 DEF DestroyStructure, Goto, AllHandlesClosed
  <2>1. Deleting'
    BY DEF TypeOK, Deleting
  <2>2. ReadOnlyFirst'
    BY DEF TypeOK, ReadOnlyFirst, Deleting
  <2>3. InsideRegistered'
    BY DEF TypeOK, InsideRegistered, Inside, Nested, Gated, Writer
  <2>4. CallerRegistered'
    BY DEF TypeOK, CallerRegistered, InsideRegistered, ReadOnlyUnused,
      DistinctPointers, Inside, Nested, Gated, Writer
  <2> QED
    BY <2>1, <2>2, <2>3, <2>4 DEF IInv, TypeOK, ReadOnlyUnused,
      DistinctPointers, ResolvedFirst, Nested, WritersRegistered,
      InsideRegistered, CallerRegistered, Inside, Gated, Writer
<1>17. ASSUME NEW t \in Threads, Crash(t) \/ \E i \in Indexes : ReuseStructure(t, i)
      PROVE  IInv'
  BY <1>17 DEF Crash, ReuseStructure, IInv, TypeOK, Deleting, ReadOnlyFirst, ReadOnlyUnused,
    InsideRegistered, DistinctPointers, Inside, Nested, Gated, Writer,
    ResolvedFirst, WritersRegistered, CallerRegistered
<1>18. CASE UNCHANGED vars
  BY <1>18 DEF IInv, vars, TypeOK, Nested, Gated, Deleting, ReadOnlyFirst,
    ReadOnlyUnused, InsideRegistered, DistinctPointers, Inside, Writer,
    ResolvedFirst, WritersRegistered, CallerRegistered
<1> QED
  BY <1>1, <1>2, <1>3, <1>4, <1>5, <1>6, <1>7, <1>8, <1>9, <1>10, <1>11,
    <1>12, <1>13, <1>14, <1>15, <1>16, <1>17, <1>18 DEF Next, Step, Enter,
    Halted

LEMMA RInvInit == Init => RInv
BY IInvInit DEF Init, RInv, TopLevel, NestedInCaller

\* Every step preserves the invariant of the refinement.
LEMMA RInvStep ==
  ASSUME NoEarlyReuse, RInv, [Next]_vars
  PROVE  RInv'
<1> SUFFICES ASSUME TypeOK, DistinctPointers, TopLevel, NestedInCaller
             PROVE  TopLevel' /\ NestedInCaller'
  BY IInvStep DEF RInv, IInv
<1>0. ASSUME NEW t \in Threads, pc[t] \in {"idle", "enter"}, NEW p \in Txns, p \notin live,
             Quarantine => ~Referenced(p)
      PROVE  /\ \A u \in Threads : tx[u] # p /\ tid[u] # p
  BY <1>0, FreshAddress DEF Referenced
<1> USE NoneAssumption DEF TypeOK, DistinctPointers, TopLevel, NestedInCaller,
                           Nested, gateVars, txnVars, callVars
<1>1. ASSUME NEW t \in Threads, BeginTransaction(t)
      PROVE  TopLevel' /\ NestedInCaller'
  <2> USE <1>0, <1>1 DEF BeginTransaction, TxnBegin
  <2>1. TopLevel'
    OBVIOUS
  <2>2. NestedInCaller'
    OBVIOUS
  <2> QED
    BY <2>1, <2>2
<1>2. ASSUME NEW t \in Threads, Resolve(t)
      PROVE  TopLevel' /\ NestedInCaller'
  BY <1>2 DEF Resolve, Goto, Family
<1>3. ASSUME NEW t \in Threads, CloseTransaction(t)
      PROVE  TopLevel' /\ NestedInCaller'
  BY <1>3 DEF CloseTransaction, Goto
<1>4. ASSUME NEW t \in Threads, NEW i \in Indexes, NEW o \in Ops, Call(t, i, o)
      PROVE  TopLevel' /\ NestedInCaller'
  BY <1>4 DEF Call, Goto
<1>5. ASSUME NEW t \in Threads, Access(t)
      PROVE  TopLevel' /\ NestedInCaller'
  BY <1>5 DEF Access, Goto
<1>6. ASSUME NEW t \in Threads, BeginNested(t)
      PROVE  TopLevel' /\ NestedInCaller'
  BY <1>0, <1>6 DEF BeginNested, Goto, TxnBegin
<1>7. ASSUME NEW t \in Threads, Gate(t)
      PROVE  TopLevel' /\ NestedInCaller'
  BY <1>7 DEF Gate, Goto, Register, Admits
<1>8. ASSUME NEW t \in Threads, Compare(t)
      PROVE  TopLevel' /\ NestedInCaller'
  BY <1>8 DEF Compare, Goto
<1>9. ASSUME NEW t \in Threads, Put(t)
      PROVE  TopLevel' /\ NestedInCaller'
  BY <1>9 DEF Put, Goto
<1>10. ASSUME NEW t \in Threads, Modify(t)
      PROVE  TopLevel' /\ NestedInCaller'
  BY <1>10 DEF Modify, Goto
<1>11. ASSUME NEW t \in Threads, RegisterParent(t)
      PROVE  TopLevel' /\ NestedInCaller'
  BY <1>11 DEF RegisterParent, Goto, Register, Admits, CallerOf
<1>12. ASSUME NEW t \in Threads, CommitNested(t)
      PROVE  TopLevel' /\ NestedInCaller'
  BY <1>12 DEF CommitNested, Goto
<1>13. ASSUME NEW t \in Threads, EndNested(t)
      PROVE  TopLevel' /\ NestedInCaller'
  BY <1>13 DEF EndNested, Goto, Unregistered
<1>14. ASSUME NEW t \in Threads, NEW i \in Indexes, MakeReadOnly(t, i)
      PROVE  TopLevel' /\ NestedInCaller'
  BY <1>14 DEF MakeReadOnly, Goto, NoWriters
<1>15. ASSUME NEW t \in Threads, NEW u \in Threads, CloseHandle(t, u)
      PROVE  TopLevel' /\ NestedInCaller'
  BY <1>15 DEF CloseHandle, Goto
<1>16. ASSUME NEW t \in Threads, DestroyStructure(t)
      PROVE  TopLevel' /\ NestedInCaller'
  BY <1>16 DEF DestroyStructure, Goto, AllHandlesClosed
<1>17. ASSUME NEW t \in Threads, Crash(t) \/ \E i \in Indexes : ReuseStructure(t, i)
      PROVE  TopLevel' /\ NestedInCaller'
  BY <1>17 DEF Crash, ReuseStructure, SomeHandleClosed
<1>18. CASE UNCHANGED vars
  BY <1>18 DEF vars
<1> QED
  BY <1>1, <1>2, <1>3, <1>4, <1>5, <1>6, <1>7, <1>8, <1>9, <1>10, <1>11,
    <1>12, <1>13, <1>14, <1>15, <1>16, <1>17, <1>18 DEF Next, Step, Enter,
    Halted

\* The inductive invariant holds when addresses are not reused too early.
THEOREM Inductive == NoEarlyReuse => (Spec => []RInv)
<1> SUFFICES ASSUME NoEarlyReuse PROVE Spec => []RInv
  OBVIOUS
<1>1. Init => RInv
  BY RInvInit
<1>2. RInv /\ [Next]_vars => RInv'
  BY RInvStep
<1> QED
  BY <1>1, <1>2, PTL DEF Spec

-----------------------------------------------------------------------------
(* What follows from it.                                                   *)

LEMMA IInvGateProtects == IInv => GateProtects
BY DEF IInv, TypeOK, GateProtects, InsideRegistered, ReadOnlyFirst, ReadOnlyUnused

LEMMA IInvNoUnresolvedWrites == IInv => NoUnresolvedWrites
BY DEF IInv, TypeOK, NoUnresolvedWrites, WritersRegistered, ReadOnlyUnused

\* A DeleteIndex has the manager and waits for the handle of a thread that has yet to
\* come to the gate: past it, the index would not be deleted.  That thread does not wait.
LEMMA IInvNoCircularWait == IInv => NoCircularWait
<1> SUFFICES ASSUME IInv, NEW t \in Threads, NEW u \in Threads, NEW v \in Threads,
                    NEW w \in Threads, Waits(t, u), Waits(u, v), Waits(v, w)
             PROVE  FALSE
  BY DEF NoCircularWait
<1>1. TypeOK /\ Deleting /\ GateProtects
  BY IInvGateProtects DEF IInv
\* A thread waited for has the manager and is closing handles, or is updating.
<1>2. ASSUME NEW x \in Threads, NEW y \in Threads, Waits(x, y), pc[x] # "closing"
      PROVE  pc[y] = "closing"
  BY <1>1, <1>2 DEF Waits, TypeOK
<1>3. ASSUME NEW x \in Threads, NEW y \in Threads, Waits(x, y), pc[x] = "closing"
      PROVE  \A z \in Threads : ~ Waits(y, z)
  <2>1. op[y] = "update" /\ arg[y] = arg[x] /\ pc[y] \in Nested /\ arg[x] \in readOnly
    BY <1>1, <1>3 DEF Waits, HoldsHandleMutex, Deleting
  <2>2. pc[y] # "cmp"
    BY <1>1, <2>1 DEF GateProtects, Gated, Inside
  <2> QED BY <2>1, <2>2 DEF Waits, Nested
<1> QED BY <1>2, <1>3

\* No DeleteIndex frees the structure or closes the handle under an operation
\* that start_transaction let in.
THEOREM GateProtectsAlways == NoEarlyReuse => (Spec => []GateProtects)
BY Inductive, IInvGateProtects, PTL DEF RInv

\* No DeleteIndex succeeds on an index with unresolved modifications.
THEOREM NoUnresolvedWritesAlways == NoEarlyReuse => (Spec => []NoUnresolvedWrites)
BY Inductive, IInvNoUnresolvedWrites, PTL DEF RInv

\* No circle of threads that wait for each other's mutexes, however many they are.
THEOREM NoCircularWaitAlways == NoEarlyReuse => (Spec => []NoCircularWait)
BY Inductive, IInvNoCircularWait, PTL DEF RInv

-----------------------------------------------------------------------------
(* What DeleteIndex is refused for.                                        *)

\* As long as nothing has thrown, what is registered with an index is the
\* transaction of a caller, or nested in a call past the gate of that index.
Held(i, p) ==
  \/ \E t \in Threads : tx[t] = p
  \/ \E t \in Threads : tid[t] = p /\ arg[t] = i /\ pc[t] \in Inside

HeldInv == ~thrown => \A i \in Indexes : \A p \in transactions[i] : Held(i, p)

LEMMA HeldInvStep ==
  ASSUME IInv, HeldInv, [Next]_vars
  PROVE  HeldInv'
<1> USE NoneAssumption DEF IInv, TypeOK, HeldInv, Held, Inside, Nested,
                           gateVars, txnVars, callVars, Goto
<1>1. ASSUME NEW t \in Threads, BeginTransaction(t)
      PROVE  HeldInv'
  BY <1>1 DEF BeginTransaction
<1>2. ASSUME NEW t \in Threads, Resolve(t)
      PROVE  HeldInv'
  BY <1>2 DEF Resolve, Throw
<1>3. ASSUME NEW t \in Threads, CloseTransaction(t)
      PROVE  HeldInv'
  BY <1>3 DEF CloseTransaction, ReadOnlyFirst, ReadOnlyUnused
<1>4. ASSUME NEW t \in Threads, NEW i \in Indexes, NEW o \in Ops, Call(t, i, o)
      PROVE  HeldInv'
  BY <1>4 DEF Call
<1>5. ASSUME NEW t \in Threads, Access(t) \/ Compare(t) \/ Put(t)
      PROVE  HeldInv'
  BY <1>5 DEF Access, Compare, Put
<1>6. ASSUME NEW t \in Threads, BeginNested(t)
      PROVE  HeldInv'
  BY <1>6 DEF BeginNested
<1>7. ASSUME NEW t \in Threads, Gate(t)
      PROVE  HeldInv'
  BY <1>7 DEF Gate, Register, Admits, Writer, Gated
<1>8. ASSUME NEW t \in Threads, Modify(t)
      PROVE  HeldInv'
  BY <1>8 DEF Modify, Throw
<1>9. ASSUME NEW t \in Threads, RegisterParent(t)
      PROVE  HeldInv'
  BY <1>9 DEF RegisterParent, Register, Admits, CallerOf, Throw
<1>10. ASSUME NEW t \in Threads, CommitNested(t)
      PROVE  HeldInv'
  BY <1>10 DEF CommitNested, Throw
<1>11. ASSUME NEW t \in Threads, EndNested(t)
      PROVE  HeldInv'
  BY <1>11 DEF EndNested, Unregistered, DistinctPointers
<1>12. ASSUME NEW t \in Threads, NEW i \in Indexes, MakeReadOnly(t, i)
      PROVE  HeldInv'
  BY <1>12 DEF MakeReadOnly
<1>13. ASSUME NEW t \in Threads,
              DestroyStructure(t) \/ \E u \in Threads : CloseHandle(t, u)
      PROVE  HeldInv'
  BY <1>13 DEF DestroyStructure, CloseHandle
<1>14. ASSUME NEW t \in Threads, Crash(t) \/ \E i \in Indexes : ReuseStructure(t, i)
      PROVE  HeldInv'
  BY <1>14 DEF Crash, ReuseStructure
<1>15. CASE UNCHANGED vars
  BY <1>15 DEF vars
<1> QED
  BY <1>1, <1>2, <1>3, <1>4, <1>5, <1>6, <1>7, <1>8, <1>9, <1>10, <1>11, <1>12,
     <1>13, <1>14, <1>15 DEF Next, Step, Enter, Halted

\* DeleteIndex is never refused for a transaction that nobody can resolve,
\* unless an exception has left one behind.
THEOREM OnlyHoldersRefuseAlways == NoEarlyReuse => (Spec => []OnlyHoldersRefuse)
<1> SUFFICES ASSUME NoEarlyReuse PROVE Spec => []OnlyHoldersRefuse
  OBVIOUS
<1>1. Init => HeldInv
  BY DEF Init, HeldInv
<1>2. RInv /\ HeldInv /\ [Next]_vars => HeldInv'
  BY HeldInvStep DEF RInv
<1>3. HeldInv => OnlyHoldersRefuse
  BY DEF HeldInv, Held, OnlyHoldersRefuse
<1> QED
  BY <1>1, <1>2, <1>3, Inductive, PTL DEF Spec

-----------------------------------------------------------------------------
(* WriteGate implements IndexContract.                                     *)

\* When at most p disappears from the writers, p settles.
LEMMA SettleStep ==
  ASSUME NEW p \in Txns, UNCHANGED readOnly,
         \A i \in Indexes : /\ Modifiers[i] \ {p} \subseteq Modifiers'[i]
                            /\ Modifiers'[i] \subseteq Modifiers[i]
  PROVE  Contract!Next
<1> DEFINE S == {i \in Indexes : p \notin Modifiers'[i]}
           M == [i \in Indexes |-> IF i \in S THEN Modifiers[i] \ {p} ELSE Modifiers[i]]
<1>1. \A i \in Indexes : Modifiers'[i] = M[i]
  OBVIOUS
<1>2. Modifiers' = M
  BY <1>1 DEF Modifiers
<1>3. Contract!Settle(p, S)
  BY <1>2 DEF Contract!Settle
<1> QED
  BY <1>3 DEF Contract!Next

\* When no writer appears or disappears and no index is deleted, nothing happens.
LEMMA StutterStep ==
  ASSUME UNCHANGED readOnly, \A i \in Indexes : Modifiers'[i] = Modifiers[i]
  PROVE  UNCHANGED Contract!vars
<1>1. Modifiers' = Modifiers
  BY DEF Modifiers
<1> QED
  BY <1>1 DEF Contract!vars

\* When p is added to the writers of an index that exists, p modifies it.
LEMMA ModifyStep ==
  ASSUME NEW p \in Txns, NEW j \in Indexes \ readOnly, UNCHANGED readOnly,
         Modifiers'[j] = Modifiers[j] \cup {p},
         \A i \in Indexes \ {j} : Modifiers'[i] = Modifiers[i]
  PROVE  Contract!Next
<1>1. Modifiers' = [Modifiers EXCEPT ![j] = @ \cup {p}]
  BY DEF Modifiers
<1>2. Contract!Modify(j, p)
  BY <1>1 DEF Contract!Modify
<1> QED
  BY <1>2 DEF Contract!Next

\* A transaction that begins has modified nothing.
LEMMA TxnBeginStep ==
  ASSUME TypeOK, NEW p \in Txns, NEW q, TxnBegin(p, q), UNCHANGED readOnly
  PROVE  UNCHANGED Contract!vars
<1>1. \A r \in live : wrote'[r] = wrote[r] /\ parent'[r] = parent[r]
  BY DEF TypeOK, TxnBegin
<1>2. wrote'[p] = {}
  BY DEF TypeOK, TxnBegin
<1>3. live' = live \cup {p}
  BY DEF TxnBegin
<1>4. \A i \in Indexes : {r \in live' : i \in wrote'[r]} = {r \in live : i \in wrote[r]}
  BY <1>1, <1>2, <1>3
<1>5. \A r \in live : Root(r)' = Root(r)
  BY <1>1 DEF Root
<1>6. ASSUME NEW i \in Indexes
      PROVE  Modifiers'[i] = Modifiers[i]
  BY <1>4, <1>5 DEF Modifiers
<1> QED
  BY <1>6, StutterStep

\* When the transactions in S end and nothing is modified, p settles if it is
\* the root of all in S that had modified something.
LEMMA EndStep ==
  ASSUME NEW p \in Txns, NEW S, \A q \in S \cap live : wrote[q] = {} \/ Root(q) = p,
         live' = live \ S, UNCHANGED <<wrote, parent, readOnly>>
  PROVE  Contract!Next
<1>1. ASSUME NEW i \in Indexes
      PROVE  /\ Modifiers[i] \ {p} \subseteq Modifiers'[i]
             /\ Modifiers'[i] \subseteq Modifiers[i]
  BY DEF Modifiers, Root
<1> QED
  BY <1>1, SettleStep

\* When p, unresolved or not, modifies one index that exists, its root does.
LEMMA WriteStep ==
  ASSUME TypeOK, NEW p \in Txns, NEW j \in Indexes \ readOnly,
         wrote' = [wrote EXCEPT ![p] = @ \cup {j}], UNCHANGED <<live, parent, readOnly>>
  PROVE  [Contract!Next]_(Contract!vars)
<1>1. \A i \in Indexes \ {j} : Modifiers'[i] = Modifiers[i]
  BY DEF TypeOK, Modifiers, Root
<1>2. CASE p \in live
  <2>1. Modifiers'[j] = Modifiers[j] \cup {Root(p)}
    BY <1>2 DEF TypeOK, Modifiers, Root
  <2>2. Root(p) \in Txns
    BY DEF TypeOK, Root
  <2> QED
    BY <1>1, <2>1, <2>2, ModifyStep
<1>3. CASE p \notin live
  <2>1. Modifiers'[j] = Modifiers[j]
    BY <1>3 DEF TypeOK, Modifiers, Root
  <2> QED
    BY <1>1, <2>1, StutterStep
<1> QED
  BY <1>2, <1>3

\* The changes of a nested transaction become its parent's, the root's already,
\* or they are settled.
LEMMA CommitStep ==
  ASSUME RInv, NEW t \in Threads, CommitNested(t)
  PROVE  Contract!Next
<1> DEFINE n == tid[t]
<1>1. /\ n \in Txns \cap live
      /\ parent[n] = tx[t]
      /\ tx[t] # None => parent[tx[t]] = None
  BY DEF RInv, IInv, TypeOK, TopLevel, NestedInCaller, CommitNested, Nested
<1>2. Root(n) \in Txns
  BY <1>1 DEF Root, RInv, IInv, TypeOK
<1>3. UNCHANGED <<parent, readOnly>> /\ live' = live \ {n}
  BY DEF CommitNested, gateVars
<1>4. CASE UNCHANGED wrote
  BY <1>1, <1>2, <1>3, <1>4, EndStep
<1>5. CASE wrote' = [p \in Txns |-> IF p = tx[t] THEN wrote[p] \cup wrote[n]
                                                 ELSE wrote[p]]
  <2> USE DEF RInv, IInv, TypeOK
  <2>1. \A q \in Txns : /\ wrote[q] \subseteq wrote'[q]
                        /\ wrote'[q] \subseteq wrote[q] \cup wrote[n]
                        /\ q # tx[t] => wrote'[q] = wrote[q]
    BY <1>5
  <2>2. tx[t] # None => Root(tx[t]) = Root(n)
    BY <1>1 DEF Root
  <2>3. \A q \in Txns : Root(q)' = Root(q)
    BY <1>3 DEF Root
  <2>4. ASSUME NEW i \in Indexes
        PROVE  Modifiers'[i] \subseteq Modifiers[i]
    <3>1. SUFFICES ASSUME NEW q \in live \ {n}, i \in wrote'[q]
                   PROVE  Root(q) \in Modifiers[i]
      BY <1>3, <2>3 DEF Modifiers
    <3>2. CASE i \in wrote[q]
      BY <3>2 DEF Modifiers
    <3>3. CASE i \notin wrote[q]
      <4>1. q = tx[t] /\ i \in wrote[n]
        BY <2>1, <3>1, <3>3
      <4>2. Root(q) = Root(n)
        BY <2>2, <4>1, NoneAssumption
      <4> QED
        BY <1>1, <4>1, <4>2 DEF Modifiers
    <3> QED
      BY <3>2, <3>3
  <2>5. ASSUME NEW i \in Indexes
        PROVE  Modifiers[i] \ {Root(n)} \subseteq Modifiers'[i]
    BY <1>3, <2>1, <2>3 DEF Modifiers
  <2> QED
    BY <1>2, <1>3, <2>4, <2>5, SettleStep
<1> QED
  BY <1>4, <1>5 DEF CommitNested

\* Every step is a step of the contract or changes nothing it can see.
LEMMA ContractStep ==
  ASSUME RInv, [Next]_vars
  PROVE  [Contract!Next]_(Contract!vars)
<1> USE NoneAssumption DEF gateVars, txnVars, callVars
<1>0. TypeOK /\ GateProtects
  BY IInvGateProtects DEF RInv, IInv
<1>1. ASSUME UNCHANGED <<live, parent, wrote, readOnly>>
      PROVE  UNCHANGED Contract!vars
  BY <1>1 DEF Contract!vars, Modifiers, Root
<1>2. ASSUME NEW t \in Threads, BeginTransaction(t)
      PROVE  UNCHANGED Contract!vars
  BY <1>0, <1>2, TxnBeginStep DEF BeginTransaction
<1>3. ASSUME NEW t \in Threads, Resolve(t)
      PROVE  Contract!Next
  <2>1. tx[t] \in Txns /\ parent[tx[t]] = None
    BY <1>3 DEF Resolve, RInv, IInv, TypeOK, TopLevel
  <2>2. \A q \in Family(tx[t]) : Root(q) = tx[t]
    BY <2>1 DEF Family, Root
  <2> QED
    BY <1>3, <2>1, <2>2, EndStep DEF Resolve
<1>4. ASSUME NEW t \in Threads, BeginNested(t)
      PROVE  UNCHANGED Contract!vars
  <2>1. CASE \E p \in Txns : TxnBegin(p, tx[t])
    BY <1>0, <1>4, <2>1, TxnBeginStep DEF BeginNested
  <2>2. CASE UNCHANGED txnVars
    BY <1>1, <1>4, <2>2 DEF BeginNested
  <2> QED
    BY <1>4, <2>1, <2>2 DEF BeginNested
<1>5. ASSUME NEW t \in Threads, Gate(t)
      PROVE  [Contract!Next]_(Contract!vars)
  <2>1. CASE UNCHANGED live
    BY <1>1, <1>5, <2>1 DEF Gate
  <2>2. CASE live' = live \ {tid[t]} /\ tid[t] = None
    BY <1>0, <1>1, <1>5, <2>2 DEF Gate, TypeOK
  <2>3. CASE live' = live \ {tid[t]} /\ tid[t] # None
    <3>1. tid[t] \in Txns /\ wrote[tid[t]] = {}
      BY <1>5, <2>3 DEF Gate, RInv, IInv, TypeOK, CallerRegistered
    <3> QED
      BY <1>5, <2>3, <3>1, EndStep DEF Gate
  <2> QED
    BY <1>5, <2>1, <2>2, <2>3 DEF Gate
<1>6. ASSUME NEW t \in Threads, Put(t)
      PROVE  [Contract!Next]_(Contract!vars)
  <2>1. CASE UNCHANGED wrote \/ tx[t] = None
    <3>1. UNCHANGED wrote
      BY <1>0, <1>6, <2>1 DEF Put, TypeOK
    <3> QED
      BY <1>1, <1>6, <3>1 DEF Put
  <2>2. CASE tx[t] # None /\ ~ UNCHANGED wrote
    <3>1. tx[t] \in Txns /\ arg[t] \in Indexes \ readOnly
      BY <1>0, <1>6, <2>2 DEF Put, TypeOK, GateProtects, Inside, Gated
    <3>2. wrote' = [wrote EXCEPT ![tx[t]] = @ \cup {arg[t]}]
      BY <1>0, <1>6, <2>2, <3>1 DEF Put, TypeOK
    <3> QED
      BY <1>0, <1>6, <3>1, <3>2, WriteStep DEF Put
  <2> QED
    BY <2>1, <2>2
<1>7. ASSUME NEW t \in Threads, Modify(t)
      PROVE  [Contract!Next]_(Contract!vars)
  <2>1. CASE UNCHANGED wrote
    BY <1>1, <1>7, <2>1 DEF Modify
  <2>2. CASE wrote' = [wrote EXCEPT ![tid[t]] = @ \cup {arg[t]}]
    <3>1. tid[t] \in Txns /\ arg[t] \in Indexes \ readOnly
      BY <1>0, <1>7 DEF Modify, TypeOK, GateProtects, Inside, Gated, Nested
    <3> QED
      BY <1>0, <1>7, <2>2, <3>1, WriteStep DEF Modify
  <2> QED
    BY <1>7, <2>1, <2>2 DEF Modify
<1>8. ASSUME NEW t \in Threads, NEW i \in Indexes, MakeReadOnly(t, i)
      PROVE  [Contract!Next]_(Contract!vars)
  <2>1. UNCHANGED <<live, parent, wrote>> /\ readOnly' = readOnly \cup {i}
    BY <1>8 DEF MakeReadOnly
  <2>2. UNCHANGED Modifiers
    BY <2>1 DEF Modifiers, Root
  <2>3. CASE i \in readOnly
    BY <1>1, <2>1, <2>3
  <2>4. CASE i \notin readOnly
    <3>1. Modifiers[i] = {}
      BY <1>8 DEF RInv, IInv, WritersRegistered, Modifiers, MakeReadOnly, NoWriters
    <3>2. Contract!Drop(i)
      BY <2>1, <2>2, <2>4, <3>1 DEF Contract!Drop
    <3> QED
      BY <3>2 DEF Contract!Next
  <2> QED
    BY <2>3, <2>4
<1>9. ASSUME NEW t \in Threads,
             \/ CloseTransaction(t) \/ Access(t) \/ Compare(t) \/ RegisterParent(t)
             \/ EndNested(t) \/ DestroyStructure(t) \/ Crash(t)
             \/ \E i \in Indexes : ReuseStructure(t, i)
             \/ \E u \in Threads : CloseHandle(t, u)
             \/ \E i \in Indexes, o \in Ops : Call(t, i, o)
      PROVE  UNCHANGED Contract!vars
  BY <1>1, <1>9 DEF CloseTransaction, Access, Compare, RegisterParent, EndNested,
       DestroyStructure, Crash, ReuseStructure, CloseHandle, Call
<1>10. CASE UNCHANGED vars
  BY <1>1, <1>10 DEF vars
<1> QED
  BY <1>2, <1>3, <1>4, <1>5, <1>6, <1>7, <1>8, <1>9, <1>10, CommitStep
     DEF Next, Step, Enter, Halted

\* The writers of an index and DeleteIndex keep the promise of the interface:
\* WriteGate implements IndexContract.
THEOREM ContractKept == NoEarlyReuse => (Spec => KeepsContract)
<1> SUFFICES ASSUME NoEarlyReuse PROVE Spec => KeepsContract
  OBVIOUS
<1>3. Init => Contract!Init
  BY DEF Init, Contract!Init, Modifiers
<1>4. RInv /\ [Next]_vars => [Contract!Next]_(Contract!vars)
  BY ContractStep
<1> QED
  BY <1>3, <1>4, Inductive, PTL DEF Spec, KeepsContract, Contract!Spec

-----------------------------------------------------------------------------
(* The assertion in keycmp.                                                *)

\* The entry of an index is erased from indices_ after all its handles are closed.
HandlesFirst == \A t \in Threads : Indexes \ (catalog \cup wrecked) \subseteq closed[t]

LEMMA HandlesFirstStep ==
  ASSUME TypeOK, HandlesFirst, KeycmpFindsStructure, [Next]_vars
  PROVE  HandlesFirst' /\ KeycmpFindsStructure'
<1> USE DEF TypeOK, HandlesFirst, KeycmpFindsStructure, gateVars, txnVars, callVars
<1>1. ASSUME NEW t \in Threads, NEW u \in Threads, CloseHandle(t, u)
      PROVE  HandlesFirst' /\ KeycmpFindsStructure'
  BY <1>1 DEF CloseHandle, Goto
<1>2. ASSUME NEW t \in Threads, DestroyStructure(t)
      PROVE  HandlesFirst' /\ KeycmpFindsStructure'
  BY <1>2 DEF DestroyStructure, AllHandlesClosed
<1>3. ASSUME NEW t \in Threads, Crash(t) \/ \E i \in Indexes : ReuseStructure(t, i)
      PROVE  HandlesFirst' /\ KeycmpFindsStructure'
  BY <1>3 DEF Crash, ReuseStructure, SomeHandleClosed
<1>4. ASSUME UNCHANGED <<catalog, wrecked, closed, fault>>
      PROVE  HandlesFirst' /\ KeycmpFindsStructure'
  BY <1>4
<1>5. ASSUME NEW t \in Threads, Step(t) \/ Enter(t),
             ~ DestroyStructure(t), ~ (Crash(t) \/ \E i \in Indexes : ReuseStructure(t, i))
      PROVE  UNCHANGED <<catalog, wrecked, closed, fault>>
  BY <1>5 DEF Step, Enter, BeginTransaction, Resolve, CloseTransaction, Call, Access,
       BeginNested, Gate, Compare, Put, Modify, RegisterParent, CommitNested,
       EndNested, MakeReadOnly
<1> QED
  BY <1>1, <1>2, <1>3, <1>4, <1>5 DEF Next, Halted, vars

\* assert(is != NULL) never fails, whatever the allocator does.
THEOREM KeycmpFindsStructureAlways == Spec => []KeycmpFindsStructure
<1>1. Init => HandlesFirst /\ KeycmpFindsStructure
  BY DEF Init, HandlesFirst, KeycmpFindsStructure
<1>2. TypeOK /\ HandlesFirst /\ KeycmpFindsStructure /\ [Next]_vars
        => HandlesFirst' /\ KeycmpFindsStructure'
  BY HandlesFirstStep
<1> QED
  BY <1>1, <1>2, TypeCorrect, PTL DEF Spec

-----------------------------------------------------------------------------
(* Calls come nearer to their ends.                                        *)

\* What a step of t may do to the calls in progress.
Moves(t) == /\ pc[t] = "idle" \/ Advances(t)
            /\ \A u \in Threads \ {t} : Rests(u)

\* A step that moves the label of one thread, and opens and closes no handle of an
\* index being deleted, leaves the other calls where they are.
LEMMA OthersRest ==
  ASSUME TypeOK, NEW t \in Threads, NEW u \in Threads \ {t},
         pc'[u] = pc[u], arg'[u] = arg[u], closed' = closed
  PROVE  Rests(u)
BY DEF Rests, StillOpen

\* A step to a label nearer to the end of the call.
LEMMA ALabelOn ==
  ASSUME TypeOK, NEW t \in Threads, NEW label \in Labels, Goto(t, label),
         Distance[label] < Distance[pc[t]], UNCHANGED <<arg, closed>>
  PROVE  Moves(t)
<1>1. pc'[t] = label /\ \A u \in Threads \ {t} : pc'[u] = pc[u]
  BY DEF TypeOK, Goto
<1> QED BY <1>1, OthersRest DEF Moves, Advances

LEMMA CallsAdvanceStep ==
  ASSUME TypeOK, Next
  PROVE  \/ UNCHANGED vars
         \/ fault' # "none"
         \/ \E t \in Threads : Moves(t)
<1> USE DEF TypeOK, Labels, gateVars, txnVars, callVars
\* Calls begin.
<1>1. ASSUME NEW t \in Threads, Enter(t), ~ \E i \in Indexes : ReuseStructure(t, i)
      PROVE  Moves(t)
  <2>1. pc[t] = "idle" /\ \A u \in Threads \ {t} : pc'[u] = pc[u] /\ arg'[u] = arg[u]
    BY <1>1 DEF Enter, BeginTransaction, Resolve, Call, MakeReadOnly, Goto
  <2>2. closed' = closed
    BY <1>1 DEF Enter, BeginTransaction, Resolve, Call, MakeReadOnly
  <2> QED BY <2>1, <2>2, OthersRest DEF Moves
\* The steps of a record call, and of the resolution of a transaction.
<1>2. ASSUME NEW t \in Threads, Step(t), ~ Crash(t)
      PROVE  \E label \in Labels : /\ Goto(t, label) /\ UNCHANGED <<arg, closed>>
                                   /\ Distance[label] < Distance[pc[t]]
  <2> USE DEF Distance
  <2>1. CASE CloseTransaction(t)
    BY <2>1 DEF CloseTransaction
  <2>2. CASE Access(t)
    BY <2>2 DEF Access
  <2>3. CASE BeginNested(t)
    BY <2>3 DEF BeginNested
  <2>4. CASE Gate(t)
    BY <2>4 DEF Gate
  <2>5. CASE Compare(t)
    BY <2>5 DEF Compare
  <2>6. CASE Put(t)
    BY <2>6 DEF Put
  <2>7. CASE Modify(t)
    BY <2>7 DEF Modify
  <2>8. CASE RegisterParent(t)
    BY <2>8 DEF RegisterParent
  <2>9. CASE CommitNested(t)
    BY <2>9 DEF CommitNested
  <2>10. CASE EndNested(t)
    BY <2>10 DEF EndNested
  <2>11. CASE DestroyStructure(t)
    BY <2>11 DEF DestroyStructure
  <2> QED
    BY <1>2, <2>1, <2>2, <2>3, <2>4, <2>5, <2>6, <2>7, <2>8, <2>9, <2>10, <2>11 DEF Step
<1>3. ASSUME NEW t \in Threads, Crash(t) \/ \E i \in Indexes : ReuseStructure(t, i)
      PROVE  fault' # "none"
  BY <1>3 DEF Crash, ReuseStructure
\* The loop of CloseHandles.
<1>4. ASSUME NEW t \in Threads, NEW u \in Threads, CloseHandle(t, u)
      PROVE  Moves(t)
  <2>1. /\ pc[t] = "closing" /\ arg' = arg /\ arg[t] \notin closed[u]
        /\ \A v \in Threads \ {t} : pc'[v] = pc[v] /\ pc[v] # "closing"
    BY <1>4 DEF CloseHandle, Goto
  <2>2. closed'[u] = closed[u] \cup {arg[t]} /\ \A v \in Threads : closed[v] \subseteq closed'[v]
    BY <1>4 DEF CloseHandle
  \* Nobody else deletes an index, as t has the manager.
  <2>3. \A v \in Threads \ {t} : Rests(v)
    BY <2>1 DEF Rests, StillOpen
  <2>4. CASE pc' = pc
    <3>1. StillOpen(t)' \subseteq StillOpen(t) /\ u \in StillOpen(t) /\ u \notin StillOpen(t)'
      BY <2>1, <2>2, <2>4 DEF StillOpen
    <3> QED BY <2>3, <2>4, <3>1 DEF Moves, Advances
  \* Db::close has thrown.
  <2>5. CASE Goto(t, "idle")
    <3>1. Distance[pc'[t]] < Distance[pc[t]]
      BY <2>1, <2>5 DEF Goto, Distance
    <3> QED BY <2>3, <3>1 DEF Moves, Advances
  <2> QED BY <1>4, <2>4, <2>5 DEF CloseHandle
<1>5. CASE Halted
  BY <1>5 DEF Halted
<1> QED
  BY <1>1, <1>2, <1>3, <1>4, <1>5, ALabelOn DEF Next

\* No call goes round in a circle or is set back by another, for any number of threads
\* and whatever the allocator does.
THEOREM CallsAdvanceAlways == Spec => CallsAdvance
<1>1. TypeOK /\ [Next]_vars
        => [\/ fault' # "none"
            \/ \E t \in Threads : /\ pc[t] = "idle" \/ Advances(t)
                                  /\ \A u \in Threads \ {t} : Rests(u)]_vars
  BY CallsAdvanceStep DEF Moves
<1> QED
  BY <1>1, TypeCorrect, PTL DEF Spec, CallsAdvance
====
