------------------------------ MODULE WriteGate ------------------------------
(***************************************************************************)
(* The gate between writers of an index and DeleteIndex.                   *)
(*                                                                         *)
(* Each IndexStructure keeps transactions_, the addresses of the Berkeley  *)
(* DB transactions writing to the index, and read_only_.  A writer passes  *)
(* start_transaction before it touches the database, DeleteIndex passes    *)
(* MakeReadOnly before it closes the handles and frees the structure.      *)
(* Threads run InsertRecord, UpdateRecord, DeleteRecord, BeginTransaction, *)
(* CommitTransaction, AbortTransaction and DeleteIndex; a step is one      *)
(* critical section or one Berkeley DB call.  Every index starts created,  *)
(* and every thread starts with one handle of its own on each (OpenIndex   *)
(* gives a handle "to be used by the current thread").                     *)
(*                                                                         *)
(* A behaviour is cut at the first undefined behaviour or failed assertion *)
(* ("fault"): nothing is promised beyond it.                               *)
(***************************************************************************)
EXTENDS Naturals, FiniteSets

CONSTANTS Threads,     \* the application threads
          Indexes,     \* the indexes, each with its IndexStructure
          Txns,        \* the addresses DbEnv::txn_begin can return for a DbTxn
          None,        \* NULL
          Quarantine   \* TRUE: the allocator never returns the address of a
                       \* dead DbTxn while the call that resolved it still has
                       \* to erase it

ASSUME NoneAssumption == None \notin Threads \cup Txns
ASSUME QuarantineAssumption == Quarantine \in BOOLEAN

VARIABLES
  catalog,       \* IndexManager::indices_: the indexes whose structure exists
  wrecked,       \* IndexManager::indices_: the entries that point to a freed structure
  imMutex,       \* owner of IndexManager::mutex_ between two steps
  readOnly,      \* the indexes with read_only_ set
  transactions,  \* IndexStructure::transactions_ of each index
  closed,        \* for each thread, the indexes on which its handle is closed
  live,          \* Berkeley DB: the unresolved transactions
  parent,        \* Berkeley DB: the parent of a nested transaction, or None
  wrote,         \* Berkeley DB: the indexes a transaction has modified
  tx,            \* the Transaction* a thread holds, or None (autocommit)
  tid,           \* the nested transaction of the running call, or None
  pc,            \* where a thread is
  op,            \* the running (or last) operation of a thread
  arg,           \* and its index
  thrown,        \* history: an exception has cut short a call that had begun a
                 \* nested transaction, or was resolving one
  fault          \* the first undefined behaviour or failed assertion

gateVars == <<catalog, wrecked, imMutex, readOnly, transactions, closed>>
txnVars  == <<live, parent, wrote>>
callVars == <<op, arg>>
vars     == <<gateVars, txnVars, tx, tid, pc, callVars, thrown, fault>>

Ops    == {"insert", "update", "delete"}
Labels == {"idle", "enter", "access", "gate", "cmp", "work", "register",
           "commit", "end", "closetx", "closing"}
Faults == {"none", "structure_freed", "keycmp_assert", "db_closed", "iterator_invalid"}

\* The labels at which UpdateRecord and DeleteRecord own a nested transaction.
Nested == {"gate", "cmp", "work", "register", "commit", "end"}

Init ==
  /\ catalog = Indexes
  /\ wrecked = {}
  /\ imMutex = None
  /\ readOnly = {}
  /\ transactions = [i \in Indexes |-> {}]
  /\ closed = [t \in Threads |-> {}]
  /\ live = {}
  /\ parent = [p \in Txns |-> None]
  /\ wrote = [p \in Txns |-> {}]
  /\ tx = [t \in Threads |-> None]
  /\ tid = [t \in Threads |-> None]
  /\ pc = [t \in Threads |-> "idle"]
  /\ op \in [Threads -> {"insert"}]
  /\ arg \in [Threads -> Indexes]
  /\ thrown = FALSE
  /\ fault = "none"

-----------------------------------------------------------------------------
(* Helpers.                                                                *)

Goto(t, label) == pc' = [pc EXCEPT ![t] = label]

\* Index::Update holds the handle's mutex_ from before txn_begin until after
\* end_transaction; Index::Insert and Index::Delete never take it.
HoldsHandleMutex(t, i) == op[t] = "update" /\ arg[t] = i /\ pc[t] \in Nested

\* Mutant: the caller's transaction is handed to the gate, not the nested one.
CallersWriter(t) == tx[t]

\* The transaction an operation hands to the gate.
Writer(t) == IF op[t] = "insert" THEN tx[t] ELSE tid[t]

\* The operation in progress passed, or will pass, start_transaction: all but
\* InsertRecord without a transaction.
Gated(t) == op[t] # "insert" \/ tx[t] # None

Throw == thrown' = TRUE

\* The Transaction* of a caller or of a running call has this address.
Referenced(p) == \E t \in Threads : tx[t] = p \/ tid[t] = p

\* txn_begin: a new DbTxn at an address no unresolved transaction occupies.
TxnBegin(p, q) ==
  /\ p \notin live
  /\ Quarantine => ~Referenced(p)
  /\ live' = live \cup {p}
  /\ parent' = [parent EXCEPT ![p] = q]
  /\ wrote' = [wrote EXCEPT ![p] = {}]

\* A transaction and its unresolved children: resolving it resolves them.
Family(p) == {p} \cup {q \in live : parent[q] = p}

\* Mutant: start_transaction does not look at read_only_.
AdmitsAlways(i) == TRUE

\* What start_transaction answers.
Admits(i) == i \notin readOnly

\* start_transaction for the transactions in S.
Register(i, S) ==
  transactions' = IF Admits(i) THEN [transactions EXCEPT ![i] = @ \cup S]
                               ELSE transactions

\* Mutant: end_transaction is forgotten.
StillRegistered(i, p) == transactions

\* end_transaction.
Unregistered(i, p) == [transactions EXCEPT ![i] = @ \ {p}]

\* Mutant: the transaction around an update or a deletion is not registered.
ForgottenCaller(t) == {}

\* The transaction around an update or a deletion, if there is one.
CallerOf(t) == {tx[t]} \ {None}

\* Mutant: MakeReadOnly tests size() > 1.
AtMostOneWriter(i) == Cardinality(transactions[i]) <= 1

\* What MakeReadOnly answers.
NoWriters(i) == transactions[i] = {}

\* CloseHandles has closed a handle (mutant: it stops there).
SomeHandleClosed(i) == \E u \in Threads : i \in closed[u]

\* CloseHandles has been through handles_.
AllHandlesClosed(i) == \A u \in Threads : i \in closed[u]

-----------------------------------------------------------------------------
(* Transactions.                                                           *)

BeginTransaction(t) ==
  /\ pc[t] = "idle" /\ tx[t] = None
  /\ \E p \in Txns : TxnBegin(p, None) /\ tx' = [tx EXCEPT ![t] = p]
  /\ UNCHANGED <<gateVars, tid, pc, callVars, thrown, fault>>

\* DbTxn::commit or DbTxn::abort inside CommitTransaction or AbortTransaction.
\* It frees the DbTxn.  When it throws, CloseTransaction is skipped.
Resolve(t) ==
  /\ pc[t] = "idle" /\ tx[t] # None
  /\ live' = live \ Family(tx[t])
  /\ \/ Goto(t, "closetx") /\ UNCHANGED <<tx, thrown>>
     \/ tx' = [tx EXCEPT ![t] = None] /\ Throw /\ UNCHANGED pc
  /\ UNCHANGED <<gateVars, parent, wrote, tid, callVars, fault>>

\* IndexManager::CloseTransaction: end_transaction on every known index.
CloseTransaction(t) ==
  /\ pc[t] = "closetx"
  /\ imMutex = None /\ wrecked = {}
  /\ transactions' = [i \in Indexes |-> IF i \in catalog
                                        THEN transactions[i] \ {tx[t]}
                                        ELSE transactions[i]]
  /\ tx' = [tx EXCEPT ![t] = None]
  /\ Goto(t, "idle")
  /\ UNCHANGED <<catalog, wrecked, imMutex, readOnly, closed, txnVars, tid, callVars,
                 thrown, fault>>

-----------------------------------------------------------------------------
(* InsertRecord, UpdateRecord, DeleteRecord.                               *)

\* InsertRecord, UpdateRecord, DeleteRecord: closed() and Compatible find the
\* handle open.
Call(t, i, o) ==
  /\ pc[t] = "idle"
  /\ i \notin closed[t]
  /\ op' = [op EXCEPT ![t] = o]
  /\ arg' = [arg EXCEPT ![t] = i]
  /\ Goto(t, IF o # "insert" THEN "enter"
             ELSE IF tx[t] # None THEN "gate" ELSE "access")
  /\ UNCHANGED <<gateVars, txnVars, tx, tid, thrown, fault>>

\* Compatible goes on to read the structure.  InsertRecord in autocommit mode
\* then goes to the database without passing the gate.
Access(t) ==
  /\ pc[t] = "access"
  /\ arg[t] \in catalog
  /\ \E label \in {"cmp", "work"} : Goto(t, label)
  /\ UNCHANGED <<gateVars, txnVars, tx, tid, callVars, thrown, fault>>

\* Compatible reads the structure; Index::Update (after locking the handle) and
\* Index::Delete begin a transaction nested in the caller's; that may throw.
BeginNested(t) ==
  /\ pc[t] = "enter"
  /\ arg[t] \in catalog
  /\ \/ \E p \in Txns : /\ TxnBegin(p, tx[t])
                        /\ tid' = [tid EXCEPT ![t] = p]
                        /\ Goto(t, "gate")
     \/ Goto(t, "idle") /\ UNCHANGED <<txnVars, tid>>
  /\ UNCHANGED <<gateVars, tx, callVars, thrown, fault>>

\* start_transaction; when refused, abort the nested transaction and return
\* kErrorUnknownIndex.  A database call compares keys (cmp) or not (work).
Gate(t) ==
  /\ pc[t] = "gate"
  /\ arg[t] \in catalog
  /\ Register(arg[t], {Writer(t)})
  /\ IF ~Admits(arg[t])
     THEN /\ live' = live \ {tid[t]}
          /\ tid' = [tid EXCEPT ![t] = None]
          /\ Goto(t, "idle")
     ELSE /\ \E label \in {"cmp", "work"} : Goto(t, label)
          /\ UNCHANGED <<live, tid>>
  /\ UNCHANGED <<catalog, wrecked, imMutex, readOnly, closed, parent, wrote, tx,
                 callVars, thrown, fault>>

\* Berkeley DB calls keycmp back, which asks the Db for its name and looks the
\* structure up under it.
Compare(t) ==
  /\ pc[t] = "cmp"
  /\ arg[t] \notin closed[t]
  /\ imMutex = None
  /\ arg[t] \in catalog
  /\ Goto(t, "work")
  /\ UNCHANGED <<gateVars, txnVars, tx, tid, callVars, thrown, fault>>

\* Db::put of Index::Insert, done or thrown out of.
Put(t) ==
  /\ pc[t] = "work" /\ op[t] = "insert"
  /\ arg[t] \notin closed[t]
  /\ \/ wrote' = [p \in Txns |-> IF p = tx[t] THEN wrote[p] \cup {arg[t]}
                                              ELSE wrote[p]]
     \/ UNCHANGED wrote
  /\ Goto(t, "idle")
  /\ UNCHANGED <<gateVars, live, parent, tx, tid, callVars, thrown, fault>>

\* Mutant: after a deadlock the operation tries again.
ModifyAgain(t) ==
  /\ pc[t] = "work" /\ op[t] # "insert"
  /\ \/ Goto(t, "commit")
     \/ Goto(t, "cmp")
  /\ UNCHANGED <<gateVars, txnVars, tx, tid, callVars, thrown, fault>>

\* The cursor of Index::Update and Index::Delete modifies the first match, or
\* finds none, or throws (a deadlock): that leaves the nested transaction behind.
Modify(t) ==
  /\ pc[t] = "work" /\ op[t] # "insert"
  /\ arg[t] \notin closed[t]
  /\ \/ /\ wrote' = [wrote EXCEPT ![tid[t]] = @ \cup {arg[t]}]
        /\ Goto(t, "register")
        /\ UNCHANGED <<tid, thrown>>
     \/ Goto(t, "commit") /\ UNCHANGED <<wrote, tid, thrown>>
     \/ /\ Goto(t, "idle")
        /\ tid' = [tid EXCEPT ![t] = None]
        /\ Throw
        /\ UNCHANGED wrote
  /\ UNCHANGED <<gateVars, live, parent, tx, callVars, fault>>

\* start_transaction of the caller's transaction, its answer ignored; then the
\* duplicates, which may throw as well.
RegisterParent(t) ==
  /\ pc[t] = "register"
  /\ arg[t] \in catalog
  /\ Register(arg[t], CallerOf(t))
  /\ \/ Goto(t, "commit") /\ UNCHANGED <<tid, thrown>>
     \/ Goto(t, "idle") /\ tid' = [tid EXCEPT ![t] = None] /\ Throw
  /\ UNCHANGED <<catalog, wrecked, imMutex, readOnly, closed, txnVars, tx, callVars, fault>>

\* DbTxn::commit of the nested transaction: the parent takes its changes over.
CommitNested(t) ==
  /\ pc[t] = "commit"
  /\ live' = live \ {tid[t]}
  /\ \/ /\ wrote' = [p \in Txns |-> IF p = tx[t] THEN wrote[p] \cup wrote[tid[t]]
                                                 ELSE wrote[p]]
        /\ Goto(t, "end")
        /\ UNCHANGED <<tid, thrown>>
     \/ /\ Goto(t, "idle")
        /\ tid' = [tid EXCEPT ![t] = None]
        /\ Throw
        /\ UNCHANGED wrote
  /\ UNCHANGED <<gateVars, parent, tx, callVars, fault>>

\* end_transaction of the nested transaction, and return.
EndNested(t) ==
  /\ pc[t] = "end"
  /\ arg[t] \in catalog
  /\ transactions' = Unregistered(arg[t], tid[t])
  /\ tid' = [tid EXCEPT ![t] = None]
  /\ Goto(t, "idle")
  /\ UNCHANGED <<catalog, wrecked, imMutex, readOnly, closed, txnVars, tx, callVars,
                 thrown, fault>>

-----------------------------------------------------------------------------
(* DeleteIndex, up to the end of IndexManager::Remove.                     *)

\* Remove locks the manager and MakeReadOnly succeeds.  When the index is
\* unknown or still has writers nothing changes.
MakeReadOnly(t, i) ==
  /\ pc[t] = "idle"
  /\ imMutex = None
  /\ i \in catalog
  /\ NoWriters(i)
  /\ readOnly' = readOnly \cup {i}
  /\ imMutex' = t
  /\ arg' = [arg EXCEPT ![t] = i]
  /\ Goto(t, "closing")
  /\ UNCHANGED <<catalog, wrecked, transactions, closed, txnVars, tx, tid, op, thrown, fault>>

\* ~IndexStructure closes the handles one after the other.  Index::Close locks the
\* handle; op_count_ is never incremented, so it waits for nothing else.  When Db::close
\* throws, the exception leaves the destructor, whose memory is freed all the same, and
\* Remove, which unlocks the manager but has not erased the entry: DeleteIndex returns.
CloseHandle(t, u) ==
  /\ pc[t] = "closing"
  /\ arg[t] \notin closed[u]
  /\ ~HoldsHandleMutex(u, arg[t])
  /\ closed' = [closed EXCEPT ![u] = @ \cup {arg[t]}]
  /\ \/ UNCHANGED <<catalog, wrecked, imMutex, pc>>
     \/ /\ catalog' = catalog \ {arg[t]}
        /\ wrecked' = wrecked \cup {arg[t]}
        /\ imMutex' = None
        /\ Goto(t, "idle")
  /\ UNCHANGED <<readOnly, transactions, txnVars, tx, tid, callVars, thrown, fault>>

\* The structure is freed, the map entry erased, the manager unlocked.
DestroyStructure(t) ==
  /\ pc[t] = "closing"
  /\ AllHandlesClosed(arg[t])
  /\ catalog' = catalog \ {arg[t]}
  /\ imMutex' = None
  /\ Goto(t, "idle")
  /\ UNCHANGED <<wrecked, readOnly, transactions, closed, txnVars, tx, tid, callVars,
                 thrown, fault>>

-----------------------------------------------------------------------------
(* Undefined behaviour and failed assertions.                              *)

\* A step finds the structure freed (keycmp and CloseTransaction one that indices_ still
\* has), keycmp finds no structure under the name of the database, a database call is
\* running on a closed Db, or CloseHandles goes on from the handle that Close has just
\* erased from handles_.
Crash(t) ==
  /\ \/ /\ pc[t] \in {"enter", "access", "gate", "register", "end"}
        /\ arg[t] \notin catalog
        /\ fault' = "structure_freed"
     \/ /\ imMutex = None
        /\ \/ pc[t] = "cmp" /\ arg[t] \in wrecked \ closed[t]
           \/ pc[t] = "closetx" /\ wrecked # {}
        /\ fault' = "structure_freed"
     \/ /\ pc[t] = "cmp" /\ imMutex = None
        /\ arg[t] \notin catalog \cup wrecked \cup closed[t]
        /\ fault' = "keycmp_assert"
     \/ /\ pc[t] \in {"cmp", "work"}
        /\ arg[t] \in closed[t]
        /\ fault' = "db_closed"
     \/ /\ pc[t] = "closing" /\ SomeHandleClosed(arg[t])
        /\ fault' = "iterator_invalid"
  /\ UNCHANGED <<gateVars, txnVars, tx, tid, pc, callVars, thrown>>

\* DeleteIndex is called again and asks the freed structure.
ReuseStructure(t, i) ==
  /\ pc[t] = "idle"
  /\ imMutex = None
  /\ i \in wrecked
  /\ fault' = "structure_freed"
  /\ UNCHANGED <<gateVars, txnVars, tx, tid, pc, callVars, thrown>>

Halted == fault # "none" /\ UNCHANGED vars

\* The steps a thread takes on its own once it has entered a call.
Step(t) ==
  \/ CloseTransaction(t) \/ Access(t) \/ BeginNested(t) \/ Gate(t) \/ Compare(t)
  \/ Put(t) \/ Modify(t) \/ RegisterParent(t) \/ CommitNested(t)
  \/ EndNested(t) \/ DestroyStructure(t) \/ Crash(t)

\* The calls a thread may make.
Enter(t) ==
  \/ BeginTransaction(t) \/ Resolve(t)
  \/ \E i \in Indexes : \/ MakeReadOnly(t, i) \/ ReuseStructure(t, i)
                       \/ \E o \in Ops : Call(t, i, o)

Next ==
  \/ /\ fault = "none"
     /\ \E t \in Threads : \/ Step(t) \/ Enter(t)
                           \/ \E u \in Threads : CloseHandle(t, u)
  \/ Halted

\* A thread inside a call keeps being scheduled.  The only lock another thread
\* can take again and again is the mutex of a handle: a DeleteIndex waiting for
\* one that is released over and over gets it at last.
Fairness ==
  \A t \in Threads :
    /\ WF_vars(fault = "none" /\ Step(t))
    /\ \A u \in Threads : SF_vars(fault = "none" /\ CloseHandle(t, u))

Spec     == Init /\ [][Next]_vars
FairSpec == Spec /\ Fairness

-----------------------------------------------------------------------------
(* Properties.                                                             *)

\* Types, and which pointers a thread holds where: a nested transaction inside
\* UpdateRecord and DeleteRecord only, a transaction while resolving it.
TypeOK ==
  /\ catalog \subseteq Indexes /\ wrecked \subseteq Indexes /\ readOnly \subseteq Indexes
  /\ imMutex \in Threads \cup {None}
  /\ transactions \in [Indexes -> SUBSET Txns]
  /\ closed \in [Threads -> SUBSET Indexes]
  /\ live \subseteq Txns
  /\ parent \in [Txns -> Txns \cup {None}]
  /\ wrote \in [Txns -> SUBSET Indexes]
  /\ tx \in [Threads -> Txns \cup {None}]
  /\ tid \in [Threads -> Txns \cup {None}]
  /\ pc \in [Threads -> Labels]
  /\ op \in [Threads -> Ops]
  /\ arg \in [Threads -> Indexes]
  /\ thrown \in BOOLEAN
  /\ fault \in Faults
  /\ \A t \in Threads :
       /\ tid[t] # None <=> op[t] # "insert" /\ pc[t] \in Nested
       /\ pc[t] = "closetx" => tx[t] # None
       /\ pc[t] = "closing" <=> imMutex = t
       /\ pc[t] \in {"enter", "register", "commit", "end"} => op[t] # "insert"
       /\ pc[t] = "access" => op[t] = "insert" /\ tx[t] = None
       /\ pc[t] = "gate" => Gated(t)

\* The labels after start_transaction said yes.
Inside == {"cmp", "work", "register", "commit", "end"}

\* An operation that start_transaction let in works on an index that cannot be
\* deleted under it: the structure exists, is not read-only, the handle is open.
GateProtects ==
  \A t \in Threads :
    pc[t] \in Inside /\ Gated(t)
      => arg[t] \in catalog \ readOnly /\ arg[t] \notin closed[t]

\* MakeReadOnly never succeeds on an index some unresolved transaction, nested
\* or left behind by a deadlock included, has modified (kErrorOpenTransactions).
NoUnresolvedWrites == \A i \in readOnly, p \in live : i \notin wrote[p]

\* DeleteIndex is refused for the sake of transactions that somebody can still
\* resolve, and of no others: as long as nothing has thrown, every entry of
\* transactions_ is the transaction of a caller or of a running call.
OnlyHoldersRefuse ==
  ~thrown =>
    \A i \in Indexes : transactions[i] \subseteq {tx[t] : t \in Threads}
                                                \cup {tid[t] : t \in Threads}

\* t waits for a mutex that u has: the manager's, or that of a handle.
Waits(t, u) ==
  \/ pc[t] \in {"cmp", "closetx"} /\ imMutex = u
  \/ pc[t] = "closing" /\ arg[t] \notin closed[u] /\ HoldsHandleMutex(u, arg[t])

\* UpdateRecord locks its handle and, in keycmp, the manager; DeleteIndex locks the
\* manager and then the handles.  Two threads may wait one for the other and the
\* other for a third, but the third for nobody: there is no circle of any length.
NoCircularWait ==
  \A t, u \in Threads : Waits(t, u) =>
    \A v \in Threads : Waits(u, v) => \A w \in Threads : ~ Waits(v, w)

\* How far the labels of a call are from its end, at most.
Distance ==
  [idle |-> 0, closing |-> 1, closetx |-> 1, end |-> 1, commit |-> 2, register |-> 3,
   work |-> 4, cmp |-> 5, access |-> 6, gate |-> 6, enter |-> 7]

\* The handles a DeleteIndex has still to close.
StillOpen(t) == {u \in Threads : pc[t] = "closing" /\ arg[t] \notin closed[u]}

\* A call comes nearer to its end, or stays where it is.
Advances(t) == \/ Distance[pc'[t]] < Distance[pc[t]]
               \/ pc'[t] = pc[t] /\ StillOpen(t)' \subseteq StillOpen(t) /\ StillOpen(t)' # StillOpen(t)
Rests(t) == pc'[t] = pc[t] /\ StillOpen(t)' = StillOpen(t)

\* No call goes round in a circle, nor is set back by another: every step begins a
\* call (or a transaction) or brings one nearer to its end, and no other call moves.
CallsAdvance ==
  [][\/ fault' # "none"
     \/ \E t \in Threads : /\ pc[t] = "idle" \/ Advances(t)
                           /\ \A u \in Threads \ {t} : Rests(u)]_vars

\* Every call returns, unless the program has failed.
CallsReturn ==
  \A t \in Threads : pc[t] # "idle" ~> pc[t] = "idle" \/ fault # "none"

\* A failed autocommit call leaves no transaction behind: every unresolved
\* transaction is some thread's, or nested in some thread's.
NoOrphan ==
  \A p \in live : \E t \in Threads :
    \/ tx[t] = p \/ tid[t] = p
    \/ parent[p] # None /\ parent[p] = tx[t]

\* assert(is != NULL) in keycmp never fails, not even for the autocommit inserts
\* the gate does not see: as long as a Db is open its structure has a name.
KeycmpFindsStructure == fault # "keycmp_assert"

\* The transaction a modification of p counts for.
Root(p) == IF parent[p] = None THEN p ELSE parent[p]

\* For each index the unresolved transactions that have modified it.
Modifiers ==
  [i \in Indexes |-> {Root(p) : p \in {q \in live : i \in wrote[q]}}]

\* What an index promises the transactions that modify it.
Contract == INSTANCE IndexContract WITH exists  <- Indexes \ readOnly,
                                        writers <- Modifiers

\* The writers and DeleteIndex together keep that promise.
KeepsContract == Contract!Spec

====
