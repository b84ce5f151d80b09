-------------------------------- MODULE Driver --------------------------------
(***************************************************************************)
(* The benchmark driver, as a client of the library.                       *)
(*                                                                         *)
(* main starts one thread per index to populate it, joins them, gives each *)
(* benchmark thread a copy of the keys inserted into its index, lets the   *)
(* threads run operations until it sets their halt, joins them, and adds   *)
(* up the operations they counted.  A benchmark thread begins and commits  *)
(* a transaction per operation and hardly looks at the answers of the      *)
(* library; its pointers are followed here through the library's calls.    *)
(* What Berkeley DB does with a transaction that a deadlock has hit, when  *)
(* the thread goes on using it, is left open: any call may answer, may     *)
(* throw a DbDeadlockException or another DbException, at any time.        *)
(*                                                                         *)
(* A key is the number of the index it was inserted into.  A behaviour is  *)
(* cut at the first undefined behaviour or uncaught exception ("fault").   *)
(***************************************************************************)
EXTENDS Integers

CONSTANTS IndexCount,   \* BDR_INDEXCOUNT
          ThreadCount,  \* threadcount
          Slots,        \* BDR_KEY_PROVISIONING, the keys a keystore has room for
          Population,   \* the records inserted into each index
          Rounds,       \* bound: the calls of one operation (200, 20 or 5)
          MaxOps        \* bound: a thread that has counted so many starts no more

ASSUME CountsAssumption == /\ IndexCount \in Nat \ {0} /\ ThreadCount \in Nat \ {0}
                           /\ Slots \in Nat \ {0} /\ Rounds \in Nat \ {0}
                           /\ Population \in Nat /\ MaxOps \in Nat

Indexes == 0 .. IndexCount - 1
Threads == 0 .. ThreadCount - 1

\* What a slot holds that was never written, or has been freed.
Garbage == -1
Keystores == [0 .. Slots - 1 -> Indexes \cup {Garbage}]

Modifications == {"update", "insert", "delete"}
Operations    == {"range", "point"} \cup Modifications

VARIABLES
  phase,     \* which loop of main is running
  at,        \* and its variable i
  populator, \* the population thread of each index
  inserted,  \* how many records it has inserted
  initKeys,  \* its keystore
  keystore,  \* ThreadInfo::keystore of each benchmark thread
  keypos,    \* ThreadInfo::keypos
  halt,      \* ThreadInfo::halt
  incv,      \* ThreadInfo::incv
  ops,       \* ThreadInfo::ops
  score,     \* sum
  pc,        \* where a benchmark thread is
  op,        \* its operation, or "none" between two of them
  left,      \* how many rounds of the operation are left
  idx,       \* its Index*
  tx,        \* its Transaction*: uninitialised, or an unresolved transaction
  it,        \* its Iterator*: uninitialised, or an open iterator
  misled,    \* history: the threads whose OpenIndex or a BeginTransaction has failed
  fault      \* the first undefined behaviour or uncaught exception

mainVars == <<phase, at, halt, incv, score>>
popVars  == <<populator, inserted, initKeys>>
keyVars  == <<keystore, keypos>>
callVars == <<idx, tx, it, misled, fault>>
runVars  == <<ops, pc, op, left>>
vars     == <<mainVars, popVars, keyVars, callVars, runVars>>

Phases == {"create", "joinpop", "copy", "free", "start", "warm", "halt", "join",
           "sum", "done", "exited"}
Labels == {"none", "open", "loop", "records", "next", "close", "modify", "commit", "end"}

\* Undefined behaviour and exceptions nobody catches: in the library, whatever it is
\* passed, and in calls with a pointer the driver never got.
LibraryFaults == {"wild_cleanup", "freed_txn", "uncaught"}
DriverFaults  == {"wild_txn", "wild_iterator"}
Faults        == {"none"} \cup LibraryFaults \cup DriverFaults

Init ==
  /\ phase = "create" /\ at = 0
  /\ populator = [i \in Indexes |-> "none"]
  /\ inserted = [i \in Indexes |-> 0]
  /\ initKeys = [i \in Indexes |-> [s \in 0 .. Slots - 1 |-> Garbage]]
  /\ keystore = [t \in Threads |-> [s \in 0 .. Slots - 1 |-> Garbage]]
  /\ keypos = [t \in Threads |-> 0]
  /\ halt = {} /\ incv = {}
  /\ ops = [t \in Threads |-> 0]
  /\ score = 0
  /\ pc = [t \in Threads |-> "none"]
  /\ op = [t \in Threads |-> "none"]
  /\ left = [t \in Threads |-> 0]
  /\ idx = [t \in Threads |-> "unset"]
  /\ tx = [t \in Threads |-> "unset"]
  /\ it = [t \in Threads |-> "unset"]
  /\ misled = {}
  /\ fault = "none"

-----------------------------------------------------------------------------
(* Helpers.                                                                *)

\* The index of a benchmark thread.
IndexOf(t) == t % IndexCount

\* exit(-1): the process ends.
Exit == phase' = "exited"

\* The loop of main over n threads goes on, or the next loop begins.
Advance(n, next) ==
  IF at + 1 < n THEN at' = at + 1 /\ UNCHANGED phase
                ELSE at' = 0 /\ phase' = next

Goto(t, label) == pc' = [pc EXCEPT ![t] = label]

\* ops += incv.
Count(t) == ops' = [ops EXCEPT ![t] = @ + (IF t \in incv THEN 1 ELSE 0)]

\* One round of the operation is over.
Round(t, again, last) ==
  /\ left' = [left EXCEPT ![t] = @ - 1]
  /\ Goto(t, IF left[t] = 1 THEN last ELSE again)

\* OpenIndex or BeginTransaction fails.
Mislead(t) == misled' = misled \cup {t}

\* A behaviour that is cut here.
Cut(what) ==
  /\ fault' = what
  /\ UNCHANGED <<mainVars, popVars, keyVars, idx, tx, it, misled, runVars>>

-----------------------------------------------------------------------------
(* main.                                                                   *)

CreatePopulator ==
  /\ phase = "create"
  /\ populator' = [populator EXCEPT ![at] = "open"]
  /\ Advance(IndexCount, "joinpop")
  /\ UNCHANGED <<halt, incv, score, inserted, initKeys, keyVars, callVars, runVars>>

\* Mutant: main does not wait for the population threads.
Started(i) == populator[i] # "none"

\* pthread_join of a population thread returns.
Populated(i) == populator[i] = "done"

JoinPopulator ==
  /\ phase = "joinpop"
  /\ Populated(at)
  /\ Advance(IndexCount, "copy")
  /\ UNCHANGED <<halt, incv, score, popVars, keyVars, callVars, runVars>>

\* memcpy of the whole keystore, unwritten slots included.
CopyKeystore ==
  /\ phase = "copy"
  /\ keystore' = [keystore EXCEPT ![at] = initKeys[IndexOf(at)]]
  /\ Advance(ThreadCount, "free")
  /\ UNCHANGED <<halt, incv, score, popVars, keypos, callVars, runVars>>

FreeKeystore ==
  /\ phase = "free"
  /\ initKeys' = [initKeys EXCEPT ![at] = [s \in 0 .. Slots - 1 |-> Garbage]]
  /\ Advance(IndexCount, "start")
  /\ UNCHANGED <<halt, incv, score, populator, inserted, keyVars, callVars, runVars>>

StartThread ==
  /\ phase = "start"
  /\ Goto(at, "open")
  /\ Advance(ThreadCount, "warm")
  /\ UNCHANGED <<halt, incv, score, popVars, keyVars, callVars, ops, op, left>>

\* After the warm-up.
SetIncv ==
  /\ phase = "warm"
  /\ incv' = incv \cup {at}
  /\ Advance(ThreadCount, "halt")
  /\ UNCHANGED <<halt, score, popVars, keyVars, callVars, runVars>>

\* Mutant: only the first thread is told to stop.
HaltFirst == halt \cup {0}

HaltNext == halt \cup {at}

\* After the benchmark.
SetHalt ==
  /\ phase = "halt"
  /\ halt' = HaltNext
  /\ Advance(ThreadCount, "join")
  /\ UNCHANGED <<incv, score, popVars, keyVars, callVars, runVars>>

\* Mutant: main does not wait for the benchmark threads.
Running(t) == pc[t] # "none"

\* pthread_join of a benchmark thread returns.
Ended(t) == pc[t] = "end"

JoinThread ==
  /\ phase = "join"
  /\ Ended(at)
  /\ Advance(ThreadCount, "sum")
  /\ UNCHANGED <<halt, incv, score, popVars, keyVars, callVars, runVars>>

AddUp ==
  /\ phase = "sum"
  /\ score' = score + ops[at]
  /\ Advance(ThreadCount, "done")
  /\ UNCHANGED <<halt, incv, popVars, keyVars, callVars, runVars>>

\* pthread_create or pthread_join fails.
ThreadCallFails ==
  /\ phase \in {"create", "joinpop", "start", "join"}
  /\ Exit
  /\ UNCHANGED <<at, halt, incv, score, popVars, keyVars, callVars, runVars>>

Loops ==
  \/ CreatePopulator \/ JoinPopulator \/ CopyKeystore \/ FreeKeystore
  \/ StartThread \/ SetIncv \/ SetHalt \/ JoinThread \/ AddUp

Main == Loops \/ ThreadCallFails

-----------------------------------------------------------------------------
(* PopulateIndexTask.                                                      *)

\* CreateIndex and OpenIndex.
PopulatorOpens(i) ==
  /\ populator[i] = "open"
  /\ \/ populator' = [populator EXCEPT ![i] = "fill"] /\ UNCHANGED phase
     \/ Exit /\ UNCHANGED populator
  /\ UNCHANGED <<at, halt, incv, score, inserted, initKeys, keyVars, callVars, runVars>>

\* InsertRecord without a transaction and KeystoreInsert.
PopulatorInserts(i) ==
  /\ populator[i] = "fill" /\ inserted[i] < Population
  /\ \/ /\ inserted' = [inserted EXCEPT ![i] = @ + 1]
        /\ initKeys' = [initKeys EXCEPT ![i][inserted[i] % Slots] = i]
        /\ UNCHANGED phase
     \/ Exit /\ UNCHANGED <<inserted, initKeys>>
  /\ UNCHANGED <<at, halt, incv, score, populator, keyVars, callVars, runVars>>

PopulatorEnds(i) ==
  /\ populator[i] = "fill" /\ inserted[i] = Population
  /\ populator' = [populator EXCEPT ![i] = "done"]
  /\ UNCHANGED <<mainVars, inserted, initKeys, keyVars, callVars, runVars>>

Populator(i) == PopulatorOpens(i) \/ PopulatorInserts(i) \/ PopulatorEnds(i)

-----------------------------------------------------------------------------
(* BenchmarkTask.                                                          *)

\* OpenIndex, its answer ignored.
OpenHandle(t) ==
  /\ pc[t] = "open"
  /\ \/ idx' = [idx EXCEPT ![t] = "open"] /\ UNCHANGED misled
     \/ idx' = [idx EXCEPT ![t] = "closed"] /\ Mislead(t)
  /\ Goto(t, "loop")
  /\ UNCHANGED <<mainVars, popVars, keyVars, tx, it, fault, ops, op, left>>

HaltSeen(t) ==
  /\ pc[t] = "loop" /\ t \in halt
  /\ Goto(t, "end")
  /\ UNCHANGED <<mainVars, popVars, keyVars, callVars, ops, op, left>>

\* The next operation, and BeginTransaction, its answer ignored: when it fails the
\* variable stays uninitialised.
BeginOperation(t, o) ==
  /\ pc[t] = "loop" /\ t \notin halt
  /\ ops[t] < MaxOps
  /\ op' = [op EXCEPT ![t] = o]
  /\ left' = [left EXCEPT ![t] = Rounds]
  /\ \/ tx' = [tx EXCEPT ![t] = "live"] /\ UNCHANGED misled
     \/ Mislead(t) /\ UNCHANGED tx
  /\ Goto(t, IF o \in Modifications THEN "modify" ELSE "records")
  /\ UNCHANGED <<mainVars, popVars, keyVars, idx, it, fault, ops>>

\* GetRecords makes an iterator, within the transaction.
GetRecords(t) ==
  /\ pc[t] = "records"
  /\ idx[t] = "open" /\ tx[t] = "live"
  /\ it' = [it EXCEPT ![t] = "open"]
  /\ Goto(t, "next")
  /\ UNCHANGED <<mainVars, popVars, keyVars, idx, tx, misled, fault, ops, op, left>>

\* GetRecords throws, for a deadlock or otherwise: its catch block reads the Iterator* that
\* the thread has not initialised.
GetRecordsThrows(t) ==
  /\ pc[t] = "records"
  /\ idx[t] = "open" /\ tx[t] = "live"
  /\ Cut("wild_cleanup")

\* GetRecords finds the handle closed.  A range query goes on regardless, a point
\* query exits.
GetRecordsFails(t) ==
  /\ pc[t] = "records"
  /\ idx[t] = "closed"
  /\ IF op[t] = "range" THEN Goto(t, "next") /\ UNCHANGED phase
                        ELSE Exit /\ UNCHANGED pc
  /\ UNCHANGED <<at, halt, incv, score, popVars, keyVars, callVars, ops, op, left>>

\* GetNext returns a record.  A range query counts it.
GetNext(t) ==
  /\ pc[t] = "next" /\ it[t] = "open"
  /\ IF op[t] = "range" THEN Count(t) /\ Round(t, "next", "close")
                        ELSE Goto(t, "close") /\ UNCHANGED <<ops, left>>
  /\ UNCHANGED <<mainVars, popVars, keyVars, callVars, op>>

\* GetNext answers anything else: the end of the range, or a deadlock.
GetNextFails(t) ==
  /\ pc[t] = "next" /\ it[t] = "open"
  /\ Goto(t, "close")
  /\ UNCHANGED <<mainVars, popVars, keyVars, callVars, ops, op, left>>

\* CloseIterator.  A point query counts, and declares another iterator.
CloseIterator(t) ==
  /\ pc[t] = "close"
  /\ it' = [it EXCEPT ![t] = "unset"]
  /\ IF op[t] = "range" THEN Goto(t, "commit") /\ UNCHANGED <<ops, left>>
                        ELSE Count(t) /\ Round(t, "records", "commit")
  /\ UNCHANGED <<mainVars, popVars, keyVars, idx, tx, misled, fault, op>>

\* Dbc::close throws: CloseIterator has no try.
CloseIteratorThrows(t) ==
  /\ pc[t] = "close"
  /\ Cut("uncaught")

\* Mutant: the position does not wrap around.
SlotBehind(t) == keypos[t] + 1

SlotAfter(t) == (keypos[t] + 1) % Slots

\* KeystoreInsert.
Remember(t) ==
  /\ keystore' = [keystore EXCEPT ![t][keypos[t]] = IndexOf(t)]
  /\ keypos' = [keypos EXCEPT ![t] = SlotAfter(t)]

\* UpdateRecord, InsertRecord or DeleteRecord, counted when it answers kOk.
ModifyRecord(t) ==
  /\ pc[t] = "modify"
  /\ idx[t] = "open" /\ tx[t] = "live"
  /\ Count(t)
  /\ IF op[t] = "insert" THEN Remember(t) ELSE UNCHANGED keyVars
  /\ Round(t, "modify", "commit")
  /\ UNCHANGED <<mainVars, popVars, callVars, op>>

\* Mutant: after a deadlock the operation is given up where it is.
GiveUp(t) ==
  /\ pc[t] = "modify"
  /\ idx[t] = "open" => tx[t] = "live"
  /\ Goto(t, "loop")
  /\ UNCHANGED <<mainVars, popVars, keyVars, callVars, ops, op, left>>

\* It answers anything else, a deadlock for example: the operation goes on.
ModifyRecordFails(t) ==
  /\ pc[t] = "modify"
  /\ idx[t] = "open" => tx[t] = "live"
  /\ Round(t, "modify", "commit")
  /\ UNCHANGED <<mainVars, popVars, keyVars, callVars, ops, op>>

\* CommitTransaction, its answer ignored.  A DbDeadlockException leaves the pointer to
\* the freed DbTxn behind, but the variables of the operation go out of scope.
Commit(t) ==
  /\ pc[t] = "commit"
  /\ tx[t] = "live"
  /\ tx' = [tx EXCEPT ![t] = "unset"]
  /\ op' = [op EXCEPT ![t] = "none"]
  /\ Goto(t, "loop")
  /\ UNCHANGED <<mainVars, popVars, keyVars, idx, it, misled, fault, ops, left>>

\* DbTxn::commit throws something else, as it does for a transaction that a deadlock has
\* hit before: CommitTransaction aborts the DbTxn it has freed.
CommitThrows(t) ==
  /\ pc[t] = "commit"
  /\ tx[t] = "live"
  /\ Cut("freed_txn")

\* A call is passed the Transaction* that a failed BeginTransaction has left
\* uninitialised.
WildTransaction(t) ==
  /\ tx[t] = "unset"
  /\ pc[t] = "commit" \/ (pc[t] \in {"records", "modify"} /\ idx[t] = "open")
  /\ Cut("wild_txn")

\* GetNext is passed the Iterator* that a failed GetRecords has left uninitialised.
WildIterator(t) ==
  /\ pc[t] = "next" /\ it[t] = "unset"
  /\ Cut("wild_iterator")

Benchmark(t) ==
  \/ OpenHandle(t) \/ HaltSeen(t)
  \/ GetRecords(t) \/ GetRecordsThrows(t) \/ GetRecordsFails(t)
  \/ GetNext(t) \/ GetNextFails(t) \/ CloseIterator(t) \/ CloseIteratorThrows(t)
  \/ ModifyRecord(t) \/ ModifyRecordFails(t) \/ Commit(t) \/ CommitThrows(t)
  \/ WildTransaction(t) \/ WildIterator(t)
  \/ \E o \in Operations : BeginOperation(t, o)

-----------------------------------------------------------------------------
\* The process has ended, or failed.
Over == phase \in {"done", "exited"} \/ fault # "none"

Next ==
  \/ ~Over /\ (Main \/ \E i \in Indexes : Populator(i))
  \/ ~Over /\ \E t \in Threads : Benchmark(t)
  \/ Over /\ UNCHANGED vars

\* Every thread is scheduled, and every call of the library returns.  No failure of
\* a pthread call has to come to main's help.
Fairness ==
  /\ WF_vars(~Over /\ Loops)
  /\ \A i \in Indexes : WF_vars(~Over /\ Populator(i))
  /\ \A t \in Threads : WF_vars(~Over /\ Benchmark(t))

Spec == Init /\ [][Next]_vars /\ Fairness

-----------------------------------------------------------------------------
(* Properties.                                                             *)

\* Types, where main's loop variable is, and that a round under way is counted.
TypeOK ==
  /\ phase \in Phases
  /\ at \in Nat
  /\ phase \in {"create", "joinpop", "free"} => at \in Indexes
  /\ phase \in {"copy", "start", "warm", "halt", "join", "sum"} => at \in Threads
  /\ populator \in [Indexes -> {"none", "open", "fill", "done"}]
  /\ inserted \in [Indexes -> 0 .. Population]
  /\ initKeys \in [Indexes -> Keystores]
  /\ keystore \in [Threads -> Keystores]
  /\ keypos \in [Threads -> 0 .. Slots - 1]
  /\ halt \subseteq Threads /\ incv \subseteq Threads
  /\ ops \in [Threads -> Nat]
  /\ score \in Nat
  /\ pc \in [Threads -> Labels]
  /\ op \in [Threads -> Operations \cup {"none"}]
  /\ left \in [Threads -> 0 .. Rounds]
  /\ \A t \in Threads :
       /\ pc[t] \in {"records", "next", "modify"} => left[t] > 0
       /\ pc[t] = "close" /\ op[t] # "range" => left[t] > 0
  /\ idx \in [Threads -> {"unset", "open", "closed"}]
  /\ tx \in [Threads -> {"unset", "live"}]
  /\ it \in [Threads -> {"unset", "open"}]
  /\ misled \subseteq Threads
  /\ fault \in Faults

\* A benchmark thread ignores what its calls answer, kErrorDeadlock and kTransactionAborted
\* included, and goes on with the same transaction.  All the same, whatever the calls
\* answer and throw, it uses no transaction and no iterator that is not there, closes its
\* iterator before it commits, and leaves no transaction behind; so that what can still go
\* wrong, by a deadlock too, goes wrong in a catch block of the library or for want of one.
\* Two answers only it cannot do without: those of OpenIndex and BeginTransaction.
KeepsItsPointers ==
  /\ fault \in DriverFaults => misled # {}
  /\ \A t \in Threads \ misled :
       /\ pc[t] \in {"records", "next", "close", "modify", "commit"} => tx[t] = "live"
       /\ pc[t] \in {"next", "close"} <=> it[t] = "open"
       /\ pc[t] \in {"loop", "end"} => tx[t] # "live"

\* A benchmark thread updates and deletes only keys inserted into its own index;
\* but the slots the population did not reach may be undefined.
OwnKeys ==
  \A t \in Threads : pc[t] # "none" =>
    \A s \in 0 .. Slots - 1 :
      keystore[t][s] = IndexOf(t) \/ (s >= Population /\ keystore[t][s] = Garbage)

\* total is the sum of the first n values of f: there are partial sums that lead to it.
IsSum(total, f, n) ==
  \E sum \in [0 .. n -> 0 .. total] :
    sum[0] = 0 /\ sum[n] = total /\ \A k \in 0 .. n - 1 : sum[k + 1] = sum[k] + f[k]

\* The score is the sum of the operations counted when the program ends: nobody
\* counts on after main has begun to add up.
ScoreIsFinal == phase = "done" => IsSum(score, ops, ThreadCount)

\* The benchmark comes to an end.
Ends == <>Over

====
