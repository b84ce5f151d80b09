----------------------------- MODULE DriverProofs -----------------------------
(***************************************************************************)
(* Proofs about Driver: the pointers and the keys of a benchmark thread,   *)
(* for any number of indexes, threads, slots, insertions and rounds.       *)
(***************************************************************************)
EXTENDS Driver, TLAPS

\* The number of an index, or a position in a keystore.
LEMMA Remainders ==
  ASSUME NEW a \in Nat, NEW n \in Nat \ {0}
  PROVE  a % n \in 0 .. n - 1 /\ (a < n => a % n = a)
  OBVIOUS

\* The index of a thread exists.
LEMMA IndexOfThread == \A t \in Threads : IndexOf(t) \in Indexes
  BY CountsAssumption, Remainders DEF IndexOf, Indexes, Threads

-----------------------------------------------------------------------------

\* What a loop of main does to its variable.
LEMMA AdvanceTypes ==
  ASSUME NEW n \in Nat, at \in 0 .. n - 1, NEW next, next # phase, Advance(n, next)
  PROVE  \/ phase' = phase /\ at' = at + 1 /\ at' \in 0 .. n - 1
         \/ phase' = next /\ at' = 0 /\ at = n - 1
  BY DEF Advance

LEMMA ZeroTypes == 0 \in Indexes /\ 0 \in Threads
  BY CountsAssumption DEF Indexes, Threads

\* The types of main, of its threads, and of the pointers they hold.
MainTypes ==
  /\ phase \in Phases
  /\ at \in Nat
  /\ phase \in {"create", "joinpop", "free"} => at \in Indexes
  /\ phase \in {"copy", "start", "warm", "halt", "join", "sum"} => at \in Threads
  /\ halt \subseteq Threads /\ incv \subseteq Threads
  /\ score \in Nat

ThreadTypes ==
  /\ keystore \in [Threads -> Keystores]
  /\ keypos \in [Threads -> 0 .. Slots - 1]
  /\ ops \in [Threads -> Nat]
  /\ pc \in [Threads -> Labels]
  /\ op \in [Threads -> Operations \cup {"none"}]
  /\ left \in [Threads -> 0 .. Rounds]
  /\ \A t \in Threads :
       /\ pc[t] \in {"records", "next", "modify"} => left[t] > 0
       /\ pc[t] = "close" /\ op[t] # "range" => left[t] > 0
  /\ idx \in [Threads -> {"unset", "open", "closed"}]
  /\ tx \in [Threads -> {"unset", "live"}]
  /\ it \in [Threads -> {"unset", "open"}]
  /\ misled \subseteq Threads
  /\ fault \in Faults

PopulatorTypes ==
  /\ populator \in [Indexes -> {"none", "open", "fill", "done"}]
  /\ inserted \in [Indexes -> 0 .. Population]
  /\ initKeys \in [Indexes -> Keystores]

LEMMA TypeParts ==
  /\ TypeOK <=> MainTypes /\ ThreadTypes /\ PopulatorTypes
  /\ MainTypes' /\ ThreadTypes' /\ PopulatorTypes' => TypeOK'
  BY DEF TypeOK, MainTypes, ThreadTypes, PopulatorTypes

\* The counter of a thread stays a number.
LEMMA CountTypes ==
  ASSUME ThreadTypes, NEW t \in Threads, Count(t)
  PROVE  ops' \in [Threads -> Nat]
  BY DEF ThreadTypes, Count

\* A round leaves a number of rounds and a label.
LEMMA RoundTypes ==
  ASSUME ThreadTypes, NEW t \in Threads, left[t] > 0,
         NEW again \in Labels, NEW last \in Labels, Round(t, again, last)
  PROVE  /\ left' \in [Threads -> 0 .. Rounds] /\ pc' \in [Threads -> Labels]
         /\ \A u \in Threads : u # t => left'[u] = left[u] /\ pc'[u] = pc[u]
         /\ (left'[t] > 0 /\ pc'[t] = again) \/ pc'[t] = last
  BY CountsAssumption DEF ThreadTypes, Round, Goto

LEMMA MainKeepsMainTypes ==
  ASSUME TypeOK, Main
  PROVE  MainTypes'
<1> USE DEF MainTypes
<1>0. MainTypes /\ IndexCount \in Nat /\ ThreadCount \in Nat
  BY TypeParts, CountsAssumption
<1> USE DEF Indexes, Threads, Phases
<1>1. CASE CreatePopulator
  <2>1. phase = "create" /\ at \in 0 .. IndexCount - 1 /\ Advance(IndexCount, "joinpop")
        /\ UNCHANGED <<halt, incv, score>>
    BY <1>0, <1>1 DEF CreatePopulator
  <2> QED BY <1>0, <2>1, AdvanceTypes, ZeroTypes
<1>2. CASE JoinPopulator
  <2>1. phase = "joinpop" /\ at \in 0 .. IndexCount - 1 /\ Advance(IndexCount, "copy")
        /\ UNCHANGED <<halt, incv, score>>
    BY <1>0, <1>2 DEF JoinPopulator
  <2> QED BY <1>0, <2>1, AdvanceTypes, ZeroTypes
<1>3. CASE CopyKeystore
  <2>1. phase = "copy" /\ at \in 0 .. ThreadCount - 1 /\ Advance(ThreadCount, "free")
        /\ UNCHANGED <<halt, incv, score>>
    BY <1>0, <1>3 DEF CopyKeystore
  <2> QED BY <1>0, <2>1, AdvanceTypes, ZeroTypes
<1>4. CASE FreeKeystore
  <2>1. phase = "free" /\ at \in 0 .. IndexCount - 1 /\ Advance(IndexCount, "start")
        /\ UNCHANGED <<halt, incv, score>>
    BY <1>0, <1>4 DEF FreeKeystore
  <2> QED BY <1>0, <2>1, AdvanceTypes, ZeroTypes
<1>5. CASE StartThread
  <2>1. phase = "start" /\ at \in 0 .. ThreadCount - 1 /\ Advance(ThreadCount, "warm")
        /\ UNCHANGED <<halt, incv, score>>
    BY <1>0, <1>5 DEF StartThread
  <2> QED BY <1>0, <2>1, AdvanceTypes, ZeroTypes
<1>6. CASE SetIncv
  <2>1. phase = "warm" /\ at \in 0 .. ThreadCount - 1 /\ Advance(ThreadCount, "halt")
        /\ incv' = incv \cup {at} /\ UNCHANGED <<halt, score>>
    BY <1>0, <1>6 DEF SetIncv
  <2> QED BY <1>0, <2>1, AdvanceTypes, ZeroTypes
<1>7. CASE SetHalt
  <2>1. phase = "halt" /\ at \in 0 .. ThreadCount - 1 /\ Advance(ThreadCount, "join")
        /\ halt' = halt \cup {at} /\ UNCHANGED <<incv, score>>
    BY <1>0, <1>7 DEF SetHalt, HaltNext
  <2> QED BY <1>0, <2>1, AdvanceTypes, ZeroTypes
<1>8. CASE JoinThread
  <2>1. phase = "join" /\ at \in 0 .. ThreadCount - 1 /\ Advance(ThreadCount, "sum")
        /\ UNCHANGED <<halt, incv, score>>
    BY <1>0, <1>8 DEF JoinThread
  <2> QED BY <1>0, <2>1, AdvanceTypes, ZeroTypes
<1>9. CASE AddUp
  <2>1. phase = "sum" /\ at \in 0 .. ThreadCount - 1 /\ Advance(ThreadCount, "done")
        /\ score' = score + ops[at] /\ UNCHANGED <<halt, incv>>
    BY <1>0, <1>9 DEF AddUp
  <2>2. ops[at] \in Nat
    BY <2>1 DEF TypeOK
  <2> QED BY <1>0, <2>1, <2>2, AdvanceTypes, ZeroTypes
<1>10. CASE ThreadCallFails
  BY <1>0, <1>10 DEF ThreadCallFails, Exit
<1> QED BY <1>1, <1>2, <1>3, <1>4, <1>5, <1>6, <1>7, <1>8, <1>9, <1>10 DEF Main, Loops

\* A step of main writes the keystores of the threads, starts them, and frees the
\* keystores of the populations.
LEMMA MainKeepsOtherTypes ==
  ASSUME TypeOK, Main
  PROVE  ThreadTypes' /\ PopulatorTypes'
<1>0. ThreadTypes /\ PopulatorTypes /\ MainTypes
  BY TypeParts
<1>1. CASE CreatePopulator
  BY <1>0, <1>1 DEF CreatePopulator, MainTypes, ThreadTypes, PopulatorTypes,
     keyVars, callVars, runVars
<1>2. CASE JoinPopulator \/ SetIncv \/ SetHalt \/ JoinThread \/ AddUp \/ ThreadCallFails
  BY <1>0, <1>2 DEF JoinPopulator, SetIncv, SetHalt, JoinThread, AddUp, ThreadCallFails, ThreadTypes,
     PopulatorTypes, popVars, keyVars, callVars, runVars
<1>3. CASE CopyKeystore
  <2>1. at \in Threads /\ initKeys[IndexOf(at)] \in Keystores
    BY <1>0, <1>3, IndexOfThread DEF CopyKeystore, MainTypes, PopulatorTypes
  <2>2. keystore' \in [Threads -> Keystores]
    BY <1>0, <1>3, <2>1 DEF CopyKeystore, ThreadTypes
  <2> QED BY <1>0, <1>3, <2>2 DEF CopyKeystore, ThreadTypes, PopulatorTypes, popVars,
             callVars, runVars
<1>4. CASE FreeKeystore
  <2>1. [s \in 0 .. Slots - 1 |-> Garbage] \in Keystores
    BY DEF Keystores
  <2>2. initKeys' \in [Indexes -> Keystores]
    BY <1>0, <1>4, <2>1 DEF FreeKeystore, PopulatorTypes
  <2> QED BY <1>0, <1>4, <2>2 DEF FreeKeystore, ThreadTypes, PopulatorTypes, keyVars,
             callVars, runVars
<1>5. CASE StartThread
  <2>1. pc' \in [Threads -> Labels] /\ \A u \in Threads : pc'[u] = pc[u] \/ pc'[u] = "open"
    BY <1>0, <1>5 DEF StartThread, Goto, ThreadTypes, Labels
  <2> QED BY <1>0, <1>5, <2>1 DEF StartThread, ThreadTypes, PopulatorTypes, popVars,
             keyVars, callVars
<1> QED BY <1>1, <1>2, <1>3, <1>4, <1>5 DEF Main, Loops

LEMMA PopulatorKeepsTypes ==
  ASSUME TypeOK, NEW i \in Indexes, Populator(i)
  PROVE  TypeOK'
<1>0. ThreadTypes /\ PopulatorTypes /\ MainTypes
  BY TypeParts
<1>1. ThreadTypes' /\ UNCHANGED <<at, halt, incv, score>>
  BY <1>0 DEF Populator, PopulatorOpens, PopulatorInserts, PopulatorEnds, ThreadTypes,
     mainVars, keyVars, callVars, runVars
<1>2. phase' \in {phase, "exited"}
  BY DEF Populator, PopulatorOpens, PopulatorInserts, PopulatorEnds, Exit, mainVars
<1>3. MainTypes'
  BY <1>0, <1>1, <1>2 DEF MainTypes, Phases
<1>4. CASE PopulatorOpens(i) \/ PopulatorEnds(i)
  <2>1. PopulatorTypes'
    BY <1>0, <1>4 DEF PopulatorOpens, PopulatorEnds, PopulatorTypes
  <2> QED BY <1>1, <1>3, <2>1, TypeParts
<1>5. CASE PopulatorInserts(i)
  <2>1. inserted[i] \in Nat /\ inserted[i] + 1 \in 0 .. Population
    BY <1>0, <1>5, CountsAssumption DEF PopulatorInserts, PopulatorTypes
  <2>2. inserted[i] % Slots \in 0 .. Slots - 1
    BY <2>1, Remainders, CountsAssumption
  <2>3. inserted' \in [Indexes -> 0 .. Population]
    BY <1>0, <1>5, <2>1 DEF PopulatorInserts, PopulatorTypes
  <2>4. [initKeys[i] EXCEPT ![inserted[i] % Slots] = i] \in Keystores
    BY <1>0, <2>2 DEF PopulatorTypes, Keystores
  <2>5. initKeys' \in [Indexes -> Keystores]
    BY <1>0, <1>5, <2>4 DEF PopulatorInserts, PopulatorTypes
  <2>6. PopulatorTypes'
    BY <1>0, <1>5, <2>3, <2>5 DEF PopulatorInserts, PopulatorTypes
  <2> QED BY <1>1, <1>3, <2>6, TypeParts
<1> QED BY <1>4, <1>5 DEF Populator

\* No operation of a benchmark thread touches another thread's variables.
LEMMA BenchmarkKeepsTypes ==
  ASSUME TypeOK, NEW t \in Threads, Benchmark(t)
  PROVE  TypeOK'
<1>0. ThreadTypes /\ PopulatorTypes /\ MainTypes
  BY TypeParts
<1>1. PopulatorTypes'
  BY <1>0 DEF Benchmark, OpenHandle, HaltSeen, GetRecords, GetRecordsThrows, GetRecordsFails,
     GetNext, GetNextFails, CloseIterator, CloseIteratorThrows, ModifyRecord,
     ModifyRecordFails, Commit, CommitThrows, WildTransaction, WildIterator, Cut,
     BeginOperation, PopulatorTypes, popVars
<1>2. UNCHANGED <<at, halt, incv, score>> /\ phase' \in {phase, "exited"}
  BY DEF Benchmark, OpenHandle, HaltSeen, GetRecords, GetRecordsThrows, GetRecordsFails,
     GetNext, GetNextFails, CloseIterator, CloseIteratorThrows, ModifyRecord,
     ModifyRecordFails, Commit, CommitThrows, WildTransaction, WildIterator, Cut,
     BeginOperation, mainVars, Exit
<1>3. MainTypes'
  BY <1>0, <1>2 DEF MainTypes, Phases
<1>4. SUFFICES ThreadTypes'
  BY <1>1, <1>3, TypeParts
<1>5. CASE OpenHandle(t)
  BY <1>0, <1>5 DEF OpenHandle, Goto, Mislead, ThreadTypes, Labels, keyVars
<1>6. CASE HaltSeen(t)
  BY <1>0, <1>6 DEF HaltSeen, Goto, ThreadTypes, Labels, keyVars, callVars
<1>7. CASE \E o \in Operations : BeginOperation(t, o)
  <2>1. PICK o \in Operations : BeginOperation(t, o)
    BY <1>7
  <2>2. Rounds \in 0 .. Rounds /\ Rounds > 0
    BY CountsAssumption
  <2>3. /\ pc' \in [Threads -> Labels] /\ op' \in [Threads -> Operations \cup {"none"}]
        /\ left' \in [Threads -> 0 .. Rounds] /\ tx' \in [Threads -> {"unset", "live"}]
        /\ misled' \subseteq Threads
    BY <1>0, <2>1, <2>2 DEF BeginOperation, Goto, Mislead, ThreadTypes, Labels
  <2>4. \A u \in Threads :
          /\ pc'[u] \in {"records", "next", "modify"} => left'[u] > 0
          /\ pc'[u] = "close" /\ op'[u] # "range" => left'[u] > 0
    BY <1>0, <2>1, <2>2 DEF BeginOperation, Goto, ThreadTypes
  <2> QED BY <1>0, <2>1, <2>3, <2>4 DEF BeginOperation, ThreadTypes, keyVars
<1>8. CASE GetRecords(t) \/ GetNextFails(t)
  BY <1>0, <1>8 DEF GetRecords, GetNextFails, Goto, ThreadTypes, Labels, keyVars, callVars
<1>9. CASE GetRecordsFails(t)
  BY <1>0, <1>9 DEF GetRecordsFails, Goto, ThreadTypes, Labels, keyVars, callVars
<1>10. CASE GetNext(t)
  <2>1. CASE op[t] = "range"
    <3>1. left[t] > 0 /\ Count(t) /\ Round(t, "next", "close")
      BY <1>0, <1>10, <2>1 DEF GetNext, ThreadTypes
    <3> QED BY <1>0, <1>10, <2>1, <3>1, CountTypes, RoundTypes
            DEF GetNext, ThreadTypes, Labels, keyVars, callVars
  <2>2. CASE op[t] # "range"
    BY <1>0, <1>10, <2>2 DEF GetNext, Goto, ThreadTypes, Labels, keyVars, callVars
  <2> QED BY <2>1, <2>2
<1>11. CASE CloseIterator(t)
  <2>1. it' \in [Threads -> {"unset", "open"}]
    BY <1>0, <1>11 DEF CloseIterator, ThreadTypes
  <2>2. CASE op[t] = "range"
    BY <1>0, <1>11, <2>1, <2>2 DEF CloseIterator, Goto, ThreadTypes, Labels, keyVars
  <2>3. CASE op[t] # "range"
    <3>1. left[t] > 0 /\ Count(t) /\ Round(t, "records", "commit")
      BY <1>0, <1>11, <2>3 DEF CloseIterator, ThreadTypes
    <3> QED BY <1>0, <1>11, <2>1, <2>3, <3>1, CountTypes, RoundTypes
            DEF CloseIterator, ThreadTypes, Labels, keyVars
  <2> QED BY <2>2, <2>3
<1>12. CASE ModifyRecord(t)
  <2>1. left[t] > 0 /\ Count(t) /\ Round(t, "modify", "commit")
    BY <1>0, <1>12 DEF ModifyRecord, ThreadTypes
  <2>2. keystore' \in [Threads -> Keystores] /\ keypos' \in [Threads -> 0 .. Slots - 1]
    <3>1. keypos[t] \in 0 .. Slots - 1 /\ SlotAfter(t) \in 0 .. Slots - 1
      <4>1. keypos[t] \in 0 .. Slots - 1 /\ keypos[t] + 1 \in Nat /\ Slots \in Nat \ {0}
        BY <1>0, CountsAssumption DEF ThreadTypes
      <4>2. (keypos[t] + 1) % Slots \in 0 .. Slots - 1
        BY <4>1, Remainders
      <4> QED BY <4>1, <4>2 DEF SlotAfter
    <3>2. CASE op[t] = "insert"
      <4>1. [keystore[t] EXCEPT ![keypos[t]] = IndexOf(t)] \in Keystores
        BY <1>0, <3>1, IndexOfThread DEF ThreadTypes, Keystores
      <4> QED BY <1>0, <1>12, <3>1, <3>2, <4>1 DEF ModifyRecord, Remember, ThreadTypes
    <3>3. CASE op[t] # "insert"
      BY <1>0, <1>12, <3>3 DEF ModifyRecord, ThreadTypes, keyVars
    <3> QED BY <3>2, <3>3
  <2> QED BY <1>0, <1>12, <2>1, <2>2, CountTypes, RoundTypes
          DEF ModifyRecord, ThreadTypes, Labels, callVars
<1>13. CASE ModifyRecordFails(t)
  <2>1. left[t] > 0 /\ Round(t, "modify", "commit")
    BY <1>0, <1>13 DEF ModifyRecordFails, ThreadTypes
  <2> QED BY <1>0, <1>13, <2>1, RoundTypes
          DEF ModifyRecordFails, ThreadTypes, Labels, keyVars, callVars
<1>14. CASE Commit(t)
  BY <1>0, <1>14 DEF Commit, Goto, ThreadTypes, Labels, keyVars
<1>15. CASE \/ GetRecordsThrows(t) \/ CloseIteratorThrows(t) \/ CommitThrows(t)
            \/ WildTransaction(t) \/ WildIterator(t)
  <2>1. fault' \in Faults /\ UNCHANGED <<keyVars, idx, tx, it, misled, runVars>>
    BY <1>15 DEF GetRecordsThrows, CloseIteratorThrows, CommitThrows, WildTransaction,
       WildIterator, Cut, Faults, LibraryFaults, DriverFaults
  <2> QED BY <1>0, <2>1 DEF ThreadTypes, keyVars, runVars
<1> QED BY <1>5, <1>6, <1>7, <1>8, <1>9, <1>10, <1>11, <1>12, <1>13, <1>14, <1>15
        DEF Benchmark

-----------------------------------------------------------------------------

LEMMA InitTypes == Init => TypeOK
<1> SUFFICES ASSUME Init PROVE TypeOK
  OBVIOUS
<1>1. [s \in 0 .. Slots - 1 |-> Garbage] \in Keystores
  BY DEF Keystores
<1>2. 0 \in 0 .. Slots - 1 /\ 0 \in 0 .. Population /\ 0 \in 0 .. Rounds
  BY CountsAssumption
<1> QED BY <1>1, <1>2, ZeroTypes DEF Init, TypeOK, Phases, Labels, Faults

LEMMA NextKeepsTypes == TypeOK /\ [Next]_vars => TypeOK'
<1>1. TypeOK /\ UNCHANGED vars => TypeOK'
  BY DEF TypeOK, vars, mainVars, popVars, keyVars, callVars, runVars
<1>2. TypeOK /\ Main => TypeOK'
  BY MainKeepsMainTypes, MainKeepsOtherTypes, TypeParts
<1> QED BY <1>1, <1>2, PopulatorKeepsTypes, BenchmarkKeepsTypes DEF Next

\* The driver keeps its types: positions stay inside the keystores, main's variable
\* inside its loops, and no operation makes more rounds than it has.
THEOREM TypeCorrect == Spec => []TypeOK
  BY InitTypes, NextKeepsTypes, PTL DEF Spec

-----------------------------------------------------------------------------

\* No benchmark thread runs before main has started it.
NotStarted ==
  /\ phase \in {"create", "joinpop", "copy", "free"} => \A t \in Threads : pc[t] = "none"
  /\ phase = "start" => \A t \in Threads : t >= at => pc[t] = "none"

\* The pointers of a thread whose OpenIndex and BeginTransaction have succeeded.
Pointers(t) ==
  /\ idx[t] = "open" <=> pc[t] \notin {"none", "open"}
  /\ tx[t] = "live" <=> pc[t] \in {"records", "next", "close", "modify", "commit"}
  /\ it[t] = "open" <=> pc[t] \in {"next", "close"}

Survives ==
  /\ TypeOK
  /\ NotStarted
  /\ fault \in DriverFaults => misled # {}
  /\ \A t \in Threads \ misled : Pointers(t)

LEMMA MainKeepsNotStarted ==
  ASSUME TypeOK, NotStarted, Main
  PROVE  NotStarted'
<1> USE DEF NotStarted
<1>0. pc \in [Threads -> Labels] /\ at \in Nat
  BY DEF TypeOK
<1>1. CASE CreatePopulator \/ JoinPopulator
  <2>1. phase \in {"create", "joinpop"} /\ phase' \in {"create", "joinpop", "copy"} /\ pc' = pc
    BY <1>1 DEF CreatePopulator, JoinPopulator, Advance, runVars
  <2> QED BY <2>1
<1>2. CASE CopyKeystore \/ FreeKeystore
  <2>1. phase \in {"copy", "free"} /\ phase' \in {"copy", "free", "start"} /\ pc' = pc
    BY <1>2 DEF CopyKeystore, FreeKeystore, Advance, runVars
  <2> QED BY <2>1
<1>3. CASE StartThread
  <2>1. phase = "start" /\ pc' = [pc EXCEPT ![at] = "open"]
        /\ ((at' = at + 1 /\ phase' = phase) \/ phase' = "warm")
    BY <1>3 DEF StartThread, Advance, Goto
  <2> QED BY <1>0, <2>1 DEF Threads
<1>4. CASE SetIncv \/ SetHalt \/ JoinThread \/ AddUp \/ ThreadCallFails
  <2>1. phase' \in {"warm", "halt", "join", "sum", "done", "exited"}
    BY <1>4 DEF SetIncv, SetHalt, JoinThread, AddUp, ThreadCallFails, Exit, Advance
  <2> QED BY <2>1
<1> QED BY <1>1, <1>2, <1>3, <1>4 DEF Main, Loops

\* What the steps of the others leave alone.
LEMMA ThreadsStepAlone ==
  /\ \A i \in Indexes : Populator(i) =>
       UNCHANGED <<at, keyVars, callVars, runVars>> /\ phase' \in {phase, "exited"}
  /\ \A t \in Threads : Benchmark(t) =>
       /\ UNCHANGED <<at, popVars>> /\ phase' \in {phase, "exited"}
       /\ pc[t] # "none"
       /\ TypeOK => \A u \in Threads \ {t} :
            pc'[u] = pc[u] /\ idx'[u] = idx[u] /\ tx'[u] = tx[u] /\ it'[u] = it[u]
       /\ misled \subseteq misled' /\ misled' \subseteq misled \cup {t}
<1>1. ASSUME NEW i \in Indexes, Populator(i)
      PROVE  UNCHANGED <<at, keyVars, callVars, runVars>> /\ phase' \in {phase, "exited"}
  BY <1>1 DEF Populator, PopulatorOpens, PopulatorInserts, PopulatorEnds, Exit, mainVars
<1>2. ASSUME NEW t \in Threads, Benchmark(t)
      PROVE  /\ UNCHANGED <<at, popVars>> /\ phase' \in {phase, "exited"} /\ pc[t] # "none"
             /\ misled \subseteq misled' /\ misled' \subseteq misled \cup {t}
  BY <1>2 DEF Benchmark, OpenHandle, HaltSeen, GetRecords, GetRecordsThrows, GetRecordsFails,
     GetNext, GetNextFails, CloseIterator, CloseIteratorThrows, ModifyRecord,
     ModifyRecordFails, Commit, CommitThrows, WildTransaction, WildIterator, Cut,
     BeginOperation, Mislead, mainVars, callVars, Exit
<1>3. ASSUME NEW t \in Threads, Benchmark(t), TypeOK
      PROVE  \A u \in Threads \ {t} :
               pc'[u] = pc[u] /\ idx'[u] = idx[u] /\ tx'[u] = tx[u] /\ it'[u] = it[u]
  BY <1>3 DEF Benchmark, OpenHandle, HaltSeen, GetRecords, GetRecordsThrows, GetRecordsFails,
     GetNext, GetNextFails, CloseIterator, CloseIteratorThrows, ModifyRecord,
     ModifyRecordFails, Commit, CommitThrows, WildTransaction, WildIterator, Cut,
     BeginOperation, Goto, Round, Mislead, callVars, runVars, TypeOK
<1> QED BY <1>1, <1>2, <1>3

LEMMA OthersKeepNotStarted ==
  ASSUME TypeOK, NotStarted,
         (\E i \in Indexes : Populator(i)) \/ (\E t \in Threads : Benchmark(t))
  PROVE  NotStarted'
<1>1. CASE \E i \in Indexes : Populator(i)
  BY <1>1, ThreadsStepAlone DEF NotStarted, runVars
<1>2. CASE \E t \in Threads : Benchmark(t)
  BY <1>2, ThreadsStepAlone DEF NotStarted
<1> QED BY <1>1, <1>2

\* An operation moves the pointers of its thread together with its label.
LEMMA BenchmarkKeepsPointers ==
  ASSUME TypeOK, NEW t \in Threads, Benchmark(t), Pointers(t), t \notin misled'
  PROVE  Pointers(t)' /\ (fault' = fault \/ fault' \in LibraryFaults)
<1> USE DEF Pointers, TypeOK
<1>1. CASE OpenHandle(t)
  BY <1>1 DEF OpenHandle, Goto, Mislead
<1>2. CASE HaltSeen(t)
  BY <1>2 DEF HaltSeen, Goto, callVars
<1>3. CASE \E o \in Operations : BeginOperation(t, o)
  BY <1>3 DEF BeginOperation, Goto, Mislead
<1>4. CASE GetRecords(t)
  BY <1>4 DEF GetRecords, Goto
<1>5. CASE GetRecordsFails(t)
  BY <1>5 DEF GetRecordsFails
<1>6. CASE GetNext(t) \/ GetNextFails(t)
  BY <1>6 DEF GetNext, GetNextFails, Goto, Round, callVars
<1>7. CASE CloseIterator(t)
  BY <1>7 DEF CloseIterator, Goto, Round
<1>8. CASE ModifyRecord(t) \/ ModifyRecordFails(t)
  BY <1>8 DEF ModifyRecord, ModifyRecordFails, Round, Goto, callVars
<1>9. CASE Commit(t)
  BY <1>9 DEF Commit, Goto
<1>10. CASE \/ GetRecordsThrows(t) \/ CloseIteratorThrows(t) \/ CommitThrows(t)
            \/ WildTransaction(t) \/ WildIterator(t)
  BY <1>10 DEF GetRecordsThrows, CloseIteratorThrows, CommitThrows, WildTransaction,
     WildIterator, Cut, LibraryFaults, runVars
<1> QED BY <1>1, <1>2, <1>3, <1>4, <1>5, <1>6, <1>7, <1>8, <1>9, <1>10 DEF Benchmark

\* Main touches the pointers of no thread, and starts only threads that hold none.
LEMMA MainKeepsPointers ==
  ASSUME TypeOK, NotStarted, Main, NEW t \in Threads, Pointers(t)
  PROVE  Pointers(t)'
<1>1. UNCHANGED callVars
  BY DEF Main, Loops, CreatePopulator, JoinPopulator, CopyKeystore, FreeKeystore, StartThread,
     SetIncv, SetHalt, JoinThread, AddUp, ThreadCallFails
<1>2. CASE StartThread
  <2>1. at \in Threads /\ pc[at] = "none" /\ pc' = [pc EXCEPT ![at] = "open"]
        /\ pc \in [Threads -> Labels]
    BY <1>2 DEF StartThread, Goto, NotStarted, TypeOK
  <2> QED BY <1>1, <2>1 DEF Pointers, callVars
<1>3. CASE ~StartThread
  <2>1. UNCHANGED pc
    BY <1>3 DEF Main, Loops, CreatePopulator, JoinPopulator, CopyKeystore, FreeKeystore,
       SetIncv, SetHalt, JoinThread, AddUp, ThreadCallFails, runVars
  <2> QED BY <1>1, <2>1 DEF Pointers, callVars
<1> QED BY <1>2, <1>3

\* Whatever its calls answer and throw, a benchmark thread uses no pointer that is not
\* there, as long as OpenIndex and BeginTransaction succeed; the undefined behaviour that
\* a deadlock leads to all the same is not the driver's.
THEOREM PointersKept == Spec => []KeepsItsPointers
<1>1. Init => Survives
  BY InitTypes DEF Init, Survives, NotStarted, Pointers, DriverFaults
<1>2. Survives /\ [Next]_vars => Survives'
  <2> SUFFICES ASSUME Survives, [Next]_vars PROVE Survives'
    OBVIOUS
  <2>0. TypeOK /\ NotStarted /\ TypeOK'
    BY NextKeepsTypes DEF Survives
  <2>1. CASE Main
    <3>1. UNCHANGED callVars
      BY <2>1 DEF Main, Loops, CreatePopulator, JoinPopulator, CopyKeystore, FreeKeystore,
         StartThread, SetIncv, SetHalt, JoinThread, AddUp, ThreadCallFails
    <3> QED BY <2>0, <2>1, <3>1, MainKeepsNotStarted, MainKeepsPointers
            DEF Survives, callVars
  <2>2. CASE \E i \in Indexes : Populator(i)
    BY <2>0, <2>2, ThreadsStepAlone, OthersKeepNotStarted
       DEF Survives, Pointers, callVars, runVars
  <2>3. CASE \E t \in Threads : Benchmark(t)
    <3>1. PICK t \in Threads : Benchmark(t)
      BY <2>3
    <3>2. NotStarted'
      BY <2>0, <2>3, OthersKeepNotStarted
    <3>3. ASSUME NEW u \in Threads \ misled' PROVE Pointers(u)'
      <4>1. Pointers(u)
        BY <3>1, <3>3, ThreadsStepAlone DEF Survives
      <4>2. CASE u = t
        BY <2>0, <3>1, <3>3, <4>1, <4>2, BenchmarkKeepsPointers
      <4>3. CASE u # t
        BY <2>0, <3>1, <4>1, <4>3, ThreadsStepAlone DEF Pointers
      <4> QED BY <4>2, <4>3
    <3>4. ASSUME fault' \in DriverFaults PROVE misled' # {}
      <4>1. CASE t \in misled'
        BY <4>1
      <4>2. CASE t \notin misled'
        <5>1. Pointers(t) /\ misled \subseteq misled'
          BY <3>1, <4>2, ThreadsStepAlone DEF Survives
        <5>2. fault' = fault \/ fault' \in LibraryFaults
          BY <2>0, <3>1, <4>2, <5>1, BenchmarkKeepsPointers
        <5>3. fault \in DriverFaults
          BY <3>4, <5>2 DEF LibraryFaults, DriverFaults
        <5> QED BY <5>1, <5>3 DEF Survives
      <4> QED BY <4>1, <4>2
    <3> QED BY <2>0, <3>2, <3>3, <3>4 DEF Survives
  <2>4. CASE UNCHANGED vars
    BY <2>0, <2>4 DEF Survives, NotStarted, Pointers, vars, mainVars, callVars, runVars
  <2> QED BY <2>1, <2>2, <2>3, <2>4 DEF Next
<1>3. Survives => KeepsItsPointers
  BY DEF Survives, Pointers, KeepsItsPointers
<1> QED BY <1>1, <1>2, <1>3, PTL DEF Spec

-----------------------------------------------------------------------------

\* The keystore ks holds keys of index i, in its first n slots at least.
Holds(ks, i, n) ==
  \A s \in 0 .. Slots - 1 : ks[s] = i \/ (s >= n /\ ks[s] = Garbage)

\* Until main frees them, the keystores of the populations hold what was inserted;
\* main copies them when the populations are complete, and starts the threads when
\* every keystore is copied.
KeysFollow ==
  /\ phase \in {"create", "joinpop", "copy"} =>
       \A i \in Indexes : Holds(initKeys[i], i, inserted[i])
  /\ \A i \in Indexes : populator[i] = "done" => inserted[i] = Population
  /\ phase = "joinpop" => \A i \in Indexes : i < at => populator[i] = "done"
  /\ phase \in {"copy", "free", "start"} => \A i \in Indexes : populator[i] = "done"
  /\ phase = "copy" =>
       \A t \in Threads : t < at => Holds(keystore[t], IndexOf(t), Population)
  /\ phase \in {"free", "start"} =>
       \A t \in Threads : Holds(keystore[t], IndexOf(t), Population)

KeysInv == TypeOK /\ NotStarted /\ KeysFollow /\ OwnKeys

LEMMA OwnKeysHolds ==
  OwnKeys <=> \A t \in Threads : pc[t] # "none" => Holds(keystore[t], IndexOf(t), Population)
  BY DEF OwnKeys, Holds

LEMMA OwnKeysHoldsNext ==
  OwnKeys' <=>
    \A t \in Threads : pc'[t] # "none" => Holds(keystore'[t], IndexOf(t), Population)
  BY DEF OwnKeys, Holds, IndexOf

\* A step of main that is not over the copying.
LEMMA MainKeepsKeys ==
  ASSUME KeysInv, Main
  PROVE  KeysFollow' /\ OwnKeys'
<1> USE DEF KeysFollow
<1>0. TypeOK /\ NotStarted /\ KeysFollow /\ OwnKeys
  BY DEF KeysInv
<1>a. /\ pc \in [Threads -> Labels] /\ populator \in [Indexes -> {"none", "open", "fill", "done"}]
      /\ keystore \in [Threads -> Keystores] /\ initKeys \in [Indexes -> Keystores]
      /\ at \in Nat
      /\ phase \in {"create", "joinpop", "free"} => at \in 0 .. IndexCount - 1
      /\ phase \in {"copy", "start"} => at \in 0 .. ThreadCount - 1
      /\ IndexCount \in Nat /\ ThreadCount \in Nat
  BY <1>0, CountsAssumption DEF TypeOK, Indexes, Threads
<1>b. \A t \in Threads : pc[t] # "none" => Holds(keystore[t], IndexOf(t), Population)
  BY <1>0, OwnKeysHolds
<1>c. SUFFICES KeysFollow' /\ \A t \in Threads :
        pc'[t] # "none" => Holds(keystore'[t], IndexOf(t), Population)
  BY OwnKeysHoldsNext
<1>1. CASE CreatePopulator
  <2>1. /\ phase = "create" /\ populator' = [populator EXCEPT ![at] = "open"]
        /\ UNCHANGED <<inserted, initKeys, keystore, pc>>
        /\ (phase' = phase \/ (phase' = "joinpop" /\ at' = 0))
    BY <1>1 DEF CreatePopulator, Advance, keyVars, runVars
  <2>2. \A i \in Indexes : ~(i < 0)
    BY <1>a DEF Indexes
  <2> QED BY <1>0, <1>a, <1>b, <2>1, <2>2 DEF IndexOf
<1>2. CASE JoinPopulator
  <2>1. /\ phase = "joinpop" /\ populator[at] = "done"
        /\ UNCHANGED <<populator, inserted, initKeys, keystore, pc>>
    BY <1>a, <1>2 DEF JoinPopulator, Populated, popVars, keyVars, runVars
  <2>2. \/ phase' = phase /\ at' = at + 1
        \/ phase' = "copy" /\ at' = 0 /\ at = IndexCount - 1
    BY <1>a, <1>2 DEF JoinPopulator, Advance
  <2>3. phase' = "joinpop" => \A i \in Indexes : i < at' => populator[i] = "done"
    BY <1>0, <1>a, <2>1, <2>2 DEF Indexes
  <2>4. phase' = "copy" => \A i \in Indexes : populator[i] = "done"
    BY <1>0, <1>a, <2>1, <2>2 DEF Indexes
  <2>5. phase' = "copy" => \A t \in Threads : ~(t < at')
    BY <1>a, <2>1, <2>2 DEF Threads
  <2> QED BY <1>0, <1>b, <2>1, <2>2, <2>3, <2>4, <2>5
<1>3. CASE CopyKeystore
  <2>1. /\ phase = "copy" /\ keystore' = [keystore EXCEPT ![at] = initKeys[IndexOf(at)]]
        /\ UNCHANGED <<populator, inserted, initKeys, pc>>
    BY <1>3 DEF CopyKeystore, popVars, runVars
  <2>2. \/ phase' = phase /\ at' = at + 1
        \/ phase' = "free" /\ at' = 0 /\ at = ThreadCount - 1
    BY <1>a, <1>3 DEF CopyKeystore, Advance
  <2>3. at \in Threads /\ IndexOf(at) \in Indexes
    BY <1>a, <2>1, IndexOfThread DEF Threads
  <2>4. Holds(keystore'[at], IndexOf(at), Population)
    <3>1. Holds(initKeys[IndexOf(at)], IndexOf(at), Population)
      BY <1>0, <2>1, <2>3
    <3> QED BY <1>a, <2>1, <2>3, <3>1
  <2>5. \A t \in Threads : t # at => keystore'[t] = keystore[t]
    BY <1>a, <2>1
  <2>6. \A t \in Threads : t < at => Holds(keystore'[t], IndexOf(t), Population)
    BY <1>0, <1>a, <2>1, <2>5 DEF Threads
  <2>7. \A t \in Threads : t <= at => Holds(keystore'[t], IndexOf(t), Population)
    BY <1>a, <2>4, <2>6 DEF Threads
  <2>8. phase' = "copy" =>
          \A t \in Threads : t < at' => Holds(keystore'[t], IndexOf(t), Population)
    BY <1>a, <2>2, <2>7 DEF Threads
  <2>9. phase' = "free" => \A t \in Threads : Holds(keystore'[t], IndexOf(t), Population)
    BY <1>a, <2>1, <2>2, <2>7 DEF Threads
  <2>10. \A t \in Threads : pc'[t] = "none"
    BY <1>0, <2>1 DEF NotStarted
  <2> QED BY <1>0, <2>1, <2>2, <2>8, <2>9, <2>10 DEF IndexOf
<1>4. CASE FreeKeystore
  <2>1. /\ phase = "free" /\ phase' \in {"free", "start"}
        /\ UNCHANGED <<populator, inserted, keystore, pc>>
    BY <1>4 DEF FreeKeystore, Advance, keyVars, runVars
  <2> QED BY <1>0, <1>b, <2>1 DEF IndexOf
<1>5. CASE StartThread
  <2>1. /\ phase = "start" /\ phase' \in {"start", "warm"}
        /\ UNCHANGED <<populator, inserted, initKeys, keystore>>
    BY <1>5 DEF StartThread, Advance, popVars, keyVars
  <2> QED BY <1>0, <2>1 DEF IndexOf
<1>6. CASE SetIncv \/ SetHalt \/ JoinThread \/ AddUp \/ ThreadCallFails
  <2>1. /\ phase' \in {"warm", "halt", "join", "sum", "done", "exited"}
        /\ UNCHANGED <<populator, inserted, initKeys, keystore, pc>>
    BY <1>6 DEF SetIncv, SetHalt, JoinThread, AddUp, ThreadCallFails, Exit, Advance, popVars, keyVars, runVars
  <2> QED BY <1>0, <1>b, <2>1 DEF IndexOf
<1> QED BY <1>1, <1>2, <1>3, <1>4, <1>5, <1>6 DEF Main, Loops

\* A population inserts into its own keystore, and while main still waits for it.
LEMMA PopulatorKeepsKeys ==
  ASSUME KeysInv, NEW i \in Indexes, Populator(i)
  PROVE  KeysFollow' /\ OwnKeys'
<1> USE DEF KeysFollow
<1>0. /\ TypeOK /\ KeysFollow /\ OwnKeys
      /\ UNCHANGED <<at, keystore, pc>> /\ phase' \in {phase, "exited"}
  BY ThreadsStepAlone DEF KeysInv, keyVars, runVars
<1>1. OwnKeys'
  BY <1>0, OwnKeysHolds, OwnKeysHoldsNext
<1>2. CASE PopulatorOpens(i) \/ PopulatorEnds(i)
  <2>1. /\ UNCHANGED <<inserted, initKeys>> /\ populator[i] # "done"
        /\ populator' = populator \/ \E x \in {"fill", "done"} :
             /\ populator' = [populator EXCEPT ![i] = x]
             /\ x = "done" => inserted[i] = Population
    BY <1>2 DEF PopulatorOpens, PopulatorEnds
  <2>2. \A j \in Indexes : populator[j] = "done" => populator'[j] = "done"
    BY <1>0, <2>1 DEF TypeOK
  <2>3. \A j \in Indexes : populator'[j] = "done" => inserted'[j] = Population
    BY <1>0, <2>1 DEF TypeOK
  <2> QED BY <1>0, <1>1, <2>1, <2>2, <2>3 DEF IndexOf
<1>3. CASE PopulatorInserts(i)
  <2>1. /\ UNCHANGED populator /\ populator[i] = "fill"
        /\ \/ UNCHANGED <<inserted, initKeys>>
           \/ /\ inserted' = [inserted EXCEPT ![i] = @ + 1]
              /\ initKeys' = [initKeys EXCEPT ![i][inserted[i] % Slots] = i]
    BY <1>3 DEF PopulatorInserts
  <2>2. \A j \in Indexes : populator'[j] = "done" => inserted'[j] = Population
    BY <1>0, <2>1 DEF TypeOK
  <2>3. ASSUME \A j \in Indexes : Holds(initKeys[j], j, inserted[j])
        PROVE  \A j \in Indexes : Holds(initKeys'[j], j, inserted'[j])
    <3>1. CASE UNCHANGED <<inserted, initKeys>>
      BY <2>3, <3>1
    <3>2. CASE /\ inserted' = [inserted EXCEPT ![i] = @ + 1]
               /\ initKeys' = [initKeys EXCEPT ![i][inserted[i] % Slots] = i]
      <4>1. /\ inserted[i] \in Nat /\ Slots \in Nat \ {0}
            /\ inserted[i] % Slots \in 0 .. Slots - 1
            /\ inserted[i] < Slots => inserted[i] % Slots = inserted[i]
        <5>1. inserted[i] \in Nat /\ Slots \in Nat \ {0}
          BY <1>0, CountsAssumption DEF TypeOK
        <5> QED BY <5>1, Remainders
      <4>2. /\ initKeys'[i] = [initKeys[i] EXCEPT ![inserted[i] % Slots] = i]
            /\ inserted'[i] = inserted[i] + 1
            /\ initKeys[i] \in [0 .. Slots - 1 -> Indexes \cup {Garbage}]
            /\ \A j \in Indexes \ {i} :
                 initKeys'[j] = initKeys[j] /\ inserted'[j] = inserted[j]
        BY <1>0, <3>2 DEF TypeOK, Keystores
      <4>3. ASSUME NEW s \in 0 .. Slots - 1
            PROVE  \/ initKeys'[i][s] = i
                   \/ s >= inserted[i] + 1 /\ initKeys'[i][s] = Garbage
        <5>1. CASE s = inserted[i] % Slots
          BY <4>1, <4>2, <5>1
        <5>2. CASE s # inserted[i] % Slots
          <6>1. initKeys'[i][s] = initKeys[i][s]
            BY <4>1, <4>2, <5>2
          <6>2. initKeys[i][s] = i \/ (s >= inserted[i] /\ initKeys[i][s] = Garbage)
            BY <2>3 DEF Holds
          <6>3. s >= inserted[i] => s >= inserted[i] + 1
            BY <4>1, <5>2
          <6> QED BY <6>1, <6>2, <6>3
        <5> QED BY <5>1, <5>2
      <4>4. Holds(initKeys'[i], i, inserted'[i])
        BY <4>2, <4>3 DEF Holds
      <4> QED BY <2>3, <4>2, <4>4
    <3> QED BY <2>1, <3>1, <3>2
  <2> QED BY <1>0, <1>1, <2>1, <2>2, <2>3 DEF IndexOf
<1> QED BY <1>1, <1>2, <1>3, OwnKeysHoldsNext, OwnKeysHolds DEF Populator

\* A benchmark thread only ever remembers keys of its own index.
LEMMA BenchmarkKeepsKeys ==
  ASSUME KeysInv, NEW t \in Threads, Benchmark(t)
  PROVE  KeysFollow' /\ OwnKeys'
<1>0. /\ TypeOK /\ NotStarted /\ KeysFollow /\ OwnKeys
      /\ UNCHANGED <<at, popVars>> /\ phase' \in {phase, "exited"} /\ pc[t] # "none"
      /\ \A u \in Threads \ {t} : pc'[u] = pc[u]
  BY ThreadsStepAlone DEF KeysInv
<1>1. \/ keystore' = keystore
      \/ keystore' = [keystore EXCEPT ![t][keypos[t]] = IndexOf(t)]
  BY DEF Benchmark, OpenHandle, HaltSeen, GetRecords, GetRecordsThrows, GetRecordsFails,
     GetNext, GetNextFails, CloseIterator, CloseIteratorThrows, ModifyRecord,
     ModifyRecordFails, Commit, CommitThrows, WildTransaction, WildIterator, Cut,
     BeginOperation, Remember, keyVars
<1>2. ASSUME NEW u \in Threads, Holds(keystore[u], IndexOf(u), Population)
      PROVE  Holds(keystore'[u], IndexOf(u), Population)
  <2>1. keypos[t] \in 0 .. Slots - 1 /\ keystore \in [Threads -> [0 .. Slots - 1 -> Indexes \cup {Garbage}]]
    BY <1>0 DEF TypeOK, Keystores
  <2>2. \A s \in 0 .. Slots - 1 : keystore'[u][s] \in {keystore[u][s], IndexOf(u)}
    <3>1. CASE keystore' = keystore
      BY <3>1
    <3>2. CASE keystore' = [keystore EXCEPT ![t][keypos[t]] = IndexOf(t)]
      <4>1. u = t => keystore'[u] = [keystore[u] EXCEPT ![keypos[u]] = IndexOf(u)]
        BY <2>1, <3>2
      <4>2. u # t => keystore'[u] = keystore[u]
        BY <2>1, <3>2
      <4>3. keystore[u] \in [0 .. Slots - 1 -> Indexes \cup {Garbage}]
        BY <2>1
      <4> QED BY <4>1, <4>2, <4>3
    <3> QED BY <1>1, <3>1, <3>2
  <2> QED BY <1>2, <2>2 DEF Holds
<1>3. OwnKeys'
  BY <1>0, <1>2, OwnKeysHolds, OwnKeysHoldsNext
<1>4. KeysFollow'
  BY <1>0, <1>2 DEF KeysFollow, popVars, IndexOf
<1> QED BY <1>3, <1>4

\* A benchmark thread works with the keys of its own index, for any number of
\* indexes, threads and insertions.
THEOREM KeysAreOwn == Spec => []OwnKeys
<1>1. Init => KeysInv
  <2> SUFFICES ASSUME Init PROVE KeysInv
    OBVIOUS
  <2>1. TypeOK /\ NotStarted /\ OwnKeys
    BY InitTypes DEF Init, NotStarted, OwnKeys
  <2>2. \A i \in Indexes : inserted[i] = 0 /\ initKeys[i] = [s \in 0 .. Slots - 1 |-> Garbage]
    BY DEF Init
  <2>3. \A i \in Indexes : Holds(initKeys[i], i, inserted[i])
    BY <2>2, CountsAssumption DEF Holds
  <2>4. KeysFollow
    BY <2>3 DEF Init, KeysFollow
  <2> QED BY <2>1, <2>4 DEF KeysInv
<1>2. KeysInv /\ [Next]_vars => KeysInv'
  <2> SUFFICES ASSUME KeysInv, [Next]_vars PROVE KeysInv'
    OBVIOUS
  <2>0. TypeOK /\ NotStarted /\ TypeOK'
    BY NextKeepsTypes DEF KeysInv
  <2>1. CASE Main
    BY <2>0, <2>1, MainKeepsNotStarted, MainKeepsKeys DEF KeysInv
  <2>2. CASE \E i \in Indexes : Populator(i)
    BY <2>0, <2>2, OthersKeepNotStarted, PopulatorKeepsKeys DEF KeysInv
  <2>3. CASE \E t \in Threads : Benchmark(t)
    BY <2>0, <2>3, OthersKeepNotStarted, BenchmarkKeepsKeys DEF KeysInv
  <2>4. CASE UNCHANGED vars
    BY <2>0, <2>4 DEF KeysInv, KeysFollow, NotStarted, OwnKeys, IndexOf, vars, mainVars,
       popVars, keyVars, runVars
  <2> QED BY <2>1, <2>2, <2>3, <2>4 DEF Next
<1>3. KeysInv => OwnKeys
  BY DEF KeysInv
<1> QED BY <1>1, <1>2, <1>3, PTL DEF Spec

-----------------------------------------------------------------------------

\* What is added up: nothing before the threads are joined, and from then on the
\* counters of threads that have all ended.
Summing ==
  /\ phase \notin {"sum", "done", "exited"} => score = 0
  /\ phase = "join" => \A t \in Threads : t < at => pc[t] = "end"
  /\ phase \in {"sum", "done"} => \A t \in Threads : pc[t] = "end"
  /\ phase = "sum" => IsSum(score, ops, at)
  /\ phase = "done" => IsSum(score, ops, ThreadCount)

SumInv == TypeOK /\ Summing

\* Nothing added up is zero, and a sum grows by the next value.
LEMMA EmptySum ==
  ASSUME NEW f
  PROVE  IsSum(0, f, 0)
<1> DEFINE sum == [k \in 0 .. 0 |-> 0]
<1>1. sum \in [0 .. 0 -> 0 .. 0] /\ sum[0] = 0 /\ \A k \in 0 .. 0 - 1 : sum[k + 1] = sum[k] + f[k]
  OBVIOUS
<1> QED BY <1>1 DEF IsSum

LEMMA NextSum ==
  ASSUME NEW n \in Nat, NEW f, f[n] \in Nat, NEW total \in Nat, IsSum(total, f, n)
  PROVE  IsSum(total + f[n], f, n + 1)
<1>1. PICK sum \in [0 .. n -> 0 .. total] :
        sum[0] = 0 /\ sum[n] = total /\ \A k \in 0 .. n - 1 : sum[k + 1] = sum[k] + f[k]
  BY DEF IsSum
<1> DEFINE new == [k \in 0 .. n + 1 |-> IF k = n + 1 THEN total + f[n] ELSE sum[k]]
<1>2. new \in [0 .. n + 1 -> 0 .. total + f[n]]
  BY <1>1
<1>3. new[0] = 0 /\ new[n + 1] = total + f[n]
  BY <1>1
<1>4. ASSUME NEW k \in 0 .. (n + 1) - 1
      PROVE  new[k + 1] = new[k] + f[k]
  <2>1. CASE k = n
    BY <1>1, <2>1
  <2>2. CASE k # n
    <3>1. k \in 0 .. n - 1 /\ k + 1 \in 0 .. n
      BY <2>2
    <3> QED BY <1>1, <3>1
  <2> QED BY <2>1, <2>2
<1> HIDE DEF new
<1> QED BY <1>2, <1>3, <1>4 DEF IsSum

\* Main joins every thread before it adds the first counter.
LEMMA MainKeepsSumming ==
  ASSUME SumInv, Main
  PROVE  Summing'
<1>0. /\ Summing /\ pc \in [Threads -> Labels] /\ ops \in [Threads -> Nat] /\ score \in Nat
      /\ phase \in {"join", "sum"} => at \in 0 .. ThreadCount - 1
      /\ ThreadCount \in Nat \ {0}
  BY CountsAssumption DEF SumInv, TypeOK, Threads
<1>1. CASE JoinThread
  <2>1. /\ phase = "join" /\ pc[at] = "end" /\ UNCHANGED <<score, ops, pc>>
        /\ \/ phase' = phase /\ at' = at + 1
           \/ phase' = "sum" /\ at' = 0 /\ at = ThreadCount - 1
    BY <1>0, <1>1 DEF JoinThread, Ended, Advance, runVars
  <2>2. \A t \in Threads : t <= at => pc[t] = "end"
    BY <1>0, <2>1 DEF Summing, Threads
  <2>3. score = 0 /\ IsSum(0, ops, 0)
    BY <1>0, <2>1, EmptySum DEF Summing
  <2>4. phase' = "join" => \A t \in Threads : t < at' => pc'[t] = "end"
    BY <1>0, <2>1, <2>2 DEF Threads
  <2>5. phase' = "sum" => (\A t \in Threads : pc'[t] = "end") /\ IsSum(score', ops', at')
    BY <1>0, <2>1, <2>2, <2>3 DEF Threads
  <2> QED BY <2>1, <2>3, <2>4, <2>5 DEF Summing, IsSum
<1>2. CASE AddUp
  <2>1. /\ phase = "sum" /\ score' = score + ops[at] /\ UNCHANGED <<ops, pc>>
        /\ \/ phase' = phase /\ at' = at + 1
           \/ phase' = "done" /\ at + 1 = ThreadCount
    BY <1>0, <1>2 DEF AddUp, Advance, runVars
  <2>2. ops[at] \in Nat /\ at \in Nat
    BY <1>0, <2>1 DEF Threads
  <2>3. IsSum(score + ops[at], ops, at + 1)
    BY <1>0, <2>1, <2>2, NextSum DEF Summing
  <2>4. phase' = "sum" => IsSum(score', ops', at')
    BY <2>1, <2>3
  <2>5. phase' = "done" => IsSum(score', ops', ThreadCount)
    BY <2>1, <2>3
  <2>6. \A t \in Threads : pc'[t] = "end"
    BY <1>0, <2>1 DEF Summing
  <2> QED BY <2>1, <2>4, <2>5, <2>6 DEF Summing, IsSum
<1>3. CASE SetHalt
  <2>1. /\ phase = "halt" /\ UNCHANGED score
        /\ phase' = "halt" \/ (phase' = "join" /\ at' = 0)
    BY <1>3 DEF SetHalt, Advance
  <2>2. \A t \in Threads : ~(t < 0)
    BY DEF Threads
  <2> QED BY <1>0, <2>1, <2>2 DEF Summing
<1>4. CASE \/ CreatePopulator \/ JoinPopulator \/ CopyKeystore \/ FreeKeystore
           \/ StartThread \/ SetIncv
  <2>1. /\ UNCHANGED score /\ phase \notin {"sum", "done", "exited"}
        /\ phase' \notin {"join", "sum", "done"}
    BY <1>4 DEF CreatePopulator, JoinPopulator, CopyKeystore, FreeKeystore, StartThread,
       SetIncv, Advance
  <2> QED BY <1>0, <2>1 DEF Summing
<1>5. CASE ThreadCallFails
  BY <1>5 DEF ThreadCallFails, Exit, Summing
<1> QED BY <1>1, <1>2, <1>3, <1>4, <1>5 DEF Main, Loops

\* A thread that has ended takes no further step, and counts nothing more.
LEMMA EndedThreadsRest ==
  ASSUME TypeOK, NEW t \in Threads, Benchmark(t)
  PROVE  pc[t] # "end"
  BY DEF Benchmark, OpenHandle, HaltSeen, GetRecords, GetRecordsThrows, GetRecordsFails,
     GetNext, GetNextFails, CloseIterator, CloseIteratorThrows, ModifyRecord,
     ModifyRecordFails, Commit, CommitThrows, WildTransaction, WildIterator, Cut,
     BeginOperation

LEMMA OthersKeepSumming ==
  ASSUME SumInv, (\E i \in Indexes : Populator(i)) \/ (\E t \in Threads : Benchmark(t))
  PROVE  Summing'
<1>0. TypeOK /\ Summing
  BY DEF SumInv
<1>1. CASE \E i \in Indexes : Populator(i)
  <2>1. UNCHANGED <<at, score, ops, pc>> /\ phase' \in {phase, "exited"}
    BY <1>1, ThreadsStepAlone DEF Populator, PopulatorOpens, PopulatorInserts,
       PopulatorEnds, mainVars, runVars
  <2> QED BY <1>0, <2>1 DEF Summing, IsSum
<1>2. CASE \E t \in Threads : Benchmark(t)
  <2>1. PICK t \in Threads : Benchmark(t)
    BY <1>2
  <2>2. /\ UNCHANGED at /\ phase' \in {phase, "exited"}
        /\ \A u \in Threads \ {t} : pc'[u] = pc[u]
    BY <1>0, <2>1, ThreadsStepAlone
  <2>3. UNCHANGED score
    BY <2>1 DEF Benchmark, OpenHandle, HaltSeen, GetRecords, GetRecordsThrows, GetRecordsFails,
     GetNext, GetNextFails, CloseIterator, CloseIteratorThrows, ModifyRecord,
     ModifyRecordFails, Commit, CommitThrows, WildTransaction, WildIterator, Cut,
     BeginOperation, mainVars
  <2>4. pc[t] # "end"
    BY <1>0, <2>1, EndedThreadsRest
  <2>5. phase \notin {"sum", "done"}
    BY <1>0, <2>4 DEF Summing
  <2>6. phase' = "join" => \A u \in Threads : u < at' => pc'[u] = "end"
    BY <1>0, <2>2, <2>4 DEF Summing
  <2> QED BY <1>0, <2>2, <2>3, <2>5, <2>6 DEF Summing
<1> QED BY <1>1, <1>2

\* The score main prints is the sum of everything the threads have counted, however
\* many threads there are and whenever they notice their halt.
THEOREM ScoreCorrect == Spec => []ScoreIsFinal
<1>1. Init => SumInv
  BY InitTypes DEF Init, SumInv, Summing
<1>2. SumInv /\ [Next]_vars => SumInv'
  <2> SUFFICES ASSUME SumInv, [Next]_vars PROVE SumInv'
    OBVIOUS
  <2>1. TypeOK'
    BY NextKeepsTypes DEF SumInv
  <2>2. Summing'
    <3>1. CASE UNCHANGED vars
      BY <3>1 DEF SumInv, Summing, IsSum, vars, mainVars, runVars
    <3> QED BY <3>1, MainKeepsSumming, OthersKeepSumming DEF Next
  <2> QED BY <2>1, <2>2 DEF SumInv
<1>3. SumInv => ScoreIsFinal
  BY DEF SumInv, Summing, ScoreIsFinal
<1> QED BY <1>1, <1>2, <1>3, PTL DEF Spec

====
