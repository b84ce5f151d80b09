# A verification project for Oxford-SIGMOD-2012

The repository is an entry to the SIGMOD 2012 programming contest: a
transactional in-memory index over multidimensional keys, with an example
implementation on top of Berkeley DB (`src/example/`), the interface it
implements (`src/include/contest_interface.h`), unit tests, and a benchmark
driver. This directory holds TLA+ models of that implementation, TLC
configurations that check them, and TLAPS proofs about them.

## 1. Inventory

| Part | State | Operations | Modelled in |
|---|---|---|---|
| `BDBImpl.cc`: the C interface | none of its own; the `Transaction*`, `Index*`, `Iterator*` of its callers | 13 calls, from `BeginTransaction` to `CloseIterator` | all modules, call by call |
| `Index.cc`, `IndexStructure` | `transactions_`, `handles_`, `read_only_`, `mutex_` | `start_transaction`, `end_transaction`, `MakeReadOnly`, `register_handle`, `unregister_handle`, `CloseHandles` | `WriteGate`, `IndexLifecycle` |
| `Index.cc`, `IndexManager` (a singleton) | `indices_`, `mutex_` | `Insert`, `Find`, `Remove`, `CloseTransaction` | `WriteGate`, `IndexLifecycle` |
| `Index.cc`, `Index` (a handle) | `db_`, `structure_`, `closed_`, `op_count_`, `mutex_` | `Open`, `Close`, `Insert`, `Update`, `Delete`, `Compatible` | `WriteGate`, `IndexLifecycle`, `Records` |
| `Iterator.cc` | `cursor_`, `min_key_`, `max_key_`, `initialized_`, `end_`, `closed_` | constructor, `Next`, `Close`, `SetEnded` | `RangeScan` |
| `Util.cc` and `IndexStructure::GetBDBKey` | none | `attcmp`, `keycmp`, `CheckBounds`; copies of keys and records | `Keys` (not the copies) |
| `Mutex.h` | a pthread mutex | `lock(x) { ... }` | as critical sections |
| `ConnectionManager.cc` | the `DbEnv` | opens it | not modelled |
| Berkeley DB | databases, transactions, cursors, locks | a library outside the repository | as the calls it answers |
| `benchmark/basedriver.c` | keystores, `halt`, `incv`, `ops`, a thread's pointers | `main`, `PopulateIndexTask`, `BenchmarkTask` and its five operations | `Driver` |
| `common/argument_parser.cc` | `arguments_`; of each `Argument` `nargs_`, `set_`, `values_` | `add_argument`, `parse_args`, `is_set`, `get_value` | `ArgumentParser` |
| `unittests/` | | tests | not modelled: read as callers |
| `BasicImpl.cc`, `src/` | | stubs | not modelled |

How they interact. A thread calls the interface; a record call goes to its
`Index`, which asks the `IndexStructure` (`start_transaction`) whether it may
write and then calls Berkeley DB; Berkeley DB calls `keycmp` back, which looks
the structure up by name in the `IndexManager`. `CommitTransaction` and
`AbortTransaction` go through `IndexManager::CloseTransaction` to every
structure. `DeleteIndex` goes through `IndexManager::Remove` to
`MakeReadOnly`, to the destructor of the structure, to `Close` of every handle,
and at last to `DbEnv::dbremove`. Iterators own a cursor of a handle's `Db` and
of a transaction, and neither knows of them. The driver is a client of the interface; the
parser stands alone.

What is hard here:

* *Two mutexes in both orders*: `UpdateRecord` locks its handle and, inside
  `keycmp`, the manager; `DeleteIndex` locks the manager and then the handles.
  Nothing but the gate (`start_transaction` / `MakeReadOnly`) keeps the two from
  waiting for each other.
* *Pointers as identities*: `transactions_` holds addresses of `DbTxn` objects
  that `commit` and `abort` free before the address is erased.
* *Objects freed under a thread*: structures and handles are used between the
  critical sections in which they were looked up.
* *Exceptions*: Berkeley DB calls throw `DbDeadlockException` or another
  `DbException` between two steps of an operation, `Db::close` and `Dbc::close` in destructors and
  clean-ups included, and the catch blocks of `BDBImpl.cc` undo little of it.
* *Creation and deletion in two steps*: the database and the map of structures
  change one after the other.
* *Scans over a moving set*: GetNext is read committed, so records come and go on
  both sides of the cursor, and a failed call is repeated.
* *Duplicates*: which records a modification affects depends on where among the
  duplicates of a key its cursor starts, and, as `DeleteRecord` reads committed, on what others
  do to them between its cursor calls.
* *Answers nobody reads*: the driver ignores most of what the library answers and goes on with
  pointers it may not have; its threads share flags and counters with `main`
  without a lock, ordered by `pthread_join` only.
* *Words that are options or values*: only the options before a word decide which it is.

What makes each component correct: an index is not deleted while unresolved transactions
have modified it, and a permitted writer is never deleted under (gate); the map of
structures agrees with the databases, and a structure goes only after its open handles
(lifecycle); a scan is complete, bounded and ordered (iterators); one matching record, or
all of them, is affected (modification); no answer and no exception, of a deadlock for
example, leads the driver to a pointer it does not have, but for two answers it cannot do
without, its keys are those of its own index, and its score is final (driver); exactly the
sequences of complete options are accepted, and the options have the values they were given
(parser). The hazards, line by line, are in `PROJECT.json`.

## 2. Modules

| Module | What it is |
|---|---|
| `WriteGate` | record calls, transactions and `DeleteIndex`, threads interleaved |
| `IndexContract` | what the interface promises of an index and its transactions: the abstraction that `WriteGate` implements |
| `IndexLifecycle` | `CreateIndex`, `OpenIndex`, `CloseIndex`, `DeleteIndex`, with allocated and freed objects |
| `Keys` | the order of keys, the conversion of wildcards, the bounds test |
| `RangeScan` (EXTENDS `Keys`) | `GetRecords`, `GetNext`, `CloseIterator` against a changing index |
| `Records` (EXTENDS `Keys`) | what the record calls do to the records |
| `RecordStore` | what the interface promises of them: the abstraction that `Records` is compared with |
| `Driver` | the benchmark: `main`, the population threads, the benchmark threads |
| `ArgumentParser` | a program's options and its command line |
| `MCWriteGate`, `MCIndexLifecycle`, `MCRangeScan`, `MCRecords` | model values, symmetry and ranges for TLC |
| `WriteGateProofs`, `IndexLifecycleProofs`, `KeysProofs`, `RangeScanProofs`, `RecordsProofs`, `DriverProofs`, `ArgumentParserProofs` | theorems |

### WriteGate

`catalog` is the domain of `indices_`; `imMutex` the owner of the manager's
mutex where it is held across steps (`Remove` only); `readOnly`,
`transactions` are the members of each structure; `closed` is `closed_` of each
thread's handle. `live`, `parent` and `wrote` are Berkeley DB's side: the
unresolved transactions, the nesting, and what each has modified. `tx` and `tid`
are the pointers held by a caller and by a running `Update` or `Delete`. A step
is one critical section or one Berkeley DB call, so a thread is at a label
between two of them:

| Label | Next comes |
|---|---|
| `enter` / `access` | `Compatible`, then `txn_begin` / nothing (autocommit insert) |
| `gate` | `start_transaction` |
| `cmp` | `keycmp`, called back by Berkeley DB |
| `work` | the put, or the cursor calls on the first match |
| `register` | `start_transaction` of the caller's transaction, then the duplicates |
| `commit`, `end` | `tid->commit`, `end_transaction` |
| `closetx` | `IndexManager::CloseTransaction` |
| `closing` | `CloseHandles`, handle by handle, then the end of `Remove` |

The mutex of a handle is not a variable: `Index::Update` has it exactly at the labels
`Nested`. Every Berkeley DB call that the labels stand for may throw. When `commit` or
`abort` of the caller's transaction throws, the model drops the pointer (the transaction is
resolved, `CloseTransaction` skipped). When an operation throws after its nested transaction
has begun, nobody aborts that one: it stays in `live`. The history variable `thrown`
remembers that either has happened. When `Db::close` throws inside `CloseHandle`,
`DeleteIndex` returns with the structure freed and its entry left in `indices_`: the index
moves from `catalog` to `wrecked`, and whoever looks it up there uses a freed structure
(fault `structure_freed`). A `txn_begin` that throws has no effect, and no step.

`Quarantine = TRUE` keeps `txn_begin` from the addresses that a pointer of a caller or of a
running call still has (`Referenced`): that of a transaction between its `commit` or `abort` and
its erasure from `transactions_`. `FALSE` allows what an allocator may do.

### IndexLifecycle

`allocated` holds the addresses of live `IndexStructure` and `Index` objects;
`catalog` is `indices_`; `handles`, `structure`, `open` are `handles_`,
`structure_` and `!closed_`; `todo` and `current` are the loop in
`CloseHandles`. `CloseHandles` takes no lock and erases the element its iterator
stands on, which is undefined; the model takes either outcome, the iterator
finding the next handle (and perhaps one registered meanwhile) or the fault
`iterator_invalid`. No transaction writes here, so `MakeReadOnly` succeeds.
`Throws` names the Berkeley DB calls that may throw at any time, and all runs
allow all three:

* `"open"`: `Db::open` in `OpenIndex` (`OpenDatabase`). The `Index` is deleted; as it is
  still closed, its destructor leaves it in `handles_`.
* `"close"`: `Db::close` in `Index::Close` (`Index.cc:175`), which then skips
  `unregister_handle`. In `CloseIndex` (`CloseIndexFails`) the `Index` is freed and stays in
  `handles_`, and unless the error is `EINVAL` the caller keeps its pointer. In
  `DeleteIndex` (`DeleteIndexFails`) the exception leaves `CloseHandles`, `~IndexStructure`
  and `Remove`: the structure is freed, the later handles stay open, and `indices_` keeps
  the entry. (`delete` frees the memory also when the destructor throws; destructors may, as
  the code is C++98.)
* `"remove"`: `dbremove` in `DeleteIndex`, after the structure has gone.

`ReuseHandle` and `ReuseStructure` are calls with what such a failure has left behind. Three history
variables make it possible to say what an exception breaks and what it does not: `wrecked` has
the names whose `DeleteIndex` an exception has ended, `failed` the handles freed after
`Db::open` or `Db::close` has thrown, and `apart` remembers whether callers have, up to now, kept
`OpenIndex` and `DeleteIndex` of the same index apart. An address that `indices_` or a caller
still has is not given out again, since what is done through such a pointer is undefined whatever
lies there by then; the addresses left in `handles_`, which are only compared and closed, are.

### Keys, RangeScan, Records

The values of an attribute are `0..Top` in the order of `attcmp`; `Fill` is the string of
127s that `GetBDBKey` writes for a varchar wildcard. Records are keys with the stamp of
their insertion, since `Db::put` appends duplicates. `RangeScan` has one iterator: iterators
share nothing but the records, and other threads appear as `InsertRecord`, `DeleteRecord`
and `EndContext` (the close of the handle, or the end of the transaction, under the
iterator). `EndContext` may also come in the middle of a `GetNext`: `DeleteIndex` by another
thread asks for writers only and closes the `Db` under a reader. A step is one cursor call.
`returned` and `owed` are history variables: what was returned, and what has been in the
index ever since `GetRecords`. A cursor whose `Dbc::close` has thrown is `"broken"`:
`SetEnded` leaves it in `cursor_`, and its next use is the fault `cursor_broken`.

In `Records` `UpdateRecord` is one step, as its cursor runs in a serializable nested
transaction (flags 0, `Index.cc:264`). The cursor of `DeleteRecord` is read committed
(`Index.cc:368`): a deletion with `kMatchDuplicates` is a step for its first record
(`DeleteFirst`), one for each further record (`DeleteNext`), and one for its end
(`EndDelete`), with those of other calls in between. A `Dbc::get` with the `del` of the
record it found is one step, since even a read committed cursor keeps the lock of the record
it stands on. `deletion` and `taken` are the call a thread is in and what it has deleted and
not committed; the write locks of these keep others off (`Unlocked`). `owed` is a history
variable: what has matched ever since the first record was found. A call that throws half
way has its part of the records affected (answer `failed`), as the caller may commit all the
same. `call` records the arguments of the last call for the comparison with `RecordStore`,
whose constant `Exact` separates the full promise from its weaker half.

### Driver

`phase` and `at` are the loop of `main` and its variable; a step of `main` is one
iteration. `populator`, `inserted` and `initKeys` belong to the population
threads. Of a benchmark thread, `keystore`, `keypos`, `halt`, `incv` and `ops` are the
members of `ThreadInfo`; `idx`, `tx` and `it` are its `Index*`, `Transaction*` and
`Iterator*`; `pc`, `op` and `left` where it is. A step is one call of the library with
what the driver does to its answer:

| Label | Next comes |
|---|---|
| `open` | `OpenIndex` |
| `loop` | the test of `halt`, then an operation and its `BeginTransaction` |
| `records`, `next`, `close` | `GetRecords`, `GetNext`, `CloseIterator` of a range or point query |
| `modify` | `UpdateRecord`, `InsertRecord` or `DeleteRecord` |
| `commit` | `CommitTransaction`, after which the variables go out of scope |

A pointer is `"unset"` before a call has written it. A key is the number of the index it was
inserted into, or `Garbage` if the slot was never written. Any call may answer an error, or
throw a `DbDeadlockException` or another `DbException`, at any time: what Berkeley DB
answers to a transaction that a deadlock has hit and that is used again is left open. Three
exceptions end in undefined behaviour or in nobody's hands inside the library, whatever it
was passed (`LibraryFaults`): `GetRecords` closes the uninitialised `*it` (`wild_cleanup`),
`CommitTransaction` aborts the `DbTxn` it has freed (`freed_txn`), and `CloseIterator` has
no `try` (`uncaught`). The `DriverFaults` are calls with a pointer the driver never got;
`misled` remembers the threads whose `OpenIndex` or a `BeginTransaction` has failed.

### ArgumentParser

`arguments` maps each name to an `Argument`, by number; `nargs`, `isSet` and `values` are its
members. `pos` is how far `parse_args` has read, `current` and `left` are the option
that still wants values and how many. A step is one `add_argument`, or one word. A value is the
position of its word, so that equal words are told apart. The properties compare the
reader with a definition that does not read: a line is a `Sentence` when some
set of positions cuts it into options with all of their values.

### Faults

Undefined behaviour and failed assertions set `fault`, and the behaviour stops there:
nothing is promised beyond. Properties are about what happens before it, except those that
are about a fault (`KeycmpFindsStructure`, `ClosedWithHandle`, `KeepsItsPointers`).
`kErrorDeadlock` and `kErrorGenericFailure` are both "failed" in `RangeScan` and "failure"
in `IndexLifecycle`; `WriteGate` has no answers.

## 3. Runs

| Run | Bounds | Shows |
|---|---|---|
| `gate_safety` | 2 threads, 1 index, 4 addresses of transactions, symmetry, `Quarantine` | `TypeOK`, `GateProtects`, `NoUnresolvedWrites`, `OnlyHoldersRefuse`, `NoCircularWait`, `KeycmpFindsStructure`, and that `WriteGate` implements `IndexContract` (`KeepsContract`) |
| `gate_liveness` | 2 threads, 1 index, 2 addresses | `CallsAdvance`, `CallsReturn` |
| `lifecycle_safety` | 2 threads, 2 names, 2 structures, 2 handles, symmetry, any interleaving, `Db::open`, `Db::close` and `dbremove` may throw | `TypeOK`, `CatalogSound`, `NameKnownOrFree`, `OpenHandlesRegistered`, `OnlyLiveHandles`, `NeverReplaced`, `CallsAdvance` |
| `lifecycle_liveness` | 2 threads, 1 name, 1 structure, 2 handles, the same exceptions | `CallsReturn` |
| `scan` | 2 columns of 2 values, the second a varchar, 25 ranges, 3 insertions | `TypeOK`, `Complete`, `Bounded`, `Ascending`, `OnlyForward`, `GetNextReturns` |
| `records` | 2 keys, 2 payloads, 3 insertions, all four sets of flags, 2 threads that delete with `kMatchDuplicates`, symmetry | `TypeOK`, `MissesNothing`, `OthersUntouched` |
| `arguments` | 4 words (both names of help, an option, a word that is none), 2 options of up to 2 values, lines of up to 4 words | `TypeOK`, `AcceptsSentences`, `ValuesInOrder`, `SetOptionsHaveValues`, `NoHelpAsked` |
| `driver` | 2 indexes, 2 benchmark threads, 2 slots of which 1 is populated, 2 rounds | `TypeOK`, `KeepsItsPointers`, `OwnKeys`, `ScoreIsFinal`, `Ends` |
| `aba`, `orphan`, `other_records`, `dangling` | small | a disagreement with the interface or a comment, below |

Why the bounds are enough to be interesting. Two threads give every pair of a writer and a
deleter, and of two writers; each thread has at most a transaction and a nested one, so four
addresses serve both threads at once and, when they are not all in use, leave room for
orphans. One index is enough for the gate, whose indexes share only the manager's mutex and
the transactions; the contract is proved for any number. Two names are enough for structures
to be confused, two structures and handles for each address to be reused, and for an
exception to hit one of two indexes while the other is in use. `CallsReturn` of the
lifecycle is about one manager and the loop over its handles, for which one name with two
handles is enough; the safety half, `CallsAdvance`, is checked with two and proved for any
number. Three records give a scan a record before, at and behind the cursor; in `records`
two duplicates with a follower of another key, and two deletions that meet among three
duplicates. Two columns give the two cases of `CheckBounds`. Two options can take names from
each other and, with the help option, make three; four words are an option with two values
and another option. `driver` has a second index so that keys can be confused, a slot the
population does not reach, and two rounds so that an operation goes on after a failure and
`keypos` wraps around; a thread that has counted `MaxOps` operations starts no more, but
waits for its `halt`, so what `Ends` needs from `halt` is not hidden by it. A longer life of
the system would repeat these situations: none of the counters is compared with anything but
the others.

Every property has a mutant of the model that violates it (`PROJECT.json`);
the operators marked "Mutant:" in the modules are these. No action uses them, but for
`SomeHandleClosed`, which also says when `CloseHandles` has erased an element.

### Fairness

`WriteGate`: weak fairness of the steps of a thread inside a call: a runnable thread is
scheduled. Strong fairness of `CloseHandle`, because the mutex of a handle is released and
taken again by a thread that goes on updating, and a `DeleteIndex` waiting for it must get
it some time; pthread mutexes do not promise this, schedulers in practice deliver it.
`IndexLifecycle`: strong fairness of the steps, for the same reason with the manager's
mutex. No thread has to make a call. `RangeScan` (`FairSpec`): weak fairness of the cursor
calls of a running `GetNext`, none of which has to fail. `MaxStamp` bounds the insertions,
and `GetNextReturns` needs that: a `GetNext` that skips records returns as long as not ever
more of them are inserted ahead of it. `Driver`: every thread is scheduled and every call of
the library returns, which `CallsReturn` and `GetNextReturns` say of the library; the
fairness of `main` is that of its `Loops` alone, so that no failing pthread call has to end
the program.

### Disagreements found

* `aba` (`BDBImpl.cc:105`): `commit` frees the `DbTxn` before its address is erased
  from every `transactions_`. A transaction that begins in between at the same
  address loses its registration, and `DeleteIndex` succeeds under it. Hence the
  premise `NoEarlyReuse` of the proofs: `Quarantine`, or a single thread.
* `orphan` (`Index.cc:258`): after a deadlock inside an autocommit `UpdateRecord` or
  `DeleteRecord` the transaction it began stays unresolved.
* `other_records` (`Index.cc:300`): `kMatchDuplicates` with `kIgnorePayload` affects
  every later record of the index, without it every later duplicate of the key.
* `dangling` (`Index.cc:191`): closing a handle or ending a transaction leaves its iterators
  with a freed cursor.

Others are in the models without a run of their own.

* `OpenIndex` registers the handle before it clears `closed_` (`Index.cc:122`); a
  `DeleteIndex` in between frees the structure, and `OpenIndex` answers `kOk`. An
  `OpenIndex` whose `Db::open` throws, and a `CloseIndex` whose `Db::close` throws, leave a
  freed handle in `handles_`. `CloseIndex` and `DeleteIndex` of an index at once may use a
  freed handle (fault `handle_freed`).
* A `DeleteIndex` whose `Db::close` throws leaves `indices_` with a freed structure
  (`Index.cc:522`), to which the next `Find`, `CloseTransaction` or `DeleteIndex` goes
  (fault `structure_freed`).
* `DeleteRecord` says "Create a serializable nested transaction (to prevent the transaction
  from seeing data that has been inserted after the transaction begun)" (`Index.cc:360`) and
  opens a read committed cursor in it (`Index.cc:368`): with `kMatchDuplicates` it takes
  matches inserted meanwhile ahead of its cursor, and leaves those that an update makes
  behind it.
* `op_count_` is never incremented, so a handle can be closed under an autocommit insert
  (fault `db_closed`), and by `DeleteIndex` under a `GetNext` of another thread.
* A transaction whose `commit` throws, or a nested one whose operation throws, stays in
  `transactions_`, and the index cannot be deleted any more: hence the premise
  `~thrown` of `OnlyHoldersRefuse`.
* When `dbremove` fails the name is lost, neither known nor free; between the two steps of
  `CreateIndex` one call says that the index exists and another that it does not.
* A wildcard in a varchar of the minimum hides records (`Index.cc:59`): `Complete` promises
  the records from the converted minimum on only, and `LeastHiddenAlways` proves that the
  least key of the range is never among them if the 127s are above the least string. A
  record below the minimum in a later attribute is returned (`Bounded` compares with the
  minimum in the order of the B-tree only). `GetNext` after the end goes through `NULL`
  (fault `null_cursor`).
* A `commit` that throws something else than a deadlock is followed by `AbortTransaction` of
  the freed `DbTxn` (`BDBImpl.cc:112`, fault `freed_txn`); when the constructor of
  `Iterator` throws, `GetRecords` closes what `*it` was before (`BDBImpl.cc:370`, fault
  `wild_cleanup`); nobody catches what `CloseIterator` throws (fault `uncaught`). A deadlock
  is enough for the first two: `GetRecords` catches it in this way, and a transaction it has
  hit and the driver goes on with may make `commit` throw something else.
* The driver ignores the answers of `OpenIndex`, `BeginTransaction`, `CommitTransaction`
  and, in a range query, of `GetRecords`: when one of the first two has failed it uses an
  uninitialised pointer (faults `wild_txn`, `wild_iterator`). `KeepsItsPointers` says that
  no other answer, `kErrorDeadlock` included, and no exception leads there; but the rest of
  an operation after a deadlock runs in a transaction that should have been aborted.
* `get_value` promises "NULL (if not existent)" (`argument_parser.cc:197`) and goes past the
  end of `values_` for an option that was not given (`Wild`), and for one that the words ran
  out for, which `is_set` says is set; the usage in `argument_parser.h:52-62` does not look
  at what `parse_args` returned; `default_value_`, `choices_` and `required_` are never
  enforced; `-h` and `--help` are taken over from a program that has given one of them to an
  option of its own; the test before `prog(argv[0])` is inverted.

## 4. Proofs

TLAPS checks these for every value of the constants that meets the `ASSUME`s of the
modules. The assumptions say that `NULL` is not an address
(`NoneAssumption`), that objects of different types have different addresses
(`AddressAssumption`), and which values the parameters range over; TLC evaluates them on every run.

* **WriteGate.** `TypeCorrect` and `KeycmpFindsStructureAlways` hold whatever the allocator
  does. `GateProtectsAlways`, `NoUnresolvedWritesAlways`, `NoCircularWaitAlways`,
  `OnlyHoldersRefuseAlways` and `ContractKept` hold under `NoEarlyReuse`: with `Quarantine`,
  or, with any allocator, for a program of one thread, where no `txn_begin` comes between a
  `commit` and the erasure; `aba` shows that two threads need it. `FreshAddress` is what it
  gives: a new transaction has an address that no pointer has. Nothing is assumed of stale
  entries in `transactions_`, which are allowed to hold the new address already. Part of the
  inductive invariant (`Inductive`) is `IInv`. It says, beside the types: the index a thread
  is deleting is read-only and still there (`Deleting`); handles close and structures go on
  read-only indexes only (`ReadOnlyFirst`); nobody is registered with a read-only index
  (`ReadOnlyUnused`); an operation past the gate is registered (`InsideRegistered`); no two
  pointers to a transaction are equal (`DistinctPointers`); a transaction is resolved before
  it is deregistered (`ResolvedFirst`); an unresolved one is registered wherever it has
  written (`WritersRegistered`); and when a nested one commits the one around it is
  registered (`CallerRegistered`). None of the properties is inductive alone:
  `NoUnresolvedWrites` needs that writers are registered and that nobody else's
  deregistration hits them, which is what `DistinctPointers` and `FreshAddress` are for. For
  the refinement, `RInv` adds that a caller's transaction is top level and that a nested one
  is nested in it, so that the root of a transaction does not change under the mapping; each
  step is then `Modify`, `Settle`, `Drop` or a stutter. `OnlyHoldersRefuseAlways` has its
  own strengthening `HeldInv`: until something throws, every entry of `transactions_` is a
  caller's transaction or that of a call past its gate, and then of the index this call
  works on (`Held`). `NoCircularWait` speaks of chains of threads, not of two: a thread may
  wait for the manager, its owner for a handle, and the thread that has this handle for
  nobody, since it has yet to come to the gate, where it will be refused.
  `CallsAdvanceAlways` holds whatever the allocator does.
* **IndexLifecycle.** All safety properties of its run, with every combination of `Throws`
  and no premise; what they say depends on the history variables `wrecked`, `failed` and
  `apart`. `Inv` adds to the types and `CatalogSound` that between the two steps of a
  creation or a deletion the name belongs to one thread (`Halfway`), and that the index a
  thread is deleting is still known and not wrecked (`Deleting`). Without `Halfway` two
  creations could both enter a structure. `OpenHandlesRegisteredAlways` has the invariant
  `OInv`: as long as the calls are kept apart (`KeptApart`), it adds who owns a handle and
  who is still opening it, that the handle the loop of `CloseHandles` has just left is
  closed (`CurrentClosed`), and that the loop still visits every open handle (`VisitsAll`),
  which is where the erased element could be lost. `OnlyLiveHandlesAlways` has `HInv`, which
  adds that `handles_` of a live structure has nothing stale but the handle being closed and
  those in `failed` (`NothingStale`), and that the loop visits no other (`Visits`). Neither
  could be proved of a name in `wrecked`, nor are they true of it. `CallsAdvanceAlways`:
  what the loop of `CloseHandles` may still find are the handles in `handles_` and those of
  threads that have the structure already, and no thread gets it from `Find` while the loop
  has the manager.
* **Keys.** `keycmp` is irreflexive, transitive and total (`LessIrreflexive`,
  `LessTransitive`, `LessTotal`), as a B-tree needs it, and so is the order of records with
  their stamps (`PrecedesTotal`); every nonempty finite set of records has a first
  (`FirstRecord`), by well-founded induction over its subsets. The first attribute ascends;
  without a varchar wildcard the converted minimum is not above any key of the range
  (`MinimumBelowRange`), with one it is above the least key (`WildcardSkipsLeast`).
* **RangeScan.** `CompleteAlways`, `BoundedAlways`, `AscendingAlways`, for every number of
  columns and every range. `IInv` says that what is owed and promised is returned or ahead
  of the cursor, and that what is returned is behind it; the end of the scan at the first
  attribute above the maximum is justified by the order of the keys. Of `GetNextReturns` the
  part that is safety is proved: a `GetNext` that goes on leaves the refused record behind
  (`OnlyForwardAlways`), the number of records ahead decreases in each of its steps that
  nobody disturbs (`MeasureDecreases`), and while there are any, exactly one of them is the
  next (`CursorFindsNextAlways`, from `FirstRecord` and from `Stamped`: finitely many rows,
  each with a stamp of its own). `LeastHiddenAlways` is the negative half of `Complete`.
* **Records.** `GuaranteeKept`: every modification is one of the weak `RecordStore`. For
  those in one step, the first candidate matches, or nothing does, and all matching records
  are at or behind it. For a deletion under way the invariant `IInv` says that its first
  record matched (`Inside`) and that what it still owes is taken or ahead of the cursor
  (`OwedAhead`), whatever others insert, update and delete between its calls; so nothing is
  owed that the end of the loop has not taken. `PromiseKept`: it implements the exact
  `RecordStore` if nobody uses `kMatchDuplicates` (`OneAtATime`). `OthersUntouchedAlways`
  bounds what `kMatchDuplicates` does beyond the promise (disagreement `other_records`):
  nothing below its key, and nothing of another key when the payload has to match, failed
  calls included. `AnsweredAlways`: with any arguments there is exactly one record to start
  at, or none and then `kErrorNotFound`.
* **ArgumentParser.** All properties of its run, for all words and bounds. The invariant
  `IInv` describes the part read so far: its options are a sentence of their own, but for
  the values the last one still wants. `Forced`, a part of it, says that every cut of the
  whole line begins with what was read, so that what holds for this cut holds for every cut.
  `SetOptionsAreRead` has no premise about the result of `parse_args`: the invariant
  `ShortAtEnd` says that values are wanting only when the line is at its end and an error is
  reported.
* **Driver.** `TypeCorrect`, `PointersKept`, `KeysAreOwn` and `ScoreCorrect`, for any number
  of threads, indexes, slots and records. `Survives` relates the pointers of the threads
  that are not misled to their place in the operation, whatever its calls answered, and
  shows that a thread with a pointer it never got is misled; `KeysFollow` says what each
  keystore holds in each phase of `main`: the copies are of keystores whose population
  thread has been joined and that have not yet been freed. `Summing` says that `score` is
  the sum of the threads that `main` has joined, none of which counts any more; a sum is
  stated by its partial sums (`IsSum`), so that adding the next thread extends them and no
  induction over the threads is needed.

Only model-checked: `CallsReturn`, `GetNextReturns` and `Ends`, since fairness and `ENABLED`
are beyond the proof system. Their parts that are safety are proved: no step sets a call back
(`CallsAdvance` of both modules, `MeasureDecreases`), and waiting ends (`NoCircularWait`).

## 5. Not modelled, and abstractions

* The bytes of keys and payloads, and the sizes that `Compatible` does not check.
* Berkeley DB's locks: a call may throw a deadlock at any time, which covers
  whatever the locks do except a wait that its detector cannot see.
* Handles shared by threads: `OpenIndex` gives one "to be used by the current thread".
* The uncommitted changes of other transactions, and rollback, in `RangeScan` and `Records`:
  rows appear and disappear one at a time.
* The error codes of `put` and `del` inside a modification that returns instead of throwing.
* Of the driver: the random choice of keys, slots and payloads (and a slot past the
  end that rounding could choose), the timers, the statistics; a `threadcount` of 0.
* Of the parser: help and usage texts, program names, the conversions of `Value`.
* `ConnectionManager`, the tests and the stubs.

## 6. Plan

1. Transactions over records: rollback of a caller's transaction and of a nested one, composed with
   `Records` and a scan.
2. Handles shared by threads, with the locks of Berkeley DB: deadlocks that its
   detector cannot see.
3. Proofs: the safety part of `Ends`.
