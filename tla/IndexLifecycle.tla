---------------------------- MODULE IndexLifecycle ----------------------------
(***************************************************************************)
(* The life of indexes, their structures and their handles.                *)
(*                                                                         *)
(* CreateIndex creates the Berkeley DB database and then enters a new      *)
(* IndexStructure into IndexManager::indices_; DeleteIndex erases the      *)
(* structure, closing its handles, and then removes the database.          *)
(* OpenIndex makes an Index that points to the structure and is registered *)
(* in its handles_; CloseIndex deletes it.  The calls of several threads   *)
(* interleave; a step is one critical section, one Berkeley DB call, or    *)
(* the code between two of them.  Here no transaction writes to an index:  *)
(* MakeReadOnly always succeeds (WriteGate is about that).                 *)
(*                                                                         *)
(* A behaviour is cut at the first undefined behaviour ("fault").  An       *)
(* address that indices_ or a caller still has is not given out again: what *)
(* is done through such a pointer is undefined, whatever lies there by then. *)
(* The addresses in handles_, which are compared too, are given out again.  *)
(***************************************************************************)
EXTENDS Naturals, FiniteSets

CONSTANTS Threads,     \* the application threads
          Names,       \* the names of indexes
          Structures,  \* the addresses of IndexStructure objects
          Handles,     \* the addresses of Index objects
          None,        \* NULL
          Calls,       \* the calls the threads make
          Throws       \* the Berkeley DB calls that may throw at any time

ASSUME NoneAssumption == None \notin Threads \cup Structures \cup Handles
ASSUME AddressAssumption == Structures \cap Handles = {}
ASSUME CallsAssumption ==
  /\ Calls \subseteq {"create", "open", "close", "delete"}
  /\ Throws \subseteq {"open", "close", "remove"}

VARIABLES
  databases,  \* Berkeley DB: the names of the databases
  catalog,    \* IndexManager::indices_: the structure of each name, or None
  imMutex,    \* owner of IndexManager::mutex_ between two steps
  allocated,  \* the addresses of live objects
  handles,    \* IndexStructure::handles_ of each structure
  todo,       \* the handles CloseHandles has still to visit
  current,    \* the handle it is closing
  structure,  \* Index::structure_ of each handle
  open,       \* the handles with closed_ = false
  mine,       \* the Index* of each thread, or None
  pc,         \* where a thread is
  name,       \* the name its running (or last) call is about
  answer,     \* the code its last call returned, none while it is in a call
  fault,      \* the first undefined behaviour
  wrecked,    \* history: the names whose DeleteIndex an exception has ended
  failed,     \* history: the handles that were freed after Db::open or Db::close threw
  apart       \* history: the callers have kept OpenIndex and DeleteIndex of the same
              \* index apart up to now

heapVars == <<allocated, handles, structure, open>>
loopVars == <<todo, current>>
history  == <<wrecked, failed, apart>>
vars     == <<databases, catalog, imMutex, heapVars, loopVars, mine, pc, name,
              answer, fault, history>>

Labels  == {"idle", "insert", "find", "register", "open", "unregister",
            "closing", "closed", "dbremove"}
Answers == {"none", "ok", "exists", "unknown", "failure"}
Faults  == {"none", "structure_freed", "handle_freed", "iterator_invalid"}

Init ==
  /\ databases = {}
  /\ catalog = [n \in Names |-> None]
  /\ imMutex = None
  /\ allocated = {}
  /\ handles = [s \in Structures |-> {}]
  /\ todo = {} /\ current = None
  /\ structure = [h \in Handles |-> None]
  /\ open = {}
  /\ mine = [t \in Threads |-> None]
  /\ pc = [t \in Threads |-> "idle"]
  /\ name \in [Threads -> Names]
  /\ answer = [t \in Threads |-> "none"]
  /\ fault = "none"
  /\ wrecked = {} /\ failed = {} /\ apart = TRUE

-----------------------------------------------------------------------------
(* Helpers.                                                                *)

\* A thread is in the call of n.
Running(t, n, call) ==
  /\ name[t] = n
  /\ pc[t] \in CASE call = "open"   -> {"find", "register", "open"}
                 [] call = "delete" -> {"closing", "closed", "dbremove"}

\* A thread enters a call about n.
Enter(t, n, call) ==
  /\ pc[t] = "idle"
  /\ call \in Calls
  /\ apart' = (apart /\ \A u \in Threads : /\ call = "open"   => ~Running(u, n, "delete")
                                           /\ call = "delete" => ~Running(u, n, "open"))
  /\ name' = [name EXCEPT ![t] = n]

Goto(t, label) ==
  /\ pc' = [pc EXCEPT ![t] = label]
  /\ answer' = [answer EXCEPT ![t] = "none"]

\* CloseHandles is going through the handles of s.
Visiting(s) == \E t \in Threads : pc[t] \in {"closing", "closed"} /\ catalog[name[t]] = s

Return(t, code) ==
  /\ pc' = [pc EXCEPT ![t] = "idle"]
  /\ answer' = [answer EXCEPT ![t] = code]

\* Mutant: the manager stays locked.
KeepManager == UNCHANGED imMutex

UnlockManager == imMutex' = None

\* Mutant: the entry of a destroyed structure stays.
EntryKept(n) == catalog

\* indices_ without the entry of n.
EntryErased(n) == [catalog EXCEPT ![n] = None]

\* Mutant: the handle stays in handles_.
HandleKept(s, h) == handles

\* handles_ after unregister_handle.
HandleErased(s, h) == [handles EXCEPT ![s] = @ \ {h}]

\* Mutant: CloseHandles stops before the last handle.
LastLeft == Cardinality(todo) <= 1

\* CloseHandles has reached the end of handles_.
AllVisited == todo = {}

-----------------------------------------------------------------------------
(* CreateIndex.                                                            *)

\* Mutant: the database is opened without DB_EXCL.
CreateShared(t, n) ==
  /\ Enter(t, n, "create")
  /\ databases' = databases \cup {n}
  /\ Goto(t, "insert")
  /\ UNCHANGED <<catalog, imMutex, heapVars, loopVars, mine, fault, wrecked, failed>>

\* Db::open with DB_CREATE and DB_EXCL.
CreateDatabase(t, n) ==
  /\ Enter(t, n, "create")
  /\ databases' = databases \cup {n}
  /\ IF n \in databases THEN Return(t, "exists") ELSE Goto(t, "insert")
  /\ UNCHANGED <<catalog, imMutex, heapVars, loopVars, mine, fault, wrecked, failed>>

\* IndexManager::Insert of a new IndexStructure.
InsertStructure(t) ==
  /\ pc[t] = "insert"
  /\ imMutex = None
  /\ \E s \in Structures \ allocated :
       /\ \A n \in Names : catalog[n] # s
       /\ allocated' = allocated \cup {s}
       /\ handles' = [handles EXCEPT ![s] = {}]
       /\ catalog' = [catalog EXCEPT ![name[t]] = s]
  /\ Return(t, "ok")
  /\ UNCHANGED <<databases, imMutex, structure, open, loopVars, mine, name, fault, history>>

-----------------------------------------------------------------------------
(* OpenIndex.                                                              *)

\* The Index object, closed.  A thread has one at a time; it may forget one that
\* CloseIndex has left it freed.
NewHandle(t, n) ==
  /\ mine[t] \notin allocated
  /\ Enter(t, n, "open")
  /\ \E h \in Handles \ allocated :
       /\ \A u \in Threads \ {t} : mine[u] # h
       /\ allocated' = allocated \cup {h}
       /\ structure' = [structure EXCEPT ![h] = None]
       /\ mine' = [mine EXCEPT ![t] = h]
  /\ Goto(t, "find")
  /\ UNCHANGED <<databases, catalog, imMutex, handles, open, loopVars, fault, wrecked, failed>>

\* IndexManager::Find.  When the index is unknown the caller keeps the Index.
FindStructure(t) ==
  /\ pc[t] = "find"
  /\ imMutex = None
  /\ structure' = [structure EXCEPT ![mine[t]] = catalog[name[t]]]
  /\ IF catalog[name[t]] = None THEN Return(t, "unknown") ELSE Goto(t, "register")
  /\ UNCHANGED <<databases, catalog, imMutex, allocated, handles, open, loopVars,
                 mine, name, fault, history>>

\* register_handle.  CloseHandles, which takes no lock, may still come to it.
RegisterHandle(t) ==
  /\ pc[t] = "register"
  /\ structure[mine[t]] \in allocated
  /\ handles' = [handles EXCEPT ![structure[mine[t]]] = @ \cup {mine[t]}]
  /\ \/ UNCHANGED todo
     \/ Visiting(structure[mine[t]]) /\ todo' = todo \cup {mine[t]}
  /\ Goto(t, "open")
  /\ UNCHANGED <<databases, catalog, imMutex, allocated, structure, open, current,
                 mine, name, fault, history>>

\* Db::open, and the handle is open.  When it throws the Index is deleted: as it
\* is still closed its destructor leaves it in handles_.
OpenDatabase(t) ==
  /\ pc[t] = "open"
  /\ \/ /\ name[t] \in databases
        /\ open' = open \cup {mine[t]}
        /\ Return(t, "ok")
        /\ UNCHANGED <<allocated, mine, failed>>
     \/ /\ name[t] \notin databases \/ "open" \in Throws
        /\ allocated' = allocated \ {mine[t]}
        /\ failed' = failed \cup {mine[t]}
        /\ mine' = [mine EXCEPT ![t] = None]
        /\ Return(t, IF name[t] \in databases THEN "failure" ELSE "unknown")
        /\ UNCHANGED open
  /\ UNCHANGED <<databases, catalog, imMutex, handles, structure, loopVars, name, fault,
                 wrecked, apart>>

-----------------------------------------------------------------------------
(* CloseIndex.                                                             *)

\* Index::Close, as the destructor calls it, sets closed_; a handle that is
\* closed already is only freed.
CloseIndex(t) ==
  /\ mine[t] \in allocated
  /\ Enter(t, name[t], "close")
  /\ IF mine[t] \in open
     THEN /\ open' = open \ {mine[t]}
          /\ Goto(t, "unregister")
          /\ UNCHANGED <<allocated, mine>>
     ELSE /\ allocated' = allocated \ {mine[t]}
          /\ mine' = [mine EXCEPT ![t] = None]
          /\ Return(t, "unknown")
          /\ UNCHANGED open
  /\ UNCHANGED <<databases, catalog, imMutex, handles, structure, loopVars, fault, wrecked, failed>>

\* Db::close and unregister_handle; the Index is freed.
UnregisterMine(t) ==
  /\ pc[t] = "unregister"
  /\ structure[mine[t]] \in allocated
  /\ handles' = HandleErased(structure[mine[t]], mine[t])
  /\ todo' = IF Visiting(structure[mine[t]]) THEN todo \ {mine[t]} ELSE todo
  /\ allocated' = allocated \ {mine[t]}
  /\ mine' = [mine EXCEPT ![t] = None]
  /\ Return(t, "ok")
  /\ UNCHANGED <<databases, catalog, imMutex, structure, open, current, name, fault, history>>

\* Db::close throws: the Index is freed, but its structure keeps it in handles_, and
\* unless the error is EINVAL the caller keeps it too.
CloseIndexFails(t) ==
  /\ pc[t] = "unregister" /\ "close" \in Throws
  /\ allocated' = allocated \ {mine[t]}
  /\ failed' = failed \cup {mine[t]}
  /\ \/ mine' = [mine EXCEPT ![t] = None] /\ Return(t, "unknown")
     \/ UNCHANGED mine /\ Return(t, "failure")
  /\ UNCHANGED <<databases, catalog, imMutex, handles, structure, open, loopVars, name,
                 fault, wrecked, apart>>

-----------------------------------------------------------------------------
(* DeleteIndex.                                                            *)

\* IndexManager::Remove locks the manager, finds the structure, makes it
\* read-only and starts to destroy it.
RemoveIndex(t, n) ==
  /\ imMutex = None
  /\ Enter(t, n, "delete")
  /\ catalog[n] \in allocated \cup {None}
  /\ IF catalog[n] = None
     THEN /\ Return(t, "unknown")
          /\ UNCHANGED <<imMutex, todo>>
     ELSE /\ imMutex' = t
          /\ todo' = handles[catalog[n]]
          /\ Goto(t, "closing")
  /\ UNCHANGED <<databases, catalog, heapVars, current, mine, fault, wrecked, failed>>

\* CloseHandles calls Index::Close of the next handle: it sets closed_, or
\* returns when that is set.
CloseHandle(t) ==
  /\ pc[t] = "closing"
  /\ \E h \in todo \cap allocated :
       /\ todo' = todo \ {h}
       /\ IF h \in open THEN open' = open \ {h} /\ current' = h /\ Goto(t, "closed")
                        ELSE UNCHANGED <<open, current, pc, answer>>
  /\ UNCHANGED <<databases, catalog, imMutex, allocated, handles, structure, mine, name, fault, history>>

\* Mutant: CloseHandles starts from the beginning again.
UnregisterAndRestart(t) ==
  /\ pc[t] = "closed"
  /\ current \in allocated /\ structure[current] \in allocated
  /\ handles' = HandleErased(structure[current], current)
  /\ todo' = handles[catalog[name[t]]] \ {current}
  /\ current' = None
  /\ Goto(t, "closing")
  /\ UNCHANGED <<databases, catalog, imMutex, allocated, structure, open, mine, name, fault, history>>

\* Db::close and unregister_handle, which erases the element the iterator of
\* CloseHandles stands on; with luck the iterator still finds the next one.
UnregisterCurrent(t) ==
  /\ pc[t] = "closed"
  /\ current \in allocated /\ structure[current] \in allocated
  /\ handles' = HandleErased(structure[current], current)
  /\ current' = None
  /\ Goto(t, "closing")
  /\ UNCHANGED <<databases, catalog, imMutex, allocated, todo, structure, open, mine, name, fault, history>>

\* Db::close throws: the exception leaves CloseHandles, the destructor of the structure,
\* whose memory is freed all the same, and Remove, which unlocks the manager but has not
\* erased the entry.  The handles that are left stay open; the answer depends on errno.
DeleteIndexFails(t) ==
  /\ pc[t] = "closed" /\ "close" \in Throws
  /\ current \in allocated
  /\ allocated' = allocated \ {catalog[name[t]]}
  /\ wrecked' = wrecked \cup {name[t]}
  /\ imMutex' = None
  /\ todo' = {} /\ current' = None
  /\ \E code \in {"unknown", "failure"} : Return(t, code)
  /\ UNCHANGED <<databases, catalog, handles, structure, open, mine, name, fault, failed,
                 apart>>

\* The structure is freed, its entry erased, the manager unlocked.
DestroyStructure(t) ==
  /\ pc[t] = "closing" /\ AllVisited
  /\ allocated' = allocated \ {catalog[name[t]]}
  /\ catalog' = EntryErased(name[t])
  /\ UnlockManager
  /\ Goto(t, "dbremove")
  /\ UNCHANGED <<databases, handles, structure, open, loopVars, mine, name, fault, history>>

\* Mutant: the database stays.
KeepDatabase(t) ==
  /\ pc[t] = "dbremove" /\ Return(t, "ok")
  /\ UNCHANGED <<databases, catalog, imMutex, heapVars, loopVars, mine, name, fault, history>>

\* DbEnv::dbremove.  When it throws, the database stays and its structure is gone.
RemoveDatabase(t) ==
  /\ pc[t] = "dbremove"
  /\ \/ databases' = databases \ {name[t]} /\ Return(t, "ok") /\ UNCHANGED wrecked
     \/ /\ "remove" \in Throws
        /\ wrecked' = wrecked \cup {name[t]}
        /\ \E code \in {"unknown", "failure"} : Return(t, code)
        /\ UNCHANGED databases
  /\ UNCHANGED <<catalog, imMutex, heapVars, loopVars, mine, name, fault, failed, apart>>

-----------------------------------------------------------------------------
\* A structure or a handle is used after it has been freed, or the iterator of
\* CloseHandles after its element has been erased.
Crash(t) ==
  /\ \/ /\ pc[t] \in {"register", "unregister"}
        /\ structure[mine[t]] \notin allocated
        /\ fault' = "structure_freed"
     \/ /\ pc[t] = "closing" /\ ~ todo \subseteq allocated
        /\ fault' = "handle_freed"
     \/ /\ pc[t] = "closed" /\ current \notin allocated
        /\ fault' = "handle_freed"
     \/ /\ pc[t] = "closed" /\ current \in allocated /\ structure[current] \notin allocated
        /\ fault' = "structure_freed"
     \/ /\ pc[t] = "closed" /\ current \in allocated
        /\ structure[current] = catalog[name[t]]
        /\ fault' = "iterator_invalid"
  /\ UNCHANGED <<databases, catalog, imMutex, heapVars, loopVars, mine, pc, name, answer,
                 history>>

\* CloseIndex is called again with the pointer that a failure has left behind.
ReuseHandle(t) ==
  /\ mine[t] \in Handles \ allocated
  /\ Enter(t, name[t], "close")
  /\ fault' = "handle_freed"
  /\ UNCHANGED <<databases, catalog, imMutex, heapVars, loopVars, mine, pc, answer, wrecked, failed>>

\* DeleteIndex is called again after a failure has left the entry of a freed structure.
ReuseStructure(t, n) ==
  /\ imMutex = None
  /\ Enter(t, n, "delete")
  /\ catalog[n] \in Structures \ allocated
  /\ fault' = "structure_freed"
  /\ UNCHANGED <<databases, catalog, imMutex, heapVars, loopVars, mine, pc, answer, wrecked, failed>>

Halted == fault # "none" /\ UNCHANGED vars

\* The steps a thread takes on its own once it has entered a call.
Step(t) ==
  \/ InsertStructure(t) \/ FindStructure(t) \/ RegisterHandle(t) \/ OpenDatabase(t)
  \/ UnregisterMine(t) \/ CloseIndexFails(t) \/ CloseHandle(t) \/ UnregisterCurrent(t)
  \/ DeleteIndexFails(t) \/ DestroyStructure(t) \/ RemoveDatabase(t) \/ Crash(t)

Call(t) ==
  \/ CloseIndex(t) \/ ReuseHandle(t)
  \/ \E n \in Names : \/ CreateDatabase(t, n) \/ NewHandle(t, n) \/ RemoveIndex(t, n)
                     \/ ReuseStructure(t, n)

Next ==
  \/ fault = "none" /\ \E t \in Threads : Step(t) \/ Call(t)
  \/ Halted

\* A thread inside a call is scheduled, and gets the mutex of the manager when
\* it is released again and again; no thread has to make a call.
Fairness == \A t \in Threads : SF_vars(fault = "none" /\ Step(t))

Spec     == Init /\ [][Next]_vars
FairSpec == Spec /\ Fairness

-----------------------------------------------------------------------------
(* Properties.                                                             *)

\* Types, and who holds the manager and which handle where.
TypeOK ==
  /\ databases \subseteq Names
  /\ catalog \in [Names -> Structures \cup {None}]
  /\ imMutex \in Threads \cup {None}
  /\ allocated \subseteq Structures \cup Handles
  /\ handles \in [Structures -> SUBSET Handles]
  /\ todo \subseteq Handles /\ current \in Handles \cup {None}
  /\ structure \in [Handles -> Structures \cup {None}]
  /\ open \subseteq Handles
  /\ mine \in [Threads -> Handles \cup {None}]
  /\ pc \in [Threads -> Labels]
  /\ name \in [Threads -> Names]
  /\ answer \in [Threads -> Answers]
  /\ fault \in Faults
  /\ wrecked \subseteq Names /\ failed \subseteq Handles /\ apart \in BOOLEAN
  /\ \A t \in Threads :
       /\ pc[t] \in {"find", "register", "open", "unregister"} => mine[t] # None
       /\ pc[t] \in {"closing", "closed"} <=> imMutex = t

\* indices_ points to a freed structure only at a name whose DeleteIndex an exception (of
\* Db::close) has ended, whatever else happens there and elsewhere; no two names share a
\* structure, and the index of every known name has its database.
CatalogSound ==
  \A n \in Names : catalog[n] # None =>
    /\ n \in databases
    /\ catalog[n] \in allocated \/ n \in wrecked
    /\ \A m \in Names \ {n} : catalog[m] # catalog[n]

\* CreateIndex never replaces (and leaks) the structure of another creation.
NeverReplaced ==
  [][\A n \in Names : catalog[n] # None => catalog'[n] \in {catalog[n], None}]_vars

\* A name is known, or free to be created, or being created or deleted: it does
\* not both "already exist" and "not exist" for good, unless an exception has ended
\* its DeleteIndex.
NameKnownOrFree ==
  \A n \in databases :
    \/ catalog[n] # None \/ n \in wrecked
    \/ \E t \in Threads : pc[t] \in {"insert", "dbremove"} /\ name[t] = n

\* "A set of all open handles of this index structure": a freed Index is in it only
\* when Db::open or Db::close has thrown for it, or its owner deletes it while
\* DeleteIndex is about to unregister it; for callers that keep the two calls apart.
OnlyLiveHandles ==
  apart => \A s \in Structures \cap allocated : handles[s] \ {current} \subseteq allocated \cup failed

\* "Close all open handles of this structure": a handle stays open after its structure
\* is freed only when an exception (of Db::close) has ended the DeleteIndex, and until then
\* DeleteIndex will find it; as long as the callers keep OpenIndex and DeleteIndex of the
\* same index apart.
OpenHandlesRegistered ==
  apart => \A h \in open :
    /\ h \in handles[structure[h]]
    /\ structure[h] \in allocated \/ \E n \in wrecked : catalog[n] = structure[h]

\* How far the labels of a call are from its end.
Distance ==
  [idle |-> 0, insert |-> 1, open |-> 1, register |-> 2, find |-> 3, unregister |-> 1,
   dbremove |-> 1, closing |-> 2, closed |-> 3]

Looping(t)  == pc[t] \in {"closing", "closed"}
Registering == {t \in Threads : pc[t] = "register"}

\* The loop of CloseHandles loses a handle, or a thread that could still register one.
LoopShrinks == \/ Registering' \subseteq Registering /\ Registering' # Registering
               \/ Registering' = Registering /\ todo' \subseteq todo /\ todo' # todo
LoopRests   == Registering' = Registering /\ todo' = todo

\* A call comes nearer to its end, or stays where it is but for handles that the loop
\* loses or, when an OpenIndex registers its own, finds.
Advances(t) ==
  \/ Looping(t) /\ Looping(t)' /\ LoopShrinks
  \/ (Looping(t) /\ Looping(t)' => LoopRests) /\ Distance[pc'[t]] < Distance[pc[t]]
Rests(t) == pc'[t] = pc[t] /\ (Looping(t) => LoopShrinks \/ LoopRests)

\* No call goes round in a circle, whatever other threads do: every step begins a call
\* or brings one nearer to its end.  CloseHandles, above all, ends although handles come
\* and go under it, as an OpenIndex that has to look its structure up waits for it.
CallsAdvance ==
  [][\/ fault' # "none"
     \/ \E t \in Threads : /\ pc[t] = "idle" \/ Advances(t)
                           /\ \A u \in Threads \ {t} : Rests(u)]_vars

\* Every call returns, unless the program has failed.
CallsReturn ==
  \A t \in Threads : pc[t] # "idle" ~> pc[t] = "idle" \/ fault # "none"

====
