------------------------- MODULE IndexLifecycleProofs -------------------------
(***************************************************************************)
(* Proofs about IndexLifecycle, for any number of threads, names,          *)
(* structures and handles: however CreateIndex, OpenIndex, CloseIndex and  *)
(* DeleteIndex interleave, the catalog agrees with Berkeley DB.            *)
(***************************************************************************)
EXTENDS IndexLifecycle, TLAPS

-----------------------------------------------------------------------------
(* Type correctness.                                                       *)

LEMMA TypeOKInit == Init => TypeOK
BY NoneAssumption DEF Init, TypeOK, Labels, Answers, Faults

LEMMA TypeOKStep ==
  ASSUME TypeOK, [Next]_vars
  PROVE  TypeOK'
<1> USE NoneAssumption DEF TypeOK, Labels, Answers, Faults, heapVars, loopVars, history
<1>1. ASSUME NEW t \in Threads, NEW n \in Names, CreateDatabase(t, n)
      PROVE  TypeOK'
  BY <1>1 DEF CreateDatabase, Enter, Goto, Return
<1>2. ASSUME NEW t \in Threads, NEW n \in Names, NewHandle(t, n)
      PROVE  TypeOK'
  BY <1>2 DEF NewHandle, Enter, Goto
<1>3. ASSUME NEW t \in Threads, NEW n \in Names, RemoveIndex(t, n)
      PROVE  TypeOK'
  BY <1>3 DEF RemoveIndex, Enter, Goto, Return
<1>4. ASSUME NEW t \in Threads, CloseIndex(t)
      PROVE  TypeOK'
  BY <1>4 DEF CloseIndex, Enter, Goto, Return
<1>5. ASSUME NEW t \in Threads, InsertStructure(t)
      PROVE  TypeOK'
  BY <1>5 DEF InsertStructure, Return
<1>6. ASSUME NEW t \in Threads, FindStructure(t)
      PROVE  TypeOK'
  BY <1>6 DEF FindStructure, Goto, Return
<1>7. ASSUME NEW t \in Threads, RegisterHandle(t)
      PROVE  TypeOK'
  BY <1>7 DEF RegisterHandle, Goto
<1>8. ASSUME NEW t \in Threads, OpenDatabase(t)
      PROVE  TypeOK'
  BY <1>8 DEF OpenDatabase, Return
<1>9. ASSUME NEW t \in Threads, UnregisterMine(t)
      PROVE  TypeOK'
  BY <1>9 DEF UnregisterMine, HandleErased, Return
<1>10. ASSUME NEW t \in Threads, CloseHandle(t)
      PROVE  TypeOK'
  BY <1>10 DEF CloseHandle, Goto
<1>11. ASSUME NEW t \in Threads, UnregisterCurrent(t)
      PROVE  TypeOK'
  BY <1>11 DEF UnregisterCurrent, HandleErased, Goto
<1>12. ASSUME NEW t \in Threads, DestroyStructure(t)
      PROVE  TypeOK'
  BY <1>12 DEF DestroyStructure, EntryErased, UnlockManager, Goto
<1>13. ASSUME NEW t \in Threads, RemoveDatabase(t)
      PROVE  TypeOK'
  BY <1>13 DEF RemoveDatabase, Return
<1>14. ASSUME NEW t \in Threads, Crash(t)
      PROVE  TypeOK'
  BY <1>14 DEF Crash
<1>15. CASE UNCHANGED vars
  BY <1>15 DEF vars
<1>16. ASSUME NEW t \in Threads, CloseIndexFails(t)
      PROVE  TypeOK'
  BY <1>16 DEF CloseIndexFails, Return

<1>17. ASSUME NEW t \in Threads, DeleteIndexFails(t)
      PROVE  TypeOK'
  BY <1>17 DEF DeleteIndexFails, Return

<1>18. ASSUME NEW t \in Threads, ReuseHandle(t)
      PROVE  TypeOK'
  BY <1>18 DEF ReuseHandle, Enter

<1>19. ASSUME NEW t \in Threads, NEW n \in Names, ReuseStructure(t, n)
      PROVE  TypeOK'
  BY <1>19 DEF ReuseStructure, Enter
<1> QED
  BY <1>1, <1>2, <1>3, <1>4, <1>5, <1>6, <1>7, <1>8, <1>9, <1>10, <1>11,
    <1>12, <1>13, <1>14, <1>15, <1>16,
    <1>17, <1>18, <1>19 DEF Next, Step, Call, Halted

\* The types, the owner of the manager, and the handle a thread has in hand.
THEOREM TypeCorrect == Spec => []TypeOK
<1>1. Init => TypeOK
  BY TypeOKInit
<1>2. TypeOK /\ [Next]_vars => TypeOK'
  BY TypeOKStep
<1> QED
  BY <1>1, <1>2, PTL DEF Spec

-----------------------------------------------------------------------------
(* The inductive invariant.                                                *)

\* Between the creation of a database and the entry of its structure, and
\* between the end of the structure and the removal of the database, the name
\* belongs to one thread.
Pending == {"insert", "dbremove"}

Halfway ==
  \A t \in Threads : pc[t] \in Pending =>
    /\ name[t] \in databases
    /\ catalog[name[t]] = None
    /\ \A u \in Threads \ {t} : pc[u] \in Pending => name[u] # name[t]

\* The index a thread is deleting still has its structure.
Deleting ==
  \A t \in Threads : pc[t] \in {"closing", "closed"} => catalog[name[t]] \in allocated

Inv == TypeOK /\ CatalogSound /\ Halfway /\ Deleting

LEMMA InvInit == Init => Inv
BY TypeOKInit DEF Init, Inv, CatalogSound, Halfway, Deleting, Pending

\* Every step preserves the invariant.
LEMMA InvStep ==
  ASSUME Inv, [Next]_vars
  PROVE  Inv'
<1> SUFFICES ASSUME TypeOK, CatalogSound, Halfway, Deleting, TypeOK'
             PROVE  Inv'
  BY TypeOKStep DEF Inv
<1> USE NoneAssumption, AddressAssumption DEF heapVars, loopVars, history, Pending
<1>1. ASSUME NEW t \in Threads, NEW n \in Names, CreateDatabase(t, n)
      PROVE  Inv'
  <2> USE <1>1 DEF CreateDatabase, Enter, Goto, Return
  <2>1. CatalogSound'
    BY DEF TypeOK, CatalogSound, Halfway, Deleting
  <2>2. Halfway'
    BY DEF TypeOK, CatalogSound, Halfway
  <2>3. Deleting'
    BY DEF TypeOK, Deleting, Halfway
  <2> QED
    BY <2>1, <2>2, <2>3 DEF Inv
<1>2. ASSUME NEW t \in Threads, NEW n \in Names, NewHandle(t, n)
      PROVE  Inv'
  <2> USE <1>2 DEF NewHandle, Enter, Goto
  <2>1. CatalogSound'
    BY DEF TypeOK, CatalogSound, Halfway, Deleting
  <2>2. Halfway'
    BY DEF TypeOK, Halfway
  <2>3. Deleting'
    BY DEF TypeOK, Deleting, Halfway
  <2> QED
    BY <2>1, <2>2, <2>3 DEF Inv
<1>3. ASSUME NEW t \in Threads, NEW n \in Names, RemoveIndex(t, n)
      PROVE  Inv'
  <2> USE <1>3 DEF RemoveIndex, Enter, Goto, Return
  <2>1. CatalogSound'
    BY DEF TypeOK, CatalogSound, Halfway, Deleting
  <2>2. Halfway'
    BY DEF TypeOK, Halfway
  <2>3. Deleting'
    BY DEF TypeOK, Deleting, Halfway
  <2> QED
    BY <2>1, <2>2, <2>3 DEF Inv
<1>4. ASSUME NEW t \in Threads, CloseIndex(t)
      PROVE  Inv'
  <2> USE <1>4 DEF CloseIndex, Enter, Goto, Return
  <2>1. CatalogSound'
    BY DEF TypeOK, CatalogSound, Halfway, Deleting
  <2>2. Halfway'
    BY DEF TypeOK, Halfway
  <2>3. Deleting'
    BY DEF TypeOK, Deleting, Halfway
  <2> QED
    BY <2>1, <2>2, <2>3 DEF Inv
<1>5. ASSUME NEW t \in Threads, InsertStructure(t)
      PROVE  Inv'
  <2> USE <1>5 DEF InsertStructure, Return
  <2>1. CatalogSound'
    BY DEF TypeOK, CatalogSound, Halfway, Deleting
  <2>2. Halfway'
    BY DEF TypeOK, Halfway
  <2>3. Deleting'
    BY DEF TypeOK, Deleting, Halfway
  <2> QED
    BY <2>1, <2>2, <2>3 DEF Inv
<1>6. ASSUME NEW t \in Threads, FindStructure(t)
      PROVE  Inv'
  <2> USE <1>6 DEF FindStructure, Goto, Return
  <2>1. CatalogSound'
    BY DEF TypeOK, CatalogSound, Halfway, Deleting
  <2>2. Halfway'
    BY DEF TypeOK, Halfway
  <2>3. Deleting'
    BY DEF TypeOK, Deleting, Halfway
  <2> QED
    BY <2>1, <2>2, <2>3 DEF Inv
<1>7. ASSUME NEW t \in Threads, RegisterHandle(t)
      PROVE  Inv'
  <2> USE <1>7 DEF RegisterHandle, Goto
  <2>1. CatalogSound'
    BY DEF TypeOK, CatalogSound, Halfway, Deleting
  <2>2. Halfway'
    BY DEF TypeOK, Halfway
  <2>3. Deleting'
    BY DEF TypeOK, Deleting, Halfway
  <2> QED
    BY <2>1, <2>2, <2>3 DEF Inv
<1>8. ASSUME NEW t \in Threads, OpenDatabase(t)
      PROVE  Inv'
  <2> USE <1>8 DEF OpenDatabase, Return
  <2>1. CatalogSound'
    BY DEF TypeOK, CatalogSound, Halfway, Deleting
  <2>2. Halfway'
    BY DEF TypeOK, Halfway
  <2>3. Deleting'
    BY DEF TypeOK, Deleting, Halfway
  <2> QED
    BY <2>1, <2>2, <2>3 DEF Inv
<1>9. ASSUME NEW t \in Threads, UnregisterMine(t)
      PROVE  Inv'
  <2> USE <1>9 DEF UnregisterMine, HandleErased, Return
  <2>1. CatalogSound'
    BY DEF TypeOK, CatalogSound, Halfway, Deleting
  <2>2. Halfway'
    BY DEF TypeOK, Halfway
  <2>3. Deleting'
    BY DEF TypeOK, Deleting, Halfway
  <2> QED
    BY <2>1, <2>2, <2>3 DEF Inv
<1>10. ASSUME NEW t \in Threads, CloseHandle(t)
      PROVE  Inv'
  <2> USE <1>10 DEF CloseHandle, Goto
  <2>1. CatalogSound'
    BY DEF TypeOK, CatalogSound, Halfway, Deleting
  <2>2. Halfway'
    BY DEF TypeOK, Halfway
  <2>3. Deleting'
    BY DEF TypeOK, Deleting, Halfway
  <2> QED
    BY <2>1, <2>2, <2>3 DEF Inv
<1>11. ASSUME NEW t \in Threads, UnregisterCurrent(t)
      PROVE  Inv'
  <2> USE <1>11 DEF UnregisterCurrent, HandleErased, Goto
  <2>1. CatalogSound'
    BY DEF TypeOK, CatalogSound, Halfway, Deleting
  <2>2. Halfway'
    BY DEF TypeOK, Halfway
  <2>3. Deleting'
    BY DEF TypeOK, Deleting, Halfway
  <2> QED
    BY <2>1, <2>2, <2>3 DEF Inv
<1>12. ASSUME NEW t \in Threads, DestroyStructure(t)
      PROVE  Inv'
  <2> USE <1>12 DEF DestroyStructure, EntryErased, UnlockManager, Goto
  <2>1. CatalogSound'
    BY DEF TypeOK, CatalogSound, Halfway, Deleting
  <2>2. Halfway'
    BY DEF TypeOK, CatalogSound, Halfway, Deleting
  <2>3. Deleting'
    BY DEF TypeOK, Deleting, Halfway
  <2> QED
    BY <2>1, <2>2, <2>3 DEF Inv
<1>13. ASSUME NEW t \in Threads, RemoveDatabase(t)
      PROVE  Inv'
  <2> USE <1>13 DEF RemoveDatabase, Return
  <2>1. CatalogSound'
    BY DEF TypeOK, CatalogSound, Halfway, Deleting
  <2>2. Halfway'
    BY DEF TypeOK, Halfway
  <2>3. Deleting'
    BY DEF TypeOK, Deleting, Halfway
  <2> QED
    BY <2>1, <2>2, <2>3 DEF Inv
<1>14. ASSUME NEW t \in Threads, Crash(t)
      PROVE  Inv'
  <2> USE <1>14 DEF Crash
  <2>1. CatalogSound'
    BY DEF TypeOK, CatalogSound, Halfway, Deleting
  <2>2. Halfway'
    BY DEF TypeOK, Halfway
  <2>3. Deleting'
    BY DEF TypeOK, Deleting, Halfway
  <2> QED
    BY <2>1, <2>2, <2>3 DEF Inv
<1>15. CASE UNCHANGED vars
  BY <1>15 DEF vars, Inv, TypeOK, CatalogSound, Halfway, Deleting
<1>16. ASSUME NEW t \in Threads, CloseIndexFails(t)
      PROVE  Inv'
  <2> USE <1>16 DEF CloseIndexFails, Return
  <2>1. CatalogSound'
    BY DEF TypeOK, CatalogSound, Halfway, Deleting
  <2>2. Halfway'
    BY DEF TypeOK, Halfway
  <2>3. Deleting'
    BY DEF TypeOK, Deleting, Halfway
  <2> QED
    BY <2>1, <2>2, <2>3 DEF Inv

<1>17. ASSUME NEW t \in Threads, DeleteIndexFails(t)
      PROVE  Inv'
  <2> USE <1>17 DEF DeleteIndexFails, Return
  <2>1. CatalogSound'
    BY DEF TypeOK, CatalogSound, Halfway, Deleting
  <2>2. Halfway'
    BY DEF TypeOK, Halfway
  <2>3. Deleting'
    BY DEF TypeOK, Deleting, Halfway
  <2> QED
    BY <2>1, <2>2, <2>3 DEF Inv

<1>18. ASSUME NEW t \in Threads, ReuseHandle(t)
      PROVE  Inv'
  <2> USE <1>18 DEF ReuseHandle, Enter
  <2>1. CatalogSound'
    BY DEF TypeOK, CatalogSound, Halfway, Deleting
  <2>2. Halfway'
    BY DEF TypeOK, Halfway
  <2>3. Deleting'
    BY DEF TypeOK, Deleting, Halfway
  <2> QED
    BY <2>1, <2>2, <2>3 DEF Inv

<1>19. ASSUME NEW t \in Threads, NEW n \in Names, ReuseStructure(t, n)
      PROVE  Inv'
  <2> USE <1>19 DEF ReuseStructure, Enter
  <2>1. CatalogSound'
    BY DEF TypeOK, CatalogSound, Halfway, Deleting
  <2>2. Halfway'
    BY DEF TypeOK, Halfway
  <2>3. Deleting'
    BY DEF TypeOK, Deleting, Halfway
  <2> QED
    BY <2>1, <2>2, <2>3 DEF Inv
<1> QED
  BY <1>1, <1>2, <1>3, <1>4, <1>5, <1>6, <1>7, <1>8, <1>9, <1>10, <1>11,
    <1>12, <1>13, <1>14, <1>15, <1>16,
    <1>17, <1>18, <1>19 DEF Next, Step, Call, Halted

THEOREM Inductive == Spec => []Inv
<1>1. Init => Inv
  BY InvInit
<1>2. Inv /\ [Next]_vars => Inv'
  BY InvStep
<1> QED
  BY <1>1, <1>2, PTL DEF Spec

-----------------------------------------------------------------------------
(* What follows from it.                                                   *)

\* Whatever throws, indices_ points to a freed structure only at a name whose DeleteIndex
\* an exception has ended; it holds no shared one, and every known name has its database.
THEOREM CatalogSoundAlways == Spec => []CatalogSound
BY Inductive, PTL DEF Inv

\* Only the one thread whose database creation succeeded enters a structure.
LEMMA NeverReplacedStep ==
  ASSUME Inv, [Next]_vars
  PROVE  \A n \in Names : catalog[n] # None => catalog'[n] \in {catalog[n], None}
<1>1. ASSUME NEW t \in Threads, InsertStructure(t)
      PROVE  \A n \in Names : catalog[n] # None => catalog'[n] = catalog[n]
  BY <1>1 DEF Inv, TypeOK, Halfway, Pending, InsertStructure
<1>2. ASSUME NEW t \in Threads, DestroyStructure(t)
      PROVE  \A n \in Names : catalog'[n] \in {catalog[n], None}
  BY <1>2 DEF Inv, TypeOK, DestroyStructure, EntryErased
<1>3. ASSUME NEW t \in Threads, Step(t) \/ Call(t),
             ~ InsertStructure(t), ~ DestroyStructure(t)
      PROVE  UNCHANGED catalog
  BY <1>3 DEF Step, Call, CreateDatabase, NewHandle, RemoveIndex, CloseIndex,
       FindStructure, RegisterHandle, OpenDatabase, UnregisterMine, CloseIndexFails,
       CloseHandle, UnregisterCurrent, DeleteIndexFails, RemoveDatabase, Crash, ReuseHandle,
       ReuseStructure
<1> QED
  BY <1>1, <1>2, <1>3 DEF Next, Halted, vars

\* CreateIndex never replaces the structure of another creation.
THEOREM NeverReplacedAlways == Spec => NeverReplaced
<1>1. Inv /\ [Next]_vars
        => [\A n \in Names : catalog[n] # None => catalog'[n] \in {catalog[n], None}]_vars
  BY NeverReplacedStep
<1> QED
  BY <1>1, Inductive, PTL DEF Spec, NeverReplaced

\* A name is lost only when an exception ends its deletion.
LEMMA NameKnownOrFreeStep ==
  ASSUME Inv, NameKnownOrFree, [Next]_vars
  PROVE  NameKnownOrFree'
<1> USE DEF Inv, TypeOK, NameKnownOrFree, history
<1>1. ASSUME NEW t \in Threads, NEW n \in Names, CreateDatabase(t, n)
      PROVE  NameKnownOrFree'
  BY <1>1 DEF CreateDatabase, Enter, Goto, Return
<1>2. ASSUME NEW t \in Threads, InsertStructure(t)
      PROVE  NameKnownOrFree'
  BY <1>2, NoneAssumption DEF InsertStructure, Return
<1>3. ASSUME NEW t \in Threads, DestroyStructure(t)
      PROVE  NameKnownOrFree'
  BY <1>3 DEF DestroyStructure, EntryErased, Goto
<1>4. ASSUME NEW t \in Threads, RemoveDatabase(t)
      PROVE  NameKnownOrFree'
  BY <1>4 DEF RemoveDatabase, Return
<1>5. ASSUME NEW t \in Threads,
             \/ CloseIndex(t) \/ FindStructure(t) \/ RegisterHandle(t) \/ OpenDatabase(t)
             \/ UnregisterMine(t) \/ CloseIndexFails(t) \/ CloseHandle(t)
             \/ UnregisterCurrent(t) \/ DeleteIndexFails(t) \/ Crash(t) \/ ReuseHandle(t)
             \/ \E n \in Names : NewHandle(t, n) \/ RemoveIndex(t, n) \/ ReuseStructure(t, n)
      PROVE  NameKnownOrFree'
  <2>1. UNCHANGED <<databases, catalog>> /\ wrecked \subseteq wrecked'
    BY <1>5 DEF CloseIndex, FindStructure, RegisterHandle, OpenDatabase, UnregisterMine,
         CloseIndexFails, CloseHandle, UnregisterCurrent, DeleteIndexFails, Crash, NewHandle,
         RemoveIndex, ReuseHandle, ReuseStructure, history
  <2>2. \A u \in Threads : pc[u] \in Pending => pc'[u] = pc[u] /\ name'[u] = name[u]
    BY <1>5 DEF CloseIndex, FindStructure, RegisterHandle, OpenDatabase, UnregisterMine,
         CloseIndexFails, CloseHandle, UnregisterCurrent, DeleteIndexFails, Crash, NewHandle,
         RemoveIndex, ReuseHandle, ReuseStructure, Enter, Goto, Return, Pending
  <2> QED
    BY <2>1, <2>2 DEF Pending
<1>6. CASE UNCHANGED vars
  BY <1>6 DEF vars, history
<1> QED
  BY <1>1, <1>2, <1>3, <1>4, <1>5, <1>6 DEF Next, Step, Call, Halted

\* No name is lost but by an exception that ends its deletion.
THEOREM NameKnownOrFreeAlways == Spec => []NameKnownOrFree
<1>1. Init => NameKnownOrFree
  BY DEF Init, NameKnownOrFree
<1>2. Inv /\ NameKnownOrFree /\ [Next]_vars => NameKnownOrFree'
  BY NameKnownOrFreeStep
<1> QED
  BY <1>1, <1>2, Inductive, PTL DEF Spec

-----------------------------------------------------------------------------
(* The handles, when the callers keep OpenIndex and DeleteIndex of the same *)
(* index apart.                                                            *)

\* The thread that is deleting an index and has still its structure.
Destroying(t) == pc[t] \in {"closing", "closed"}

\* The callers keep their promise at every step of the two calls.
KeptApart ==
  \A t, u \in Threads :
    pc[t] \in {"find", "register", "open"} /\ pc[u] \in {"closing", "closed", "dbremove"}
      => name[t] # name[u]

\* A thread in a call has an Index of its own, and only such a one is open.
Owners ==
  /\ \A h \in open : h \in allocated /\ structure[h] # None
  /\ \A t \in Threads :
       pc[t] \in {"find", "register", "open", "unregister"} => mine[t] \in allocated
  /\ \A t, u \in Threads : t # u /\ mine[t] # None => mine[t] # mine[u]

\* OpenIndex works on the structure of a known index, and the handle is closed
\* until the end of it.
Opening ==
  \A t \in Threads :
    /\ pc[t] \in {"find", "register", "open", "unregister"} => mine[t] \notin open
    /\ pc[t] \in {"register", "open"} =>
         catalog[name[t]] # None /\ structure[mine[t]] = catalog[name[t]]
    /\ pc[t] = "open" => mine[t] \in handles[catalog[name[t]]]

\* CloseHandles visits every open handle of the structure it destroys,
VisitsAll ==
  \A t \in Threads : Destroying(t) =>
    \A h \in open : structure[h] = catalog[name[t]] => h \in todo

\* and the one it is closing stays closed: whoever owns it, or the next Index at its
\* address, is not past IndexManager::Find.
CurrentClosed ==
  \A t \in Threads : pc[t] = "closed" =>
    /\ current \notin open
    /\ \A u \in Threads : mine[u] = current => pc[u] \notin {"register", "open"}

Kept == /\ KeptApart /\ Owners /\ Opening /\ VisitsAll /\ CurrentClosed
        /\ OpenHandlesRegistered

OInv == Inv /\ (apart => Kept)

LEMMA OInvInit == Init => OInv
  BY InvInit DEF Init, OInv, Kept, KeptApart, Owners, Opening, VisitsAll, CurrentClosed,
     OpenHandlesRegistered, Destroying

\* Callers that have not kept the calls apart never have again.
LEMMA ApartStep ==
  ASSUME [Next]_vars
  PROVE  apart' => apart
<1>1. ASSUME NEW t \in Threads, Step(t)
      PROVE  UNCHANGED apart
  BY <1>1 DEF Step, InsertStructure, FindStructure, RegisterHandle, OpenDatabase,
       UnregisterMine, CloseIndexFails, CloseHandle, UnregisterCurrent, DeleteIndexFails,
       DestroyStructure, RemoveDatabase, Crash, history
<1>2. ASSUME NEW t \in Threads, Call(t)
      PROVE  apart' => apart
  BY <1>2 DEF Call, CloseIndex, ReuseHandle, CreateDatabase, NewHandle, RemoveIndex,
       ReuseStructure, Enter
<1> QED
  BY <1>1, <1>2 DEF Next, Halted, vars, history

\* Every step preserves it.
LEMMA OInvStep ==
  ASSUME OInv, [Next]_vars
  PROVE  OInv'
<1> SUFFICES ASSUME Inv, KeptApart, Owners, Opening, VisitsAll, CurrentClosed,
                    OpenHandlesRegistered, Inv', apart, apart'
             PROVE  Kept'
  BY InvStep, ApartStep DEF OInv, Kept
<1> USE NoneAssumption, AddressAssumption DEF Inv, TypeOK, heapVars, loopVars, history,
      Destroying
<1>1. ASSUME NEW t \in Threads, NEW n \in Names, CreateDatabase(t, n)
      PROVE  Kept'
  <2> USE <1>1 DEF CreateDatabase, Enter, Goto, Return
  <2>1. KeptApart'
    BY DEF KeptApart
  <2>2. Owners'
    BY DEF Owners
  <2>3. Opening'
    BY DEF Opening
  <2>4. CurrentClosed'
    BY DEF CurrentClosed, Opening
  <2>5. VisitsAll'
    BY DEF VisitsAll
  <2>6. OpenHandlesRegistered'
    BY DEF OpenHandlesRegistered
  <2> QED
    BY <2>1, <2>2, <2>3, <2>4, <2>5, <2>6 DEF Kept
<1>2. ASSUME NEW t \in Threads, NEW n \in Names, NewHandle(t, n)
      PROVE  Kept'
  <2> USE <1>2 DEF NewHandle, Enter, Goto
  <2>0. \A u \in Threads : ~ Running(u, n, "delete")
    OBVIOUS
  <2>1. KeptApart'
    BY <2>0 DEF KeptApart, Running
  <2>2. Owners'
    BY DEF Owners
  <2>3. Opening'
    BY DEF Owners, Opening
  <2>4. CurrentClosed'
    BY DEF CurrentClosed, Opening
  <2>5. VisitsAll'
    BY DEF Owners, VisitsAll
  <2>6. OpenHandlesRegistered'
    BY DEF Owners, OpenHandlesRegistered
  <2> QED
    BY <2>1, <2>2, <2>3, <2>4, <2>5, <2>6 DEF Kept
<1>3. ASSUME NEW t \in Threads, NEW n \in Names, RemoveIndex(t, n)
      PROVE  Kept'
  <2> USE <1>3 DEF RemoveIndex, Enter, Goto, Return
  <2>0. \A u \in Threads : ~ Running(u, n, "open")
    OBVIOUS
  <2>1. KeptApart'
    BY <2>0 DEF KeptApart, Running
  <2>2. Owners'
    BY DEF Owners
  <2>3. Opening'
    BY DEF Opening
  <2>4. CurrentClosed'
    BY DEF CurrentClosed, Opening
  <2>5. VisitsAll'
    BY DEF VisitsAll, OpenHandlesRegistered
  <2>6. OpenHandlesRegistered'
    BY DEF OpenHandlesRegistered
  <2> QED
    BY <2>1, <2>2, <2>3, <2>4, <2>5, <2>6 DEF Kept
<1>4. ASSUME NEW t \in Threads, CloseIndex(t)
      PROVE  Kept'
  <2> USE <1>4 DEF CloseIndex, Enter, Goto, Return
  <2>1. KeptApart'
    BY DEF KeptApart
  <2>2. Owners'
    BY DEF Owners
  <2>3. Opening'
    BY DEF Opening
  <2>4. CurrentClosed'
    BY DEF CurrentClosed, Opening
  <2>5. VisitsAll'
    BY DEF VisitsAll
  <2>6. OpenHandlesRegistered'
    BY DEF OpenHandlesRegistered
  <2> QED
    BY <2>1, <2>2, <2>3, <2>4, <2>5, <2>6 DEF Kept
<1>5. ASSUME NEW t \in Threads, InsertStructure(t)
      PROVE  Kept'
  <2> USE <1>5 DEF InsertStructure, Return
  <2>1. KeptApart'
    BY DEF KeptApart
  <2>2. Owners'
    BY DEF Owners
  <2>3. Opening'
    BY DEF Opening, CatalogSound, Halfway, Pending
  <2>4. CurrentClosed'
    BY DEF CurrentClosed, Opening
  <2>5. VisitsAll'
    BY DEF VisitsAll
  <2>6. OpenHandlesRegistered'
    BY DEF Owners, Halfway, Pending, OpenHandlesRegistered
  <2> QED
    BY <2>1, <2>2, <2>3, <2>4, <2>5, <2>6 DEF Kept
<1>6. ASSUME NEW t \in Threads, FindStructure(t)
      PROVE  Kept'
  <2> USE <1>6 DEF FindStructure, Goto, Return
  <2>1. KeptApart'
    BY DEF KeptApart
  <2>2. Owners'
    BY DEF Owners, Opening
  <2>3. Opening'
    BY DEF Owners, Opening
  <2>4. CurrentClosed'
    BY DEF CurrentClosed, Opening
  <2>5. VisitsAll'
    BY DEF VisitsAll
  <2>6. OpenHandlesRegistered'
    BY DEF Opening, OpenHandlesRegistered
  <2> QED
    BY <2>1, <2>2, <2>3, <2>4, <2>5, <2>6 DEF Kept
<1>7. ASSUME NEW t \in Threads, RegisterHandle(t)
      PROVE  Kept'
  <2> USE <1>7 DEF RegisterHandle, Goto
  <2>1. KeptApart'
    BY DEF KeptApart
  <2>2. Owners'
    BY DEF Owners
  <2>3. Opening'
    BY DEF Opening
  <2>4. CurrentClosed'
    BY DEF CurrentClosed, Opening
  <2>5. VisitsAll'
    BY DEF VisitsAll
  <2>6. OpenHandlesRegistered'
    BY DEF OpenHandlesRegistered
  <2> QED
    BY <2>1, <2>2, <2>3, <2>4, <2>5, <2>6 DEF Kept
<1>8. ASSUME NEW t \in Threads, OpenDatabase(t)
      PROVE  Kept'
  <2> USE <1>8 DEF OpenDatabase, Return
  <2>0. /\ mine[t] \in Handles
        /\ \/ open' = open \cup {mine[t]} /\ UNCHANGED <<allocated, mine>>
           \/ /\ allocated' = allocated \ {mine[t]} /\ mine' = [mine EXCEPT ![t] = None]
              /\ UNCHANGED open
    OBVIOUS
  <2>1. KeptApart'
    BY <2>0 DEF KeptApart
  <2>2. Owners'
    BY <2>0 DEF Owners, Opening
  <2>3. Opening'
    BY <2>0 DEF Owners, Opening
  <2>4. CurrentClosed'
    BY DEF CurrentClosed, Opening
  <2>5. VisitsAll'
    BY <2>0 DEF KeptApart, Opening, VisitsAll, CatalogSound
  <2>6. OpenHandlesRegistered'
    BY <2>0 DEF Opening, OpenHandlesRegistered, CatalogSound
  <2> QED
    BY <2>1, <2>2, <2>3, <2>4, <2>5, <2>6 DEF Kept
<1>9. ASSUME NEW t \in Threads, UnregisterMine(t)
      PROVE  Kept'
  <2> USE <1>9 DEF UnregisterMine, HandleErased, Return
  <2>1. KeptApart'
    BY DEF KeptApart
  <2>2. Owners'
    BY DEF Owners, Opening
  <2>3. Opening'
    BY DEF Owners, Opening
  <2>4. CurrentClosed'
    BY DEF CurrentClosed, Opening
  <2>5. VisitsAll'
    BY DEF Opening, VisitsAll
  <2>6. OpenHandlesRegistered'
    BY DEF Opening, OpenHandlesRegistered
  <2> QED
    BY <2>1, <2>2, <2>3, <2>4, <2>5, <2>6 DEF Kept
<1>10. ASSUME NEW t \in Threads, CloseHandle(t)
      PROVE  Kept'
  <2> USE <1>10 DEF CloseHandle, Goto
  <2>1. KeptApart'
    BY DEF KeptApart
  <2>2. Owners'
    BY DEF Owners
  <2>3. Opening'
    BY DEF Opening
  <2>4. CurrentClosed'
    BY DEF CurrentClosed, Opening
  <2>5. VisitsAll'
    BY DEF VisitsAll
  <2>6. OpenHandlesRegistered'
    BY DEF OpenHandlesRegistered
  <2> QED
    BY <2>1, <2>2, <2>3, <2>4, <2>5, <2>6 DEF Kept
<1>11. ASSUME NEW t \in Threads, UnregisterCurrent(t)
      PROVE  Kept'
  <2> USE <1>11 DEF UnregisterCurrent, HandleErased, Goto
  <2>1. KeptApart'
    BY DEF KeptApart
  <2>2. Owners'
    BY DEF Owners
  <2>3. Opening'
    BY DEF CurrentClosed, Opening
  <2>4. CurrentClosed'
    BY DEF CurrentClosed, Opening
  <2>5. VisitsAll'
    BY DEF VisitsAll
  <2>6. OpenHandlesRegistered'
    BY DEF CurrentClosed, OpenHandlesRegistered
  <2> QED
    BY <2>1, <2>2, <2>3, <2>4, <2>5, <2>6 DEF Kept
<1>12. ASSUME NEW t \in Threads, DestroyStructure(t)
      PROVE  Kept'
  <2> USE <1>12 DEF DestroyStructure, EntryErased, UnlockManager, Goto, AllVisited
  <2>1. KeptApart'
    BY DEF KeptApart
  <2>2. Owners'
    BY DEF Owners
  <2>3. Opening'
    BY DEF KeptApart, Opening
  <2>4. CurrentClosed'
    BY DEF CurrentClosed, Opening
  <2>5. VisitsAll'
    BY DEF VisitsAll
  <2>6. OpenHandlesRegistered'
    BY DEF VisitsAll, OpenHandlesRegistered
  <2> QED
    BY <2>1, <2>2, <2>3, <2>4, <2>5, <2>6 DEF Kept
<1>13. ASSUME NEW t \in Threads, RemoveDatabase(t)
      PROVE  Kept'
  <2> USE <1>13 DEF RemoveDatabase, Return
  <2>1. KeptApart'
    BY DEF KeptApart
  <2>2. Owners'
    BY DEF Owners
  <2>3. Opening'
    BY DEF Opening
  <2>4. CurrentClosed'
    BY DEF CurrentClosed, Opening
  <2>5. VisitsAll'
    BY DEF VisitsAll
  <2>6. OpenHandlesRegistered'
    BY DEF OpenHandlesRegistered
  <2> QED
    BY <2>1, <2>2, <2>3, <2>4, <2>5, <2>6 DEF Kept
<1>14. ASSUME NEW t \in Threads, Crash(t)
      PROVE  Kept'
  <2> USE <1>14 DEF Crash
  <2>1. KeptApart'
    BY DEF KeptApart
  <2>2. Owners'
    BY DEF Owners
  <2>3. Opening'
    BY DEF Opening
  <2>4. CurrentClosed'
    BY DEF CurrentClosed, Opening
  <2>5. VisitsAll'
    BY DEF VisitsAll
  <2>6. OpenHandlesRegistered'
    BY DEF OpenHandlesRegistered
  <2> QED
    BY <2>1, <2>2, <2>3, <2>4, <2>5, <2>6 DEF Kept
<1>15. CASE UNCHANGED vars
  BY <1>15 DEF vars, history, Kept, KeptApart, Owners, Opening, VisitsAll, CurrentClosed,
    OpenHandlesRegistered
<1>16. ASSUME NEW t \in Threads, CloseIndexFails(t)
      PROVE  Kept'
  <2> USE <1>16 DEF CloseIndexFails, Return
  <2>1. KeptApart'
    BY DEF KeptApart
  <2>2. Owners'
    BY DEF Owners, Opening
  <2>3. Opening'
    BY DEF Owners, Opening
  <2>4. CurrentClosed'
    BY DEF CurrentClosed, Opening
  <2>5. VisitsAll'
    BY DEF VisitsAll
  <2>6. OpenHandlesRegistered'
    BY DEF OpenHandlesRegistered
  <2> QED
    BY <2>1, <2>2, <2>3, <2>4, <2>5, <2>6 DEF Kept
<1>17. ASSUME NEW t \in Threads, DeleteIndexFails(t)
      PROVE  Kept'
  <2> USE <1>17 DEF DeleteIndexFails, Return
  <2>1. KeptApart'
    BY DEF KeptApart
  <2>2. Owners'
    BY DEF Owners
  <2>3. Opening'
    BY DEF Owners, Opening
  <2>4. CurrentClosed'
    BY DEF CurrentClosed, Opening
  <2>5. VisitsAll'
    BY DEF VisitsAll
  <2>6. OpenHandlesRegistered'
    BY DEF OpenHandlesRegistered
  <2> QED
    BY <2>1, <2>2, <2>3, <2>4, <2>5, <2>6 DEF Kept
<1>18. ASSUME NEW t \in Threads, ReuseHandle(t)
      PROVE  Kept'
  <2> USE <1>18 DEF ReuseHandle, Enter
  <2>1. KeptApart'
    BY DEF KeptApart
  <2>2. Owners'
    BY DEF Owners
  <2>3. Opening'
    BY DEF Owners, Opening
  <2>4. CurrentClosed'
    BY DEF CurrentClosed, Opening
  <2>5. VisitsAll'
    BY DEF VisitsAll
  <2>6. OpenHandlesRegistered'
    BY DEF OpenHandlesRegistered
  <2> QED
    BY <2>1, <2>2, <2>3, <2>4, <2>5, <2>6 DEF Kept
<1>19. ASSUME NEW t \in Threads, NEW n \in Names, ReuseStructure(t, n)
      PROVE  Kept'
  <2> USE <1>19 DEF ReuseStructure, Enter
  <2>1. KeptApart'
    BY DEF KeptApart
  <2>2. Owners'
    BY DEF Owners
  <2>3. Opening'
    BY DEF Owners, Opening
  <2>4. CurrentClosed'
    BY DEF CurrentClosed, Opening
  <2>5. VisitsAll'
    BY DEF VisitsAll
  <2>6. OpenHandlesRegistered'
    BY DEF OpenHandlesRegistered
  <2> QED
    BY <2>1, <2>2, <2>3, <2>4, <2>5, <2>6 DEF Kept
<1> QED
  BY <1>1, <1>2, <1>3, <1>4, <1>5, <1>6, <1>7, <1>8, <1>9, <1>10, <1>11, <1>12, <1>13,
    <1>14, <1>15, <1>16, <1>17, <1>18, <1>19 DEF Next, Step, Call, Halted

\* The open handles are in order as long as OpenIndex and DeleteIndex are kept apart.
LEMMA OpenInductive == Spec => []OInv
<1>1. Init => OInv
  BY OInvInit
<1>2. OInv /\ [Next]_vars => OInv'
  BY OInvStep
<1> QED
  BY <1>1, <1>2, PTL DEF Spec

\* Whatever throws, an open handle is known to its structure, so that DeleteIndex will
\* close it before the structure is freed, unless an exception has ended a DeleteIndex of
\* it; also when freed handles were left behind, whose addresses other handles may get.
THEOREM OpenHandlesRegisteredAlways == Spec => []OpenHandlesRegistered
<1>1. OInv => OpenHandlesRegistered
  BY DEF OInv, Kept, OpenHandlesRegistered
<1> QED
  BY <1>1, OpenInductive, PTL

-----------------------------------------------------------------------------
(* Freed handles.                                                          *)

\* A handle of a live structure is open, or being opened or closed by its owner;
Registered(h, s) ==
  \E t \in Threads : /\ mine[t] = h /\ structure[h] = s
                     /\ h \in open \/ pc[t] \in {"open", "unregister"}

\* or closed by DeleteIndex, which is about to unregister it.
BeingClosed(h, s) ==
  \E t \in Threads : pc[t] = "closed" /\ catalog[name[t]] = s /\ current = h

\* A handle nobody answers for was freed after an exception.
NothingStale ==
  \A s \in Structures \cap allocated : \A h \in handles[s] \ failed :
    Registered(h, s) \/ BeingClosed(h, s)

\* CloseHandles visits handles of the structure it destroys, each once.
Visits ==
  \A h \in todo \ failed : \E t \in Threads :
    /\ Destroying(t)
    /\ structure[h] = catalog[name[t]] /\ h \in handles[catalog[name[t]]]
    /\ pc[t] = "closed" => h # current

\* The handle it is closing, or the next one at its address, is not of another structure.
CurrentOwn ==
  \A t \in Threads : pc[t] = "closed" /\ current \notin failed =>
    structure[current] \in {catalog[name[t]], None}

HInv == OInv /\ (apart => NothingStale /\ Visits /\ CurrentOwn)

LEMMA HInvInit == Init => HInv
  BY OInvInit DEF Init, HInv, NothingStale, Visits, CurrentOwn

\* Every step preserves it.
LEMMA HInvStep ==
  ASSUME HInv, [Next]_vars
  PROVE  HInv'
<1> SUFFICES ASSUME Inv, KeptApart, Owners, Opening, NothingStale, Visits, CurrentOwn,
                    CurrentClosed, Inv', apart, apart'
             PROVE  NothingStale' /\ Visits' /\ CurrentOwn'
  BY OInvStep, ApartStep DEF HInv, OInv, Kept
<1> USE NoneAssumption, AddressAssumption DEF Inv, TypeOK, heapVars, loopVars, history,
      Destroying
<1>1. ASSUME NEW t \in Threads, NEW n \in Names, CreateDatabase(t, n)
      PROVE  NothingStale' /\ Visits' /\ CurrentOwn'
  <2> USE <1>1 DEF CreateDatabase, Enter, Goto, Return
  <2>1. NothingStale'
    BY DEF NothingStale, Registered, BeingClosed
  <2>2. Visits'
    BY DEF Visits
  <2>3. CurrentOwn'
    BY DEF CurrentOwn
  <2> QED
    BY <2>1, <2>2, <2>3
<1>2. ASSUME NEW t \in Threads, NEW n \in Names, NewHandle(t, n)
      PROVE  NothingStale' /\ Visits' /\ CurrentOwn'
  <2> USE <1>2 DEF NewHandle, Enter, Goto
  <2>1. NothingStale'
    BY DEF Owners, NothingStale, Registered, BeingClosed
  <2>2. Visits'
    BY DEF Owners, NothingStale, Registered, BeingClosed, Visits, Deleting
  <2>3. CurrentOwn'
    BY DEF CurrentOwn
  <2> QED
    BY <2>1, <2>2, <2>3
<1>3. ASSUME NEW t \in Threads, NEW n \in Names, RemoveIndex(t, n)
      PROVE  NothingStale' /\ Visits' /\ CurrentOwn'
  <2> USE <1>3 DEF RemoveIndex, Enter, Goto, Return
  <2>1. NothingStale'
    BY DEF NothingStale, Registered, BeingClosed
  <2>2. Visits'
    BY DEF NothingStale, Registered, BeingClosed, Visits, CatalogSound
  <2>3. CurrentOwn'
    BY DEF CurrentOwn
  <2> QED
    BY <2>1, <2>2, <2>3
<1>4. ASSUME NEW t \in Threads, CloseIndex(t)
      PROVE  NothingStale' /\ Visits' /\ CurrentOwn'
  <2> USE <1>4 DEF CloseIndex, Enter, Goto, Return
  <2>1. NothingStale'
    BY DEF NothingStale, Registered, BeingClosed
  <2>2. Visits'
    BY DEF Visits
  <2>3. CurrentOwn'
    BY DEF CurrentOwn
  <2> QED
    BY <2>1, <2>2, <2>3
<1>5. ASSUME NEW t \in Threads, InsertStructure(t)
      PROVE  NothingStale' /\ Visits' /\ CurrentOwn'
  <2> USE <1>5 DEF InsertStructure, Return
  <2>1. NothingStale'
    BY DEF NothingStale, Registered, BeingClosed
  <2>2. Visits'
    BY DEF Visits
  <2>3. CurrentOwn'
    BY DEF CurrentOwn
  <2> QED
    BY <2>1, <2>2, <2>3
<1>6. ASSUME NEW t \in Threads, FindStructure(t)
      PROVE  NothingStale' /\ Visits' /\ CurrentOwn'
  <2> USE <1>6 DEF FindStructure, Goto, Return
  <2>1. NothingStale'
    BY DEF Owners, Opening, NothingStale, Registered, BeingClosed
  <2>2. Visits'
    BY DEF Visits
  <2>3. CurrentOwn'
    BY DEF CurrentOwn
  <2> QED
    BY <2>1, <2>2, <2>3
<1>7. ASSUME NEW t \in Threads, RegisterHandle(t)
      PROVE  NothingStale' /\ Visits' /\ CurrentOwn'
  <2> USE <1>7 DEF RegisterHandle, Goto
  <2>1. NothingStale'
    BY DEF NothingStale, Registered, BeingClosed
  <2>2. Visits'
    BY DEF KeptApart, Opening, Visits, Visiting, CatalogSound
  <2>3. CurrentOwn'
    BY DEF CurrentOwn
  <2> QED
    BY <2>1, <2>2, <2>3
<1>8. ASSUME NEW t \in Threads, OpenDatabase(t)
      PROVE  NothingStale' /\ Visits' /\ CurrentOwn'
  <2> USE <1>8 DEF OpenDatabase, Return
  <2>1. NothingStale'
    BY DEF NothingStale, Registered, BeingClosed
  <2>2. Visits'
    BY DEF Visits
  <2>3. CurrentOwn'
    BY DEF CurrentOwn
  <2> QED
    BY <2>1, <2>2, <2>3
<1>9. ASSUME NEW t \in Threads, UnregisterMine(t)
      PROVE  NothingStale' /\ Visits' /\ CurrentOwn'
  <2> USE <1>9 DEF UnregisterMine, HandleErased, Return
  <2>1. NothingStale'
    BY DEF NothingStale, Registered, BeingClosed
  <2>2. Visits'
    BY DEF Visits, Visiting
  <2>3. CurrentOwn'
    BY DEF CurrentOwn
  <2> QED
    BY <2>1, <2>2, <2>3
<1>10. ASSUME NEW t \in Threads, CloseHandle(t)
      PROVE  NothingStale' /\ Visits' /\ CurrentOwn'
  <2> USE <1>10 DEF CloseHandle, Goto
  <2>1. NothingStale'
    BY DEF NothingStale, Registered, BeingClosed, Visits
  <2>2. Visits'
    BY DEF Visits
  <2>3. CurrentOwn'
    BY DEF CurrentOwn, Visits
  <2> QED
    BY <2>1, <2>2, <2>3
<1>11. ASSUME NEW t \in Threads, UnregisterCurrent(t)
      PROVE  NothingStale' /\ Visits' /\ CurrentOwn'
  <2> USE <1>11 DEF UnregisterCurrent, HandleErased, Goto
  <2>1. NothingStale'
    BY DEF NothingStale, Registered, BeingClosed, CurrentOwn
  <2>2. Visits'
    BY DEF Visits
  <2>3. CurrentOwn'
    BY DEF CurrentOwn
  <2> QED
    BY <2>1, <2>2, <2>3
<1>12. ASSUME NEW t \in Threads, DestroyStructure(t)
      PROVE  NothingStale' /\ Visits' /\ CurrentOwn'
  <2> USE <1>12 DEF DestroyStructure, EntryErased, UnlockManager, Goto, AllVisited
  <2>1. NothingStale'
    BY DEF NothingStale, Registered, BeingClosed
  <2>2. Visits'
    BY DEF Visits
  <2>3. CurrentOwn'
    BY DEF CurrentOwn
  <2> QED
    BY <2>1, <2>2, <2>3
<1>13. ASSUME NEW t \in Threads, RemoveDatabase(t)
      PROVE  NothingStale' /\ Visits' /\ CurrentOwn'
  <2> USE <1>13 DEF RemoveDatabase, Return
  <2>1. NothingStale'
    BY DEF NothingStale, Registered, BeingClosed
  <2>2. Visits'
    BY DEF Visits
  <2>3. CurrentOwn'
    BY DEF CurrentOwn
  <2> QED
    BY <2>1, <2>2, <2>3
<1>14. ASSUME NEW t \in Threads, Crash(t)
      PROVE  NothingStale' /\ Visits' /\ CurrentOwn'
  <2> USE <1>14 DEF Crash
  <2>1. NothingStale'
    BY DEF NothingStale, Registered, BeingClosed
  <2>2. Visits'
    BY DEF Visits
  <2>3. CurrentOwn'
    BY DEF CurrentOwn
  <2> QED
    BY <2>1, <2>2, <2>3
<1>15. CASE UNCHANGED vars
  BY <1>15 DEF vars, history, CurrentOwn, NothingStale, Visits, Registered, BeingClosed
<1>16. ASSUME NEW t \in Threads, CloseIndexFails(t)
      PROVE  NothingStale' /\ Visits' /\ CurrentOwn'
  <2> USE <1>16 DEF CloseIndexFails, Return
  <2>1. NothingStale'
    BY DEF NothingStale, Registered, BeingClosed
  <2>2. Visits'
    BY DEF Visits
  <2>3. CurrentOwn'
    BY DEF CurrentOwn
  <2> QED
    BY <2>1, <2>2, <2>3
<1>17. ASSUME NEW t \in Threads, DeleteIndexFails(t)
      PROVE  NothingStale' /\ Visits' /\ CurrentOwn'
  <2> USE <1>17 DEF DeleteIndexFails, Return
  <2>1. NothingStale'
    BY DEF NothingStale, Registered, BeingClosed
  <2>2. Visits'
    BY DEF Visits
  <2>3. CurrentOwn'
    BY DEF CurrentOwn
  <2> QED
    BY <2>1, <2>2, <2>3
<1>18. ASSUME NEW t \in Threads, ReuseHandle(t)
      PROVE  NothingStale' /\ Visits' /\ CurrentOwn'
  <2> USE <1>18 DEF ReuseHandle, Enter
  <2>1. NothingStale'
    BY DEF NothingStale, Registered, BeingClosed
  <2>2. Visits'
    BY DEF Visits
  <2>3. CurrentOwn'
    BY DEF CurrentOwn
  <2> QED
    BY <2>1, <2>2, <2>3
<1>19. ASSUME NEW t \in Threads, NEW n \in Names, ReuseStructure(t, n)
      PROVE  NothingStale' /\ Visits' /\ CurrentOwn'
  <2> USE <1>19 DEF ReuseStructure, Enter
  <2>1. NothingStale'
    BY DEF NothingStale, Registered, BeingClosed
  <2>2. Visits'
    BY DEF Visits
  <2>3. CurrentOwn'
    BY DEF CurrentOwn
  <2> QED
    BY <2>1, <2>2, <2>3
<1> QED
  BY <1>1, <1>2, <1>3, <1>4, <1>5, <1>6, <1>7, <1>8, <1>9, <1>10, <1>11, <1>12, <1>13,
    <1>14, <1>15, <1>16, <1>17, <1>18, <1>19 DEF Next, Step, Call, Halted

\* The handles are in order as long as OpenIndex and DeleteIndex are kept apart.
LEMMA HandlesInductive == Spec => []HInv
<1>1. Init => HInv
  BY HInvInit
<1>2. HInv /\ [Next]_vars => HInv'
  BY HInvStep
<1> QED
  BY <1>1, <1>2, PTL DEF Spec

\* Whatever throws, a freed Index is left in the handles of a live structure only when the
\* exception was about this Index.
THEOREM OnlyLiveHandlesAlways == Spec => []OnlyLiveHandles
<1>1. HInv => OnlyLiveHandles
  BY NoneAssumption DEF HInv, OInv, Kept, Inv, TypeOK, NothingStale, Registered, BeingClosed,
     Owners, OnlyLiveHandles
<1> QED
  BY <1>1, HandlesInductive, PTL


-----------------------------------------------------------------------------
(* Calls come nearer to their ends.                                        *)

\* What a step of t may do to the calls in progress.
Moves(t) == /\ pc[t] = "idle" \/ Advances(t)
            /\ \A u \in Threads \ {t} : Rests(u)

\* A thread moves, and the loop of a DeleteIndex, if there is one, does not notice.
LEMMA OthersRest ==
  ASSUME NEW t \in Threads, \A u \in Threads \ {t} : pc'[u] = pc[u],
         \/ \A u \in Threads \ {t} : ~ Looping(u)
         \/ LoopRests
         \/ LoopShrinks
  PROVE  \A u \in Threads \ {t} : Rests(u)
BY DEF Rests

\* A thread moves that registers nothing.
LEMMA SameRegistering ==
  ASSUME TypeOK, NEW t \in Threads, pc[t] # "register",
         NEW label \in Labels \ {"register"}, pc' = [pc EXCEPT ![t] = label]
  PROVE  Registering' = Registering
BY DEF Registering, TypeOK

LEMMA CallsAdvanceStep ==
  ASSUME TypeOK, Next
  PROVE  \/ UNCHANGED vars
         \/ fault' # "none"
         \/ \E t \in Threads : Moves(t)
<1> USE NoneAssumption DEF Labels
<1>1. ASSUME NEW t \in Threads,
             \/ CloseIndex(t)
             \/ \E n \in Names : CreateDatabase(t, n) \/ NewHandle(t, n) \/ RemoveIndex(t, n)
      PROVE  Moves(t)
  <2>1. pc[t] = "idle"
    BY <1>1 DEF CloseIndex, CreateDatabase, NewHandle, RemoveIndex, Enter
  <2>2. \E label \in Labels \ {"register"} : pc' = [pc EXCEPT ![t] = label]
    BY <1>1 DEF CloseIndex, CreateDatabase, NewHandle, RemoveIndex, Enter, Goto, Return
  <2>3. Registering' = Registering
    BY <2>1, <2>2, SameRegistering
  <2>4. todo' = todo \/ imMutex = None
    BY <1>1 DEF CloseIndex, CreateDatabase, NewHandle, RemoveIndex, loopVars
  <2>5. imMutex = None => \A u \in Threads : ~ Looping(u)
    BY DEF TypeOK, Looping
  <2>6. \A u \in Threads \ {t} : pc'[u] = pc[u]
    BY <2>2 DEF TypeOK
  <2> QED BY <2>1, <2>3, <2>4, <2>5, <2>6, OthersRest DEF Moves, LoopRests
\* IndexManager::Insert and Find have no loop beside them.
<1>2. ASSUME NEW t \in Threads, InsertStructure(t) \/ FindStructure(t)
      PROVE  Moves(t)
  <2>1. \A u \in Threads : ~ Looping(u)
    BY <1>2 DEF InsertStructure, FindStructure, TypeOK, Looping
  <2>2. Distance[pc'[t]] < Distance[pc[t]] /\ \A u \in Threads \ {t} : pc'[u] = pc[u]
    BY <1>2 DEF InsertStructure, FindStructure, TypeOK, Goto, Return, Distance
  <2> QED BY <2>1, <2>2, OthersRest DEF Moves, Advances
\* A handle that comes into the loop costs a thread that registers.
<1>3. ASSUME NEW t \in Threads, RegisterHandle(t)
      PROVE  Moves(t)
  <2>1. pc[t] = "register" /\ pc' = [pc EXCEPT ![t] = "open"]
    BY <1>3 DEF RegisterHandle, Goto
  <2>2. Registering' = Registering \ {t} /\ t \in Registering
    BY <2>1 DEF Registering, TypeOK
  <2>3. Distance[pc'[t]] < Distance[pc[t]] /\ ~ Looping(t)
    BY <2>1 DEF TypeOK, Distance, Looping
  <2>4. LoopShrinks /\ \A u \in Threads \ {t} : pc'[u] = pc[u]
    BY <2>1, <2>2 DEF LoopShrinks, TypeOK
  <2> QED BY <2>3, <2>4, OthersRest DEF Moves, Advances
<1>4. ASSUME NEW t \in Threads, \/ OpenDatabase(t) \/ UnregisterMine(t)
                                \/ CloseIndexFails(t) \/ RemoveDatabase(t)
      PROVE  Moves(t)
  <2>1. pc[t] \in {"open", "unregister", "dbremove"} /\ pc' = [pc EXCEPT ![t] = "idle"]
    BY <1>4 DEF OpenDatabase, UnregisterMine, CloseIndexFails, RemoveDatabase, Return
  <2>2. Registering' = Registering
    BY <2>1, SameRegistering
  <2>3. todo' \subseteq todo
    BY <1>4 DEF OpenDatabase, UnregisterMine, CloseIndexFails, RemoveDatabase, loopVars
  <2>4. Distance[pc'[t]] < Distance[pc[t]] /\ ~ Looping(t)
        /\ \A u \in Threads \ {t} : pc'[u] = pc[u]
    BY <2>1 DEF TypeOK, Distance, Looping
  <2>5. LoopShrinks \/ LoopRests
    BY <2>2, <2>3 DEF LoopShrinks, LoopRests
  <2> QED BY <2>4, <2>5, OthersRest DEF Moves, Advances
\* The loop itself.
<1>5. ASSUME NEW t \in Threads, CloseHandle(t)
      PROVE  Moves(t)
  <2>1. pc[t] = "closing" /\ todo' \subseteq todo /\ todo' # todo
    BY <1>5 DEF CloseHandle
  <2>2. PICK label \in {"closing", "closed"} : pc' = [pc EXCEPT ![t] = label]
    BY <1>5 DEF CloseHandle, Goto, TypeOK
  <2>3. Registering' = Registering
    BY <2>1, <2>2, SameRegistering
  <2>4. LoopShrinks
    BY <2>1, <2>3 DEF LoopShrinks
  <2>5. Looping(t) /\ Looping(t)' /\ \A u \in Threads \ {t} : pc'[u] = pc[u]
    BY <2>1, <2>2 DEF TypeOK, Looping
  <2> QED BY <2>4, <2>5, OthersRest DEF Moves, Advances
<1>6. ASSUME NEW t \in Threads, UnregisterCurrent(t) \/ DestroyStructure(t)
      PROVE  Moves(t)
  <2>1. \/ pc[t] = "closed" /\ pc' = [pc EXCEPT ![t] = "closing"]
        \/ pc[t] = "closing" /\ pc' = [pc EXCEPT ![t] = "dbremove"]
    BY <1>6 DEF UnregisterCurrent, DestroyStructure, Goto
  <2>2. Registering' = Registering
    BY <2>1, SameRegistering
  <2>3. LoopRests
    BY <1>6, <2>2 DEF UnregisterCurrent, DestroyStructure, loopVars, LoopRests
  <2>4. Distance[pc'[t]] < Distance[pc[t]] /\ \A u \in Threads \ {t} : pc'[u] = pc[u]
    BY <2>1 DEF TypeOK, Distance
  <2> QED BY <2>3, <2>4, OthersRest DEF Moves, Advances
\* An exception ends the loop and the call.
<1>7. ASSUME NEW t \in Threads, DeleteIndexFails(t)
      PROVE  Moves(t)
  <2>1. pc[t] = "closed" /\ pc' = [pc EXCEPT ![t] = "idle"]
    BY <1>7 DEF DeleteIndexFails, Return
  <2>2. Distance[pc'[t]] < Distance[pc[t]] /\ ~ Looping(t)'
        /\ \A u \in Threads \ {t} : pc'[u] = pc[u] /\ ~ Looping(u)
    BY <2>1 DEF TypeOK, Distance, Looping
  <2> QED BY <2>2, OthersRest DEF Moves, Advances
<1>8. ASSUME NEW t \in Threads,
             Crash(t) \/ ReuseHandle(t) \/ \E n \in Names : ReuseStructure(t, n)
      PROVE  fault' # "none"
  BY <1>8 DEF Crash, ReuseHandle, ReuseStructure
<1>9. CASE Halted
  BY <1>9 DEF Halted
<1> QED
  BY <1>1, <1>2, <1>3, <1>4, <1>5, <1>6, <1>7, <1>8, <1>9 DEF Next, Step, Call

\* No call goes round in a circle, for any number of threads and in any interleaving:
\* also CloseHandles ends, while handles are registered and unregistered under it.
THEOREM CallsAdvanceAlways == Spec => CallsAdvance
<1>1. TypeOK /\ [Next]_vars
        => [\/ fault' # "none"
            \/ \E t \in Threads : /\ pc[t] = "idle" \/ Advances(t)
                                  /\ \A u \in Threads \ {t} : Rests(u)]_vars
  BY CallsAdvanceStep DEF Moves
<1> QED
  BY <1>1, TypeCorrect, PTL DEF Spec, CallsAdvance
====
