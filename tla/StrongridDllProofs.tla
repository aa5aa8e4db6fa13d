-------------------------- MODULE StrongridDllProofs --------------------------
(***************************************************************************)
(* Proofs about StrongridDll, for any threads, clients, descriptors and    *)
(* size of the table.                                                      *)
(*                                                                         *)
(* The argument is the inductive invariant DllInv.  Until dllshutdown, a   *)
(* step is a call of one thread, and one lemma for each part of DllInv has *)
(* one step for each action of a call.  Ownership (OwnerInv) is what makes *)
(* the unlocked reads of the table safe; the mutex (LockInv) is what lets  *)
(* a slot be found, filled and emptied in several steps.                   *)
(* The refinement of PdcHandles then goes through the same actions.        *)
(***************************************************************************)
EXTENDS StrongridDll, TLAPS

USE DEF Goto, tableVars, heapVars, callVars
-----------------------------------------------------------------------------
(* Slot 0 exists, and the cursor stays in the table when it wraps. *)
LEMMA IdFacts == 0 \in Ids /\ \A i \in Ids : (i + 1) % MaxClients \in Ids
  BY DllAssumption DEF Ids

(* A call keeps every variable in its type. *)
LEMMA DllTypeStep ==
  ASSUME NEW t \in Threads, Call(t), DllInv, ~Ended
  PROVE  DllTypeOK'
<1>1. ASSUME NEW c \in Clients, NEW f \in Fds, Connect(t, c, f)
      PROVE  DllTypeOK'
  BY <1>1 DEF DllInv, DllTypeOK, Connect
<1>2. CASE LockTable(t)
  BY <1>2 DEF DllInv, DllTypeOK, LockTable
<1>3. CASE Probe(t)
  BY <1>3, IdFacts DEF DllInv, DllTypeOK, Probe, NextCursor
<1>4. CASE Insert(t)
  BY <1>4, IdFacts DEF DllInv, DllTypeOK, Entry, ClientInv, Connecting,
     Insert, Forget
<1>5. ASSUME NEW id \in Ids, Check(t, id) PROVE DllTypeOK'
  BY <1>5 DEF DllInv, DllTypeOK, Check
<1>6. CASE Fetch(t)
  BY <1>6 DEF DllInv, DllTypeOK, Fetch
<1>7. CASE Return(t)
  BY <1>7, IdFacts DEF DllInv, DllTypeOK, Return, Forget
<1>8. CASE ReturnClosed(t)
  BY <1>8, IdFacts DEF DllInv, DllTypeOK, ReturnClosed, Forget
<1>9. ASSUME NEW id \in Ids, CheckDrop(t, id) PROVE DllTypeOK'
  BY <1>9 DEF DllInv, DllTypeOK, CheckDrop
<1>10. CASE LockDrop(t)
  BY <1>10 DEF DllInv, DllTypeOK, LockDrop
<1>11. CASE Erase(t)
  BY <1>11 DEF DllInv, DllTypeOK, Erase
<1>12. CASE Delete(t)
  BY <1>12, IdFacts DEF DllInv, DllTypeOK, Delete, Forget
<1>13. CASE CopyPollVector(t)
  BY <1>13 DEF DllInv, DllTypeOK, CopyPollVector
<1>14. CASE PollReturns(t)
  BY <1>14 DEF DllInv, DllTypeOK, PollReturns
<1> QED
  BY <1>1, <1>2, <1>3, <1>4, <1>5, <1>6, <1>7, <1>8, <1>9, <1>10, <1>11,
     <1>12, <1>13, <1>14 DEF Call

(* A call keeps the mutex with the one thread between its lock and its     *)
(* unlock, so that the free slot a search found is still free.             *)
LEMMA LockStep ==
  ASSUME NEW t \in Threads, Call(t), DllInv, ~Ended
  PROVE  LockInv'
<1>1. ASSUME NEW c \in Clients, NEW f \in Fds, Connect(t, c, f)
      PROVE  LockInv'
  BY <1>1 DEF DllInv, LockInv, Locking, Connect
<1>2. CASE LockTable(t)
  BY <1>2, DllAssumption DEF DllInv, DllTypeOK, LockInv, Locking, LockTable
<1>3. CASE Probe(t)
  BY <1>3 DEF DllInv, LockInv, Locking, Probe
<1>4. CASE Insert(t)
  BY <1>4, DllAssumption DEF DllInv, DllTypeOK, LockInv, Locking, Insert
<1>5. ASSUME NEW id \in Ids, Check(t, id) PROVE LockInv'
  BY <1>5 DEF DllInv, LockInv, Locking, Check
<1>6. CASE Fetch(t)
  BY <1>6 DEF DllInv, LockInv, Locking, Fetch
<1>7. CASE Return(t)
  BY <1>7 DEF DllInv, LockInv, Locking, Return
<1>8. CASE ReturnClosed(t)
  BY <1>8 DEF DllInv, LockInv, Locking, ReturnClosed
<1>9. ASSUME NEW id \in Ids, CheckDrop(t, id) PROVE LockInv'
  BY <1>9 DEF DllInv, LockInv, Locking, CheckDrop
<1>10. CASE LockDrop(t)
  BY <1>10, DllAssumption DEF DllInv, DllTypeOK, LockInv, Locking, LockDrop
<1>11. CASE Erase(t)
  BY <1>11 DEF DllInv, LockInv, Locking, Erase
<1>12. CASE Delete(t)
  BY <1>12, DllAssumption DEF DllInv, DllTypeOK, LockInv, Locking, Delete
<1>13. CASE CopyPollVector(t)
  BY <1>13 DEF DllInv, LockInv, Locking, CopyPollVector
<1>14. CASE PollReturns(t)
  BY <1>14 DEF DllInv, LockInv, Locking, PollReturns
<1> QED
  BY <1>1, <1>2, <1>3, <1>4, <1>5, <1>6, <1>7, <1>8, <1>9, <1>10, <1>11,
     <1>12, <1>13, <1>14 DEF Call

(* A call keeps the owners of the ids apart, and the slots in use owned. *)
LEMMA OwnerStep ==
  ASSUME NEW t \in Threads, Call(t), DllInv, ~Ended
  PROVE  OwnerInv'
<1>1. ASSUME NEW c \in Clients, NEW f \in Fds, Connect(t, c, f)
      PROVE  OwnerInv'
  BY <1>1 DEF Owned, DllInv, OwnerInv, Dropping, Connect
<1>2. CASE LockTable(t)
  BY <1>2 DEF Owned, DllInv, OwnerInv, Dropping, LockTable
<1>3. CASE Probe(t)
  BY <1>3 DEF Owned, DllInv, OwnerInv, Dropping, Probe
<1>4. CASE Insert(t)
  BY <1>4, DllAssumption DEF Owned, DllInv, DllTypeOK, LockInv, OwnerInv,
     ClientInv, Dropping, Connecting, Insert, Forget
<1>5. ASSUME NEW id \in Ids, Check(t, id) PROVE OwnerInv'
  BY <1>5 DEF Owned, DllInv, OwnerInv, Dropping, Check
<1>6. CASE Fetch(t)
  BY <1>6 DEF Owned, DllInv, OwnerInv, Dropping, Fetch
<1>7. CASE Return(t)
  BY <1>7 DEF Owned, DllInv, OwnerInv, Dropping, Return, Forget
<1>8. CASE ReturnClosed(t)
  BY <1>8 DEF Owned, DllInv, OwnerInv, Dropping, ReturnClosed, Forget
<1>9. ASSUME NEW id \in Ids, CheckDrop(t, id) PROVE OwnerInv'
  BY <1>9 DEF Owned, DllInv, DllTypeOK, OwnerInv, Dropping, CheckDrop
<1>10. CASE LockDrop(t)
  BY <1>10 DEF Owned, DllInv, OwnerInv, Dropping, LockDrop
<1>11. CASE Erase(t)
  BY <1>11 DEF Owned, DllInv, OwnerInv, Dropping, Erase
<1>12. CASE Delete(t)
  BY <1>12 DEF Owned, DllInv, DllTypeOK, OwnerInv, Dropping, Delete, Forget
<1>13. CASE CopyPollVector(t)
  BY <1>13 DEF Owned, DllInv, OwnerInv, Dropping, CopyPollVector
<1>14. CASE PollReturns(t)
  BY <1>14 DEF Owned, DllInv, OwnerInv, Dropping, PollReturns
<1> QED
  BY <1>1, <1>2, <1>3, <1>4, <1>5, <1>6, <1>7, <1>8, <1>9, <1>10, <1>11,
     <1>12, <1>13, <1>14 DEF Call

(* A call keeps the table an injection into the clients that exist. *)
LEMMA ClientStep ==
  ASSUME NEW t \in Threads, Call(t), DllInv, ~Ended
  PROVE  ClientInv'
<1>1. ASSUME NEW c \in Clients, NEW f \in Fds, Connect(t, c, f)
      PROVE  ClientInv'
  BY <1>1, DllAssumption DEF DllInv, DllTypeOK, ClientInv, Connecting,
     Connect
<1>2. CASE LockTable(t)
  BY <1>2 DEF DllInv, ClientInv, Connecting, LockTable
<1>3. CASE Probe(t)
  BY <1>3 DEF DllInv, ClientInv, Connecting, Probe
<1>4. CASE Insert(t)
  BY <1>4 DEF DllInv, DllTypeOK, ClientInv, Connecting, Insert, Forget
<1>5. ASSUME NEW id \in Ids, Check(t, id) PROVE ClientInv'
  BY <1>5 DEF DllInv, ClientInv, Connecting, Check
<1>6. CASE Fetch(t)
  BY <1>6 DEF DllInv, ClientInv, Connecting, Fetch
<1>7. CASE Return(t)
  BY <1>7 DEF DllInv, ClientInv, Connecting, Return, Forget
<1>8. CASE ReturnClosed(t)
  BY <1>8 DEF DllInv, DllTypeOK, CallInv, ClientInv, Connecting,
     ReturnClosed, Forget
<1>9. ASSUME NEW id \in Ids, CheckDrop(t, id) PROVE ClientInv'
  BY <1>9 DEF DllInv, ClientInv, Connecting, CheckDrop
<1>10. CASE LockDrop(t)
  BY <1>10 DEF DllInv, ClientInv, Connecting, LockDrop
<1>11. CASE Erase(t)
  BY <1>11 DEF DllInv, ClientInv, Connecting, Erase
<1>12. CASE Delete(t)
  BY <1>12, DllAssumption DEF DllInv, DllTypeOK, ClientInv, Connecting,
     Delete, Forget
<1>13. CASE CopyPollVector(t)
  BY <1>13 DEF DllInv, ClientInv, Connecting, CopyPollVector
<1>14. CASE PollReturns(t)
  BY <1>14 DEF DllInv, ClientInv, Connecting, PollReturns
<1> QED
  BY <1>1, <1>2, <1>3, <1>4, <1>5, <1>6, <1>7, <1>8, <1>9, <1>10, <1>11,
     <1>12, <1>13, <1>14 DEF Call

(* A call of another thread leaves the client a call works on alone. *)
LEMMA CallStep ==
  ASSUME NEW t \in Threads, Call(t), DllInv, ~Ended
  PROVE  CallInv'
<1>1. ASSUME NEW c \in Clients, NEW f \in Fds, Connect(t, c, f)
      PROVE  CallInv'
  BY <1>1 DEF DllInv, CallInv, Connect
<1>2. CASE LockTable(t)
  BY <1>2 DEF DllInv, CallInv, LockTable
<1>3. CASE Probe(t)
  BY <1>3 DEF DllInv, CallInv, Probe
<1>4. CASE Insert(t)
  BY <1>4 DEF Owned, DllInv, DllTypeOK, LockInv, OwnerInv, CallInv, Insert,
     Forget
<1>5. ASSUME NEW id \in Ids, Check(t, id) PROVE CallInv'
  BY <1>5 DEF DllInv, DllTypeOK, CallInv, Check
<1>6. CASE Fetch(t)
  BY <1>6 DEF DllInv, DllTypeOK, CallInv, Fetch
<1>7. CASE Return(t)
  BY <1>7 DEF DllInv, DllTypeOK, CallInv, Return, Forget
<1>8. CASE ReturnClosed(t)
  BY <1>8 DEF DllInv, DllTypeOK, CallInv, ReturnClosed, Forget
<1>9. ASSUME NEW id \in Ids, CheckDrop(t, id) PROVE CallInv'
  BY <1>9 DEF DllInv, CallInv, CheckDrop
<1>10. CASE LockDrop(t)
  BY <1>10 DEF DllInv, CallInv, LockDrop
<1>11. CASE Erase(t)
  BY <1>11 DEF DllInv, CallInv, Erase
<1>12. CASE Delete(t)
  BY <1>12 DEF Owned, DllInv, OwnerInv, CallInv, Dropping, Delete, Forget
<1>13. CASE CopyPollVector(t)
  BY <1>13 DEF DllInv, CallInv, CopyPollVector
<1>14. CASE PollReturns(t)
  BY <1>14 DEF DllInv, CallInv, PollReturns
<1> QED
  BY <1>1, <1>2, <1>3, <1>4, <1>5, <1>6, <1>7, <1>8, <1>9, <1>10, <1>11,
     <1>12, <1>13, <1>14 DEF Call

(* A call keeps the poll list in step with the table. *)
LEMMA PollStep ==
  ASSUME NEW t \in Threads, Call(t), DllInv, ~Ended
  PROVE  PollInv'
<1>1. ASSUME NEW c \in Clients, NEW f \in Fds, Connect(t, c, f)
      PROVE  PollInv'
  BY <1>1 DEF DllInv, DllTypeOK, ClientInv, PollInv, Entry, Connect
<1>2. CASE LockTable(t)
  BY <1>2 DEF DllInv, PollInv, LockTable
<1>3. CASE Probe(t)
  BY <1>3 DEF DllInv, PollInv, Probe
<1>4. CASE Insert(t)
  <2> DEFINE entry == [id |-> cursor, fd |-> sockfd[ptr[t]]]
  <2>1. map[cursor] = None /\ ptr[t] # None /\ cursor \in Ids
    BY <1>4, DllAssumption DEF DllInv, DllTypeOK, LockInv, ClientInv,
       Connecting, Insert
  <2>2. \A e \in pollVector : e.id # cursor /\ e.id \in Ids
    BY <2>1 DEF DllInv, DllTypeOK, PollInv, Entry
  <2>3. \A u \in Threads : pc[u] # "delete" /\ pc'[u] # "delete"
    BY <1>4 DEF DllInv, LockInv, Locking, Insert
  <2>4. /\ pollVector' = pollVector \cup {entry}
        /\ map' = [map EXCEPT ![cursor] = ptr[t]]
        /\ sockfd' = sockfd
    BY <1>4 DEF Insert
  <2>5. map'[cursor] = ptr[t] /\ \A i \in Ids \ {cursor} : map'[i] = map[i]
    BY <2>1, <2>4 DEF DllInv, DllTypeOK
  <2>6. ASSUME NEW e \in pollVector'
        PROVE  /\ map'[e.id] # None
               /\ sockfd'[map'[e.id]] \in {e.fd, None}
               /\ \A d \in pollVector' : d.id = e.id => d = e
    BY <2>1, <2>2, <2>4, <2>5 DEF DllInv, PollInv
  <2>7. ASSUME NEW i \in Ids, map'[i] # None
        PROVE  \E e \in pollVector' : e.id = i
    <3>1. CASE i = cursor
      <4>1. entry.id = cursor
        OBVIOUS
      <4>2. entry \in pollVector'
        BY <2>4
      <4> QED
        BY <3>1, <4>1, <4>2
    <3>2. CASE i # cursor
      <4>1. map[i] # None
        BY <2>5, <2>7, <3>2
      <4>2. PICK e \in pollVector : e.id = i
        BY <2>3, <4>1 DEF DllInv, PollInv
      <4> QED
        BY <2>4, <4>2
    <3> QED
      BY <3>1, <3>2
  <2> QED
    BY <2>3, <2>6, <2>7 DEF PollInv
<1>5. ASSUME NEW id \in Ids, Check(t, id) PROVE PollInv'
  BY <1>5 DEF DllInv, PollInv, Check
<1>6. CASE Fetch(t)
  BY <1>6 DEF DllInv, PollInv, Fetch
<1>7. CASE Return(t)
  BY <1>7 DEF DllInv, PollInv, Return, Forget
<1>8. CASE ReturnClosed(t)
  BY <1>8 DEF DllInv, PollInv, ReturnClosed, Forget
<1>9. ASSUME NEW id \in Ids, CheckDrop(t, id) PROVE PollInv'
  BY <1>9 DEF DllInv, PollInv, CheckDrop
<1>10. CASE LockDrop(t)
  BY <1>10 DEF DllInv, PollInv, LockDrop
<1>11. CASE Erase(t)
  BY <1>11 DEF DllInv, DllTypeOK, PollInv, Erase, EntryOf
<1>12. CASE Delete(t)
  BY <1>12 DEF DllInv, DllTypeOK, PollInv, Entry, Delete, Forget
<1>13. CASE CopyPollVector(t)
  BY <1>13 DEF DllInv, PollInv, CopyPollVector
<1>14. CASE PollReturns(t)
  BY <1>14 DEF DllInv, PollInv, PollReturns
<1> QED
  BY <1>1, <1>2, <1>3, <1>4, <1>5, <1>6, <1>7, <1>8, <1>9, <1>10, <1>11,
     <1>12, <1>13, <1>14 DEF Call

(* No call follows a null or dangling pointer. *)
LEMMA CrashStep ==
  ASSUME NEW t \in Threads, Call(t), DllInv, ~Ended
  PROVE  ~crashed' /\ ~Ended'
<1>1. ASSUME NEW c \in Clients, NEW f \in Fds, Connect(t, c, f)
      PROVE  ~crashed' /\ ~Ended'
  BY <1>1 DEF DllInv, Ended, Connect
<1>2. CASE LockTable(t)
  BY <1>2 DEF DllInv, Ended, LockTable
<1>3. CASE Probe(t)
  BY <1>3 DEF DllInv, Ended, Probe
<1>4. CASE Insert(t)
  BY <1>4 DEF DllInv, Ended, Insert
<1>5. ASSUME NEW id \in Ids, Check(t, id) PROVE ~crashed' /\ ~Ended'
  BY <1>5 DEF DllInv, Ended, Check
<1>6. CASE Fetch(t)
  BY <1>6 DEF DllInv, Ended, Fetch
<1>7. CASE Return(t)
  BY <1>7 DEF Owned, DllInv, DllTypeOK, OwnerInv, ClientInv, CallInv, Ended,
     Return
<1>8. CASE ReturnClosed(t)
  BY <1>8 DEF DllInv, Ended, ReturnClosed
<1>9. ASSUME NEW id \in Ids, CheckDrop(t, id) PROVE ~crashed' /\ ~Ended'
  BY <1>9 DEF DllInv, Ended, CheckDrop
<1>10. CASE LockDrop(t)
  BY <1>10 DEF DllInv, Ended, LockDrop
<1>11. CASE Erase(t)
  BY <1>11 DEF Owned, DllInv, DllTypeOK, OwnerInv, PollInv, Dropping, Ended,
     Erase, EntryOf
<1>12. CASE Delete(t)
  BY <1>12 DEF Owned, DllInv, DllTypeOK, OwnerInv, ClientInv, Dropping,
     Ended, Delete
<1>13. CASE CopyPollVector(t)
  BY <1>13 DEF DllInv, Ended, CopyPollVector
<1>14. CASE PollReturns(t)
  BY <1>14 DEF DllInv, Ended, PollReturns
<1> QED
  BY <1>1, <1>2, <1>3, <1>4, <1>5, <1>6, <1>7, <1>8, <1>9, <1>10, <1>11,
     <1>12, <1>13, <1>14 DEF Call

-----------------------------------------------------------------------------
(* The empty table that the DLL is loaded with satisfies the invariant. *)
LEMMA DllInvInit == DllInit => DllInv
<1> SUFFICES ASSUME DllInit PROVE DllInv
  OBVIOUS
<1>1. DllTypeOK
  BY IdFacts DEF DllInit, DllTypeOK
<1>2. ~crashed /\ ~Ended
  BY DEF DllInit, Ended
<1>3. LockInv /\ CallInv /\ PollInv
  BY DllAssumption DEF DllInit, LockInv, Locking, CallInv, PollInv
<1>4. OwnerInv /\ ClientInv
  BY DEF Owned, DllInit, OwnerInv, Dropping, ClientInv, Connecting
<1> QED
  BY <1>1, <1>2, <1>3, <1>4 DEF DllInv

(* dllshutdown leaves every thread where it makes no call. *)
LEMMA EndedMakesNoCall ==
  ASSUME NEW t \in Threads, Call(t), DllInv, Ended
  PROVE  FALSE
<1>1. pc[t] = "shutdown"
  BY DEF DllInv
<1> QED
  BY <1>1 DEF Call, Connect, LockTable, Probe, Insert, Check, Fetch, Return,
     ReturnClosed, CheckDrop, LockDrop, Erase, Delete, CopyPollVector, PollReturns

(* The parts are inductive together; dllshutdown ends what they promise. *)
LEMMA DllInvStep == DllInv /\ [DllNext]_dllVars => DllInv'
<1> SUFFICES ASSUME DllInv, [DllNext]_dllVars PROVE DllInv'
  OBVIOUS
<1>1. ASSUME NEW t \in Threads, Call(t), ~Ended PROVE DllInv'
  BY <1>1, DllTypeStep, LockStep, OwnerStep, ClientStep, CallStep, PollStep,
     CrashStep DEF DllInv
<1>2. ASSUME NEW t \in Threads, Call(t), Ended PROVE FALSE
  BY <1>2, EndedMakesNoCall
<1>3. ASSUME NEW t \in Threads, DllShutdown(t) PROVE DllInv'
  <2>1. DllTypeOK'
    BY <1>3 DEF DllInv, DllTypeOK, DllShutdown
  <2>2. \A u \in Threads : pc'[u] = "shutdown"
    BY <1>3 DEF DllShutdown
  <2> QED
    BY <2>1, <2>2 DEF DllInv, Ended
<1>4. CASE UNCHANGED dllVars
  BY <1>4 DEF Owned, DllInv, DllTypeOK, LockInv, OwnerInv, ClientInv,
     CallInv, PollInv, Ended, Dropping, Connecting, dllVars
<1> QED
  BY <1>1, <1>2, <1>3, <1>4 DEF DllNext

-----------------------------------------------------------------------------
(* The table, its lock, the owners of its ids and the poll list stay       *)
(* consistent under every interleaving of the exported functions.          *)
THEOREM DllInvariance == DllSpec => []DllInv
<1> QED
  BY DllInvInit, DllInvStep, PTL DEF DllSpec

(* Until dllshutdown no function follows a null or dangling client pointer *)
(* or erases past the end of the poll list, for threads that keep to their *)
(* own ids.  dllshutdown itself is not covered.                            *)
THEOREM NoCrashBeforeShutdown == DllSpec => []NoCrash
<1>1. DllInv => NoCrash
  BY DEF DllInv, NoCrash
<1> QED
  BY <1>1, DllInvariance, PTL

(* connectPdc never gives out an id that a thread still uses, and ids in   *)
(* use stand for different clients.                                        *)
THEOREM IdsExclusive == DllSpec => []IdsIdentifyClients
<1>1. ASSUME DllInv PROVE IdsIdentifyClients
  BY <1>1 DEF Owned, DllInv, DllTypeOK, OwnerInv, ClientInv,
     IdsIdentifyClients
<1> QED
  BY <1>1, DllInvariance, PTL

(* Whenever the lock is free, s_socketPollVector has exactly one entry for *)
(* each client of the table.                                               *)
THEOREM PollListSound == DllSpec => []PollListMatchesTable
<1>1. ASSUME DllInv PROVE PollListMatchesTable
  <2>1. SUFFICES ASSUME lock = None, ~Ended PROVE
                 /\ {e.id : e \in pollVector} = {i \in Ids : map[i] # None}
                 /\ \A d, e \in pollVector : d.id = e.id => d = e
                 /\ \A e \in pollVector : sockfd[map[e.id]] \in {e.fd, None}
    BY DEF PollListMatchesTable
  <2>2. \A t \in Threads : pc[t] # "delete"
    BY <1>1, <2>1, DllAssumption DEF DllInv, LockInv, Locking
  <2>3. \A e \in pollVector : e.id \in Ids
    BY <1>1 DEF DllInv, DllTypeOK, Entry
  <2> QED
    BY <1>1, <2>1, <2>2, <2>3 DEF DllInv, PollInv
<1> QED
  BY <1>1, DllInvariance, PTL

-----------------------------------------------------------------------------
(* The empty table maps to no handles. *)
LEMMA HandlesStart == DllInit => Promised!HandlesInit
  BY DEF DllInit, Promised!HandlesInit, HandlesOf, WorksOn, Owned, Dropping, Ended

(* A call opens and closes nothing while the owned ids and the table stay. *)
LEMMA HandlesKept ==
  ASSUME ~Ended, ~Ended', map' = map,
         \A u \in Threads : Owned(u)' = Owned(u)
  PROVE  [u \in Threads |-> HandlesOf(u)]' = [u \in Threads |-> HandlesOf(u)]
<1>1. ASSUME NEW u \in Threads PROVE HandlesOf(u)' = HandlesOf(u)
  BY <1>1 DEF HandlesOf
<1> QED
  BY <1>1

(* The handles of the threads, as records. *)
LEMMA HandleFacts ==
  ASSUME DllInv, ~Ended, NEW u \in Threads
  PROVE  /\ Owned(u) \subseteq Ids
         /\ \A g \in HandlesOf(u) : g.id \in Owned(u) /\ g.object = map[g.id]
         /\ \A i \in Owned(u) : /\ [id |-> i, object |-> map[i]] \in HandlesOf(u)
                                /\ map[i] \in live /\ map[i] \in Clients
  BY DEF HandlesOf, Owned, DllInv, DllTypeOK, OwnerInv, ClientInv

(* connectPdc opens a handle when it writes the slot. *)
LEMMA InsertOpens ==
  ASSUME NEW t \in Threads, Insert(t), DllInv, ~Ended, ~Ended'
  PROVE  Promised!HandlesNext
<1> DEFINE h == [id |-> cursor, object |-> ptr[t]]
<1>1. /\ cursor \in Ids /\ ptr[t] \in Clients /\ ptr[t] \in live
      /\ map[cursor] = None /\ \A i \in Ids : map[i] # ptr[t]
      /\ ptr[t] # None
  BY DllAssumption DEF Insert, DllInv, DllTypeOK, LockInv, ClientInv, Connecting
<1>2. \A u \in Threads : cursor \notin Owned(u)
  BY <1>1 DEF DllInv, OwnerInv
<1>3. \A u \in Threads : Owned(u)' = IF u = t THEN Owned(t) \cup {cursor} ELSE Owned(u)
  BY DEF Insert, Forget, DllInv, DllTypeOK, Owned, Dropping
<1>4. map'[cursor] = ptr[t] /\ \A i \in Ids \ {cursor} : map'[i] = map[i]
  BY <1>1 DEF Insert, DllInv, DllTypeOK
<1>5. \A u \in Threads : HandlesOf(u)' = IF u = t THEN HandlesOf(t) \cup {h} ELSE HandlesOf(u)
  <2> SUFFICES ASSUME NEW u \in Threads
               PROVE  HandlesOf(u)' = IF u = t THEN HandlesOf(t) \cup {h} ELSE HandlesOf(u)
    OBVIOUS
  <2>1. Owned(u) \subseteq Ids
    BY HandleFacts
  <2>2. \A i \in Owned(u) : map'[i] = map[i]
    BY <1>2, <1>4, <2>1
  <2>3. /\ HandlesOf(u)' = {[id |-> i, object |-> map'[i]] : i \in Owned(u)'}
        /\ HandlesOf(u) = {[id |-> i, object |-> map[i]] : i \in Owned(u)}
    BY DEF HandlesOf
  <2>4. CASE u = t
    BY <1>3, <1>4, <2>2, <2>3, <2>4
  <2>5. CASE u # t
    BY <1>3, <2>2, <2>3, <2>5
  <2> QED
    BY <2>4, <2>5
<1>6. \A u \in Threads : WorksOn(u)' = WorksOn(u) /\ WorksOn(t) = None
  BY DEF WorksOn, Insert, Forget, DllInv, DllTypeOK
<1>7. \A u \in Threads : \A g \in HandlesOf(u) : g.id # h.id /\ g.object # h.object
  BY <1>1, <1>2, HandleFacts
<1>8. Promised!OpenHandle(t, h)
  BY <1>1, <1>5, <1>6, <1>7 DEF Promised!OpenHandle, Insert
<1>9. h \in Promised!Handle
  BY <1>1 DEF Promised!Handle
<1> QED
  BY <1>8, <1>9 DEF Promised!HandlesNext

(* disconnectPdc closes it when it empties the slot. *)
LEMMA DeleteCloses ==
  ASSUME NEW t \in Threads, Delete(t), DllInv, ~Ended, ~Ended'
  PROVE  Promised!HandlesNext
<1> DEFINE h == [id |-> arg[t], object |-> map[arg[t]]]
<1>1. arg[t] \in Owned(t) /\ arg[t] \in Ids /\ arg[t] \notin held[t]
  BY DEF Delete, DllInv, DllTypeOK, OwnerInv, Owned, Dropping
<1>2. h \in HandlesOf(t) /\ map[arg[t]] \in live
  BY <1>1, HandleFacts
<1>3. \A u \in Threads : Owned(u)' = IF u = t THEN Owned(t) \ {arg[t]} ELSE Owned(u)
  BY <1>1 DEF Delete, Forget, DllInv, DllTypeOK, Owned, Dropping
<1>4. \A u \in Threads : u # t => arg[t] \notin Owned(u)
  BY <1>1 DEF DllInv, OwnerInv
<1>5. \A i \in Ids \ {arg[t]} : map'[i] = map[i]
  BY DEF Delete, DllInv, DllTypeOK
<1>6. \A u \in Threads : HandlesOf(u)' = IF u = t THEN HandlesOf(t) \ {h} ELSE HandlesOf(u)
  <2> SUFFICES ASSUME NEW u \in Threads
               PROVE  HandlesOf(u)' = IF u = t THEN HandlesOf(t) \ {h} ELSE HandlesOf(u)
    OBVIOUS
  <2>1. Owned(u) \subseteq Ids
    BY HandleFacts
  <2>2. \A i \in Owned(u)' : map'[i] = map[i]
    BY <1>3, <1>4, <1>5, <2>1
  <2>3. /\ HandlesOf(u)' = {[id |-> i, object |-> map'[i]] : i \in Owned(u)'}
        /\ HandlesOf(u) = {[id |-> i, object |-> map[i]] : i \in Owned(u)}
    BY DEF HandlesOf
  <2>4. CASE u = t
    BY <1>3, <2>2, <2>3, <2>4
  <2>5. CASE u # t
    BY <1>3, <2>2, <2>3, <2>5
  <2> QED
    BY <2>4, <2>5
<1>7. \A u \in Threads : WorksOn(u)' = WorksOn(u) /\ WorksOn(t) = None
  BY DEF WorksOn, Delete, Forget, DllInv, DllTypeOK
<1>8. live' = live \ {map[arg[t]]}
  BY <1>2 DEF Delete
<1>9. Promised!CloseHandle(t, h)
  BY <1>2, <1>6, <1>7, <1>8 DEF Promised!CloseHandle
<1> QED
  BY <1>2, <1>9 DEF Promised!HandlesNext

(* dllshutdown unloads. *)
LEMMA ShutdownUnloads ==
  ASSUME NEW t \in Threads, DllShutdown(t), DllInv
  PROVE  Promised!HandlesNext
<1>1. ~Ended /\ Ended' /\ live' \in SUBSET live
  BY DEF DllShutdown, Ended
<1>2. \A u \in Threads : HandlesOf(u)' = {}
  BY <1>1 DEF HandlesOf
<1>3. \A u \in Threads : WorksOn(u) = None /\ WorksOn(u)' = None
  BY DEF WorksOn, DllShutdown
<1>4. Promised!Unload
  BY <1>1, <1>2, <1>3 DEF Promised!Unload
<1> QED
  BY <1>4 DEF Promised!HandlesNext

(* Of the calls, five steps are steps of PdcHandles; the others change     *)
(* nothing that PdcHandles has.                                            *)
LEMMA CallRefines ==
  ASSUME NEW t \in Threads, Call(t), DllInv, ~Ended
  PROVE  [Promised!HandlesNext]_(Promised!handleVars)
<1>0. ~Ended'
  BY CrashStep
<1>a. ASSUME \A u \in Threads : Owned(u)' = Owned(u) /\ WorksOn(u)' = WorksOn(u),
             map' = map
      PROVE  /\ [u \in Threads |-> HandlesOf(u)]' = [u \in Threads |-> HandlesOf(u)]
             /\ [u \in Threads |-> WorksOn(u)]' = [u \in Threads |-> WorksOn(u)]
  BY <1>0, <1>a, HandlesKept
<1>b. ASSUME \A u \in Threads : Owned(u)' = Owned(u) /\ WorksOn(u)' = WorksOn(u),
             map' = map, live' = live
      PROVE  UNCHANGED Promised!handleVars
  BY <1>0, <1>a, <1>b DEF Promised!handleVars
<1>1. ASSUME NEW c \in Clients, NEW f \in Fds, Connect(t, c, f)
      PROVE  Promised!HandlesNext
  <2>1. \A u \in Threads : Owned(u)' = Owned(u) /\ WorksOn(u)' = WorksOn(u)
    BY <1>1 DEF Connect, Owned, Dropping, WorksOn, DllInv, DllTypeOK
  <2>2. Promised!Make(c)
    BY <1>0, <1>1, <1>a, <2>1 DEF Connect, Promised!Make
  <2> QED
    BY <2>2 DEF Promised!HandlesNext
<1>2. CASE LockTable(t)
  <2>1. \A u \in Threads : Owned(u)' = Owned(u) /\ WorksOn(u)' = WorksOn(u)
    BY <1>2 DEF LockTable, Owned, Dropping, WorksOn, DllInv, DllTypeOK
  <2> QED
    BY <1>2, <1>b, <2>1 DEF LockTable
<1>3. CASE Probe(t)
  <2>1. \A u \in Threads : Owned(u)' = Owned(u) /\ WorksOn(u)' = WorksOn(u)
    BY <1>3 DEF Probe, Owned, Dropping, WorksOn, DllInv, DllTypeOK
  <2> QED
    BY <1>3, <1>b, <2>1 DEF Probe
<1>4. CASE Insert(t)
  BY <1>0, <1>4, InsertOpens
<1>5. ASSUME NEW id \in Ids, Check(t, id) PROVE UNCHANGED Promised!handleVars
  <2>1. \A u \in Threads : Owned(u)' = Owned(u) /\ WorksOn(u)' = WorksOn(u)
    BY <1>5 DEF Check, Owned, Dropping, WorksOn, DllInv, DllTypeOK
  <2> QED
    BY <1>5, <1>b, <2>1 DEF Check
<1>6. CASE Fetch(t)
  <2> DEFINE h == [id |-> arg[t], object |-> map[arg[t]]]
  <2>1. \A u \in Threads : Owned(u)' = Owned(u)
    BY <1>6 DEF Fetch, Owned, Dropping, DllInv, DllTypeOK
  <2>2. h \in HandlesOf(t)
    BY <1>6, HandleFacts DEF Fetch, Owned, DllInv, CallInv
  <2>3. /\ WorksOn(t) = None /\ WorksOn(t)' = h.object
        /\ \A u \in Threads : u # t => WorksOn(u)' = WorksOn(u)
    BY <1>6 DEF Fetch, WorksOn, DllInv, DllTypeOK
  <2>4. [u \in Threads |-> HandlesOf(u)]' = [u \in Threads |-> HandlesOf(u)]
    BY <1>0, <1>6, <2>1, HandlesKept DEF Fetch
  <2>5. Promised!BeginCall(t, h)
    BY <1>0, <1>6, <2>2, <2>3, <2>4 DEF Promised!BeginCall, Fetch
  <2> QED
    BY <2>2, <2>5 DEF Promised!HandlesNext
<1>7. CASE Return(t) \/ ReturnClosed(t)
  <2>1. \A u \in Threads : Owned(u)' = Owned(u)
    BY <1>7 DEF Return, ReturnClosed, Forget, Owned, Dropping, DllInv, DllTypeOK
  <2>2. ptr[t] \in live
    BY <1>7, HandleFacts DEF Return, ReturnClosed, Owned, DllInv, CallInv
  <2>3. /\ WorksOn(t) = ptr[t] /\ WorksOn(t)' = None
        /\ \A u \in Threads : u # t => WorksOn(u)' = WorksOn(u)
    BY <1>7 DEF Return, ReturnClosed, Forget, WorksOn, DllInv, DllTypeOK
  <2>4. [u \in Threads |-> HandlesOf(u)]' = [u \in Threads |-> HandlesOf(u)]
    BY <1>0, <1>7, <2>1, HandlesKept DEF Return, ReturnClosed
  <2>5. live' = live
    BY <1>7 DEF Return, ReturnClosed
  <2>6. Promised!EndCall(t)
    BY <1>0, <2>2, <2>3, <2>4, <2>5 DEF Promised!EndCall
  <2> QED
    BY <2>6 DEF Promised!HandlesNext
<1>8. ASSUME NEW id \in Ids, CheckDrop(t, id) PROVE UNCHANGED Promised!handleVars
  <2>1. \A u \in Threads : Owned(u)' = Owned(u) /\ WorksOn(u)' = WorksOn(u)
    BY <1>8 DEF CheckDrop, Owned, Dropping, WorksOn, DllInv, DllTypeOK
  <2> QED
    BY <1>8, <1>b, <2>1 DEF CheckDrop
<1>9. CASE LockDrop(t)
  <2>1. \A u \in Threads : Owned(u)' = Owned(u) /\ WorksOn(u)' = WorksOn(u)
    BY <1>9 DEF LockDrop, Owned, Dropping, WorksOn, DllInv, DllTypeOK
  <2> QED
    BY <1>9, <1>b, <2>1 DEF LockDrop
<1>10. CASE Erase(t)
  <2>1. \A u \in Threads : Owned(u)' = Owned(u) /\ WorksOn(u)' = WorksOn(u)
    BY <1>10 DEF Erase, Owned, Dropping, WorksOn, DllInv, DllTypeOK
  <2> QED
    BY <1>10, <1>b, <2>1 DEF Erase
<1>11. CASE Delete(t)
  BY <1>0, <1>11, DeleteCloses
<1>12. CASE CopyPollVector(t)
  <2>1. \A u \in Threads : Owned(u)' = Owned(u) /\ WorksOn(u)' = WorksOn(u)
    BY <1>12 DEF CopyPollVector, Owned, Dropping, WorksOn, DllInv, DllTypeOK
  <2> QED
    BY <1>12, <1>b, <2>1 DEF CopyPollVector
<1>13. CASE PollReturns(t)
  <2>1. \A u \in Threads : Owned(u)' = Owned(u) /\ WorksOn(u)' = WorksOn(u)
    BY <1>13 DEF PollReturns, Owned, Dropping, WorksOn, DllInv, DllTypeOK
  <2> QED
    BY <1>13, <1>b, <2>1 DEF PollReturns
<1> QED
  BY <1>1, <1>2, <1>3, <1>4, <1>5, <1>6, <1>7, <1>8, <1>9, <1>10, <1>11,
     <1>12, <1>13 DEF Call

(* Every step of the DLL is a step of PdcHandles or a stutter. *)
LEMMA HandlesStep ==
  ASSUME DllInv, [DllNext]_dllVars
  PROVE  [Promised!HandlesNext]_(Promised!handleVars)
<1>1. ASSUME NEW t \in Threads, Call(t), ~Ended
      PROVE  [Promised!HandlesNext]_(Promised!handleVars)
  BY <1>1, CallRefines
<1>2. ASSUME NEW t \in Threads, Call(t), Ended PROVE FALSE
  BY <1>2, EndedMakesNoCall
<1>3. ASSUME NEW t \in Threads, DllShutdown(t) PROVE Promised!HandlesNext
  BY <1>3, ShutdownUnloads
<1>4. CASE UNCHANGED dllVars
  BY <1>4 DEF dllVars, Promised!handleVars, HandlesOf, WorksOn, Owned, Dropping, Ended
<1> QED
  BY <1>1, <1>2, <1>3, <1>4 DEF DllNext

(* The table, its lock and its steps look to the calling threads like      *)
(* handles that are opened, used and closed at once.                       *)
THEOREM DllImplementsHandles == DllSpec => RefinesHandles
<1>1. DllInit => Promised!HandlesInit
  BY HandlesStart
<1>2. DllInv /\ [DllNext]_dllVars => [Promised!HandlesNext]_(Promised!handleVars)
  BY HandlesStep
<1> QED
  BY <1>1, <1>2, DllInvariance, PTL DEF DllSpec, RefinesHandles, Promised!HandlesSpec
=============================================================================
