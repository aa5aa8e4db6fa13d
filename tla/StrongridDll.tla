----------------------------- MODULE StrongridDll -----------------------------
(***************************************************************************)
(* The C interface of the client DLL (StrongridDLL): the table of PdcClient *)
(* objects its callers know by a pseudo id, the cursor that hands the ids  *)
(* out, and the list of sockets that pollPdcWithDataWaiting watches.       *)
(*                                                                         *)
(* The callers are threads of one application.  Each uses an id "in        *)
(* isolation", as the API document asks of them: only the thread whose     *)
(* connectPdc returned an id passes it to another function, until its      *)
(* disconnectPdc.  Only s_clientMapLock orders the threads, and only in    *)
(* connectPdc, disconnectPdc and the copying of the poll list.             *)
(*                                                                         *)
(* A call that fails before it touches anything (a Connect that throws, an *)
(* id that is not valid) changes no state and is no action here.           *)
(***************************************************************************)
EXTENDS Integers

CONSTANTS Threads,      \* the calling threads
          Clients,      \* memory for PdcClient objects; freed memory is used again
          Fds,          \* socket descriptors; closed ones are used again
          MaxClients,   \* MAXIMUM_CONCURRENT_CLIENTS
          None

ASSUME DllAssumption ==
  /\ MaxClients \in Nat \ {0}
  /\ None \notin Threads \cup Clients \cup Fds

Ids == 0..(MaxClients - 1)

VARIABLES
  map,        \* s_pdcClientMap
  cursor,     \* s_pdcClientCursor
  pollVector, \* s_socketPollVector, as a set of (id, descriptor) pairs
  lock,       \* the holder of s_clientMapLock
  live,       \* the PdcClient objects that have been created and not deleted
  sockfd,     \* TcpClient::m_sockfd of each object; None for 0
  pc,         \* where each thread is
  arg,        \* the id of the call the thread is in
  ptr,        \* the client object the call works on
  copied,     \* the copy of pollVector that a poll works on
  held,       \* the ids connectPdc returned to the thread and it still uses
  crashed     \* a null or dangling pointer was followed

tableVars == <<map, cursor, pollVector, lock>>
heapVars == <<live, sockfd>>
callVars == <<arg, ptr, copied>>
dllVars == <<tableVars, heapVars, pc, callVars, held, crashed>>

Entry == [id : Ids, fd : Fds]
Open == {sockfd[c] : c \in live} \ {None}

DllTypeOK ==
  /\ map \in [Ids -> Clients \cup {None}]
  /\ cursor \in Ids
  /\ pollVector \subseteq Entry
  /\ lock \in Threads \cup {None}
  /\ live \subseteq Clients
  /\ sockfd \in [Clients -> Fds \cup {None}]
  /\ pc \in [Threads -> {"idle", "connected", "probe", "insert", "checked", "use",
                         "drop", "erase", "delete", "poll", "shutdown"}]
  /\ arg \in [Threads -> Ids]
  /\ ptr \in [Threads -> Clients \cup {None}]
  /\ copied \in [Threads -> SUBSET Entry]
  /\ held \in [Threads -> SUBSET Ids]
  /\ crashed \in BOOLEAN

DllInit ==
  /\ map = [i \in Ids |-> None]
  /\ cursor = 0
  /\ pollVector = {}
  /\ lock = None
  /\ live = {}
  /\ sockfd = [c \in Clients |-> None]
  /\ pc = [t \in Threads |-> "idle"]
  /\ arg = [t \in Threads |-> 0]
  /\ ptr = [t \in Threads |-> None]
  /\ copied = [t \in Threads |-> {}]
  /\ held = [t \in Threads |-> {}]
  /\ crashed = FALSE

Goto(t, from, to) == pc[t] = from /\ pc' = [pc EXCEPT ![t] = to]

(* The locals of a call end with it. *)
Forget(t) == arg' = [arg EXCEPT ![t] = 0] /\ ptr' = [ptr EXCEPT ![t] = None]

(* PseudoPdcIdIsValidClient: the upper bound is one too high, which no id  *)
(* that connectPdc returned can tell; the lower one excludes 0.            *)
IsValidClient(id) == id <= MaxClients /\ id > 0 /\ map[id] # None
-----------------------------------------------------------------------------
(***************************************************************************)
(* connectPdc.                                                             *)
(***************************************************************************)

(* The connection is made without the lock. *)
Connect(t, c, f) ==
  /\ Goto(t, "idle", "connected")
  /\ c \notin live /\ f \notin Open
  /\ live' = live \cup {c}
  /\ sockfd' = [sockfd EXCEPT ![c] = f]
  /\ ptr' = [ptr EXCEPT ![t] = c]
  /\ UNCHANGED <<tableVars, arg, copied, held, crashed>>

LockTable_Unlocked(t) ==                                           \* mutant
  /\ Goto(t, "connected", "probe")
  /\ lock' = t
  /\ UNCHANGED <<map, cursor, pollVector, heapVars, callVars, held, crashed>>

LockTable(t) ==
  /\ Goto(t, "connected", "probe")
  /\ lock = None
  /\ lock' = t
  /\ UNCHANGED <<map, cursor, pollVector, heapVars, callVars, held, crashed>>

NextCursor_Stuck == IF cursor + 1 < MaxClients THEN cursor + 1 ELSE cursor  \* mutant

NextCursor == (cursor + 1) % MaxClients

Probe_AnySlot(t) ==                                                \* mutant
  /\ Goto(t, "probe", "insert")
  /\ cursor' = NextCursor
  /\ UNCHANGED <<map, pollVector, lock, heapVars, callVars, held, crashed>>

(* One turn of the search for a free slot; with no free slot it never ends. *)
Probe(t) ==
  /\ pc[t] = "probe"
  /\ cursor' = NextCursor
  /\ pc' = [pc EXCEPT ![t] = IF map[cursor'] = None THEN "insert" ELSE "probe"]
  /\ UNCHANGED <<map, pollVector, lock, heapVars, callVars, held, crashed>>

Insert(t) ==
  /\ Goto(t, "insert", "idle")
  /\ map' = [map EXCEPT ![cursor] = ptr[t]]
  /\ pollVector' = pollVector \cup {[id |-> cursor, fd |-> sockfd[ptr[t]]]}
  /\ held' = [held EXCEPT ![t] = @ \cup {cursor}]
  /\ lock' = None
  /\ Forget(t)
  /\ UNCHANGED <<cursor, heapVars, copied, crashed>>
-----------------------------------------------------------------------------

(***************************************************************************)
(* The functions that use a client: readHeaderData, readConfiguration,     *)
(* startDataStream, readNextFrame, the getters...  None takes the lock.    *)
(***************************************************************************)
Check(t, id) ==
  /\ Goto(t, "idle", "checked")
  /\ id \in held[t] /\ IsValidClient(id)
  /\ arg' = [arg EXCEPT ![t] = id]
  /\ UNCHANGED <<tableVars, heapVars, ptr, copied, held, crashed>>

(* The table is read a second time. *)
Fetch(t) ==
  /\ Goto(t, "checked", "use")
  /\ ptr' = [ptr EXCEPT ![t] = map[arg[t]]]
  /\ UNCHANGED <<tableVars, heapVars, arg, copied, held, crashed>>

(* The call returns, with a result, a timeout or an error of the protocol. *)
Return(t) ==
  /\ Goto(t, "use", "idle")
  /\ crashed' = (crashed \/ ptr[t] \notin live)
  /\ Forget(t)
  /\ UNCHANGED <<tableVars, heapVars, copied, held>>

(* The network failed: TcpClient closes its socket, and pollVector keeps   *)
(* the descriptor.                                                         *)
ReturnClosed(t) ==
  /\ Goto(t, "use", "idle")
  /\ ptr[t] \in live
  /\ sockfd' = [sockfd EXCEPT ![ptr[t]] = None]
  /\ Forget(t)
  /\ UNCHANGED <<tableVars, live, copied, held, crashed>>
-----------------------------------------------------------------------------
(***************************************************************************)
(* disconnectPdc.                                                          *)
(***************************************************************************)
CheckDrop(t, id) ==
  /\ Goto(t, "idle", "drop")
  /\ id \in held[t] /\ IsValidClient(id)
  /\ arg' = [arg EXCEPT ![t] = id]
  /\ held' = [held EXCEPT ![t] = @ \ {id}]
  /\ UNCHANGED <<tableVars, heapVars, ptr, copied, crashed>>

LockDrop(t) ==
  /\ Goto(t, "drop", "erase")
  /\ lock = None
  /\ lock' = t
  /\ UNCHANGED <<map, cursor, pollVector, heapVars, callVars, held, crashed>>

EntryOf(id) == {e \in pollVector : e.id = id}

(* erase(end()) is undefined: the program is lost. *)
Erase(t) ==
  /\ Goto(t, "erase", "delete")
  /\ pollVector' = pollVector \ EntryOf(arg[t])
  /\ crashed' = (crashed \/ EntryOf(arg[t]) = {})
  /\ UNCHANGED <<map, cursor, lock, heapVars, callVars, held>>

Delete_KeepsSlot(t) ==                                             \* mutant
  /\ Goto(t, "delete", "idle")
  /\ map[arg[t]] \in live
  /\ live' = live \ {map[arg[t]]}
  /\ sockfd' = [sockfd EXCEPT ![map[arg[t]]] = None]
  /\ lock' = None
  /\ Forget(t)
  /\ UNCHANGED <<map, cursor, pollVector, copied, held, crashed>>

Delete(t) ==
  /\ Goto(t, "delete", "idle")
  /\ IF map[arg[t]] \in live
     THEN /\ live' = live \ {map[arg[t]]}
          /\ sockfd' = [sockfd EXCEPT ![map[arg[t]]] = None]
          /\ UNCHANGED crashed
     ELSE /\ crashed' = TRUE
          /\ UNCHANGED heapVars
  /\ map' = [map EXCEPT ![arg[t]] = None]
  /\ lock' = None
  /\ Forget(t)
  /\ UNCHANGED <<cursor, pollVector, copied, held>>
-----------------------------------------------------------------------------
(***************************************************************************)
(* pollPdcWithDataWaiting and dllshutdown.                                 *)
(***************************************************************************)

(* The list is copied under the lock and the lock released. *)
CopyPollVector(t) ==
  /\ Goto(t, "idle", "poll")
  /\ lock = None
  /\ copied' = [copied EXCEPT ![t] = pollVector]
  /\ UNCHANGED <<tableVars, heapVars, arg, ptr, held, crashed>>

(* The ids whose copied descriptors may show data.  A closed descriptor   *)
(* sets POLLNVAL, which is not among the bits that are tested.             *)
Ready(t) == {e.id : e \in {x \in copied[t] : x.fd \in Open}}

(* WSAPoll returns at any later time, and the call with any part of        *)
(* Ready(t); the caller does not keep it.                                  *)
PollReturns(t) ==
  /\ Goto(t, "poll", "idle")
  /\ copied' = [copied EXCEPT ![t] = {}]
  /\ UNCHANGED <<tableVars, heapVars, arg, ptr, held, crashed>>

(* dllshutdown goes through the table from slot 0 without the lock and     *)
(* follows every pointer, the null ones too (its comment speaks of "every  *)
(* non-null entry").  No thread may be in a call, and none makes one       *)
(* afterwards.                                                             *)
DllShutdown(t) ==
  /\ \A u \in Threads : pc[u] = "idle"
  /\ pc' = [u \in Threads |-> "shutdown"]
  /\ LET reached == {i \in Ids : \A j \in 0..i : map[j] # None}
     IN  /\ live' = live \ {map[i] : i \in reached}
         /\ sockfd' = [c \in Clients |-> IF c \in live' THEN sockfd[c] ELSE None]
         /\ crashed' = (reached # Ids)
  /\ UNCHANGED <<tableVars, callVars, held>>
-----------------------------------------------------------------------------
Call(t) ==
  \/ \E c \in Clients, f \in Fds : Connect(t, c, f)
  \/ LockTable(t) \/ Probe(t) \/ Insert(t)
  \/ \E id \in Ids : Check(t, id)
  \/ Fetch(t) \/ Return(t) \/ ReturnClosed(t)
  \/ \E id \in Ids : CheckDrop(t, id)
  \/ LockDrop(t) \/ Erase(t) \/ Delete(t)
  \/ CopyPollVector(t) \/ PollReturns(t)

DllNext == ~crashed /\ \E t \in Threads : Call(t) \/ DllShutdown(t)

DllSpec == DllInit /\ [][DllNext]_dllVars

(* A thread inside connectPdc or disconnectPdc goes on, and the mutex is   *)
(* granted to a waiting thread if it keeps being released.  Nothing makes  *)
(* a call that reads from the network return.                              *)
DllFairSpec ==
  /\ DllSpec
  /\ \A t \in Threads :
        /\ WF_dllVars(~crashed /\ (Probe(t) \/ Insert(t) \/ Erase(t) \/ Delete(t)))
        /\ SF_dllVars(~crashed /\ (LockTable(t) \/ LockDrop(t)))
-----------------------------------------------------------------------------
(***************************************************************************)
(* The invariant of the table, and its parts.                              *)
(***************************************************************************)
Locking == {"probe", "insert", "erase", "delete"}
Connecting(t) == pc[t] \in {"connected", "probe", "insert"}
Dropping(t) == pc[t] \in {"drop", "erase", "delete"}
Ended == \E t \in Threads : pc[t] = "shutdown"

(* The ids whose slots only thread t may empty. *)
Owned(t) == held[t] \cup (IF Dropping(t) THEN {arg[t]} ELSE {})

(* The mutex keeps connectPdc and disconnectPdc apart. *)
LockInv ==
  /\ \A t \in Threads : lock = t <=> pc[t] \in Locking
  /\ \A t \in Threads : pc[t] = "insert" => map[cursor] = None

(* No two threads own an id, and the slots in use are the owned ones. *)
OwnerInv ==
  /\ \A t, u \in Threads : t # u => Owned(t) \cap Owned(u) = {}
  /\ \A t \in Threads : Dropping(t) => arg[t] \notin held[t]
  /\ \A i \in Ids : map[i] # None <=> \E t \in Threads : i \in Owned(t)

(* Every client that exists for the table exists, once. *)
ClientInv ==
  /\ \A i \in Ids : map[i] # None => map[i] \in live
  /\ \A i, j \in Ids : map[i] # None /\ map[i] = map[j] => i = j
  /\ \A t \in Threads : Connecting(t) =>
        /\ ptr[t] \in live /\ sockfd[ptr[t]] # None
        /\ \A i \in Ids : map[i] # ptr[t]
        /\ \A u \in Threads : Connecting(u) /\ ptr[u] = ptr[t] => u = t

(* A call works on the client whose id its thread passed. *)
CallInv ==
  \A t \in Threads :
     /\ pc[t] \in {"checked", "use"} => arg[t] \in held[t]
     /\ pc[t] = "use" => ptr[t] = map[arg[t]]

(* The poll list has one entry for each slot in use, with the descriptor   *)
(* of its client unless that has closed it.                                *)
PollInv ==
  /\ \A e \in pollVector :
        /\ map[e.id] # None
        /\ sockfd[map[e.id]] \in {e.fd, None}
        /\ \A d \in pollVector : d.id = e.id => d = e
        /\ \A t \in Threads : pc[t] = "delete" => e.id # arg[t]
  /\ \A i \in Ids : map[i] # None =>
        \/ \E e \in pollVector : e.id = i
        \/ \E t \in Threads : pc[t] = "delete" /\ arg[t] = i

(* The inductive invariant: all of this until dllshutdown, which leaves    *)
(* the table full of dangling pointers (Strongrid.cpp:27-31, 59-127).      *)
DllInv ==
  /\ DllTypeOK
  /\ crashed => Ended
  /\ Ended => \A t \in Threads : pc[t] = "shutdown"
  /\ ~Ended => LockInv /\ OwnerInv /\ ClientInv /\ CallInv /\ PollInv
-----------------------------------------------------------------------------
(* However the calls of the threads interleave, until the DLL is shut down *)
(* no function follows a null or dangling client pointer, although the     *)
(* check of the id and both reads of the table are made without the lock   *)
(* (Strongrid.cpp:101, 132-135), and no disconnect erases past the end of  *)
(* the poll list (:109).  Of dllshutdown it says nothing: that does follow *)
(* the null pointers of the free slots (:242), against its comment (:239). *)
NoCrash == ~Ended => ~crashed

(* "A pseudoPdcId, uniquely identifying the PDC" (API_Documentation.md:63): *)
(* no two threads hold the same id, and the ids in use stand for different *)
(* clients that exist.                                                     *)
IdsIdentifyClients ==
  ~Ended =>
    /\ \A t, u \in Threads : t # u => held[t] \cap held[u] = {}
    /\ \A t, u \in Threads : \A i \in held[t], j \in held[u] :
          map[i] \in live /\ (map[i] = map[j] => i = j)

(* While nobody holds the lock, the poll list watches the clients of the   *)
(* table, each once, by their own descriptors or ones they have closed     *)
(* (Strongrid.cpp:88-91, 103-117).                                         *)
PollListMatchesTable ==
  lock = None /\ ~Ended =>
    /\ {e.id : e \in pollVector} = {i \in Ids : map[i] # None}
    /\ \A d, e \in pollVector : d.id = e.id => d = e
    /\ \A e \in pollVector : sockfd[map[e.id]] \in {e.fd, None}

(* A handle is an id with the client in its slot, from Insert to Delete:   *)
(* the id that a thread disconnects is still in use.                       *)
HandlesOf(t) == IF Ended THEN {} ELSE {[id |-> i, object |-> map[i]] : i \in Owned(t)}
WorksOn(t) == IF pc[t] = "use" THEN ptr[t] ELSE None

Promised == INSTANCE PdcHandles WITH
  Handles <- Ids, Objects <- Clients, Nothing <- None,
  exist  <- live,
  opened <- [t \in Threads |-> HandlesOf(t)],
  works  <- [t \in Threads |-> WorksOn(t)],
  loaded <- ~Ended

(* The DLL implements the handles of PdcHandles: although a call checks its*)
(* id, reads the table again and uses the client in three steps without the*)
(* lock, and connectPdc and disconnectPdc take several steps each, callers *)
(* cannot tell them from calls that happen at once (Strongrid.cpp:59-135). *)
RefinesHandles == Promised!HandlesSpec

(* The whole table is in use, and a connectPdc looks for a slot in it with *)
(* the lock held: it never finds one, and nobody can free one              *)
(* (Strongrid.cpp:75-80).                                                  *)
SearchesFullTable == \E t \in Threads : pc[t] = "probe" /\ \A i \in Ids : map[i] # None

(* Once connected, connectPdc returns, and a disconnectPdc returns, unless *)
(* the table was full (Strongrid.cpp:72-93, 103-117).                      *)
CallsReturn ==
  \A t \in Threads :
     (Connecting(t) \/ Dropping(t)) ~> (pc[t] = "idle" \/ SearchesFullTable)

(* An id that connectPdc returned is one that the other functions take:    *)
(* "Assert on the pseudopdcid - must be >= 0" (StrongridDLLStressTest/     *)
(* main.cpp:282) counts 0 among them, PseudoPdcIdIsValidClient does not    *)
(* (Strongrid.cpp:96).                                                     *)
HeldIdsAccepted == ~Ended => \A t \in Threads : \A i \in held[t] : IsValidClient(i)

(* The ids a poll returns "can only contain any of the PseudoPdcId numbers *)
(* related to PMU/PDCs currently connected" (API_Documentation.md:79).     *)
PollsConnected == \A t \in Threads : pc[t] = "poll" => \A i \in Ready(t) : map[i] # None
=============================================================================
