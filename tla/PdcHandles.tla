------------------------------ MODULE PdcHandles ------------------------------
(***************************************************************************)
(* What the client DLL promises the threads that call it, with no table,   *)
(* lock or poll list: a connection is a handle, an id with a client object *)
(* behind it.  A handle belongs to the thread that opened it, and nobody   *)
(* else opens one with that id or that object until the thread has closed  *)
(* it.  A call with an id works on the object that was behind it when it   *)
(* was opened, which exists as long as the handle does.  StrongridDll      *)
(* implements this module.                                                 *)
(***************************************************************************)
CONSTANTS Threads,        \* the calling threads
          Handles,        \* the ids
          Objects,        \* the objects that may be behind them
          Nothing

VARIABLES exist,          \* the objects that have been made and not deleted
          opened,         \* the handles of each thread: an id and its object
          works,          \* the object that the call of each thread works on
          loaded          \* FALSE once the DLL has been shut down

handleVars == <<exist, opened, works, loaded>>

Handle == [id : Handles, object : Objects]

HandlesInit ==
  /\ exist = {}
  /\ opened = [t \in Threads |-> {}]
  /\ works = [t \in Threads |-> Nothing]
  /\ loaded = TRUE

Make(x) ==
  /\ loaded /\ x \notin exist
  /\ exist' = exist \cup {x}
  /\ UNCHANGED <<opened, works, loaded>>

(* An object that nobody has a handle to gets an id that nobody has. *)
OpenHandle(t, h) ==
  /\ loaded /\ works[t] = Nothing
  /\ h.object \in exist
  /\ \A u \in Threads : \A g \in opened[u] : g.id # h.id /\ g.object # h.object
  /\ opened' = [opened EXCEPT ![t] = @ \cup {h}]
  /\ UNCHANGED <<exist, works, loaded>>

BeginCall(t, h) ==
  /\ h \in opened[t] /\ works[t] = Nothing
  /\ works' = [works EXCEPT ![t] = h.object]
  /\ UNCHANGED <<exist, opened, loaded>>

EndCall(t) ==
  /\ works[t] \in exist
  /\ works' = [works EXCEPT ![t] = Nothing]
  /\ UNCHANGED <<exist, opened, loaded>>

CloseHandle(t, h) ==
  /\ h \in opened[t] /\ works[t] = Nothing
  /\ h.object \in exist
  /\ opened' = [opened EXCEPT ![t] = @ \ {h}]
  /\ exist' = exist \ {h.object}
  /\ UNCHANGED <<works, loaded>>

(* Of the objects nothing is promised. *)
Unload ==
  /\ loaded /\ \A t \in Threads : works[t] = Nothing
  /\ loaded' = FALSE
  /\ opened' = [t \in Threads |-> {}]
  /\ exist' \in SUBSET exist
  /\ UNCHANGED works

HandlesNext ==
  \/ \E x \in Objects : Make(x)
  \/ \E t \in Threads : \/ \E h \in Handle : OpenHandle(t, h)
                        \/ \E h \in opened[t] : BeginCall(t, h) \/ CloseHandle(t, h)
                        \/ EndCall(t)
  \/ Unload

HandlesSpec == HandlesInit /\ [][HandlesNext]_handleVars
=============================================================================
