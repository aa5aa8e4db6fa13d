------------------------------ MODULE PdcServer ------------------------------
(***************************************************************************)
(* The simulated PDC as a TCP server: strongridsim::PDC, its TcpServer and *)
(* the Socket and PdcClient objects they share.                            *)
(*                                                                         *)
(* Three threads of one process interleave:                                *)
(*   - the application thread calls Start, Shutdown and the setters;       *)
(*   - the PDC thread (PdcProc) runs one tick per data frame: it takes     *)
(*     m_lock, serves the one-time actions, polls the sockets, answers one *)
(*     command per readable socket, sends the data frame to the streaming  *)
(*     clients and drops the faulty ones;                                  *)
(*   - the TCP thread (TcpServerProc) accepts connections and hands each   *)
(*     to SafeEnlistClient, which needs m_lock.                            *)
(* The peers connect, send frames (whole or in pieces), stop reading and   *)
(* leave at any moment.                                                    *)
(*                                                                         *)
(* A connection stands for its Socket and its PdcClient.  m_clients and    *)
(* the local lists of a tick are sets: the order of the vectors is the     *)
(* order of connection and nothing below depends on it; faultySockets,     *)
(* which may name a socket twice, is a count per connection.  Recursive    *)
(* acquisitions of m_lock by its holder change nothing and are left out.   *)
(***************************************************************************)
EXTENDS Naturals, Sequences

CONSTANTS Conns,        \* connections the peers may open
          Frames,       \* the kinds of frame the peers may send
          Requests,     \* the one-time actions the application asks for
          Version,      \* m_version: 1 (CFG1, CFG2) or 2 (CFG3 as well)
          MaxInbox,     \* bound: frames of a connection sent and not yet read
          MaxConfig,    \* bound: calls of SetConfiguration
          Stalling      \* the connections whose peer may stop reading

Actions == {"sendConfig", "startRTD", "stopRTD"}
AllFrames == {"SEND_CFG", "SEND_CFG3", "SEND_HDR", "START_RTD", "KILL_RTD",
              "OTHER", "PARTIAL"}

ASSUME ConstantsAssumption ==
  /\ Frames \subseteq AllFrames
  /\ Requests \subseteq Actions
  /\ Version \in {1, 2}
  /\ MaxInbox \in Nat
  /\ MaxConfig \in Nat
  /\ Stalling \subseteq Conns

Configs == 0..MaxConfig

VARIABLES
  \* the PDC and TcpServer objects
  isActive,         \* PDC::m_isActive
  threadIsActive,   \* PDC::m_threadIsActive
  action,           \* PDC::m_actionSendConfig, m_actionStartRTD, m_actionStopRTD
  config,           \* PDC::m_pdcConfig, as the number of the SetConfiguration call
  lock,             \* the holder of PDC::m_lock
  clients,          \* PDC::m_clients
  rtd,              \* PdcClient::m_rtdActive
  fd,               \* the life of each Socket object
  tcpActive,        \* TcpServer::m_isActive
  tcpAlive,         \* TcpServer::m_threadIsAlive
  \* where each thread is, and the locals of a tick of PdcProc
  appPc, pdcPc, tcpPc,
  ota,              \* otaSendConfig, otaStartRTD, otaStopRTD
  todo,             \* clients the loop of the one-time actions has yet to visit
  active,           \* activeRdtList
  ready,            \* readSockets not yet handled
  faulty,           \* how often faultySockets names the socket
  terminated,       \* an exception left a thread's procedure: the process is gone
  \* the peers
  peer,             \* "up", "stalled" (its receive window is full) or "gone"
  inbox,            \* frames sent by the peer and not yet read
  \* history, for the properties only
  announced,        \* the configuration last sent to the client
  overrun,          \* data frames sent since the client's stream was stopped
  joined, dropped,  \* onClientConnected and onClientDropped events published
  misbehaved        \* the peer left or sent something the server rejects

objVars == <<isActive, threadIsActive, action, config, lock, clients, rtd, fd,
             tcpActive, tcpAlive>>
tickVars == <<ota, todo, active, ready, faulty>>
peerVars == <<peer, inbox>>
histVars == <<announced, overrun, joined, dropped, misbehaved>>
vars == <<objVars, appPc, pdcPc, tcpPc, tickVars, terminated, peerVars, histVars>>

Sat2(n) == IF n < 2 THEN n + 1 ELSE 2     \* bound: history counts stop at 2

NoActions == [a \in Actions |-> FALSE]
NoFaults == [c \in Conns |-> 0]

TickPcs == {"flags", "clear", "ota", "read", "send", "drop"}
Connected == {"backlog", "accepted", "open"}

TypeOK ==
  /\ isActive \in BOOLEAN /\ threadIsActive \in BOOLEAN
  /\ tcpActive \in BOOLEAN /\ tcpAlive \in BOOLEAN /\ terminated \in BOOLEAN
  /\ action \in [Actions -> BOOLEAN] /\ ota \in [Actions -> BOOLEAN]
  /\ config \in Configs
  /\ lock \in {"free", "pdc", "app"}
  /\ clients \in SUBSET Conns /\ todo \in SUBSET Conns
  /\ active \in SUBSET Conns /\ ready \in SUBSET Conns
  /\ faulty \in [Conns -> 0..2]
  /\ rtd \in [Conns -> BOOLEAN]
  /\ fd \in [Conns -> Connected \cup {"none", "closed", "deleted", "refused"}]
  /\ appPc \in {"new", "starting", "running", "startFailed", "waitPdc",
                "wantLock", "waitTcp", "stopped"}
  /\ pdcPc \in {"none", "loop", "lock", "ended"} \cup TickPcs
  /\ tcpPc \in {"none", "listen", "select", "enlist", "ended"}
  /\ peer \in [Conns -> {"up", "stalled", "gone"}]
  /\ inbox \in [Conns -> Seq(Frames)]
  /\ announced \in [Conns -> Configs \cup {MaxConfig + 1}]
  /\ overrun \in [Conns -> 0..2]
  /\ joined \in [Conns -> 0..2] /\ dropped \in [Conns -> 0..2]
  /\ misbehaved \in SUBSET Conns

(* The constructors leave PDC::m_threadIsActive and both flags of the      *)
(* TcpServer uninitialised: they hold whatever the memory held.  (So do    *)
(* the m_action flags, which Start sets before anything reads them.)       *)
Init ==
  /\ threadIsActive \in BOOLEAN /\ tcpActive \in BOOLEAN /\ tcpAlive \in BOOLEAN
  /\ isActive = FALSE /\ terminated = FALSE
  /\ action = NoActions /\ ota = NoActions
  /\ config = 0
  /\ lock = "free"
  /\ clients = {} /\ todo = {} /\ active = {} /\ ready = {}
  /\ faulty = NoFaults
  /\ rtd = [c \in Conns |-> FALSE]
  /\ fd = [c \in Conns |-> "none"]
  /\ appPc = "new" /\ pdcPc = "none" /\ tcpPc = "none"
  /\ peer = [c \in Conns |-> "up"]
  /\ inbox = [c \in Conns |-> <<>>]
  /\ announced = [c \in Conns |-> MaxConfig + 1]
  /\ overrun = [c \in Conns |-> 0]
  /\ joined = [c \in Conns |-> 0] /\ dropped = [c \in Conns |-> 0]
  /\ misbehaved = {}
-----------------------------------------------------------------------------

(***************************************************************************)
(* The application thread.                                                 *)
(***************************************************************************)

(* Start, up to the two _beginthread calls: a thread that has begun and    *)
(* not yet run is one that has not begun.                                  *)
StartThreads ==
  /\ appPc = "new" /\ ~tcpActive
  /\ isActive' = TRUE
  /\ action' = NoActions
  /\ tcpActive' = TRUE /\ tcpAlive' = TRUE
  /\ appPc' = "starting" /\ tcpPc' = "listen" /\ pdcPc' = "loop"
  /\ UNCHANGED <<threadIsActive, config, lock, clients, rtd, fd, tickVars,
                 terminated, peerVars, histVars>>

(* TcpServer::Start throws when its uninitialised m_isActive reads true:   *)
(* PDC::m_isActive stays set and no thread runs.                           *)
StartThrows ==
  /\ appPc = "new" /\ tcpActive
  /\ isActive' = TRUE
  /\ action' = NoActions
  /\ appPc' = "startFailed"
  /\ UNCHANGED <<threadIsActive, config, lock, clients, rtd, fd, tcpActive,
                 tcpAlive, pdcPc, tcpPc, tickVars, terminated, peerVars, histVars>>

(* The last statement of Start, with both threads already running. *)
MarkThreadActive ==
  /\ appPc = "starting"
  /\ threadIsActive' = TRUE
  /\ appPc' = "running"
  /\ UNCHANGED <<isActive, action, config, lock, clients, rtd, fd, tcpActive,
                 tcpAlive, pdcPc, tcpPc, tickVars, terminated, peerVars, histVars>>

(* SendConfigurationAll, StartRealtimeDataAll and StopRealtimeDataAll set  *)
(* a volatile flag without taking m_lock.                                  *)
Request(a) ==
  /\ appPc = "running"
  /\ action' = [action EXCEPT ![a] = TRUE]
  /\ UNCHANGED <<isActive, threadIsActive, config, lock, clients, rtd, fd,
                 tcpActive, tcpAlive, appPc, pdcPc, tcpPc, tickVars, terminated,
                 peerVars, histVars>>

SetConfiguration ==
  /\ appPc = "running"
  /\ lock = "free"
  /\ config < MaxConfig
  /\ config' = config + 1
  /\ UNCHANGED <<isActive, threadIsActive, action, lock, clients, rtd, fd,
                 tcpActive, tcpAlive, appPc, pdcPc, tcpPc, tickVars, terminated,
                 peerVars, histVars>>

Shutdown ==
  /\ appPc \in {"running", "startFailed"}
  /\ isActive' = FALSE
  /\ appPc' = "waitPdc"
  /\ UNCHANGED <<threadIsActive, action, config, lock, clients, rtd, fd,
                 tcpActive, tcpAlive, pdcPc, tcpPc, tickVars, terminated,
                 peerVars, histVars>>

PdcThreadGone_NoWait == TRUE                                       \* mutant

(* while( m_threadIsActive == true ) Sleep(20); *)
PdcThreadGone == ~threadIsActive

PdcThreadJoined ==
  /\ appPc = "waitPdc" /\ PdcThreadGone
  /\ appPc' = "wantLock"
  /\ UNCHANGED <<objVars, pdcPc, tcpPc, tickVars, terminated, peerVars, histVars>>

(* m_lock is taken and kept while TcpServer::Shutdown waits for its thread. *)
StopTcpServer ==
  /\ appPc = "wantLock" /\ lock = "free"
  /\ lock' = "app"
  /\ tcpActive' = FALSE
  /\ appPc' = "waitTcp"
  /\ UNCHANGED <<isActive, threadIsActive, action, config, clients, rtd, fd,
                 tcpAlive, pdcPc, tcpPc, tickVars, terminated, peerVars, histVars>>

TcpThreadGone_NoWait == TRUE                                       \* mutant

(* while( m_threadIsAlive ) Sleep(50); *)
TcpThreadGone == ~tcpAlive

(* Deleting the clients deletes and closes their sockets; no event is      *)
(* published.  The destructor's second Shutdown finds nothing left to do.  *)
FreeAll ==
  /\ appPc = "waitTcp" /\ TcpThreadGone
  /\ fd' = [c \in Conns |-> IF c \in clients THEN "deleted" ELSE fd[c]]
  /\ clients' = {}
  /\ lock' = "free"
  /\ appPc' = "stopped"
  /\ UNCHANGED <<isActive, threadIsActive, action, config, rtd, tcpActive,
                 tcpAlive, pdcPc, tcpPc, tickVars, terminated, peerVars, histVars>>

AppNext ==
  \/ StartThreads \/ StartThrows \/ MarkThreadActive
  \/ \E a \in Requests : Request(a)
  \/ SetConfiguration
  \/ Shutdown \/ PdcThreadJoined \/ StopTcpServer \/ FreeAll
-----------------------------------------------------------------------------
(***************************************************************************)
(* The TCP thread.                                                         *)
(***************************************************************************)

Listen ==
  /\ tcpPc = "listen"
  /\ tcpPc' = "select"
  /\ UNCHANGED <<objVars, appPc, pdcPc, tickVars, terminated, peerVars, histVars>>

(* exit(1), or an Exception nothing catches: no address, no free port. *)
ListenFails ==
  /\ tcpPc = "listen"
  /\ terminated' = TRUE
  /\ UNCHANGED <<objVars, appPc, pdcPc, tcpPc, tickVars, peerVars, histVars>>

Accept(c) ==
  /\ tcpPc = "select" /\ tcpActive
  /\ fd[c] = "backlog"
  /\ fd' = [fd EXCEPT ![c] = "accepted"]
  /\ tcpPc' = "enlist"
  /\ UNCHANGED <<isActive, threadIsActive, action, config, lock, clients, rtd,
                 tcpActive, tcpAlive, appPc, pdcPc, tickVars, terminated,
                 peerVars, histVars>>

(* accept returns -1 for a peer that has already reset the connection;     *)
(* setsockopt is called on the -1 before it is tested, and throws.         *)
AcceptThrows(c) ==
  /\ tcpPc = "select" /\ tcpActive
  /\ fd[c] = "backlog" /\ peer[c] = "gone"
  /\ terminated' = TRUE
  /\ UNCHANGED <<objVars, appPc, pdcPc, tcpPc, tickVars, peerVars, histVars>>

(* SafeEnlistClient: the thread waits for m_lock with the socket in hand.  *)
SafeEnlistClient(c) ==
  /\ tcpPc = "enlist" /\ fd[c] = "accepted"
  /\ lock = "free"
  /\ joined' = [joined EXCEPT ![c] = Sat2(@)]
  /\ rtd' = [rtd EXCEPT ![c] = TRUE]
  /\ clients' = clients \cup {c}
  /\ fd' = [fd EXCEPT ![c] = "open"]
  /\ tcpPc' = "select"
  /\ UNCHANGED <<isActive, threadIsActive, action, config, lock, tcpActive,
                 tcpAlive, appPc, pdcPc, tickVars, terminated, peerVars,
                 announced, overrun, dropped, misbehaved>>

(* Closing the listeners resets the connections nobody accepted. *)
TcpThreadEnds ==
  /\ tcpPc = "select" /\ ~tcpActive
  /\ fd' = [c \in Conns |-> IF fd[c] = "backlog" THEN "refused" ELSE fd[c]]
  /\ tcpAlive' = FALSE
  /\ tcpPc' = "ended"
  /\ UNCHANGED <<isActive, threadIsActive, action, config, lock, clients, rtd,
                 tcpActive, appPc, pdcPc, tickVars, terminated, peerVars, histVars>>

TcpNext ==
  \/ Listen \/ ListenFails \/ TcpThreadEnds
  \/ \E c \in Conns : Accept(c) \/ AcceptThrows(c) \/ SafeEnlistClient(c)
-----------------------------------------------------------------------------

(***************************************************************************)
(* The PDC thread: one pass of the while loop of PdcProc is one tick.      *)
(***************************************************************************)

TestActive_ForgetsFlag ==                                          \* mutant
  /\ pdcPc = "loop"
  /\ pdcPc' = IF isActive THEN "lock" ELSE "ended"
  /\ UNCHANGED <<objVars, appPc, tcpPc, tickVars, terminated, peerVars, histVars>>

(* The loop condition, and on the way out onPdcStopped and the flag that   *)
(* lets Shutdown go on.                                                    *)
TestActive ==
  /\ pdcPc = "loop"
  /\ IF isActive
     THEN pdcPc' = "lock" /\ UNCHANGED threadIsActive
     ELSE pdcPc' = "ended" /\ threadIsActive' = FALSE
  /\ UNCHANGED <<isActive, action, config, lock, clients, rtd, fd, tcpActive,
                 tcpAlive, appPc, tcpPc, tickVars, terminated, peerVars, histVars>>

BeginTick_KeepsLock ==                                             \* mutant
  /\ pdcPc = "lock" /\ lock \in {"free", "pdc"}
  /\ pdcPc' = IF clients = {} THEN "loop" ELSE "flags"
  /\ lock' = "pdc"
  /\ UNCHANGED <<isActive, threadIsActive, action, config, clients, rtd, fd,
                 tcpActive, tcpAlive, appPc, tcpPc, tickVars, terminated,
                 peerVars, histVars>>

(* After the Sleep.  With no client the tick is over: the requests stay.   *)
BeginTick ==
  /\ pdcPc = "lock" /\ lock = "free"
  /\ IF clients = {}
     THEN pdcPc' = "loop" /\ UNCHANGED lock
     ELSE pdcPc' = "flags" /\ lock' = "pdc"
  /\ UNCHANGED <<isActive, threadIsActive, action, config, clients, rtd, fd,
                 tcpActive, tcpAlive, appPc, tcpPc, tickVars, terminated,
                 peerVars, histVars>>

(* The three unlocked reads are one step, and so are the three clears.  In *)
(* between, the application can only set flags and Shutdown only m_isActive,*)
(* no two of which get in each other's way and whose order nothing records:*)
(* a flag set before its own read or clear might as well have been set     *)
(* before them all, one set after it after them all.  So single steps would*)
(* reach no other state.                                                   *)
ReadFlags ==
  /\ pdcPc = "flags"
  /\ ota' = action
  /\ pdcPc' = "clear"
  /\ UNCHANGED <<objVars, appPc, tcpPc, todo, active, ready, faulty, terminated,
                 peerVars, histVars>>

Cleared_All == NoActions                                           \* mutant

(* Only what was read as true is cleared: a request set in between either  *)
(* stays, or joins the one about to be served.                             *)
Cleared == [a \in Actions |-> action[a] /\ ~ota[a]]

ClearFlags ==
  /\ pdcPc = "clear"
  /\ action' = Cleared
  /\ todo' = clients
  /\ pdcPc' = "ota"
  /\ UNCHANGED <<isActive, threadIsActive, config, lock, clients, rtd, fd,
                 tcpActive, tcpAlive, appPc, tcpPc, ota, active, ready, faulty,
                 terminated, peerVars, histVars>>

(* send() took the whole buffer, or failed (Socket::Send closes the fd and *)
(* throws).  A peer that has gone may still get data into the TCP buffer;  *)
(* one that does not read blocks the call.                                 *)
CanSend(c) == fd[c] = "open" /\ peer[c] # "stalled"
SendFails(c) == fd[c] # "open" \/ peer[c] = "gone"

StreamAfterActions(c) ==
  IF ota["stopRTD"] THEN FALSE ELSE rtd[c] \/ ota["startRTD"]

ServeActions_IgnoresStream(c) ==                                   \* mutant
  /\ pdcPc = "ota" /\ c \in todo
  /\ rtd' = [rtd EXCEPT ![c] = StreamAfterActions(c)]
  /\ overrun' = IF ota["startRTD"] \/ ota["stopRTD"]
                THEN [overrun EXCEPT ![c] = 0] ELSE overrun
  /\ active' = active \cup {c}
  /\ todo' = todo \ {c}
  /\ UNCHANGED <<isActive, threadIsActive, action, config, lock, clients, fd,
                 tcpActive, tcpAlive, appPc, pdcPc, tcpPc, ota, ready, faulty,
                 terminated, peerVars, announced, joined, dropped, misbehaved>>

(* One client of the loop over m_clients. *)
ServeActions(c) ==
  /\ pdcPc = "ota" /\ c \in todo
  /\ ota["sendConfig"] => CanSend(c)
  /\ announced' = IF ota["sendConfig"] THEN [announced EXCEPT ![c] = config]
                                       ELSE announced
  /\ rtd' = [rtd EXCEPT ![c] = StreamAfterActions(c)]
  /\ overrun' = IF ota["startRTD"] \/ ota["stopRTD"]
                THEN [overrun EXCEPT ![c] = 0] ELSE overrun
  /\ active' = IF StreamAfterActions(c) THEN active \cup {c} ELSE active
  /\ todo' = todo \ {c}
  /\ UNCHANGED <<isActive, threadIsActive, action, config, lock, clients, fd,
                 tcpActive, tcpAlive, appPc, pdcPc, tcpPc, ota, ready, faulty,
                 terminated, peerVars, joined, dropped, misbehaved>>

(* The Send of the broadcast is outside every try block. *)
BroadcastThrows(c) ==
  /\ pdcPc = "ota" /\ c \in todo
  /\ ota["sendConfig"] /\ SendFails(c)
  /\ terminated' = TRUE
  /\ UNCHANGED <<objVars, appPc, pdcPc, tcpPc, tickVars, peerVars, histVars>>

Readable(c) == inbox[c] # <<>> \/ peer[c] = "gone"

Poll_OneSocket ==                                                  \* mutant
  /\ pdcPc = "ota" /\ todo = {}
  /\ ready' = IF \E c \in clients : Readable(c)
              THEN {CHOOSE c \in clients : Readable(c)} ELSE {}
  /\ pdcPc' = "read"
  /\ UNCHANGED <<objVars, appPc, tcpPc, ota, todo, active, faulty, terminated,
                 peerVars, histVars>>

Poll ==
  /\ pdcPc = "ota" /\ todo = {}
  /\ ready' = {c \in clients : Readable(c)}
  /\ pdcPc' = "read"
  /\ UNCHANGED <<objVars, appPc, tcpPc, ota, todo, active, faulty, terminated,
                 peerVars, histVars>>

(* recv returned 0 or an error, at the header or in the middle of a frame. *)
ReadFails(c) ==
  /\ pdcPc = "read" /\ c \in ready
  /\ peer[c] = "gone"
  /\ fd' = [fd EXCEPT ![c] = "closed"]
  /\ faulty' = [faulty EXCEPT ![c] = Sat2(@)]
  /\ inbox' = [inbox EXCEPT ![c] = <<>>]
  /\ ready' = ready \ {c}
  /\ UNCHANGED <<isActive, threadIsActive, action, config, lock, clients, rtd,
                 tcpActive, tcpAlive, appPc, pdcPc, tcpPc, ota, todo, active,
                 terminated, peer, histVars>>

(* The frame at the head of the stream, when all of it has arrived; the    *)
(* thread waits in recv, with m_lock held, until it has.                   *)
HasFrame(c) == inbox[c] # <<>> /\ Head(inbox[c]) # "PARTIAL"

Consume(c) ==
  /\ pdcPc = "read" /\ c \in ready /\ HasFrame(c)
  /\ inbox' = [inbox EXCEPT ![c] = Tail(@)]
  /\ ready' = ready \ {c}

(* CFG1 and CFG2, HDR, and CFG3 where the version has it. *)
IsQuery(f) == f \in {"SEND_CFG", "SEND_HDR"} \/ (f = "SEND_CFG3" /\ Version = 2)

IsRejected(f) == f = "OTHER" \/ (f = "SEND_CFG3" /\ Version # 2)

AnswerQuery(c) ==
  /\ Consume(c) /\ IsQuery(Head(inbox[c]))
  /\ CanSend(c)
  /\ announced' = IF Head(inbox[c]) = "SEND_CFG"
                  THEN [announced EXCEPT ![c] = config] ELSE announced
  /\ UNCHANGED <<objVars, appPc, pdcPc, tcpPc, ota, todo, active, faulty,
                 terminated, peer, overrun, joined, dropped, misbehaved>>

AnswerFails(c) ==
  /\ Consume(c) /\ IsQuery(Head(inbox[c]))
  /\ SendFails(c)
  /\ fd' = [fd EXCEPT ![c] = "closed"]
  /\ faulty' = [faulty EXCEPT ![c] = Sat2(@)]
  /\ UNCHANGED <<isActive, threadIsActive, action, config, lock, clients, rtd,
                 tcpActive, tcpAlive, appPc, pdcPc, tcpPc, ota, todo, active,
                 terminated, peer, histVars>>

(* activeRdtList was filled before: the command counts from the next tick. *)
SwitchStream(c) ==
  /\ Consume(c) /\ Head(inbox[c]) \in {"START_RTD", "KILL_RTD"}
  /\ rtd' = [rtd EXCEPT ![c] = (Head(inbox[c]) = "START_RTD")]
  /\ overrun' = [overrun EXCEPT ![c] = 0]
  /\ UNCHANGED <<isActive, threadIsActive, action, config, lock, clients, fd,
                 tcpActive, tcpAlive, appPc, pdcPc, tcpPc, ota, todo, active,
                 faulty, terminated, peer, announced, joined, dropped, misbehaved>>

RejectFrame_DropsAtOnce(c) ==                                      \* mutant
  /\ Consume(c) /\ IsRejected(Head(inbox[c]))
  /\ fd' = [fd EXCEPT ![c] = "deleted"]
  /\ clients' = clients \ {c}
  /\ dropped' = [dropped EXCEPT ![c] = Sat2(@)]
  /\ UNCHANGED <<isActive, threadIsActive, action, config, lock, rtd, tcpActive,
                 tcpAlive, appPc, pdcPc, tcpPc, ota, todo, active, faulty,
                 terminated, peer, announced, overrun, joined, misbehaved>>

RejectFrame_Queries(c) ==                                          \* mutant
  /\ Consume(c) /\ (IsRejected(Head(inbox[c])) \/ IsQuery(Head(inbox[c])))
  /\ faulty' = [faulty EXCEPT ![c] = Sat2(@)]
  /\ UNCHANGED <<objVars, appPc, pdcPc, tcpPc, ota, todo, active, terminated,
                 peer, histVars>>

(* Any frame but a command, a malformed one, an unknown command, or CFG3   *)
(* in version 1: the socket is faulty, and still open.                     *)
RejectFrame(c) ==
  /\ Consume(c) /\ IsRejected(Head(inbox[c]))
  /\ faulty' = [faulty EXCEPT ![c] = Sat2(@)]
  /\ UNCHANGED <<objVars, appPc, pdcPc, tcpPc, ota, todo, active, terminated,
                 peer, histVars>>

(* Every readable socket is handled: the data frame is put together. *)
CreateDataFrame ==
  /\ pdcPc = "read" /\ ready = {}
  /\ pdcPc' = "send"
  /\ UNCHANGED <<objVars, appPc, tcpPc, tickVars, terminated, peerVars, histVars>>

SendData(c) ==
  /\ pdcPc = "send" /\ c \in active /\ CanSend(c)
  /\ active' = active \ {c}
  /\ overrun' = IF rtd[c] THEN overrun ELSE [overrun EXCEPT ![c] = Sat2(@)]
  /\ UNCHANGED <<objVars, appPc, pdcPc, tcpPc, ota, todo, ready, faulty,
                 terminated, peerVars, announced, joined, dropped, misbehaved>>

(* A socket the reading already found faulty is pushed a second time. *)
SendDataFails(c) ==
  /\ pdcPc = "send" /\ c \in active /\ SendFails(c)
  /\ fd' = [fd EXCEPT ![c] = "closed"]
  /\ faulty' = [faulty EXCEPT ![c] = Sat2(@)]
  /\ active' = active \ {c}
  /\ UNCHANGED <<isActive, threadIsActive, action, config, lock, clients, rtd,
                 tcpActive, tcpAlive, appPc, pdcPc, tcpPc, ota, todo, ready,
                 terminated, peerVars, histVars>>

AllSent ==
  /\ pdcPc = "send" /\ active = {}
  /\ pdcPc' = "drop"
  /\ UNCHANGED <<objVars, appPc, tcpPc, tickVars, terminated, peerVars, histVars>>

(* The entry is used up; the client is published as dropped, its socket    *)
(* closed and deleted, and the client deleted and erased from m_clients.   *)
DropClient(c) ==
  /\ faulty' = [faulty EXCEPT ![c] = @ - 1]
  /\ dropped' = [dropped EXCEPT ![c] = Sat2(@)]
  /\ fd' = [fd EXCEPT ![c] = "deleted"]
  /\ clients' = clients \ {c}
  /\ inbox' = [inbox EXCEPT ![c] = <<>>]
  /\ UNCHANGED <<isActive, threadIsActive, action, config, lock, rtd, tcpActive,
                 tcpAlive, appPc, pdcPc, tcpPc, ota, todo, active, ready,
                 terminated, peer, announced, overrun, joined, misbehaved>>

SafeDropClient_NoLookup(c) ==                                      \* mutant
  pdcPc = "drop" /\ faulty[c] > 0 /\ DropClient(c)

SafeDropClient_AnyClient(c) ==                                     \* mutant
  pdcPc = "drop" /\ c \in clients /\ DropClient(c)

(* One entry of faultySockets, whose client is looked up by its socket. *)
SafeDropClient(c) ==
  /\ pdcPc = "drop" /\ faulty[c] > 0
  /\ c \in clients
  /\ DropClient(c)

(* An entry whose socket no client has any more: dropped by an earlier one. *)
PassOverDropped(c) ==
  /\ pdcPc = "drop" /\ faulty[c] > 0
  /\ c \notin clients
  /\ faulty' = [faulty EXCEPT ![c] = @ - 1]
  /\ UNCHANGED <<objVars, appPc, pdcPc, tcpPc, ota, todo, active, ready,
                 terminated, peerVars, histVars>>

EndTick_KeepsFaulty ==                                             \* mutant
  /\ pdcPc = "drop"
  /\ lock' = "free"
  /\ ota' = NoActions /\ faulty' = NoFaults
  /\ pdcPc' = "loop"
  /\ UNCHANGED <<isActive, threadIsActive, action, config, clients, rtd, fd,
                 tcpActive, tcpAlive, appPc, tcpPc, todo, active, ready,
                 terminated, peerVars, histVars>>

(* The fragment releases m_lock and the locals go out of scope. *)
EndTick ==
  /\ pdcPc = "drop" /\ faulty = NoFaults
  /\ lock' = "free"
  /\ ota' = NoActions
  /\ pdcPc' = "loop"
  /\ UNCHANGED <<isActive, threadIsActive, action, config, clients, rtd, fd,
                 tcpActive, tcpAlive, appPc, tcpPc, todo, active, ready, faulty,
                 terminated, peerVars, histVars>>

PdcNext ==
  \/ TestActive \/ BeginTick \/ ReadFlags \/ ClearFlags \/ Poll
  \/ CreateDataFrame \/ AllSent \/ EndTick
  \/ \E c \in Conns :
        \/ ServeActions(c) \/ BroadcastThrows(c)
        \/ ReadFails(c) \/ AnswerQuery(c) \/ AnswerFails(c)
        \/ SwitchStream(c) \/ RejectFrame(c)
        \/ SendData(c) \/ SendDataFails(c)
        \/ SafeDropClient(c) \/ PassOverDropped(c)
-----------------------------------------------------------------------------
(***************************************************************************)
(* The peers.  The system sees them through accept, poll, recv and send.   *)
(***************************************************************************)

Connect(c) ==
  /\ tcpPc \in {"select", "enlist"} /\ fd[c] = "none"
  /\ fd' = [fd EXCEPT ![c] = "backlog"]
  /\ UNCHANGED <<isActive, threadIsActive, action, config, lock, clients, rtd,
                 tcpActive, tcpAlive, appPc, pdcPc, tcpPc, tickVars, terminated,
                 peerVars, histVars>>

EndsInPartial(c) == inbox[c] # <<>> /\ inbox[c][Len(inbox[c])] = "PARTIAL"

MarkIfRejected(c, f) ==
  misbehaved' = IF IsRejected(f) THEN misbehaved \cup {c} ELSE misbehaved

SendFrame(c, f) ==
  /\ fd[c] \in Connected /\ peer[c] # "gone"
  /\ Len(inbox[c]) < MaxInbox
  /\ ~EndsInPartial(c)
  /\ inbox' = [inbox EXCEPT ![c] = Append(@, f)]
  /\ MarkIfRejected(c, f)
  /\ UNCHANGED <<objVars, appPc, pdcPc, tcpPc, tickVars, terminated, peer,
                 announced, overrun, joined, dropped>>

(* The rest of a frame arrives: only now is it known what it is. *)
CompleteFrame(c, f) ==
  /\ fd[c] \in Connected /\ peer[c] # "gone"
  /\ EndsInPartial(c) /\ f # "PARTIAL"
  /\ inbox' = [inbox EXCEPT ![c][Len(inbox[c])] = f]
  /\ MarkIfRejected(c, f)
  /\ UNCHANGED <<objVars, appPc, pdcPc, tcpPc, tickVars, terminated, peer,
                 announced, overrun, joined, dropped>>

StopReading(c) ==
  /\ c \in Stalling
  /\ fd[c] \in Connected /\ peer[c] = "up"
  /\ peer' = [peer EXCEPT ![c] = "stalled"]
  /\ UNCHANGED <<objVars, appPc, pdcPc, tcpPc, tickVars, terminated, inbox, histVars>>

ResumeReading(c) ==
  /\ peer[c] = "stalled"
  /\ peer' = [peer EXCEPT ![c] = "up"]
  /\ UNCHANGED <<objVars, appPc, pdcPc, tcpPc, tickVars, terminated, inbox, histVars>>

Leave(c) ==
  /\ fd[c] \in Connected /\ peer[c] # "gone"
  /\ peer' = [peer EXCEPT ![c] = "gone"]
  /\ misbehaved' = misbehaved \cup {c}
  /\ UNCHANGED <<objVars, appPc, pdcPc, tcpPc, tickVars, terminated, inbox,
                 announced, overrun, joined, dropped>>

PeerNext ==
  \E c \in Conns :
    \/ Connect(c) \/ StopReading(c) \/ ResumeReading(c) \/ Leave(c)
    \/ \E f \in Frames : SendFrame(c, f) \/ CompleteFrame(c, f)
-----------------------------------------------------------------------------
Next == ~terminated /\ (AppNext \/ TcpNext \/ PdcNext \/ PeerNext)

Spec == Init /\ [][Next]_vars
-----------------------------------------------------------------------------
(***************************************************************************)
(* Safety.                                                                 *)
(***************************************************************************)

(* Everything a tick of PdcProc points at is alive: the lists it built     *)
(* name only enlisted clients, whose objects nobody has deleted, although  *)
(* the drop of a faulty client deletes them and Shutdown deletes the rest. *)
NoDanglingPointers ==
  /\ todo \cup active \cup ready \subseteq clients
  /\ \A c \in clients : fd[c] \in {"open", "closed"}
  /\ pdcPc \in TickPcs => lock = "pdc" /\ appPc # "stopped"

(* Between two ticks every enlisted client has an open socket: whatever    *)
(* failed during a tick, in the reading or in the sending, was dropped     *)
(* before the lock was released.                                           *)
CleanBetweenTicks ==
  pdcPc \notin TickPcs => /\ faulty = NoFaults
                          /\ \A c \in clients : fd[c] = "open"

(* The connect and drop events a listener sees account for the clients,    *)
(* also when the reading and the sending both found a socket faulty: one   *)
(* connect each, at most one drop, and the difference is m_clients.        *)
EventsMatchClients ==
  appPc # "stopped" =>
    \A c \in Conns : joined[c] = dropped[c] + (IF c \in clients THEN 1 ELSE 0)

(* Once a client's stream was stopped, by its KILL_RTD or by               *)
(* StopRealtimeDataAll, at most one more data frame is sent to it before   *)
(* it is started again: the one of the tick that read the command.         *)
LateFramesBounded == \A c \in Conns : overrun[c] <= 1

(* When Shutdown returns, both threads have left their procedures and no   *)
(* socket is left open: the object and its mutex can be destroyed.         *)
QuietAfterShutdown ==
  appPc = "stopped" =>
    /\ pdcPc \in {"none", "ended"} /\ tcpPc \in {"none", "ended"}
    /\ lock = "free"
    /\ \A c \in Conns : fd[c] \in {"none", "refused", "deleted"}

(* While the process lives SafeDropClient drops only a client whose peer   *)
(* left or sent what the server rejects; the rest is Shutdown's.  Faults   *)
(* of others in the same tick cost nobody else his place in m_clients.  An *)
(* exception that ends the process, with every connection, drops nobody in *)
(* this sense: BroadcastThrows and AcceptThrows, which another peer can    *)
(* bring about, are not excluded.                                          *)
OnlyFaultyDropped ==
  [][\A c \in clients \ clients' : c \in misbehaved \/ appPc = "waitTcp"]_vars

(* The server keeps the promise of PdcSession. *)
SessionOf(c) ==
  IF c \in clients THEN IF rtd[c] THEN "streaming" ELSE "quiet"
  ELSE IF fd[c] = "deleted" THEN "ended" ELSE "none"

Session == INSTANCE PdcSession WITH
  session <- [c \in Conns |-> SessionOf(c)],
  late    <- overrun,
  service <- IF appPc = "stopped" THEN "closed" ELSE "open"

(* Sessions are joined, switched, ended and closed as PdcSession allows,   *)
(* by any interleaving of the three threads and the peers.                 *)
RefinesSession == Session!SessionSpec
-----------------------------------------------------------------------------
(***************************************************************************)
(* The inductive invariant behind the safety properties, checked by TLC    *)
(* and proved in PdcServerProofs.                                          *)
(***************************************************************************)

(* Who holds the lock, and which threads exist at each point of the        *)
(* application thread.                                                     *)
ThreadInv ==
  /\ pdcPc \in TickPcs <=> lock = "pdc"
  /\ appPc = "waitTcp" <=> lock = "app"
  /\ appPc \in {"new", "startFailed"} => pdcPc = "none" /\ tcpPc = "none"
  /\ appPc \in {"starting", "running"} => isActive /\ pdcPc \notin {"none", "ended"}
  /\ appPc \in {"running", "waitPdc"} /\ pdcPc \notin {"none", "ended"} => threadIsActive
  /\ appPc \in {"wantLock", "waitTcp", "stopped"} => pdcPc \in {"none", "ended"}
  /\ tcpPc \in {"listen", "select", "enlist"} => tcpAlive
  /\ appPc = "stopped" => tcpPc \in {"none", "ended"}

(* The sockets: enlisted ones are open, or closed and known to be faulty;  *)
(* the TCP thread holds at most one that is not enlisted yet.              *)
SocketInv ==
  /\ \A c \in Conns : c \in clients <=> fd[c] \in {"open", "closed"}
  /\ \A c \in Conns : fd[c] = "closed" => faulty[c] > 0
  /\ \A c \in Conns : fd[c] = "accepted" => tcpPc = "enlist"
  /\ \A c \in Conns : fd[c] = "backlog" => tcpPc \in {"select", "enlist"}
  /\ \A c, d \in Conns : fd[c] = "accepted" /\ fd[d] = "accepted" => c = d
  /\ appPc = "stopped" => clients = {}

(* The lists of a tick name enlisted clients, are empty where the code has *)
(* not built or has emptied them, and a socket is found faulty at most     *)
(* once by the reading and once by the sending.                            *)
ListInv ==
  /\ todo \cup active \cup ready \subseteq clients
  /\ pdcPc # "ota" => todo = {}
  /\ pdcPc # "read" => ready = {}
  /\ pdcPc \notin {"ota", "read", "send"} => active = {}
  /\ pdcPc \notin {"read", "send", "drop"} => faulty = NoFaults
  /\ \A c \in ready : faulty[c] = 0
  /\ \A c \in active : faulty[c] <= 1

(* The history: events, late frames and misbehaviour. *)
HistoryInv ==
  /\ \A c \in clients : joined[c] = 1 /\ dropped[c] = 0
  /\ \A c \in Conns : fd[c] = "deleted" /\ appPc # "stopped"
                        => joined[c] = 1 /\ dropped[c] = 1
  /\ \A c \in Conns : fd[c] \in {"none", "backlog", "accepted", "refused"}
                        => joined[c] = 0 /\ dropped[c] = 0 /\ overrun[c] = 0
  /\ \A c \in Conns : overrun[c] <= 1
  /\ \A c \in Conns : rtd[c] \/ c \in active => overrun[c] = 0
  /\ \A c \in Conns : peer[c] = "gone" \/ faulty[c] > 0 => c \in misbehaved
  /\ \A c \in Conns : \A i \in 1..Len(inbox[c]) :
        IsRejected(inbox[c][i]) => c \in misbehaved

(* The four parts together are inductive, and imply every safety property  *)
(* above, whatever the connections, the frames and the bounds.             *)
IndInv == TypeOK /\ ThreadInv /\ SocketInv /\ ListInv /\ HistoryInv
-----------------------------------------------------------------------------
(***************************************************************************)
(* Liveness.  The threads are scheduled: a thread that can take its next   *)
(* step eventually does.  The wait for m_lock in SafeEnlistClient competes *)
(* with every tick; Windows grants a mutex to the waiting threads in turn, *)
(* and the PDC thread sleeps without it between ticks: strong fairness.    *)
(* Nothing is assumed of the peers or of what the application calls, only  *)
(* that a call it has made goes on.                                        *)
(***************************************************************************)
AppWaits == MarkThreadActive \/ PdcThreadJoined \/ StopTcpServer \/ FreeAll

Fairness ==
  /\ WF_vars(~terminated /\ PdcNext)
  /\ WF_vars(~terminated /\ TcpNext)
  /\ WF_vars(~terminated /\ AppWaits)
  /\ \A c \in Conns : SF_vars(~terminated /\ SafeEnlistClient(c))

FairSpec == Spec /\ Fairness

(* A peer on which the PDC thread waits, or will before the tick is over:  *)
(* half a frame to read, or a full window to write to, with m_lock held.   *)
WaitsOnPeer ==
  \/ pdcPc = "ota" /\ ota["sendConfig"] /\ \E c \in todo : peer[c] = "stalled"
  \/ pdcPc = "read" /\ \E c \in ready :
        \/ inbox[c] # <<>> /\ Head(inbox[c]) = "PARTIAL" /\ peer[c] # "gone"
        \/ HasFrame(c) /\ IsQuery(Head(inbox[c])) /\ peer[c] = "stalled"
  \/ pdcPc = "send" /\ \E c \in active : peer[c] = "stalled"

PeersLetGo == <>[]~WaitsOnPeer

Over == ~isActive \/ terminated

(* Unless a peer holds the server up for ever, a command that has arrived  *)
(* is read, or its client dropped, or the PDC shut down: no client starves *)
(* another of its one command per tick.                                    *)
CommandsServed ==
  PeersLetGo => \A c \in Conns :
    (c \in clients /\ inbox[c] # <<>>) ~> (inbox[c] = <<>> \/ Over)

(* Unless a peer holds the server up for ever, a connection that is made   *)
(* is enlisted, although the TCP thread competes for the lock with a PDC   *)
(* thread that retakes it every tick.                                      *)
ConnectionsServed ==
  PeersLetGo => \A c \in Conns :
    (fd[c] = "backlog") ~> (fd[c] \notin {"backlog", "accepted"} \/ Over)

(* A broadcast asked for after a SetConfiguration reaches every client     *)
(* with that configuration, or a later one replaced it: no request is lost *)
(* between the unlocked flag and the tick that clears it.                  *)
BroadcastsServed ==
  PeersLetGo => \A c \in Conns, v \in Configs :
    (action["sendConfig"] /\ config = v /\ c \in clients)
      ~> (announced[c] = v \/ config # v \/ c \notin clients \/ Over)

(* The two ways Shutdown never returns with every peer behaving: the TCP   *)
(* thread waits for the lock Shutdown holds, or Start had thrown and a     *)
(* flag that no thread will ever clear reads true.                         *)
Hung ==
  \/ appPc = "waitTcp" /\ tcpPc = "enlist"
  \/ appPc \in {"waitPdc", "waitTcp"} /\ pdcPc = "none"

(* Shutdown returns, unless a peer holds up the PDC thread or one of the   *)
(* two hangs above occurs: there is no third one.                          *)
ShutdownEndsOrHangs ==
  PeersLetGo => ((appPc = "waitPdc") ~> (appPc = "stopped" \/ terminated \/ Hung))

(* What the comment in Shutdown says happens next, "Shutdown the TCP       *)
(* server first": it is stopped, for a PDC whose threads did run.          *)
ShutdownStopsTcpServer ==
  (appPc = "waitTcp" /\ pdcPc = "ended") ~> (~tcpAlive \/ terminated)
=============================================================================
