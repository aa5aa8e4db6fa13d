-------------------------- MODULE PdcClientStream --------------------------
(***************************************************************************)
(* The client library, PdcClient over TcpClient, on one connection after   *)
(* another to a simulated PDC, and the two programs that drive it:         *)
(*   "console"  PdcClientProc of ThreadPerSocketTest, one PdcClient for    *)
(*              ever: connect, header, configuration 3, start, data frames;*)
(*              any exception closes the connection and starts again;      *)
(*   "dll"      a thread that uses the functions of the DLL in any order,  *)
(*              with a new PdcClient for each connectPdc.                  *)
(* The PDC is any server that keeps the promise of PdcSession, whose       *)
(* actions are used here; it answers the commands of a connection in their *)
(* order, and is shut down and replaced by a PDC with another              *)
(* configuration, as the GUI does.                                         *)
(*                                                                         *)
(* A frame is its kind and the configuration it holds or is laid out by.   *)
(* It is read in two pieces, 14 bytes and the rest, each of which may time *)
(* out with some of its bytes already taken off the socket.  Frames carry  *)
(* no mark that the reader checks: it never looks at the lead-in byte or   *)
(* the checksum, so whatever stands where a frame should start is one.     *)
(***************************************************************************)
EXTENDS PdcSession, Sequences

CONSTANTS NoConn,       \* m_sockfd == 0
          DllConns,     \* bound: the connections "dll" makes
          MaxPdc,       \* bound: how often the PDC is replaced
          MaxConfig,    \* bound: calls of SetConfiguration on one PDC
          MaxStream,    \* bound: frames sent and not yet read
          MaxPending    \* bound: commands sent and not yet read

ASSUME StreamAssumption ==
  /\ NoConn \notin Conns /\ DllConns \subseteq Conns
  /\ MaxPdc \in Nat /\ MaxConfig \in Nat
  /\ MaxStream \in Nat \ {0} /\ MaxPending \in Nat \ {0}

Configurations == {"CFG2", "CFG3"}
Requests == Configurations \cup {"HDR"}
Kinds == Requests \cup {"DATA"}

(* A configuration is the PDC it belongs to, by number, and how often      *)
(* SetConfiguration had replaced it.                                       *)
Configs == (0..MaxPdc) \X (0..MaxConfig)
None == <<MaxPdc + 1, 0>>

Frame == [kind : Kinds, cfg : Configs]

VARIABLES
  \* the PDC (with session, late and service)
  up,               \* it listens and serves
  pdc, set,         \* its number, and calls of SetConfiguration so far
  version,          \* m_version, 2 if it has a configuration 3
  \* the connection
  used,             \* the connections made so far
  toServer,         \* commands sent and not yet read by the PDC
  stream,           \* frames the PDC sent, not yet read by the client
  gone,             \* the PDC has closed its end
  inStep,           \* the next byte to be read is the first of a frame
  \* PdcClient and TcpClient
  conn,             \* TcpClient::m_sockfd
  timedOut,         \* WSAGetLastError() is WSAETIMEDOUT, since whenever
  pdcConfig,        \* m_pdcConfig
  decode,           \* the configuration m_datadecodeInfo was made from
  at,               \* what the call in progress reads: "header" or "body"
  target,           \* the kind of frame it waits for
  \* the program
  program, step,
  \* history, for the properties only
  asked,            \* set, when the call in progress asked for a configuration
  surplus           \* a configuration may be under way that no call waits for

pdcVars == <<sessionVars, up, pdc, set, version>>
netVars == <<used, toServer, stream, gone, inStep>>
objVars == <<pdcConfig, decode>>
callVars == <<at, target, step>>
histVars == <<asked, surplus>>
vars == <<pdcVars, netVars, conn, timedOut, objVars, callVars, program, histVars>>

PdcTypeOK ==
  /\ SessionTypeOK
  /\ up \in BOOLEAN
  /\ pdc \in 0..MaxPdc /\ set \in 0..MaxConfig
  /\ version \in {1, 2}

NetTypeOK ==
  /\ used \subseteq Conns
  /\ toServer \in Seq(Requests \cup {"START", "KILL"})
  /\ stream \in Seq(Frame)
  /\ gone \in BOOLEAN /\ inStep \in BOOLEAN

ClientTypeOK ==
  /\ conn \in Conns \cup {NoConn}
  /\ timedOut \in BOOLEAN
  /\ pdcConfig \in Configs \cup {None} /\ decode \in Configs \cup {None}
  /\ at \in {"idle", "header", "body", "astray"}
  /\ target \in Kinds \cup {"NONE"}
  /\ program \in {"console", "dll"}
  /\ step \in {"connect", "HDR", "CFG3", "START", "DATA"}

TypeOK ==
  /\ PdcTypeOK /\ NetTypeOK /\ ClientTypeOK
  /\ asked \in 0..MaxConfig /\ surplus \in BOOLEAN

Init ==
  /\ SessionInit
  /\ up = TRUE /\ pdc = 0 /\ set = 0 /\ version \in {1, 2}
  /\ used = {} /\ toServer = <<>> /\ stream = <<>>
  /\ gone = FALSE /\ inStep = TRUE /\ timedOut = FALSE
  /\ conn = NoConn
  /\ pdcConfig = None /\ decode = None
  /\ at = "idle" /\ target = "NONE"
  /\ program \in {"console", "dll"} /\ step = "connect"
  /\ asked = 0 /\ surplus = FALSE
-----------------------------------------------------------------------------
(***************************************************************************)
(* The PDC, as far as the client can tell.                                 *)
(***************************************************************************)
Layout == <<pdc, 0>>          \* m_decodeInfo, made by the constructor
Current == <<pdc, set>>       \* m_pdcConfig

HasRoom == Len(stream) < MaxStream
Served == up /\ conn # NoConn /\ session[conn] \in Live
Send(kind, cfg) == stream' = Append(stream, [kind |-> kind, cfg |-> cfg])

clientSide == <<conn, timedOut, objVars, callVars, program>>

(* (One the client has closed before it is enlisted is dropped at once.) *)
Enlist ==
  /\ up /\ conn # NoConn /\ ~gone
  /\ Join(conn)
  /\ UNCHANGED <<up, pdc, set, version, netVars, clientSide, histVars>>

(* SEND_CFG2_FRAME, SEND_CFG3_FRAME, SEND_HDR_FRAME *)
Reply ==
  /\ Served /\ HasRoom
  /\ toServer # <<>> /\ Head(toServer) \in Requests
  /\ Head(toServer) = "CFG3" => version = 2
  /\ Send(Head(toServer), IF Head(toServer) = "CFG2" THEN Current ELSE Layout)
  /\ toServer' = Tail(toServer)
  /\ UNCHANGED <<pdcVars, used, gone, inStep, clientSide, histVars>>

(* A version 1 PDC drops a client that asks for a configuration 3. *)
Reject ==
  /\ Served
  /\ toServer # <<>> /\ Head(toServer) = "CFG3" /\ version = 1
  /\ End(conn)
  /\ gone' = TRUE
  /\ UNCHANGED <<up, pdc, set, version, used, toServer, stream, inStep, clientSide, histVars>>

SwitchStream ==
  /\ Served
  /\ toServer # <<>>
  /\ \/ Head(toServer) = "START" /\ Switch(conn, "streaming")
     \/ Head(toServer) = "KILL" /\ Switch(conn, "quiet")
  /\ toServer' = Tail(toServer)
  /\ UNCHANGED <<up, pdc, set, version, used, stream, gone, inStep, clientSide, histVars>>

SendData ==
  /\ Served /\ HasRoom
  /\ \/ session[conn] = "streaming" /\ UNCHANGED sessionVars
     \/ LateFrame(conn)
  /\ Send("DATA", Layout)
  /\ UNCHANGED <<up, pdc, set, version, used, toServer, gone, inStep, clientSide, histVars>>

(* SendConfigurationAll: a configuration nobody asked for. *)
Broadcast ==
  /\ Served /\ HasRoom
  /\ Send("CFG2", Current)
  /\ surplus' = TRUE
  /\ UNCHANGED <<pdcVars, used, toServer, gone, inStep, clientSide, asked>>

SetConfiguration ==
  /\ up /\ set < MaxConfig
  /\ set' = set + 1
  /\ UNCHANGED <<sessionVars, up, pdc, version, netVars, clientSide, histVars>>

(* Shutdown, and then a new PDC that listens on the same port. *)
StopPdc ==
  /\ up
  /\ up' = FALSE
  /\ UNCHANGED <<sessionVars, pdc, set, version, netVars, clientSide, histVars>>

EndSession ==
  /\ ~up /\ conn # NoConn /\ ~gone
  /\ IF session[conn] \in Live THEN End(conn) ELSE UNCHANGED sessionVars
  /\ gone' = TRUE
  /\ UNCHANGED <<up, pdc, set, version, used, toServer, stream, inStep, clientSide, histVars>>

(* A connection the client has closed. *)
DropClosed(c) ==
  /\ c # conn
  /\ End(c)
  /\ UNCHANGED <<up, pdc, set, version, netVars, clientSide, histVars>>

StartPdc ==
  /\ ~up /\ pdc < MaxPdc
  /\ \A c \in Conns : session[c] \notin Live
  /\ conn # NoConn => gone
  /\ up' = TRUE /\ pdc' = pdc + 1 /\ set' = 0
  /\ UNCHANGED <<sessionVars, version, netVars, clientSide, histVars>>

PdcNext ==
  \/ Reply \/ Reject \/ SwitchStream \/ SendData \/ Broadcast
  \/ SetConfiguration \/ StopPdc \/ EndSession \/ StartPdc
  \/ Enlist \/ \E c \in Conns : DropClosed(c)
-----------------------------------------------------------------------------
(***************************************************************************)
(* How a call ends.  The console advances to its next call or, in the      *)
(* handler of every exception, closes the connection and starts again.     *)
(***************************************************************************)
NextStep_KeepsConfiguration(s) ==      \* mutant
  CASE s = "HDR" -> (IF decode = None THEN "CFG3" ELSE "START")
    [] s = "CFG3" -> "START" [] OTHER -> "DATA"

NextStep(s) == CASE s = "HDR" -> "CFG3" [] s = "CFG3" -> "START" [] OTHER -> "DATA"

(* console: the calls in their order; dll: any call *)
Calls(s) == program = "console" => step = s

Succeed == step' = IF program = "console" THEN NextStep(step) ELSE step

CloseSocket_KeepsDescriptor ==      \* mutant
  /\ UNCHANGED conn
  /\ toServer' = <<>> /\ stream' = <<>> /\ gone' = FALSE /\ inStep' = TRUE

(* closesocket: what was under way is discarded. *)
CloseSocket ==
  /\ conn' = NoConn
  /\ toServer' = <<>> /\ stream' = <<>> /\ gone' = FALSE /\ inStep' = TRUE

Throw_KeepsSocket(open, rest, aligned) ==      \* mutant
  IF open THEN /\ stream' = rest /\ inStep' = aligned
               /\ UNCHANGED <<conn, toServer, gone, step>>
          ELSE /\ CloseSocket
               /\ step' = IF program = "console" THEN "connect" ELSE step

Throw_KeepsStep(open, rest, aligned) ==      \* mutant
  IF open /\ program = "dll"
    THEN /\ stream' = rest /\ inStep' = aligned
         /\ UNCHANGED <<conn, toServer, gone, step>>
    ELSE CloseSocket /\ UNCHANGED step

(* An exception: open says whether TcpClient has left the socket open, and *)
(* rest and aligned what there is to be read from it then.                 *)
Throw(open, rest, aligned) ==
  IF open /\ program = "dll"
    THEN /\ stream' = rest /\ inStep' = aligned
         /\ UNCHANGED <<conn, toServer, gone, step>>
    ELSE /\ CloseSocket
         /\ step' = IF program = "console" THEN "connect" ELSE step

Leave == at' = "idle" /\ target' = "NONE" /\ asked' = 0

Abandon ==
  /\ Leave
  /\ surplus' = (surplus \/ target = "CFG2")
-----------------------------------------------------------------------------
(***************************************************************************)
(* The calls.  A member nothing has been stored in is None; an availability*)
(* flag says that its member is not.                                       *)
(***************************************************************************)
Connect(c) ==
  /\ at = "idle" /\ conn = NoConn /\ Calls("connect")
  /\ up /\ c \notin used
  /\ program = "dll" => c \in DllConns
  /\ conn' = c /\ used' = used \cup {c}
  /\ surplus' = FALSE
  /\ IF program = "dll" THEN pdcConfig' = None /\ decode' = None
                        ELSE UNCHANGED objVars
  /\ step' = "HDR"
  /\ UNCHANGED <<pdcVars, toServer, stream, gone, inStep, timedOut, at, target,
                 program, asked>>

ConnectFails ==
  /\ at = "idle" /\ conn = NoConn /\ Calls("connect")
  /\ ~up
  /\ timedOut' \in BOOLEAN
  /\ UNCHANGED <<pdcVars, netVars, conn, objVars, callVars, program, histVars>>

(* disconnectPdc *)
Disconnect ==
  /\ at = "idle" /\ program = "dll" /\ conn # NoConn
  /\ CloseSocket
  /\ UNCHANGED <<pdcVars, used, timedOut, objVars, callVars, program, histVars>>

(* What is sent after the PDC has closed its end is lost. *)
Post(cmd) ==
  /\ Len(toServer) < MaxPending
  /\ toServer' = IF gone THEN toServer ELSE Append(toServer, cmd)

(* ReadHeaderMessage, ReadConfiguration, ReadConfigurationVer3 *)
Request(k) ==
  /\ at = "idle" /\ conn # NoConn /\ Calls(k)
  /\ Post(k)
  /\ at' = "header" /\ target' = k /\ asked' = IF k = "CFG2" THEN set ELSE 0
  /\ UNCHANGED <<pdcVars, used, stream, gone, inStep, conn, timedOut, objVars,
                 step, program, surplus>>

(* StartDataStream, StopDataStream *)
Command(cmd) ==
  /\ at = "idle" /\ conn # NoConn /\ Calls(cmd)
  /\ Post(cmd)
  /\ Succeed
  /\ UNCHANGED <<pdcVars, used, stream, gone, inStep, conn, timedOut, objVars,
                 at, target, program, histVars>>

HasConfiguration == decode # None

(* send fails on a connection the PDC has closed, and with no socket at all*)
(* both send and recv do.                                                  *)
CallFails(cmd) ==
  /\ at = "idle" /\ Calls(cmd)
  /\ conn = NoConn \/ (gone /\ cmd # "DATA")
  /\ cmd = "DATA" => HasConfiguration
  /\ Throw(FALSE, stream, inStep)
  /\ timedOut' = FALSE
  /\ UNCHANGED <<pdcVars, used, objVars, at, target, program, histVars>>

ReadDataFrame ==
  /\ at = "idle" /\ conn # NoConn /\ Calls("DATA")
  /\ HasConfiguration
  /\ at' = "header" /\ target' = "DATA"
  /\ UNCHANGED <<pdcVars, netVars, conn, timedOut, objVars, step, program, histVars>>
-----------------------------------------------------------------------------
(***************************************************************************)
(* ProcessInputStreamUntilTargetFrameType                                  *)
(***************************************************************************)
ReadHeader ==
  /\ at = "header" /\ inStep /\ stream # <<>>
  /\ at' = "body"
  /\ UNCHANGED <<pdcVars, netVars, conn, timedOut, objVars, target, step, program,
                 histVars>>

(* HandleConfigurationFrame and its Ver3, and HandleHeaderMessage and      *)
(* HandleDataFrame, which do nothing here: a data frame is decoded, with   *)
(* m_datadecodeInfo, by the call that waited for it, and lost by others.   *)
Handle(kind, cfg) ==
  /\ pdcConfig' = IF kind = "CFG2" THEN cfg ELSE pdcConfig
  /\ decode' = IF kind \in Configurations THEN cfg ELSE decode

IsTarget_AnyReply(kind) == kind \in Requests      \* mutant

IsTarget_Configuration1(kind) == kind = target /\ kind # "CFG2"      \* mutant

IsTarget(kind) == kind = target

ReturnOrGoOn(kind) ==
  IF IsTarget(kind) THEN Leave /\ Succeed
                    ELSE at' = "header" /\ UNCHANGED <<target, asked, step>>

ReadBody ==
  /\ at = "body" /\ stream # <<>>
  /\ stream' = Tail(stream)
  /\ Handle(Head(stream).kind, Head(stream).cfg)
  /\ ReturnOrGoOn(Head(stream).kind)
  /\ UNCHANGED <<pdcVars, used, toServer, gone, inStep, conn, timedOut, program,
                 surplus>>

(* SocketTimeout: the bytes that were read of the piece are lost. *)
Timeout ==
  /\ at \in {"header", "body"}
  /\ \E lost \in BOOLEAN :
       /\ lost => stream # <<>>
       /\ at = "body" => lost
       /\ Throw(TRUE, stream, inStep /\ ~lost)
  /\ timedOut' = TRUE
  /\ Abandon
  /\ UNCHANGED <<pdcVars, used, objVars, program>>

(* recv returns 0 and leaves the last error as it was: if that was a       *)
(* timeout, this is taken for another, and the socket stays open.          *)
RecvEnd ==
  /\ at = "header" /\ gone /\ stream = <<>>
  /\ Throw(timedOut, stream, inStep) /\ Abandon
  /\ UNCHANGED <<pdcVars, used, timedOut, objVars, program>>

RecvReset ==
  /\ at \in {"header", "body"} /\ gone
  /\ timedOut' = FALSE
  /\ Throw(FALSE, stream, inStep) /\ Abandon
  /\ UNCHANGED <<pdcVars, used, objVars, program>>

(* Out of step, any 14 bytes are a header, and any FRAMESIZE of 14 or more *)
(* says how much is read and taken for a frame; one below ends in an       *)
(* exception, with n frames read past.                                     *)
MisreadHeader ==
  /\ at = "header" /\ ~inStep
  /\ \E n \in 0..Len(stream), aligned \in BOOLEAN :
       LET rest == SubSeq(stream, n + 1, Len(stream)) IN
       /\ n = 0 => ~aligned
       /\ rest = <<>> => aligned
       /\ Throw(TRUE, rest, aligned)
  /\ Abandon
  /\ UNCHANGED <<pdcVars, used, timedOut, objVars, program>>

(* What such a frame is taken for has no limits: a configuration, data, the*)
(* end of the call, or a read past the buffer.  Nothing is modelled beyond.*)
TakeGarbage ==
  /\ at = "header" /\ ~inStep
  /\ at' = "astray"
  /\ UNCHANGED <<pdcVars, netVars, conn, timedOut, objVars, target, step, program,
                 histVars>>

Receive == ReadHeader \/ ReadBody \/ RecvEnd \/ RecvReset \/ MisreadHeader \/ TakeGarbage

ClientNext ==
  \/ \E c \in Conns : Connect(c)
  \/ ConnectFails \/ Disconnect
  \/ \E k \in Requests : Request(k)
  \/ \E cmd \in {"START", "KILL"} : Command(cmd)
  \/ \E cmd \in Requests \cup {"START", "KILL", "DATA"} : CallFails(cmd)
  \/ ReadDataFrame
  \/ Receive \/ Timeout

Next == at # "astray" /\ (PdcNext \/ ClientNext)
Spec == Init /\ [][Next]_vars
-----------------------------------------------------------------------------
(***************************************************************************)
(* Safety.                                                                 *)
(***************************************************************************)

(* The data frame a call is about to decode is decoded by the layout the   *)
(* PDC encoded it with, across timeouts, frames of other kinds, reconnects *)
(* and a replaced PDC: unless the client was sent the configuration of a   *)
(* SetConfiguration, which the PDC does not encode by.                     *)
DecodedAsEncoded ==
  at = "body" /\ target = "DATA" /\ Head(stream).kind = "DATA"
    => Head(stream).cfg = decode \/ decode[2] > 0

(* The console never reads out of step, although a timeout may have thrown *)
(* away any part of a frame: it closes the connection first.               *)
ConsoleInStep == program = "console" => inStep

(* A call of ReadConfiguration that returns has a configuration no older   *)
(* than its request, unless a broadcast or the reply to an earlier request *)
(* that timed out was under way: then it may be one behind.                *)
FreshReplies ==
  [][target = "CFG2" /\ target' = "NONE" /\ at = "body" /\ stream' = Tail(stream)
      /\ conn' = conn
       => pdcConfig'[2] >= asked \/ surplus]_vars

(***************************************************************************)
(* The inductive invariant behind these.                                   *)
(***************************************************************************)

(* A call in progress has a socket and stands before or inside a frame; the*)
(* console waits for what its step is named after, and has a socket unless *)
(* it is about to connect.                                                 *)
CallInv ==
  /\ at = "idle" <=> target = "NONE"
  /\ at # "idle" => conn # NoConn
  /\ at = "body" => stream # <<>>
  /\ program = "console" => /\ inStep
                            /\ target \in {"NONE", step}
                            /\ step = "connect" <=> conn = NoConn

ConnInv ==
  /\ conn = NoConn => stream = <<>> /\ toServer = <<>> /\ ~gone
  /\ conn # NoConn => conn \in used
  /\ gone => session[conn] \notin Live
  /\ \A c \in Conns \ used : session[c] = "none"

(* The client's connection is to PDC p: its frames are p's, data frames are*)
(* laid out by p's first configuration, and a client that may read data    *)
(* has a configuration of p.                                               *)
ConnectedTo(p) ==
  /\ \A i \in 1..Len(stream) :
       /\ stream[i].cfg[1] = p
       /\ stream[i].kind = "DATA" => stream[i].cfg[2] = 0
  /\ conn # NoConn /\ ~gone => p = pdc
  /\ decode # None /\ (program = "dll" \/ step \in {"START", "DATA"}) => decode[1] = p
  /\ program = "console" /\ step \in {"START", "DATA"} => decode # None
  /\ target = "DATA" => decode # None

FramesInv == \E p \in 0..pdc : ConnectedTo(p)

(* Unless one is surplus, a configuration is under way, or its request is, *)
(* only while a call waits for it: one, and no older than the call.        *)
FreshInv ==
  /\ target = "CFG2" /\ ~gone => asked <= set
  /\ ~surplus =>
       /\ target # "CFG2" => /\ \A i \in 1..Len(stream) : stream[i].kind # "CFG2"
                             /\ \A i \in 1..Len(toServer) : toServer[i] # "CFG2"
       /\ target = "CFG2" =>
            /\ \A i \in 1..Len(stream) :
                 stream[i].kind = "CFG2" => stream[i].cfg[2] >= asked
            /\ \A i, j \in 1..Len(stream) :
                 stream[i].kind = "CFG2" /\ stream[j].kind = "CFG2" => i = j
            /\ \A i, j \in 1..Len(toServer) :
                 toServer[i] = "CFG2" /\ toServer[j] = "CFG2" => i = j
            /\ \A i \in 1..Len(stream), j \in 1..Len(toServer) :
                 stream[i].kind = "CFG2" => toServer[j] # "CFG2"

(* Holds of every reachable state, of both programs and across replaced    *)
(* PDCs, and is preserved by every step.                                   *)
StreamInv == TypeOK /\ CallInv /\ ConnInv /\ FramesInv /\ FreshInv
-----------------------------------------------------------------------------
(***************************************************************************)
(* Liveness.  The PDC's thread runs, and answers commands although it also *)
(* sends data frames: each tick does both, so a reply that waits for room  *)
(* gets it (strong fairness).  A call of the client goes on when there is  *)
(* something to read, and times out when nothing comes.                    *)
(***************************************************************************)
Fairness ==
  /\ WF_vars(Enlist) /\ WF_vars(EndSession) /\ WF_vars(Reject)
  /\ WF_vars(SwitchStream)
  /\ SF_vars(Reply) /\ SF_vars(SendData)
  /\ WF_vars(Receive)
  /\ WF_vars(stream = <<>> /\ Timeout)
  /\ WF_vars(program = "console" /\ ClientNext)

FairSpec == Spec /\ Fairness

(* A call that waits for a reply returns, although data frames and         *)
(* broadcasts keep coming; so does one that waits for data, unless the     *)
(* stream is stopped and broadcasts never end, each within the timeout of  *)
(* the one before; both unless the call has gone astray.                   *)
CallsReturn ==
  /\ (at = "header" /\ target # "DATA") ~> (at \in {"idle", "astray"})
  /\ <>[][~Broadcast]_vars => ((at = "header") ~> (at \in {"idle", "astray"}))

(* The console receives data frames again and again, whatever times out    *)
(* and however often the PDC was replaced, once a PDC of version 2 stays   *)
(* up; as far as the connections of the instance reach.                    *)
ConsoleReceives ==
  <>[](up /\ version = 2) => ((program = "console")
               ~> (step = "DATA" /\ at = "idle") \/ (conn = NoConn /\ used = Conns))
=============================================================================
