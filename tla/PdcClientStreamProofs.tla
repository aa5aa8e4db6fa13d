------------------------- MODULE PdcClientStreamProofs -------------------------
(***************************************************************************)
(* StreamInv is an inductive invariant of PdcClientStream, for every number*)
(* of connections, PDCs and configurations and every length of the queues. *)
(***************************************************************************)
EXTENDS PdcClientStream, SequenceTheorems, TLAPS

USE DEF vars, pdcVars, netVars, objVars, callVars, histVars, clientSide, sessionVars

(* A configuration is a pair of numbers, and None is none. *)
LEMMA ConfigFacts ==
  /\ <<MaxPdc + 1, 0>> \notin Configs
  /\ \A p \in 0..MaxPdc, n \in 0..MaxConfig :
       <<p, n>> \in Configs /\ <<p, n>>[1] = p /\ <<p, n>>[2] = n
  /\ \A cfg \in Configs : cfg[1] \in 0..MaxPdc /\ cfg[2] \in 0..MaxConfig
  /\ 0 \in 0..MaxConfig /\ 0 \in 0..MaxPdc
  BY StreamAssumption DEF Configs

(* The queues of a closed connection. *)
LEMMA EmptyQueues == <<>> \in Seq(Frame) /\ <<>> \in Seq(Requests \cup {"START", "KILL"})
  OBVIOUS

(* What is left of the connection when a call throws. *)
LEMMA ThrowLeaves ==
  ASSUME TypeOK, NEW open \in BOOLEAN, NEW rest \in Seq(Frame), NEW aligned \in BOOLEAN,
         Throw(open, rest, aligned)
  PROVE  /\ step' \in {step, "connect"}
         /\ \/ /\ program = "dll" /\ open /\ step' = step
               /\ conn' = conn /\ toServer' = toServer /\ gone' = gone
               /\ stream' = rest /\ inStep' = aligned
            \/ /\ conn' = NoConn /\ toServer' = <<>> /\ stream' = <<>>
               /\ gone' = FALSE /\ inStep' = TRUE
               /\ step' = IF program = "console" THEN "connect" ELSE step
  BY DEF Throw, CloseSocket

(* The frame a call reads, and those behind it. *)
LEMMA FirstFrame ==
  ASSUME stream \in Seq(Frame), stream # <<>>
  PROVE  /\ Head(stream) = stream[1] /\ Head(stream) \in Frame /\ 1 \in 1..Len(stream)
         /\ Tail(stream) \in Seq(Frame) /\ Tail(stream) # stream
         /\ Len(Tail(stream)) = Len(stream) - 1
         /\ \A i \in 1..Len(Tail(stream)) :
              Tail(stream)[i] = stream[i + 1] /\ i + 1 \in 1..Len(stream)
  OBVIOUS

(* What MisreadHeader leaves. *)
LEMMA RestOfStream ==
  ASSUME stream \in Seq(Frame), NEW n \in 0..Len(stream)
  PROVE  LET rest == SubSeq(stream, n + 1, Len(stream)) IN
         /\ rest \in Seq(Frame)
         /\ Len(rest) = Len(stream) - n
         /\ \A i \in 1..Len(rest) : rest[i] = stream[n + i] /\ n + i \in 1..Len(stream)
  OBVIOUS

(* Every step keeps the variables of the PDC in their types. *)
LEMMA PdcTypeStep ==
  ASSUME TypeOK, Next
  PROVE  PdcTypeOK'
<1>1. CASE Reply
  BY <1>1 DEF TypeOK, PdcTypeOK, SessionTypeOK, Reply, Served, HasRoom, Send, Layout, Current
<1>2. CASE Reject
  BY <1>2 DEF TypeOK, PdcTypeOK, SessionTypeOK, Live, Reject, Served, End
<1>3. CASE SwitchStream
  BY <1>3 DEF TypeOK, PdcTypeOK, SessionTypeOK, Live, SwitchStream, Served, Switch
<1>4. CASE SendData
  BY <1>4 DEF TypeOK, PdcTypeOK, SessionTypeOK, SendData, Served, HasRoom, Send, Layout, LateFrame
<1>5. CASE Broadcast
  BY <1>5 DEF TypeOK, PdcTypeOK, SessionTypeOK, Broadcast, Served, HasRoom, Send, Current
<1>6. CASE SetConfiguration
  BY <1>6, StreamAssumption DEF TypeOK, PdcTypeOK, SessionTypeOK, SetConfiguration
<1>7. CASE StopPdc
  BY <1>7 DEF TypeOK, PdcTypeOK, SessionTypeOK, StopPdc
<1>8. CASE EndSession
  BY <1>8 DEF TypeOK, PdcTypeOK, SessionTypeOK, Live, EndSession, End
<1>9. CASE StartPdc
  BY <1>9, StreamAssumption DEF TypeOK, PdcTypeOK, SessionTypeOK, StartPdc
<1>10. CASE Enlist
  BY <1>10 DEF TypeOK, PdcTypeOK, SessionTypeOK, Live, Enlist, Join
<1>11. ASSUME NEW c \in Conns, DropClosed(c) PROVE PdcTypeOK'
  BY <1>11 DEF TypeOK, PdcTypeOK, SessionTypeOK, Live, DropClosed, End
<1>12. ASSUME NEW c \in Conns, Connect(c) PROVE PdcTypeOK'
  BY <1>12 DEF TypeOK, PdcTypeOK, SessionTypeOK, Connect, Calls
<1>13. CASE ConnectFails
  BY <1>13 DEF TypeOK, PdcTypeOK, SessionTypeOK, ConnectFails, Calls
<1>14. CASE Disconnect
  BY <1>14 DEF TypeOK, PdcTypeOK, SessionTypeOK, Disconnect, CloseSocket
<1>15. ASSUME NEW k \in Requests, Request(k) PROVE PdcTypeOK'
  BY <1>15 DEF TypeOK, PdcTypeOK, SessionTypeOK, Request, Calls, Post
<1>16. ASSUME NEW cmd \in {"START", "KILL"}, Command(cmd) PROVE PdcTypeOK'
  BY <1>16 DEF TypeOK, PdcTypeOK, SessionTypeOK, Command, Calls, Post, Succeed, NextStep
<1>17. ASSUME NEW cmd \in Requests \cup {"START", "KILL", "DATA"}, CallFails(cmd) PROVE PdcTypeOK'
  BY <1>17 DEF TypeOK, PdcTypeOK, SessionTypeOK, CallFails, Calls, Throw, CloseSocket
<1>18. CASE ReadDataFrame
  BY <1>18 DEF TypeOK, PdcTypeOK, SessionTypeOK, ReadDataFrame, Calls, HasConfiguration
<1>19. CASE ReadHeader
  BY <1>19 DEF TypeOK, PdcTypeOK, SessionTypeOK, ReadHeader
<1>20. CASE ReadBody
  BY <1>20 DEF TypeOK, PdcTypeOK, SessionTypeOK, ReadBody, Handle, ReturnOrGoOn, IsTarget, Leave, Succeed, NextStep
<1>21. CASE RecvEnd
  BY <1>21 DEF TypeOK, PdcTypeOK, SessionTypeOK, RecvEnd, Throw, CloseSocket, Abandon, Leave
<1>22. CASE RecvReset
  BY <1>22 DEF TypeOK, PdcTypeOK, SessionTypeOK, RecvReset, Throw, CloseSocket, Abandon, Leave
<1>23. CASE MisreadHeader
  BY <1>23 DEF TypeOK, PdcTypeOK, SessionTypeOK, MisreadHeader, Throw, CloseSocket, Abandon, Leave
<1>24. CASE TakeGarbage
  BY <1>24 DEF TypeOK, PdcTypeOK, SessionTypeOK, TakeGarbage
<1>25. CASE Timeout
  BY <1>25 DEF TypeOK, PdcTypeOK, SessionTypeOK, Timeout, Throw, CloseSocket, Abandon, Leave
<1> QED
  BY <1>1, <1>2, <1>3, <1>4, <1>5, <1>6, <1>7, <1>8, <1>9, <1>10, <1>11, <1>12, <1>13, <1>14, <1>15, <1>16, <1>17, <1>18, <1>19, <1>20, <1>21, <1>22, <1>23, <1>24, <1>25 DEF Next, PdcNext, ClientNext, Receive

(* Those of the connection. *)
LEMMA NetTypeStep ==
  ASSUME TypeOK, Next
  PROVE  NetTypeOK'
<1>1. CASE Reply
  BY <1>1, ConfigFacts DEF TypeOK, NetTypeOK, Frame, Kinds, Requests, Configurations, PdcTypeOK, Reply, Served, HasRoom, Send, Layout, Current
<1>2. CASE Reject
  BY <1>2 DEF TypeOK, NetTypeOK, Reject, Served, End
<1>3. CASE SwitchStream
  BY <1>3 DEF TypeOK, NetTypeOK, SwitchStream, Served, Switch
<1>4. CASE SendData
  BY <1>4, ConfigFacts DEF TypeOK, NetTypeOK, Frame, Kinds, Requests, Configurations, PdcTypeOK, SendData, Served, HasRoom, Send, Layout, LateFrame
<1>5. CASE Broadcast
  BY <1>5, ConfigFacts DEF TypeOK, NetTypeOK, Frame, Kinds, Requests, Configurations, PdcTypeOK, Broadcast, Served, HasRoom, Send, Current
<1>6. CASE SetConfiguration
  BY <1>6 DEF TypeOK, NetTypeOK, SetConfiguration
<1>7. CASE StopPdc
  BY <1>7 DEF TypeOK, NetTypeOK, StopPdc
<1>8. CASE EndSession
  BY <1>8 DEF TypeOK, NetTypeOK, EndSession, End
<1>9. CASE StartPdc
  BY <1>9 DEF TypeOK, NetTypeOK, StartPdc
<1>10. CASE Enlist
  BY <1>10 DEF TypeOK, NetTypeOK, Enlist, Join
<1>11. ASSUME NEW c \in Conns, DropClosed(c) PROVE NetTypeOK'
  BY <1>11 DEF TypeOK, NetTypeOK, DropClosed, End
<1>12. ASSUME NEW c \in Conns, Connect(c) PROVE NetTypeOK'
  BY <1>12 DEF TypeOK, NetTypeOK, Connect, Calls
<1>13. CASE ConnectFails
  BY <1>13 DEF TypeOK, NetTypeOK, ConnectFails, Calls
<1>14. CASE Disconnect
  BY <1>14, EmptyQueues DEF TypeOK, NetTypeOK, Disconnect, CloseSocket
<1>15. ASSUME NEW k \in Requests, Request(k) PROVE NetTypeOK'
  BY <1>15 DEF TypeOK, NetTypeOK, Request, Calls, Post
<1>16. ASSUME NEW cmd \in {"START", "KILL"}, Command(cmd) PROVE NetTypeOK'
  BY <1>16 DEF TypeOK, NetTypeOK, Command, Calls, Post, Succeed, NextStep
<1>17. ASSUME NEW cmd \in Requests \cup {"START", "KILL", "DATA"}, CallFails(cmd) PROVE NetTypeOK'
  <2>1. PICK open \in BOOLEAN, aligned \in BOOLEAN : Throw(open, stream, aligned)
    BY <1>17 DEF CallFails, TypeOK, NetTypeOK, ClientTypeOK
  <2>2. stream \in Seq(Frame) /\ TypeOK
    BY DEF TypeOK, NetTypeOK
  <2>3. /\ step' \in {step, "connect"}
        /\ \/ /\ program = "dll" /\ step' = step
              /\ conn' = conn /\ toServer' = toServer /\ gone' = gone
              /\ stream' = stream /\ inStep' \in BOOLEAN
           \/ /\ conn' = NoConn /\ toServer' = <<>> /\ stream' = <<>>
              /\ gone' = FALSE /\ inStep' = TRUE
              /\ step' = IF program = "console" THEN "connect" ELSE step
    BY <2>1, <2>2, ThrowLeaves
  <2> QED
    BY <1>17, <2>3, EmptyQueues DEF TypeOK, NetTypeOK, CallFails, Abandon, Leave, Calls
<1>18. CASE ReadDataFrame
  BY <1>18 DEF TypeOK, NetTypeOK, ReadDataFrame, Calls, HasConfiguration
<1>19. CASE ReadHeader
  BY <1>19 DEF TypeOK, NetTypeOK, ReadHeader
<1>20. CASE ReadBody
  BY <1>20 DEF TypeOK, NetTypeOK, ReadBody, Handle, ReturnOrGoOn, IsTarget, Leave, Succeed, NextStep
<1>21. CASE RecvEnd
  <2>1. PICK open \in BOOLEAN, aligned \in BOOLEAN : Throw(open, stream, aligned)
    BY <1>21 DEF RecvEnd, TypeOK, NetTypeOK, ClientTypeOK
  <2>2. stream \in Seq(Frame) /\ TypeOK
    BY DEF TypeOK, NetTypeOK
  <2>3. /\ step' \in {step, "connect"}
        /\ \/ /\ program = "dll" /\ step' = step
              /\ conn' = conn /\ toServer' = toServer /\ gone' = gone
              /\ stream' = stream /\ inStep' \in BOOLEAN
           \/ /\ conn' = NoConn /\ toServer' = <<>> /\ stream' = <<>>
              /\ gone' = FALSE /\ inStep' = TRUE
              /\ step' = IF program = "console" THEN "connect" ELSE step
    BY <2>1, <2>2, ThrowLeaves
  <2> QED
    BY <1>21, <2>3, EmptyQueues DEF TypeOK, NetTypeOK, RecvEnd, Abandon, Leave, Calls
<1>22. CASE RecvReset
  <2>1. PICK open \in BOOLEAN, aligned \in BOOLEAN : Throw(open, stream, aligned)
    BY <1>22 DEF RecvReset, TypeOK, NetTypeOK, ClientTypeOK
  <2>2. stream \in Seq(Frame) /\ TypeOK
    BY DEF TypeOK, NetTypeOK
  <2>3. /\ step' \in {step, "connect"}
        /\ \/ /\ program = "dll" /\ step' = step
              /\ conn' = conn /\ toServer' = toServer /\ gone' = gone
              /\ stream' = stream /\ inStep' \in BOOLEAN
           \/ /\ conn' = NoConn /\ toServer' = <<>> /\ stream' = <<>>
              /\ gone' = FALSE /\ inStep' = TRUE
              /\ step' = IF program = "console" THEN "connect" ELSE step
    BY <2>1, <2>2, ThrowLeaves
  <2> QED
    BY <1>22, <2>3, EmptyQueues DEF TypeOK, NetTypeOK, RecvReset, Abandon, Leave, Calls
<1>23. CASE MisreadHeader
  <2>1. PICK n \in 0..Len(stream), aligned \in BOOLEAN :
          Throw(TRUE, SubSeq(stream, n + 1, Len(stream)), aligned)
    BY <1>23 DEF MisreadHeader
  <2> DEFINE rest == SubSeq(stream, n + 1, Len(stream))
  <2>2. /\ rest \in Seq(Frame) /\ Len(rest) = Len(stream) - n
        /\ \A i \in 1..Len(rest) : rest[i] = stream[n + i] /\ n + i \in 1..Len(stream)
    BY RestOfStream DEF TypeOK, NetTypeOK
  <2> HIDE DEF rest
  <2>3. /\ step' \in {step, "connect"}
        /\ \/ /\ program = "dll" /\ step' = step
              /\ conn' = conn /\ toServer' = toServer /\ gone' = gone
              /\ stream' = rest /\ inStep' \in BOOLEAN
           \/ /\ conn' = NoConn /\ toServer' = <<>> /\ stream' = <<>>
              /\ gone' = FALSE /\ inStep' = TRUE
              /\ step' = IF program = "console" THEN "connect" ELSE step
    BY <2>1, <2>2, ThrowLeaves DEF rest
  <2>4. /\ at \in {"header", "body"}
        /\ at' = "idle" /\ target' = "NONE" /\ asked' = 0
        /\ ~surplus' => ~surplus /\ target # "CFG2"
        /\ UNCHANGED <<pdcVars, used, objVars, program>>
    BY <1>23 DEF MisreadHeader, Abandon, Leave
  <2>5. UNCHANGED timedOut
    BY <1>23 DEF MisreadHeader
  <2>6. \A i \in 1..Len(rest) : \E j \in 1..Len(stream) : rest[i] = stream[j]
    BY <2>2
  <2> QED
    BY <2>2, <2>3, <2>4, <2>5, EmptyQueues DEF TypeOK, NetTypeOK
<1>24. CASE TakeGarbage
  BY <1>24 DEF TypeOK, NetTypeOK, TakeGarbage
<1>25. CASE Timeout
  <2>1. PICK open \in BOOLEAN, aligned \in BOOLEAN : Throw(open, stream, aligned)
    BY <1>25 DEF Timeout, TypeOK, NetTypeOK, ClientTypeOK
  <2>2. stream \in Seq(Frame) /\ TypeOK
    BY DEF TypeOK, NetTypeOK
  <2>3. /\ step' \in {step, "connect"}
        /\ \/ /\ program = "dll" /\ step' = step
              /\ conn' = conn /\ toServer' = toServer /\ gone' = gone
              /\ stream' = stream /\ inStep' \in BOOLEAN
           \/ /\ conn' = NoConn /\ toServer' = <<>> /\ stream' = <<>>
              /\ gone' = FALSE /\ inStep' = TRUE
              /\ step' = IF program = "console" THEN "connect" ELSE step
    BY <2>1, <2>2, ThrowLeaves
  <2> QED
    BY <1>25, <2>3, EmptyQueues DEF TypeOK, NetTypeOK, Timeout, Abandon, Leave, Calls
<1> QED
  BY <1>1, <1>2, <1>3, <1>4, <1>5, <1>6, <1>7, <1>8, <1>9, <1>10, <1>11, <1>12, <1>13, <1>14, <1>15, <1>16, <1>17, <1>18, <1>19, <1>20, <1>21, <1>22, <1>23, <1>24, <1>25 DEF Next, PdcNext, ClientNext, Receive

(* Those of the client and its program. *)
LEMMA ClientTypeStep ==
  ASSUME TypeOK, Next
  PROVE  ClientTypeOK'
<1>1. CASE Reply
  BY <1>1 DEF TypeOK, ClientTypeOK, Reply, Served, HasRoom, Send, Layout, Current
<1>2. CASE Reject
  BY <1>2 DEF TypeOK, ClientTypeOK, Reject, Served, End
<1>3. CASE SwitchStream
  BY <1>3 DEF TypeOK, ClientTypeOK, SwitchStream, Served, Switch
<1>4. CASE SendData
  BY <1>4 DEF TypeOK, ClientTypeOK, SendData, Served, HasRoom, Send, Layout, LateFrame
<1>5. CASE Broadcast
  BY <1>5 DEF TypeOK, ClientTypeOK, Broadcast, Served, HasRoom, Send, Current
<1>6. CASE SetConfiguration
  BY <1>6 DEF TypeOK, ClientTypeOK, SetConfiguration
<1>7. CASE StopPdc
  BY <1>7 DEF TypeOK, ClientTypeOK, StopPdc
<1>8. CASE EndSession
  BY <1>8 DEF TypeOK, ClientTypeOK, EndSession, End
<1>9. CASE StartPdc
  BY <1>9 DEF TypeOK, ClientTypeOK, StartPdc
<1>10. CASE Enlist
  BY <1>10 DEF TypeOK, ClientTypeOK, Enlist, Join
<1>11. ASSUME NEW c \in Conns, DropClosed(c) PROVE ClientTypeOK'
  BY <1>11 DEF TypeOK, ClientTypeOK, DropClosed, End
<1>12. ASSUME NEW c \in Conns, Connect(c) PROVE ClientTypeOK'
  BY <1>12 DEF TypeOK, ClientTypeOK, Connect, Calls
<1>13. CASE ConnectFails
  BY <1>13 DEF TypeOK, ClientTypeOK, ConnectFails, Calls
<1>14. CASE Disconnect
  BY <1>14 DEF TypeOK, ClientTypeOK, Disconnect, CloseSocket
<1>15. ASSUME NEW k \in Requests, Request(k) PROVE ClientTypeOK'
  BY <1>15 DEF TypeOK, ClientTypeOK, Frame, Kinds, Requests, Configurations, Request, Calls, Post
<1>16. ASSUME NEW cmd \in {"START", "KILL"}, Command(cmd) PROVE ClientTypeOK'
  BY <1>16 DEF TypeOK, ClientTypeOK, Requests, Command, Calls, Post, Succeed, NextStep
<1>17. ASSUME NEW cmd \in Requests \cup {"START", "KILL", "DATA"}, CallFails(cmd) PROVE ClientTypeOK'
  <2>1. PICK open \in BOOLEAN, aligned \in BOOLEAN : Throw(open, stream, aligned)
    BY <1>17 DEF CallFails, TypeOK, NetTypeOK, ClientTypeOK
  <2>2. stream \in Seq(Frame) /\ TypeOK
    BY DEF TypeOK, NetTypeOK
  <2>3. /\ step' \in {step, "connect"}
        /\ \/ /\ program = "dll" /\ step' = step
              /\ conn' = conn /\ toServer' = toServer /\ gone' = gone
              /\ stream' = stream /\ inStep' \in BOOLEAN
           \/ /\ conn' = NoConn /\ toServer' = <<>> /\ stream' = <<>>
              /\ gone' = FALSE /\ inStep' = TRUE
              /\ step' = IF program = "console" THEN "connect" ELSE step
    BY <2>1, <2>2, ThrowLeaves
  <2> QED
    BY <1>17, <2>3, EmptyQueues DEF TypeOK, ClientTypeOK, CallFails, Abandon, Leave, Calls
<1>18. CASE ReadDataFrame
  BY <1>18 DEF TypeOK, ClientTypeOK, Kinds, ReadDataFrame, Calls, HasConfiguration
<1>19. CASE ReadHeader
  BY <1>19 DEF TypeOK, ClientTypeOK, ReadHeader
<1>20. CASE ReadBody
  <2>1. stream \in Seq(Frame) /\ stream # <<>>
    BY <1>20 DEF ReadBody, TypeOK, NetTypeOK
  <2>2. /\ Head(stream) = stream[1] /\ 1 \in 1..Len(stream)
        /\ stream[1].kind \in Kinds /\ stream[1].cfg \in Configs
        /\ Len(Tail(stream)) = Len(stream) - 1
        /\ \A i \in 1..Len(Tail(stream)) :
             Tail(stream)[i] = stream[i + 1] /\ i + 1 \in 1..Len(stream)
    BY <2>1, FirstFrame DEF Frame
  <2> DEFINE frame == stream[1]
  <2>3. /\ stream' = Tail(stream)
        /\ decode' = IF frame.kind \in Configurations THEN frame.cfg ELSE decode
        /\ pdcConfig' = IF frame.kind = "CFG2" THEN frame.cfg ELSE pdcConfig
        /\ UNCHANGED <<pdcVars, used, toServer, gone, inStep, conn, timedOut, program, surplus>>
    BY <1>20, <2>2 DEF ReadBody, Handle
  <2>4. \/ frame.kind = target /\ target' = "NONE" /\ asked' = 0 /\ at' = "idle"
        \/ frame.kind # target /\ target' = target /\ asked' = asked /\ at' = "header" /\ step' = step
    BY <1>20, <2>2 DEF ReadBody, ReturnOrGoOn, IsTarget, Leave
  <2>5. /\ step' \in {step, "CFG3", "START", "DATA"}
        /\ step' \in {"START", "DATA"} /\ step' # step =>
             \/ step \in {"START", "DATA"}
             \/ step \in {"connect", "CFG3"} /\ program = "console" /\ frame.kind = target
    BY <1>20, <2>2 DEF ReadBody, ReturnOrGoOn, IsTarget, Succeed, NextStep, TypeOK, ClientTypeOK
  <2> QED
    BY <1>20, <2>2, <2>3, <2>4, <2>5 DEF TypeOK, ClientTypeOK
<1>21. CASE RecvEnd
  <2>1. PICK open \in BOOLEAN, aligned \in BOOLEAN : Throw(open, stream, aligned)
    BY <1>21 DEF RecvEnd, TypeOK, NetTypeOK, ClientTypeOK
  <2>2. stream \in Seq(Frame) /\ TypeOK
    BY DEF TypeOK, NetTypeOK
  <2>3. /\ step' \in {step, "connect"}
        /\ \/ /\ program = "dll" /\ step' = step
              /\ conn' = conn /\ toServer' = toServer /\ gone' = gone
              /\ stream' = stream /\ inStep' \in BOOLEAN
           \/ /\ conn' = NoConn /\ toServer' = <<>> /\ stream' = <<>>
              /\ gone' = FALSE /\ inStep' = TRUE
              /\ step' = IF program = "console" THEN "connect" ELSE step
    BY <2>1, <2>2, ThrowLeaves
  <2> QED
    BY <1>21, <2>3, EmptyQueues DEF TypeOK, ClientTypeOK, RecvEnd, Abandon, Leave, Calls
<1>22. CASE RecvReset
  <2>1. PICK open \in BOOLEAN, aligned \in BOOLEAN : Throw(open, stream, aligned)
    BY <1>22 DEF RecvReset, TypeOK, NetTypeOK, ClientTypeOK
  <2>2. stream \in Seq(Frame) /\ TypeOK
    BY DEF TypeOK, NetTypeOK
  <2>3. /\ step' \in {step, "connect"}
        /\ \/ /\ program = "dll" /\ step' = step
              /\ conn' = conn /\ toServer' = toServer /\ gone' = gone
              /\ stream' = stream /\ inStep' \in BOOLEAN
           \/ /\ conn' = NoConn /\ toServer' = <<>> /\ stream' = <<>>
              /\ gone' = FALSE /\ inStep' = TRUE
              /\ step' = IF program = "console" THEN "connect" ELSE step
    BY <2>1, <2>2, ThrowLeaves
  <2> QED
    BY <1>22, <2>3, EmptyQueues DEF TypeOK, ClientTypeOK, RecvReset, Abandon, Leave, Calls
<1>23. CASE MisreadHeader
  <2>1. PICK n \in 0..Len(stream), aligned \in BOOLEAN :
          Throw(TRUE, SubSeq(stream, n + 1, Len(stream)), aligned)
    BY <1>23 DEF MisreadHeader
  <2> DEFINE rest == SubSeq(stream, n + 1, Len(stream))
  <2>2. /\ rest \in Seq(Frame) /\ Len(rest) = Len(stream) - n
        /\ \A i \in 1..Len(rest) : rest[i] = stream[n + i] /\ n + i \in 1..Len(stream)
    BY RestOfStream DEF TypeOK, NetTypeOK
  <2> HIDE DEF rest
  <2>3. /\ step' \in {step, "connect"}
        /\ \/ /\ program = "dll" /\ step' = step
              /\ conn' = conn /\ toServer' = toServer /\ gone' = gone
              /\ stream' = rest /\ inStep' \in BOOLEAN
           \/ /\ conn' = NoConn /\ toServer' = <<>> /\ stream' = <<>>
              /\ gone' = FALSE /\ inStep' = TRUE
              /\ step' = IF program = "console" THEN "connect" ELSE step
    BY <2>1, <2>2, ThrowLeaves DEF rest
  <2>4. /\ at \in {"header", "body"}
        /\ at' = "idle" /\ target' = "NONE" /\ asked' = 0
        /\ ~surplus' => ~surplus /\ target # "CFG2"
        /\ UNCHANGED <<pdcVars, used, objVars, program>>
    BY <1>23 DEF MisreadHeader, Abandon, Leave
  <2>5. UNCHANGED timedOut
    BY <1>23 DEF MisreadHeader
  <2>6. \A i \in 1..Len(rest) : \E j \in 1..Len(stream) : rest[i] = stream[j]
    BY <2>2
  <2> QED
    BY <2>2, <2>3, <2>4, <2>5, EmptyQueues DEF TypeOK, ClientTypeOK
<1>24. CASE TakeGarbage
  BY <1>24 DEF TypeOK, ClientTypeOK, TakeGarbage
<1>25. CASE Timeout
  <2>1. PICK open \in BOOLEAN, aligned \in BOOLEAN : Throw(open, stream, aligned)
    BY <1>25 DEF Timeout, TypeOK, NetTypeOK, ClientTypeOK
  <2>2. stream \in Seq(Frame) /\ TypeOK
    BY DEF TypeOK, NetTypeOK
  <2>3. /\ step' \in {step, "connect"}
        /\ \/ /\ program = "dll" /\ step' = step
              /\ conn' = conn /\ toServer' = toServer /\ gone' = gone
              /\ stream' = stream /\ inStep' \in BOOLEAN
           \/ /\ conn' = NoConn /\ toServer' = <<>> /\ stream' = <<>>
              /\ gone' = FALSE /\ inStep' = TRUE
              /\ step' = IF program = "console" THEN "connect" ELSE step
    BY <2>1, <2>2, ThrowLeaves
  <2> QED
    BY <1>25, <2>3, EmptyQueues DEF TypeOK, ClientTypeOK, Timeout, Abandon, Leave, Calls
<1> QED
  BY <1>1, <1>2, <1>3, <1>4, <1>5, <1>6, <1>7, <1>8, <1>9, <1>10, <1>11, <1>12, <1>13, <1>14, <1>15, <1>16, <1>17, <1>18, <1>19, <1>20, <1>21, <1>22, <1>23, <1>24, <1>25 DEF Next, PdcNext, ClientNext, Receive

(* And the history. *)
LEMMA HistTypeStep ==
  ASSUME TypeOK, Next
  PROVE  (asked \in 0..MaxConfig /\ surplus \in BOOLEAN)'
<1>1. CASE Reply
  BY <1>1 DEF TypeOK, Reply, Served, HasRoom, Send, Layout, Current
<1>2. CASE Reject
  BY <1>2 DEF TypeOK, Reject, Served, End
<1>3. CASE SwitchStream
  BY <1>3 DEF TypeOK, SwitchStream, Served, Switch
<1>4. CASE SendData
  BY <1>4 DEF TypeOK, SendData, Served, HasRoom, Send, Layout, LateFrame
<1>5. CASE Broadcast
  BY <1>5 DEF TypeOK, Broadcast, Served, HasRoom, Send, Current
<1>6. CASE SetConfiguration
  BY <1>6 DEF TypeOK, SetConfiguration
<1>7. CASE StopPdc
  BY <1>7 DEF TypeOK, StopPdc
<1>8. CASE EndSession
  BY <1>8 DEF TypeOK, EndSession, End
<1>9. CASE StartPdc
  BY <1>9 DEF TypeOK, StartPdc
<1>10. CASE Enlist
  BY <1>10 DEF TypeOK, Enlist, Join
<1>11. ASSUME NEW c \in Conns, DropClosed(c) PROVE (asked \in 0..MaxConfig /\ surplus \in BOOLEAN)'
  BY <1>11 DEF TypeOK, DropClosed, End
<1>12. ASSUME NEW c \in Conns, Connect(c) PROVE (asked \in 0..MaxConfig /\ surplus \in BOOLEAN)'
  BY <1>12 DEF TypeOK, Connect, Calls
<1>13. CASE ConnectFails
  BY <1>13 DEF TypeOK, ConnectFails, Calls
<1>14. CASE Disconnect
  BY <1>14 DEF TypeOK, Disconnect, CloseSocket
<1>15. ASSUME NEW k \in Requests, Request(k) PROVE (asked \in 0..MaxConfig /\ surplus \in BOOLEAN)'
  BY <1>15, StreamAssumption DEF TypeOK, PdcTypeOK, Request, Calls, Post
<1>16. ASSUME NEW cmd \in {"START", "KILL"}, Command(cmd) PROVE (asked \in 0..MaxConfig /\ surplus \in BOOLEAN)'
  BY <1>16 DEF TypeOK, Command, Calls, Post, Succeed, NextStep
<1>17. ASSUME NEW cmd \in Requests \cup {"START", "KILL", "DATA"}, CallFails(cmd) PROVE (asked \in 0..MaxConfig /\ surplus \in BOOLEAN)'
  BY <1>17 DEF TypeOK, CallFails, Calls, Throw, CloseSocket
<1>18. CASE ReadDataFrame
  BY <1>18 DEF TypeOK, ReadDataFrame, Calls, HasConfiguration
<1>19. CASE ReadHeader
  BY <1>19 DEF TypeOK, ReadHeader
<1>20. CASE ReadBody
  BY <1>20, StreamAssumption DEF TypeOK, ReadBody, Handle, ReturnOrGoOn, IsTarget, Leave, Succeed, NextStep
<1>21. CASE RecvEnd
  BY <1>21, StreamAssumption DEF TypeOK, RecvEnd, Throw, CloseSocket, Abandon, Leave
<1>22. CASE RecvReset
  BY <1>22, StreamAssumption DEF TypeOK, RecvReset, Throw, CloseSocket, Abandon, Leave
<1>23. CASE MisreadHeader
  BY <1>23, StreamAssumption DEF TypeOK, MisreadHeader, Throw, CloseSocket, Abandon, Leave
<1>24. CASE TakeGarbage
  BY <1>24 DEF TypeOK, TakeGarbage
<1>25. CASE Timeout
  BY <1>25, StreamAssumption DEF TypeOK, Timeout, Throw, CloseSocket, Abandon, Leave
<1> QED
  BY <1>1, <1>2, <1>3, <1>4, <1>5, <1>6, <1>7, <1>8, <1>9, <1>10, <1>11, <1>12, <1>13, <1>14, <1>15, <1>16, <1>17, <1>18, <1>19, <1>20, <1>21, <1>22, <1>23, <1>24, <1>25 DEF Next, PdcNext, ClientNext, Receive

(* What a call waits for, and what it stands on. *)
LEMMA CallStep ==
  ASSUME TypeOK, CallInv, ConnInv, Next
  PROVE  CallInv'
<1>1. CASE Reply
  BY <1>1 DEF TypeOK, NetTypeOK, ClientTypeOK, CallInv, ConnInv, Reply, Served, HasRoom, Send, Layout, Current
<1>2. CASE Reject
  BY <1>2 DEF TypeOK, NetTypeOK, ClientTypeOK, CallInv, ConnInv, Reject, Served, End
<1>3. CASE SwitchStream
  BY <1>3 DEF TypeOK, NetTypeOK, ClientTypeOK, CallInv, ConnInv, SwitchStream, Served, Switch
<1>4. CASE SendData
  BY <1>4 DEF TypeOK, NetTypeOK, ClientTypeOK, CallInv, ConnInv, SendData, Served, HasRoom, Send, Layout, LateFrame
<1>5. CASE Broadcast
  BY <1>5 DEF TypeOK, NetTypeOK, ClientTypeOK, CallInv, ConnInv, Broadcast, Served, HasRoom, Send, Current
<1>6. CASE SetConfiguration
  BY <1>6 DEF TypeOK, NetTypeOK, ClientTypeOK, CallInv, ConnInv, SetConfiguration
<1>7. CASE StopPdc
  BY <1>7 DEF TypeOK, NetTypeOK, ClientTypeOK, CallInv, ConnInv, StopPdc
<1>8. CASE EndSession
  BY <1>8 DEF TypeOK, NetTypeOK, ClientTypeOK, CallInv, ConnInv, EndSession, End
<1>9. CASE StartPdc
  BY <1>9 DEF TypeOK, NetTypeOK, ClientTypeOK, CallInv, ConnInv, StartPdc
<1>10. CASE Enlist
  BY <1>10 DEF TypeOK, NetTypeOK, ClientTypeOK, CallInv, ConnInv, Enlist, Join
<1>11. ASSUME NEW c \in Conns, DropClosed(c) PROVE CallInv'
  BY <1>11 DEF TypeOK, NetTypeOK, ClientTypeOK, CallInv, ConnInv, DropClosed, End
<1>12. ASSUME NEW c \in Conns, Connect(c) PROVE CallInv'
  BY <1>12, StreamAssumption DEF TypeOK, NetTypeOK, ClientTypeOK, CallInv, ConnInv, Connect, Calls
<1>13. CASE ConnectFails
  BY <1>13 DEF TypeOK, NetTypeOK, ClientTypeOK, CallInv, ConnInv, ConnectFails, Calls
<1>14. CASE Disconnect
  BY <1>14 DEF TypeOK, NetTypeOK, ClientTypeOK, CallInv, ConnInv, Disconnect, CloseSocket
<1>15. ASSUME NEW k \in Requests, Request(k) PROVE CallInv'
  BY <1>15 DEF TypeOK, NetTypeOK, ClientTypeOK, CallInv, ConnInv, Requests, Configurations, Request, Calls, Post
<1>16. ASSUME NEW cmd \in {"START", "KILL"}, Command(cmd) PROVE CallInv'
  BY <1>16 DEF TypeOK, NetTypeOK, ClientTypeOK, CallInv, ConnInv, Command, Calls, Post, Succeed, NextStep
<1>17. ASSUME NEW cmd \in Requests \cup {"START", "KILL", "DATA"}, CallFails(cmd) PROVE CallInv'
  <2>1. PICK open \in BOOLEAN, aligned \in BOOLEAN : Throw(open, stream, aligned)
    BY <1>17 DEF CallFails, TypeOK, NetTypeOK, ClientTypeOK
  <2>2. stream \in Seq(Frame) /\ TypeOK
    BY DEF TypeOK, NetTypeOK
  <2>3. /\ step' \in {step, "connect"}
        /\ \/ /\ program = "dll" /\ step' = step
              /\ conn' = conn /\ toServer' = toServer /\ gone' = gone
              /\ stream' = stream /\ inStep' \in BOOLEAN
           \/ /\ conn' = NoConn /\ toServer' = <<>> /\ stream' = <<>>
              /\ gone' = FALSE /\ inStep' = TRUE
              /\ step' = IF program = "console" THEN "connect" ELSE step
    BY <2>1, <2>2, ThrowLeaves
  <2> QED
    BY <1>17, <2>3, EmptyQueues DEF TypeOK, NetTypeOK, ClientTypeOK, CallInv, ConnInv, CallFails, Abandon, Leave, Calls
<1>18. CASE ReadDataFrame
  BY <1>18 DEF TypeOK, NetTypeOK, ClientTypeOK, CallInv, ConnInv, ReadDataFrame, Calls, HasConfiguration
<1>19. CASE ReadHeader
  BY <1>19 DEF TypeOK, NetTypeOK, ClientTypeOK, CallInv, ConnInv, ReadHeader
<1>20. CASE ReadBody
  BY <1>20 DEF TypeOK, NetTypeOK, ClientTypeOK, CallInv, ConnInv, Frame, Kinds, ReadBody, Handle, ReturnOrGoOn, IsTarget, Leave, Succeed, NextStep
<1>21. CASE RecvEnd
  <2>1. PICK open \in BOOLEAN, aligned \in BOOLEAN : Throw(open, stream, aligned)
    BY <1>21 DEF RecvEnd, TypeOK, NetTypeOK, ClientTypeOK
  <2>2. stream \in Seq(Frame) /\ TypeOK
    BY DEF TypeOK, NetTypeOK
  <2>3. /\ step' \in {step, "connect"}
        /\ \/ /\ program = "dll" /\ step' = step
              /\ conn' = conn /\ toServer' = toServer /\ gone' = gone
              /\ stream' = stream /\ inStep' \in BOOLEAN
           \/ /\ conn' = NoConn /\ toServer' = <<>> /\ stream' = <<>>
              /\ gone' = FALSE /\ inStep' = TRUE
              /\ step' = IF program = "console" THEN "connect" ELSE step
    BY <2>1, <2>2, ThrowLeaves
  <2> QED
    BY <1>21, <2>3, EmptyQueues DEF TypeOK, NetTypeOK, ClientTypeOK, CallInv, ConnInv, RecvEnd, Abandon, Leave, Calls
<1>22. CASE RecvReset
  <2>1. PICK open \in BOOLEAN, aligned \in BOOLEAN : Throw(open, stream, aligned)
    BY <1>22 DEF RecvReset, TypeOK, NetTypeOK, ClientTypeOK
  <2>2. stream \in Seq(Frame) /\ TypeOK
    BY DEF TypeOK, NetTypeOK
  <2>3. /\ step' \in {step, "connect"}
        /\ \/ /\ program = "dll" /\ step' = step
              /\ conn' = conn /\ toServer' = toServer /\ gone' = gone
              /\ stream' = stream /\ inStep' \in BOOLEAN
           \/ /\ conn' = NoConn /\ toServer' = <<>> /\ stream' = <<>>
              /\ gone' = FALSE /\ inStep' = TRUE
              /\ step' = IF program = "console" THEN "connect" ELSE step
    BY <2>1, <2>2, ThrowLeaves
  <2> QED
    BY <1>22, <2>3, EmptyQueues DEF TypeOK, NetTypeOK, ClientTypeOK, CallInv, ConnInv, RecvReset, Abandon, Leave, Calls
<1>23. CASE MisreadHeader
  <2>1. PICK n \in 0..Len(stream), aligned \in BOOLEAN :
          Throw(TRUE, SubSeq(stream, n + 1, Len(stream)), aligned)
    BY <1>23 DEF MisreadHeader
  <2> DEFINE rest == SubSeq(stream, n + 1, Len(stream))
  <2>2. /\ rest \in Seq(Frame) /\ Len(rest) = Len(stream) - n
        /\ \A i \in 1..Len(rest) : rest[i] = stream[n + i] /\ n + i \in 1..Len(stream)
    BY RestOfStream DEF TypeOK, NetTypeOK
  <2> HIDE DEF rest
  <2>3. /\ step' \in {step, "connect"}
        /\ \/ /\ program = "dll" /\ step' = step
              /\ conn' = conn /\ toServer' = toServer /\ gone' = gone
              /\ stream' = rest /\ inStep' \in BOOLEAN
           \/ /\ conn' = NoConn /\ toServer' = <<>> /\ stream' = <<>>
              /\ gone' = FALSE /\ inStep' = TRUE
              /\ step' = IF program = "console" THEN "connect" ELSE step
    BY <2>1, <2>2, ThrowLeaves DEF rest
  <2>4. /\ at \in {"header", "body"}
        /\ at' = "idle" /\ target' = "NONE" /\ asked' = 0
        /\ ~surplus' => ~surplus /\ target # "CFG2"
        /\ UNCHANGED <<pdcVars, used, objVars, program>>
    BY <1>23 DEF MisreadHeader, Abandon, Leave
  <2>5. UNCHANGED timedOut
    BY <1>23 DEF MisreadHeader
  <2>6. \A i \in 1..Len(rest) : \E j \in 1..Len(stream) : rest[i] = stream[j]
    BY <2>2
  <2> QED
    BY <2>2, <2>3, <2>4, <2>5, EmptyQueues DEF TypeOK, NetTypeOK, ClientTypeOK, CallInv, ConnInv
<1>24. CASE TakeGarbage
  BY <1>24 DEF TypeOK, NetTypeOK, ClientTypeOK, CallInv, ConnInv, TakeGarbage
<1>25. CASE Timeout
  <2>1. PICK open \in BOOLEAN, aligned \in BOOLEAN : Throw(open, stream, aligned)
    BY <1>25 DEF Timeout, TypeOK, NetTypeOK, ClientTypeOK
  <2>2. stream \in Seq(Frame) /\ TypeOK
    BY DEF TypeOK, NetTypeOK
  <2>3. /\ step' \in {step, "connect"}
        /\ \/ /\ program = "dll" /\ step' = step
              /\ conn' = conn /\ toServer' = toServer /\ gone' = gone
              /\ stream' = stream /\ inStep' \in BOOLEAN
           \/ /\ conn' = NoConn /\ toServer' = <<>> /\ stream' = <<>>
              /\ gone' = FALSE /\ inStep' = TRUE
              /\ step' = IF program = "console" THEN "connect" ELSE step
    BY <2>1, <2>2, ThrowLeaves
  <2> QED
    BY <1>25, <2>3, EmptyQueues DEF TypeOK, NetTypeOK, ClientTypeOK, CallInv, ConnInv, Timeout, Abandon, Leave, Calls
<1> QED
  BY <1>1, <1>2, <1>3, <1>4, <1>5, <1>6, <1>7, <1>8, <1>9, <1>10, <1>11, <1>12, <1>13, <1>14, <1>15, <1>16, <1>17, <1>18, <1>19, <1>20, <1>21, <1>22, <1>23, <1>24, <1>25 DEF Next, PdcNext, ClientNext, Receive

(* The connection and its session. *)
LEMMA ConnStep ==
  ASSUME TypeOK, CallInv, ConnInv, Next
  PROVE  ConnInv'
<1>1. CASE Reply
  BY <1>1, StreamAssumption DEF TypeOK, NetTypeOK, ClientTypeOK, PdcTypeOK, SessionTypeOK, CallInv, ConnInv, Reply, Served, HasRoom, Send, Layout, Current
<1>2. CASE Reject
  BY <1>2, StreamAssumption DEF TypeOK, NetTypeOK, ClientTypeOK, PdcTypeOK, SessionTypeOK, CallInv, ConnInv, Live, Reject, Served, End
<1>3. CASE SwitchStream
  BY <1>3, StreamAssumption DEF TypeOK, NetTypeOK, ClientTypeOK, PdcTypeOK, SessionTypeOK, CallInv, ConnInv, Live, SwitchStream, Served, Switch
<1>4. CASE SendData
  BY <1>4, StreamAssumption DEF TypeOK, NetTypeOK, ClientTypeOK, PdcTypeOK, SessionTypeOK, CallInv, ConnInv, SendData, Served, HasRoom, Send, Layout, LateFrame
<1>5. CASE Broadcast
  BY <1>5, StreamAssumption DEF TypeOK, NetTypeOK, ClientTypeOK, PdcTypeOK, SessionTypeOK, CallInv, ConnInv, Broadcast, Served, HasRoom, Send, Current
<1>6. CASE SetConfiguration
  BY <1>6, StreamAssumption DEF TypeOK, NetTypeOK, ClientTypeOK, PdcTypeOK, SessionTypeOK, CallInv, ConnInv, SetConfiguration
<1>7. CASE StopPdc
  BY <1>7, StreamAssumption DEF TypeOK, NetTypeOK, ClientTypeOK, PdcTypeOK, SessionTypeOK, CallInv, ConnInv, StopPdc
<1>8. CASE EndSession
  BY <1>8, StreamAssumption DEF TypeOK, NetTypeOK, ClientTypeOK, PdcTypeOK, SessionTypeOK, CallInv, ConnInv, Live, EndSession, End
<1>9. CASE StartPdc
  BY <1>9, StreamAssumption DEF TypeOK, NetTypeOK, ClientTypeOK, PdcTypeOK, SessionTypeOK, CallInv, ConnInv, StartPdc
<1>10. CASE Enlist
  BY <1>10, StreamAssumption DEF TypeOK, NetTypeOK, ClientTypeOK, PdcTypeOK, SessionTypeOK, CallInv, ConnInv, Live, Enlist, Join
<1>11. ASSUME NEW c \in Conns, DropClosed(c) PROVE ConnInv'
  BY <1>11, StreamAssumption DEF TypeOK, NetTypeOK, ClientTypeOK, PdcTypeOK, SessionTypeOK, CallInv, ConnInv, Live, DropClosed, End
<1>12. ASSUME NEW c \in Conns, Connect(c) PROVE ConnInv'
  BY <1>12, StreamAssumption DEF TypeOK, NetTypeOK, ClientTypeOK, PdcTypeOK, SessionTypeOK, CallInv, ConnInv, Connect, Calls
<1>13. CASE ConnectFails
  BY <1>13, StreamAssumption DEF TypeOK, NetTypeOK, ClientTypeOK, PdcTypeOK, SessionTypeOK, CallInv, ConnInv, ConnectFails, Calls
<1>14. CASE Disconnect
  BY <1>14, StreamAssumption DEF TypeOK, NetTypeOK, ClientTypeOK, PdcTypeOK, SessionTypeOK, CallInv, ConnInv, Disconnect, CloseSocket
<1>15. ASSUME NEW k \in Requests, Request(k) PROVE ConnInv'
  BY <1>15, StreamAssumption DEF TypeOK, NetTypeOK, ClientTypeOK, PdcTypeOK, SessionTypeOK, CallInv, ConnInv, Request, Calls, Post
<1>16. ASSUME NEW cmd \in {"START", "KILL"}, Command(cmd) PROVE ConnInv'
  BY <1>16, StreamAssumption DEF TypeOK, NetTypeOK, ClientTypeOK, PdcTypeOK, SessionTypeOK, CallInv, ConnInv, Command, Calls, Post, Succeed, NextStep
<1>17. ASSUME NEW cmd \in Requests \cup {"START", "KILL", "DATA"}, CallFails(cmd) PROVE ConnInv'
  <2>1. PICK open \in BOOLEAN, aligned \in BOOLEAN : Throw(open, stream, aligned)
    BY <1>17 DEF CallFails, TypeOK, NetTypeOK, ClientTypeOK
  <2>2. stream \in Seq(Frame) /\ TypeOK
    BY DEF TypeOK, NetTypeOK
  <2>3. /\ step' \in {step, "connect"}
        /\ \/ /\ program = "dll" /\ step' = step
              /\ conn' = conn /\ toServer' = toServer /\ gone' = gone
              /\ stream' = stream /\ inStep' \in BOOLEAN
           \/ /\ conn' = NoConn /\ toServer' = <<>> /\ stream' = <<>>
              /\ gone' = FALSE /\ inStep' = TRUE
              /\ step' = IF program = "console" THEN "connect" ELSE step
    BY <2>1, <2>2, ThrowLeaves
  <2> QED
    BY <1>17, <2>3, EmptyQueues DEF TypeOK, NetTypeOK, ClientTypeOK, PdcTypeOK, SessionTypeOK, CallInv, ConnInv, CallFails, Abandon, Leave, Calls
<1>18. CASE ReadDataFrame
  BY <1>18, StreamAssumption DEF TypeOK, NetTypeOK, ClientTypeOK, PdcTypeOK, SessionTypeOK, CallInv, ConnInv, ReadDataFrame, Calls, HasConfiguration
<1>19. CASE ReadHeader
  BY <1>19, StreamAssumption DEF TypeOK, NetTypeOK, ClientTypeOK, PdcTypeOK, SessionTypeOK, CallInv, ConnInv, ReadHeader
<1>20. CASE ReadBody
  BY <1>20, StreamAssumption DEF TypeOK, NetTypeOK, ClientTypeOK, PdcTypeOK, SessionTypeOK, CallInv, ConnInv, ReadBody, Handle, ReturnOrGoOn, IsTarget, Leave, Succeed, NextStep
<1>21. CASE RecvEnd
  <2>1. PICK open \in BOOLEAN, aligned \in BOOLEAN : Throw(open, stream, aligned)
    BY <1>21 DEF RecvEnd, TypeOK, NetTypeOK, ClientTypeOK
  <2>2. stream \in Seq(Frame) /\ TypeOK
    BY DEF TypeOK, NetTypeOK
  <2>3. /\ step' \in {step, "connect"}
        /\ \/ /\ program = "dll" /\ step' = step
              /\ conn' = conn /\ toServer' = toServer /\ gone' = gone
              /\ stream' = stream /\ inStep' \in BOOLEAN
           \/ /\ conn' = NoConn /\ toServer' = <<>> /\ stream' = <<>>
              /\ gone' = FALSE /\ inStep' = TRUE
              /\ step' = IF program = "console" THEN "connect" ELSE step
    BY <2>1, <2>2, ThrowLeaves
  <2> QED
    BY <1>21, <2>3, EmptyQueues DEF TypeOK, NetTypeOK, ClientTypeOK, PdcTypeOK, SessionTypeOK, CallInv, ConnInv, RecvEnd, Abandon, Leave, Calls
<1>22. CASE RecvReset
  <2>1. PICK open \in BOOLEAN, aligned \in BOOLEAN : Throw(open, stream, aligned)
    BY <1>22 DEF RecvReset, TypeOK, NetTypeOK, ClientTypeOK
  <2>2. stream \in Seq(Frame) /\ TypeOK
    BY DEF TypeOK, NetTypeOK
  <2>3. /\ step' \in {step, "connect"}
        /\ \/ /\ program = "dll" /\ step' = step
              /\ conn' = conn /\ toServer' = toServer /\ gone' = gone
              /\ stream' = stream /\ inStep' \in BOOLEAN
           \/ /\ conn' = NoConn /\ toServer' = <<>> /\ stream' = <<>>
              /\ gone' = FALSE /\ inStep' = TRUE
              /\ step' = IF program = "console" THEN "connect" ELSE step
    BY <2>1, <2>2, ThrowLeaves
  <2> QED
    BY <1>22, <2>3, EmptyQueues DEF TypeOK, NetTypeOK, ClientTypeOK, PdcTypeOK, SessionTypeOK, CallInv, ConnInv, RecvReset, Abandon, Leave, Calls
<1>23. CASE MisreadHeader
  <2>1. PICK n \in 0..Len(stream), aligned \in BOOLEAN :
          Throw(TRUE, SubSeq(stream, n + 1, Len(stream)), aligned)
    BY <1>23 DEF MisreadHeader
  <2> DEFINE rest == SubSeq(stream, n + 1, Len(stream))
  <2>2. /\ rest \in Seq(Frame) /\ Len(rest) = Len(stream) - n
        /\ \A i \in 1..Len(rest) : rest[i] = stream[n + i] /\ n + i \in 1..Len(stream)
    BY RestOfStream DEF TypeOK, NetTypeOK
  <2> HIDE DEF rest
  <2>3. /\ step' \in {step, "connect"}
        /\ \/ /\ program = "dll" /\ step' = step
              /\ conn' = conn /\ toServer' = toServer /\ gone' = gone
              /\ stream' = rest /\ inStep' \in BOOLEAN
           \/ /\ conn' = NoConn /\ toServer' = <<>> /\ stream' = <<>>
              /\ gone' = FALSE /\ inStep' = TRUE
              /\ step' = IF program = "console" THEN "connect" ELSE step
    BY <2>1, <2>2, ThrowLeaves DEF rest
  <2>4. /\ at \in {"header", "body"}
        /\ at' = "idle" /\ target' = "NONE" /\ asked' = 0
        /\ ~surplus' => ~surplus /\ target # "CFG2"
        /\ UNCHANGED <<pdcVars, used, objVars, program>>
    BY <1>23 DEF MisreadHeader, Abandon, Leave
  <2>5. UNCHANGED timedOut
    BY <1>23 DEF MisreadHeader
  <2>6. \A i \in 1..Len(rest) : \E j \in 1..Len(stream) : rest[i] = stream[j]
    BY <2>2
  <2> QED
    BY <2>2, <2>3, <2>4, <2>5, EmptyQueues DEF TypeOK, NetTypeOK, ClientTypeOK, PdcTypeOK, SessionTypeOK, CallInv, ConnInv
<1>24. CASE TakeGarbage
  BY <1>24, StreamAssumption DEF TypeOK, NetTypeOK, ClientTypeOK, PdcTypeOK, SessionTypeOK, CallInv, ConnInv, TakeGarbage
<1>25. CASE Timeout
  <2>1. PICK open \in BOOLEAN, aligned \in BOOLEAN : Throw(open, stream, aligned)
    BY <1>25 DEF Timeout, TypeOK, NetTypeOK, ClientTypeOK
  <2>2. stream \in Seq(Frame) /\ TypeOK
    BY DEF TypeOK, NetTypeOK
  <2>3. /\ step' \in {step, "connect"}
        /\ \/ /\ program = "dll" /\ step' = step
              /\ conn' = conn /\ toServer' = toServer /\ gone' = gone
              /\ stream' = stream /\ inStep' \in BOOLEAN
           \/ /\ conn' = NoConn /\ toServer' = <<>> /\ stream' = <<>>
              /\ gone' = FALSE /\ inStep' = TRUE
              /\ step' = IF program = "console" THEN "connect" ELSE step
    BY <2>1, <2>2, ThrowLeaves
  <2> QED
    BY <1>25, <2>3, EmptyQueues DEF TypeOK, NetTypeOK, ClientTypeOK, PdcTypeOK, SessionTypeOK, CallInv, ConnInv, Timeout, Abandon, Leave, Calls
<1> QED
  BY <1>1, <1>2, <1>3, <1>4, <1>5, <1>6, <1>7, <1>8, <1>9, <1>10, <1>11, <1>12, <1>13, <1>14, <1>15, <1>16, <1>17, <1>18, <1>19, <1>20, <1>21, <1>22, <1>23, <1>24, <1>25 DEF Next, PdcNext, ClientNext, Receive

(* A connection keeps to its PDC. *)
LEMMA FramesStep ==
  ASSUME TypeOK, CallInv, ConnInv, Next, NEW p \in 0..pdc, ConnectedTo(p)
  PROVE  p \in 0..pdc' /\ (ConnectedTo(p)' \/ ConnectedTo(pdc)')
<1>1. CASE Reply
  BY <1>1, ConfigFacts DEF TypeOK, NetTypeOK, ClientTypeOK, PdcTypeOK, CallInv, ConnInv, ConnectedTo, Requests, Configurations, Reply, Served, HasRoom, Send, Layout, Current
<1>2. CASE Reject
  BY <1>2 DEF TypeOK, NetTypeOK, ClientTypeOK, PdcTypeOK, CallInv, ConnInv, ConnectedTo, Reject, Served, End
<1>3. CASE SwitchStream
  BY <1>3 DEF TypeOK, NetTypeOK, ClientTypeOK, PdcTypeOK, CallInv, ConnInv, ConnectedTo, SwitchStream, Served, Switch
<1>4. CASE SendData
  BY <1>4, ConfigFacts DEF TypeOK, NetTypeOK, ClientTypeOK, PdcTypeOK, CallInv, ConnInv, ConnectedTo, SendData, Served, HasRoom, Send, Layout, LateFrame
<1>5. CASE Broadcast
  BY <1>5, ConfigFacts DEF TypeOK, NetTypeOK, ClientTypeOK, PdcTypeOK, CallInv, ConnInv, ConnectedTo, Broadcast, Served, HasRoom, Send, Current
<1>6. CASE SetConfiguration
  BY <1>6 DEF TypeOK, NetTypeOK, ClientTypeOK, PdcTypeOK, CallInv, ConnInv, ConnectedTo, SetConfiguration
<1>7. CASE StopPdc
  BY <1>7 DEF TypeOK, NetTypeOK, ClientTypeOK, PdcTypeOK, CallInv, ConnInv, ConnectedTo, StopPdc
<1>8. CASE EndSession
  BY <1>8 DEF TypeOK, NetTypeOK, ClientTypeOK, PdcTypeOK, CallInv, ConnInv, ConnectedTo, EndSession, End
<1>9. CASE StartPdc
  BY <1>9 DEF TypeOK, NetTypeOK, ClientTypeOK, PdcTypeOK, CallInv, ConnInv, ConnectedTo, StartPdc
<1>10. CASE Enlist
  BY <1>10 DEF TypeOK, NetTypeOK, ClientTypeOK, PdcTypeOK, CallInv, ConnInv, ConnectedTo, Enlist, Join
<1>11. ASSUME NEW c \in Conns, DropClosed(c) PROVE p \in 0..pdc' /\ (ConnectedTo(p)' \/ ConnectedTo(pdc)')
  BY <1>11 DEF TypeOK, NetTypeOK, ClientTypeOK, PdcTypeOK, CallInv, ConnInv, ConnectedTo, DropClosed, End
<1>12. ASSUME NEW c \in Conns, Connect(c) PROVE p \in 0..pdc' /\ (ConnectedTo(p)' \/ ConnectedTo(pdc)')
  BY <1>12 DEF TypeOK, NetTypeOK, ClientTypeOK, PdcTypeOK, CallInv, ConnInv, ConnectedTo, None, Connect, Calls
<1>13. CASE ConnectFails
  BY <1>13 DEF TypeOK, NetTypeOK, ClientTypeOK, PdcTypeOK, CallInv, ConnInv, ConnectedTo, ConnectFails, Calls
<1>14. CASE Disconnect
  BY <1>14 DEF TypeOK, NetTypeOK, ClientTypeOK, PdcTypeOK, CallInv, ConnInv, ConnectedTo, Disconnect, CloseSocket
<1>15. ASSUME NEW k \in Requests, Request(k) PROVE p \in 0..pdc' /\ (ConnectedTo(p)' \/ ConnectedTo(pdc)')
  BY <1>15 DEF TypeOK, NetTypeOK, ClientTypeOK, PdcTypeOK, CallInv, ConnInv, ConnectedTo, Requests, Configurations, Request, Calls, Post
<1>16. ASSUME NEW cmd \in {"START", "KILL"}, Command(cmd) PROVE p \in 0..pdc' /\ (ConnectedTo(p)' \/ ConnectedTo(pdc)')
  BY <1>16 DEF TypeOK, NetTypeOK, ClientTypeOK, PdcTypeOK, CallInv, ConnInv, ConnectedTo, Command, Calls, Post, Succeed, NextStep
<1>17. ASSUME NEW cmd \in Requests \cup {"START", "KILL", "DATA"}, CallFails(cmd) PROVE p \in 0..pdc' /\ (ConnectedTo(p)' \/ ConnectedTo(pdc)')
  <2>1. PICK open \in BOOLEAN, aligned \in BOOLEAN : Throw(open, stream, aligned)
    BY <1>17 DEF CallFails, TypeOK, NetTypeOK, ClientTypeOK
  <2>2. stream \in Seq(Frame) /\ TypeOK
    BY DEF TypeOK, NetTypeOK
  <2>3. /\ step' \in {step, "connect"}
        /\ \/ /\ program = "dll" /\ step' = step
              /\ conn' = conn /\ toServer' = toServer /\ gone' = gone
              /\ stream' = stream /\ inStep' \in BOOLEAN
           \/ /\ conn' = NoConn /\ toServer' = <<>> /\ stream' = <<>>
              /\ gone' = FALSE /\ inStep' = TRUE
              /\ step' = IF program = "console" THEN "connect" ELSE step
    BY <2>1, <2>2, ThrowLeaves
  <2> QED
    BY <1>17, <2>3, EmptyQueues DEF TypeOK, NetTypeOK, ClientTypeOK, PdcTypeOK, CallInv, ConnInv, ConnectedTo, CallFails, Abandon, Leave, Calls
<1>18. CASE ReadDataFrame
  BY <1>18 DEF TypeOK, NetTypeOK, ClientTypeOK, PdcTypeOK, CallInv, ConnInv, ConnectedTo, ReadDataFrame, Calls, HasConfiguration
<1>19. CASE ReadHeader
  BY <1>19 DEF TypeOK, NetTypeOK, ClientTypeOK, PdcTypeOK, CallInv, ConnInv, ConnectedTo, ReadHeader
<1>20. CASE ReadBody
  <2>1. stream \in Seq(Frame) /\ stream # <<>>
    BY <1>20 DEF ReadBody, TypeOK, NetTypeOK
  <2>2. /\ Head(stream) = stream[1] /\ 1 \in 1..Len(stream)
        /\ stream[1].kind \in Kinds /\ stream[1].cfg \in Configs
        /\ Len(Tail(stream)) = Len(stream) - 1
        /\ \A i \in 1..Len(Tail(stream)) :
             Tail(stream)[i] = stream[i + 1] /\ i + 1 \in 1..Len(stream)
    BY <2>1, FirstFrame DEF Frame
  <2> DEFINE frame == stream[1]
  <2>3. /\ stream' = Tail(stream)
        /\ decode' = IF frame.kind \in Configurations THEN frame.cfg ELSE decode
        /\ pdcConfig' = IF frame.kind = "CFG2" THEN frame.cfg ELSE pdcConfig
        /\ UNCHANGED <<pdcVars, used, toServer, gone, inStep, conn, timedOut, program, surplus>>
    BY <1>20, <2>2 DEF ReadBody, Handle
  <2>4. \/ frame.kind = target /\ target' = "NONE" /\ asked' = 0 /\ at' = "idle"
        \/ frame.kind # target /\ target' = target /\ asked' = asked /\ at' = "header" /\ step' = step
    BY <1>20, <2>2 DEF ReadBody, ReturnOrGoOn, IsTarget, Leave
  <2>5. /\ step' \in {step, "CFG3", "START", "DATA"}
        /\ step' \in {"START", "DATA"} /\ step' # step =>
             \/ step \in {"START", "DATA"}
             \/ step \in {"connect", "CFG3"} /\ program = "console" /\ frame.kind = target
    BY <1>20, <2>2 DEF ReadBody, ReturnOrGoOn, IsTarget, Succeed, NextStep, TypeOK, ClientTypeOK
  <2> QED
    BY <1>20, <2>2, <2>3, <2>4, <2>5, ConfigFacts DEF TypeOK, ClientTypeOK, CallInv, ConnInv, ConnectedTo, None, Configurations, Kinds, Requests, ReadBody
<1>21. CASE RecvEnd
  <2>1. PICK open \in BOOLEAN, aligned \in BOOLEAN : Throw(open, stream, aligned)
    BY <1>21 DEF RecvEnd, TypeOK, NetTypeOK, ClientTypeOK
  <2>2. stream \in Seq(Frame) /\ TypeOK
    BY DEF TypeOK, NetTypeOK
  <2>3. /\ step' \in {step, "connect"}
        /\ \/ /\ program = "dll" /\ step' = step
              /\ conn' = conn /\ toServer' = toServer /\ gone' = gone
              /\ stream' = stream /\ inStep' \in BOOLEAN
           \/ /\ conn' = NoConn /\ toServer' = <<>> /\ stream' = <<>>
              /\ gone' = FALSE /\ inStep' = TRUE
              /\ step' = IF program = "console" THEN "connect" ELSE step
    BY <2>1, <2>2, ThrowLeaves
  <2>4. /\ at \in {"header", "body"}
        /\ at' = "idle" /\ target' = "NONE" /\ asked' = 0
        /\ ~surplus' => ~surplus /\ target # "CFG2"
        /\ UNCHANGED <<pdcVars, used, objVars, program>>
    BY <1>21 DEF RecvEnd, Abandon, Leave
  <2> QED
    BY <2>3, <2>4, EmptyQueues DEF TypeOK, NetTypeOK, ClientTypeOK, PdcTypeOK, CallInv, ConnInv, ConnectedTo
<1>22. CASE RecvReset
  <2>1. PICK open \in BOOLEAN, aligned \in BOOLEAN : Throw(open, stream, aligned)
    BY <1>22 DEF RecvReset, TypeOK, NetTypeOK, ClientTypeOK
  <2>2. stream \in Seq(Frame) /\ TypeOK
    BY DEF TypeOK, NetTypeOK
  <2>3. /\ step' \in {step, "connect"}
        /\ \/ /\ program = "dll" /\ step' = step
              /\ conn' = conn /\ toServer' = toServer /\ gone' = gone
              /\ stream' = stream /\ inStep' \in BOOLEAN
           \/ /\ conn' = NoConn /\ toServer' = <<>> /\ stream' = <<>>
              /\ gone' = FALSE /\ inStep' = TRUE
              /\ step' = IF program = "console" THEN "connect" ELSE step
    BY <2>1, <2>2, ThrowLeaves
  <2>4. /\ at \in {"header", "body"}
        /\ at' = "idle" /\ target' = "NONE" /\ asked' = 0
        /\ ~surplus' => ~surplus /\ target # "CFG2"
        /\ UNCHANGED <<pdcVars, used, objVars, program>>
    BY <1>22 DEF RecvReset, Abandon, Leave
  <2> QED
    BY <2>3, <2>4, EmptyQueues DEF TypeOK, NetTypeOK, ClientTypeOK, PdcTypeOK, CallInv, ConnInv, ConnectedTo
<1>23. CASE MisreadHeader
  <2>1. PICK n \in 0..Len(stream), aligned \in BOOLEAN :
          Throw(TRUE, SubSeq(stream, n + 1, Len(stream)), aligned)
    BY <1>23 DEF MisreadHeader
  <2> DEFINE rest == SubSeq(stream, n + 1, Len(stream))
  <2>2. /\ rest \in Seq(Frame) /\ Len(rest) = Len(stream) - n
        /\ \A i \in 1..Len(rest) : rest[i] = stream[n + i] /\ n + i \in 1..Len(stream)
    BY RestOfStream DEF TypeOK, NetTypeOK
  <2> HIDE DEF rest
  <2>3. /\ step' \in {step, "connect"}
        /\ \/ /\ program = "dll" /\ step' = step
              /\ conn' = conn /\ toServer' = toServer /\ gone' = gone
              /\ stream' = rest /\ inStep' \in BOOLEAN
           \/ /\ conn' = NoConn /\ toServer' = <<>> /\ stream' = <<>>
              /\ gone' = FALSE /\ inStep' = TRUE
              /\ step' = IF program = "console" THEN "connect" ELSE step
    BY <2>1, <2>2, ThrowLeaves DEF rest
  <2>4. /\ at \in {"header", "body"}
        /\ at' = "idle" /\ target' = "NONE" /\ asked' = 0
        /\ ~surplus' => ~surplus /\ target # "CFG2"
        /\ UNCHANGED <<pdcVars, used, objVars, program>>
    BY <1>23 DEF MisreadHeader, Abandon, Leave
  <2>5. UNCHANGED timedOut
    BY <1>23 DEF MisreadHeader
  <2>6. \A i \in 1..Len(rest) : \E j \in 1..Len(stream) : rest[i] = stream[j]
    BY <2>2
  <2>7. CASE conn' = conn /\ stream' = rest
    <3>1. \A i \in 1..Len(rest) : rest[i].cfg[1] = p /\ (rest[i].kind = "DATA" => rest[i].cfg[2] = 0)
      BY <2>6 DEF ConnectedTo
    <3>2. conn # NoConn /\ program = "dll" /\ gone' = gone /\ step' = step
      BY <2>3, <2>4, <2>7 DEF CallInv
    <3> QED
      BY <2>4, <2>7, <3>1, <3>2 DEF TypeOK, NetTypeOK, ClientTypeOK, PdcTypeOK, CallInv, ConnInv, ConnectedTo
  <2>8. CASE conn' = NoConn /\ stream' = <<>>
    BY <2>3, <2>4, <2>5, <2>8 DEF TypeOK, NetTypeOK, ClientTypeOK, PdcTypeOK, CallInv, ConnInv, ConnectedTo
  <2> QED
    BY <2>3, <2>7, <2>8
<1>24. CASE TakeGarbage
  BY <1>24 DEF TypeOK, NetTypeOK, ClientTypeOK, PdcTypeOK, CallInv, ConnInv, ConnectedTo, TakeGarbage
<1>25. CASE Timeout
  <2>1. PICK open \in BOOLEAN, aligned \in BOOLEAN : Throw(open, stream, aligned)
    BY <1>25 DEF Timeout, TypeOK, NetTypeOK, ClientTypeOK
  <2>2. stream \in Seq(Frame) /\ TypeOK
    BY DEF TypeOK, NetTypeOK
  <2>3. /\ step' \in {step, "connect"}
        /\ \/ /\ program = "dll" /\ step' = step
              /\ conn' = conn /\ toServer' = toServer /\ gone' = gone
              /\ stream' = stream /\ inStep' \in BOOLEAN
           \/ /\ conn' = NoConn /\ toServer' = <<>> /\ stream' = <<>>
              /\ gone' = FALSE /\ inStep' = TRUE
              /\ step' = IF program = "console" THEN "connect" ELSE step
    BY <2>1, <2>2, ThrowLeaves
  <2>4. /\ at \in {"header", "body"}
        /\ at' = "idle" /\ target' = "NONE" /\ asked' = 0
        /\ ~surplus' => ~surplus /\ target # "CFG2"
        /\ UNCHANGED <<pdcVars, used, objVars, program>>
    BY <1>25 DEF Timeout, Abandon, Leave
  <2> QED
    BY <2>3, <2>4, EmptyQueues DEF TypeOK, NetTypeOK, ClientTypeOK, PdcTypeOK, CallInv, ConnInv, ConnectedTo
<1> QED
  BY <1>1, <1>2, <1>3, <1>4, <1>5, <1>6, <1>7, <1>8, <1>9, <1>10, <1>11, <1>12, <1>13, <1>14, <1>15, <1>16, <1>17, <1>18, <1>19, <1>20, <1>21, <1>22, <1>23, <1>24, <1>25 DEF Next, PdcNext, ClientNext, Receive

(* At most one configuration is under way for a call. *)
LEMMA FreshStep ==
  ASSUME TypeOK, CallInv, ConnInv, Next, FreshInv
  PROVE  FreshInv'
<1>1. CASE Reply
  <2> DEFINE kind == Head(toServer)
             cfg == IF kind = "CFG2" THEN Current ELSE Layout
  <2>1. /\ toServer # <<>> /\ kind \in Requests
        /\ stream' = Append(stream, [kind |-> kind, cfg |-> cfg])
        /\ toServer' = Tail(toServer)
        /\ UNCHANGED <<pdcVars, used, gone, clientSide, histVars>>
        /\ session[conn] \in Live /\ conn # NoConn
    BY <1>1 DEF Reply, Served, Send
  <2>2. stream \in Seq(Frame) /\ toServer \in Seq(Requests \cup {"START", "KILL"})
    BY DEF TypeOK, NetTypeOK
  <2>3. /\ kind = toServer[1] /\ 1 \in 1..Len(toServer)
        /\ Len(toServer') = Len(toServer) - 1
        /\ \A i \in 1..Len(toServer') : toServer'[i] = toServer[i + 1] /\ i + 1 \in 1..Len(toServer)
    BY <2>1, <2>2
  <2>4. kind = "CFG2" => cfg[2] = set
    BY DEF Current
  <2> HIDE DEF kind, cfg
  <2>5. /\ Len(stream') = Len(stream) + 1
        /\ \A i \in 1..Len(stream) : stream'[i] = stream[i]
        /\ stream'[Len(stream) + 1].kind = kind /\ stream'[Len(stream) + 1].cfg = cfg
    BY <2>1, <2>2
  <2>6. Len(stream) \in Nat /\ Len(toServer) \in Nat
    BY <2>2
  <2>7. \A i \in 1..Len(stream') : i \in 1..Len(stream) \/ i = Len(stream) + 1
    BY <2>5, <2>6
  <2>8. ~gone
    BY <2>1 DEF ConnInv
  <2>9. CASE kind = "CFG2"
    <3>1. target = "CFG2" \/ surplus
      BY <2>3, <2>9 DEF FreshInv
    <3>2. ~surplus => /\ \A i \in 1..Len(stream) : stream[i].kind # "CFG2"
                      /\ \A i \in 1..Len(toServer') : toServer'[i] # "CFG2"
      <4>1. SUFFICES ASSUME ~surplus
                     PROVE  /\ \A i \in 1..Len(stream) : stream[i].kind # "CFG2"
                            /\ \A i \in 1..Len(toServer') : toServer'[i] # "CFG2"
        OBVIOUS
      <4>2. target = "CFG2" /\ toServer[1] = "CFG2"
        BY <2>3, <2>9, <3>1, <4>1
      <4>3. \A i \in 1..Len(stream) : stream[i].kind # "CFG2"
        BY <2>3, <4>1, <4>2 DEF FreshInv
      <4>4. ASSUME NEW i \in 1..Len(toServer'), toServer'[i] = "CFG2" PROVE FALSE
        <5>1. i + 1 = 1
          BY <2>3, <4>1, <4>2, <4>4 DEF FreshInv
        <5> QED
          BY <2>3, <2>6, <5>1
      <4> QED
        BY <4>3, <4>4
    <3>3. target = "CFG2" => asked <= set
      BY <2>8 DEF FreshInv
    <3> QED
      <4>1. target' = target /\ gone' = gone /\ asked' = asked /\ set' = set /\ surplus' = surplus
        BY <2>1
      <4>2. \A i \in 1..Len(stream') :
              ~surplus /\ stream'[i].kind = "CFG2" => i = Len(stream) + 1
        BY <2>5, <2>7, <3>2
      <4>3. stream'[Len(stream) + 1].cfg[2] = set
        BY <2>4, <2>5, <2>9
      <4>4. \A i \in 1..Len(stream') :
              ~surplus /\ target = "CFG2" /\ stream'[i].kind = "CFG2" => stream'[i].cfg[2] >= asked
        BY <4>2, <4>3, <3>3 DEF TypeOK, PdcTypeOK
      <4> QED
        BY <2>8, <3>1, <3>2, <3>3, <4>1, <4>2, <4>4 DEF FreshInv
  <2>10. CASE kind # "CFG2"
    <3>1. /\ \A i \in 1..Len(stream') : stream'[i].kind = "CFG2" => i \in 1..Len(stream) /\ stream'[i] = stream[i]
      BY <2>5, <2>7, <2>10
    <3>2. ASSUME ~surplus, target = "CFG2",
                 NEW i \in 1..Len(toServer'), NEW j \in 1..Len(toServer'),
                 toServer'[i] = "CFG2", toServer'[j] = "CFG2"
          PROVE  i = j
      <4>1. i + 1 = j + 1
        BY <2>3, <3>2 DEF FreshInv
      <4> QED
        BY <4>1, <2>3, <2>6
    <3> QED
      BY <2>1, <2>3, <3>1, <3>2 DEF FreshInv
  <2> QED
    BY <2>9, <2>10
<1>2. CASE Reject
  BY <1>2 DEF TypeOK, NetTypeOK, ClientTypeOK, PdcTypeOK, CallInv, ConnInv, FreshInv, Reject, Served, End
<1>3. CASE SwitchStream
  BY <1>3 DEF TypeOK, NetTypeOK, ClientTypeOK, PdcTypeOK, CallInv, ConnInv, FreshInv, SwitchStream, Served, Switch
<1>4. CASE SendData
  BY <1>4 DEF TypeOK, NetTypeOK, ClientTypeOK, PdcTypeOK, CallInv, ConnInv, FreshInv, SendData, Served, HasRoom, Send, Layout, LateFrame
<1>5. CASE Broadcast
  BY <1>5, ConfigFacts DEF TypeOK, NetTypeOK, ClientTypeOK, PdcTypeOK, CallInv, ConnInv, FreshInv, Broadcast, Served, HasRoom, Send, Current
<1>6. CASE SetConfiguration
  BY <1>6 DEF TypeOK, NetTypeOK, ClientTypeOK, PdcTypeOK, CallInv, ConnInv, FreshInv, SetConfiguration
<1>7. CASE StopPdc
  BY <1>7 DEF TypeOK, NetTypeOK, ClientTypeOK, PdcTypeOK, CallInv, ConnInv, FreshInv, StopPdc
<1>8. CASE EndSession
  BY <1>8 DEF TypeOK, NetTypeOK, ClientTypeOK, PdcTypeOK, CallInv, ConnInv, FreshInv, EndSession, End
<1>9. CASE StartPdc
  BY <1>9 DEF TypeOK, NetTypeOK, ClientTypeOK, PdcTypeOK, CallInv, ConnInv, FreshInv, StartPdc
<1>10. CASE Enlist
  BY <1>10 DEF TypeOK, NetTypeOK, ClientTypeOK, PdcTypeOK, CallInv, ConnInv, FreshInv, Enlist, Join
<1>11. ASSUME NEW c \in Conns, DropClosed(c) PROVE FreshInv'
  BY <1>11 DEF TypeOK, NetTypeOK, ClientTypeOK, PdcTypeOK, CallInv, ConnInv, FreshInv, DropClosed, End
<1>12. ASSUME NEW c \in Conns, Connect(c) PROVE FreshInv'
  BY <1>12 DEF TypeOK, NetTypeOK, ClientTypeOK, PdcTypeOK, CallInv, ConnInv, FreshInv, Connect, Calls
<1>13. CASE ConnectFails
  BY <1>13 DEF TypeOK, NetTypeOK, ClientTypeOK, PdcTypeOK, CallInv, ConnInv, FreshInv, ConnectFails, Calls
<1>14. CASE Disconnect
  BY <1>14 DEF TypeOK, NetTypeOK, ClientTypeOK, PdcTypeOK, CallInv, ConnInv, FreshInv, Disconnect, CloseSocket
<1>15. ASSUME NEW k \in Requests, Request(k) PROVE FreshInv'
  BY <1>15, ConfigFacts DEF TypeOK, NetTypeOK, ClientTypeOK, PdcTypeOK, CallInv, ConnInv, FreshInv, Request, Calls, Post
<1>16. ASSUME NEW cmd \in {"START", "KILL"}, Command(cmd) PROVE FreshInv'
  BY <1>16 DEF TypeOK, NetTypeOK, ClientTypeOK, PdcTypeOK, CallInv, ConnInv, FreshInv, Command, Calls, Post, Succeed, NextStep
<1>17. ASSUME NEW cmd \in Requests \cup {"START", "KILL", "DATA"}, CallFails(cmd) PROVE FreshInv'
  <2>1. PICK open \in BOOLEAN, aligned \in BOOLEAN : Throw(open, stream, aligned)
    BY <1>17 DEF CallFails, TypeOK, NetTypeOK, ClientTypeOK
  <2>2. stream \in Seq(Frame) /\ TypeOK
    BY DEF TypeOK, NetTypeOK
  <2>3. /\ step' \in {step, "connect"}
        /\ \/ /\ program = "dll" /\ step' = step
              /\ conn' = conn /\ toServer' = toServer /\ gone' = gone
              /\ stream' = stream /\ inStep' \in BOOLEAN
           \/ /\ conn' = NoConn /\ toServer' = <<>> /\ stream' = <<>>
              /\ gone' = FALSE /\ inStep' = TRUE
              /\ step' = IF program = "console" THEN "connect" ELSE step
    BY <2>1, <2>2, ThrowLeaves
  <2> QED
    BY <1>17, <2>3, EmptyQueues DEF TypeOK, NetTypeOK, ClientTypeOK, PdcTypeOK, CallInv, ConnInv, FreshInv, CallFails, Abandon, Leave, Calls
<1>18. CASE ReadDataFrame
  BY <1>18 DEF TypeOK, NetTypeOK, ClientTypeOK, PdcTypeOK, CallInv, ConnInv, FreshInv, ReadDataFrame, Calls, HasConfiguration
<1>19. CASE ReadHeader
  BY <1>19 DEF TypeOK, NetTypeOK, ClientTypeOK, PdcTypeOK, CallInv, ConnInv, FreshInv, ReadHeader
<1>20. CASE ReadBody
  <2>1. stream \in Seq(Frame) /\ stream # <<>>
    BY <1>20 DEF ReadBody, TypeOK, NetTypeOK
  <2>2. /\ Head(stream) = stream[1] /\ 1 \in 1..Len(stream)
        /\ stream[1].kind \in Kinds /\ stream[1].cfg \in Configs
        /\ Len(Tail(stream)) = Len(stream) - 1
        /\ \A i \in 1..Len(Tail(stream)) :
             Tail(stream)[i] = stream[i + 1] /\ i + 1 \in 1..Len(stream)
    BY <2>1, FirstFrame DEF Frame
  <2> DEFINE frame == stream[1]
  <2>3. /\ stream' = Tail(stream)
        /\ decode' = IF frame.kind \in Configurations THEN frame.cfg ELSE decode
        /\ pdcConfig' = IF frame.kind = "CFG2" THEN frame.cfg ELSE pdcConfig
        /\ UNCHANGED <<pdcVars, used, toServer, gone, inStep, conn, timedOut, program, surplus>>
    BY <1>20, <2>2 DEF ReadBody, Handle
  <2>4. \/ frame.kind = target /\ target' = "NONE" /\ asked' = 0 /\ at' = "idle"
        \/ frame.kind # target /\ target' = target /\ asked' = asked /\ at' = "header" /\ step' = step
    BY <1>20, <2>2 DEF ReadBody, ReturnOrGoOn, IsTarget, Leave
  <2>5. /\ step' \in {step, "CFG3", "START", "DATA"}
        /\ step' \in {"START", "DATA"} /\ step' # step =>
             \/ step \in {"START", "DATA"}
             \/ step \in {"connect", "CFG3"} /\ program = "console" /\ frame.kind = target
    BY <1>20, <2>2 DEF ReadBody, ReturnOrGoOn, IsTarget, Succeed, NextStep, TypeOK, ClientTypeOK
  <2> QED
    BY <1>20, <2>2, <2>3, <2>4, <2>5 DEF CallInv, FreshInv
<1>21. CASE RecvEnd
  <2>1. PICK open \in BOOLEAN, aligned \in BOOLEAN : Throw(open, stream, aligned)
    BY <1>21 DEF RecvEnd, TypeOK, NetTypeOK, ClientTypeOK
  <2>2. stream \in Seq(Frame) /\ TypeOK
    BY DEF TypeOK, NetTypeOK
  <2>3. /\ step' \in {step, "connect"}
        /\ \/ /\ program = "dll" /\ step' = step
              /\ conn' = conn /\ toServer' = toServer /\ gone' = gone
              /\ stream' = stream /\ inStep' \in BOOLEAN
           \/ /\ conn' = NoConn /\ toServer' = <<>> /\ stream' = <<>>
              /\ gone' = FALSE /\ inStep' = TRUE
              /\ step' = IF program = "console" THEN "connect" ELSE step
    BY <2>1, <2>2, ThrowLeaves
  <2>4. /\ at \in {"header", "body"}
        /\ at' = "idle" /\ target' = "NONE" /\ asked' = 0
        /\ ~surplus' => ~surplus /\ target # "CFG2"
        /\ UNCHANGED <<pdcVars, used, objVars, program>>
    BY <1>21 DEF RecvEnd, Abandon, Leave
  <2> QED
    BY <2>3, <2>4, EmptyQueues DEF TypeOK, NetTypeOK, ClientTypeOK, PdcTypeOK, CallInv, ConnInv, FreshInv
<1>22. CASE RecvReset
  <2>1. PICK open \in BOOLEAN, aligned \in BOOLEAN : Throw(open, stream, aligned)
    BY <1>22 DEF RecvReset, TypeOK, NetTypeOK, ClientTypeOK
  <2>2. stream \in Seq(Frame) /\ TypeOK
    BY DEF TypeOK, NetTypeOK
  <2>3. /\ step' \in {step, "connect"}
        /\ \/ /\ program = "dll" /\ step' = step
              /\ conn' = conn /\ toServer' = toServer /\ gone' = gone
              /\ stream' = stream /\ inStep' \in BOOLEAN
           \/ /\ conn' = NoConn /\ toServer' = <<>> /\ stream' = <<>>
              /\ gone' = FALSE /\ inStep' = TRUE
              /\ step' = IF program = "console" THEN "connect" ELSE step
    BY <2>1, <2>2, ThrowLeaves
  <2>4. /\ at \in {"header", "body"}
        /\ at' = "idle" /\ target' = "NONE" /\ asked' = 0
        /\ ~surplus' => ~surplus /\ target # "CFG2"
        /\ UNCHANGED <<pdcVars, used, objVars, program>>
    BY <1>22 DEF RecvReset, Abandon, Leave
  <2> QED
    BY <2>3, <2>4, EmptyQueues DEF TypeOK, NetTypeOK, ClientTypeOK, PdcTypeOK, CallInv, ConnInv, FreshInv
<1>23. CASE MisreadHeader
  <2>1. PICK n \in 0..Len(stream), aligned \in BOOLEAN :
          Throw(TRUE, SubSeq(stream, n + 1, Len(stream)), aligned)
    BY <1>23 DEF MisreadHeader
  <2> DEFINE rest == SubSeq(stream, n + 1, Len(stream))
  <2>2. /\ rest \in Seq(Frame) /\ Len(rest) = Len(stream) - n
        /\ \A i \in 1..Len(rest) : rest[i] = stream[n + i] /\ n + i \in 1..Len(stream)
    BY RestOfStream DEF TypeOK, NetTypeOK
  <2> HIDE DEF rest
  <2>3. /\ step' \in {step, "connect"}
        /\ \/ /\ program = "dll" /\ step' = step
              /\ conn' = conn /\ toServer' = toServer /\ gone' = gone
              /\ stream' = rest /\ inStep' \in BOOLEAN
           \/ /\ conn' = NoConn /\ toServer' = <<>> /\ stream' = <<>>
              /\ gone' = FALSE /\ inStep' = TRUE
              /\ step' = IF program = "console" THEN "connect" ELSE step
    BY <2>1, <2>2, ThrowLeaves DEF rest
  <2>4. /\ at \in {"header", "body"}
        /\ at' = "idle" /\ target' = "NONE" /\ asked' = 0
        /\ ~surplus' => ~surplus /\ target # "CFG2"
        /\ UNCHANGED <<pdcVars, used, objVars, program>>
    BY <1>23 DEF MisreadHeader, Abandon, Leave
  <2>5. UNCHANGED timedOut
    BY <1>23 DEF MisreadHeader
  <2>6. \A i \in 1..Len(rest) : \E j \in 1..Len(stream) : rest[i] = stream[j]
    BY <2>2
  <2> QED
    BY <2>6, <2>3, <2>4, <2>5, EmptyQueues DEF TypeOK, NetTypeOK, ClientTypeOK, PdcTypeOK, CallInv, ConnInv, FreshInv
<1>24. CASE TakeGarbage
  BY <1>24 DEF TypeOK, NetTypeOK, ClientTypeOK, PdcTypeOK, CallInv, ConnInv, FreshInv, TakeGarbage
<1>25. CASE Timeout
  <2>1. PICK open \in BOOLEAN, aligned \in BOOLEAN : Throw(open, stream, aligned)
    BY <1>25 DEF Timeout, TypeOK, NetTypeOK, ClientTypeOK
  <2>2. stream \in Seq(Frame) /\ TypeOK
    BY DEF TypeOK, NetTypeOK
  <2>3. /\ step' \in {step, "connect"}
        /\ \/ /\ program = "dll" /\ step' = step
              /\ conn' = conn /\ toServer' = toServer /\ gone' = gone
              /\ stream' = stream /\ inStep' \in BOOLEAN
           \/ /\ conn' = NoConn /\ toServer' = <<>> /\ stream' = <<>>
              /\ gone' = FALSE /\ inStep' = TRUE
              /\ step' = IF program = "console" THEN "connect" ELSE step
    BY <2>1, <2>2, ThrowLeaves
  <2>4. /\ at \in {"header", "body"}
        /\ at' = "idle" /\ target' = "NONE" /\ asked' = 0
        /\ ~surplus' => ~surplus /\ target # "CFG2"
        /\ UNCHANGED <<pdcVars, used, objVars, program>>
    BY <1>25 DEF Timeout, Abandon, Leave
  <2> QED
    BY <2>3, <2>4, EmptyQueues DEF TypeOK, NetTypeOK, ClientTypeOK, PdcTypeOK, CallInv, ConnInv, FreshInv
<1> QED
  BY <1>1, <1>2, <1>3, <1>4, <1>5, <1>6, <1>7, <1>8, <1>9, <1>10, <1>11, <1>12, <1>13, <1>14, <1>15, <1>16, <1>17, <1>18, <1>19, <1>20, <1>21, <1>22, <1>23, <1>24, <1>25 DEF Next, PdcNext, ClientNext, Receive

(* The first connection is to PDC 0. *)
LEMMA StreamInvInit == Init => StreamInv
<1> SUFFICES ASSUME Init PROVE StreamInv
  OBVIOUS
<1>1. TypeOK
  <2>1. PdcTypeOK /\ asked \in 0..MaxConfig /\ surplus \in BOOLEAN
    <3>1. SessionTypeOK
      BY DEF Init, SessionInit, SessionTypeOK
    <3> QED
      <4>1. up \in BOOLEAN /\ surplus \in BOOLEAN
        BY DEF Init
      <4>2. pdc \in 0..MaxPdc /\ set \in 0..MaxConfig /\ asked \in 0..MaxConfig
        BY StreamAssumption DEF Init
      <4>3. version \in {1, 2}
        BY DEF Init
      <4> QED
        BY <3>1, <4>1, <4>2, <4>3 DEF PdcTypeOK
  <2>2. NetTypeOK
    BY EmptyQueues DEF Init, NetTypeOK
  <2>3. ClientTypeOK
    BY DEF Init, ClientTypeOK
  <2> QED
    BY <2>1, <2>2, <2>3 DEF TypeOK
<1>2. CallInv /\ ConnInv
  BY DEF Init, SessionInit, CallInv, ConnInv, Live
<1>3. ConnectedTo(0) /\ 0 \in 0..pdc
  BY DEF Init, ConnectedTo
<1>4. FreshInv
  BY DEF Init, FreshInv
<1> QED
  BY <1>1, <1>2, <1>3, <1>4 DEF StreamInv, FramesInv

(* The lemmas of the parts put together. *)
LEMMA StreamInvStep == StreamInv /\ [Next]_vars => StreamInv'
<1>1. ASSUME StreamInv, Next PROVE StreamInv'
  <2>1. PICK p \in 0..pdc : ConnectedTo(p)
    BY <1>1 DEF StreamInv, FramesInv
  <2> QED
    BY <1>1, <2>1, PdcTypeStep, NetTypeStep, ClientTypeStep, HistTypeStep, CallStep, ConnStep, FramesStep, FreshStep
      DEF StreamInv, FramesInv, TypeOK, PdcTypeOK
<1>2. ASSUME StreamInv, UNCHANGED vars PROVE StreamInv'
  BY <1>2 DEF StreamInv, TypeOK, PdcTypeOK, NetTypeOK, ClientTypeOK, SessionTypeOK, CallInv, ConnInv, FramesInv, ConnectedTo, FreshInv
<1> QED
  BY <1>1, <1>2

(***************************************************************************)
(* Theorems.                                                               *)
(***************************************************************************)

(* The invariant holds, whatever the program calls, times out or loses.    *)
THEOREM StreamInvariance == Spec => []StreamInv
<1> QED
  BY StreamInvInit, StreamInvStep, PTL DEF Spec

(* A data frame is decoded (ReadDataFrame) by the layout it was encoded    *)
(* with, unless the client was sent the configuration of a SetConfiguration*)
THEOREM DataIsDecodedAsEncoded == Spec => []DecodedAsEncoded
<1>1. ASSUME StreamInv PROVE DecodedAsEncoded
  <2>1. SUFFICES ASSUME at = "body", target = "DATA", Head(stream).kind = "DATA"
                 PROVE  Head(stream).cfg = decode \/ decode[2] > 0
    BY DEF DecodedAsEncoded
  <2>2. PICK p \in 0..pdc : ConnectedTo(p)
    BY <1>1 DEF StreamInv, FramesInv
  <2>3. /\ stream \in Seq(Frame) /\ Len(stream) > 0 /\ Head(stream) = stream[1]
        /\ Head(stream).cfg \in Configs
    <3>1. stream \in Seq(Frame) /\ stream # <<>>
      BY <1>1, <2>1 DEF StreamInv, TypeOK, NetTypeOK, CallInv
    <3>2. Len(stream) \in Nat
      BY <3>1
    <3> QED
      <4>1. 1 \in 1..Len(stream) /\ Head(stream) = stream[1] /\ Head(stream) \in Frame
        BY <3>1, FirstFrame
      <4>2. Head(stream).cfg \in Configs
        BY <4>1 DEF Frame
      <4> QED
        BY <3>1, <3>2, <4>1, <4>2
  <2>4. Head(stream).cfg[1] = p /\ Head(stream).cfg[2] = 0
    BY <2>1, <2>2, <2>3 DEF ConnectedTo
  <2>5. decode # None /\ decode \in Configs /\ (program = "dll" \/ step = "DATA")
    BY <1>1, <2>1, <2>2 DEF StreamInv, TypeOK, ClientTypeOK, CallInv, ConnectedTo
  <2>6. decode[1] = p
    BY <2>2, <2>5 DEF ConnectedTo
  <2> QED
    BY <2>3, <2>4, <2>5, <2>6 DEF Configs
<1> QED
  BY <1>1, StreamInvariance, PTL

(* The console never reads from the middle of a frame. *)
THEOREM ConsoleStaysInStep == Spec => []ConsoleInStep
<1>1. StreamInv => ConsoleInStep
  BY DEF StreamInv, CallInv, ConsoleInStep
<1> QED
  BY <1>1, StreamInvariance, PTL

(* ReadConfiguration returns a configuration no older than its request,    *)
(* unless a broadcast or a late reply was under way.                       *)
THEOREM RepliesAreFresh == Spec => FreshReplies
<1> DEFINE Fresh == target = "CFG2" /\ target' = "NONE" /\ at = "body" /\ stream' = Tail(stream)
                      /\ conn' = conn
                    => pdcConfig'[2] >= asked \/ surplus
<1>1. ASSUME StreamInv, Next PROVE Fresh
  <2>1. SUFFICES ASSUME target = "CFG2", target' = "NONE", at = "body",
                        stream' = Tail(stream), conn' = conn, ~surplus
                 PROVE  pdcConfig'[2] >= asked
    OBVIOUS
  <2>2. conn # NoConn /\ stream # <<>>
    BY <1>1, <2>1 DEF StreamInv, CallInv
  <2>3. stream \in Seq(Frame) /\ Len(stream) > 0 /\ Head(stream) = stream[1]
    BY <1>1, <2>2 DEF StreamInv, TypeOK, NetTypeOK
  <2>4. stream' # stream
    BY <2>1, <2>2, <2>3, FirstFrame
  <2>5. ReadBody
    <3>1. target' # target
      BY <2>1
    <3>2. ReadBody \/ Timeout \/ RecvEnd \/ RecvReset \/ MisreadHeader
      BY <1>1, <2>1, <3>1 DEF Requests, Configurations, Next, PdcNext, ClientNext, Receive, Reply, Reject, SwitchStream,
         SendData, Broadcast, SetConfiguration, StopPdc, EndSession, StartPdc, Enlist, DropClosed,
         Connect, ConnectFails, Disconnect, Request, Command, CallFails, ReadDataFrame,
         ReadHeader, TakeGarbage
    <3>3. ASSUME NEW open \in BOOLEAN, NEW aligned \in BOOLEAN, Throw(open, stream, aligned)
          PROVE  FALSE
      BY <1>1, <2>1, <2>2, <2>3, <2>4, <3>3, ThrowLeaves DEF StreamInv
    <3>4. ~Timeout /\ ~RecvEnd /\ ~RecvReset /\ ~MisreadHeader
      BY <1>1, <2>1, <2>3, <3>3 DEF Timeout, RecvEnd, RecvReset, MisreadHeader, StreamInv, TypeOK,
         NetTypeOK, ClientTypeOK
    <3> QED
      BY <3>2, <3>4
  <2>6. Head(stream).kind = "CFG2" /\ pdcConfig' = Head(stream).cfg
    BY <2>1, <2>5 DEF ReadBody, ReturnOrGoOn, IsTarget, Handle
  <2> QED
    BY <1>1, <2>1, <2>3, <2>6 DEF StreamInv, FreshInv
<1>2. ASSUME UNCHANGED vars PROVE Fresh
  BY <1>2
<1>3. StreamInv /\ [Next]_vars => [Fresh]_vars
  BY <1>1, <1>2
<1> HIDE DEF Fresh
<1>4. Spec => [][Fresh]_vars
  BY <1>3, StreamInvariance, PTL DEF Spec
<1> QED
  BY <1>4 DEF Fresh, FreshReplies
-----------------------------------------------------------------------------
(* What the PDC does to the sessions of its clients is a step of           *)
(* PdcSession; a client can do nothing to them.                            *)
LEMMA SessionStep ==
  ASSUME StreamInv, [Next]_vars
  PROVE  [SessionNext]_sessionVars
<1>1. conn # NoConn => conn \in Conns
  BY DEF StreamInv, TypeOK, ClientTypeOK
<1>2. CASE Reply \/ Broadcast \/ SetConfiguration \/ StopPdc \/ StartPdc
  BY <1>2 DEF Reply, Broadcast, SetConfiguration, StopPdc, StartPdc
<1>3. CASE Reject
  BY <1>1, <1>3 DEF Reject, Served, SessionNext
<1>4. CASE SwitchStream
  <2>1. \E mode \in Live : Switch(conn, mode)
    BY <1>4 DEF SwitchStream, Live
  <2> QED
    BY <1>1, <1>4, <2>1 DEF SwitchStream, Served, SessionNext
<1>5. CASE SendData
  BY <1>1, <1>5 DEF SendData, Served, SessionNext
<1>6. CASE EndSession
  BY <1>1, <1>6 DEF EndSession, SessionNext
<1>7. CASE Enlist
  BY <1>1, <1>7 DEF Enlist, SessionNext
<1>8. ASSUME NEW c \in Conns, DropClosed(c) PROVE SessionNext
  BY <1>8 DEF DropClosed, SessionNext
<1>9. CASE ClientNext
  BY <1>9 DEF ClientNext, Connect, ConnectFails, Disconnect, Request, Command,
     CallFails, ReadDataFrame, Receive, ReadHeader, ReadBody, RecvEnd, RecvReset,
     MisreadHeader, TakeGarbage, Timeout
<1>10. CASE UNCHANGED vars
  BY <1>10
<1> QED
  BY <1>2, <1>3, <1>4, <1>5, <1>6, <1>7, <1>8, <1>9, <1>10 DEF Next, PdcNext

(* The PDC that the client library is checked against does nothing that    *)
(* PdcSession forbids, whatever the client does, however often the PDC is  *)
(* shut down and replaced, and however many connections are made.          *)
THEOREM PdcIsASession == Spec => SessionSpec
<1>1. Init => SessionInit
  BY DEF Init
<1>2. StreamInv /\ [Next]_vars => [SessionNext]_sessionVars
  BY SessionStep
<1> QED
  BY <1>1, <1>2, StreamInvariance, PTL DEF Spec, SessionSpec
=============================================================================
