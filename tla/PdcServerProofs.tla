-------------------------- MODULE PdcServerProofs --------------------------
(***************************************************************************)
(* Proofs about PdcServer, for every set of connections, every choice of   *)
(* frames and requests, and every bound.                                   *)
(*                                                                         *)
(* The argument is the inductive invariant IndInv of PdcServer.  Its parts *)
(* are preserved by one lemma each, with one step per action:              *)
(*   ThreadInv needs only the types;                                       *)
(*   SocketInv and ListInv need each other (a closed socket is on the list *)
(*     of faults, a listed client has an undeleted socket) and ThreadInv   *)
(*     (Shutdown deletes the clients only when no tick can be running);    *)
(*   HistoryInv needs all of them.                                         *)
(* The safety theorems are consequences of IndInv, and the refinement maps *)
(* each step to a step of PdcSession or to a stutter.                      *)
(***************************************************************************)
EXTENDS PdcServer, TLAPS

USE DEF objVars, tickVars, peerVars, histVars
-----------------------------------------------------------------------------
(* The saturating count of the history variables and of faultySockets. *)
LEMMA Sat2Type == \A n \in 0..2 : Sat2(n) \in 0..2 /\ Sat2(n) > 0
  BY DEF Sat2

(* Every action keeps every variable in its type. *)
LEMMA TypeStep ==
  ASSUME TypeOK, [Next]_vars
  PROVE  TypeOK'
<1>1. CASE StartThreads
  BY <1>1 DEF TypeOK, StartThreads, NoActions
<1>2. CASE StartThrows
  BY <1>2 DEF TypeOK, StartThrows, NoActions
<1>3. CASE MarkThreadActive
  BY <1>3 DEF TypeOK, MarkThreadActive
<1>4. CASE \E a \in Requests : Request(a)
  BY <1>4 DEF TypeOK, Request
<1>5. CASE SetConfiguration
  BY <1>5, ConstantsAssumption DEF TypeOK, SetConfiguration, Configs
<1>6. CASE Shutdown
  <2>1. isActive' \in BOOLEAN /\ appPc' = "waitPdc"
    BY <1>6 DEF Shutdown
  <2> QED
    BY <1>6, <2>1 DEF TypeOK, Shutdown
<1>7. CASE PdcThreadJoined
  BY <1>7 DEF TypeOK, PdcThreadJoined
<1>8. CASE StopTcpServer
  BY <1>8 DEF TypeOK, StopTcpServer
<1>9. CASE FreeAll
  BY <1>9 DEF TypeOK, FreeAll
<1>10. CASE Listen
  BY <1>10 DEF TypeOK, Listen
<1>11. CASE ListenFails
  BY <1>11 DEF TypeOK, ListenFails
<1>12. CASE TcpThreadEnds
  BY <1>12 DEF TypeOK, TcpThreadEnds
<1>13. ASSUME NEW c \in Conns, Accept(c) PROVE TypeOK'
  BY <1>13 DEF TypeOK, Accept, Connected
<1>14. ASSUME NEW c \in Conns, AcceptThrows(c) PROVE TypeOK'
  BY <1>14 DEF TypeOK, AcceptThrows
<1>15. ASSUME NEW c \in Conns, SafeEnlistClient(c) PROVE TypeOK'
  <2>1. joined' \in [Conns -> 0..2]
    BY <1>15, Sat2Type DEF TypeOK, SafeEnlistClient
  <2> QED
    BY <1>15, <2>1 DEF TypeOK, SafeEnlistClient, Connected
<1>16. CASE TestActive
  <2>1. CASE isActive
    BY <1>16, <2>1 DEF TypeOK, TestActive
  <2>2. CASE ~isActive
    BY <1>16, <2>2 DEF TypeOK, TestActive
  <2> QED
    BY <2>1, <2>2
<1>17. CASE BeginTick
  BY <1>17 DEF TypeOK, BeginTick, TickPcs
<1>18. CASE ReadFlags
  BY <1>18 DEF TypeOK, ReadFlags, TickPcs
<1>19. CASE ClearFlags
  BY <1>19 DEF TypeOK, ClearFlags, Cleared, TickPcs
<1>20. CASE Poll
  BY <1>20 DEF TypeOK, Poll, TickPcs
<1>21. CASE CreateDataFrame
  BY <1>21 DEF TypeOK, CreateDataFrame, TickPcs
<1>22. CASE AllSent
  BY <1>22 DEF TypeOK, AllSent, TickPcs
<1>23. CASE EndTick
  BY <1>23 DEF TypeOK, EndTick, NoActions
<1>24. ASSUME NEW c \in Conns, ServeActions(c) PROVE TypeOK'
  <2>1. StreamAfterActions(c) \in BOOLEAN
    BY <1>24 DEF StreamAfterActions
  <2>2. announced' \in [Conns -> Configs \cup {MaxConfig + 1}]
    BY <1>24 DEF TypeOK, ServeActions
  <2>3. overrun' \in [Conns -> 0..2]
    BY <1>24 DEF TypeOK, ServeActions
  <2>4. rtd' \in [Conns -> BOOLEAN] /\ active' \in SUBSET Conns
    BY <1>24, <2>1 DEF TypeOK, ServeActions
  <2> QED
    BY <1>24, <2>1, <2>2, <2>3, <2>4 DEF TypeOK, ServeActions
<1>25. ASSUME NEW c \in Conns, BroadcastThrows(c) PROVE TypeOK'
  BY <1>25 DEF TypeOK, BroadcastThrows
<1>26. ASSUME NEW c \in Conns, ReadFails(c) PROVE TypeOK'
  <2>1. faulty' \in [Conns -> 0..2]
    BY <1>26, Sat2Type DEF TypeOK, ReadFails
  <2> QED
    BY <1>26, <2>1 DEF TypeOK, ReadFails
<1>27. ASSUME NEW c \in Conns, AnswerQuery(c) PROVE TypeOK'
  BY <1>27 DEF TypeOK, AnswerQuery, Consume, HasFrame
<1>28. ASSUME NEW c \in Conns, AnswerFails(c) PROVE TypeOK'
  <2>1. faulty' \in [Conns -> 0..2]
    BY <1>28, Sat2Type DEF TypeOK, AnswerFails
  <2>2. inbox' \in [Conns -> Seq(Frames)]
    BY <1>28 DEF TypeOK, AnswerFails, Consume, HasFrame
  <2> QED
    BY <1>28, <2>1, <2>2 DEF TypeOK, AnswerFails, Consume
<1>29. ASSUME NEW c \in Conns, SwitchStream(c) PROVE TypeOK'
  BY <1>29 DEF TypeOK, SwitchStream, Consume, HasFrame
<1>30. ASSUME NEW c \in Conns, RejectFrame(c) PROVE TypeOK'
  <2>1. faulty' \in [Conns -> 0..2]
    BY <1>30, Sat2Type DEF TypeOK, RejectFrame
  <2>2. inbox' \in [Conns -> Seq(Frames)]
    BY <1>30 DEF TypeOK, RejectFrame, Consume, HasFrame
  <2> QED
    BY <1>30, <2>1, <2>2 DEF TypeOK, RejectFrame, Consume
<1>31. ASSUME NEW c \in Conns, SendData(c) PROVE TypeOK'
  BY <1>31, Sat2Type DEF TypeOK, SendData
<1>32. ASSUME NEW c \in Conns, SendDataFails(c) PROVE TypeOK'
  <2>1. faulty' \in [Conns -> 0..2]
    BY <1>32, Sat2Type DEF TypeOK, SendDataFails
  <2> QED
    BY <1>32, <2>1 DEF TypeOK, SendDataFails
<1>33. ASSUME NEW c \in Conns, SafeDropClient(c) PROVE TypeOK'
  <2>1. faulty[c] - 1 \in 0..2
    BY <1>33 DEF TypeOK, SafeDropClient
  <2>2. faulty' \in [Conns -> 0..2]
    BY <1>33, <2>1 DEF TypeOK, SafeDropClient, DropClient
  <2>3. dropped' \in [Conns -> 0..2]
    BY <1>33, Sat2Type DEF TypeOK, SafeDropClient, DropClient
  <2> QED
    BY <1>33, <2>1, <2>2, <2>3 DEF TypeOK, SafeDropClient, DropClient
<1>34. ASSUME NEW c \in Conns, PassOverDropped(c) PROVE TypeOK'
  <2>1. faulty[c] - 1 \in 0..2
    BY <1>34 DEF TypeOK, PassOverDropped
  <2> QED
    BY <1>34, <2>1 DEF TypeOK, PassOverDropped
<1>35. ASSUME NEW c \in Conns, Connect(c) PROVE TypeOK'
  BY <1>35 DEF TypeOK, Connect, Connected
<1>36. ASSUME NEW c \in Conns, StopReading(c) PROVE TypeOK'
  BY <1>36 DEF TypeOK, StopReading
<1>37. ASSUME NEW c \in Conns, ResumeReading(c) PROVE TypeOK'
  BY <1>37 DEF TypeOK, ResumeReading
<1>38. ASSUME NEW c \in Conns, Leave(c) PROVE TypeOK'
  BY <1>38 DEF TypeOK, Leave
<1>39. ASSUME NEW c \in Conns, NEW f \in Frames, SendFrame(c, f)
       PROVE  TypeOK'
  BY <1>39 DEF TypeOK, SendFrame, MarkIfRejected
<1>40. ASSUME NEW c \in Conns, NEW f \in Frames, CompleteFrame(c, f)
       PROVE  TypeOK'
  BY <1>40 DEF TypeOK, CompleteFrame, EndsInPartial, MarkIfRejected
<1>41. CASE UNCHANGED vars
  BY <1>41 DEF TypeOK, vars
<1> QED
  BY <1>1, <1>2, <1>3, <1>4, <1>5, <1>6, <1>7, <1>8, <1>9, <1>10, <1>11,
     <1>12, <1>13, <1>14, <1>15, <1>16, <1>17, <1>18, <1>19, <1>20, <1>21,
     <1>22, <1>23, <1>24, <1>25, <1>26, <1>27, <1>28, <1>29, <1>30, <1>31,
     <1>32, <1>33, <1>34, <1>35, <1>36, <1>37, <1>38, <1>39, <1>40, <1>41
     DEF Next, AppNext, TcpNext, PdcNext, PeerNext

(* Every action keeps the lock with its holder and the threads in step:   *)
(* above all, Shutdown passes its wait only when PdcProc has left its loop. *)
LEMMA ThreadStep ==
  ASSUME TypeOK, ThreadInv, [Next]_vars
  PROVE  ThreadInv'
<1>1. CASE StartThreads
  BY <1>1 DEF ThreadInv, TickPcs, StartThreads
<1>2. CASE StartThrows
  BY <1>2 DEF ThreadInv, StartThrows
<1>3. CASE MarkThreadActive
  BY <1>3 DEF ThreadInv, MarkThreadActive
<1>4. CASE \E a \in Requests : Request(a)
  BY <1>4 DEF ThreadInv, Request
<1>5. CASE SetConfiguration
  BY <1>5 DEF ThreadInv, SetConfiguration
<1>6. CASE Shutdown
  BY <1>6 DEF ThreadInv, Shutdown
<1>7. CASE PdcThreadJoined
  BY <1>7 DEF ThreadInv, PdcThreadJoined, PdcThreadGone
<1>8. CASE StopTcpServer
  BY <1>8 DEF ThreadInv, StopTcpServer
<1>9. CASE FreeAll
  BY <1>9 DEF TypeOK, ThreadInv, FreeAll, TcpThreadGone
<1>10. CASE Listen
  BY <1>10 DEF ThreadInv, Listen
<1>11. CASE ListenFails
  BY <1>11 DEF ThreadInv, ListenFails
<1>12. CASE TcpThreadEnds
  BY <1>12 DEF ThreadInv, TcpThreadEnds
<1>13. ASSUME NEW c \in Conns, Accept(c) PROVE ThreadInv'
  BY <1>13 DEF ThreadInv, Accept
<1>14. ASSUME NEW c \in Conns, AcceptThrows(c) PROVE ThreadInv'
  BY <1>14 DEF ThreadInv, AcceptThrows
<1>15. ASSUME NEW c \in Conns, SafeEnlistClient(c) PROVE ThreadInv'
  BY <1>15 DEF ThreadInv, SafeEnlistClient
<1>16. CASE TestActive
  BY <1>16 DEF ThreadInv, TickPcs, TestActive
<1>17. CASE BeginTick
  BY <1>17 DEF ThreadInv, TickPcs, BeginTick
<1>18. CASE ReadFlags
  BY <1>18 DEF ThreadInv, TickPcs, ReadFlags
<1>19. CASE ClearFlags
  BY <1>19 DEF ThreadInv, TickPcs, ClearFlags
<1>20. CASE Poll
  BY <1>20 DEF ThreadInv, TickPcs, Poll
<1>21. CASE CreateDataFrame
  BY <1>21 DEF ThreadInv, TickPcs, CreateDataFrame
<1>22. CASE AllSent
  BY <1>22 DEF ThreadInv, TickPcs, AllSent
<1>23. CASE EndTick
  BY <1>23 DEF ThreadInv, TickPcs, EndTick
<1>24. ASSUME NEW c \in Conns, ServeActions(c) PROVE ThreadInv'
  BY <1>24 DEF ThreadInv, ServeActions
<1>25. ASSUME NEW c \in Conns, BroadcastThrows(c) PROVE ThreadInv'
  BY <1>25 DEF ThreadInv, BroadcastThrows
<1>26. ASSUME NEW c \in Conns, ReadFails(c) PROVE ThreadInv'
  BY <1>26 DEF ThreadInv, ReadFails
<1>27. ASSUME NEW c \in Conns, AnswerQuery(c) PROVE ThreadInv'
  BY <1>27 DEF ThreadInv, AnswerQuery
<1>28. ASSUME NEW c \in Conns, AnswerFails(c) PROVE ThreadInv'
  BY <1>28 DEF ThreadInv, AnswerFails
<1>29. ASSUME NEW c \in Conns, SwitchStream(c) PROVE ThreadInv'
  BY <1>29 DEF ThreadInv, SwitchStream
<1>30. ASSUME NEW c \in Conns, RejectFrame(c) PROVE ThreadInv'
  BY <1>30 DEF ThreadInv, RejectFrame
<1>31. ASSUME NEW c \in Conns, SendData(c) PROVE ThreadInv'
  BY <1>31 DEF ThreadInv, SendData
<1>32. ASSUME NEW c \in Conns, SendDataFails(c) PROVE ThreadInv'
  BY <1>32 DEF ThreadInv, SendDataFails
<1>33. ASSUME NEW c \in Conns, SafeDropClient(c) PROVE ThreadInv'
  BY <1>33 DEF ThreadInv, SafeDropClient, DropClient
<1>34. ASSUME NEW c \in Conns, PassOverDropped(c) PROVE ThreadInv'
  BY <1>34 DEF ThreadInv, PassOverDropped
<1>35. ASSUME NEW c \in Conns, Connect(c) PROVE ThreadInv'
  BY <1>35 DEF ThreadInv, Connect
<1>36. ASSUME NEW c \in Conns, StopReading(c) PROVE ThreadInv'
  BY <1>36 DEF ThreadInv, StopReading
<1>37. ASSUME NEW c \in Conns, ResumeReading(c) PROVE ThreadInv'
  BY <1>37 DEF ThreadInv, ResumeReading
<1>38. ASSUME NEW c \in Conns, Leave(c) PROVE ThreadInv'
  BY <1>38 DEF ThreadInv, Leave
<1>39. ASSUME NEW c \in Conns, NEW f \in Frames, SendFrame(c, f)
       PROVE  ThreadInv'
  BY <1>39 DEF ThreadInv, SendFrame, MarkIfRejected
<1>40. ASSUME NEW c \in Conns, NEW f \in Frames, CompleteFrame(c, f)
       PROVE  ThreadInv'
  BY <1>40 DEF ThreadInv, CompleteFrame, MarkIfRejected
<1>41. CASE UNCHANGED vars
  BY <1>41 DEF ThreadInv, vars
<1> QED
  BY <1>1, <1>2, <1>3, <1>4, <1>5, <1>6, <1>7, <1>8, <1>9, <1>10, <1>11,
     <1>12, <1>13, <1>14, <1>15, <1>16, <1>17, <1>18, <1>19, <1>20, <1>21,
     <1>22, <1>23, <1>24, <1>25, <1>26, <1>27, <1>28, <1>29, <1>30, <1>31,
     <1>32, <1>33, <1>34, <1>35, <1>36, <1>37, <1>38, <1>39, <1>40, <1>41
     DEF Next, AppNext, TcpNext, PdcNext, PeerNext

(* Every action keeps m_clients and the life of the sockets together. *)
LEMMA SocketStep ==
  ASSUME TypeOK, ThreadInv, SocketInv, ListInv, [Next]_vars
  PROVE  SocketInv'
<1>1. CASE StartThreads
  BY <1>1 DEF ThreadInv, SocketInv, StartThreads
<1>2. CASE StartThrows
  BY <1>2 DEF SocketInv, StartThrows
<1>3. CASE MarkThreadActive
  BY <1>3 DEF SocketInv, MarkThreadActive
<1>4. CASE \E a \in Requests : Request(a)
  BY <1>4 DEF SocketInv, Request
<1>5. CASE SetConfiguration
  BY <1>5 DEF SocketInv, SetConfiguration
<1>6. CASE Shutdown
  BY <1>6 DEF SocketInv, Shutdown
<1>7. CASE PdcThreadJoined
  BY <1>7 DEF SocketInv, PdcThreadJoined
<1>8. CASE StopTcpServer
  BY <1>8 DEF SocketInv, StopTcpServer
<1>9. CASE FreeAll
  BY <1>9 DEF SocketInv, FreeAll
<1>10. CASE Listen
  BY <1>10 DEF SocketInv, Listen
<1>11. CASE ListenFails
  BY <1>11 DEF SocketInv, ListenFails
<1>12. CASE TcpThreadEnds
  BY <1>12 DEF SocketInv, TcpThreadEnds
<1>13. ASSUME NEW c \in Conns, Accept(c) PROVE SocketInv'
  BY <1>13 DEF SocketInv, Accept
<1>14. ASSUME NEW c \in Conns, AcceptThrows(c) PROVE SocketInv'
  BY <1>14 DEF SocketInv, AcceptThrows
<1>15. ASSUME NEW c \in Conns, SafeEnlistClient(c) PROVE SocketInv'
  BY <1>15 DEF TypeOK, ThreadInv, SocketInv, SafeEnlistClient
<1>16. CASE TestActive
  BY <1>16 DEF SocketInv, TestActive
<1>17. CASE BeginTick
  BY <1>17 DEF SocketInv, BeginTick
<1>18. CASE ReadFlags
  BY <1>18 DEF SocketInv, ReadFlags
<1>19. CASE ClearFlags
  BY <1>19 DEF SocketInv, ClearFlags
<1>20. CASE Poll
  BY <1>20 DEF SocketInv, Poll
<1>21. CASE CreateDataFrame
  BY <1>21 DEF SocketInv, CreateDataFrame
<1>22. CASE AllSent
  BY <1>22 DEF SocketInv, AllSent
<1>23. CASE EndTick
  BY <1>23 DEF SocketInv, EndTick
<1>24. ASSUME NEW c \in Conns, ServeActions(c) PROVE SocketInv'
  BY <1>24 DEF SocketInv, ServeActions
<1>25. ASSUME NEW c \in Conns, BroadcastThrows(c) PROVE SocketInv'
  BY <1>25 DEF SocketInv, BroadcastThrows
<1>26. ASSUME NEW c \in Conns, ReadFails(c) PROVE SocketInv'
  BY <1>26 DEF TypeOK, SocketInv, ListInv, ReadFails, Sat2
<1>27. ASSUME NEW c \in Conns, AnswerQuery(c) PROVE SocketInv'
  BY <1>27 DEF SocketInv, AnswerQuery
<1>28. ASSUME NEW c \in Conns, AnswerFails(c) PROVE SocketInv'
  BY <1>28 DEF TypeOK, SocketInv, ListInv, AnswerFails, Consume, Sat2
<1>29. ASSUME NEW c \in Conns, SwitchStream(c) PROVE SocketInv'
  BY <1>29 DEF SocketInv, SwitchStream
<1>30. ASSUME NEW c \in Conns, RejectFrame(c) PROVE SocketInv'
  BY <1>30 DEF SocketInv, ListInv, RejectFrame, Consume
<1>31. ASSUME NEW c \in Conns, SendData(c) PROVE SocketInv'
  BY <1>31 DEF SocketInv, SendData
<1>32. ASSUME NEW c \in Conns, SendDataFails(c) PROVE SocketInv'
  <2>1. faulty'[c] > 0
    BY <1>32, Sat2Type DEF TypeOK, SendDataFails
  <2>2. fd[c] \in {"open", "closed"} /\ c \in clients
    BY <1>32 DEF SocketInv, ListInv, SendDataFails
  <2> QED
    BY <1>32, <2>1, <2>2 DEF SocketInv, SendDataFails
<1>33. ASSUME NEW c \in Conns, SafeDropClient(c) PROVE SocketInv'
  BY <1>33 DEF TypeOK, SocketInv, SafeDropClient, DropClient
<1>34. ASSUME NEW c \in Conns, PassOverDropped(c) PROVE SocketInv'
  BY <1>34 DEF SocketInv, PassOverDropped
<1>35. ASSUME NEW c \in Conns, Connect(c) PROVE SocketInv'
  BY <1>35 DEF SocketInv, Connect
<1>36. ASSUME NEW c \in Conns, StopReading(c) PROVE SocketInv'
  BY <1>36 DEF SocketInv, StopReading
<1>37. ASSUME NEW c \in Conns, ResumeReading(c) PROVE SocketInv'
  BY <1>37 DEF SocketInv, ResumeReading
<1>38. ASSUME NEW c \in Conns, Leave(c) PROVE SocketInv'
  BY <1>38 DEF SocketInv, Leave
<1>39. ASSUME NEW c \in Conns, NEW f \in Frames, SendFrame(c, f)
       PROVE  SocketInv'
  BY <1>39 DEF SocketInv, SendFrame, MarkIfRejected
<1>40. ASSUME NEW c \in Conns, NEW f \in Frames, CompleteFrame(c, f)
       PROVE  SocketInv'
  BY <1>40 DEF SocketInv, CompleteFrame, MarkIfRejected
<1>41. CASE UNCHANGED vars
  BY <1>41 DEF SocketInv, vars
<1> QED
  BY <1>1, <1>2, <1>3, <1>4, <1>5, <1>6, <1>7, <1>8, <1>9, <1>10, <1>11,
     <1>12, <1>13, <1>14, <1>15, <1>16, <1>17, <1>18, <1>19, <1>20, <1>21,
     <1>22, <1>23, <1>24, <1>25, <1>26, <1>27, <1>28, <1>29, <1>30, <1>31,
     <1>32, <1>33, <1>34, <1>35, <1>36, <1>37, <1>38, <1>39, <1>40, <1>41
     DEF Next, AppNext, TcpNext, PdcNext, PeerNext

(* Every action keeps the lists of a tick within m_clients. *)
LEMMA ListStep ==
  ASSUME TypeOK, ThreadInv, SocketInv, ListInv, [Next]_vars
  PROVE  ListInv'
<1>1. CASE StartThreads
  BY <1>1 DEF ThreadInv, ListInv, StartThreads
<1>2. CASE StartThrows
  BY <1>2 DEF ListInv, StartThrows
<1>3. CASE MarkThreadActive
  BY <1>3 DEF ListInv, MarkThreadActive
<1>4. CASE \E a \in Requests : Request(a)
  BY <1>4 DEF ListInv, Request
<1>5. CASE SetConfiguration
  BY <1>5 DEF ListInv, SetConfiguration
<1>6. CASE Shutdown
  BY <1>6 DEF ListInv, Shutdown
<1>7. CASE PdcThreadJoined
  BY <1>7 DEF ListInv, PdcThreadJoined
<1>8. CASE StopTcpServer
  BY <1>8 DEF ListInv, StopTcpServer
<1>9. CASE FreeAll
  BY <1>9 DEF ThreadInv, ListInv, FreeAll
<1>10. CASE Listen
  BY <1>10 DEF ListInv, Listen
<1>11. CASE ListenFails
  BY <1>11 DEF ListInv, ListenFails
<1>12. CASE TcpThreadEnds
  BY <1>12 DEF ListInv, TcpThreadEnds
<1>13. ASSUME NEW c \in Conns, Accept(c) PROVE ListInv'
  BY <1>13 DEF ListInv, Accept
<1>14. ASSUME NEW c \in Conns, AcceptThrows(c) PROVE ListInv'
  BY <1>14 DEF ListInv, AcceptThrows
<1>15. ASSUME NEW c \in Conns, SafeEnlistClient(c) PROVE ListInv'
  BY <1>15 DEF ListInv, SafeEnlistClient
<1>16. CASE TestActive
  BY <1>16 DEF ListInv, TestActive
<1>17. CASE BeginTick
  BY <1>17 DEF ListInv, BeginTick
<1>18. CASE ReadFlags
  BY <1>18 DEF ListInv, ReadFlags
<1>19. CASE ClearFlags
  BY <1>19 DEF ListInv, ClearFlags
<1>20. CASE Poll
  BY <1>20 DEF TypeOK, ListInv, NoFaults, Poll
<1>21. CASE CreateDataFrame
  BY <1>21 DEF ListInv, CreateDataFrame
<1>22. CASE AllSent
  BY <1>22 DEF ListInv, AllSent
<1>23. CASE EndTick
  BY <1>23 DEF ListInv, EndTick
<1>24. ASSUME NEW c \in Conns, ServeActions(c) PROVE ListInv'
  BY <1>24 DEF ListInv, NoFaults, ServeActions
<1>25. ASSUME NEW c \in Conns, BroadcastThrows(c) PROVE ListInv'
  BY <1>25 DEF ListInv, BroadcastThrows
<1>26. ASSUME NEW c \in Conns, ReadFails(c) PROVE ListInv'
  BY <1>26 DEF ListInv, ReadFails, Sat2
<1>27. ASSUME NEW c \in Conns, AnswerQuery(c) PROVE ListInv'
  BY <1>27 DEF ListInv, AnswerQuery, Consume
<1>28. ASSUME NEW c \in Conns, AnswerFails(c) PROVE ListInv'
  BY <1>28 DEF ListInv, AnswerFails, Consume, Sat2
<1>29. ASSUME NEW c \in Conns, SwitchStream(c) PROVE ListInv'
  BY <1>29 DEF ListInv, SwitchStream, Consume
<1>30. ASSUME NEW c \in Conns, RejectFrame(c) PROVE ListInv'
  BY <1>30 DEF ListInv, RejectFrame, Consume, Sat2
<1>31. ASSUME NEW c \in Conns, SendData(c) PROVE ListInv'
  BY <1>31 DEF ListInv, SendData
<1>32. ASSUME NEW c \in Conns, SendDataFails(c) PROVE ListInv'
  BY <1>32 DEF ListInv, SendDataFails
<1>33. ASSUME NEW c \in Conns, SafeDropClient(c) PROVE ListInv'
  BY <1>33 DEF ListInv, SafeDropClient, DropClient
<1>34. ASSUME NEW c \in Conns, PassOverDropped(c) PROVE ListInv'
  BY <1>34 DEF ListInv, PassOverDropped
<1>35. ASSUME NEW c \in Conns, Connect(c) PROVE ListInv'
  BY <1>35 DEF ListInv, Connect
<1>36. ASSUME NEW c \in Conns, StopReading(c) PROVE ListInv'
  BY <1>36 DEF ListInv, StopReading
<1>37. ASSUME NEW c \in Conns, ResumeReading(c) PROVE ListInv'
  BY <1>37 DEF ListInv, ResumeReading
<1>38. ASSUME NEW c \in Conns, Leave(c) PROVE ListInv'
  BY <1>38 DEF ListInv, Leave
<1>39. ASSUME NEW c \in Conns, NEW f \in Frames, SendFrame(c, f)
       PROVE  ListInv'
  BY <1>39 DEF ListInv, SendFrame, MarkIfRejected
<1>40. ASSUME NEW c \in Conns, NEW f \in Frames, CompleteFrame(c, f)
       PROVE  ListInv'
  BY <1>40 DEF ListInv, CompleteFrame, MarkIfRejected
<1>41. CASE UNCHANGED vars
  BY <1>41 DEF ListInv, vars
<1> QED
  BY <1>1, <1>2, <1>3, <1>4, <1>5, <1>6, <1>7, <1>8, <1>9, <1>10, <1>11,
     <1>12, <1>13, <1>14, <1>15, <1>16, <1>17, <1>18, <1>19, <1>20, <1>21,
     <1>22, <1>23, <1>24, <1>25, <1>26, <1>27, <1>28, <1>29, <1>30, <1>31,
     <1>32, <1>33, <1>34, <1>35, <1>36, <1>37, <1>38, <1>39, <1>40, <1>41
     DEF Next, AppNext, TcpNext, PdcNext, PeerNext

(* Every action keeps the account of events, late frames and misbehaviour. *)
LEMMA HistoryStep ==
  ASSUME TypeOK, ThreadInv, SocketInv, ListInv, HistoryInv, [Next]_vars
  PROVE  HistoryInv'
<1>1. CASE StartThreads
  BY <1>1 DEF HistoryInv, StartThreads
<1>2. CASE StartThrows
  BY <1>2 DEF HistoryInv, StartThrows
<1>3. CASE MarkThreadActive
  BY <1>3 DEF HistoryInv, MarkThreadActive
<1>4. CASE \E a \in Requests : Request(a)
  BY <1>4 DEF HistoryInv, Request
<1>5. CASE SetConfiguration
  BY <1>5 DEF HistoryInv, SetConfiguration
<1>6. CASE Shutdown
  BY <1>6 DEF HistoryInv, Shutdown
<1>7. CASE PdcThreadJoined
  BY <1>7 DEF HistoryInv, PdcThreadJoined
<1>8. CASE StopTcpServer
  BY <1>8 DEF HistoryInv, StopTcpServer
<1>9. CASE FreeAll
  BY <1>9 DEF HistoryInv, FreeAll
<1>10. CASE Listen
  BY <1>10 DEF HistoryInv, Listen
<1>11. CASE ListenFails
  BY <1>11 DEF HistoryInv, ListenFails
<1>12. CASE TcpThreadEnds
  BY <1>12 DEF HistoryInv, TcpThreadEnds
<1>13. ASSUME NEW c \in Conns, Accept(c) PROVE HistoryInv'
  BY <1>13 DEF HistoryInv, Accept
<1>14. ASSUME NEW c \in Conns, AcceptThrows(c) PROVE HistoryInv'
  BY <1>14 DEF HistoryInv, AcceptThrows
<1>15. ASSUME NEW c \in Conns, SafeEnlistClient(c) PROVE HistoryInv'
  BY <1>15 DEF TypeOK, HistoryInv, SafeEnlistClient, Sat2
<1>16. CASE TestActive
  BY <1>16 DEF HistoryInv, TestActive
<1>17. CASE BeginTick
  BY <1>17 DEF HistoryInv, BeginTick
<1>18. CASE ReadFlags
  BY <1>18 DEF HistoryInv, ReadFlags
<1>19. CASE ClearFlags
  BY <1>19 DEF HistoryInv, ClearFlags
<1>20. CASE Poll
  BY <1>20 DEF HistoryInv, Poll
<1>21. CASE CreateDataFrame
  BY <1>21 DEF HistoryInv, CreateDataFrame
<1>22. CASE AllSent
  BY <1>22 DEF HistoryInv, AllSent
<1>23. CASE EndTick
  BY <1>23 DEF HistoryInv, EndTick
<1>24. ASSUME NEW c \in Conns, ServeActions(c) PROVE HistoryInv'
  BY <1>24 DEF TypeOK, HistoryInv, ServeActions, StreamAfterActions
<1>25. ASSUME NEW c \in Conns, BroadcastThrows(c) PROVE HistoryInv'
  BY <1>25 DEF HistoryInv, BroadcastThrows
<1>26. ASSUME NEW c \in Conns, ReadFails(c) PROVE HistoryInv'
  BY <1>26 DEF HistoryInv, ReadFails
<1>27. ASSUME NEW c \in Conns, AnswerQuery(c) PROVE HistoryInv'
  BY <1>27 DEF HistoryInv, AnswerQuery, Consume
<1>28. ASSUME NEW c \in Conns, AnswerFails(c) PROVE HistoryInv'
  BY <1>28 DEF SocketInv, ListInv, HistoryInv, AnswerFails, Consume,
     SendFails
<1>29. ASSUME NEW c \in Conns, SwitchStream(c) PROVE HistoryInv'
  BY <1>29 DEF TypeOK, HistoryInv, SwitchStream, Consume
<1>30. ASSUME NEW c \in Conns, RejectFrame(c) PROVE HistoryInv'
  BY <1>30 DEF HistoryInv, RejectFrame, Consume, HasFrame
<1>31. ASSUME NEW c \in Conns, SendData(c) PROVE HistoryInv'
  BY <1>31 DEF ListInv, HistoryInv, SendData, Sat2
<1>32. ASSUME NEW c \in Conns, SendDataFails(c) PROVE HistoryInv'
  BY <1>32 DEF SocketInv, ListInv, HistoryInv, SendDataFails, SendFails
<1>33. ASSUME NEW c \in Conns, SafeDropClient(c) PROVE HistoryInv'
  BY <1>33 DEF TypeOK, HistoryInv, SafeDropClient, Sat2, DropClient
<1>34. ASSUME NEW c \in Conns, PassOverDropped(c) PROVE HistoryInv'
  BY <1>34 DEF HistoryInv, PassOverDropped
<1>35. ASSUME NEW c \in Conns, Connect(c) PROVE HistoryInv'
  BY <1>35 DEF HistoryInv, Connect
<1>36. ASSUME NEW c \in Conns, StopReading(c) PROVE HistoryInv'
  BY <1>36 DEF HistoryInv, StopReading
<1>37. ASSUME NEW c \in Conns, ResumeReading(c) PROVE HistoryInv'
  BY <1>37 DEF HistoryInv, ResumeReading
<1>38. ASSUME NEW c \in Conns, Leave(c) PROVE HistoryInv'
  BY <1>38 DEF HistoryInv, Leave
<1>39. ASSUME NEW c \in Conns, NEW f \in Frames, SendFrame(c, f)
       PROVE  HistoryInv'
  BY <1>39 DEF HistoryInv, SendFrame, MarkIfRejected
<1>40. ASSUME NEW c \in Conns, NEW f \in Frames, CompleteFrame(c, f)
       PROVE  HistoryInv'
  BY <1>40 DEF HistoryInv, CompleteFrame, MarkIfRejected
<1>41. CASE UNCHANGED vars
  BY <1>41 DEF HistoryInv, vars
<1> QED
  BY <1>1, <1>2, <1>3, <1>4, <1>5, <1>6, <1>7, <1>8, <1>9, <1>10, <1>11,
     <1>12, <1>13, <1>14, <1>15, <1>16, <1>17, <1>18, <1>19, <1>20, <1>21,
     <1>22, <1>23, <1>24, <1>25, <1>26, <1>27, <1>28, <1>29, <1>30, <1>31,
     <1>32, <1>33, <1>34, <1>35, <1>36, <1>37, <1>38, <1>39, <1>40, <1>41
     DEF Next, AppNext, TcpNext, PdcNext, PeerNext

-----------------------------------------------------------------------------
(* The state the constructor leaves, with its three uninitialised flags,   *)
(* satisfies the inductive invariant.                                      *)
LEMMA IndInit == Init => IndInv
<1> SUFFICES ASSUME Init PROVE IndInv
  OBVIOUS
<1>1. TypeOK
  <2>1. config \in Configs
    BY ConstantsAssumption DEF Init, Configs
  <2>2. announced \in [Conns -> Configs \cup {MaxConfig + 1}]
    BY DEF Init
  <2>3. inbox \in [Conns -> Seq(Frames)]
    BY DEF Init
  <2>4. action \in [Actions -> BOOLEAN] /\ ota \in [Actions -> BOOLEAN]
    BY DEF Init, NoActions
  <2>5. /\ faulty \in [Conns -> 0..2] /\ overrun \in [Conns -> 0..2]
        /\ joined \in [Conns -> 0..2] /\ dropped \in [Conns -> 0..2]
    BY DEF Init, NoFaults
  <2> QED
    BY <2>1, <2>2, <2>3, <2>4, <2>5 DEF Init, TypeOK
<1>2. ThreadInv
  BY DEF Init, ThreadInv, TickPcs
<1>3. SocketInv
  BY DEF Init, SocketInv
<1>4. ListInv
  BY DEF Init, ListInv, NoFaults
<1>5. HistoryInv
  BY DEF Init, HistoryInv, NoFaults
<1> QED
  BY <1>1, <1>2, <1>3, <1>4, <1>5 DEF IndInv

(* The five parts are inductive together. *)
LEMMA IndStep == IndInv /\ [Next]_vars => IndInv'
  BY ConstantsAssumption, TypeStep, ThreadStep, SocketStep, ListStep,
     HistoryStep DEF IndInv

(* IndInv holds in every reachable state: the lock, the threads, the       *)
(* sockets, the lists of a tick and the published events stay consistent   *)
(* under every interleaving of Start, PdcProc, TcpServerProc and Shutdown. *)
THEOREM Invariance == Spec => []IndInv
<1>1. Init => IndInv
  BY IndInit
<1>2. IndInv /\ [Next]_vars => IndInv'
  BY IndStep
<1> QED
  BY <1>1, <1>2, PTL DEF Spec

-----------------------------------------------------------------------------
(* Every variable of the server keeps its type; in particular no socket is *)
(* found faulty more than twice in a tick, and no event count passes two.  *)
THEOREM TypeCorrect == Spec => []TypeOK
<1>1. IndInv => TypeOK
  BY DEF IndInv
<1> QED
  BY <1>1, Invariance, PTL

(* No tick of PdcProc holds a pointer to a client or socket that           *)
(* SafeDropClient or Shutdown has deleted.                                 *)
THEOREM PointersValid == Spec => []NoDanglingPointers
<1>1. IndInv => NoDanglingPointers
  BY DEF IndInv, ListInv, SocketInv, ThreadInv, TickPcs, NoDanglingPointers,
     TypeOK
<1> QED
  BY <1>1, Invariance, PTL

(* Whatever Socket::Close or a rejected frame made faulty during a tick is *)
(* out of m_clients before PdcProc releases the lock.                      *)
THEOREM FaultsDropped == Spec => []CleanBetweenTicks
<1>1. IndInv => CleanBetweenTicks
  BY DEF IndInv, ListInv, SocketInv, TypeOK, TickPcs, NoFaults,
     CleanBetweenTicks
<1> QED
  BY <1>1, Invariance, PTL

(* onClientConnected and onClientDropped account for m_clients exactly, a  *)
(* client being dropped at most once although a tick may list it twice.    *)
THEOREM EventsAccount == Spec => []EventsMatchClients
<1>1. IndInv => EventsMatchClients
  <2> SUFFICES ASSUME IndInv, appPc # "stopped", NEW c \in Conns
               PROVE  joined[c] = dropped[c] + (IF c \in clients THEN 1 ELSE 0)
    BY DEF EventsMatchClients
  <2>1. CASE c \in clients
    BY <2>1 DEF IndInv, HistoryInv
  <2>2. CASE c \notin clients
    <3>1. fd[c] \in {"none", "backlog", "accepted", "refused", "deleted"}
      BY <2>2 DEF IndInv, SocketInv, TypeOK, Connected
    <3>2. joined[c] = dropped[c] /\ dropped[c] \in 0..2
      BY <3>1 DEF IndInv, HistoryInv, TypeOK
    <3> QED
      BY <2>2, <3>2
  <2> QED
    BY <2>1, <2>2
<1> QED
  BY <1>1, Invariance, PTL

(* A stopped stream gets at most the one data frame of the tick that read  *)
(* the KILL_RTD, for any number of clients and any sequence of commands.   *)
THEOREM LateFrames == Spec => []LateFramesBounded
<1>1. IndInv => LateFramesBounded
  BY DEF IndInv, HistoryInv, LateFramesBounded
<1> QED
  BY <1>1, Invariance, PTL

(* When Shutdown has returned no thread is in the PDC's procedures, its    *)
(* lock is free and no socket is open: the destructor may go on.           *)
THEOREM ShutdownIsQuiet == Spec => []QuietAfterShutdown
<1>1. IndInv => QuietAfterShutdown
  <2> SUFFICES ASSUME IndInv, appPc = "stopped"
               PROVE  /\ pdcPc \in {"none", "ended"} /\ tcpPc \in {"none", "ended"}
                      /\ lock = "free"
                      /\ \A c \in Conns : fd[c] \in {"none", "refused", "deleted"}
    BY DEF QuietAfterShutdown
  <2>1. pdcPc \in {"none", "ended"} /\ tcpPc \in {"none", "ended"}
    BY DEF IndInv, ThreadInv
  <2>2. lock = "free"
    BY <2>1 DEF IndInv, ThreadInv, TypeOK, TickPcs
  <2>3. ASSUME NEW c \in Conns PROVE fd[c] \in {"none", "refused", "deleted"}
    BY <2>1 DEF IndInv, SocketInv, TypeOK, Connected
  <2> QED
    BY <2>1, <2>2, <2>3
<1> QED
  BY <1>1, Invariance, PTL
(* SafeDropClient only ever hits a client whose peer left or sent a frame  *)
(* PdcProc rejects.  (That the process may end, and every connection with  *)
(* it, is another matter: see OnlyFaultyDropped.)                          *)
THEOREM NoInnocentDropped == Spec => OnlyFaultyDropped
<1>1. IndInv /\ [Next]_vars
        => [\A c \in clients \ clients' : c \in misbehaved \/ appPc = "waitTcp"]_vars
  <2> SUFFICES ASSUME IndInv, Next, NEW c \in clients \ clients'
               PROVE  c \in misbehaved \/ appPc = "waitTcp"
    OBVIOUS
  <2>1. CASE FreeAll
    BY <2>1 DEF FreeAll
  <2>2. ASSUME NEW d \in Conns, SafeDropClient(d)
        PROVE  c \in misbehaved
    BY <2>2 DEF SafeDropClient, DropClient, IndInv, HistoryInv, TypeOK
  <2>3. ASSUME NEW d \in Conns, SafeEnlistClient(d)
        PROVE  FALSE
    BY <2>3 DEF SafeEnlistClient
  <2>4. FreeAll \/ \E d \in Conns : SafeDropClient(d) \/ SafeEnlistClient(d)
    BY DEF Next, AppNext, TcpNext, PdcNext, PeerNext, StartThreads,
       StartThrows,
           MarkThreadActive, Request, SetConfiguration, Shutdown, PdcThreadJoined,
           StopTcpServer, Listen, ListenFails, Accept, AcceptThrows, TcpThreadEnds,
           TestActive, BeginTick, ReadFlags, ClearFlags, ServeActions,
           BroadcastThrows, Poll, ReadFails, Consume, AnswerQuery, AnswerFails,
           SwitchStream, RejectFrame, CreateDataFrame, SendData, SendDataFails,
           AllSent, PassOverDropped, EndTick, Connect, SendFrame, CompleteFrame,
           StopReading, ResumeReading, Leave
  <2> QED
    BY <2>1, <2>2, <2>3, <2>4
<1> QED
  BY <1>1, Invariance, PTL DEF Spec, OnlyFaultyDropped
-----------------------------------------------------------------------------
(* No session exists before the server starts. *)
LEMMA SessionStart == Init => Session!SessionInit
  BY DEF Init, Session!SessionInit, SessionOf

(* Six actions are steps of PdcSession (or, two of them, sometimes none);  *)
(* every other action leaves the sessions alone.                           *)
LEMMA SessionStep ==
  ASSUME IndInv, [Next]_vars
  PROVE  [Session!SessionNext]_(Session!sessionVars)
<1> DEFINE Kept(c) == SessionOf(c)' = SessionOf(c)
<1>1. CASE FreeAll
  <2>1. \A c \in Conns : SessionOf(c) \in Session!Live <=> c \in clients
    BY DEF SessionOf, Session!Live
  <2>2. \A c \in Conns : SessionOf(c)' = IF c \in clients THEN "ended" ELSE SessionOf(c)
    BY <1>1 DEF SessionOf, FreeAll, IndInv, TypeOK
  <2>3. Session!Close
    BY <1>1, <2>1, <2>2 DEF Session!Close, FreeAll
  <2> QED
    BY <2>3 DEF Session!SessionNext
<1>2. ASSUME NEW c \in Conns, SafeEnlistClient(c)
      PROVE  Session!Join(c)
  <2>1. appPc # "stopped" /\ appPc' # "stopped"
    BY <1>2 DEF SafeEnlistClient, IndInv, ThreadInv
  <2>2. SessionOf(c) = "none"
    BY <1>2 DEF SafeEnlistClient, SessionOf, IndInv, SocketInv
  <2>3. SessionOf(c)' = "streaming"
    BY <1>2 DEF SafeEnlistClient, SessionOf, IndInv, TypeOK
  <2>4. \A d \in Conns \ {c} : Kept(d)
    BY <1>2 DEF SafeEnlistClient, SessionOf, IndInv, TypeOK
  <2> QED
    BY <1>2, <2>1, <2>2, <2>3, <2>4 DEF Session!Join, SafeEnlistClient
<1>3. ASSUME NEW c \in Conns, SafeDropClient(c)
      PROVE  Session!End(c)
  <2>1. SessionOf(c) \in Session!Live
    BY <1>3 DEF SafeDropClient, SessionOf, Session!Live
  <2>2. SessionOf(c)' = "ended"
    BY <1>3 DEF SafeDropClient, DropClient, SessionOf, IndInv, TypeOK
  <2>3. \A d \in Conns \ {c} : Kept(d)
    BY <1>3 DEF SafeDropClient, DropClient, SessionOf, IndInv, TypeOK
  <2>4. UNCHANGED <<overrun, appPc>>
    BY <1>3 DEF SafeDropClient, DropClient
  <2> QED
    BY <2>1, <2>2, <2>3, <2>4 DEF Session!End
<1>4. ASSUME NEW c \in Conns, SwitchStream(c)
      PROVE  \E mode \in Session!Live : Session!Switch(c, mode)
  <2>1. c \in clients
    BY <1>4 DEF SwitchStream, Consume, IndInv, ListInv
  <2>2. SessionOf(c) \in Session!Live /\ SessionOf(c)' \in Session!Live
    BY <1>4, <2>1 DEF SwitchStream, Consume, SessionOf, Session!Live
  <2>3. \A d \in Conns \ {c} : Kept(d)
    BY <1>4 DEF SwitchStream, SessionOf, IndInv, TypeOK
  <2>4. overrun' = [overrun EXCEPT ![c] = 0] /\ UNCHANGED appPc
    BY <1>4 DEF SwitchStream
  <2> QED
    BY <2>2, <2>3, <2>4 DEF Session!Switch
<1>5. ASSUME NEW c \in Conns, ServeActions(c)
      PROVE  \/ \E mode \in Session!Live : Session!Switch(c, mode)
             \/ UNCHANGED Session!sessionVars
  <2>1. c \in clients
    BY <1>5 DEF ServeActions, IndInv, ListInv
  <2>2. SessionOf(c) \in Session!Live /\ SessionOf(c)' \in Session!Live
    BY <1>5, <2>1 DEF ServeActions, SessionOf, Session!Live
  <2>3. \A d \in Conns \ {c} : Kept(d)
    BY <1>5 DEF ServeActions, SessionOf, IndInv, TypeOK
  <2>4. CASE ota["startRTD"] \/ ota["stopRTD"]
    <3>1. overrun' = [overrun EXCEPT ![c] = 0] /\ UNCHANGED appPc
      BY <1>5, <2>4 DEF ServeActions
    <3> QED
      BY <2>2, <2>3, <3>1 DEF Session!Switch
  <2>5. CASE ~(ota["startRTD"] \/ ota["stopRTD"])
    <3>1. UNCHANGED <<overrun, appPc>> /\ Kept(c)
      BY <1>5, <2>5 DEF ServeActions, StreamAfterActions, SessionOf, IndInv,
         TypeOK, Actions
    <3> QED
      BY <2>3, <3>1 DEF Session!sessionVars
  <2> QED
    BY <2>4, <2>5
<1>6. ASSUME NEW c \in Conns, SendData(c)
      PROVE  Session!LateFrame(c) \/ UNCHANGED Session!sessionVars
  <2>1. c \in clients /\ overrun[c] = 0
    BY <1>6 DEF SendData, IndInv, ListInv, HistoryInv
  <2>2. \A d \in Conns : Kept(d)
    BY <1>6 DEF SendData, SessionOf
  <2>3. CASE rtd[c]
    BY <1>6, <2>2, <2>3 DEF SendData, Session!sessionVars
  <2>4. CASE ~rtd[c]
    <3>1. SessionOf(c) = "quiet"
      BY <2>1, <2>4 DEF SessionOf
    <3>2. overrun' = [overrun EXCEPT ![c] = 1] /\ UNCHANGED appPc
      BY <1>6, <2>1, <2>4 DEF SendData, Sat2
    <3> QED
      BY <2>1, <2>2, <3>1, <3>2 DEF Session!LateFrame
  <2> QED
    BY <2>3, <2>4
<1>7. CASE StartThreads
  BY <1>7 DEF StartThreads, SessionOf, Session!sessionVars
<1>8. CASE StartThrows
  BY <1>8 DEF StartThrows, SessionOf, Session!sessionVars
<1>9. CASE MarkThreadActive
  BY <1>9 DEF MarkThreadActive, SessionOf, Session!sessionVars
<1>10. CASE SetConfiguration
  BY <1>10 DEF SetConfiguration, SessionOf, Session!sessionVars
<1>11. CASE Shutdown
  BY <1>11 DEF Shutdown, SessionOf, Session!sessionVars
<1>12. CASE PdcThreadJoined
  BY <1>12 DEF PdcThreadJoined, SessionOf, Session!sessionVars
<1>13. CASE StopTcpServer
  BY <1>13 DEF StopTcpServer, SessionOf, Session!sessionVars
<1>14. CASE \E a \in Requests : Request(a)
  BY <1>14 DEF Request, SessionOf, Session!sessionVars
<1>15. CASE Listen
  BY <1>15 DEF Listen, SessionOf, Session!sessionVars
<1>16. CASE ListenFails
  BY <1>16 DEF ListenFails, SessionOf, Session!sessionVars
<1>17. CASE TcpThreadEnds
  BY <1>17 DEF TcpThreadEnds, SessionOf, Session!sessionVars, IndInv,
     TypeOK, ListInv, SocketInv
<1>18. ASSUME NEW c \in Conns, Accept(c) PROVE UNCHANGED Session!sessionVars
  BY <1>18 DEF Accept, SessionOf, Session!sessionVars, IndInv, TypeOK,
     ListInv, SocketInv
<1>19. ASSUME NEW c \in Conns, AcceptThrows(c)
       PROVE  UNCHANGED Session!sessionVars
  BY <1>19 DEF AcceptThrows, SessionOf, Session!sessionVars
<1>20. CASE TestActive
  BY <1>20 DEF TestActive, SessionOf, Session!sessionVars
<1>21. CASE BeginTick
  BY <1>21 DEF BeginTick, SessionOf, Session!sessionVars
<1>22. CASE ReadFlags
  BY <1>22 DEF ReadFlags, SessionOf, Session!sessionVars
<1>23. CASE ClearFlags
  BY <1>23 DEF ClearFlags, SessionOf, Session!sessionVars
<1>24. CASE Poll
  BY <1>24 DEF Poll, SessionOf, Session!sessionVars
<1>25. CASE CreateDataFrame
  BY <1>25 DEF CreateDataFrame, SessionOf, Session!sessionVars
<1>26. CASE AllSent
  BY <1>26 DEF AllSent, SessionOf, Session!sessionVars
<1>27. CASE EndTick
  BY <1>27 DEF EndTick, SessionOf, Session!sessionVars
<1>28. ASSUME NEW c \in Conns, BroadcastThrows(c)
       PROVE  UNCHANGED Session!sessionVars
  BY <1>28 DEF BroadcastThrows, SessionOf, Session!sessionVars
<1>29. ASSUME NEW c \in Conns, ReadFails(c)
       PROVE  UNCHANGED Session!sessionVars
  BY <1>29 DEF ReadFails, SessionOf, Session!sessionVars, IndInv, TypeOK,
     ListInv, SocketInv
<1>30. ASSUME NEW c \in Conns, AnswerQuery(c)
       PROVE  UNCHANGED Session!sessionVars
  BY <1>30 DEF AnswerQuery, SessionOf, Session!sessionVars, Consume
<1>31. ASSUME NEW c \in Conns, AnswerFails(c)
       PROVE  UNCHANGED Session!sessionVars
  BY <1>31 DEF AnswerFails, SessionOf, Session!sessionVars, IndInv, TypeOK,
     ListInv, SocketInv, Consume
<1>32. ASSUME NEW c \in Conns, RejectFrame(c)
       PROVE  UNCHANGED Session!sessionVars
  BY <1>32 DEF RejectFrame, SessionOf, Session!sessionVars, Consume
<1>33. ASSUME NEW c \in Conns, SendDataFails(c)
       PROVE  UNCHANGED Session!sessionVars
  BY <1>33 DEF SendDataFails, SessionOf, Session!sessionVars, IndInv,
     TypeOK, ListInv, SocketInv
<1>34. ASSUME NEW c \in Conns, PassOverDropped(c)
       PROVE  UNCHANGED Session!sessionVars
  BY <1>34 DEF PassOverDropped, SessionOf, Session!sessionVars
<1>35. ASSUME NEW c \in Conns, Connect(c) PROVE UNCHANGED Session!sessionVars
  BY <1>35 DEF Connect, SessionOf, Session!sessionVars, IndInv, TypeOK,
     ListInv, SocketInv
<1>36. ASSUME NEW c \in Conns, StopReading(c)
       PROVE  UNCHANGED Session!sessionVars
  BY <1>36 DEF StopReading, SessionOf, Session!sessionVars
<1>37. ASSUME NEW c \in Conns, ResumeReading(c)
       PROVE  UNCHANGED Session!sessionVars
  BY <1>37 DEF ResumeReading, SessionOf, Session!sessionVars
<1>38. ASSUME NEW c \in Conns, Leave(c) PROVE UNCHANGED Session!sessionVars
  BY <1>38 DEF Leave, SessionOf, Session!sessionVars
<1>39. ASSUME NEW c \in Conns, NEW f \in Frames, SendFrame(c, f)
       PROVE  UNCHANGED Session!sessionVars
  BY <1>39 DEF SendFrame, SessionOf, Session!sessionVars
<1>40. ASSUME NEW c \in Conns, NEW f \in Frames, CompleteFrame(c, f)
       PROVE  UNCHANGED Session!sessionVars
  BY <1>40 DEF CompleteFrame, SessionOf, Session!sessionVars
<1>41. CASE UNCHANGED vars
  BY <1>41 DEF vars, SessionOf, Session!sessionVars
<1> QED
  BY <1>1, <1>2, <1>3, <1>4, <1>5, <1>6, <1>7, <1>8, <1>9, <1>10, <1>11,
     <1>12, <1>13, <1>14, <1>15, <1>16, <1>17, <1>18, <1>19, <1>20, <1>21,
     <1>22, <1>23, <1>24, <1>25, <1>26, <1>27, <1>28, <1>29, <1>30, <1>31,
     <1>32, <1>33, <1>34, <1>35, <1>36, <1>37, <1>38, <1>39, <1>40, <1>41
     DEF Next, AppNext, TcpNext, PdcNext, PeerNext, Session!SessionNext

(* The server with its threads, lock and sockets implements PdcSession:    *)
(* sessions are joined, switched, ended and closed as it allows.           *)
THEOREM Refinement == Spec => RefinesSession
<1>1. Init => Session!SessionInit
  BY SessionStart
<1>2. IndInv /\ [Next]_vars => [Session!SessionNext]_(Session!sessionVars)
  BY SessionStep
<1> QED
  BY <1>1, <1>2, Invariance, PTL
     DEF Spec, RefinesSession, Session!SessionSpec
=============================================================================
