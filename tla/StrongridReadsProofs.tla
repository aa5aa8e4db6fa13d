------------------------- MODULE StrongridReadsProofs -------------------------
(***************************************************************************)
(* StrongridReads implements PdcClientStream and keeps its invariant, and  *)
(* ReadInv is inductive relative to that, for every number of connections, *)
(* PDCs, configurations and channels.                                      *)
(***************************************************************************)
EXTENDS StrongridReads, PdcClientStreamProofs

USE DEF allVars, readVars, threadVars
USE DEF vars, pdcVars, netVars, objVars, callVars, histVars, clientSide, sessionVars

(* A step is one of the client's and the PDC's, or leaves them alone. *)
LEMMA StepsOfStream == [ReadNext]_allVars => [Next]_vars
<1>1. ASSUME ReadNext PROVE [Next]_vars
  <2>1. ASSUME NEW c \in Conns, ConnectPdc(c) PROVE [Next]_vars
    BY <1>1, <2>1 DEF ReadNext, ConnectPdc, Next, ClientNext
  <2>2. CASE DisconnectPdc
    BY <1>1, <2>2 DEF ReadNext, DisconnectPdc, Next, ClientNext
  <2>3. CASE StartCall
    BY <1>1, <2>3 DEF ReadNext, StartCall, Next, ClientNext
  <2>4. CASE ReadFrame
    BY <1>1, <2>4 DEF ReadNext, ReadFrame, Next, ClientNext, Receive
  <2>5. CASE CallThrows
    BY <1>1, <2>5 DEF ReadNext, CallThrows, Next, ClientNext, Receive
  <2>6. CASE CallThrowsAtOnce
    BY <1>1, <2>6 DEF ReadNext, CallThrowsAtOnce, Next, ClientNext
  <2>7. CASE Elsewhere
    BY <1>1, <2>7 DEF ReadNext, Elsewhere, Next, ClientNext, Receive
  <2>8. CASE Getters
    BY <2>8 DEF Getters, GetPdcConfig, GetPmuConfiguration, GetChannelConfig,
       GetPmuRealData, GetPmuRealDataLabview
  <2> QED
    BY <1>1, <2>1, <2>2, <2>3, <2>4, <2>5, <2>6, <2>7, <2>8 DEF ReadNext
<1>2. ASSUME UNCHANGED allVars PROVE UNCHANGED vars
  BY <1>2
<1> QED
  BY <1>1, <1>2

(* The thread that uses the DLL is a client of PdcClientStream: nothing it *)
(* calls makes the library behave in another way.                          *)
THEOREM ReadsImplementStream == ReadSpec => Spec
<1>1. ReadInit => Init
  BY DEF ReadInit
<1> QED
  BY <1>1, StepsOfStream, PTL DEF ReadSpec, Spec

(* Configurations are pairs, and have lists of PMUs. *)
LEMMA ChannelFacts ==
  /\ None \notin Configs
  /\ \A a, b \in Configs : a[1] = b[1] /\ a[2] = b[2] => a = b
  /\ \A cfg \in Configs : /\ cfg[2] \in Nat
                          /\ Channels[cfg] \in Seq([Lists -> Nat])
                          /\ Len(Channels[cfg]) \in Nat
<1>1. None \notin Configs
  BY StreamAssumption DEF Configs, None
<1>2. \A a, b \in Configs : a[1] = b[1] /\ a[2] = b[2] => a = b
  BY DEF Configs
<1>3. ASSUME NEW cfg \in Configs
      PROVE  cfg[2] \in Nat /\ Channels[cfg] \in Seq([Lists -> Nat]) /\ Len(Channels[cfg]) \in Nat
  <2>1. cfg[2] \in Nat
    BY StreamAssumption DEF Configs
  <2>2. Channels[cfg] \in Seq([Lists -> Nat])
    BY ChannelsAssumption
  <2> QED
    BY <2>1, <2>2
<1> QED
  BY <1>1, <1>2, <1>3

(* The values of a new client, and of a thread that has been told nothing. *)
LEMMA NothingKnown ==
  ASSUME pdcConfigVer3 = None, data = None, numberOfPMUs = 0, arrays = <<>>,
         valid \in BOOLEAN, lastRead = "no", crashed = "no", renewed = FALSE
  PROVE  ReadTypeOK
<1>1. numberOfPMUs \in Nat
  OBVIOUS
<1>2. arrays \in Seq([Lists -> Nat])
  <2> DEFINE S == [Lists -> Nat]
  <2>1. arrays \in Seq(S)
    <3> HIDE DEF S
    <3> QED
      OBVIOUS
  <2> QED
    BY <2>1
<1>3. pdcConfigVer3 \in Configs \cup {None} /\ data \in Configs \cup {None}
  OBVIOUS
<1> QED
  BY <1>1, <1>2, <1>3 DEF ReadTypeOK

(* Nothing is known before the first call. *)
LEMMA ReadInvInit == ReadInit => ReadInv
<1> SUFFICES ASSUME ReadInit PROVE ReadInv
  OBVIOUS
<1>1. ReadTypeOK
  BY NothingKnown DEF ReadInit
<1>2. OneConfiguration
  BY DEF ReadInit, Init, OneConfiguration
<1> QED
  BY <1>1, <1>2 DEF ReadInit, Init, ReadInv, GettersInBounds, LabviewChecksLengths

(* A call that reads no frame leaves the members and the lengths alone.    *)
LEMMA MembersKept ==
  ASSUME ReadInv, UNCHANGED <<objVars, program, pdcConfigVer3, data, threadVars, crashed, renewed>>,
         valid' \in BOOLEAN, crashed = "no",
         \/ lastRead' = "no"
         \/ lastRead' = "failed" /\ at' = "idle"
         \/ UNCHANGED <<at, lastRead>>
  PROVE  ReadInv'
<1>1. ReadTypeOK'
  BY DEF ReadInv, ReadTypeOK
<1>2. ~renewed' => OneConfiguration'
  BY DEF ReadInv, OneConfiguration
<1>3. (lastRead # "no" => at = "idle")' /\ (lastRead = "ok" => data = decode)'
  BY DEF ReadInv
<1> QED
  BY <1>1, <1>2, <1>3 DEF ReadInv, GettersInBounds, LabviewChecksLengths

(* A getter of values may crash, and changes nothing else. *)
LEMMA GetterStep ==
  ASSUME ReadInv, crashed = "no", UNCHANGED <<vars, valid, pdcConfigVer3, data, lastRead, renewed, threadVars>>,
         crashed' \in {"no", "index", "overrun", "labview"},
         ~renewed => crashed' = "no",
         lastRead = "ok" => crashed' # "labview"
  PROVE  ReadInv'
<1>1. ReadTypeOK'
  BY DEF ReadInv, ReadTypeOK
<1>2. ~renewed' => OneConfiguration'
  BY DEF ReadInv, OneConfiguration
<1> QED
  BY <1>1, <1>2 DEF ReadInv, GettersInBounds, LabviewChecksLengths

(* A frame: before the PDC has been given a new configuration, the client  *)
(* is sent the one it may already have.                                    *)
LEMMA ReadFrameStep ==
  ASSUME StreamInv, ReadInv, crashed = "no", ReadFrame
  PROVE  ReadInv'
<1> DEFINE frame == stream[1]
<1>1. /\ at = "body" /\ stream # <<>> /\ stream \in Seq(Frame)
      /\ Head(stream) = frame /\ 1 \in 1..Len(stream) /\ frame \in Frame
  <2>1. at = "body" /\ stream # <<>> /\ stream \in Seq(Frame)
    BY DEF ReadFrame, ReadBody, StreamInv, TypeOK, NetTypeOK
  <2> QED
    BY <2>1, FirstFrame
<1>2. PICK p \in 0..pdc : ConnectedTo(p)
  BY DEF StreamInv, FramesInv
<1>3. frame.cfg \in Configs /\ frame.cfg[1] = p
  BY <1>1, <1>2 DEF Frame, ConnectedTo
<1>4. /\ pdcConfig \in Configs \cup {None} /\ decode \in Configs \cup {None}
      /\ program = "dll" /\ lastRead = "no"
      /\ decode # None => decode[1] = p
  <2>1. program = "dll" /\ lastRead = "no"
    BY <1>1 DEF ReadInv, ReadTypeOK
  <2> QED
    BY <1>2, <2>1 DEF StreamInv, TypeOK, ClientTypeOK, ConnectedTo
<1>5. /\ pdcConfig' = IF frame.kind = "CFG2" THEN frame.cfg ELSE pdcConfig
      /\ decode' = IF frame.kind \in Configurations THEN frame.cfg ELSE decode
      /\ pdcConfigVer3' = IF frame.kind = "CFG3" THEN frame.cfg ELSE pdcConfigVer3
      /\ UNCHANGED <<valid, numberOfPMUs, arrays, crashed, program>>
      /\ renewed' = (renewed \/ (frame.kind \in Configurations /\ frame.cfg[2] > 0))
  BY <1>1 DEF ReadFrame, ReadBody, Handle, HandleFrame
<1>6. \/ frame.kind = "DATA" /\ target = "DATA" /\ data' = decode /\ lastRead' = "ok" /\ at' = "idle"
      \/ UNCHANGED <<data, lastRead>>
  BY <1>1 DEF ReadFrame, ReadBody, HandleFrame, ReturnOrGoOn, IsTarget, Leave
<1> HIDE DEF frame
<1>7. ReadTypeOK'
  BY <1>3, <1>4, <1>5, <1>6 DEF ReadInv, ReadTypeOK
<1>8. lastRead' = "ok" => at' = "idle" /\ data' = decode'
  BY <1>4, <1>5, <1>6 DEF Configurations
<1>9. ASSUME ~renewed' PROVE OneConfiguration'
  <2>1. OneConfiguration /\ ~renewed
    BY <1>5, <1>9 DEF ReadInv
  <2>2. CASE frame.kind \in Configurations
    <3>1. frame.cfg[2] = 0
      <4>1. ~(frame.cfg[2] > 0)
        BY <1>5, <1>9, <2>2
      <4>2. frame.cfg[2] \in Nat
        BY <1>3, ChannelFacts
      <4> QED
        BY <4>1, <4>2
    <3>2. decode = None \/ decode = frame.cfg
      BY <1>3, <1>4, <2>1, <3>1, ChannelFacts DEF OneConfiguration
    <3>3. decode' = frame.cfg /\ UNCHANGED data
      BY <1>5, <1>6, <2>2 DEF Configurations
    <3>4. CASE decode = None
      <4>1. numberOfPMUs = 0 /\ arrays = <<>> /\ {pdcConfig, pdcConfigVer3, data} = {None}
        <5>1. numberOfPMUs = 0 /\ {pdcConfig, pdcConfigVer3, data} = {None}
          BY <2>1, <3>4 DEF OneConfiguration
        <5>2. arrays = <<>>
          BY <3>4 DEF ReadInv
        <5> QED
          BY <5>1, <5>2
      <4>2. numberOfPMUs' = 0 /\ arrays' = <<>>
        BY <1>5, <4>1
      <4>3. {pdcConfig', pdcConfigVer3', data'} \subseteq {None, decode'}
        BY <1>5, <3>3, <4>1
      <4>4. Len(<<>>) = 0 /\ \A i \in DOMAIN <<>> : FALSE
        OBVIOUS
      <4> QED
        BY <3>1, <3>3, <4>2, <4>3, <4>4 DEF OneConfiguration
    <3>5. CASE decode = frame.cfg
      <4>1. {pdcConfig', pdcConfigVer3', data'} \subseteq {None, decode'}
        BY <1>5, <2>1, <3>3, <3>5 DEF OneConfiguration
      <4> QED
        BY <1>5, <2>1, <3>1, <3>3, <3>5, <4>1 DEF OneConfiguration
    <3> QED
      BY <3>2, <3>4, <3>5
  <2>3. CASE frame.kind \notin Configurations
    <3>1. pdcConfig' = pdcConfig /\ pdcConfigVer3' = pdcConfigVer3 /\ decode' = decode
      BY <1>5, <2>3 DEF Configurations
    <3>2. data' \in {data, decode}
      BY <1>6
    <3> QED
      BY <1>5, <2>1, <3>1, <3>2 DEF OneConfiguration
  <2> QED
    BY <2>2, <2>3
<1>10. (decode = None => arrays = <<>> /\ {pdcConfig, pdcConfigVer3} = {None})'
  <2>1. CASE frame.kind \in Configurations
    BY <1>3, <1>5, <2>1, ChannelFacts
  <2>2. CASE frame.kind \notin Configurations
    BY <1>5, <2>2 DEF ReadInv, Configurations
  <2> QED
    BY <2>1, <2>2
<1> QED
  BY <1>4, <1>5, <1>6, <1>7, <1>8, <1>9, <1>10 DEF ReadInv, GettersInBounds, LabviewChecksLengths

(* What the thread is told of the configuration. *)
LEMMA ConfigGetterStep ==
  ASSUME StreamInv, ReadInv, crashed = "no", NEW v \in {2, 3}
  PROVE  /\ GetPdcConfig(v) => ReadInv'
         /\ GetPmuConfiguration(v) => ReadInv'
         /\ \A i \in DOMAIN arrays, l \in Lists : GetChannelConfig(v, i, l) => ReadInv'
<1> DEFINE cfg == ConfigOf(v)
<1>1. /\ cfg \in Configs \cup {None}
      /\ pdcConfig \in Configs \cup {None} /\ decode \in Configs \cup {None}
      /\ numberOfPMUs \in Nat /\ arrays \in Seq([Lists -> Nat])
  BY DEF StreamInv, TypeOK, ClientTypeOK, ReadInv, ReadTypeOK, ConfigOf
<1>2. ~renewed /\ cfg # None => cfg = decode /\ OneConfiguration
  BY DEF ReadInv, OneConfiguration, ConfigOf
<1>3. cfg # None => decode # None /\ cfg \in Configs
  <2>1. decode = None => pdcConfig = None /\ pdcConfigVer3 = None
    BY DEF ReadInv
  <2>2. cfg \in {pdcConfig, pdcConfigVer3}
    BY DEF ConfigOf
  <2> HIDE DEF cfg
  <2> QED
    BY <1>1, <2>1, <2>2
<1>4. cfg # None => /\ Channels[cfg] \in Seq([Lists -> Nat]) /\ Len(Channels[cfg]) \in Nat
                    /\ \A i \in 1..Len(Channels[cfg]) : Channels[cfg][i] \in [Lists -> Nat]
  BY <1>3, ChannelFacts
<1> HIDE DEF cfg
<1>5. ASSUME GetPdcConfig(v) PROVE ReadInv'
  <2>1. /\ cfg # None /\ numberOfPMUs' = Len(Channels[cfg]) /\ arrays' = <<>>
        /\ UNCHANGED <<vars, valid, pdcConfigVer3, data, lastRead, crashed, renewed>>
    BY <1>5 DEF GetPdcConfig, cfg
  <2>2. ReadTypeOK'
    BY <1>4, <2>1 DEF ReadInv, ReadTypeOK
  <2>3. ASSUME ~renewed' PROVE OneConfiguration'
    <3>1. cfg = decode /\ OneConfiguration
      BY <1>2, <2>1, <2>3
    <3>2. Len(<<>>) = 0 /\ \A i \in DOMAIN <<>> : FALSE
      OBVIOUS
    <3> QED
      BY <1>3, <1>4, <2>1, <3>1, <3>2 DEF OneConfiguration
  <2> QED
    BY <1>3, <2>1, <2>2, <2>3 DEF ReadInv, GettersInBounds, LabviewChecksLengths
<1>6. ASSUME GetPmuConfiguration(v) PROVE ReadInv'
  <2> DEFINE i == Len(arrays) + 1
  <2>1. /\ cfg # None /\ Len(arrays) < numberOfPMUs
        /\ UNCHANGED <<vars, valid, pdcConfigVer3, data, numberOfPMUs, lastRead, renewed>>
        /\ \/ /\ HasPmu(cfg, i) /\ arrays' = Append(arrays, Channels[cfg][i])
              /\ UNCHANGED crashed
           \/ ~HasPmu(cfg, i) /\ crashed' = "index" /\ UNCHANGED arrays
    BY <1>6 DEF GetPmuConfiguration, cfg
  <2>2. CASE HasPmu(cfg, i) /\ arrays' = Append(arrays, Channels[cfg][i]) /\ UNCHANGED crashed
    <3>1. Channels[cfg][i] \in [Lists -> Nat]
      BY <1>4, <2>1, <2>2 DEF HasPmu
    <3>2. /\ arrays' \in Seq([Lists -> Nat]) /\ Len(arrays') = i
          /\ \A j \in DOMAIN arrays : arrays'[j] = arrays[j]
          /\ arrays'[i] = Channels[cfg][i] /\ DOMAIN arrays' = DOMAIN arrays \cup {i}
      <4> HIDE DEF cfg
      <4> QED
        BY <1>1, <2>2, <3>1
    <3>3. ReadTypeOK'
      BY <2>1, <2>2, <3>2 DEF ReadInv, ReadTypeOK
    <3>4. ASSUME ~renewed' PROVE OneConfiguration'
      <4>1. cfg = decode /\ OneConfiguration
        BY <1>2, <2>1, <3>4
      <4>2. Len(arrays') <= numberOfPMUs'
        BY <1>1, <2>1, <3>2
      <4>3. \A j \in DOMAIN arrays' : arrays'[j] = Channels[decode'][j]
        BY <2>1, <3>2, <4>1 DEF OneConfiguration
      <4> QED
        BY <2>1, <4>1, <4>2, <4>3 DEF OneConfiguration
    <3> QED
      BY <1>3, <2>1, <2>2, <3>3, <3>4 DEF ReadInv, GettersInBounds, LabviewChecksLengths
  <2>3. CASE ~HasPmu(cfg, i) /\ crashed' = "index" /\ UNCHANGED arrays
    <3>1. ASSUME ~renewed PROVE FALSE
      <4>1. cfg = decode /\ OneConfiguration
        BY <1>2, <2>1, <3>1
      <4>2. numberOfPMUs = Len(Channels[cfg]) /\ Len(arrays) \in Nat
        BY <1>1, <2>1, <4>1 DEF OneConfiguration
      <4> QED
        BY <1>1, <2>1, <2>3, <4>2 DEF HasPmu
    <3> QED
      BY <2>1, <2>3, <3>1, GetterStep
  <2> QED
    BY <2>1, <2>2, <2>3
<1>7. ASSUME NEW i \in DOMAIN arrays, NEW l \in Lists, GetChannelConfig(v, i, l) PROVE ReadInv'
  <2>1. /\ cfg # None
        /\ UNCHANGED <<vars, valid, pdcConfigVer3, data, threadVars, lastRead, renewed>>
        /\ \/ UNCHANGED crashed
           \/ crashed' = "index" /\ ~(HasPmu(cfg, i) /\ arrays[i][l] <= Channels[cfg][i][l])
    BY <1>7 DEF GetChannelConfig, cfg
  <2>2. ASSUME ~renewed PROVE crashed' = "no"
    <3>1. cfg = decode /\ OneConfiguration
      BY <1>2, <2>1, <2>2
    <3>2. i \in 1..Len(arrays) /\ Len(arrays) \in Nat /\ arrays[i] \in [Lists -> Nat]
      BY <1>1
    <3>3. arrays[i] = Channels[cfg][i] /\ Len(arrays) <= Len(Channels[cfg])
      BY <1>1, <3>1, <3>2 DEF OneConfiguration
    <3>4. HasPmu(cfg, i)
      BY <1>4, <2>1, <3>2, <3>3 DEF HasPmu
    <3>5. arrays[i][l] \in Nat /\ arrays[i][l] = Channels[cfg][i][l]
      BY <3>2, <3>3
    <3> QED
      BY <2>1, <3>4, <3>5
  <2> QED
    BY <2>1, <2>2, GetterStep
<1> QED
  BY <1>5, <1>6, <1>7

(* What is copied of a data frame: its shape is that of m_datadecodeInfo,  *)
(* and of the arrays, unless a configuration came in between.              *)
LEMMA ValueGetterStep ==
  ASSUME StreamInv, ReadInv, crashed = "no", NEW i \in DOMAIN arrays
  PROVE  /\ GetPmuRealData(i) => ReadInv'
         /\ GetPmuRealDataLabview(i) => ReadInv'
<1>1. /\ arrays \in Seq([Lists -> Nat]) /\ numberOfPMUs \in Nat
      /\ decode \in Configs \cup {None} /\ data \in Configs \cup {None}
  BY DEF StreamInv, TypeOK, ClientTypeOK, ReadInv, ReadTypeOK
<1>2. i \in 1..Len(arrays) /\ Len(arrays) \in Nat /\ arrays[i] \in [Lists -> Nat]
  BY <1>1
<1>3. decode # None /\ decode \in Configs
  BY <1>1, <1>2 DEF ReadInv
<1>4. ASSUME ~renewed PROVE Found(i) /\ ~Overruns(i)
  <2>1. OneConfiguration
    BY <1>4 DEF ReadInv
  <2>2. data \in {None, decode} /\ arrays[i] = Channels[decode][i] /\ Len(arrays) <= Len(Channels[decode])
    BY <1>1, <1>2, <2>1 DEF OneConfiguration
  <2>3. HasPmu(decode, i)
    BY <1>2, <1>3, <2>2, ChannelFacts DEF HasPmu
  <2>4. Fits(arrays[i], arrays[i])
    BY <1>2 DEF Fits
  <2> QED
    BY <2>2, <2>3, <2>4 DEF Found, Overruns
<1>5. GetPmuRealData(i) => ReadInv'
  BY <1>4, GetterStep DEF GetPmuRealData
<1>6. ASSUME GetPmuRealDataLabview(i) PROVE ReadInv'
  <2>1. ASSUME lastRead = "ok" PROVE ~(LongEnough(i) /\ Overruns(i))
    BY <2>1 DEF ReadInv, LongEnough, Overruns
  <2> QED
    BY <1>4, <1>6, <2>1, GetterStep DEF GetPmuRealDataLabview
<1> QED
  BY <1>5, <1>6

(* One step per action. *)
LEMMA ReadInvStep == StreamInv /\ ReadInv /\ [ReadNext]_allVars => ReadInv'
<1>1. ASSUME StreamInv, ReadInv, ReadNext PROVE ReadInv'
  <2>0. crashed = "no" /\ program = "dll" /\ lastRead \in {"no", "failed", "ok"} /\ valid \in BOOLEAN
    BY <1>1 DEF ReadNext, ReadInv, ReadTypeOK
  <2>1. ASSUME NEW c \in Conns, ConnectPdc(c) PROVE ReadInv'
    <3>1. /\ decode' = None /\ pdcConfig' = None /\ program' = "dll"
          /\ pdcConfigVer3' = None /\ data' = None /\ renewed' = FALSE
          /\ numberOfPMUs' = 0 /\ arrays' = <<>>
          /\ valid' = TRUE /\ lastRead' = "no" /\ crashed' = "no"
      BY <2>0, <2>1 DEF ConnectPdc, Connect
    <3>2. ReadTypeOK'
      <4>1. numberOfPMUs' \in Nat
        BY <3>1
      <4>2. arrays' \in Seq([Lists -> Nat])
        <5> DEFINE S == [Lists -> Nat]
        <5>1. arrays' \in Seq(S)
          <6> HIDE DEF S
          <6> QED
            BY <3>1
        <5> QED
          BY <5>1
      <4> QED
        BY <3>1, <4>1, <4>2 DEF ReadTypeOK
    <3>3. Len(<<>>) = 0 /\ \A i \in DOMAIN <<>> : FALSE
      OBVIOUS
    <3>4. OneConfiguration'
      BY <3>1, <3>3 DEF OneConfiguration
    <3> QED
      BY <3>1, <3>2, <3>4 DEF ReadInv, GettersInBounds, LabviewChecksLengths
  <2>2. CASE DisconnectPdc
    BY <1>1, <2>0, <2>2, MembersKept DEF DisconnectPdc, Disconnect
  <2>3. CASE StartCall
    BY <1>1, <2>0, <2>3, MembersKept DEF StartCall, Request, Command, ReadDataFrame
  <2>4. CASE ReadFrame
    BY <1>1, <2>0, <2>4, ReadFrameStep
  <2>5. CASE CallThrows
    <3>1. at' = "idle" /\ UNCHANGED <<objVars, program>>
      BY <2>5 DEF CallThrows, Timeout, RecvEnd, RecvReset, MisreadHeader, Abandon, Leave
    <3> QED
      BY <1>1, <2>0, <2>5, <3>1, MembersKept DEF CallThrows
  <2>6. CASE CallThrowsAtOnce
    <3>1. at' = "idle" /\ UNCHANGED <<objVars, program>> /\ lastRead' \in {"no", "failed"}
      BY <2>6 DEF CallThrowsAtOnce, CallFails
    <3> QED
      BY <1>1, <2>0, <2>6, <3>1, MembersKept DEF CallThrowsAtOnce
  <2>7. CASE Elsewhere
    <3>1. CASE PdcNext
      <4>1. UNCHANGED clientSide
        BY <3>1 DEF PdcNext, Reply, Reject, SwitchStream, SendData, Broadcast, SetConfiguration,
           StopPdc, EndSession, StartPdc, Enlist, DropClosed
      <4> QED
        BY <1>1, <2>0, <2>7, <4>1, MembersKept DEF Elsewhere
    <3>2. CASE ConnectFails
      BY <1>1, <2>0, <2>7, <3>2, MembersKept DEF Elsewhere, ConnectFails
    <3>3. CASE ReadHeader \/ TakeGarbage
      <4>1. lastRead = "no" /\ UNCHANGED <<objVars, program>>
        BY <1>1, <3>3 DEF ReadInv, ReadHeader, TakeGarbage
      <4> QED
        BY <1>1, <2>0, <2>7, <4>1, MembersKept DEF Elsewhere
    <3> QED
      BY <2>7, <3>1, <3>2, <3>3 DEF Elsewhere
  <2>8. CASE Getters
    BY <1>1, <2>0, <2>8, ConfigGetterStep, ValueGetterStep DEF Getters
  <2> QED
    BY <1>1, <2>1, <2>2, <2>3, <2>4, <2>5, <2>6, <2>7, <2>8 DEF ReadNext
<1>2. ASSUME ReadInv, UNCHANGED allVars PROVE ReadInv'
  <2>1. ReadTypeOK' /\ (~renewed => OneConfiguration)'
    BY <1>2 DEF ReadInv, ReadTypeOK, OneConfiguration
  <2> QED
    BY <1>2, <2>1 DEF ReadInv, GettersInBounds, LabviewChecksLengths
<1> QED
  BY <1>1, <1>2
-----------------------------------------------------------------------------
(***************************************************************************)
(* Theorems.                                                               *)
(***************************************************************************)

(* The invariant of the members and of what the thread knows holds,        *)
(* whatever is called, and in whatever order.                              *)
THEOREM ReadInvariance == ReadSpec => []ReadInv
<1>1. ReadSpec => []StreamInv
  BY ReadsImplementStream, StreamInvariance, PTL
<1> QED
  BY <1>1, ReadInvInit, ReadInvStep, PTL DEF ReadSpec

(* No getter reads or writes out of bounds unless the PDC has sent the     *)
(* client a configuration that SetConfiguration had replaced.              *)
THEOREM GettersStayInBounds == ReadSpec => []GettersInBounds
<1>1. ReadInv => GettersInBounds
  BY DEF ReadInv
<1> QED
  BY <1>1, ReadInvariance, PTL

(* After a readNextFrame that succeeded, getPmuRealDataLabview does not    *)
(* write past the arrays it is given.                                      *)
THEOREM LabviewStaysInArrays == ReadSpec => []LabviewChecksLengths
<1>1. ReadInv => LabviewChecksLengths
  BY DEF ReadInv
<1> QED
  BY <1>1, ReadInvariance, PTL
=============================================================================
