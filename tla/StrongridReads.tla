---------------------------- MODULE StrongridReads ----------------------------
(***************************************************************************)
(* What the DLL copies out: the getters of StrongridDLL over the PdcClient *)
(* of PdcClientStream, and a thread that calls them, as the worker threads *)
(* of the stress test do.  The thread asks how many PMUs there are, gets   *)
(* the configuration of each, makes arrays of the lengths it was told, and *)
(* has the values of every data frame copied into them.                    *)
(*                                                                         *)
(* A getter reads no frame.  Those that read may handle a configuration    *)
(* on their way, which replaces what the other getters index by, while the *)
(* thread keeps the lengths it has.  The positions it passes are those of  *)
(* its own list; the DLL does not check them.  "Any calls to the getter    *)
(* functions should immediately follow readFrame" (API_Documentation.md:44)*)
(* is the only order it keeps for the values.                              *)
(***************************************************************************)
EXTENDS PdcClientStream

CONSTANT Channels       \* the channels of each PMU of a configuration

Lists == {"phasor", "analog", "digital"}

ASSUME ChannelsAssumption == Channels \in [Configs -> Seq([Lists -> Nat])]

VARIABLES
  \* the client, with pdcConfig and decode
  valid,            \* PseudoPdcIdIsValidClient of the id the thread has
  pdcConfigVer3,    \* m_pdcConfigVer3
  data,             \* the configuration m_currDataFrame was decoded by
  \* the thread
  numberOfPMUs,     \* pdcConfiguration::numberOfPMUs
  arrays,           \* the lengths of its arrays, for each PMU
  lastRead,         \* how readNextFrame returned, if it was called last
  \* the process
  crashed,          \* undefined behaviour: an index or a write out of bounds
  \* history, for the properties only
  renewed           \* the client was sent what SetConfiguration had replaced

threadVars == <<numberOfPMUs, arrays>>
readVars == <<valid, pdcConfigVer3, data, threadVars, lastRead, crashed, renewed>>
allVars == <<vars, readVars>>

ReadTypeOK ==
  /\ valid \in BOOLEAN
  /\ pdcConfigVer3 \in Configs \cup {None} /\ data \in Configs \cup {None}
  /\ numberOfPMUs \in Nat /\ arrays \in Seq([Lists -> Nat])
  /\ lastRead \in {"no", "failed", "ok"}
  /\ crashed \in {"no", "index", "overrun", "labview"}
  /\ renewed \in BOOLEAN

ReadInit ==
  /\ Init /\ program = "dll"
  /\ pdcConfigVer3 = None /\ data = None
  /\ numberOfPMUs = 0 /\ arrays = <<>>
  /\ valid = FALSE /\ lastRead = "no"
  /\ crashed = "no" /\ renewed = FALSE
-----------------------------------------------------------------------------
(***************************************************************************)
(* The functions that use the connection.                                  *)
(***************************************************************************)
ConnectPdc_KeepsLengths(c) ==      \* mutant
  /\ Connect(c)
  /\ pdcConfigVer3' = None /\ data' = None /\ renewed' = FALSE
  /\ valid' = TRUE /\ lastRead' = "no"
  /\ UNCHANGED <<threadVars, crashed>>

(* A new PdcClient, and a new turn of the thread's loop. *)
ConnectPdc(c) ==
  /\ Connect(c)
  /\ pdcConfigVer3' = None /\ data' = None /\ renewed' = FALSE
  /\ numberOfPMUs' = 0 /\ arrays' = <<>>
  /\ valid' = TRUE /\ lastRead' = "no"
  /\ UNCHANGED crashed

(* Also of a client that has lost its connection. *)
DisconnectPdc ==
  /\ valid
  /\ \/ Disconnect
     \/ at = "idle" /\ conn = NoConn /\ UNCHANGED vars
  /\ valid' = FALSE /\ lastRead' = "no"
  /\ UNCHANGED <<pdcConfigVer3, data, threadVars, crashed, renewed>>

StartCall ==
  /\ \/ \E k \in Requests : Request(k)
     \/ \E cmd \in {"START", "KILL"} : Command(cmd)
     \/ ReadDataFrame
  /\ lastRead' = "no"
  /\ UNCHANGED <<valid, pdcConfigVer3, data, threadVars, crashed, renewed>>

(* The frame that readNextFrame waits for is decoded into m_currDataFrame, *)
(* with as many PMUs and channels as m_datadecodeInfo has.                 *)
HandleFrame(frame) ==
  /\ pdcConfigVer3' = IF frame.kind = "CFG3" THEN frame.cfg ELSE pdcConfigVer3
  /\ IF target = "DATA" /\ frame.kind = "DATA"
       THEN data' = decode /\ lastRead' = "ok"
       ELSE UNCHANGED <<data, lastRead>>

ReadFrame ==
  /\ ReadBody
  /\ HandleFrame(Head(stream))
  /\ renewed' = (renewed \/ (Head(stream).kind \in Configurations /\ Head(stream).cfg[2] > 0))
  /\ UNCHANGED <<valid, threadVars, crashed>>

(* RETERR_NET_TIMEOUT, RETERR_UNKNOWN_ERR *)
CallThrows ==
  /\ Timeout \/ RecvEnd \/ RecvReset \/ MisreadHeader
  /\ lastRead' = IF target = "DATA" THEN "failed" ELSE "no"
  /\ UNCHANGED <<valid, pdcConfigVer3, data, threadVars, crashed, renewed>>

CallThrowsAtOnce ==
  /\ valid
  /\ \E cmd \in Requests \cup {"START", "KILL", "DATA"} :
       /\ CallFails(cmd)
       /\ lastRead' = IF cmd = "DATA" THEN "failed" ELSE "no"
  /\ UNCHANGED <<valid, pdcConfigVer3, data, threadVars, crashed, renewed>>

(* The steps of the PDC, and those of a call that the getters cannot tell. *)
Elsewhere ==
  /\ PdcNext \/ ConnectFails \/ ReadHeader \/ TakeGarbage
  /\ UNCHANGED readVars
-----------------------------------------------------------------------------
(***************************************************************************)
(* The getters.  One whose member was never read returns an error.         *)
(***************************************************************************)
Getting == valid /\ at = "idle"

ConfigOf(v) == IF v = 2 THEN pdcConfig ELSE pdcConfigVer3

HasPmu(cfg, i) == i \in 1..Len(Channels[cfg])

(* Every list of a fits one of b. *)
Fits(a, b) == \A l \in Lists : a[l] <= b[l]

(* getPdcConfig, getPdcConfig_Ver3 *)
GetPdcConfig(v) ==
  /\ Getting /\ ConfigOf(v) # None
  /\ numberOfPMUs' = Len(Channels[ConfigOf(v)])
  /\ arrays' = <<>>
  /\ UNCHANGED <<vars, valid, pdcConfigVer3, data, lastRead, crashed, renewed>>

GetPmuConfiguration_OneMore(v) ==      \* mutant
  /\ Getting /\ ConfigOf(v) # None
  /\ Len(arrays) <= numberOfPMUs
  /\ LET i == Len(arrays) + 1 IN
       IF HasPmu(ConfigOf(v), i)
         THEN arrays' = Append(arrays, Channels[ConfigOf(v)][i]) /\ UNCHANGED crashed
         ELSE crashed' = "index" /\ UNCHANGED arrays
  /\ UNCHANGED <<vars, valid, pdcConfigVer3, data, numberOfPMUs, lastRead, renewed>>

(* getPmuConfiguration, its Ver3 and its Labview, for the next position;   *)
(* the thread makes arrays of the numbers it is given (PmuState).  The     *)
(* stress test's own PmuState for version 3 follows a null pointer         *)
(* (main.cpp:47), which is left out: another caller's need not.            *)
GetPmuConfiguration(v) ==
  /\ Getting /\ ConfigOf(v) # None
  /\ Len(arrays) < numberOfPMUs
  /\ LET i == Len(arrays) + 1 IN
       IF HasPmu(ConfigOf(v), i)
         THEN arrays' = Append(arrays, Channels[ConfigOf(v)][i]) /\ UNCHANGED crashed
         ELSE crashed' = "index" /\ UNCHANGED arrays
  /\ UNCHANGED <<vars, valid, pdcConfigVer3, data, numberOfPMUs, lastRead, renewed>>

(* getPhasorConfig, getAnalogConfig, getDigitalConfig, their Ver3 and their*)
(* Labview, up to the last channel the thread knows of.                    *)
GetChannelConfig(v, i, l) ==
  /\ Getting /\ ConfigOf(v) # None
  /\ i \in DOMAIN arrays /\ arrays[i][l] > 0
  /\ IF HasPmu(ConfigOf(v), i) /\ arrays[i][l] <= Channels[ConfigOf(v)][i][l]
       THEN UNCHANGED crashed
       ELSE crashed' = "index"
  /\ UNCHANGED <<vars, valid, pdcConfigVer3, data, threadVars, lastRead, renewed>>

(* The PMU is looked up in m_datadecodeInfo and in the data frame. *)
Found(i) == HasPmu(decode, i) /\ (data # None => HasPmu(data, i))

Overruns(i) == data # None /\ ~Fits(Channels[data][i], arrays[i])

RealData(i) == Getting /\ lastRead # "no" /\ i \in DOMAIN arrays

(* getPmuRealData copies what the frame has. *)
GetPmuRealData(i) ==
  /\ RealData(i)
  /\ crashed' = IF ~Found(i) THEN "index"
                ELSE IF Overruns(i) THEN "overrun" ELSE "no"
  /\ UNCHANGED <<vars, valid, pdcConfigVer3, data, threadVars, lastRead, renewed>>

LongEnough_Phasors(i) == Channels[decode][i].phasor <= arrays[i].phasor      \* mutant

LongEnough(i) == Fits(Channels[decode][i], arrays[i])

(* getPmuRealDataLabview first compares the lengths it is given with those *)
(* of m_datadecodeInfo, and then copies what the frame has.                *)
GetPmuRealDataLabview(i) ==
  /\ RealData(i)
  /\ crashed' = IF ~Found(i) THEN "index"
                ELSE IF LongEnough(i) /\ Overruns(i) THEN "labview" ELSE "no"
  /\ UNCHANGED <<vars, valid, pdcConfigVer3, data, threadVars, lastRead, renewed>>
-----------------------------------------------------------------------------
Getters ==
  \/ \E v \in {2, 3} : GetPdcConfig(v) \/ GetPmuConfiguration(v)
  \/ \E v \in {2, 3}, i \in DOMAIN arrays, l \in Lists : GetChannelConfig(v, i, l)
  \/ \E i \in DOMAIN arrays : GetPmuRealData(i) \/ GetPmuRealDataLabview(i)

ReadNext ==
  /\ crashed = "no" /\ at # "astray"
  /\ \/ \E c \in Conns : ConnectPdc(c)
     \/ DisconnectPdc \/ StartCall \/ ReadFrame \/ CallThrows \/ CallThrowsAtOnce
     \/ Elsewhere
     \/ Getters

ReadSpec == ReadInit /\ [][ReadNext]_allVars
-----------------------------------------------------------------------------
(* As long as the PDC has not sent the client a configuration that         *)
(* SetConfiguration had replaced, no getter indexes or writes out of       *)
(* bounds, although none checks a position and getPmuRealData no length:   *)
(* across timeouts, reconnects, replaced PDCs and configurations that are  *)
(* read again (Strongrid.cpp:387, 447, 624, 702).                          *)
GettersInBounds == crashed # "no" => renewed

(* After a readNextFrame that returned 0, getPmuRealDataLabview does not   *)
(* write past the arrays it is given, whatever the PDC has sent: what it   *)
(* compares their lengths with is what the frame was decoded by            *)
(* (Strongrid.cpp:707-709).  After one that failed it may.                 *)
LabviewChecksLengths == crashed = "labview" => lastRead # "ok"

(***************************************************************************)
(* The inductive invariant behind these.                                   *)
(***************************************************************************)

(* Before that, all members and all the thread knows are of one            *)
(* configuration, the first of its PDC.                                    *)
OneConfiguration ==
  /\ decode # None => decode[2] = 0
  /\ {pdcConfig, pdcConfigVer3, data} \subseteq {None, decode}
  /\ numberOfPMUs # 0 => decode # None /\ numberOfPMUs = Len(Channels[decode])
  /\ Len(arrays) <= numberOfPMUs
  /\ \A i \in DOMAIN arrays : arrays[i] = Channels[decode][i]

ReadInv ==
  /\ ReadTypeOK
  /\ program = "dll"
  /\ ~renewed => OneConfiguration
  /\ lastRead # "no" => at = "idle"
  /\ lastRead = "ok" => data = decode
  /\ decode = None => arrays = <<>> /\ {pdcConfig, pdcConfigVer3} = {None}
  /\ GettersInBounds
  /\ LabviewChecksLengths
=============================================================================
