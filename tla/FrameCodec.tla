----------------------------- MODULE FrameCodec -----------------------------
(***************************************************************************)
(* The frames of C37.118 as C37118Protocol writes and reads them, in one   *)
(* exchange after another of a client and a PDC: a command and its reply, a*)
(* header or a configuration, and data frames, which the PDC lays out by   *)
(* its own configuration and the client reads by the one it was sent.      *)
(*                                                                         *)
(* A step writes or reads one item, or leaves a loop.  The buffer keeps    *)
(* for every step of the writer where in the frame it stood, the offset,   *)
(* and what it wrote.  The reader has only its own offset and counts: it is*)
(* in step while it stands where the writer stood.                         *)
(*                                                                         *)
(* A name is its length.  Fields that are always read together are one     *)
(* section: FORMAT is IDCODE, G_PMU_ID and FORMAT, FNOM is FNOM and CFGCNT,*)
(* PLACE is PMU_LAT to GRP_DLY.  Rounding is left out.                     *)
(***************************************************************************)
EXTENDS Integers, Sequences

CONSTANTS Pdcs,         \* PDCs, as their constructor gets them
          Feeds,        \* what the data feed of a PMU may answer
          BufferSize    \* bytes of the buffer in PdcProc

Short == {n \in Nat : n < 65536}     \* what a word of 16 bits counts

StatField == {"error", "sync", "sorting", "trigger", "change", "modified",
              "quality", "unlock", "reason"}

(* Of a PMU, the proofs need the numbers of its channels and of its units. *)
IsPmu(c) ==
  /\ c.stn \in Nat /\ c.format \in [0..3 -> BOOLEAN]
  /\ \A n \in {c.ph, c.an, c.dg} : n \in Seq(Nat) /\ Len(n) \in Short
  /\ \A n \in {c.phunit, c.anunit, c.normal} : Len(n) \in Nat

ASSUME CodecAssumption ==
  /\ BufferSize \in Short /\ 18 <= BufferSize
  /\ \A d \in Pdcs : /\ d.message \in Nat /\ Len(d.pmus) \in Short
                     /\ \A p \in 1..Len(d.pmus) : IsPmu(d.pmus[p])

(* The fields of the structures hold what their types allow; a feed answers*)
(* for every channel of every PMU.                                         *)
Byte == 0..255

HasUnits(version, c) ==
  /\ c.phunit \in Seq(IF version = 1 THEN [type : Byte, scalar : Nat]
                      ELSE [bits : Nat, volt : Byte, component : 0..7, scale : Int])
  /\ c.anunit \in Seq(IF version = 1 THEN [type : Int, scalar : Int]
                      ELSE [scale : Int, offset : Int])
  /\ c.normal \in Seq(BOOLEAN)

Answers(f, c) ==
  Len(c.ph) <= Len(f.ph) /\ Len(c.an) <= Len(f.an) /\ Len(c.dg) <= Len(f.dg)

ASSUME ValuesAssumption ==
  /\ \A d \in Pdcs :
       /\ d.version \in {1, 2}
       /\ d.clock \in [leap : Int, pending : BOOLEAN, level : Int]
       /\ d.timeBase \in Nat \X Nat /\ d.dataRate \in Int \X Int
       /\ \A p \in 1..Len(d.pmus) : HasUnits(d.version, d.pmus[p])
  /\ \A f \in Feeds :
       /\ f.stat \in [StatField -> Nat] /\ f.freq \in Int \X Int
       /\ f.ph \in Seq(Int \X Int) /\ f.an \in Seq(Int) /\ f.dg \in Seq(BOOLEAN)
       /\ \A d \in Pdcs : \A p \in 1..Len(d.pmus) : Answers(f, d.pmus[p])

VARIABLES
  pdc,          \* the PDC: version, head fields, header message, PMUs
  kind,         \* the frame that is written and read
  request,      \* what the client asks for: "CFG2", "CFG3", "HDR", "RTD"
  phase,        \* "idle", "write", "read"; "refused", "overflow", "rejected", "astray"
  loc,          \* where the writer or the reader stands
  buffer,       \* what each step of the writer left
  size,         \* the writer's offset
  frameSize,    \* FRAMESIZE
  sample,       \* the values the PMUs put into the data frame
  taken,        \* the steps of the reader
  offset,       \* the reader's offset
  count,        \* NUM_PMU, as read
  part,         \* what was read of the PMU at hand: channels and format
  info,         \* m_datadecodeInfo of the client
  got           \* the last value stored

writeVars == <<pdc, kind, request, sample>>
readVars == <<taken, offset, count, part, info, got>>
vars == <<writeVars, readVars, phase, loc, buffer, size, frameSize>>

NoChannels == [ph |-> 0, an |-> 0, dg |-> 0, format |-> [b \in 0..3 |-> FALSE]]
-----------------------------------------------------------------------------
(***************************************************************************)
(* Where a writer or a reader stands: in a section of the head (1), of a   *)
(* PMU (2) or of the tail (3), before one of the section's items.          *)
(***************************************************************************)
Configuration ==
  <<<<"HEADER", "TIME_BASE", "NUM_PMU">>,
    <<"STN", "FORMAT", "COUNTS", "PHNAM", "ANNAM", "DGNAM",
      "PHUNIT", "ANUNIT", "DIGUNIT", "FNOM">>,
    <<"DATA_RATE", "CHK">>>>

Configuration3 ==
  <<<<"HEADER", "CONT_IDX", "TIME_BASE", "NUM_PMU">>,
    <<"STN", "FORMAT", "COUNTS", "PHNAM", "ANNAM", "DGNAM",
      "PHUNIT", "ANUNIT", "DIGUNIT", "PLACE", "FNOM">>,
    <<"DATA_RATE", "CHK">>>>

Data == <<<<"HEADER">>, <<"STAT", "PHASORS", "FREQ", "ANALOG", "DIGITAL">>, <<"CHK">>>>
Header == <<<<"HEADER", "MESSAGE">>, <<>>, <<"CHK">>>>
CommandFrame == <<<<"HEADER", "CMD", "EXTFRAME">>, <<>>, <<"CHK">>>>

Sections(k) ==
  CASE k = "CFG2" -> Configuration [] k = "CFG3" -> Configuration3
    [] k = "DATA" -> Data [] k = "HDR" -> Header [] OTHER -> CommandFrame

Start == [part |-> 1, pmu |-> 0, sec |-> 1, item |-> 0]
Sec(l) == Sections(kind)[l.part][l.sec]
NextItem(l) == [l EXCEPT !.item = @ + 1]

(* The end of a section's loop; n is the number of PMUs in the frame.      *)
Following(l, n) ==
  IF l.sec < Len(Sections(kind)[l.part])
    THEN [part |-> l.part, pmu |-> l.pmu, sec |-> l.sec + 1, item |-> 0]
    ELSE IF l.part < 3 /\ l.pmu < n
           THEN [part |-> 2, pmu |-> l.pmu + 1, sec |-> 1, item |-> 0]
           ELSE [part |-> IF l.part < 3 THEN 3 ELSE 4, pmu |-> 0, sec |-> 1, item |-> 0]

Configurations == {"CFG2", "CFG3"}
Names == {"STN", "PHNAM", "ANNAM", "DGNAM"}
-----------------------------------------------------------------------------
(***************************************************************************)
(* What there is to be written.                                            *)
(***************************************************************************)
Smaller(a, b) == IF a < b THEN a ELSE b

Words(n) == (n + 15) \div 16         \* of 16 digital channels each

(* A word is the set of its bits that are set.                             *)
Pack(bits) ==
  [w \in 1..Words(Len(bits)) |->
     {i \in 0..15 : 16 * (w - 1) + i < Len(bits) /\ bits[16 * (w - 1) + i + 1]}]

(* DowngradePmuConfig: scales of version 3 as units.                       *)
Downgraded == kind = "CFG2" /\ pdc.version = 2
PhasorUnit(u) == IF Downgraded THEN [type |-> u.volt, scalar |-> u.scale] ELSE u
AnalogUnit(u) == IF Downgraded THEN [type |-> 0, scalar |-> u.scale] ELSE u

(* The writers throw before they write a PMU whose names and units differ  *)
(* in number, or, in version 3, whose station name is too long.            *)
Mismatch(c) ==
  \/ Len(c.ph) # Len(c.phunit) \/ Len(c.an) # Len(c.anunit)
  \/ Words(Len(c.dg)) # Words(Len(c.normal))
  \/ kind = "CFG3" /\ c.stn > 255

WriteCount_NoPadding(l) ==      \* mutant
  LET c == pdc.pmus[l.pmu] IN
  CASE Sec(l) \in {"PHNAM", "PHUNIT", "PHASORS"} -> Len(c.ph)
    [] Sec(l) \in {"ANNAM", "ANUNIT", "ANALOG"} -> Len(c.an)
    [] Sec(l) = "DGNAM" -> Len(c.dg)
    [] Sec(l) \in {"DIGUNIT", "DIGITAL"} -> Words(Len(c.dg))
    [] OTHER -> 1

(* The items of a section.                                                 *)
WriteCount(l) ==
  LET c == pdc.pmus[l.pmu] IN
  CASE Sec(l) \in {"PHNAM", "PHUNIT", "PHASORS"} -> Len(c.ph)
    [] Sec(l) \in {"ANNAM", "ANUNIT", "ANALOG"} -> Len(c.an)
    [] Sec(l) = "DGNAM" -> 16 * Words(Len(c.dg))
    [] Sec(l) \in {"DIGUNIT", "DIGITAL"} -> Words(Len(c.dg))
    [] OTHER -> 1

(* A name is its length; words have 16 names, the last ones empty.         *)
Name(l) ==
  LET c == pdc.pmus[l.pmu]  i == l.item + 1 IN
  CASE Sec(l) = "STN" -> c.stn [] Sec(l) = "PHNAM" -> c.ph[i] [] Sec(l) = "ANNAM" -> c.an[i]
    [] OTHER -> IF i <= Len(c.dg) THEN c.dg[i] ELSE 0

(* What the writer finds for an item in the sender's structures.           *)
Item(l) ==
  LET s == Sec(l)
      c == pdc.pmus[l.pmu]
      v == sample[l.pmu]
      i == l.item + 1 IN
  CASE s = "HEADER" -> pdc.clock
    [] s = "TIME_BASE" -> pdc.timeBase
    [] s = "NUM_PMU" -> Len(pdc.pmus)
    [] s = "DATA_RATE" -> pdc.dataRate
    [] s = "MESSAGE" -> pdc.message
    [] s = "CMD" -> request
    [] s \in Names -> Name(l)
    [] s = "FORMAT" -> c.format
    [] s = "COUNTS" -> <<Len(c.ph), Len(c.an), Words(Len(c.dg))>>
    [] s = "PHUNIT" -> PhasorUnit(c.phunit[i])
    [] s = "ANUNIT" -> AnalogUnit(c.anunit[i])
    [] s = "DIGUNIT" -> Pack(c.normal)[i]
    [] s = "STAT" -> v.stat
    [] s = "PHASORS" -> v.ph[i]
    [] s = "FREQ" -> v.freq
    [] s = "ANALOG" -> <<v.an[i], 1>>
    [] s = "DIGITAL" -> Pack([j \in 1..Len(c.dg) |-> v.dg[j]])[i]
    [] OTHER -> 0
-----------------------------------------------------------------------------
(***************************************************************************)
(* How many bytes an item takes, f being the FORMAT of its PMU.            *)
(***************************************************************************)
Width(s, f) ==
  CASE s = "HEADER" -> 14
    [] s \in {"TIME_BASE", "FNOM", "DIGUNIT"} -> 4
    [] s = "FORMAT" -> IF kind = "CFG2" THEN 4 ELSE 20
    [] s = "COUNTS" -> 6
    [] s \in Names -> 16
    [] s = "PHUNIT" -> IF kind = "CFG2" THEN 4 ELSE 12
    [] s = "ANUNIT" -> IF kind = "CFG2" THEN 4 ELSE 8
    [] s = "PLACE" -> 21
    [] s = "PHASORS" -> IF f[1] THEN 8 ELSE 4
    [] s = "FREQ" -> IF f[3] THEN 8 ELSE 4
    [] s = "ANALOG" -> IF f[2] THEN 4 ELSE 2
    [] OTHER -> 2

WriteBytes(l) ==
  LET s == Sec(l) IN
  CASE kind = "CFG3" /\ s \in Names -> 1 + Name(l)
    [] s = "MESSAGE" -> pdc.message
    [] s = "EXTFRAME" -> 0
    [] OTHER -> Width(s, pdc.pmus[l.pmu].format)

(* w is what was written there.                                            *)
ReadBytes(l, w) ==
  LET s == Sec(l) IN
  CASE kind = "CFG3" /\ s \in Names -> 1 + w
    [] s = "MESSAGE" -> frameSize - 16
    [] s = "EXTFRAME" -> frameSize - 18
    [] OTHER -> Width(s, info[l.pmu].format)
-----------------------------------------------------------------------------
(***************************************************************************)
(* How values become bits.                                                 *)
(***************************************************************************)
Bit(x, b) == (x \div 2^b) % 2
ToShort(x) == x % 65536
ToInt16(x) == IF ToShort(x) < 32768 THEN ToShort(x) ELSE ToShort(x) - 65536

(* TimeQuality of FRACSEC: C37118FracSec::Create and GetParsedQuality.     *)
TimeQuality(q) ==
    (IF q.leap < 0 THEN 64 ELSE 0) + (IF q.leap # 0 THEN 32 ELSE 0)
  + (IF q.pending THEN 16 ELSE 0) + (q.level % 16)

ParsedQuality(x) ==
  [leap |-> IF Bit(x, 5) = 1 /\ Bit(x, 6) = 0 THEN 1 ELSE 0,
   pending |-> Bit(x, 4) = 1, level |-> x % 16]

(* Frames per second, as a fraction.                                       *)
RawDataRate(fps) ==
  IF fps[1] >= fps[2] THEN fps[1] \div fps[2]
  ELSE IF fps[1] > 0 THEN -(fps[2] \div fps[1]) ELSE 0
FramesPerSecond(raw) == IF raw >= 0 THEN <<raw, 1>> ELSE <<-1, -raw>>

(* The bit fields of STAT, first bit and width.                            *)
StatFields == <<"error", "sync", "sorting", "trigger", "change", "modified",
                "quality", "unlock", "reason">>
FirstBit == [error |-> 14, sync |-> 13, sorting |-> 12, trigger |-> 11, change |-> 10,
             modified |-> 9, quality |-> 6, unlock |-> 4, reason |-> 0]
Bits == [error |-> 2, sync |-> 1, sorting |-> 1, trigger |-> 1, change |-> 1,
         modified |-> 1, quality |-> 3, unlock |-> 2, reason |-> 4]

GetField(raw, f) == (raw \div 2^FirstBit[f]) % 2^Bits[f]

SetField_NoMask(raw, f, code) ==      \* mutant
  raw + (code - GetField(raw, f)) * 2^FirstBit[f]

SetField(raw, f, code) ==
  raw + ((code % 2^Bits[f]) - GetField(raw, f)) * 2^FirstBit[f]

(* A feed sets all fields, in any order.                                   *)
StatSteps(codes) ==
  LET raw[n \in 0..9] ==
        IF n = 0 THEN 0 ELSE SetField(raw[n - 1], StatFields[n], codes[StatFields[n]])
  IN raw
Stat(codes) == StatSteps(codes)[9]

(* Magnitude and angle, the angle by atanf(imag/real), and back.           *)
Polar(z) ==
  IF z[1] < 0 THEN <<-z[1], -z[2]>> ELSE IF z = <<0, 0>> THEN <<"NaN">> ELSE z

ToInt(x) == IF x >= 0 THEN x \div 10 ELSE -((-x) \div 10)       \* of tenths

(* A float that does not fit its int16: what the item then holds, and what *)
(* becomes of it, is undefined.                                            *)
Undefined == <<"undefined">>
Fits(x) == -32768 <= x /\ x < 32768

(* The parts of a phasor, or its magnitude.  As integers, a magnitude of 0 *)
(* makes the angle, which is not a number, immaterial.                     *)
PhasorFits(z, f) ==
  IF f[0] THEN z[1] * z[1] + z[2] * z[2] < 32768 * 32768 ELSE Fits(z[1]) /\ Fits(z[2])

ToPhasor(z, f) ==
  CASE ~f[1] /\ ~PhasorFits(z, f) -> Undefined
    [] f[0] /\ (f[1] \/ z # <<0, 0>>) -> Polar(z)
    [] OTHER -> z

(* The frequency, here in tenths, and its change, in hundredths.           *)
FrequencyFits(v) == Fits(ToInt(v[1])) /\ Fits(v[2])
ToIntFrequency(v) == IF FrequencyFits(v) THEN <<ToInt(v[1]), v[2]>> ELSE Undefined
FromIntFrequency(w) == IF w = Undefined THEN w ELSE <<10 * w[1], w[2]>>

(* An analog value <<x, n>> is x * 100000^n, x an integer: with n > 0, only*)
(* 0 fits an int16.                                                        *)
ToAnalogInt(a) == IF a[1] = 0 THEN a ELSE Undefined
FromAnalog(a) == IF a = Undefined THEN a ELSE <<a[1], a[2] + 1>>

Encode(s, v, f) ==
  CASE s = "HEADER" -> TimeQuality(v)
    [] s = "TIME_BASE" -> <<v[1] % 256, v[2] % 2^24>>
    [] s = "NUM_PMU" -> ToShort(v)
    [] s = "DATA_RATE" -> ToShort(RawDataRate(v))
    [] s \in Names -> IF kind = "CFG2" THEN Smaller(v, 16) ELSE v % 256
    [] s = "FORMAT" -> {b \in 0..3 : v[b]}
    [] s = "COUNTS" -> <<ToShort(v[1]), ToShort(v[2]), ToShort(v[3])>>
    [] s = "PHUNIT" -> IF kind = "CFG2" THEN <<v.type % 256, v.scalar % 2^24>>
                       ELSE <<v.bits % 256, v.volt % 2, v.component % 8, v.scale>>
    [] s = "ANUNIT" /\ kind = "CFG2" -> <<v.type % 256, v.scalar % 2^24>>
    [] s = "STAT" -> Stat(v)
    [] s = "PHASORS" -> ToPhasor(v, f)
    [] s = "FREQ" -> IF f[3] THEN v ELSE ToIntFrequency(v)
    [] s = "ANALOG" -> IF f[2] THEN v ELSE ToAnalogInt(v)
    [] OTHER -> v

Decode(s, w, f) ==
  CASE s = "HEADER" -> ParsedQuality(w)
    [] s = "DATA_RATE" -> FramesPerSecond(ToInt16(w))
    [] s = "FORMAT" -> [b \in 0..3 |-> b \in w]
    [] s = "PHUNIT" /\ kind = "CFG2" -> [type |-> w[1], scalar |-> w[2]]
    [] s = "PHUNIT" /\ kind = "CFG3" ->
         [bits |-> w[1], volt |-> 8 * w[2], component |-> w[3], scale |-> w[4]]
    [] s = "ANUNIT" /\ kind = "CFG2" -> [type |-> w[1], scalar |-> w[2]]
    [] s = "STAT" -> [i \in DOMAIN Bits |-> GetField(w, i)]
    [] s = "FREQ" -> IF f[3] THEN w ELSE FromIntFrequency(w)
    [] s = "ANALOG" -> FromAnalog(w)
    [] OTHER -> w
-----------------------------------------------------------------------------
(***************************************************************************)
(* Writing.  Nothing checks that the buffer is large enough (a command, of *)
(* 18 bytes, always fits): what happens after an overflow is not modelled. *)
(***************************************************************************)
NumPmu == IF kind \in Configurations \cup {"DATA"} THEN Len(pdc.pmus) ELSE 0

Begin(k) ==
  /\ kind' = k /\ phase' = "write" /\ loc' = Start /\ buffer' = <<>> /\ size' = 0
  /\ UNCHANGED <<pdc, frameSize, readVars>>

(* A client sends a command; it asks for a configuration 3 only a PDC that *)
(* has one (another drops it).                                             *)
Command(r) ==
  /\ phase = "idle"
  /\ r = "CFG3" => pdc.version = 2
  /\ request' = r
  /\ Begin("CMD") /\ UNCHANGED sample

(* PMU::CreatePmuDataFrame for each PMU, and WriteDataFrame.               *)
StartData ==
  /\ phase = "idle" /\ request = "RTD" /\ info # <<>>
  /\ sample' \in [1..Len(pdc.pmus) -> Feeds]
  /\ Begin("DATA") /\ UNCHANGED request

Reply ==
  /\ phase = "reply"
  /\ Begin(request) /\ UNCHANGED <<request, sample>>

AtPmu == loc.part = 2 /\ loc.sec = 1 /\ loc.item = 0

Refuse ==
  /\ phase = "write" /\ kind \in Configurations
  /\ AtPmu /\ Mismatch(pdc.pmus[loc.pmu])
  /\ phase' = "refused"
  /\ UNCHANGED <<writeVars, readVars, loc, buffer, size, frameSize>>

Entry(more, bytes, wire) ==
  [loc |-> loc, more |-> more, at |-> size, bytes |-> bytes, wire |-> wire]

FooterSize_WithoutChecksum == ToShort(size)      \* mutant

(* WriteFooter                                                             *)
FooterSize == ToShort(size + 2)

WriteItem ==
  /\ phase = "write"
  /\ AtPmu /\ kind \in Configurations => ~Mismatch(pdc.pmus[loc.pmu])
  /\ loc.item < WriteCount(loc)
  /\ IF size + WriteBytes(loc) > BufferSize
       THEN phase' = "overflow" /\ UNCHANGED <<loc, buffer, size, frameSize>>
       ELSE /\ buffer' = Append(buffer,
                 Entry(TRUE, WriteBytes(loc),
                       Encode(Sec(loc), Item(loc), pdc.pmus[loc.pmu].format)))
            /\ size' = size + WriteBytes(loc)
            /\ loc' = NextItem(loc)
            /\ frameSize' = IF Sec(loc) = "CHK" THEN FooterSize ELSE frameSize
            /\ UNCHANGED phase
  /\ UNCHANGED <<writeVars, readVars>>

StartReading ==
  /\ phase' = "read" /\ loc' = Start /\ taken' = 0 /\ offset' = 0
  /\ count' = 0 /\ part' = NoChannels
  /\ info' = IF kind \in Configurations THEN <<>> ELSE info

LeaveWrite ==
  /\ phase = "write"
  /\ loc.item = WriteCount(loc)
  /\ buffer' = Append(buffer, Entry(FALSE, 0, 0))
  /\ LET next == Following(loc, NumPmu) IN
       IF next.part = 4
         THEN StartReading
         ELSE loc' = next /\ UNCHANGED <<phase, taken, offset, count, part, info>>
  /\ UNCHANGED <<writeVars, size, frameSize, got>>
-----------------------------------------------------------------------------
(***************************************************************************)
(* Reading.  (What is read out of step has no limits and is not modelled.) *)
(***************************************************************************)
HeaderFits_Strict == frameSize <= IF kind = "CMD" THEN 14 ELSE 131072      \* mutant

(* ReadFrameHeader, with the 14 bytes there are so far or the length of the*)
(* client's buffer: it adds the offset, 4, to the length.                  *)
HeaderFits == frameSize <= 4 + IF kind = "CMD" THEN 14 ELSE 131072

ReadCount(l) ==
  CASE Sec(l) \in {"PHNAM", "PHUNIT"} -> part.ph
    [] Sec(l) \in {"ANNAM", "ANUNIT"} -> part.an
    [] Sec(l) = "DGNAM" -> 16 * part.dg
    [] Sec(l) = "DIGUNIT" -> part.dg
    [] Sec(l) = "PHASORS" -> info[l.pmu].ph
    [] Sec(l) = "ANALOG" -> info[l.pmu].an
    [] Sec(l) = "DIGITAL" -> Words(info[l.pmu].dg)
    [] OTHER -> 1

ReadPmus ==
  CASE kind \in Configurations -> count [] kind = "DATA" -> Len(info) [] OTHER -> 0

More == loc.item < ReadCount(loc)

InStep ==
  /\ taken < Len(buffer)
  /\ buffer[taken + 1].loc = loc /\ buffer[taken + 1].at = offset
  /\ (buffer[taken + 1].more <=> More)

GoAstray ==
  /\ phase = "read" /\ ~InStep
  /\ phase' = "astray"
  /\ UNCHANGED <<writeVars, readVars, loc, buffer, size, frameSize>>

Store(s, w) ==
  /\ got' = Decode(s, w, info[loc.pmu].format)
  /\ count' = IF s = "NUM_PMU" THEN w ELSE count
  /\ part' = CASE s = "COUNTS" -> [part EXCEPT !.ph = w[1], !.an = w[2], !.dg = w[3]]
               [] s = "FORMAT" -> [part EXCEPT !.format = got']
               [] OTHER -> part

ReadItem ==
  /\ phase = "read" /\ InStep /\ More
  /\ IF loc = Start /\ ~HeaderFits
       THEN phase' = "rejected" /\ UNCHANGED <<loc, taken, offset, count, part, got>>
       ELSE LET w == buffer[taken + 1].wire IN
            /\ Store(Sec(loc), w)
            /\ offset' = offset + ReadBytes(loc, w)
            /\ taken' = taken + 1
            /\ loc' = NextItem(loc)
            /\ UNCHANGED phase
  /\ UNCHANGED <<writeVars, info, buffer, size, frameSize>>

(* CreateDecodeInfoByPdcConfig, for the PMU just read: a channel for every *)
(* name, of digital channels 16 for each word.                             *)
DecodeInfo == [part EXCEPT !.dg = 16 * part.dg]

LeaveRead ==
  /\ phase = "read" /\ InStep /\ ~More
  /\ LET next == Following(loc, ReadPmus) IN
       /\ taken' = taken + 1
       /\ loc' = next
       /\ info' = IF kind \in Configurations /\ loc.part = 2 /\ next.pmu # loc.pmu
                    THEN Append(info, DecodeInfo) ELSE info
       /\ phase' = IF next.part < 4 THEN "read"
                   ELSE IF kind = "CMD" /\ request # "RTD" THEN "reply" ELSE "idle"
       /\ sample' = IF next.part < 4 THEN sample ELSE <<>>
  /\ UNCHANGED <<pdc, kind, request, offset, count, part, got, buffer, size, frameSize>>

Init ==
  /\ pdc \in Pdcs
  /\ kind = "NONE" /\ request = "NONE" /\ phase = "idle" /\ loc = Start
  /\ buffer = <<>> /\ size = 0 /\ frameSize = 0 /\ sample = <<>>
  /\ taken = 0 /\ offset = 0 /\ count = 0 /\ part = NoChannels /\ info = <<>>
  /\ got = 0

Next ==
  \/ \E r \in Configurations \cup {"HDR", "RTD"} : Command(r)
  \/ StartData \/ Reply
  \/ Refuse \/ WriteItem \/ LeaveWrite
  \/ GoAstray \/ ReadItem \/ LeaveRead

Spec == Init /\ [][Next]_vars
-----------------------------------------------------------------------------
(***************************************************************************)
(* Safety.                                                                 *)
(***************************************************************************)

(* What a reader takes for a field is that field, in every frame and for   *)
(* every configuration, with the sizes and counts it read itself: unless   *)
(* the writer of version 3, which does not check the names of channels, cut*)
(* the length of one to a byte.  And it ends where FRAMESIZE says.         *)
LongName ==
  /\ kind = "CFG3"
  /\ \E p \in 1..Len(pdc.pmus) :
       \E n \in {pdc.pmus[p].ph, pdc.pmus[p].an, pdc.pmus[p].dg} :
         \E i \in 1..Len(n) : n[i] > 255

ReaderInStep ==
  /\ phase = "astray" => LongName
  /\ phase \in {"idle", "reply"} /\ kind # "NONE" => offset = frameSize

(* A reader never refuses a frame for its size, although the PDC looks at  *)
(* FRAMESIZE with only 14 of the 18 bytes of a command in its buffer.      *)
NothingRejected == phase # "rejected"

(* The sums of the first 0, 1, ..., Len(s) of the numbers s, and of all.   *)
Sums(s) ==
  LET sum[n \in 0..Len(s)] == IF n = 0 THEN 0 ELSE sum[n - 1] + s[n] IN sum
Total(s) == Sums(s)[Len(s)]

(* The size of a frame by the tables of the standard.                      *)
PmuBytes(c) ==
  LET ph == Len(c.ph)  an == Len(c.an)  words == Words(Len(c.dg))
      names == Total(c.ph) + Total(c.an) + Total(c.dg) IN
  CASE kind = "CFG2" -> 30 + 20 * (ph + an) + 260 * words
    [] kind = "CFG3" -> 52 + c.stn + names + 13 * ph + 9 * an + 20 * words
    [] OTHER -> 2 + (IF c.format[1] THEN 8 ELSE 4) * ph + (IF c.format[3] THEN 8 ELSE 4)
                + (IF c.format[2] THEN 4 ELSE 2) * an + 2 * words

FrameBytes ==
  CASE kind = "HDR" -> 16 + pdc.message
    [] kind = "CMD" -> 18
    [] OTHER -> (CASE kind = "CFG2" -> 24 [] kind = "CFG3" -> 26 [] OTHER -> 16)
                + Total([p \in 1..Len(pdc.pmus) |-> PmuBytes(pdc.pmus[p])])

(* FRAMESIZE is the size that the standard gives the frame; and the PDC    *)
(* writes past its buffer only if that is more than the buffer has.        *)
FrameSizeCorrect ==
  /\ phase = "read" => frameSize = FrameBytes
  /\ phase = "overflow" => FrameBytes > BufferSize

(* What is kept exactly: names of up to 16 bytes (version 2), scalars of 24*)
(* bits without a sign, phasors in polar form in the right half plane,     *)
(* phasors and whole frequencies that fit an int16 if they are integers, no*)
(* deleted leap second, a data rate of at least one frame a second.        *)
Kept(s, v, f) ==
  CASE s = "HEADER" -> v.leap \in {0, 1} /\ v.level \in 0..15
    [] s = "TIME_BASE" -> v[1] < 256 /\ v[2] < 2^24
    [] s = "DATA_RATE" -> v[1] >= 0 /\ v[1] < 32768 /\ v[2] = 1
    [] s \in Names -> IF kind = "CFG2" THEN v <= 16 ELSE v < 256
    [] s = "PHUNIT" -> IF kind = "CFG2" THEN v.scalar \in Nat /\ v.scalar < 2^24
                       ELSE v.volt = 0 /\ v.bits < 256
    [] s = "ANUNIT" /\ kind = "CFG2" -> v.type \in Byte /\ v.scalar \in Nat /\ v.scalar < 2^24
    [] s = "PHASORS" -> /\ f[0] => v[1] > 0 \/ (v[1] = 0 /\ (~f[1] \/ v[2] # 0))
                        /\ ~f[1] => PhasorFits(v, f)
    [] s = "FREQ" -> f[3] \/ (v[1] % 10 = 0 /\ FrequencyFits(v))
    [] s \in {"STAT", "ANALOG"} -> FALSE
    [] OTHER -> TRUE

(* The digital channels that DIGUNIT or DIGITAL are about.                 *)
Channels(l) ==
  LET c == pdc.pmus[l.pmu] IN
  IF Sec(l) = "DIGUNIT" THEN c.normal ELSE [j \in 1..Len(c.dg) |-> sample[l.pmu].dg[j]]

(* The field at l, which the reader takes for g, has the value the sender  *)
(* meant, if it is one of those that are Kept: a code of STAT too, whatever*)
(* the other codes are; and bit i of a word of digital channels is the     *)
(* channel that the DLL takes it for.  An analog value is not read back: of*)
(* one sent as a float no more than the digits are (its size is 100000     *)
(* times what the frame has), and of one sent as an integer nothing.       *)
Stored(l, g) ==
  LET s == Sec(l)
      v == Item(l)
      c == pdc.pmus[l.pmu]
      bits == Channels(l) IN
  /\ Kept(s, v, c.format) => g = v
  /\ s = "STAT" => \A i \in DOMAIN Bits : v[i] < 2^Bits[i] => g[i] = v[i]
  /\ s = "ANALOG" /\ c.format[2] => g[1] = v[1]
  /\ s \in {"DIGUNIT", "DIGITAL"} =>
       \A i \in 16 * l.item + 1 .. Smaller(16 * l.item + 16, Len(bits)) :
         bits[i] <=> (i - 1) % 16 \in g

(* The reader stores what the sender meant, item after item, of the values *)
(* that Kept names.  C37118ProtocolTests.cpp claims more: analog values of *)
(* the size that was sent (:306), and a data rate of half a frame a second *)
(* (:677), which C37118DataTypes.cpp:326 and FramesPerSecond do not keep.  *)
ReadBack ==
  [][phase = "read" /\ loc' = NextItem(loc) => Stored(loc, got')]_vars
-----------------------------------------------------------------------------
(***************************************************************************)
(* The inductive invariant behind ReaderInStep and NothingRejected.        *)
(***************************************************************************)
Locs == [part : 1..4, pmu : Nat, sec : Nat \ {0}, item : Nat]
PmuInfo == [ph : Nat, an : Nat, dg : Nat, format : [0..3 -> BOOLEAN]]

TypeOK ==
  /\ pdc \in Pdcs
  /\ kind \in {"NONE", "CMD", "HDR", "CFG2", "CFG3", "DATA"}
  /\ request \in {"NONE", "HDR", "CFG2", "CFG3", "RTD"}
  /\ phase \in {"idle", "reply", "write", "read",
                "refused", "overflow", "rejected", "astray"}
  /\ loc \in Locs
  /\ size \in Nat /\ frameSize \in Nat /\ taken \in Nat /\ count \in Nat
  /\ part \in PmuInfo /\ info \in Seq(PmuInfo)

InFrame(l) ==
  /\ l.part < 4 /\ l.sec <= Len(Sections(kind)[l.part])
  /\ l.pmu <= NumPmu /\ (l.part = 2 <=> l.pmu > 0)
  /\ l.item <= WriteCount(l)

After(e) == IF e.more THEN NextItem(e.loc) ELSE Following(e.loc, NumPmu)

(* What the reader needs for its own sizes and counts.                     *)
WireOK(l, w) ==
  LET s == Sec(l)  c == pdc.pmus[l.pmu] IN
  /\ s = "NUM_PMU" => w = Len(pdc.pmus)
  /\ s = "FORMAT" => w = {b \in 0..3 : c.format[b]}
  /\ s = "COUNTS" => w = <<Len(c.ph), Len(c.an), Words(Len(c.dg))>>
  /\ kind = "CFG3" /\ s \in Names => w = Name(l) \/ LongName

(* An entry is what the writer writes at its place in the frame.           *)
IsWritten(e) ==
  /\ e.loc \in Locs /\ InFrame(e.loc)
  /\ e.at \in Nat
  /\ e.more <=> e.loc.item < WriteCount(e.loc)
  /\ e.bytes = IF e.more THEN WriteBytes(e.loc) ELSE 0
  /\ e.more => WireOK(e.loc, e.wire)

Written == IF buffer = <<>> THEN Start ELSE After(buffer[Len(buffer)])

(* How far the writer is in a command or a header frame.                   *)
SizeAt(l) ==
  LET body == IF kind = "CMD" THEN 2 ELSE pdc.message IN
  CASE l.part = 1 /\ l.sec = 1 -> 14 * l.item
    [] l.part = 1 /\ l.sec = 2 -> 14 + (IF l.item = 0 THEN 0 ELSE body)
    [] l.part = 1 /\ l.sec = 3 -> 14 + body
    [] OTHER -> 14 + body + IF l.part = 4 \/ l.item > 0 THEN 2 ELSE 0

(* The entries follow each other, in the frame and in the buffer.          *)
Chained ==
  /\ buffer = <<>> => size = 0
  /\ buffer # <<>> => /\ buffer[1].loc = Start /\ buffer[1].at = 0
                      /\ size = buffer[Len(buffer)].at + buffer[Len(buffer)].bytes
  /\ \A j \in 1..Len(buffer) - 1 :
       /\ buffer[j + 1].loc = After(buffer[j])
       /\ buffer[j + 1].at = buffer[j].at + buffer[j].bytes

BufferInv ==
  /\ phase \in {"write", "read"} =>
       Chained /\ \A j \in 1..Len(buffer) : IsWritten(buffer[j])
  /\ phase = "write" => /\ loc = Written /\ InFrame(loc)
                        /\ Sec(loc) = "CHK" /\ loc.item = 1 => frameSize = size
  /\ phase = "read" => Written.part = 4 /\ frameSize = size
  /\ phase \in {"write", "read"} =>
       kind # "NONE" /\ size <= BufferSize /\ (kind \in {"CMD", "HDR"} => size = SizeAt(Written))

(* Where in the buffer the writer stands at l, by what it writes before: in*)
(* a section, in a part, in the frame.                                     *)
ItemBytes(l) == [i \in 1..WriteCount(l) |-> WriteBytes([l EXCEPT !.item = i - 1])]

SectionBytes(n, p) ==
  [s \in 1..Len(Sections(kind)[n]) |->
     Total(ItemBytes([part |-> n, pmu |-> p, sec |-> s, item |-> 0]))]

PartBytes == [p \in 1..NumPmu |-> Total(SectionBytes(2, p))]

Before(l) ==
  LET head == Total(SectionBytes(1, 0))
      tail == Total(SectionBytes(3, 0))
      inside == Sums(SectionBytes(l.part, l.pmu))[l.sec - 1] + Sums(ItemBytes(l))[l.item] IN
  CASE l.part = 1 -> inside
    [] l.part = 2 -> head + Sums(PartBytes)[l.pmu - 1] + inside
    [] l.part = 3 -> head + Total(PartBytes) + inside
    [] OTHER -> head + Total(PartBytes) + tail

(* The inductive invariant behind FrameSizeCorrect.                        *)
SizeInv == FrameSizeCorrect /\ (phase = "write" => size = Before(loc))

(* What the client knows of the PMUs: 16 digital channels for each word.   *)
Agree(n) ==
  /\ Len(info) = n
  /\ \A p \in 1..n :
       LET c == pdc.pmus[p] IN
       /\ info[p].ph = Len(c.ph) /\ info[p].an = Len(c.an)
       /\ info[p].dg = 16 * Words(Len(c.dg)) /\ info[p].format = c.format

(* The first item of section n of this part has been taken.                *)
Passed(n) == loc.sec > n \/ (loc.sec = n /\ loc.item > 0)

ReadInv ==
  phase = "read" =>
    /\ taken < Len(buffer)
    /\ loc = buffer[taken + 1].loc
    /\ offset = buffer[taken + 1].at \/ LongName
    /\ kind \in Configurations =>
         /\ loc.part > 1 \/ Passed(Len(Sections(kind)[1])) => count = Len(pdc.pmus)
         /\ Agree(CASE loc.part = 1 -> 0 [] loc.part = 2 -> loc.pmu - 1
                    [] OTHER -> Len(pdc.pmus))
         /\ LET c == pdc.pmus[loc.pmu] IN      \* section 2 is FORMAT, 3 is COUNTS
              /\ loc.part = 2 /\ Passed(2) => part.format = c.format
              /\ loc.part = 2 /\ Passed(3) =>
                   part.ph = Len(c.ph) /\ part.an = Len(c.an) /\ part.dg = Words(Len(c.dg))

InfoInv ==
  /\ kind \notin Configurations \/ phase \in {"idle", "reply"} => info = <<>> \/ Agree(Len(pdc.pmus))
  /\ kind = "DATA" => info # <<>>
  /\ kind # "NONE" => request # "NONE"
  /\ phase = "reply" => request \in Configurations \cup {"HDR"}

(* Holds of every reachable state and is preserved by every step: the      *)
(* reader stands where the writer stood, and knows what it wrote there.    *)
CodecInv == TypeOK /\ BufferInv /\ ReadInv /\ InfoInv /\ ReaderInStep /\ NothingRejected

(* The inductive invariant behind ReadBack: an entry holds its item, and   *)
(* the PMU that a configuration has it from passed the writer's test.      *)
Sent(e) ==
  /\ e.more => e.wire = Encode(Sec(e.loc), Item(e.loc), pdc.pmus[e.loc.pmu].format)
  /\ e.loc.part = 2 /\ kind \in Configurations => ~Mismatch(pdc.pmus[e.loc.pmu])

ValueInv ==
  /\ phase \in {"write", "read"} =>
       /\ \A j \in 1..Len(buffer) : Sent(buffer[j])
       /\ kind = "DATA" => sample \in [1..Len(pdc.pmus) -> Feeds]
  /\ phase = "write" /\ loc.part = 2 /\ kind \in Configurations =>
       AtPmu \/ ~Mismatch(pdc.pmus[loc.pmu])
  /\ "CFG3" \in {kind, request} => pdc.version = 2
=============================================================================
