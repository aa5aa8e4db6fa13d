-------------------------- MODULE FrameCodecProofs --------------------------
(***************************************************************************)
(* CodecInv, ReaderInStep and NothingRejected hold for every PDC, with any *)
(* number of PMUs and of channels, every feed and every buffer.            *)
(*                                                                         *)
(* The argument is induction over the steps of both sides.  The entries of *)
(* the buffer are chained: each stands where the one before it led to.  The*)
(* reader, which finds its own way, stands at the entry that is next, since*)
(* it has the counts and formats the writer used: of the frame itself if it*)
(* is a configuration, of info if it is a data frame.                      *)
(***************************************************************************)
EXTENDS FrameCodec, TLAPS

(* Len(Append(buffer, e)) is known of sequences only.                      *)
IInv == CodecInv /\ \E S : buffer \in Seq(S)

LEMMA Appended ==
  ASSUME NEW S, NEW s \in Seq(S), NEW e
  PROVE  /\ Append(s, e) \in Seq(S \cup {e})
         /\ Len(Append(s, e)) = Len(s) + 1
         /\ \A j \in 1..Len(s) : Append(s, e)[j] = s[j]
         /\ Append(s, e)[Len(s) + 1] = e
<1>1. s \in Seq(S \cup {e})
  OBVIOUS
<1>. QED
  BY <1>1

Kinds == {"NONE", "CMD", "HDR", "CFG2", "CFG3", "DATA"}

(***************************************************************************)
(* The layout of the frames.                                               *)
(***************************************************************************)
InLayout(l) == l \in Locs /\ l.part < 4 /\ l.sec <= Len(Sections(kind)[l.part])

LEMMA Layout ==
  ASSUME NEW k \in Kinds
  PROVE  /\ Len(Sections(k)[1]) = IF k = "CFG2" \/ k = "CMD" \/ k = "NONE" THEN 3
              ELSE IF k = "CFG3" THEN 4 ELSE IF k = "HDR" THEN 2 ELSE 1
         /\ Len(Sections(k)[2]) = IF k = "CFG2" THEN 10 ELSE IF k = "CFG3" THEN 11
              ELSE IF k = "DATA" THEN 5 ELSE 0
         /\ Len(Sections(k)[3]) = IF k \in Configurations THEN 2 ELSE 1
         /\ Sections(k)[1][1] = "HEADER"
  BY DEF Kinds, Sections, Configuration, Configuration3, Data, Header, CommandFrame,
         Configurations

(* The sections of the head and of the tail have one item.                 *)
LEMMA Ends ==
  ASSUME kind \in Kinds, NEW l, InLayout(l)
  PROVE  /\ l.part = 1 => Sec(l) \in {"HEADER", "CONT_IDX", "TIME_BASE", "NUM_PMU",
                                      "MESSAGE", "CMD", "EXTFRAME"}
         /\ l.part = 3 => Sec(l) \in {"DATA_RATE", "CHK"}
         /\ l.part = 1 /\ kind \in Configurations =>
              (Sec(l) = "NUM_PMU" <=> l.sec = Len(Sections(kind)[1]))
         /\ l.part = 1 /\ kind = "CMD" =>
              Sec(l) = IF l.sec = 1 THEN "HEADER" ELSE IF l.sec = 2 THEN "CMD" ELSE "EXTFRAME"
         /\ l.part = 1 /\ kind = "HDR" => Sec(l) = IF l.sec = 1 THEN "HEADER" ELSE "MESSAGE"
         /\ l.part = 3 => (Sec(l) = "CHK" <=> l.sec = Len(Sections(kind)[3]))
<1>1. l.part \in 1..4 /\ l.sec \in Nat \ {0}
  BY DEF InLayout, Locs
<1>2. CASE l.part = 1
  <2>1. l.sec \in 1..4 /\ l.sec <= Len(Sections(kind)[1])
    BY <1>1, <1>2, Layout DEF InLayout
  <2>. QED
    BY <1>2, <2>1 DEF Kinds, Sec, Sections, Configuration, Configuration3, Data, Header,
                      CommandFrame, Configurations
<1>3. CASE l.part = 3
  <2>1. l.sec \in 1..2 /\ l.sec <= Len(Sections(kind)[3])
    BY <1>1, <1>3, Layout DEF InLayout, Configurations
  <2>. QED
    BY <1>3, <2>1 DEF Kinds, Sec, Sections, Configuration, Configuration3, Data, Header,
                      CommandFrame, Configurations
<1>. QED
  BY <1>2, <1>3

(* The sections of a PMU.                                                  *)
LEMMA PmuSections ==
  ASSUME kind \in Kinds, NEW l, InLayout(l), l.part = 2
  PROVE  /\ kind \in Configurations \cup {"DATA"}
         /\ kind \in Configurations =>
              /\ Sec(l) = "STN" <=> l.sec = 1
              /\ Sec(l) = "FORMAT" <=> l.sec = 2
              /\ Sec(l) = "COUNTS" <=> l.sec = 3
              /\ Sec(l) \in {"STN", "FORMAT", "COUNTS", "PHNAM", "ANNAM", "DGNAM",
                             "PHUNIT", "ANUNIT", "DIGUNIT", "FNOM", "PLACE"}
         /\ kind = "DATA" => Sec(l) \in {"STAT", "PHASORS", "FREQ", "ANALOG", "DIGITAL"}
<1>0. l.sec \in Nat \ {0} /\ l.sec <= Len(Sections(kind)[2])
  BY DEF InLayout, Locs
<1>1. Len(Sections(kind)[2]) <= 11
  BY Layout
<1>2. l.sec \in 1..11 /\ l.sec <= Len(Sections(kind)[2])
  BY <1>0, <1>1
<1>. QED
  BY <1>2 DEF Kinds, Sec, Sections, Configuration, Configuration3, Data, Header,
              CommandFrame, Configurations

(***************************************************************************)
(* What the constants and the types give.                                  *)
(***************************************************************************)
LEMMA Shorts ==
  ASSUME NEW n \in Short
  PROVE  /\ n \in Nat /\ ToShort(n) = n
         /\ Words(n) \in Short /\ Words(16 * Words(n)) = Words(n)
<1>1. n \in Nat /\ n < 65536
  BY SMT DEF Short
<1>. QED
  BY <1>1, SMT DEF Words, Short, ToShort

LEMMA PdcFacts ==
  ASSUME TypeOK
  PROVE  /\ kind \in Kinds /\ pdc.message \in Nat
         /\ BufferSize \in Short /\ BufferSize \in Nat
         /\ Len(pdc.pmus) \in Short /\ Len(pdc.pmus) \in Nat /\ NumPmu \in Nat
         /\ kind \in Configurations \cup {"DATA"} => NumPmu = Len(pdc.pmus)
         /\ kind \notin Configurations \cup {"DATA"} => NumPmu = 0
  BY CodecAssumption, Shorts DEF TypeOK, Kinds, NumPmu

LEMMA PmuFacts ==
  ASSUME TypeOK, NEW p \in 1..Len(pdc.pmus)
  PROVE  LET c == pdc.pmus[p] IN
         /\ c.stn \in Nat /\ c.format \in [0..3 -> BOOLEAN]
         /\ \A i \in 1..Len(c.ph) : c.ph[i] \in Nat
         /\ \A i \in 1..Len(c.an) : c.an[i] \in Nat
         /\ \A i \in 1..Len(c.dg) : c.dg[i] \in Nat
         /\ Len(c.ph) \in Short /\ Len(c.an) \in Short /\ Len(c.dg) \in Short
         /\ Len(c.ph) \in Nat /\ Len(c.an) \in Nat /\ Len(c.dg) \in Nat
         /\ Words(Len(c.dg)) \in Short /\ Words(Len(c.dg)) \in Nat
<1>1. IsPmu(pdc.pmus[p])
  BY CodecAssumption DEF TypeOK
<1>2. \A n \in Short : n \in Nat /\ Words(n) \in Short
  BY Shorts
<1> DEFINE c == pdc.pmus[p]
<1>3. /\ c.stn \in Nat /\ c.format \in [0..3 -> BOOLEAN]
      /\ c.ph \in Seq(Nat) /\ c.an \in Seq(Nat) /\ c.dg \in Seq(Nat)
      /\ Len(c.ph) \in Short /\ Len(c.an) \in Short /\ Len(c.dg) \in Short
  BY <1>1 DEF IsPmu
<1>4. \A n \in Seq(Nat) : \A i \in 1..Len(n) : n[i] \in Nat
  OBVIOUS
<1> HIDE DEF c
<1>5. /\ \A i \in 1..Len(c.ph) : c.ph[i] \in Nat
      /\ \A i \in 1..Len(c.an) : c.an[i] \in Nat
      /\ \A i \in 1..Len(c.dg) : c.dg[i] \in Nat
  BY <1>3, <1>4
<1>6. /\ Len(c.ph) \in Nat /\ Len(c.an) \in Nat /\ Len(c.dg) \in Nat
      /\ Words(Len(c.dg)) \in Short /\ Words(Len(c.dg)) \in Nat
  BY <1>2, <1>3
<1>. QED
  BY <1>3, <1>5, <1>6 DEF c

(***************************************************************************)
(* The way through a frame.                                                *)
(***************************************************************************)
Placed(l) == InLayout(l) /\ l.pmu <= NumPmu /\ (l.part = 2 <=> l.pmu > 0)

LEMMA PlacedPmu ==
  ASSUME TypeOK, NEW l, Placed(l)
  PROVE  /\ l.part = 2 => l.pmu \in 1..Len(pdc.pmus) /\ kind \in Configurations \cup {"DATA"}
         /\ l \in Locs /\ l.part \in 1..3 /\ l.pmu \in Nat /\ l.sec \in Nat \ {0}
         /\ l.item \in Nat /\ l.sec <= Len(Sections(kind)[l.part])
<1>1. /\ l \in Locs /\ l.part \in 1..3 /\ l.pmu \in Nat /\ l.sec \in Nat \ {0}
      /\ l.item \in Nat /\ l.sec <= Len(Sections(kind)[l.part])
  BY DEF Placed, InLayout, Locs
<1>2. ASSUME l.part = 2
      PROVE  l.pmu \in 1..Len(pdc.pmus) /\ kind \in Configurations \cup {"DATA"}
  <2>1. kind \in Configurations \cup {"DATA"}
    BY <1>2, PdcFacts, PmuSections DEF Placed
  <2>. QED
    BY <1>1, <1>2, <2>1, PdcFacts DEF Placed
<1>. QED
  BY <1>1, <1>2

LEMMA Counts ==
  ASSUME TypeOK, NEW l, Placed(l)
  PROVE  WriteCount(l) \in Nat /\ (l.part # 2 => WriteCount(l) = 1)
<1>1. CASE l.part = 2
  <2> DEFINE c == pdc.pmus[l.pmu]
  <2>1. Len(c.ph) \in Nat /\ Len(c.an) \in Nat /\ Words(Len(c.dg)) \in Nat
    <3>1. l.pmu \in 1..Len(pdc.pmus)
      BY <1>1, PlacedPmu
    <3>. QED
      BY <3>1, PmuFacts
  <2>. QED
    BY <1>1, <2>1 DEF WriteCount
<1>2. CASE l.part # 2
  <2>1. Sec(l) \in {"HEADER", "CONT_IDX", "TIME_BASE", "NUM_PMU", "MESSAGE", "CMD", "EXTFRAME",
                    "DATA_RATE", "CHK"}
    <3>1. InLayout(l) /\ kind \in Kinds /\ (l.part = 1 \/ l.part = 3)
      BY <1>2, PlacedPmu, PdcFacts DEF Placed
    <3>. QED
      BY <3>1, Ends
  <2>. QED
    BY <1>2, <2>1 DEF WriteCount
<1>. QED
  BY <1>1, <1>2

LEMMA Along ==
  ASSUME TypeOK, NEW l, Placed(l)
  PROVE  /\ Placed(NextItem(l)) /\ Sec(NextItem(l)) = Sec(l)
         /\ WriteCount(NextItem(l)) = WriteCount(l)
         /\ NextItem(l).part = l.part /\ NextItem(l).pmu = l.pmu /\ NextItem(l).sec = l.sec
         /\ NextItem(l).item = l.item + 1
<1>1. /\ NextItem(l) \in Locs /\ NextItem(l).item = l.item + 1
      /\ NextItem(l).part = l.part /\ NextItem(l).pmu = l.pmu /\ NextItem(l).sec = l.sec
  BY PlacedPmu DEF NextItem, Locs
<1>2. Sec(NextItem(l)) = Sec(l)
  BY <1>1 DEF Sec
<1>. QED
  BY <1>1, <1>2 DEF Placed, InLayout, WriteCount

LEMMA Onward ==
  ASSUME TypeOK, NEW l, Placed(l)
  PROVE  LET f == Following(l, NumPmu) IN
         /\ f \in Locs /\ f.item = 0
         /\ f.part # 4 => Placed(f) /\ 0 <= WriteCount(f)
         /\ f.part = 4 <=> l.part = 3 /\ l.sec = Len(Sections(kind)[3])
<1>1. kind \in Kinds /\ NumPmu \in Nat
  BY PdcFacts
<1>2. CASE l.sec < Len(Sections(kind)[l.part])
  <2>1. Following(l, NumPmu)
          = [part |-> l.part, pmu |-> l.pmu, sec |-> l.sec + 1, item |-> 0]
    BY <1>2 DEF Following
  <2>2. /\ Following(l, NumPmu) \in Locs /\ Following(l, NumPmu).item = 0
        /\ Following(l, NumPmu).part = l.part /\ Following(l, NumPmu).pmu = l.pmu
        /\ Following(l, NumPmu).sec = l.sec + 1
    <3>1. l \in [part : 1..4, pmu : Nat, sec : Nat \ {0}, item : Nat]
      BY PlacedPmu DEF Locs
    <3>2. l.sec + 1 \in Nat \ {0}
      BY <3>1
    <3>. QED
      BY <2>1, <3>1, <3>2 DEF Locs
  <2>3. Len(Sections(kind)[l.part]) \in Nat
    BY <1>1, PlacedPmu, Layout
  <2>4. Placed(Following(l, NumPmu))
    BY <1>2, <2>2, <2>3, PlacedPmu DEF Placed, InLayout
  <2>. QED
    BY <1>2, <2>2, <2>3, <2>4, PlacedPmu, Counts
<1>3. CASE ~(l.sec < Len(Sections(kind)[l.part])) /\ l.part < 3 /\ l.pmu < NumPmu
  <2>1. Following(l, NumPmu) = [part |-> 2, pmu |-> l.pmu + 1, sec |-> 1, item |-> 0]
    BY <1>3 DEF Following
  <2>2. Following(l, NumPmu) \in Locs
    BY <2>1, PlacedPmu DEF Locs
  <2>3. 1 <= Len(Sections(kind)[2])
    BY <1>1, <1>3, Layout, PlacedPmu, PdcFacts DEF Configurations
  <2>4. Placed(Following(l, NumPmu))
    BY <1>1, <1>3, <2>1, <2>2, <2>3, PlacedPmu DEF Placed, InLayout
  <2>. QED
    BY <1>3, <2>1, <2>2, <2>4, PlacedPmu, Counts
<1>4. CASE ~(l.sec < Len(Sections(kind)[l.part])) /\ l.part < 3 /\ ~(l.pmu < NumPmu)
  <2>1. Following(l, NumPmu) = [part |-> 3, pmu |-> 0, sec |-> 1, item |-> 0]
    BY <1>4 DEF Following
  <2>2. Following(l, NumPmu) \in Locs
    BY <2>1 DEF Locs
  <2>3. 1 <= Len(Sections(kind)[3])
    BY <1>1, Layout
  <2>4. Placed(Following(l, NumPmu))
    BY <1>1, <2>1, <2>2, <2>3 DEF Placed, InLayout
  <2>. QED
    BY <1>4, <2>1, <2>2, <2>4, Counts
<1>5. CASE ~(l.sec < Len(Sections(kind)[l.part])) /\ ~(l.part < 3)
  <2>1. Following(l, NumPmu) = [part |-> 4, pmu |-> 0, sec |-> 1, item |-> 0]
    BY <1>5 DEF Following
  <2>2. l.part = 3 /\ l.sec = Len(Sections(kind)[3])
    BY <1>1, <1>5, Layout, PlacedPmu
  <2>. QED
    BY <2>1, <2>2 DEF Locs
<1>. QED
  BY <1>2, <1>3, <1>4, <1>5

LEMMA Starting ==
  ASSUME TypeOK, kind # "NONE"
  PROVE  Placed(Start) /\ Start \in Locs /\ Start.part = 1 /\ Start.item = 0
<1>1. Start \in Locs
  BY DEF Start, Locs
<1>2. 1 <= Len(Sections(kind)[1])
  BY Layout, PdcFacts
<1>. QED
  BY <1>1, <1>2, PdcFacts DEF Start, Placed, InLayout

(* A name has a natural number of characters.                              *)
LEMMA NameLengths ==
  ASSUME TypeOK, NEW l, Placed(l), l.item < WriteCount(l), Sec(l) \in Names
  PROVE  Name(l) \in Nat
<1> DEFINE c == pdc.pmus[l.pmu]
<1>1. l.part = 2
  <2>1. InLayout(l) /\ kind \in Kinds /\ l.part \in 1..3
    BY PlacedPmu, PdcFacts DEF Placed
  <2>. QED
    BY <2>1, Ends DEF Names
<1>2. l.pmu \in 1..Len(pdc.pmus) /\ l.item \in Nat
  BY <1>1, PlacedPmu
<1>3. /\ c.stn \in Nat
      /\ Len(c.ph) \in Nat /\ Len(c.an) \in Nat /\ Len(c.dg) \in Nat
      /\ \A i \in 1..Len(c.ph) : c.ph[i] \in Nat
      /\ \A i \in 1..Len(c.an) : c.an[i] \in Nat
      /\ \A i \in 1..Len(c.dg) : c.dg[i] \in Nat
  BY <1>2, PmuFacts
<1>4. CASE Sec(l) = "STN"
  BY <1>3, <1>4 DEF Name
<1>5. CASE Sec(l) = "PHNAM"
  <2>1. l.item + 1 \in 1..Len(c.ph)
    BY <1>2, <1>3, <1>5 DEF WriteCount
  <2>. QED
    BY <1>3, <1>5, <2>1 DEF Name
<1>6. CASE Sec(l) = "ANNAM"
  <2>1. l.item + 1 \in 1..Len(c.an)
    BY <1>2, <1>3, <1>6 DEF WriteCount
  <2>. QED
    BY <1>3, <1>6, <2>1 DEF Name
<1>7. CASE Sec(l) = "DGNAM"
  <2>1. Name(l) = IF l.item + 1 <= Len(c.dg) THEN c.dg[l.item + 1] ELSE 0
    BY <1>7 DEF Name
  <2>2. l.item + 1 <= Len(c.dg) => l.item + 1 \in 1..Len(c.dg)
    BY <1>2, <1>3
  <2>. QED
    BY <1>3, <2>1, <2>2
<1>. QED
  BY <1>4, <1>5, <1>6, <1>7 DEF Names

(* An item has a natural number of bytes.                                  *)
LEMMA Bytes ==
  ASSUME TypeOK, NEW l, Placed(l), l.item < WriteCount(l)
  PROVE  WriteBytes(l) \in Nat
<1>1. \A s, f : Width(s, f) \in Nat
  BY DEF Width
<1>2. CASE kind = "CFG3" /\ Sec(l) \in Names
  <2>1. WriteBytes(l) = 1 + Name(l)
    BY <1>2 DEF WriteBytes, Names
  <2>. QED
    BY <1>2, <2>1, NameLengths
<1>3. CASE ~(kind = "CFG3" /\ Sec(l) \in Names)
  BY <1>1, <1>3, PdcFacts DEF WriteBytes
<1>. QED
  BY <1>2, <1>3

(***************************************************************************)
(* What a step that leaves the PDC and the kind of frame leaves.           *)
(***************************************************************************)
LEMMA Same ==
  ASSUME kind' = kind, pdc' = pdc
  PROVE  /\ NumPmu' = NumPmu /\ (LongName' <=> LongName)
         /\ \A l : /\ Sec(l)' = Sec(l) /\ WriteCount(l)' = WriteCount(l)
                   /\ WriteBytes(l)' = WriteBytes(l)
                   /\ Placed(l)' <=> Placed(l)
                   /\ InFrame(l)' <=> InFrame(l)
                   /\ Following(l, NumPmu)' = Following(l, NumPmu)
                   /\ SizeAt(l)' = SizeAt(l)
         /\ \A e : (IsWritten(e)' <=> IsWritten(e)) /\ After(e)' = After(e)
<1>1. NumPmu' = NumPmu /\ (LongName' <=> LongName)
  BY DEF NumPmu, LongName
<1>2. ASSUME NEW l
      PROVE  Sec(l)' = Sec(l) /\ Following(l, NumPmu)' = Following(l, NumPmu)
  BY <1>1 DEF Sec, Following
<1>3. ASSUME NEW l
      PROVE  WriteCount(l)' = WriteCount(l) /\ Name(l)' = Name(l)
  BY <1>2 DEF WriteCount, Name
<1>4. ASSUME NEW s, NEW f
      PROVE  Width(s, f)' = Width(s, f)
  BY DEF Width
<1>5. ASSUME NEW l
      PROVE  WriteBytes(l)' = WriteBytes(l)
  BY <1>2, <1>3, <1>4 DEF WriteBytes
<1>6. ASSUME NEW l
      PROVE  (Placed(l)' <=> Placed(l)) /\ (InFrame(l)' <=> InFrame(l))
  BY <1>1, <1>3 DEF Placed, InLayout, InFrame
<1>7. ASSUME NEW l
      PROVE  SizeAt(l)' = SizeAt(l)
  BY DEF SizeAt
<1>8. ASSUME NEW e
      PROVE  (IsWritten(e)' <=> IsWritten(e)) /\ After(e)' = After(e)
  <2>1. WireOK(e.loc, e.wire)' <=> WireOK(e.loc, e.wire)
    BY <1>1, <1>2, <1>3 DEF WireOK
  <2>2. IsWritten(e)' <=> IsWritten(e)
    BY <1>3, <1>5, <1>6, <2>1 DEF IsWritten
  <2>3. After(e)' = After(e)
    BY <1>2 DEF After
  <2>. QED
    BY <2>2, <2>3
<1>. QED
  BY <1>1, <1>2, <1>3, <1>5, <1>6, <1>7, <1>8
LEMMA LongNames ==
  ASSUME kind = "CFG3", NEW p \in 1..Len(pdc.pmus)
  PROVE  LET c == pdc.pmus[p] IN
         /\ \A i \in 1..Len(c.ph) : c.ph[i] > 255 => LongName
         /\ \A i \in 1..Len(c.an) : c.an[i] > 255 => LongName
         /\ \A i \in 1..Len(c.dg) : c.dg[i] > 255 => LongName
<1>1. ASSUME NEW n \in {pdc.pmus[p].ph, pdc.pmus[p].an, pdc.pmus[p].dg},
             NEW i \in 1..Len(n), n[i] > 255
      PROVE  LongName
  BY <1>1 DEF LongName
<1>2. \A n \in {pdc.pmus[p].ph, pdc.pmus[p].an, pdc.pmus[p].dg} :
        \A i \in 1..Len(n) : n[i] > 255 => LongName
  BY <1>1
<1>. QED
  BY <1>2

(***************************************************************************)
(* Writing.                                                                *)
(***************************************************************************)
LEMMA AtTheWriter ==
  ASSUME TypeOK, BufferInv, phase = "write"
  PROVE  /\ Placed(loc) /\ loc.item <= WriteCount(loc) /\ InFrame(loc) /\ loc \in Locs
         /\ loc.item \in Nat /\ WriteCount(loc) \in Nat
<1>1. loc \in Locs /\ InFrame(loc)
  BY DEF TypeOK, BufferInv
<1>2. Placed(loc)
  BY <1>1 DEF InFrame, Placed, InLayout
<1>. QED
  BY <1>1, <1>2, PlacedPmu, Counts DEF InFrame

(* The buffer after one more entry.                                        *)
LEMMA Grow ==
  ASSUME TypeOK, BufferInv, phase = "write", NEW S, buffer \in Seq(S),
         NEW e, IsWritten(e), e.loc = loc, e.at = size,
         kind' = kind, pdc' = pdc, buffer' = Append(buffer, e), size' = size + e.bytes
  PROVE  /\ Chained' /\ (\A j \in 1..Len(buffer) : IsWritten(buffer[j]))'
         /\ Written' = After(e) /\ \E T : buffer' \in Seq(T)
<1> DEFINE n == Len(buffer)
<1>1. /\ buffer' \in Seq(S \cup {e}) /\ Len(buffer') = n + 1 /\ buffer' # <<>>
      /\ \A j \in 1..n : buffer'[j] = buffer[j]
      /\ buffer'[n + 1] = e /\ n \in Nat
  BY Appended
<1>2. \A x : (IsWritten(x)' <=> IsWritten(x)) /\ After(x)' = After(x)
  BY Same
<1>3. /\ Chained /\ (\A j \in 1..n : IsWritten(buffer[j])) /\ loc = Written
  BY DEF BufferInv
<1>4. (\A j \in 1..Len(buffer) : IsWritten(buffer[j]))'
  BY <1>1, <1>2, <1>3
<1>5. Written' = After(e)
  BY <1>1, <1>2 DEF Written
<1>6. ASSUME NEW j \in 1..n
      PROVE  /\ buffer'[j + 1].loc = After(buffer'[j])
             /\ buffer'[j + 1].at = buffer'[j].at + buffer'[j].bytes
  <2>1. CASE j = n
    <3>1. buffer # <<>> /\ buffer'[j + 1] = e /\ buffer'[j] = buffer[n]
      BY <1>1, <2>1
    <3>2. loc = After(buffer[n]) /\ size = buffer[n].at + buffer[n].bytes
      BY <1>3, <3>1 DEF Written, Chained
    <3>. QED
      BY <3>1, <3>2
  <2>2. CASE j < n
    <3>1. j \in 1..n - 1 /\ j + 1 \in 1..n
      BY <1>1, <2>2
    <3>. QED
      BY <1>1, <1>3, <3>1 DEF Chained
  <2>. QED
    BY <1>1, <2>1, <2>2
<1>7. buffer'[1].loc = Start /\ buffer'[1].at = 0
  <2>1. CASE n = 0
    <3>1. buffer = <<>> /\ buffer'[1] = e
      BY <1>1, <2>1
    <3>. QED
      BY <1>3, <3>1 DEF Chained, Written
  <2>2. CASE n # 0
    BY <1>1, <1>3, <2>2 DEF Chained
  <2>. QED
    BY <2>1, <2>2
<1>8. size' = buffer'[n + 1].at + buffer'[n + 1].bytes
  BY <1>1
<1>9. Chained'
  <2>1. Len(buffer') - 1 = n
    BY <1>1
  <2>2. (\A j \in 1..Len(buffer) - 1 :
          /\ buffer[j + 1].loc = After(buffer[j])
          /\ buffer[j + 1].at = buffer[j].at + buffer[j].bytes)'
    BY <1>2, <1>6, <2>1
  <2>. QED
    BY <1>1, <1>7, <1>8, <2>2 DEF Chained
<1>. QED
  BY <1>1, <1>4, <1>5, <1>9

(* What the writer writes is what the reader needs.                        *)
LEMMA Wire ==
  ASSUME TypeOK, Placed(loc), loc.item < WriteCount(loc),
         AtPmu /\ kind \in Configurations => ~Mismatch(pdc.pmus[loc.pmu])
  PROVE  WireOK(loc, Encode(Sec(loc), Item(loc), pdc.pmus[loc.pmu].format))
<1> DEFINE c == pdc.pmus[loc.pmu]
           w == Encode(Sec(loc), Item(loc), c.format)
<1>1. Sec(loc) = "NUM_PMU" => w = Len(pdc.pmus)
  <2>1. Sec(loc) = "NUM_PMU" => w = ToShort(Len(pdc.pmus))
    BY DEF Encode, Item, Names
  <2>. QED
    BY <2>1, PdcFacts, Shorts
<1>2. Sec(loc) = "FORMAT" => w = {b \in 0..3 : c.format[b]}
  BY DEF Encode, Item, Names
<1>3. Sec(loc) = "COUNTS" => w = <<Len(c.ph), Len(c.an), Words(Len(c.dg))>>
  <2>0. SUFFICES ASSUME Sec(loc) = "COUNTS"
                 PROVE  w = <<Len(c.ph), Len(c.an), Words(Len(c.dg))>>
    OBVIOUS
  <2>1. Item(loc) = <<Len(c.ph), Len(c.an), Words(Len(c.dg))>>
    BY <2>0 DEF Item, Names
  <2>2. w = <<ToShort(Len(c.ph)), ToShort(Len(c.an)), ToShort(Words(Len(c.dg)))>>
    BY <2>0, <2>1 DEF Encode, Names
  <2>3. loc.part = 2
    BY <2>0, Ends, PlacedPmu, PdcFacts DEF Placed
  <2>4. /\ Len(c.ph) \in Short /\ Len(c.an) \in Short /\ Words(Len(c.dg)) \in Short
    BY <2>3, PlacedPmu, PmuFacts
  <2>. QED
    BY <2>2, <2>4, Shorts
<1>4. kind = "CFG3" /\ Sec(loc) \in Names => w = Name(loc) \/ LongName
  <2>0. SUFFICES ASSUME kind = "CFG3", Sec(loc) \in Names
                 PROVE  w = Name(loc) \/ LongName
    OBVIOUS
  <2>1. w = Name(loc) % 256
    <3>1. Item(loc) = Name(loc)
      BY <2>0 DEF Item, Names
    <3>. QED
      BY <2>0, <3>1 DEF Encode, Names
  <2>2. loc.part = 2 /\ loc.pmu \in 1..Len(pdc.pmus) /\ loc.item \in Nat
    BY <2>0, PlacedPmu, Ends, PdcFacts DEF Names, Placed
  <2>3. /\ c.stn \in Nat
        /\ Len(c.ph) \in Nat /\ Len(c.an) \in Nat /\ Len(c.dg) \in Nat
        /\ \A i \in 1..Len(c.ph) : c.ph[i] \in Nat
        /\ \A i \in 1..Len(c.an) : c.an[i] \in Nat
        /\ \A i \in 1..Len(c.dg) : c.dg[i] \in Nat
    BY <2>2, PmuFacts
  <2>4. /\ \A i \in 1..Len(c.ph) : c.ph[i] > 255 => LongName
        /\ \A i \in 1..Len(c.an) : c.an[i] > 255 => LongName
        /\ \A i \in 1..Len(c.dg) : c.dg[i] > 255 => LongName
    BY <2>0, <2>2, LongNames
  <2>5. Name(loc) \in Nat /\ (Name(loc) <= 255 \/ LongName)
    <3>1. CASE Sec(loc) = "STN"
      <4>1. AtPmu
        <5>1. loc.sec = 1
          BY <2>0, <2>2, <3>1, PmuSections, PdcFacts DEF Placed, Configurations
        <5>2. loc.item < 1
          BY <3>1 DEF WriteCount
        <5>. QED
          BY <2>2, <5>1, <5>2 DEF AtPmu
      <4>2. ~(c.stn > 255)
        BY <2>0, <4>1 DEF Mismatch, Configurations
      <4>3. Name(loc) = c.stn
        BY <3>1 DEF Name
      <4>. QED
        BY <2>3, <4>2, <4>3
    <3>2. CASE Sec(loc) = "PHNAM"
      <4>1. loc.item + 1 \in 1..Len(c.ph)
        BY <2>2, <2>3, <3>2 DEF WriteCount
      <4>2. Name(loc) = c.ph[loc.item + 1]
        BY <3>2 DEF Name
      <4>3. Name(loc) \in Nat
        BY <2>3, <4>1, <4>2
      <4>4. Name(loc) > 255 => LongName
        BY <2>4, <4>1, <4>2
      <4>. QED
        BY <4>3, <4>4
    <3>3. CASE Sec(loc) = "ANNAM"
      <4>1. loc.item + 1 \in 1..Len(c.an)
        BY <2>2, <2>3, <3>3 DEF WriteCount
      <4>2. Name(loc) = c.an[loc.item + 1]
        BY <3>3 DEF Name
      <4>3. Name(loc) \in Nat
        BY <2>3, <4>1, <4>2
      <4>4. Name(loc) > 255 => LongName
        BY <2>4, <4>1, <4>2
      <4>. QED
        BY <4>3, <4>4
    <3>4. CASE Sec(loc) = "DGNAM"
      <4>1. Name(loc) = IF loc.item + 1 <= Len(c.dg) THEN c.dg[loc.item + 1] ELSE 0
        BY <3>4 DEF Name
      <4>2. CASE loc.item + 1 <= Len(c.dg)
        <5>1. loc.item + 1 \in 1..Len(c.dg) /\ Name(loc) = c.dg[loc.item + 1]
          BY <2>2, <2>3, <4>1, <4>2
        <5>2. Name(loc) \in Nat
          BY <2>3, <5>1
        <5>3. Name(loc) > 255 => LongName
          BY <2>4, <5>1
        <5>. QED
          BY <5>2, <5>3
      <4>3. CASE ~(loc.item + 1 <= Len(c.dg))
        BY <4>1, <4>3
      <4>. QED
        BY <4>2, <4>3
    <3>. QED
      BY <2>0, <3>1, <3>2, <3>3, <3>4 DEF Names
  <2>. QED
    BY <2>1, <2>5
<1>. QED
  BY <1>1, <1>2, <1>3, <1>4 DEF WireOK
(***************************************************************************)
(* Every step preserves the invariant.                                     *)
(***************************************************************************)
LEMMA BeginStep ==
  ASSUME IInv, NEW k \in Kinds \ {"NONE"}, Begin(k),
         request' \in Configurations \cup {"HDR", "RTD"},
         phase \in {"idle", "reply"}, k = "DATA" => info # <<>>
  PROVE  IInv'
<1>1. /\ TypeOK /\ kind' = k /\ phase' = "write" /\ loc' = Start /\ buffer' = <<>> /\ size' = 0
      /\ pdc' = pdc /\ frameSize' = frameSize /\ taken' = taken /\ offset' = offset
      /\ count' = count /\ part' = part /\ info' = info
  BY DEF IInv, CodecInv, Begin, readVars
<1>2. Start \in Locs
  BY DEF Start, Locs
<1>3. TypeOK'
  BY <1>1, <1>2 DEF TypeOK, Kinds, Configurations
<1>4. InFrame(Start)' /\ Sec(Start)' = "HEADER"
  <2>1. /\ Len(Sections(k)[1]) \in Nat /\ 1 <= Len(Sections(k)[1])
        /\ Sections(k)[1][1] = "HEADER"
    BY Layout
  <2>2. Sec(Start)' = "HEADER"
    BY <1>1, <2>1 DEF Sec, Start
  <2>3. WriteCount(Start)' = 1
    BY <2>2 DEF WriteCount
  <2>4. NumPmu' \in Nat
    BY <1>1, PdcFacts DEF NumPmu
  <2>. QED
    BY <1>1, <2>1, <2>2, <2>3, <2>4 DEF InFrame, Start
<1>5. BufferInv'
  <2>1. Chained' /\ (\A j \in 1..Len(buffer) : IsWritten(buffer[j]))'
    BY <1>1 DEF Chained
  <2>2. Written' = Start /\ SizeAt(Start)' = 0
    BY <1>1 DEF Written, SizeAt, Start
  <2>3. size' <= BufferSize /\ kind' # "NONE"
    BY <1>1, PdcFacts
  <2>. QED
    BY <1>1, <1>4, <2>1, <2>2, <2>3 DEF BufferInv
<1>6. InfoInv'
  <2>1. info = <<>> \/ Agree(Len(pdc.pmus))
    BY DEF IInv, CodecInv, InfoInv
  <2>2. (info = <<>> \/ Agree(Len(pdc.pmus)))'
    BY <1>1, <2>1 DEF Agree
  <2>. QED
    BY <1>1, <2>2 DEF InfoInv, Configurations
<1>7. ReadInv' /\ ReaderInStep' /\ NothingRejected'
  BY <1>1 DEF ReadInv, ReaderInStep, NothingRejected
<1>8. \E S : buffer' \in Seq(S)
  BY <1>1
<1>. QED
  BY <1>3, <1>5, <1>6, <1>7, <1>8 DEF IInv, CodecInv

LEMMA RefuseStep ==
  ASSUME IInv, Refuse
  PROVE  IInv'
<1>1. /\ phase' = "refused" /\ kind' = kind /\ pdc' = pdc /\ request' = request /\ loc' = loc
      /\ buffer' = buffer /\ size' = size /\ frameSize' = frameSize /\ taken' = taken
      /\ count' = count /\ part' = part /\ info' = info
  BY DEF Refuse, writeVars, readVars
<1>. QED
  BY <1>1 DEF IInv, CodecInv, TypeOK, BufferInv, ReadInv, InfoInv, ReaderInStep, NothingRejected,
              Agree

LEMMA WriteStep ==
  ASSUME IInv, WriteItem
  PROVE  IInv'
<1>1. /\ TypeOK /\ BufferInv /\ InfoInv /\ phase = "write"
      /\ loc.item < WriteCount(loc)
      /\ AtPmu /\ kind \in Configurations => ~Mismatch(pdc.pmus[loc.pmu])
      /\ pdc' = pdc /\ kind' = kind /\ request' = request /\ taken' = taken
      /\ count' = count /\ part' = part /\ info' = info
  BY DEF IInv, CodecInv, WriteItem, writeVars, readVars
<1>2. InfoInv'
  <2>1. phase' \in {"write", "overflow"}
    BY <1>1 DEF WriteItem
  <2>. QED
    BY <1>1, <2>1 DEF InfoInv, Agree
<1>3. CASE size + WriteBytes(loc) > BufferSize
  <2>1. /\ phase' = "overflow" /\ loc' = loc /\ buffer' = buffer /\ size' = size
        /\ frameSize' = frameSize
    BY <1>3 DEF WriteItem
  <2>. QED
    BY <1>1, <1>2, <2>1 DEF IInv, CodecInv, TypeOK, BufferInv, ReadInv, ReaderInStep,
                            NothingRejected
<1>4. CASE ~(size + WriteBytes(loc) > BufferSize)
  <2> DEFINE e == Entry(TRUE, WriteBytes(loc),
                        Encode(Sec(loc), Item(loc), pdc.pmus[loc.pmu].format))
  <2>1. /\ buffer' = Append(buffer, e) /\ size' = size + WriteBytes(loc)
        /\ loc' = NextItem(loc) /\ phase' = phase
        /\ frameSize' = IF Sec(loc) = "CHK" THEN FooterSize ELSE frameSize
    BY <1>4 DEF WriteItem
  <2>2. /\ Placed(loc) /\ loc.item \in Nat /\ InFrame(loc) /\ loc \in Locs
        /\ WriteCount(loc) \in Nat
    BY <1>1, AtTheWriter
  <2>3. WriteBytes(loc) \in Nat /\ size \in Nat
    BY <1>1, <2>2, Bytes DEF TypeOK
  <2>4. /\ e.loc = loc /\ e.at = size /\ e.more = TRUE /\ e.bytes = WriteBytes(loc)
        /\ e.wire = Encode(Sec(loc), Item(loc), pdc.pmus[loc.pmu].format)
    BY DEF Entry
  <2>5. IsWritten(e)
    <3>1. WireOK(loc, e.wire)
      BY <1>1, <2>2, <2>4, Wire
    <3> HIDE DEF e
    <3>. QED
      BY <1>1, <2>2, <2>3, <2>4, <3>1 DEF IsWritten
  <2> HIDE DEF e
  <2>6. /\ Chained' /\ (\A j \in 1..Len(buffer) : IsWritten(buffer[j]))'
        /\ Written' = After(e) /\ \E T : buffer' \in Seq(T)
    <3>1. PICK S : buffer \in Seq(S)
      BY DEF IInv
    <3>2. size' = size + e.bytes
      BY <2>1, <2>4
    <3>. QED
      BY <1>1, <2>1, <2>4, <2>5, <3>1, <3>2, Grow
  <2>7. /\ NextItem(loc) \in Locs /\ NextItem(loc).item = loc.item + 1
        /\ WriteCount(NextItem(loc)) = WriteCount(loc) /\ InFrame(NextItem(loc))
        /\ Sec(NextItem(loc)) = Sec(loc) /\ NextItem(loc).part = loc.part
        /\ NextItem(loc).sec = loc.sec
    <3>1. /\ Placed(NextItem(loc)) /\ WriteCount(NextItem(loc)) = WriteCount(loc)
          /\ NextItem(loc).item = loc.item + 1
          /\ Sec(NextItem(loc)) = Sec(loc) /\ NextItem(loc).part = loc.part
          /\ NextItem(loc).sec = loc.sec
      BY <1>1, <2>2, Along
    <3>. QED
      BY <1>1, <2>2, <3>1 DEF Placed, InLayout, InFrame
  <2>8. Written' = NextItem(loc) /\ loc' = Written' /\ InFrame(loc)'
    BY <1>1, <2>1, <2>4, <2>6, <2>7, Same DEF After
  <2>9. size' \in Nat /\ size' <= BufferSize
    BY <1>4, <2>1, <2>3, PdcFacts, <1>1
  <2>10. Sec(loc) = "CHK" => frameSize' = size' /\ WriteBytes(loc) = 2
    <3>0. SUFFICES ASSUME Sec(loc) = "CHK"
                   PROVE  frameSize' = size' /\ WriteBytes(loc) = 2
      OBVIOUS
    <3>1. WriteBytes(loc) = 2
      BY <3>0 DEF WriteBytes, Names, Width
    <3>2. size + 2 \in Short
      BY <1>1, <2>1, <2>9, <3>1, PdcFacts DEF Short
    <3>. QED
      BY <2>1, <3>0, <3>1, <3>2, Shorts DEF FooterSize
  <2>11. frameSize' \in Nat
    <3>1. CASE Sec(loc) = "CHK"
      BY <2>9, <2>10, <3>1
    <3>2. CASE Sec(loc) # "CHK"
      BY <1>1, <2>1, <3>2 DEF TypeOK
    <3>. QED
      BY <3>1, <3>2
  <2>12. TypeOK'
    BY <1>1, <2>1, <2>7, <2>9, <2>11 DEF TypeOK
  <2>13. Sec(loc)' = "CHK" => frameSize' = size'
    BY <1>1, <2>1, <2>7, <2>10, Same
  <2>14. kind \in {"CMD", "HDR"} => size' = SizeAt(Written)'
    <3>0. SUFFICES ASSUME kind \in {"CMD", "HDR"}
                   PROVE  size' = SizeAt(NextItem(loc))
      BY <1>1, <2>8, Same
    <3>1. size = SizeAt(loc)
      BY <1>1, <3>0 DEF BufferInv
    <3>2. loc.part \in {1, 3} /\ pdc.message \in Nat /\ kind \in Kinds
      BY <1>1, <2>2, <3>0, PlacedPmu, PdcFacts DEF Configurations
    <3>3. loc.item = 0
      BY <1>1, <2>2, <3>2, Counts
    <3>4. CASE loc.part = 1
      <4>1. /\ loc.sec \in 1..3 /\ (kind = "HDR" => loc.sec \in 1..2)
            /\ Sec(loc) = IF loc.sec = 1 THEN "HEADER"
                          ELSE IF kind = "HDR" THEN "MESSAGE"
                          ELSE IF loc.sec = 2 THEN "CMD" ELSE "EXTFRAME"
        <5>1. loc.sec \in Nat \ {0} /\ loc.sec <= Len(Sections(kind)[1])
          BY <1>1, <2>2, <3>4, PlacedPmu
        <5>2. loc.sec \in 1..3 /\ (kind = "HDR" => loc.sec \in 1..2)
          BY <3>0, <3>2, <5>1, Layout
        <5>. QED
          BY <2>2, <3>0, <3>2, <3>4, <5>2, Ends DEF Placed
      <4>2. WriteBytes(loc) = IF loc.sec = 1 THEN 14
                              ELSE IF kind = "HDR" THEN pdc.message
                              ELSE IF loc.sec = 2 THEN 2 ELSE 0
        BY <3>0, <4>1 DEF WriteBytes, Width, Names
      <4>. QED
        BY <2>1, <2>7, <3>0, <3>1, <3>2, <3>3, <3>4, <4>1, <4>2 DEF SizeAt
    <3>5. CASE loc.part = 3
      <4>1. Sec(loc) = "CHK"
        BY <2>2, <3>0, <3>2, <3>5, Ends, Layout, PlacedPmu, <1>1 DEF Placed, Configurations
      <4>2. WriteBytes(loc) = 2
        BY <2>10, <4>1
      <4>. QED
        BY <2>1, <2>7, <3>0, <3>1, <3>2, <3>3, <3>5, <4>2 DEF SizeAt
    <3>. QED
      BY <3>2, <3>4, <3>5
  <2>15. BufferInv'
    BY <1>1, <2>1, <2>6, <2>8, <2>9, <2>13, <2>14 DEF BufferInv
  <2>16. ReadInv' /\ ReaderInStep' /\ NothingRejected'
    BY <1>1, <2>1 DEF ReadInv, ReaderInStep, NothingRejected
  <2>. QED
    BY <1>2, <2>6, <2>12, <2>15, <2>16 DEF IInv, CodecInv
<1>. QED
  BY <1>3, <1>4
LEMMA SizeBetween ==
  ASSUME TypeOK, NEW l, Placed(l), kind \in {"CMD", "HDR"}, l.item = 1
  PROVE  SizeAt(Following(l, NumPmu)) = SizeAt(l)
<1>1. NumPmu = 0 /\ pdc.message \in Nat /\ kind \in Kinds
  BY PdcFacts DEF Configurations
<1>2. /\ l.part \in {1, 3} /\ l.pmu = 0 /\ l.sec \in Nat \ {0}
      /\ l.sec <= Len(Sections(kind)[l.part])
  BY <1>1, PlacedPmu DEF Placed, Configurations
<1>3. CASE l.sec < Len(Sections(kind)[l.part])
  <2>1. l.part = 1 /\ l.sec \in 1..2 /\ (kind = "HDR" => l.sec = 1)
    BY <1>1, <1>2, <1>3, Layout DEF Configurations
  <2>2. Following(l, NumPmu) = [part |-> 1, pmu |-> 0, sec |-> l.sec + 1, item |-> 0]
    BY <1>2, <1>3, <2>1 DEF Following
  <2>. QED
    BY <1>1, <2>1, <2>2 DEF SizeAt
<1>4. CASE ~(l.sec < Len(Sections(kind)[l.part]))
  <2>1. Following(l, NumPmu)
          = [part |-> IF l.part < 3 THEN 3 ELSE 4, pmu |-> 0, sec |-> 1, item |-> 0]
    BY <1>1, <1>2, <1>4 DEF Following
  <2>2. l.part = 1 => l.sec = IF kind = "HDR" THEN 2 ELSE 3
    BY <1>1, <1>2, <1>4, Layout
  <2>3. l.part = 3 => l.sec = 1
    BY <1>1, <1>2, <1>4, Layout DEF Configurations
  <2>. QED
    BY <1>1, <1>2, <2>1, <2>2, <2>3 DEF SizeAt
<1>. QED
  BY <1>3, <1>4

LEMMA LeaveWriteStep ==
  ASSUME IInv, LeaveWrite
  PROVE  IInv'
<1> DEFINE e == Entry(FALSE, 0, 0)
           next == Following(loc, NumPmu)
<1>1. /\ TypeOK /\ BufferInv /\ InfoInv /\ phase = "write" /\ loc.item = WriteCount(loc)
      /\ buffer' = Append(buffer, e) /\ pdc' = pdc /\ kind' = kind /\ request' = request
      /\ size' = size /\ frameSize' = frameSize
      /\ size \in Nat
  BY DEF IInv, CodecInv, LeaveWrite, writeVars, TypeOK
<1>2. /\ Placed(loc) /\ loc.item \in Nat /\ InFrame(loc) /\ loc \in Locs
      /\ WriteCount(loc) \in Nat
  BY <1>1, AtTheWriter
<1>3. /\ e.loc = loc /\ e.at = size /\ e.more = FALSE /\ e.bytes = 0
  BY DEF Entry
<1> HIDE DEF e
<1>4. IsWritten(e)
  BY <1>1, <1>2, <1>3 DEF IsWritten
<1>5. /\ Chained' /\ (\A j \in 1..Len(buffer) : IsWritten(buffer[j]))'
      /\ Written' = After(e) /\ (\E T : buffer' \in Seq(T))
      /\ buffer' # <<>> /\ Len(buffer') \in Nat /\ 0 < Len(buffer')
  <2>1. PICK S : buffer \in Seq(S)
    BY DEF IInv
  <2>2. size' = size + e.bytes
    BY <1>1, <1>3
  <2>3. buffer' # <<>> /\ Len(buffer') \in Nat /\ 0 < Len(buffer')
    BY <1>1, <2>1, Appended
  <2>. QED
    BY <1>1, <1>3, <1>4, <2>1, <2>2, <2>3, Grow
<1>6. Written' = next
  BY <1>3, <1>5 DEF After
<1>7. /\ next \in Locs /\ next.item = 0
      /\ next.part # 4 => Placed(next) /\ 0 <= WriteCount(next)
      /\ next.part = 4 => loc.part = 3 /\ loc.sec = Len(Sections(kind)[3])
  BY <1>1, <1>2, Onward
<1> HIDE DEF next
<1>8. kind \in {"CMD", "HDR"} => size' = SizeAt(Written)'
  <2>0. SUFFICES ASSUME kind \in {"CMD", "HDR"}
                 PROVE  size = SizeAt(next)
    BY <1>1, <1>6, Same
  <2>1. size = SizeAt(loc)
    BY <1>1, <2>0 DEF BufferInv
  <2>2. loc.part # 2
    BY <1>1, <1>2, <2>0, PlacedPmu DEF Configurations
  <2>3. loc.item = 1
    BY <1>1, <1>2, <2>2, Counts
  <2>. QED
    BY <1>1, <1>2, <2>0, <2>1, <2>3, SizeBetween DEF next
<1>9. kind # "NONE" /\ size' <= BufferSize
  BY <1>1 DEF BufferInv
<1>10. CASE next.part = 4
  <2>1. /\ phase' = "read" /\ loc' = Start /\ taken' = 0 /\ offset' = 0
        /\ count' = 0 /\ part' = NoChannels
        /\ info' = IF kind \in Configurations THEN <<>> ELSE info
    BY <1>10 DEF LeaveWrite, StartReading, next
  <2>2. Start \in Locs /\ NoChannels \in PmuInfo
    BY DEF Start, Locs, NoChannels, PmuInfo
  <2>3. TypeOK'
    <3>1. info' \in Seq(PmuInfo)
      BY <1>1, <2>1 DEF TypeOK
    <3>. QED
      BY <1>1, <2>1, <2>2, <3>1 DEF TypeOK
  <2>4. frameSize = size
    <3>1. Sec(loc) = "CHK"
      BY <1>1, <1>2, <1>7, <1>10, Ends, PdcFacts DEF Placed
    <3>2. loc.item = 1
      BY <1>1, <1>2, <1>7, <1>10, Counts
    <3>. QED
      BY <1>1, <3>1, <3>2 DEF BufferInv
  <2>5. BufferInv'
    BY <1>1, <1>5, <1>6, <1>8, <1>9, <1>10, <2>1, <2>4 DEF BufferInv
  <2>6. ReadInv'
    <3>1. /\ taken' < Len(buffer') /\ loc' = buffer'[taken' + 1].loc
          /\ offset' = buffer'[taken' + 1].at
      BY <1>5, <2>1 DEF Chained
    <3>2. (kind \in Configurations =>
            /\ loc.part = 1 /\ ~Passed(Len(Sections(kind)[1])) /\ Agree(0))'
      <4>1. SUFFICES ASSUME kind \in Configurations
                     PROVE  (loc.part = 1 /\ ~Passed(Len(Sections(kind)[1])) /\ Agree(0))'
        BY <1>1
      <4>2. Len(Sections(kind)[1]) \in Nat /\ Len(Sections(kind)[1]) > 2
        <5>1. kind \in Kinds /\ kind \in {"CFG2", "CFG3"}
          BY <4>1 DEF Configurations, Kinds
        <5>. QED
          BY <5>1, Layout
      <4>3. ~Passed(Len(Sections(kind)[1]))'
        <5>1. loc'.sec = 1
          BY <2>1 DEF Start
        <5>2. Len(Sections(kind')[1]) \in Nat /\ Len(Sections(kind')[1]) > 2
          BY <1>1, <4>2
        <5>. QED
          BY <5>1, <5>2 DEF Passed
      <4>4. Agree(0)'
        BY <2>1, <4>1 DEF Agree
      <4>. QED
        BY <2>1, <4>3, <4>4 DEF Start
    <3>. QED
      BY <3>1, <3>2 DEF ReadInv
  <2>7. InfoInv'
    BY <1>1, <2>1 DEF InfoInv, Agree, Configurations
  <2>8. ReaderInStep' /\ NothingRejected'
    BY <2>1 DEF ReaderInStep, NothingRejected
  <2>. QED
    BY <1>5, <2>3, <2>5, <2>6, <2>7, <2>8 DEF IInv, CodecInv
<1>11. CASE next.part # 4
  <2>1. /\ loc' = next /\ phase' = "write" /\ taken' = taken /\ offset' = offset
        /\ count' = count /\ part' = part /\ info' = info
    BY <1>1, <1>11 DEF LeaveWrite, next
  <2>2. TypeOK'
    BY <1>1, <1>7, <2>1 DEF TypeOK
  <2>3. InFrame(loc)'
    <3>1. InFrame(next)
      BY <1>7, <1>11 DEF InFrame, Placed, InLayout
    <3>. QED
      BY <1>1, <2>1, <3>1, Same
  <2>4. BufferInv'
    BY <1>1, <1>5, <1>6, <1>7, <1>8, <1>9, <2>1, <2>3 DEF BufferInv
  <2>5. InfoInv' /\ ReadInv' /\ ReaderInStep' /\ NothingRejected'
    BY <1>1, <2>1 DEF InfoInv, Agree, ReadInv, ReaderInStep, NothingRejected
  <2>. QED
    BY <1>5, <2>2, <2>4, <2>5 DEF IInv, CodecInv
<1>. QED
  BY <1>10, <1>11
(***************************************************************************)
(* Reading: the entry that is next is the one where the reader stands.     *)
(***************************************************************************)
AtEntry(e) ==
  /\ e = buffer[taken + 1] /\ e.loc = loc /\ IsWritten(e)
  /\ offset = e.at \/ LongName
  /\ taken + 1 = Len(buffer) => After(e).part = 4 /\ frameSize = e.at + e.bytes
  /\ taken + 1 # Len(buffer) =>
       /\ taken + 1 < Len(buffer) /\ After(e).part < 4
       /\ buffer[taken + 2].loc = After(e) /\ buffer[taken + 2].at = e.at + e.bytes

LEMMA AtTheReader ==
  ASSUME IInv, phase = "read"
  PROVE  /\ Placed(loc) /\ loc \in Locs /\ InFrame(loc) /\ loc.item \in Nat
         /\ Len(buffer) \in Nat /\ taken \in Nat
         /\ AtEntry(buffer[taken + 1])
<1> DEFINE e == buffer[taken + 1]
<1>1. /\ TypeOK /\ BufferInv /\ ReadInv
  BY DEF IInv, CodecInv
<1>2. Len(buffer) \in Nat
  <2>1. PICK S : buffer \in Seq(S)
    BY DEF IInv
  <2>. QED
    BY <2>1
<1>3. /\ taken \in Nat /\ taken < Len(buffer) /\ e.loc = loc /\ (offset = e.at \/ LongName)
  BY <1>1 DEF TypeOK, ReadInv
<1>4. /\ Chained /\ (\A j \in 1..Len(buffer) : IsWritten(buffer[j]))
      /\ Written.part = 4 /\ frameSize = size
  BY <1>1 DEF BufferInv
<1>5. taken + 1 \in 1..Len(buffer) /\ IsWritten(e)
  BY <1>2, <1>3, <1>4
<1>6. loc \in Locs /\ InFrame(loc) /\ loc.item \in Nat
  BY <1>3, <1>5 DEF IsWritten, Locs
<1>7. Placed(loc)
  BY <1>6 DEF Placed, InLayout, InFrame
<1>8. CASE taken + 1 = Len(buffer)
  <2>1. buffer # <<>>
    BY <1>2, <1>8, <1>3
  <2>2. After(e).part = 4 /\ frameSize = e.at + e.bytes
    BY <1>4, <1>8, <2>1 DEF Written, Chained
  <2>. QED
    BY <1>2, <1>3, <1>5, <1>6, <1>7, <1>8, <2>2 DEF AtEntry
<1>9. CASE taken + 1 # Len(buffer)
  <2>1. taken + 1 < Len(buffer) /\ taken + 1 \in 1..Len(buffer) - 1
        /\ taken + 2 \in 1..Len(buffer) /\ taken + 2 = (taken + 1) + 1
    BY <1>2, <1>3, <1>9
  <2>2. buffer[taken + 2].loc = After(e) /\ buffer[taken + 2].at = e.at + e.bytes
    BY <1>4, <2>1 DEF Chained
  <2>3. After(e).part < 4
    BY <1>4, <2>1, <2>2 DEF IsWritten, InFrame
  <2>. QED
    BY <1>2, <1>3, <1>5, <1>6, <1>7, <1>9, <2>1, <2>2, <2>3 DEF AtEntry
<1>. QED
  BY <1>8, <1>9

(* The client knows the PMUs whose data it reads.                          *)
LEMMA KnownPmu ==
  ASSUME IInv, phase = "read", kind = "DATA"
  PROVE  /\ Len(info) = Len(pdc.pmus)
         /\ \A p \in 1..Len(pdc.pmus) :
              /\ info[p].ph = Len(pdc.pmus[p].ph) /\ info[p].an = Len(pdc.pmus[p].an)
              /\ info[p].dg = 16 * Words(Len(pdc.pmus[p].dg))
              /\ info[p].format = pdc.pmus[p].format
<1>1. Agree(Len(pdc.pmus))
  BY DEF IInv, CodecInv, InfoInv, Configurations
<1>. QED
  BY <1>1 DEF Agree

(* The reader counts as the writer did.                                    *)
LEMMA SameCounts ==
  ASSUME IInv, phase = "read"
  PROVE  ReadCount(loc) = WriteCount(loc)
<1>1. TypeOK /\ Placed(loc) /\ loc \in Locs /\ kind \in Kinds /\ InLayout(loc)
  BY AtTheReader, PdcFacts DEF IInv, CodecInv, Placed
<1>2. CASE loc.part # 2
  <2>1. Sec(loc) \in {"HEADER", "CONT_IDX", "TIME_BASE", "NUM_PMU", "MESSAGE", "CMD",
                      "EXTFRAME", "DATA_RATE", "CHK"}
    BY <1>1, <1>2, Ends, PlacedPmu
  <2>. QED
    BY <2>1 DEF ReadCount, WriteCount
<1>3. CASE loc.part = 2 /\ kind = "DATA"
  <2> DEFINE c == pdc.pmus[loc.pmu]
  <2>1. loc.pmu \in 1..Len(pdc.pmus)
    BY <1>1, <1>3, PlacedPmu
  <2>2. /\ info[loc.pmu].ph = Len(c.ph) /\ info[loc.pmu].an = Len(c.an)
        /\ info[loc.pmu].dg = 16 * Words(Len(c.dg))
    BY <1>3, <2>1, KnownPmu
  <2>3. Words(16 * Words(Len(c.dg))) = Words(Len(c.dg))
    BY <1>1, <2>1, PmuFacts, Shorts
  <2>4. Sec(loc) \in {"STAT", "PHASORS", "FREQ", "ANALOG", "DIGITAL"}
    BY <1>1, <1>3, PmuSections
  <2>. QED
    BY <2>2, <2>3, <2>4 DEF ReadCount, WriteCount
<1>4. CASE loc.part = 2 /\ kind \in Configurations
  <2> DEFINE c == pdc.pmus[loc.pmu]
  <2>1. /\ Sec(loc) = "STN" <=> loc.sec = 1
        /\ Sec(loc) = "FORMAT" <=> loc.sec = 2
        /\ Sec(loc) = "COUNTS" <=> loc.sec = 3
        /\ Sec(loc) \in {"STN", "FORMAT", "COUNTS", "PHNAM", "ANNAM", "DGNAM",
                         "PHUNIT", "ANUNIT", "DIGUNIT", "FNOM", "PLACE"}
    BY <1>1, <1>4, PmuSections
  <2>2. Passed(3) => /\ part.ph = Len(c.ph) /\ part.an = Len(c.an)
                     /\ part.dg = Words(Len(c.dg))
    BY <1>4 DEF IInv, CodecInv, ReadInv
  <2>3. Sec(loc) \notin {"STN", "FORMAT", "COUNTS"} => Passed(3)
    BY <1>1, <2>1, PlacedPmu DEF Passed
  <2>. QED
    BY <2>1, <2>2, <2>3 DEF ReadCount, WriteCount
<1>. QED
  BY <1>1, <1>2, <1>3, <1>4, PlacedPmu DEF Configurations

(* And it takes as many bytes as the writer wrote.                         *)
LEMMA SameBytes ==
  ASSUME IInv, phase = "read", loc.item < WriteCount(loc)
  PROVE  ReadBytes(loc, buffer[taken + 1].wire) = buffer[taken + 1].bytes \/ LongName
<1> DEFINE e == buffer[taken + 1]
<1>1. /\ TypeOK /\ Placed(loc) /\ loc \in Locs /\ kind \in Kinds /\ InLayout(loc)
      /\ loc.item \in Nat
  BY AtTheReader, PdcFacts DEF IInv, CodecInv, Placed
<1>2. e.bytes = WriteBytes(loc) /\ WireOK(loc, e.wire)
  BY AtTheReader DEF AtEntry, IsWritten
<1>3. kind \in {"CMD", "HDR"} => frameSize = 16 + IF kind = "CMD" THEN 2 ELSE pdc.message
  <2>1. Written.part = 4 /\ frameSize = size
        /\ (kind \in {"CMD", "HDR"} => size = SizeAt(Written))
    BY DEF IInv, CodecInv, BufferInv
  <2>2. pdc.message \in Nat
    BY <1>1, PdcFacts
  <2>. QED
    BY <2>1, <2>2 DEF SizeAt
<1>4. CASE kind = "CFG3" /\ Sec(loc) \in Names
  <2>1. e.wire = Name(loc) \/ LongName
    BY <1>2, <1>4 DEF WireOK
  <2>. QED
    BY <1>2, <1>4, <2>1 DEF ReadBytes, WriteBytes, Names
<1>5. CASE Sec(loc) = "MESSAGE"
  <2>1. kind = "HDR"
    <3>1. loc.part = 1
      BY <1>1, <1>5, Ends, PmuSections, PlacedPmu DEF Configurations
    <3>2. Sections(kind)[1][loc.sec] = "MESSAGE" /\ loc.sec \in 1..4
          /\ loc.sec <= Len(Sections(kind)[1])
      <4>1. loc.sec \in Nat \ {0} /\ loc.sec <= Len(Sections(kind)[1])
        BY <1>1, <3>1, PlacedPmu
      <4>. QED
        BY <1>1, <1>5, <3>1, <4>1, Layout DEF Sec
    <3>. QED
      BY <1>1, <3>2 DEF Kinds, Sections, Configuration, Configuration3, Data, CommandFrame
  <2>. QED
    BY <1>1, <1>2, <1>3, <1>5, <2>1, PdcFacts DEF ReadBytes, WriteBytes, Names
<1>6. CASE Sec(loc) = "EXTFRAME"
  <2>1. kind = "CMD"
    <3>0. kind # "NONE"
      BY DEF IInv, CodecInv, BufferInv
    <3>1. loc.part = 1
      BY <1>1, <1>6, Ends, PmuSections, PlacedPmu DEF Configurations
    <3>2. Sections(kind)[1][loc.sec] = "EXTFRAME" /\ loc.sec \in 1..4
          /\ loc.sec <= Len(Sections(kind)[1])
      <4>1. loc.sec \in Nat \ {0} /\ loc.sec <= Len(Sections(kind)[1])
        BY <1>1, <3>1, PlacedPmu
      <4>. QED
        BY <1>1, <1>6, <3>1, <4>1, Layout DEF Sec
    <3>. QED
      BY <1>1, <3>0, <3>2 DEF Kinds, Sections, Configuration, Configuration3, Data, Header
  <2>. QED
    BY <1>2, <1>3, <1>6, <2>1 DEF ReadBytes, WriteBytes, Names
<1>7. CASE ~(kind = "CFG3" /\ Sec(loc) \in Names) /\ Sec(loc) # "MESSAGE" /\ Sec(loc) # "EXTFRAME"
  <2>1. /\ ReadBytes(loc, e.wire) = Width(Sec(loc), info[loc.pmu].format)
        /\ WriteBytes(loc) = Width(Sec(loc), pdc.pmus[loc.pmu].format)
    BY <1>7 DEF ReadBytes, WriteBytes
  <2>2. CASE loc.part = 2 /\ kind = "DATA"
    <3>1. info[loc.pmu].format = pdc.pmus[loc.pmu].format
      BY <1>1, <2>2, PlacedPmu, KnownPmu
    <3>. QED
      BY <1>2, <2>1, <3>1
  <2>3. CASE ~(loc.part = 2 /\ kind = "DATA")
    <3>1. Sec(loc) \notin {"PHASORS", "FREQ", "ANALOG"}
      BY <1>1, <2>3, Ends, PmuSections, PlacedPmu
    <3>2. \A f, g : Width(Sec(loc), f) = Width(Sec(loc), g)
      BY <3>1 DEF Width
    <3>. QED
      BY <1>2, <2>1, <3>2
  <2>. QED
    BY <2>2, <2>3
<1>. QED
  BY <1>4, <1>5, <1>6, <1>7

LEMMA AstrayStep ==
  ASSUME IInv, GoAstray
  PROVE  IInv'
<1>1. /\ phase = "read" /\ ~InStep /\ phase' = "astray" /\ kind' = kind /\ pdc' = pdc
      /\ request' = request /\ loc' = loc
      /\ buffer' = buffer /\ size' = size /\ frameSize' = frameSize /\ taken' = taken
      /\ count' = count /\ part' = part /\ info' = info
  BY DEF GoAstray, writeVars, readVars
<1>2. LongName
  <2>1. SUFFICES ASSUME offset = buffer[taken + 1].at
                 PROVE  InStep
    BY <1>1, AtTheReader DEF AtEntry
  <2>2. taken < Len(buffer) /\ buffer[taken + 1].loc = loc
    BY <1>1 DEF IInv, CodecInv, ReadInv
  <2>3. buffer[taken + 1].more <=> loc.item < WriteCount(loc)
    BY <1>1, AtTheReader DEF AtEntry, IsWritten
  <2>4. buffer[taken + 1].more <=> More
    BY <1>1, <2>3, SameCounts DEF More
  <2>. QED
    BY <2>1, <2>2, <2>4 DEF InStep
<1>3. LongName'
  BY <1>1, <1>2, Same
<1>. QED
  BY <1>1, <1>3 DEF IInv, CodecInv, TypeOK, BufferInv, ReadInv, InfoInv, ReaderInStep,
                    NothingRejected, Agree
(* A header always fits.                                                   *)
LEMMA HeaderAlwaysFits ==
  ASSUME IInv, phase = "read"
  PROVE  HeaderFits
<1>1. /\ Written.part = 4 /\ frameSize = size /\ size <= BufferSize /\ size \in Nat
      /\ (kind \in {"CMD", "HDR"} => size = SizeAt(Written))
  BY DEF IInv, CodecInv, BufferInv, TypeOK
<1>2. CASE kind = "CMD"
  BY <1>1, <1>2 DEF SizeAt, HeaderFits
<1>3. CASE kind # "CMD"
  <2>1. BufferSize \in Nat /\ BufferSize < 65536
    BY CodecAssumption, SMT DEF Short
  <2>. QED
    BY <1>1, <1>3, <2>1, SMT DEF HeaderFits
<1>. QED
  BY <1>2, <1>3

LEMMA ReadStep ==
  ASSUME IInv, ReadItem
  PROVE  IInv'
<1> DEFINE e == buffer[taken + 1]
           c == pdc.pmus[loc.pmu]
<1>1. /\ TypeOK /\ BufferInv /\ ReadInv /\ InfoInv /\ phase = "read" /\ InStep /\ More
      /\ pdc' = pdc /\ kind' = kind /\ request' = request /\ info' = info
      /\ buffer' = buffer /\ size' = size /\ frameSize' = frameSize
  BY DEF IInv, CodecInv, ReadItem, writeVars
<1>2. /\ Store(Sec(loc), e.wire) /\ offset' = offset + ReadBytes(loc, e.wire)
      /\ taken' = taken + 1 /\ loc' = NextItem(loc) /\ phase' = phase
  BY <1>1, HeaderAlwaysFits DEF ReadItem
<1>3. /\ Placed(loc) /\ loc \in Locs /\ loc.item \in Nat /\ taken \in Nat /\ AtEntry(e)
      /\ kind \in Kinds /\ InLayout(loc) /\ loc.sec \in Nat
      /\ loc.item < WriteCount(loc)
  <2>1. loc.item < WriteCount(loc)
    BY <1>1, SameCounts DEF More
  <2>. QED
    BY <1>1, <2>1, AtTheReader, PdcFacts, PlacedPmu DEF Placed
<1>4. /\ NextItem(loc) \in Locs /\ NextItem(loc).part = loc.part /\ NextItem(loc).pmu = loc.pmu
      /\ NextItem(loc).sec = loc.sec /\ NextItem(loc).item = loc.item + 1
      /\ Sec(NextItem(loc)) = Sec(loc)
  BY <1>1, <1>3, Along, PlacedPmu
<1>5. e.more /\ After(e) = NextItem(loc) /\ WireOK(loc, e.wire) /\ loc.part < 4
  BY <1>1, <1>3 DEF AtEntry, IsWritten, After, InStep, InLayout
<1>6. /\ taken + 1 < Len(buffer) /\ buffer[taken + 2].loc = NextItem(loc)
      /\ buffer[taken + 2].at = e.at + e.bytes
  BY <1>3, <1>4, <1>5 DEF AtEntry
<1>7. offset' = buffer[taken + 2].at \/ LongName
  BY <1>1, <1>2, <1>6, <1>3, SameBytes DEF InStep
<1>8. /\ count' = IF Sec(loc) = "NUM_PMU" THEN e.wire ELSE count
      /\ Sec(loc) = "COUNTS" =>
           part' = [part EXCEPT !.ph = e.wire[1], !.an = e.wire[2], !.dg = e.wire[3]]
      /\ Sec(loc) = "FORMAT" =>
           part' = [part EXCEPT !.format = [b \in 0..3 |-> b \in e.wire]]
      /\ Sec(loc) \notin {"COUNTS", "FORMAT"} => part' = part
  BY <1>2 DEF Store, Decode
<1>9. Sec(loc) = "NUM_PMU" => count' = Len(pdc.pmus)
  BY <1>5, <1>8 DEF WireOK
<1>10. /\ part.ph \in Nat /\ part.an \in Nat /\ part.dg \in Nat
       /\ part.format \in [0..3 -> BOOLEAN] /\ part \in PmuInfo
  BY <1>1 DEF TypeOK, PmuInfo
<1>11. ASSUME Sec(loc) = "COUNTS"
       PROVE  /\ part' \in PmuInfo /\ part'.format = part.format
              /\ part'.ph = Len(c.ph) /\ part'.an = Len(c.an) /\ part'.dg = Words(Len(c.dg))
  <2>1. loc.part = 2
    BY <1>1, <1>3, <1>11, Ends, PlacedPmu
  <2>2. Len(c.ph) \in Nat /\ Len(c.an) \in Nat /\ Words(Len(c.dg)) \in Nat
    BY <1>1, <1>3, <2>1, PlacedPmu, PmuFacts
  <2>3. e.wire = <<Len(c.ph), Len(c.an), Words(Len(c.dg))>>
    BY <1>5, <1>11 DEF WireOK
  <2>4. part' = [part EXCEPT !.ph = Len(c.ph), !.an = Len(c.an), !.dg = Words(Len(c.dg))]
    BY <1>8, <1>11, <2>3
  <2>. QED
    BY <1>10, <2>2, <2>4 DEF PmuInfo
<1>12. ASSUME Sec(loc) = "FORMAT"
       PROVE  /\ part' \in PmuInfo /\ part'.format = c.format
              /\ part'.ph = part.ph /\ part'.an = part.an /\ part'.dg = part.dg
  <2>1. loc.part = 2
    BY <1>1, <1>3, <1>12, Ends, PlacedPmu
  <2>2. c.format \in [0..3 -> BOOLEAN]
    BY <1>1, <1>3, <2>1, PlacedPmu, PmuFacts
  <2>3. e.wire = {b \in 0..3 : c.format[b]}
    BY <1>5, <1>12 DEF WireOK
  <2>4. [b \in 0..3 |-> b \in e.wire] = c.format
    BY <2>2, <2>3
  <2>5. part' = [part EXCEPT !.format = c.format]
    BY <1>8, <1>12, <2>4
  <2>. QED
    BY <1>10, <2>2, <2>5 DEF PmuInfo
<1>13. Sec(loc) \notin {"COUNTS", "FORMAT"} => part' = part /\ part' \in PmuInfo
  BY <1>8, <1>10
<1>14. TypeOK'
  <2>1. count' \in Nat
    BY <1>1, <1>8, <1>9, PdcFacts DEF TypeOK
  <2>2. part' \in PmuInfo
    BY <1>11, <1>12, <1>13
  <2>. QED
    BY <1>1, <1>2, <1>3, <1>4, <2>1, <2>2 DEF TypeOK
<1>15. ASSUME kind \in Configurations
       PROVE  (/\ loc.part > 1 \/ Passed(Len(Sections(kind)[1])) => count = Len(pdc.pmus)
               /\ Agree(CASE loc.part = 1 -> 0 [] loc.part = 2 -> loc.pmu - 1
                          [] OTHER -> Len(pdc.pmus))
               /\ loc.part = 2 /\ Passed(2) => part.format = pdc.pmus[loc.pmu].format
               /\ loc.part = 2 /\ Passed(3) =>
                    /\ part.ph = Len(pdc.pmus[loc.pmu].ph)
                    /\ part.an = Len(pdc.pmus[loc.pmu].an)
                    /\ part.dg = Words(Len(pdc.pmus[loc.pmu].dg)))'
  <2>1. /\ loc.part > 1 \/ Passed(Len(Sections(kind)[1])) => count = Len(pdc.pmus)
        /\ Agree(CASE loc.part = 1 -> 0 [] loc.part = 2 -> loc.pmu - 1
                   [] OTHER -> Len(pdc.pmus))
        /\ loc.part = 2 /\ Passed(2) => part.format = c.format
        /\ loc.part = 2 /\ Passed(3) =>
             part.ph = Len(c.ph) /\ part.an = Len(c.an) /\ part.dg = Words(Len(c.dg))
    BY <1>1, <1>15 DEF ReadInv
  <2>2. \A n \in Nat : Passed(n)' <=> loc.sec >= n
    BY <1>2, <1>3, <1>4 DEF Passed
  <2>3. \A n \in Nat : loc.sec > n => Passed(n)
    BY DEF Passed
  <2>4. loc.part = 1 => Len(Sections(kind)[1]) \in Nat
          /\ (Sec(loc) = "NUM_PMU" <=> loc.sec = Len(Sections(kind)[1]))
    BY <1>3, <1>15, Ends, Layout
  <2>5. loc.part = 2 => (Sec(loc) = "FORMAT" <=> loc.sec = 2)
                        /\ (Sec(loc) = "COUNTS" <=> loc.sec = 3)
    BY <1>3, <1>15, PmuSections
  <2>6. (loc.part > 1 \/ Passed(Len(Sections(kind)[1])) => count = Len(pdc.pmus))'
    <3>1. SUFFICES ASSUME (loc.part > 1 \/ Passed(Len(Sections(kind)[1])))'
                   PROVE  count' = Len(pdc.pmus)
      BY <1>1
    <3>2. CASE Sec(loc) = "NUM_PMU"
      BY <1>9, <3>2
    <3>3. CASE loc.part > 1 /\ Sec(loc) # "NUM_PMU"
      BY <1>8, <2>1, <3>3
    <3>4. CASE ~(loc.part > 1) /\ Sec(loc) # "NUM_PMU"
      <4>1. loc.part = 1 /\ Len(Sections(kind)[1]) \in Nat
        BY <1>3, <3>4, <2>4, PlacedPmu, <1>1
      <4>2. loc'.part = 1 /\ loc'.sec = loc.sec /\ kind' = kind
        BY <1>1, <1>2, <1>4, <4>1
      <4>3. loc.sec >= Len(Sections(kind)[1])
        BY <1>3, <3>1, <4>1, <4>2 DEF Passed
      <4>4. Passed(Len(Sections(kind)[1]))
        BY <1>3, <2>3, <2>4, <3>4, <4>1, <4>3
      <4>. QED
        BY <1>8, <2>1, <3>4, <4>4
    <3>. QED
      BY <3>2, <3>3, <3>4
  <2>7. (Agree(CASE loc.part = 1 -> 0 [] loc.part = 2 -> loc.pmu - 1
                 [] OTHER -> Len(pdc.pmus)))'
    BY <1>1, <1>2, <1>4, <2>1 DEF Agree
  <2>8. (loc.part = 2 /\ Passed(2) => part.format = pdc.pmus[loc.pmu].format)'
    <3>1. SUFFICES ASSUME loc.part = 2, Passed(2)'
                   PROVE  part'.format = c.format
      BY <1>1, <1>2, <1>4
    <3>2. loc.sec >= 2
      BY <2>2, <3>1
    <3>3. CASE Sec(loc) = "FORMAT"
      BY <1>12, <3>3
    <3>4. CASE Sec(loc) # "FORMAT"
      <4>1. Passed(2)
        BY <1>3, <2>3, <2>5, <3>1, <3>2, <3>4
      <4>2. part'.format = part.format
        BY <1>11, <1>13, <3>4
      <4>. QED
        BY <2>1, <3>1, <4>1, <4>2
    <3>. QED
      BY <3>3, <3>4
  <2>9. (loc.part = 2 /\ Passed(3) =>
           /\ part.ph = Len(pdc.pmus[loc.pmu].ph)
           /\ part.an = Len(pdc.pmus[loc.pmu].an)
           /\ part.dg = Words(Len(pdc.pmus[loc.pmu].dg)))'
    <3>1. SUFFICES ASSUME loc.part = 2, Passed(3)'
                   PROVE  /\ part'.ph = Len(c.ph) /\ part'.an = Len(c.an)
                          /\ part'.dg = Words(Len(c.dg))
      BY <1>1, <1>2, <1>4
    <3>2. loc.sec >= 3
      BY <2>2, <3>1
    <3>3. CASE Sec(loc) = "COUNTS"
      BY <1>11, <3>3
    <3>4. CASE Sec(loc) # "COUNTS"
      <4>1. Passed(3) /\ Sec(loc) # "FORMAT"
        BY <1>3, <2>3, <2>5, <3>1, <3>2, <3>4
      <4>2. part' = part
        BY <1>13, <3>4, <4>1
      <4>. QED
        BY <2>1, <3>1, <4>1, <4>2
    <3>. QED
      BY <3>3, <3>4
  <2>. QED
    BY <2>6, <2>7, <2>8, <2>9
<1>16. ReadInv'
  <2>1. /\ taken' < Len(buffer') /\ loc' = buffer'[taken' + 1].loc
        /\ offset' = buffer'[taken' + 1].at \/ LongName'
    <3>1. taken' + 1 = taken + 2
      BY <1>2, <1>3
    <3>. QED
      BY <1>1, <1>2, <1>6, <1>7, <3>1, Same
  <2>. QED
    BY <1>1, <1>15, <2>1 DEF ReadInv
<1>17. BufferInv'
  <2>1. Chained' /\ (\A j \in 1..Len(buffer) : IsWritten(buffer[j]))'
        /\ Written' = Written /\ SizeAt(Written)' = SizeAt(Written)
    <3>1. Written' = Written
      BY <1>1, Same DEF Written
    <3>2. Chained'
      BY <1>1, Same DEF Chained, BufferInv
    <3>3. (\A j \in 1..Len(buffer) : IsWritten(buffer[j]))'
      BY <1>1, Same DEF BufferInv
    <3>4. SizeAt(Written)' = SizeAt(Written)
      BY <1>1, <3>1, Same
    <3>. QED
      BY <3>1, <3>2, <3>3, <3>4
  <2>. QED
    BY <1>1, <1>2, <2>1 DEF BufferInv
<1>18. InfoInv' /\ ReaderInStep' /\ NothingRejected'
  BY <1>1, <1>2 DEF InfoInv, Agree, ReaderInStep, NothingRejected
<1>19. \E S : buffer' \in Seq(S)
  BY <1>1 DEF IInv
<1>. QED
  BY <1>14, <1>16, <1>17, <1>18, <1>19 DEF IInv, CodecInv
LEMMA LeaveReadStep ==
  ASSUME IInv, LeaveRead
  PROVE  IInv'
<1> DEFINE e == buffer[taken + 1]
           c == pdc.pmus[loc.pmu]
           last == Len(Sections(kind)[loc.part])
           next == Following(loc, NumPmu)
<1>1. /\ TypeOK /\ BufferInv /\ ReadInv /\ InfoInv /\ phase = "read" /\ InStep /\ ~More
      /\ pdc' = pdc /\ kind' = kind /\ request' = request /\ offset' = offset
      /\ count' = count /\ part' = part
      /\ buffer' = buffer /\ size' = size /\ frameSize' = frameSize /\ taken' = taken + 1
  BY DEF IInv, CodecInv, LeaveRead
<1>2. /\ Placed(loc) /\ loc \in Locs /\ loc.item \in Nat /\ taken \in Nat /\ AtEntry(e)
      /\ kind \in Kinds /\ InLayout(loc) /\ loc.sec \in Nat /\ loc.pmu \in Nat
      /\ loc.part \in 1..3 /\ last \in Nat /\ loc.sec <= last /\ loc.sec > 0
      /\ NumPmu \in Nat
  <2>1. kind \in Kinds /\ NumPmu \in Nat
    BY <1>1, PdcFacts
  <2>2. /\ Placed(loc) /\ loc \in Locs /\ loc.item \in Nat /\ taken \in Nat /\ AtEntry(e)
    BY <1>1, AtTheReader
  <2>3. /\ loc.part \in 1..3 /\ loc.sec \in Nat \ {0} /\ loc.pmu \in Nat /\ loc.sec <= last
    BY <1>1, <2>2, PlacedPmu
  <2>4. last \in Nat
    BY <2>1, <2>3, Layout
  <2>. QED
    BY <2>1, <2>2, <2>3, <2>4 DEF Placed
<1>3. loc.item = WriteCount(loc)
  <2>1. InFrame(loc) /\ WriteCount(loc) \in Nat
    BY <1>1, <1>2, AtTheReader, Counts
  <2>2. ~(loc.item < WriteCount(loc))
    BY <1>1, SameCounts DEF More
  <2>. QED
    BY <1>2, <2>1, <2>2 DEF InFrame
<1>4. kind \in Configurations =>
        /\ loc.part > 1 \/ loc.sec = last => count = Len(pdc.pmus)
        /\ loc.part = 2 /\ loc.sec >= 2 => part.format = c.format
        /\ loc.part = 2 /\ loc.sec >= 3 =>
             part.ph = Len(c.ph) /\ part.an = Len(c.an) /\ part.dg = Words(Len(c.dg))
        /\ Agree(CASE loc.part = 1 -> 0 [] loc.part = 2 -> loc.pmu - 1
                   [] OTHER -> Len(pdc.pmus))
  <2>0. SUFFICES ASSUME kind \in Configurations
                 PROVE  /\ loc.part > 1 \/ loc.sec = last => count = Len(pdc.pmus)
                        /\ loc.part = 2 /\ loc.sec >= 2 => part.format = c.format
                        /\ loc.part = 2 /\ loc.sec >= 3 =>
                             /\ part.ph = Len(c.ph) /\ part.an = Len(c.an)
                             /\ part.dg = Words(Len(c.dg))
    BY <1>1 DEF ReadInv
  <2>1. /\ loc.part > 1 \/ Passed(Len(Sections(kind)[1])) => count = Len(pdc.pmus)
        /\ loc.part = 2 /\ Passed(2) => part.format = c.format
        /\ loc.part = 2 /\ Passed(3) =>
             part.ph = Len(c.ph) /\ part.an = Len(c.an) /\ part.dg = Words(Len(c.dg))
    BY <1>1, <2>0 DEF ReadInv
  <2>2. loc.part = 1 /\ loc.sec = last => Passed(Len(Sections(kind)[1]))
    BY <1>1, <1>2, <1>3, Counts DEF Passed
  <2>3. ASSUME loc.part = 2
        PROVE  /\ loc.sec >= 2 => Passed(2)
               /\ loc.sec >= 3 => Passed(3)
    <3>1. loc.sec \in {2, 3} => loc.item = 1
      BY <1>2, <1>3, <2>0, <2>3, PmuSections DEF WriteCount
    <3>. QED
      BY <1>2, <3>1 DEF Passed
  <2>. QED
    BY <1>2, <2>1, <2>2, <2>3
<1>5. Following(loc, ReadPmus) = next
  <2>1. CASE loc.sec < last
    BY <2>1 DEF Following
  <2>2. CASE ~(loc.sec < last)
    <3>1. ReadPmus = NumPmu
      <4>1. CASE kind \in Configurations
        <5>1. loc.part > 1 \/ loc.sec = last
          BY <1>2, <2>2
        <5>2. count = Len(pdc.pmus) /\ NumPmu = Len(pdc.pmus)
          BY <1>1, <1>4, <4>1, <5>1, PdcFacts
        <5>. QED
          BY <4>1, <5>2 DEF ReadPmus, Configurations
      <4>2. CASE kind = "DATA"
        BY <1>1, <4>2, KnownPmu, PdcFacts DEF ReadPmus, Configurations
      <4>3. CASE kind \notin Configurations /\ kind # "DATA"
        BY <1>1, <4>3, PdcFacts DEF ReadPmus
      <4>. QED
        BY <4>1, <4>2, <4>3
    <3>. QED
      BY <3>1
  <2>. QED
    BY <2>1, <2>2
<1>6. /\ next \in Locs /\ next.item = 0 /\ (next.part # 4 => Placed(next))
      /\ (next.part = 4 => loc.part = 3)
  BY <1>1, <1>2, Onward
<1>7. /\ ~e.more /\ After(e) = next /\ e.bytes = 0 /\ e.at = offset /\ offset \in Nat
      /\ LongName' <=> LongName
  BY <1>1, <1>2, Same DEF AtEntry, IsWritten, After, InStep
<1>8. next.part = 4 => frameSize = offset
  BY <1>2, <1>7 DEF AtEntry
<1>9. next.part # 4 => /\ taken + 1 < Len(buffer) /\ buffer[taken + 2].loc = next
                       /\ buffer[taken + 2].at = offset
  BY <1>2, <1>7 DEF AtEntry
<1>10. /\ loc' = next
       /\ info' = IF kind \in Configurations /\ loc.part = 2 /\ next.pmu # loc.pmu
                    THEN Append(info, DecodeInfo) ELSE info
       /\ phase' = IF next.part < 4 THEN "read"
                   ELSE IF kind = "CMD" /\ request # "RTD" THEN "reply" ELSE "idle"
  BY <1>5 DEF LeaveRead
<1>11. next.part \in 1..4 /\ next.part < 4 <=> next.part # 4
  BY <1>6 DEF Locs
<1>12. \/ /\ loc.sec < last
          /\ next = [part |-> loc.part, pmu |-> loc.pmu, sec |-> loc.sec + 1, item |-> 0]
       \/ /\ loc.sec = last /\ loc.part < 3 /\ loc.pmu < NumPmu
          /\ next = [part |-> 2, pmu |-> loc.pmu + 1, sec |-> 1, item |-> 0]
       \/ /\ loc.sec = last /\ loc.part < 3 /\ ~(loc.pmu < NumPmu)
          /\ next = [part |-> 3, pmu |-> 0, sec |-> 1, item |-> 0]
       \/ /\ loc.part = 3
          /\ next = [part |-> 4, pmu |-> 0, sec |-> 1, item |-> 0]
  BY <1>2 DEF Following
<1> HIDE DEF next
<1>13. /\ DecodeInfo \in PmuInfo /\ DecodeInfo.ph = part.ph /\ DecodeInfo.an = part.an
       /\ DecodeInfo.dg = 16 * part.dg /\ DecodeInfo.format = part.format
  <2>1. /\ part \in PmuInfo /\ part.ph \in Nat /\ part.an \in Nat /\ part.dg \in Nat
        /\ part.format \in [0..3 -> BOOLEAN]
    BY <1>1 DEF TypeOK, PmuInfo
  <2>2. 16 * part.dg \in Nat
    BY <2>1
  <2>. QED
    BY <2>1, <2>2 DEF DecodeInfo, PmuInfo
<1>14. TypeOK'
  <2>1. info' \in Seq(PmuInfo)
    BY <1>1, <1>10, <1>13 DEF TypeOK
  <2>2. phase' \in {"read", "reply", "idle"}
    BY <1>10
  <2>. QED
    BY <1>1, <1>2, <1>6, <1>10, <2>1, <2>2 DEF TypeOK
<1>15. BufferInv'
  <2>1. Written' = Written
    BY <1>1, Same DEF Written
  <2>2. Chained' /\ (\A j \in 1..Len(buffer) : IsWritten(buffer[j]))'
    BY <1>1, Same DEF Chained, BufferInv
  <2>3. SizeAt(Written)' = SizeAt(Written)
    BY <1>1, <2>1, Same
  <2>. QED
    BY <1>1, <1>10, <2>1, <2>2, <2>3 DEF BufferInv
<1>16. ASSUME kind \in Configurations, next.part # 4
       PROVE  (Agree(CASE loc.part = 1 -> 0 [] loc.part = 2 -> loc.pmu - 1
                       [] OTHER -> Len(pdc.pmus)))'
  <2>1. NumPmu = Len(pdc.pmus)
    BY <1>1, <1>16, PdcFacts
  <2>2. (loc.part = 2 => loc.pmu \in 1..Len(pdc.pmus)) /\ (loc.part # 2 => loc.pmu = 0)
    BY <1>1, <1>2, PlacedPmu DEF Placed
  <2>3. CASE kind \in Configurations /\ loc.part = 2 /\ next.pmu # loc.pmu
    <3>1. /\ info' = Append(info, DecodeInfo) /\ loc.sec = last
          /\ next.part = 2 => next.pmu = loc.pmu + 1
          /\ next.part = 3 => loc.pmu = Len(pdc.pmus)
          /\ next.part \in {2, 3}
      BY <1>2, <1>10, <1>12, <2>1, <2>2, <2>3
    <3>2. last >= 3
      BY <1>2, <2>3, Layout DEF Configurations
    <3>3. Agree(loc.pmu - 1) /\ info \in Seq(PmuInfo)
      BY <1>1, <1>4, <2>3 DEF TypeOK
    <3>4. /\ part.format = c.format /\ part.ph = Len(c.ph) /\ part.an = Len(c.an)
          /\ part.dg = Words(Len(c.dg))
      BY <1>2, <1>4, <2>3, <3>1, <3>2
    <3>5. /\ Len(info') = loc.pmu /\ info'[loc.pmu] = DecodeInfo
          /\ \A p \in 1..loc.pmu - 1 : info'[p] = info[p]
      BY <2>2, <2>3, <3>1, <3>3 DEF Agree
    <3>6. Agree(loc.pmu - 1) => \A p \in 1..loc.pmu - 1 :
            /\ info[p].ph = Len(pdc.pmus[p].ph) /\ info[p].an = Len(pdc.pmus[p].an)
            /\ info[p].dg = 16 * Words(Len(pdc.pmus[p].dg))
            /\ info[p].format = pdc.pmus[p].format
      BY DEF Agree
    <3>7. \A p \in 1..loc.pmu :
            /\ info'[p].ph = Len(pdc.pmus[p].ph) /\ info'[p].an = Len(pdc.pmus[p].an)
            /\ info'[p].dg = 16 * Words(Len(pdc.pmus[p].dg))
            /\ info'[p].format = pdc.pmus[p].format
      <4>1. ASSUME NEW p \in 1..loc.pmu, p # loc.pmu
            PROVE  p \in 1..loc.pmu - 1
        BY <2>2, <2>3, <4>1
      <4>. QED
        BY <1>13, <3>3, <3>4, <3>5, <3>6, <4>1
    <3>8. (CASE loc.part = 1 -> 0 [] loc.part = 2 -> loc.pmu - 1
             [] OTHER -> Len(pdc.pmus))' = loc.pmu
      BY <1>1, <1>10, <2>2, <2>3, <3>1
    <3>. QED
      BY <1>1, <3>5, <3>7, <3>8 DEF Agree
  <2>4. CASE ~(kind \in Configurations /\ loc.part = 2 /\ next.pmu # loc.pmu)
    <3>1. info' = info
      BY <1>10, <2>4
    <3>2. (CASE loc.part = 1 -> 0 [] loc.part = 2 -> loc.pmu - 1
             [] OTHER -> Len(pdc.pmus))'
            = (CASE loc.part = 1 -> 0 [] loc.part = 2 -> loc.pmu - 1
                 [] OTHER -> Len(pdc.pmus))
      BY <1>1, <1>2, <1>10, <1>12, <1>16, <2>1, <2>2, <2>4
    <3>. QED
      BY <1>1, <1>4, <1>16, <3>1, <3>2 DEF Agree
  <2>. QED
    BY <2>3, <2>4
<1>17. ASSUME kind \in Configurations, next.part # 4
       PROVE  (/\ loc.part > 1 \/ Passed(Len(Sections(kind)[1])) => count = Len(pdc.pmus)
               /\ loc.part = 2 /\ Passed(2) => part.format = pdc.pmus[loc.pmu].format
               /\ loc.part = 2 /\ Passed(3) =>
                    /\ part.ph = Len(pdc.pmus[loc.pmu].ph)
                    /\ part.an = Len(pdc.pmus[loc.pmu].an)
                    /\ part.dg = Words(Len(pdc.pmus[loc.pmu].dg)))'
  <2>1. \A n \in Nat : Passed(n)' <=> next.sec > n
    BY <1>6, <1>10 DEF Passed
  <2>2. /\ next.part > 1 => loc.part > 1 \/ loc.sec = last
        /\ next.part = 1 => loc.part = 1 /\ next.sec <= last
        /\ next.part = 2 /\ next.sec > 1 =>
             loc.part = 2 /\ next.pmu = loc.pmu /\ next.sec = loc.sec + 1
    BY <1>2, <1>12, <1>17
  <2>3. (loc.part > 1 \/ Passed(Len(Sections(kind)[1])) => count = Len(pdc.pmus))'
    <3>1. CASE next.part > 1
      BY <1>1, <1>4, <1>17, <2>2, <3>1
    <3>2. CASE ~(next.part > 1)
      <4>1. loc'.part = 1 /\ loc'.sec <= last /\ loc'.sec \in Nat /\ loc'.item = 0
            /\ last = Len(Sections(kind)[1])
        BY <1>6, <1>10, <1>11, <2>2, <3>2 DEF Locs
      <4>2. ~Passed(Len(Sections(kind)[1]))'
        BY <1>1, <1>2, <4>1 DEF Passed
      <4>. QED
        BY <4>1, <4>2
    <3>. QED
      BY <3>1, <3>2
  <2>4. (/\ loc.part = 2 /\ Passed(2) => part.format = pdc.pmus[loc.pmu].format
         /\ loc.part = 2 /\ Passed(3) =>
              /\ part.ph = Len(pdc.pmus[loc.pmu].ph)
              /\ part.an = Len(pdc.pmus[loc.pmu].an)
              /\ part.dg = Words(Len(pdc.pmus[loc.pmu].dg)))'
    <3>1. CASE next.part = 2 /\ next.sec > 1
      <4>1. /\ loc.part = 2 /\ loc'.pmu = loc.pmu
            /\ Passed(2)' => loc.sec >= 2
            /\ Passed(3)' => loc.sec >= 3
        BY <1>2, <1>10, <2>1, <2>2, <3>1
      <4>2. /\ Passed(2)' => part.format = c.format
            /\ Passed(3)' =>
                 part.ph = Len(c.ph) /\ part.an = Len(c.an) /\ part.dg = Words(Len(c.dg))
        BY <1>4, <1>17, <4>1
      <4>. QED
        BY <1>1, <4>1, <4>2
    <3>2. CASE ~(next.part = 2 /\ next.sec > 1)
      <4>1. next.sec \in Nat
        BY <1>6 DEF Locs
      <4>2. next.part = 2 => ~Passed(2)' /\ ~Passed(3)'
        BY <2>1, <3>2, <4>1
      <4>. QED
        BY <1>10, <4>2
    <3>. QED
      BY <3>1, <3>2
  <2>. QED
    BY <2>3, <2>4
<1>18. ReadInv'
  <2>1. CASE next.part = 4
    BY <1>10, <2>1 DEF ReadInv
  <2>2. CASE next.part # 4
    <3>1. /\ taken' < Len(buffer') /\ loc' = buffer'[taken' + 1].loc
          /\ offset' = buffer'[taken' + 1].at
      <4>1. taken' + 1 = taken + 2
        BY <1>1, <1>2
      <4>. QED
        BY <1>1, <1>9, <1>10, <2>2, <4>1
    <3>. QED
      BY <1>1, <1>16, <1>17, <2>2, <3>1 DEF ReadInv
  <2>. QED
    BY <2>1, <2>2
<1>19. InfoInv'
  <2>1. phase' \in {"idle", "reply"} => next.part = 4 /\ loc.part = 3 /\ info' = info
    BY <1>6, <1>10, <1>11
  <2>2. kind \notin Configurations => info' = info
    BY <1>10
  <2>3. (kind \notin Configurations \/ phase \in {"idle", "reply"} =>
           info = <<>> \/ Agree(Len(pdc.pmus)))'
    <3>1. CASE kind \in Configurations
      <4>1. phase' \in {"idle", "reply"} => Agree(Len(pdc.pmus))
        BY <1>4, <2>1, <3>1
      <4>. QED
        BY <1>1, <2>1, <3>1, <4>1 DEF Agree
    <3>2. CASE kind \notin Configurations
      <4>1. info = <<>> \/ Agree(Len(pdc.pmus))
        BY <1>1, <3>2 DEF InfoInv
      <4>. QED
        BY <1>1, <2>2, <3>2, <4>1 DEF Agree
    <3>. QED
      BY <3>1, <3>2
  <2>4. kind = "DATA" => info' # <<>>
    BY <1>1, <2>2 DEF InfoInv, Configurations
  <2>5. phase' = "reply" => request \in Configurations \cup {"HDR"}
    BY <1>1, <1>10 DEF TypeOK, InfoInv, Configurations
  <2>. QED
    BY <1>1, <2>3, <2>4, <2>5 DEF InfoInv
<1>20. ReaderInStep' /\ NothingRejected'
  BY <1>1, <1>8, <1>10, <1>11 DEF ReaderInStep, NothingRejected
<1>21. \E S : buffer' \in Seq(S)
  BY <1>1 DEF IInv
<1>. QED
  BY <1>14, <1>15, <1>18, <1>19, <1>20, <1>21 DEF IInv, CodecInv

(***************************************************************************)
(* The theorems.                                                           *)
(***************************************************************************)
LEMMA Initially ==
  ASSUME Init
  PROVE  IInv
<1>1. Start \in Locs /\ NoChannels \in PmuInfo
  BY DEF Start, Locs, NoChannels, PmuInfo
<1>2. TypeOK
  BY <1>1 DEF Init, TypeOK
<1>3. BufferInv /\ ReadInv /\ InfoInv /\ ReaderInStep /\ NothingRejected
  BY DEF Init, BufferInv, ReadInv, InfoInv, ReaderInStep, NothingRejected, Configurations
<1>4. \E S : buffer \in Seq(S)
  BY DEF Init
<1>. QED
  BY <1>2, <1>3, <1>4 DEF IInv, CodecInv

LEMMA Step ==
  ASSUME IInv, [Next]_vars
  PROVE  IInv'
<1>0. TypeOK
  BY DEF IInv, CodecInv
<1>1. ASSUME NEW r \in Configurations \cup {"HDR", "RTD"}, Command(r)
      PROVE  IInv'
  BY <1>1, BeginStep DEF Command, Kinds
<1>2. ASSUME StartData
      PROVE  IInv'
  BY <1>2, BeginStep DEF StartData, Kinds
<1>3. ASSUME Reply
      PROVE  IInv'
  <2>1. request \in Configurations \cup {"HDR"} /\ request' = request /\ Begin(request)
        /\ phase = "reply"
    BY <1>3 DEF IInv, CodecInv, InfoInv, Reply
  <2>. QED
    BY <2>1, BeginStep DEF Kinds, Configurations
<1>4. ASSUME UNCHANGED vars
      PROVE  IInv'
  <2>1. /\ phase' = phase /\ kind' = kind /\ pdc' = pdc /\ request' = request /\ loc' = loc
        /\ buffer' = buffer /\ size' = size /\ frameSize' = frameSize /\ taken' = taken
        /\ offset' = offset /\ count' = count /\ part' = part /\ info' = info
    BY <1>4 DEF vars, writeVars, readVars
  <2>2. TypeOK' /\ InfoInv' /\ NothingRejected'
    BY <2>1 DEF IInv, CodecInv, TypeOK, InfoInv, Agree, NothingRejected
  <2>3. ReaderInStep'
    BY <2>1, Same DEF IInv, CodecInv, ReaderInStep
  <2>4. Written' = Written /\ SizeAt(Written)' = SizeAt(Written)
    BY <2>1, Same DEF Written
  <2>5. Chained' <=> Chained
    BY <2>1, Same DEF Chained
  <2>6. BufferInv'
    BY <2>1, <2>4, <2>5, Same DEF IInv, CodecInv, BufferInv
  <2>7. \A n : (Passed(n)' <=> Passed(n)) /\ (Agree(n)' <=> Agree(n))
    BY <2>1 DEF Passed, Agree
  <2>8. ReadInv'
    BY <2>1, <2>7, Same DEF IInv, CodecInv, ReadInv
  <2>. QED
    BY <2>1, <2>2, <2>3, <2>6, <2>8 DEF IInv, CodecInv
<1>. QED
  BY <1>1, <1>2, <1>3, <1>4, RefuseStep, WriteStep, LeaveWriteStep, AstrayStep, ReadStep,
     LeaveReadStep DEF Next

(* Reader and writer are always at the same place, with the same counts.   *)
THEOREM CodecInvariance == Spec => []CodecInv
<1>1. IInv => CodecInv
  BY DEF IInv
<1>. QED
  BY <1>1, Initially, Step, PTL DEF Spec

(* C37118Protocol's readers take every field for what it is and stop where *)
(* FRAMESIZE says, whatever the configuration of the PDC.                  *)
THEOREM ReaderStaysInStep == Spec => []ReaderInStep
<1>1. CodecInv => ReaderInStep
  BY DEF CodecInv
<1>. QED
  BY <1>1, CodecInvariance, PTL

(* ReadFrameHeader refuses no frame that one of the writers wrote.         *)
THEOREM NoFrameIsRejected == Spec => []NothingRejected
<1>1. CodecInv => NothingRejected
  BY DEF CodecInv
<1>. QED
  BY <1>1, CodecInvariance, PTL
=============================================================================
