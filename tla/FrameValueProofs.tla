-------------------------- MODULE FrameValueProofs --------------------------
(***************************************************************************)
(* What the reader of a frame stores is what the sender meant, for every   *)
(* PDC and for every value that its structures and its feeds can have.     *)
(*                                                                         *)
(* ValueInv says of each entry of the buffer that it holds the item at its *)
(* place, encoded; the reader is at that place, with the format the writer *)
(* used, by CodecInv.  What is left is to decode what was encoded, section *)
(* by section.                                                             *)
(***************************************************************************)
EXTENDS FrameSizeProofs

(***************************************************************************)
(* STAT: the fields lie side by side, so each is the remainder of what is  *)
(* above it.                                                               *)
(***************************************************************************)
(* Field f has b bits, of which the first is worth p.                      *)
IsField(f, p, b) ==
  /\ \A raw : GetField(raw, f) = (raw \div p) % b
  /\ \A raw, code : SetField(raw, f, code) = raw + ((code % b) - GetField(raw, f)) * p
  /\ 2^Bits[f] = b

LEMMA Fields ==
  /\ IsField("error", 16384, 4) /\ IsField("sync", 8192, 2) /\ IsField("sorting", 4096, 2)
  /\ IsField("trigger", 2048, 2) /\ IsField("change", 1024, 2) /\ IsField("modified", 512, 2)
  /\ IsField("quality", 64, 8) /\ IsField("unlock", 16, 4) /\ IsField("reason", 1, 16)
<1>1. IsField("error", 16384, 4)
  BY DEF IsField, GetField, SetField, FirstBit, Bits
<1>2. IsField("sync", 8192, 2)
  BY DEF IsField, GetField, SetField, FirstBit, Bits
<1>3. IsField("sorting", 4096, 2)
  BY DEF IsField, GetField, SetField, FirstBit, Bits
<1>4. IsField("trigger", 2048, 2)
  BY DEF IsField, GetField, SetField, FirstBit, Bits
<1>5. IsField("change", 1024, 2)
  BY DEF IsField, GetField, SetField, FirstBit, Bits
<1>6. IsField("modified", 512, 2)
  BY DEF IsField, GetField, SetField, FirstBit, Bits
<1>7. IsField("quality", 64, 8)
  BY DEF IsField, GetField, SetField, FirstBit, Bits
<1>8. IsField("unlock", 16, 4)
  BY DEF IsField, GetField, SetField, FirstBit, Bits
<1>9. IsField("reason", 1, 16)
  BY DEF IsField, GetField, SetField, FirstBit, Bits
<1>. QED
  BY <1>1, <1>2, <1>3, <1>4, <1>5, <1>6, <1>7, <1>8, <1>9

(* There is a function that the recursive definition describes.            *)
LEMMA StatDefined ==
  ASSUME NEW codes
  PROVE  StatSteps(codes)
           = [n \in 0..9 |-> IF n = 0 THEN 0 ELSE SetField(StatSteps(codes)[n - 1], StatFields[n],
                                                          codes[StatFields[n]])]
<1> DEFINE step(raw, n) == SetField(raw, StatFields[n], codes[StatFields[n]])
           Is(g, k) == g = [n \in 0..k |-> IF n = 0 THEN 0 ELSE step(g[n - 1], n)]
           S == {k \in Nat : \E g : Is(g, k)}
<1>1. 0 \in S
  <2> HIDE DEF step
  <2>1. Is([n \in 0..0 |-> 0], 0)
    OBVIOUS
  <2>. QED
    BY <2>1
<1>2. ASSUME NEW k \in Nat, k \in S
      PROVE  k + 1 \in S
  <2> HIDE DEF step
  <2>1. PICK g : Is(g, k)
    BY <1>2
  <2> DEFINE h == [n \in 0..k + 1 |-> IF n = 0 THEN 0 ELSE step(g[n - 1], n)]
  <2>2. ASSUME NEW n \in 0..k
        PROVE  h[n] = g[n]
    BY <2>1
  <2>3. ASSUME NEW n \in 0..k + 1
        PROVE  h[n] = IF n = 0 THEN 0 ELSE step(h[n - 1], n)
    <3>1. CASE n = 0
      BY <3>1
    <3>2. CASE n > 0
      <4>1. n - 1 \in 0..k /\ n # 0
        BY <3>2
      <4>2. h[n] = step(g[n - 1], n)
        BY <4>1
      <4>. QED
        BY <2>2, <4>1, <4>2
    <3>. QED
      BY <3>1, <3>2
  <2>4. Is(h, k + 1)
    <3>1. h = [n \in 0..k + 1 |-> h[n]]
      OBVIOUS
    <3> HIDE DEF h
    <3>2. [n \in 0..k + 1 |-> h[n]]
            = [n \in 0..k + 1 |-> IF n = 0 THEN 0 ELSE step(h[n - 1], n)]
      BY <2>3
    <3>. QED
      BY <3>1, <3>2
  <2>5. \E f : Is(f, k + 1)
    <3> HIDE DEF h, Is
    <3>. QED
      BY <2>4
  <2>. QED
    BY <2>5
<1>3. 9 \in S
  <2> HIDE DEF S
  <2>. QED
    BY <1>1, <1>2, Induction
<1>. QED
  BY <1>3 DEF StatSteps

(* The word that the fields make: of each, the fields above it are the     *)
(* quotient and it is the remainder.                                       *)
LEMMA StatWord ==
  ASSUME NEW codes \in [StatField -> Nat], NEW f \in StatField
  PROVE  GetField(Stat(codes), f) = codes[f] % 2^Bits[f]
<1> DEFINE raw == StatSteps(codes)
           c1 == codes["error"] % 4
           c2 == codes["sync"] % 2
           c3 == codes["sorting"] % 2
           c4 == codes["trigger"] % 2
           c5 == codes["change"] % 2
           c6 == codes["modified"] % 2
           c7 == codes["quality"] % 8
           c8 == codes["unlock"] % 4
           c9 == codes["reason"] % 16
           k1 == c1
           k2 == 2 * k1 + c2
           k3 == 2 * k2 + c3
           k4 == 2 * k3 + c4
           k5 == 2 * k4 + c5
           k6 == 2 * k5 + c6
           k7 == 8 * k6 + c7
           k8 == 4 * k7 + c8
           k9 == 16 * k8 + c9
<1>0. /\ codes["error"] \in Nat /\ codes["sync"] \in Nat /\ codes["sorting"] \in Nat
      /\ codes["trigger"] \in Nat /\ codes["change"] \in Nat /\ codes["modified"] \in Nat
      /\ codes["quality"] \in Nat /\ codes["unlock"] \in Nat /\ codes["reason"] \in Nat
  BY DEF StatField
<1>1. /\ c1 \in 0..3
      /\ c2 \in 0..1
      /\ c3 \in 0..1
      /\ c4 \in 0..1
      /\ c5 \in 0..1
      /\ c6 \in 0..1
      /\ c7 \in 0..7
      /\ c8 \in 0..3
      /\ c9 \in 0..15
  BY <1>0
<1>2. raw[0] = 0 /\ \A n \in 1..9 : raw[n] = SetField(raw[n - 1], StatFields[n], codes[StatFields[n]])
  <2>1. \A n \in 0..9 : raw[n] = IF n = 0 THEN 0 ELSE SetField(raw[n - 1], StatFields[n],
                                                              codes[StatFields[n]])
    BY StatDefined
  <2> HIDE DEF raw
  <2>. QED
    BY <2>1
<1> HIDE DEF raw
<1>3. /\ raw[1] = SetField(raw[0], "error", codes["error"])
      /\ raw[2] = SetField(raw[1], "sync", codes["sync"])
      /\ raw[3] = SetField(raw[2], "sorting", codes["sorting"])
      /\ raw[4] = SetField(raw[3], "trigger", codes["trigger"])
      /\ raw[5] = SetField(raw[4], "change", codes["change"])
      /\ raw[6] = SetField(raw[5], "modified", codes["modified"])
      /\ raw[7] = SetField(raw[6], "quality", codes["quality"])
      /\ raw[8] = SetField(raw[7], "unlock", codes["unlock"])
      /\ raw[9] = SetField(raw[8], "reason", codes["reason"])
  BY <1>2 DEF StatFields
<1> HIDE DEF c1, c2, c3, c4, c5, c6, c7, c8, c9
<1>5. k1 \in Nat /\ k2 \in Nat /\ k3 \in Nat /\ k4 \in Nat /\ k5 \in Nat /\ k6 \in Nat /\ k7 \in Nat /\ k8 \in Nat /\ k9 \in Nat
  BY <1>1
<1>6. /\ k1 = c1
      /\ k2 = 2 * k1 + c2
      /\ k3 = 2 * k2 + c3
      /\ k4 = 2 * k3 + c4
      /\ k5 = 2 * k4 + c5
      /\ k6 = 2 * k5 + c6
      /\ k7 = 8 * k6 + c7
      /\ k8 = 4 * k7 + c8
      /\ k9 = 16 * k8 + c9
  OBVIOUS
<1> HIDE DEF k1, k2, k3, k4, k5, k6, k7, k8, k9
<1>7. raw[9] = k9
  <2>1. raw[1] = 16384 * k1
    <3>1. raw[1] = raw[0] + (c1 - ((raw[0] \div 16384) % 4)) * 16384
      BY <1>3, Fields DEF IsField, c1
    <3>. QED
      BY <1>1, <1>2, <1>6, <3>1
  <2>2. raw[2] = 8192 * k2
    <3>1. raw[2] = raw[1] + (c2 - ((raw[1] \div 8192) % 2)) * 8192
      BY <1>3, Fields DEF IsField, c2
    <3>2. k2 = 2 * k1 + c2 /\ k1 \in Nat /\ c2 \in Nat
      BY <1>1, <1>5, <1>6
    <3>3. (16384 * k1) \div 8192 = 2 * k1 /\ (2 * k1) % 2 = 0
      BY <3>2
    <3>. QED
      BY <2>1, <3>1, <3>2, <3>3
  <2>3. raw[3] = 4096 * k3
    <3>1. raw[3] = raw[2] + (c3 - ((raw[2] \div 4096) % 2)) * 4096
      BY <1>3, Fields DEF IsField, c3
    <3>2. k3 = 2 * k2 + c3 /\ k2 \in Nat /\ c3 \in Nat
      BY <1>1, <1>5, <1>6
    <3>3. (8192 * k2) \div 4096 = 2 * k2 /\ (2 * k2) % 2 = 0
      BY <3>2
    <3>. QED
      BY <2>2, <3>1, <3>2, <3>3
  <2>4. raw[4] = 2048 * k4
    <3>1. raw[4] = raw[3] + (c4 - ((raw[3] \div 2048) % 2)) * 2048
      BY <1>3, Fields DEF IsField, c4
    <3>2. k4 = 2 * k3 + c4 /\ k3 \in Nat /\ c4 \in Nat
      BY <1>1, <1>5, <1>6
    <3>3. (4096 * k3) \div 2048 = 2 * k3 /\ (2 * k3) % 2 = 0
      BY <3>2
    <3>. QED
      BY <2>3, <3>1, <3>2, <3>3
  <2>5. raw[5] = 1024 * k5
    <3>1. raw[5] = raw[4] + (c5 - ((raw[4] \div 1024) % 2)) * 1024
      BY <1>3, Fields DEF IsField, c5
    <3>2. k5 = 2 * k4 + c5 /\ k4 \in Nat /\ c5 \in Nat
      BY <1>1, <1>5, <1>6
    <3>3. (2048 * k4) \div 1024 = 2 * k4 /\ (2 * k4) % 2 = 0
      BY <3>2
    <3>. QED
      BY <2>4, <3>1, <3>2, <3>3
  <2>6. raw[6] = 512 * k6
    <3>1. raw[6] = raw[5] + (c6 - ((raw[5] \div 512) % 2)) * 512
      BY <1>3, Fields DEF IsField, c6
    <3>2. k6 = 2 * k5 + c6 /\ k5 \in Nat /\ c6 \in Nat
      BY <1>1, <1>5, <1>6
    <3>3. (1024 * k5) \div 512 = 2 * k5 /\ (2 * k5) % 2 = 0
      BY <3>2
    <3>. QED
      BY <2>5, <3>1, <3>2, <3>3
  <2>7. raw[7] = 64 * k7
    <3>1. raw[7] = raw[6] + (c7 - ((raw[6] \div 64) % 8)) * 64
      BY <1>3, Fields DEF IsField, c7
    <3>2. k7 = 8 * k6 + c7 /\ k6 \in Nat /\ c7 \in Nat
      BY <1>1, <1>5, <1>6
    <3>3. (512 * k6) \div 64 = 8 * k6 /\ (8 * k6) % 8 = 0
      BY <3>2
    <3>. QED
      BY <2>6, <3>1, <3>2, <3>3
  <2>8. raw[8] = 16 * k8
    <3>1. raw[8] = raw[7] + (c8 - ((raw[7] \div 16) % 4)) * 16
      BY <1>3, Fields DEF IsField, c8
    <3>2. k8 = 4 * k7 + c8 /\ k7 \in Nat /\ c8 \in Nat
      BY <1>1, <1>5, <1>6
    <3>3. (64 * k7) \div 16 = 4 * k7 /\ (4 * k7) % 4 = 0
      BY <3>2
    <3>. QED
      BY <2>7, <3>1, <3>2, <3>3
  <2>9. raw[9] = 1 * k9
    <3>1. raw[9] = raw[8] + (c9 - ((raw[8] \div 1) % 16)) * 1
      BY <1>3, Fields DEF IsField, c9
    <3>2. k9 = 16 * k8 + c9 /\ k8 \in Nat /\ c9 \in Nat
      BY <1>1, <1>5, <1>6
    <3>3. (16 * k8) \div 1 = 16 * k8 /\ (16 * k8) % 16 = 0
      BY <3>2
    <3>. QED
      BY <2>8, <3>1, <3>2, <3>3
  <2>. QED
    BY <2>9, <1>5
<1>8. /\ k1 % 4 = c1
      /\ k2 % 2 = c2
      /\ k3 % 2 = c3
      /\ k4 % 2 = c4
      /\ k5 % 2 = c5
      /\ k6 % 2 = c6
      /\ k7 % 8 = c7
      /\ k8 % 4 = c8
      /\ k9 % 16 = c9
  BY <1>1, <1>5, <1>6
<1>9. /\ k9 \div 16384 = k1
      /\ k9 \div 8192 = k2
      /\ k9 \div 4096 = k3
      /\ k9 \div 2048 = k4
      /\ k9 \div 1024 = k5
      /\ k9 \div 512 = k6
      /\ k9 \div 64 = k7
      /\ k9 \div 16 = k8
      /\ k9 \div 1 = k9
  BY <1>1, <1>5, <1>6
<1>10. /\ GetField(raw[9], "error") = c1 /\ 2^Bits["error"] = 4
       /\ GetField(raw[9], "sync") = c2 /\ 2^Bits["sync"] = 2
       /\ GetField(raw[9], "sorting") = c3 /\ 2^Bits["sorting"] = 2
       /\ GetField(raw[9], "trigger") = c4 /\ 2^Bits["trigger"] = 2
       /\ GetField(raw[9], "change") = c5 /\ 2^Bits["change"] = 2
       /\ GetField(raw[9], "modified") = c6 /\ 2^Bits["modified"] = 2
       /\ GetField(raw[9], "quality") = c7 /\ 2^Bits["quality"] = 8
       /\ GetField(raw[9], "unlock") = c8 /\ 2^Bits["unlock"] = 4
       /\ GetField(raw[9], "reason") = c9 /\ 2^Bits["reason"] = 16
  <2>1. GetField(raw[9], "error") = c1 /\ 2^Bits["error"] = 4
    BY <1>7, <1>8, <1>9, Fields DEF IsField
  <2>2. GetField(raw[9], "sync") = c2 /\ 2^Bits["sync"] = 2
    BY <1>7, <1>8, <1>9, Fields DEF IsField
  <2>3. GetField(raw[9], "sorting") = c3 /\ 2^Bits["sorting"] = 2
    BY <1>7, <1>8, <1>9, Fields DEF IsField
  <2>4. GetField(raw[9], "trigger") = c4 /\ 2^Bits["trigger"] = 2
    BY <1>7, <1>8, <1>9, Fields DEF IsField
  <2>5. GetField(raw[9], "change") = c5 /\ 2^Bits["change"] = 2
    BY <1>7, <1>8, <1>9, Fields DEF IsField
  <2>6. GetField(raw[9], "modified") = c6 /\ 2^Bits["modified"] = 2
    BY <1>7, <1>8, <1>9, Fields DEF IsField
  <2>7. GetField(raw[9], "quality") = c7 /\ 2^Bits["quality"] = 8
    BY <1>7, <1>8, <1>9, Fields DEF IsField
  <2>8. GetField(raw[9], "unlock") = c8 /\ 2^Bits["unlock"] = 4
    BY <1>7, <1>8, <1>9, Fields DEF IsField
  <2>9. GetField(raw[9], "reason") = c9 /\ 2^Bits["reason"] = 16
    BY <1>7, <1>8, <1>9, Fields DEF IsField
  <2>. QED
    BY <2>1, <2>2, <2>3, <2>4, <2>5, <2>6, <2>7, <2>8, <2>9
<1>. QED
  BY <1>10 DEF StatField, Stat, raw, c1, c2, c3, c4, c5, c6, c7, c8, c9

(***************************************************************************)
(* Decoding what was encoded.                                              *)
(***************************************************************************)
LEMMA ClockRead ==
  ASSUME NEW q \in [leap : Int, pending : BOOLEAN, level : Int],
         q.leap \in {0, 1}, q.level \in 0..15
  PROVE  ParsedQuality(TimeQuality(q)) = q
<1> DEFINE a == IF q.leap = 1 THEN 1 ELSE 0
           b == IF q.pending THEN 1 ELSE 0
           x == 32 * a + 16 * b + q.level
<1>1. TimeQuality(q) = x
  BY DEF TimeQuality
<1>2. a \in 0..1 /\ b \in 0..1 /\ q.level \in Int
  OBVIOUS
<1> HIDE DEF a, b
<1>3. x \div 64 = 0 /\ x \div 32 = a /\ x \div 16 = 2 * a + b /\ x % 16 = q.level
  <2> DEFINE lev == q.level
  <2>1. lev \in 0..15 /\ x = 32 * a + 16 * b + lev
    OBVIOUS
  <2> HIDE DEF x, lev
  <2>2. x \div 64 = 0 /\ x \div 32 = a /\ x \div 16 = 2 * a + b /\ x % 16 = lev
    BY <1>2, <2>1
  <2>. QED
    BY <2>2 DEF lev
<1> HIDE DEF x
<1>4. Bit(x, 6) = (x \div 64) % 2 /\ Bit(x, 5) = (x \div 32) % 2 /\ Bit(x, 4) = (x \div 16) % 2
  BY DEF Bit
<1>5. Bit(x, 6) = 0 /\ Bit(x, 5) = a /\ Bit(x, 4) = b
  <2>1. 0 % 2 = 0 /\ a % 2 = a /\ (2 * a + b) % 2 = b
    BY <1>2
  <2>. QED
    BY <1>3, <1>4, <2>1
<1>6. /\ (a = 1 <=> q.leap = 1) /\ (b = 1 <=> q.pending)
  BY DEF a, b
<1>. QED
  BY <1>1, <1>3, <1>5, <1>6 DEF ParsedQuality

LEMMA RateRead ==
  ASSUME NEW n \in Nat, n < 32768
  PROVE  FramesPerSecond(ToInt16(ToShort(RawDataRate(<<n, 1>>)))) = <<n, 1>>
<1>1. RawDataRate(<<n, 1>>) = n
  <2>1. CASE n = 0
    BY <2>1 DEF RawDataRate
  <2>2. CASE n # 0
    <3>1. n >= 1 /\ n \div 1 = n
      BY <2>2
    <3>. QED
      BY <3>1 DEF RawDataRate
  <2>. QED
    BY <2>1, <2>2
<1>2. ToInt16(ToShort(n)) = n
  <2>1. n % 65536 = n /\ n < 32768
    OBVIOUS
  <2>. QED
    BY <2>1 DEF ToShort, ToInt16
<1>. QED
  BY <1>1, <1>2 DEF FramesPerSecond

LEMMA PackRead ==
  ASSUME NEW bits, Len(bits) \in Nat, \A i \in 1..Len(bits) : bits[i] \in BOOLEAN,
         NEW n \in Nat, NEW i \in 16 * n + 1 .. Smaller(16 * n + 16, Len(bits))
  PROVE  bits[i] <=> (i - 1) % 16 \in Pack(bits)[n + 1]
<1> DEFINE k == Len(bits)
           r == i - 1 - 16 * n
<1>1. k \in Nat
  OBVIOUS
<1>2. i \in Int /\ 16 * n + 1 <= i /\ i <= 16 * n + 16 /\ i <= k
  BY DEF Smaller
<1> HIDE DEF k
<1>3. r \in 0..15 /\ (i - 1) % 16 = r /\ 16 * n + r < k /\ 16 * n + r + 1 = i
  BY <1>1, <1>2
<1>4. n + 1 \in 1..Words(k)
  BY <1>1, <1>2 DEF Words
<1>5. Pack(bits)[n + 1] = {j \in 0..15 : 16 * (n + 1 - 1) + j < k /\ bits[16 * (n + 1 - 1) + j + 1]}
  BY <1>4 DEF Pack, k
<1>6. 16 * (n + 1 - 1) = 16 * n
  OBVIOUS
<1>7. r \in Pack(bits)[n + 1] <=> bits[16 * n + r + 1]
  BY <1>3, <1>5, <1>6
<1>. QED
  BY <1>3, <1>7

(***************************************************************************)
(* Section by section.                                                     *)
(***************************************************************************)

(* A place in a frame at which the writer writes an item.                  *)
Ready(l) ==
  /\ TypeOK /\ Placed(l) /\ l.item < WriteCount(l)
  /\ kind = "DATA" => sample \in [1..Len(pdc.pmus) -> Feeds]
  /\ kind = "CFG3" => pdc.version = 2
  /\ l.part = 2 /\ kind \in Configurations => ~Mismatch(pdc.pmus[l.pmu])

(* What the reader makes of it, by format g.                               *)
Taken(l, g) == Decode(Sec(l), Encode(Sec(l), Item(l), pdc.pmus[l.pmu].format), g)

LEMMA Plainly ==
  ASSUME NEW l, NEW x, Sec(l) \notin {"STAT", "ANALOG", "DIGUNIT", "DIGITAL"},
         Kept(Sec(l), Item(l), pdc.pmus[l.pmu].format) => x = Item(l)
  PROVE  Stored(l, x)
BY DEF Stored

LEMMA AtASection ==
  ASSUME NEW l, Ready(l)
  PROVE  /\ Sec(l) \in Names \cup {"FORMAT", "COUNTS", "PHUNIT", "ANUNIT", "DIGUNIT"} =>
              l.part = 2 /\ kind \in Configurations
         /\ Sec(l) \in {"STAT", "PHASORS", "FREQ", "ANALOG", "DIGITAL"} =>
              l.part = 2 /\ kind = "DATA"
         /\ l.part = 2 => l.pmu \in 1..Len(pdc.pmus)
         /\ l.item \in Nat
<1>1. InLayout(l) /\ kind \in Kinds /\ l.part \in 1..3
  BY PlacedPmu, PdcFacts DEF Ready, Placed
<1>2. /\ l.part = 1 => Sec(l) \in {"HEADER", "CONT_IDX", "TIME_BASE", "NUM_PMU",
                                   "MESSAGE", "CMD", "EXTFRAME"}
      /\ l.part = 3 => Sec(l) \in {"DATA_RATE", "CHK"}
  BY <1>1, Ends
<1>3. l.part = 2 =>
        /\ kind \in Configurations \cup {"DATA"}
        /\ kind \in Configurations =>
             Sec(l) \in {"STN", "FORMAT", "COUNTS", "PHNAM", "ANNAM", "DGNAM",
                         "PHUNIT", "ANUNIT", "DIGUNIT", "FNOM", "PLACE"}
        /\ kind = "DATA" => Sec(l) \in {"STAT", "PHASORS", "FREQ", "ANALOG", "DIGITAL"}
  BY <1>1, PmuSections
<1>4. l.item \in Nat /\ (l.part = 2 => l.pmu \in 1..Len(pdc.pmus))
  BY PlacedPmu DEF Ready
<1>. QED
  BY <1>1, <1>2, <1>3, <1>4 DEF Names, Configurations

(* The head, the tail, and what is written as it is.                       *)
LEMMA ClockKept ==
  ASSUME NEW l, Ready(l), Sec(l) = "HEADER", NEW g
  PROVE  Stored(l, Taken(l, g))
<1>1. Item(l) = pdc.clock /\ pdc.clock \in [leap : Int, pending : BOOLEAN, level : Int]
  BY ValuesAssumption DEF Item, Names, Ready, TypeOK
<1>2. Taken(l, g) = ParsedQuality(TimeQuality(pdc.clock))
  BY <1>1 DEF Taken, Encode, Decode, Names
<1>3. Kept(Sec(l), Item(l), pdc.pmus[l.pmu].format) =>
        pdc.clock.leap \in {0, 1} /\ pdc.clock.level \in 0..15
  BY <1>1 DEF Kept, Names
<1>. QED
  BY <1>1, <1>2, <1>3, ClockRead, Plainly

LEMMA TimeBaseKept ==
  ASSUME NEW l, Ready(l), Sec(l) = "TIME_BASE", NEW g
  PROVE  Stored(l, Taken(l, g))
<1> DEFINE v == pdc.timeBase
<1>1. Item(l) = v /\ v \in Nat \X Nat
  BY ValuesAssumption DEF Item, Names, Ready, TypeOK
<1>2. Taken(l, g) = <<v[1] % 256, v[2] % 2^24>>
  BY <1>1 DEF Taken, Encode, Decode, Names
<1>3. Kept(Sec(l), Item(l), pdc.pmus[l.pmu].format) => v[1] < 256 /\ v[2] < 2^24
  BY <1>1 DEF Kept, Names
<1> HIDE DEF v
<1>4. ASSUME v[1] < 256, v[2] < 2^24
      PROVE  <<v[1] % 256, v[2] % 2^24>> = v
  <2>1. v[1] % 256 = v[1] /\ v[2] % 2^24 = v[2]
    BY <1>1, <1>4
  <2>. QED
    BY <1>1, <2>1
<1>. QED
  BY <1>1, <1>2, <1>3, <1>4, Plainly

LEMMA RateKept ==
  ASSUME NEW l, Ready(l), Sec(l) = "DATA_RATE", NEW g
  PROVE  Stored(l, Taken(l, g))
<1> DEFINE v == pdc.dataRate
<1>1. Item(l) = v /\ v \in Int \X Int
  BY ValuesAssumption DEF Item, Names, Ready, TypeOK
<1>2. Taken(l, g) = FramesPerSecond(ToInt16(ToShort(RawDataRate(v))))
  BY <1>1 DEF Taken, Encode, Decode, Names
<1>3. Kept(Sec(l), Item(l), pdc.pmus[l.pmu].format) => v[1] >= 0 /\ v[1] < 32768 /\ v[2] = 1
  BY <1>1 DEF Kept, Names
<1> HIDE DEF v
<1>4. ASSUME v[1] >= 0, v[1] < 32768, v[2] = 1
      PROVE  Taken(l, g) = v
  <2>1. v = <<v[1], 1>> /\ v[1] \in Nat /\ v[1] < 32768
    BY <1>1, <1>4
  <2>. QED
    BY <1>2, <2>1, RateRead
<1>. QED
  BY <1>1, <1>3, <1>4, Plainly

LEMMA CountKept ==
  ASSUME NEW l, Ready(l), Sec(l) = "NUM_PMU", NEW g
  PROVE  Stored(l, Taken(l, g))
<1>1. Item(l) = Len(pdc.pmus) /\ ToShort(Len(pdc.pmus)) = Len(pdc.pmus)
  BY PdcFacts, Shorts DEF Item, Names, Ready
<1>2. Taken(l, g) = ToShort(Item(l))
  BY DEF Taken, Encode, Decode, Names
<1>. QED
  BY <1>1, <1>2, Plainly

LEMMA PlainKept ==
  ASSUME NEW l, Ready(l), NEW g,
         Sec(l) \notin Names \cup {"HEADER", "TIME_BASE", "NUM_PMU", "DATA_RATE", "FORMAT", "COUNTS",
                                   "PHUNIT", "ANUNIT", "DIGUNIT", "STAT", "PHASORS", "FREQ",
                                   "ANALOG", "DIGITAL"}
  PROVE  Stored(l, Taken(l, g))
<1>1. Taken(l, g) = Item(l)
  BY DEF Taken, Encode, Decode
<1>. QED
  BY <1>1, Plainly

(* Configurations.                                                         *)
LEMMA NameKept ==
  ASSUME NEW l, Ready(l), Sec(l) \in Names, NEW g
  PROVE  Stored(l, Taken(l, g))
<1> DEFINE v == Name(l)
<1>1. Item(l) = v
  BY DEF Item, Names
<1>2. v \in Nat
  BY NameLengths DEF Ready
<1>3. Taken(l, g) = IF kind = "CFG2" THEN Smaller(v, 16) ELSE v % 256
  <2> HIDE DEF v
  <2>1. ASSUME NEW f
        PROVE  Encode(Sec(l), v, f) = IF kind = "CFG2" THEN Smaller(v, 16) ELSE v % 256
    BY DEF Encode, Names
  <2>2. ASSUME NEW w
        PROVE  Decode(Sec(l), w, g) = w
    BY DEF Decode, Names
  <2>. QED
    BY <1>1, <2>1, <2>2 DEF Taken
<1>4. Kept(Sec(l), Item(l), pdc.pmus[l.pmu].format) => IF kind = "CFG2" THEN v <= 16 ELSE v < 256
  BY <1>1 DEF Kept, Names
<1> HIDE DEF v
<1>5. CASE kind = "CFG2"
  <2>1. v <= 16 => Smaller(v, 16) = v
    BY <1>2 DEF Smaller
  <2>. QED
    BY <1>1, <1>3, <1>4, <1>5, <2>1, Plainly DEF Names
<1>6. CASE kind # "CFG2"
  <2>1. v < 256 => v % 256 = v
    BY <1>2
  <2>. QED
    BY <1>1, <1>3, <1>4, <1>6, <2>1, Plainly DEF Names
<1>. QED
  BY <1>5, <1>6

LEMMA FormatKept ==
  ASSUME NEW l, Ready(l), Sec(l) = "FORMAT", NEW g
  PROVE  Stored(l, Taken(l, g))
<1> DEFINE v == pdc.pmus[l.pmu].format
<1>1. Item(l) = v
  BY DEF Item, Names
<1>2. v \in [0..3 -> BOOLEAN]
  BY AtASection, PmuFacts DEF Ready
<1>3. Taken(l, g) = [b \in 0..3 |-> b \in {i \in 0..3 : v[i]}]
  BY <1>1 DEF Taken, Encode, Decode, Names
<1> HIDE DEF v
<1>4. [b \in 0..3 |-> b \in {i \in 0..3 : v[i]}] = v
  BY <1>2
<1>. QED
  BY <1>1, <1>3, <1>4, Plainly

LEMMA CountsKept ==
  ASSUME NEW l, Ready(l), Sec(l) = "COUNTS", NEW g
  PROVE  Stored(l, Taken(l, g))
<1> DEFINE c == pdc.pmus[l.pmu]
           ph == Len(c.ph)
           an == Len(c.an)
           dg == Words(Len(c.dg))
<1>1. Item(l) = <<ph, an, dg>>
  BY DEF Item, Names
<1>2. ph \in Short /\ an \in Short /\ dg \in Short
  BY AtASection, PmuFacts DEF Ready
<1>3. Taken(l, g) = <<ToShort(ph), ToShort(an), ToShort(dg)>>
  <2> HIDE DEF ph, an, dg
  <2>. QED
    BY <1>1 DEF Taken, Encode, Decode, Names
<1> HIDE DEF ph, an, dg
<1>4. Taken(l, g) = Item(l)
  BY <1>1, <1>2, <1>3, Shorts
<1>. QED
  BY <1>4, Plainly

(* The units of a PMU that the writer did not refuse.                      *)
LEMMA Units ==
  ASSUME NEW l, Ready(l), l.part = 2, kind \in Configurations
  PROVE  LET c == pdc.pmus[l.pmu] IN
         /\ pdc.version \in {1, 2} /\ (kind = "CFG3" => pdc.version = 2)
         /\ pdc.version = 1 => /\ c.phunit \in Seq([type : Byte, scalar : Nat])
                               /\ c.anunit \in Seq([type : Int, scalar : Int])
         /\ pdc.version = 2 =>
              c.phunit \in Seq([bits : Nat, volt : Byte, component : 0..7, scale : Int])
         /\ c.normal \in Seq(BOOLEAN)
         /\ Len(c.ph) = Len(c.phunit) /\ Len(c.an) = Len(c.anunit)
<1>1. l.pmu \in 1..Len(pdc.pmus) /\ pdc \in Pdcs
  BY AtASection DEF Ready, TypeOK
<1>2. HasUnits(pdc.version, pdc.pmus[l.pmu]) /\ pdc.version \in {1, 2}
  BY <1>1, ValuesAssumption
<1>3. ~Mismatch(pdc.pmus[l.pmu]) /\ (kind = "CFG3" => pdc.version = 2)
  BY DEF Ready
<1>4. LET c == pdc.pmus[l.pmu] IN Len(c.ph) = Len(c.phunit) /\ Len(c.an) = Len(c.anunit)
  BY <1>3 DEF Mismatch
<1>5. CASE pdc.version = 1
  BY <1>2, <1>3, <1>4, <1>5 DEF HasUnits
<1>6. CASE pdc.version = 2
  BY <1>2, <1>3, <1>4, <1>6 DEF HasUnits
<1>. QED
  BY <1>2, <1>5, <1>6

LEMMA PhasorUnitKept ==
  ASSUME NEW l, Ready(l), Sec(l) = "PHUNIT", NEW g
  PROVE  Stored(l, Taken(l, g))
<1> DEFINE c == pdc.pmus[l.pmu]
           u == c.phunit[l.item + 1]
           v == PhasorUnit(u)
<1>1. l.part = 2 /\ kind \in Configurations
  BY AtASection
<1>2. l.item + 1 \in 1..Len(c.phunit)
  <2> DEFINE n == Len(c.ph)
             m == Len(c.phunit)
  <2>1. n \in Nat /\ l.item \in Nat
    BY <1>1, AtASection, PmuFacts DEF Ready
  <2>2. l.item < n
    BY DEF WriteCount, Ready
  <2>3. n = m
    BY <1>1, Units
  <2> HIDE DEF n, m
  <2>4. l.item + 1 \in 1..m
    BY <2>1, <2>2, <2>3
  <2>. QED
    BY <2>4 DEF m
<1>3. /\ pdc.version = 1 => u \in [type : Byte, scalar : Nat]
      /\ pdc.version = 2 => u \in [bits : Nat, volt : Byte, component : 0..7, scale : Int]
      /\ kind = "CFG3" => pdc.version = 2
      /\ pdc.version \in {1, 2}
  <2>1. /\ pdc.version \in {1, 2} /\ (kind = "CFG3" => pdc.version = 2)
        /\ pdc.version = 1 => c.phunit \in Seq([type : Byte, scalar : Nat])
        /\ pdc.version = 2 =>
             c.phunit \in Seq([bits : Nat, volt : Byte, component : 0..7, scale : Int])
    BY <1>1, Units
  <2>2. ASSUME NEW S, c.phunit \in Seq(S)
        PROVE  u \in S
    <3> HIDE DEF c
    <3>. QED
      BY <1>2, <2>2
  <2>. QED
    BY <2>1, <2>2
<1>4. Item(l) = v
  BY DEF Item, Names
<1> HIDE DEF u, v
<1>5. CASE kind = "CFG2"
  <2>1. v \in [type : Byte, scalar : Int]
    BY <1>3, <1>5 DEF v, PhasorUnit, Downgraded
  <2>2. Taken(l, g) = [type |-> v.type % 256, scalar |-> v.scalar % 2^24]
    BY <1>4, <1>5 DEF Taken, Encode, Decode, Names
  <2>3. Kept(Sec(l), Item(l), c.format) => v.scalar \in Nat /\ v.scalar < 2^24
    BY <1>4, <1>5 DEF Kept, Names
  <2>4. v.type % 256 = v.type
    BY <2>1 DEF Byte
  <2>5. v.scalar \in Nat /\ v.scalar < 2^24 => v.scalar % 2^24 = v.scalar
    OBVIOUS
  <2>6. v.scalar \in Nat /\ v.scalar < 2^24 => Taken(l, g) = v
    BY <2>1, <2>2, <2>4, <2>5
  <2>. QED
    BY <1>4, <2>3, <2>6, Plainly
<1>6. CASE kind = "CFG3"
  <2>1. v \in [bits : Nat, volt : Byte, component : 0..7, scale : Int]
    BY <1>3, <1>6 DEF v, PhasorUnit, Downgraded
  <2>2. Taken(l, g) = [bits |-> v.bits % 256, volt |-> 8 * (v.volt % 2),
                       component |-> v.component % 8, scale |-> v.scale]
    BY <1>4, <1>6 DEF Taken, Encode, Decode, Names
  <2>3. Kept(Sec(l), Item(l), c.format) => v.volt = 0 /\ v.bits < 256
    BY <1>4, <1>6 DEF Kept, Names
  <2>4. ASSUME v.volt = 0, v.bits < 256
        PROVE  Taken(l, g) = v
    <3>1. v.bits % 256 = v.bits /\ 8 * (v.volt % 2) = v.volt /\ v.component % 8 = v.component
      BY <2>1, <2>4
    <3>. QED
      BY <2>1, <2>2, <3>1
  <2>. QED
    BY <1>4, <2>3, <2>4, Plainly
<1>. QED
  BY <1>1, <1>5, <1>6 DEF Configurations

LEMMA AnalogUnitKept ==
  ASSUME NEW l, Ready(l), Sec(l) = "ANUNIT", NEW g
  PROVE  Stored(l, Taken(l, g))
<1> DEFINE c == pdc.pmus[l.pmu]
           u == c.anunit[l.item + 1]
           v == AnalogUnit(u)
<1>1. l.part = 2 /\ kind \in Configurations
  BY AtASection
<1>2. l.item + 1 \in 1..Len(c.anunit)
  <2> DEFINE n == Len(c.an)
             m == Len(c.anunit)
  <2>1. n \in Nat /\ l.item \in Nat
    BY <1>1, AtASection, PmuFacts DEF Ready
  <2>2. l.item < n
    BY DEF WriteCount, Ready
  <2>3. n = m
    BY <1>1, Units
  <2> HIDE DEF n, m
  <2>4. l.item + 1 \in 1..m
    BY <2>1, <2>2, <2>3
  <2>. QED
    BY <2>4 DEF m
<1>3. /\ pdc.version = 1 => u \in [type : Int, scalar : Int]
      /\ pdc.version \in {1, 2}
  <2>1. /\ pdc.version \in {1, 2}
        /\ pdc.version = 1 => c.anunit \in Seq([type : Int, scalar : Int])
    BY <1>1, Units
  <2>2. ASSUME NEW S, c.anunit \in Seq(S)
        PROVE  u \in S
    <3> HIDE DEF c
    <3>. QED
      BY <1>2, <2>2
  <2>. QED
    BY <2>1, <2>2
<1>4. Item(l) = v
  BY DEF Item, Names
<1> HIDE DEF u, v
<1>5. CASE kind = "CFG2"
  <2>1. v = [type |-> v.type, scalar |-> v.scalar]
    BY <1>3, <1>5 DEF v, AnalogUnit, Downgraded
  <2>2. Taken(l, g) = [type |-> v.type % 256, scalar |-> v.scalar % 2^24]
    BY <1>4, <1>5 DEF Taken, Encode, Decode, Names
  <2>3. Kept(Sec(l), Item(l), c.format) => v.type \in Byte /\ v.scalar \in Nat /\ v.scalar < 2^24
    BY <1>4, <1>5 DEF Kept, Names
  <2>4. ASSUME v.type \in Byte, v.scalar \in Nat, v.scalar < 2^24
        PROVE  Taken(l, g) = v
    <3>1. v.type % 256 = v.type
      BY <2>4 DEF Byte
    <3>2. v.scalar % 2^24 = v.scalar
      BY <2>4
    <3>. QED
      BY <2>1, <2>2, <3>1, <3>2
  <2>. QED
    BY <1>4, <2>3, <2>4, Plainly
<1>6. CASE kind = "CFG3"
  <2>1. Taken(l, g) = v
    BY <1>4, <1>6 DEF Taken, Encode, Decode, Names
  <2>. QED
    BY <1>4, <2>1, Plainly
<1>. QED
  BY <1>1, <1>5, <1>6 DEF Configurations

(* Words of digital channels, whose bits the reader takes as they are.     *)
LEMMA WordsKept ==
  ASSUME NEW l, Sec(l) \in {"DIGUNIT", "DIGITAL"}, l.item \in Nat, NEW x,
         Len(Channels(l)) \in Nat, \A i \in 1..Len(Channels(l)) : Channels(l)[i] \in BOOLEAN,
         Item(l) = Pack(Channels(l))[l.item + 1], x = Item(l)
  PROVE  Stored(l, x)
<1> DEFINE bits == Channels(l)
<1>1. Len(bits) \in Nat /\ (\A i \in 1..Len(bits) : bits[i] \in BOOLEAN)
      /\ x = Pack(bits)[l.item + 1]
  OBVIOUS
<1> HIDE DEF bits
<1>2. \A i \in 16 * l.item + 1 .. Smaller(16 * l.item + 16, Len(bits)) :
        bits[i] <=> (i - 1) % 16 \in x
  BY <1>1, PackRead
<1>. QED
  BY <1>2 DEF Stored, bits

LEMMA NormalKept ==
  ASSUME NEW l, Ready(l), Sec(l) = "DIGUNIT", NEW g
  PROVE  Stored(l, Taken(l, g))
<1> DEFINE bits == pdc.pmus[l.pmu].normal
<1>1. Item(l) = Pack(bits)[l.item + 1] /\ Channels(l) = bits
  BY DEF Item, Names, Channels
<1>2. Taken(l, g) = Item(l)
  BY DEF Taken, Encode, Decode, Names
<1>3. l.item \in Nat /\ bits \in Seq(BOOLEAN)
  BY AtASection, Units
<1> HIDE DEF bits
<1>4. Len(bits) \in Nat /\ \A i \in 1..Len(bits) : bits[i] \in BOOLEAN
  BY <1>3
<1>. QED
  BY <1>1, <1>2, <1>3, <1>4, WordsKept

(* Data frames.                                                            *)
LEMMA SampleFacts ==
  ASSUME NEW l, Ready(l), l.part = 2, kind = "DATA"
  PROVE  LET v == sample[l.pmu]  c == pdc.pmus[l.pmu] IN
         /\ v.stat \in [StatField -> Nat] /\ v.freq \in Int \X Int
         /\ v.ph \in Seq(Int \X Int) /\ v.an \in Seq(Int) /\ v.dg \in Seq(BOOLEAN)
         /\ Len(c.ph) <= Len(v.ph) /\ Len(c.an) <= Len(v.an) /\ Len(c.dg) <= Len(v.dg)
         /\ Len(c.ph) \in Nat /\ Len(c.an) \in Nat /\ Len(c.dg) \in Nat
         /\ c.format \in [0..3 -> BOOLEAN]
<1>1. l.pmu \in 1..Len(pdc.pmus) /\ pdc \in Pdcs /\ sample[l.pmu] \in Feeds
  BY AtASection DEF Ready, TypeOK
<1>2. LET v == sample[l.pmu]  c == pdc.pmus[l.pmu] IN
      /\ v.stat \in [StatField -> Nat] /\ v.freq \in Int \X Int
      /\ v.ph \in Seq(Int \X Int) /\ v.an \in Seq(Int) /\ v.dg \in Seq(BOOLEAN)
      /\ Answers(v, c)
  BY <1>1, ValuesAssumption
<1>3. LET c == pdc.pmus[l.pmu] IN
      /\ Len(c.ph) \in Nat /\ Len(c.an) \in Nat /\ Len(c.dg) \in Nat
      /\ c.format \in [0..3 -> BOOLEAN]
  BY <1>1, PmuFacts DEF Ready
<1>. QED
  BY <1>2, <1>3 DEF Answers

LEMMA StatKept ==
  ASSUME NEW l, Ready(l), Sec(l) = "STAT", NEW g
  PROVE  Stored(l, Taken(l, g))
<1> DEFINE v == sample[l.pmu].stat
<1>1. Item(l) = v
  BY DEF Item, Names
<1>2. v \in [StatField -> Nat]
  BY AtASection, SampleFacts
<1>3. Taken(l, g) = [i \in DOMAIN Bits |-> GetField(Stat(v), i)]
  BY <1>1 DEF Taken, Encode, Decode, Names
<1> HIDE DEF v
<1>4. DOMAIN Bits = StatField /\ \A i \in StatField : 2^Bits[i] \in Nat
  <2>1. DOMAIN Bits = StatField
    BY DEF Bits, StatField
  <2>. QED
    BY <2>1, Fields DEF IsField, StatField
<1>5. ASSUME NEW i \in DOMAIN Bits, v[i] < 2^Bits[i]
      PROVE  Taken(l, g)[i] = v[i]
  <2>1. Taken(l, g)[i] = v[i] % 2^Bits[i]
    BY <1>2, <1>3, <1>4, StatWord
  <2>2. v[i] \in Nat /\ 2^Bits[i] \in Nat
    BY <1>2, <1>4
  <2>3. \A m, n \in Nat : m < n => m % n = m
    OBVIOUS
  <2>. QED
    BY <1>5, <2>1, <2>2, <2>3
<1>6. ~Kept(Sec(l), Item(l), pdc.pmus[l.pmu].format)
  BY DEF Kept, Names
<1>. QED
  BY <1>1, <1>5, <1>6 DEF Stored

LEMMA PhasorKept ==
  ASSUME NEW l, Ready(l), Sec(l) = "PHASORS", NEW g
  PROVE  Stored(l, Taken(l, g))
<1> DEFINE v == sample[l.pmu].ph[l.item + 1]
           f == pdc.pmus[l.pmu].format
<1>1. Item(l) = v
  BY DEF Item, Names
<1>2. v \in Int \X Int
  <2> DEFINE ph == sample[l.pmu].ph
             n == Len(pdc.pmus[l.pmu].ph)
  <2>1. l.part = 2 /\ kind = "DATA" /\ l.item \in Nat
    BY AtASection
  <2>2. l.item < n
    BY DEF WriteCount, Ready
  <2>3. n <= Len(ph) /\ ph \in Seq(Int \X Int) /\ n \in Nat
    BY <2>1, SampleFacts
  <2> HIDE DEF n, ph
  <2>4. l.item + 1 \in 1..Len(ph)
    BY <2>1, <2>2, <2>3
  <2>. QED
    BY <2>3, <2>4 DEF ph
<1>3. Taken(l, g) = ToPhasor(v, f)
  BY <1>1 DEF Taken, Encode, Decode, Names
<1>4. Kept(Sec(l), Item(l), f) =>
        /\ f[0] => v[1] > 0 \/ (v[1] = 0 /\ (~f[1] \/ v[2] # 0))
        /\ ~f[1] => PhasorFits(v, f)
  BY <1>1 DEF Kept, Names
<1> HIDE DEF v, f
<1>5. ASSUME f[0] => v[1] > 0 \/ (v[1] = 0 /\ (~f[1] \/ v[2] # 0)),
             ~f[1] => PhasorFits(v, f)
      PROVE  ToPhasor(v, f) = v
  <2>1. CASE f[0] /\ (f[1] \/ v # <<0, 0>>)
    <3>1. v[1] \in Int /\ v[2] \in Int
      BY <1>2
    <3>2. v = <<0, 0>> => v[1] = 0 /\ v[2] = 0
      OBVIOUS
    <3>3. ~(v[1] < 0) /\ v # <<0, 0>>
      BY <1>5, <2>1, <3>1, <3>2
    <3>4. Polar(v) = v
      BY <3>3 DEF Polar
    <3>. QED
      BY <1>5, <2>1, <3>4 DEF ToPhasor
  <2>2. CASE ~(f[0] /\ (f[1] \/ v # <<0, 0>>))
    BY <1>5, <2>2 DEF ToPhasor
  <2>. QED
    BY <2>1, <2>2
<1>. QED
  BY <1>1, <1>3, <1>4, <1>5, Plainly DEF f

LEMMA Tenths ==
  ASSUME NEW x \in Int, x % 10 = 0
  PROVE  10 * ToInt(x) = x
<1>1. CASE x >= 0
  BY <1>1 DEF ToInt
<1>2. CASE ~(x >= 0)
  <2> DEFINE y == x \div 10
  <2>1. y \in Int /\ x = 10 * y
    OBVIOUS
  <2> HIDE DEF y
  <2>2. -x = 10 * (-y) /\ (10 * (-y)) \div 10 = -y
    BY <2>1
  <2>. QED
    BY <1>2, <2>1, <2>2 DEF ToInt
<1>. QED
  BY <1>1, <1>2

LEMMA FrequencyKept ==
  ASSUME NEW l, Ready(l), Sec(l) = "FREQ", NEW g, g = pdc.pmus[l.pmu].format
  PROVE  Stored(l, Taken(l, g))
<1> DEFINE v == sample[l.pmu].freq
<1>1. Item(l) = v
  BY DEF Item, Names
<1>2. v \in Int \X Int /\ g[3] \in BOOLEAN
  BY AtASection, SampleFacts
<1>3. Taken(l, g) = IF g[3] THEN v ELSE FromIntFrequency(ToIntFrequency(v))
  <2>1. Encode(Sec(l), Item(l), g) = IF g[3] THEN v ELSE ToIntFrequency(v)
    BY <1>1 DEF Encode, Names
  <2>2. \A w : Decode(Sec(l), w, g) = IF g[3] THEN w ELSE FromIntFrequency(w)
    BY DEF Decode, Names
  <2>3. CASE g[3]
    BY <2>1, <2>2, <2>3 DEF Taken
  <2>4. CASE ~g[3]
    BY <2>1, <2>2, <2>4 DEF Taken
  <2>. QED
    BY <2>3, <2>4
<1>4. Kept(Sec(l), Item(l), g) => g[3] \/ (v[1] % 10 = 0 /\ FrequencyFits(v))
  BY <1>1 DEF Kept, Names
<1> HIDE DEF v
<1>5. v[1] % 10 = 0 /\ FrequencyFits(v) => FromIntFrequency(ToIntFrequency(v)) = v
  <2> DEFINE w == <<ToInt(v[1]), v[2]>>
  <2>1. w # Undefined
    <3>1. Len(w) = 2 /\ Len(Undefined) = 1
      BY DEF Undefined
    <3>. QED
      BY <3>1
  <2>2. w[1] = ToInt(v[1]) /\ w[2] = v[2]
    OBVIOUS
  <2> HIDE DEF w
  <2>3. FrequencyFits(v) => FromIntFrequency(ToIntFrequency(v)) = <<10 * w[1], w[2]>>
    BY <2>1 DEF ToIntFrequency, FromIntFrequency, w
  <2>4. v[1] % 10 = 0 => <<10 * ToInt(v[1]), v[2]>> = v
    BY <1>2, Tenths
  <2>. QED
    BY <2>2, <2>3, <2>4
<1>. QED
  BY <1>1, <1>3, <1>4, <1>5, Plainly

LEMMA AnalogKept ==
  ASSUME NEW l, Ready(l), Sec(l) = "ANALOG", NEW g
  PROVE  Stored(l, Taken(l, g))
<1> DEFINE v == <<sample[l.pmu].an[l.item + 1], 1>>
           f == pdc.pmus[l.pmu].format
<1>1. Item(l) = v
  BY DEF Item, Names
<1>2. f[2] => Taken(l, g) = FromAnalog(v)
  BY <1>1 DEF Taken, Encode, Decode, Names
<1>3. FromAnalog(v)[1] = v[1]
  BY DEF FromAnalog
<1>4. ~Kept(Sec(l), Item(l), f)
  BY DEF Kept, Names
<1>. QED
  BY <1>1, <1>2, <1>3, <1>4 DEF Stored

LEMMA DigitalKept ==
  ASSUME NEW l, Ready(l), Sec(l) = "DIGITAL", NEW g
  PROVE  Stored(l, Taken(l, g))
<1> DEFINE n == Len(pdc.pmus[l.pmu].dg)
           dg == sample[l.pmu].dg
           bits == [j \in 1..n |-> dg[j]]
<1>1. Item(l) = Pack(bits)[l.item + 1] /\ Channels(l) = bits
  BY DEF Item, Names, Channels
<1>2. Taken(l, g) = Item(l)
  BY DEF Taken, Encode, Decode, Names
<1>3. l.item \in Nat /\ dg \in Seq(BOOLEAN) /\ n \in Nat /\ n <= Len(dg)
  BY AtASection, SampleFacts
<1> HIDE DEF n, dg
<1>4. Len(bits) = n /\ \A i \in 1..n : bits[i] \in BOOLEAN
  BY <1>3
<1> HIDE DEF bits
<1>. QED
  BY <1>1, <1>2, <1>3, <1>4, WordsKept

(* Whatever the section.                                                   *)
LEMMA AllKept ==
  ASSUME NEW l, Ready(l), NEW g,
         l.part = 2 /\ kind = "DATA" => g = pdc.pmus[l.pmu].format
  PROVE  Stored(l, Taken(l, g))
<1>1. CASE Sec(l) \in {"HEADER", "TIME_BASE", "NUM_PMU", "DATA_RATE"}
  BY <1>1, ClockKept, TimeBaseKept, CountKept, RateKept
<1>2. CASE Sec(l) \in Names \cup {"FORMAT", "COUNTS", "PHUNIT", "ANUNIT", "DIGUNIT"}
  BY <1>2, NameKept, FormatKept, CountsKept, PhasorUnitKept, AnalogUnitKept, NormalKept
<1>3. CASE Sec(l) \in {"STAT", "PHASORS", "FREQ", "ANALOG", "DIGITAL"}
  BY <1>3, AtASection, StatKept, PhasorKept, FrequencyKept, AnalogKept, DigitalKept
<1>. QED
  BY <1>1, <1>2, <1>3, PlainKept

(***************************************************************************)
(* Every step preserves the invariant.                                     *)
(***************************************************************************)
LEMMA SameItems ==
  ASSUME kind' = kind, pdc' = pdc, request' = request, sample' = sample
  PROVE  /\ \A e : Sent(e)' <=> Sent(e)
         /\ \A c : Mismatch(c)' <=> Mismatch(c)
<1>1. \A l : Sec(l)' = Sec(l)
  BY DEF Sec
<1>2. \A l : Name(l)' = Name(l)
  BY <1>1 DEF Name
<1>3. \A u : PhasorUnit(u)' = PhasorUnit(u) /\ AnalogUnit(u)' = AnalogUnit(u)
  BY DEF PhasorUnit, AnalogUnit, Downgraded
<1>4. \A l : Item(l)' = Item(l)
  BY <1>1, <1>2, <1>3 DEF Item
<1>5. \A s, v, f : Encode(s, v, f)' = Encode(s, v, f)
  BY DEF Encode
<1>6. \A c : Mismatch(c)' <=> Mismatch(c)
  BY DEF Mismatch
<1>7. ASSUME NEW e
      PROVE  Sent(e)' <=> Sent(e)
  BY <1>1, <1>4, <1>5, <1>6 DEF Sent
<1>. QED
  BY <1>6, <1>7

LEMMA BeginValues ==
  ASSUME IInv, ValueInv, NEW k, Begin(k),
         k = "DATA" => sample' \in [1..Len(pdc.pmus) -> Feeds],
         "CFG3" \in {k, request'} => pdc.version = 2
  PROVE  ValueInv'
<1>1. /\ phase' = "write" /\ kind' = k /\ pdc' = pdc /\ loc' = Start /\ buffer' = <<>>
  BY DEF Begin
<1>2. Len(buffer') = 0 /\ loc'.part = 1
  BY <1>1 DEF Start
<1>. QED
  BY <1>1, <1>2 DEF ValueInv

(* The writer adds an entry for what it finds at its place.                *)
LEMMA GrowValues ==
  ASSUME IInv, ValueInv, phase = "write", NEW e, Sent(e), buffer' = Append(buffer, e),
         kind' = kind, pdc' = pdc, request' = request, sample' = sample
  PROVE  (\A j \in 1..Len(buffer) : Sent(buffer[j]))'
<1>1. PICK S : buffer \in Seq(S)
  BY DEF IInv
<1>2. /\ Len(buffer') = Len(buffer) + 1 /\ buffer'[Len(buffer) + 1] = e /\ Len(buffer) \in Nat
      /\ \A j \in 1..Len(buffer) : buffer'[j] = buffer[j]
  BY <1>1, Appended
<1>3. \A j \in 1..Len(buffer) : Sent(buffer[j])
  BY DEF ValueInv
<1>4. \A x : Sent(x)' <=> Sent(x)
  BY SameItems
<1> DEFINE n == Len(buffer)
<1> HIDE DEF n
<1>5. n \in Nat /\ Len(buffer') = n + 1 /\ buffer'[n + 1] = e
      /\ \A j \in 1..n : buffer'[j] = buffer[j] /\ Sent(buffer[j])
  BY <1>2, <1>3 DEF n
<1>6. \A j \in 1..n + 1 : Sent(buffer'[j])
  BY <1>5
<1>. QED
  BY <1>4, <1>5, <1>6

(* The PMU at the writer's place is one whose configuration it can write.  *)
LEMMA Tested ==
  ASSUME IInv, ValueInv, phase = "write", loc.part = 2, kind \in Configurations,
         AtPmu => ~Mismatch(pdc.pmus[loc.pmu])
  PROVE  ~Mismatch(pdc.pmus[loc.pmu])
BY DEF ValueInv

LEMMA WriteValues ==
  ASSUME IInv, ValueInv, WriteItem
  PROVE  ValueInv'
<1>1. /\ phase = "write" /\ loc.item < WriteCount(loc)
      /\ AtPmu /\ kind \in Configurations => ~Mismatch(pdc.pmus[loc.pmu])
      /\ pdc' = pdc /\ kind' = kind /\ request' = request /\ sample' = sample
  BY DEF WriteItem, writeVars
<1>2. CASE size + WriteBytes(loc) > BufferSize
  <2>1. phase' = "overflow"
    BY <1>2 DEF WriteItem
  <2>. QED
    BY <1>1, <2>1 DEF ValueInv
<1>3. CASE ~(size + WriteBytes(loc) > BufferSize)
  <2> DEFINE e == Entry(TRUE, WriteBytes(loc),
                        Encode(Sec(loc), Item(loc), pdc.pmus[loc.pmu].format))
  <2>1. phase' = "write" /\ buffer' = Append(buffer, e) /\ loc' = NextItem(loc)
    BY <1>1, <1>3 DEF WriteItem
  <2>2. /\ e.loc = loc
        /\ e.wire = Encode(Sec(loc), Item(loc), pdc.pmus[loc.pmu].format)
    BY DEF Entry
  <2> HIDE DEF e
  <2>3. loc.part = 2 /\ kind \in Configurations => ~Mismatch(pdc.pmus[loc.pmu])
    BY <1>1, Tested
  <2>4. Sent(e)
    BY <2>2, <2>3 DEF Sent
  <2>5. (\A j \in 1..Len(buffer) : Sent(buffer[j]))'
    BY <1>1, <2>1, <2>4, GrowValues
  <2>6. loc'.part = loc.part /\ loc'.pmu = loc.pmu
    BY <1>1, <2>1, AtTheWriter, Along DEF IInv, CodecInv
  <2>7. loc'.part = 2 /\ kind' \in Configurations => ~Mismatch(pdc.pmus[loc.pmu])'
    BY <1>1, <2>3, <2>6, SameItems
  <2>8. (kind = "DATA" => sample \in [1..Len(pdc.pmus) -> Feeds])
        /\ ("CFG3" \in {kind, request} => pdc.version = 2)
    BY <1>1 DEF ValueInv
  <2>. QED
    BY <1>1, <2>5, <2>7, <2>8 DEF ValueInv
<1>. QED
  BY <1>2, <1>3

LEMMA LeaveValues ==
  ASSUME IInv, ValueInv, LeaveWrite
  PROVE  ValueInv'
<1> DEFINE e == Entry(FALSE, 0, 0)
           next == Following(loc, NumPmu)
<1>1. /\ phase = "write" /\ loc.item = WriteCount(loc) /\ buffer' = Append(buffer, e)
      /\ pdc' = pdc /\ kind' = kind /\ request' = request /\ sample' = sample
  BY DEF LeaveWrite, writeVars
<1>2. e.loc = loc /\ e.more = FALSE
  BY DEF Entry
<1> HIDE DEF e
<1>3. /\ TypeOK /\ Placed(loc)
  BY <1>1, AtTheWriter DEF IInv, CodecInv
<1>4. AtPmu /\ kind \in Configurations => FALSE
  <2>1. SUFFICES ASSUME AtPmu, kind \in Configurations
                 PROVE  FALSE
    OBVIOUS
  <2>2. Sec(loc) = "STN"
    BY <1>3, <2>1, PmuSections, PdcFacts DEF AtPmu, Placed
  <2>. QED
    BY <1>1, <2>1, <2>2 DEF WriteCount, AtPmu
<1>5. loc.part = 2 /\ kind \in Configurations => ~Mismatch(pdc.pmus[loc.pmu])
  BY <1>1, <1>4, Tested
<1>6. Sent(e)
  BY <1>2, <1>5 DEF Sent
<1>7. (\A j \in 1..Len(buffer) : Sent(buffer[j]))'
  BY <1>1, <1>6, GrowValues
<1>8. phase' = "write" /\ loc'.part = 2 /\ kind' \in Configurations =>
        (AtPmu \/ ~Mismatch(pdc.pmus[loc.pmu]))'
  <2>1. SUFFICES ASSUME phase' = "write", loc'.part = 2, kind \in Configurations
                 PROVE  (AtPmu \/ ~Mismatch(pdc.pmus[loc.pmu]))'
    BY <1>1
  <2>2. loc' = next
    BY <2>1 DEF LeaveWrite, StartReading
  <2>3. CASE loc.sec < Len(Sections(kind)[loc.part])
    <3>1. next.part = loc.part /\ next.pmu = loc.pmu
      BY <2>3 DEF Following
    <3>. QED
      BY <1>1, <1>5, <2>1, <2>2, <3>1, SameItems
  <2>4. CASE ~(loc.sec < Len(Sections(kind)[loc.part]))
    <3>1. next.sec = 1 /\ next.item = 0
      BY <2>4 DEF Following
    <3>. QED
      BY <2>1, <2>2, <3>1 DEF AtPmu
  <2>. QED
    BY <2>3, <2>4
<1>9. (kind = "DATA" => sample \in [1..Len(pdc.pmus) -> Feeds])
      /\ ("CFG3" \in {kind, request} => pdc.version = 2)
  BY <1>1 DEF ValueInv
<1>. QED
  BY <1>1, <1>7, <1>8, <1>9 DEF ValueInv

(* The reader leaves the buffer, and until its end the samples.            *)
LEMMA ReadValues ==
  ASSUME ValueInv, pdc' = pdc, kind' = kind, request' = request, buffer' = buffer,
         \/ phase' \notin {"write", "read"}
         \/ /\ phase \in {"write", "read"} /\ sample' = sample
            /\ phase' = "write" => phase = "write" /\ loc' = loc
  PROVE  ValueInv'
<1>1. CASE phase' \notin {"write", "read"}
  BY <1>1 DEF ValueInv
<1>2. CASE /\ phase \in {"write", "read"} /\ sample' = sample
           /\ phase' = "write" => phase = "write" /\ loc' = loc
  <2>1. /\ \A e : Sent(e)' <=> Sent(e)
        /\ \A c : Mismatch(c)' <=> Mismatch(c)
    BY <1>2, SameItems
  <2>2. (\A j \in 1..Len(buffer) : Sent(buffer[j]))'
    BY <1>2, <2>1 DEF ValueInv
  <2>3. phase' = "write" /\ loc'.part = 2 /\ kind' \in Configurations =>
          (AtPmu \/ ~Mismatch(pdc.pmus[loc.pmu]))'
    BY <1>2, <2>1 DEF ValueInv, AtPmu
  <2>4. (kind = "DATA" => sample \in [1..Len(pdc.pmus) -> Feeds])'
        /\ ("CFG3" \in {kind, request} => pdc.version = 2)'
    BY <1>2 DEF ValueInv
  <2>. QED
    BY <2>2, <2>3, <2>4 DEF ValueInv
<1>. QED
  BY <1>1, <1>2

LEMMA ValueStep ==
  ASSUME IInv, ValueInv, [Next]_vars
  PROVE  ValueInv'
<1>1. ASSUME NEW r \in Configurations \cup {"HDR", "RTD"}, Command(r)
      PROVE  ValueInv'
  <2>1. Begin("CMD") /\ request' = r /\ (r = "CFG3" => pdc.version = 2)
    BY <1>1 DEF Command
  <2>. QED
    BY <2>1, BeginValues
<1>2. ASSUME StartData
      PROVE  ValueInv'
  <2>1. Begin("DATA") /\ request' = "RTD" /\ sample' \in [1..Len(pdc.pmus) -> Feeds]
    BY <1>2 DEF StartData
  <2>. QED
    BY <2>1, BeginValues
<1>3. ASSUME Reply
      PROVE  ValueInv'
  <2>1. /\ request \in Configurations \cup {"HDR"} /\ Begin(request) /\ request' = request
        /\ sample' = sample /\ phase = "reply"
    BY <1>3 DEF IInv, CodecInv, InfoInv, Reply
  <2>2. "CFG3" \in {request, request'} => pdc.version = 2
    BY <2>1 DEF ValueInv
  <2>. QED
    BY <2>1, <2>2, BeginValues DEF Configurations
<1>4. ASSUME Refuse
      PROVE  ValueInv'
  BY <1>4, ReadValues DEF Refuse, writeVars
<1>5. ASSUME GoAstray
      PROVE  ValueInv'
  BY <1>5, ReadValues DEF GoAstray, writeVars
<1>6. ASSUME ReadItem
      PROVE  ValueInv'
  <2>1. /\ pdc' = pdc /\ kind' = kind /\ request' = request /\ sample' = sample
        /\ buffer' = buffer /\ phase = "read" /\ phase' \in {"read", "rejected"}
    BY <1>6 DEF ReadItem, writeVars
  <2>. QED
    BY <2>1, ReadValues
<1>7. ASSUME LeaveRead
      PROVE  ValueInv'
  <2>1. /\ pdc' = pdc /\ kind' = kind /\ request' = request /\ buffer' = buffer
        /\ phase = "read" /\ phase' \in {"read", "idle", "reply"}
        /\ phase' = "read" => sample' = sample
    BY <1>7 DEF LeaveRead
  <2>. QED
    BY <2>1, ReadValues
<1>8. ASSUME UNCHANGED vars
      PROVE  ValueInv'
  <2>1. /\ pdc' = pdc /\ kind' = kind /\ request' = request /\ buffer' = buffer
        /\ sample' = sample /\ phase' = phase /\ loc' = loc
    BY <1>8 DEF vars, writeVars
  <2>. QED
    BY <2>1, ReadValues
<1>. QED
  BY <1>1, <1>2, <1>3, <1>4, <1>5, <1>6, <1>7, <1>8, WriteValues, LeaveValues DEF Next

(***************************************************************************)
(* The reader.                                                             *)
(***************************************************************************)
LEMMA ReaderReady ==
  ASSUME IInv, ValueInv, phase = "read", InStep, More
  PROVE  /\ Ready(loc)
         /\ buffer[taken + 1].wire
              = Encode(Sec(loc), Item(loc), pdc.pmus[loc.pmu].format)
<1> DEFINE e == buffer[taken + 1]
<1>1. e.loc = loc /\ e.more
  BY DEF InStep
<1>2. IsWritten(e) /\ Placed(loc) /\ TypeOK /\ taken + 1 \in 1..Len(buffer)
  BY AtTheReader DEF AtEntry, IInv, CodecInv, ReadInv
<1>3. loc.item < WriteCount(loc)
  BY <1>1, <1>2 DEF IsWritten
<1>4. Sent(e)
  BY <1>2 DEF ValueInv
<1> HIDE DEF e
<1>5. /\ e.wire = Encode(Sec(loc), Item(loc), pdc.pmus[loc.pmu].format)
      /\ loc.part = 2 /\ kind \in Configurations => ~Mismatch(pdc.pmus[loc.pmu])
  BY <1>1, <1>4 DEF Sent
<1>6. /\ kind = "DATA" => sample \in [1..Len(pdc.pmus) -> Feeds]
      /\ kind = "CFG3" => pdc.version = 2
  BY DEF ValueInv
<1>. QED
  BY <1>2, <1>3, <1>5, <1>6 DEF Ready, e

LEMMA ReadStored ==
  ASSUME IInv, ValueInv, [Next]_vars, phase = "read", loc' = NextItem(loc)
  PROVE  Stored(loc, got')
<1>1. loc.item \in Nat /\ loc \in Locs /\ Placed(loc)
  BY AtTheReader
<1>2. NextItem(loc).item = loc.item + 1
  BY <1>1, Along DEF IInv, CodecInv
<1>3. loc' # loc /\ loc'.item # 0
  BY <1>1, <1>2
<1>4. ReadItem
  <2>1. ~UNCHANGED vars /\ ~GoAstray
    BY <1>3 DEF vars, GoAstray
  <2>2. ~LeaveRead
    <3>1. LeaveRead => loc' = Following(loc, ReadPmus)
      BY DEF LeaveRead
    <3>2. Following(loc, ReadPmus).item = 0
      BY DEF Following
    <3>. QED
      BY <1>3, <3>1, <3>2
  <2>3. /\ ~StartData /\ ~Reply /\ ~Refuse /\ ~WriteItem /\ ~LeaveWrite
        /\ \A r : ~Command(r)
    BY DEF StartData, Reply, Refuse, WriteItem, LeaveWrite, Command
  <2>. QED
    BY <2>1, <2>2, <2>3 DEF Next
<1> DEFINE g == info[loc.pmu].format
<1>5. InStep /\ More /\ got' = Decode(Sec(loc), buffer[taken + 1].wire, g)
  BY <1>3, <1>4 DEF ReadItem, Store
<1>6. Ready(loc) /\ got' = Taken(loc, g)
  BY <1>5, ReaderReady DEF Taken
<1>7. loc.part = 2 /\ kind = "DATA" => g = pdc.pmus[loc.pmu].format
  <2>1. SUFFICES ASSUME loc.part = 2, kind = "DATA"
                 PROVE  g = pdc.pmus[loc.pmu].format
    OBVIOUS
  <2>. QED
    BY <1>6, <2>1, AtASection, KnownPmu
<1>. QED
  BY <1>6, <1>7, AllKept

(***************************************************************************)
(* The theorems.                                                           *)
(***************************************************************************)

(* What is on the wire is what the sender's structures and feeds held.     *)
THEOREM ValueInvariance == Spec => []ValueInv
<1>1. Init => ValueInv
  BY DEF Init, ValueInv
<1>2. IInv /\ ValueInv /\ [Next]_vars => ValueInv'
  BY ValueStep
<1>3. Spec => []IInv
  BY Initially, Step, PTL DEF Spec
<1>. QED
  BY <1>1, <1>2, <1>3, PTL DEF Spec

(* C37118Protocol's readers store what its writers were given, whenever    *)
(* Kept says that the format holds it: names, units, the fields of STAT,   *)
(* phasors, frequencies and digital channels of every PMU; integer phasors *)
(* and frequencies if they fit an int16.  Analog values are not among it.  *)
THEOREM ValuesReadBack == Spec => ReadBack
<1>1. IInv /\ ValueInv /\ [Next]_vars =>
        [phase = "read" /\ loc' = NextItem(loc) => Stored(loc, got')]_vars
  BY ReadStored
<1>2. Spec => []IInv
  BY Initially, Step, PTL DEF Spec
<1>. QED
  BY <1>1, <1>2, ValueInvariance, PTL DEF Spec, ReadBack

=============================================================================
