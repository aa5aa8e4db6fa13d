-------------------------- MODULE FrameSizeProofs --------------------------
(***************************************************************************)
(* FRAMESIZE is the size that the standard gives a frame, for every PDC.   *)
(***************************************************************************)
EXTENDS FrameCodecProofs, WellFoundedInduction

(***************************************************************************)
(* Induction: the theorems of the library for it have an operator as a     *)
(* parameter; with a set instead, it follows from the smallest number that *)
(* is not in the set.                                                      *)
(***************************************************************************)
LEMMA Induction ==
  ASSUME NEW S, 0 \in S, \A n \in Nat : n \in S => n + 1 \in S
  PROVE  Nat \subseteq S
<1> DEFINE T == Nat \ S
           R == OpToRel(<, Nat)
<1>1. SUFFICES ASSUME T # {}
               PROVE  FALSE
  OBVIOUS
<1>2. PICK x \in T : \A y \in T : <<y, x>> \notin R
  <2>1. IsWellFoundedOn(R, Nat)
    BY NatLessThanWellFounded
  <2>2. T \subseteq Nat
    OBVIOUS
  <2> HIDE DEF T, R
  <2>. QED
    BY <1>1, <2>1, <2>2, WFMin
<1>3. x - 1 \in Nat /\ x - 1 < x
  OBVIOUS
<1>4. <<x - 1, x>> \in R
  BY <1>3 DEF OpToRel
<1>5. x - 1 \in S
  BY <1>2, <1>3, <1>4
<1>. QED
  BY <1>3, <1>5

(***************************************************************************)
(* Sums.                                                                   *)
(***************************************************************************)
Numbers(s) == Len(s) \in Nat /\ \A i \in 1..Len(s) : s[i] \in Nat

(* There is a function that the recursive definition of Sums describes.    *)
LEMMA SumsDefined ==
  ASSUME NEW s, Len(s) \in Nat
  PROVE  Sums(s) = [n \in 0..Len(s) |-> IF n = 0 THEN 0 ELSE Sums(s)[n - 1] + s[n]]
<1> DEFINE Is(g, k) == g = [n \in 0..k |-> IF n = 0 THEN 0 ELSE g[n - 1] + s[n]]
           S == {k \in Nat : \E g : Is(g, k)}
<1>1. 0 \in S
  <2>1. Is([n \in 0..0 |-> 0], 0)
    OBVIOUS
  <2>. QED
    BY <2>1
<1>2. ASSUME NEW k \in Nat, k \in S
      PROVE  k + 1 \in S
  <2>1. PICK g : Is(g, k)
    BY <1>2
  <2> DEFINE h == [n \in 0..k + 1 |-> IF n = 0 THEN 0 ELSE g[n - 1] + s[n]]
  <2>2. ASSUME NEW n \in 0..k
        PROVE  h[n] = g[n]
    BY <2>1
  <2>3. ASSUME NEW n \in 0..k + 1
        PROVE  h[n] = IF n = 0 THEN 0 ELSE h[n - 1] + s[n]
    <3>1. CASE n = 0
      BY <3>1
    <3>2. CASE n > 0
      <4>1. n - 1 \in 0..k /\ n # 0
        BY <3>2
      <4>2. h[n] = g[n - 1] + s[n]
        BY <4>1
      <4>. QED
        BY <2>2, <4>1, <4>2
    <3>. QED
      BY <3>1, <3>2
  <2>4. Is(h, k + 1)
    <3>1. h = [n \in 0..k + 1 |-> h[n]]
      OBVIOUS
    <3> HIDE DEF h
    <3>2. [n \in 0..k + 1 |-> h[n]]
            = [n \in 0..k + 1 |-> IF n = 0 THEN 0 ELSE h[n - 1] + s[n]]
      BY <2>3
    <3>. QED
      BY <3>1, <3>2
  <2>5. \E f : Is(f, k + 1)
    <3> HIDE DEF h, Is
    <3>. QED
      BY <2>4
  <2>. QED
    BY <2>5
<1>3. Len(s) \in S
  <2> HIDE DEF S
  <2>. QED
    BY <1>1, <1>2, Induction
<1>. QED
  BY <1>3 DEF Sums

(* The equations of the sums, their type and their order.                  *)
LEMMA SumsFacts ==
  ASSUME NEW s, Numbers(s)
  PROVE  /\ Sums(s)[0] = 0
         /\ \A n \in 1..Len(s) : Sums(s)[n] = Sums(s)[n - 1] + s[n]
         /\ \A n \in 0..Len(s) : Sums(s)[n] \in Nat
         /\ \A m, n \in 0..Len(s) : m <= n => Sums(s)[m] <= Sums(s)[n]
<1> DEFINE f == Sums(s)
<1>1. f = [n \in 0..Len(s) |-> IF n = 0 THEN 0 ELSE f[n - 1] + s[n]]
  BY SumsDefined DEF Numbers
<1>2. Len(s) \in Nat /\ \A i \in 1..Len(s) : s[i] \in Nat
  BY DEF Numbers
<1> HIDE DEF f
<1>3. f[0] = 0 /\ \A n \in 1..Len(s) : f[n] = f[n - 1] + s[n]
  BY <1>1, <1>2
<1>4. \A n \in 0..Len(s) : f[n] \in Nat
  <2> DEFINE S == {n \in Nat : n <= Len(s) => f[n] \in Nat}
  <2>1. 0 \in S
    BY <1>3
  <2>2. ASSUME NEW n \in Nat, n \in S
        PROVE  n + 1 \in S
    <3>1. n + 1 <= Len(s) => n \in 0..Len(s) /\ n + 1 \in 1..Len(s) /\ n + 1 - 1 = n
      BY <1>2
    <3>. QED
      BY <1>2, <1>3, <2>2, <3>1
  <2>3. Nat \subseteq S
    <3> HIDE DEF S
    <3>. QED
      BY <2>1, <2>2, Induction
  <2>. QED
    BY <1>2, <2>3
<1>5. \A m, n \in 0..Len(s) : m <= n => f[m] <= f[n]
  <2>1. SUFFICES ASSUME NEW m \in 0..Len(s)
                 PROVE  \A n \in 0..Len(s) : m <= n => f[m] <= f[n]
    OBVIOUS
  <2> DEFINE S == {n \in Nat : m <= n /\ n <= Len(s) => f[m] <= f[n]}
  <2>2. 0 \in S
    BY <1>4
  <2>3. ASSUME NEW n \in Nat, n \in S
        PROVE  n + 1 \in S
    <3>1. SUFFICES ASSUME m <= n + 1, n + 1 <= Len(s)
                   PROVE  f[m] <= f[n + 1]
      OBVIOUS
    <3>2. n + 1 \in 1..Len(s) /\ n \in 0..Len(s) /\ n + 1 - 1 = n
      BY <1>2, <3>1
    <3>3. f[n + 1] = f[n] + s[n + 1] /\ s[n + 1] \in Nat /\ f[n] \in Nat /\ f[m] \in Nat
      BY <1>2, <1>3, <1>4, <3>2
    <3>4. CASE m = n + 1
      BY <3>3, <3>4, <1>4
    <3>5. CASE m <= n
      <4>1. f[m] <= f[n]
        BY <2>3, <3>2, <3>5
      <4>. QED
        BY <3>3, <4>1
    <3>. QED
      BY <3>1, <3>4, <3>5
  <2>4. Nat \subseteq S
    <3> HIDE DEF S
    <3>. QED
      BY <2>2, <2>3, Induction
  <2>. QED
    BY <1>2, <2>4
<1>. QED
  BY <1>3, <1>4, <1>5 DEF f

(* Numbers that are all the same.                                          *)
LEMMA SumsConstant ==
  ASSUME NEW s, Numbers(s), NEW k \in Nat, \A i \in 1..Len(s) : s[i] = k
  PROVE  Total(s) = k * Len(s)
<1> DEFINE f == Sums(s)
           S == {n \in Nat : n <= Len(s) => f[n] = k * n}
<1>1. Len(s) \in Nat /\ f[0] = 0 /\ \A n \in 1..Len(s) : f[n] = f[n - 1] + s[n]
  BY SumsFacts DEF Numbers
<1> HIDE DEF f
<1>2. 0 \in S
  BY <1>1
<1>3. ASSUME NEW n \in Nat, n \in S
      PROVE  n + 1 \in S
  <2>1. n + 1 <= Len(s) => n + 1 \in 1..Len(s) /\ n + 1 - 1 = n
    BY <1>1
  <2>2. k * (n + 1) = k * n + k
    OBVIOUS
  <2>. QED
    BY <1>1, <1>3, <2>1, <2>2
<1>4. Nat \subseteq S
  <2> HIDE DEF S
  <2>. QED
    BY <1>2, <1>3, Induction
<1>. QED
  BY <1>1, <1>4 DEF Total, f

(* Names, a byte for the length of each, and maybe empty names after them. *)
Padded(s, t) ==
  /\ Len(t) <= Len(s)
  /\ \A i \in 1..Len(s) : s[i] = IF i <= Len(t) THEN 1 + t[i] ELSE 1

LEMMA SumsPadded ==
  ASSUME NEW s, Numbers(s), NEW t, Numbers(t), Padded(s, t)
  PROVE  Total(s) = Len(s) + Total(t)
<1> DEFINE f == Sums(s)
           g == Sums(t)
           S == {n \in Nat : n <= Len(s) =>
                              /\ n <= Len(t) => f[n] = n + g[n]
                              /\ Len(t) <= n => f[n] = n + g[Len(t)]}
<1>1. /\ Len(s) \in Nat /\ f[0] = 0 /\ \A n \in 1..Len(s) : f[n] = f[n - 1] + s[n]
      /\ Len(t) \in Nat /\ g[0] = 0 /\ \A n \in 1..Len(t) : g[n] = g[n - 1] + t[n]
      /\ \A n \in 0..Len(t) : g[n] \in Nat
      /\ \A i \in 1..Len(t) : t[i] \in Nat
  BY SumsFacts DEF Numbers
<1> HIDE DEF f, g
<1>2. 0 \in S
  <2>1. f[0] = 0 + g[0]
    BY <1>1
  <2>2. Len(t) <= 0 => Len(t) = 0
    BY <1>1
  <2>3. Len(t) <= 0 => f[0] = 0 + g[Len(t)]
    BY <2>1, <2>2
  <2>. QED
    BY <2>1, <2>3
<1>3. ASSUME NEW n \in Nat, n \in S
      PROVE  n + 1 \in S
  <2>1. SUFFICES ASSUME n + 1 <= Len(s)
                 PROVE  /\ n + 1 <= Len(t) => f[n + 1] = n + 1 + g[n + 1]
                        /\ Len(t) <= n + 1 => f[n + 1] = n + 1 + g[Len(t)]
    OBVIOUS
  <2>2. /\ n <= Len(t) => f[n] = n + g[n]
        /\ Len(t) <= n => f[n] = n + g[Len(t)]
        /\ f[n + 1] = f[n] + s[n + 1]
        /\ s[n + 1] = IF n + 1 <= Len(t) THEN 1 + t[n + 1] ELSE 1
    <3>1. n + 1 \in 1..Len(s) /\ n + 1 - 1 = n
      BY <1>1, <2>1
    <3>. QED
      BY <1>1, <1>3, <2>1, <3>1 DEF Padded
  <2>3. CASE n + 1 <= Len(t)
    <3>1. n + 1 \in 1..Len(t) /\ n + 1 - 1 = n /\ n \in 0..Len(t)
      BY <1>1, <2>3
    <3>2. g[n + 1] = g[n] + t[n + 1] /\ g[n] \in Nat /\ t[n + 1] \in Nat
      BY <1>1, <3>1
    <3>3. f[n] = n + g[n] /\ s[n + 1] = 1 + t[n + 1]
      BY <1>1, <2>2, <2>3
    <3>4. f[n + 1] = n + 1 + g[n + 1]
      <4>1. f[n + 1] = f[n] + s[n + 1]
        BY <2>2
      <4>2. f[n + 1] = (n + g[n]) + (1 + t[n + 1])
        BY <3>3, <4>1
      <4>3. (n + g[n]) + (1 + t[n + 1]) = n + 1 + (g[n] + t[n + 1])
        BY <3>2
      <4>. QED
        BY <3>2, <4>2, <4>3
    <3>5. Len(t) <= n + 1 => Len(t) = n + 1
      BY <1>1, <2>3
    <3>. QED
      BY <3>4, <3>5
  <2>4. CASE ~(n + 1 <= Len(t))
    <3>1. g[Len(t)] \in Nat
      BY <1>1
    <3>2. f[n] = n + g[Len(t)] /\ s[n + 1] = 1
      BY <1>1, <2>2, <2>4
    <3>3. f[n + 1] = n + 1 + g[Len(t)]
      <4>1. f[n + 1] = f[n] + s[n + 1]
        BY <2>2
      <4>2. f[n + 1] = (n + g[Len(t)]) + 1
        BY <3>2, <4>1
      <4>. QED
        BY <3>1, <4>2
    <3>. QED
      BY <2>4, <3>3
  <2>. QED
    BY <2>3, <2>4
<1>4. Len(s) \in S
  <2> HIDE DEF S
  <2>. QED
    BY <1>1, <1>2, <1>3, Induction
<1>5. Len(t) <= Len(s)
  BY DEF Padded
<1>6. f[Len(s)] = Len(s) + g[Len(t)]
  BY <1>1, <1>4, <1>5
<1>7. Total(s) = f[Len(s)] /\ Total(t) = g[Len(t)]
  BY DEF Total, f, g
<1>. QED
  BY <1>6, <1>7

(***************************************************************************)
(* What is before a place in the frame.                                    *)
(***************************************************************************)
Whole == Total(SectionBytes(1, 0)) + Total(PartBytes) + Total(SectionBytes(3, 0))

LEMMA ItemFacts ==
  ASSUME TypeOK, NEW l, Placed(l)
  PROVE  /\ Numbers(ItemBytes(l)) /\ Len(ItemBytes(l)) = WriteCount(l)
         /\ l.item < WriteCount(l) => ItemBytes(l)[l.item + 1] = WriteBytes(l)
<1> DEFINE at(i) == [l EXCEPT !.item = i - 1]
<1>1. l \in Locs /\ WriteCount(l) \in Nat
  BY PlacedPmu, Counts
<1>2. ASSUME NEW i \in 1..WriteCount(l)
      PROVE  WriteBytes(at(i)) \in Nat
  <2>1. /\ at(i) \in Locs /\ at(i).part = l.part /\ at(i).pmu = l.pmu /\ at(i).sec = l.sec
        /\ at(i).item = i - 1
    BY <1>1 DEF Locs
  <2> HIDE DEF at
  <2>2. Sec(at(i)) = Sec(l)
    BY <2>1 DEF Sec
  <2>3. Placed(at(i)) /\ WriteCount(at(i)) = WriteCount(l)
    BY <2>1, <2>2 DEF Placed, InLayout, WriteCount
  <2>. QED
    BY <1>1, <2>1, <2>3, Bytes
<1>3. ItemBytes(l) = [i \in 1..WriteCount(l) |-> WriteBytes(at(i))]
  BY DEF ItemBytes
<1>4. ASSUME l.item < WriteCount(l)
      PROVE  l.item + 1 \in 1..WriteCount(l) /\ at(l.item + 1) = l
  BY <1>1, <1>4 DEF Locs
<1> HIDE DEF at
<1>5. /\ Len(ItemBytes(l)) = WriteCount(l)
      /\ \A i \in 1..WriteCount(l) : ItemBytes(l)[i] = WriteBytes(at(i))
  BY <1>1, <1>3
<1>6. Numbers(ItemBytes(l))
  BY <1>1, <1>2, <1>5 DEF Numbers
<1>. QED
  BY <1>4, <1>5, <1>6

(* The items of a section are the same wherever one stands in it.          *)
LEMMA SameSection ==
  ASSUME NEW l \in Locs, NEW m \in Locs, l.part = m.part, l.pmu = m.pmu, l.sec = m.sec
  PROVE  ItemBytes(m) = ItemBytes(l)
<1>1. Sec(m) = Sec(l)
  BY DEF Sec
<1>2. WriteCount(m) = WriteCount(l)
  BY <1>1 DEF WriteCount
<1>3. \A i : [m EXCEPT !.item = i - 1] = [l EXCEPT !.item = i - 1]
  BY DEF Locs
<1>. QED
  BY <1>2, <1>3 DEF ItemBytes

LEMMA SectionFacts ==
  ASSUME TypeOK, NEW l, Placed(l)
  PROVE  /\ Numbers(SectionBytes(l.part, l.pmu))
         /\ Len(SectionBytes(l.part, l.pmu)) = Len(Sections(kind)[l.part])
         /\ l.sec \in 1..Len(Sections(kind)[l.part])
         /\ SectionBytes(l.part, l.pmu)[l.sec] = Total(ItemBytes(l))
<1> DEFINE n == Len(Sections(kind)[l.part])
           start(s) == [part |-> l.part, pmu |-> l.pmu, sec |-> s, item |-> 0]
<1>1. l \in Locs /\ l.part \in 1..3 /\ n \in Nat /\ l.sec \in 1..n
  BY PlacedPmu, Layout, PdcFacts
<1>2. ASSUME NEW s \in 1..n
      PROVE  Placed(start(s))
  <2>1. /\ start(s) \in Locs /\ start(s).part = l.part /\ start(s).pmu = l.pmu
        /\ start(s).sec = s
    BY <1>1 DEF Locs
  <2> HIDE DEF start
  <2>. QED
    BY <1>1, <2>1 DEF Placed, InLayout
<1>3. ASSUME NEW s \in 1..n
      PROVE  Total(ItemBytes(start(s))) \in Nat
  <2> HIDE DEF start
  <2>1. Numbers(ItemBytes(start(s)))
    BY <1>2, ItemFacts
  <2>2. Len(ItemBytes(start(s))) \in 0..Len(ItemBytes(start(s)))
    BY <2>1 DEF Numbers
  <2>. QED
    BY <2>1, <2>2, SumsFacts DEF Total
<1>4. SectionBytes(l.part, l.pmu) = [s \in 1..n |-> Total(ItemBytes(start(s)))]
  BY DEF SectionBytes
<1>5. ItemBytes(start(l.sec)) = ItemBytes(l)
  <2>1. /\ start(l.sec) \in Locs /\ start(l.sec).part = l.part /\ start(l.sec).pmu = l.pmu
        /\ start(l.sec).sec = l.sec
    BY <1>1 DEF Locs
  <2> HIDE DEF start
  <2>. QED
    BY <1>1, <2>1, SameSection
<1> HIDE DEF start
<1>6. /\ Len(SectionBytes(l.part, l.pmu)) = n
      /\ \A s \in 1..n : SectionBytes(l.part, l.pmu)[s] = Total(ItemBytes(start(s)))
  BY <1>1, <1>4
<1>. QED
  BY <1>1, <1>3, <1>5, <1>6 DEF Numbers

(* The sum of numbers, and all of them.                                    *)
LEMMA TotalFacts ==
  ASSUME NEW s, Numbers(s)
  PROVE  /\ Total(s) \in Nat
         /\ \A n \in 0..Len(s) : Sums(s)[n] \in Nat /\ Sums(s)[n] <= Total(s)
<1>1. Len(s) \in 0..Len(s)
  BY DEF Numbers
<1>. QED
  BY <1>1, SumsFacts DEF Total

(* The three parts of a frame.                                             *)
LEMMA PartFacts ==
  ASSUME TypeOK, kind # "NONE"
  PROVE  /\ Numbers(SectionBytes(1, 0)) /\ Numbers(SectionBytes(3, 0))
         /\ Numbers(PartBytes) /\ Len(PartBytes) = NumPmu
         /\ \A p \in 1..NumPmu : /\ Numbers(SectionBytes(2, p))
                                 /\ PartBytes[p] = Total(SectionBytes(2, p))
<1>1. kind \in Kinds /\ NumPmu \in Nat
  BY PdcFacts
<1> DEFINE at(n, p) == [part |-> n, pmu |-> p, sec |-> 1, item |-> 0]
<1>2. ASSUME NEW n \in 1..3, NEW p \in 0..NumPmu, n = 2 <=> p > 0
      PROVE  Numbers(SectionBytes(n, p))
  <2>1. 1 <= Len(Sections(kind)[n])
    <3>1. n = 2 => kind \in Configurations \cup {"DATA"}
      BY <1>2, PdcFacts
    <3>. QED
      BY <1>1, <3>1, Layout DEF Configurations
  <2>2. at(n, p) \in Locs /\ at(n, p).part = n /\ at(n, p).pmu = p /\ at(n, p).sec = 1
    BY <1>1 DEF Locs
  <2> HIDE DEF at
  <2>3. Placed(at(n, p))
    BY <1>1, <1>2, <2>1, <2>2 DEF Placed, InLayout
  <2>. QED
    BY <2>2, <2>3, SectionFacts
<1>3. Numbers(SectionBytes(1, 0)) /\ Numbers(SectionBytes(3, 0))
  BY <1>1, <1>2
<1>4. ASSUME NEW p \in 1..NumPmu
      PROVE  Numbers(SectionBytes(2, p)) /\ Total(SectionBytes(2, p)) \in Nat
  BY <1>1, <1>2, TotalFacts
<1>5. Len(PartBytes) = NumPmu /\ \A p \in 1..NumPmu : PartBytes[p] = Total(SectionBytes(2, p))
  BY <1>1 DEF PartBytes
<1>. QED
  BY <1>1, <1>3, <1>4, <1>5 DEF Numbers

(* What is before the part, or the PMU, that l is in, and from there to l. *)
Base(l) ==
  IF l.part = 1 THEN 0
  ELSE IF l.part = 2 THEN Total(SectionBytes(1, 0)) + Sums(PartBytes)[l.pmu - 1]
  ELSE Total(SectionBytes(1, 0)) + Total(PartBytes)

Inside(l) == Sums(SectionBytes(l.part, l.pmu))[l.sec - 1] + Sums(ItemBytes(l))[l.item]

LEMMA BaseFacts ==
  ASSUME TypeOK, kind # "NONE", NEW l, Placed(l)
  PROVE  /\ Base(l) \in Nat
         /\ l.part = 1 => Base(l) + Total(SectionBytes(1, 0)) <= Whole
         /\ l.part = 2 => Base(l) + Total(SectionBytes(2, l.pmu)) <= Whole
         /\ l.part = 3 => Base(l) + Total(SectionBytes(3, 0)) = Whole
         /\ Whole \in Nat
<1> DEFINE head == Total(SectionBytes(1, 0))
           tail == Total(SectionBytes(3, 0))
           all == Total(PartBytes)
<1>1. head \in Nat /\ tail \in Nat /\ all \in Nat
  BY PartFacts, TotalFacts
<1>2. /\ Whole = head + all + tail
      /\ l.part = 1 => Base(l) = 0
      /\ l.part = 2 => Base(l) = head + Sums(PartBytes)[l.pmu - 1]
      /\ l.part = 3 => Base(l) = head + all
  BY DEF Whole, Base
<1> HIDE DEF head, tail, all
<1>3. ASSUME l.part = 2
      PROVE  /\ Sums(PartBytes)[l.pmu - 1] \in Nat
             /\ Sums(PartBytes)[l.pmu - 1] + Total(SectionBytes(2, l.pmu)) <= all
             /\ Total(SectionBytes(2, l.pmu)) \in Nat
  <2>1. NumPmu \in Nat /\ l.pmu \in 1..NumPmu
    BY <1>3, PdcFacts, PlacedPmu
  <2>2. /\ Numbers(PartBytes) /\ Len(PartBytes) = NumPmu
        /\ PartBytes[l.pmu] = Total(SectionBytes(2, l.pmu))
        /\ Total(SectionBytes(2, l.pmu)) \in Nat
    BY <2>1, PartFacts, TotalFacts
  <2>3. l.pmu \in 1..Len(PartBytes) /\ l.pmu \in 0..Len(PartBytes) /\ l.pmu - 1 \in 0..Len(PartBytes)
    BY <2>1, <2>2
  <2>4. /\ Sums(PartBytes)[l.pmu] = Sums(PartBytes)[l.pmu - 1] + PartBytes[l.pmu]
        /\ Sums(PartBytes)[l.pmu - 1] \in Nat
        /\ Sums(PartBytes)[l.pmu] <= all
    BY <2>2, <2>3, SumsFacts, TotalFacts DEF all
  <2>. QED
    BY <2>2, <2>4
<1>4. l.part = 1 \/ l.part = 2 \/ l.part = 3
  BY PlacedPmu
<1>5. CASE l.part = 1
  BY <1>1, <1>2, <1>5 DEF head
<1>6. CASE l.part = 2
  <2>1. Base(l) \in Nat
    BY <1>1, <1>2, <1>3, <1>6
  <2>2. Base(l) + Total(SectionBytes(2, l.pmu)) <= Whole
    BY <1>1, <1>2, <1>3, <1>6
  <2>. QED
    BY <1>1, <1>2, <1>6, <2>1, <2>2
<1>7. CASE l.part = 3
  BY <1>1, <1>2, <1>7 DEF tail
<1>. QED
  BY <1>4, <1>5, <1>6, <1>7

LEMMA InsideFacts ==
  ASSUME TypeOK, kind # "NONE", NEW l, Placed(l), l.item <= WriteCount(l)
  PROVE  /\ Inside(l) \in Nat /\ Inside(l) <= Total(SectionBytes(l.part, l.pmu))
         /\ l.item = WriteCount(l) => Inside(l) = Sums(SectionBytes(l.part, l.pmu))[l.sec]
<1> DEFINE s == SectionBytes(l.part, l.pmu)
           b == ItemBytes(l)
<1>1. /\ Numbers(s) /\ l.sec \in 1..Len(s) /\ s[l.sec] = Total(b)
      /\ Numbers(b) /\ Len(b) = WriteCount(l) /\ l.item \in 0..Len(b)
  BY SectionFacts, ItemFacts, PlacedPmu, Counts
<1>2. Inside(l) = Sums(s)[l.sec - 1] + Sums(b)[l.item]
  BY DEF Inside
<1>3. l.item = WriteCount(l) => Sums(b)[l.item] = Total(b)
  BY <1>1 DEF Total
<1> HIDE DEF s, b
<1>4. Sums(b)[l.item] \in Nat /\ Sums(b)[l.item] <= Total(b) /\ Total(b) \in Nat
  BY <1>1, TotalFacts
<1>5. l.sec - 1 \in 0..Len(s) /\ l.sec \in 0..Len(s)
  BY <1>1 DEF Numbers
<1>6. /\ Sums(s)[l.sec] = Sums(s)[l.sec - 1] + Total(b)
      /\ Sums(s)[l.sec - 1] \in Nat /\ Sums(s)[l.sec] \in Nat
      /\ Sums(s)[l.sec] <= Total(s)
  <2>1. Sums(s)[l.sec] = Sums(s)[l.sec - 1] + s[l.sec]
    BY <1>1, SumsFacts
  <2>2. /\ Sums(s)[l.sec - 1] \in Nat /\ Sums(s)[l.sec] \in Nat
        /\ Sums(s)[l.sec] <= Total(s)
    BY <1>1, <1>5, TotalFacts
  <2>. QED
    BY <1>1, <2>1, <2>2
<1>7. Inside(l) \in Nat /\ Inside(l) <= Sums(s)[l.sec] /\ Total(s) \in Nat
  <2>1. Total(s) \in Nat
    BY <1>1, TotalFacts
  <2>. QED
    BY <1>2, <1>4, <1>6, <2>1
<1>8. Inside(l) <= Total(s)
  BY <1>6, <1>7
<1>9. l.item = WriteCount(l) => Inside(l) = Sums(s)[l.sec]
  BY <1>2, <1>3, <1>6
<1>. QED
  BY <1>7, <1>8, <1>9 DEF s

LEMMA BeforeIs ==
  ASSUME TypeOK, kind # "NONE", NEW l, Placed(l), l.item <= WriteCount(l)
  PROVE  Before(l) = Base(l) + Inside(l)
<1>1. l.part \in 1..3 /\ Base(l) \in Nat /\ Inside(l) \in Nat
  BY PlacedPmu, BaseFacts, InsideFacts
<1>2. /\ l.part = 1 => Before(l) = Inside(l) /\ Base(l) = 0
      /\ l.part = 2 => Before(l) = Base(l) + Inside(l)
      /\ l.part = 3 => Before(l) = Base(l) + Inside(l)
  BY DEF Before, Base, Inside
<1>. QED
  BY <1>1, <1>2

(* One item more, the next section, and the end.                           *)
LEMMA BeforeNext ==
  ASSUME TypeOK, kind # "NONE", NEW l, Placed(l), l.item < WriteCount(l)
  PROVE  /\ Before(NextItem(l)) = Before(l) + WriteBytes(l)
         /\ Before(l) + WriteBytes(l) <= Whole
<1> DEFINE b == ItemBytes(l)
           m == NextItem(l)
<1>1. /\ Placed(m) /\ m.part = l.part /\ m.pmu = l.pmu /\ m.sec = l.sec
      /\ m.item = l.item + 1 /\ WriteCount(m) = WriteCount(l)
      /\ l \in Locs /\ m \in Locs
  BY Along, PlacedPmu
<1>2. /\ Numbers(b) /\ Len(b) = WriteCount(l) /\ b[l.item + 1] = WriteBytes(l)
      /\ l.item \in Nat /\ WriteCount(l) \in Nat /\ WriteBytes(l) \in Nat
  BY ItemFacts, PlacedPmu, Counts, Bytes
<1> HIDE DEF b, m
<1>3. ItemBytes(m) = b
  BY <1>1, SameSection DEF b
<1>4. Sums(b)[m.item] = Sums(b)[l.item] + WriteBytes(l)
  <2>1. l.item + 1 \in 1..Len(b) /\ l.item + 1 - 1 = l.item
    BY <1>2
  <2>. QED
    BY <1>1, <1>2, <2>1, SumsFacts
<1>5. m.item <= WriteCount(m) /\ l.item <= WriteCount(l)
  BY <1>1, <1>2
<1>6. /\ Before(l) = Base(l) + Inside(l) /\ Before(m) = Base(m) + Inside(m)
      /\ Base(l) \in Nat /\ Base(m) \in Nat
      /\ Inside(l) \in Nat /\ Inside(m) \in Nat
  BY <1>1, <1>5, BeforeIs, BaseFacts, InsideFacts
<1>7. Base(m) = Base(l)
  BY <1>1 DEF Base
<1>8. Inside(m) = Inside(l) + WriteBytes(l)
  <2>1. /\ Inside(l) = Sums(SectionBytes(l.part, l.pmu))[l.sec - 1] + Sums(b)[l.item]
        /\ Inside(m) = Sums(SectionBytes(l.part, l.pmu))[l.sec - 1] + Sums(b)[m.item]
    BY <1>1, <1>3 DEF Inside, b
  <2>2. Numbers(SectionBytes(l.part, l.pmu)) /\ l.sec - 1 \in 0..Len(SectionBytes(l.part, l.pmu))
    <3>1. /\ Numbers(SectionBytes(l.part, l.pmu)) /\ l.sec \in 1..Len(SectionBytes(l.part, l.pmu))
          /\ Len(SectionBytes(l.part, l.pmu)) \in Nat
      BY SectionFacts, PlacedPmu DEF Numbers
    <3>. QED
      BY <3>1
  <2>3. Sums(SectionBytes(l.part, l.pmu))[l.sec - 1] \in Nat
    BY <2>2, SumsFacts
  <2>4. l.item \in 0..Len(b)
    BY <1>2
  <2>5. Sums(b)[l.item] \in Nat
    BY <1>2, <2>4, SumsFacts
  <2>. QED
    BY <1>2, <1>4, <2>1, <2>3, <2>5
<1>9. Before(m) <= Whole
  <2>1. Inside(m) <= Total(SectionBytes(m.part, m.pmu)) /\ m.part \in 1..3
    BY <1>1, <1>5, InsideFacts, PlacedPmu
  <2>2. m.part # 2 => m.pmu = 0
    BY <1>1, PlacedPmu DEF Placed
  <2>3. Base(m) + Total(SectionBytes(m.part, m.pmu)) <= Whole
    BY <1>1, <2>1, <2>2, BaseFacts
  <2>4. Numbers(SectionBytes(m.part, m.pmu)) /\ Whole \in Nat
    BY <1>1, SectionFacts, BaseFacts
  <2>5. Total(SectionBytes(m.part, m.pmu)) \in Nat
    BY <2>4, TotalFacts
  <2>. QED
    BY <1>6, <2>1, <2>3, <2>4, <2>5
<1>10. Before(m) = Before(l) + WriteBytes(l)
  BY <1>2, <1>6, <1>7, <1>8
<1>. QED
  BY <1>9, <1>10 DEF m

LEMMA BeforeFollowing ==
  ASSUME TypeOK, kind # "NONE", NEW l, Placed(l), l.item = WriteCount(l)
  PROVE  LET f == Following(l, NumPmu) IN
         /\ f.part # 4 => Before(f) = Before(l)
         /\ f.part = 4 => Before(l) = Whole
<1> DEFINE f == Following(l, NumPmu)
           s == SectionBytes(l.part, l.pmu)
           n == Len(Sections(kind)[l.part])
<1>1. /\ l.part = 1 \/ l.part = 2 \/ l.part = 3
      /\ l.part = 2 => l.pmu \in 1..NumPmu
      /\ l.part # 2 => l.pmu = 0
      /\ WriteCount(l) \in Nat /\ NumPmu \in Nat /\ n \in Nat
      /\ l.sec \in 1..n
  BY PlacedPmu, PdcFacts, Counts, Layout DEF Placed
<1>2. f.item = 0 /\ (f.part # 4 => Placed(f) /\ 0 <= WriteCount(f))
  BY Onward
<1>3. Numbers(s) /\ Len(s) = n
  BY SectionFacts
<1>4. /\ Before(l) = Base(l) + Inside(l) /\ Base(l) \in Nat
      /\ Inside(l) = Sums(s)[l.sec]
  BY <1>1, BeforeIs, BaseFacts, InsideFacts
<1> HIDE DEF f, s, n
<1>5. ASSUME f.part # 4
      PROVE  /\ Before(f) = Base(f) + Inside(f) /\ Base(f) \in Nat
             /\ Inside(f) = Sums(SectionBytes(f.part, f.pmu))[f.sec - 1]
             /\ Numbers(SectionBytes(f.part, f.pmu))
  <2>1. Before(f) = Base(f) + Inside(f) /\ Base(f) \in Nat
    BY <1>2, <1>5, BeforeIs, BaseFacts
  <2>2. Numbers(ItemBytes(f)) /\ Numbers(SectionBytes(f.part, f.pmu))
        /\ f.sec \in 1..Len(SectionBytes(f.part, f.pmu))
    BY <1>2, <1>5, ItemFacts, SectionFacts
  <2>3. Sums(ItemBytes(f))[f.item] = 0
    BY <1>2, <2>2, SumsFacts
  <2>4. f.sec - 1 \in 0..Len(SectionBytes(f.part, f.pmu))
    BY <2>2 DEF Numbers
  <2>5. Sums(SectionBytes(f.part, f.pmu))[f.sec - 1] \in Nat
    BY <2>2, <2>4, SumsFacts
  <2>. QED
    BY <2>1, <2>2, <2>3, <2>5 DEF Inside
<1>6. CASE l.sec < n
  <2>1. f.part = l.part /\ f.pmu = l.pmu /\ f.sec = l.sec + 1
    BY <1>6 DEF Following, f, n
  <2>2. f.part # 4 /\ f.sec - 1 = l.sec
    BY <1>1, <2>1
  <2>3. Base(f) = Base(l)
    BY <2>1 DEF Base
  <2>4. Inside(f) = Inside(l)
    BY <1>4, <1>5, <2>1, <2>2 DEF s
  <2>5. Before(f) = Before(l)
    BY <1>4, <1>5, <2>2, <2>3, <2>4
  <2>. QED
    BY <2>2, <2>5 DEF f
<1>7. ASSUME ~(l.sec < n)
      PROVE  Inside(l) = Total(s) /\ Total(s) \in Nat
  <2>1. l.sec = Len(s)
    BY <1>1, <1>3, <1>7
  <2>. QED
    BY <1>3, <1>4, <2>1, TotalFacts DEF Total
<1>8. /\ Numbers(PartBytes) /\ Len(PartBytes) = NumPmu
      /\ Sums(PartBytes)[0] = 0
      /\ \A p \in 1..NumPmu : /\ Sums(PartBytes)[p] = Sums(PartBytes)[p - 1]
                                                      + Total(SectionBytes(2, p))
                              /\ Sums(PartBytes)[p - 1] \in Nat
                              /\ Total(SectionBytes(2, p)) \in Nat
      /\ Total(SectionBytes(1, 0)) \in Nat /\ Total(SectionBytes(3, 0)) \in Nat
      /\ Total(PartBytes) \in Nat
  <2>1. /\ Numbers(PartBytes) /\ Len(PartBytes) = NumPmu
        /\ \A p \in 1..NumPmu : /\ Numbers(SectionBytes(2, p))
                                /\ PartBytes[p] = Total(SectionBytes(2, p))
        /\ Numbers(SectionBytes(1, 0)) /\ Numbers(SectionBytes(3, 0))
    BY PartFacts
  <2>2. \A p \in 1..NumPmu : p - 1 \in 0..NumPmu
    BY <1>1
  <2>3. /\ Sums(PartBytes)[0] = 0
        /\ \A p \in 1..NumPmu : Sums(PartBytes)[p] = Sums(PartBytes)[p - 1] + PartBytes[p]
        /\ \A p \in 0..NumPmu : Sums(PartBytes)[p] \in Nat
    BY <2>1, SumsFacts
  <2>4. \A p \in 1..NumPmu : Total(SectionBytes(2, p)) \in Nat
    BY <2>1, TotalFacts
  <2>. QED
    BY <2>1, <2>2, <2>3, <2>4, TotalFacts
(* What is before the PMU after p, the first if p is 0.                    *)
<1>9. ASSUME ~(l.sec < n), l.part < 3
      PROVE  Base(l) + Inside(l) = Total(SectionBytes(1, 0)) + Sums(PartBytes)[l.pmu]
  <2>1. CASE l.part = 1
    <3>1. Base(l) = 0 /\ Inside(l) = Total(SectionBytes(1, 0)) /\ l.pmu = 0
      BY <1>1, <1>7, <1>9, <2>1 DEF Base, s
    <3>. QED
      BY <1>8, <3>1
  <2>2. CASE l.part = 2
    <3>1. /\ Base(l) = Total(SectionBytes(1, 0)) + Sums(PartBytes)[l.pmu - 1]
          /\ Inside(l) = Total(SectionBytes(2, l.pmu))
      BY <1>7, <1>9, <2>2 DEF Base, s
    <3>2. /\ Sums(PartBytes)[l.pmu] = Sums(PartBytes)[l.pmu - 1] + Total(SectionBytes(2, l.pmu))
          /\ Sums(PartBytes)[l.pmu - 1] \in Nat
          /\ Total(SectionBytes(2, l.pmu)) \in Nat
      BY <1>1, <1>8, <2>2
    <3>. QED
      BY <1>8, <3>1, <3>2
  <2>. QED
    BY <1>1, <1>9, <2>1, <2>2
<1>10. ASSUME f.part # 4, f.sec = 1
       PROVE  Inside(f) = 0
  BY <1>5, <1>10, SumsFacts
<1>11. CASE ~(l.sec < n) /\ l.part < 3 /\ l.pmu < NumPmu
  <2>1. f.part = 2 /\ f.pmu = l.pmu + 1 /\ f.sec = 1
    BY <1>11 DEF Following, f, n
  <2>2. f.pmu - 1 = l.pmu
    BY <1>1, <2>1
  <2>3. Base(f) = Total(SectionBytes(1, 0)) + Sums(PartBytes)[l.pmu]
    BY <2>1, <2>2 DEF Base
  <2>4. Before(f) = Before(l)
    BY <1>4, <1>5, <1>9, <1>10, <1>11, <2>1, <2>3
  <2>. QED
    BY <2>1, <2>4 DEF f
<1>12. CASE ~(l.sec < n) /\ l.part < 3 /\ ~(l.pmu < NumPmu)
  <2>1. f.part = 3 /\ f.sec = 1
    BY <1>12 DEF Following, f, n
  <2>2. l.pmu = NumPmu
    BY <1>1, <1>12
  <2>3. Base(f) = Total(SectionBytes(1, 0)) + Sums(PartBytes)[l.pmu]
    BY <1>8, <2>1, <2>2 DEF Base, Total
  <2>4. Before(f) = Before(l)
    BY <1>4, <1>5, <1>9, <1>10, <1>12, <2>1, <2>3
  <2>. QED
    BY <2>1, <2>4 DEF f
<1>13. CASE ~(l.sec < n) /\ ~(l.part < 3)
  <2>1. l.part = 3 /\ f.part = 4 /\ l.pmu = 0
    BY <1>1, <1>13 DEF Following, f, n
  <2>2. Base(l) + Total(SectionBytes(3, 0)) = Whole
    BY <2>1, BaseFacts
  <2>3. Before(l) = Whole
    BY <1>4, <1>7, <1>13, <2>1, <2>2 DEF s
  <2>. QED
    BY <2>1, <2>3 DEF f
<1>. QED
  BY <1>6, <1>11, <1>12, <1>13

(***************************************************************************)
(* The whole of a frame, by the tables of the standard.                    *)
(***************************************************************************)
(* x is the sum of the numbers s, of which there are m.                    *)
IsSum(x, s, m) ==
  /\ m = 1 => x = s[1]
  /\ m = 2 => x = s[1] + s[2]
  /\ m = 3 => x = s[1] + s[2] + s[3]
  /\ m = 4 => x = s[1] + s[2] + s[3] + s[4]
  /\ m = 5 => x = s[1] + s[2] + s[3] + s[4] + s[5]
  /\ m = 10 => x = s[1] + s[2] + s[3] + s[4] + s[5] + s[6] + s[7] + s[8] + s[9] + s[10]
  /\ m = 11 => x = s[1] + s[2] + s[3] + s[4] + s[5] + s[6] + s[7] + s[8] + s[9] + s[10] + s[11]

LEMMA Unfolded ==
  ASSUME NEW m \in Nat, NEW f, NEW s, f[0] = 0,
         \A n \in 1..m : f[n] = f[n - 1] + s[n] /\ s[n] \in Nat
  PROVE  IsSum(f[m], s, m)
<1>1. /\ m >= 1 => f[1] = s[1]
      /\ m >= 2 => f[2] = s[1] + s[2]
      /\ m >= 3 => f[3] = s[1] + s[2] + s[3]
      /\ m >= 4 => f[4] = s[1] + s[2] + s[3] + s[4]
      /\ m >= 5 => f[5] = s[1] + s[2] + s[3] + s[4] + s[5]
  <2>1. m >= 1 => s[1] \in Nat /\ f[1] = s[1]
    OBVIOUS
  <2>2. m >= 2 => s[2] \in Nat /\ f[2] = f[1] + s[2]
    OBVIOUS
  <2>3. m >= 3 => s[3] \in Nat /\ f[3] = f[2] + s[3]
    OBVIOUS
  <2>4. m >= 4 => s[4] \in Nat /\ f[4] = f[3] + s[4]
    OBVIOUS
  <2>5. m >= 5 => f[5] = f[4] + s[5]
    OBVIOUS
  <2>. QED
    BY <2>1, <2>2, <2>3, <2>4, <2>5
<1>2. m >= 10 => f[10] = s[1] + s[2] + s[3] + s[4] + s[5] + s[6] + s[7] + s[8] + s[9] + s[10]
  <2> HAVE m >= 10
  <2>1. \A n \in 1..10 : s[n] \in Nat
    OBVIOUS
  <2>2. f[6] = f[5] + s[6] /\ f[7] = f[6] + s[7] /\ f[8] = f[7] + s[8]
    OBVIOUS
  <2>3. f[9] = f[8] + s[9] /\ f[10] = f[9] + s[10]
    OBVIOUS
  <2>4. f[5] = s[1] + s[2] + s[3] + s[4] + s[5]
    BY <1>1
  <2>5. f[8] = s[1] + s[2] + s[3] + s[4] + s[5] + s[6] + s[7] + s[8]
    BY <2>1, <2>2, <2>4
  <2>. QED
    BY <2>1, <2>3, <2>5
<1>3. m >= 11 => f[11] = f[10] + s[11]
  OBVIOUS
<1>4. CASE m <= 5
  BY <1>1, <1>4 DEF IsSum
<1>5. CASE m = 10
  BY <1>2, <1>5 DEF IsSum
<1>6. CASE m = 11
  BY <1>2, <1>3, <1>6 DEF IsSum
<1>7. CASE m > 5 /\ m # 10 /\ m # 11
  BY <1>7 DEF IsSum
<1>. QED
  BY <1>4, <1>5, <1>6, <1>7

LEMMA SumsUnfolded ==
  ASSUME NEW s, Numbers(s)
  PROVE  IsSum(Total(s), s, Len(s))
<1> DEFINE f == Sums(s)
           m == Len(s)
<1>1. /\ f[0] = 0 /\ \A n \in 1..m : f[n] = f[n - 1] + s[n] /\ s[n] \in Nat
      /\ m \in Nat
  BY SumsFacts DEF Numbers
<1>2. Total(s) = f[m]
  BY DEF Total
<1> HIDE DEF f, m
<1>3. IsSum(f[m], s, m)
  BY <1>1, Unfolded
<1>. QED
  BY <1>2, <1>3 DEF m

LEMMA WordsFit ==
  ASSUME NEW n \in Nat
  PROVE  n <= 16 * Words(n)
BY DEF Words

LEMMA SectionTotal ==
  ASSUME TypeOK, NEW l, Placed(l)
  PROVE  LET c == pdc.pmus[l.pmu] IN
         /\ ~(kind = "CFG3" /\ Sec(l) \in Names)
              => Total(ItemBytes(l)) = WriteBytes(l) * WriteCount(l)
         /\ kind = "CFG3" =>
              /\ Sec(l) = "STN" => Total(ItemBytes(l)) = 1 + c.stn
              /\ Sec(l) = "PHNAM" => Total(ItemBytes(l)) = Len(c.ph) + Total(c.ph)
              /\ Sec(l) = "ANNAM" => Total(ItemBytes(l)) = Len(c.an) + Total(c.an)
              /\ Sec(l) = "DGNAM" => Total(ItemBytes(l)) = 16 * Words(Len(c.dg)) + Total(c.dg)
<1> DEFINE at(i) == [l EXCEPT !.item = i - 1]
           b == ItemBytes(l)
           c == pdc.pmus[l.pmu]
<1>1. l \in Locs /\ WriteCount(l) \in Nat
  BY PlacedPmu, Counts
<1>2. Numbers(b) /\ Len(b) = WriteCount(l)
  BY ItemFacts
<1>3. \A i \in 1..WriteCount(l) : b[i] = WriteBytes(at(i))
  BY DEF ItemBytes
<1>4. ASSUME NEW i \in 1..WriteCount(l)
      PROVE  at(i).pmu = l.pmu /\ at(i).item + 1 = i /\ Sec(at(i)) = Sec(l)
  BY <1>1 DEF Sec, Locs
<1> HIDE DEF at, b
<1>5. ASSUME ~(kind = "CFG3" /\ Sec(l) \in Names)
      PROVE  Total(b) = WriteBytes(l) * WriteCount(l)
  <2>1. \A i \in 1..WriteCount(l) : b[i] = WriteBytes(l)
    BY <1>3, <1>4, <1>5 DEF WriteBytes
  <2>2. CASE WriteCount(l) = 0
    <3>1. Total(b) = 0
      BY <1>2, <2>2, SumsFacts DEF Total
    <3>2. WriteBytes(l) \in Nat
      <4>1. \A s, f : Width(s, f) \in Nat
        BY DEF Width
      <4>. QED
        BY <1>5, <4>1, PdcFacts DEF WriteBytes
    <3>. QED
      BY <2>2, <3>1, <3>2
  <2>3. CASE WriteCount(l) # 0
    <3>1. 1 \in 1..WriteCount(l)
      BY <1>1, <2>3
    <3>2. WriteBytes(l) \in Nat
      BY <1>2, <2>1, <3>1 DEF Numbers
    <3>. QED
      BY <1>2, <2>1, <3>2, SumsConstant
  <2>. QED
    BY <2>2, <2>3
<1>6. ASSUME kind = "CFG3", Sec(l) \in Names
      PROVE  /\ l.pmu \in 1..Len(pdc.pmus)
             /\ \A i \in 1..WriteCount(l) : b[i] = 1 + Name(at(i))
  <2>1. l.part = 2
    BY <1>6, PlacedPmu, Ends, PdcFacts DEF Names, Placed
  <2>2. ASSUME NEW i \in 1..WriteCount(l)
        PROVE  b[i] = 1 + Name(at(i))
    <3>1. Sec(at(i)) \in Names
      BY <1>4, <1>6
    <3> DEFINE a == at(i)
    <3> HIDE DEF a
    <3>2. WriteBytes(a) = 1 + Name(a)
      <4>1. Sec(a) \in Names
        BY <3>1 DEF a
      <4>. QED
        BY <1>6, <4>1 DEF WriteBytes, Names
    <3>3. WriteBytes(at(i)) = 1 + Name(at(i))
      BY <3>2 DEF a
    <3>. QED
      BY <1>3, <3>3
  <2>. QED
    BY <2>1, <2>2, PlacedPmu
<1>7. ASSUME kind = "CFG3", Sec(l) = "STN"
      PROVE  Total(b) = 1 + c.stn
  <2>1. WriteCount(l) = 1 /\ c.stn \in Nat
    BY <1>6, <1>7, PmuFacts DEF WriteCount, Names
  <2>2. b[1] = 1 + c.stn
    BY <1>4, <1>6, <1>7, <2>1 DEF Name, Names
  <2>. QED
    BY <1>2, <2>1, <2>2, SumsUnfolded DEF IsSum
<1>8. ASSUME kind = "CFG3", Sec(l) = "PHNAM"
      PROVE  Total(b) = Len(c.ph) + Total(c.ph)
  <2>1. WriteCount(l) = Len(c.ph) /\ Numbers(c.ph)
    BY <1>6, <1>8, PmuFacts DEF WriteCount, Names, Numbers
  <2>2. \A i \in 1..Len(c.ph) : b[i] = 1 + c.ph[i]
    BY <1>4, <1>6, <1>8, <2>1 DEF Name, Names
  <2>3. Padded(b, c.ph)
    BY <1>1, <1>2, <2>1, <2>2 DEF Padded
  <2>. QED
    BY <1>2, <2>1, <2>3, SumsPadded
<1>9. ASSUME kind = "CFG3", Sec(l) = "ANNAM"
      PROVE  Total(b) = Len(c.an) + Total(c.an)
  <2>1. WriteCount(l) = Len(c.an) /\ Numbers(c.an)
    BY <1>6, <1>9, PmuFacts DEF WriteCount, Names, Numbers
  <2>2. \A i \in 1..Len(c.an) : b[i] = 1 + c.an[i]
    BY <1>4, <1>6, <1>9, <2>1 DEF Name, Names
  <2>3. Padded(b, c.an)
    BY <1>1, <1>2, <2>1, <2>2 DEF Padded
  <2>. QED
    BY <1>2, <2>1, <2>3, SumsPadded
<1>10. ASSUME kind = "CFG3", Sec(l) = "DGNAM"
       PROVE  Total(b) = 16 * Words(Len(c.dg)) + Total(c.dg)
  <2>1. WriteCount(l) = 16 * Words(Len(c.dg)) /\ Numbers(c.dg) /\ Len(c.dg) \in Nat
    BY <1>6, <1>10, PmuFacts DEF WriteCount, Names, Numbers
  <2>2. \A i \in 1..WriteCount(l) : b[i] = 1 + (IF i <= Len(c.dg) THEN c.dg[i] ELSE 0)
    BY <1>4, <1>6, <1>10 DEF Name, Names
  <2>3. Len(c.dg) <= 16 * Words(Len(c.dg))
    BY <2>1, WordsFit
  <2>4. ASSUME NEW i \in 1..Len(b)
        PROVE  b[i] = IF i <= Len(c.dg) THEN 1 + c.dg[i] ELSE 1
    BY <1>2, <2>2
  <2>5. Padded(b, c.dg)
    BY <1>2, <2>1, <2>3, <2>4 DEF Padded
  <2>. QED
    BY <1>2, <2>1, <2>5, SumsPadded
<1>. QED
  BY <1>5, <1>7, <1>8, <1>9, <1>10 DEF b

(* The bytes of section x of a frame, c being the PMU if it is of one.     *)
NameBytes(x, c) ==
  CASE x = "STN" -> 1 + c.stn
    [] x = "PHNAM" -> Len(c.ph) + Total(c.ph)
    [] x = "ANNAM" -> Len(c.an) + Total(c.an)
    [] OTHER -> 16 * Words(Len(c.dg)) + Total(c.dg)

FieldBytes(x, c) ==
  CASE x = "MESSAGE" -> pdc.message
    [] x = "EXTFRAME" -> 0
    [] x \in {"PHNAM", "PHUNIT", "PHASORS"} -> Width(x, c.format) * Len(c.ph)
    [] x \in {"ANNAM", "ANUNIT", "ANALOG"} -> Width(x, c.format) * Len(c.an)
    [] x = "DGNAM" -> Width(x, c.format) * (16 * Words(Len(c.dg)))
    [] x \in {"DIGUNIT", "DIGITAL"} -> Width(x, c.format) * Words(Len(c.dg))
    [] OTHER -> Width(x, c.format)

SectionSize(x, c) ==
  IF kind = "CFG3" /\ x \in Names THEN NameBytes(x, c) ELSE FieldBytes(x, c)

LEMMA SectionSizes ==
  ASSUME TypeOK, kind # "NONE", NEW n \in 1..3, NEW p \in 0..NumPmu, n = 2 <=> p > 0,
         NEW s \in 1..Len(Sections(kind)[n])
  PROVE  /\ SectionBytes(n, p)[s] = SectionSize(Sections(kind)[n][s], pdc.pmus[p])
         /\ Numbers(SectionBytes(n, p))
         /\ Len(SectionBytes(n, p)) = Len(Sections(kind)[n])
<1> DEFINE l == [part |-> n, pmu |-> p, sec |-> s, item |-> 0]
           c == pdc.pmus[p]
           x == Sec(l)
<1>1. kind \in Kinds /\ NumPmu \in Nat /\ Len(Sections(kind)[n]) \in Nat
  BY PdcFacts, Layout
<1>2. l \in Locs /\ l.part = n /\ l.pmu = p /\ l.sec = s
  BY <1>1 DEF Locs
<1> HIDE DEF l
<1>3. Placed(l) /\ x = Sections(kind)[n][s]
  BY <1>1, <1>2 DEF Placed, InLayout, Sec
<1>4. /\ SectionBytes(n, p)[s] = Total(ItemBytes(l))
      /\ Numbers(SectionBytes(n, p)) /\ Len(SectionBytes(n, p)) = Len(Sections(kind)[n])
  BY <1>2, <1>3, SectionFacts
<1>5. CASE kind = "CFG3" /\ x \in Names
  <2>1. /\ x = "STN" => Total(ItemBytes(l)) = 1 + c.stn
        /\ x = "PHNAM" => Total(ItemBytes(l)) = Len(c.ph) + Total(c.ph)
        /\ x = "ANNAM" => Total(ItemBytes(l)) = Len(c.an) + Total(c.an)
        /\ x = "DGNAM" => Total(ItemBytes(l)) = 16 * Words(Len(c.dg)) + Total(c.dg)
    BY <1>2, <1>3, <1>5, SectionTotal
  <2>2. Total(ItemBytes(l)) = SectionSize(x, c)
    <3> HIDE DEF x, c
    <3>1. CASE x = "STN"
      BY <1>5, <2>1, <3>1 DEF SectionSize, NameBytes
    <3>2. CASE x = "PHNAM"
      BY <1>5, <2>1, <3>2 DEF SectionSize, NameBytes
    <3>3. CASE x = "ANNAM"
      BY <1>5, <2>1, <3>3 DEF SectionSize, NameBytes
    <3>4. CASE x = "DGNAM"
      BY <1>5, <2>1, <3>4 DEF SectionSize, NameBytes
    <3>. QED
      BY <1>5, <3>1, <3>2, <3>3, <3>4 DEF Names
  <2>. QED
    BY <1>3, <1>4, <2>2
<1>6. CASE ~(kind = "CFG3" /\ x \in Names)
  <2>1. Total(ItemBytes(l)) = WriteBytes(l) * WriteCount(l)
    BY <1>3, <1>6, SectionTotal
  <2>2. WriteBytes(l) = IF x = "MESSAGE" THEN pdc.message ELSE IF x = "EXTFRAME" THEN 0
                        ELSE Width(x, c.format)
    BY <1>2, <1>6 DEF WriteBytes
  <2>3. /\ x \in {"PHNAM", "PHUNIT", "PHASORS"} => WriteCount(l) = Len(c.ph)
        /\ x \in {"ANNAM", "ANUNIT", "ANALOG"} => WriteCount(l) = Len(c.an)
        /\ x = "DGNAM" => WriteCount(l) = 16 * Words(Len(c.dg))
        /\ x \in {"DIGUNIT", "DIGITAL"} => WriteCount(l) = Words(Len(c.dg))
        /\ x \notin {"PHNAM", "PHUNIT", "PHASORS", "ANNAM", "ANUNIT", "ANALOG", "DGNAM",
                     "DIGUNIT", "DIGITAL"} => WriteCount(l) = 1
    BY <1>2 DEF WriteCount
  <2>4. pdc.message \in Nat /\ Width(x, c.format) \in Nat
    BY PdcFacts DEF Width
  <2>5. Total(ItemBytes(l)) = SectionSize(x, c)
    <3> HIDE DEF x, c
    <3>1. CASE x = "MESSAGE"
      BY <1>6, <2>1, <2>2, <2>3, <2>4, <3>1 DEF SectionSize, FieldBytes
    <3>2. CASE x = "EXTFRAME"
      BY <1>6, <2>1, <2>2, <2>3, <2>4, <3>2 DEF SectionSize, FieldBytes
    <3>3. CASE x \in {"PHNAM", "PHUNIT", "PHASORS"}
      BY <1>6, <2>1, <2>2, <2>3, <3>3 DEF SectionSize, FieldBytes
    <3>4. CASE x \in {"ANNAM", "ANUNIT", "ANALOG"}
      BY <1>6, <2>1, <2>2, <2>3, <3>4 DEF SectionSize, FieldBytes
    <3>5. CASE x = "DGNAM"
      BY <1>6, <2>1, <2>2, <2>3, <3>5 DEF SectionSize, FieldBytes
    <3>6. CASE x \in {"DIGUNIT", "DIGITAL"}
      BY <1>6, <2>1, <2>2, <2>3, <3>6 DEF SectionSize, FieldBytes
    <3>7. CASE x \notin {"MESSAGE", "EXTFRAME", "PHNAM", "PHUNIT", "PHASORS", "ANNAM", "ANUNIT",
                         "ANALOG", "DGNAM", "DIGUNIT", "DIGITAL"}
      <4>1. Total(ItemBytes(l)) = Width(x, c.format)
        BY <2>1, <2>2, <2>3, <2>4, <3>7
      <4>2. SectionSize(x, c) = Width(x, c.format)
        BY <1>6, <3>7 DEF SectionSize, FieldBytes
      <4>. QED
        BY <4>1, <4>2
    <3>. QED
      BY <3>1, <3>2, <3>3, <3>4, <3>5, <3>6, <3>7
  <2>. QED
    BY <1>3, <1>4, <2>5
<1>. QED
  BY <1>5, <1>6

(* The head and the tail of a frame.                                       *)
LEMMA EndsTotal ==
  ASSUME TypeOK, kind # "NONE"
  PROVE  Total(SectionBytes(1, 0)) + Total(SectionBytes(3, 0))
           = CASE kind = "HDR" -> 16 + pdc.message [] kind = "CMD" -> 18
               [] kind = "CFG2" -> 24 [] kind = "CFG3" -> 26 [] OTHER -> 16
<1> DEFINE h == SectionBytes(1, 0)
           t == SectionBytes(3, 0)
           c == pdc.pmus[0]
<1>1. kind \in Kinds /\ 0 \in 0..NumPmu /\ pdc.message \in Nat
  BY PdcFacts
<1>2. /\ Numbers(h) /\ Len(h) = Len(Sections(kind)[1])
      /\ Numbers(t) /\ Len(t) = Len(Sections(kind)[3])
      /\ \A s \in 1..Len(Sections(kind)[1]) : h[s] = SectionSize(Sections(kind)[1][s], c)
      /\ \A s \in 1..Len(Sections(kind)[3]) : t[s] = SectionSize(Sections(kind)[3][s], c)
  <2>1. 1 <= Len(Sections(kind)[1]) /\ 1 <= Len(Sections(kind)[3])
    BY <1>1, Layout
  <2>2. 1 \in 1..Len(Sections(kind)[1]) /\ 1 \in 1..Len(Sections(kind)[3])
    BY <1>1, <2>1, Layout
  <2>. QED
    BY <1>1, <2>2, SectionSizes
<1> HIDE DEF h, t, c
<1>3. /\ SectionSize("HEADER", c) = 14 /\ SectionSize("TIME_BASE", c) = 4
      /\ SectionSize("NUM_PMU", c) = 2 /\ SectionSize("CONT_IDX", c) = 2
      /\ SectionSize("CMD", c) = 2 /\ SectionSize("EXTFRAME", c) = 0
      /\ SectionSize("MESSAGE", c) = pdc.message
      /\ SectionSize("DATA_RATE", c) = 2 /\ SectionSize("CHK", c) = 2
  BY DEF SectionSize, FieldBytes, Width, Names
<1>4. CASE kind = "HDR"
  <2>1. Len(h) = 2 /\ Len(t) = 1 /\ h[1] = 14 /\ h[2] = pdc.message /\ t[1] = 2
    BY <1>2, <1>3, <1>4 DEF Sections, Header
  <2>2. Total(h) = h[1] + h[2] /\ Total(t) = t[1]
    BY <1>2, <2>1, SumsUnfolded DEF IsSum
  <2>. QED
    BY <1>1, <1>4, <2>1, <2>2 DEF h, t
<1>5. CASE kind = "CMD"
  <2>1. Len(h) = 3 /\ Len(t) = 1 /\ h[1] = 14 /\ h[2] = 2 /\ h[3] = 0 /\ t[1] = 2
    BY <1>2, <1>3, <1>5 DEF Sections, CommandFrame
  <2>2. Total(h) = h[1] + h[2] + h[3] /\ Total(t) = t[1]
    BY <1>2, <2>1, SumsUnfolded DEF IsSum
  <2>. QED
    BY <1>5, <2>1, <2>2 DEF h, t
<1>6. CASE kind = "CFG2"
  <2>1. Len(h) = 3 /\ Len(t) = 2 /\ h[1] = 14 /\ h[2] = 4 /\ h[3] = 2 /\ t[1] = 2 /\ t[2] = 2
    BY <1>2, <1>3, <1>6 DEF Sections, Configuration
  <2>2. Total(h) = h[1] + h[2] + h[3] /\ Total(t) = t[1] + t[2]
    BY <1>2, <2>1, SumsUnfolded DEF IsSum
  <2>. QED
    BY <1>6, <2>1, <2>2 DEF h, t
<1>7. CASE kind = "CFG3"
  <2>1. /\ Len(h) = 4 /\ Len(t) = 2 /\ h[1] = 14 /\ h[2] = 2 /\ h[3] = 4 /\ h[4] = 2
        /\ t[1] = 2 /\ t[2] = 2
    BY <1>2, <1>3, <1>7 DEF Sections, Configuration3
  <2>2. Total(h) = h[1] + h[2] + h[3] + h[4] /\ Total(t) = t[1] + t[2]
    BY <1>2, <2>1, SumsUnfolded DEF IsSum
  <2>. QED
    BY <1>7, <2>1, <2>2 DEF h, t
<1>8. CASE kind = "DATA"
  <2>1. Len(h) = 1 /\ Len(t) = 1 /\ h[1] = 14 /\ t[1] = 2
    BY <1>2, <1>3, <1>8 DEF Sections, Data
  <2>2. Total(h) = h[1] /\ Total(t) = t[1]
    BY <1>2, <2>1, SumsUnfolded DEF IsSum
  <2>. QED
    BY <1>8, <2>1, <2>2 DEF h, t
<1>. QED
  BY <1>1, <1>4, <1>5, <1>6, <1>7, <1>8 DEF Kinds

LEMMA PmuTotal ==
  ASSUME TypeOK, NEW p \in 1..NumPmu
  PROVE  Total(SectionBytes(2, p)) = PmuBytes(pdc.pmus[p])
<1> DEFINE b == SectionBytes(2, p)
           c == pdc.pmus[p]
           ph == Len(c.ph)
           an == Len(c.an)
           words == Words(Len(c.dg))
<1>1. kind \in Kinds /\ p \in 0..NumPmu /\ p > 0 /\ NumPmu \in Nat
      /\ p \in 1..Len(pdc.pmus) /\ kind \in Configurations \cup {"DATA"}
  BY PdcFacts
<1>2. /\ ph \in Nat /\ an \in Nat /\ words \in Nat /\ c.stn \in Nat
      /\ c.format \in [0..3 -> BOOLEAN]
      /\ Numbers(c.ph) /\ Numbers(c.an) /\ Numbers(c.dg)
  BY <1>1, PmuFacts DEF Numbers
<1>3. Total(c.ph) \in Nat /\ Total(c.an) \in Nat /\ Total(c.dg) \in Nat
  BY <1>2, TotalFacts
<1>4. /\ Numbers(b) /\ Len(b) = Len(Sections(kind)[2])
      /\ \A s \in 1..Len(Sections(kind)[2]) : b[s] = SectionSize(Sections(kind)[2][s], c)
  <2>1. kind # "NONE" /\ 1 \in 1..Len(Sections(kind)[2])
    BY <1>1, Layout DEF Configurations
  <2>. QED
    BY <1>1, <2>1, SectionSizes
<1> HIDE DEF b, c, ph, an, words
<1>5. CASE kind = "CFG2"
  <2>1. Sections(kind)[2] = Configuration[2] /\ Len(b) = 10
    BY <1>4, <1>5 DEF Sections, Configuration
  <2>2. /\ b[1] = 16 /\ b[2] = 4 /\ b[3] = 6 /\ b[4] = 16 * ph /\ b[5] = 16 * an
        /\ b[6] = 16 * (16 * words) /\ b[7] = 4 * ph /\ b[8] = 4 * an /\ b[9] = 4 * words
        /\ b[10] = 4
    <3>1. /\ SectionSize("STN", c) = 16 /\ SectionSize("FORMAT", c) = 4
          /\ SectionSize("COUNTS", c) = 6 /\ SectionSize("PHNAM", c) = 16 * ph
          /\ SectionSize("ANNAM", c) = 16 * an
          /\ SectionSize("DGNAM", c) = 16 * (16 * words)
      BY <1>5 DEF SectionSize, FieldBytes, Width, Names, ph, an, words
    <3>2. /\ SectionSize("PHUNIT", c) = 4 * ph
          /\ SectionSize("ANUNIT", c) = 4 * an /\ SectionSize("DIGUNIT", c) = 4 * words
          /\ SectionSize("FNOM", c) = 4
      BY <1>5 DEF SectionSize, FieldBytes, Width, Names, ph, an, words
    <3>. QED
      BY <1>4, <2>1, <3>1, <3>2 DEF Configuration
  <2>3. Total(b) = b[1] + b[2] + b[3] + b[4] + b[5] + b[6] + b[7] + b[8] + b[9] + b[10]
    BY <1>4, <2>1, SumsUnfolded DEF IsSum
  <2>4. Total(b) = 30 + 20 * (ph + an) + 260 * words
    BY <1>2, <2>2, <2>3
  <2>. QED
    BY <1>5, <2>4 DEF PmuBytes, b, c, ph, an, words
<1>6. CASE kind = "CFG3"
  <2>1. Sections(kind)[2] = Configuration3[2] /\ Len(b) = 11
    BY <1>4, <1>6 DEF Sections, Configuration3
  <2>2. /\ b[1] = 1 + c.stn /\ b[2] = 20 /\ b[3] = 6 /\ b[4] = ph + Total(c.ph)
        /\ b[5] = an + Total(c.an) /\ b[6] = 16 * words + Total(c.dg) /\ b[7] = 12 * ph
        /\ b[8] = 8 * an /\ b[9] = 4 * words /\ b[10] = 21 /\ b[11] = 4
    <3>0. SectionSize("FORMAT", c) = 20 /\ SectionSize("COUNTS", c) = 6
      BY <1>6 DEF SectionSize, FieldBytes, Width, Names
    <3>1. SectionSize("STN", c) = 1 + c.stn /\ SectionSize("PHNAM", c) = ph + Total(c.ph)
      BY <1>6 DEF SectionSize, NameBytes, Names, ph
    <3>3. SectionSize("ANNAM", c) = an + Total(c.an)
      BY <1>6 DEF SectionSize, NameBytes, Names, an
    <3>4. SectionSize("DGNAM", c) = 16 * words + Total(c.dg)
      BY <1>6 DEF SectionSize, NameBytes, Names, words
    <3>2. /\ SectionSize("PHUNIT", c) = 12 * ph
          /\ SectionSize("ANUNIT", c) = 8 * an /\ SectionSize("DIGUNIT", c) = 4 * words
          /\ SectionSize("PLACE", c) = 21 /\ SectionSize("FNOM", c) = 4
      BY <1>6 DEF SectionSize, FieldBytes, Width, Names, ph, an, words
    <3>. QED
      BY <1>4, <2>1, <3>0, <3>1, <3>2, <3>3, <3>4 DEF Configuration3
  <2>3. Total(b) = b[1] + b[2] + b[3] + b[4] + b[5] + b[6] + b[7] + b[8] + b[9] + b[10] + b[11]
    BY <1>4, <2>1, SumsUnfolded DEF IsSum
  <2>4. b[4] + b[7] = 13 * ph + Total(c.ph) /\ b[5] + b[8] = 9 * an + Total(c.an)
        /\ b[6] + b[9] = 20 * words + Total(c.dg)
    BY <1>2, <1>3, <2>2
  <2>5. /\ b[1] \in Nat /\ b[4] \in Nat /\ b[5] \in Nat /\ b[6] \in Nat /\ b[7] \in Nat
        /\ b[8] \in Nat /\ b[9] \in Nat
    BY <1>2, <1>3, <2>2
  <2>6. Total(b) = b[1] + 51 + (b[4] + b[7]) + (b[5] + b[8]) + (b[6] + b[9])
    BY <2>2, <2>3, <2>5
  <2>7. Total(b) = 52 + c.stn + (Total(c.ph) + Total(c.an) + Total(c.dg)) + 13 * ph + 9 * an
                   + 20 * words
    BY <1>2, <1>3, <2>2, <2>4, <2>6
  <2>. QED
    BY <1>6, <2>7 DEF PmuBytes, b, c, ph, an, words
<1>7. CASE kind = "DATA"
  <2>1. Sections(kind)[2] = Data[2] /\ Len(b) = 5
    BY <1>4, <1>7 DEF Sections, Data
  <2>2. /\ b[1] = 2 /\ b[2] = (IF c.format[1] THEN 8 ELSE 4) * ph
        /\ b[3] = (IF c.format[3] THEN 8 ELSE 4) /\ b[4] = (IF c.format[2] THEN 4 ELSE 2) * an
        /\ b[5] = 2 * words
    <3>1. /\ SectionSize("STAT", c) = 2
          /\ SectionSize("PHASORS", c) = (IF c.format[1] THEN 8 ELSE 4) * ph
          /\ SectionSize("FREQ", c) = (IF c.format[3] THEN 8 ELSE 4)
          /\ SectionSize("ANALOG", c) = (IF c.format[2] THEN 4 ELSE 2) * an
          /\ SectionSize("DIGITAL", c) = 2 * words
      BY <1>7 DEF SectionSize, FieldBytes, Width, Names, ph, an, words
    <3>. QED
      BY <1>4, <2>1, <3>1 DEF Data
  <2>3. Total(b) = b[1] + b[2] + b[3] + b[4] + b[5]
    BY <1>4, <2>1, SumsUnfolded DEF IsSum
  <2>4. PmuBytes(c) = 2 + (IF c.format[1] THEN 8 ELSE 4) * ph + (IF c.format[3] THEN 8 ELSE 4)
                      + (IF c.format[2] THEN 4 ELSE 2) * an + 2 * words
    BY <1>7 DEF PmuBytes, ph, an, words
  <2>. QED
    BY <2>2, <2>3, <2>4 DEF b, c
<1>. QED
  BY <1>1, <1>5, <1>6, <1>7 DEF Configurations

LEMMA WholeFrame ==
  ASSUME TypeOK, kind # "NONE"
  PROVE  Whole = FrameBytes
<1> DEFINE ends == Total(SectionBytes(1, 0)) + Total(SectionBytes(3, 0))
<1>1. kind \in Kinds /\ NumPmu \in Nat /\ pdc.message \in Nat
  BY PdcFacts
<1>2. Whole = ends + Total(PartBytes) /\ Total(PartBytes) \in Nat /\ ends \in Nat
  <2>1. /\ Total(SectionBytes(1, 0)) \in Nat /\ Total(PartBytes) \in Nat
        /\ Total(SectionBytes(3, 0)) \in Nat
    BY PartFacts, TotalFacts
  <2>. QED
    BY <2>1 DEF Whole
<1>3. ends = CASE kind = "HDR" -> 16 + pdc.message [] kind = "CMD" -> 18
               [] kind = "CFG2" -> 24 [] kind = "CFG3" -> 26 [] OTHER -> 16
  BY EndsTotal
<1> HIDE DEF ends
<1>4. CASE kind \in {"HDR", "CMD"}
  <2>1. Len(PartBytes) = 0 /\ Numbers(PartBytes)
    BY <1>4, PartFacts, PdcFacts DEF Configurations
  <2>2. Total(PartBytes) = 0
    BY <2>1, SumsFacts DEF Total
  <2>. QED
    BY <1>2, <1>3, <1>4, <2>2 DEF FrameBytes
<1>5. CASE kind \in Configurations \cup {"DATA"}
  <2>1. NumPmu = Len(pdc.pmus)
    BY <1>5, PdcFacts
  <2>2. PartBytes = [p \in 1..Len(pdc.pmus) |-> PmuBytes(pdc.pmus[p])]
    BY <2>1, PmuTotal DEF PartBytes
  <2>3. FrameBytes = (CASE kind = "CFG2" -> 24 [] kind = "CFG3" -> 26 [] OTHER -> 16)
                     + Total(PartBytes)
    BY <1>5, <2>2 DEF FrameBytes, Configurations
  <2>. QED
    BY <1>2, <1>3, <1>5, <2>3 DEF Configurations
<1>. QED
  BY <1>1, <1>4, <1>5 DEF Kinds, Configurations

(***************************************************************************)
(* Every step preserves the invariant.                                     *)
(***************************************************************************)
LEMMA SameSizes ==
  ASSUME kind' = kind, pdc' = pdc
  PROVE  FrameBytes' = FrameBytes /\ \A l : Before(l)' = Before(l)
<1>1. /\ NumPmu' = NumPmu
      /\ \A l : WriteCount(l)' = WriteCount(l) /\ WriteBytes(l)' = WriteBytes(l)
  BY Same
<1>2. \A l : ItemBytes(l)' = ItemBytes(l)
  BY <1>1 DEF ItemBytes
<1>3. \A n, p : SectionBytes(n, p)' = SectionBytes(n, p)
  BY <1>2 DEF SectionBytes
<1>4. PartBytes' = PartBytes
  BY <1>1, <1>3 DEF PartBytes
<1>5. \A l : Before(l)' = Before(l)
  BY <1>2, <1>3, <1>4 DEF Before
<1>6. \A c : PmuBytes(c)' = PmuBytes(c)
  BY DEF PmuBytes
<1>7. FrameBytes' = FrameBytes
  BY <1>6 DEF FrameBytes
<1>. QED
  BY <1>5, <1>7

LEMMA BeforeStart == TypeOK /\ kind # "NONE" => Before(Start) = 0
<1>1. SUFFICES ASSUME TypeOK, kind # "NONE"
               PROVE  Before(Start) = 0
  OBVIOUS
<1>2. /\ Placed(Start) /\ Start.part = 1 /\ Start.item = 0 /\ Start.sec - 1 = 0
      /\ WriteCount(Start) = 1
  BY <1>1, Starting, Counts DEF Start
<1>3. Numbers(ItemBytes(Start)) /\ Numbers(SectionBytes(Start.part, Start.pmu))
  BY <1>1, <1>2, ItemFacts, SectionFacts
<1>4. Sums(ItemBytes(Start))[0] = 0 /\ Sums(SectionBytes(Start.part, Start.pmu))[0] = 0
  BY <1>3, SumsFacts
<1>5. Inside(Start) = 0 /\ Base(Start) = 0
  BY <1>2, <1>4 DEF Inside, Base
<1>. QED
  BY <1>1, <1>2, <1>5, BeforeIs

LEMMA BeforeStartNext == (TypeOK /\ kind # "NONE")' => (Before(Start) = 0)'
BY BeforeStart, PTL

LEMMA BeginSize ==
  ASSUME IInv', NEW k \in Kinds \ {"NONE"}, Begin(k)
  PROVE  SizeInv'
<1>1. /\ phase' = "write" /\ loc' = Start /\ size' = 0 /\ kind' # "NONE"
      /\ TypeOK'
  BY DEF Begin, IInv, CodecInv
<1>2. (Before(Start) = 0)'
  BY <1>1, BeforeStartNext
<1>. QED
  BY <1>1, <1>2 DEF SizeInv, FrameSizeCorrect

LEMMA WriteSize ==
  ASSUME IInv, SizeInv, WriteItem
  PROVE  SizeInv'
<1>1. /\ TypeOK /\ kind # "NONE" /\ phase = "write" /\ loc.item < WriteCount(loc)
      /\ size = Before(loc) /\ pdc' = pdc /\ kind' = kind /\ size \in Nat
  BY DEF IInv, CodecInv, BufferInv, TypeOK, SizeInv, WriteItem, writeVars
<1>2. Placed(loc) /\ WriteBytes(loc) \in Nat
  BY <1>1, AtTheWriter, Bytes DEF IInv, CodecInv
<1>3. /\ Before(NextItem(loc)) = size + WriteBytes(loc)
      /\ size + WriteBytes(loc) <= FrameBytes
  BY <1>1, <1>2, BeforeNext, WholeFrame
<1>4. CASE size + WriteBytes(loc) > BufferSize
  <2>1. phase' = "overflow"
    BY <1>4 DEF WriteItem
  <2>2. FrameBytes \in Nat /\ BufferSize \in Nat
    BY <1>1, <1>2, BaseFacts, WholeFrame, PdcFacts
  <2>3. FrameBytes > BufferSize
    BY <1>1, <1>2, <1>3, <1>4, <2>2
  <2>. QED
    BY <1>1, <2>1, <2>3, SameSizes DEF SizeInv, FrameSizeCorrect
<1>5. CASE ~(size + WriteBytes(loc) > BufferSize)
  <2>1. phase' = "write" /\ loc' = NextItem(loc) /\ size' = size + WriteBytes(loc)
    BY <1>1, <1>5 DEF WriteItem
  <2>2. size' = Before(loc)'
    BY <1>1, <1>3, <2>1, SameSizes
  <2>. QED
    BY <2>1, <2>2 DEF SizeInv, FrameSizeCorrect
<1>. QED
  BY <1>4, <1>5

LEMMA LeaveSize ==
  ASSUME IInv, IInv', SizeInv, LeaveWrite
  PROVE  SizeInv'
<1> DEFINE next == Following(loc, NumPmu)
<1>1. /\ TypeOK /\ kind # "NONE" /\ phase = "write" /\ loc.item = WriteCount(loc)
      /\ size = Before(loc) /\ pdc' = pdc /\ kind' = kind /\ size' = size
  BY DEF IInv, CodecInv, BufferInv, SizeInv, LeaveWrite, writeVars
<1>2. Placed(loc)
  BY <1>1, AtTheWriter DEF IInv, CodecInv
<1>3. /\ next.part # 4 => Before(next) = size
      /\ next.part = 4 => FrameBytes = size
  BY <1>1, <1>2, BeforeFollowing, WholeFrame
<1>4. CASE next.part = 4
  <2>1. phase' = "read"
    BY <1>4 DEF LeaveWrite, StartReading
  <2>2. frameSize' = size'
    BY <2>1 DEF IInv, CodecInv, BufferInv
  <2>. QED
    BY <1>1, <1>3, <1>4, <2>1, <2>2, SameSizes DEF SizeInv, FrameSizeCorrect
<1>5. CASE next.part # 4
  <2>1. phase' = "write" /\ loc' = next
    BY <1>1, <1>5 DEF LeaveWrite
  <2>2. size' = Before(loc)'
    BY <1>1, <1>3, <1>5, <2>1, SameSizes
  <2>. QED
    BY <2>1, <2>2 DEF SizeInv, FrameSizeCorrect
<1>. QED
  BY <1>4, <1>5

LEMMA SizeStep ==
  ASSUME IInv, IInv', SizeInv, [Next]_vars
  PROVE  SizeInv'
<1>1. ASSUME NEW r \in Configurations \cup {"HDR", "RTD"}, Command(r)
      PROVE  SizeInv'
  BY <1>1, BeginSize DEF Command, Kinds
<1>2. ASSUME StartData
      PROVE  SizeInv'
  BY <1>2, BeginSize DEF StartData, Kinds
<1>3. ASSUME Reply
      PROVE  SizeInv'
  <2>1. request \in Configurations \cup {"HDR"} /\ Begin(request)
    BY <1>3 DEF IInv, CodecInv, InfoInv, Reply
  <2>. QED
    BY <2>1, BeginSize DEF Kinds, Configurations
<1>4. ASSUME Refuse
      PROVE  SizeInv'
  BY <1>4 DEF Refuse, SizeInv, FrameSizeCorrect
<1>5. ASSUME GoAstray \/ ReadItem \/ LeaveRead \/ UNCHANGED vars
      PROVE  SizeInv'
  <2>1. pdc' = pdc /\ kind' = kind /\ frameSize' = frameSize /\ size' = size
    BY <1>5 DEF GoAstray, ReadItem, LeaveRead, vars, writeVars
  <2>2. \/ phase = "read" /\ phase' \notin {"write", "overflow"}
        \/ phase' = phase /\ loc' = loc
    BY <1>5 DEF GoAstray, ReadItem, LeaveRead, vars
  <2>. QED
    BY <2>1, <2>2, SameSizes DEF SizeInv, FrameSizeCorrect
<1>. QED
  BY <1>1, <1>2, <1>3, <1>4, <1>5, WriteSize, LeaveSize DEF Next

(***************************************************************************)
(* The theorems.                                                           *)
(***************************************************************************)

(* At every place of a frame the writer has written what is before it.     *)
THEOREM SizeInvariance == Spec => []SizeInv
<1>1. Init => SizeInv
  BY DEF Init, SizeInv, FrameSizeCorrect
<1>2. IInv /\ IInv' /\ SizeInv /\ [Next]_vars => SizeInv'
  BY SizeStep
<1>3. Spec => []IInv
  BY Initially, Step, PTL DEF Spec
<1>. QED
  BY <1>1, <1>2, <1>3, PTL DEF Spec

(* FRAMESIZE is what the standard's tables give for the PDC's PMUs, names, *)
(* and channels, and PdcProc's buffer overflows for larger frames only.    *)
THEOREM FrameSizesAreCorrect == Spec => []FrameSizeCorrect
<1>1. SizeInv => FrameSizeCorrect
  BY DEF SizeInv
<1>. QED
  BY <1>1, SizeInvariance, PTL
=============================================================================
