----------------------- MODULE ManagedSimulatorProofs -----------------------
(***************************************************************************)
(* SimInv is an inductive invariant of ManagedSimulator, for any number of *)
(* PMUs, channels and edits and files of any size; the properties follow.  *)
(***************************************************************************)
EXTENDS ManagedSimulator, TLAPS

USE DEF vars, config, feeds, windows, thread

LEMMA Elements ==
  ASSUME NEW S, NEW seq \in Seq(S)
  PROVE  Len(seq) \in Nat /\ DOMAIN seq = 1 .. Len(seq) /\ \A i \in DOMAIN seq : seq[i] \in S
  OBVIOUS

(* std::vector::erase closes the gap. *)
LEMMA ErasedFacts ==
  ASSUME NEW S, NEW seq \in Seq(S), NEW i \in DOMAIN seq
  PROVE  /\ Erased(seq, i) \in Seq(S)
         /\ Len(Erased(seq, i)) = Len(seq) - 1
         /\ DOMAIN Erased(seq, i) = 1 .. Len(seq) - 1
         /\ \A j \in 1 .. Len(seq) - 1 :
              Erased(seq, i)[j] = IF j < i THEN seq[j] ELSE seq[j + 1]
<1> DEFINE e == [j \in 1 .. Len(seq) - 1 |-> IF j < i THEN seq[j] ELSE seq[j + 1]]
<1>1. Len(seq) \in Nat /\ DOMAIN seq = 1 .. Len(seq) /\ Len(seq) - 1 \in Nat
  OBVIOUS
<1>2. \A j \in 1 .. Len(seq) - 1 : e[j] \in S
  BY <1>1
<1>3. e \in Seq(S) /\ Len(e) = Len(seq) - 1
  BY <1>1, <1>2
<1> QED
  BY <1>1, <1>3 DEF Erased

(* It keeps each thing at its position or moves it to a lower one. *)
LEMMA ErasedOrdered ==
  ASSUME NEW S, NEW seq \in Seq(S), NEW i \in DOMAIN seq, NEW m \in Nat,
         \A j \in DOMAIN seq : seq[j] \in Nat /\ j <= seq[j] /\ seq[j] <= m
  PROVE  /\ \A j \in DOMAIN Erased(seq, i) : j <= Erased(seq, i)[j] /\ Erased(seq, i)[j] <= m
         /\ (\A j, k \in DOMAIN seq : j < k => seq[j] < seq[k]) =>
              \A j, k \in DOMAIN Erased(seq, i) : j < k => Erased(seq, i)[j] < Erased(seq, i)[k]
<1> DEFINE e == Erased(seq, i)
<1>1. /\ Len(seq) \in Nat /\ DOMAIN seq = 1 .. Len(seq)
      /\ DOMAIN e = 1 .. Len(seq) - 1
  BY ErasedFacts
<1>2. \A j \in 1 .. Len(seq) - 1 : e[j] = IF j < i THEN seq[j] ELSE seq[j + 1]
  BY ErasedFacts
<1> HIDE DEF e
<1>3. ASSUME NEW j \in DOMAIN e PROVE j <= e[j] /\ e[j] <= m
  <2>1. j \in DOMAIN seq /\ j + 1 \in DOMAIN seq
    BY <1>1
  <2> QED
    BY <1>1, <1>2, <2>1
<1>4. ASSUME NEW j \in DOMAIN e, NEW k \in DOMAIN e, j < k,
             \A a, b \in DOMAIN seq : a < b => seq[a] < seq[b]
      PROVE  e[j] < e[k]
  <2>1. j \in DOMAIN seq /\ j + 1 \in DOMAIN seq /\ k \in DOMAIN seq /\ k + 1 \in DOMAIN seq
    BY <1>1
  <2>2. j \in Int /\ k \in Int /\ i \in Int /\ j < k + 1 /\ j + 1 < k + 1
    BY <1>1, <1>4
  <2>3. seq[j] < seq[k] /\ seq[j] < seq[k + 1] /\ seq[j + 1] < seq[k + 1]
    BY <1>4, <2>1, <2>2
  <2>4. /\ e[j] = IF j < i THEN seq[j] ELSE seq[j + 1]
        /\ e[k] = IF k < i THEN seq[k] ELSE seq[k + 1]
    BY <1>1, <1>2
  <2> QED
    BY <1>4, <2>2, <2>3, <2>4
<1> QED
  BY <1>3, <1>4 DEF e

LEMMA AppendFacts ==
  ASSUME NEW S, NEW seq \in Seq(S), NEW x \in S
  PROVE  /\ Append(seq, x) \in Seq(S)
         /\ Len(Append(seq, x)) = Len(seq) + 1
         /\ DOMAIN Append(seq, x) = 1 .. Len(seq) + 1
         /\ Append(seq, x)[Len(seq) + 1] = x
         /\ \A j \in 1 .. Len(seq) : Append(seq, x)[j] = seq[j]
  OBVIOUS

(* What a list of n things is when they are named in order. *)
LEMMA CountedFacts ==
  ASSUME NEW m \in Nat, NEW n \in 0 .. m
  PROVE  /\ [c \in 1 .. n |-> c] \in Seq(1 .. m)
         /\ Len([c \in 1 .. n |-> c]) = n
         /\ DOMAIN [c \in 1 .. n |-> c] = 1 .. n
<1>1. \A c \in 1 .. n : c \in 1 .. m
  OBVIOUS
<1> QED
  BY <1>1

(* The lists of the configuration are sequences of numbers. *)
LEMMA ListFacts ==
  ASSUME ConfigTypeOK
  PROVE  /\ Len(items) \in Nat /\ DOMAIN items = 1 .. Len(items) /\ made \in Nat
         /\ \A i \in DOMAIN items : items[i] \in Pmus /\ items[i] \in Nat
         /\ \A p \in Pmus :
              /\ channelsMade[p] \in Nat
              /\ channels[p] \in Seq(Positions)
              /\ Len(channels[p]) \in Nat /\ DOMAIN channels[p] = 1 .. Len(channels[p])
              /\ \A c \in DOMAIN channels[p] : channels[p][c] \in Positions /\ channels[p][c] \in Nat
<1>1. Pmus \subseteq Nat /\ Positions \subseteq Nat
  BY DEF Pmus, Positions
<1>2. \A p \in Pmus : channels[p] \in Seq(Positions) /\ channelsMade[p] \in Nat
  BY DEF ConfigTypeOK
<1>3. items \in Seq(Pmus) /\ made \in Nat
  BY DEF ConfigTypeOK
<1>4. Len(items) \in Nat /\ DOMAIN items = 1 .. Len(items) /\ \A i \in DOMAIN items : items[i] \in Pmus
  BY <1>3
<1>5. ASSUME NEW p \in Pmus
      PROVE  /\ Len(channels[p]) \in Nat /\ DOMAIN channels[p] = 1 .. Len(channels[p])
             /\ \A c \in DOMAIN channels[p] : channels[p][c] \in Positions
  BY <1>2
<1> QED
  BY <1>1, <1>2, <1>3, <1>4, <1>5

(* The steps, by what they do to the configuration. *)
LEMMA ConfigSteps ==
  ASSUME [Next]_vars
  PROVE  \/ UNCHANGED config
         \/ \E what \in {"new", "open"} : NextSolution(what)
         \/ AppendDefaultPMU
         \/ \E p \in Pmus :
              \/ RemovePmuAtIndex(p)
              \/ CommitPmu(p)
              \/ AddChannel(p)
              \/ \E c \in Positions : RemoveChannel(p, c)
<1>1. CASE UNCHANGED vars
  BY <1>1
<1>2. CASE \E what \in {"new", "open"} : CloseSolution(what)
  BY <1>2 DEF CloseSolution, Crash
<1>3. CASE ShutdownReturns
  BY <1>3 DEF ShutdownReturns
<1>4. CASE PdcProc
  BY <1>4 DEF PdcProc, TestActive, BeginTick, CheckOverride, ReadOverride, ChannelsRead,
       SignalOverride, ChannelsSignalled, FrameDone, MovesTo
<1>5. CASE Save \/ OnEndEditLabel \/ StartSimulator \/ StopSimulator
  BY <1>5 DEF Save, OnEndEditLabel, StartSimulator, StopSimulator, Crash
<1>6. ASSUME NEW p \in Pmus, PmuWindow(p) PROVE UNCHANGED config \/ PmuWindow(p)
  BY <1>6
<1>7. ASSUME NEW p \in Pmus, OpenPmuWindow(p) \/ ClosePmuWindow(p) PROVE UNCHANGED config
  BY <1>7 DEF OpenPmuWindow, ClosePmuWindow, Crash
<1>8. ASSUME NEW s \in Slots, ChannelWindow(s) PROVE UNCHANGED config
  BY <1>8 DEF ChannelWindow, OpenChannelWindow, CommitChannel, CloseChannelWindow, ClickRadio,
       CommitConstant, AssignOverride, CommitFile, Crash
<1> QED
  BY <1>1, <1>2, <1>3, <1>4, <1>5, <1>7, <1>8 DEF Next, PmuWindow

(* The simulator that a new or an opened solution has. *)
LEMMA NewSolution ==
  ASSUME TypeOK, NEW what, NextSolution(what)
  PROVE  /\ ConfigTypeOK'
         /\ Len(items') = made'
         /\ \A i \in DOMAIN items' : items'[i] = i
         /\ \A p \in Pmus :
              /\ Len(channels'[p]) = channelsMade'[p]
              /\ \A c \in DOMAIN channels'[p] : channels'[p][c] = c
         /\ tree' \in Seq(0 .. MaxChannels) /\ Len(tree') = made'
         /\ \A p \in DOMAIN tree' : tree'[p] = channelsMade'[p]
         /\ mixed' = FALSE
         /\ NoOverrides /\ NoThread /\ CloseAllDocuments /\ gui' = "loop"
         /\ m_simPdc' \in {"null", "garbage"}
         /\ UNCHANGED <<archive, crashed>>
<1> DEFINE N == made'
<1>1. PICK number \in Seq(0 .. MaxChannels) : Len(number) <= MaxPmus /\ Construct(number)
  <2>1. CASE what = "new"
    <3>1. <<Defaults>> \in Seq(0 .. MaxChannels) /\ Len(<<Defaults>>) <= MaxPmus
      BY SimulatorAssumption
    <3>2. Construct(<<Defaults>>)
      BY <2>1 DEF NextSolution, CreateNewPdcSimulator
    <3> QED
      BY <3>1, <3>2
  <2>2. CASE what # "new"
    BY <2>2 DEF NextSolution, CreateByByArchive, TypeOK
  <2> QED
    BY <2>1, <2>2
<1>2. made' = Len(number) /\ made' \in 0 .. MaxPmus /\ DOMAIN number = 1 .. made'
  BY <1>1, SimulatorAssumption DEF Construct
<1>3. items' = [i \in 1 .. N |-> i]
  BY <1>1, <1>2 DEF Construct
<1>4. items' \in Seq(Pmus) /\ Len(items') = made' /\ \A i \in DOMAIN items' : items'[i] = i
  BY <1>2, <1>3, CountedFacts, SimulatorAssumption DEF Pmus
<1>5. /\ channelsMade' = [i \in Pmus |-> IF i \in 1 .. N THEN number[i] ELSE 0]
      /\ channels' = [i \in Pmus |-> [c \in 1 .. channelsMade'[i] |-> c]]
      /\ tree' = number
  BY <1>1, <1>2 DEF Construct
<1>6. \A p \in Pmus : channelsMade'[p] \in 0 .. MaxChannels
  BY <1>1, <1>2, <1>5, SimulatorAssumption
<1>7. \A p \in Pmus :
        /\ channels'[p] \in Seq(Positions)
        /\ Len(channels'[p]) = channelsMade'[p]
        /\ \A c \in DOMAIN channels'[p] : channels'[p][c] = c
  <2>1. ASSUME NEW n \in 0 .. MaxChannels
        PROVE  /\ [c \in 1 .. n |-> c] \in Seq(Positions) /\ Len([c \in 1 .. n |-> c]) = n
               /\ DOMAIN [c \in 1 .. n |-> c] = 1 .. n
    BY CountedFacts, SimulatorAssumption DEF Positions
  <2> TAKE p \in Pmus
  <2>2. channelsMade'[p] \in 0 .. MaxChannels /\ channels'[p] = [c \in 1 .. channelsMade'[p] |-> c]
    BY <1>5, <1>6
  <2>3. channels'[p] \in Seq(Positions) /\ Len(channels'[p]) = channelsMade'[p]
        /\ DOMAIN channels'[p] = 1 .. channelsMade'[p]
    BY <2>1, <2>2
  <2> QED
    BY <2>2, <2>3
<1>8. ConfigTypeOK'
  <2>1. mixed' \in BOOLEAN
    BY <1>1 DEF Construct
  <2>2. channelsMade' \in [Pmus -> 0 .. MaxChannels]
    BY <1>5, <1>6
  <2>3. channels' \in [Pmus -> Seq(Positions)]
    BY <1>5, <1>7
  <2> QED
    BY <1>2, <1>4, <2>1, <2>2, <2>3 DEF ConfigTypeOK
<1>9. tree' \in Seq(0 .. MaxChannels) /\ Len(tree') = made' /\ \A p \in DOMAIN tree' : tree'[p] = channelsMade'[p]
  BY <1>1, <1>2, <1>5, SimulatorAssumption DEF Pmus
<1> QED
  BY <1>1, <1>4, <1>7, <1>8, <1>9 DEF Construct, NextSolution

LEMMA ConfigTypeStep ==
  ASSUME TypeOK, ListsOrdered, [Next]_vars
  PROVE  ConfigTypeOK' /\ ListsOrdered'
<1> USE DEF TypeOK, ConfigTypeOK
<1>1. CASE UNCHANGED config
  BY <1>1 DEF ListsOrdered
<1>2. ASSUME NEW what, NextSolution(what) PROVE ConfigTypeOK' /\ ListsOrdered'
  <2>1. /\ ConfigTypeOK'
        /\ Len(items') = made'
        /\ \A i \in DOMAIN items' : items'[i] = i
        /\ \A p \in Pmus :
             /\ Len(channels'[p]) = channelsMade'[p]
             /\ \A c \in DOMAIN channels'[p] : channels'[p][c] = c
    BY <1>2, NewSolution
  <2>2. /\ made' \in Nat /\ DOMAIN items' = 1 .. Len(items')
        /\ \A p \in Pmus : channelsMade'[p] \in Nat /\ DOMAIN channels'[p] = 1 .. Len(channels'[p])
    BY <2>1
  <2> HIDE DEF ConfigTypeOK, TypeOK
  <2> QED
    BY <2>1, <2>2 DEF ListsOrdered
<1>3. CASE AppendDefaultPMU
  <2>1. /\ made + 1 \in Pmus /\ made' = made + 1
        /\ items' = Append(items, made + 1)
        /\ channels' = [channels EXCEPT ![made + 1] = [c \in 1 .. Defaults |-> c]]
        /\ channelsMade' = [channelsMade EXCEPT ![made + 1] = Defaults]
        /\ mixed' = mixed
    BY <1>3, SimulatorAssumption DEF AppendDefaultPMU, Pmus
  <2>2. /\ [c \in 1 .. Defaults |-> c] \in Seq(Positions)
        /\ Len([c \in 1 .. Defaults |-> c]) = Defaults
        /\ DOMAIN [c \in 1 .. Defaults |-> c] = 1 .. Defaults
    BY CountedFacts, SimulatorAssumption DEF Positions
  <2>3. /\ items' \in Seq(Pmus) /\ Len(items') = Len(items) + 1
        /\ DOMAIN items' = 1 .. Len(items) + 1
        /\ items'[Len(items) + 1] = made + 1
        /\ \A j \in 1 .. Len(items) : items'[j] = items[j]
    BY <2>1, AppendFacts
  <2>4. ConfigTypeOK'
    <3>1. channels' \in [Pmus -> Seq(Positions)]
      BY <2>1, <2>2
    <3>2. channelsMade' \in [Pmus -> 0 .. MaxChannels]
      BY <2>1, SimulatorAssumption
    <3> QED
      BY <2>1, <2>3, <3>1, <3>2 DEF Pmus
  <2>5. /\ \A i \in DOMAIN items' : i <= items'[i] /\ items'[i] <= made'
        /\ \A i, j \in DOMAIN items' : i < j => items'[i] < items'[j]
        /\ Len(items') <= made'
        /\ Len(items') = made' => \A i \in DOMAIN items' : items'[i] = i
    <3>1. /\ Len(items) \in Nat /\ DOMAIN items = 1 .. Len(items) /\ made \in Nat
          /\ \A i \in 1 .. Len(items) : items[i] \in Nat /\ i <= items[i] /\ items[i] <= made
          /\ \A i, j \in 1 .. Len(items) : i < j => items[i] < items[j]
          /\ Len(items) <= made
      BY ListFacts DEF ListsOrdered
    <3>2. made' = made + 1
      BY <2>1
    <3> DEFINE k == Len(items)
    <3>3. k = made => \A i \in 1 .. k : items[i] = i
      BY <3>1 DEF ListsOrdered
    <3>4. k \in Nat /\ made \in Nat /\ DOMAIN items' = 1 .. k + 1 /\ Len(items') = k + 1
      BY <2>3, <3>1
    <3>5. items'[k + 1] = made + 1 /\ \A j \in 1 .. k : items'[j] = items[j]
      BY <2>3
    <3> HIDE DEF TypeOK, ConfigTypeOK
    <3>6. /\ \A i \in DOMAIN items' : i <= items'[i] /\ items'[i] <= made'
          /\ \A i, j \in DOMAIN items' : i < j => items'[i] < items'[j]
          /\ Len(items') <= made'
      BY <2>3, <3>1, <3>2
    <3>7. ASSUME Len(items') = made', NEW i \in DOMAIN items' PROVE items'[i] = i
      <4>1. k = made
        BY <3>2, <3>7, <3>4
      <4> HIDE DEF k
      <4>2. \A j \in 1 .. k : items'[j] = j
        BY <3>3, <3>5, <4>1
      <4>3. items'[k + 1] = k + 1
        BY <3>5, <4>1
      <4>4. i \in 1 .. k \/ i = k + 1
        BY <3>7, <3>4
      <4> QED
        BY <4>2, <4>3, <4>4
    <3> QED
      BY <3>6, <3>7
  <2>6. \A p \in Pmus :
          /\ Len(channels'[p]) <= channelsMade'[p]
          /\ \A c \in DOMAIN channels'[p] : c <= channels'[p][c] /\ channels'[p][c] <= channelsMade'[p]
    <3> TAKE p \in Pmus
    <3>1. CASE p = made + 1
      <4>1. channels'[p] = [c \in 1 .. Defaults |-> c] /\ channelsMade'[p] = Defaults
        BY <2>1, <3>1
      <4> QED
        BY <2>2, <4>1, SimulatorAssumption
    <3>2. CASE p # made + 1
      BY <2>1, <3>2 DEF ListsOrdered
    <3> QED
      BY <3>1, <3>2
  <2> QED
    BY <2>4, <2>5, <2>6 DEF ListsOrdered
<1>4. ASSUME NEW p \in Pmus, RemovePmuAtIndex(p) PROVE ConfigTypeOK' /\ ListsOrdered'
  <2>1. /\ p \in DOMAIN items /\ items' = Erased(items, p)
        /\ UNCHANGED <<made, mixed, channels, channelsMade>>
    BY <1>4 DEF RemovePmuAtIndex
  <2>2. /\ items' \in Seq(Pmus) /\ Len(items') = Len(items) - 1
        /\ DOMAIN items' = 1 .. Len(items) - 1
        /\ \A j \in 1 .. Len(items) - 1 : items'[j] = IF j < p THEN items[j] ELSE items[j + 1]
    BY <2>1, ErasedFacts
  <2>3. /\ \A i \in DOMAIN items' : i <= items'[i] /\ items'[i] <= made'
        /\ \A i, j \in DOMAIN items' : i < j => items'[i] < items'[j]
        /\ Len(items') <= made'
        /\ Len(items') = made' => \A i \in DOMAIN items' : items'[i] = i
    <3>1. /\ Len(items) \in Nat /\ DOMAIN items = 1 .. Len(items) /\ made \in Nat
          /\ \A i \in 1 .. Len(items) : items[i] \in Nat /\ i <= items[i] /\ items[i] <= made
          /\ \A i, j \in 1 .. Len(items) : i < j => items[i] < items[j]
          /\ Len(items) <= made
      BY ListFacts DEF ListsOrdered
    <3>2. made' = made /\ p \in DOMAIN items
      BY <2>1
    <3>3. items' = Erased(items, p) /\ items \in Seq(Pmus)
      BY <2>1
    <3> HIDE DEF TypeOK, ConfigTypeOK
    <3>4. /\ \A i \in DOMAIN items' : i <= items'[i] /\ items'[i] <= made
          /\ \A i, j \in DOMAIN items' : i < j => items'[i] < items'[j]
      BY <3>1, <3>2, <3>3, ErasedOrdered
    <3>5. Len(items') < made'
      BY <2>2, <3>1, <3>2
    <3> QED
      BY <3>1, <3>2, <3>4, <3>5
  <2> QED
    BY <2>1, <2>2, <2>3 DEF ListsOrdered
<1>5. ASSUME NEW p \in Pmus, CommitPmu(p) PROVE ConfigTypeOK' /\ ListsOrdered'
  <2>1. UNCHANGED <<items, made, channels, channelsMade>>
    BY <1>5 DEF CommitPmu, Crash
  <2>2. mixed' \in BOOLEAN
    BY <1>5 DEF CommitPmu, Crash
  <2> QED
    BY <2>1, <2>2 DEF ListsOrdered
<1>6. ASSUME NEW p \in Pmus, AddChannel(p) PROVE ConfigTypeOK' /\ ListsOrdered'
  <2> DEFINE id == pmuWindow[p]
             n == channelsMade[id] + 1
  <2>1. /\ id \in Pmus /\ n \in Positions
        /\ channelsMade' = [channelsMade EXCEPT ![id] = n]
        /\ channels' = [channels EXCEPT ![id] = Append(channels[id], n)]
        /\ UNCHANGED <<items, made, mixed>>
    BY <1>6, SimulatorAssumption DEF AddChannel, RebuildChannels, WindowTypeOK, Positions
  <2>2. channels[id] \in Seq(Positions) /\ channelsMade[id] \in Nat
    BY <2>1
  <2> HIDE DEF n
  <2>3. /\ channels'[id] \in Seq(Positions)
        /\ Len(channels'[id]) = Len(channels[id]) + 1
        /\ DOMAIN channels'[id] = 1 .. Len(channels[id]) + 1
        /\ channels'[id][Len(channels[id]) + 1] = n
        /\ \A c \in 1 .. Len(channels[id]) : channels'[id][c] = channels[id][c]
    BY <2>1, <2>2, AppendFacts
  <2>4. ConfigTypeOK'
    <3>1. channels' \in [Pmus -> Seq(Positions)]
      BY <2>1, <2>3
    <3>2. channelsMade' \in [Pmus -> 0 .. MaxChannels]
      BY <2>1 DEF Positions
    <3> QED
      BY <2>1, <3>1, <3>2
  <2>5. \A q \in Pmus :
          /\ Len(channels'[q]) <= channelsMade'[q]
          /\ \A c \in DOMAIN channels'[q] : c <= channels'[q][c] /\ channels'[q][c] <= channelsMade'[q]
    <3> TAKE q \in Pmus
    <3>1. CASE q = id
      <4>1. /\ Len(channels[q]) \in Nat /\ DOMAIN channels[q] = 1 .. Len(channels[q])
            /\ channelsMade[q] \in Nat /\ Len(channels[q]) <= channelsMade[q]
            /\ \A c \in DOMAIN channels[q] :
                 channels[q][c] \in Nat /\ c <= channels[q][c] /\ channels[q][c] <= channelsMade[q]
        BY ListFacts DEF ListsOrdered
      <4>2. channelsMade'[q] = channelsMade[q] + 1 /\ n = channelsMade[q] + 1
        BY <2>1, <3>1 DEF n
      <4>3. /\ Len(channels'[q]) = Len(channels[q]) + 1
            /\ DOMAIN channels'[q] = 1 .. Len(channels[q]) + 1
            /\ channels'[q][Len(channels[q]) + 1] = n
            /\ \A c \in 1 .. Len(channels[q]) : channels'[q][c] = channels[q][c]
        BY <2>3, <3>1
      <4> HIDE DEF TypeOK, ConfigTypeOK, id
      <4>4. Len(channels'[q]) <= channelsMade'[q]
        BY <4>1, <4>2, <4>3
      <4>5. ASSUME NEW c \in DOMAIN channels'[q]
            PROVE  c <= channels'[q][c] /\ channels'[q][c] <= channelsMade'[q]
        <5>1. CASE c = Len(channels[q]) + 1
          BY <4>1, <4>2, <4>3, <5>1
        <5>2. CASE c # Len(channels[q]) + 1
          <6>1. c \in 1 .. Len(channels[q])
            BY <4>1, <4>3, <5>2
          <6>2. channels'[q][c] = channels[q][c]
            BY <4>3, <6>1
          <6> QED
            BY <4>1, <4>2, <6>1, <6>2
        <5> QED
          BY <5>1, <5>2
      <4> QED
        BY <4>4, <4>5
    <3>2. CASE q # id
      BY <2>1, <3>2 DEF ListsOrdered
    <3> QED
      BY <3>1, <3>2
  <2> QED
    BY <2>1, <2>4, <2>5 DEF ListsOrdered
<1>7. ASSUME NEW p \in Pmus, NEW c \in Positions, RemoveChannel(p, c)
      PROVE  ConfigTypeOK' /\ ListsOrdered'
  <2> DEFINE id == pmuWindow[p]
  <2>1. /\ id \in Pmus /\ c \in DOMAIN channels[id]
        /\ channels' = [channels EXCEPT ![id] = Erased(channels[id], c)]
        /\ UNCHANGED <<items, made, mixed, channelsMade>>
    BY <1>7 DEF RemoveChannel, RebuildChannels, WindowTypeOK
  <2>2. channels[id] \in Seq(Positions)
    BY <2>1
  <2>3. /\ channels'[id] = Erased(channels[id], c)
        /\ channels'[id] \in Seq(Positions)
        /\ Len(channels'[id]) = Len(channels[id]) - 1
    <3>1. channels'[id] = Erased(channels[id], c)
      BY <2>1
    <3>2. c \in DOMAIN channels[id]
      BY <2>1
    <3> HIDE DEF TypeOK, ConfigTypeOK, id
    <3> QED
      BY <2>2, <3>1, <3>2, ErasedFacts
  <2>4. \A q \in Pmus :
          /\ Len(channels'[q]) <= channelsMade'[q]
          /\ \A d \in DOMAIN channels'[q] : d <= channels'[q][d] /\ channels'[q][d] <= channelsMade'[q]
    <3> TAKE q \in Pmus
    <3>1. CASE q = id
      <4>1. /\ Len(channels[q]) \in Nat /\ DOMAIN channels[q] = 1 .. Len(channels[q])
            /\ channelsMade[q] \in Nat /\ Len(channels[q]) <= channelsMade[q]
            /\ \A d \in DOMAIN channels[q] :
                 channels[q][d] \in Nat /\ d <= channels[q][d] /\ channels[q][d] <= channelsMade[q]
        BY ListFacts DEF ListsOrdered
      <4>2. /\ channelsMade'[q] = channelsMade[q] /\ c \in DOMAIN channels[q]
            /\ channels'[q] = Erased(channels[q], c) /\ channels[q] \in Seq(Positions)
            /\ Len(channels'[q]) = Len(channels[q]) - 1
        BY <2>1, <2>2, <2>3, <3>1
      <4> HIDE DEF TypeOK, ConfigTypeOK
      <4>3. \A d \in DOMAIN channels'[q] : d <= channels'[q][d] /\ channels'[q][d] <= channelsMade[q]
        BY <4>1, <4>2, ErasedOrdered
      <4> QED
        BY <4>1, <4>2, <4>3
    <3>2. CASE q # id
      BY <2>1, <3>2 DEF ListsOrdered
    <3> QED
      BY <3>1, <3>2
  <2> QED
    BY <2>1, <2>3, <2>4 DEF ListsOrdered
<1> QED
  BY <1>1, <1>2, <1>3, <1>4, <1>5, <1>6, <1>7, ConfigSteps

IInv ==
  /\ SimInv
  /\ InputsFollowChannels
  /\ RunSafe
  /\ RunningAsConfigured
  /\ WindowsInStep

(* The channels of the run are those of the configuration. *)
LEMMA RunFacts ==
  ASSUME IInv, pdc # "none"
  PROVE  /\ run = Lists
         /\ Len(run) \in Nat /\ DOMAIN run = 1 .. Len(run) /\ DOMAIN run \subseteq Pmus
         /\ DOMAIN run = DOMAIN items
         /\ \A p \in DOMAIN run :
              /\ run[p] = channels[items[p]]
              /\ Len(run[p]) \in Nat /\ DOMAIN run[p] = 1 .. Len(run[p])
              /\ DOMAIN run[p] \subseteq Positions
<1>1. TypeOK /\ ListsOrdered /\ ConfigTypeOK /\ ThreadTypeOK /\ run = Lists
  BY DEF IInv, SimInv, TypeOK, RunningAsConfigured
<1>2. DOMAIN run = DOMAIN items /\ \A p \in DOMAIN run : run[p] = channels[items[p]]
  BY <1>1 DEF Lists
<1>3. Len(run) \in Nat /\ DOMAIN run = 1 .. Len(run)
  BY <1>1 DEF ThreadTypeOK
<1>4. /\ DOMAIN items = 1 .. Len(items) /\ Len(items) \in Nat
      /\ made \in 0 .. MaxPmus /\ MaxPmus \in Nat /\ MaxChannels \in Nat
  BY <1>1, ListFacts, SimulatorAssumption DEF ConfigTypeOK
<1>5. DOMAIN run \subseteq Pmus
  <2>1. Len(items) <= made
    BY <1>1 DEF ListsOrdered
  <2> QED
    BY <1>2, <1>4, <2>1 DEF Pmus
<1>6. ASSUME NEW p \in DOMAIN run
      PROVE  /\ Len(run[p]) \in Nat /\ DOMAIN run[p] = 1 .. Len(run[p])
             /\ DOMAIN run[p] \subseteq Positions
  <2>1. items[p] \in Pmus /\ run[p] = channels[items[p]]
    BY <1>1, <1>2, ListFacts
  <2>2. channelsMade[items[p]] \in 0 .. MaxChannels
    BY <1>1, <2>1 DEF ConfigTypeOK
  <2>3. /\ Len(run[p]) \in Nat /\ DOMAIN run[p] = 1 .. Len(run[p])
        /\ Len(run[p]) <= channelsMade[items[p]]
    BY <1>1, <2>1, ListFacts DEF ListsOrdered
  <2> QED
    BY <1>4, <2>2, <2>3 DEF Positions
<1> QED
  BY <1>1, <1>2, <1>3, <1>5, <1>6

(* The steps, by what they do to the feeds. *)
LEMMA FeedSteps ==
  ASSUME [Next]_vars
  PROVE  \/ UNCHANGED feeds
         \/ \E what \in {"new", "open"} : NextSolution(what)
         \/ \E s \in Slots :
              \/ OpenChannelWindow(s)
              \/ CommitConstant(s)
              \/ AssignOverride(s)
              \/ \E n \in Sizes \cup {0} : CommitFile(s, n)
         \/ CheckOverride
         \/ SignalOverride
<1>1. CASE UNCHANGED vars
  BY <1>1
<1>2. CASE \E what \in {"new", "open"} : CloseSolution(what)
  BY <1>2 DEF CloseSolution, Crash
<1>3. CASE ShutdownReturns
  BY <1>3 DEF ShutdownReturns
<1>4. CASE TestActive \/ BeginTick \/ ReadOverride \/ ChannelsRead \/ ChannelsSignalled \/ FrameDone
  BY <1>4 DEF TestActive, BeginTick, ReadOverride, ChannelsRead, ChannelsSignalled, FrameDone, MovesTo
<1>5. CASE Save \/ AppendDefaultPMU \/ OnEndEditLabel \/ StartSimulator \/ StopSimulator
  BY <1>5 DEF Save, AppendDefaultPMU, OnEndEditLabel, StartSimulator, StopSimulator, Crash
<1>6. ASSUME NEW p \in Pmus, PmuWindow(p) PROVE UNCHANGED feeds
  BY <1>6 DEF PmuWindow, RemovePmuAtIndex, OpenPmuWindow, CommitPmu, AddChannel, RemoveChannel,
       ClosePmuWindow, RebuildChannels, Crash
<1>7. ASSUME NEW s \in Slots, CommitChannel(s) \/ CloseChannelWindow(s) \/ ClickRadio(s)
      PROVE  UNCHANGED feeds
  BY <1>7 DEF CommitChannel, CloseChannelWindow, ClickRadio, Crash
<1> QED
  BY <1>1, <1>2, <1>3, <1>4, <1>5, <1>6, <1>7 DEF Next, PdcProc, ChannelWindow

(* What the configuration has at a slot. *)
LEMMA OwnerType ==
  ASSUME ConfigTypeOK, NEW s \in Slots
  PROVE  /\ Owner(s) \in Nat \X Nat /\ NoOne \in Nat \X Nat
         /\ Owner(s) # NoOne <=> s[1] \in DOMAIN items /\ s[2] \in DOMAIN channels[items[s[1]]]
<1>1. CASE s[1] \in DOMAIN items /\ s[2] \in DOMAIN channels[items[s[1]]]
  <2>1. items[s[1]] \in Pmus /\ items[s[1]] \in Nat
    BY <1>1, ListFacts
  <2>2. channels[items[s[1]]][s[2]] \in Nat
    BY <1>1, <2>1, ListFacts
  <2>3. items[s[1]] # 0
    BY <2>1 DEF Pmus
  <2> QED
    BY <1>1, <2>1, <2>2, <2>3 DEF Owner, NoOne
<1>2. CASE ~(s[1] \in DOMAIN items /\ s[2] \in DOMAIN channels[items[s[1]]])
  <2>1. Owner(s) = NoOne
    BY <1>2 DEF Owner
  <2> QED
    BY <1>2, <2>1 DEF NoOne
<1> QED
  BY <1>1, <1>2

LEMMA FeedTypeStep ==
  ASSUME IInv, [Next]_vars
  PROVE  FeedTypeOK'
<1>1. TypeOK /\ ConfigTypeOK /\ FeedTypeOK
  BY DEF IInv, SimInv, TypeOK
<1>2. CASE UNCHANGED feeds
  BY <1>1, <1>2 DEF FeedTypeOK
<1>3. ASSUME NEW what, NextSolution(what) PROVE FeedTypeOK'
  <2>1. NoOverrides
    BY <1>1, <1>3, NewSolution
  <2> QED
    BY <2>1 DEF NoOverrides, FeedTypeOK, Kinds, NoOne
<1>4. ASSUME NEW s \in Slots, NEW kind \in Kinds, SetOverride(s, kind)
      PROVE  override' \in [Slots -> Kinds] /\ chosenFor' \in [Slots -> Nat \X Nat]
  <2>1. Owner(s) \in Nat \X Nat /\ NoOne \in Nat \X Nat
    BY <1>1, OwnerType
  <2> QED
    BY <1>1, <1>4, <2>1 DEF SetOverride, FeedTypeOK
<1>5. ASSUME NEW s \in Slots, OpenChannelWindow(s) PROVE FeedTypeOK'
  <2>1. "const" \in Kinds
    BY DEF Kinds
  <2> QED
    BY <1>1, <1>2, <1>4, <1>5, <2>1 DEF OpenChannelWindow, FeedTypeOK
<1>6. ASSUME NEW s \in Slots, CommitConstant(s) PROVE FeedTypeOK'
  <2>1. "deleted" \in Kinds
    BY DEF Kinds
  <2> QED
    BY <1>1, <1>4, <1>6, <2>1 DEF CommitConstant, FeedTypeOK
<1>7. ASSUME NEW s \in Slots, AssignOverride(s) PROVE FeedTypeOK'
  <2>1. "const" \in Kinds
    BY DEF Kinds
  <2> QED
    BY <1>1, <1>4, <1>7, <2>1 DEF AssignOverride, FeedTypeOK
<1>8. ASSUME NEW s \in Slots, NEW n \in Sizes \cup {0}, CommitFile(s, n) PROVE FeedTypeOK'
  <2>1. "file" \in Kinds /\ n \in Nat
    BY SimulatorAssumption DEF Kinds
  <2>2. override' \in [Slots -> Kinds] /\ chosenFor' \in [Slots -> Nat \X Nat]
    BY <1>4, <1>8, <2>1 DEF CommitFile
  <2>3. size' \in [Slots -> Nat] /\ cursor' \in [Slots -> Nat]
    BY <1>1, <1>8, <2>1 DEF CommitFile, FeedTypeOK
  <2> QED
    BY <2>2, <2>3 DEF FeedTypeOK
<1>9. CASE CheckOverride
  <2>1. size' = size /\ cursor' = cursor /\ chosenFor' = chosenFor
    BY <1>9 DEF CheckOverride, MovesTo
  <2>2. override' \in [Slots -> Kinds]
    BY <1>1, <1>9 DEF CheckOverride, FeedTypeOK, Kinds
  <2> QED
    BY <1>1, <2>1, <2>2 DEF FeedTypeOK
<1>10. CASE SignalOverride
  <2>1. size' = size /\ override' = override /\ chosenFor' = chosenFor
    BY <1>10 DEF SignalOverride, MovesTo
  <2>2. at \in Slots
    <3>1. at[1] \in DOMAIN run /\ pdc # "none" /\ at[2] \in Positions
      BY <1>10 DEF IInv, SimInv, KeysInserted, SignalOverride, Runs
    <3>2. at = <<at[1], at[2]>>
      BY <1>1 DEF TypeOK, ThreadTypeOK
    <3> QED
      BY <3>1, <3>2, RunFacts DEF Slots
  <2>3. size[at] \in Nat /\ cursor[at] \in Nat
    BY <1>1, <2>2 DEF FeedTypeOK
  <2>4. size[at] # 0 => (cursor[at] + 1) % size[at] \in Nat
    BY <2>3
  <2>5. cursor' \in [Slots -> Nat]
    BY <1>1, <1>10, <2>2, <2>4 DEF SignalOverride, FeedTypeOK
  <2> QED
    BY <1>1, <2>1, <2>5 DEF FeedTypeOK
<1> QED
  BY <1>2, <1>3, <1>5, <1>6, <1>7, <1>8, <1>9, <1>10, FeedSteps

(* The steps, by what they do to the windows and to the GUI thread. *)
LEMMA WindowSteps ==
  ASSUME [Next]_vars
  PROVE  \/ UNCHANGED <<windows, gui>>
         \/ \E what \in {"new", "open"} : NextSolution(what) \/ CloseSolution(what)
         \/ AppendDefaultPMU \/ OnEndEditLabel \/ StopSimulator \/ ShutdownReturns
         \/ \E p \in Pmus :
              \/ OpenPmuWindow(p)
              \/ AddChannel(p)
              \/ \E c \in Positions : RemoveChannel(p, c)
              \/ ClosePmuWindow(p)
         \/ \E s \in Slots :
              \/ OpenChannelWindow(s)
              \/ CloseChannelWindow(s)
              \/ ClickRadio(s)
              \/ CommitConstant(s)
              \/ AssignOverride(s)
<1>1. CASE UNCHANGED vars
  BY <1>1
<1>2. CASE PdcProc
  BY <1>2 DEF PdcProc, TestActive, BeginTick, CheckOverride, ReadOverride, ChannelsRead,
       SignalOverride, ChannelsSignalled, FrameDone, MovesTo
<1>3. CASE Save \/ StartSimulator
  BY <1>3 DEF Save, StartSimulator
<1>4. ASSUME NEW p \in Pmus, RemovePmuAtIndex(p) \/ CommitPmu(p) PROVE UNCHANGED <<windows, gui>>
  BY <1>4 DEF RemovePmuAtIndex, CommitPmu, Crash
<1>5. ASSUME NEW s \in Slots, CommitChannel(s) PROVE UNCHANGED <<windows, gui>>
  BY <1>5 DEF CommitChannel, Crash
<1>6. ASSUME NEW s \in Slots, NEW n \in Sizes \cup {0}, CommitFile(s, n) PROVE UNCHANGED <<windows, gui>>
  BY <1>6 DEF CommitFile
<1> QED
  BY <1>1, <1>2, <1>3, <1>4, <1>5, <1>6 DEF Next, PmuWindow, ChannelWindow

(* The project view of any lists: what FillClassView makes. *)
LEMMA TreeFacts ==
  ASSUME NEW list \in Seq(Pmus), NEW chan \in [Pmus -> Seq(Positions)],
         NEW number \in [Pmus -> 0 .. MaxChannels], \A p \in Pmus : Len(chan[p]) <= number[p]
  PROVE  LET t == [p \in DOMAIN list |-> Len(chan[list[p]])] IN
         /\ t \in Seq(0 .. MaxChannels) /\ Len(t) = Len(list) /\ DOMAIN t = DOMAIN list
         /\ \A p \in DOMAIN list : t[p] <= number[list[p]]
<1> DEFINE t == [p \in DOMAIN list |-> Len(chan[list[p]])]
<1>1. DOMAIN list = 1 .. Len(list) /\ Len(list) \in Nat /\ \A p \in DOMAIN list : list[p] \in Pmus
  OBVIOUS
<1>2. ASSUME NEW p \in DOMAIN list
      PROVE  t[p] \in 0 .. MaxChannels /\ t[p] <= number[list[p]]
  <2>1. number[list[p]] \in 0 .. MaxChannels /\ MaxChannels \in Nat
    BY <1>1, SimulatorAssumption
  <2>2. chan[list[p]] \in Seq(Positions)
    BY <1>1
  <2>3. Len(chan[list[p]]) \in Nat /\ Len(chan[list[p]]) <= number[list[p]]
    BY <1>1, <2>2
  <2> QED
    BY <2>1, <2>3
<1>3. t = [p \in 1 .. Len(list) |-> Len(chan[list[p]])]
  BY <1>1
<1>4. \A p \in 1 .. Len(list) : Len(chan[list[p]]) \in 0 .. MaxChannels
  BY <1>1, <1>2
<1>5. t \in Seq(0 .. MaxChannels) /\ Len(t) = Len(list)
  BY <1>1, <1>3, <1>4
<1> QED
  BY <1>1, <1>2, <1>5

(* A rebuild of one PMU's channels, and what it finds. *)
LEMMA RebuildFacts ==
  ASSUME IInv, [Next]_vars, NEW p \in Pmus, pmuWindow[p] # NoPmu,
         RebuildChannels(p), items' = items
  PROVE  /\ pmuWindow' = pmuWindow /\ radio' = radio /\ gui' = gui
         /\ tree' \in Seq(0 .. MaxChannels) /\ Len(tree') = Len(tree) /\ DOMAIN tree' = DOMAIN tree
         /\ \A q \in DOMAIN tree :
              \/ tree'[q] = tree[q]
              \/ q \in DOMAIN items' /\ tree'[q] <= channelsMade'[items'[q]]
         /\ crashed' \in {crashed, "index"}
<1>1. TypeOK /\ ConfigTypeOK /\ ListsOrdered /\ WindowTypeOK
  BY DEF IInv, SimInv, TypeOK
<1>2. ConfigTypeOK' /\ ListsOrdered'
  BY <1>1, ConfigTypeStep
<1>3. pmuWindow' = pmuWindow /\ radio' = radio /\ gui' = gui
  BY DEF RebuildChannels
<1>4. tree \in Seq(0 .. MaxChannels)
  BY <1>1 DEF WindowTypeOK
<1>5. CASE p \in DOMAIN items
  <2>1. items'[p] \in Pmus /\ p \in DOMAIN items'
    BY <1>1, <1>5, ListFacts
  <2>2. channelsMade'[items'[p]] \in 0 .. MaxChannels /\ MaxChannels \in Nat
    BY <1>2, <2>1, SimulatorAssumption DEF ConfigTypeOK
  <2>3. Len(channels'[items'[p]]) \in Nat /\ Len(channels'[items'[p]]) <= channelsMade'[items'[p]]
    <3>1. channels'[items'[p]] \in Seq(Positions)
      BY <1>2, <2>1 DEF ConfigTypeOK
    <3> QED
      BY <1>2, <2>1, <3>1 DEF ListsOrdered
  <2>4. tree' = [tree EXCEPT ![p] = Len(channels'[items'[p]])] /\ crashed' = crashed
    BY <1>5 DEF RebuildChannels
  <2>5. Len(channels'[items'[p]]) \in 0 .. MaxChannels
    BY <2>2, <2>3
  <2> DEFINE n == Len(channels'[items'[p]])
  <2>6. tree' = [tree EXCEPT ![p] = n] /\ n \in 0 .. MaxChannels
    BY <2>4, <2>5
  <2> HIDE DEF n
  <2>7. tree' \in Seq(0 .. MaxChannels) /\ Len(tree') = Len(tree) /\ DOMAIN tree' = DOMAIN tree
    <3>1. DOMAIN tree = 1 .. Len(tree) /\ Len(tree) \in Nat
      BY <1>4
    <3>2. tree' = [q \in 1 .. Len(tree) |-> IF q = p THEN n ELSE tree[q]]
      BY <2>6, <3>1
    <3>3. \A q \in 1 .. Len(tree) : (IF q = p THEN n ELSE tree[q]) \in 0 .. MaxChannels
      <4>1. \A q \in 1 .. Len(tree) : tree[q] \in 0 .. MaxChannels
        BY <1>4, <3>1, Elements
      <4> QED
        BY <2>6, <4>1
    <3> QED
      BY <3>1, <3>2, <3>3
  <2>8. \A q \in DOMAIN tree : tree'[q] = IF q = p THEN n ELSE tree[q]
    BY <1>4, <2>6
  <2> QED
    BY <1>3, <2>1, <2>3, <2>4, <2>7, <2>8 DEF n
<1>6. CASE p \notin DOMAIN items
  BY <1>3, <1>4, <1>6 DEF RebuildChannels
<1> QED
  BY <1>5, <1>6

LEMMA WindowTypeStep ==
  ASSUME IInv, [Next]_vars
  PROVE  WindowTypeOK'
<1>1. TypeOK /\ ConfigTypeOK /\ WindowTypeOK /\ ListsOrdered
  BY DEF IInv, SimInv, TypeOK
<1>2. ConfigTypeOK' /\ ListsOrdered'
  BY <1>1, ConfigTypeStep
<1>3. CASE UNCHANGED <<windows, gui>>
  BY <1>1, <1>3 DEF WindowTypeOK
<1>4. ASSUME NEW what, NextSolution(what) PROVE WindowTypeOK'
  <2>1. tree' \in Seq(0 .. MaxChannels) /\ CloseAllDocuments /\ gui' = "loop"
    BY <1>1, <1>4, NewSolution
  <2> QED
    BY <2>1 DEF CloseAllDocuments, WindowTypeOK
<1>5. ASSUME NEW what \in {"new", "open"}, CloseSolution(what) PROVE WindowTypeOK'
  <2>1. CASE m_simPdc = "null"
    BY <1>4, <1>5, <2>1 DEF CloseSolution
  <2>2. CASE m_simPdc = "running"
    <3>1. CloseAllDocuments /\ tree' = <<>> /\ gui' = what
      BY <1>5, <2>2 DEF CloseSolution
    <3>2. <<>> \in Seq(0 .. MaxChannels)
      OBVIOUS
    <3> QED
      BY <3>1, <3>2 DEF CloseAllDocuments, WindowTypeOK
  <2>3. CASE m_simPdc = "garbage"
    BY <1>3, <1>5, <2>3 DEF CloseSolution, Crash
  <2> QED
    BY <1>1, <2>1, <2>2, <2>3 DEF TypeOK
<1>6. CASE AppendDefaultPMU \/ OnEndEditLabel
  <2>1. /\ tree' = [p \in DOMAIN items' |-> Len(channels'[items'[p]])]
        /\ UNCHANGED <<pmuWindow, radio, gui>>
    BY <1>6 DEF AppendDefaultPMU, OnEndEditLabel
  <2>2. tree' \in Seq(0 .. MaxChannels)
    <3>1. /\ items' \in Seq(Pmus) /\ channels' \in [Pmus -> Seq(Positions)]
          /\ channelsMade' \in [Pmus -> 0 .. MaxChannels]
          /\ \A p \in Pmus : Len(channels'[p]) <= channelsMade'[p]
      BY <1>2 DEF ConfigTypeOK, ListsOrdered
    <3> QED
      BY <2>1, <3>1, TreeFacts
  <2> QED
    BY <1>1, <2>1, <2>2 DEF WindowTypeOK
<1>7. CASE StopSimulator
  BY <1>1, <1>7 DEF StopSimulator, WindowTypeOK, Crash
<1>8. CASE ShutdownReturns
  BY <1>1, <1>4, <1>8 DEF ShutdownReturns, WindowTypeOK
<1>9. ASSUME NEW p \in Pmus, OpenPmuWindow(p) \/ ClosePmuWindow(p) PROVE WindowTypeOK'
  <2>1. UNCHANGED <<tree, radio, gui>>
    BY <1>9 DEF OpenPmuWindow, ClosePmuWindow, Crash
  <2>2. p \in DOMAIN items => items[p] \in Pmus
    BY <1>1, ListFacts
  <2>3. pmuWindow' \in [Pmus -> {NoPmu} \cup Pmus]
    BY <1>1, <1>9, <2>2 DEF OpenPmuWindow, ClosePmuWindow, Crash, WindowTypeOK, NoPmu
  <2> QED
    BY <1>1, <2>1, <2>3 DEF WindowTypeOK
<1>10. ASSUME NEW p \in Pmus, AddChannel(p) \/ \E c \in Positions : RemoveChannel(p, c)
       PROVE  WindowTypeOK'
  <2>1. RebuildChannels(p) /\ pmuWindow[p] # NoPmu
    BY <1>10 DEF AddChannel, RemoveChannel
  <2>2. items' = items
    BY <2>1 DEF RebuildChannels
  <2> QED
    BY <1>1, <2>1, <2>2, RebuildFacts DEF WindowTypeOK
<1>11. ASSUME NEW s \in Slots, OpenChannelWindow(s) PROVE WindowTypeOK'
  BY <1>1, <1>11 DEF OpenChannelWindow, Crash, WindowTypeOK
<1>12. ASSUME NEW s \in Slots, CloseChannelWindow(s) \/ ClickRadio(s) PROVE WindowTypeOK'
  BY <1>1, <1>12 DEF CloseChannelWindow, ClickRadio, WindowTypeOK
<1>13. ASSUME NEW s \in Slots, CommitConstant(s) \/ AssignOverride(s) PROVE WindowTypeOK'
  BY <1>1, <1>13 DEF CommitConstant, AssignOverride, WindowTypeOK
<1> QED
  BY <1>3, <1>4, <1>5, <1>6, <1>7, <1>8, <1>9, <1>10, <1>11, <1>12, <1>13, WindowSteps

LEMMA ThreadTypeStep ==
  ASSUME IInv, [Next]_vars
  PROVE  ThreadTypeOK'
<1>1. TypeOK /\ ConfigTypeOK /\ ThreadTypeOK
  BY DEF IInv, SimInv, TypeOK
<1>2. MaxPmus \in Nat \ {0} /\ MaxChannels \in Nat
  BY SimulatorAssumption
<1>3. CASE NoThread
  <2>1. <<>> \in Seq(Seq(Positions))
    OBVIOUS
  <2> QED
    <3>1. at' \in (1 .. MaxPmus + 1) \X (1 .. MaxChannels + 1)
      BY <1>2, <1>3 DEF NoThread
    <3> QED
      BY <1>3, <2>1, <3>1 DEF NoThread, ThreadTypeOK
<1>4. CASE UNCHANGED thread
  BY <1>1, <1>4 DEF ThreadTypeOK
<1>5. ASSUME NEW what, NextSolution(what) PROVE ThreadTypeOK'
  BY <1>1, <1>3, <1>5, NewSolution
<1>6. ASSUME NEW what \in {"new", "open"}, CloseSolution(what) PROVE ThreadTypeOK'
  BY <1>1, <1>4, <1>5, <1>6 DEF CloseSolution, Crash, ThreadTypeOK
<1>7. CASE StopSimulator
  BY <1>1, <1>4, <1>7 DEF StopSimulator, Crash, ThreadTypeOK
<1>8. CASE ShutdownReturns
  BY <1>3, <1>5, <1>8 DEF ShutdownReturns
<1>9. CASE StartSimulator
  <2>1. Lists \in Seq(Seq(Positions))
    <3>1. DOMAIN items = 1 .. Len(items) /\ Len(items) \in Nat
      BY <1>1, ListFacts
    <3>2. \A p \in DOMAIN items : channels[items[p]] \in Seq(Positions)
      BY <1>1, ListFacts
    <3>3. Lists = [p \in 1 .. Len(items) |-> channels[items[p]]]
      BY <3>1 DEF Lists
    <3> DEFINE S == Seq(Positions)
    <3> HIDE DEF S
    <3>4. Lists \in Seq(S)
      BY <3>1, <3>2, <3>3 DEF S
    <3> QED
      BY <3>4 DEF S
  <2>2. Ready \in BOOLEAN
    BY DEF Ready
  <2>3. run' = Lists /\ m_isActive' = TRUE /\ pdc' = "idle" /\ framed' = FALSE /\ ready' = Ready /\ at' = at
    BY <1>9 DEF StartSimulator
  <2> QED
    BY <1>1, <2>1, <2>2, <2>3 DEF ThreadTypeOK
<1>10. ASSUME NEW where \in {"none", "idle", "asleep", "check", "use", "signal"},
              NEW p \in 1 .. MaxPmus + 1, NEW c \in 1 .. MaxChannels + 1, MovesTo(where, p, c),
              framed' \in BOOLEAN
       PROVE  ThreadTypeOK'
  BY <1>1, <1>10 DEF MovesTo, ThreadTypeOK
<1>11. CASE PdcProc
  <2>1. at[1] \in 1 .. MaxPmus + 1 /\ at[2] \in 1 .. MaxChannels + 1 /\ 1 \in 1 .. MaxPmus + 1 /\ 1 \in 1 .. MaxChannels + 1
    BY <1>1, <1>2 DEF ThreadTypeOK
  <2>2. framed' \in BOOLEAN
    BY <1>1, <1>11 DEF PdcProc, TestActive, BeginTick, CheckOverride, ReadOverride, ChannelsRead,
         SignalOverride, ChannelsSignalled, FrameDone, MovesTo, ThreadTypeOK
  <2>3. CASE TestActive
    <3>1. MovesTo(IF m_isActive THEN "asleep" ELSE "none", 1, 1)
      BY <2>3 DEF TestActive
    <3> QED
      BY <1>10, <2>1, <2>2, <3>1
  <2>4. CASE BeginTick
    <3>1. PICK where \in {"idle", "check"} : MovesTo(where, 1, 1)
      BY <2>4 DEF BeginTick
    <3> QED
      BY <1>10, <2>1, <2>2, <3>1
  <2>5. CASE CheckOverride
    <3>1. at[1] \in DOMAIN run /\ at[2] \in DOMAIN run[at[1]] /\ pdc # "none"
      BY <2>5 DEF CheckOverride, Runs
    <3>2. at[2] + 1 \in 1 .. MaxChannels + 1
      BY <1>2, <3>1, RunFacts DEF Positions
    <3>3. MovesTo("check", at[1], at[2] + 1) \/ MovesTo("use", at[1], at[2])
      BY <2>5 DEF CheckOverride
    <3> QED
      BY <1>10, <2>1, <2>2, <3>2, <3>3
  <2>6. CASE ReadOverride
    <3>1. at[1] \in DOMAIN run /\ at[2] \in DOMAIN run[at[1]] /\ pdc # "none"
      BY <2>6 DEF ReadOverride, Runs, IInv, SimInv, KeysInserted
    <3>2. at[2] + 1 \in 1 .. MaxChannels + 1
      BY <1>2, <3>1, RunFacts DEF Positions
    <3> QED
      BY <1>10, <2>1, <2>2, <2>6, <3>2 DEF ReadOverride
  <2>7. CASE ChannelsRead
    BY <1>10, <2>1, <2>2, <2>7 DEF ChannelsRead
  <2>8. CASE SignalOverride
    <3>1. at[2] + 1 \in 1 .. MaxChannels + 1
      BY <1>2, <2>8 DEF SignalOverride, Positions
    <3> QED
      BY <1>10, <2>1, <2>2, <2>8, <3>1 DEF SignalOverride
  <2>9. CASE ChannelsSignalled
    <3>1. at[1] \in DOMAIN run /\ pdc # "none"
      BY <2>9 DEF ChannelsSignalled, Runs, IInv, SimInv, KeysInserted
    <3>2. at[1] + 1 \in 1 .. MaxPmus + 1
      BY <1>2, <3>1, RunFacts DEF Pmus
    <3> QED
      BY <1>10, <2>1, <2>2, <2>9, <3>2 DEF ChannelsSignalled
  <2>10. CASE FrameDone
    BY <1>10, <2>1, <2>2, <2>10 DEF FrameDone
  <2> QED
    BY <1>11, <2>3, <2>4, <2>5, <2>6, <2>7, <2>8, <2>9, <2>10 DEF PdcProc
<1>12. CASE Save \/ AppendDefaultPMU \/ OnEndEditLabel
  BY <1>4, <1>12 DEF Save, AppendDefaultPMU, OnEndEditLabel
<1>13. ASSUME NEW p \in Pmus, PmuWindow(p) PROVE UNCHANGED thread
  BY <1>13 DEF PmuWindow, RemovePmuAtIndex, OpenPmuWindow, CommitPmu, AddChannel, RemoveChannel,
       ClosePmuWindow, RebuildChannels, Crash
<1>14. ASSUME NEW s \in Slots, ChannelWindow(s) PROVE UNCHANGED thread
  BY <1>14 DEF ChannelWindow, OpenChannelWindow, CommitChannel, CloseChannelWindow, ClickRadio,
       CommitConstant, AssignOverride, CommitFile, Crash
<1> QED
  BY <1>4, <1>6, <1>7, <1>8, <1>9, <1>11, <1>12, <1>13, <1>14 DEF Next

LEMMA TypeStep ==
  ASSUME IInv, [Next]_vars
  PROVE  TypeOK'
<1>1. TypeOK /\ ConfigTypeOK /\ WindowTypeOK /\ ListsOrdered
  BY DEF IInv, SimInv, TypeOK
<1>2. ConfigTypeOK' /\ FeedTypeOK' /\ WindowTypeOK' /\ ThreadTypeOK'
  BY <1>1, ConfigTypeStep, FeedTypeStep, WindowTypeStep, ThreadTypeStep
<1>3. m_simPdc' \in {"null", "running", "garbage"}
  <2>1. \/ m_simPdc' = m_simPdc
        \/ m_simPdc' \in {"null", "running"}
        \/ \E what : NextSolution(what)
    <3>1. CASE UNCHANGED vars
      BY <3>1
    <3>2. ASSUME NEW what \in {"new", "open"}, CloseSolution(what)
          PROVE  m_simPdc' = m_simPdc \/ NextSolution(what)
      BY <3>2 DEF CloseSolution, Crash
    <3>3. CASE StartSimulator \/ StopSimulator \/ ShutdownReturns
      BY <3>3 DEF StartSimulator, StopSimulator, ShutdownReturns, Crash
    <3>4. CASE Save \/ AppendDefaultPMU \/ OnEndEditLabel
      BY <3>4 DEF Save, AppendDefaultPMU, OnEndEditLabel
    <3>5. CASE PdcProc
      BY <3>5 DEF PdcProc, TestActive, BeginTick, CheckOverride, ReadOverride, ChannelsRead,
           SignalOverride, ChannelsSignalled, FrameDone, MovesTo
    <3>6. ASSUME NEW p \in Pmus, PmuWindow(p) PROVE m_simPdc' = m_simPdc
      BY <3>6 DEF PmuWindow, RemovePmuAtIndex, OpenPmuWindow, CommitPmu, AddChannel, RemoveChannel,
           ClosePmuWindow, RebuildChannels, Crash
    <3>7. ASSUME NEW s \in Slots, ChannelWindow(s) PROVE m_simPdc' = m_simPdc
      BY <3>7 DEF ChannelWindow, OpenChannelWindow, CommitChannel, CloseChannelWindow, ClickRadio,
           CommitConstant, AssignOverride, CommitFile, Crash
    <3> QED
      BY <3>1, <3>2, <3>3, <3>4, <3>5, <3>6, <3>7 DEF Next
  <2> QED
    BY <1>1, <2>1, NewSolution DEF TypeOK
<1>4. archive' \in Seq(0 .. MaxChannels) /\ Len(archive') <= MaxPmus
  <2>1. archive' = archive \/ Save
    <3>1. CASE UNCHANGED vars
      BY <3>1
    <3>2. ASSUME NEW what \in {"new", "open"}, CloseSolution(what) PROVE archive' = archive
      BY <3>2 DEF CloseSolution, NextSolution, Crash
    <3>3. CASE StartSimulator \/ StopSimulator \/ ShutdownReturns
      BY <3>3 DEF StartSimulator, StopSimulator, ShutdownReturns, NextSolution, Crash
    <3>4. CASE AppendDefaultPMU \/ OnEndEditLabel
      BY <3>4 DEF AppendDefaultPMU, OnEndEditLabel
    <3>5. CASE PdcProc
      BY <3>5 DEF PdcProc, TestActive, BeginTick, CheckOverride, ReadOverride, ChannelsRead,
           SignalOverride, ChannelsSignalled, FrameDone, MovesTo
    <3>6. ASSUME NEW p \in Pmus, PmuWindow(p) PROVE archive' = archive
      BY <3>6 DEF PmuWindow, RemovePmuAtIndex, OpenPmuWindow, CommitPmu, AddChannel, RemoveChannel,
           ClosePmuWindow, RebuildChannels, Crash
    <3>7. ASSUME NEW s \in Slots, ChannelWindow(s) PROVE archive' = archive
      BY <3>7 DEF ChannelWindow, OpenChannelWindow, CommitChannel, CloseChannelWindow, ClickRadio,
           CommitConstant, AssignOverride, CommitFile, Crash
    <3> QED
      BY <3>1, <3>2, <3>3, <3>4, <3>5, <3>6, <3>7 DEF Next
  <2>2. CASE Save
    <3> DEFINE r(p) == Len(channels[items[p]])
    <3>1. DOMAIN items = 1 .. Len(items) /\ Len(items) \in Nat /\ Len(items) <= MaxPmus
      <4>1. Len(items) <= made /\ made \in 0 .. MaxPmus /\ MaxPmus \in Nat
        BY <1>1, SimulatorAssumption DEF ListsOrdered, ConfigTypeOK
      <4> QED
        BY <1>1, <4>1, ListFacts
    <3>2. ASSUME NEW p \in 1 .. Len(items) PROVE r(p) \in 0 .. MaxChannels
      <4>1. items[p] \in Pmus
        BY <1>1, <3>1, ListFacts
      <4>2. channelsMade[items[p]] \in 0 .. MaxChannels
        BY <1>1, <4>1 DEF ConfigTypeOK
      <4>3. Len(channels[items[p]]) \in Nat /\ Len(channels[items[p]]) <= channelsMade[items[p]]
        BY <1>1, <4>1, ListFacts DEF ListsOrdered
      <4> QED
        BY <4>2, <4>3, SimulatorAssumption
    <3>3. archive' = [p \in 1 .. Len(items) |-> r(p)]
      BY <2>2, <3>1 DEF Save
    <3> HIDE DEF r
    <3>4. archive' \in Seq(0 .. MaxChannels) /\ Len(archive') = Len(items)
      BY <3>1, <3>2, <3>3
    <3> QED
      BY <3>1, <3>4
  <2> QED
    BY <1>1, <2>1, <2>2 DEF TypeOK
<1>5. edits' \in 0 .. MaxEdits
  <2>1. edits' = edits \/ Edits
    <3>1. CASE UNCHANGED vars
      BY <3>1
    <3>2. ASSUME NEW what \in {"new", "open"}, CloseSolution(what) PROVE edits' = edits
      BY <3>2 DEF CloseSolution, Handles
    <3>3. CASE StartSimulator \/ StopSimulator \/ ShutdownReturns \/ OnEndEditLabel
      BY <3>3 DEF StartSimulator, StopSimulator, ShutdownReturns, OnEndEditLabel, Handles
    <3>4. CASE Save \/ AppendDefaultPMU
      BY <3>4 DEF Save, AppendDefaultPMU
    <3>5. CASE PdcProc
      BY <3>5 DEF PdcProc, TestActive, BeginTick, CheckOverride, ReadOverride, ChannelsRead,
           SignalOverride, ChannelsSignalled, FrameDone, MovesTo
    <3>6. ASSUME NEW p \in Pmus, PmuWindow(p) PROVE edits' = edits \/ Edits
      BY <3>6 DEF PmuWindow, RemovePmuAtIndex, OpenPmuWindow, CommitPmu, AddChannel, RemoveChannel,
           ClosePmuWindow, Handles
    <3>7. ASSUME NEW s \in Slots, ChannelWindow(s) PROVE edits' = edits \/ Edits
      BY <3>7 DEF ChannelWindow, OpenChannelWindow, CommitChannel, CloseChannelWindow, ClickRadio,
           CommitConstant, AssignOverride, CommitFile, Handles
    <3> QED
      BY <3>1, <3>2, <3>3, <3>4, <3>5, <3>6, <3>7 DEF Next
  <2> QED
    BY <1>1, <2>1, SimulatorAssumption DEF TypeOK, Edits
<1>6. crashed' \in {"no", "garbage", "index", "dangling", "range", "empty"}
  <2>1. \/ crashed' = crashed
        \/ crashed' \in {"no", "garbage", "index", "dangling", "range", "empty"}
    <3>1. CASE UNCHANGED vars
      BY <3>1
    <3>2. ASSUME NEW what \in {"new", "open"}, CloseSolution(what)
          PROVE  crashed' = crashed \/ crashed' = "garbage"
      BY <3>2 DEF CloseSolution, NextSolution, Crash
    <3>3. CASE StartSimulator \/ StopSimulator \/ ShutdownReturns
      BY <3>3 DEF StartSimulator, StopSimulator, ShutdownReturns, NextSolution, Crash
    <3>4. CASE Save \/ AppendDefaultPMU \/ OnEndEditLabel
      BY <3>4 DEF Save, AppendDefaultPMU, OnEndEditLabel
    <3>5. CASE PdcProc
      BY <3>5 DEF PdcProc, TestActive, BeginTick, CheckOverride, ReadOverride, ChannelsRead,
           SignalOverride, ChannelsSignalled, FrameDone
    <3>6. ASSUME NEW p \in Pmus, PmuWindow(p) PROVE crashed' = crashed \/ crashed' = "index"
      BY <3>6 DEF PmuWindow, RemovePmuAtIndex, OpenPmuWindow, CommitPmu, AddChannel, RemoveChannel,
           ClosePmuWindow, RebuildChannels, Crash
    <3>7. ASSUME NEW s \in Slots, ChannelWindow(s) PROVE crashed' = crashed \/ crashed' = "index"
      BY <3>7 DEF ChannelWindow, OpenChannelWindow, CommitChannel, CloseChannelWindow, ClickRadio,
           CommitConstant, AssignOverride, CommitFile, Crash
    <3> QED
      BY <3>1, <3>2, <3>3, <3>4, <3>5, <3>6, <3>7 DEF Next
  <2> QED
    BY <1>1, <2>1 DEF TypeOK
<1> QED
  BY <1>2, <1>3, <1>4, <1>5, <1>6 DEF TypeOK

(* The feeds that PdcProc uses: none is deleted, and each file is at an entry. *)
LEMMA FeedsStep ==
  ASSUME IInv, [Next]_vars
  PROVE  OneDeleted' /\ StaysReady'
<1>1. TypeOK /\ FeedTypeOK /\ WindowTypeOK /\ OneDeleted /\ StaysReady
  BY DEF IInv, SimInv, TypeOK
<1>2. CASE UNCHANGED <<m_simPdc, feeds, radio, gui, ready>>
  BY <1>1, <1>2 DEF OneDeleted, StaysReady, Ready
<1>3. ASSUME NEW what, NextSolution(what) PROVE OneDeleted' /\ StaysReady'
  <2>1. NoOverrides /\ NoThread
    BY <1>1, <1>3, NewSolution
  <2> QED
    BY <2>1 DEF NoOverrides, NoThread, OneDeleted, StaysReady
<1>4. ASSUME NEW what \in {"new", "open"}, CloseSolution(what) PROVE OneDeleted' /\ StaysReady'
  <2>1. CASE m_simPdc = "null"
    BY <1>3, <1>4, <2>1 DEF CloseSolution
  <2>2. CASE m_simPdc = "running"
    <3>1. /\ UNCHANGED <<m_simPdc, feeds, ready>> /\ CloseAllDocuments /\ gui = "loop"
      BY <1>4, <2>2 DEF CloseSolution, Handles
    <3> QED
      BY <1>1, <3>1 DEF CloseAllDocuments, OneDeleted, StaysReady, Ready
  <2>3. CASE m_simPdc = "garbage"
    BY <1>2, <1>4, <2>3 DEF CloseSolution, Crash
  <2> QED
    BY <1>1, <2>1, <2>2, <2>3 DEF TypeOK
<1>5. CASE Save \/ AppendDefaultPMU \/ OnEndEditLabel
  BY <1>2, <1>5 DEF Save, AppendDefaultPMU, OnEndEditLabel
<1>6. CASE StartSimulator
  <2>1. /\ UNCHANGED <<feeds, radio, gui>> /\ gui = "loop"
        /\ m_simPdc' = "running" /\ ready' = Ready
    BY <1>6 DEF StartSimulator, Handles
  <2> QED
    BY <1>1, <2>1 DEF OneDeleted, StaysReady, Ready
<1>7. CASE StopSimulator
  <2>1. UNCHANGED <<m_simPdc, feeds, radio, ready>> /\ gui = "loop"
    BY <1>7 DEF StopSimulator, Handles, Crash
  <2> QED
    BY <1>1, <2>1 DEF OneDeleted, StaysReady, Ready
<1>8. CASE ShutdownReturns
  <2>1. CASE gui = "toggle" /\ NoThread /\ UNCHANGED feeds
    BY <1>1, <2>1 DEF NoThread, OneDeleted, StaysReady
  <2> QED
    BY <1>3, <1>8, <2>1 DEF ShutdownReturns
<1>9. ASSUME NEW p \in Pmus, PmuWindow(p) PROVE OneDeleted' /\ StaysReady'
  BY <1>2, <1>9 DEF PmuWindow, RemovePmuAtIndex, OpenPmuWindow, CommitPmu, AddChannel, RemoveChannel,
     ClosePmuWindow, RebuildChannels, Crash
<1>10. ASSUME NEW s \in Slots, OpenChannelWindow(s) PROVE OneDeleted' /\ StaysReady'
  <2>1. UNCHANGED <<m_simPdc, size, cursor, ready, gui>>
    BY <1>10 DEF OpenChannelWindow
  <2>2. \/ override' = [override EXCEPT ![s] = "const"] /\ radio' = [radio EXCEPT ![s] = "const"]
        \/ override' = override /\ override[s] \in {"const", "file"} /\ radio' = [radio EXCEPT ![s] = override[s]]
        \/ override' = [override EXCEPT ![s] = "const"] /\ radio' = radio /\ override[s] \in {"absent", "null"}
        \/ override' = override /\ radio' = radio
    BY <1>10 DEF OpenChannelWindow, SetOverride
  <2> QED
    BY <1>1, <2>1, <2>2 DEF OneDeleted, StaysReady, Ready, FeedTypeOK, WindowTypeOK
<1>11. ASSUME NEW s \in Slots, CommitChannel(s) \/ CloseChannelWindow(s) PROVE OneDeleted' /\ StaysReady'
  <2>1. UNCHANGED <<m_simPdc, feeds, ready, gui>>
    BY <1>11 DEF CommitChannel, CloseChannelWindow, Crash
  <2>2. radio' = radio \/ radio' = [radio EXCEPT ![s] = "closed"]
    BY <1>11 DEF CommitChannel, CloseChannelWindow, Crash
  <2> QED
    BY <1>1, <2>1, <2>2 DEF OneDeleted, StaysReady, Ready, WindowTypeOK
<1>12. ASSUME NEW s \in Slots, ClickRadio(s) PROVE OneDeleted' /\ StaysReady'
  <2>1. UNCHANGED <<m_simPdc, feeds, ready, gui>> /\ m_simPdc = "null"
    BY <1>12 DEF ClickRadio, SimulatorIsActive
  <2> QED
    BY <1>1, <2>1 DEF OneDeleted, StaysReady
<1>13. ASSUME NEW s \in Slots, CommitConstant(s) PROVE OneDeleted' /\ StaysReady'
  <2>1. /\ gui = "loop" /\ gui' = "assign" /\ override[s] = "file" /\ radio[s] = "const"
        /\ override' = [override EXCEPT ![s] = "deleted"] /\ ready' = ready
    BY <1>13 DEF CommitConstant, SetOverride, Edits
  <2> QED
    BY <1>1, <2>1 DEF OneDeleted, StaysReady, Ready, FeedTypeOK
<1>14. ASSUME NEW s \in Slots, AssignOverride(s) PROVE OneDeleted' /\ StaysReady'
  <2>1. /\ override[s] = "deleted" /\ ready' = ready
        /\ override' = [override EXCEPT ![s] = "const"]
    BY <1>14 DEF AssignOverride, SetOverride
  <2> QED
    BY <1>1, <2>1 DEF OneDeleted, StaysReady, FeedTypeOK
<1>15. ASSUME NEW s \in Slots, NEW n \in Sizes \cup {0}, CommitFile(s, n) PROVE OneDeleted' /\ StaysReady'
  <2>1. /\ m_simPdc = "null" /\ UNCHANGED <<gui, ready>> /\ gui = "loop"
        /\ override' = [override EXCEPT ![s] = "file"]
    BY <1>15 DEF CommitFile, SetOverride, SimulatorIsActive, Edits
  <2> QED
    BY <1>1, <2>1 DEF OneDeleted, StaysReady, FeedTypeOK
<1>16. CASE CheckOverride
  <2>1. UNCHANGED <<m_simPdc, size, cursor, radio, gui, ready>>
    BY <1>16 DEF CheckOverride, MovesTo
  <2>2. \/ override' = override
        \/ override[at] \in {"absent", "null"} /\ override' = [override EXCEPT ![at] = "null"]
    BY <1>16 DEF CheckOverride
  <2> QED
    BY <1>1, <2>1, <2>2 DEF OneDeleted, StaysReady, Ready, FeedTypeOK
<1>17. CASE SignalOverride
  <2>1. UNCHANGED <<m_simPdc, override, size, radio, gui, ready>>
    BY <1>17 DEF SignalOverride, MovesTo
  <2>2. OneDeleted'
    BY <1>1, <2>1 DEF OneDeleted
  <2>3. ASSUME ready, NEW s \in Slots, override[s] = "file" PROVE cursor'[s] < size[s]
    <3>1. cursor[s] < size[s] /\ cursor[s] \in Nat /\ size[s] \in Nat
      BY <1>1, <2>3 DEF StaysReady, Ready, FeedTypeOK
    <3>2. (cursor[s] + 1) % size[s] < size[s]
      BY <3>1
    <3>3. \/ cursor'[s] = cursor[s]
          \/ cursor'[s] = (cursor[s] + 1) % size[s]
      BY <1>1, <1>17 DEF SignalOverride, FeedTypeOK
    <3> QED
      BY <3>1, <3>2, <3>3
  <2> QED
    BY <1>1, <2>1, <2>2, <2>3 DEF StaysReady, Ready
<1>18. CASE TestActive \/ BeginTick \/ ReadOverride \/ ChannelsRead \/ ChannelsSignalled \/ FrameDone
  BY <1>2, <1>18 DEF TestActive, BeginTick, ReadOverride, ChannelsRead, ChannelsSignalled, FrameDone, MovesTo
<1>19. CASE UNCHANGED vars
  BY <1>2, <1>19
<1> QED
  BY <1>4, <1>5, <1>6, <1>7, <1>8, <1>9, <1>10, <1>11, <1>12, <1>13, <1>14, <1>15, <1>16, <1>17,
     <1>18, <1>19 DEF Next, ChannelWindow, PdcProc

LEMMA SafeStep ==
  ASSUME IInv, [Next]_vars
  PROVE  RunSafe'
<1>1. RunSafe /\ StaysReady /\ TypeOK
  BY DEF IInv, SimInv
<1>2. CASE ReadOverride
  <2>1. pdc = "use" /\ ready' = ready
    BY <1>2 DEF ReadOverride, Runs, MovesTo
  <2>2. at \in Slots
    <3>1. at[1] \in DOMAIN run /\ at[2] \in DOMAIN run[at[1]]
      BY <2>1 DEF IInv, SimInv, KeysInserted
    <3>2. at[1] \in Pmus /\ at[2] \in Positions
      BY <2>1, <3>1, RunFacts
    <3>3. at = <<at[1], at[2]>>
      BY <1>1 DEF TypeOK, ThreadTypeOK
    <3> QED
      BY <3>2, <3>3 DEF Slots
  <2>3. cursor[at] \in Nat /\ size[at] \in Nat
    BY <1>1, <2>2 DEF TypeOK, FeedTypeOK
  <2> QED
    BY <1>1, <1>2, <2>1, <2>2, <2>3 DEF ReadOverride, RunSafe, StaysReady, Ready
<1>3. CASE SignalOverride
  <2>1. pdc = "signal" /\ ready' = ready
    BY <1>3 DEF SignalOverride, Runs, MovesTo
  <2>2. at \in Slots
    <3>1. at[1] \in DOMAIN run /\ at[2] \in Positions
      BY <1>3, <2>1 DEF IInv, SimInv, KeysInserted, SignalOverride
    <3>2. at[1] \in Pmus /\ at = <<at[1], at[2]>>
      BY <1>1, <2>1, <3>1, RunFacts DEF TypeOK, ThreadTypeOK
    <3> QED
      BY <3>1, <3>2 DEF Slots
  <2>3. cursor[at] \in Nat /\ size[at] \in Nat
    BY <1>1, <2>2 DEF TypeOK, FeedTypeOK
  <2> QED
    BY <1>1, <1>3, <2>1, <2>2, <2>3 DEF SignalOverride, RunSafe, StaysReady, Ready
<1>4. CASE UNCHANGED <<ready, crashed>>
  BY <1>1, <1>4 DEF RunSafe
<1>5. CASE crashed' \in {"garbage", "index", "no"}
  BY <1>5 DEF RunSafe
<1>6. CASE StartSimulator \/ Handles \/ Edits
  <2>1. CASE crashed' = crashed
    BY <1>6, <2>1 DEF RunSafe, StartSimulator, Handles, Edits
  <2>2. CASE crashed' # crashed
    <3>1. CASE \E what \in {"new", "open"} : CloseSolution(what)
      BY <3>1, <1>5, <2>2 DEF CloseSolution, NextSolution, Crash
    <3>2. CASE Save \/ AppendDefaultPMU \/ OnEndEditLabel \/ StartSimulator \/ StopSimulator \/ ShutdownReturns
      BY <3>2, <1>5, <2>2 DEF Save, AppendDefaultPMU, OnEndEditLabel, StartSimulator, StopSimulator,
           ShutdownReturns, NextSolution, Crash
    <3>3. ASSUME NEW p \in Pmus, PmuWindow(p) PROVE crashed' = "index"
      BY <3>3, <2>2 DEF PmuWindow, RemovePmuAtIndex, OpenPmuWindow, CommitPmu, AddChannel, RemoveChannel,
           ClosePmuWindow, RebuildChannels, Crash
    <3>4. ASSUME NEW s \in Slots, ChannelWindow(s) PROVE crashed' = "index"
      BY <3>4, <2>2 DEF ChannelWindow, OpenChannelWindow, CommitChannel, CloseChannelWindow, ClickRadio,
           CommitConstant, AssignOverride, CommitFile, Crash
    <3>5. CASE TestActive \/ BeginTick \/ CheckOverride \/ ChannelsRead \/ ChannelsSignalled \/ FrameDone
      BY <3>5, <2>2 DEF TestActive, BeginTick, CheckOverride, ChannelsRead, ChannelsSignalled, FrameDone
    <3> QED
      BY <1>2, <1>3, <1>5, <2>2, <3>1, <3>2, <3>3, <3>4, <3>5 DEF Next, PdcProc
  <2> QED
    BY <2>1, <2>2
<1>7. CASE ShutdownReturns
  BY <1>7, <1>5 DEF ShutdownReturns, NextSolution
<1>8. CASE TestActive \/ BeginTick \/ CheckOverride \/ ChannelsRead \/ ChannelsSignalled \/ FrameDone
  BY <1>4, <1>8 DEF TestActive, BeginTick, CheckOverride, ChannelsRead, ChannelsSignalled, FrameDone, MovesTo
<1>9. ASSUME NEW s \in Slots, AssignOverride(s) PROVE UNCHANGED <<ready, crashed>>
  BY <1>9 DEF AssignOverride
<1>10. ASSUME NEW p \in Pmus, PmuWindow(p) PROVE Handles \/ Edits
  BY <1>10 DEF PmuWindow, RemovePmuAtIndex, OpenPmuWindow, CommitPmu, AddChannel, RemoveChannel, ClosePmuWindow
<1>11. ASSUME NEW s \in Slots, ChannelWindow(s) PROVE Handles \/ Edits \/ AssignOverride(s)
  BY <1>11 DEF ChannelWindow, OpenChannelWindow, CommitChannel, CloseChannelWindow, ClickRadio,
     CommitConstant, CommitFile
<1>12. ASSUME NEW what \in {"new", "open"}, CloseSolution(what) PROVE Handles
  BY <1>12 DEF CloseSolution
<1>13. CASE Save \/ AppendDefaultPMU \/ OnEndEditLabel \/ StartSimulator \/ StopSimulator
  BY <1>6, <1>13 DEF Save, AppendDefaultPMU, OnEndEditLabel, StopSimulator
<1> QED
  BY <1>2, <1>3, <1>4, <1>6, <1>7, <1>8, <1>9, <1>10, <1>11, <1>12, <1>13 DEF Next, PdcProc

(* The thread runs with the lists there are, and a frame finds or inserts its keys. *)
LEMMA RunStep ==
  ASSUME IInv, [Next]_vars
  PROVE  RunningAsConfigured' /\ KeysInserted'
<1>1. TypeOK /\ ConfigTypeOK /\ FeedTypeOK /\ ThreadTypeOK /\ KeysInserted /\ RunningAsConfigured /\ OneDeleted
  BY DEF IInv, SimInv, TypeOK
<1> DEFINE Grows == \A s \in Slots : override[s] # "absent" => override'[s] # "absent"
<1>2. ASSUME UNCHANGED <<m_simPdc, items, channels, run, pdc, at, framed>>, Grows
      PROVE  RunningAsConfigured' /\ KeysInserted'
  <2>1. CASE pdc = "none"
    BY <1>2, <2>1 DEF RunningAsConfigured, KeysInserted
  <2>2. CASE pdc # "none"
    <3>1. run' = Lists'
      BY <1>1, <1>2, <2>2 DEF RunningAsConfigured, Lists
    <3>2. ASSUME NEW p \in DOMAIN run, NEW c \in DOMAIN run[p], Present(p, c)
          PROVE  override'[<<p, c>>] # "absent"
      <4>1. p \in Pmus /\ c \in Positions
        BY <2>2, <3>2, RunFacts
      <4>2. <<p, c>> \in Slots
        BY <4>1 DEF Slots
      <4> QED
        BY <1>2, <3>2, <4>2 DEF Present
    <3> QED
      BY <1>1, <1>2, <3>1, <3>2 DEF RunningAsConfigured, KeysInserted, Present
  <2> QED
    BY <2>1, <2>2
<1>3. ASSUME pdc' = "none" PROVE RunningAsConfigured' /\ KeysInserted'
  BY <1>3 DEF RunningAsConfigured, KeysInserted
<1>4. ASSUME UNCHANGED override PROVE Grows
  BY <1>4
<1>5. ASSUME m_simPdc = "null", UNCHANGED pdc PROVE pdc' = "none"
  BY <1>1, <1>5 DEF KeysInserted
<1>6. ASSUME NEW what, NextSolution(what) PROVE pdc' = "none"
  BY <1>1, <1>6, NewSolution DEF NoThread
<1>7. ASSUME NEW what \in {"new", "open"}, CloseSolution(what) PROVE RunningAsConfigured' /\ KeysInserted'
  <2>1. CASE NextSolution(what)
    BY <1>3, <1>6, <2>1
  <2>2. CASE ~NextSolution(what)
    BY <1>2, <1>4, <1>7, <2>2 DEF CloseSolution, Crash
  <2> QED
    BY <2>1, <2>2
<1>8. CASE Save \/ OnEndEditLabel \/ StopSimulator
  BY <1>2, <1>4, <1>8 DEF Save, OnEndEditLabel, StopSimulator, Crash
<1>9. CASE AppendDefaultPMU
  BY <1>3, <1>5, <1>9 DEF AppendDefaultPMU, SimulatorIsActive
<1>10. CASE StartSimulator
  BY <1>10 DEF StartSimulator, RunningAsConfigured, KeysInserted, Lists
<1>11. CASE ShutdownReturns
  BY <1>3, <1>6, <1>11 DEF ShutdownReturns, NoThread
<1>12. ASSUME NEW p \in Pmus, PmuWindow(p) PROVE RunningAsConfigured' /\ KeysInserted'
  <2>1. CASE OpenPmuWindow(p) \/ CommitPmu(p) \/ ClosePmuWindow(p)
    BY <1>2, <1>4, <2>1 DEF OpenPmuWindow, CommitPmu, ClosePmuWindow, Crash
  <2>2. CASE RemovePmuAtIndex(p) \/ AddChannel(p) \/ \E c \in Positions : RemoveChannel(p, c)
    BY <1>3, <1>5, <2>2 DEF RemovePmuAtIndex, AddChannel, RemoveChannel, RebuildChannels, SimulatorIsActive
  <2> QED
    BY <1>12, <2>1, <2>2 DEF PmuWindow
<1>13. ASSUME NEW s \in Slots, OpenChannelWindow(s) \/ CommitConstant(s) \/ AssignOverride(s)
       PROVE  RunningAsConfigured' /\ KeysInserted'
  <2>1. UNCHANGED <<m_simPdc, items, channels, run, pdc, at, framed>>
    BY <1>13 DEF OpenChannelWindow, CommitConstant, AssignOverride, Crash
  <2>2. Grows
    BY <1>1, <1>13 DEF OpenChannelWindow, CommitConstant, AssignOverride, SetOverride, Crash, FeedTypeOK
  <2> QED
    BY <1>2, <2>1, <2>2
<1>14. ASSUME NEW s \in Slots, NEW n \in Sizes \cup {0}, CommitFile(s, n)
       PROVE  RunningAsConfigured' /\ KeysInserted'
  BY <1>3, <1>5, <1>14 DEF CommitFile, SimulatorIsActive
<1>15. ASSUME NEW s \in Slots, CommitChannel(s) \/ CloseChannelWindow(s) \/ ClickRadio(s)
       PROVE  RunningAsConfigured' /\ KeysInserted'
  BY <1>2, <1>4, <1>15 DEF CommitChannel, CloseChannelWindow, ClickRadio, Crash
<1>16. ASSUME NEW where, NEW p, NEW c, MovesTo(where, p, c), where # "none", pdc # "none", Grows,
              framed' = framed, where \in {"use", "signal"} => p \in DOMAIN run,
              where = "use" => c \in DOMAIN run[p] /\ override'[<<p, c>>] # "absent",
              where \in {"check", "use", "signal"} =>
                \A q \in DOMAIN run : \A d \in DOMAIN run[q] :
                  q < p \/ (q = p /\ (where = "signal" \/ d < c)) => override'[<<q, d>>] # "absent"
       PROVE  RunningAsConfigured' /\ KeysInserted'
  <2>1. /\ UNCHANGED <<m_simPdc, items, channels, run>> /\ pdc' = where
        /\ at' = <<p, c>> /\ at'[1] = p /\ at'[2] = c
    BY <1>16 DEF MovesTo
  <2>2. RunningAsConfigured'
    BY <1>1, <1>16, <2>1 DEF RunningAsConfigured, Lists
  <2>3. m_simPdc' = "running"
    BY <1>1, <1>16, <2>1 DEF KeysInserted
  <2>4. ASSUME framed, NEW q \in DOMAIN run, NEW d \in DOMAIN run[q] PROVE override'[<<q, d>>] # "absent"
    <3>1. Present(q, d)
      BY <1>1, <1>16, <2>4 DEF KeysInserted
    <3>2. <<q, d>> \in Slots
      BY <1>16, <2>4, RunFacts DEF Slots
    <3> QED
      BY <1>16, <3>1, <3>2 DEF Present
  <2> QED
    BY <1>16, <2>1, <2>2, <2>3, <2>4 DEF KeysInserted, Present
<1>17. CASE PdcProc
  <2>1. CASE TestActive
    <3>1. CASE m_isActive
      BY <1>4, <1>16, <2>1, <3>1 DEF TestActive, Runs
    <3>2. CASE ~m_isActive
      BY <1>3, <2>1, <3>2 DEF TestActive, MovesTo
    <3> QED
      BY <3>1, <3>2
  <2>2. CASE pdc # "none"
    <3>1. /\ DOMAIN run \subseteq Pmus /\ DOMAIN run = 1 .. Len(run) /\ Len(run) \in Nat
          /\ \A q \in DOMAIN run : DOMAIN run[q] \subseteq Positions /\ DOMAIN run[q] = 1 .. Len(run[q]) /\ Len(run[q]) \in Nat
      BY <2>2, RunFacts
    <3>2. ASSUME NEW q \in DOMAIN run, NEW d \in DOMAIN run[q]
          PROVE  q \in Nat /\ d \in Nat /\ ~(q < 1) /\ ~(d < 1) /\ <<q, d>> \in Slots
      BY <3>1, <3>2 DEF Slots
    <3>3. at[1] \in Nat /\ at[2] \in Nat /\ at = <<at[1], at[2]>>
      BY <1>1 DEF ThreadTypeOK
    <3> DEFINE Done(q, d) ==
          override[<<q, d>>] # "absent"
    <3>4. pdc \in {"check", "use", "signal"} =>
            \A q \in DOMAIN run : \A d \in DOMAIN run[q] :
              q < at[1] \/ (q = at[1] /\ (pdc = "signal" \/ d < at[2])) => Done(q, d)
      BY <1>1, <2>2 DEF KeysInserted, Present
    <3>5. CASE BeginTick
      <4>1. Grows /\ framed' = framed
        BY <3>5 DEF BeginTick
      <4>2. PICK where \in {"idle", "check"} : MovesTo(where, 1, 1)
        BY <3>5 DEF BeginTick
      <4>3. \A q \in DOMAIN run : \A d \in DOMAIN run[q] : ~(q < 1) /\ ~(d < 1)
        BY <3>2
      <4> QED
        BY <1>16, <2>2, <4>1, <4>2, <4>3
    <3>6. CASE CheckOverride
      <4>1. /\ pdc = "check" /\ at[1] \in DOMAIN run /\ at[2] \in DOMAIN run[at[1]] /\ framed' = framed
            /\ at \in Slots
        BY <3>2, <3>3, <3>6 DEF CheckOverride, Runs
      <4>2. CASE override[at] \in {"absent", "null"}
        <5>1. override' = [override EXCEPT ![at] = "null"] /\ MovesTo("check", at[1], at[2] + 1)
          BY <3>6, <4>2 DEF CheckOverride
        <5>2. Grows /\ override'[at] # "absent"
          BY <1>1, <4>1, <5>1 DEF FeedTypeOK
        <5>3. ASSUME NEW q \in DOMAIN run, NEW d \in DOMAIN run[q], q < at[1] \/ (q = at[1] /\ d < at[2] + 1)
              PROVE  override'[<<q, d>>] # "absent"
          <6>1. CASE <<q, d>> = at
            BY <5>2, <6>1
          <6>2. CASE <<q, d>> # at
            <7>1. q < at[1] \/ (q = at[1] /\ d < at[2])
              <8>1. q \in Nat /\ d \in Nat
                BY <3>2
              <8>2. ~(q = at[1] /\ d = at[2])
                BY <3>3, <6>2
              <8> QED
                BY <3>3, <5>3, <8>1, <8>2
            <7>2. override[<<q, d>>] # "absent"
              BY <3>4, <4>1, <7>1
            <7> QED
              BY <3>2, <5>2, <7>2
          <6> QED
            BY <6>1, <6>2
        <5> DEFINE next == at[2] + 1
        <5>4. /\ MovesTo("check", at[1], next)
              /\ \A q \in DOMAIN run : \A d \in DOMAIN run[q] :
                   q < at[1] \/ (q = at[1] /\ d < next) => override'[<<q, d>>] # "absent"
          BY <5>1, <5>3
        <5> HIDE DEF next
        <5> QED
          BY <1>16, <2>2, <4>1, <5>2, <5>4
      <4>3. CASE override[at] \notin {"absent", "null"}
        <5>1. UNCHANGED override /\ MovesTo("use", at[1], at[2])
          BY <3>6, <4>3 DEF CheckOverride
        <5>2. Grows /\ override'[<<at[1], at[2]>>] # "absent"
          BY <3>3, <4>3, <5>1
        <5>3. \A q \in DOMAIN run : \A d \in DOMAIN run[q] :
                q < at[1] \/ (q = at[1] /\ d < at[2]) => override'[<<q, d>>] # "absent"
          BY <3>4, <4>1, <5>1
        <5> QED
          BY <1>16, <2>2, <4>1, <5>1, <5>2, <5>3
      <4> QED
        BY <4>2, <4>3
    <3>7. CASE ReadOverride
      <4>1. /\ pdc = "use" /\ framed' = framed /\ UNCHANGED override /\ MovesTo("check", at[1], at[2] + 1)
            /\ override[<<at[1], at[2]>>] # "absent"
        BY <1>1, <3>7 DEF ReadOverride, Runs, KeysInserted, Present
      <4>2. ASSUME NEW q \in DOMAIN run, NEW d \in DOMAIN run[q], q < at[1] \/ (q = at[1] /\ d < at[2] + 1)
            PROVE  override'[<<q, d>>] # "absent"
        <5>1. CASE q = at[1] /\ d = at[2]
          BY <4>1, <5>1
        <5>2. CASE ~(q = at[1] /\ d = at[2])
          <6>1. q < at[1] \/ (q = at[1] /\ d < at[2])
            <7>1. q \in Nat /\ d \in Nat
              BY <3>2
            <7> QED
              BY <3>3, <4>2, <5>2, <7>1
          <6> QED
            BY <3>4, <4>1, <6>1
        <5> QED
          BY <5>1, <5>2
      <4> DEFINE next == at[2] + 1
      <4>3. /\ MovesTo("check", at[1], next)
            /\ \A q \in DOMAIN run : \A d \in DOMAIN run[q] :
                 q < at[1] \/ (q = at[1] /\ d < next) => override'[<<q, d>>] # "absent"
        BY <4>1, <4>2
      <4> HIDE DEF next
      <4> QED
        BY <1>4, <1>16, <2>2, <4>1, <4>3
    <3>8. CASE ChannelsRead
      <4>1. /\ pdc = "check" /\ at[1] \in DOMAIN run /\ at[2] \notin DOMAIN run[at[1]]
            /\ framed' = framed /\ UNCHANGED override /\ MovesTo("signal", at[1], 1)
        BY <3>8 DEF ChannelsRead, Runs
      <4>2. at[2] >= 1
        BY <1>1 DEF ThreadTypeOK
      <4>3. \A d \in DOMAIN run[at[1]] : d < at[2]
        BY <3>1, <3>3, <4>1, <4>2
      <4>4. ASSUME NEW q \in DOMAIN run, NEW d \in DOMAIN run[q], q < at[1] \/ q = at[1]
            PROVE  override'[<<q, d>>] # "absent"
        BY <3>4, <4>1, <4>3, <4>4
      <4> QED
        BY <1>4, <1>16, <2>2, <4>1, <4>4
    <3>9. CASE SignalOverride
      <4>1. /\ pdc = "signal" /\ at[1] \in DOMAIN run
            /\ framed' = framed /\ UNCHANGED override /\ MovesTo("signal", at[1], at[2] + 1)
        BY <1>1, <3>9 DEF SignalOverride, Runs, KeysInserted
      <4>2. \A q \in DOMAIN run : \A d \in DOMAIN run[q] : q < at[1] \/ q = at[1] => override'[<<q, d>>] # "absent"
        BY <3>4, <4>1
      <4> DEFINE next == at[2] + 1
      <4>3. MovesTo("signal", at[1], next)
        BY <4>1
      <4> HIDE DEF next
      <4> QED
        BY <1>4, <1>16, <2>2, <4>1, <4>2, <4>3
    <3>10. CASE ChannelsSignalled
      <4>1. /\ pdc = "signal" /\ at[1] \in DOMAIN run
            /\ framed' = framed /\ UNCHANGED override /\ MovesTo("check", at[1] + 1, 1)
        BY <1>1, <3>10 DEF ChannelsSignalled, Runs, KeysInserted
      <4>2. ASSUME NEW q \in DOMAIN run, NEW d \in DOMAIN run[q], q < at[1] + 1 \/ (q = at[1] + 1 /\ d < 1)
            PROVE  override'[<<q, d>>] # "absent"
        <5>1. q < at[1] \/ q = at[1]
          <6>1. q \in Nat /\ ~(d < 1)
            BY <3>2
          <6> QED
            BY <3>3, <4>2, <6>1
        <5> QED
          BY <3>4, <4>1, <5>1
      <4> DEFINE next == at[1] + 1
      <4>3. /\ MovesTo("check", next, 1)
            /\ \A q \in DOMAIN run : \A d \in DOMAIN run[q] :
                 q < next \/ (q = next /\ d < 1) => override'[<<q, d>>] # "absent"
        BY <4>1, <4>2
      <4> HIDE DEF next
      <4> QED
        BY <1>4, <1>16, <2>2, <4>1, <4>3
    <3>11. CASE FrameDone
      <4>1. /\ pdc = "check" /\ at[1] \notin DOMAIN run
            /\ framed' = TRUE /\ UNCHANGED override /\ MovesTo("idle", 1, 1)
        BY <3>11 DEF FrameDone, Runs
      <4>2. at[1] >= 1
        BY <1>1 DEF ThreadTypeOK
      <4>3. \A q \in DOMAIN run : q < at[1]
        BY <3>1, <3>3, <4>1, <4>2
      <4>4. \A q \in DOMAIN run : \A d \in DOMAIN run[q] : override[<<q, d>>] # "absent"
        BY <3>4, <4>1, <4>3
      <4>5. /\ UNCHANGED <<m_simPdc, items, channels, run, override>> /\ pdc' = "idle"
        BY <4>1 DEF MovesTo
      <4> QED
        BY <1>1, <2>2, <4>4, <4>5 DEF RunningAsConfigured, KeysInserted, Present, Lists
    <3> QED
      BY <1>17, <2>1, <3>5, <3>6, <3>7, <3>8, <3>9, <3>10, <3>11 DEF PdcProc
  <2> QED
    BY <1>17, <2>1, <2>2 DEF PdcProc, BeginTick, CheckOverride, ReadOverride, ChannelsRead,
       SignalOverride, ChannelsSignalled, FrameDone, Runs
<1>18. CASE UNCHANGED vars
  BY <1>2, <1>4, <1>18
<1> QED
  BY <1>7, <1>8, <1>9, <1>10, <1>11, <1>12, <1>13, <1>14, <1>15, <1>17, <1>18 DEF Next, ChannelWindow

(* A channel in its place is its own slot; ahead of what was made there is none. *)
LEMMA OwnerInPlace ==
  ASSUME ConfigTypeOK, ListsOrdered, NEW s \in Slots
  PROVE  /\ InPlace(s) => Owner(s) = s
         /\ s[1] > made => Owner(s) = NoOne
         /\ s[1] \in DOMAIN items /\ items[s[1]] = s[1] /\ s[2] > channelsMade[s[1]] => Owner(s) = NoOne
<1>1. s = <<s[1], s[2]>> /\ s[1] \in Nat /\ s[2] \in Nat
  BY DEF Slots, Pmus, Positions
<1>2. InPlace(s) => Owner(s) = s
  BY <1>1 DEF InPlace, Owner
<1>3. s[1] > made => Owner(s) = NoOne
  BY <1>1, ListFacts DEF ListsOrdered, Owner
<1>4. ASSUME s[1] \in DOMAIN items, items[s[1]] = s[1], s[2] > channelsMade[s[1]]
      PROVE  Owner(s) = NoOne
  <2>1. s[1] \in Pmus
    BY <1>4, ListFacts
  <2>2. Len(channels[s[1]]) <= channelsMade[s[1]] /\ DOMAIN channels[s[1]] = 1 .. Len(channels[s[1]])
        /\ Len(channels[s[1]]) \in Nat /\ channelsMade[s[1]] \in Nat
    BY <2>1, ListFacts DEF ListsOrdered
  <2>3. s[2] \notin DOMAIN channels[s[1]]
    BY <1>1, <1>4, <2>2
  <2> QED
    BY <1>4, <2>3 DEF Owner
<1> QED
  BY <1>2, <1>3, <1>4

LEMMA ChosenStep ==
  ASSUME IInv, [Next]_vars
  PROVE  NothingChosenAhead' /\ InputsFollowChannels'
<1>1. TypeOK /\ ConfigTypeOK /\ FeedTypeOK /\ ListsOrdered /\ NothingChosenAhead /\ InputsFollowChannels
  BY DEF IInv, SimInv, TypeOK
<1>2. CASE UNCHANGED <<config, chosenFor>>
  BY <1>1, <1>2 DEF NothingChosenAhead, InputsFollowChannels, InPlace
<1>3. ASSUME NEW what, NextSolution(what) PROVE NothingChosenAhead' /\ InputsFollowChannels'
  <2>1. NoOverrides
    BY <1>1, <1>3, NewSolution
  <2> QED
    BY <2>1 DEF NoOverrides, NothingChosenAhead, InputsFollowChannels
<1>4. ASSUME NEW t \in Slots, NEW kind, SetOverride(t, kind), UNCHANGED config
      PROVE  NothingChosenAhead' /\ InputsFollowChannels'
  <2>1. ASSUME NEW s \in Slots PROVE chosenFor'[s] \in {chosenFor[s], Owner(s), NoOne}
    BY <1>1, <1>4, <2>1 DEF SetOverride, FeedTypeOK
  <2>2. NothingChosenAhead'
    BY <1>1, <1>4, <2>1, OwnerInPlace DEF NothingChosenAhead
  <2>3. \A s \in Slots : InPlace(s)' = InPlace(s)
    BY <1>4 DEF InPlace
  <2>4. InputsFollowChannels'
    BY <1>1, <2>1, <2>3, OwnerInPlace DEF InputsFollowChannels
  <2> QED
    BY <2>2, <2>4
<1>5. ASSUME NEW s \in Slots, OpenChannelWindow(s) PROVE NothingChosenAhead' /\ InputsFollowChannels'
  BY <1>2, <1>4, <1>5 DEF OpenChannelWindow
<1>6. ASSUME NEW s \in Slots, CommitConstant(s) \/ AssignOverride(s)
      PROVE  NothingChosenAhead' /\ InputsFollowChannels'
  BY <1>4, <1>6 DEF CommitConstant, AssignOverride
<1>7. ASSUME NEW s \in Slots, NEW n \in Sizes \cup {0}, CommitFile(s, n)
      PROVE  NothingChosenAhead' /\ InputsFollowChannels'
  BY <1>4, <1>7 DEF CommitFile
<1>8. ASSUME UNCHANGED chosenFor,
             \A s \in Slots : InPlace(s)' => InPlace(s) \/ chosenFor[s] = NoOne,
             NothingChosenAhead'
      PROVE  NothingChosenAhead' /\ InputsFollowChannels'
  BY <1>1, <1>8 DEF InputsFollowChannels
<1>9. \A s \in Slots : s[1] \in Nat /\ s[2] \in Nat /\ s[1] \in Pmus /\ s[2] \in Positions
  BY DEF Slots, Pmus, Positions
<1>10. CASE AppendDefaultPMU
  <2>1. /\ made + 1 \in Pmus /\ made' = made + 1 /\ chosenFor' = chosenFor
        /\ items' = Append(items, made + 1)
        /\ channels' = [channels EXCEPT ![made + 1] = [c \in 1 .. Defaults |-> c]]
        /\ channelsMade' = [channelsMade EXCEPT ![made + 1] = Defaults]
    BY <1>1, <1>10, SimulatorAssumption DEF AppendDefaultPMU, Pmus, ConfigTypeOK
  <2>2. /\ DOMAIN items' = 1 .. Len(items) + 1 /\ items'[Len(items) + 1] = made + 1
        /\ \A j \in 1 .. Len(items) : items'[j] = items[j]
    BY <1>1, <2>1, AppendFacts DEF ConfigTypeOK
  <2>3. /\ Len(items) \in Nat /\ DOMAIN items = 1 .. Len(items) /\ made \in Nat
        /\ \A i \in DOMAIN items : items[i] \in Nat /\ items[i] <= made
    BY <1>1, ListFacts DEF ListsOrdered
  <2>4. ASSUME NEW s \in Slots, s[1] \in DOMAIN items', items'[s[1]] = s[1]
        PROVE  \/ s[1] > made
               \/ /\ s[1] \in DOMAIN items /\ items[s[1]] = s[1]
                  /\ channels'[s[1]] = channels[s[1]] /\ channelsMade'[s[1]] = channelsMade[s[1]]
    <3>1. CASE s[1] = Len(items) + 1
      BY <1>9, <2>2, <2>3, <2>4, <3>1
    <3>2. CASE s[1] # Len(items) + 1
      <4>1. s[1] \in 1 .. Len(items)
        BY <1>9, <2>2, <2>3, <2>4, <3>2
      <4>2. items[s[1]] = s[1] /\ s[1] <= made
        BY <2>2, <2>3, <2>4, <4>1
      <4>3. s[1] # made + 1
        BY <1>9, <2>3, <4>2
      <4> QED
        BY <1>1, <1>9, <2>1, <2>3, <4>1, <4>2, <4>3 DEF ConfigTypeOK
    <3> QED
      BY <3>1, <3>2
  <2>5. NothingChosenAhead'
    <3>1. ASSUME NEW s \in Slots, s[1] > made' PROVE s[1] > made
      <4>1. s[1] \in Nat /\ made' = made + 1 /\ made \in Nat
        BY <1>9, <2>1, <2>3
      <4> QED
        BY <3>1, <4>1
    <3> QED
      BY <1>1, <2>1, <2>4, <3>1 DEF NothingChosenAhead
  <2>6. ASSUME NEW s \in Slots, InPlace(s)' PROVE InPlace(s) \/ chosenFor[s] = NoOne
    BY <1>1, <2>4, <2>6 DEF InPlace, NothingChosenAhead
  <2> QED
    BY <1>8, <2>1, <2>5, <2>6
<1>11. ASSUME NEW p \in Pmus, RemovePmuAtIndex(p) PROVE NothingChosenAhead' /\ InputsFollowChannels'
  <2>1. /\ p \in DOMAIN items /\ items' = Erased(items, p)
        /\ UNCHANGED <<made, channels, channelsMade, chosenFor>>
    BY <1>11 DEF RemovePmuAtIndex
  <2>2. /\ DOMAIN items' = 1 .. Len(items) - 1
        /\ \A j \in 1 .. Len(items) - 1 : items'[j] = IF j < p THEN items[j] ELSE items[j + 1]
    BY <1>1, <2>1, ErasedFacts DEF ConfigTypeOK
  <2>3. /\ Len(items) \in Nat /\ DOMAIN items = 1 .. Len(items)
        /\ \A i \in DOMAIN items : items[i] \in Nat /\ i <= items[i]
    BY <1>1, ListFacts DEF ListsOrdered
  <2>4. ASSUME NEW s \in Slots, s[1] \in DOMAIN items', items'[s[1]] = s[1]
        PROVE  s[1] \in DOMAIN items /\ items[s[1]] = s[1]
    <3>1. s[1] \in 1 .. Len(items) - 1 /\ s[1] + 1 \in DOMAIN items /\ s[1] \in DOMAIN items
      BY <2>2, <2>3, <2>4
    <3>2. items[s[1] + 1] \in Nat /\ s[1] + 1 <= items[s[1] + 1]
      BY <2>3, <3>1
    <3>3. items'[s[1]] = items[s[1]] \/ items'[s[1]] = items[s[1] + 1]
      BY <2>2, <3>1
    <3>4. items[s[1] + 1] # s[1]
      BY <1>9, <3>2
    <3> QED
      BY <2>4, <3>1, <3>3, <3>4
  <2>5. NothingChosenAhead'
    BY <1>1, <2>1, <2>4 DEF NothingChosenAhead
  <2>6. ASSUME NEW s \in Slots, InPlace(s)' PROVE InPlace(s)
    BY <2>1, <2>4, <2>6 DEF InPlace
  <2> QED
    BY <1>8, <2>1, <2>5, <2>6
<1>12. ASSUME NEW p \in Pmus, CommitPmu(p) PROVE NothingChosenAhead' /\ InputsFollowChannels'
  <2>1. UNCHANGED <<items, made, channels, channelsMade, chosenFor>>
    BY <1>12 DEF CommitPmu, Crash
  <2> QED
    BY <1>1, <2>1 DEF NothingChosenAhead, InputsFollowChannels, InPlace
<1>13. ASSUME NEW p \in Pmus, AddChannel(p) PROVE NothingChosenAhead' /\ InputsFollowChannels'
  <2> DEFINE id == pmuWindow[p]
             n == channelsMade[id] + 1
  <2>1. /\ id \in Pmus
        /\ channelsMade' = [channelsMade EXCEPT ![id] = n]
        /\ channels' = [channels EXCEPT ![id] = Append(channels[id], n)]
        /\ UNCHANGED <<items, made, chosenFor>> /\ n \in Positions
    <3>1. /\ id # NoPmu /\ channelsMade[id] < MaxChannels
          /\ channelsMade' = [channelsMade EXCEPT ![id] = n]
          /\ channels' = [channels EXCEPT ![id] = Append(channels[id], n)]
          /\ UNCHANGED <<items, made, chosenFor>>
      BY <1>13 DEF AddChannel, RebuildChannels, feeds
    <3>2. pmuWindow \in [Pmus -> {NoPmu} \cup Pmus]
      BY <1>1 DEF TypeOK, WindowTypeOK
    <3>3. id \in Pmus
      BY <3>1, <3>2
    <3>4. channelsMade[id] \in Nat
      BY <1>1, <3>3, SimulatorAssumption DEF TypeOK, ConfigTypeOK
    <3>5. n \in Positions
      BY <3>1, <3>4, SimulatorAssumption DEF Positions
    <3> QED
      BY <3>1, <3>3, <3>5
  <2>2. /\ channels[id] \in Seq(Positions) /\ channelsMade[id] \in Nat /\ Len(channels[id]) \in Nat
        /\ DOMAIN channels[id] = 1 .. Len(channels[id])
    BY <1>1, <2>1, ListFacts
  <2>3. n = channelsMade[id] + 1
    OBVIOUS
  <2> HIDE DEF n, id
  <2>4. /\ channels'[id] = Append(channels[id], n) /\ channelsMade'[id] = n
        /\ DOMAIN channels'[id] = 1 .. Len(channels[id]) + 1
        /\ channels'[id][Len(channels[id]) + 1] = n
        /\ \A c \in 1 .. Len(channels[id]) : channels'[id][c] = channels[id][c]
    <3>1. channels'[id] = Append(channels[id], n) /\ channelsMade'[id] = n
      BY <1>1, <2>1 DEF ConfigTypeOK
    <3> QED
      BY <2>1, <2>2, <3>1, AppendFacts
  <2>5. \A q \in Pmus : q # id => channels'[q] = channels[q] /\ channelsMade'[q] = channelsMade[q]
    BY <1>1, <2>1 DEF ConfigTypeOK
  <2>6. NothingChosenAhead'
    <3>1. ASSUME NEW s \in Slots, s[2] > channelsMade'[s[1]] PROVE s[2] > channelsMade[s[1]]
      <4>1. CASE s[1] = id
        BY <1>9, <2>2, <2>3, <2>4, <3>1, <4>1
      <4>2. CASE s[1] # id
        BY <1>9, <2>5, <3>1, <4>2
      <4> QED
        BY <4>1, <4>2
    <3> QED
      BY <1>1, <2>1, <3>1 DEF NothingChosenAhead
  <2>7. ASSUME NEW s \in Slots, InPlace(s)' PROVE InPlace(s) \/ chosenFor[s] = NoOne
    <3>1. s[1] \in DOMAIN items /\ items[s[1]] = s[1] /\ s[2] \in DOMAIN channels'[s[1]] /\ channels'[s[1]][s[2]] = s[2]
      BY <2>1, <2>7 DEF InPlace
    <3>2. CASE s[1] = id /\ s[2] = Len(channels[id]) + 1
      <4>1. s[2] > channelsMade[s[1]]
        BY <2>2, <2>3, <2>4, <3>1, <3>2
      <4> QED
        BY <1>1, <3>1, <4>1 DEF NothingChosenAhead
    <3>3. CASE s[1] = id /\ s[2] # Len(channels[id]) + 1
      <4>1. s[2] \in 1 .. Len(channels[id])
        BY <1>9, <2>2, <2>4, <3>1, <3>3
      <4> QED
        BY <2>2, <2>4, <3>1, <3>3, <4>1 DEF InPlace
    <3>4. CASE s[1] # id
      BY <1>9, <2>5, <3>1, <3>4 DEF InPlace
    <3> QED
      BY <3>2, <3>3, <3>4
  <2> QED
    BY <1>8, <2>1, <2>6, <2>7
<1>14. ASSUME NEW p \in Pmus, NEW c \in Positions, RemoveChannel(p, c)
       PROVE  NothingChosenAhead' /\ InputsFollowChannels'
  <2> DEFINE id == pmuWindow[p]
  <2>1. /\ id \in Pmus /\ c \in DOMAIN channels[id]
        /\ channels' = [channels EXCEPT ![id] = Erased(channels[id], c)]
        /\ UNCHANGED <<items, made, channelsMade, chosenFor>>
    <3>1. /\ id # NoPmu /\ c \in DOMAIN channels[id]
          /\ channels' = [channels EXCEPT ![id] = Erased(channels[id], c)]
          /\ UNCHANGED <<items, made, channelsMade, chosenFor>>
      BY <1>14 DEF RemoveChannel, RebuildChannels, feeds
    <3>2. pmuWindow \in [Pmus -> {NoPmu} \cup Pmus]
      BY <1>1 DEF TypeOK, WindowTypeOK
    <3> QED
      BY <3>1, <3>2
  <2>2. /\ channels[id] \in Seq(Positions) /\ Len(channels[id]) \in Nat
        /\ DOMAIN channels[id] = 1 .. Len(channels[id])
        /\ \A d \in DOMAIN channels[id] : channels[id][d] \in Nat /\ d <= channels[id][d]
    BY <1>1, <2>1, ListFacts DEF ListsOrdered
  <2> HIDE DEF id
  <2>3. channels'[id] = Erased(channels[id], c)
    BY <1>1, <2>1 DEF ConfigTypeOK
  <2>4. /\ DOMAIN channels'[id] = 1 .. Len(channels[id]) - 1
        /\ \A j \in 1 .. Len(channels[id]) - 1 :
             channels'[id][j] = IF j < c THEN channels[id][j] ELSE channels[id][j + 1]
    <3>1. c \in DOMAIN channels[id] /\ channels[id] \in Seq(Positions)
      BY <2>1, <2>2
    <3>2. /\ DOMAIN Erased(channels[id], c) = 1 .. Len(channels[id]) - 1
          /\ \A j \in 1 .. Len(channels[id]) - 1 :
               Erased(channels[id], c)[j] = IF j < c THEN channels[id][j] ELSE channels[id][j + 1]
      BY <3>1, ErasedFacts
    <3> QED
      BY <2>3, <3>2
  <2>5. \A q \in Pmus : q # id => channels'[q] = channels[q]
    BY <1>1, <2>1 DEF ConfigTypeOK
  <2>6. NothingChosenAhead'
    BY <1>1, <2>1 DEF NothingChosenAhead
  <2>7. ASSUME NEW s \in Slots, InPlace(s)' PROVE InPlace(s)
    <3>1. s[1] \in DOMAIN items /\ items[s[1]] = s[1] /\ s[2] \in DOMAIN channels'[s[1]] /\ channels'[s[1]][s[2]] = s[2]
      BY <2>1, <2>7 DEF InPlace
    <3>2. CASE s[1] = id
      <4>1. s[2] \in 1 .. Len(channels[id]) - 1 /\ s[2] + 1 \in DOMAIN channels[id] /\ s[2] \in DOMAIN channels[id]
        BY <2>2, <2>4, <3>1, <3>2
      <4>2. channels[id][s[2] + 1] \in Nat /\ s[2] + 1 <= channels[id][s[2] + 1]
        BY <2>2, <4>1
      <4>3. channels'[id][s[2]] = channels[id][s[2]] \/ channels'[id][s[2]] = channels[id][s[2] + 1]
        BY <2>4, <4>1
      <4>4. channels[id][s[2] + 1] # s[2]
        BY <1>9, <4>2
      <4> QED
        BY <3>1, <3>2, <4>1, <4>3, <4>4 DEF InPlace
    <3>3. CASE s[1] # id
      BY <1>9, <2>5, <3>1, <3>3 DEF InPlace
    <3> QED
      BY <3>2, <3>3
  <2> QED
    BY <1>8, <2>1, <2>6, <2>7
<1>15. CASE CheckOverride \/ SignalOverride
  BY <1>2, <1>15 DEF CheckOverride, SignalOverride, MovesTo
<1>16. CASE UNCHANGED config /\ UNCHANGED feeds
  BY <1>2, <1>16
<1>17. AppendDefaultPMU => UNCHANGED feeds
  BY DEF AppendDefaultPMU
<1> QED
  BY <1>3, <1>5, <1>6, <1>7, <1>10, <1>11, <1>12, <1>13, <1>14, <1>15, <1>16, FeedSteps, ConfigSteps

(* WindowsBounded and WindowsInStep, by what they are about. *)
TreeBounded ==
  /\ Len(tree) <= made
  /\ Len(items) = made => \A p \in DOMAIN tree : tree[p] <= channelsMade[items[p]]

PmusBounded ==
  /\ \A p \in Pmus : p > made => pmuWindow[p] = NoPmu
  /\ \A p \in Pmus : pmuWindow[p] # NoPmu => pmuWindow[p] <= made
  /\ \A p \in DOMAIN items : items[p] = p => pmuWindow[p] \in {NoPmu, p}

ChannelsBounded ==
  /\ \A s \in Slots : radio[s] # "closed" => s[1] <= made
  /\ Len(items) = made =>
       \A s \in Slots : radio[s] # "closed" => s[2] <= channelsMade[items[s[1]]]

Bounded == TreeBounded /\ PmusBounded /\ ChannelsBounded

Missing == Len(items) < made \/ \E p \in Pmus : Len(channels[p]) < channelsMade[p]

LEMMA BoundedParts ==
  WindowsBounded /\ WindowsInStep <=>
    Bounded /\ (mixed => Len(items) < made) /\ (crashed = "index" => Missing)
BY DEF WindowsBounded, WindowsInStep, Bounded, TreeBounded, PmusBounded, ChannelsBounded, Missing

(* Nothing happens after a crash. *)
LEMMA CrashedStays ==
  ASSUME [Next]_vars, crashed # "no"
  PROVE  UNCHANGED vars
<1>1. ~PdcProc
  BY DEF PdcProc, TestActive, BeginTick, CheckOverride, ReadOverride, ChannelsRead,
     SignalOverride, ChannelsSignalled, FrameDone, Runs
<1>2. ASSUME NEW p \in Pmus PROVE ~PmuWindow(p)
  BY DEF PmuWindow, RemovePmuAtIndex, OpenPmuWindow, CommitPmu, AddChannel, RemoveChannel,
     ClosePmuWindow, Edits, Handles
<1>3. ASSUME NEW s \in Slots PROVE ~ChannelWindow(s)
  BY DEF ChannelWindow, OpenChannelWindow, CommitChannel, CloseChannelWindow, ClickRadio,
     CommitConstant, AssignOverride, CommitFile, Edits, Handles
<1>4. /\ \A what \in {"new", "open"} : ~CloseSolution(what)
      /\ ~Save /\ ~AppendDefaultPMU /\ ~OnEndEditLabel
      /\ ~StartSimulator /\ ~StopSimulator /\ ~ShutdownReturns
  BY DEF CloseSolution, Save, AppendDefaultPMU, OnEndEditLabel, StartSimulator, StopSimulator,
     ShutdownReturns, Edits, Handles
<1> QED
  BY <1>1, <1>2, <1>3, <1>4 DEF Next

(* What looks for something that is not there. *)
LEMMA IndexSteps ==
  ASSUME [Next]_vars, crashed = "no", crashed' = "index"
  PROVE  /\ UNCHANGED <<items, made>>
         /\ \/ \E p \in Pmus : /\ p \notin DOMAIN items
                               /\ p \in DOMAIN tree \/ pmuWindow[p] # NoPmu
            \/ \E s \in Slots :
                 /\ Owner(s) = NoOne /\ UNCHANGED <<channels, channelsMade>>
                 /\ \/ radio[s] # "closed"
                    \/ s[1] \in DOMAIN tree /\ s[2] \in 1 .. tree[s[1]]
<1>1. ~PdcProc
  BY DEF PdcProc, TestActive, BeginTick, CheckOverride, ReadOverride, ChannelsRead,
     SignalOverride, ChannelsSignalled, FrameDone, Runs
<1>2. CASE \E what \in {"new", "open"} : CloseSolution(what)
  BY <1>2 DEF CloseSolution, NextSolution, Crash
<1>3. CASE Save \/ AppendDefaultPMU \/ OnEndEditLabel \/ StartSimulator \/ StopSimulator
  BY <1>3 DEF Save, AppendDefaultPMU, OnEndEditLabel, StartSimulator, StopSimulator, Crash
<1>4. CASE ShutdownReturns
  BY <1>4 DEF ShutdownReturns, NextSolution
<1>5. ASSUME NEW p \in Pmus, PmuWindow(p)
      PROVE  /\ UNCHANGED <<items, made>> /\ p \notin DOMAIN items
             /\ p \in DOMAIN tree \/ pmuWindow[p] # NoPmu
  <2>1. CASE OpenPmuWindow(p) \/ CommitPmu(p)
    BY <2>1 DEF OpenPmuWindow, CommitPmu, Crash
  <2>2. CASE AddChannel(p) \/ \E c \in Positions : RemoveChannel(p, c)
    BY <2>2 DEF AddChannel, RemoveChannel, RebuildChannels
  <2>3. CASE RemovePmuAtIndex(p) \/ ClosePmuWindow(p)
    BY <2>3 DEF RemovePmuAtIndex, ClosePmuWindow
  <2> QED
    BY <1>5, <2>1, <2>2, <2>3 DEF PmuWindow
<1>6. ASSUME NEW s \in Slots, ChannelWindow(s)
      PROVE  /\ UNCHANGED <<items, made, channels, channelsMade>> /\ Owner(s) = NoOne
             /\ \/ radio[s] # "closed"
                \/ s[1] \in DOMAIN tree /\ s[2] \in 1 .. tree[s[1]]
  <2>1. CASE OpenChannelWindow(s) \/ CommitChannel(s)
    BY <2>1 DEF OpenChannelWindow, CommitChannel, Crash
  <2>2. CASE CloseChannelWindow(s) \/ ClickRadio(s) \/ CommitConstant(s) \/ AssignOverride(s)
    BY <2>2 DEF CloseChannelWindow, ClickRadio, CommitConstant, AssignOverride
  <2>3. CASE \E n \in Sizes \cup {0} : CommitFile(s, n)
    BY <2>3 DEF CommitFile
  <2> QED
    BY <1>6, <2>1, <2>2, <2>3 DEF ChannelWindow
<1> QED
  BY <1>1, <1>2, <1>3, <1>4, <1>5, <1>6 DEF Next

LEMMA MissingStep ==
  ASSUME IInv, [Next]_vars, crashed' = "index"
  PROVE  Missing'
<1>1. TypeOK /\ ConfigTypeOK /\ ListsOrdered /\ Bounded /\ (crashed = "index" => Missing)
  BY BoundedParts DEF IInv, SimInv, TypeOK
<1>2. CASE crashed # "no"
  BY <1>1, <1>2, CrashedStays DEF Missing
<1>3. CASE crashed = "no"
  <2>1. Len(items) \in Nat /\ DOMAIN items = 1 .. Len(items) /\ made \in Nat /\ Len(items) <= made
    BY <1>1, ListFacts DEF ListsOrdered
  <2>2. UNCHANGED <<items, made>>
    BY <1>3, IndexSteps
  <2>3. ASSUME NEW p \in Pmus, p \notin DOMAIN items, p \in DOMAIN tree \/ pmuWindow[p] # NoPmu
        PROVE  Len(items) < made
    <3>1. p \in Nat /\ 1 <= p
      BY DEF Pmus
    <3>2. p <= made
      <4>1. DOMAIN tree = 1 .. Len(tree) /\ Len(tree) \in Nat /\ Len(tree) <= made
        BY <1>1 DEF TypeOK, WindowTypeOK, Bounded, TreeBounded
      <4>2. p > made => pmuWindow[p] = NoPmu
        BY <1>1 DEF Bounded, PmusBounded
      <4> QED
        BY <2>1, <2>3, <3>1, <4>1, <4>2
    <3> QED
      BY <2>1, <2>3, <3>1, <3>2
  <2>4. ASSUME NEW s \in Slots, Owner(s) = NoOne, UNCHANGED <<channels, channelsMade>>,
               radio[s] # "closed" \/ (s[1] \in DOMAIN tree /\ s[2] \in 1 .. tree[s[1]]),
               Len(items) = made
        PROVE  \E p \in Pmus : Len(channels'[p]) < channelsMade'[p]
    <3>1. s[1] \in Nat /\ 1 <= s[1] /\ s[2] \in Nat /\ 1 <= s[2]
      BY DEF Slots, Pmus, Positions
    <3>2. s[1] <= made
      <4>1. DOMAIN tree = 1 .. Len(tree) /\ Len(tree) \in Nat /\ Len(tree) <= made
        BY <1>1 DEF TypeOK, WindowTypeOK, Bounded, TreeBounded
      <4>2. radio[s] # "closed" => s[1] <= made
        BY <1>1 DEF Bounded, ChannelsBounded
      <4> QED
        BY <2>1, <2>4, <3>1, <4>1, <4>2
    <3>3. s[1] \in DOMAIN items
      BY <2>1, <2>4, <3>1, <3>2
    <3> DEFINE q == items[s[1]]
    <3>4. /\ q \in Pmus /\ channelsMade[q] \in Nat
          /\ Len(channels[q]) \in Nat /\ DOMAIN channels[q] = 1 .. Len(channels[q])
      BY <1>1, <3>3, ListFacts
    <3>5. s[2] <= channelsMade[q]
      <4>1. CASE radio[s] # "closed"
        BY <1>1, <2>4, <4>1 DEF Bounded, ChannelsBounded
      <4>2. CASE s[1] \in DOMAIN tree /\ s[2] \in 1 .. tree[s[1]]
        <5>1. tree[s[1]] \in Nat
          <6>1. tree \in Seq(0 .. MaxChannels)
            BY <1>1 DEF TypeOK, WindowTypeOK
          <6>2. tree[s[1]] \in 0 .. MaxChannels
            BY <4>2, <6>1, Elements
          <6> QED
            BY <6>2
        <5>2. tree[s[1]] <= channelsMade[q]
          BY <1>1, <2>4, <4>2 DEF Bounded, TreeBounded
        <5> QED
          BY <3>1, <3>4, <4>2, <5>1, <5>2
      <4> QED
        BY <2>4, <4>1, <4>2
    <3>6. s[2] \notin DOMAIN channels[q]
      BY <1>1, <2>4, <3>3, OwnerType
    <3>7. Len(channels[q]) < channelsMade[q]
      BY <3>1, <3>4, <3>5, <3>6
    <3> QED
      BY <2>4, <3>4, <3>7
  <2>5. CASE Len(items) < made
    BY <2>2, <2>5 DEF Missing
  <2>6. CASE Len(items) = made
    <3>1. ~\E p \in Pmus : p \notin DOMAIN items /\ (p \in DOMAIN tree \/ pmuWindow[p] # NoPmu)
      BY <2>1, <2>3, <2>6
    <3>2. \E s \in Slots :
            /\ Owner(s) = NoOne /\ UNCHANGED <<channels, channelsMade>>
            /\ radio[s] # "closed" \/ (s[1] \in DOMAIN tree /\ s[2] \in 1 .. tree[s[1]])
      BY <1>3, <3>1, IndexSteps
    <3>3. \E p \in Pmus : Len(channels'[p]) < channelsMade'[p]
      BY <2>4, <2>6, <3>2
    <3> QED
      BY <3>3 DEF Missing
  <2> DEFINE k == Len(items)
  <2>7. k \in Nat /\ made \in Nat /\ k <= made
    BY <2>1
  <2> HIDE DEF k
  <2>8. k < made \/ k = made
    BY <2>7
  <2> QED
    BY <2>5, <2>6, <2>8 DEF k
<1> QED
  BY <1>2, <1>3

(* The project view, as AppendDefaultPMU and ForceRebuild make it. *)
LEMMA TreeMade ==
  ASSUME ConfigTypeOK', ListsOrdered', tree' = [p \in DOMAIN items' |-> Len(channels'[items'[p]])]
  PROVE  TreeBounded'
<1>1. /\ items' \in Seq(Pmus) /\ channels' \in [Pmus -> Seq(Positions)]
      /\ channelsMade' \in [Pmus -> 0 .. MaxChannels]
      /\ \A p \in Pmus : Len(channels'[p]) <= channelsMade'[p]
      /\ Len(items') <= made'
  BY DEF ConfigTypeOK, ListsOrdered
<1>2. /\ Len(tree') = Len(items') /\ DOMAIN tree' = DOMAIN items'
      /\ \A p \in DOMAIN items' : tree'[p] <= channelsMade'[items'[p]]
  BY <1>1, TreeFacts
<1> QED
  BY <1>1, <1>2 DEF TreeBounded

LEMMA WindowsStep ==
  ASSUME IInv, [Next]_vars
  PROVE  Bounded'
<1>1. TypeOK /\ ConfigTypeOK /\ WindowTypeOK /\ ListsOrdered /\ Bounded
  BY BoundedParts DEF IInv, SimInv, TypeOK
<1>2. ConfigTypeOK' /\ ListsOrdered'
  BY <1>1, ConfigTypeStep
<1>3. /\ Len(items) \in Nat /\ DOMAIN items = 1 .. Len(items) /\ made \in Nat
      /\ \A i \in DOMAIN items : items[i] \in Pmus /\ items[i] \in Nat /\ i <= items[i] /\ items[i] <= made
      /\ Len(items) <= made
  BY <1>1, ListFacts DEF ListsOrdered
<1>4. /\ DOMAIN tree = 1 .. Len(tree) /\ Len(tree) \in Nat
      /\ \A p \in Pmus : p \in Nat /\ 1 <= p
      /\ \A s \in Slots : s[1] \in Pmus /\ s[1] \in Nat /\ 1 <= s[1] /\ s[2] \in Nat
  BY <1>1 DEF WindowTypeOK, Pmus, Positions, Slots
<1>5. CASE UNCHANGED <<items, made, channelsMade, tree, pmuWindow, radio>>
  BY <1>1, <1>5 DEF Bounded, TreeBounded, PmusBounded, ChannelsBounded
<1>6. ASSUME NEW what, NextSolution(what) PROVE Bounded'
  <2>1. /\ Len(items') = made' /\ \A i \in DOMAIN items' : items'[i] = i
        /\ ConfigTypeOK'
        /\ tree' \in Seq(0 .. MaxChannels) /\ Len(tree') = made'
        /\ \A p \in DOMAIN tree' : tree'[p] = channelsMade'[p]
        /\ CloseAllDocuments
    BY <1>1, <1>6, NewSolution
  <2>2. /\ made' \in Nat /\ made' <= MaxPmus /\ MaxPmus \in Nat /\ DOMAIN items' = 1 .. made'
        /\ DOMAIN tree' = 1 .. made'
        /\ \A p \in Pmus : channelsMade'[p] \in Nat
    BY <2>1, SimulatorAssumption DEF ConfigTypeOK
  <2>3. TreeBounded'
    <3>1. \A p \in DOMAIN tree' : p \in Pmus /\ items'[p] = p
      BY <2>1, <2>2 DEF Pmus
    <3>2. \A p \in DOMAIN tree' : tree'[p] <= channelsMade'[items'[p]]
      BY <2>1, <2>2, <3>1
    <3> QED
      BY <2>1, <2>2, <3>2 DEF TreeBounded
  <2>4. PmusBounded'
    <3>1. \A p \in Pmus : pmuWindow'[p] = NoPmu
      BY <2>1 DEF CloseAllDocuments
    <3>2. DOMAIN items' \subseteq Pmus
      BY <2>2 DEF Pmus
    <3> QED
      BY <3>1, <3>2 DEF PmusBounded
  <2>5. ChannelsBounded'
    BY <2>1 DEF CloseAllDocuments, ChannelsBounded
  <2> QED
    BY <2>3, <2>4, <2>5 DEF Bounded
<1>7. ASSUME NEW what \in {"new", "open"}, CloseSolution(what) PROVE Bounded'
  <2>1. CASE m_simPdc = "null"
    BY <1>6, <1>7, <2>1 DEF CloseSolution
  <2>2. CASE m_simPdc = "running"
    <3>1. /\ CloseAllDocuments /\ tree' = <<>> /\ UNCHANGED <<items, made, channelsMade>>
      BY <1>7, <2>2 DEF CloseSolution
    <3>2. \A p \in Pmus : pmuWindow'[p] = NoPmu
      BY <3>1 DEF CloseAllDocuments
    <3>3. \A s \in Slots : radio'[s] = "closed"
      BY <3>1 DEF CloseAllDocuments
    <3>4. DOMAIN items \subseteq Pmus
      <4>1. made <= MaxPmus /\ MaxPmus \in Nat
        BY <1>1, SimulatorAssumption DEF ConfigTypeOK
      <4> QED
        BY <1>3, <4>1 DEF Pmus
    <3>5. Len(tree') = 0 /\ DOMAIN tree' = {}
      BY <3>1
    <3>6. TreeBounded'
      BY <1>3, <3>1, <3>5 DEF TreeBounded
    <3> QED
      BY <3>1, <3>2, <3>3, <3>4, <3>6 DEF Bounded, PmusBounded, ChannelsBounded
  <2>3. CASE m_simPdc = "garbage"
    BY <1>5, <1>7, <2>3 DEF CloseSolution, Crash
  <2> QED
    BY <1>1, <2>1, <2>2, <2>3 DEF TypeOK
<1>8. CASE AppendDefaultPMU
  <2>1. /\ made + 1 \in Pmus /\ made' = made + 1
        /\ items' = Append(items, made + 1)
        /\ channelsMade' = [channelsMade EXCEPT ![made + 1] = Defaults]
        /\ tree' = [p \in DOMAIN items' |-> Len(channels'[items'[p]])]
        /\ UNCHANGED <<pmuWindow, radio>>
    <3>1. made < MaxPmus /\ MaxPmus \in Nat
      BY <1>8, SimulatorAssumption DEF AppendDefaultPMU
    <3>2. made + 1 \in Pmus
      BY <1>3, <3>1 DEF Pmus
    <3> QED
      BY <1>8, <3>2 DEF AppendDefaultPMU
  <2>2. /\ DOMAIN items' = 1 .. Len(items) + 1 /\ items'[Len(items) + 1] = made + 1
        /\ Len(items') = Len(items) + 1
        /\ \A j \in 1 .. Len(items) : items'[j] = items[j]
    BY <1>1, <2>1, AppendFacts DEF ConfigTypeOK
  <2>3. TreeBounded'
    BY <1>2, <2>1, TreeMade
  <2>4. PmusBounded'
    <3>1. made' = made + 1 /\ pmuWindow' = pmuWindow /\ made + 1 \in Pmus
      BY <2>1
    <3>2. ASSUME NEW p \in DOMAIN items', items'[p] = p PROVE pmuWindow[p] \in {NoPmu, p}
      <4>1. CASE p = Len(items) + 1
        <5>1. p = made + 1
          BY <2>2, <3>2, <4>1
        <5> QED
          BY <1>1, <1>3, <3>1, <5>1 DEF Bounded, PmusBounded
      <4>2. CASE p # Len(items) + 1
        <5>1. p \in DOMAIN items /\ items[p] = p
          BY <1>3, <2>2, <3>2, <4>2
        <5> QED
          BY <1>1, <5>1 DEF Bounded, PmusBounded
      <4> QED
        BY <4>1, <4>2
    <3>3. ASSUME NEW p \in Pmus
          PROVE  (p > made' => pmuWindow[p] = NoPmu) /\ (pmuWindow[p] # NoPmu => pmuWindow[p] <= made')
      <4>1. p > made' => p > made
        BY <1>3, <1>4, <3>1
      <4>2. pmuWindow[p] # NoPmu => pmuWindow[p] <= made /\ pmuWindow[p] \in Nat
        BY <1>1, <1>4 DEF Bounded, PmusBounded, WindowTypeOK
      <4> QED
        BY <1>1, <1>3, <3>1, <4>1, <4>2 DEF Bounded, PmusBounded
    <3> QED
      BY <3>1, <3>2, <3>3 DEF PmusBounded
  <2>5. ChannelsBounded'
    <3>1. made' = made + 1 /\ radio' = radio
      BY <2>1
    <3>2. ASSUME NEW s \in Slots, radio[s] # "closed" PROVE s[1] <= made /\ s[1] <= made'
      <4>1. s[1] <= made
        BY <1>1, <3>2 DEF Bounded, ChannelsBounded
      <4> QED
        BY <1>3, <1>4, <3>1, <4>1
    <3>3. ASSUME NEW s \in Slots, radio[s] # "closed", Len(items') = made'
          PROVE  s[2] <= channelsMade'[items'[s[1]]]
      <4>1. Len(items) = made
        <5> DEFINE k == Len(items)
        <5>1. k + 1 = made + 1 /\ k \in Nat /\ made \in Nat
          BY <1>3, <2>2, <3>1, <3>3
        <5> HIDE DEF k
        <5>2. k = made
          BY <5>1
        <5> QED
          BY <5>2 DEF k
      <4>2. s[1] \in 1 .. Len(items)
        BY <1>3, <1>4, <3>2, <3>3, <4>1
      <4>3. items'[s[1]] = items[s[1]] /\ items[s[1]] \in Pmus /\ items[s[1]] # made + 1
        BY <1>3, <2>2, <4>2
      <4>4. channelsMade'[items[s[1]]] = channelsMade[items[s[1]]]
        BY <1>1, <2>1, <4>3 DEF ConfigTypeOK
      <4> QED
        BY <1>1, <3>3, <4>1, <4>3, <4>4 DEF Bounded, ChannelsBounded
    <3> QED
      BY <3>1, <3>2, <3>3 DEF ChannelsBounded
  <2> QED
    BY <2>3, <2>4, <2>5 DEF Bounded
<1>9. CASE OnEndEditLabel
  <2>1. /\ tree' = [p \in DOMAIN items' |-> Len(channels'[items'[p]])]
        /\ UNCHANGED <<items, made, channelsMade, pmuWindow, radio>>
    BY <1>9 DEF OnEndEditLabel
  <2>2. TreeBounded'
    BY <1>2, <2>1, TreeMade
  <2> QED
    BY <1>1, <2>1, <2>2 DEF Bounded, PmusBounded, ChannelsBounded
<1>10. ASSUME NEW p \in Pmus, RemovePmuAtIndex(p) PROVE Bounded'
  <2>1. /\ p \in DOMAIN items /\ items' = Erased(items, p)
        /\ UNCHANGED <<made, channels, channelsMade, tree, pmuWindow, radio>>
    BY <1>10 DEF RemovePmuAtIndex
  <2>2. /\ DOMAIN items' = 1 .. Len(items) - 1 /\ Len(items') = Len(items) - 1
        /\ \A j \in 1 .. Len(items) - 1 : items'[j] = IF j < p THEN items[j] ELSE items[j + 1]
    BY <1>1, <2>1, ErasedFacts DEF ConfigTypeOK
  <2>3. Len(items') # made'
    <3> DEFINE k == Len(items)
    <3>1. Len(items') = k - 1 /\ made' = made /\ k \in Nat /\ made \in Nat /\ k <= made
      BY <1>3, <2>1, <2>2
    <3> HIDE DEF k
    <3>2. k - 1 # made
      BY <3>1
    <3> QED
      BY <3>1, <3>2
  <2>4. ASSUME NEW q \in DOMAIN items', items'[q] = q PROVE q \in DOMAIN items /\ items[q] = q
    <3>1. q \in 1 .. Len(items) - 1 /\ q + 1 \in DOMAIN items /\ q \in DOMAIN items
      BY <1>3, <2>2, <2>4
    <3>2. items[q + 1] \in Nat /\ q + 1 <= items[q + 1]
      BY <1>3, <3>1
    <3>3. items'[q] = items[q] \/ items'[q] = items[q + 1]
      BY <2>2, <3>1
    <3>4. items[q + 1] # q
      BY <1>3, <3>1, <3>2
    <3> QED
      BY <2>4, <3>1, <3>3, <3>4
  <2> QED
    BY <1>1, <2>1, <2>3, <2>4 DEF Bounded, TreeBounded, PmusBounded, ChannelsBounded
<1>11. ASSUME NEW p \in Pmus, CommitPmu(p) PROVE Bounded'
  BY <1>5, <1>11 DEF CommitPmu, Crash
<1>12. ASSUME NEW p \in Pmus, OpenPmuWindow(p) PROVE Bounded'
  <2>1. CASE p \notin DOMAIN items
    BY <1>5, <1>12, <2>1 DEF OpenPmuWindow, Crash
  <2>2. CASE p \in DOMAIN items
    <3>1. /\ pmuWindow' = [pmuWindow EXCEPT ![p] = items[p]]
          /\ UNCHANGED <<items, made, channelsMade, tree, radio>>
      BY <1>12, <2>2 DEF OpenPmuWindow
    <3>2. p <= made /\ items[p] <= made
      BY <1>3, <1>4, <2>2
    <3>3. ASSUME NEW q PROVE pmuWindow'[q] = pmuWindow[q] \/ (q = p /\ pmuWindow'[q] = items[q])
      BY <1>1, <3>1 DEF WindowTypeOK
    <3>4. \A q \in Pmus : q > made => q # p
      BY <1>3, <1>4, <3>2
    <3>5. PmusBounded'
      BY <1>1, <3>1, <3>2, <3>3, <3>4 DEF Bounded, PmusBounded
    <3> QED
      BY <1>1, <3>1, <3>5 DEF Bounded, TreeBounded, ChannelsBounded
  <2> QED
    BY <2>1, <2>2
<1>13. ASSUME NEW p \in Pmus, ClosePmuWindow(p) PROVE Bounded'
  <2>1. /\ pmuWindow' = [pmuWindow EXCEPT ![p] = NoPmu]
        /\ UNCHANGED <<items, made, channelsMade, tree, radio>>
    BY <1>13 DEF ClosePmuWindow
  <2>2. ASSUME NEW q PROVE pmuWindow'[q] = pmuWindow[q] \/ pmuWindow'[q] = NoPmu
    BY <1>1, <2>1 DEF WindowTypeOK
  <2>3. PmusBounded'
    BY <1>1, <2>1, <2>2 DEF Bounded, PmusBounded
  <2> QED
    BY <1>1, <2>1, <2>3 DEF Bounded, TreeBounded, ChannelsBounded
<1>14. ASSUME NEW p \in Pmus, AddChannel(p) \/ \E c \in Positions : RemoveChannel(p, c)
       PROVE  Bounded'
  <2>1. /\ RebuildChannels(p) /\ pmuWindow[p] # NoPmu
        /\ \/ channelsMade' = channelsMade
           \/ channelsMade' = [channelsMade EXCEPT ![pmuWindow[p]] = @ + 1]
    BY <1>14 DEF AddChannel, RemoveChannel
  <2>2. items' = items /\ made' = made
    BY <2>1 DEF RebuildChannels
  <2>3. /\ pmuWindow' = pmuWindow /\ radio' = radio
        /\ Len(tree') = Len(tree) /\ DOMAIN tree' = DOMAIN tree
        /\ \A q \in DOMAIN tree :
             \/ tree'[q] = tree[q]
             \/ q \in DOMAIN items' /\ tree'[q] <= channelsMade'[items'[q]]
    BY <2>1, <2>2, RebuildFacts
  <2>4. \A q \in Pmus : /\ channelsMade[q] \in Nat /\ channelsMade'[q] \in Nat
                        /\ channelsMade[q] <= channelsMade'[q]
    <3>1. channelsMade' \in [Pmus -> 0 .. MaxChannels] /\ channelsMade \in [Pmus -> 0 .. MaxChannels]
      BY <1>1, <1>2 DEF ConfigTypeOK
    <3>2. \A q \in Pmus : channelsMade'[q] = channelsMade[q] \/ channelsMade'[q] = channelsMade[q] + 1
      BY <2>1, <3>1
    <3> QED
      BY <3>1, <3>2
  <2>5. TreeBounded'
    <3>1. ASSUME NEW q \in DOMAIN tree', Len(items') = made' PROVE tree'[q] <= channelsMade'[items'[q]]
      <4>1. q \in DOMAIN tree /\ q \in DOMAIN items /\ items[q] \in Pmus
        BY <1>1, <1>3, <1>4, <2>2, <2>3, <3>1 DEF Bounded, TreeBounded
      <4>2. tree[q] <= channelsMade[items[q]] /\ tree[q] \in Nat
        <5>1. tree \in Seq(0 .. MaxChannels)
          BY <1>1 DEF WindowTypeOK
        <5>2. tree[q] \in 0 .. MaxChannels
          BY <4>1, <5>1, Elements
        <5> QED
          BY <1>1, <2>2, <3>1, <4>1, <5>2 DEF Bounded, TreeBounded
      <4>3. tree[q] <= channelsMade'[items[q]]
        BY <2>4, <4>1, <4>2
      <4> QED
        BY <2>2, <2>3, <4>1, <4>3
    <3> QED
      BY <1>1, <2>2, <2>3, <3>1 DEF Bounded, TreeBounded
  <2>6. ChannelsBounded'
    <3>1. ASSUME NEW s \in Slots, radio[s] # "closed", Len(items) = made
          PROVE  s[2] <= channelsMade'[items[s[1]]]
      <4>1. s[1] <= made /\ s[2] <= channelsMade[items[s[1]]]
        BY <1>1, <3>1 DEF Bounded, ChannelsBounded
      <4>2. items[s[1]] \in Pmus
        BY <1>3, <1>4, <3>1, <4>1
      <4>3. s[2] \in Nat /\ channelsMade[items[s[1]]] \in Nat /\ channelsMade'[items[s[1]]] \in Nat
            /\ channelsMade[items[s[1]]] <= channelsMade'[items[s[1]]]
        BY <1>4, <2>4, <4>2
      <4> QED
        BY <4>1, <4>3
    <3> QED
      BY <1>1, <2>2, <2>3, <3>1 DEF Bounded, ChannelsBounded
  <2> QED
    BY <1>1, <2>2, <2>3, <2>5, <2>6 DEF Bounded, PmusBounded
<1>15. ASSUME NEW s \in Slots, OpenChannelWindow(s) PROVE Bounded'
  <2>1. CASE Owner(s) = NoOne
    BY <1>5, <1>15, <2>1 DEF OpenChannelWindow
  <2>2. CASE Owner(s) # NoOne
    <3>1. /\ s[1] \in DOMAIN tree /\ s[2] \in 1 .. tree[s[1]]
          /\ \E kind : radio' = [radio EXCEPT ![s] = kind]
          /\ UNCHANGED <<items, made, channelsMade, tree, pmuWindow>>
      BY <1>15, <2>2 DEF OpenChannelWindow
    <3>2. s[1] <= made
      <4>1. Len(tree) <= made
        BY <1>1 DEF Bounded, TreeBounded
      <4>2. s[1] \in Nat /\ s[1] <= Len(tree)
        BY <1>4, <3>1
      <4> QED
        BY <1>3, <1>4, <4>1, <4>2
    <3>3. Len(items) = made => s[2] <= channelsMade[items[s[1]]]
      <4>1. tree \in Seq(0 .. MaxChannels)
        BY <1>1 DEF WindowTypeOK
      <4>2. tree[s[1]] \in 0 .. MaxChannels
        BY <3>1, <4>1, Elements
      <4>3. Len(items) = made => tree[s[1]] <= channelsMade[items[s[1]]] /\ items[s[1]] \in Pmus
        BY <1>1, <1>3, <1>4, <3>1, <3>2 DEF Bounded, TreeBounded
      <4>4. \A q \in Pmus : channelsMade[q] \in Nat
        BY <1>1 DEF ConfigTypeOK
      <4> QED
        BY <1>4, <3>1, <4>2, <4>3, <4>4
    <3>4. ASSUME NEW t \in Slots, t # s PROVE radio'[t] = radio[t]
      BY <1>1, <3>1, <3>4 DEF WindowTypeOK
    <3>5. ChannelsBounded'
      BY <1>1, <3>1, <3>2, <3>3, <3>4 DEF Bounded, ChannelsBounded
    <3> QED
      BY <1>1, <3>1, <3>5 DEF Bounded, TreeBounded, PmusBounded
  <2> QED
    BY <2>1, <2>2
<1>16. ASSUME NEW s \in Slots, CloseChannelWindow(s) \/ ClickRadio(s) PROVE Bounded'
  <2>1. /\ \A t \in Slots : radio'[t] # "closed" => radio[t] # "closed"
        /\ UNCHANGED <<items, made, channelsMade, tree, pmuWindow>>
    BY <1>1, <1>16 DEF CloseChannelWindow, ClickRadio, WindowTypeOK
  <2>2. ChannelsBounded'
    BY <1>1, <2>1 DEF Bounded, ChannelsBounded
  <2> QED
    BY <1>1, <2>1, <2>2 DEF Bounded, TreeBounded, PmusBounded
<1>17. ASSUME NEW s \in Slots, CommitConstant(s) \/ AssignOverride(s) PROVE Bounded'
  BY <1>5, <1>17 DEF CommitConstant, AssignOverride
<1>18. CASE StopSimulator
  BY <1>5, <1>18 DEF StopSimulator, Crash
<1>19. CASE ShutdownReturns
  BY <1>5, <1>6, <1>19 DEF ShutdownReturns
<1>20. CASE UNCHANGED config /\ UNCHANGED <<windows, gui>>
  BY <1>5, <1>20
<1>21. \A p \in Pmus : RemovePmuAtIndex(p) \/ CommitPmu(p) => UNCHANGED <<windows, gui>>
  BY DEF RemovePmuAtIndex, CommitPmu, Crash
<1> QED
  BY <1>6, <1>7, <1>8, <1>9, <1>10, <1>11, <1>12, <1>13, <1>14, <1>15, <1>16, <1>17, <1>18, <1>19,
     <1>20, ConfigSteps, WindowSteps

(* A window writes the fields of one PMU into another only after a removal. *)
LEMMA MixedStep ==
  ASSUME IInv, [Next]_vars, mixed'
  PROVE  Len(items') < made'
<1>1. TypeOK /\ ConfigTypeOK /\ WindowTypeOK /\ ListsOrdered /\ Bounded /\ (mixed => Len(items) < made)
  BY BoundedParts DEF IInv, SimInv, TypeOK
<1>2. Len(items) \in Nat /\ made \in Nat /\ Len(items) <= made
  BY <1>1, ListFacts DEF ListsOrdered
<1>3. CASE UNCHANGED config
  BY <1>1, <1>3
<1>4. ASSUME NEW what, NextSolution(what) PROVE FALSE
  BY <1>1, <1>4, NewSolution
<1>5. CASE AppendDefaultPMU
  <2>1. items' = Append(items, made + 1) /\ made' = made + 1 /\ mixed' = mixed
    BY <1>5 DEF AppendDefaultPMU
  <2>2. Len(items') = Len(items) + 1 /\ Len(items) < made
    BY <1>1, <2>1 DEF ConfigTypeOK
  <2> QED
    BY <1>2, <2>1, <2>2
<1>6. ASSUME NEW p \in Pmus, RemovePmuAtIndex(p) PROVE Len(items') < made'
  <2>1. items' = Erased(items, p) /\ p \in DOMAIN items /\ made' = made
    BY <1>6 DEF RemovePmuAtIndex
  <2>2. Len(items') = Len(items) - 1
    BY <1>1, <2>1, ErasedFacts DEF ConfigTypeOK
  <2> QED
    BY <1>2, <2>1, <2>2
<1>7. ASSUME NEW p \in Pmus, CommitPmu(p) PROVE Len(items') < made'
  <2>1. items' = items /\ made' = made
    BY <1>7 DEF CommitPmu, Crash
  <2>2. CASE mixed
    BY <1>1, <2>1, <2>2
  <2>3. CASE ~mixed
    <3>1. p \in DOMAIN items /\ items[p] # pmuWindow[p] /\ pmuWindow[p] # NoPmu
      BY <1>7, <2>3 DEF CommitPmu, Crash
    <3>2. items[p] # p
      BY <1>1, <3>1 DEF Bounded, PmusBounded
    <3>3. Len(items) # made
      BY <1>1, <3>1, <3>2 DEF ListsOrdered
    <3> QED
      BY <1>2, <2>1, <3>3
  <2> QED
    BY <2>2, <2>3
<1>8. ASSUME NEW p \in Pmus, AddChannel(p) \/ \E c \in Positions : RemoveChannel(p, c)
      PROVE  UNCHANGED <<items, made, mixed>>
  BY <1>8 DEF AddChannel, RemoveChannel, RebuildChannels
<1> QED
  BY <1>1, <1>3, <1>4, <1>5, <1>6, <1>7, <1>8, ConfigSteps

LEMMA Step ==
  ASSUME IInv, [Next]_vars
  PROVE  IInv'
<1>1. TypeOK /\ ListsOrdered
  BY DEF IInv, SimInv
<1>2. TypeOK' /\ ListsOrdered'
  BY <1>1, TypeStep, ConfigTypeStep
<1>3. OneDeleted' /\ StaysReady'
  BY FeedsStep
<1>4. NothingChosenAhead' /\ InputsFollowChannels'
  BY ChosenStep
<1>5. RunSafe' /\ RunningAsConfigured' /\ KeysInserted'
  BY SafeStep, RunStep
<1>6. WindowsBounded' /\ WindowsInStep'
  <2>1. Bounded' /\ (mixed' => Len(items') < made') /\ (crashed' = "index" => Missing')
    BY WindowsStep, MixedStep, MissingStep
  <2> QED
    BY <2>1 DEF WindowsBounded, WindowsInStep, Bounded, TreeBounded, PmusBounded, ChannelsBounded, Missing
<1> QED
  BY <1>2, <1>3, <1>4, <1>5, <1>6 DEF IInv, SimInv

LEMMA InitInv ==
  ASSUME Init
  PROVE  IInv
<1>1. /\ items = <<1>> /\ made = 1 /\ 1 \in Pmus /\ MaxPmus \in Nat /\ MaxChannels \in Nat
      /\ Defaults \in 1 .. MaxChannels
  BY SimulatorAssumption DEF Init, Pmus
<1>2. items \in Seq(Pmus) /\ Len(items) = 1 /\ DOMAIN items = {1} /\ items[1] = 1
  BY <1>1
<1>3. \A p \in Pmus : channelsMade[p] = IF p = 1 THEN Defaults ELSE 0
  BY DEF Init, Pmus
<1>4. \A p \in Pmus : /\ channelsMade[p] \in 0 .. MaxChannels
                      /\ channels[p] = [c \in 1 .. channelsMade[p] |-> c]
  BY <1>1, <1>3 DEF Init
<1>5. \A p \in Pmus : /\ channels[p] \in Seq(Positions) /\ Len(channels[p]) = channelsMade[p]
                      /\ \A c \in DOMAIN channels[p] : channels[p][c] = c
  <2>1. ASSUME NEW n \in 0 .. MaxChannels
        PROVE  /\ [c \in 1 .. n |-> c] \in Seq(Positions) /\ Len([c \in 1 .. n |-> c]) = n
               /\ DOMAIN [c \in 1 .. n |-> c] = 1 .. n
    BY <1>1, CountedFacts DEF Positions
  <2> TAKE p \in Pmus
  <2>2. channelsMade[p] \in 0 .. MaxChannels /\ channels[p] = [c \in 1 .. channelsMade[p] |-> c]
    BY <1>4
  <2>3. channels[p] \in Seq(Positions) /\ Len(channels[p]) = channelsMade[p]
        /\ DOMAIN channels[p] = 1 .. channelsMade[p]
    BY <2>1, <2>2
  <2> QED
    BY <2>2, <2>3
<1>6. ConfigTypeOK
  <2>1. channelsMade \in [Pmus -> 0 .. MaxChannels]
    <3>1. channelsMade = [i \in Pmus |-> IF i <= 1 THEN Defaults ELSE 0]
      BY DEF Init
    <3> QED
      BY <1>1, <3>1 DEF Init
  <2>2. channels \in [Pmus -> Seq(Positions)]
    <3>1. channels = [i \in Pmus |-> [c \in 1 .. channelsMade[i] |-> c]]
      BY DEF Init
    <3> QED
      BY <1>5, <3>1
  <2>3. made \in 0 .. MaxPmus /\ mixed \in BOOLEAN
    <3>1. made = 1 /\ mixed = FALSE
      BY DEF Init
    <3>2. 1 \in 0 .. MaxPmus
      BY SimulatorAssumption
    <3> QED
      BY <3>1, <3>2
  <2> QED
    BY <1>2, <2>1, <2>2, <2>3 DEF ConfigTypeOK
<1>7. FeedTypeOK
  BY DEF Init, FeedTypeOK, Kinds, NoOne
<1>8. WindowTypeOK
  <2>1. tree \in Seq(0 .. MaxChannels)
    <3>1. tree = <<Defaults>> /\ Defaults \in 0 .. MaxChannels
      BY <1>1 DEF Init
    <3> QED
      BY <3>1
  <2> QED
    BY <2>1 DEF Init, WindowTypeOK
<1>9. ThreadTypeOK
  <2>1. run = <<>> /\ <<>> \in Seq(Seq(Positions))
    BY DEF Init
  <2>2. at = <<1, 1>> /\ <<1, 1>> \in (1 .. MaxPmus + 1) \X (1 .. MaxChannels + 1)
    <3>1. 1 \in 1 .. MaxPmus + 1 /\ 1 \in 1 .. MaxChannels + 1
      BY <1>1
    <3> QED
      BY <3>1 DEF Init
  <2> QED
    BY <2>1, <2>2 DEF Init, ThreadTypeOK
<1>10. TypeOK
  BY <1>6, <1>7, <1>8, <1>9, SimulatorAssumption DEF Init, TypeOK
<1>11. ListsOrdered
  BY <1>1, <1>2, <1>3, <1>4, <1>5 DEF ListsOrdered
<1>12. Bounded /\ (crashed = "index" => Missing)
  <2>1. Len(tree) = 1 /\ DOMAIN tree = {1} /\ tree[1] = Defaults
    BY DEF Init
  <2>2. TreeBounded
    BY <1>1, <1>2, <1>3, <2>1 DEF TreeBounded
  <2>3. PmusBounded /\ ChannelsBounded
    BY <1>2 DEF Init, PmusBounded, ChannelsBounded
  <2> QED
    BY <2>2, <2>3 DEF Init, Bounded
<1>13. WindowsBounded /\ WindowsInStep
  <2>1. ~mixed
    BY DEF Init
  <2> QED
    BY <1>12, <2>1, BoundedParts
<1>14. NothingChosenAhead /\ InputsFollowChannels /\ OneDeleted /\ StaysReady /\ KeysInserted
       /\ RunSafe /\ RunningAsConfigured
  BY DEF Init, NothingChosenAhead, InputsFollowChannels, OneDeleted, StaysReady, KeysInserted,
     RunSafe, RunningAsConfigured
<1> QED
  BY <1>10, <1>11, <1>13, <1>14 DEF IInv, SimInv

(* The inductive invariant. *)
LEMMA Inductive == Spec => []IInv
<1>1. Init => IInv
  BY InitInv
<1>2. IInv /\ [Next]_vars => IInv'
  BY Step
<1> QED
  BY <1>1, <1>2, PTL DEF Spec

(* The types, and what the other properties rest on. *)
THEOREM SimulatorInvariance == Spec => []SimInv
<1>1. IInv => SimInv
  BY DEF IInv
<1> QED
  BY <1>1, Inductive, PTL

(* Between the start of a run that began in order and its end, PdcProc reads no  *)
(* feed that SetAnalogOverride has deleted, no entry past the end of a file, and *)
(* does not advance in an empty file.                                            *)
THEOREM RunIsSafe == Spec => []RunSafe
<1>1. IInv => RunSafe
  BY DEF IInv
<1> QED
  BY <1>1, Inductive, PTL

(* A channel that stands where it was made to stand, with nothing removed before  *)
(* it, reads the input that was chosen for it, in every simulator that is made or *)
(* loaded.  Of what comes after a removal, or is appended later, nothing is said. *)
THEOREM InputsStayWithChannels == Spec => []InputsFollowChannels
<1>1. IInv => InputsFollowChannels
  BY DEF IInv
<1> QED
  BY <1>1, Inductive, PTL

(* No edit, commit, opened or closed solution changes the lists of the configuration *)
(* while PdcProc runs with a copy of them.                                           *)
THEOREM RunsWithConfiguration == Spec => []RunningAsConfigured
<1>1. IInv => RunningAsConfigured
  BY DEF IInv
<1> QED
  BY <1>1, Inductive, PTL

(* As long as RemovePmuAtIndex and RemoveItem have removed nothing, a window edits *)
(* the PMU at its position, no commit writes the fields of one PMU into another,   *)
(* and no window looks for what is not there.                                      *)
THEOREM WindowsStayInStep == Spec => []WindowsInStep
<1>1. IInv => WindowsInStep
  BY DEF IInv
<1> QED
  BY <1>1, Inductive, PTL

(* While PdcProc runs there is no other run, and no other simulator. *)
LEMMA SameRun ==
  ASSUME IInv, [Next]_vars, pdc # "none"
  PROVE  run' = run /\ m_simPdc' = "running"
<1>1. m_simPdc = "running"
  BY DEF IInv, SimInv, KeysInserted
<1>2. CASE UNCHANGED vars
  BY <1>1, <1>2
<1>3. CASE \E what \in {"new", "open"} : CloseSolution(what)
  BY <1>1, <1>3 DEF CloseSolution
<1>4. CASE Save \/ AppendDefaultPMU \/ OnEndEditLabel \/ StartSimulator \/ StopSimulator \/ ShutdownReturns
  BY <1>1, <1>4 DEF Save, AppendDefaultPMU, OnEndEditLabel, StartSimulator, StopSimulator, ShutdownReturns
<1>5. ASSUME NEW p \in Pmus, PmuWindow(p) PROVE UNCHANGED <<run, m_simPdc>>
  BY <1>5 DEF PmuWindow, RemovePmuAtIndex, OpenPmuWindow, CommitPmu, AddChannel, RemoveChannel,
     ClosePmuWindow, RebuildChannels, Crash
<1>6. ASSUME NEW s \in Slots, ChannelWindow(s) PROVE UNCHANGED <<run, m_simPdc>>
  BY <1>6 DEF ChannelWindow, OpenChannelWindow, CommitChannel, CloseChannelWindow, ClickRadio,
     CommitConstant, AssignOverride, CommitFile, Crash
<1>7. CASE PdcProc
  <2>1. ASSUME NEW where, NEW p, NEW c, MovesTo(where, p, c) PROVE UNCHANGED <<run, m_simPdc>>
    BY <2>1 DEF MovesTo
  <2> QED
    BY <1>1, <1>7, <2>1 DEF PdcProc, TestActive, BeginTick, CheckOverride, ReadOverride,
       ChannelsRead, SignalOverride, ChannelsSignalled, FrameDone
<1> QED
  BY <1>1, <1>2, <1>3, <1>4, <1>5, <1>6, <1>7 DEF Next

(* After its first frame PdcProc inserts no more keys into the maps of the feeds. *)
(* The GUI thread inserts one only for a channel that the configuration lacks,    *)
(* and ends the program in the same step.                                         *)
THEOREM MapsStopGrowing == Spec => MapsGrowInFirstFrame
<1>1. IInv /\ [Next]_vars =>
        [pdc # "none" /\ framed =>
           /\ Keys \subseteq Keys'
           /\ \A s \in Keys' \ Keys : Owner(s) = NoOne /\ crashed' = "index"]_vars
  <2> SUFFICES ASSUME IInv, [Next]_vars, pdc # "none", framed
               PROVE  /\ Keys \subseteq Keys'
                      /\ \A s \in Keys' \ Keys : Owner(s) = NoOne /\ crashed' = "index"
    OBVIOUS
  <2>1. TypeOK /\ ConfigTypeOK /\ FeedTypeOK /\ ThreadTypeOK /\ KeysInserted
    BY DEF IInv, SimInv, TypeOK
  <2>2. run' = run /\ m_simPdc' = "running" /\ m_simPdc = "running"
    BY <2>1, SameRun DEF KeysInserted
  <2>3. /\ DOMAIN run = DOMAIN items
        /\ \A p \in DOMAIN run : run[p] = channels[items[p]]
    BY RunFacts
  <2>4. \A p \in DOMAIN run : \A c \in DOMAIN run[p] : override[<<p, c>>] # "absent"
    BY <2>1 DEF KeysInserted, Present
  <2> DEFINE Stays(s) == \/ override[s] = "absent" <=> override'[s] = "absent"
                         \/ /\ override[s] = "absent" /\ override'[s] # "absent"
                            /\ Owner(s) = NoOne /\ crashed' = "index"
  <2>5. ASSUME NEW s \in Slots, s[1] \in DOMAIN run PROVE Stays(s)
    <3>1. CASE UNCHANGED feeds
      BY <3>1
    <3>2. ASSUME NEW what, NextSolution(what) PROVE FALSE
      BY <2>1, <2>2, <3>2, NewSolution
    <3>3. s = <<s[1], s[2]>>
      BY DEF Slots
    <3>4. ASSUME NEW t \in Slots, OpenChannelWindow(t) PROVE Stays(s)
      <4>1. CASE s = t
        <5>1. CASE Owner(s) = NoOne
          <6>1. crashed' = "index"
            BY <3>4, <4>1, <5>1 DEF OpenChannelWindow
          <6>2. override'[s] = override[s] \/ override'[s] = "const"
            BY <2>1, <3>4, <4>1, <5>1 DEF OpenChannelWindow, SetOverride, FeedTypeOK
          <6> QED
            BY <5>1, <6>1, <6>2
        <5>2. CASE Owner(s) # NoOne
          <6>1. override[s] # "absent"
            BY <2>1, <2>3, <2>4, <2>5, <3>3, <5>2, OwnerType
          <6>2. override'[s] = override[s] \/ override'[s] = "const"
            BY <2>1, <3>4, <4>1, <5>2 DEF OpenChannelWindow, SetOverride, FeedTypeOK
          <6> QED
            BY <6>1, <6>2
        <5> QED
          BY <5>1, <5>2
      <4>2. CASE s # t
        <5>1. override'[s] = override[s]
          BY <2>1, <3>4, <4>2 DEF OpenChannelWindow, SetOverride, FeedTypeOK
        <5> QED
          BY <5>1
      <4> QED
        BY <4>1, <4>2
    <3>5. ASSUME NEW t \in Slots, CommitConstant(t) \/ AssignOverride(t) PROVE Stays(s)
      <4>1. \/ override'[s] = override[s]
            \/ override[s] # "absent" /\ override'[s] # "absent"
        BY <2>1, <3>5 DEF CommitConstant, AssignOverride, SetOverride, FeedTypeOK
      <4> QED
        BY <4>1
    <3>6. ASSUME NEW t \in Slots, NEW n \in Sizes \cup {0}, CommitFile(t, n) PROVE FALSE
      BY <2>2, <3>6 DEF CommitFile, SimulatorIsActive
    <3>7. CASE CheckOverride
      <4>1. override[at] # "absent"
        <5>1. at = <<at[1], at[2]>>
          BY <2>1 DEF ThreadTypeOK
        <5>2. at[1] \in DOMAIN run /\ at[2] \in DOMAIN run[at[1]]
          BY <3>7 DEF CheckOverride
        <5> QED
          BY <2>4, <5>1, <5>2
      <4>2. override'[s] = override[s] \/ (s = at /\ override'[s] = "null")
        BY <2>1, <3>7 DEF CheckOverride, FeedTypeOK
      <4> QED
        BY <4>1, <4>2
    <3>8. CASE SignalOverride
      BY <3>8 DEF SignalOverride
    <3> QED
      BY <3>1, <3>2, <3>4, <3>5, <3>6, <3>7, <3>8, FeedSteps
  <2> QED
    BY <2>2, <2>5 DEF Keys
<1> QED
  BY <1>1, Inductive, PTL DEF Spec, MapsGrowInFirstFrame
=============================================================================
