---------------------------- MODULE MCFrameCodec ----------------------------
(* Instances of FrameCodec for TLC: a few PDCs, and feeds with the values   *)
(* that the formats treat differently.                                     *)
EXTENDS FrameCodec

Names16(n) == [i \in 1..n |-> 5]
Format(b) == [i \in 0..3 |-> i \in b]

Unit2 == [type |-> 1, scalar |-> 915527]
Unit3(v) == [bits |-> 3, volt |-> v, component |-> 5, scale |-> 100]

(* v is the protocol version; ph and an are the lengths of names.           *)
Pmu(v, ph, an, dg, format) ==
  [stn |-> 14, format |-> Format(format), ph |-> ph, an |-> an, dg |-> dg,
   phunit |-> [i \in DOMAIN ph |-> IF v = 2 THEN Unit3(i % 2) ELSE Unit2],
   anunit |-> [i \in DOMAIN an |-> IF v = 2 THEN [scale |-> 3, offset |-> 1]
                                   ELSE [type |-> 0, scalar |-> 55 - 60 * (i - 1)]],
   normal |-> [i \in DOMAIN dg |-> i % 3 = 0]]

Pdc(v, pmus) ==
  [version |-> v, clock |-> [leap |-> 1, pending |-> TRUE, level |-> 9],
   timeBase |-> <<0, 1000000>>, dataRate |-> <<50, 1>>, message |-> 21, pmus |-> pmus]

Small(v, format) == Pmu(v, <<3>>, <<4>>, Names16(2), format)

MCPdcs ==
  {Pdc(v, <<Small(v, f)>>) : v \in {1, 2}, f \in SUBSET (0..3)}
  \cup {Pdc(v, <<Pmu(v, <<3, 18>>, <<>>, Names16(17), {1, 3}),
                 Pmu(v, <<>>, <<2, 16>>, <<>>, {2})>>) : v \in {1, 2}}
  \cup {[Pdc(1, <<Small(1, {})>>) EXCEPT !.clock.leap = -1, !.dataRate = <<1, 2>>],
        [Pdc(1, <<Small(1, {})>>) EXCEPT !.pmus[1].phunit = <<>>],
        [Pdc(2, <<Small(2, {})>>) EXCEPT !.pmus[1].stn = 300],
        Pdc(2, <<Pmu(2, <<255>>, <<>>, <<>>, {}), Pmu(2, <<256>>, <<3>>, <<>>, {})>>),
        Pdc(1, <<Pmu(1, <<>>, <<>>, Names16(241), {})>>)}

Codes(x) == [error |-> x, sync |-> 1, sorting |-> 0, trigger |-> 1, change |-> 0,
             modified |-> 1, quality |-> 7 - x, unlock |-> 3 - x, reason |-> 15 - x]
Feed(x, ph, freq, an, k) ==
  [stat |-> Codes(x), ph |-> ph, freq |-> freq, an |-> an,
   dg |-> [i \in 1..241 |-> i % k = 0]]

MCFeeds ==
  {Feed(0, <<<<5, 6>>, <<-5, 6>>>>, <<500, 3>>, <<0, 3>>, 1),
   Feed(3, <<<<-5, -6>>, <<0, 4>>>>, <<-765, -2>>, <<35, -2>>, 2),
   [Feed(1, <<<<0, 0>>, <<7, 0>>>>, <<0, 0>>, <<-1, 0>>, 16) EXCEPT !.stat.quality = 255],
   Feed(2, <<<<32767, -32768>>, <<4, 0>>>>, <<327679, 32767>>, <<7, 0>>, 3),
   Feed(2, <<<<32768, 0>>, <<4, 1>>>>, <<-327690, 0>>, <<7, 1>>, 5),
   Feed(2, <<<<3, -32769>>, <<4, 2>>>>, <<10, 32768>>, <<7, 2>>, 7)}
=============================================================================
