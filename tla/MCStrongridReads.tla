--------------------------- MODULE MCStrongridReads ---------------------------
(* An instance of StrongridReads for TLC: a PDC of two PMUs and one of one, *)
(* of which the first may be given one PMU fewer and more channels.        *)
EXTENDS StrongridReads

CONSTANTS c1, c2

One == [phasor |-> 1, analog |-> 0, digital |-> 0]
Two == [phasor |-> 1, analog |-> 1, digital |-> 0]

MCChannels == [cfg \in Configs |->
  CASE cfg = <<0, 0>> -> <<One, One>>
    [] cfg = <<0, 1>> -> <<Two>>
    [] cfg = <<1, 0>> -> <<One>>
    [] OTHER -> <<Two>>]

(* PDCs of version 2.  The first may be given another configuration and be *)
(* replaced; the second connection is to the second, which stays as it is. *)
Bound ==
  /\ version = 2
  /\ pdc = 1 => up /\ set = 0
  /\ c2 \in used => c1 \in used /\ pdc = 1
=============================================================================
