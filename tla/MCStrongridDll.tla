---------------------------- MODULE MCStrongridDll ----------------------------
(* The client DLL for TLC.  Threads, memory and descriptors are told apart  *)
(* only by equality, so the runs without liveness use their symmetry.       *)
EXTENDS StrongridDll, SequencesExt

Symmetry == Permutations(Threads) \cup Permutations(Clients) \cup Permutations(Fds)

(* In the run with liveness memory and descriptors are handed out in an     *)
(* order instead: what has been freed is used again before the rest.        *)
Memory == SetToSeq(Clients)
Descriptors == SetToSeq(Fds)

InOrder(seq, used, new) ==
  \A i, j \in DOMAIN seq : seq[j] \in new \ used /\ i < j => seq[i] \in used

FirstFree == InOrder(Memory, live, live') /\ InOrder(Descriptors, Open, Open')
=============================================================================
