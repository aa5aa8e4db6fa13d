----------------------------- MODULE PdcSession -----------------------------
(***************************************************************************)
(* What a simulated PDC promises the clients that connect to it, with no   *)
(* threads, locks or sockets: a connection is a session that is opened     *)
(* once, streams or is quiet, and ends once.  A session that was told to   *)
(* stop may receive one more data frame (the one of the tick that read the *)
(* command), never two.  Closing the service ends every session and none   *)
(* is opened afterwards.  PdcServer implements this module.                *)
(***************************************************************************)
EXTENDS Naturals

CONSTANT Conns            \* the connections clients may open

VARIABLES session,        \* the state of each connection's session
          late,           \* data frames sent since the session went quiet
          service         \* "open" until the PDC object has been shut down

sessionVars == <<session, late, service>>

Live == {"streaming", "quiet"}

SessionTypeOK ==
  /\ session \in [Conns -> Live \cup {"none", "ended"}]
  /\ late \in [Conns -> 0..1]
  /\ service \in {"open", "closed"}

SessionInit ==
  /\ session = [c \in Conns |-> "none"]
  /\ late = [c \in Conns |-> 0]
  /\ service = "open"

(* A session starts out streaming: no START_RTD is needed. *)
Join(c) ==
  /\ service = "open"
  /\ session[c] = "none"
  /\ session' = [session EXCEPT ![c] = "streaming"]
  /\ UNCHANGED <<late, service>>

Switch(c, mode) ==
  /\ session[c] \in Live
  /\ session' = [session EXCEPT ![c] = mode]
  /\ late' = [late EXCEPT ![c] = 0]
  /\ UNCHANGED service

LateFrame(c) ==
  /\ session[c] = "quiet"
  /\ late[c] = 0
  /\ late' = [late EXCEPT ![c] = 1]
  /\ UNCHANGED <<session, service>>

End(c) ==
  /\ session[c] \in Live
  /\ session' = [session EXCEPT ![c] = "ended"]
  /\ UNCHANGED <<late, service>>

Close ==
  /\ service = "open"
  /\ service' = "closed"
  /\ session' = [c \in Conns |-> IF session[c] \in Live THEN "ended" ELSE session[c]]
  /\ UNCHANGED late

SessionNext ==
  \/ \E c \in Conns : \/ Join(c)
                      \/ \E mode \in Live : Switch(c, mode)
                      \/ LateFrame(c)
                      \/ End(c)
  \/ Close

SessionSpec == SessionInit /\ [][SessionNext]_sessionVars
=============================================================================
