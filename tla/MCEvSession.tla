---------------------------- MODULE MCEvSession ----------------------------
(***************************************************************************)
(* EvSession for TLC.  The bounds stop the environment, never the code: a  *)
(* hello or a new link is withheld, a step in progress always goes on.     *)
(***************************************************************************)
EXTENDS EvSession

VARIABLE active  \* the links that do anything; the others stay as they are

\* All links, when one of them is serial.  Otherwise TCP links alone, or USB links alone and
\* resets of the interpreter: the sum of the two state spaces, where both together are more
\* than TLC can explore.
ActiveInit ==
  /\ Init
  /\ active \in IF SerialLinks = {} THEN {TcpLinks, UsbLinks} ELSE {Link}

ActiveNext ==
  /\ \/ \E t \in Task : Continue(t)
     \/ \E l \in active : LinkEvent(l)
     \/ \E l \in active, i \in Slot : Transmit(l, i)
     \/ TickExpire \/ OutputFailed
     \/ active # TcpLinks /\ VmEpochAdvance
     \/ Rest
  /\ UNCHANGED active

ActiveSpec == ActiveInit /\ [][ActiveNext]_<<vars, active>> /\ Fairness
=============================================================================
