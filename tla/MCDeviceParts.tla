--------------------------- MODULE MCDeviceParts ---------------------------
(***************************************************************************)
(* Five small parts of the device side by side, for TLC.  They share no    *)
(* variable, so a property of one of them holds of the device if and only  *)
(* if it holds while the others stand still: the initial state chooses the *)
(* part that moves, and the state space is the sum of theirs, not the      *)
(* product.                                                                *)
(***************************************************************************)
EXTENDS EvLease, UartBaud, LauncherState, CdcRx, EvTcp

VARIABLE part

partsVars == <<vars, baudVars, launcherVars, cdcVars, tcpVars, part>>

PartsInit ==
  /\ part \in {"lease", "baud", "launcher", "cdc", "tcp"}
  /\ Init /\ BaudInit /\ LauncherInit /\ CdcInit /\ TcpInit
  /\ part # "lease" => now = 0

LeaseMoves == part = "lease" /\ Next /\ UNCHANGED <<baudVars, launcherVars, cdcVars, tcpVars, part>>
BaudMoves == part = "baud" /\ BaudNext /\ UNCHANGED <<vars, launcherVars, cdcVars, tcpVars, part>>
LauncherMoves == part = "launcher" /\ LauncherNext /\ UNCHANGED <<vars, baudVars, cdcVars, tcpVars, part>>
CdcMoves == part = "cdc" /\ CdcNext /\ UNCHANGED <<vars, baudVars, launcherVars, tcpVars, part>>
TcpMoves == part = "tcp" /\ TcpNext /\ UNCHANGED <<vars, baudVars, launcherVars, cdcVars, part>>

PartsNext == LeaseMoves \/ BaudMoves \/ LauncherMoves \/ CdcMoves \/ TcpMoves

\* Fairness, BaudFairness, CdcFairness and TcpFairness, each for the part that moves.
PartsFairness ==
  /\ WF_vars(part = "lease" /\ Advance)
  /\ SF_vars(part = "lease" /\ TickCalled)
  /\ WF_vars(part = "lease" /\ (TickExpires \/ TickKeeps))
  /\ \A t \in Task : WF_vars(part = "lease" /\ (Acquire(t) \/ Keepalive(t)))
  /\ WF_baudVars(part = "baud" /\ PollRead)
  /\ WF_baudVars(part = "baud" /\ PollCheck)
  /\ SF_baudVars(part = "baud" /\ PollSetDone)
  /\ WF_baudVars(part = "baud" /\ PollSetBusy)
  /\ WF_baudVars(part = "baud" /\ (FinishFrame \/ DropFrame))
  /\ WF_baudVars(part = "baud" /\ (StartAnswer \/ DropAnswer))
  /\ WF_baudVars(part = "baud" /\ Drain)
  /\ WF_baudVars(part = "baud" /\ BaudTime)
  /\ WF_cdcVars(part = "cdc" /\ TransportRound)
  /\ WF_tcpVars(part = "tcp" /\ Manage)
  /\ WF_tcpVars(part = "tcp" /\ CloserMarks)

\* The parts are well typed, and no socket is lost or shared.
PartsInv ==
  /\ TypeOK /\ BaudTypeOK /\ LauncherTypeOK /\ CdcTypeOK /\ TcpTypeOK
  /\ SocketsAccounted

PartsSpec == PartsInit /\ [][PartsNext]_partsVars /\ PartsFairness
=============================================================================
