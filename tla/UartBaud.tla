------------------------------ MODULE UartBaud ------------------------------
(***************************************************************************)
(* The change of the UART's speed (platform/ev_uart_baud.h and its callers *)
(* in ev_control_transport.c).  The owner asks for a speed (prepare), the  *)
(* device answers at the old one, switches, is probed at the new one and   *)
(* keeps it once the owner commits; otherwise it goes back to the          *)
(* baseline.                                                               *)
(*                                                                         *)
(* Three tasks take part.  The transport task runs the request handlers    *)
(* and the poll, one after the other; the poll is in three steps, because  *)
(* it reads the session and the clock before it locks s_uart_baud_mux and  *)
(* sets the speed after it unlocked it.  The transmit worker writes frames *)
(* and runs their completions.  Anybody may end the session.               *)
(***************************************************************************)
EXTENDS Naturals, Sequences

CONSTANTS
  Bauds,           \* ev_uart_baud_candidate
  Baseline,        \* EV_UART_BAUD_BASELINE
  MaxBaudSessions, \* bound: sessions on the UART
  MaxAttempts,     \* bound: negotiations
  MaxAnswers       \* bound: answers waiting to be sent

ASSUME BaudsAssumption == Baseline \in Bauds
ASSUME BoundsAssumption == MaxBaudSessions \in Nat /\ MaxAttempts \in Nat /\ MaxAnswers \in Nat

VARIABLES
  baud,      \* s_uart_baud and the session that negotiates
  since,     \* now_ms - since_ms: see Fresh, Due and Over
  baudPoll,  \* how far the poll is, and what it read
  speed,     \* uart_current_baud
  paused,    \* s_uart_paused
  answers,   \* answers to uart requests in the transmit queue
  sending,   \* the frame the worker has begun to write
  wire,      \* the FIFO or the shift register still holds bytes
  uartOwner, \* the session that owns the UART (0: none)
  uartSessions, attempts  \* how many so far

txVars == <<answers, sending, wire>>
sessionVars == <<uartOwner, uartSessions>>
baudVars == <<baud, since, baudPoll, speed, paused, txVars, sessionVars, attempts>>

Phase == {"idle", "prepare_ack", "wait_switch", "probing", "commit_ack", "active", "restore"}

\* What the handlers tell apart of the time since since_ms: nothing has passed,
\* the switch delay has (100 ms), the timeout has (5000 ms).
Fresh == 0
Due == 1
Over == 2

NoBaud == [phase |-> "idle", requested |-> 0, token |-> 0, probed |-> FALSE, session |-> 0]
PollIdle == [pc |-> "idle", owner |-> 0, elapsed |-> Fresh, restore |-> FALSE, same |-> FALSE]
NoFrame == [kind |-> "none", token |-> 0, session |-> 0]
Answer(kind, token, session) == [kind |-> kind, token |-> token, session |-> session]

(***************************************************************************)
(* Requests of the owner, which the transport task handles.  A token is    *)
(* random in the host: here, the number of the negotiation.                *)
(***************************************************************************)
Handling == baudPoll.pc = "idle"
OwnerAsks(token) == uartOwner # 0 /\ uartOwner = baud.session /\ baud.token = token

\* The answer goes to the queue; when it cannot, prepare and commit fall back.
Answered(kind, next) ==
  \/ /\ Len(answers) < MaxAnswers
     /\ answers' = Append(answers, Answer(kind, next.token, uartOwner))
     /\ baud' = next
  \/ /\ answers' = answers
     /\ baud' = IF kind = "probe" THEN next ELSE [next EXCEPT !.phase = "restore"]

\* A hello is only understood at the speed it is sent at, the baseline.
UartHello ==
  /\ Handling
  /\ uartOwner = 0
  /\ speed = Baseline
  /\ uartSessions < MaxBaudSessions
  /\ uartSessions' = uartSessions + 1
  /\ uartOwner' = uartSessions + 1
  /\ UNCHANGED <<baud, since, baudPoll, speed, paused, txVars, attempts>>

\* Mutant of Prepare: the other frames are not held.
MPrepare(rate) ==
  /\ Handling
  /\ uartOwner # 0
  /\ baud.phase \in {"idle", "active"}
  /\ attempts < MaxAttempts
  /\ attempts' = attempts + 1
  /\ Answered("prepare", [phase |-> "prepare_ack", requested |-> rate, token |-> attempts + 1,
                          probed |-> FALSE, session |-> uartOwner])
  /\ since' = Fresh
  /\ UNCHANGED <<baudPoll, speed, paused, sending, wire, sessionVars>>

Prepare(rate) ==
  /\ Handling
  /\ uartOwner # 0
  /\ baud.phase \in {"idle", "active"}
  /\ attempts < MaxAttempts
  /\ attempts' = attempts + 1
  /\ Answered("prepare", [phase |-> "prepare_ack", requested |-> rate, token |-> attempts + 1,
                          probed |-> FALSE, session |-> uartOwner])
  /\ since' = Fresh
  /\ paused' = TRUE
  /\ UNCHANGED <<baudPoll, speed, sending, wire, sessionVars>>

Probe(token) ==
  /\ Handling
  /\ OwnerAsks(token)
  /\ baud.phase \in {"probing", "active"}
  /\ Answered("probe", [baud EXCEPT !.probed = TRUE])
  /\ UNCHANGED <<since, baudPoll, speed, paused, sending, wire, sessionVars, attempts>>

\* A commit that is repeated, because its answer was lost, is answered again.
CommitSpeed(token) ==
  /\ Handling
  /\ OwnerAsks(token)
  /\ baud.phase \in {"probing", "active"}
  /\ baud.probed
  /\ Answered("commit", IF baud.phase = "active" THEN baud
                                                 ELSE [baud EXCEPT !.phase = "commit_ack"])
  /\ UNCHANGED <<since, baudPoll, speed, paused, sending, wire, sessionVars, attempts>>

(***************************************************************************)
(* The transmit worker.                                                    *)
(***************************************************************************)
\* An answer to a uart request passes a pause.
StartAnswer ==
  /\ sending = NoFrame
  /\ answers # <<>>
  /\ Head(answers).session = uartOwner
  /\ sending' = Head(answers)
  /\ answers' = Tail(answers)
  /\ wire' = TRUE
  /\ UNCHANGED <<baud, since, baudPoll, speed, paused, sessionVars, attempts>>

\* Any other frame of the session does not begin during one.
StartOther ==
  /\ sending = NoFrame
  /\ ~paused
  /\ uartOwner # 0
  /\ sending' = Answer("other", 0, uartOwner)
  /\ wire' = TRUE
  /\ UNCHANGED <<baud, since, baudPoll, speed, paused, answers, sessionVars, attempts>>

\* ev_uart_baud_prepare_complete.  The poll may have read the clock before this
\* stamp: if a millisecond lies between, now_ms - since_ms wraps to a huge number,
\* and the poll takes the negotiation that has just begun for one that timed out.
PrepareComplete(token, success) ==
  IF baud.phase = "prepare_ack" /\ baud.token = token
    THEN /\ baud' = [baud EXCEPT !.phase = IF success THEN "wait_switch" ELSE "restore"]
         /\ since' = Fresh
         /\ IF baudPoll.pc = "check"
              THEN \E elapsed \in {Fresh, Over} : baudPoll' = [baudPoll EXCEPT !.elapsed = elapsed]
              ELSE UNCHANGED baudPoll
         /\ UNCHANGED paused
    ELSE UNCHANGED <<baud, since, baudPoll, paused>>

\* Mutant of CommitComplete: the output stays held after a successful commit.
MCommitComplete(token, success) ==
  /\ baud' = IF baud.phase = "commit_ack" /\ baud.token = token
               THEN [baud EXCEPT !.phase = IF success THEN "active" ELSE "restore"]
               ELSE baud
  /\ UNCHANGED <<since, baudPoll, paused>>

\* ev_uart_baud_commit_complete
CommitComplete(token, success) ==
  /\ baud' = IF baud.phase = "commit_ack" /\ baud.token = token
               THEN [baud EXCEPT !.phase = IF success THEN "active" ELSE "restore"]
               ELSE baud
  /\ paused' = IF baud'.phase = "active" THEN FALSE ELSE paused
  /\ UNCHANGED <<since, baudPoll>>

\* The part of ev_control_tx_complete that is about the speed.
Completed(frame, success) ==
  CASE frame.kind = "prepare" -> PrepareComplete(frame.token, success)
    [] frame.kind = "commit" -> CommitComplete(frame.token, success)
    [] OTHER -> UNCHANGED <<baud, since, baudPoll, paused>>

\* The last bytes enter the FIFO.
FinishFrame ==
  /\ sending # NoFrame
  /\ sending.session = uartOwner
  /\ sending' = NoFrame
  /\ wire' = TRUE
  /\ Completed(sending, TRUE)
  /\ UNCHANGED <<speed, answers, sessionVars, attempts>>

\* The frame fails, or its session is no longer the owner's.
DropFrame ==
  /\ sending # NoFrame
  /\ sending' = NoFrame
  /\ Completed(sending, FALSE)
  /\ UNCHANGED <<speed, wire, answers, sessionVars, attempts>>

DropAnswer ==
  /\ answers # <<>>
  /\ answers' = Tail(answers)
  /\ Completed(Head(answers), FALSE)
  /\ UNCHANGED <<speed, sending, wire, sessionVars, attempts>>

\* The bytes leave, perhaps between two chunks of one frame.
Drain ==
  /\ wire
  /\ wire' = FALSE
  /\ UNCHANGED <<baud, since, baudPoll, speed, paused, answers, sending, sessionVars, attempts>>

(***************************************************************************)
(* ev_control_transport_uart_baud_poll                                     *)
(***************************************************************************)
PollRead ==
  /\ baudPoll.pc = "idle"
  /\ baud.phase # "idle"
  /\ baudPoll' = [PollIdle EXCEPT !.pc = "check", !.owner = uartOwner, !.elapsed = since]
  /\ UNCHANGED <<baud, since, speed, paused, txVars, sessionVars, attempts>>

TimedOut(elapsed) ==
  baud.phase \in {"prepare_ack", "wait_switch", "probing", "commit_ack"} /\ elapsed = Over

\* Mutant of PollCheck: any owner will do.
MPollCheck ==
  LET same == baudPoll.owner # 0
      phase == IF ~same \/ TimedOut(baudPoll.elapsed) THEN "restore" ELSE baud.phase
      restore == phase = "restore"
      due == phase = "wait_switch" /\ baudPoll.elapsed >= Due
  IN /\ baudPoll.pc = "check"
     /\ baud' = [baud EXCEPT !.phase = phase]
     /\ paused' = (paused \/ restore)
     /\ baudPoll' = IF restore \/ due
                      THEN [PollIdle EXCEPT !.pc = "set", !.restore = restore, !.same = same]
                      ELSE PollIdle
     /\ UNCHANGED <<since, speed, txVars, sessionVars, attempts>>

PollCheck ==
  LET same == baudPoll.owner # 0 /\ baudPoll.owner = baud.session
      phase == IF ~same \/ TimedOut(baudPoll.elapsed) THEN "restore" ELSE baud.phase
      restore == phase = "restore"
      due == phase = "wait_switch" /\ baudPoll.elapsed >= Due
  IN /\ baudPoll.pc = "check"
     /\ baud' = [baud EXCEPT !.phase = phase]
     /\ paused' = (paused \/ restore)
     /\ baudPoll' = IF restore \/ due
                      THEN [PollIdle EXCEPT !.pc = "set", !.restore = restore, !.same = same]
                      ELSE PollIdle
     /\ UNCHANGED <<since, speed, txVars, sessionVars, attempts>>

\* ev_session_link_lost: a recovery starts with a fresh session.
Released == IF baudPoll.restore /\ baudPoll.same /\ uartOwner = baud.session THEN 0 ELSE uartOwner

\* uart_stdout_set_baudrate succeeds only when the wire is idle.
PollSetDone ==
  /\ baudPoll.pc = "set"
  /\ ~wire
  /\ uartOwner' = Released
  /\ speed' = IF baudPoll.restore THEN Baseline ELSE baud.requested
  /\ baud' = IF baudPoll.restore THEN NoBaud ELSE [baud EXCEPT !.phase = IF @ = "wait_switch" THEN "probing" ELSE @]
  /\ paused' = (paused /\ ~baudPoll.restore)
  /\ baudPoll' = PollIdle
  /\ UNCHANGED <<since, txVars, uartSessions, attempts>>

\* ESP_ERR_INVALID_STATE: the next poll tries again.
PollSetBusy ==
  /\ baudPoll.pc = "set"
  /\ uartOwner' = Released
  /\ baudPoll' = PollIdle
  /\ UNCHANGED <<baud, since, speed, paused, txVars, uartSessions, attempts>>

PollSetFails ==
  /\ baudPoll.pc = "set"
  /\ uartOwner' = Released
  /\ baud' = [baud EXCEPT !.phase = "restore"]
  /\ baudPoll' = PollIdle
  /\ UNCHANGED <<since, speed, paused, txVars, uartSessions, attempts>>

(***************************************************************************)
(* The rest of the device.                                                 *)
(***************************************************************************)
BaudTime ==
  /\ baud.phase # "idle"
  /\ since < Over
  /\ since' = since + 1
  /\ UNCHANGED <<baud, baudPoll, speed, paused, txVars, sessionVars, attempts>>

\* A release, an expired lease or a lost link, in whatever task notices it.
UartSessionEnds ==
  /\ uartOwner # 0
  /\ uartOwner' = 0
  /\ UNCHANGED <<baud, since, baudPoll, speed, paused, txVars, uartSessions, attempts>>

BaudInit ==
  /\ baud = NoBaud
  /\ since = Fresh
  /\ baudPoll = PollIdle
  /\ speed = Baseline
  /\ paused = FALSE
  /\ answers = <<>>
  /\ sending = NoFrame
  /\ wire = FALSE
  /\ uartOwner = 0
  /\ uartSessions = 0
  /\ attempts = 0

BaudNext ==
  \/ UartHello
  \/ \E rate \in Bauds : Prepare(rate)
  \/ \E token \in 1..MaxAttempts : Probe(token) \/ CommitSpeed(token)
  \/ StartAnswer \/ StartOther \/ FinishFrame \/ DropFrame \/ DropAnswer \/ Drain
  \/ PollRead \/ PollCheck \/ PollSetDone \/ PollSetBusy \/ PollSetFails
  \/ BaudTime \/ UartSessionEnds

BaudSpec == BaudInit /\ [][BaudNext]_baudVars

\* The two tasks run, a frame ends within its timeout, the wire drains and the clock
\* advances.  Polls come every 2 ms, so one finds the wire idle and the clock source
\* known.
BaudFairness ==
  /\ WF_baudVars(PollRead)
  /\ WF_baudVars(PollCheck)
  /\ SF_baudVars(PollSetDone)
  /\ WF_baudVars(PollSetBusy)
  /\ WF_baudVars(FinishFrame \/ DropFrame)
  /\ WF_baudVars(StartAnswer \/ DropAnswer)
  /\ WF_baudVars(Drain)
  /\ WF_baudVars(BaudTime)

(***************************************************************************)
(* Properties                                                              *)
(***************************************************************************)
Frame == [kind : {"prepare", "probe", "commit", "other", "none"},
          token : 0..MaxAttempts, session : 0..MaxBaudSessions]

BaudRecord ==
  [phase : Phase, requested : Bauds \cup {0}, token : 0..MaxAttempts, probed : BOOLEAN,
   session : 0..MaxBaudSessions]
PollRecord ==
  [pc : {"idle", "check", "set"}, owner : 0..MaxBaudSessions, elapsed : {Fresh, Due, Over},
   restore : BOOLEAN, same : BOOLEAN]

BaudTypeOK ==
  /\ baud \in BaudRecord
  /\ since \in {Fresh, Due, Over}
  /\ baudPoll \in PollRecord
  /\ speed \in Bauds
  /\ paused \in BOOLEAN /\ wire \in BOOLEAN
  /\ answers \in Seq(Frame) /\ Len(answers) <= MaxAnswers
  /\ sending \in Frame
  /\ uartOwner \in 0..MaxBaudSessions /\ uartSessions \in 0..MaxBaudSessions
  /\ attempts \in 0..MaxAttempts

\* No owner is left at a speed it does not know (comment of the poll): outside a
\* negotiation the UART is at the baseline, and so it is for an owner other than the
\* one that negotiated; the one that did is at the speed it committed to.
KnownSpeed ==
  /\ baud.phase = "idle" => speed = Baseline
  /\ uartOwner # 0 /\ uartOwner # baud.session => speed = Baseline
  /\ baud.phase \in {"probing", "commit_ack", "active"} => speed = baud.requested

\* A session never meets a change of speed it did not ask for: the speed changes when
\* there is no owner, or to what the owner requested, and then its answer and every
\* frame begun before have left at the old speed.  No frame is cut in two by a switch.
SpeedChangeIsAgreed ==
  [][speed' # speed =>
       \/ uartOwner' = 0
       \/ /\ uartOwner' = baud.session /\ speed' = baud.requested
          /\ ~wire /\ sending.session # uartOwner'
          /\ \A i \in DOMAIN answers : answers[i].session # uartOwner']_baudVars

\* Output that a negotiation holds flows again, however the negotiation ends.
PauseEnds == paused ~> ~paused
=============================================================================
