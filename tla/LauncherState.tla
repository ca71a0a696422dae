--------------------------- MODULE LauncherState ---------------------------
(***************************************************************************)
(* What the launcher knows of the application and of the trial that run in *)
(* the Python VM (platform/ev_launcher_state.c).  Each of its functions is *)
(* one critical section.  The VM task calls them from the boot sequence,   *)
(* from the soft reset, from script.run and from scripts; a receiving task *)
(* cancels a trial while the VM is doing any of that.                      *)
(*                                                                         *)
(* A trial is named by an operation id and must be armed (script.run)      *)
(* before a script may run it.  Paths and digests, which arm and begin     *)
(* compare, belong to the id.                                              *)
(***************************************************************************)
EXTENDS Naturals

CONSTANTS
  Operations,  \* operation ids, other than NoOperation
  NoOperation,
  MaxVms       \* bound: epochs of the VM

ASSUME VmsAssumption == MaxVms \in Nat \ {0}
ASSUME OperationsAssumption == NoOperation \notin Operations

VARIABLES
  trial,    \* the trial's part of s_launcher_state
  app,      \* the application's part of s_launcher_state
  entry,    \* s_main_entry_window, s_main_entry_consumed
  vmPhase,  \* where the VM task is
  runners,  \* callables that execute_active and execute_trial are running
  arming,   \* script.run has armed this trial and not queued its line yet
  vmEpoch,  \* ev_session_vm_epoch
  ran,      \* history: times the last armed operation has begun
  revoked   \* history: its cancellation was confirmed to the client

launcherVars == <<trial, app, entry, vmPhase, runners, arming, vmEpoch, ran, revoked>>

Alive == vmPhase # "reset"

NoTrial == [valid |-> FALSE, op |-> NoOperation, last |-> NoOperation, epoch |-> 0,
            status |-> "not_started", outcome |-> "unknown"]
Outcomes == {"normal_return", "uncaught_exception", "user_interruption"}

(***************************************************************************)
(* The boot sequence and the soft reset.                                   *)
(***************************************************************************)
\* esp_vision_launcher_main_entry_begin, before main.py.
MainEntryBegin ==
  /\ vmPhase = "boot"
  /\ vmPhase' = "main"
  /\ entry' = [window |-> TRUE, consumed |-> FALSE]
  /\ UNCHANGED <<trial, app, runners, arming, vmEpoch, ran, revoked>>

\* esp_vision_launcher_main_entry_end, when main.py has returned.
MainEntryEnd ==
  /\ vmPhase = "main"
  /\ runners = {} /\ arming = NoOperation
  /\ vmPhase' = "repl"
  /\ entry' = [window |-> FALSE, consumed |-> FALSE]
  /\ UNCHANGED <<trial, app, runners, arming, vmEpoch, ran, revoked>>

\* boot.py may leave the friendly REPL's mode: main.py is not run then.
SkipMain ==
  /\ vmPhase = "boot"
  /\ runners = {} /\ arming = NoOperation
  /\ vmPhase' = "repl"
  /\ UNCHANGED <<trial, app, entry, runners, arming, vmEpoch, ran, revoked>>

\* Mutant of VmResetBegin: only a trial that is armed is closed.
MVmResetBegin ==
  /\ Alive
  /\ arming = NoOperation
  /\ vmPhase' = "reset"
  /\ app' = [app EXCEPT !.selected = FALSE,
                        !.outcome = IF @ = "running" THEN "reset" ELSE "unknown"]
  /\ entry' = [window |-> FALSE, consumed |-> FALSE]
  /\ trial' = IF trial.valid /\ trial.status = "armed"
                THEN [trial EXCEPT !.status = "finished", !.outcome = "reset"] ELSE trial
  /\ UNCHANGED <<runners, arming, vmEpoch, ran, revoked>>

\* esp_vision_launcher_state_vm_reset_begin.  Python threads live on until the VM is
\* taken down, and may still finish what they run.
VmResetBegin ==
  /\ Alive
  /\ arming = NoOperation
  /\ vmPhase' = "reset"
  /\ app' = [app EXCEPT !.selected = FALSE,
                        !.outcome = IF @ = "running" THEN "reset" ELSE "unknown"]
  /\ entry' = [window |-> FALSE, consumed |-> FALSE]
  /\ trial' = IF trial.valid /\ trial.status \in {"armed", "running"}
                THEN [trial EXCEPT !.status = "finished", !.outcome = "reset"] ELSE trial
  /\ UNCHANGED <<runners, arming, vmEpoch, ran, revoked>>

\* The epoch advances, the VM is taken down and a new one starts.
VmRestart ==
  /\ vmPhase = "reset"
  /\ vmEpoch < MaxVms
  /\ vmEpoch' = vmEpoch + 1
  /\ vmPhase' = "boot"
  /\ runners' = {}
  /\ UNCHANGED <<trial, app, entry, arming, ran, revoked>>

(***************************************************************************)
(* The application that main.py starts.                                    *)
(***************************************************************************)
\* esp_vision_launcher_begin_active.  A refused call raises ValueError.
BeginActive ==
  /\ Alive
  /\ entry.window /\ ~entry.consumed
  /\ ~app.selected /\ app.outcome \in {"unknown", "reset"}
  /\ entry' = [entry EXCEPT !.consumed = TRUE]
  /\ app' = [selected |-> TRUE, epoch |-> vmEpoch, outcome |-> "running"]
  /\ runners' = runners \cup {"app"}
  /\ UNCHANGED <<trial, vmPhase, arming, vmEpoch, ran, revoked>>

\* esp_vision_launcher_finish_active
FinishActive(outcome) ==
  /\ "app" \in runners
  /\ runners' = runners \ {"app"}
  /\ app' = IF app.selected /\ app.outcome = "running"
              THEN [app EXCEPT !.outcome = outcome] ELSE app
  /\ UNCHANGED <<trial, entry, vmPhase, arming, vmEpoch, ran, revoked>>

(***************************************************************************)
(* Trials.                                                                 *)
(***************************************************************************)
\* Mutant of ArmTrial: the operation of the last trial may be armed again.
MArmTrial(op) ==
  /\ Alive
  /\ arming = NoOperation
  /\ ~trial.valid \/ trial.status = "finished"
  /\ trial' = [valid |-> TRUE, op |-> op, last |-> op, epoch |-> vmEpoch,
               status |-> "armed", outcome |-> "unknown"]
  /\ arming' = op
  /\ ran' = IF op = trial.last THEN ran ELSE 0
  /\ revoked' = (op = trial.last /\ revoked)
  /\ UNCHANGED <<app, entry, vmPhase, runners, vmEpoch>>

\* esp_vision_launcher_arm_trial, for script.run.  The client may repeat a request.
ArmTrial(op) ==
  /\ Alive
  /\ arming = NoOperation
  /\ ~trial.valid \/ trial.status = "finished"
  /\ trial.last # op
  /\ trial' = [valid |-> TRUE, op |-> op, last |-> op, epoch |-> vmEpoch,
               status |-> "armed", outcome |-> "unknown"]
  /\ arming' = op
  /\ ran' = 0
  /\ revoked' = FALSE
  /\ UNCHANGED <<app, entry, vmPhase, runners, vmEpoch>>

\* esp_vision_launcher_cancel_trial_arm
CancelTrialArm(op) ==
  trial' = IF trial.valid /\ trial.status = "armed" /\ trial.op = op
             THEN [trial EXCEPT !.valid = FALSE, !.status = "not_started", !.outcome = "unknown"]
             ELSE trial

\* The rest of script.run queues the line that runs the script, or takes the arm back.
QueueScript ==
  /\ arming # NoOperation
  /\ arming' = NoOperation
  /\ \/ UNCHANGED trial
     \/ CancelTrialArm(arming)
  /\ UNCHANGED <<app, entry, vmPhase, runners, vmEpoch, ran, revoked>>

\* launcher.trial.cancel, in a receiving task.
CancelRequest(op) ==
  /\ trial.valid /\ trial.status = "armed" /\ trial.op = op
  /\ CancelTrialArm(op)
  /\ revoked' = TRUE
  /\ UNCHANGED <<app, entry, vmPhase, runners, arming, vmEpoch, ran>>

\* esp_vision_launcher_begin_trial, for a script that calls execute_trial.
BeginTrial(op) ==
  /\ Alive
  /\ arming = NoOperation
  /\ trial.valid /\ trial.status = "armed" /\ trial.epoch = vmEpoch /\ trial.op = op
  /\ trial' = [trial EXCEPT !.status = "running", !.outcome = "running"]
  /\ runners' = runners \cup {"trial"}
  /\ ran' = ran + 1
  /\ UNCHANGED <<app, entry, vmPhase, arming, vmEpoch, revoked>>

\* esp_vision_launcher_finish_trial
FinishTrial(outcome) ==
  /\ "trial" \in runners
  /\ runners' = runners \ {"trial"}
  /\ trial' = IF trial.valid /\ trial.status = "running"
                THEN [trial EXCEPT !.status = "finished", !.outcome = outcome] ELSE trial
  /\ UNCHANGED <<app, entry, vmPhase, arming, vmEpoch, ran, revoked>>

LauncherInit ==
  /\ trial = NoTrial
  /\ app = [selected |-> FALSE, epoch |-> 0, outcome |-> "unknown"]
  /\ entry = [window |-> FALSE, consumed |-> FALSE]
  /\ vmPhase = "boot"
  /\ runners = {}
  /\ arming = NoOperation
  /\ vmEpoch = 1
  /\ ran = 0
  /\ revoked = FALSE

LauncherNext ==
  \/ MainEntryBegin \/ MainEntryEnd \/ SkipMain \/ VmResetBegin \/ VmRestart
  \/ BeginActive \/ QueueScript
  \/ \E outcome \in Outcomes : FinishActive(outcome) \/ FinishTrial(outcome)
  \/ \E op \in Operations : ArmTrial(op) \/ CancelRequest(op) \/ BeginTrial(op)

LauncherSpec == LauncherInit /\ [][LauncherNext]_launcherVars

(***************************************************************************)
(* Properties                                                              *)
(***************************************************************************)
AnyOutcome == Outcomes \cup {"unknown", "running", "reset"}

TrialRecord ==
  [valid : BOOLEAN, op : Operations \cup {NoOperation}, last : Operations \cup {NoOperation},
   epoch : 0..MaxVms, status : {"not_started", "armed", "running", "finished"},
   outcome : AnyOutcome]

LauncherTypeOK ==
  /\ trial \in TrialRecord
  /\ app \in [selected : BOOLEAN, epoch : 0..MaxVms, outcome : AnyOutcome]
  /\ entry \in [window : BOOLEAN, consumed : BOOLEAN]
  /\ vmPhase \in {"boot", "main", "repl", "reset"}
  /\ runners \subseteq {"app", "trial"}
  /\ arming \in Operations \cup {NoOperation}
  /\ vmEpoch \in 1..MaxVms
  /\ ran \in Nat
  /\ revoked \in BOOLEAN

\* What the launcher reports as running does run, in the VM that began it: a reset has
\* closed the record before the epoch of the next VM is there.
RunningIsTrue ==
  /\ trial.status = "running" => "trial" \in runners /\ trial.epoch = vmEpoch /\ Alive
  /\ app.outcome = "running" => "app" \in runners /\ app.epoch = vmEpoch /\ Alive

\* However requests are repeated, cancelled and interrupted by resets, the operation
\* armed last has begun at most once, and not at all once its cancellation was confirmed.
TrialRunsOnce == ran <= 1 /\ (revoked => ran = 0)

\* A late end of an application or of a trial never overwrites a reset's verdict; only
\* the next application or trial does.
ResetIsFinal ==
  [][/\ app.outcome = "reset" => app'.outcome \in {"reset", "running", "unknown"}
     /\ trial.outcome = "reset" => trial'.outcome = "reset" \/ trial'.op # trial.op]_launcherVars
=============================================================================
