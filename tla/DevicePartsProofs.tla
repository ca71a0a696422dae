------------------------- MODULE DevicePartsProofs -------------------------
(***************************************************************************)
(* Proofs about the parts of the device that share no variable, and about  *)
(* all of them side by side: the launcher's state, for any set of          *)
(* operations and any number of resets; the TCP links, for any number of   *)
(* slots and connections; the change of the UART's speed, for any set of   *)
(* speeds and any number of sessions, negotiations and queued answers; the *)
(* lease of a session, for any lease, clock and delays; and the receive    *)
(* ring of USB CDC, for any capacity and any number of connections.        *)
(***************************************************************************)
EXTENDS MCDeviceParts, WellFoundedInduction, TLAPS

(***************************************************************************)
(* The launcher's state.                                                   *)
(***************************************************************************)
\* A record says "running" or "armed" only where finish, reset and cancel look for it,
\* and a trial that a reset ended is finished for good.
RecordAgrees ==
  /\ trial.op = trial.last
  /\ trial.outcome = "reset" => trial.status = "finished"
  /\ trial.status \in {"armed", "running"} => trial.valid
  /\ app.outcome = "running" => app.selected

\* An operation that is armed has neither begun nor been revoked.
ArmedIsFresh == trial.status = "armed" => ran = 0 /\ ~revoked

LauncherInv == LauncherTypeOK /\ RecordAgrees /\ RunningIsTrue /\ ArmedIsFresh /\ TrialRunsOnce

\* The initial state satisfies the invariant.
LEMMA LauncherInitially == LauncherInit => LauncherInv
<1> SUFFICES ASSUME LauncherInit PROVE LauncherInv
  OBVIOUS
<1>1. trial \in TrialRecord
  BY VmsAssumption DEF LauncherInit, NoTrial, TrialRecord, AnyOutcome
<1>2. app \in [selected : BOOLEAN, epoch : 0..MaxVms, outcome : AnyOutcome]
  BY VmsAssumption DEF LauncherInit, AnyOutcome
<1>3. entry \in [window : BOOLEAN, consumed : BOOLEAN]
  BY DEF LauncherInit
<1>4. vmEpoch \in 1..MaxVms /\ ran \in Nat
  BY VmsAssumption DEF LauncherInit
<1>5. LauncherTypeOK
  <2>1. revoked \in BOOLEAN /\ arming \in Operations \cup {NoOperation}
    BY DEF LauncherInit
  <2> QED
    BY <1>1, <1>2, <1>3, <1>4, <2>1 DEF LauncherInit, LauncherTypeOK
<1> QED
  BY <1>5 DEF LauncherInit, LauncherInv, RecordAgrees, RunningIsTrue, ArmedIsFresh,
              TrialRunsOnce, NoTrial

\* The boot sequence changes neither record.
LEMMA BootInv ==
  LauncherInv /\ (MainEntryBegin \/ MainEntryEnd \/ SkipMain) => LauncherInv'
<1> SUFFICES ASSUME LauncherInv, MainEntryBegin \/ MainEntryEnd \/ SkipMain PROVE LauncherInv'
  OBVIOUS
<1>1. /\ UNCHANGED <<trial, app, runners, arming, vmEpoch, ran, revoked>>
      /\ Alive' /\ vmPhase' \in {"boot", "main", "repl", "reset"}
      /\ entry' \in [window : BOOLEAN, consumed : BOOLEAN]
  <2>1. CASE MainEntryBegin
    BY <2>1 DEF MainEntryBegin, Alive
  <2>2. CASE MainEntryEnd
    BY <2>2 DEF MainEntryEnd, Alive
  <2>3. CASE SkipMain
    BY <2>3 DEF SkipMain, LauncherInv, LauncherTypeOK, Alive
  <2> QED
    BY <2>1, <2>2, <2>3
<1>2. LauncherTypeOK'
  BY <1>1 DEF LauncherInv, LauncherTypeOK
<1> QED
  BY <1>1, <1>2 DEF LauncherInv, RecordAgrees, RunningIsTrue, ArmedIsFresh, TrialRunsOnce

\* A reset closes both records before the VM is gone.
LEMMA ResetInv == LauncherInv /\ VmResetBegin => LauncherInv'
<1> SUFFICES ASSUME LauncherInv, VmResetBegin PROVE LauncherInv'
  OBVIOUS
<1>1. LauncherTypeOK'
  BY DEF VmResetBegin, LauncherInv, LauncherTypeOK, TrialRecord, AnyOutcome, Alive
<1>2. trial'.status \notin {"armed", "running"} /\ app'.outcome # "running"
  BY DEF VmResetBegin, LauncherInv, LauncherTypeOK, TrialRecord, RecordAgrees
<1>3. TrialRunsOnce'
  BY DEF VmResetBegin, LauncherInv, TrialRunsOnce
<1>4. trial'.op = trial'.last /\ (trial'.outcome = "reset" => trial'.status = "finished")
  BY DEF VmResetBegin, LauncherInv, LauncherTypeOK, TrialRecord, RecordAgrees
<1> QED
  BY <1>1, <1>2, <1>3, <1>4 DEF LauncherInv, RecordAgrees, RunningIsTrue, ArmedIsFresh

\* Nothing is running while the VM is replaced.
LEMMA RestartInv == LauncherInv /\ VmRestart => LauncherInv'
  BY VmsAssumption
  DEF VmRestart, LauncherInv, LauncherTypeOK, TrialRecord, RecordAgrees, RunningIsTrue, ArmedIsFresh,
      TrialRunsOnce, Alive

\* The application's begin and end.
LEMMA ActiveInv ==
  ASSUME LauncherInv, BeginActive \/ \E outcome \in Outcomes : FinishActive(outcome)
  PROVE  LauncherInv'
<1>1. CASE BeginActive
  <2>1. LauncherTypeOK'
    <3>1. app' \in [selected : BOOLEAN, epoch : 0..MaxVms, outcome : AnyOutcome]
      BY <1>1, VmsAssumption DEF BeginActive, LauncherInv, LauncherTypeOK, AnyOutcome
    <3>2. entry' \in [window : BOOLEAN, consumed : BOOLEAN]
      BY <1>1 DEF BeginActive, LauncherInv, LauncherTypeOK
    <3> QED
      BY <1>1, <3>1, <3>2 DEF BeginActive, LauncherInv, LauncherTypeOK
  <2> QED
    BY <1>1, <2>1 DEF BeginActive, LauncherInv, LauncherTypeOK, TrialRecord, RecordAgrees, RunningIsTrue,
                      ArmedIsFresh, TrialRunsOnce, Alive
<1>2. ASSUME NEW outcome \in Outcomes, FinishActive(outcome) PROVE LauncherInv'
  <2>1. LauncherTypeOK'
    BY <1>2 DEF FinishActive, LauncherInv, LauncherTypeOK, AnyOutcome
  <2>2. app'.outcome # "running"
    BY <1>2 DEF FinishActive, LauncherInv, LauncherTypeOK, TrialRecord, RecordAgrees, Outcomes
  <2>3. trial.status = "running" => "trial" \in runners'
    BY <1>2 DEF FinishActive, LauncherInv, RunningIsTrue
  <2> QED
    BY <1>2, <2>1, <2>2, <2>3 DEF FinishActive, LauncherInv, RecordAgrees, RunningIsTrue,
                             ArmedIsFresh, TrialRunsOnce, Alive
<1> QED
  BY <1>1, <1>2

\* A trial that is armed starts from nothing.
LEMMA ArmInv == ASSUME LauncherInv, NEW op \in Operations, ArmTrial(op) PROVE LauncherInv'
<1>0. trial' \in TrialRecord
  BY VmsAssumption DEF ArmTrial, LauncherInv, LauncherTypeOK, TrialRecord, AnyOutcome
<1>1. LauncherTypeOK'
  BY <1>0 DEF ArmTrial, LauncherInv, LauncherTypeOK
<1> QED
  BY <1>1 DEF ArmTrial, LauncherInv, LauncherTypeOK, TrialRecord, RecordAgrees, RunningIsTrue, ArmedIsFresh,
              TrialRunsOnce, Alive

\* Taking an arm back, in either task, touches an armed trial alone.
LEMMA CancelInv ==
  ASSUME LauncherInv, QueueScript \/ \E op \in Operations : CancelRequest(op)
  PROVE  LauncherInv'
<1>1. CASE QueueScript
  <2>1. LauncherTypeOK'
    <3>1. trial' \in TrialRecord
      BY <1>1 DEF QueueScript, CancelTrialArm, LauncherInv, LauncherTypeOK, TrialRecord, AnyOutcome
    <3> QED
      BY <1>1, <3>1 DEF QueueScript, LauncherInv, LauncherTypeOK
  <2> QED
    BY <1>1, <2>1 DEF QueueScript, CancelTrialArm, LauncherInv, LauncherTypeOK, TrialRecord, RecordAgrees,
                      RunningIsTrue, ArmedIsFresh, TrialRunsOnce, Alive
<1>2. ASSUME NEW op \in Operations, CancelRequest(op) PROVE LauncherInv'
  <2>1. LauncherTypeOK'
    <3>1. trial' \in TrialRecord
      BY <1>2 DEF CancelRequest, CancelTrialArm, LauncherInv, LauncherTypeOK, TrialRecord, AnyOutcome
    <3> QED
      BY <1>2, <3>1 DEF CancelRequest, LauncherInv, LauncherTypeOK
  <2> QED
    BY <1>2, <2>1 DEF CancelRequest, CancelTrialArm, LauncherInv, LauncherTypeOK, TrialRecord, RecordAgrees,
                      RunningIsTrue, ArmedIsFresh, TrialRunsOnce, Alive
<1> QED
  BY <1>1, <1>2

\* A trial's begin and end.
LEMMA TrialInv ==
  ASSUME LauncherInv,
         \/ \E op \in Operations : BeginTrial(op)
         \/ \E outcome \in Outcomes : FinishTrial(outcome)
  PROVE  LauncherInv'
<1>1. ASSUME NEW op \in Operations, BeginTrial(op) PROVE LauncherInv'
  <2>1. LauncherTypeOK'
    <3>1. trial' \in TrialRecord
      BY <1>1 DEF BeginTrial, LauncherInv, LauncherTypeOK, TrialRecord, AnyOutcome
    <3> QED
      BY <1>1, <3>1 DEF BeginTrial, LauncherInv, LauncherTypeOK
  <2> QED
    <3>1. RecordAgrees'
      BY <1>1 DEF BeginTrial, LauncherInv, LauncherTypeOK, TrialRecord, RecordAgrees
    <3>2. RunningIsTrue'
      BY <1>1 DEF BeginTrial, LauncherInv, LauncherTypeOK, TrialRecord, RunningIsTrue, Alive
    <3>3. ran = 0 /\ ~revoked /\ ran' = 1 /\ ~revoked' /\ trial'.status # "armed"
      BY <1>1 DEF BeginTrial, LauncherInv, LauncherTypeOK, TrialRecord, ArmedIsFresh
    <3> QED
      BY <2>1, <3>1, <3>2, <3>3 DEF LauncherInv, ArmedIsFresh, TrialRunsOnce
<1>2. ASSUME NEW outcome \in Outcomes, FinishTrial(outcome) PROVE LauncherInv'
  <2>1. LauncherTypeOK'
    <3>1. trial' \in TrialRecord
      BY <1>2 DEF FinishTrial, LauncherInv, LauncherTypeOK, TrialRecord, AnyOutcome
    <3> QED
      BY <1>2, <3>1 DEF FinishTrial, LauncherInv, LauncherTypeOK
  <2>2. trial'.status # "running" /\ (trial'.status = "armed" => trial' = trial)
    BY <1>2 DEF FinishTrial, LauncherInv, LauncherTypeOK, TrialRecord, RecordAgrees
  <2>4. RecordAgrees'
    BY <1>2 DEF FinishTrial, LauncherInv, LauncherTypeOK, TrialRecord, RecordAgrees, Outcomes
  <2>3. app.outcome = "running" => "app" \in runners'
    BY <1>2 DEF FinishTrial, LauncherInv, RunningIsTrue
  <2> QED
    BY <1>2, <2>1, <2>2, <2>3, <2>4 DEF FinishTrial, LauncherInv, RunningIsTrue, ArmedIsFresh, TrialRunsOnce, Alive
<1> QED
  BY <1>1, <1>2

\* Every step of the launcher preserves the invariant.
LEMMA LauncherStays == LauncherInv /\ [LauncherNext]_launcherVars => LauncherInv'
<1> SUFFICES ASSUME LauncherInv, [LauncherNext]_launcherVars PROVE LauncherInv'
  OBVIOUS
<1>1. CASE UNCHANGED launcherVars
  BY <1>1 DEF launcherVars, LauncherInv, LauncherTypeOK, TrialRecord, RecordAgrees, RunningIsTrue,
              ArmedIsFresh, TrialRunsOnce, Alive
<1>2. CASE LauncherNext
  BY <1>2, BootInv, ResetInv, RestartInv, ActiveInv, ArmInv, CancelInv, TrialInv
  DEF LauncherNext
<1> QED
  BY <1>1, <1>2

\* The inductive invariant holds in every reachable state.
THEOREM LauncherInvariant == LauncherSpec => []LauncherInv
  BY LauncherInitially, LauncherStays, PTL DEF LauncherSpec

\* What the launcher reports as running does run, in the VM that began it.
THEOREM RunningCorrect == LauncherSpec => []RunningIsTrue
<1>1. LauncherInv => RunningIsTrue
  BY DEF LauncherInv
<1> QED
  BY <1>1, LauncherInvariant, PTL

\* Repeated, cancelled and interrupted requests never run an operation twice, nor after
\* its cancellation was confirmed.
THEOREM TrialCorrect == LauncherSpec => []TrialRunsOnce
<1>1. LauncherInv => TrialRunsOnce
  BY DEF LauncherInv
<1> QED
  BY <1>1, LauncherInvariant, PTL

\* A late end of an application or of a trial never overwrites a reset's verdict.
THEOREM ResetCorrect == LauncherSpec => ResetIsFinal
<1> DEFINE Final ==
      /\ app.outcome = "reset" => app'.outcome \in {"reset", "running", "unknown"}
      /\ trial.outcome = "reset" => trial'.outcome = "reset" \/ trial'.op # trial.op
<1>1. LauncherInv /\ [LauncherNext]_launcherVars => [Final]_launcherVars
  <2> SUFFICES ASSUME LauncherInv, LauncherNext PROVE Final
    OBVIOUS
  <2>1. CASE MainEntryBegin \/ MainEntryEnd \/ SkipMain \/ VmRestart
    BY <2>1 DEF MainEntryBegin, MainEntryEnd, SkipMain, VmRestart
  <2>2. CASE VmResetBegin
    BY <2>2 DEF VmResetBegin, LauncherInv, LauncherTypeOK, TrialRecord
  <2>3. CASE BeginActive \/ \E outcome \in Outcomes : FinishActive(outcome)
    BY <2>3 DEF BeginActive, FinishActive
  <2>4. CASE QueueScript \/ \E op \in Operations : CancelRequest(op)
    BY <2>4 DEF QueueScript, CancelRequest, CancelTrialArm, LauncherInv, RecordAgrees
  <2>5. CASE \E op \in Operations : ArmTrial(op)
    BY <2>5 DEF ArmTrial, LauncherInv, RecordAgrees
  <2>6. CASE \E op \in Operations : BeginTrial(op)
    BY <2>6 DEF BeginTrial, LauncherInv, RecordAgrees
  <2>7. CASE \E outcome \in Outcomes : FinishTrial(outcome)
    BY <2>7 DEF FinishTrial, LauncherInv, RecordAgrees
  <2> QED
    BY <2>1, <2>2, <2>3, <2>4, <2>5, <2>6, <2>7 DEF LauncherNext
<1> HIDE DEF Final
<1>2. LauncherSpec => [][Final]_launcherVars
  BY <1>1, LauncherInvariant, PTL DEF LauncherSpec
<1> QED
  BY <1>2 DEF Final, ResetIsFinal

(***************************************************************************)
(* The TCP links.                                                          *)
(***************************************************************************)
TcpSlot ==
  [fd : 0..MaxAccepts, active : BOOLEAN, generation : Generations, claimed : BOOLEAN,
   armed : BOOLEAN]
Entry == [open : BOOLEAN, generation : Generations]
Notice == [pending : BOOLEAN, generation : Generations]
TaskPlaces == {"sync", "shut", "reap", "close", "accept", "install", "poll", "read", "judge"}
ManagerTask ==
  [pc : TaskPlaces, slot : Nat, todo : SUBSET Slots, then : {"sync", "shut", "accept", "poll"},
   fd : 0..MaxAccepts, received : BOOLEAN]

\* The manager has no socket in its hands.
Resting(m) ==
  /\ m \in ManagerTask
  /\ m.fd = NoFd
  /\ m.pc \notin {"install", "close"}
  /\ m.pc \in {"read", "judge"} => m.slot \in Slots

ManagerInv ==
  /\ manager \in ManagerTask
  /\ manager.pc \in {"install", "read", "judge"} => manager.slot \in Slots
  /\ manager.pc \in {"install", "close"} <=> manager.fd # NoFd
  /\ manager.pc = "install" => ~slots[manager.slot].active /\ registry[manager.slot].open
  /\ \A s \in Slots : manager.fd # NoFd => slots[s].fd # manager.fd

\* A connection costs a slot at most two generations, and sockets are numbered as they come.
CountInv ==
  /\ accepts \in 0..MaxAccepts
  /\ sockets \subseteq 1..accepts
  /\ \A s \in Slots : /\ registry[s].generation <= 2 * accepts
                      /\ registry[s].open => registry[s].generation < 2 * accepts

\* Whoever is to be closed, announced or not, is behind the registry, which never goes back.
DeadInv ==
  /\ \A ref \in closers : ref.generation < registry[ref.slot].generation
  /\ \A s \in Slots : closeAt[s].pending => closeAt[s].generation < registry[s].generation
  /\ \A s \in Slots : slots[s].active =>
       slots[s].generation < registry[s].generation \/ Current(Ref(s))

LinkInv == TcpTypeOK /\ ManagerInv /\ CountInv /\ DeadInv /\ SocketsAccounted

\* A set of numbers that is not empty has a least one.
LEMMA LeastIn ==
  ASSUME NEW S \in SUBSET Nat, S # {}
  PROVE  \E x \in S : \A y \in S : x <= y
<1> DEFINE Less == OpToRel(<, Nat)
<1>1. \A x, y \in Nat : y < x => <<y, x>> \in Less
  BY DEF OpToRel
<1>2. IsWellFoundedOn(Less, Nat)
  BY NatLessThanWellFounded
<1> HIDE DEF Less
<1>3. PICK x \in S : \A y \in S : ~(<<y, x>> \in Less)
  BY <1>2, WFMin
<1>4. \A y \in S : x <= y
  <2> SUFFICES ASSUME NEW y \in S PROVE x <= y
    OBVIOUS
  <2>1. x \in Nat /\ y \in Nat
    OBVIOUS
  <2>2. ~(y < x)
    BY <1>1, <1>3, <2>1
  <2> QED
    BY <2>1, <2>2
<1> QED
  BY <1>4

\* Lowest picks one of the slots it is given.
LEMMA LowestIn ==
  ASSUME NEW S \in SUBSET Slots, S # {}
  PROVE  Lowest(S) \in S
<1>1. S \in SUBSET Nat
  BY TcpAssumption
<1>2. PICK x \in S : \A y \in S : x <= y
  BY <1>1, LeastIn
<1> QED
  BY <1>2 DEF Lowest

LEMMA LinkTypes ==
  ASSUME LinkInv
  PROVE  /\ slots \in [Slots -> TcpSlot] /\ registry \in [Slots -> Entry]
         /\ closeAt \in [Slots -> Notice] /\ manager \in ManagerTask
         /\ accepts \in Nat /\ MaxAccepts \in Nat /\ accepts <= MaxAccepts
         /\ \A s \in Slots : Ref(s) \in Refs /\ Ref(s).slot = s /\ Ref(s).generation = slots[s].generation
<1>1. MaxAccepts \in Nat
  BY TcpAssumption
<1>2. slots \in [Slots -> TcpSlot]
  BY DEF LinkInv, TcpTypeOK, TcpSlot
<1>3. \A s \in Slots : Ref(s) \in Refs /\ Ref(s).slot = s /\ Ref(s).generation = slots[s].generation
  BY <1>2 DEF Ref, Refs, TcpSlot
<1> QED
  BY <1>1, <1>2, <1>3 DEF LinkInv, TcpTypeOK, Entry, Notice, ManagerInv, CountInv

\* The manager without a socket, or in the same place: no socket moves.
SocketsStay ==
  /\ UNCHANGED sockets
  /\ \A s \in Slots : slots'[s].fd = slots[s].fd /\ slots'[s].active = slots[s].active
  /\ manager'.fd = manager.fd

LEMMA AccountedStay ==
  ASSUME LinkInv, SocketsStay
  PROVE  SocketsAccounted'
<1>1. {slots'[s].fd : s \in Slots} = {slots[s].fd : s \in Slots}
  BY DEF SocketsStay
<1> QED
  BY <1>1 DEF LinkInv, SocketsAccounted, SocketsStay

\* A step that ends no link and begins none.
LEMMA QuietLinks ==
  ASSUME LinkInv, UNCHANGED <<registry, closers, sockets>>,
         slots' \in [Slots -> TcpSlot],
         \A s \in Slots : /\ slots'[s].fd = slots[s].fd /\ slots'[s].active = slots[s].active
                          /\ slots'[s].generation = slots[s].generation,
         closeAt' \in [Slots -> Notice],
         \A s \in Slots : closeAt'[s].pending => closeAt'[s] = closeAt[s],
         accepts' \in accepts..MaxAccepts,
         tcpOwner' \in Refs \cup {NoRef},
         UNCHANGED manager \/ (Resting(manager) /\ Resting(manager'))
  PROVE  LinkInv'
<1>0. /\ slots \in [Slots -> TcpSlot] /\ registry \in [Slots -> Entry]
      /\ closeAt \in [Slots -> Notice] /\ manager \in ManagerTask
      /\ accepts \in Nat /\ MaxAccepts \in Nat /\ accepts <= MaxAccepts
  BY LinkTypes
<1>1. manager'.fd = manager.fd
  BY DEF Resting
<1>2. SocketsAccounted'
  BY <1>1, AccountedStay DEF SocketsStay
<1>3. manager'.pc \in TaskPlaces
  BY <1>0 DEF Resting, ManagerTask
<1>4. TcpTypeOK'
  BY <1>3 DEF LinkInv, TcpTypeOK, TcpSlot, Notice, TaskPlaces
<1>5. CountInv'
  <2>1. accepts' \in Nat /\ accepts <= accepts' /\ accepts' <= MaxAccepts
    BY <1>0
  <2>2. \A s \in Slots : registry[s].generation \in Nat
    BY <1>0 DEF Entry, Generations
  <2>3. sockets' \subseteq 1..accepts'
    BY <1>0, <2>1 DEF LinkInv, CountInv
  <2> QED
    BY <1>0, <2>1, <2>2, <2>3 DEF LinkInv, CountInv
<1>6. DeadInv'
  <2>1. \A s \in Slots : Current(Ref(s))' <=> Current(Ref(s))
    BY DEF Current, Ref
  <2>2. \A s \in Slots : closeAt'[s].pending => closeAt'[s].generation < registry'[s].generation
    BY DEF LinkInv, DeadInv
  <2> QED
    BY <2>1, <2>2 DEF LinkInv, DeadInv
<1>7. ManagerInv'
  BY DEF LinkInv, ManagerInv, Resting
<1> QED
  BY <1>2, <1>4, <1>5, <1>6, <1>7 DEF LinkInv

\* ev_transport_link_close makes the generation one of the past.
LEMMA InvalidatedFacts ==
  ASSUME LinkInv, NEW s \in Slots
  PROVE  /\ Invalidated(Ref(s)) \in [Slots -> Entry]
         /\ \A t \in Slots : registry[t].generation <= Invalidated(Ref(s))[t].generation
         /\ \A t \in Slots : t # s => Invalidated(Ref(s))[t] = registry[t]
         /\ \A t \in Slots : /\ Invalidated(Ref(s))[t].generation <= 2 * accepts
                             /\ Invalidated(Ref(s))[t].open => Invalidated(Ref(s))[t].generation < 2 * accepts
         /\ slots[s].active => slots[s].generation < Invalidated(Ref(s))[s].generation
<1>0. /\ registry \in [Slots -> Entry] /\ slots \in [Slots -> TcpSlot]
      /\ accepts \in Nat /\ MaxAccepts \in Nat /\ accepts <= MaxAccepts
      /\ Ref(s).slot = s /\ Ref(s).generation = slots[s].generation
  BY LinkTypes
<1>1. CASE ~Current(Ref(s))
  BY <1>0, <1>1 DEF Invalidated, LinkInv, CountInv, DeadInv, Entry, Generations
<1>2. CASE Current(Ref(s))
  <2>1. registry[s].open /\ registry[s].generation = slots[s].generation
    BY <1>0, <1>2 DEF Current
  <2>2. registry[s].generation \in Nat /\ registry[s].generation < 2 * accepts
    BY <1>0, <2>1 DEF LinkInv, CountInv, Entry, Generations
  <2> DEFINE ended == [open |-> FALSE, generation |-> registry[s].generation + 1]
  <2>3. Invalidated(Ref(s)) = [registry EXCEPT ![s] = ended]
    BY <1>0, <1>2, <2>1 DEF Invalidated
  <2>4. ended \in Entry /\ ~ended.open /\ ended.generation = registry[s].generation + 1
    BY <1>0, <2>2 DEF Entry, Generations
  <2> HIDE DEF ended
  <2>5. Invalidated(Ref(s))[s] = ended /\ \A t \in Slots : t # s => Invalidated(Ref(s))[t] = registry[t]
    BY <1>0, <2>3
  <2>6. \A t \in Slots : registry[t].generation \in Nat
    BY <1>0 DEF Entry, Generations
  <2> QED
    BY <1>0, <2>1, <2>2, <2>3, <2>4, <2>5, <2>6 DEF LinkInv, CountInv
<1> QED
  BY <1>1, <1>2

LEMMA MarkedFacts ==
  ASSUME LinkInv, NEW ref \in Refs
  PROVE  /\ Marked(ref) \in [Slots -> Notice]
         /\ \A t \in Slots :
              \/ Marked(ref)[t] = closeAt[t]
              \/ t = ref.slot /\ slots[t].active /\ slots[t].generation = ref.generation
                   /\ Marked(ref)[t] = [pending |-> TRUE, generation |-> ref.generation]
<1>1. closeAt \in [Slots -> Notice] /\ ref.slot \in Slots /\ ref.generation \in Generations
  BY LinkTypes DEF Refs
<1> DEFINE notice == [pending |-> TRUE, generation |-> ref.generation]
<1>2. notice \in Notice
  BY <1>1 DEF Notice
<1> HIDE DEF notice
<1>3. CASE slots[ref.slot].active /\ slots[ref.slot].generation = ref.generation
  <2>1. Marked(ref) = [closeAt EXCEPT ![ref.slot] = notice]
    BY <1>3 DEF Marked, notice
  <2> QED
    BY <1>1, <1>2, <1>3, <2>1 DEF notice
<1>4. CASE ~(slots[ref.slot].active /\ slots[ref.slot].generation = ref.generation)
  <2>1. Marked(ref) = closeAt
    BY <1>4 DEF Marked
  <2> QED
    BY <1>1, <2>1
<1> QED
  BY <1>3, <1>4

\* A link is ended: by the manager, which announces it at once, or by another task, which
\* announces it later.
LEMMA LinkEnds ==
  ASSUME LinkInv, NEW s \in Slots,
         registry' = Invalidated(Ref(s)),
         closeAt' \in {closeAt, Marked(Ref(s))},
         closers' = closers \/ (slots[s].active /\ closers' = closers \cup {Ref(s)}),
         tcpOwner' \in {tcpOwner, NoRef},
         UNCHANGED <<slots, sockets, accepts>>,
         \/ slots[s].active /\ UNCHANGED manager
         \/ Resting(manager) /\ Resting(manager')
  PROVE  LinkInv'
<1>0. /\ slots \in [Slots -> TcpSlot] /\ registry \in [Slots -> Entry]
      /\ closeAt \in [Slots -> Notice] /\ manager \in ManagerTask
      /\ accepts \in Nat /\ MaxAccepts \in Nat /\ accepts <= MaxAccepts
      /\ Ref(s) \in Refs /\ Ref(s).slot = s /\ Ref(s).generation = slots[s].generation
  BY LinkTypes
<1> DEFINE R == Invalidated(Ref(s))
<1>1. /\ R \in [Slots -> Entry]
      /\ \A t \in Slots : registry[t].generation <= R[t].generation
      /\ \A t \in Slots : t # s => R[t] = registry[t]
      /\ \A t \in Slots : /\ R[t].generation <= 2 * accepts
                          /\ R[t].open => R[t].generation < 2 * accepts
      /\ slots[s].active => slots[s].generation < R[s].generation
  BY InvalidatedFacts
<1> HIDE DEF R
<1>2. registry' = R
  BY DEF R
<1>3. closeAt' \in [Slots -> Notice]
      /\ \A t \in Slots : \/ closeAt'[t] = closeAt[t]
                          \/ /\ t = s /\ slots[s].active
                             /\ closeAt'[t] = [pending |-> TRUE, generation |-> slots[s].generation]
  BY <1>0, MarkedFacts
<1>4. manager'.fd = manager.fd /\ manager'.pc \in TaskPlaces
  BY <1>0 DEF Resting, ManagerTask
<1>5. SocketsAccounted'
  BY <1>4, AccountedStay DEF SocketsStay
<1>6. TcpTypeOK'
  BY <1>0, <1>1, <1>2, <1>3, <1>4 DEF LinkInv, TcpTypeOK, Entry, Notice, TaskPlaces
<1>7. CountInv'
  BY <1>1, <1>2 DEF LinkInv, CountInv
<1>8. DeadInv'
  <2>0. \A t \in Slots : registry[t].generation \in Nat /\ R[t].generation \in Nat
                         /\ slots[t].generation \in Nat /\ closeAt[t].generation \in Nat
    BY <1>0, <1>1 DEF Entry, Notice, TcpSlot, Generations
  <2>1. ASSUME NEW ref \in closers' PROVE ref.generation < registry'[ref.slot].generation
    <3>1. CASE ref \in closers
      <4>1. ref.slot \in Slots /\ ref.generation \in Nat
        BY <3>1 DEF LinkInv, TcpTypeOK, Refs, Generations
      <4>2. ref.generation < registry[ref.slot].generation
        BY <3>1 DEF LinkInv, DeadInv
      <4> QED
        BY <1>1, <1>2, <2>0, <4>1, <4>2
    <3>2. CASE ref \notin closers
      <4>1. slots[s].active /\ ref = Ref(s)
        BY <2>1, <3>2
      <4> QED
        BY <1>0, <1>1, <1>2, <4>1
    <3> QED
      BY <3>1, <3>2
  <2>2. ASSUME NEW t \in Slots, closeAt'[t].pending PROVE closeAt'[t].generation < registry'[t].generation
    <3>1. CASE closeAt'[t] = closeAt[t]
      <4>1. closeAt[t].generation < registry[t].generation
        BY <2>2, <3>1 DEF LinkInv, DeadInv
      <4> QED
        BY <1>1, <1>2, <2>0, <3>1, <4>1
    <3>2. CASE closeAt'[t] # closeAt[t]
      <4>1. t = s /\ slots[s].active /\ closeAt'[t].generation = slots[s].generation
        BY <1>3, <3>2
      <4> QED
        BY <1>1, <1>2, <4>1
    <3> QED
      BY <3>1, <3>2
  <2>3. ASSUME NEW t \in Slots, slots'[t].active
        PROVE  slots'[t].generation < registry'[t].generation \/ Current(Ref(t))'
    <3>1. CASE t = s
      BY <1>1, <1>2, <2>3, <3>1
    <3>2. CASE t # s
      <4>1. registry'[t] = registry[t] /\ slots'[t] = slots[t]
        BY <1>1, <1>2, <3>2
      <4>2. Current(Ref(t))' <=> Current(Ref(t))
        BY <4>1 DEF Current, Ref
      <4> QED
        BY <2>3, <4>1, <4>2 DEF LinkInv, DeadInv
    <3> QED
      BY <3>1, <3>2
  <2> QED
    BY <2>1, <2>2, <2>3 DEF DeadInv
<1>9. ManagerInv'
  <2>1. CASE Resting(manager) /\ Resting(manager')
    BY <2>1 DEF Resting, ManagerInv
  <2>2. CASE slots[s].active /\ UNCHANGED manager
    <3>1. manager.pc = "install" => registry'[manager.slot] = registry[manager.slot]
      BY <1>1, <1>2, <2>2 DEF LinkInv, ManagerInv
    <3> QED
      BY <2>2, <3>1 DEF LinkInv, ManagerInv
  <2> QED
    BY <2>1, <2>2
<1> QED
  BY <1>5, <1>6, <1>7, <1>8, <1>9 DEF LinkInv

\* The manager starts to reap, or goes on to a slot.
LEMMA NextRests ==
  ASSUME LinkInv
  PROVE  /\ manager.fd = NoFd => Resting(manager)
         /\ \A then \in {"sync", "shut", "accept", "poll"}, slot \in Nat : Reap(then, slot) => Resting(manager')
         /\ \A slot \in Nat : Poll(slot) => Resting(manager')
         /\ manager.slot \in Nat /\ NextSlot(manager.slot) \in Nat /\ 0 \in Nat
<1>0. manager \in ManagerTask /\ MaxAccepts \in Nat /\ 0 \in 0..MaxAccepts
  BY LinkTypes
<1>1. manager.slot \in Nat /\ NextSlot(manager.slot) \in Nat
  BY <1>0 DEF ManagerTask, NextSlot
<1>2. manager.fd = NoFd => Resting(manager)
  BY <1>0 DEF Resting, LinkInv, ManagerInv
<1>3. ASSUME NEW then \in {"sync", "shut", "accept", "poll"}, NEW slot \in Nat, Reap(then, slot)
      PROVE  Resting(manager')
  <2>1. manager' = [pc |-> "reap", slot |-> slot, todo |-> Slots, then |-> then, fd |-> 0, received |-> FALSE]
    BY <1>3 DEF Reap, Idle, NoFd
  <2> QED
    BY <1>0, <2>1 DEF Resting, ManagerTask, NoFd, TaskPlaces
<1>4. ASSUME NEW slot \in Nat, Poll(slot) PROVE Resting(manager')
  <2>1. manager' = [pc |-> "poll", slot |-> slot, todo |-> {}, then |-> "sync", fd |-> 0, received |-> FALSE]
    BY <1>4 DEF Poll, Idle, NoFd
  <2> QED
    BY <1>0, <2>1 DEF Resting, ManagerTask, NoFd, TaskPlaces
<1> QED
  BY <1>1, <1>2, <1>3, <1>4

\* At every place but two the manager holds no socket.
LEMMA PlaceRests ==
  ASSUME LinkInv, manager.pc \in TaskPlaces \ {"install", "close"}
  PROVE  Resting(manager)
BY NextRests DEF LinkInv, ManagerInv

\* The manager goes on and nothing else happens but what the peer's bytes may do to the session.
LEMMA GoesOn ==
  ASSUME LinkInv, Resting(manager), Resting(manager'), tcpOwner' \in Refs \cup {NoRef},
         UNCHANGED <<slots, registry, closeAt, closers, sockets, accepts>>
  PROVE  LinkInv'
<1>1. /\ slots \in [Slots -> TcpSlot] /\ closeAt \in [Slots -> Notice]
      /\ accepts \in Nat /\ MaxAccepts \in Nat /\ accepts <= MaxAccepts
  BY LinkTypes
<1>2. accepts' \in accepts..MaxAccepts
  BY <1>1
<1> QED
  BY <1>1, <1>2, QuietLinks

LEMMA RoundKeeps ==
  ASSUME LinkInv,
         \/ SyncListener \/ StopListening \/ ReapDone \/ AcceptNone
         \/ PollDone \/ PollEmpty \/ PollStale \/ ReadData \/ ReadNothing
  PROVE  LinkInv'
<1>0. manager \in ManagerTask /\ MaxAccepts \in Nat /\ 0 \in 0..MaxAccepts
  BY LinkTypes
<1>1. manager.pc \in TaskPlaces \ {"install", "close"}
  BY DEF SyncListener, StopListening, ReapDone, AcceptNone, PollDone, PollEmpty, PollStale, ReadData,
         ReadNothing, TaskPlaces
<1>2. Resting(manager)
  BY <1>1, PlaceRests
<1>3. UNCHANGED <<slots, registry, closeAt, closers, sockets, accepts>>
  BY DEF SyncListener, StopListening, ReapDone, AcceptNone, PollDone, PollEmpty, PollStale, ReadData,
         ReadNothing
<1>4. tcpOwner' \in Refs \cup {NoRef}
  <2>1. tcpOwner \in Refs \cup {NoRef}
    BY DEF LinkInv, TcpTypeOK
  <2>2. ReadData => Ref(manager.slot) \in Refs
    BY LinkTypes DEF ReadData, LinkInv, ManagerInv
  <2> QED
    BY <2>1, <2>2 DEF SyncListener, StopListening, ReapDone, AcceptNone, PollDone, PollEmpty,
       PollStale, ReadData, ReadNothing
<1>5. Resting(manager')
  <2>1. CASE SyncListener \/ AcceptNone \/ PollDone \/ PollEmpty \/ PollStale
    BY <2>1, NextRests DEF SyncListener, AcceptNone, PollDone, PollEmpty, PollStale
  <2>2. CASE StopListening
    <3>1. manager' = [pc |-> "shut", slot |-> 0, todo |-> {}, then |-> "sync", fd |-> 0, received |-> FALSE]
      BY <2>2 DEF StopListening, Idle, NoFd
    <3> QED
      BY <1>0, <3>1 DEF Resting, ManagerTask, NoFd, TaskPlaces
  <2>3. CASE ReapDone
    <3>1. manager' = [pc |-> manager.then, slot |-> manager.slot, todo |-> {}, then |-> "sync", fd |-> 0,
                      received |-> FALSE]
      BY <2>3 DEF ReapDone, Idle, NoFd
    <3>2. manager.then \in {"sync", "shut", "accept", "poll"} /\ manager.slot \in Nat
      BY <1>0 DEF ManagerTask
    <3> QED
      BY <1>0, <3>1, <3>2 DEF Resting, ManagerTask, NoFd, TaskPlaces
  <2>4. CASE ReadData \/ ReadNothing
    <3>1. manager.slot \in Slots
      BY <2>4 DEF ReadData, ReadNothing, LinkInv, ManagerInv
    <3> QED
      BY <1>0, <1>2, <2>4, <3>1 DEF ReadData, ReadNothing, Resting, ManagerTask, TaskPlaces
  <2> QED
    BY <2>1, <2>2, <2>3, <2>4
<1> QED
  BY <1>2, <1>3, <1>4, <1>5, GoesOn

\* The manager ends a link itself.
LEMMA CloseKeeps ==
  ASSUME LinkInv, NEW s \in Slots, RequestClose(s), Resting(manager), Resting(manager'),
         UNCHANGED <<slots, closers, sockets, accepts>>
  PROVE  LinkInv'
<1>1. tcpOwner' \in {tcpOwner, NoRef}
  BY DEF RequestClose
<1>2. registry' = Invalidated(Ref(s)) /\ closeAt' \in {closeAt, Marked(Ref(s))}
  BY DEF RequestClose
<1> QED
  BY <1>1, <1>2, LinkEnds

SameLinks(new, old) ==
  \A t \in Slots : /\ new[t].fd = old[t].fd /\ new[t].active = old[t].active
                  /\ new[t].generation = old[t].generation

LEMMA FlagSet ==
  ASSUME NEW old \in [Slots -> TcpSlot], NEW s \in Slots, NEW flag \in BOOLEAN
  PROVE  /\ [old EXCEPT ![s].claimed = flag] \in [Slots -> TcpSlot]
         /\ SameLinks([old EXCEPT ![s].claimed = flag], old)
         /\ [old EXCEPT ![s].armed = flag] \in [Slots -> TcpSlot]
         /\ SameLinks([old EXCEPT ![s].armed = flag], old)
<1> DEFINE claimed == [old[s] EXCEPT !.claimed = flag]
           armed == [old[s] EXCEPT !.armed = flag]
<1>1. /\ claimed \in TcpSlot
      /\ claimed.fd = old[s].fd /\ claimed.active = old[s].active
      /\ claimed.generation = old[s].generation
  BY DEF TcpSlot
<1>2. /\ armed \in TcpSlot
      /\ armed.fd = old[s].fd /\ armed.active = old[s].active
      /\ armed.generation = old[s].generation
  BY DEF TcpSlot
<1>3. /\ [old EXCEPT ![s].claimed = flag] = [old EXCEPT ![s] = claimed]
      /\ [old EXCEPT ![s].armed = flag] = [old EXCEPT ![s] = armed]
  OBVIOUS
<1> HIDE DEF claimed, armed
<1> QED
  BY <1>1, <1>2, <1>3 DEF SameLinks

\* The manager claims or times a link.
LEMMA ClaimKeeps ==
  ASSUME LinkInv, NEW s \in Slots, Resting(manager), Resting(manager'),
         slots' \in {slots, [slots EXCEPT ![s].claimed = TRUE, ![s].armed = FALSE],
                            [slots EXCEPT ![s].armed = TRUE]},
         UNCHANGED <<registry, closeAt, closers, sockets, tcpOwner, accepts>>
  PROVE  LinkInv'
<1>0. /\ slots \in [Slots -> TcpSlot] /\ closeAt \in [Slots -> Notice]
      /\ accepts \in Nat /\ MaxAccepts \in Nat /\ accepts <= MaxAccepts
  BY LinkTypes
<1>1. slots' \in [Slots -> TcpSlot] /\ SameLinks(slots', slots)
  <2>1. CASE slots' = slots
    BY <1>0, <2>1 DEF SameLinks
  <2>2. CASE slots' = [slots EXCEPT ![s].claimed = TRUE, ![s].armed = FALSE]
    <3> DEFINE claimed == [slots EXCEPT ![s].claimed = TRUE]
    <3>1. claimed \in [Slots -> TcpSlot] /\ SameLinks(claimed, slots)
      BY <1>0, FlagSet
    <3>2. slots' = [claimed EXCEPT ![s].armed = FALSE]
      BY <2>2
    <3> HIDE DEF claimed
    <3>3. slots' \in [Slots -> TcpSlot] /\ SameLinks(slots', claimed)
      BY <3>1, <3>2, FlagSet
    <3> QED
      BY <3>1, <3>3 DEF SameLinks
  <2>3. CASE slots' = [slots EXCEPT ![s].armed = TRUE]
    BY <1>0, <2>3, FlagSet
  <2> QED
    BY <2>1, <2>2, <2>3
<1>2. accepts' \in accepts..MaxAccepts /\ tcpOwner' \in Refs \cup {NoRef}
  BY <1>0 DEF LinkInv, TcpTypeOK
<1> QED
  BY <1>0, <1>1, <1>2, QuietLinks DEF SameLinks

LEMMA PollKeeps ==
  ASSUME LinkInv, ShutLinks \/ PollLink \/ ReadClosed \/ JudgeOwner \/ JudgeIdle
  PROVE  LinkInv'
<1>0. manager.pc \in TaskPlaces \ {"install", "close"}
  BY DEF ShutLinks, PollLink, ReadClosed, JudgeOwner, JudgeIdle, TaskPlaces
<1>1. Resting(manager) /\ manager \in ManagerTask
  BY <1>0, PlaceRests, LinkTypes
<1>2. CASE ShutLinks
  <2> DEFINE active == {s \in Slots : slots[s].active}
  <2>1. CASE active # {} /\ RequestClose(Lowest(active)) /\ Reap("shut", 0)
    <3>1. Lowest(active) \in Slots
      BY <2>1, LowestIn
    <3> HIDE DEF active
    <3> QED
      BY <1>1, <1>2, <2>1, <3>1, NextRests, CloseKeeps DEF ShutLinks
  <2>2. CASE Reap("accept", 0) /\ UNCHANGED <<registry, closeAt, tcpOwner>>
    BY <1>1, <1>2, <2>2, NextRests, GoesOn DEF ShutLinks, LinkInv, TcpTypeOK
  <2> QED
    BY <1>2, <2>1, <2>2 DEF ShutLinks
<1>3. ASSUME PollLink \/ ReadClosed \/ JudgeOwner \/ JudgeIdle PROVE manager.slot \in Slots
  BY <1>3 DEF PollLink, ReadClosed, JudgeOwner, JudgeIdle, LinkInv, ManagerInv
<1>4. ASSUME PollLink \/ ReadClosed \/ JudgeIdle, RequestClose(manager.slot),
             Reap("poll", NextSlot(manager.slot)), UNCHANGED slots
      PROVE  LinkInv'
  <2>1. UNCHANGED <<closers, sockets, accepts>>
    BY <1>4 DEF PollLink, ReadClosed, JudgeIdle
  <2> QED
    BY <1>1, <1>3, <1>4, <2>1, NextRests, CloseKeeps
<1>5. CASE PollLink
  <2>1. CASE manager' = [manager EXCEPT !.pc = "read"] /\ UNCHANGED <<registry, closeAt, tcpOwner>>
    <3>1. Resting(manager')
      BY <1>1, <1>3, <1>5, <2>1 DEF Resting, ManagerTask, TaskPlaces
    <3>2. manager'.pc = "read"
      BY <1>1, <2>1 DEF ManagerTask
    <3>3. Reap("poll", NextSlot(manager.slot)) => manager'.pc = "reap"
      BY DEF Reap, Idle
    <3>4. Claim(manager.slot) \/ UNCHANGED slots
      BY <1>5, <3>2, <3>3 DEF PollLink
    <3>5. UNCHANGED <<closers, sockets, accepts>>
      BY <1>5 DEF PollLink
    <3> QED
      BY <1>1, <1>3, <1>5, <2>1, <3>1, <3>4, <3>5, ClaimKeeps DEF Claim
  <2> QED
    BY <1>4, <1>5, <2>1 DEF PollLink
<1>6. CASE ReadClosed
  BY <1>4, <1>6 DEF ReadClosed
<1>7. CASE JudgeOwner
  BY <1>1, <1>3, <1>7, NextRests, ClaimKeeps DEF JudgeOwner, Claim
<1>8. CASE JudgeIdle
  <2>1. CASE /\ slots' \in {slots, [slots EXCEPT ![manager.slot].armed = TRUE]}
             /\ Poll(NextSlot(manager.slot)) /\ UNCHANGED <<registry, closeAt, tcpOwner>>
    BY <1>1, <1>3, <1>8, <2>1, NextRests, ClaimKeeps DEF JudgeIdle
  <2> QED
    BY <1>4, <1>8, <2>1 DEF JudgeIdle
<1> QED
  BY <1>2, <1>5, <1>6, <1>7, <1>8

(***************************************************************************)
(* The steps at which a socket changes hands.                              *)
(***************************************************************************)
\* A slot is emptied: its socket is in the manager's hands until close().
LEMMA ReapKeeps ==
  ASSUME LinkInv, ReapSlot
  PROVE  LinkInv'
<1> DEFINE s == Lowest(manager.todo)
           retire == closeAt[s].pending /\ slots[s].active
                       /\ slots[s].generation = closeAt[s].generation
<1>0. /\ slots \in [Slots -> TcpSlot] /\ registry \in [Slots -> Entry]
      /\ closeAt \in [Slots -> Notice] /\ manager \in ManagerTask
      /\ accepts \in Nat /\ MaxAccepts \in Nat /\ accepts <= MaxAccepts
  BY LinkTypes
<1>1. s \in Slots
  BY <1>0, LowestIn DEF ReapSlot, ManagerTask
<1>2. manager.pc = "reap" /\ manager.fd = NoFd
  BY DEF ReapSlot, LinkInv, ManagerInv
<1>3. /\ manager' = [manager EXCEPT !.todo = @ \ {s}, !.fd = IF retire THEN slots[s].fd ELSE NoFd,
                                    !.pc = IF retire THEN "close" ELSE "reap"]
      /\ slots' = IF retire THEN [slots EXCEPT ![s] = [@ EXCEPT !.fd = NoFd, !.active = FALSE,
                                                                !.generation = 0]]
                  ELSE slots
      /\ closeAt' = [closeAt EXCEPT ![s].pending = @ /\ retire]
      /\ UNCHANGED <<registry, closers, sockets, tcpOwner, accepts>>
  BY DEF ReapSlot
<1> HIDE DEF s
<1>4. CASE ~retire
  <2>1. slots' = slots /\ manager' = [manager EXCEPT !.todo = @ \ {s}, !.fd = NoFd, !.pc = "reap"]
    BY <1>3, <1>4
  <2>2. closeAt' = [closeAt EXCEPT ![s].pending = FALSE]
    BY <1>3, <1>4, Zenon
  <2>3. Resting(manager) /\ Resting(manager')
    BY <1>0, <1>2, <2>1 DEF Resting, ManagerTask, TaskPlaces, NoFd
  <2>4. closeAt' \in [Slots -> Notice] /\ \A t \in Slots : closeAt'[t].pending => closeAt'[t] = closeAt[t]
    BY <1>0, <1>1, <2>2 DEF Notice
  <2>5. accepts' \in accepts..MaxAccepts /\ tcpOwner' \in Refs \cup {NoRef}
    BY <1>0, <1>3 DEF LinkInv, TcpTypeOK
  <2> QED
    BY <1>0, <1>3, <2>1, <2>3, <2>4, <2>5, QuietLinks
<1>5. CASE retire
  <2> DEFINE empty == [slots[s] EXCEPT !.fd = NoFd, !.active = FALSE, !.generation = 0]
  <2>1. slots' = [slots EXCEPT ![s] = empty] /\ closeAt' = closeAt
    <3>1. slots' = [slots EXCEPT ![s] = empty]
      BY <1>3, <1>5
    <3>2. closeAt[s].pending = TRUE
      BY <1>0, <1>1, <1>5 DEF Notice
    <3>3. closeAt' = [closeAt EXCEPT ![s].pending = TRUE]
      BY <1>3, <1>5, <3>2, Zenon
    <3>4. closeAt' = closeAt
      BY <1>0, <1>1, <3>2, <3>3 DEF Notice
    <3> QED
      BY <3>1, <3>4
  <2>2. empty \in TcpSlot /\ empty.fd = NoFd /\ ~empty.active /\ empty.generation = 0
    <3>1. 0 \in Generations /\ NoFd \in 0..MaxAccepts
      BY <1>0 DEF Generations, NoFd
    <3>2. slots[s] \in TcpSlot
      BY <1>0, <1>1
    <3>3. empty.fd = NoFd /\ empty.active = FALSE /\ empty.generation = 0
      BY <3>2 DEF TcpSlot
    <3>4. empty \in TcpSlot
      BY <3>1, <3>2 DEF TcpSlot
    <3> QED
      BY <3>3, <3>4
  <2> HIDE DEF empty
  <2>3. manager' = [manager EXCEPT !.todo = @ \ {s}, !.fd = slots[s].fd, !.pc = "close"]
    BY <1>3, <1>5
  <2>4. slots[s].fd \in 0..MaxAccepts /\ slots[s].fd # NoFd
    BY <1>0, <1>1, <1>5 DEF TcpSlot, LinkInv, SocketsAccounted
  <2>5. manager' \in ManagerTask /\ manager'.pc = "close" /\ manager'.fd = slots[s].fd
    BY <1>0, <2>3, <2>4 DEF ManagerTask, TaskPlaces
  <2>6. slots' \in [Slots -> TcpSlot] /\ slots'[s] = empty /\ \A t \in Slots : t # s => slots'[t] = slots[t]
    BY <1>0, <1>1, <2>1, <2>2
  <2>7. TcpTypeOK'
    BY <1>0, <1>3, <2>1, <2>5, <2>6 DEF LinkInv, TcpTypeOK, TcpSlot
  <2>8. CountInv'
    BY <1>3 DEF LinkInv, CountInv
  <2>9. DeadInv'
    <3>1. \A t \in Slots : slots'[t].active => (Current(Ref(t))' <=> Current(Ref(t))) /\ slots'[t] = slots[t]
      BY <1>3, <2>2, <2>6 DEF Current, Ref
    <3> QED
      BY <1>3, <2>1, <3>1 DEF LinkInv, DeadInv
  <2>10. ManagerInv'
    <3>1. \A t \in Slots : slots'[t].fd # manager'.fd
      BY <1>1, <2>2, <2>4, <2>5, <2>6 DEF LinkInv, SocketsAccounted
    <3> QED
      BY <2>4, <2>5, <3>1 DEF ManagerInv
  <2>11. SocketsAccounted'
    <3>1. {slots'[t].fd : t \in Slots} \cup {manager'.fd} = {slots[t].fd : t \in Slots} \cup {NoFd}
      BY <1>1, <2>2, <2>5, <2>6
    <3>2. sockets' = ({slots'[t].fd : t \in Slots} \cup {manager'.fd}) \ {NoFd}
      BY <1>2, <1>3, <3>1 DEF LinkInv, SocketsAccounted
    <3>3. \A t, u \in Slots : t # u /\ slots'[t].fd # NoFd => slots'[t].fd # slots'[u].fd
      BY <2>2, <2>6 DEF LinkInv, SocketsAccounted
    <3>4. \A t \in Slots : slots'[t].active <=> slots'[t].fd # NoFd
      BY <2>2, <2>6 DEF LinkInv, SocketsAccounted
    <3> QED
      BY <3>2, <3>3, <3>4 DEF SocketsAccounted
  <2> QED
    BY <2>7, <2>8, <2>9, <2>10, <2>11 DEF LinkInv
<1> QED
  BY <1>4, <1>5

LEMMA CloseSocketKeeps ==
  ASSUME LinkInv, CloseSocket
  PROVE  LinkInv'
<1> DEFINE reaped == Slots \ manager.todo
           s == CHOOSE t \in reaped : \A u \in reaped : u <= t
<1>0. /\ closeAt \in [Slots -> Notice] /\ manager \in ManagerTask /\ MaxAccepts \in Nat
  BY LinkTypes
<1>1. /\ manager.pc = "close" /\ sockets' = sockets \ {manager.fd}
      /\ closeAt' = [closeAt EXCEPT ![s].pending = FALSE]
      /\ manager' = [manager EXCEPT !.pc = "reap", !.fd = NoFd]
      /\ UNCHANGED <<slots, registry, closers, tcpOwner, accepts>>
  BY DEF CloseSocket
<1> HIDE DEF s
<1>2. closeAt' \in [Slots -> Notice] /\ \A t \in Slots : closeAt'[t].pending => closeAt'[t] = closeAt[t]
  BY <1>0, <1>1 DEF Notice
<1>3. Resting(manager')
  <2>1. NoFd \in 0..MaxAccepts /\ "reap" \in TaskPlaces
    BY <1>0 DEF NoFd, TaskPlaces
  <2>2. manager'.pc = "reap" /\ manager'.fd = NoFd
    BY <1>0, <1>1 DEF ManagerTask
  <2>3. manager' \in ManagerTask
    BY <1>0, <1>1, <2>1 DEF ManagerTask
  <2> QED
    BY <2>2, <2>3 DEF Resting
<1>4. TcpTypeOK'
  BY <1>1, <1>2, <1>3 DEF LinkInv, TcpTypeOK, Resting, ManagerTask, TaskPlaces, Notice
<1>5. CountInv'
  BY <1>1 DEF LinkInv, CountInv
<1>6. DeadInv'
  <2>1. \A t \in Slots : Current(Ref(t))' <=> Current(Ref(t))
    BY <1>1 DEF Current, Ref
  <2> QED
    BY <1>1, <1>2, <2>1 DEF LinkInv, DeadInv
<1>7. ManagerInv'
  BY <1>3 DEF Resting, ManagerInv
<1>8. SocketsAccounted'
  <2>1. manager.fd # NoFd /\ \A t \in Slots : slots[t].fd # manager.fd
    BY <1>1 DEF LinkInv, ManagerInv
  <2>2. sockets' = ({slots'[t].fd : t \in Slots} \cup {manager'.fd}) \ {NoFd}
    BY <1>1, <1>3, <2>1 DEF LinkInv, SocketsAccounted, Resting
  <2> QED
    BY <1>1, <2>2 DEF LinkInv, SocketsAccounted
<1> QED
  BY <1>4, <1>5, <1>6, <1>7, <1>8 DEF LinkInv

LEMMA AcceptKeeps ==
  ASSUME LinkInv, Accept
  PROVE  LinkInv'
<1> DEFINE free == {t \in Slots : ~slots[t].active}
           s == Lowest(free)
<1>0. /\ slots \in [Slots -> TcpSlot] /\ registry \in [Slots -> Entry]
      /\ closeAt \in [Slots -> Notice] /\ manager \in ManagerTask
      /\ accepts \in Nat /\ MaxAccepts \in Nat /\ accepts + 1 <= MaxAccepts
  BY LinkTypes DEF Accept
<1>1. manager.fd = NoFd /\ Resting(manager)
  BY PlaceRests DEF Accept, TaskPlaces, LinkInv, ManagerInv
<1>2. accepts' = accepts + 1 /\ UNCHANGED <<slots, closeAt, closers, listening, tcpOwner>>
  BY DEF Accept
<1>3. CASE Poll(0) /\ UNCHANGED <<registry, sockets>>
  <2>1. accepts' \in accepts..MaxAccepts /\ tcpOwner' \in Refs \cup {NoRef}
    BY <1>0, <1>2 DEF LinkInv, TcpTypeOK
  <2>2. Resting(manager')
    BY <1>3, NextRests
  <2> QED
    BY <1>0, <1>1, <1>2, <1>3, <2>1, <2>2, QuietLinks
<1>4. CASE /\ free # {} /\ ~registry[s].open
           /\ sockets' = sockets \cup {accepts + 1}
           /\ registry' = [registry EXCEPT ![s] = [open |-> TRUE, generation |-> @.generation + 1]]
           /\ manager' = [Idle EXCEPT !.pc = "install", !.slot = s, !.fd = accepts + 1]
  <2>1. s \in free
    BY <1>4, LowestIn
  <2> HIDE DEF s
  <2>2. s \in Slots /\ ~slots[s].active
    BY <2>1
  <2> HIDE DEF free
  <2> DEFINE opened == [open |-> TRUE, generation |-> registry[s].generation + 1]
  <2>3. \A t \in Slots : registry[t].generation \in Nat /\ registry[t].generation <= 2 * accepts
    BY <1>0 DEF Entry, Generations, LinkInv, CountInv
  <2>4. opened \in Entry /\ opened.open /\ opened.generation = registry[s].generation + 1
    <3>1. registry[s].generation + 1 \in Generations
      BY <1>0, <2>2, <2>3 DEF Generations
    <3> QED
      BY <3>1 DEF Entry
  <2>5. registry' = [registry EXCEPT ![s] = opened]
    BY <1>4
  <2> HIDE DEF opened
  <2>6. registry' \in [Slots -> Entry] /\ registry'[s] = opened
        /\ \A t \in Slots : t # s => registry'[t] = registry[t]
    BY <1>0, <2>2, <2>4, <2>5
  <2>7. manager' = [pc |-> "install", slot |-> s, todo |-> {}, then |-> "sync", fd |-> accepts + 1,
                    received |-> FALSE]
    BY <1>4 DEF Idle
  <2>8. /\ manager' \in ManagerTask /\ manager'.pc = "install" /\ manager'.slot = s
        /\ manager'.fd = accepts + 1
    <3>1. s \in Nat /\ accepts + 1 \in 0..MaxAccepts
      BY <1>0, <2>2, TcpAssumption
    <3> QED
      BY <2>7, <3>1 DEF ManagerTask, TaskPlaces
  <2>9. accepts + 1 # NoFd /\ \A t \in Slots : slots[t].fd # accepts + 1
    <3>1. sockets \subseteq 1..accepts
      BY DEF LinkInv, CountInv
    <3>2. \A t \in Slots : slots[t].fd = NoFd \/ slots[t].fd \in sockets
      BY DEF LinkInv, SocketsAccounted
    <3> QED
      BY <1>0, <3>1, <3>2 DEF NoFd
  <2>10. CountInv'
    <3>1. accepts' \in 0..MaxAccepts /\ sockets' \subseteq 1..accepts'
      BY <1>0, <1>2, <1>4 DEF LinkInv, CountInv
    <3>2. ASSUME NEW t \in Slots
          PROVE  /\ registry'[t].generation <= 2 * accepts'
                 /\ registry'[t].open => registry'[t].generation < 2 * accepts'
      BY <1>0, <1>2, <2>3, <2>4, <2>6
    <3> QED
      BY <3>1, <3>2 DEF CountInv
  <2>11. TcpTypeOK'
    <3>1. sockets' \subseteq 1..MaxAccepts
      BY <1>0, <1>2, <2>10 DEF CountInv
    <3> QED
      BY <1>2, <2>6, <2>8, <3>1 DEF LinkInv, TcpTypeOK, Entry
  <2>12. DeadInv'
    <3>1. \A t \in Slots : registry[t].generation <= registry'[t].generation
      BY <2>2, <2>3, <2>4, <2>6
    <3>2. \A t \in Slots : /\ registry[t].generation \in Nat /\ registry'[t].generation \in Nat
                           /\ closeAt[t].generation \in Nat
      BY <1>0, <2>6 DEF Entry, Notice, Generations
    <3>3. ASSUME NEW ref \in closers PROVE ref.generation < registry'[ref.slot].generation
      <4>1. ref.slot \in Slots /\ ref.generation \in Nat
        BY DEF LinkInv, TcpTypeOK, Refs, Generations
      <4>2. ref.generation < registry[ref.slot].generation
        BY DEF LinkInv, DeadInv
      <4> QED
        BY <3>1, <3>2, <4>1, <4>2
    <3>4. \A t \in Slots : closeAt[t].pending => closeAt[t].generation < registry'[t].generation
      BY <3>1, <3>2 DEF LinkInv, DeadInv
    <3>5. \A t \in Slots : slots[t].active => (Current(Ref(t))' <=> Current(Ref(t))) /\ registry'[t] = registry[t]
      BY <1>2, <2>2, <2>6 DEF Current, Ref
    <3> QED
      BY <1>2, <3>3, <3>4, <3>5 DEF LinkInv, DeadInv
  <2>13. ManagerInv'
    BY <1>2, <2>2, <2>4, <2>6, <2>8, <2>9 DEF ManagerInv
  <2>14. SocketsAccounted'
    BY <1>1, <1>2, <1>4, <2>8, <2>9 DEF LinkInv, SocketsAccounted
  <2> QED
    BY <2>10, <2>11, <2>12, <2>13, <2>14 DEF LinkInv
<1> QED
  BY <1>3, <1>4 DEF Accept

LEMMA InstallKeeps ==
  ASSUME LinkInv, Install
  PROVE  LinkInv'
<1>1. PICK s \in Slots : s = manager.slot
  BY DEF Install, LinkInv, ManagerInv
<1> DEFINE fresh == [fd |-> manager.fd, active |-> TRUE, claimed |-> FALSE, armed |-> FALSE,
                   generation |-> registry[s].generation]
<1>0. /\ slots \in [Slots -> TcpSlot] /\ registry \in [Slots -> Entry] /\ manager \in ManagerTask
  BY LinkTypes
<1>2. /\ s \in Slots /\ manager.fd # NoFd /\ ~slots[s].active /\ registry[s].open
      /\ \A t \in Slots : slots[t].fd # manager.fd
  BY <1>1 DEF Install, LinkInv, ManagerInv
<1>3. slots[s].fd = NoFd
  BY <1>2 DEF LinkInv, SocketsAccounted
<1>4. /\ slots' = [slots EXCEPT ![s] = fresh] /\ Resting(manager')
      /\ UNCHANGED <<registry, closeAt, closers, sockets, tcpOwner, accepts>>
  BY <1>1, NextRests DEF Install
<1>5. /\ fresh \in TcpSlot /\ fresh.active /\ fresh.fd = manager.fd
      /\ fresh.generation = registry[s].generation
  BY <1>0, <1>2 DEF TcpSlot, Entry, ManagerTask
<1> HIDE DEF fresh
<1>6. /\ slots' \in [Slots -> TcpSlot] /\ slots'[s] = fresh
      /\ \A t \in Slots : t # s => slots'[t] = slots[t]
  BY <1>0, <1>2, <1>4, <1>5
<1>7. TcpTypeOK'
  BY <1>4, <1>6 DEF LinkInv, TcpTypeOK, TcpSlot, Resting, ManagerTask, TaskPlaces
<1>8. CountInv'
  BY <1>4 DEF LinkInv, CountInv
<1>9. DeadInv'
  <2>1. Current(Ref(s))'
    BY <1>2, <1>4, <1>5, <1>6 DEF Current, Ref
  <2>2. \A t \in Slots : t # s => (Current(Ref(t))' <=> Current(Ref(t)))
    BY <1>4, <1>6 DEF Current, Ref
  <2> QED
    BY <1>4, <1>6, <2>1, <2>2 DEF LinkInv, DeadInv
<1>10. ManagerInv'
  BY <1>4 DEF Resting, ManagerInv
<1>11. SocketsAccounted'
  <2>1. manager'.fd = NoFd
    BY <1>4 DEF Resting
  <2>2. {slots'[t].fd : t \in Slots} \cup {NoFd} = {slots[t].fd : t \in Slots} \cup {manager.fd, NoFd}
    BY <1>2, <1>3, <1>5, <1>6
  <2>3. sockets' = ({slots'[t].fd : t \in Slots} \cup {manager'.fd}) \ {NoFd}
    BY <1>4, <2>1, <2>2 DEF LinkInv, SocketsAccounted
  <2>4. \A t, u \in Slots : t # u /\ slots'[t].fd # NoFd => slots'[t].fd # slots'[u].fd
    BY <1>2, <1>5, <1>6 DEF LinkInv, SocketsAccounted
  <2>5. \A t \in Slots : slots'[t].active <=> slots'[t].fd # NoFd
    BY <1>2, <1>5, <1>6 DEF LinkInv, SocketsAccounted
  <2> QED
    BY <2>3, <2>4, <2>5 DEF SocketsAccounted
<1> QED
  BY <1>7, <1>8, <1>9, <1>10, <1>11 DEF LinkInv

\* The other tasks.
LEMMA CloserKeeps ==
  ASSUME LinkInv, CloserMarks \/ OwnerLeaves \/ \E s \in Slots : CloserInvalidates(s)
  PROVE  LinkInv'
<1>0. /\ slots \in [Slots -> TcpSlot] /\ closeAt \in [Slots -> Notice]
      /\ accepts \in Nat /\ MaxAccepts \in Nat /\ accepts <= MaxAccepts
  BY LinkTypes
<1>1. CASE CloserMarks
  <2>1. PICK ref \in closers : /\ closers' = closers \ {ref} /\ closeAt' = Marked(ref)
                               /\ UNCHANGED <<slots, registry, manager, sockets, listening, tcpOwner, accepts>>
    BY <1>1 DEF CloserMarks
  <2>2. ref \in Refs /\ ref.generation < registry[ref.slot].generation
    BY DEF LinkInv, TcpTypeOK, DeadInv
  <2>3. closeAt' \in [Slots -> Notice]
        /\ \A t \in Slots : closeAt'[t].pending => closeAt'[t].generation < registry[t].generation
    <3>1. Marked(ref) \in [Slots -> Notice]
      BY <2>2, MarkedFacts
    <3>2. ASSUME NEW t \in Slots, closeAt'[t].pending PROVE closeAt'[t].generation < registry[t].generation
      <4>1. CASE closeAt'[t] = closeAt[t]
        BY <3>2, <4>1 DEF LinkInv, DeadInv
      <4>2. CASE t = ref.slot /\ closeAt'[t] = [pending |-> TRUE, generation |-> ref.generation]
        BY <2>2, <4>2
      <4> QED
        BY <2>1, <2>2, <4>1, <4>2, MarkedFacts
    <3> QED
      BY <2>1, <3>1, <3>2
  <2>4. TcpTypeOK'
    BY <2>1, <2>3 DEF LinkInv, TcpTypeOK, Notice
  <2>5. DeadInv'
    <3>1. \A t \in Slots : Current(Ref(t))' <=> Current(Ref(t))
      BY <2>1 DEF Current, Ref
    <3> QED
      BY <2>1, <2>3, <3>1 DEF LinkInv, DeadInv
  <2> QED
    BY <2>1, <2>4, <2>5 DEF LinkInv, CountInv, ManagerInv, SocketsAccounted
<1>2. CASE OwnerLeaves
  <2>1. accepts' \in accepts..MaxAccepts /\ tcpOwner' \in Refs \cup {NoRef}
    BY <1>0, <1>2 DEF OwnerLeaves
  <2> QED
    BY <1>0, <1>2, <2>1, QuietLinks DEF OwnerLeaves
<1>3. ASSUME NEW s \in Slots, CloserInvalidates(s) PROVE LinkInv'
  BY <1>3, LinkEnds DEF CloserInvalidates
<1> QED
  BY <1>1, <1>2, <1>3

LEMMA LinksInitially == TcpInit => LinkInv
<1> SUFFICES ASSUME TcpInit PROVE LinkInv
  OBVIOUS
<1>1. MaxAccepts \in Nat /\ 0 \in Generations /\ 0 \in 0..MaxAccepts
  BY TcpAssumption DEF Generations
<1>2. TcpTypeOK
  BY <1>1 DEF TcpInit, TcpTypeOK, EmptySlot, Idle, NoFd, NoRef
<1>3. ManagerInv
  BY <1>1 DEF TcpInit, ManagerInv, ManagerTask, TaskPlaces, Idle, NoFd
<1>4. CountInv /\ DeadInv
  BY <1>1 DEF TcpInit, CountInv, DeadInv, EmptySlot
<1>5. SocketsAccounted
  BY DEF TcpInit, SocketsAccounted, EmptySlot, Idle, NoFd
<1> QED
  BY <1>2, <1>3, <1>4, <1>5 DEF LinkInv

LEMMA LinksStay == LinkInv /\ [TcpNext]_tcpVars => LinkInv'
<1> SUFFICES ASSUME LinkInv, [TcpNext]_tcpVars PROVE LinkInv'
  OBVIOUS
<1>1. CASE TcpNext
  BY <1>1, RoundKeeps, PollKeeps, ReapKeeps, CloseSocketKeeps, AcceptKeeps, InstallKeeps, CloserKeeps
     DEF TcpNext, Manage
<1>2. CASE UNCHANGED tcpVars
  BY <1>2 DEF tcpVars, LinkInv, TcpTypeOK, ManagerInv, CountInv, DeadInv, SocketsAccounted, Current, Ref
<1> QED
  BY <1>1, <1>2

LEMMA LinksAlways == TcpSpec => []LinkInv
BY LinksInitially, LinksStay, PTL DEF TcpSpec

\* No socket is lost and none is shared, for any number of slots and connections: each one that
\* is open is in exactly one slot or in the manager's hands (ev_tcp_accept_one,
\* ev_tcp_close_pending_links).
THEOREM SocketsCorrect == TcpSpec => [](TcpTypeOK /\ SocketsAccounted)
<1>1. LinkInv => TcpTypeOK /\ SocketsAccounted
  BY DEF LinkInv
<1> QED
  BY <1>1, LinksAlways, PTL

\* A connection leaves its slot only after its own generation was invalidated, for any number
\* of slots and connections: a late notice for an earlier connection in the slot, or one that
\* is left between another task's two steps, never closes it (ev_tcp_mark_close_pending,
\* ev_tcp_close_pending_links).
THEOREM CloseCorrect == TcpSpec => OnlyItsOwnClose
<1> DEFINE Own == \A s \in Slots : slots[s].active /\ Ref(s)' # Ref(s) => ~Current(Ref(s))
<1>1. LinkInv /\ [TcpNext]_tcpVars => [Own]_tcpVars
  <2> SUFFICES ASSUME LinkInv, TcpNext, NEW s \in Slots, slots[s].active, Ref(s)' # Ref(s)
               PROVE  ~Current(Ref(s))
    BY DEF Own
  <2>0. slots \in [Slots -> TcpSlot] /\ registry \in [Slots -> Entry] /\ closeAt \in [Slots -> Notice]
        /\ Ref(s).slot = s /\ Ref(s).generation = slots[s].generation
    BY LinkTypes
  <2>1. slots'[s].generation # slots[s].generation
    BY DEF Ref
  <2>2. ~UNCHANGED slots
    BY <2>1
  <2>3. CASE ReapSlot
    <3>1. s = Lowest(manager.todo) /\ closeAt[s].pending /\ slots[s].generation = closeAt[s].generation
      BY <2>0, <2>1, <2>3 DEF ReapSlot
    <3>2. closeAt[s].generation < registry[s].generation
      BY <3>1 DEF LinkInv, DeadInv
    <3>3. slots[s].generation \in Nat /\ registry[s].generation \in Nat
      BY <2>0 DEF TcpSlot, Entry, Generations
    <3> QED
      BY <2>0, <3>1, <3>2, <3>3 DEF Current
  <2>4. ~Install
    BY <2>0, <2>1 DEF Install, LinkInv, ManagerInv
  <2>5. ~PollLink /\ ~JudgeOwner /\ ~JudgeIdle
    <3>1. PollLink \/ JudgeOwner \/ JudgeIdle => manager.slot \in Slots
      BY DEF PollLink, JudgeOwner, JudgeIdle, LinkInv, ManagerInv
    <3>2. ~SameLinks(slots', slots)
      BY <2>1 DEF SameLinks
    <3>3. ASSUME NEW t \in Slots PROVE ~Claim(t) /\ slots' # [slots EXCEPT ![t].armed = TRUE]
      <4> DEFINE claimed == [slots EXCEPT ![t].claimed = TRUE]
      <4>1. SameLinks([slots EXCEPT ![t].armed = TRUE], slots)
        BY <2>0, FlagSet
      <4>2. claimed \in [Slots -> TcpSlot] /\ SameLinks(claimed, slots)
        BY <2>0, FlagSet
      <4>3. Claim(t) => slots' = [claimed EXCEPT ![t].armed = FALSE]
        BY DEF Claim
      <4> HIDE DEF claimed
      <4>4. SameLinks([claimed EXCEPT ![t].armed = FALSE], claimed)
        BY <4>2, FlagSet
      <4>5. Claim(t) => SameLinks(slots', claimed)
        BY <4>3, <4>4, Zenon
      <4>6. Claim(t) => SameLinks(slots', slots)
        BY <4>2, <4>5 DEF SameLinks
      <4> QED
        BY <3>2, <4>1, <4>6, Zenon
    <3> QED
      BY <2>2, <3>1, <3>3 DEF PollLink, JudgeOwner, JudgeIdle
  <2>6. ASSUME Manage PROVE ReapSlot
    BY <2>2, <2>4, <2>5, <2>6 DEF Manage, SyncListener, StopListening, ShutLinks, CloseSocket, ReapDone,
       AcceptNone, Accept, PollDone, PollEmpty, PollStale, ReadData, ReadNothing, ReadClosed
  <2>7. Manage
    BY <2>2 DEF TcpNext, CloserMarks, OwnerLeaves, CloserInvalidates
  <2> QED
    BY <2>3, <2>6, <2>7
<1> QED
  BY <1>1, LinksAlways, PTL DEF TcpSpec, OnlyItsOwnClose, Own

(***************************************************************************)
(* The change of the UART's speed.                                         *)
(***************************************************************************)

\* The poll has read the session and works without the lock: only the end of the
\* session can overtake it, and a negotiation that is to be switched waits for it.
PollAgrees ==
  /\ baudPoll.pc # "idle" => baud.phase # "idle"
  /\ baudPoll.pc = "check" => uartOwner \in {0, baudPoll.owner}
  /\ baudPoll.pc = "set" /\ ~baudPoll.restore =>
       /\ baud.phase = "wait_switch"
       /\ uartOwner \in {0, baud.session}

\* A negotiation is about a speed.
RequestKnown == baud.phase # "idle" => baud.requested \in Bauds

BaudInv == BaudTypeOK /\ PollAgrees /\ RequestKnown /\ KnownSpeed

(***************************************************************************)
(* Types.                                                                  *)
(***************************************************************************)
\* The answer to a request is a frame, and the phase that follows is a phase.
LEMMA AnsweredType ==
  ASSUME BaudTypeOK, NEW kind \in {"prepare", "probe", "commit"}, NEW next \in BaudRecord,
         Answered(kind, next)
  PROVE  baud' \in BaudRecord /\ answers' \in Seq(Frame) /\ Len(answers') <= MaxAnswers
<1>1. Answer(kind, next.token, uartOwner) \in Frame
  BY DEF BaudTypeOK, Answer, Frame, BaudRecord
<1>2. [next EXCEPT !.phase = "restore"] \in BaudRecord
  BY DEF BaudRecord, Phase
<1>3. CASE /\ Len(answers) < MaxAnswers
           /\ answers' = Append(answers, Answer(kind, next.token, uartOwner))
           /\ baud' = next
  BY <1>1, <1>3, BoundsAssumption DEF BaudTypeOK
<1>4. CASE /\ answers' = answers
           /\ baud' = IF kind = "probe" THEN next ELSE [next EXCEPT !.phase = "restore"]
  BY <1>2, <1>4 DEF BaudTypeOK
<1> QED
  BY <1>3, <1>4 DEF Answered

\* What a completion leaves of the negotiation.
LEMMA CompletedType ==
  ASSUME BaudTypeOK, NEW frame \in Frame, NEW success \in BOOLEAN, Completed(frame, success)
  PROVE  /\ baud' \in BaudRecord /\ since' \in {Fresh, Due, Over}
         /\ baudPoll' \in PollRecord /\ paused' \in BOOLEAN
<1>1. CASE PrepareComplete(frame.token, success)
  BY <1>1 DEF PrepareComplete, BaudTypeOK, BaudRecord, PollRecord, Phase
<1>2. CASE CommitComplete(frame.token, success)
  BY <1>2 DEF CommitComplete, BaudTypeOK, BaudRecord, PollRecord, Phase
<1>3. CASE UNCHANGED <<baud, since, baudPoll, paused>>
  BY <1>3 DEF BaudTypeOK
<1> QED
  BY <1>1, <1>2, <1>3 DEF Completed

\* Requests of the owner keep the types.
LEMMA RequestType ==
  ASSUME BaudTypeOK,
         \/ UartHello
         \/ \E rate \in Bauds : Prepare(rate)
         \/ \E token \in 1..MaxAttempts : Probe(token) \/ CommitSpeed(token)
  PROVE  BaudTypeOK'
<1>1. CASE UartHello
  BY <1>1, BoundsAssumption DEF UartHello, BaudTypeOK, txVars
<1>2. ASSUME NEW rate \in Bauds, Prepare(rate) PROVE BaudTypeOK'
  <2> DEFINE next == [phase |-> "prepare_ack", requested |-> rate, token |-> attempts + 1,
                      probed |-> FALSE, session |-> uartOwner]
  <2>1. next \in BaudRecord
    BY <1>2, BoundsAssumption DEF Prepare, BaudTypeOK, BaudRecord, Phase
  <2>2. attempts' \in 0..MaxAttempts /\ since' \in {Fresh, Due, Over} /\ paused' \in BOOLEAN
    BY <1>2, BoundsAssumption DEF Prepare, BaudTypeOK
  <2>3. Answered("prepare", next)
    BY <1>2 DEF Prepare
  <2> HIDE DEF next
  <2>4. baud' \in BaudRecord /\ answers' \in Seq(Frame) /\ Len(answers') <= MaxAnswers
    BY <2>1, <2>3, AnsweredType
  <2> QED
    BY <1>2, <2>2, <2>4 DEF Prepare, BaudTypeOK, sessionVars
<1>3. ASSUME NEW token \in 1..MaxAttempts, Probe(token) PROVE BaudTypeOK'
  <2>1. [baud EXCEPT !.probed = TRUE] \in BaudRecord
    BY DEF BaudTypeOK, BaudRecord
  <2>2. baud' \in BaudRecord /\ answers' \in Seq(Frame) /\ Len(answers') <= MaxAnswers
    BY <1>3, <2>1, AnsweredType DEF Probe
  <2> QED
    BY <1>3, <2>2 DEF Probe, BaudTypeOK, sessionVars
<1>4. ASSUME NEW token \in 1..MaxAttempts, CommitSpeed(token) PROVE BaudTypeOK'
  <2> DEFINE next == IF baud.phase = "active" THEN baud ELSE [baud EXCEPT !.phase = "commit_ack"]
  <2>1. next \in BaudRecord
    BY DEF BaudTypeOK, BaudRecord, Phase
  <2>2. Answered("commit", next)
    BY <1>4 DEF CommitSpeed
  <2> HIDE DEF next
  <2>3. baud' \in BaudRecord /\ answers' \in Seq(Frame) /\ Len(answers') <= MaxAnswers
    BY <2>1, <2>2, AnsweredType
  <2> QED
    BY <1>4, <2>3 DEF CommitSpeed, BaudTypeOK, sessionVars
<1> QED
  BY <1>1, <1>2, <1>3, <1>4

\* The worker's steps keep the types.
LEMMA WorkerType ==
  ASSUME BaudTypeOK,
         StartAnswer \/ StartOther \/ FinishFrame \/ DropFrame \/ DropAnswer \/ Drain
  PROVE  BaudTypeOK'
<1>1. NoFrame \in Frame
  BY BoundsAssumption DEF NoFrame, Frame
<1>2. answers # <<>> => /\ Head(answers) \in Frame /\ Tail(answers) \in Seq(Frame)
                        /\ Len(Tail(answers)) <= MaxAnswers
  BY BoundsAssumption DEF BaudTypeOK
<1>3. CASE StartAnswer
  BY <1>2, <1>3 DEF StartAnswer, BaudTypeOK, sessionVars
<1>4. CASE StartOther
  <2>1. Answer("other", 0, uartOwner) \in Frame
    BY BoundsAssumption DEF Answer, Frame, BaudTypeOK
  <2> QED
    BY <1>4, <2>1 DEF StartOther, BaudTypeOK, sessionVars
<1>5. CASE FinishFrame
  <2>1. /\ baud' \in BaudRecord /\ since' \in {Fresh, Due, Over}
        /\ baudPoll' \in PollRecord /\ paused' \in BOOLEAN
    BY <1>5, CompletedType DEF FinishFrame, BaudTypeOK
  <2> QED
    BY <1>1, <1>5, <2>1 DEF FinishFrame, BaudTypeOK, sessionVars
<1>6. CASE DropFrame
  <2>1. /\ baud' \in BaudRecord /\ since' \in {Fresh, Due, Over}
        /\ baudPoll' \in PollRecord /\ paused' \in BOOLEAN
    BY <1>6, CompletedType DEF DropFrame, BaudTypeOK
  <2> QED
    BY <1>1, <1>6, <2>1 DEF DropFrame, BaudTypeOK, sessionVars
<1>7. CASE DropAnswer
  <2>1. /\ baud' \in BaudRecord /\ since' \in {Fresh, Due, Over}
        /\ baudPoll' \in PollRecord /\ paused' \in BOOLEAN
    BY <1>2, <1>7, CompletedType DEF DropAnswer
  <2> QED
    BY <1>2, <1>7, <2>1 DEF DropAnswer, BaudTypeOK, sessionVars
<1>8. CASE Drain
  BY <1>8 DEF Drain, BaudTypeOK, sessionVars
<1> QED
  BY <1>3, <1>4, <1>5, <1>6, <1>7, <1>8

\* So do the poll, the clock and the end of the session.
LEMMA PollType ==
  ASSUME BaudTypeOK, PollAgrees, RequestKnown,
         \/ PollRead \/ PollCheck \/ PollSetDone \/ PollSetBusy \/ PollSetFails
         \/ BaudTime \/ UartSessionEnds
  PROVE  BaudTypeOK'
<1>1. PollIdle \in PollRecord /\ NoBaud \in BaudRecord
  BY BoundsAssumption DEF PollIdle, PollRecord, NoBaud, BaudRecord, Phase
<1>2. Released \in 0..MaxBaudSessions
  BY BoundsAssumption DEF Released, BaudTypeOK
<1>3. CASE PollRead
  <2>1. baudPoll' \in PollRecord
    BY <1>3 DEF PollRead, PollIdle, PollRecord, BaudTypeOK
  <2> QED
    BY <1>3, <2>1 DEF PollRead, BaudTypeOK, txVars, sessionVars
<1>4. CASE PollCheck
  <2>1. baud' \in BaudRecord
    BY <1>4 DEF PollCheck, BaudRecord, Phase, BaudTypeOK
  <2>2. ASSUME NEW restore \in BOOLEAN, NEW same \in BOOLEAN
        PROVE  [PollIdle EXCEPT !.pc = "set", !.restore = restore, !.same = same] \in PollRecord
    BY <1>1 DEF PollRecord
  <2>3. baudPoll' \in PollRecord
    BY <1>1, <1>4, <2>2 DEF PollCheck
  <2>4. paused' \in BOOLEAN
    BY <1>4 DEF PollCheck
  <2> QED
    BY <1>4, <2>1, <2>3, <2>4 DEF PollCheck, BaudTypeOK, txVars, sessionVars
<1>5. CASE PollSetDone
  <2>1. baud' \in BaudRecord
    BY <1>1, <1>5 DEF PollSetDone, BaudRecord, Phase, BaudTypeOK
  <2>2. paused' \in BOOLEAN
    BY <1>5 DEF PollSetDone
  <2>3. speed' \in Bauds
    BY <1>5, BaudsAssumption DEF PollSetDone, PollAgrees, RequestKnown
  <2> QED
    BY <1>1, <1>2, <1>5, <2>1, <2>2, <2>3 DEF PollSetDone, BaudTypeOK, txVars
<1>6. CASE PollSetBusy
  BY <1>1, <1>2, <1>6 DEF PollSetBusy, BaudTypeOK, txVars
<1>7. CASE PollSetFails
  <2>1. baud' \in BaudRecord
    BY <1>7 DEF PollSetFails, BaudRecord, Phase, BaudTypeOK
  <2> QED
    BY <1>1, <1>2, <1>7, <2>1 DEF PollSetFails, BaudTypeOK, txVars
<1>8. CASE BaudTime
  BY <1>8 DEF BaudTime, BaudTypeOK, txVars, sessionVars, Fresh, Due, Over
<1>9. CASE UartSessionEnds
  BY <1>9, BoundsAssumption DEF UartSessionEnds, BaudTypeOK, txVars
<1> QED
  BY <1>3, <1>4, <1>5, <1>6, <1>7, <1>8, <1>9

(***************************************************************************)
(* The invariant.                                                          *)
(***************************************************************************)
\* The initial state satisfies it.
LEMMA InitInv == BaudInit => BaudInv
<1> SUFFICES ASSUME BaudInit PROVE BaudInv
  OBVIOUS
<1>1. PollIdle \in PollRecord /\ NoBaud \in BaudRecord /\ NoFrame \in Frame
  BY BoundsAssumption DEF PollIdle, PollRecord, NoBaud, BaudRecord, NoFrame, Frame, Phase
<1>2. answers \in Seq(Frame) /\ Len(answers) <= MaxAnswers
  BY BoundsAssumption DEF BaudInit
<1>3. paused \in BOOLEAN /\ wire \in BOOLEAN
  BY DEF BaudInit
<1>4. BaudTypeOK
  BY <1>1, <1>2, <1>3, BaudsAssumption, BoundsAssumption DEF BaudInit, BaudTypeOK
<1> QED
  BY <1>4 DEF BaudInit, BaudInv, PollAgrees, RequestKnown, KnownSpeed, PollIdle, NoBaud

\* Requests come while the poll rests.  A hello finds the baseline, and a new
\* negotiation belongs to the owner.
LEMMA RequestInv ==
  ASSUME BaudInv,
         \/ UartHello
         \/ \E rate \in Bauds : Prepare(rate)
         \/ \E token \in 1..MaxAttempts : Probe(token) \/ CommitSpeed(token)
  PROVE  BaudInv'
<1>1. BaudTypeOK'
  BY RequestType DEF BaudInv
<1>2. CASE UartHello
  BY <1>1, <1>2 DEF UartHello, Handling, BaudInv, PollAgrees, RequestKnown, KnownSpeed
<1>3. ASSUME NEW rate \in Bauds, Prepare(rate) PROVE BaudInv'
  <2>1. /\ baud'.phase \in {"prepare_ack", "restore"} /\ baud'.requested = rate
        /\ baud'.session = uartOwner
    BY <1>3 DEF Prepare, Answered
  <2> QED
    BY <1>1, <1>3, <2>1
    DEF Prepare, Handling, sessionVars, BaudInv, PollAgrees, RequestKnown, KnownSpeed
<1>4. ASSUME NEW token \in 1..MaxAttempts, Probe(token) \/ CommitSpeed(token) PROVE BaudInv'
  <2>1. /\ baud.phase \in {"probing", "active"}
        /\ baud'.phase \in {"probing", "commit_ack", "active", "restore"}
        /\ baud'.requested = baud.requested /\ baud'.session = baud.session
    BY <1>4 DEF Probe, CommitSpeed, Answered, BaudInv, BaudTypeOK, BaudRecord
  <2>2. Handling /\ UNCHANGED <<baudPoll, speed, sessionVars>>
    BY <1>4 DEF Probe, CommitSpeed
  <2> QED
    BY <1>1, <2>1, <2>2
    DEF Handling, sessionVars, BaudInv, PollAgrees, RequestKnown, KnownSpeed
<1> QED
  BY <1>2, <1>3, <1>4

\* A completion moves a negotiation on from prepare_ack or commit_ack, or leaves it.
LEMMA CompletedPhase ==
  ASSUME BaudTypeOK, NEW frame, NEW success \in BOOLEAN, Completed(frame, success)
  PROVE  /\ \/ baud'.phase = baud.phase
            \/ baud.phase = "prepare_ack" /\ baud'.phase \in {"wait_switch", "restore"}
            \/ baud.phase = "commit_ack" /\ baud'.phase \in {"active", "restore"}
         /\ baud'.requested = baud.requested /\ baud'.session = baud.session
         /\ baudPoll'.pc = baudPoll.pc /\ baudPoll'.owner = baudPoll.owner
         /\ baudPoll'.restore = baudPoll.restore
<1>1. CASE PrepareComplete(frame.token, success)
  BY <1>1 DEF PrepareComplete, BaudTypeOK, BaudRecord, PollRecord
<1>2. CASE CommitComplete(frame.token, success)
  BY <1>2 DEF CommitComplete, BaudTypeOK, BaudRecord
<1>3. CASE UNCHANGED <<baud, since, baudPoll, paused>>
  BY <1>3
<1> QED
  BY <1>1, <1>2, <1>3 DEF Completed

\* The worker's completions keep the invariant, wherever the poll is.
LEMMA WorkerInv ==
  ASSUME BaudInv,
         StartAnswer \/ StartOther \/ FinishFrame \/ DropFrame \/ DropAnswer \/ Drain
  PROVE  BaudInv'
<1>1. BaudTypeOK'
  BY WorkerType DEF BaudInv
<1>2. CASE StartAnswer \/ StartOther \/ Drain
  <2>1. UNCHANGED <<baud, baudPoll, speed, uartOwner>>
    BY <1>2 DEF StartAnswer, StartOther, Drain, sessionVars
  <2> QED
    BY <1>1, <2>1 DEF BaudInv, PollAgrees, RequestKnown, KnownSpeed
<1>3. CASE FinishFrame \/ DropFrame \/ DropAnswer
  <2>1. UNCHANGED <<speed, uartOwner>>
    BY <1>3 DEF FinishFrame, DropFrame, DropAnswer, sessionVars
  <2>2. /\ \/ baud'.phase = baud.phase
           \/ baud.phase = "prepare_ack" /\ baud'.phase \in {"wait_switch", "restore"}
           \/ baud.phase = "commit_ack" /\ baud'.phase \in {"active", "restore"}
        /\ baud'.requested = baud.requested /\ baud'.session = baud.session
        /\ baudPoll'.pc = baudPoll.pc /\ baudPoll'.owner = baudPoll.owner
        /\ baudPoll'.restore = baudPoll.restore
    <3>1. CASE FinishFrame
      BY <3>1, CompletedPhase DEF FinishFrame, BaudInv
    <3>2. CASE DropFrame
      BY <3>2, CompletedPhase DEF DropFrame, BaudInv
    <3>3. CASE DropAnswer
      BY <3>3, CompletedPhase DEF DropAnswer, BaudInv
    <3> QED
      BY <1>3, <3>1, <3>2, <3>3
  <2> QED
    BY <1>1, <2>1, <2>2 DEF BaudInv, PollAgrees, RequestKnown, KnownSpeed
<1> QED
  BY <1>2, <1>3

\* The poll switches for the owner whose negotiation it is, or goes back to the
\* baseline; the clock and the end of a session disturb nothing.
LEMMA PollInv ==
  ASSUME BaudInv,
         \/ PollRead \/ PollCheck \/ PollSetDone \/ PollSetBusy \/ PollSetFails
         \/ BaudTime \/ UartSessionEnds
  PROVE  BaudInv'
<1>1. BaudTypeOK'
  BY PollType DEF BaudInv
<1>2. Released \in {0, uartOwner}
  BY DEF Released
<1>3. CASE PollRead
  BY <1>1, <1>3 DEF PollRead, PollIdle, sessionVars, BaudInv, PollAgrees, RequestKnown, KnownSpeed
<1>4. CASE PollCheck
  <2>1. /\ baud'.requested = baud.requested /\ baud'.session = baud.session
        /\ baud'.phase \in {baud.phase, "restore"}
    BY <1>4 DEF PollCheck, BaudInv, BaudTypeOK, BaudRecord
  <2>2. /\ baudPoll'.pc \in {"idle", "set"}
        /\ baudPoll'.pc = "set" /\ ~baudPoll'.restore =>
             baud'.phase = "wait_switch" /\ baudPoll.owner = baud.session
    BY <1>4 DEF PollCheck, PollIdle, BaudInv, BaudTypeOK, BaudRecord
  <2> QED
    BY <1>1, <1>4, <2>1, <2>2
    DEF PollCheck, sessionVars, BaudInv, PollAgrees, RequestKnown, KnownSpeed
<1>5. CASE PollSetDone
  <2>1. baudPoll'.pc = "idle" /\ uartOwner' \in {0, uartOwner}
    BY <1>2, <1>5 DEF PollSetDone, PollIdle
  <2>2. CASE baudPoll.restore
    BY <1>1, <1>5, <2>1, <2>2
    DEF PollSetDone, NoBaud, BaudInv, PollAgrees, RequestKnown, KnownSpeed
  <2>3. CASE ~baudPoll.restore
    <3>1. /\ baud.phase = "wait_switch" /\ uartOwner \in {0, baud.session}
          /\ speed' = baud.requested
      BY <1>5, <2>3 DEF PollSetDone, BaudInv, PollAgrees
    <3>2. /\ baud'.phase = "probing" /\ baud'.requested = baud.requested
          /\ baud'.session = baud.session
      BY <1>5, <2>3, <3>1 DEF PollSetDone, BaudInv, BaudTypeOK, BaudRecord
    <3> QED
      BY <1>1, <2>1, <3>1, <3>2 DEF BaudInv, PollAgrees, RequestKnown, KnownSpeed
  <2> QED
    BY <2>2, <2>3
<1>6. CASE PollSetBusy \/ PollSetFails
  <2>1. /\ baudPoll'.pc = "idle" /\ uartOwner' \in {0, uartOwner} /\ speed' = speed
        /\ baud'.phase \in {baud.phase, "restore"} /\ baud.phase # "idle"
        /\ baud'.requested = baud.requested /\ baud'.session = baud.session
    BY <1>2, <1>6 DEF PollSetBusy, PollSetFails, PollIdle, BaudInv, BaudTypeOK, BaudRecord,
                      PollAgrees
  <2> QED
    BY <1>1, <2>1 DEF BaudInv, PollAgrees, RequestKnown, KnownSpeed
<1>7. CASE BaudTime \/ UartSessionEnds
  <2>1. UNCHANGED <<baud, baudPoll, speed>> /\ uartOwner' \in {0, uartOwner}
    BY <1>7 DEF BaudTime, UartSessionEnds, sessionVars
  <2> QED
    BY <1>1, <2>1 DEF BaudInv, PollAgrees, RequestKnown, KnownSpeed
<1> QED
  BY <1>3, <1>4, <1>5, <1>6, <1>7

\* Every step of the negotiation preserves the invariant.
LEMMA NextInv == BaudInv /\ [BaudNext]_baudVars => BaudInv'
<1> SUFFICES ASSUME BaudInv, [BaudNext]_baudVars PROVE BaudInv'
  OBVIOUS
<1>1. CASE UNCHANGED baudVars
  BY <1>1 DEF baudVars, txVars, sessionVars, BaudInv, BaudTypeOK, PollAgrees, RequestKnown,
              KnownSpeed
<1>2. CASE BaudNext
  BY <1>2, RequestInv, WorkerInv, PollInv DEF BaudNext
<1> QED
  BY <1>1, <1>2

\* The inductive invariant holds in every reachable state.
THEOREM BaudInvariant == BaudSpec => []BaudInv
  BY InitInv, NextInv, PTL DEF BaudSpec

\* No owner is ever left at a speed it does not know.
THEOREM SpeedCorrect == BaudSpec => []KnownSpeed
<1>1. BaudInv => KnownSpeed
  BY DEF BaudInv
<1> QED
  BY <1>1, BaudInvariant, PTL

(***************************************************************************)
(* Why no frame of the owner meets the switch: the answer to the prepare   *)
(* is the last one queued, the queue is first in first out, and the pause  *)
(* keeps every other frame from beginning.                                 *)
(***************************************************************************)
\* A frame that is the answer to the negotiation's prepare.
Mine(frame) == frame.kind = "prepare" /\ frame.token = baud.token

\* Sessions and negotiations are numbered in the order of their beginning.
Numbered ==
  /\ baud.session <= uartSessions /\ uartOwner <= uartSessions
  /\ baud.token <= attempts /\ sending.token <= attempts
  /\ \A i \in DOMAIN answers : answers[i].token <= attempts

\* The pause lasts from the prepare to the switch.
Held == baud.phase \in {"prepare_ack", "wait_switch"} => paused = TRUE

Negotiating(phase) == baud.phase = phase /\ uartOwner # 0 /\ uartOwner = baud.session

\* Nothing of the owner's is behind the answer to its prepare.
PrepareIsLast ==
  Negotiating("prepare_ack") =>
    /\ Mine(sending) => \A i \in DOMAIN answers : answers[i].session # uartOwner
    /\ \A k \in DOMAIN answers : Mine(answers[k]) =>
         \A i \in DOMAIN answers : i > k => answers[i].session # uartOwner

\* Nothing of the owner's is left when the switch is due.
QuietBeforeSwitch ==
  Negotiating("wait_switch") =>
    /\ sending.session # uartOwner
    /\ \A i \in DOMAIN answers : answers[i].session # uartOwner

\* A poll that goes back without ending the session has read another owner.
PollKnowsOwner ==
  baudPoll.pc = "set" /\ ~baudPoll.same => uartOwner = 0 \/ uartOwner # baud.session

AgreedInv ==
  BaudInv /\ Numbered /\ Held /\ PrepareIsLast /\ QuietBeforeSwitch /\ PollKnowsOwner

\* The initial state satisfies it.
LEMMA InitAgreed == BaudInit => AgreedInv
  BY InitInv
  DEF BaudInit, AgreedInv, Numbered, Held, PrepareIsLast, QuietBeforeSwitch, PollKnowsOwner,
      Negotiating, NoBaud, NoFrame, PollIdle

\* Steps that leave the frames and the negotiation alone, and at most end the session.
LEMMA NeutralAgreed ==
  ASSUME AgreedInv, BaudInv', UNCHANGED <<baud, answers, sending, paused, attempts, uartSessions>>,
         uartOwner' \in {0, uartOwner},
         baudPoll'.pc = "set" => baudPoll'.pc = baudPoll.pc /\ baudPoll'.same = baudPoll.same
  PROVE  AgreedInv'
<1>1. Numbered' /\ Held' /\ PrepareIsLast' /\ QuietBeforeSwitch'
  BY DEF AgreedInv, Numbered, Held, PrepareIsLast, QuietBeforeSwitch, Negotiating, Mine,
         BaudInv, BaudTypeOK
<1>2. PollKnowsOwner'
  BY DEF AgreedInv, PollKnowsOwner
<1> QED
  BY <1>1, <1>2 DEF AgreedInv

\* A step after which neither a prepare nor a switch of the owner is under way has only
\* the numbers to keep.
LEMMA OutsideAgreed ==
  ASSUME AgreedInv, BaudInv', Numbered', Held',
         ~Negotiating("prepare_ack")', ~Negotiating("wait_switch")', baudPoll'.pc # "set"
  PROVE  AgreedInv'
  BY DEF AgreedInv, PrepareIsLast, QuietBeforeSwitch, PollKnowsOwner

\* A hello brings an owner that has negotiated nothing.
LEMMA HelloAgreed == ASSUME AgreedInv, BaudInv', UartHello PROVE AgreedInv'
<1>1. Numbered' /\ uartOwner' # baud.session /\ Held'
  BY BoundsAssumption DEF UartHello, AgreedInv, Numbered, Held, BaudInv, BaudTypeOK, BaudRecord,
     txVars
<1> QED
  BY <1>1, OutsideAgreed DEF UartHello, Handling, Negotiating

\* The answer to a prepare joins the queue's end, with a token nobody else has.
LEMMA PrepareAgreed ==
  ASSUME AgreedInv, BaudInv', NEW rate \in Bauds, Prepare(rate)
  PROVE  AgreedInv'
<1> DEFINE frame == Answer("prepare", attempts + 1, uartOwner)
<1>1. /\ uartOwner' = uartOwner /\ uartSessions' = uartSessions /\ sending' = sending
      /\ attempts' = attempts + 1 /\ attempts \in Nat /\ paused' = TRUE /\ baudPoll'.pc = "idle"
  BY DEF Prepare, Handling, sessionVars, AgreedInv, BaudInv, BaudTypeOK
<1>2. /\ baud'.session = uartOwner /\ baud'.token = attempts + 1
      /\ \/ baud'.phase = "prepare_ack" /\ answers' = Append(answers, frame)
         \/ baud'.phase = "restore" /\ answers' = answers
  BY DEF Prepare, Answered
<1>3. answers \in Seq(Frame) /\ frame.token = attempts + 1
  BY DEF AgreedInv, BaudInv, BaudTypeOK, Answer
<1>4. /\ uartOwner <= uartSessions /\ sending.token <= attempts
      /\ \A i \in DOMAIN answers : answers[i].token <= attempts
  BY DEF AgreedInv, Numbered
<1>5. sending.token \in Nat /\ \A i \in DOMAIN answers : answers[i].token \in Nat
  <2>1. sending \in Frame /\ \A i \in DOMAIN answers : answers[i] \in Frame
    BY DEF AgreedInv, BaudInv, BaudTypeOK
  <2> QED
    BY <2>1, BoundsAssumption DEF Frame
<1> HIDE DEF frame
<1>6. CASE baud'.phase = "restore"
  <2>1. answers' = answers
    BY <1>2, <1>6
  <2>2. Numbered'
    BY <1>1, <1>2, <1>4, <1>5, <2>1 DEF Numbered
  <2> QED
    BY <1>1, <1>6, <2>2, OutsideAgreed DEF Held, Negotiating
<1>7. CASE baud'.phase = "prepare_ack"
  <2>1. answers' = Append(answers, frame)
    BY <1>2, <1>7
  <2>2. /\ DOMAIN answers' = 1..(Len(answers) + 1) /\ DOMAIN answers = 1..Len(answers)
        /\ Len(answers) \in Nat
        /\ \A i \in DOMAIN answers : answers'[i] = answers[i]
        /\ answers'[Len(answers) + 1] = frame
    BY <1>3, <2>1
  <2>3. Numbered'
    BY <1>1, <1>2, <1>3, <1>4, <1>5, <2>2 DEF Numbered
  <2>4. ~Mine(sending)' /\ \A k \in DOMAIN answers' : Mine(answers[k])' => k = Len(answers) + 1
    BY <1>1, <1>2, <1>4, <1>5, <2>2 DEF Mine
  <2>5. PrepareIsLast'
    BY <2>2, <2>4 DEF PrepareIsLast
  <2> QED
    BY <1>1, <1>7, <2>3, <2>5 DEF AgreedInv, Held, QuietBeforeSwitch, Negotiating, PollKnowsOwner
<1> QED
  BY <1>2, <1>6, <1>7

\* Probe and commit come after the switch.
LEMMA ProbeCommitAgreed ==
  ASSUME AgreedInv, BaudInv', NEW token \in 1..MaxAttempts, Probe(token) \/ CommitSpeed(token)
  PROVE  AgreedInv'
<1>1. /\ baud'.phase \notin {"prepare_ack", "wait_switch"} /\ baudPoll'.pc = "idle"
      /\ baud'.session = baud.session /\ baud'.token = baud.token
      /\ UNCHANGED <<uartOwner, uartSessions, attempts, sending>>
  BY DEF Probe, CommitSpeed, Handling, Answered, sessionVars, AgreedInv, BaudInv, BaudTypeOK,
         BaudRecord
<1>2. \E kind \in {"probe", "commit"} :
        answers' \in {answers, Append(answers, Answer(kind, baud.token, uartOwner))}
  <2>1. CASE Probe(token)
    BY <2>1 DEF Probe, Answered, AgreedInv, BaudInv, BaudTypeOK, BaudRecord
  <2>2. CASE CommitSpeed(token)
    BY <2>2 DEF CommitSpeed, Answered, AgreedInv, BaudInv, BaudTypeOK, BaudRecord
  <2> QED
    BY <2>1, <2>2
<1>3. \A i \in DOMAIN answers' : answers'[i].token <= attempts
  <2>1. PICK kind \in {"probe", "commit"} :
          answers' \in {answers, Append(answers, Answer(kind, baud.token, uartOwner))}
    BY <1>2
  <2> DEFINE frame == Answer(kind, baud.token, uartOwner)
  <2>2. frame.token <= attempts
    BY DEF Answer, AgreedInv, Numbered
  <2>3. answers \in Seq(Frame) /\ \A i \in DOMAIN answers : answers[i].token <= attempts
    BY DEF AgreedInv, Numbered, BaudInv, BaudTypeOK
  <2> HIDE DEF frame
  <2>4. CASE answers' = Append(answers, frame)
    <3>1. /\ DOMAIN answers' = 1..(Len(answers) + 1) /\ DOMAIN answers = 1..Len(answers)
          /\ Len(answers) \in Nat
          /\ \A i \in DOMAIN answers : answers'[i] = answers[i]
          /\ answers'[Len(answers) + 1] = frame
      BY <2>3, <2>4
    <3> QED
      BY <2>2, <2>3, <3>1
  <2> QED
    BY <2>1, <2>3, <2>4 DEF frame
<1>4. Numbered'
  BY <1>1, <1>3 DEF AgreedInv, Numbered
<1> QED
  BY <1>1, <1>4, OutsideAgreed DEF Held, Negotiating

\* The queue without its head.
LEMMA TailFacts ==
  ASSUME BaudTypeOK, answers # <<>>
  PROVE  /\ 1 \in DOMAIN answers /\ Head(answers) = answers[1] /\ Head(answers) \in Frame
         /\ \A i \in DOMAIN Tail(answers) :
              i \in Nat /\ i >= 1 /\ i + 1 \in DOMAIN answers /\ Tail(answers)[i] = answers[i + 1]
  BY DEF BaudTypeOK

\* An answer that begins leaves the queue from the front.
LEMMA StartAnswerAgreed == ASSUME AgreedInv, BaudInv', StartAnswer PROVE AgreedInv'
<1>1. /\ UNCHANGED <<baud, baudPoll, paused, uartOwner, uartSessions, attempts>>
      /\ sending' = answers[1] /\ answers' = Tail(answers) /\ answers[1].session = uartOwner
      /\ 1 \in DOMAIN answers
      /\ \A i \in DOMAIN answers' :
           i \in Nat /\ i >= 1 /\ i + 1 \in DOMAIN answers /\ answers'[i] = answers[i + 1]
  BY TailFacts DEF StartAnswer, sessionVars, AgreedInv, BaudInv
<1>2. Numbered' /\ Held' /\ PollKnowsOwner'
  BY <1>1 DEF AgreedInv, Numbered, Held, PollKnowsOwner
<1>3. QuietBeforeSwitch'
  BY <1>1 DEF AgreedInv, QuietBeforeSwitch, Negotiating
<1>4. ASSUME Negotiating("prepare_ack")'
      PROVE  /\ Mine(sending)' => \A i \in DOMAIN answers' : answers'[i].session # uartOwner'
             /\ \A k \in DOMAIN answers' : Mine(answers[k])' =>
                  \A i \in DOMAIN answers' : i > k => answers'[i].session # uartOwner'
  <2>1. \A k \in DOMAIN answers : Mine(answers[k]) =>
          \A i \in DOMAIN answers : i > k => answers[i].session # uartOwner
    BY <1>1, <1>4 DEF AgreedInv, PrepareIsLast, Negotiating
  <2>2. Mine(sending)' = Mine(answers[1])
    BY <1>1 DEF Mine
  <2>3. \A k \in DOMAIN answers' : Mine(answers[k])' = Mine(answers[k + 1])
    BY <1>1 DEF Mine
  <2>4. ASSUME Mine(sending)', NEW i \in DOMAIN answers' PROVE answers'[i].session # uartOwner'
    <3>1. Mine(answers[1])
      BY <2>2, <2>4
    <3>2. \A j \in DOMAIN answers : j > 1 => answers[j].session # uartOwner
      BY <1>1, <2>1, <3>1
    <3>3. i + 1 \in DOMAIN answers /\ i + 1 > 1 /\ answers'[i] = answers[i + 1]
      BY <1>1, <2>4
    <3> QED
      BY <1>1, <3>2, <3>3
  <2>5. ASSUME NEW k \in DOMAIN answers', Mine(answers[k])', NEW i \in DOMAIN answers', i > k
        PROVE  answers'[i].session # uartOwner'
    BY <1>1, <2>1, <2>3, <2>5
  <2> QED
    BY <2>4, <2>5
<1> QED
  BY <1>2, <1>3, <1>4 DEF AgreedInv, PrepareIsLast

\* Any other frame begins outside the pause alone.
LEMMA StartOtherAgreed == ASSUME AgreedInv, BaudInv', StartOther PROVE AgreedInv'
<1>1. /\ UNCHANGED <<baud, baudPoll, paused, answers, uartOwner, uartSessions, attempts>>
      /\ sending'.token = 0 /\ paused # TRUE
  BY DEF StartOther, Answer, sessionVars
<1>2. baud.phase \notin {"prepare_ack", "wait_switch"}
  BY <1>1 DEF AgreedInv, Held
<1>3. attempts \in Nat
  BY DEF AgreedInv, BaudInv, BaudTypeOK
<1>4. Numbered'
  BY <1>1, <1>3 DEF AgreedInv, Numbered
<1> QED
  BY <1>1, <1>2, <1>4
  DEF AgreedInv, Held, PrepareIsLast, QuietBeforeSwitch, Negotiating, PollKnowsOwner

\* What a completion changes, and when it makes the switch due.
LEMMA CompletedAgreed ==
  ASSUME AgreedInv, NEW frame \in Frame, NEW success \in BOOLEAN, Completed(frame, success)
  PROVE  /\ baud'.session = baud.session /\ baud'.token = baud.token
         /\ baudPoll'.pc = baudPoll.pc /\ baudPoll'.same = baudPoll.same
         /\ baud'.phase = "prepare_ack" => baud.phase = "prepare_ack"
         /\ baud'.phase = "wait_switch" =>
              \/ baud.phase = "wait_switch"
              \/ success /\ baud.phase = "prepare_ack" /\ Mine(frame)
         /\ baud'.phase \in {"prepare_ack", "wait_switch"} => paused' = paused
<1>1. baud \in BaudRecord /\ baudPoll \in PollRecord
  BY DEF AgreedInv, BaudInv, BaudTypeOK
<1>2. CASE frame.kind = "prepare"
  <2>1. PrepareComplete(frame.token, success)
    BY <1>2 DEF Completed
  <2> QED
    BY <1>1, <1>2, <2>1 DEF PrepareComplete, BaudRecord, PollRecord, Mine
<1>3. CASE frame.kind = "commit"
  <2>1. CommitComplete(frame.token, success)
    BY <1>3 DEF Completed
  <2> QED
    BY <1>1, <2>1 DEF CommitComplete, BaudRecord
<1>4. CASE frame.kind \notin {"prepare", "commit"}
  BY <1>4 DEF Completed
<1> QED
  BY <1>2, <1>3, <1>4

\* The end of a frame that was being written.
LEMMA EndFrameAgreed ==
  ASSUME AgreedInv, BaudInv', NEW success \in BOOLEAN, Completed(sending, success),
         success => sending.session = uartOwner,
         sending' = NoFrame, UNCHANGED <<answers, uartOwner, uartSessions, attempts>>
  PROVE  AgreedInv'
<1>1. sending \in Frame /\ attempts \in Nat
  BY DEF AgreedInv, BaudInv, BaudTypeOK
<1>2. /\ baud'.session = baud.session /\ baud'.token = baud.token
      /\ baudPoll'.pc = baudPoll.pc /\ baudPoll'.same = baudPoll.same
      /\ baud'.phase = "prepare_ack" => baud.phase = "prepare_ack"
      /\ baud'.phase = "wait_switch" =>
           \/ baud.phase = "wait_switch"
           \/ success /\ baud.phase = "prepare_ack" /\ Mine(sending)
      /\ baud'.phase \in {"prepare_ack", "wait_switch"} => paused' = paused
  BY <1>1, CompletedAgreed
<1>3. NoFrame.session = 0 /\ NoFrame.token = 0 /\ NoFrame.kind # "prepare"
  BY DEF NoFrame
<1>4. Numbered' /\ Held' /\ PollKnowsOwner'
  BY <1>1, <1>2, <1>3 DEF AgreedInv, Numbered, Held, PollKnowsOwner
<1>5. PrepareIsLast'
  <2>1. ~Mine(sending)' /\ \A k \in DOMAIN answers : Mine(answers[k])' = Mine(answers[k])
    BY <1>2, <1>3 DEF Mine
  <2> QED
    BY <1>2, <2>1 DEF AgreedInv, PrepareIsLast, Negotiating
<1>6. QuietBeforeSwitch'
  BY <1>2, <1>3 DEF AgreedInv, QuietBeforeSwitch, PrepareIsLast, Negotiating
<1> QED
  BY <1>4, <1>5, <1>6 DEF AgreedInv

\* An answer that is dropped from the queue's front.
LEMMA DropAnswerAgreed == ASSUME AgreedInv, BaudInv', DropAnswer PROVE AgreedInv'
<1>1. /\ UNCHANGED <<sending, uartOwner, uartSessions, attempts>>
      /\ Completed(Head(answers), FALSE) /\ answers # <<>> /\ Head(answers) \in Frame
      /\ \A i \in DOMAIN answers' :
           i \in Nat /\ i >= 1 /\ i + 1 \in DOMAIN answers /\ answers'[i] = answers[i + 1]
  BY TailFacts DEF DropAnswer, sessionVars, AgreedInv, BaudInv
<1>2. /\ baud'.session = baud.session /\ baud'.token = baud.token
      /\ baudPoll'.pc = baudPoll.pc /\ baudPoll'.same = baudPoll.same
      /\ baud'.phase = "prepare_ack" => baud.phase = "prepare_ack"
      /\ baud'.phase = "wait_switch" => baud.phase = "wait_switch"
      /\ baud'.phase \in {"prepare_ack", "wait_switch"} => paused' = paused
  BY <1>1, CompletedAgreed
<1>3. Numbered' /\ Held' /\ PollKnowsOwner'
  BY <1>1, <1>2 DEF AgreedInv, Numbered, Held, PollKnowsOwner
<1>4. QuietBeforeSwitch'
  BY <1>1, <1>2 DEF AgreedInv, QuietBeforeSwitch, Negotiating
<1>5. ASSUME Negotiating("prepare_ack")'
      PROVE  /\ Mine(sending)' => \A i \in DOMAIN answers' : answers'[i].session # uartOwner'
             /\ \A k \in DOMAIN answers' : Mine(answers[k])' =>
                  \A i \in DOMAIN answers' : i > k => answers'[i].session # uartOwner'
  <2>1. /\ Mine(sending) => \A i \in DOMAIN answers : answers[i].session # uartOwner
        /\ \A k \in DOMAIN answers : Mine(answers[k]) =>
             \A i \in DOMAIN answers : i > k => answers[i].session # uartOwner
    BY <1>1, <1>2, <1>5 DEF AgreedInv, PrepareIsLast, Negotiating
  <2>2. Mine(sending)' = Mine(sending)
    BY <1>1, <1>2 DEF Mine
  <2>3. \A k \in DOMAIN answers' : Mine(answers[k])' = Mine(answers[k + 1])
    BY <1>1, <1>2 DEF Mine
  <2>4. ASSUME Mine(sending)', NEW i \in DOMAIN answers' PROVE answers'[i].session # uartOwner'
    BY <1>1, <2>1, <2>2, <2>4
  <2>5. ASSUME NEW k \in DOMAIN answers', Mine(answers[k])', NEW i \in DOMAIN answers', i > k
        PROVE  answers'[i].session # uartOwner'
    BY <1>1, <2>1, <2>3, <2>5
  <2> QED
    BY <2>4, <2>5
<1> QED
  BY <1>3, <1>4, <1>5 DEF AgreedInv, PrepareIsLast

\* The steps of the poll.
LEMMA PollAgreed ==
  ASSUME AgreedInv, BaudInv', PollCheck \/ PollSetDone \/ PollSetBusy \/ PollSetFails
  PROVE  AgreedInv'
<1>1. Released \in {0, uartOwner}
  BY DEF Released
<1>2. baud \in BaudRecord /\ attempts \in Nat /\ uartSessions \in Nat
  BY DEF AgreedInv, BaudInv, BaudTypeOK
<1>3. CASE PollCheck
  <2>1. /\ UNCHANGED <<answers, sending, uartOwner, uartSessions, attempts>>
        /\ baud'.session = baud.session /\ baud'.token = baud.token
        /\ baud'.phase \in {baud.phase, "restore"}
        /\ paused = TRUE => paused' = TRUE
    BY <1>2, <1>3 DEF PollCheck, txVars, sessionVars, BaudRecord
  <2>2. baudPoll'.pc = "set" /\ ~baudPoll'.same =>
          baudPoll.owner = 0 \/ baudPoll.owner # baud.session
    BY <1>3 DEF PollCheck, PollIdle
  <2>3. uartOwner \in {0, baudPoll.owner}
    BY <1>3 DEF PollCheck, AgreedInv, BaudInv, PollAgrees
  <2>4. Numbered' /\ Held' /\ PollKnowsOwner'
    BY <2>1, <2>2, <2>3 DEF AgreedInv, Numbered, Held, PollKnowsOwner
  <2>5. PrepareIsLast' /\ QuietBeforeSwitch'
    BY <2>1 DEF AgreedInv, PrepareIsLast, QuietBeforeSwitch, Negotiating, Mine
  <2> QED
    BY <2>4, <2>5 DEF AgreedInv
<1>4. CASE PollSetDone
  <2>1. /\ baud'.phase \notin {"prepare_ack", "wait_switch"} /\ baudPoll'.pc = "idle"
        /\ baud'.session \in {0, baud.session} /\ baud'.token \in {0, baud.token}
    BY <1>2, <1>4 DEF PollSetDone, PollIdle, NoBaud, AgreedInv, BaudInv, PollAgrees, BaudRecord
  <2>2. /\ UNCHANGED <<answers, sending, uartSessions, attempts>>
        /\ uartOwner' \in {0, uartOwner}
    BY <1>1, <1>4 DEF PollSetDone, txVars
  <2>3. Numbered'
    BY <1>2, <2>1, <2>2 DEF AgreedInv, Numbered
  <2> QED
    BY <2>1, <2>3, OutsideAgreed DEF Held, Negotiating
<1>5. CASE PollSetBusy
  BY <1>1, <1>5, NeutralAgreed DEF PollSetBusy, PollIdle, txVars
<1>6. CASE PollSetFails
  <2>1. /\ baud'.phase = "restore" /\ baudPoll'.pc = "idle"
        /\ baud'.session = baud.session /\ baud'.token = baud.token
        /\ UNCHANGED <<answers, sending, uartSessions, attempts>>
        /\ uartOwner' \in {0, uartOwner}
    BY <1>1, <1>2, <1>6 DEF PollSetFails, PollIdle, BaudRecord, txVars
  <2>2. Numbered'
    BY <1>2, <2>1 DEF AgreedInv, Numbered
  <2> QED
    BY <2>1, <2>2, OutsideAgreed DEF Held, Negotiating
<1> QED
  BY <1>3, <1>4, <1>5, <1>6

\* Every step preserves the invariant.
LEMMA NextAgreed == AgreedInv /\ [BaudNext]_baudVars => AgreedInv'
<1> SUFFICES ASSUME AgreedInv, [BaudNext]_baudVars PROVE AgreedInv'
  OBVIOUS
<1>1. BaudInv'
  BY NextInv DEF AgreedInv
<1>2. CASE UNCHANGED baudVars
  BY <1>1, <1>2, NeutralAgreed DEF baudVars, txVars, sessionVars
<1>3. CASE FinishFrame
  BY <1>1, <1>3, EndFrameAgreed DEF FinishFrame, sessionVars
<1>4. CASE DropFrame
  BY <1>1, <1>4, EndFrameAgreed DEF DropFrame, sessionVars
<1>5. CASE Drain \/ BaudTime \/ UartSessionEnds \/ PollRead
  <2>1. /\ UNCHANGED <<baud, answers, sending, paused, attempts, uartSessions>>
        /\ uartOwner' \in {0, uartOwner}
        /\ baudPoll'.pc = "set" => baudPoll'.pc = baudPoll.pc /\ baudPoll'.same = baudPoll.same
    BY <1>5 DEF Drain, BaudTime, UartSessionEnds, PollRead, PollIdle, txVars, sessionVars
  <2> QED
    BY <1>1, <2>1, NeutralAgreed
<1>6. CASE BaudNext
  BY <1>1, <1>3, <1>4, <1>5, <1>6, HelloAgreed, PrepareAgreed, ProbeCommitAgreed,
     StartAnswerAgreed, StartOtherAgreed, DropAnswerAgreed, PollAgreed DEF BaudNext
<1> QED
  BY <1>2, <1>6

\* A session never meets a change of speed it did not ask for, and none of its frames is
\* cut in two by one it did.
THEOREM ChangeCorrect == BaudSpec => SpeedChangeIsAgreed
<1> DEFINE Agreed ==
      speed' # speed =>
        \/ uartOwner' = 0
        \/ /\ uartOwner' = baud.session /\ speed' = baud.requested
           /\ ~wire /\ sending.session # uartOwner'
           /\ \A i \in DOMAIN answers : answers[i].session # uartOwner'
<1>1. AgreedInv /\ [BaudNext]_baudVars => [Agreed]_baudVars
  <2> SUFFICES ASSUME AgreedInv, BaudNext, speed' # speed, uartOwner' # 0
               PROVE  /\ uartOwner' = baud.session /\ speed' = baud.requested
                      /\ ~wire /\ sending.session # uartOwner'
                      /\ \A i \in DOMAIN answers : answers[i].session # uartOwner'
    OBVIOUS
  <2>1. PollSetDone
    BY DEF BaudNext, UartHello, Prepare, Probe, CommitSpeed, StartAnswer, StartOther, FinishFrame,
           DropFrame, DropAnswer, Drain, PollRead, PollCheck, PollSetBusy, PollSetFails, BaudTime,
           UartSessionEnds
  <2>2. uartOwner' = uartOwner /\ uartOwner # 0
    BY <2>1 DEF PollSetDone, Released
  <2>3. ~baudPoll.restore
    <3> SUFFICES ASSUME baudPoll.restore PROVE FALSE
      OBVIOUS
    <3>1. speed # Baseline
      BY <2>1 DEF PollSetDone
    <3>2. uartOwner = baud.session
      BY <2>2, <3>1 DEF AgreedInv, BaudInv, KnownSpeed
    <3>3. baudPoll.same
      BY <2>1, <2>2, <3>2 DEF PollSetDone, AgreedInv, PollKnowsOwner
    <3> QED
      BY <2>1, <2>2, <3>2, <3>3 DEF PollSetDone, Released
  <2>4. baud.phase = "wait_switch" /\ uartOwner = baud.session
    BY <2>1, <2>2, <2>3 DEF PollSetDone, AgreedInv, BaudInv, PollAgrees
  <2> QED
    BY <2>1, <2>2, <2>3, <2>4 DEF PollSetDone, AgreedInv, QuietBeforeSwitch, Negotiating
<1> HIDE DEF Agreed
<1>2. BaudSpec => [][Agreed]_baudVars
  BY <1>1, InitAgreed, NextAgreed, PTL DEF BaudSpec
<1> QED
  BY <1>2 DEF Agreed, SpeedChangeIsAgreed

(***************************************************************************)
(* The lease of a session.                                                 *)
(***************************************************************************)
\* A stamp that a task brings along is as old as the task was delayed, and the stamp of an
\* OWNED session as old as the activity it records.
StampsTell ==
  /\ \A t \in Task : pc[t] # "idle" => Elapsed(now, sample[t]) = delay[t]
  /\ state = "OWNED" => Elapsed(now, last) = age

\* An OWNED session is no older than the last tick found it and the time since, and at
\* most a lease older than that when its tick is due.
AgeBounded ==
  /\ pc[Ticker] = "tick" => gap = delay[Ticker]
  /\ state = "OWNED" /\ pc[Ticker] # "tick" => age <= Lease + MaxDelay + gap
  /\ state = "OWNED" /\ pc[Ticker] = "tick" => age <= Lease + MaxDelay + PumpGap + delay[Ticker]

LeaseInv == TypeOK /\ StampsTell /\ AgeBounded

\* The remainder of a sum that overflows at most once.
LEMMA WrapsOnce ==
  ASSUME NEW x \in Nat, x < 2 * ClockMod
  PROVE  x % ClockMod = IF x < ClockMod THEN x ELSE x - ClockMod
<1>1. ClockMod \in Nat /\ ClockMod > 0
  BY LeaseAssumption
<1> QED
  BY <1>1

\* The difference of two stamps is the time between them, across one wrap of the clock.
LEMMA ElapsedIs ==
  ASSUME NEW a \in 0..(ClockMod - 1), NEW b \in 0..(ClockMod - 1)
  PROVE  Elapsed(a, b) = IF a >= b THEN a - b ELSE a + ClockMod - b
<1>1. a + ClockMod - b \in Nat /\ a + ClockMod - b < 2 * ClockMod
  BY LeaseAssumption
<1> QED
  BY <1>1, WrapsOnce, LeaseAssumption DEF Elapsed

\* A stamp of the present is no time old, and every tick makes a stamp one tick older.
LEMMA StampAges ==
  ASSUME NEW s \in 0..(ClockMod - 1), NEW n \in 0..(ClockMod - 1)
  PROVE  /\ (n + 1) % ClockMod \in 0..(ClockMod - 1)
         /\ Elapsed(n, n) = 0
         /\ Elapsed(n, s) < ClockMod - 1 =>
              Elapsed((n + 1) % ClockMod, s) = Elapsed(n, s) + 1
<1>1. (n + 1) % ClockMod = IF n + 1 < ClockMod THEN n + 1 ELSE 0
  <2>1. n + 1 \in Nat /\ n + 1 < 2 * ClockMod
    BY LeaseAssumption
  <2> QED
    BY <2>1, WrapsOnce, LeaseAssumption
<1>2. (n + 1) % ClockMod \in 0..(ClockMod - 1)
  BY <1>1, LeaseAssumption
<1> DEFINE next == (n + 1) % ClockMod
<1>3. /\ Elapsed(n, n) = IF n >= n THEN n - n ELSE n + ClockMod - n
      /\ Elapsed(n, s) = IF n >= s THEN n - s ELSE n + ClockMod - s
      /\ Elapsed(next, s) = IF next >= s THEN next - s ELSE next + ClockMod - s
  BY <1>2, ElapsedIs
<1> QED
  BY <1>1, <1>2, <1>3, LeaseAssumption

\* The age that a session has reached a round after the last tick is within the bound.
LEMMA WithinBound ==
  ASSUME NEW old \in Nat, NEW round \in 0..PumpGap, old <= Lease + MaxDelay + round
  PROVE  old <= Lease + PumpGap + 2 * MaxDelay
  BY LeaseAssumption

\* The initial state satisfies the invariant.
LEMMA LeaseInitially == Init => LeaseInv
  BY LeaseAssumption DEF Init, LeaseInv, TypeOK, StampsTell, AgeBounded, Task, Ticker

\* Time passes: every stamp, delay and age grows by one.
LEMMA AdvanceKeepsLease == LeaseInv /\ Advance => LeaseInv'
<1> SUFFICES ASSUME LeaseInv, Advance PROVE LeaseInv'
  OBVIOUS
<1> USE LeaseAssumption DEF LeaseInv
<1>1. now' \in 0..(ClockMod - 1) /\ Ticker \in Task
  BY StampAges DEF TypeOK, Advance, Task
<1>2. \A t \in Task : /\ delay'[t] \in 0..MaxDelay
                      /\ pc[t] # "idle" => delay'[t] = delay[t] + 1
  BY DEF TypeOK, Advance
<1>3. state = "OWNED" => age < ClockMod - 1 /\ age' = age + 1
  <2>1. /\ gap \in 0..PumpGap /\ gap < PumpGap /\ age \in 0..ClockMod
        /\ delay[Ticker] \in 0..MaxDelay /\ (pc[Ticker] = "tick" => delay[Ticker] < MaxDelay)
    BY <1>1 DEF TypeOK, Advance
  <2> QED
    BY <2>1 DEF AgeBounded, Advance
<1>4. AgeBounded'
  BY <1>1, <1>2, <1>3 DEF AgeBounded, TypeOK, Advance
<1>5. StampsTell'
  <2>1. ASSUME NEW t \in Task, pc'[t] # "idle" PROVE Elapsed(now', sample'[t]) = delay'[t]
    <3>1. sample[t] \in 0..(ClockMod - 1) /\ pc[t] # "idle" /\ delay[t] \in 0..MaxDelay
      BY <2>1 DEF TypeOK, Advance
    <3>2. Elapsed(now, sample[t]) = delay[t] /\ delay[t] < ClockMod - 1
      BY <3>1, <2>1 DEF StampsTell, Advance
    <3> QED
      BY <3>1, <3>2, <1>2, StampAges DEF TypeOK, Advance
  <2>2. ASSUME state' = "OWNED" PROVE Elapsed(now', last') = age'
    <3>1. state = "OWNED" /\ last \in 0..(ClockMod - 1) /\ now \in 0..(ClockMod - 1)
      BY <2>2 DEF TypeOK, Advance
    <3> QED
      BY <3>1, <1>3, StampAges DEF StampsTell, Advance
  <2> QED
    BY <2>1, <2>2 DEF StampsTell
<1>6. TypeOK'
  <2>1. delay' \in [Task -> 0..MaxDelay]
    BY <1>2 DEF Advance
  <2>2. gap' \in 0..PumpGap /\ age' \in 0..ClockMod
    BY DEF TypeOK, Advance
  <2>3. state' = "OWNED" => age' <= Lease + PumpGap + 2 * MaxDelay
    <3> SUFFICES ASSUME state' = "OWNED" PROVE age' <= Lease + PumpGap + 2 * MaxDelay
      OBVIOUS
    <3>1. CASE pc'[Ticker] = "tick"
      BY <1>1, <1>2, <1>4, <3>1, <2>2 DEF AgeBounded
    <3>2. CASE pc'[Ticker] # "tick"
      <4>1. age' <= Lease + MaxDelay + gap'
        BY <1>4, <3>2 DEF AgeBounded
      <4>2. age' \in Nat
        BY <2>2
      <4>3. gap' \in 0..PumpGap
        BY <2>2
      <4> QED
        BY ONLY <4>1, <4>2, <4>3, WithinBound
    <3> QED
      BY <3>1, <3>2
  <2> QED
    BY <1>1, <2>1, <2>2, <2>3 DEF TypeOK, Advance
<1> QED
  BY <1>4, <1>5, <1>6

\* A task samples the clock.
LEMMA SampleKeepsLease ==
  ASSUME LeaseInv, NEW t \in Task, NEW call \in {"acquire", "keepalive", "tick"}, Sample(t, call),
         call = "tick" => t = Ticker /\ gap' = 0,
         call # "tick" => UNCHANGED gap
  PROVE  LeaseInv'
<1> USE LeaseAssumption DEF LeaseInv
<1>1. /\ pc' \in [Task -> {"idle", "acquire", "keepalive", "tick"}]
      /\ sample' \in [Task -> 0..(ClockMod - 1)] /\ delay' \in [Task -> 0..MaxDelay]
      /\ gap' \in 0..PumpGap
  BY DEF TypeOK, Sample
<1>2. StampsTell'
  BY StampAges DEF StampsTell, Sample, TypeOK
<1>3. Ticker \in Task
  BY DEF Task
<1>4. AgeBounded'
  <2>1. CASE call = "tick"
    BY <2>1, <1>3 DEF AgeBounded, Sample, TypeOK
  <2>2. CASE call # "tick" /\ t = Ticker
    BY <2>2, <1>3 DEF AgeBounded, Sample, TypeOK
  <2>3. CASE call # "tick" /\ t # Ticker
    BY <2>3, <1>3 DEF AgeBounded, Sample, TypeOK
  <2> QED
    BY <2>1, <2>2, <2>3
<1> QED
  BY <1>1, <1>2, <1>4 DEF TypeOK, Sample

\* A call ends: it recorded its own stamp, or nothing and found a tick's session young.
LEMMA FinishKeepsLease ==
  ASSUME LeaseInv, NEW t \in Task, pc[t] # "idle", Finish(t), state' \in {"FREE", "OWNED"},
         \/ Refresh(t)
         \/ UNCHANGED <<last, age>> /\ (state' = "OWNED" => state = "OWNED"),
         pc[t] = "tick" => /\ t = Ticker /\ UNCHANGED <<last, age>>
                           /\ state' = "OWNED" => state = "OWNED" /\ ~Expired(sample[t])
  PROVE  LeaseInv'
<1> USE LeaseAssumption DEF LeaseInv
<1>1. /\ pc' \in [Task -> {"idle", "acquire", "keepalive", "tick"}]
      /\ sample' \in [Task -> 0..(ClockMod - 1)] /\ delay' \in [Task -> 0..MaxDelay]
      /\ last' \in 0..(ClockMod - 1) /\ age' \in 0..ClockMod
      /\ pc'[t] = "idle" /\ \A u \in Task \ {t} : /\ pc'[u] = pc[u] /\ sample'[u] = sample[u]
                                                  /\ delay'[u] = delay[u]
  BY DEF TypeOK, Finish, Refresh
<1>2. delay[t] \in 0..MaxDelay /\ Elapsed(now, sample[t]) = delay[t]
  BY DEF TypeOK, StampsTell
<1>3. StampsTell'
  BY <1>1, <1>2 DEF StampsTell, Finish, Refresh, TypeOK
<1>4. Ticker \in Task /\ now' = now /\ gap' = gap
  BY DEF Task, Finish
<1>5. CASE pc[t] = "tick"
  <2>1. ASSUME state' = "OWNED" PROVE age < Lease + gap
    <3>1. state = "OWNED" /\ Elapsed(sample[t], last) < Lease /\ t = Ticker
      <4>1. sample[t] \in 0..(ClockMod - 1) /\ last \in 0..(ClockMod - 1)
        BY DEF TypeOK
      <4>2. Elapsed(sample[t], last) \in Nat
        <5>1. Elapsed(sample[t], last)
                = IF sample[t] >= last THEN sample[t] - last ELSE sample[t] + ClockMod - last
          BY <4>1, ElapsedIs
        <5> QED
          BY <4>1, <5>1
      <4>3. t = Ticker /\ last' = last /\ age' = age /\ ~Expired(sample[t])
        BY <2>1, <1>5
      <4>4. state = "OWNED"
        BY <2>1, <1>5
      <4> QED
        BY <4>2, <4>3, <4>4 DEF Expired
    <3>2. Elapsed(now, last) = age /\ gap = delay[t]
      BY <1>5, <3>1 DEF StampsTell, AgeBounded
    <3>3. /\ Elapsed(sample[t], last) = IF sample[t] >= last THEN sample[t] - last ELSE sample[t] + ClockMod - last
          /\ Elapsed(now, last) = IF now >= last THEN now - last ELSE now + ClockMod - last
          /\ Elapsed(now, sample[t]) = IF now >= sample[t] THEN now - sample[t] ELSE now + ClockMod - sample[t]
      BY ElapsedIs DEF TypeOK
    <3> QED
      BY <3>1, <3>2, <3>3, <1>2 DEF TypeOK
  <2>2. AgeBounded'
    BY <1>1, <1>4, <1>5, <2>1 DEF AgeBounded, TypeOK
  <2>3. state' = "OWNED" => age' <= Lease + PumpGap + 2 * MaxDelay
    BY <2>1, <1>5 DEF TypeOK
  <2> QED
    BY <1>1, <1>3, <1>4, <2>2, <2>3 DEF TypeOK, Finish
<1>6. CASE pc[t] # "tick" /\ Refresh(t)
  <2>1. age' = delay[t]
    BY <1>6 DEF Refresh
  <2>2. AgeBounded'
    BY <1>1, <1>2, <1>4, <1>6, <2>1 DEF AgeBounded, TypeOK
  <2> QED
    BY <1>1, <1>2, <1>3, <1>4, <2>1, <2>2 DEF TypeOK, Finish
<1>7. CASE pc[t] # "tick" /\ ~Refresh(t)
  <2>1. age' = age /\ (state' = "OWNED" => state = "OWNED")
    BY <1>7
  <2>2. AgeBounded'
    BY <1>1, <1>4, <1>7, <2>1 DEF AgeBounded, TypeOK
  <2> QED
    BY <1>1, <1>3, <1>4, <2>1, <2>2 DEF TypeOK, Finish
<1> QED
  BY <1>5, <1>6, <1>7

\* Every step keeps the invariant.
LEMMA LeaseStays == LeaseInv /\ [Next]_vars => LeaseInv'
<1> SUFFICES ASSUME LeaseInv, [Next]_vars PROVE LeaseInv'
  OBVIOUS
<1>1. CASE Advance
  BY <1>1, AdvanceKeepsLease
<1>2. CASE TickCalled
  BY <1>2, SampleKeepsLease DEF TickCalled, Task
<1>3. CASE \E t \in Task : HelloCalled(t)
  BY <1>3, SampleKeepsLease DEF HelloCalled
<1>4. CASE \E t \in Task : KeepaliveCalled(t)
  BY <1>4, SampleKeepsLease DEF KeepaliveCalled
<1>5. CASE TickExpires \/ TickKeeps
  <2>1. Ticker \in Task
    BY DEF Task
  <2> QED
    BY <1>5, <2>1, FinishKeepsLease DEF TickExpires, TickKeeps, LeaseInv, TypeOK
<1>6. ASSUME NEW t \in Task, Acquire(t) \/ Keepalive(t) PROVE LeaseInv'
  BY <1>6, FinishKeepsLease DEF Acquire, Keepalive, LeaseInv, TypeOK
<1>7. CASE ClearOwner
  BY <1>7 DEF ClearOwner, LeaseInv, TypeOK, StampsTell, AgeBounded
<1>8. CASE UNCHANGED vars
  BY <1>8 DEF vars, LeaseInv, TypeOK, StampsTell, AgeBounded
<1> QED
  BY <1>1, <1>2, <1>3, <1>4, <1>5, <1>6, <1>7, <1>8 DEF Next

LEMMA LeaseAlways == Spec => []LeaseInv
<1> QED
  BY LeaseInitially, LeaseStays, PTL DEF Spec

\* No idle session outlives its lease by more than one round of the pump and the delays of
\* two calls, whoever refreshes it (ev_session_tick): the age of an OWNED session stays far
\* from the wrap of the clock, so the unsigned difference never takes it for a fresh one.
THEOREM AgeCorrect == Spec => []TypeOK
<1>1. LeaseInv => TypeOK
  BY DEF LeaseInv
<1> QED
  BY <1>1, LeaseAlways, PTL

\* ev_session_tick expires a session after a whole lease without activity, counted to the
\* time the tick sampled, or when an activity later than that sample was recorded before
\* the tick took the lock: whatever tasks refresh the lease, for every lease, clock and
\* delay.  (The run lease_race shows that the latter does happen.)
THEOREM ExpiryCorrect == Spec => ExpiresIdleOrOvertaken
<1>1. ASSUME LeaseInv, TickExpires, age >= delay[Ticker] PROVE age >= Lease + delay[Ticker]
  <2>1. /\ Ticker \in Task /\ state = "OWNED" /\ pc[Ticker] = "tick"
        /\ Elapsed(sample[Ticker], last) >= Lease
    BY <1>1 DEF TickExpires, Expired, Task
  <2>2. Elapsed(now, sample[Ticker]) = delay[Ticker] /\ Elapsed(now, last) = age
    BY <1>1, <2>1 DEF LeaseInv, StampsTell
  <2>3. /\ sample[Ticker] \in 0..(ClockMod - 1) /\ last \in 0..(ClockMod - 1)
        /\ now \in 0..(ClockMod - 1) /\ delay[Ticker] \in 0..MaxDelay /\ age \in 0..ClockMod
    BY <1>1, <2>1 DEF LeaseInv, TypeOK
  \* The tick's sample lies between the recorded activity and the present.
  <2>4. Elapsed(sample[Ticker], last) = age - delay[Ticker]
    <3>1. /\ Elapsed(sample[Ticker], last)
               = IF sample[Ticker] >= last THEN sample[Ticker] - last
                                           ELSE sample[Ticker] + ClockMod - last
          /\ Elapsed(now, last) = IF now >= last THEN now - last ELSE now + ClockMod - last
          /\ Elapsed(now, sample[Ticker])
               = IF now >= sample[Ticker] THEN now - sample[Ticker]
                                          ELSE now + ClockMod - sample[Ticker]
      BY <2>3, ElapsedIs
    <3> QED
      BY <1>1, <2>2, <2>3, <3>1, LeaseAssumption
  <2> QED
    BY <2>1, <2>3, <2>4, LeaseAssumption
<1>2. LeaseInv /\ TickExpires => age >= Lease + delay[Ticker] \/ age < delay[Ticker]
  <2>1. ASSUME LeaseInv, TickExpires PROVE age \in Nat /\ delay[Ticker] \in Nat
    BY <2>1, LeaseAssumption DEF LeaseInv, TypeOK, Task
  <2> QED
    BY <1>1, <2>1
<1>3. LeaseInv /\ [Next]_vars
        => [TickExpires => age >= Lease + delay[Ticker] \/ age < delay[Ticker]]_vars
  BY <1>2
<1> QED
  BY <1>3, LeaseAlways, PTL DEF Spec, ExpiresIdleOrOvertaken

(***************************************************************************)
(* The receive ring of USB CDC.                                            *)
(***************************************************************************)
\* Every change of the generation empties the ring, and the stack never believes less than
\* the bus.
RingIsCurrent ==
  /\ \A i \in 1..Len(ring) : ring[i].tag = cdc.generation
  /\ bus => cdc.mounted
  /\ cdc.mounted => cdc.mountSeen /\ connections > 0
  /\ ~bus => fifo = <<>>

\* What waits, in the ring and then in the FIFO, is the end of what the host has sent over
\* the present connection.
Waiting == Len(ring) + Len(fifo)
TailOf(inRing, inFifo, n) ==
  /\ Len(inRing) + Len(inFifo) <= n
  /\ \A i \in 1..Len(inRing) :
       inRing[i].byte = Byte(connections, n - (Len(inRing) + Len(inFifo)) + i)
  /\ \A i \in 1..Len(inFifo) : inFifo[i] = Byte(connections, n - Len(inFifo) + i)
WaitingIsTail == bus /\ cdc.valid => TailOf(ring, fifo, sent)

\* What the transport task knows of the bus is of the past, or of the present.
TaskIsBehind ==
  /\ rxGeneration <= cdc.generation /\ snapshot.generation <= cdc.generation
  /\ ~known => rxGeneration = 0
  /\ wasMounted \/ snapshot.mounted => cdc.mountSeen
  /\ known /\ link => wasMounted

\* The generation that the task follows on a bus that stays.
Following == known /\ wasMounted /\ rxGeneration = cdc.generation
SnapshotAgrees ==
  pump = "apply" /\ bus /\ cdc.valid /\ Following =>
    snapshot.generation = cdc.generation /\ snapshot.mounted

\* Before the task follows a connection nothing of it is lost; afterwards the parser has
\* what comes before the waiting bytes, all of it unless the link was restarted.
NothingLost ==
  bus /\ cdc.valid =>
    /\ ~Following => Waiting = sent
    /\ Following /\ link =>
         /\ Len(parsed) + Waiting <= sent
         /\ \A i \in 1..Len(parsed) :
              parsed[i] = Byte(connections, sent - Waiting - Len(parsed) + i)
         /\ ~restarted => Len(parsed) + Waiting = sent

RingInv ==
  /\ CdcTypeOK /\ RingIsCurrent /\ WaitingIsTail /\ TaskIsBehind /\ SnapshotAgrees
  /\ NothingLost /\ OneStream

\* ring_filter leaves a ring as it is when every byte is of the generation.
LEMMA FilteredKeepsAll ==
  ASSUME NEW S, NEW s \in Seq(S), NEW g, \A i \in 1..Len(s) : s[i].tag = g
  PROVE  Filtered(s, g) = s
<1> DEFINE Step(f) == [i \in 0..Len(s) |->
                         IF i = 0 THEN <<>>
                         ELSE IF s[i].tag = g THEN Append(f[i - 1], s[i]) ELSE f[i - 1]]
           kept == CHOOSE f : f = Step(f)
           prefix == [i \in 0..Len(s) |-> SubSeq(s, 1, i)]
<1>1. prefix = Step(prefix)
  <2>1. ASSUME NEW i \in 0..Len(s) PROVE prefix[i] = Step(prefix)[i]
    <3>1. CASE i = 0
      BY <3>1
    <3>2. CASE i # 0
      <4>1. i \in 1..Len(s) /\ i - 1 \in 0..Len(s) /\ s[i].tag = g
        BY <3>2
      <4>2. SubSeq(s, 1, i) = Append(SubSeq(s, 1, i - 1), s[i])
        BY <4>1
      <4> QED
        BY <4>1, <4>2, <3>2
    <3> QED
      BY <3>1, <3>2
  <2> QED
    BY <2>1
<1>2. kept = Step(kept)
  BY <1>1
<1>3. Filtered(s, g) = kept[Len(s)]
  BY DEF Filtered
<1>4. /\ kept[0] = <<>>
      /\ \A i \in 1..Len(s) : kept[i] = Append(kept[i - 1], s[i])
  <2> HIDE DEF kept
  <2>1. kept[0] = Step(kept)[0]
    BY <1>2
  <2>2. ASSUME NEW i \in 1..Len(s) PROVE kept[i] = Append(kept[i - 1], s[i])
    <3>1. kept[i] = Step(kept)[i]
      BY <1>2
    <3> QED
      BY <3>1
  <2> QED
    BY <2>1, <2>2
<1> HIDE DEF kept
<1> DEFINE Wrong == {i \in 0..Len(s) : kept[i] # SubSeq(s, 1, i)}
<1>5. Wrong = {}
  <2> SUFFICES ASSUME Wrong # {} PROVE FALSE
    OBVIOUS
  <2>1. PICK n \in Wrong : \A m \in Wrong : n <= m
    <3>1. Wrong \in SUBSET Nat
      OBVIOUS
    <3> HIDE DEF Wrong
    <3> QED
      BY <3>1, LeastIn
  <2>2. n \in 0..Len(s) /\ kept[n] # SubSeq(s, 1, n)
    OBVIOUS
  <2>3. n # 0
    <3>1. SubSeq(s, 1, 0) = <<>>
      OBVIOUS
    <3> QED
      BY <1>4, <2>2, <3>1
  <2>4. n \in 1..Len(s) /\ n - 1 \in 0..Len(s) /\ n - 1 \notin Wrong
    BY <2>1, <2>2, <2>3
  <2>5. kept[n - 1] = SubSeq(s, 1, n - 1)
    BY <2>4
  <2>6. SubSeq(s, 1, n) = Append(SubSeq(s, 1, n - 1), s[n])
    BY <2>4
  <2>7. kept[n] = Append(kept[n - 1], s[n])
    BY <1>4, <2>4
  <2> QED
    BY <2>2, <2>5, <2>6, <2>7
<1>6. kept[Len(s)] = SubSeq(s, 1, Len(s))
  BY <1>5
<1> QED
  BY <1>3, <1>6

(***************************************************************************)
(* The functions of the USB stack.                                         *)
(***************************************************************************)
TaggedByte == [tag : 1..GenerationMax, byte : Bytes]
CdcState == [generation : 1..GenerationMax, mounted : BOOLEAN, mountSeen : BOOLEAN, valid : BOOLEAN]

\* The callback moves bytes from the FIFO to the ring and loses none, unless the
\* generations are exhausted.
LEMMA CallbackKeeps ==
  ASSUME CdcTypeOK, RingIsCurrent, NEW bytes \in Seq(Bytes), RxCallback(bytes)
  PROVE  /\ ring' \in Seq(TaggedByte) /\ Len(ring') <= RingCapacity
         /\ fifo' \in Seq(Bytes) /\ pending' \in BOOLEAN
         /\ Len(fifo') <= Len(bytes)
         /\ \A i \in 1..Len(ring') : ring'[i].tag = cdc.generation
         /\ ~cdc.valid => fifo' = <<>>
         /\ cdc.valid => Len(ring') + Len(fifo') = Len(ring) + Len(bytes)
         /\ cdc.valid => \A n \in Nat : TailOf(ring, bytes, n) => TailOf(ring', fifo', n)
<1> DEFINE room == RingCapacity - Len(ring)
           n == IF Len(bytes) <= room THEN Len(bytes) ELSE room
           added == [i \in 1..n |-> [tag |-> cdc.generation, byte |-> bytes[i]]]
<1> USE CdcAssumption
<1>1. /\ ring \in Seq(TaggedByte) /\ Len(ring) <= RingCapacity /\ pending \in BOOLEAN
      /\ cdc.generation \in 1..GenerationMax /\ cdc.valid \in BOOLEAN
      /\ Len(ring) \in Nat /\ Len(bytes) \in Nat
  BY DEF CdcTypeOK, TaggedByte
<1>2. room \in Nat /\ n \in Nat /\ n <= Len(bytes) /\ n <= room
  BY <1>1
<1>3. CASE ~cdc.valid
  <2>1. fifo' = <<>> /\ pending' = FALSE /\ ring' = ring
    BY <1>3, <1>1 DEF RxCallback
  <2>2. fifo' \in Seq(Bytes) /\ Len(fifo') = 0
    BY <2>1
  <2>3. \A i \in 1..Len(ring') : ring'[i].tag = cdc.generation
    BY <2>1 DEF RingIsCurrent
  <2>4. Len(ring') <= RingCapacity /\ Len(fifo') <= Len(bytes) /\ ring' \in Seq(TaggedByte)
    BY <2>1, <2>2, <1>1
  <2>5. pending' \in BOOLEAN
    BY <2>1
  <2> HIDE DEF n
  <2> QED
    BY <2>1, <2>2, <2>3, <2>4, <2>5, <1>3
<1>4. CASE cdc.valid
  <2>1. /\ ring' = ring \o added
        /\ fifo' = SubSeq(bytes, n + 1, Len(bytes))
        /\ pending' = (n < Len(bytes))
    BY <1>4 DEF RxCallback
  <2> HIDE DEF n
  <2>2. added \in Seq(TaggedByte) /\ Len(added) = n
    <3>1. \A i \in 1..n : bytes[i] \in Bytes
      BY <1>2
    <3>2. \A i \in 1..n : [tag |-> cdc.generation, byte |-> bytes[i]] \in TaggedByte
      BY <3>1, <1>1 DEF TaggedByte
    <3> QED
      BY <3>2, <1>2
  <2>3. \A i \in 1..n : added[i].tag = cdc.generation /\ added[i].byte = bytes[i]
    OBVIOUS
  <2> HIDE DEF added, room
  <2>4. /\ ring' \in Seq(TaggedByte) /\ Len(ring') = Len(ring) + n
        /\ \A i \in 1..Len(ring) : ring'[i] = ring[i]
        /\ \A i \in 1..n : ring'[Len(ring) + i] = added[i]
    <3>1. added \in Seq(TaggedByte) /\ ring \in Seq(TaggedByte)
      BY <2>2, <1>1
    <3>2. (ring \o added) \in Seq(TaggedByte) /\ Len(ring \o added) = Len(ring) + Len(added)
      BY <3>1
    <3>3. \A i \in 1..Len(ring) : (ring \o added)[i] = ring[i]
      BY <3>1
    <3>4. ASSUME NEW i \in 1..Len(added) PROVE (ring \o added)[Len(ring) + i] = added[i]
      BY <3>1
    <3> QED
      BY <2>1, <2>2, <3>2, <3>3, <3>4
  <2>5. /\ fifo' \in Seq(Bytes) /\ Len(fifo') = Len(bytes) - n
        /\ \A i \in 1..Len(fifo') : fifo'[i] = bytes[n + i]
    BY <2>1, <1>1, <1>2
  <2>6. ASSUME NEW i \in 1..Len(ring'), ~(i \in 1..Len(ring) /\ ring'[i] = ring[i])
        PROVE  i - Len(ring) \in 1..n /\ ring'[i] = added[i - Len(ring)]
    <3> i \notin 1..Len(ring)
      BY <2>4, <2>6
    <3>1. i - Len(ring) \in 1..n /\ Len(ring) + (i - Len(ring)) = i
      BY <2>4, <1>1, <1>2
    <3> QED
      BY <3>1, <2>4
  <2>7. \A i \in 1..Len(ring') : ring'[i].tag = cdc.generation
    BY <2>3, <2>6 DEF RingIsCurrent
  <2>8. ASSUME NEW m \in Nat, TailOf(ring, bytes, m) PROVE TailOf(ring', fifo', m)
    <3>1. Len(ring') + Len(fifo') = Len(ring) + Len(bytes) /\ Len(fifo') \in Nat
      BY <2>4, <2>5, <1>1, <1>2
    <3>2. ASSUME NEW i \in 1..Len(ring')
          PROVE  ring'[i].byte = Byte(connections, m - (Len(ring) + Len(bytes)) + i)
      <4>1. CASE i \in 1..Len(ring) /\ ring'[i] = ring[i]
        BY <4>1, <2>8 DEF TailOf
      <4>2. CASE i - Len(ring) \in 1..n /\ ring'[i] = added[i - Len(ring)]
        <5>1. i - Len(ring) \in 1..Len(bytes) /\ ring'[i].byte = bytes[i - Len(ring)]
          BY <4>2, <2>3, <1>1, <1>2
        <5>2. bytes[i - Len(ring)] = Byte(connections, m - Len(bytes) + (i - Len(ring)))
          BY <5>1, <2>8 DEF TailOf
        <5>3. m - Len(bytes) + (i - Len(ring)) = m - (Len(ring) + Len(bytes)) + i
          BY <1>1, <5>1
        <5> QED
          BY <5>1, <5>2, <5>3
      <4> QED
        BY <4>1, <4>2, <2>6
    <3>3. ASSUME NEW i \in 1..Len(fifo')
          PROVE  fifo'[i] = Byte(connections, m - Len(fifo') + i)
      <4>1. n + i \in 1..Len(bytes) /\ fifo'[i] = bytes[n + i]
        BY <2>5, <1>1, <1>2
      <4>2. bytes[n + i] = Byte(connections, m - Len(bytes) + (n + i))
        BY <4>1, <2>8 DEF TailOf
      <4>3. m - Len(bytes) + (n + i) = m - Len(fifo') + i
        BY <2>5, <1>1, <1>2
      <4> QED
        BY <4>1, <4>2, <4>3
    <3> QED
      BY <3>1, <3>2, <3>3, <2>8 DEF TailOf
  <2>9. Len(ring') <= RingCapacity /\ Len(fifo') <= Len(bytes)
    BY <1>1, <1>2, <2>4, <2>5 DEF room
  <2>10. pending' \in BOOLEAN
    BY <2>1
  <2>11. Len(ring') + Len(fifo') = Len(ring) + Len(bytes)
    BY <1>1, <1>2, <2>4, <2>5
  <2> QED
    BY <1>4, <2>4, <2>5, <2>7, <2>8, <2>9, <2>10, <2>11
<1> QED
  BY <1>3, <1>4, <1>1

\* One more byte of the host lengthens the tail.
LEMMA TailGrows ==
  ASSUME NEW bytes \in Seq(Bytes), NEW n \in Nat, ring \in Seq(TaggedByte), TailOf(ring, bytes, n)
  PROVE  TailOf(ring, Append(bytes, Byte(connections, n + 1)), n + 1)
<1> DEFINE more == Append(bytes, Byte(connections, n + 1))
<1>1. /\ Len(more) = Len(bytes) + 1 /\ more[Len(bytes) + 1] = Byte(connections, n + 1)
      /\ \A i \in 1..Len(bytes) : more[i] = bytes[i]
      /\ Len(bytes) \in Nat /\ Len(ring) \in Nat
  OBVIOUS
<1> HIDE DEF more
<1>2. ASSUME NEW i \in 1..Len(ring)
      PROVE  ring[i].byte = Byte(connections, n + 1 - (Len(ring) + Len(more)) + i)
  <2>1. n + 1 - (Len(ring) + Len(more)) + i = n - (Len(ring) + Len(bytes)) + i
    BY <1>1
  <2> QED
    BY <2>1 DEF TailOf
<1>3. ASSUME NEW i \in 1..Len(more) PROVE more[i] = Byte(connections, n + 1 - Len(more) + i)
  <2>1. CASE i = Len(bytes) + 1
    <3>1. n + 1 - Len(more) + i = n + 1
      BY <1>1, <2>1
    <3> QED
      BY <3>1, <1>1, <2>1
  <2>2. CASE i \in 1..Len(bytes)
    <3>1. n + 1 - Len(more) + i = n - Len(bytes) + i
      BY <1>1
    <3> QED
      BY <3>1, <1>1, <2>2 DEF TailOf
  <2> QED
    BY <2>1, <2>2, <1>1
<1>4. Len(ring) + Len(more) <= n + 1
  BY <1>1 DEF TailOf
<1>5. TailOf(ring, more, n + 1)
  BY <1>2, <1>3, <1>4 DEF TailOf
<1> QED
  BY <1>5 DEF more

(***************************************************************************)
(* The bus.                                                                *)
(***************************************************************************)
\* The next generation, if there is one.
LEMMA AdvanceFacts ==
  ASSUME cdc \in CdcState
  PROVE  /\ AdvanceGeneration(cdc) \in CdcState
         /\ AdvanceGeneration(cdc).mountSeen = cdc.mountSeen
         /\ AdvanceGeneration(cdc).generation >= cdc.generation
         /\ AdvanceGeneration(cdc).valid => AdvanceGeneration(cdc).generation > cdc.generation
<1> USE CdcAssumption
<1>1. CASE cdc.valid /\ cdc.generation = GenerationMax
  <2> DEFINE next == [cdc EXCEPT !.valid = FALSE]
  <2>1. AdvanceGeneration(cdc) = next
    BY <1>1 DEF AdvanceGeneration
  <2>2. /\ next \in CdcState /\ next.mountSeen = cdc.mountSeen
        /\ next.generation = cdc.generation /\ next.valid = FALSE
    BY DEF CdcState
  <2>3. cdc.generation \in Nat
    BY DEF CdcState
  <2> HIDE DEF next
  <2> QED
    BY <2>1, <2>2, <2>3
<1>2. CASE cdc.valid /\ cdc.generation # GenerationMax
  <2>1. AdvanceGeneration(cdc) = [cdc EXCEPT !.generation = cdc.generation + 1]
    BY <1>2 DEF AdvanceGeneration
  <2>2. cdc.generation + 1 \in 1..GenerationMax
    BY <1>2 DEF CdcState
  <2> QED
    BY <2>1, <2>2 DEF CdcState
<1>3. CASE ~cdc.valid
  <2>1. AdvanceGeneration(cdc) = cdc
    BY <1>3 DEF AdvanceGeneration
  <2> QED
    BY <2>1, <1>3 DEF CdcState
<1> QED
  BY <1>1, <1>2, <1>3

\* What the stack makes of the bus: on a bus that stays nothing changes.
LEMMA BusFacts ==
  ASSUME CdcTypeOK, RingIsCurrent
  PROVE  /\ BusState(cdc) \in CdcState
         /\ bus => BusState(cdc) = cdc
         /\ BusState(cdc).mounted = bus
         /\ BusState(cdc).mountSeen = cdc.mountSeen
         /\ BusState(cdc).generation >= cdc.generation
<1> USE CdcAssumption
<1>1. cdc \in CdcState /\ bus \in BOOLEAN
  BY DEF CdcTypeOK, CdcState
<1>2. CASE bus = cdc.mounted
  BY <1>1, <1>2 DEF BusState, CdcState
<1>3. CASE bus # cdc.mounted
  <2>1. bus = FALSE /\ cdc.mounted = TRUE /\ BusState(cdc) = BusUnmount(cdc)
    BY <1>1, <1>3 DEF BusState, RingIsCurrent, CdcState
  <2>2. BusUnmount(cdc) = [AdvanceGeneration(cdc) EXCEPT !.mounted = FALSE]
    BY <2>1 DEF BusUnmount
  <2>3. /\ AdvanceGeneration(cdc) \in CdcState
        /\ AdvanceGeneration(cdc).mountSeen = cdc.mountSeen
        /\ AdvanceGeneration(cdc).generation >= cdc.generation
    BY <1>1, AdvanceFacts
  <2> HIDE DEF AdvanceGeneration
  <2>4. /\ BusUnmount(cdc) \in CdcState /\ BusUnmount(cdc).mounted = FALSE
        /\ BusUnmount(cdc).mountSeen = cdc.mountSeen
        /\ BusUnmount(cdc).generation >= cdc.generation
    BY <2>2, <2>3 DEF CdcState
  <2> QED
    BY <2>1, <2>4
<1> QED
  BY <1>2, <1>3

\* A second mount is of a new generation, or of none when they are exhausted.
LEMMA MountFacts ==
  ASSUME CdcTypeOK
  PROVE  /\ BusMount(cdc) \in CdcState /\ BusMount(cdc).mounted /\ BusMount(cdc).mountSeen
         /\ BusMount(cdc).generation >= cdc.generation
         /\ cdc.mountSeen /\ BusMount(cdc).valid =>
              BusMount(cdc).generation > cdc.generation
<1> USE CdcAssumption
<1>1. cdc \in CdcState
  BY DEF CdcTypeOK, CdcState
<1>2. /\ AdvanceGeneration(cdc) \in CdcState
      /\ AdvanceGeneration(cdc).generation >= cdc.generation
      /\ AdvanceGeneration(cdc).valid => AdvanceGeneration(cdc).generation > cdc.generation
  BY <1>1, AdvanceFacts
<1> DEFINE next == IF cdc.mountSeen THEN AdvanceGeneration(cdc) ELSE cdc
<1>3. /\ next \in CdcState /\ next.generation >= cdc.generation
      /\ cdc.mountSeen /\ next.valid => next.generation > cdc.generation
  BY <1>1, <1>2 DEF CdcState
<1>4. BusMount(cdc) = [next EXCEPT !.mountSeen = TRUE, !.mounted = TRUE]
  BY DEF BusMount
<1> HIDE DEF next
<1> QED
  BY <1>3, <1>4 DEF CdcState

\* The host's side of the bus comes and goes.
LEMMA MountKeeps == RingInv /\ Mount => RingInv'
<1> SUFFICES ASSUME RingInv, Mount PROVE RingInv'
  OBVIOUS
<1> USE CdcAssumption DEF RingInv
<1>1. /\ ring' = <<>> /\ fifo' = <<>> /\ pending' = FALSE /\ bus' = TRUE /\ sent' = 0
      /\ connections' = connections + 1 /\ connections < MaxConnections
      /\ cdc' = BusMount(cdc) /\ UNCHANGED taskVars
  BY DEF Mount, Flush
<1>2. /\ cdc' \in CdcState /\ cdc'.mounted /\ cdc'.mountSeen
      /\ cdc'.generation >= cdc.generation
      /\ cdc.mountSeen /\ cdc'.valid => cdc'.generation > cdc.generation
  BY <1>1, MountFacts
<1>3. CdcTypeOK'
  <2>1. /\ fifo' \in Seq(Bytes) /\ Len(fifo') = 0 /\ ring' \in Seq(TaggedByte) /\ Len(ring') = 0
        /\ connections' \in 0..MaxConnections /\ sent' \in 0..MaxBytes
    BY <1>1 DEF CdcTypeOK
  <2>2. cdc' \in [generation : 1..GenerationMax, mounted : BOOLEAN, mountSeen : BOOLEAN,
                  valid : BOOLEAN]
    BY <1>2 DEF CdcState
  <2>3. Len(fifo') <= MaxBytes /\ Len(ring') <= RingCapacity
    BY <2>1
  <2>4. known' /\ link' => wasMounted'
    BY <1>1 DEF CdcTypeOK, taskVars
  <2>5. /\ pump' = pump /\ snapshot' = snapshot /\ known' = known /\ wasMounted' = wasMounted
        /\ rxGeneration' = rxGeneration /\ link' = link /\ parsed' = parsed
        /\ restarted' = restarted /\ bus' \in BOOLEAN /\ pending' \in BOOLEAN
    BY <1>1 DEF taskVars
  <2> QED
    BY <2>1, <2>2, <2>3, <2>4, <2>5 DEF CdcTypeOK, TaggedByte
<1>4. RingIsCurrent' /\ WaitingIsTail'
  BY <1>1, <1>2, <1>3 DEF RingIsCurrent, WaitingIsTail, TailOf, CdcTypeOK
<1>5. TaskIsBehind'
  BY <1>1, <1>2 DEF TaskIsBehind, taskVars, CdcTypeOK, CdcState
<1>6. ~(cdc'.valid /\ Following')
  BY <1>1, <1>2 DEF Following, TaskIsBehind, taskVars, CdcTypeOK, CdcState
<1>7. SnapshotAgrees' /\ NothingLost'
  BY <1>1, <1>6 DEF SnapshotAgrees, NothingLost, Waiting
<1> QED
  BY <1>1, <1>3, <1>4, <1>5, <1>7 DEF OneStream, taskVars

LEMMA UnmountKeeps == RingInv /\ (Unmount \/ BusReset) => RingInv'
<1> SUFFICES ASSUME RingInv, Unmount \/ BusReset PROVE RingInv'
  OBVIOUS
<1> USE CdcAssumption DEF RingInv
<1>1. /\ bus' = FALSE /\ fifo' = <<>> /\ UNCHANGED <<taskVars, hostVars>>
      /\ \/ cdc' = BusUnmount(cdc) /\ ring' = <<>> /\ pending' = FALSE
         \/ UNCHANGED <<cdc, ring, pending>>
  BY DEF Unmount, BusReset, Flush
<1>2. /\ cdc' \in CdcState /\ cdc'.generation >= cdc.generation
      /\ cdc'.mountSeen = cdc.mountSeen /\ (cdc'.mounted => cdc.mounted)
  <2>1. cdc \in CdcState
    BY DEF CdcTypeOK, CdcState
  <2>2. /\ AdvanceGeneration(cdc) \in CdcState
        /\ AdvanceGeneration(cdc).mountSeen = cdc.mountSeen
        /\ AdvanceGeneration(cdc).generation >= cdc.generation
    BY <2>1, AdvanceFacts
  <2> DEFINE next == IF cdc.mounted THEN AdvanceGeneration(cdc) ELSE cdc
  <2>3. /\ next \in CdcState /\ next.mountSeen = cdc.mountSeen
        /\ next.generation >= cdc.generation
    BY <2>1, <2>2 DEF CdcState
  <2>4. BusUnmount(cdc) = [next EXCEPT !.mounted = FALSE]
    BY DEF BusUnmount
  <2> HIDE DEF next
  <2>5. /\ BusUnmount(cdc) \in CdcState /\ BusUnmount(cdc).mounted = FALSE
        /\ BusUnmount(cdc).mountSeen = cdc.mountSeen
        /\ BusUnmount(cdc).generation >= cdc.generation
    BY <2>3, <2>4 DEF CdcState
  <2> QED
    BY <1>1, <2>1, <2>5 DEF CdcState
<1>3. CdcTypeOK'
  <2>1. /\ fifo' \in Seq(Bytes) /\ Len(fifo') = 0 /\ ring' \in Seq(TaggedByte)
        /\ Len(ring') <= RingCapacity
    <3>1. ring \in Seq(TaggedByte) /\ Len(ring) <= RingCapacity
      BY DEF CdcTypeOK, TaggedByte
    <3>2. CASE ring' = <<>>
      BY <1>1, <3>2
    <3>3. CASE ring' = ring
      BY <1>1, <3>1, <3>3
    <3> QED
      BY <1>1, <3>2, <3>3
  <2>2. cdc' \in [generation : 1..GenerationMax, mounted : BOOLEAN, mountSeen : BOOLEAN,
                  valid : BOOLEAN]
    BY <1>2 DEF CdcState
  <2>3. Len(fifo') <= MaxBytes
    BY <2>1
  <2>4. known' /\ link' => wasMounted'
    BY <1>1 DEF CdcTypeOK, taskVars
  <2>5. /\ pump' = pump /\ snapshot' = snapshot /\ known' = known /\ wasMounted' = wasMounted
        /\ rxGeneration' = rxGeneration /\ link' = link /\ parsed' = parsed
        /\ restarted' = restarted /\ bus' \in BOOLEAN /\ pending' \in BOOLEAN
        /\ connections' = connections /\ sent' = sent
    BY <1>1 DEF taskVars, hostVars, CdcTypeOK
  <2> QED
    BY <2>1, <2>2, <2>3, <2>4, <2>5 DEF CdcTypeOK, TaggedByte
<1>4. RingIsCurrent'
  BY <1>1, <1>2 DEF RingIsCurrent, hostVars
<1>5. TaskIsBehind'
  BY <1>1, <1>2 DEF TaskIsBehind, taskVars, CdcTypeOK, CdcState
<1> QED
  BY <1>1, <1>3, <1>4, <1>5 DEF WaitingIsTail, SnapshotAgrees, NothingLost, OneStream, taskVars

\* A byte arrives.
LEMMA ReceiveKeeps == RingInv /\ Receive => RingInv'
<1> SUFFICES ASSUME RingInv, Receive PROVE RingInv'
  OBVIOUS
<1> USE CdcAssumption DEF RingInv
<1> DEFINE bytes == Append(fifo, Byte(connections, sent + 1))
<1>1. /\ bus /\ sent < MaxBytes /\ sent' = sent + 1 /\ RxCallback(bytes)
      /\ UNCHANGED <<cdc, bus, taskVars, connections>>
  BY DEF Receive
<1>2. /\ sent \in Nat /\ connections \in 1..MaxConnections /\ cdc.valid \in BOOLEAN
      /\ fifo \in Seq(Bytes) /\ ring \in Seq(TaggedByte) /\ parsed \in Seq(Bytes)
  BY <1>1 DEF CdcTypeOK, RingIsCurrent, TaggedByte
<1>3. bytes \in Seq(Bytes) /\ Len(bytes) = Len(fifo) + 1
  <2>1. Byte(connections, sent + 1) \in Bytes
    BY <1>1, <1>2 DEF Byte, Bytes, CdcTypeOK
  <2> QED
    BY <1>2, <2>1
<1> HIDE DEF bytes
<1>4. /\ ring' \in Seq(TaggedByte) /\ Len(ring') <= RingCapacity
      /\ fifo' \in Seq(Bytes) /\ pending' \in BOOLEAN
      /\ Len(fifo') <= Len(bytes)
      /\ \A i \in 1..Len(ring') : ring'[i].tag = cdc.generation
      /\ ~cdc.valid => fifo' = <<>>
      /\ cdc.valid => Len(ring') + Len(fifo') = Len(ring) + Len(bytes)
      /\ cdc.valid => \A n \in Nat : TailOf(ring, bytes, n) => TailOf(ring', fifo', n)
  BY <1>1, <1>3, CallbackKeeps
<1>5. WaitingIsTail'
  <2> SUFFICES ASSUME cdc.valid PROVE TailOf(ring', fifo', sent + 1)
    BY <1>1 DEF WaitingIsTail, TailOf
  <2>1. TailOf(ring, fifo, sent)
    BY <1>1 DEF WaitingIsTail
  <2>2. TailOf(ring, bytes, sent + 1)
    BY <1>2, <2>1, TailGrows DEF bytes
  <2>3. sent + 1 \in Nat
    BY <1>2
  <2> QED
    BY <1>4, <2>2, <2>3
<1>6. Len(fifo') <= MaxBytes
  <2>1. CASE cdc.valid
    <3>1. Len(ring') + Len(fifo') <= sent + 1 /\ Len(ring') \in Nat /\ Len(fifo') \in Nat
      BY <1>1, <1>4, <1>5, <2>1 DEF WaitingIsTail, TailOf
    <3> QED
      BY <1>1, <1>2, <3>1
  <2>2. CASE ~cdc.valid
    BY <1>4, <2>2
  <2> QED
    BY <2>1, <2>2
<1>7. CdcTypeOK'
  BY <1>1, <1>2, <1>4, <1>6 DEF CdcTypeOK, TaggedByte, taskVars
<1>8. RingIsCurrent' /\ TaskIsBehind' /\ SnapshotAgrees'
  BY <1>1, <1>4 DEF RingIsCurrent, TaskIsBehind, SnapshotAgrees, Following, taskVars
<1>9. NothingLost'
  <2> SUFFICES ASSUME cdc.valid PROVE NothingLost'
    BY <1>1 DEF NothingLost
  <2>1. /\ Waiting' = Waiting + 1 /\ Waiting \in Nat /\ Len(parsed) \in Nat
        /\ UNCHANGED <<known, wasMounted, rxGeneration, link, parsed, restarted, cdc, bus, connections>>
    BY <1>1, <1>2, <1>3, <1>4 DEF Waiting, taskVars
  <2>2. ASSUME Following, link, NEW i \in 1..Len(parsed)
        PROVE  parsed[i] = Byte(connections, sent' - Waiting' - Len(parsed) + i)
    <3>1. sent' - Waiting' - Len(parsed) + i = sent - Waiting - Len(parsed) + i
      BY <1>1, <1>2, <2>1
    <3> QED
      BY <1>1, <2>2, <3>1 DEF NothingLost
  <2>3. Following' = Following
    BY <2>1 DEF Following
  <2> HIDE DEF Waiting
  <2> QED
    BY <1>1, <1>2, <2>1, <2>2, <2>3 DEF NothingLost
<1> QED
  BY <1>1, <1>5, <1>7, <1>8, <1>9 DEF OneStream, taskVars

\* The pump repeats a callback that was cut short.
LEMMA PumpKeeps == RingInv /\ Pump => RingInv'
<1> SUFFICES ASSUME RingInv, Pump PROVE RingInv'
  OBVIOUS
<1> USE CdcAssumption DEF RingInv
<1>1. /\ pump' = "update"
      /\ \/ bus /\ RxCallback(fifo)
         \/ UNCHANGED <<ring, fifo, pending>>
      /\ UNCHANGED <<cdc, bus, snapshot, known, wasMounted, rxGeneration, link, parsed, restarted,
                     hostVars>>
  BY DEF Pump
<1>2. /\ sent \in Nat /\ cdc.valid \in BOOLEAN
      /\ fifo \in Seq(Bytes) /\ ring \in Seq(TaggedByte) /\ parsed \in Seq(Bytes)
      /\ Len(fifo) <= MaxBytes
  BY <1>1 DEF CdcTypeOK, TaggedByte
<1>3. CASE bus /\ RxCallback(fifo)
  <2>1. /\ ring' \in Seq(TaggedByte) /\ Len(ring') <= RingCapacity
        /\ fifo' \in Seq(Bytes) /\ pending' \in BOOLEAN
        /\ Len(fifo') <= Len(fifo)
        /\ \A i \in 1..Len(ring') : ring'[i].tag = cdc.generation
        /\ cdc.valid => Len(ring') + Len(fifo') = Len(ring) + Len(fifo)
        /\ cdc.valid => \A n \in Nat : TailOf(ring, fifo, n) => TailOf(ring', fifo', n)
    BY <1>2, <1>3, CallbackKeeps
  <2>2. CdcTypeOK'
    <3>1. Len(fifo') <= MaxBytes
      BY <1>2, <2>1
    <3> QED
      BY <1>1, <2>1, <3>1 DEF CdcTypeOK, TaggedByte, hostVars
  <2>3. WaitingIsTail'
    <3> SUFFICES ASSUME cdc.valid PROVE TailOf(ring', fifo', sent)
      BY <1>1 DEF WaitingIsTail, TailOf, hostVars
    <3>1. TailOf(ring, fifo, sent)
      BY <1>3 DEF WaitingIsTail
    <3> QED
      BY <1>2, <2>1, <3>1
  <2>4. RingIsCurrent' /\ TaskIsBehind' /\ SnapshotAgrees'
    BY <1>1, <1>3, <2>1 DEF RingIsCurrent, TaskIsBehind, SnapshotAgrees, hostVars
  <2>5. cdc.valid => Waiting' = Waiting
    BY <2>1 DEF Waiting
  <2>6. NothingLost'
    BY <1>1, <2>5 DEF NothingLost, Following, hostVars
  <2> QED
    BY <1>1, <2>2, <2>3, <2>4, <2>6 DEF OneStream
<1>4. CASE UNCHANGED <<ring, fifo, pending>>
  <2>1. CdcTypeOK'
    BY <1>1, <1>4 DEF CdcTypeOK, hostVars
  <2>2. RingIsCurrent' /\ TaskIsBehind' /\ SnapshotAgrees' /\ OneStream'
    BY <1>1, <1>4 DEF RingIsCurrent, TaskIsBehind, SnapshotAgrees, hostVars, OneStream
  <2>3. WaitingIsTail' /\ NothingLost'
    BY <1>1, <1>4 DEF WaitingIsTail, TailOf, NothingLost, Following, Waiting, hostVars
  <2> QED
    BY <2>1, <2>2, <2>3
<1> QED
  BY <1>1, <1>3, <1>4

(***************************************************************************)
(* The transport task.                                                     *)
(***************************************************************************)
\* What is in the ring while the task runs: the stack takes notice of the bus, and leaves
\* the ring to the caller only when the bus has not changed.
LEMMA StackKeeps ==
  ASSUME RingInv, cdc' = BusState(cdc), UNCHANGED <<bus, hostVars>>,
         (fifo' = fifo /\ pending' = pending) \/ (fifo' = <<>> /\ pending' = FALSE),
         \/ ring' = <<>>
         \/ ring' = ring /\ BusState(cdc) = cdc
  PROVE  /\ cdc' \in CdcState /\ cdc'.generation >= cdc.generation
         /\ cdc'.mountSeen = cdc.mountSeen /\ (bus => cdc' = cdc)
         /\ ring' \in Seq(TaggedByte) /\ Len(ring') <= RingCapacity
         /\ fifo' \in Seq(Bytes) /\ Len(fifo') <= MaxBytes /\ pending' \in BOOLEAN
         /\ RingIsCurrent'
<1> USE CdcAssumption DEF RingInv
<1>1. /\ cdc' \in CdcState /\ cdc'.generation >= cdc.generation /\ cdc'.mounted = bus
      /\ cdc'.mountSeen = cdc.mountSeen /\ (bus => cdc' = cdc)
  BY BusFacts
<1>2. /\ ring \in Seq(TaggedByte) /\ Len(ring) <= RingCapacity
      /\ fifo \in Seq(Bytes) /\ Len(fifo) <= MaxBytes /\ pending \in BOOLEAN
  BY DEF CdcTypeOK, TaggedByte
<1>3. fifo' \in Seq(Bytes) /\ Len(fifo') <= MaxBytes /\ pending' \in BOOLEAN
  <2>1. CASE fifo' = fifo /\ pending' = pending
    BY <1>2, <2>1
  <2>2. CASE fifo' = <<>> /\ pending' = FALSE
    <3>1. fifo' \in Seq(Bytes) /\ Len(fifo') = 0
      BY <2>2
    <3>2. pending' \in BOOLEAN
      BY <2>2
    <3> QED
      BY <3>1, <3>2
  <2> QED
    BY <2>1, <2>2
<1>4. /\ ring' \in Seq(TaggedByte) /\ Len(ring') <= RingCapacity
      /\ \A i \in 1..Len(ring') : ring'[i].tag = cdc'.generation
  <2>1. CASE ring' = <<>>
    BY <2>1
  <2>2. CASE ring' = ring /\ BusState(cdc) = cdc
    BY <1>2, <2>2 DEF RingIsCurrent
  <2> QED
    BY <2>1, <2>2
<1>5. RingIsCurrent'
  BY <1>1, <1>4 DEF RingIsCurrent, hostVars, CdcState, CdcTypeOK
<1> QED
  BY <1>1, <1>3, <1>4, <1>5

\* The functions that look at the bus first, with what they would leave in the ring.
LEMMA SynchronizedIs ==
  ASSUME RingInv, NEW kept, Synchronized(kept), UNCHANGED <<bus, hostVars>>,
         kept = ring \/ kept = <<>>
  PROVE  /\ cdc' = BusState(cdc)
         /\ (fifo' = fifo /\ pending' = pending) \/ (fifo' = <<>> /\ pending' = FALSE)
         /\ ring' = <<>> \/ (ring' = ring /\ BusState(cdc) = cdc)
         /\ bus /\ cdc.valid => ring' = kept /\ fifo' = fifo
<1>1. bus => BusState(cdc) = cdc
  BY BusFacts DEF RingInv
<1>2. cdc' = BusState(cdc)
  BY DEF Synchronized
<1>3. CASE BusState(cdc) # cdc
  BY <1>1, <1>2, <1>3 DEF Synchronized, Flush
<1>4. CASE BusState(cdc) = cdc
  <2>1. /\ ring' = IF bus /\ cdc.valid THEN kept ELSE <<>>
        /\ fifo' = fifo /\ pending' = pending
    BY <1>4 DEF Synchronized
  <2> QED
    BY <1>2, <1>4, <2>1
<1> QED
  BY <1>3, <1>4

\* rx_state: the snapshot that the task acts on.
LEMMA ObserveKeeps == RingInv /\ Observe => RingInv'
<1> SUFFICES ASSUME RingInv, Observe PROVE RingInv'
  OBVIOUS
<1> USE CdcAssumption DEF RingInv
<1> DEFINE kept == Filtered(ring, BusState(cdc).generation)
<1>1. /\ Synchronized(kept)
      /\ pump' = "apply" /\ snapshot' = [mounted |-> bus /\ cdc'.valid, generation |-> cdc'.generation]
      /\ UNCHANGED <<bus, known, wasMounted, rxGeneration, link, parsed, restarted, hostVars>>
  BY DEF Observe
<1> DEFINE left == IF BusState(cdc) = cdc THEN kept ELSE ring
<1>2. left = ring
  <2>1. CASE BusState(cdc) = cdc
    <3>1. ring \in Seq(TaggedByte) /\ \A i \in 1..Len(ring) : ring[i].tag = cdc.generation
      BY DEF CdcTypeOK, TaggedByte, RingIsCurrent
    <3> QED
      BY <2>1, <3>1, FilteredKeepsAll
  <2> QED
    BY <2>1
<1>3. Synchronized(left)
  BY <1>1 DEF Synchronized
<1> HIDE DEF kept, left
<1>4. /\ cdc' = BusState(cdc)
      /\ (fifo' = fifo /\ pending' = pending) \/ (fifo' = <<>> /\ pending' = FALSE)
      /\ ring' = <<>> \/ (ring' = ring /\ BusState(cdc) = cdc)
      /\ bus /\ cdc.valid => ring' = ring /\ fifo' = fifo
  BY <1>1, <1>2, <1>3, SynchronizedIs
<1>5. /\ cdc' \in CdcState /\ cdc'.generation >= cdc.generation
      /\ cdc'.mountSeen = cdc.mountSeen /\ (bus => cdc' = cdc)
      /\ ring' \in Seq(TaggedByte) /\ Len(ring') <= RingCapacity
      /\ fifo' \in Seq(Bytes) /\ Len(fifo') <= MaxBytes /\ pending' \in BOOLEAN
      /\ RingIsCurrent'
  BY <1>1, <1>4, StackKeeps
<1>6. /\ snapshot' \in [mounted : BOOLEAN, generation : 0..GenerationMax]
      /\ snapshot'.generation = cdc'.generation /\ snapshot'.mounted = (bus /\ cdc'.valid)
  <2>1. (bus /\ cdc'.valid) \in BOOLEAN /\ cdc'.generation \in 0..GenerationMax
    BY <1>5 DEF CdcState, CdcTypeOK
  <2> QED
    BY <1>1, <2>1
<1>7. CdcTypeOK'
  <2>1. cdc' \in [generation : 1..GenerationMax, mounted : BOOLEAN, mountSeen : BOOLEAN,
                  valid : BOOLEAN]
    BY <1>5 DEF CdcState
  <2> QED
    BY <1>1, <1>5, <1>6, <2>1 DEF CdcTypeOK, TaggedByte, hostVars
<1>8. TaskIsBehind'
  <2>1. bus => cdc.mountSeen
    BY DEF RingIsCurrent
  <2>2. /\ rxGeneration \in Nat /\ cdc.generation \in Nat /\ cdc'.generation \in Nat
        /\ rxGeneration <= cdc.generation
    BY <1>5 DEF CdcTypeOK, CdcState, TaskIsBehind
  <2>3. snapshot'.mounted => bus
    BY <1>6
  <2>4. rxGeneration' <= cdc'.generation /\ snapshot'.generation <= cdc'.generation
    BY <1>1, <1>5, <1>6, <2>2
  <2> QED
    BY <1>1, <1>5, <2>1, <2>3, <2>4 DEF TaskIsBehind
<1>9. SnapshotAgrees'
  BY <1>1, <1>5, <1>6 DEF SnapshotAgrees, Following
<1>10. WaitingIsTail' /\ NothingLost'
  BY <1>1, <1>4, <1>5 DEF WaitingIsTail, TailOf, NothingLost, Following, Waiting, hostVars
<1> QED
  BY <1>1, <1>5, <1>7, <1>8, <1>9, <1>10 DEF OneStream

\* cdc_update follows the bus: the link of a new connection starts with nothing parsed
\* and everything waiting.
LEMMA FollowKeeps == RingInv /\ Follow => RingInv'
<1> SUFFICES ASSUME RingInv, Follow PROVE RingInv'
  OBVIOUS
<1> USE CdcAssumption DEF RingInv
<1>1. /\ pump = "apply" /\ Changed
      /\ known' = TRUE /\ wasMounted' = snapshot.mounted /\ rxGeneration' = snapshot.generation
      /\ link' = snapshot.mounted
      /\ parsed' = IF link \/ snapshot.mounted THEN <<>> ELSE parsed
      /\ restarted' = (restarted /\ ~snapshot.mounted)
      /\ pump' = IF snapshot.mounted THEN "read" ELSE "clear"
      /\ UNCHANGED <<usbVars, snapshot, hostVars>>
  BY DEF Follow
<1>2. /\ snapshot.mounted \in BOOLEAN /\ snapshot.generation \in 0..GenerationMax
      /\ parsed \in Seq(Bytes) /\ cdc.generation \in 1..GenerationMax
  BY DEF CdcTypeOK
<1>3. parsed' \in Seq(Bytes) /\ (parsed' = <<>> \/ parsed' = parsed)
  BY <1>1, <1>2
<1>4. CdcTypeOK'
  BY <1>1, <1>2, <1>3 DEF CdcTypeOK, usbVars, hostVars
<1>5. RingIsCurrent' /\ WaitingIsTail'
  BY <1>1 DEF RingIsCurrent, WaitingIsTail, TailOf, usbVars, hostVars
<1>6. TaskIsBehind' /\ SnapshotAgrees'
  BY <1>1 DEF TaskIsBehind, SnapshotAgrees, usbVars
<1>7. bus /\ cdc.valid => Waiting = sent
  <2> SUFFICES ASSUME bus, cdc.valid, Following PROVE FALSE
    BY DEF NothingLost
  <2>1. snapshot.generation = cdc.generation /\ snapshot.mounted
    BY <1>1 DEF SnapshotAgrees
  <2> QED
    BY <1>1, <2>1 DEF Following, Changed, CdcTypeOK
<1>8. NothingLost'
  <2> SUFFICES ASSUME bus, cdc.valid PROVE NothingLost'
    BY <1>1 DEF NothingLost, usbVars
  <2>1. Waiting' = Waiting /\ sent' = sent /\ sent \in Nat /\ Waiting = sent
    BY <1>1, <1>7 DEF usbVars, hostVars, Waiting, CdcTypeOK
  <2>2. link' => parsed' = <<>>
    BY <1>1
  <2> HIDE DEF Waiting
  <2>3. link' => Len(parsed') = 0
    BY <2>2
  <2> QED
    BY <1>3, <2>1, <2>3 DEF NothingLost
<1>9. OneStream'
  <2>1. CASE parsed' = <<>>
    BY <2>1 DEF OneStream
  <2>2. CASE parsed' = parsed
    <3>1. parsed = <<>> \/ restarted' = restarted
      BY <1>1, <1>2, <2>2 DEF CdcTypeOK
    <3> QED
      BY <2>2, <3>1 DEF OneStream
  <2> QED
    BY <1>3, <2>1, <2>2
<1> QED
  BY <1>4, <1>5, <1>6, <1>8, <1>9

\* rx_restart: what is left of a connection starts a new generation.
LEMMA RestartKeeps == RingInv /\ Restart => RingInv'
<1> SUFFICES ASSUME RingInv, Restart PROVE RingInv'
  OBVIOUS
<1> USE CdcAssumption DEF RingInv
<1>1. /\ BusState(cdc) \in CdcState /\ (bus => BusState(cdc) = cdc)
      /\ BusState(cdc).mounted = bus /\ BusState(cdc).mountSeen = cdc.mountSeen
      /\ BusState(cdc).generation >= cdc.generation
  BY BusFacts
<1>2. pump = "apply" /\ ~Changed /\ snapshot.mounted /\ UNCHANGED <<bus, snapshot, known, hostVars>>
  BY DEF Restart
<1>3. known /\ wasMounted = TRUE /\ rxGeneration = snapshot.generation
  BY <1>2 DEF Changed, CdcTypeOK
<1>4. CASE bus /\ BusState(cdc).valid /\ BusState(cdc).generation < GenerationMax
  <2>1. /\ cdc' = [cdc EXCEPT !.generation = cdc.generation + 1]
        /\ ring' = <<>> /\ fifo' = <<>> /\ pending' = FALSE
        /\ rxGeneration' = cdc.generation + 1 /\ link' = TRUE /\ parsed' = <<>>
        /\ restarted' = TRUE /\ pump' = "read" /\ UNCHANGED wasMounted
    BY <1>1, <1>4 DEF Restart, Flush
  <2>2. /\ cdc' \in CdcState /\ cdc'.generation = cdc.generation + 1 /\ cdc'.mounted = cdc.mounted
        /\ cdc'.mountSeen = cdc.mountSeen /\ cdc'.generation \in 1..GenerationMax
    BY <1>1, <1>4, <2>1 DEF CdcState
  <2>3. /\ fifo' \in Seq(Bytes) /\ Len(fifo') = 0 /\ ring' \in Seq(TaggedByte) /\ Len(ring') = 0
        /\ parsed' \in Seq(Bytes) /\ Len(parsed') = 0
    BY <2>1
  <2>4. CdcTypeOK'
    <3>1. cdc' \in [generation : 1..GenerationMax, mounted : BOOLEAN, mountSeen : BOOLEAN,
                    valid : BOOLEAN]
      BY <2>2 DEF CdcState
    <3>2. Len(fifo') <= MaxBytes /\ Len(ring') <= RingCapacity
      BY <2>3
    <3>3. rxGeneration' \in 0..GenerationMax
      BY <2>1, <2>2
    <3> QED
      BY <1>2, <1>3, <2>1, <2>3, <3>1, <3>2, <3>3 DEF CdcTypeOK, TaggedByte, hostVars
  <2>5. RingIsCurrent' /\ WaitingIsTail'
    BY <1>2, <2>1, <2>2, <2>3 DEF RingIsCurrent, WaitingIsTail, TailOf, hostVars, CdcTypeOK
  <2>6. TaskIsBehind' /\ SnapshotAgrees'
    BY <1>2, <1>3, <2>1, <2>2 DEF TaskIsBehind, SnapshotAgrees, CdcTypeOK, CdcState
  <2>7. NothingLost'
    <3>1. Following'
      BY <1>2, <1>3, <2>1, <2>2 DEF Following
    <3>2. Waiting' = 0 /\ sent' \in Nat
      BY <1>2, <2>3 DEF Waiting, hostVars, CdcTypeOK
    <3> QED
      BY <2>1, <2>3, <3>1, <3>2 DEF NothingLost
  <2> QED
    BY <2>1, <2>4, <2>5, <2>6, <2>7 DEF OneStream
<1>5. CASE ~(bus /\ BusState(cdc).valid /\ BusState(cdc).generation < GenerationMax)
  <2>1. /\ cdc' = IF bus THEN [cdc EXCEPT !.valid = FALSE] ELSE BusState(cdc)
        /\ \/ ring' = <<>> /\ fifo' = <<>> /\ pending' = FALSE
           \/ BusState(cdc) = cdc /\ UNCHANGED <<ring, fifo, pending>>
        /\ wasMounted' = FALSE /\ pump' = "clear"
        /\ UNCHANGED <<rxGeneration, link, parsed, restarted>>
    BY <1>1, <1>5 DEF Restart, Flush
  <2>2. ~link
    BY <1>2 DEF Restart
  <2>3. /\ cdc' \in CdcState /\ cdc'.generation >= cdc.generation /\ cdc'.mounted = bus
        /\ cdc'.mountSeen = cdc.mountSeen /\ (bus => ~cdc'.valid)
        /\ (BusState(cdc) = cdc => cdc'.generation = cdc.generation)
    BY <1>1, <2>1 DEF CdcState
  <2>4. /\ ring' \in Seq(TaggedByte) /\ Len(ring') <= RingCapacity
        /\ fifo' \in Seq(Bytes) /\ Len(fifo') <= MaxBytes /\ pending' \in BOOLEAN
        /\ \A i \in 1..Len(ring') : ring'[i].tag = cdc'.generation
        /\ ~bus => fifo' = <<>>
    <3>1. CASE ring' = <<>> /\ fifo' = <<>> /\ pending' = FALSE
      <4>1. ring' \in Seq(TaggedByte) /\ Len(ring') = 0
        BY <3>1
      <4>2. fifo' \in Seq(Bytes) /\ Len(fifo') = 0
        BY <3>1
      <4>3. pending' \in BOOLEAN
        BY <3>1
      <4> QED
        BY <3>1, <4>1, <4>2, <4>3
    <3>2. CASE BusState(cdc) = cdc /\ UNCHANGED <<ring, fifo, pending>>
      BY <2>3, <3>2 DEF CdcTypeOK, TaggedByte, RingIsCurrent
    <3> QED
      BY <2>1, <3>1, <3>2
  <2>5. CdcTypeOK'
    <3>1. cdc' \in [generation : 1..GenerationMax, mounted : BOOLEAN, mountSeen : BOOLEAN,
                    valid : BOOLEAN]
      BY <2>3 DEF CdcState
    <3> QED
      BY <1>2, <2>1, <2>2, <2>4, <3>1 DEF CdcTypeOK, TaggedByte, hostVars
  <2>6. RingIsCurrent'
    BY <1>2, <2>3, <2>4 DEF RingIsCurrent, hostVars
  <2>7. TaskIsBehind'
    <3>1. rxGeneration' <= cdc'.generation /\ snapshot'.generation <= cdc'.generation
      BY <1>2, <2>1, <2>3 DEF TaskIsBehind, CdcTypeOK, CdcState
    <3> QED
      BY <1>2, <2>1, <2>2, <2>3, <3>1 DEF TaskIsBehind
  <2>8. SnapshotAgrees' /\ WaitingIsTail' /\ NothingLost'
    BY <1>2, <2>1, <2>3 DEF SnapshotAgrees, WaitingIsTail, NothingLost
  <2> QED
    BY <2>1, <2>5, <2>6, <2>7, <2>8 DEF OneStream
<1> QED
  BY <1>4, <1>5

\* clear_rx_if_unmounted.
LEMMA ClearKeeps == RingInv /\ ClearIfUnmounted => RingInv'
<1> SUFFICES ASSUME RingInv, ClearIfUnmounted PROVE RingInv'
  OBVIOUS
<1> USE CdcAssumption DEF RingInv
<1>1. /\ pump' = "read" /\ cdc' = BusState(cdc)
      /\ UNCHANGED <<bus, snapshot, known, wasMounted, rxGeneration, link, parsed, restarted,
                     hostVars>>
      /\ \/ ring' = <<>> /\ fifo' = <<>> /\ pending' = FALSE
            /\ (BusState(cdc) # cdc \/ ~bus \/ ~BusState(cdc).valid)
         \/ UNCHANGED <<ring, fifo, pending>> /\ BusState(cdc) = cdc
  BY DEF ClearIfUnmounted, Flush
<1>2. /\ cdc' \in CdcState /\ cdc'.generation >= cdc.generation
      /\ cdc'.mountSeen = cdc.mountSeen /\ (bus => cdc' = cdc)
      /\ ring' \in Seq(TaggedByte) /\ Len(ring') <= RingCapacity
      /\ fifo' \in Seq(Bytes) /\ Len(fifo') <= MaxBytes /\ pending' \in BOOLEAN
      /\ RingIsCurrent'
  <2>1. /\ (fifo' = fifo /\ pending' = pending) \/ (fifo' = <<>> /\ pending' = FALSE)
        /\ ring' = <<>> \/ (ring' = ring /\ BusState(cdc) = cdc)
    BY <1>1
  <2> QED
    BY <1>1, <2>1, StackKeeps
<1>3. bus /\ cdc.valid => UNCHANGED <<ring, fifo, cdc>>
  BY <1>1, <1>2
<1>4. CdcTypeOK'
  <2>1. cdc' \in [generation : 1..GenerationMax, mounted : BOOLEAN, mountSeen : BOOLEAN,
                  valid : BOOLEAN]
    BY <1>2 DEF CdcState
  <2> QED
    BY <1>1, <1>2, <2>1 DEF CdcTypeOK, TaggedByte, hostVars
<1>5. TaskIsBehind'
  <2>0. /\ rxGeneration \in Nat /\ snapshot.generation \in Nat
        /\ cdc.generation \in Nat /\ cdc'.generation \in Nat
    BY <1>2 DEF CdcTypeOK, CdcState
  <2>1. rxGeneration' <= cdc'.generation /\ snapshot'.generation <= cdc'.generation
    BY <1>1, <1>2, <2>0 DEF TaskIsBehind
  <2> QED
    BY <1>1, <1>2, <2>1 DEF TaskIsBehind
<1>6. SnapshotAgrees' /\ OneStream'
  BY <1>1 DEF SnapshotAgrees, OneStream
<1>7. WaitingIsTail' /\ NothingLost'
  BY <1>1, <1>2, <1>3 DEF WaitingIsTail, TailOf, NothingLost, Following, Waiting, hostVars
<1> QED
  BY <1>2, <1>4, <1>5, <1>6, <1>7

\* rx_read: the waiting bytes of the ring are parsed, if they are of the link's generation.
LEMMA ReadKeeps == RingInv /\ ReadLink => RingInv'
<1> SUFFICES ASSUME RingInv, ReadLink PROVE RingInv'
  OBVIOUS
<1> USE CdcAssumption DEF RingInv
<1> DEFINE mine == BusState(cdc).generation = rxGeneration
           bytes == Filtered(ring, rxGeneration)
           kept == IF mine THEN <<>> ELSE Filtered(ring, BusState(cdc).generation)
           left == IF mine THEN <<>> ELSE ring
           taken == [i \in DOMAIN bytes |-> bytes[i].byte]
<1>1. /\ pump' = "pump" /\ link /\ Synchronized(kept)
      /\ parsed' = IF bus /\ cdc'.valid /\ cdc' = cdc /\ mine THEN parsed \o taken ELSE parsed
      /\ UNCHANGED <<bus, snapshot, known, wasMounted, rxGeneration, link, restarted, hostVars>>
  BY DEF ReadLink
<1>2. ring \in Seq(TaggedByte) /\ \A i \in 1..Len(ring) : ring[i].tag = cdc.generation
  BY DEF CdcTypeOK, TaggedByte, RingIsCurrent
<1>3. Synchronized(left)
  <2>1. BusState(cdc) = cdc => kept = left
    BY <1>2, FilteredKeepsAll
  <2> HIDE DEF kept, left
  <2> QED
    BY <1>1, <2>1 DEF Synchronized
<1>4. /\ cdc' = BusState(cdc)
      /\ (fifo' = fifo /\ pending' = pending) \/ (fifo' = <<>> /\ pending' = FALSE)
      /\ ring' = <<>> \/ (ring' = ring /\ BusState(cdc) = cdc)
      /\ bus /\ cdc.valid => ring' = left /\ fifo' = fifo
  <2>1. left = ring \/ left = <<>>
    OBVIOUS
  <2> HIDE DEF left
  <2> QED
    BY <1>1, <1>3, <2>1, SynchronizedIs
<1>5. /\ cdc' \in CdcState /\ cdc'.generation >= cdc.generation
      /\ cdc'.mountSeen = cdc.mountSeen /\ (bus => cdc' = cdc)
      /\ ring' \in Seq(TaggedByte) /\ Len(ring') <= RingCapacity
      /\ fifo' \in Seq(Bytes) /\ Len(fifo') <= MaxBytes /\ pending' \in BOOLEAN
      /\ RingIsCurrent'
  BY <1>1, <1>4, StackKeeps
<1>6. TaskIsBehind' /\ SnapshotAgrees'
  <2>1. rxGeneration' <= cdc'.generation /\ snapshot'.generation <= cdc'.generation
    BY <1>1, <1>5 DEF TaskIsBehind, CdcTypeOK, CdcState
  <2> QED
    BY <1>1, <1>5, <2>1 DEF TaskIsBehind, SnapshotAgrees
<1>7. cdc' \in [generation : 1..GenerationMax, mounted : BOOLEAN, mountSeen : BOOLEAN,
                valid : BOOLEAN]
  BY <1>5 DEF CdcState
<1>8. /\ sent \in Nat /\ fifo \in Seq(Bytes) /\ parsed \in Seq(Bytes)
      /\ rxGeneration \in Nat /\ cdc.generation \in 1..GenerationMax
  BY DEF CdcTypeOK
<1>9. CASE bus /\ cdc.valid /\ mine
  <2>1. cdc' = cdc /\ rxGeneration = cdc.generation /\ ring' = <<>> /\ fifo' = fifo
    BY <1>4, <1>5, <1>9
  <2>2. bytes = ring
    BY <1>2, <2>1, FilteredKeepsAll
  <2>3. /\ Len(taken) = Len(ring) /\ taken \in Seq(Bytes)
        /\ \A i \in 1..Len(ring) : taken[i] = ring[i].byte
    <3>1. ASSUME NEW i \in 1..Len(ring) PROVE ring[i].byte \in Bytes
      <4>1. ring[i] \in TaggedByte
        BY <1>2
      <4> QED
        BY <4>1 DEF TaggedByte
    <3>2. taken = [i \in 1..Len(ring) |-> ring[i].byte]
      BY <1>2, <2>2
    <3> HIDE DEF taken
    <3> QED
      BY <1>2, <3>1, <3>2
  <2>4. parsed' = parsed \o taken
    BY <1>1, <1>9, <2>1
  <2> HIDE DEF taken, bytes, mine
  <2>5. /\ parsed' \in Seq(Bytes) /\ Len(parsed') = Len(parsed) + Len(ring)
        /\ \A i \in 1..Len(parsed) : parsed'[i] = parsed[i]
        /\ \A i \in 1..Len(ring) : parsed'[Len(parsed) + i] = ring[i].byte
    <3>0. parsed \in Seq(Bytes) /\ taken \in Seq(Bytes)
      BY <1>8, <2>3
    <3>1. (parsed \o taken) \in Seq(Bytes) /\ Len(parsed \o taken) = Len(parsed) + Len(taken)
      BY <3>0
    <3>2. \A i \in 1..Len(parsed) : (parsed \o taken)[i] = parsed[i]
      BY <1>8, <2>3
    <3>3. ASSUME NEW i \in 1..Len(taken) PROVE (parsed \o taken)[Len(parsed) + i] = taken[i]
      BY <1>8, <2>3
    <3> QED
      BY <2>3, <2>4, <3>1, <3>2, <3>3
  <2>6. CdcTypeOK'
    BY <1>1, <1>5, <1>7, <2>5 DEF CdcTypeOK, TaggedByte, hostVars
  <2>7. Following /\ Following'
    BY <1>1, <1>8, <2>1 DEF Following, TaskIsBehind
  <2>8. /\ Len(parsed) + Waiting <= sent
        /\ \A i \in 1..Len(parsed) :
             parsed[i] = Byte(connections, sent - Waiting - Len(parsed) + i)
        /\ ~restarted => Len(parsed) + Waiting = sent
    BY <1>1, <1>9, <2>7 DEF NothingLost
  <2>9. TailOf(ring, fifo, sent)
    BY <1>9 DEF WaitingIsTail
  <2>10. /\ Waiting = Len(ring) + Len(fifo) /\ Waiting' = Len(fifo)
         /\ Len(ring) \in Nat /\ Len(fifo) \in Nat /\ Len(parsed) \in Nat
    BY <1>2, <1>8, <2>1 DEF Waiting
  <2> HIDE DEF Waiting
  <2>11. ASSUME NEW i \in 1..Len(parsed')
         PROVE  parsed'[i] = Byte(connections, sent - Waiting' - Len(parsed') + i)
    <3>1. sent - Waiting' - Len(parsed') + i = sent - Waiting - Len(parsed) + i
      BY <1>8, <2>5, <2>10
    <3>2. CASE i \in 1..Len(parsed)
      BY <2>5, <2>8, <3>1, <3>2
    <3>3. CASE i \notin 1..Len(parsed)
      <4>1. i - Len(parsed) \in 1..Len(ring) /\ Len(parsed) + (i - Len(parsed)) = i
        BY <2>5, <2>10, <3>3
      <4>2. parsed'[i] = ring[i - Len(parsed)].byte
        BY <2>5, <4>1
      <4>3. ring[i - Len(parsed)].byte
              = Byte(connections, sent - (Len(ring) + Len(fifo)) + (i - Len(parsed)))
        BY <2>9, <4>1 DEF TailOf
      <4>4. sent - (Len(ring) + Len(fifo)) + (i - Len(parsed)) = sent - Waiting - Len(parsed) + i
        BY <1>8, <2>10
      <4> QED
        BY <3>1, <4>2, <4>3, <4>4
    <3> QED
      BY <3>2, <3>3
  <2>12. NothingLost'
    <3>1. Len(parsed') + Waiting' = Len(parsed) + Waiting
      BY <2>5, <2>10
    <3>2. restarted' = restarted /\ sent' = sent /\ connections' = connections
      BY <1>1 DEF hostVars
    <3> QED
      BY <2>7, <2>8, <2>11, <3>1, <3>2 DEF NothingLost
  <2>13. WaitingIsTail'
    <3>1. Len(ring') = 0
      BY <2>1
    <3>2. TailOf(ring', fifo', sent)
      BY <1>8, <2>1, <2>9, <2>10, <3>1 DEF TailOf
    <3> QED
      BY <1>1, <3>2 DEF WaitingIsTail, TailOf, hostVars
  <2>14. OneStream'
    <3> SUFFICES ASSUME parsed' # <<>> PROVE OneStream'
      BY DEF OneStream
    <3>1. Len(parsed') \in Nat \ {0} /\ DOMAIN parsed' = 1..Len(parsed')
      BY <2>5
    <3>2. parsed'[1] = Byte(connections, sent - Waiting' - Len(parsed') + 1)
      BY <2>11, <3>1
    <3>3. ASSUME NEW i \in 1..Len(parsed')
          PROVE  parsed'[i] = Byte(parsed'[1].connection, parsed'[1].n + i - 1)
      <4>1. /\ parsed'[1].connection = connections
            /\ parsed'[1].n = sent - Waiting' - Len(parsed') + 1
        BY <3>2 DEF Byte
      <4>2. parsed'[1].n + i - 1 = sent - Waiting' - Len(parsed') + i
        BY <1>8, <2>10, <3>1, <4>1
      <4> QED
        BY <2>11, <4>1, <4>2
    <3>4. ~restarted' => parsed'[1].n = 1
      <4>1. parsed'[1].n = sent - Waiting' - Len(parsed') + 1
        BY <3>2 DEF Byte
      <4>2. ~restarted => Len(parsed') + Waiting' = sent
        BY <2>5, <2>8, <2>10
      <4>3. Waiting' \in Nat /\ Len(parsed') \in Nat
        BY <2>10, <3>1
      <4>4. restarted' = restarted
        BY <1>1
      <4> HIDE DEF Waiting
      <4> QED
        BY <1>8, <4>1, <4>2, <4>3, <4>4
    <3> QED
      BY <3>1, <3>3, <3>4 DEF OneStream
  <2> QED
    BY <1>5, <1>6, <2>6, <2>12, <2>13, <2>14
<1>10. CASE ~(bus /\ cdc.valid /\ mine)
  <2>1. parsed' = parsed
    BY <1>1, <1>5, <1>10
  <2>2. CdcTypeOK' /\ OneStream'
    BY <1>1, <1>5, <1>7, <2>1 DEF CdcTypeOK, TaggedByte, hostVars, OneStream
  <2>3. bus /\ cdc.valid => UNCHANGED <<ring, fifo, cdc>>
    BY <1>4, <1>5, <1>10
  <2>4. WaitingIsTail' /\ NothingLost'
    BY <1>1, <1>5, <2>1, <2>3
       DEF WaitingIsTail, TailOf, NothingLost, Following, Waiting, hostVars
  <2> QED
    BY <1>5, <1>6, <2>2, <2>4
<1> QED
  BY <1>9, <1>10

\* The rest of the round, and the transmit worker, touch neither the bus nor the ring.
LEMMA RestOfRoundKeeps ==
  RingInv /\ (Keep \/ NoLinkToRead \/ TransmitFails \/ UNCHANGED cdcVars) => RingInv'
<1> SUFFICES ASSUME RingInv, Keep \/ NoLinkToRead \/ TransmitFails \/ UNCHANGED cdcVars
             PROVE  RingInv'
  OBVIOUS
<1>1. /\ UNCHANGED <<usbVars, snapshot, known, wasMounted, rxGeneration, parsed, restarted, hostVars>>
      /\ pump' = pump \/ pump' \in {"read", "pump"}
      /\ link' = link \/ link' = FALSE
  BY DEF Keep, NoLinkToRead, TransmitFails, cdcVars, taskVars
<1>2. CdcTypeOK'
  <2>1. pump' \in {"pump", "update", "apply", "clear", "read"}
    BY <1>1 DEF RingInv, CdcTypeOK
  <2>2. {known', wasMounted', link', restarted'} \subseteq BOOLEAN
    BY <1>1 DEF RingInv, CdcTypeOK
  <2>3. known' /\ link' => wasMounted'
    BY <1>1 DEF RingInv, CdcTypeOK
  <2>4. UNCHANGED <<cdc, bus, fifo, pending, ring, snapshot, known, wasMounted, rxGeneration, parsed,
                    restarted, connections, sent>>
    BY <1>1 DEF usbVars, hostVars
  <2> QED
    BY <2>1, <2>2, <2>3, <2>4 DEF RingInv, CdcTypeOK
<1>3. RingIsCurrent' /\ WaitingIsTail' /\ TaskIsBehind' /\ SnapshotAgrees' /\ OneStream'
  BY <1>1 DEF RingInv, RingIsCurrent, WaitingIsTail, TailOf, TaskIsBehind, SnapshotAgrees,
              Following, OneStream, usbVars, hostVars
<1>4. NothingLost'
  BY <1>1 DEF RingInv, NothingLost, Following, Waiting, usbVars, hostVars
<1> QED
  BY <1>2, <1>3, <1>4 DEF RingInv

LEMMA RingInitially == CdcInit => RingInv
<1> SUFFICES ASSUME CdcInit PROVE RingInv
  OBVIOUS
<1> USE CdcAssumption
<1>1. /\ fifo \in Seq(Bytes) /\ Len(fifo) = 0 /\ ring \in Seq(TaggedByte) /\ Len(ring) = 0
      /\ parsed \in Seq(Bytes)
  BY DEF CdcInit
<1>2. CdcTypeOK
  <2>1. cdc \in [generation : 1..GenerationMax, mounted : BOOLEAN, mountSeen : BOOLEAN,
                 valid : BOOLEAN]
    BY DEF CdcInit
  <2>2. snapshot \in [mounted : BOOLEAN, generation : 0..GenerationMax]
    BY DEF CdcInit
  <2>3. Len(fifo) <= MaxBytes /\ Len(ring) <= RingCapacity
    BY <1>1
  <2>4. bus \in BOOLEAN /\ pending \in BOOLEAN /\ ~known /\ pump = "pump"
    BY DEF CdcInit
  <2>5. {known, wasMounted, link, restarted} \subseteq BOOLEAN
    BY DEF CdcInit
  <2>6. /\ rxGeneration \in 0..GenerationMax /\ connections \in 0..MaxConnections
        /\ sent \in 0..MaxBytes
    BY DEF CdcInit
  <2> QED
    BY <1>1, <2>1, <2>2, <2>3, <2>4, <2>5, <2>6 DEF CdcTypeOK, TaggedByte
<1>3. RingIsCurrent /\ WaitingIsTail /\ TaskIsBehind /\ SnapshotAgrees /\ NothingLost /\ OneStream
  BY <1>1 DEF CdcInit, RingIsCurrent, WaitingIsTail, TaskIsBehind, SnapshotAgrees, NothingLost,
              OneStream
<1> QED
  BY <1>2, <1>3 DEF RingInv

LEMMA RingStays == RingInv /\ [CdcNext]_cdcVars => RingInv'
<1> QED
  BY MountKeeps, UnmountKeeps, ReceiveKeeps, PumpKeeps, ObserveKeeps, FollowKeeps, RestartKeeps,
     ClearKeeps, ReadKeeps, RestOfRoundKeeps DEF CdcNext, TransportRound

LEMMA RingAlways == CdcSpec => []RingInv
<1> QED
  BY RingInitially, RingStays, PTL DEF CdcSpec

\* Between two resets the parser is fed one unbroken run of the bytes of one connection,
\* from its first byte on unless the link was restarted (mp_usbd_cdc_transport_rx_read,
\* cdc_update), for every capacity of the ring and any number of connections.
THEOREM StreamCorrect == CdcSpec => [](CdcTypeOK /\ OneStream)
<1>1. RingInv => CdcTypeOK /\ OneStream
  BY DEF RingInv
<1> QED
  BY <1>1, RingAlways, PTL

(***************************************************************************)
(* All of them side by side.                                               *)
(***************************************************************************)
\* The parts are well typed and no socket is lost or shared, whichever of them moves.
THEOREM PartsCorrect == PartsSpec => []PartsInv
<1> DEFINE Inv == LeaseInv /\ BaudInv /\ LauncherInv /\ RingInv /\ LinkInv
<1>1. PartsInit => Inv
  BY LeaseInitially, InitInv, LauncherInitially, RingInitially, LinksInitially DEF PartsInit
<1>2. [PartsNext]_partsVars => /\ [Next]_vars /\ [BaudNext]_baudVars /\ [LauncherNext]_launcherVars
                               /\ [CdcNext]_cdcVars /\ [TcpNext]_tcpVars
  BY DEF PartsNext, partsVars, LeaseMoves, BaudMoves, LauncherMoves, CdcMoves, TcpMoves
<1>3. Inv /\ [PartsNext]_partsVars => Inv'
  BY <1>2, LeaseStays, NextInv, LauncherStays, RingStays, LinksStay
<1>4. Inv => PartsInv
  BY DEF LeaseInv, BaudInv, LauncherInv, RingInv, LinkInv, PartsInv
<1> HIDE DEF Inv
<1> QED
  BY <1>1, <1>3, <1>4, PTL DEF PartsSpec
=============================================================================
