---------------------------- MODULE NetworkProofs ----------------------------
(***************************************************************************)
(* Proofs about NetworkService, for any networks, bounds and initial       *)
(* records: the owner's operations and Python keep out of each other's     *)
(* way, and what was answered as done is in force.                         *)
(***************************************************************************)
EXTENDS NetworkService, TLAPS

OperationPlaces ==
  {"configure", "persist", "rollback", "enable", "profile", "enabled", "not enabled", "disable",
   "forget", "forget disconnect", "forget clear", "forget done", "forget failed"}
AttemptPlaces == {"prepare", "connect", "wait", "retry"}

\* The worker is inside run_operation, or connects on behalf of it.
Executing == netWorker.pc \in OperationPlaces \/ netWorker.for \in {"configure", "rollback"}
InAttempt == netWorker.pc \in AttemptPlaces
Worker == [pc : WorkerPlaces, for : {"none", "start", "configure", "rollback"}]

GateTypes ==
  /\ net \in NetFlags
  /\ operation \in Operation
  /\ python \in Method
  /\ netWorker \in Worker

\* GateHolds is not inductive: complete_operation opens the gate, so what completes must be
\* an operation.
GateInv ==
  /\ GateTypes
  /\ operation # NoOp =>
       operation.state \in {"queued", "running"} /\ operation.request \in NetRequest
  /\ Executing => operation.state = "running"
  /\ InAttempt => netWorker.for # "none"
  /\ python # NoCall => python.call \in Calls
  /\ GateHolds

\* The flags that the worker rewrites together keep the gate as it is.
LEMMA FlagsKeepTheGate ==
  ASSUME net \in NetFlags
  PROVE  /\ Unrequested \in NetFlags /\ Unrequested.mutating = net.mutating
         /\ RetryScheduled \in NetFlags /\ RetryScheduled.mutating = net.mutating
         /\ Down(net) \in NetFlags /\ Down(net).mutating = net.mutating
BY DEF NetFlags, Unrequested, RetryScheduled, Down

\* The worker opens the gate only for the operation that it ends.
LEMMA CompleteKeeps ==
  ASSUME GateInv, operation.state = "running",
         NEW flags \in NetFlags, NEW result \in BOOLEAN, Complete(result, flags)
  PROVE  GateInv'
<1>1. python = NoCall
  BY DEF GateInv, GateHolds, NoOp
<1>2. /\ operation' = NoOp /\ python' = python
      /\ netWorker' = [pc |-> "loop", for |-> "none"]
      /\ net' = [flags EXCEPT !.mutating = FALSE]
  BY DEF Complete, Go
<1>3. GateTypes'
  BY <1>2 DEF GateInv, GateTypes, NetFlags, Operation, NoOp, Worker, WorkerPlaces
<1>4. ~Executing' /\ ~InAttempt'
  BY <1>2 DEF Executing, InAttempt, OperationPlaces, AttemptPlaces
<1> QED
  BY <1>1, <1>2, <1>3, <1>4 DEF GateInv, GateHolds

\* The worker enters an operation, or an attempt to connect for one, only from inside of one.
QuietPlace ==
  /\ netWorker' \in Worker
  /\ Executing' => Executing
  /\ InAttempt' => netWorker'.for # "none"

QuietFlags == net' \in NetFlags /\ net'.mutating = net.mutating

\* A step of the worker that leaves the gate and the operation alone.
LEMMA MoveKeeps ==
  ASSUME GateInv, QuietPlace, QuietFlags, UNCHANGED <<operation, python>>
  PROVE  GateInv'
BY DEF GateInv, GateTypes, GateHolds, QuietPlace, QuietFlags

LEMMA GoIsQuiet ==
  ASSUME NEW pc \in WorkerPlaces \ AttemptPlaces, Go(pc), pc \in OperationPlaces => Executing
  PROVE  QuietPlace
BY DEF Go, Worker, Executing, InAttempt, QuietPlace

LEMMA OnwardIsQuiet ==
  ASSUME GateInv, InAttempt, NEW pc \in {"connect", "wait", "retry"}, Onward(pc)
  PROVE  QuietPlace
<1>1. netWorker \in Worker /\ netWorker.for # "none"
  BY DEF GateInv, GateTypes
<1> QED
  BY <1>1 DEF Onward, Worker, Executing, InAttempt, AttemptPlaces, OperationPlaces,
     WorkerPlaces,
     QuietPlace

LEMMA ConnectForIsQuiet ==
  ASSUME NEW whom \in {"start", "configure", "rollback"}, ConnectFor(whom),
         whom # "start" => Executing
  PROVE  QuietPlace
BY DEF ConnectFor, Worker, Executing, InAttempt, AttemptPlaces, OperationPlaces, WorkerPlaces,
   QuietPlace

\* A connection that fails hands over to the operation it was for, or tries again later.
LEMMA FailedIsQuiet ==
  ASSUME GateInv, InAttempt, ConnectFailed
  PROVE  QuietPlace
<1>1. CASE netWorker.for = "configure"
  <2>1. Go("rollback") /\ Executing
    BY <1>1 DEF ConnectFailed, Executing
  <2>2. "rollback" \in WorkerPlaces \ AttemptPlaces
    BY DEF WorkerPlaces, AttemptPlaces
  <2> QED
    BY <2>1, <2>2, GoIsQuiet
<1>2. CASE netWorker.for # "configure"
  BY <1>2, OnwardIsQuiet DEF ConnectFailed
<1> QED
  BY <1>1, <1>2

\* Connecting, for an operation or the worker's own sake, keeps the gate as it is until it ends.
LEMMA ConnectingKeeps ==
  ASSUME GateInv
  PROVE  ( \/ Start \/ ConnectPrepare \/ ConnectCall \/ ConnectLost
           \/ Reconnect \/ ReconnectStart \/ ReconnectCall \/ ReconnectLook
           \/ ReconnectReschedule ) => GateInv'
<1>0. net \in NetFlags
  BY DEF GateInv, GateTypes
<1>1. ASSUME Start PROVE GateInv'
  <2>1. QuietPlace
    BY <1>1, GoIsQuiet, ConnectForIsQuiet DEF Start, WorkerPlaces, AttemptPlaces,
       OperationPlaces
  <2>2. QuietFlags
    BY <1>0, <1>1 DEF Start, QuietFlags, NetFlags
  <2>3. UNCHANGED <<operation, python>>
    BY <1>1 DEF Start, KeepAllBut, KeepParties
  <2> QED
    BY <2>1, <2>2, <2>3, MoveKeeps
<1>2. ASSUME ConnectPrepare PROVE GateInv'
  <2>1. QuietPlace
    BY <1>2, OnwardIsQuiet, FailedIsQuiet DEF ConnectPrepare, AtStep, InAttempt, AttemptPlaces
  <2>2. QuietFlags
    BY <1>0, <1>2 DEF ConnectPrepare, QuietFlags, NetFlags
  <2>3. UNCHANGED <<operation, python>>
    BY <1>2 DEF ConnectPrepare, KeepAllBut, KeepParties
  <2> QED
    BY <2>1, <2>2, <2>3, MoveKeeps
<1>3. ASSUME ConnectCall PROVE GateInv'
  <2>1. QuietPlace
    BY <1>3, OnwardIsQuiet, FailedIsQuiet DEF ConnectCall, AtStep, InAttempt, AttemptPlaces
  <2>2. QuietFlags
    BY <1>0, <1>3 DEF ConnectCall, QuietFlags, NetFlags
  <2>3. UNCHANGED <<operation, python>>
    BY <1>3 DEF ConnectCall, KeepAllBut, KeepParties
  <2> QED
    BY <2>1, <2>2, <2>3, MoveKeeps
<1>4. ASSUME ConnectLost PROVE GateInv'
  <2>1. QuietPlace
    BY <1>4, FailedIsQuiet DEF ConnectLost, AtStep, InAttempt, AttemptPlaces
  <2>2. QuietFlags
    BY <1>0, <1>4 DEF ConnectLost, QuietFlags
  <2>3. UNCHANGED <<operation, python>>
    BY <1>4 DEF ConnectLost, KeepAllBut, KeepParties
  <2> QED
    BY <2>1, <2>2, <2>3, MoveKeeps
<1>5. ASSUME Reconnect PROVE GateInv'
  <2>1. QuietPlace
    BY <1>5, GoIsQuiet DEF Reconnect, AtStep, WorkerPlaces, AttemptPlaces, OperationPlaces
  <2>2. QuietFlags
    BY <1>0, <1>5 DEF Reconnect, QuietFlags, NetFlags
  <2>3. UNCHANGED <<operation, python>>
    BY <1>5 DEF Reconnect, KeepAllBut, KeepParties
  <2> QED
    BY <2>1, <2>2, <2>3, MoveKeeps
<1>6. ASSUME ReconnectStart PROVE GateInv'
  <2>1. QuietPlace
    BY <1>6, GoIsQuiet DEF ReconnectStart, AtStep, WorkerPlaces, AttemptPlaces, OperationPlaces
  <2>2. QuietFlags
    BY <1>0, <1>6 DEF ReconnectStart, QuietFlags, NetFlags
  <2>3. UNCHANGED <<operation, python>>
    BY <1>6 DEF ReconnectStart, KeepAllBut, KeepParties
  <2> QED
    BY <2>1, <2>2, <2>3, MoveKeeps
<1>7. ASSUME ReconnectCall PROVE GateInv'
  <2>1. QuietPlace
    BY <1>7, GoIsQuiet DEF ReconnectCall, AtStep, WorkerPlaces, AttemptPlaces, OperationPlaces
  <2>2. QuietFlags
    BY <1>0, <1>7 DEF ReconnectCall, QuietFlags
  <2>3. UNCHANGED <<operation, python>>
    BY <1>7 DEF ReconnectCall, KeepAllBut, KeepParties
  <2> QED
    BY <2>1, <2>2, <2>3, MoveKeeps
<1>8. ASSUME ReconnectLook PROVE GateInv'
  <2>1. QuietPlace
    BY <1>8, GoIsQuiet DEF ReconnectLook, AtStep, WorkerPlaces, AttemptPlaces, OperationPlaces
  <2>2. QuietFlags
    BY <1>0, <1>8 DEF ReconnectLook, QuietFlags
  <2>3. UNCHANGED <<operation, python>>
    BY <1>8 DEF ReconnectLook, KeepAllBut, KeepParties
  <2> QED
    BY <2>1, <2>2, <2>3, MoveKeeps
<1>9. ASSUME ReconnectReschedule PROVE GateInv'
  <2>1. QuietPlace
    BY <1>9, GoIsQuiet DEF ReconnectReschedule, AtStep, WorkerPlaces, AttemptPlaces,
       OperationPlaces
  <2>2. QuietFlags
    BY <1>0, <1>9, FlagsKeepTheGate DEF ReconnectReschedule, QuietFlags
  <2>3. UNCHANGED <<operation, python>>
    BY <1>9 DEF ReconnectReschedule, KeepAllBut, KeepParties
  <2> QED
    BY <2>1, <2>2, <2>3, MoveKeeps
<1> QED
  BY <1>1, <1>2, <1>3, <1>4, <1>5, <1>6, <1>7, <1>8, <1>9

\* An operation of the owner runs from run_operation to complete_operation.
LEMMA OperationKeeps ==
  ASSUME GateInv
  PROVE  ( \/ ConnectDone \/ ConnectRetry
           \/ RunOperation \/ Configure \/ PersistCandidate \/ Rollback
           \/ Enable \/ EnableProfile \/ EnableSettle \/ Disable
           \/ Forget \/ ForgetDisconnect \/ ForgetClear \/ ForgetSettle ) => GateInv'
<1>0. net \in NetFlags /\ (Executing => operation.state = "running")
  BY DEF GateInv, GateTypes
<1>1. ASSUME ConnectDone PROVE GateInv'
  <2>0. netWorker.for \in {"start", "configure", "rollback"}
    BY <1>1 DEF ConnectDone, AtStep, GateInv, GateTypes, Worker, InAttempt, AttemptPlaces
  <2>1. CASE netWorker.for = "rollback"
    <3>1. operation.state = "running"
      BY <1>0, <2>1 DEF Executing
    <3> QED
      BY <1>0, <1>1, <2>1, <3>1, CompleteKeeps DEF ConnectDone
  <2>2. CASE netWorker.for # "rollback"
    <3>1. QuietPlace
      <4>1. CASE netWorker.for = "start"
        <5>1. Go("loop")
          BY <1>1, <4>1 DEF ConnectDone
        <5> QED
          BY <5>1, GoIsQuiet DEF WorkerPlaces, AttemptPlaces, OperationPlaces
      <4>2. CASE netWorker.for = "configure"
        <5>1. Go("persist") /\ Executing
          BY <1>1, <4>2 DEF ConnectDone, Executing
        <5> QED
          BY <5>1, GoIsQuiet DEF WorkerPlaces, AttemptPlaces, OperationPlaces
      <4> QED
        BY <2>0, <2>2, <4>1, <4>2
    <3>2. QuietFlags /\ UNCHANGED <<operation, python>>
      BY <1>0, <1>1, <2>2 DEF ConnectDone, QuietFlags, KeepParties
    <3> QED
      BY <3>1, <3>2, MoveKeeps
  <2> QED
    BY <2>1, <2>2
<1>2. ASSUME ConnectRetry PROVE GateInv'
  <2>1. CASE netWorker.for = "rollback"
    <3>1. operation.state = "running"
      BY <1>0, <2>1 DEF Executing
    <3> QED
      BY <1>0, <1>2, <2>1, <3>1, CompleteKeeps, FlagsKeepTheGate DEF ConnectRetry
  <2>2. CASE ~(netWorker.for = "rollback")
    <3>1. QuietPlace
      BY <1>2, <2>2, GoIsQuiet DEF ConnectRetry, AtStep, Executing, WorkerPlaces,
         AttemptPlaces, OperationPlaces
    <3>2. QuietFlags /\ UNCHANGED <<operation, python>>
      BY <1>0, <1>2, <2>2, FlagsKeepTheGate DEF ConnectRetry, QuietFlags, KeepParties
    <3> QED
      BY <3>1, <3>2, MoveKeeps
  <2> QED
    BY <2>1, <2>2
<1>3. ASSUME RunOperation PROVE GateInv'
  <2>1. operation # NoOp
    BY <1>3 DEF RunOperation, NoOp
  <2>2. python = NoCall /\ operation.request \in NetRequest
    BY <2>1 DEF GateInv, GateHolds
  <2>3. /\ operation' = [operation EXCEPT !.state = "running"]
        /\ UNCHANGED <<net, python>> /\ Go(operation.request.kind)
    BY <1>3 DEF RunOperation, KeepParties
  <2>4. operation.request.kind \in {"configure", "enable", "forget"}
    <3>1. CASE operation.request \in
                 [kind : {"configure"}, profile : Profiles, enabled : {TRUE}]
      BY <3>1
    <3>2. CASE operation.request \in
                 [kind : {"enable"}, profile : {NoProfile}, enabled : BOOLEAN]
      BY <3>2
    <3>3. CASE operation.request =
                 [kind |-> "forget", profile |-> NoProfile, enabled |-> FALSE]
      BY <3>3
    <3> QED
      BY <2>2, <3>1, <3>2, <3>3 DEF NetRequest
  <2>5. netWorker' \in Worker /\ ~InAttempt'
    BY <2>3, <2>4 DEF Go, Worker, WorkerPlaces, InAttempt, AttemptPlaces
  <2>6. /\ operation' \in Operation /\ operation'.state = "running"
        /\ operation'.request = operation.request
    BY <2>3 DEF GateInv, GateTypes, Operation
  <2> QED
    BY <2>2, <2>3, <2>5, <2>6 DEF GateInv, GateTypes, GateHolds
<1>4. ASSUME Configure PROVE GateInv'
  <2>1. QuietPlace
    BY <1>4, ConnectForIsQuiet DEF Configure, AtStep, Executing, OperationPlaces
  <2>2. QuietFlags
    BY <1>0, <1>4, FlagsKeepTheGate DEF Configure, QuietFlags, NetFlags
  <2>3. UNCHANGED <<operation, python>>
    BY <1>4 DEF Configure, KeepAllBut, KeepParties
  <2> QED
    BY <2>1, <2>2, <2>3, MoveKeeps
<1>5. ASSUME PersistCandidate PROVE GateInv'
  <2>1. operation.state = "running"
    BY <1>0, <1>5 DEF PersistCandidate, AtStep, Executing, OperationPlaces
  <2>2. CASE Complete(TRUE, [net EXCEPT !.controlled = FALSE, !.resume = FALSE,
                                        !.requested = TRUE, !.waiting = FALSE])
    BY <1>0, <2>1, <2>2, CompleteKeeps DEF NetFlags
  <2>3. CASE Go("rollback") /\ UNCHANGED <<net, operation>> /\ KeepParties
    <3>1. QuietPlace
      BY <1>5, <2>3, GoIsQuiet DEF PersistCandidate, AtStep, Executing, WorkerPlaces,
         AttemptPlaces, OperationPlaces
    <3> QED
      BY <1>0, <2>3, <3>1, MoveKeeps DEF QuietFlags, KeepParties
  <2> QED
    BY <1>5, <2>2, <2>3 DEF PersistCandidate
<1>6. ASSUME Rollback PROVE GateInv'
  <2>1. operation.state = "running" /\ Executing
    BY <1>0, <1>6 DEF Rollback, AtStep, Executing, OperationPlaces
  <2>2. CASE config.enabled
    <3>1. QuietPlace
      BY <1>6, <2>1, <2>2, ConnectForIsQuiet DEF Rollback
    <3> QED
      BY <1>0, <1>6, <2>2, <3>1, MoveKeeps DEF Rollback, QuietFlags, KeepParties
  <2>3. CASE ~config.enabled
    <3>1. [Unrequested EXCEPT !.address = FALSE] \in NetFlags
      BY <1>0, FlagsKeepTheGate DEF NetFlags
    <3> QED
      BY <1>6, <2>1, <2>3, <3>1, CompleteKeeps DEF Rollback
  <2> QED
    BY <2>2, <2>3
<1>7. ASSUME Enable PROVE GateInv'
  <2>1. operation.state = "running"
    BY <1>0, <1>7 DEF Enable, AtStep, Executing, OperationPlaces
  <2>2. CASE Complete(FALSE, net)
    BY <1>0, <2>1, <2>2, CompleteKeeps
  <2>3. CASE (Go("profile") \/ Go("disable")) /\ UNCHANGED <<net, operation>> /\ KeepParties
    <3>1. QuietPlace
      BY <1>7, <2>3, GoIsQuiet DEF Enable, AtStep, Executing, WorkerPlaces, AttemptPlaces,
         OperationPlaces
    <3> QED
      BY <1>0, <2>3, <3>1, MoveKeeps DEF QuietFlags, KeepParties
  <2> QED
    BY <1>7, <2>2, <2>3 DEF Enable
<1>8. ASSUME EnableProfile PROVE GateInv'
  <2>1. QuietPlace
    BY <1>8, GoIsQuiet DEF EnableProfile, AtStep, Executing, WorkerPlaces, AttemptPlaces,
       OperationPlaces
  <2>2. QuietFlags
    BY <1>0, <1>8, FlagsKeepTheGate DEF EnableProfile, QuietFlags
  <2>3. UNCHANGED <<operation, python>>
    BY <1>8 DEF EnableProfile, KeepAllBut, KeepParties
  <2> QED
    BY <2>1, <2>2, <2>3, MoveKeeps
<1>9. ASSUME EnableSettle PROVE GateInv'
  <2>1. operation.state = "running"
    BY <1>0, <1>9 DEF EnableSettle, AtStep, Executing, OperationPlaces
  <2>2. PICK result \in BOOLEAN, flags \in NetFlags : Complete(result, flags)
    BY <1>0, <1>9 DEF EnableSettle, NetFlags
  <2> QED
    BY <2>1, <2>2, CompleteKeeps
<1>10. ASSUME Disable PROVE GateInv'
  <2>1. operation.state = "running"
    BY <1>0, <1>10 DEF Disable, AtStep, Executing, OperationPlaces
  <2>2. PICK result \in BOOLEAN, flags \in NetFlags : Complete(result, flags)
    BY <1>0, <1>10, FlagsKeepTheGate DEF Disable, NetFlags
  <2> QED
    BY <2>1, <2>2, CompleteKeeps
<1>11. ASSUME Forget PROVE GateInv'
  <2>1. operation.state = "running"
    BY <1>0, <1>11 DEF Forget, AtStep, Executing, OperationPlaces
  <2>2. CASE Complete(FALSE, net)
    BY <1>0, <2>1, <2>2, CompleteKeeps
  <2>3. CASE Go("forget disconnect") /\ UNCHANGED <<net, operation>> /\ KeepParties
    <3>1. QuietPlace
      BY <1>11, <2>3, GoIsQuiet DEF Forget, AtStep, Executing, WorkerPlaces, AttemptPlaces,
         OperationPlaces
    <3> QED
      BY <1>0, <2>3, <3>1, MoveKeeps DEF QuietFlags, KeepParties
  <2> QED
    BY <1>11, <2>2, <2>3 DEF Forget
<1>12. ASSUME ForgetDisconnect PROVE GateInv'
  <2>1. QuietPlace
    BY <1>12, GoIsQuiet DEF ForgetDisconnect, AtStep, Executing, WorkerPlaces,
       AttemptPlaces, OperationPlaces
  <2>2. QuietFlags
    BY <1>0, <1>12, FlagsKeepTheGate DEF ForgetDisconnect, QuietFlags
  <2>3. UNCHANGED <<operation, python>>
    BY <1>12 DEF ForgetDisconnect, KeepAllBut, KeepParties
  <2> QED
    BY <2>1, <2>2, <2>3, MoveKeeps
<1>13. ASSUME ForgetClear PROVE GateInv'
  <2>1. QuietPlace
    BY <1>13, GoIsQuiet DEF ForgetClear, AtStep, Executing, WorkerPlaces, AttemptPlaces,
       OperationPlaces
  <2>2. QuietFlags
    BY <1>0, <1>13 DEF ForgetClear, QuietFlags
  <2>3. UNCHANGED <<operation, python>>
    BY <1>13 DEF ForgetClear, KeepAllBut, KeepParties
  <2> QED
    BY <2>1, <2>2, <2>3, MoveKeeps
<1>14. ASSUME ForgetSettle PROVE GateInv'
  <2>1. operation.state = "running"
    BY <1>0, <1>14 DEF ForgetSettle, AtStep, Executing, OperationPlaces
  <2> DEFINE settled == [net EXCEPT !.resume = FALSE, !.requested = FALSE, !.waiting = FALSE,
                                    !.controlled = AtStep("forget failed")]
  <2>2. settled \in NetFlags
    BY <1>0 DEF NetFlags, AtStep
  <2>3. [settled EXCEPT !.connected = FALSE, !.address = FALSE] \in NetFlags
    BY <2>2 DEF NetFlags
  <2>4. \/ Complete(TRUE, [settled EXCEPT !.connected = FALSE, !.address = FALSE])
        \/ Complete(FALSE, settled)
    BY <1>14 DEF ForgetSettle
  <2> HIDE DEF settled
  <2> QED
    BY <2>1, <2>2, <2>3, <2>4, CompleteKeeps
<1> QED
  BY <1>1, <1>2, <1>3, <1>4, <1>5, <1>6, <1>7, <1>8, <1>9, <1>10, <1>11, <1>12, <1>13,
     <1>14

\* A step that leaves worker, operation and Python where they are, and the gate as it is.
LEMMA FlagsKeep ==
  ASSUME GateInv, QuietFlags, UNCHANGED <<operation, python, netWorker>>
  PROVE  GateInv'
BY DEF GateInv, GateTypes, GateHolds, Executing, InAttempt, QuietFlags

\* The driver's events and the owner's requests.
LEMMA OthersKeep ==
  ASSUME GateInv
  PROVE  ( \/ HandleEvent \/ RetryDue \/ AccessPointActs
           \/ (\E request \in NetRequest : Submit(request)) \/ Release ) => GateInv'
<1>0. net \in NetFlags
  BY DEF GateInv, GateTypes
<1>1. ASSUME HandleEvent PROVE GateInv'
  <2>1. Down(net) \in NetFlags /\ Down(net).mutating = net.mutating
    BY <1>0, FlagsKeepTheGate
  <2>2. /\ [Down(net) EXCEPT !.waiting = TRUE] \in NetFlags
        /\ [Down(net) EXCEPT !.waiting = TRUE].mutating = net.mutating
    BY <2>1 DEF NetFlags
  <2>3. QuietFlags
    BY <1>0, <1>1, <2>1, <2>2 DEF HandleEvent, QuietFlags, NetFlags
  <2> QED
    BY <1>1, <2>3, FlagsKeep DEF HandleEvent
<1>2. ASSUME RetryDue PROVE GateInv'
  <2>1. QuietFlags
    BY <1>0, <1>2 DEF RetryDue, QuietFlags, NetFlags
  <2> QED
    BY <1>2, <2>1, FlagsKeep DEF RetryDue
<1>3. ASSUME AccessPointActs PROVE GateInv'
  <2>1. UNCHANGED <<net, operation, python, netWorker>>
    BY <1>3 DEF AccessPointActs, AccessPoint
  <2> QED
    BY <1>0, <2>1, FlagsKeep DEF QuietFlags
<1>4. ASSUME NEW request \in NetRequest, Submit(request) PROVE GateInv'
  <2>1. python = NoCall /\ ~Executing
    BY <1>4 DEF Submit, GateInv, GateHolds, NoOp
  <2>2. operation' \in Operation /\ operation'.state = "queued" /\ operation'.request = request
    BY <1>4 DEF Submit, Operation
  <2>3. UNCHANGED <<net, python, netWorker>>
    BY <1>4 DEF Submit
  <2> QED
    BY <2>1, <2>2, <2>3 DEF GateInv, GateTypes, GateHolds, Executing, InAttempt
<1>5. ASSUME Release PROVE GateInv'
  <2>1. operation # NoOp /\ ~Executing
    BY <1>5 DEF Release, NoOp, GateInv
  <2>2. /\ operation' \in Operation /\ operation'.state = "queued"
        /\ operation'.request = operation.request
    BY <1>5 DEF Release, GateInv, GateTypes, Operation
  <2>3. UNCHANGED <<net, python, netWorker>>
    BY <1>5 DEF Release
  <2> QED
    BY <2>1, <2>2, <2>3 DEF GateInv, GateTypes, GateHolds, Executing, InAttempt
<1> QED
  BY <1>1, <1>2, <1>3, <1>4, <1>5

\* A WLAN method that is under way leaves the gate shut.
LEMMA MethodKeeps ==
  ASSUME GateInv, python # NoCall, python' \in Method, python'.call = python.call, QuietFlags,
         UNCHANGED <<operation, netWorker>>
  PROVE  GateInv'
BY DEF GateInv, GateTypes, GateHolds, Executing, InAttempt, QuietFlags

\* A WLAN method, from mutation_begin to mutation_end.
LEMMA PythonKeeps ==
  ASSUME GateInv
  PROVE  PythonStep => GateInv'
<1>0. net \in NetFlags /\ python \in Method
  BY DEF GateInv, GateTypes
<1>1. ASSUME NEW call \in Calls, PythonBegin(call) PROVE GateInv'
  <2>1. python' \in Method /\ python'.call \in Calls
    BY <1>1 DEF PythonBegin, Method
  <2>2. net' \in NetFlags /\ net'.mutating
    BY <1>0, <1>1 DEF PythonBegin, NetFlags
  <2>3. operation = NoOp /\ UNCHANGED <<operation, netWorker>>
    BY <1>1 DEF PythonBegin, KeepService
  <2> QED
    BY <2>1, <2>2, <2>3 DEF GateInv, GateTypes, GateHolds, Executing, InAttempt
<1>2. ASSUME PythonDriver PROVE GateInv'
  <2>0. python.pc = "driver"
    BY <1>2 DEF PythonDriver
  <2>1. python # NoCall
    BY <2>0 DEF NoCall
  <2>2. PythonGo("set") \/ PythonGo("end")
    BY <1>2 DEF PythonDriver
  <2>3. python' \in Method /\ python'.call = python.call
    BY <1>0, <2>2 DEF PythonGo, Method
  <2>4. UNCHANGED <<net, operation, netWorker>>
    BY <1>2 DEF PythonDriver, KeepService
  <2> QED
    BY <1>0, <2>1, <2>3, <2>4, MethodKeeps DEF QuietFlags
<1>3. ASSUME PythonSet PROVE GateInv'
  <2>1. python # NoCall
    BY <1>3 DEF PythonSet, NoCall
  <2>2. python' \in Method /\ python'.call = python.call
    BY <1>0, <1>3 DEF PythonSet, PythonGo, Method
  <2>3. Down(net) \in NetFlags /\ Down(net).mutating = net.mutating
    BY <1>0, FlagsKeepTheGate
  <2>4. StaActive(TRUE) \in NetFlags /\ StaActive(TRUE).mutating = net.mutating
    BY <1>0 DEF StaActive, NetFlags
  <2>5. StaActive(FALSE) \in NetFlags /\ StaActive(FALSE).mutating = net.mutating
    BY <1>0 DEF StaActive, NetFlags, Down
  <2>6. python.call \in {"connect", "disconnect", "up", "down", "config"}
    BY <2>1 DEF GateInv, Calls
  <2>7. QuietFlags
    <3>1. CASE python.call \in {"up", "down"}
      BY <1>3, <2>4, <2>5, <3>1 DEF PythonSet, QuietFlags
    <3>2. CASE python.call \in {"config", "connect", "disconnect"}
      BY <1>0, <1>3, <3>2 DEF PythonSet, QuietFlags, NetFlags
    <3> QED
      BY <2>6, <3>1, <3>2
  <2>8. UNCHANGED <<operation, netWorker>>
    BY <1>3 DEF PythonSet, KeepService
  <2> QED
    BY <2>1, <2>2, <2>7, <2>8, MethodKeeps
<1>4. ASSUME PythonEnd PROVE GateInv'
  <2>1. python' = NoCall /\ python' \in Method
    BY <1>4 DEF PythonEnd, NoCall, Method
  <2>2. net' \in NetFlags
    BY <1>0, <1>4 DEF PythonEnd, NetFlags
  <2>3. UNCHANGED <<operation, netWorker>>
    BY <1>4 DEF PythonEnd, KeepService
  <2> QED
    BY <2>1, <2>2, <2>3 DEF GateInv, GateTypes, GateHolds, Executing, InAttempt
<1> QED
  BY <1>1, <1>2, <1>3, <1>4 DEF PythonStep

\* The service starts with the gate open.
LEMMA GateInitially == NetworkInit => GateInv
BY DEF NetworkInit, GateInv, GateTypes, NetFlags, Operation, Method, NoOp, NoCall, Worker,
       WorkerPlaces, Executing, InAttempt, OperationPlaces, AttemptPlaces, GateHolds

LEMMA GateStays ==
  ASSUME GateInv, [NetworkNext]_netVars
  PROVE  GateInv'
<1>1. CASE WorkerStep
  BY <1>1, ConnectingKeeps, OperationKeeps DEF WorkerStep
<1>2. CASE PythonStep
  BY <1>2, PythonKeeps
<1>3. CASE \/ HandleEvent \/ RetryDue \/ AccessPointActs
           \/ (\E request \in NetRequest : Submit(request)) \/ Release
  BY <1>3, OthersKeep
<1>4. CASE UNCHANGED netVars
  BY <1>4 DEF netVars, GateInv, GateTypes, GateHolds, Executing, InAttempt
<1> QED
  BY <1>1, <1>2, <1>3, <1>4 DEF NetworkNext

\* While a WLAN method changes the station no operation of the owner is accepted or under
\* way, and while one is, no method gets in, for any networks and any number of operations,
\* methods and events (esp_vision_network_python_mutation_begin, complete_operation).
THEOREM GateCorrect == NetworkSpec => []GateHolds
<1>1. GateInv /\ [NetworkNext]_netVars => GateInv'
  BY GateStays
<1>2. GateInv => GateHolds
  BY DEF GateInv
<1> QED
  BY GateInitially, <1>1, <1>2, PTL DEF NetworkSpec

(***************************************************************************)
(* What succeeded is in force.                                             *)
(***************************************************************************)
Radio == [on : BOOLEAN, profile : Profile, link : {"idle", "connecting", "online"}]
Event == {"disconnected", "got ip", "lost ip", "stopped"}
Result == [request : NetRequest \cup {NoNetRequest}, succeeded : BOOLEAN]

RecordTypes ==
  /\ radio \in Radio /\ events \in Seq(Event)
  /\ config \in Record /\ netNvs \in Record
  /\ lastOperation \in Result
  /\ commands \in 0..MaxCommands /\ untouched \in BOOLEAN

EnablePlaces == {"enable", "profile", "enabled", "not enabled", "disable"}
ForgetPlaces ==
  {"forget", "forget disconnect", "forget clear", "forget done", "forget failed"}
ReconnectPlaces == {"start station", "reconnect", "look", "reschedule"}

\* What the worker has brought about at each place of the operation it runs.
OperationInv ==
  LET pc == netWorker.pc
      request == operation.request
  IN /\ pc \in {"configure", "persist", "rollback"} \/ netWorker.for \in {"configure", "rollback"}
          => request.kind = "configure"
     /\ pc \in EnablePlaces => request.kind = "enable"
     /\ pc \in ForgetPlaces => request.kind = "forget"
     /\ request.kind = "enable" /\ request.enabled => Configured(config)
     /\ pc = "persist" \/ (pc \in {"connect", "wait"} /\ netWorker.for = "configure")
          => radio.profile = request.profile
     /\ pc \in {"profile", "enabled", "not enabled"} =>
          config = netNvs /\ config.enabled /\ request.enabled
     /\ pc = "enabled" => radio.profile = config.profile
     /\ pc = "disable" => config = netNvs /\ ~config.enabled /\ ~request.enabled
     /\ pc \in ForgetPlaces \ {"forget"} => netNvs = NoRecord
     /\ pc = "forget done" => radio.profile = NoProfile /\ radio.link = "idle"

\* After an operation that succeeded the worker connects only if the record wants it, and
\* the attempt of the start is over.
SettledInv ==
  /\ python # NoCall => ~untouched
  /\ netWorker.pc = "start" \/ netWorker.for = "start" => ~lastOperation.succeeded
  /\ operation = NoOp /\ lastOperation.succeeded /\ untouched /\ netWorker.pc \in ReconnectPlaces
       => lastOperation.request.enabled
  /\ ResultInForce

ResultInv == RecordTypes /\ OperationInv /\ SettledInv

LEMMA RequestFacts ==
  \A r \in NetRequest :
    /\ r.kind \in {"configure", "enable", "forget"} /\ r.enabled \in BOOLEAN
    /\ r.kind = "configure" => r.profile \in Profiles /\ r.enabled
    /\ r.kind = "forget" => ~r.enabled
<1> SUFFICES ASSUME NEW r \in NetRequest
             PROVE  /\ r.kind \in {"configure", "enable", "forget"} /\ r.enabled \in BOOLEAN
                    /\ r.kind = "configure" => r.profile \in Profiles /\ r.enabled
                    /\ r.kind = "forget" => ~r.enabled
  OBVIOUS
<1>1. CASE r \in [kind : {"configure"}, profile : Profiles, enabled : {TRUE}]
  BY <1>1
<1>2. CASE r \in [kind : {"enable"}, profile : {NoProfile}, enabled : BOOLEAN]
  BY <1>2
<1>3. CASE r = [kind |-> "forget", profile |-> NoProfile, enabled |-> FALSE]
  BY <1>3
<1> QED
  BY <1>1, <1>2, <1>3 DEF NetRequest

\* Inside an operation there is one, and Python is outside.
LEMMA ExecutingFacts ==
  ASSUME GateInv, Executing
  PROVE  /\ operation # NoOp /\ operation.state = "running" /\ python = NoCall
         /\ operation.request \in NetRequest
  BY DEF GateInv, GateHolds, NoOp

(***************************************************************************)
(* Types.                                                                  *)
(***************************************************************************)
RadioTypes == radio \in Radio /\ events \in Seq(Event)

LEMMA EventFacts ==
  /\ LinkDropped \in Seq(Event)
  /\ \A e \in Event : <<e>> \in Seq(Event)
  /\ \A s, z \in Seq(Event) : s \o z \in Seq(Event)
<1>1. LinkDropped \in Seq(Event)
  <2>1. "disconnected" \in Event
    BY DEF Event
  <2>2. <<>> \in Seq(Event) /\ <<"disconnected">> \in Seq(Event)
    BY <2>1
  <2> QED
    BY <2>2 DEF LinkDropped
<1>2. \A e \in Event : <<e>> \in Seq(Event)
  OBVIOUS
<1>3. \A s, z \in Seq(Event) : s \o z \in Seq(Event)
  OBVIOUS
<1> QED
  BY <1>1, <1>2, <1>3

LEMMA DriverTypes ==
  ASSUME RadioTypes, NEW profile \in Profile
  PROVE  /\ DriverStarts(profile) => RadioTypes'
         /\ DriverDisconnects(profile) => RadioTypes'
         /\ DriverStops(profile) => RadioTypes'
         /\ DriverAsked => RadioTypes'
         /\ DriverUnchanged => RadioTypes'
         /\ \A on \in BOOLEAN, link \in {"idle", "connecting", "online"} :
              /\ radio' = [on |-> on, profile |-> profile, link |-> link]
              /\ events' \in {events, events \o LinkDropped}
              => RadioTypes'
<1> USE DEF RadioTypes
<1>1. /\ events \o LinkDropped \in Seq(Event)
      /\ events \o LinkDropped \o <<>> \in Seq(Event)
      /\ events \o LinkDropped \o <<"stopped">> \in Seq(Event)
  <2>1. events \o LinkDropped \in Seq(Event)
    BY EventFacts
  <2>2. <<>> \in Seq(Event) /\ <<"stopped">> \in Seq(Event)
    <3>1. "stopped" \in Event
      BY DEF Event
    <3> QED
      BY <3>1
  <2> QED
    BY <2>1, <2>2, EventFacts
<1>2. DriverStarts(profile) => RadioTypes'
  BY DEF DriverStarts, Radio
<1>3. DriverDisconnects(profile) => RadioTypes'
  BY <1>1 DEF DriverDisconnects, Radio
<1>4. DriverStops(profile) => RadioTypes'
  BY <1>1 DEF DriverStops, Radio
<1>5. DriverAsked => RadioTypes'
  BY DEF DriverAsked, DriverConnects, DriverUnchanged, Radio
<1>6. DriverUnchanged => RadioTypes'
  BY DEF DriverUnchanged
<1>7. ASSUME NEW on \in BOOLEAN, NEW link \in {"idle", "connecting", "online"},
             radio' = [on |-> on, profile |-> profile, link |-> link],
             events' \in {events, events \o LinkDropped}
      PROVE  RadioTypes'
  BY <1>1, <1>7 DEF Radio
<1> QED
  BY <1>2, <1>3, <1>4, <1>5, <1>6, <1>7

LEMMA ProfileFacts ==
  ASSUME RecordTypes, GateInv
  PROVE  /\ radio.profile \in Profile /\ config.profile \in Profile /\ NoProfile \in Profile
         /\ radio.on \in BOOLEAN /\ config.enabled \in BOOLEAN
         /\ operation.request.profile \in Profile
         /\ NoRecord \in Record
         /\ Candidate \in Record
         /\ RadioTypes
<1>1. operation.request.profile \in Profile
  <2>1. operation.request \in NetRequest \cup {NoNetRequest}
    BY DEF GateInv, GateTypes, Operation
  <2>2. CASE operation.request = NoNetRequest
    BY <2>2 DEF NoNetRequest, Profile
  <2>3. CASE operation.request \in [kind : {"configure"}, profile : Profiles, enabled : {TRUE}]
    BY <2>3 DEF Profile
  <2>4. CASE operation.request \in [kind : {"enable"}, profile : {NoProfile}, enabled : BOOLEAN]
    BY <2>4 DEF Profile
  <2>5. CASE operation.request = [kind |-> "forget", profile |-> NoProfile, enabled |-> FALSE]
    BY <2>5 DEF Profile
  <2> QED
    BY <2>1, <2>2, <2>3, <2>4, <2>5 DEF NetRequest
<1>2. Candidate \in Record /\ NoRecord \in Record
  BY <1>1 DEF Candidate, NoRecord, Record, Profile
<1> QED
  BY <1>1, <1>2 DEF RecordTypes, RadioTypes, Radio, Record, Profile

\* The parts of RecordTypes that most steps leave alone.
LEMMA CompleteTypes ==
  ASSUME GateInv, RecordTypes, NEW flags, NEW result \in BOOLEAN, Complete(result, flags)
  PROVE  lastOperation' \in Result /\ commands' \in 0..MaxCommands /\ untouched' \in BOOLEAN
<1>1. operation.request \in NetRequest \cup {NoNetRequest}
  BY DEF GateInv, GateTypes, Operation
<1>2. lastOperation' = [request |-> operation.request, succeeded |-> result]
  BY DEF Complete
<1>3. lastOperation' \in Result
  BY <1>1, <1>2 DEF Result
<1>4. untouched' \in BOOLEAN
  BY Zenon DEF Complete
<1> QED
  BY <1>3, <1>4 DEF Complete, RecordTypes

CompletesOrKeeps ==
  \/ \E flags, result : result \in BOOLEAN /\ Complete(result, flags)
  \/ KeepParties

LEMMA WorkerTypes ==
  ASSUME GateInv, RecordTypes, RadioTypes', netNvs' \in Record, config' \in Record, CompletesOrKeeps
  PROVE  RecordTypes'
<1>1. lastOperation' \in Result /\ commands' \in 0..MaxCommands /\ untouched' \in BOOLEAN
  <2>1. CASE KeepParties
    BY <2>1, Zenon DEF KeepParties, RecordTypes
  <2>2. CASE \E flags, result : result \in BOOLEAN /\ Complete(result, flags)
    BY <2>2, CompleteTypes
  <2> QED
    BY <2>1, <2>2 DEF CompletesOrKeeps
<1> QED
  BY <1>1 DEF RecordTypes, RadioTypes

LEMMA DriverKeepsTypes ==
  ASSUME GateInv, RecordTypes
  PROVE  /\ DriverUnchanged => RadioTypes'
         /\ DriverAsked => RadioTypes'
         /\ \A profile \in Profile : \/ DriverStarts(profile) \/ DriverDisconnects(profile)
                                     \/ DriverStops(profile)
                                     => RadioTypes'
BY ProfileFacts, DriverTypes

\* Connecting for the start, an operation or the worker's own sake.
LEMMA ConnectTypes ==
  ASSUME GateInv, RecordTypes,
         \/ Start \/ ConnectPrepare \/ ConnectCall \/ ConnectLost \/ ConnectDone \/ ConnectRetry
         \/ Reconnect \/ ReconnectStart \/ ReconnectCall \/ ReconnectLook
         \/ ReconnectReschedule \/ RunOperation \/ Configure
  PROVE  RecordTypes'
<1>1. UNCHANGED netRecords
  BY DEF Start, ConnectPrepare, ConnectCall, ConnectLost, ConnectDone, ConnectRetry, Reconnect,
         ReconnectStart, ReconnectCall, ReconnectLook, ReconnectReschedule, RunOperation,
         Configure, KeepAllBut, netRecords
<1>2. CompletesOrKeeps
  <2>1. CASE ConnectDone
    BY <2>1 DEF ConnectDone, CompletesOrKeeps
  <2>2. CASE ConnectRetry
    BY <2>2 DEF ConnectRetry, CompletesOrKeeps
  <2>3. CASE ~ConnectDone /\ ~ConnectRetry
    BY <2>3 DEF Start, ConnectPrepare, ConnectCall, ConnectLost, Reconnect,
         ReconnectStart, ReconnectCall, ReconnectLook, ReconnectReschedule, RunOperation,
         Configure, KeepAllBut, CompletesOrKeeps
  <2> QED
    BY <2>1, <2>2, <2>3
<1>3. RadioTypes'
  <2>1. TargetRecord.profile \in Profile
    BY ProfileFacts DEF TargetRecord, Candidate
  <2> QED
    BY <2>1, ProfileFacts, DriverKeepsTypes
       DEF Start, ConnectPrepare, ConnectCall, ConnectLost, ConnectDone, ConnectRetry, Reconnect,
           ReconnectStart, ReconnectCall, ReconnectLook, ReconnectReschedule, RunOperation,
           Configure, DriverUnchanged
<1> QED
  BY <1>1, <1>2, <1>3, WorkerTypes DEF RecordTypes, netRecords

LEMMA PersistKeepsTypes ==
  ASSUME RecordTypes, NEW record \in Record,
         PersistFails(record) \/ (netNvs' = record /\ config' = record)
  PROVE  netNvs' \in Record /\ config' \in Record
BY DEF PersistFails, RecordTypes

LEMMA OperationTypes ==
  ASSUME GateInv, RecordTypes,
         \/ PersistCandidate \/ Rollback \/ Enable \/ EnableProfile \/ EnableSettle \/ Disable
         \/ Forget \/ ForgetDisconnect \/ ForgetClear \/ ForgetSettle
  PROVE  RecordTypes'
<1>0. config \in Record /\ netNvs \in Record /\ NoRecord \in Record
  BY ProfileFacts DEF RecordTypes
<1>1. CASE PersistCandidate
  <2>1. netNvs' \in Record /\ config' \in Record
    BY <1>1, ProfileFacts, PersistKeepsTypes DEF PersistCandidate
  <2>2. CompletesOrKeeps /\ RadioTypes'
    BY <1>1, DriverKeepsTypes DEF PersistCandidate, CompletesOrKeeps
  <2> QED
    BY <2>1, <2>2, WorkerTypes
<1>2. CASE Rollback
  <2>1. CompletesOrKeeps /\ UNCHANGED netRecords
    BY <1>2 DEF Rollback, CompletesOrKeeps
  <2>2. RadioTypes'
    <3>1. CASE DriverUnchanged
      BY <3>1, DriverKeepsTypes
    <3>2. ASSUME NEW profile \in {config.profile, radio.profile}, NEW on \in {radio.on, TRUE},
                 \/ /\ radio' = [on |-> on, profile |-> profile, link |-> "idle"]
                    /\ events' = events \o LinkDropped
                 \/ radio' = [radio EXCEPT !.profile = profile, !.on = on] /\ UNCHANGED events
          PROVE  RadioTypes'
      <4>1. profile \in Profile /\ on \in BOOLEAN /\ RadioTypes
        BY ProfileFacts
      <4>2. CASE /\ radio' = [on |-> on, profile |-> profile, link |-> "idle"]
                 /\ events' = events \o LinkDropped
        BY <4>1, <4>2, DriverTypes
      <4>3. CASE radio' = [radio EXCEPT !.profile = profile, !.on = on] /\ UNCHANGED events
        BY <4>1, <4>3 DEF RadioTypes, Radio
      <4> QED
        BY <3>2, <4>2, <4>3
    <3> QED
      BY <1>2, <3>1, <3>2 DEF Rollback
  <2> QED
    BY <1>0, <2>1, <2>2, WorkerTypes DEF netRecords
<1>3. CASE Enable
  <2>1. operation.request.enabled \in BOOLEAN
    BY <1>3, ExecutingFacts, RequestFacts DEF Enable, AtStep, Executing, OperationPlaces
  <2>2. [config EXCEPT !.enabled = operation.request.enabled] \in Record
    BY <1>0, <2>1 DEF Record
  <2>3. netNvs' \in Record /\ config' \in Record
    BY <1>3, <2>2, PersistKeepsTypes DEF Enable
  <2>4. CompletesOrKeeps /\ RadioTypes'
    BY <1>3, DriverKeepsTypes DEF Enable, CompletesOrKeeps
  <2> QED
    BY <2>3, <2>4, WorkerTypes
<1>4. CASE EnableProfile
  <2>1. CompletesOrKeeps /\ UNCHANGED netRecords
    BY <1>4 DEF EnableProfile, KeepAllBut, CompletesOrKeeps
  <2>2. RadioTypes /\ config.profile \in Profile /\ radio.profile \in Profile /\ radio.on \in BOOLEAN
    BY ProfileFacts
  <2>3. RadioTypes'
    <3>1. CASE DriverStarts(radio.profile) \/ DriverUnchanged
      BY <2>2, <3>1, DriverKeepsTypes
    <3>2. CASE /\ radio' = [on |-> TRUE, profile |-> config.profile, link |-> "idle"]
               /\ events' = events \o LinkDropped
      BY <2>2, <3>2, DriverTypes
    <3>3. CASE radio' = [radio EXCEPT !.on = TRUE, !.link = "idle"] /\ events' = events \o LinkDropped
      <4>1. radio' = [on |-> TRUE, profile |-> radio.profile, link |-> "idle"]
        BY <2>2, <3>3 DEF RadioTypes, Radio
      <4> QED
        BY <2>2, <3>3, <4>1, DriverTypes
    <3> QED
      BY <1>4, <3>1, <3>2, <3>3 DEF EnableProfile
  <2> QED
    BY <1>0, <2>1, <2>3, WorkerTypes DEF netRecords
<1>5. CASE EnableSettle \/ Disable
  <2>1. CompletesOrKeeps /\ UNCHANGED netRecords
    BY <1>5 DEF EnableSettle, Disable, CompletesOrKeeps
  <2>2. RadioTypes'
    BY <1>5, ProfileFacts, DriverKeepsTypes DEF EnableSettle, Disable
  <2> QED
    BY <1>0, <2>1, <2>2, WorkerTypes DEF netRecords
<1>6. CASE Forget
  <2>1. netNvs' \in Record /\ config' \in Record
    BY <1>0, <1>6 DEF Forget, PersistFails
  <2>2. CompletesOrKeeps /\ RadioTypes'
    BY <1>6, DriverKeepsTypes DEF Forget, CompletesOrKeeps
  <2> QED
    BY <2>1, <2>2, WorkerTypes
<1>7. CASE ForgetDisconnect \/ ForgetClear
  <2>1. CompletesOrKeeps /\ UNCHANGED netRecords
    BY <1>7 DEF ForgetDisconnect, ForgetClear, KeepAllBut, CompletesOrKeeps
  <2>2. RadioTypes'
    BY <1>7, ProfileFacts, DriverKeepsTypes DEF ForgetDisconnect, ForgetClear
  <2> QED
    BY <1>0, <2>1, <2>2, WorkerTypes DEF netRecords
<1>8. CASE ForgetSettle
  <2>1. netNvs' \in Record /\ config' \in Record
    BY <1>0, <1>8 DEF ForgetSettle
  <2>2. CompletesOrKeeps /\ RadioTypes'
    BY <1>8, DriverKeepsTypes DEF ForgetSettle, CompletesOrKeeps
  <2> QED
    BY <2>1, <2>2, WorkerTypes
<1> QED
  BY <1>1, <1>2, <1>3, <1>4, <1>5, <1>6, <1>7, <1>8

LEMMA OtherTypes ==
  ASSUME GateInv, RecordTypes,
         \/ HandleEvent \/ RetryDue \/ AccessPointActs
         \/ (\E request \in NetRequest : Submit(request)) \/ Release
         \/ PythonStep
  PROVE  RecordTypes'
<1> USE DEF RadioTypes
<1>0. RadioTypes /\ RecordTypes /\ NetworkAssumption
  BY ProfileFacts, NetworkAssumption
<1>1. CASE HandleEvent
  <2>1. Tail(events) \in Seq(Event)
    <3>1. \A s \in Seq(Event) : s # <<>> => Tail(s) \in Seq(Event)
      OBVIOUS
    <3> QED
      BY <1>0, <1>1, <3>1 DEF HandleEvent
  <2> QED
    BY <1>0, <1>1, <2>1 DEF HandleEvent, RecordTypes, netRecords
<1>2. CASE RetryDue \/ Release
  BY <1>2 DEF RetryDue, Release, RecordTypes, netRecords
<1>3. ASSUME NEW from, NEW to \in {"idle", "connecting", "online"}, NEW e \in Event, AccessPoint(from, to, e)
      PROVE  RecordTypes'
  <2>1. Append(events, e) \in Seq(Event)
    BY <1>0, <1>3
  <2>2. RadioTypes'
    BY <1>0, <1>3, <2>1 DEF AccessPoint, Radio
  <2> QED
    BY <1>3, <2>2 DEF AccessPoint, RecordTypes, netRecords
<1>4. AccessPointActs => RecordTypes'
  <2>1. "got ip" \in Event /\ "lost ip" \in Event /\ "disconnected" \in Event
    BY DEF Event
  <2> QED
    BY <1>3, <2>1 DEF AccessPointActs
<1>5. ASSUME NEW request \in NetRequest, Submit(request) PROVE RecordTypes'
  <2>1. commands' \in 0..MaxCommands
    BY <1>0, <1>5 DEF Submit, RecordTypes, NetworkAssumption
  <2> QED
    BY <1>0, <1>5, <2>1 DEF Submit, RecordTypes, netRecords
<1>6. ASSUME NEW call \in Calls, PythonBegin(call) PROVE RecordTypes'
  <2>1. commands' \in 0..MaxCommands
    BY <1>0, <1>6 DEF PythonBegin, RecordTypes, NetworkAssumption
  <2>2. untouched' \in BOOLEAN
    BY <1>6, Zenon DEF PythonBegin
  <2> QED
    BY <1>0, <1>6, <2>1, <2>2 DEF PythonBegin, KeepService, DriverUnchanged, RecordTypes, netRecords
<1>7. CASE PythonDriver
  <2>1. RadioTypes'
    <3>1. CASE \E profile \in Profile : /\ \/ radio' = [radio EXCEPT !.profile = profile, !.link = "connecting"]
                                           \/ radio' = [radio EXCEPT !.profile = profile]
                                        /\ UNCHANGED events
      BY <1>0, <3>1 DEF Radio
    <3>2. Profiles \cup ({radio.profile} \ {NoProfile}) \subseteq Profile
      BY ProfileFacts DEF Profile
    <3> QED
      BY <1>7, <3>1, <3>2, ProfileFacts, DriverKeepsTypes DEF PythonDriver
  <2> QED
    BY <1>7, <2>1 DEF PythonDriver, KeepService, RecordTypes, netRecords
<1>8. CASE PythonSet \/ PythonEnd
  BY <1>8 DEF PythonSet, PythonEnd, KeepService, DriverUnchanged, RecordTypes, netRecords
<1> QED
  BY <1>1, <1>2, <1>4, <1>5, <1>6, <1>7, <1>8 DEF PythonStep

LEMMA TypesStay ==
  ASSUME GateInv, RecordTypes, NetworkNext
  PROVE  RecordTypes'
BY ConnectTypes, OperationTypes, OtherTypes DEF NetworkNext, WorkerStep

(***************************************************************************)
(* The operation that runs.                                                *)
(***************************************************************************)
LEMMA NoOperation ==
  ASSUME operation' = NoOp, netWorker' = [pc |-> "loop", for |-> "none"]
  PROVE  OperationInv'
BY DEF OperationInv, NoOp, NoNetRequest, EnablePlaces, ForgetPlaces

LEMMA CompleteEnds ==
  ASSUME NEW flags, NEW result, Complete(result, flags)
  PROVE  OperationInv'
BY NoOperation DEF Complete, Go

\* A step that leaves the worker and the records as they are.
LEMMA StandsStill ==
  ASSUME OperationInv, UNCHANGED <<netWorker, config, netNvs>>,
         operation'.request = operation.request,
         radio'.profile = radio.profile,
         radio.link = "idle" => radio'.link = "idle"
  PROVE  OperationInv'
BY DEF OperationInv, Configured

LEMMA GoShape ==
  ASSUME NEW pc, Go(pc)
  PROVE  netWorker'.pc = pc /\ netWorker'.for = "none"
BY DEF Go

LEMMA ConnectForShape ==
  ASSUME NEW whom, ConnectFor(whom)
  PROVE  netWorker'.pc = "prepare" /\ netWorker'.for = whom
BY DEF ConnectFor

\* The start, and the worker's own reconnects, are not about an operation.
LEMMA OwnSake ==
  ASSUME GateInv, OperationInv, UNCHANGED <<config, netNvs, operation>>,
         \/ Start \/ Reconnect \/ ReconnectStart \/ ReconnectCall \/ ReconnectLook
         \/ ReconnectReschedule
  PROVE  OperationInv'
<1>1. /\ netWorker'.pc \in {"loop", "prepare", "start station", "reconnect", "look", "reschedule"}
      /\ netWorker'.for \in {"none", "start"}
  <2>1. \/ ConnectFor("start")
        \/ Go("loop") \/ Go("start station") \/ Go("reconnect") \/ Go("look") \/ Go("reschedule")
    BY DEF Start, Reconnect, ReconnectStart, ReconnectCall, ReconnectLook, ReconnectReschedule
  <2> QED
    BY <2>1, GoShape, ConnectForShape
<1> QED
  BY <1>1 DEF OperationInv, Configured, EnablePlaces, ForgetPlaces

LEMMA OnwardShape ==
  ASSUME GateInv, NEW pc, Onward(pc)
  PROVE  netWorker'.pc = pc /\ netWorker'.for = netWorker.for
BY DEF GateInv, GateTypes, Worker, Onward

LEMMA FailedKeeps ==
  ASSUME GateInv, OperationInv, UNCHANGED <<config, netNvs, operation>>, InAttempt, ConnectFailed
  PROVE  OperationInv'
<1>1. CASE netWorker.for = "configure"
  <2>1. netWorker' = [pc |-> "rollback", for |-> "none"] /\ operation.request.kind = "configure"
    BY <1>1 DEF ConnectFailed, Go, OperationInv
  <2> QED
    BY <2>1 DEF OperationInv, Configured, EnablePlaces, ForgetPlaces
<1>2. CASE netWorker.for # "configure"
  <2>1. netWorker'.pc = "retry" /\ netWorker'.for = netWorker.for
    BY <1>2, OnwardShape DEF ConnectFailed
  <2> QED
    BY <1>2, <2>1 DEF OperationInv, Configured, EnablePlaces, ForgetPlaces
<1> QED
  BY <1>1, <1>2

LEMMA ConnectStep ==
  ASSUME GateInv, RecordTypes, OperationInv,
         ConnectPrepare \/ ConnectCall \/ ConnectLost \/ ConnectDone \/ ConnectRetry
  PROVE  OperationInv'
<1> USE DEF AtStep
<1>1. CASE ConnectPrepare
  <2>1. UNCHANGED <<config, netNvs, operation>> /\ InAttempt
    BY <1>1 DEF ConnectPrepare, KeepAllBut, netRecords, InAttempt, AttemptPlaces
  <2>2. CASE ConnectFailed
    BY <2>1, <2>2, FailedKeeps
  <2>3. CASE DriverStarts(TargetRecord.profile) /\ Onward("connect")
    <3>1. netWorker'.pc = "connect" /\ netWorker'.for = netWorker.for
      BY <2>3, OnwardShape
    <3>2. radio'.profile = TargetRecord.profile
      BY <2>3 DEF DriverStarts, RecordTypes, Radio
    <3>3. netWorker.for = "configure" => radio'.profile = operation.request.profile
      BY <3>2 DEF TargetRecord, Candidate
    <3> QED
      BY <2>1, <3>1, <3>3 DEF OperationInv, Configured, EnablePlaces, ForgetPlaces
  <2> QED
    BY <1>1, <2>2, <2>3 DEF ConnectPrepare
<1>2. CASE ConnectCall
  <2>1. UNCHANGED <<config, netNvs, operation>> /\ InAttempt
    BY <1>2 DEF ConnectCall, KeepAllBut, netRecords, InAttempt, AttemptPlaces
  <2>2. CASE ConnectFailed
    BY <2>1, <2>2, FailedKeeps
  <2>3. CASE DriverAsked /\ Onward("wait")
    <3>1. netWorker.pc = "connect" /\ netWorker'.pc = "wait" /\ netWorker'.for = netWorker.for
      BY <1>2, <2>3, OnwardShape DEF ConnectCall
    <3>2. radio'.profile = radio.profile
      BY <2>3 DEF DriverAsked, DriverConnects, DriverUnchanged, RecordTypes, Radio
    <3> QED
      BY <2>1, <3>1, <3>2 DEF OperationInv, Configured, EnablePlaces, ForgetPlaces
  <2> QED
    BY <1>2, <2>2, <2>3 DEF ConnectCall
<1>3. CASE ConnectLost
  BY <1>3, FailedKeeps DEF ConnectLost, KeepAllBut, netRecords, InAttempt, AttemptPlaces
<1>4. CASE ConnectDone
  <2>1. CASE Complete(FALSE, net)
    BY <2>1, CompleteEnds
  <2>2. CASE ~Complete(FALSE, net)
    <3>1. /\ netWorker.for # "rollback" /\ netWorker.pc = "wait" /\ netWorker.for # "none"
          /\ Go(IF netWorker.for = "start" THEN "loop" ELSE "persist")
          /\ UNCHANGED <<config, netNvs, operation, radio>>
      BY <1>4, <2>2 DEF ConnectDone, DriverUnchanged, netRecords, GateInv, InAttempt, AttemptPlaces
    <3> QED
      BY <3>1 DEF OperationInv, Configured, EnablePlaces, ForgetPlaces, Go, GateInv, GateTypes, Worker
  <2> QED
    BY <2>1, <2>2
<1>5. CASE ConnectRetry
  <2>1. CASE Complete(FALSE, RetryScheduled)
    BY <2>1, CompleteEnds
  <2>2. CASE ~Complete(FALSE, RetryScheduled)
    <3>1. Go("loop") /\ UNCHANGED <<config, netNvs, operation>>
      BY <1>5, <2>2 DEF ConnectRetry, netRecords
    <3> QED
      BY <3>1 DEF OperationInv, Configured, EnablePlaces, ForgetPlaces, Go
  <2> QED
    BY <2>1, <2>2
<1> QED
  BY <1>1, <1>2, <1>3, <1>4, <1>5

LEMMA OperationStep ==
  ASSUME GateInv, RecordTypes, OperationInv,
         \/ RunOperation \/ Configure \/ PersistCandidate \/ Rollback
         \/ Enable \/ EnableProfile \/ EnableSettle \/ Disable
         \/ Forget \/ ForgetDisconnect \/ ForgetClear \/ ForgetSettle
  PROVE  OperationInv'
<1> USE DEF AtStep, netRecords, EnablePlaces, ForgetPlaces
<1>0. /\ radio.profile \in Profile /\ radio \in Radio
      /\ operation.request \in NetRequest \cup {NoNetRequest}
  BY ProfileFacts DEF RecordTypes, GateInv, GateTypes, Operation
<1>1. CASE RunOperation
  <2>1. operation # NoOp /\ operation.request \in NetRequest
    BY <1>1 DEF RunOperation, NoOp, GateInv
  <2>2. /\ operation'.request = operation.request /\ UNCHANGED <<radio, config, netNvs>>
        /\ netWorker' = [pc |-> operation.request.kind, for |-> "none"]
    BY <1>1 DEF RunOperation, Go, GateInv, GateTypes, Operation
  <2> QED
    BY <2>1, <2>2, RequestFacts DEF OperationInv, Configured
<1>2. CASE Configure
  <2>1. /\ netWorker.pc = "configure" /\ netWorker' = [pc |-> "prepare", for |-> "configure"]
        /\ UNCHANGED <<config, netNvs, operation>>
    BY <1>2 DEF Configure, ConnectFor, KeepAllBut
  <2> QED
    BY <2>1 DEF OperationInv, Configured
<1>3. CASE PersistCandidate
  <2>1. CASE \E flags, result : Complete(result, flags)
    BY <2>1, CompleteEnds
  <2>2. CASE ~\E flags, result : Complete(result, flags)
    <3>1. /\ netWorker.pc = "persist" /\ Go("rollback") /\ UNCHANGED <<config, operation, radio>>
      BY <1>3, <2>2 DEF PersistCandidate, PersistFails, DriverUnchanged
    <3> QED
      BY <3>1 DEF OperationInv, Configured, Go
  <2> QED
    BY <2>1, <2>2
<1>4. CASE Rollback
  <2>1. CASE \E flags, result : Complete(result, flags)
    BY <2>1, CompleteEnds
  <2>2. CASE ~\E flags, result : Complete(result, flags)
    <3>1. /\ netWorker.pc = "rollback" /\ netWorker' = [pc |-> "prepare", for |-> "rollback"]
          /\ UNCHANGED <<config, netNvs, operation>>
      BY <1>4, <2>2 DEF Rollback, ConnectFor
    <3> QED
      BY <3>1 DEF OperationInv, Configured
  <2> QED
    BY <2>1, <2>2
<1>5. CASE Enable
  <2>1. CASE \E flags, result : Complete(result, flags)
    BY <2>1, CompleteEnds
  <2>2. CASE ~\E flags, result : Complete(result, flags)
    <3> DEFINE updated == [config EXCEPT !.enabled = operation.request.enabled]
    <3>1. /\ netWorker.pc = "enable" /\ UNCHANGED <<operation, radio>>
          /\ netNvs' = updated /\ config' = updated
          /\ Go(IF updated.enabled THEN "profile" ELSE "disable")
      BY <1>5, <2>2 DEF Enable, DriverUnchanged
    <3>2. updated.enabled = operation.request.enabled /\ updated.profile = config.profile
      BY DEF RecordTypes, Record
    <3> HIDE DEF updated
    <3> QED
      BY <3>1, <3>2 DEF OperationInv, Configured, Go
  <2> QED
    BY <2>1, <2>2
<1>6. CASE EnableProfile
  <2>1. netWorker.pc = "profile" /\ UNCHANGED <<config, netNvs, operation>>
    BY <1>6 DEF EnableProfile, KeepAllBut
  <2>2. CASE Go("not enabled")
    BY <2>1, <2>2 DEF OperationInv, Configured, Go
  <2>3. CASE Go("enabled") /\ radio'.profile = config.profile
    BY <2>1, <2>3 DEF OperationInv, Configured, Go
  <2>4. DriverStarts(radio.profile) => radio'.profile = radio.profile
    BY <1>0 DEF DriverStarts, Radio
  <2>5. Go("not enabled") \/ (Go("enabled") /\ radio'.profile = config.profile)
    <3>1. \/ Go("not enabled")
          \/ Go("enabled") /\ radio.profile = config.profile /\ DriverStarts(radio.profile)
          \/ Go("enabled") /\ radio' = [on |-> TRUE, profile |-> config.profile, link |-> "idle"]
      BY <1>6 DEF EnableProfile
    <3>2. ASSUME radio' = [on |-> TRUE, profile |-> config.profile, link |-> "idle"]
          PROVE  radio'.profile = config.profile
      BY <3>2
    <3> QED
      BY <2>4, <3>1, <3>2
  <2> QED
    BY <2>2, <2>3, <2>5
<1>7. CASE EnableSettle \/ Disable
  BY <1>7, CompleteEnds DEF EnableSettle, Disable
<1>8. CASE Forget
  <2>1. CASE \E flags, result : Complete(result, flags)
    BY <2>1, CompleteEnds
  <2>2. CASE ~\E flags, result : Complete(result, flags)
    <3>1. /\ netWorker.pc = "forget" /\ Go("forget disconnect")
          /\ netNvs' = NoRecord /\ UNCHANGED <<config, operation>>
      BY <1>8, <2>2 DEF Forget
    <3> QED
      BY <3>1 DEF OperationInv, Configured, Go
  <2> QED
    BY <2>1, <2>2
<1>9. CASE ForgetDisconnect
  <2>1. /\ netWorker.pc = "forget disconnect" /\ Go("forget clear")
        /\ UNCHANGED <<config, netNvs, operation>>
    BY <1>9 DEF ForgetDisconnect, KeepAllBut
  <2> QED
    BY <2>1 DEF OperationInv, Configured, Go
<1>10. CASE ForgetClear
  <2>1. netWorker.pc = "forget clear" /\ UNCHANGED <<config, netNvs, operation>>
    BY <1>10 DEF ForgetClear, KeepAllBut
  <2>2. CASE Go("forget failed")
    BY <2>1, <2>2 DEF OperationInv, Configured, Go
  <2>3. CASE Go("forget done") /\ DriverStops(NoProfile)
    BY <2>1, <2>3 DEF OperationInv, Configured, Go, DriverStops
  <2> QED
    BY <1>10, <2>2, <2>3 DEF ForgetClear
<1>11. CASE ForgetSettle
  BY <1>11, CompleteEnds DEF ForgetSettle
<1> QED
  BY <1>1, <1>2, <1>3, <1>4, <1>5, <1>6, <1>7, <1>8, <1>9, <1>10, <1>11

\* Python is not under way while an operation is.
LEMMA PythonFacts ==
  ASSUME GateInv, PythonStep
  PROVE  /\ operation = NoOp
         /\ python # NoCall \/ \E call \in Calls : PythonBegin(call)
<1>1. python.pc # "idle" => python # NoCall
  BY DEF NoCall
<1>2. PythonDriver \/ PythonSet \/ PythonEnd => python # NoCall
  BY <1>1 DEF PythonDriver, PythonSet, PythonEnd
<1> QED
  BY <1>2 DEF PythonStep, PythonBegin, GateInv, GateHolds

LEMMA OthersStep ==
  ASSUME GateInv, RecordTypes, OperationInv,
         \/ HandleEvent \/ RetryDue \/ AccessPointActs
         \/ (\E request \in NetRequest : Submit(request)) \/ Release
         \/ PythonStep
  PROVE  OperationInv'
<1>1. CASE HandleEvent \/ RetryDue
  BY <1>1, StandsStill DEF HandleEvent, RetryDue, netRecords
<1>2. CASE AccessPointActs
  <2>1. /\ UNCHANGED <<netWorker, config, netNvs, operation>>
        /\ radio'.profile = radio.profile /\ radio.link # "idle"
    BY <1>2 DEF AccessPointActs, AccessPoint, RecordTypes, Radio, netRecords
  <2> QED
    BY <2>1, StandsStill
<1>3. ASSUME NEW request \in NetRequest, Submit(request) PROVE OperationInv'
  <2>1. /\ operation = NoOp /\ operation'.request = request
        /\ UNCHANGED <<radio, netWorker, config, netNvs>>
        /\ request.kind = "enable" /\ request.enabled => Configured(config)
    BY <1>3 DEF Submit, netRecords
  <2>2. ~Executing
    BY <2>1 DEF GateInv, NoOp
  <2>3. /\ netWorker.pc \notin {"configure", "persist", "rollback"}
        /\ netWorker.for \notin {"configure", "rollback"}
        /\ netWorker.pc \notin EnablePlaces /\ netWorker.pc \notin ForgetPlaces
    BY <2>2 DEF Executing, OperationPlaces, EnablePlaces, ForgetPlaces
  <2> QED
    BY <2>1, <2>3 DEF OperationInv, Configured, EnablePlaces, ForgetPlaces
<1>4. CASE Release
  <2>1. operation'.request = operation.request
    BY <1>4 DEF Release, GateInv, GateTypes, Operation
  <2> QED
    BY <1>4, <2>1, StandsStill DEF Release, netRecords
<1>5. CASE PythonStep
  <2>1. operation = NoOp /\ UNCHANGED <<operation, netWorker, config, netNvs>>
    <3>1. operation = NoOp
      BY <1>5, PythonFacts
    <3> QED
      BY <1>5, <3>1 DEF PythonStep, PythonBegin, PythonDriver, PythonSet, PythonEnd, KeepService,
           netRecords
  <2>2. ~Executing
    BY <2>1 DEF GateInv, NoOp
  <2>3. /\ netWorker.pc \notin {"configure", "persist", "rollback"}
        /\ netWorker.for \notin {"configure", "rollback"}
        /\ netWorker.pc \notin EnablePlaces /\ netWorker.pc \notin ForgetPlaces
    BY <2>2 DEF Executing, OperationPlaces, EnablePlaces, ForgetPlaces
  <2> QED
    BY <2>1, <2>3 DEF OperationInv, Configured, EnablePlaces, ForgetPlaces
<1> QED
  BY <1>1, <1>2, <1>3, <1>4, <1>5

LEMMA OperationStays ==
  ASSUME GateInv, RecordTypes, OperationInv, NetworkNext
  PROVE  OperationInv'
<1>1. CASE \/ Start \/ Reconnect \/ ReconnectStart \/ ReconnectCall \/ ReconnectLook
           \/ ReconnectReschedule
  <2>1. UNCHANGED <<config, netNvs, operation>>
    BY <1>1 DEF Start, Reconnect, ReconnectStart, ReconnectCall, ReconnectLook, ReconnectReschedule,
         KeepAllBut, netRecords
  <2> QED
    BY <1>1, <2>1, OwnSake
<1> QED
  BY <1>1, ConnectStep, OperationStep, OthersStep DEF NetworkNext, WorkerStep

(***************************************************************************)
(* What has been answered.                                                 *)
(***************************************************************************)
\* The flags on which Wanted depends.
Wishes == net'.requested = net.requested /\ net'.controlled = net.controlled

LEMMA WishFacts ==
  ASSUME net \in NetFlags
  PROVE  /\ RetryScheduled.requested = net.requested /\ RetryScheduled.controlled = net.controlled
         /\ Down(net).requested = net.requested /\ Down(net).controlled = net.controlled
BY DEF NetFlags, RetryScheduled, Down

\* A step in the middle of an operation, or the one that accepts it.
LEMMA InsideSettled ==
  ASSUME SettledInv, operation' # NoOp, UNCHANGED <<lastOperation, python, untouched>>,
         netWorker'.pc = "start" \/ netWorker'.for = "start"
           => netWorker.pc = "start" \/ netWorker.for = "start"
  PROVE  SettledInv'
BY DEF SettledInv, ResultInForce

\* A step that leaves records, wishes and profile alone, and connects only where the worker
\* has begun to.
LEMMA OutsideSettled ==
  ASSUME SettledInv, UNCHANGED <<config, netNvs, operation, lastOperation, python, untouched>>,
         netWorker'.pc = "start" \/ netWorker'.for = "start"
           => netWorker.pc = "start" \/ netWorker.for = "start",
         lastOperation.succeeded => Wishes /\ radio'.profile = radio.profile,
         lastOperation.succeeded /\ operation = NoOp =>
           /\ radio.link = "idle" /\ radio'.link # "idle" => netWorker.pc \in ReconnectPlaces
           /\ netWorker'.pc \in ReconnectPlaces => netWorker.pc \in ReconnectPlaces \/ Wanted
  PROVE  SettledInv'
<1>1. ASSUME operation = NoOp, lastOperation.succeeded
      PROVE  ResultInForce'
  <2>1. Wishes /\ radio'.profile = radio.profile
    BY <1>1
  <2>2. Wanted' <=> Wanted
    BY <2>1 DEF Wishes, Wanted, Configured
  <2>3. untouched /\ ~lastOperation.request.enabled /\ radio.link = "idle" => radio'.link = "idle"
    BY <1>1 DEF SettledInv
  <2> QED
    BY <1>1, <2>1, <2>2, <2>3 DEF SettledInv, ResultInForce, Configured
<1>2. ASSUME operation = NoOp, lastOperation.succeeded, untouched, netWorker'.pc \in ReconnectPlaces
      PROVE  lastOperation.request.enabled
  BY <1>2 DEF SettledInv, ResultInForce
<1> QED
  BY <1>1, <1>2 DEF SettledInv, ResultInForce

\* An operation that ends.
LEMMA CompleteSettles ==
  ASSUME GateInv, Executing, NEW flags \in NetFlags, NEW result \in BOOLEAN, Complete(result, flags),
         result =>
           /\ config' = netNvs' /\ config'.enabled = operation.request.enabled
           /\ operation.request.kind = "configure" => config'.profile = operation.request.profile
           /\ operation.request.kind = "forget" => ~Configured(config')
           /\ ~flags.controlled
           /\ operation.request.enabled =>
                config'.profile # NoProfile /\ radio'.profile = config'.profile
           /\ ~operation.request.enabled => radio'.link = "idle"
           /\ operation.request.kind = "forget" => radio'.profile = NoProfile
  PROVE  SettledInv'
<1>1. /\ lastOperation' = [request |-> operation.request, succeeded |-> result]
      /\ operation' = NoOp /\ net' = [flags EXCEPT !.mutating = FALSE]
      /\ netWorker' = [pc |-> "loop", for |-> "none"] /\ python' = python
  BY DEF Complete, Go
<1>2. lastOperation'.request = operation.request /\ lastOperation'.succeeded = result
  BY <1>1
<1>3. net'.controlled = flags.controlled
  BY <1>1 DEF NetFlags
<1>4. python' = NoCall
  BY <1>1, ExecutingFacts
<1>5. netWorker'.pc = "loop" /\ netWorker'.for = "none"
  BY <1>1
<1>6. ResultInForce'
  <2> SUFFICES ASSUME result PROVE ResultInForce'
    BY <1>2 DEF ResultInForce
  <2>1. Wanted' <=> operation.request.enabled
    BY <1>3 DEF Wanted, Configured
  <2> QED
    BY <1>2, <2>1 DEF ResultInForce
<1> QED
  BY <1>4, <1>5, <1>6 DEF SettledInv, ReconnectPlaces

LEMMA AttemptSettles ==
  ASSUME GateInv, RecordTypes, OperationInv, SettledInv,
         Start \/ ConnectPrepare \/ ConnectCall \/ ConnectLost \/ ConnectDone \/ ConnectRetry
  PROVE  SettledInv'
<1> USE DEF AtStep, netRecords
<1>0. net \in NetFlags /\ netWorker \in Worker
  BY DEF GateInv, GateTypes
<1>1. CASE Start \/ (InAttempt /\ netWorker.for = "start")
  <2>1. /\ ~lastOperation.succeeded
        /\ UNCHANGED <<config, netNvs, operation, lastOperation, python, untouched>>
    BY <1>1 DEF SettledInv, Start, ConnectPrepare, ConnectCall, ConnectLost, ConnectDone, ConnectRetry,
         KeepAllBut, KeepParties, InAttempt, AttemptPlaces
  <2>2. netWorker.pc = "start" \/ netWorker.for = "start"
    BY <1>1 DEF Start
  <2> QED
    BY <2>1, <2>2, OutsideSettled
<1>2. CASE ~Start /\ InAttempt /\ netWorker.for # "start"
  <2>1. Executing /\ operation # NoOp /\ netWorker.for \in {"configure", "rollback"}
    BY <1>0, <1>2, ExecutingFacts DEF GateInv, Worker, Executing
  <2>2. CASE Complete(FALSE, net)
    BY <1>0, <2>1, <2>2, CompleteSettles
  <2>3. CASE Complete(FALSE, RetryScheduled)
    BY <1>0, <2>1, <2>3, CompleteSettles, FlagsKeepTheGate
  <2>4. CASE ~Complete(FALSE, net) /\ ~Complete(FALSE, RetryScheduled)
    <3>1. UNCHANGED <<operation, lastOperation, python, untouched>>
      BY <1>2, <2>4 DEF ConnectPrepare, ConnectCall, ConnectLost, ConnectDone, ConnectRetry,
           KeepAllBut, KeepParties
    <3>2. \/ Onward("connect") \/ Onward("wait") \/ Onward("retry")
          \/ Go("loop") \/ Go("persist") \/ Go("rollback")
      BY <1>2, <2>4 DEF ConnectPrepare, ConnectCall, ConnectLost, ConnectDone, ConnectRetry, ConnectFailed
    <3>3. netWorker'.pc # "start" /\ netWorker'.for # "start"
      <4>1. Go("loop") \/ Go("persist") \/ Go("rollback") =>
              netWorker'.pc \in {"loop", "persist", "rollback"} /\ netWorker'.for = "none"
        BY DEF Go
      <4>2. Onward("connect") \/ Onward("wait") \/ Onward("retry") =>
              netWorker'.pc \in {"connect", "wait", "retry"} /\ netWorker'.for = netWorker.for
        BY OnwardShape
      <4> QED
        BY <1>2, <3>2, <4>1, <4>2
    <3> QED
      BY <2>1, <3>1, <3>3, InsideSettled
  <2> QED
    BY <2>2, <2>3, <2>4
<1> QED
  BY <1>1, <1>2 DEF ConnectPrepare, ConnectCall, ConnectLost, ConnectDone, ConnectRetry, InAttempt,
     AttemptPlaces

LEMMA ReconnectSettles ==
  ASSUME GateInv, RecordTypes, SettledInv,
         Reconnect \/ ReconnectStart \/ ReconnectCall \/ ReconnectLook \/ ReconnectReschedule
  PROVE  SettledInv'
<1> USE DEF AtStep, netRecords
<1>0. net \in NetFlags /\ radio \in Radio
  BY DEF GateInv, GateTypes, RecordTypes
<1>1. UNCHANGED <<config, netNvs, operation, lastOperation, python, untouched>>
  BY DEF Reconnect, ReconnectStart, ReconnectCall, ReconnectLook, ReconnectReschedule, KeepAllBut,
         KeepParties
<1>2. netWorker'.pc # "start" /\ netWorker'.for # "start"
  <2>1. \/ Go("loop") \/ Go("start station") \/ Go("reconnect") \/ Go("look") \/ Go("reschedule")
    BY DEF Reconnect, ReconnectStart, ReconnectCall, ReconnectLook, ReconnectReschedule
  <2>2. netWorker'.pc \in {"loop", "start station", "reconnect", "look", "reschedule"}
    BY <2>1, GoShape
  <2>3. netWorker'.for = "none"
    BY <2>1, GoShape
  <2> QED
    BY <2>2, <2>3
<1>3. Wishes
  <2>1. CASE Reconnect \/ ReconnectStart
    BY <1>0, <2>1 DEF Reconnect, ReconnectStart, Wishes, NetFlags
  <2>2. CASE ReconnectCall \/ ReconnectLook
    BY <2>2 DEF ReconnectCall, ReconnectLook, Wishes
  <2>3. CASE ReconnectReschedule
    BY <1>0, <2>3, WishFacts DEF ReconnectReschedule, Wishes
  <2> QED
    BY <2>1, <2>2, <2>3
<1>4. radio'.profile = radio.profile
  BY <1>0 DEF Reconnect, ReconnectStart, ReconnectCall, ReconnectLook, ReconnectReschedule,
     DriverUnchanged, DriverStarts, DriverAsked, DriverConnects, Radio
<1>5. radio.link = "idle" /\ radio'.link # "idle" => netWorker.pc \in ReconnectPlaces
  <2>1. Reconnect => radio' = radio
    BY DEF Reconnect, DriverUnchanged
  <2> QED
    BY <2>1 DEF ReconnectStart, ReconnectCall, ReconnectLook, ReconnectReschedule, ReconnectPlaces
<1>6. netWorker.pc \in ReconnectPlaces \/ Wanted
  BY DEF Reconnect, ReconnectStart, ReconnectCall, ReconnectLook, ReconnectReschedule, ReconnectPlaces
<1> QED
  BY <1>1, <1>2, <1>3, <1>4, <1>5, <1>6, OutsideSettled

\* The steps of an operation that do not end it.
LEMMA RunningSettles ==
  ASSUME GateInv, RecordTypes, SettledInv,
         RunOperation \/ Configure \/ EnableProfile \/ ForgetDisconnect \/ ForgetClear
  PROVE  SettledInv'
<1> USE DEF AtStep
<1>1. UNCHANGED <<lastOperation, python, untouched>>
  BY DEF RunOperation, Configure, EnableProfile, ForgetDisconnect, ForgetClear, KeepAllBut, KeepParties
<1>2. CASE RunOperation
  <2>1. operation.state = "queued" /\ operation' = [operation EXCEPT !.state = "running"]
        /\ Go(operation.request.kind)
    BY <1>2 DEF RunOperation
  <2>2. operation # NoOp /\ operation.request \in NetRequest /\ operation \in Operation
    BY <2>1 DEF NoOp, GateInv, GateTypes
  <2>3. operation'.state = "running"
    BY <2>1, <2>2 DEF Operation
  <2>4. operation' # NoOp
    BY <2>3 DEF NoOp
  <2>5. netWorker'.pc # "start" /\ netWorker'.for # "start"
    BY <2>1, <2>2, RequestFacts DEF Go
  <2> QED
    BY <1>1, <2>4, <2>5, InsideSettled
<1>3. CASE Configure \/ EnableProfile \/ ForgetDisconnect \/ ForgetClear
  <2>1. Executing /\ operation' = operation
    BY <1>3 DEF Configure, EnableProfile, ForgetDisconnect, ForgetClear, KeepAllBut, Executing,
         OperationPlaces
  <2>2. \/ ConnectFor("configure") \/ Go("enabled") \/ Go("not enabled") \/ Go("forget clear")
        \/ Go("forget done") \/ Go("forget failed")
    BY <1>3 DEF Configure, EnableProfile, ForgetDisconnect, ForgetClear
  <2>3. netWorker'.pc # "start" /\ netWorker'.for # "start"
    <3>1. netWorker'.pc \in {"prepare", "enabled", "not enabled", "forget clear", "forget done",
                             "forget failed"}
      BY <2>2, GoShape, ConnectForShape
    <3>2. netWorker'.for \in {"none", "configure"}
      BY <2>2, GoShape, ConnectForShape
    <3> QED
      BY <3>1, <3>2
  <2> QED
    BY <1>1, <2>1, <2>3, ExecutingFacts, InsideSettled
<1> QED
  BY <1>2, <1>3

\* The steps that may end it.
LEMMA EndSettles ==
  ASSUME GateInv, RecordTypes, OperationInv, SettledInv,
         PersistCandidate \/ Rollback \/ Enable \/ EnableSettle \/ Disable \/ Forget \/ ForgetSettle
  PROVE  SettledInv'
<1> USE DEF AtStep
<1>0. net \in NetFlags /\ radio \in Radio /\ config \in Record
  BY DEF GateInv, GateTypes, RecordTypes
<1>1. Executing /\ operation # NoOp /\ operation.request \in NetRequest
  <2>1. Executing
    BY DEF PersistCandidate, Rollback, Enable, EnableSettle, Disable, Forget, ForgetSettle, Executing,
           OperationPlaces
  <2> QED
    BY <2>1, ExecutingFacts
<1>2. Unrequested \in NetFlags
  BY <1>0, FlagsKeepTheGate
<1>3. ASSUME KeepParties, UNCHANGED operation,
             NEW p \in {"rollback", "profile", "disable", "forget disconnect"},
             Go(p) \/ ConnectFor("rollback")
      PROVE  SettledInv'
  <2>1. netWorker'.pc \in {"rollback", "profile", "disable", "forget disconnect", "prepare"}
    BY <1>3, GoShape, ConnectForShape
  <2>2. netWorker'.for \in {"none", "rollback"}
    BY <1>3, GoShape, ConnectForShape
  <2>3. netWorker'.pc # "start" /\ netWorker'.for # "start"
    BY <2>1, <2>2
  <2> QED
    BY <1>1, <1>3, <2>3, InsideSettled DEF KeepParties
<1>4. ASSUME NEW flags \in NetFlags, Complete(FALSE, flags) PROVE SettledInv'
  BY <1>1, <1>4, CompleteSettles
<1>5. CASE PersistCandidate
  <2>1. CASE Go("rollback") /\ UNCHANGED operation /\ KeepParties
    BY <1>3, <2>1
  <2> DEFINE flags == [net EXCEPT !.controlled = FALSE, !.resume = FALSE, !.requested = TRUE, !.waiting = FALSE]
  <2>2. CASE netNvs' = Candidate /\ config' = Candidate /\ DriverUnchanged /\ Complete(TRUE, flags)
    <3>1. operation.request.kind = "configure" /\ radio'.profile = operation.request.profile
      BY <1>5, <2>2 DEF PersistCandidate, OperationInv, DriverUnchanged
    <3>2. operation.request.enabled /\ operation.request.profile \in Profiles
      BY <1>1, <3>1, RequestFacts
    <3>3. config' = netNvs' /\ config'.enabled /\ config'.profile = operation.request.profile
      BY <2>2 DEF Candidate
    <3>4. config'.profile # NoProfile
      BY <3>2, <3>3, NetworkAssumption DEF NetworkAssumption
    <3>5. flags \in NetFlags /\ ~flags.controlled
      BY <1>0 DEF NetFlags
    <3> HIDE DEF flags
    <3> QED
      BY <1>1, <2>2, <3>1, <3>2, <3>3, <3>4, <3>5, CompleteSettles
  <2> QED
    BY <1>5, <2>1, <2>2 DEF PersistCandidate
<1>6. CASE Rollback
  <2>1. [Unrequested EXCEPT !.address = FALSE] \in NetFlags
    BY <1>2 DEF NetFlags
  <2> QED
    BY <1>3, <1>4, <1>6, <2>1 DEF Rollback
<1>7. CASE Enable
  BY <1>0, <1>3, <1>4, <1>7 DEF Enable
<1>8. CASE EnableSettle
  <2>1. CASE Complete(FALSE, [net EXCEPT !.controlled = TRUE, !.resume = FALSE, !.requested = FALSE])
    BY <1>0, <1>4, <2>1 DEF NetFlags
  <2> DEFINE flags == [net EXCEPT !.controlled = FALSE, !.resume = FALSE, !.requested = TRUE, !.waiting = FALSE]
  <2>2. CASE netWorker.pc = "enabled" /\ Complete(TRUE, flags)
    <3>1. UNCHANGED <<config, netNvs, radio>>
      BY <1>8 DEF EnableSettle, netRecords, DriverUnchanged
    <3>2. /\ operation.request.kind = "enable" /\ operation.request.enabled /\ Configured(config)
          /\ config = netNvs /\ config.enabled /\ radio.profile = config.profile
      BY <2>2 DEF OperationInv, EnablePlaces
    <3>3. flags \in NetFlags /\ ~flags.controlled
      BY <1>0 DEF NetFlags
    <3> HIDE DEF flags
    <3> QED
      BY <1>1, <2>2, <3>1, <3>2, <3>3, CompleteSettles DEF Configured
  <2> QED
    BY <1>8, <2>1, <2>2 DEF EnableSettle
<1>9. CASE Disable
  <2>1. CASE Complete(FALSE, [Unrequested EXCEPT !.controlled = TRUE, !.resume = FALSE])
    BY <1>2, <1>4, <2>1 DEF NetFlags
  <2> DEFINE flags == [Unrequested EXCEPT !.controlled = FALSE, !.resume = FALSE]
  <2>2. CASE DriverDisconnects(radio.profile) /\ Complete(TRUE, flags)
    <3>1. UNCHANGED <<config, netNvs>> /\ radio'.link = "idle"
      BY <1>0, <1>9, <2>2 DEF Disable, netRecords, DriverDisconnects, Radio
    <3>2. /\ operation.request.kind = "enable" /\ ~operation.request.enabled
          /\ config = netNvs /\ ~config.enabled
      BY <1>9 DEF Disable, OperationInv, EnablePlaces
    <3>3. flags \in NetFlags /\ ~flags.controlled
      BY <1>2 DEF NetFlags
    <3>4. config.enabled \in BOOLEAN /\ operation.request.enabled \in BOOLEAN
      BY <1>0, <1>1, RequestFacts DEF Record
    <3> HIDE DEF flags
    <3> QED
      BY <1>1, <2>2, <3>1, <3>2, <3>3, <3>4, CompleteSettles
  <2> QED
    BY <1>9, <2>1, <2>2 DEF Disable
<1>10. CASE Forget
  BY <1>0, <1>3, <1>4, <1>10 DEF Forget
<1>11. CASE ForgetSettle
  <2> DEFINE settled == [net EXCEPT !.resume = FALSE, !.requested = FALSE, !.waiting = FALSE,
                                    !.controlled = (netWorker.pc = "forget failed")]
             flags == [settled EXCEPT !.connected = FALSE, !.address = FALSE]
  <2>0. settled \in NetFlags /\ flags \in NetFlags
    <3>1. settled \in NetFlags
      BY <1>0 DEF NetFlags
    <3> HIDE DEF settled
    <3>2. flags \in NetFlags
      BY <3>1 DEF NetFlags
    <3> QED
      BY <3>1, <3>2
  <2>1. CASE Complete(FALSE, settled)
    BY <1>4, <2>0, <2>1
  <2>2. CASE netWorker.pc = "forget done" /\ Complete(TRUE, flags)
    <3>1. config' = NoRecord /\ UNCHANGED <<netNvs, radio>>
      BY <1>11 DEF ForgetSettle, DriverUnchanged
    <3>2. /\ operation.request.kind = "forget" /\ ~operation.request.enabled
          /\ netNvs = NoRecord /\ radio.profile = NoProfile /\ radio.link = "idle"
      BY <1>1, <2>2, RequestFacts DEF OperationInv, ForgetPlaces
    <3>3. ~flags.controlled
      BY <1>0, <2>2 DEF NetFlags
    <3>4. /\ config' = netNvs' /\ ~config'.enabled /\ ~Configured(config')
          /\ config'.enabled = operation.request.enabled
      BY <1>1, <3>1, <3>2, RequestFacts DEF NoRecord, Configured
    <3> HIDE DEF flags, settled
    <3> QED
      BY <1>1, <2>0, <2>2, <3>1, <3>2, <3>3, <3>4, CompleteSettles
  <2> QED
    BY <1>11, <2>1, <2>2 DEF ForgetSettle
<1> QED
  BY <1>5, <1>6, <1>7, <1>8, <1>9, <1>10, <1>11

\* The driver's events, the access point and the owner's requests.
LEMMA OthersSettle ==
  ASSUME GateInv, RecordTypes, SettledInv,
         \/ HandleEvent \/ RetryDue \/ AccessPointActs
         \/ (\E request \in NetRequest : Submit(request)) \/ Release
  PROVE  SettledInv'
<1>0. net \in NetFlags /\ radio \in Radio /\ operation \in Operation
  BY DEF GateInv, GateTypes, RecordTypes
<1>1. CASE HandleEvent
  <2>1. /\ [Down(net) EXCEPT !.waiting = @ \/ net.requested \/ config.enabled].requested = net.requested
        /\ [Down(net) EXCEPT !.waiting = @ \/ net.requested \/ config.enabled].controlled = net.controlled
    BY <1>0 DEF NetFlags, Down
  <2>2. Wishes
    BY <1>0, <1>1, <2>1, WishFacts DEF HandleEvent, Wishes, NetFlags
  <2> QED
    BY <1>1, <2>2, OutsideSettled DEF HandleEvent, netRecords
<1>2. CASE RetryDue
  <2>1. Wishes
    BY <1>0, <1>2 DEF RetryDue, Wishes, NetFlags
  <2> QED
    BY <1>2, <2>1, OutsideSettled DEF RetryDue, netRecords
<1>3. CASE AccessPointActs
  <2>1. radio'.profile = radio.profile /\ radio.link # "idle"
    BY <1>0, <1>3 DEF AccessPointActs, AccessPoint, Radio
  <2>2. UNCHANGED <<net, config, netNvs, operation, lastOperation, python, untouched, netWorker>>
    BY <1>3 DEF AccessPointActs, AccessPoint, netRecords
  <2> QED
    BY <2>1, <2>2, OutsideSettled DEF Wishes
<1>4. CASE (\E request \in NetRequest : Submit(request)) \/ Release
  <2>1. operation'.state = "queued"
    BY <1>0, <1>4 DEF Submit, Release, Operation
  <2>2. operation' # NoOp
    BY <2>1 DEF NoOp
  <2>3. UNCHANGED <<lastOperation, python, untouched, netWorker>>
    BY <1>4 DEF Submit, Release
  <2> QED
    BY <2>2, <2>3, InsideSettled
<1> QED
  BY <1>1, <1>2, <1>3, <1>4

\* From mutation_begin on nothing is promised but the records, and these stay.
LEMMA PythonSettles ==
  ASSUME GateInv, SettledInv, PythonStep
  PROVE  SettledInv'
<1>1. UNCHANGED <<config, netNvs, operation, lastOperation, netWorker>>
  BY DEF PythonStep, PythonBegin, PythonDriver, PythonSet, PythonEnd, KeepService, netRecords
<1>2. ~untouched'
  <2>1. CASE \E call \in Calls : PythonBegin(call)
    BY <2>1 DEF PythonBegin
  <2>2. CASE ~\E call \in Calls : PythonBegin(call)
    <3>1. ~untouched
      BY <2>2, PythonFacts DEF SettledInv
    <3>2. UNCHANGED untouched
      BY <2>2 DEF PythonStep, PythonDriver, PythonSet, PythonEnd
    <3> QED
      BY <3>1, <3>2, Zenon
  <2> QED
    BY <2>1, <2>2
<1> QED
  BY <1>1, <1>2 DEF SettledInv, ResultInForce, Configured

LEMMA SettledStays ==
  ASSUME GateInv, RecordTypes, OperationInv, SettledInv, NetworkNext
  PROVE  SettledInv'
BY AttemptSettles, ReconnectSettles, RunningSettles, EndSettles, OthersSettle, PythonSettles
   DEF NetworkNext, WorkerStep

\* A worker that has not started has answered nothing.
LEMMA ResultInitially == NetworkInit => ResultInv
<1> SUFFICES ASSUME NetworkInit PROVE ResultInv
  OBVIOUS
<1>1. RecordTypes
  <2>1. lastOperation \in Result
    BY DEF NetworkInit, Result
  <2>2. radio \in Radio /\ events \in Seq(Event)
    BY DEF NetworkInit, Radio, Profile
  <2>3. commands \in 0..MaxCommands
    BY NetworkAssumption DEF NetworkInit, NetworkAssumption
  <2> QED
    BY <2>1, <2>2, <2>3 DEF NetworkInit, RecordTypes
<1>2. OperationInv
  BY DEF NetworkInit, OperationInv, NoOp, NoNetRequest, EnablePlaces, ForgetPlaces
<1>3. SettledInv
  BY DEF NetworkInit, SettledInv, ResultInForce, NoCall, ReconnectPlaces
<1> QED
  BY <1>1, <1>2, <1>3 DEF ResultInv

LEMMA ResultStutters ==
  ASSUME ResultInv, UNCHANGED netVars
  PROVE  ResultInv'
<1>1. RecordTypes'
  BY DEF ResultInv, RecordTypes, netVars, netRecords
<1>2. OperationInv'
  BY DEF ResultInv, OperationInv, netVars, netRecords
<1>3. SettledInv'
  <2>1. Wanted' <=> Wanted
    BY DEF Wanted, netVars, netRecords
  <2> QED
    BY <2>1 DEF ResultInv, SettledInv, ResultInForce, netVars, netRecords
<1> QED
  BY <1>1, <1>2, <1>3 DEF ResultInv

LEMMA ResultStays ==
  ASSUME GateInv, ResultInv, [NetworkNext]_netVars
  PROVE  GateInv' /\ ResultInv'
<1>1. GateInv'
  BY GateStays
<1>2. ResultInv'
  BY TypesStay, OperationStays, SettledStays, ResultStutters DEF ResultInv
<1> QED
  BY <1>1, <1>2

LEMMA ResultAlways == NetworkSpec => [](GateInv /\ ResultInv)
<1>1. NetworkInit => GateInv /\ ResultInv
  BY GateInitially, ResultInitially
<1>2. GateInv /\ ResultInv /\ [NetworkNext]_netVars => (GateInv /\ ResultInv)'
  BY ResultStays
<1> QED
  BY <1>1, <1>2, PTL DEF NetworkSpec

\* What a client was told has succeeded is in force until another operation: the record in use,
\* the one in NVS and the request agree, and until Python changes the station so do the driver
\* and what the worker will do; a network that was forgotten is gone from the driver too.  For
\* any networks, number of operations and methods, and failures of the driver and of NVS
\* (run_operation with run_configure, run_enable and run_forget, and complete_operation).
THEOREM ResultCorrect == NetworkSpec => []ResultInForce
<1>1. GateInv /\ ResultInv => ResultInForce
  BY DEF ResultInv, SettledInv
<1> QED
  BY <1>1, ResultAlways, PTL

LEMMA ResultTyped == GateInv /\ ResultInv => NetworkInv
BY DEF ResultInv, RecordTypes, GateInv, GateTypes, NetworkInv, NetworkTypeOK, Radio, Event, Result,
       Worker

\* Every variable of the service keeps to its type, and the gate holds, for any networks and
\* bounds: the worker is where run_operation, connect_record and try_reconnect are, its flags,
\* records and the driver's events are well formed (network_worker, network_wifi_event).
THEOREM NetworkCorrect == NetworkSpec => []NetworkInv
<1>1. GateInv /\ ResultInv => NetworkInv
  BY ResultTyped
<1> QED
  BY <1>1, ResultAlways, PTL
=============================================================================
