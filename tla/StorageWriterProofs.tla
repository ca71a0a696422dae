------------------------- MODULE StorageWriterProofs -------------------------
(***************************************************************************)
(* Theorems about StorageWriter, for any tasks that serve requests or end  *)
(* sessions and every value of the bounds.                                 *)
(***************************************************************************)
EXTENDS StorageWriter, FiniteSetTheorems, TLAPS

USE WriterAssumption

(***************************************************************************)
(* The inductive invariant.                                                *)
(***************************************************************************)
\* A transition is in its body: it has begun, and neither ended nor been given up.
BodyAt(p, l) ==
  /\ p \in {"drain", "handles", "refresh", "store", "commit", "storeCheck", "finish"}
  /\ l.op # "QUARANTINE"
Body(t) == BodyAt(pc[t], loc[t])
Flight == {"hostIo", "vfs", "vfsFinish"}
Holding == {"commit", "storeCheck"}
InFlight == {t \in Task : pc[t] \in Flight}

\* Each kind of task has its own places, and each place its operations.
Place(t, p, l) ==
  /\ p \in {"hostIo", "sync"} => t = "usb"
  /\ p = "vfs" => t \in VfsTasks
  /\ p = "vfsFinish" => t = "vm"
  /\ p \in {"drain", "handles", "refresh", "finish"} =>
       l.op \in {"ACQUIRE", "RELEASE", "EJECT", "LOAD"}
  /\ p = "acquire" => l.op = "ACQUIRE"
  /\ p = "release" => l.op = "RELEASE"
  /\ p \in {"store", "commit", "storeCheck"} => l.op # "NONE"
  /\ l.op = "QUARANTINE" => p \in {"store", "commit", "storeCheck"}
PlaceInv == \A t \in Task : Place(t, pc[t], loc[t])

\* While a transition is in its body the gate refuses another one.
BodyInv ==
  /\ \A t \in Task : Body(t) => gate.transition_pending \/ gate.quarantined
  /\ \A t, u \in Task : Body(t) /\ Body(u) => t = u

\* Once the gate was read drained it stays so, and once no file was open none is
\* opened.  What is synchronised is what was written.
QuietInv ==
  /\ \A t \in Task : Body(t) /\ pc[t] # "drain" => IoDrained(gate)
  /\ \A t \in Task : Body(t) /\ pc[t] \notin {"drain", "handles"} => handles = 0
  /\ pc["usb"] = "sync" => gate.pending_write_sync # 0

\* The device has the volume when it is handed off or leased, and the host when
\* it is neither.
ModeInv ==
  /\ gate.handoff_ready \/ gate.lease_held => gate.ejected
  /\ gate.lease_held => gate.managed
  /\ gate.managed /\ ~gate.quarantined /\ DeviceActive => gate.handoff_ready \/ gate.lease_held
  /\ gate.managed /\ ~gate.quarantined /\ HostActive => ~gate.handoff_ready /\ ~gate.lease_held

DataType ==
  /\ gate \in Gate
  /\ record \in Record /\ nvs \in Record
  /\ storeLock \in Task \cup {NoTask}
  /\ handles \in 0..MaxHandles
  /\ session \in [id : Nat, generation : Nat]
  /\ pc \in [Task -> PC] /\ loc \in [Task -> Local]
CountersType == leases \in Nat /\ sessions \in Nat
CountInv == gate.in_flight_io = Cardinality(InFlight)
LockInv == \A t \in Task : pc[t] \in Holding <=> storeLock = t

ControlInv == CountInv /\ LockInv /\ PlaceInv /\ BodyInv /\ QuietInv /\ ModeInv
SafeInv == DataType /\ CountersType /\ ControlInv

LEMMA TypeParts == TypeOK <=> DataType /\ CountInv /\ LockInv
  BY DEF TypeOK, DataType, CountInv, LockInv, InFlight, Flight, Holding

(***************************************************************************)
(* One task moves.                                                         *)
(***************************************************************************)
Moves(t, p, l) == pc' = [pc EXCEPT ![t] = p] /\ loc' = [loc EXCEPT ![t] = l]

LEMMA MovesFacts ==
  ASSUME DataType, NEW t \in Task, NEW p \in PC, NEW l \in Local, Moves(t, p, l)
  PROVE  /\ pc' \in [Task -> PC] /\ loc' \in [Task -> Local]
         /\ pc'[t] = p /\ loc'[t] = l
         /\ \A u \in Task \ {t} : pc'[u] = pc[u] /\ loc'[u] = loc[u]
  BY DEF DataType, Moves

LEMMA NoLocalType == NoLocal \in Local
  BY DEF NoLocal, Local, Op

LEMMA TaskFacts ==
  /\ "usb" \in Task /\ "vm" \in Task /\ "file" \in Task /\ NoTask \notin Task
  /\ VfsTasks \subseteq Task /\ RpcTasks \subseteq Task /\ SessionTasks \subseteq Task
  /\ "usb" \notin VfsTasks
  BY DEF Task, VfsTasks, NoTask

LEMMA GotoMoves ==
  ASSUME DataType, NEW t \in Task, NEW p \in PC, Goto(t, p)
  PROVE  Moves(t, p, loc[t])
  BY DEF DataType, Goto, Moves

LEMMA EnterMoves ==
  ASSUME NEW t, NEW p, NEW l, Enter(t, p, l)
  PROVE  Moves(t, p, l)
  BY DEF Enter, Moves

LEMMA IdleMoves ==
  ASSUME NEW t, Idle(t)
  PROVE  Moves(t, IF t = "vm" THEN "epoch" ELSE "idle", NoLocal)
  BY DEF Idle, Moves

\* What tasks are given to work with is a Local.
LEMMA LocalTypes ==
  ASSUME DataType, NEW t \in Task
  PROVE  /\ loc[t] \in Local
         /\ \A n \in Nat : [loc[t] EXCEPT !.lease = n] \in Local
         /\ \A op \in Op, n \in Nat, m \in Nat :
              [NoLocal EXCEPT !.op = op, !.session = n, !.lease = m] \in Local
         /\ \A n \in Nat, m \in Nat : [NoLocal EXCEPT !.session = n, !.generation = m] \in Local
         /\ \A op \in Op : [NoLocal EXCEPT !.op = op] \in Local
         /\ \A op \in Op, n \in Nat : [NoLocal EXCEPT !.op = op, !.session = n] \in Local
         /\ \A op \in Op, b \in BOOLEAN : [NoLocal EXCEPT !.op = op, !.managed = b] \in Local
         /\ \A b \in BOOLEAN : [NoLocal EXCEPT !.writing = b] \in Local
         /\ \A n \in Nat : [NoLocal EXCEPT !.sequence = n] \in Local
<1>1. loc[t] \in Local
  BY DEF DataType
<1> QED
  BY <1>1, NoLocalType DEF Local

\* The gate's transitions are functions on gates.
LEMMA GateTypes ==
  ASSUME NEW g \in Gate
  PROVE  /\ Quarantined(g) \in Gate
         /\ \A op : Begun(op, g) \in Gate /\ Finished(op, g) \in Gate
         /\ \A a, b \in BOOLEAN : GateInit(a, b) \in Gate
         /\ \A n \in Nat : [g EXCEPT !.in_flight_io = n] \in Gate
         /\ \A n \in Nat : [g EXCEPT !.pending_write_sync = n] \in Gate
         /\ \A n, m \in Nat :
              [g EXCEPT !.in_flight_io = n, !.pending_write_sync = m] \in Gate
         /\ [g EXCEPT !.quarantined = TRUE, !.ejected = TRUE] \in Gate
<1>1. Quarantined(g) \in Gate
  BY DEF Gate, Quarantined
<1>2. ASSUME NEW op PROVE Begun(op, g) \in Gate /\ Finished(op, g) \in Gate
  <2>1. (op = "EJECT" \/ g.ejected) \in BOOLEAN /\ TRUE \in BOOLEAN
    OBVIOUS
  <2>2. Begun(op, g) \in Gate
    BY <2>1, Zenon DEF Gate, Begun
  <2>3. /\ (op = "ACQUIRE" \/ (g.lease_held /\ op # "RELEASE")) \in BOOLEAN
        /\ (op \in {"EJECT", "RELEASE"}) \in BOOLEAN
        /\ (g.managed \/ op \in {"ACQUIRE", "RELEASE"}) \in BOOLEAN
        /\ (op # "LOAD") \in BOOLEAN /\ FALSE \in BOOLEAN
    OBVIOUS
  <2>4. Finished(op, g) \in Gate
    BY <2>3, Zenon DEF Gate, Finished
  <2> QED
    BY <2>2, <2>4
<1>3. ASSUME NEW a \in BOOLEAN, NEW b \in BOOLEAN PROVE GateInit(a, b) \in Gate
  BY DEF Gate, GateInit
<1>4. /\ \A n \in Nat : [g EXCEPT !.in_flight_io = n] \in Gate
      /\ \A n \in Nat : [g EXCEPT !.pending_write_sync = n] \in Gate
      /\ \A n, m \in Nat : [g EXCEPT !.in_flight_io = n, !.pending_write_sync = m] \in Gate
      /\ [g EXCEPT !.quarantined = TRUE, !.ejected = TRUE] \in Gate
  BY DEF Gate
<1> QED
  BY <1>1, <1>2, <1>3, <1>4

LEMMA TargetType ==
  ASSUME DataType, NEW t \in Task
  PROVE  Target(t) \in Record
<1>1. loc[t].session \in Nat /\ loc[t].lease \in Nat
  BY DEF DataType, Local
<1> QED
  BY <1>1 DEF Target, Plain, Record, PersistState

(***************************************************************************)
(* The operations in flight.                                               *)
(***************************************************************************)
LEMMA FlightFinite == ASSUME PlaceInv PROVE IsFiniteSet(InFlight)
<1>1. IsFiniteSet({"usb", "vm", "file"})
  <2>1. IsFiniteSet({"usb"}) /\ IsFiniteSet({"usb"} \cup {"vm"})
    BY FS_Singleton, FS_AddElement
  <2>2. IsFiniteSet(({"usb"} \cup {"vm"}) \cup {"file"})
    BY <2>1, FS_AddElement
  <2>3. ({"usb"} \cup {"vm"}) \cup {"file"} = {"usb", "vm", "file"}
    OBVIOUS
  <2> QED
    BY <2>2, <2>3
<1>2. InFlight \in SUBSET {"usb", "vm", "file"}
  BY DEF InFlight, Flight, PlaceInv, Place, VfsTasks
<1> QED
  BY <1>1, <1>2, FS_Subset

\* A drained gate has nothing in flight, and only then is the count 0.
LEMMA NoneInFlight ==
  ASSUME PlaceInv, CountInv
  PROVE  gate.in_flight_io = 0 <=> InFlight = {}
  BY FlightFinite, FS_EmptySet DEF CountInv

LEMMA SomeInFlight ==
  ASSUME DataType, PlaceInv, CountInv, NEW t \in InFlight
  PROVE  gate.in_flight_io - 1 \in Nat
<1>1. gate.in_flight_io # 0
  BY NoneInFlight
<1>2. gate.in_flight_io \in Nat
  BY DEF DataType, Gate
<1> QED
  BY <1>1, <1>2

\* The count follows the set when one operation begins or ends.
LEMMA FlightGrows ==
  ASSUME PlaceInv, NEW t, t \notin InFlight
  PROVE  Cardinality(InFlight \cup {t}) = Cardinality(InFlight) + 1
  BY FlightFinite, FS_AddElement

LEMMA FlightShrinks ==
  ASSUME PlaceInv, NEW t \in InFlight
  PROVE  Cardinality(InFlight \ {t}) = Cardinality(InFlight) - 1
  BY FlightFinite, FS_RemoveElement

(***************************************************************************)
(* Every action keeps the types, in the order of module StorageWriter.     *)
(***************************************************************************)
\* A task that moves within its places keeps the types of pc and loc.
LEMMA ControlType ==
  ASSUME DataType, NEW t \in Task,
         \/ \E p \in PC : Goto(t, p)
         \/ \E p \in PC, l \in Local : Enter(t, p, l)
         \/ Idle(t)
  PROVE  pc' \in [Task -> PC] /\ loc' \in [Task -> Local]
<1>1. CASE \E p \in PC : Goto(t, p)
  <2>1. PICK p \in PC : Goto(t, p)
    BY <1>1
  <2> QED
    BY <2>1, GotoMoves, LocalTypes, MovesFacts
<1>2. CASE \E p \in PC, l \in Local : Enter(t, p, l)
  BY <1>2, EnterMoves, MovesFacts
<1>3. CASE Idle(t)
  BY <1>3, IdleMoves, MovesFacts, NoLocalType DEF PC
<1> QED
  BY <1>1, <1>2, <1>3

LEMMA BeginTypes ==
  ASSUME DataType, CountersType, NEW t \in Task,
         \/ Quarantine(t) \/ AcquireRequest(t) \/ AcquireStart(t)
         \/ ReleaseRequest(t) \/ ReleaseStart(t)
  PROVE  DataType'
<1>0. /\ loc[t] \in Local /\ gate \in Gate /\ session.id \in Nat
      /\ \A op : Begun(op, gate) \in Gate
      /\ Quarantined(gate) \in Gate
  BY LocalTypes, GateTypes DEF DataType
<1>1. CASE Quarantine(t)
  <2>1. pc' \in [Task -> PC] /\ loc' \in [Task -> Local]
    <3>1. [NoLocal EXCEPT !.op = "QUARANTINE"] \in Local /\ "store" \in PC
      BY LocalTypes DEF Op, PC
    <3> QED
      BY <1>1, <3>1, ControlType DEF Quarantine
  <2> QED
    BY <1>0, <1>1, <2>1 DEF DataType, Quarantine, medium
<1>2. CASE AcquireRequest(t)
  <2>1. pc' \in [Task -> PC] /\ loc' \in [Task -> Local]
    <3>1. [NoLocal EXCEPT !.op = "ACQUIRE", !.session = session.id] \in Local /\ "acquire" \in PC
      BY <1>0, LocalTypes DEF Op, PC
    <3> QED
      BY <1>2, <3>1, ControlType DEF AcquireRequest
  <2> QED
    BY <1>2, <2>1 DEF DataType, AcquireRequest, medium
<1>3. CASE AcquireStart(t)
  <2>1. pc' \in [Task -> PC] /\ loc' \in [Task -> Local]
    <3>1. leases + 1 \in Nat /\ "drain" \in PC
      BY DEF CountersType, PC
    <3>2. [loc[t] EXCEPT !.lease = leases + 1] \in Local
      BY <3>1, LocalTypes, Zenon
    <3> QED
      BY <1>3, <3>1, <3>2, ControlType DEF AcquireStart
  <2> QED
    BY <1>0, <1>3, <2>1 DEF DataType, AcquireStart
<1>4. CASE ReleaseRequest(t)
  <2>1. pc' \in [Task -> PC] /\ loc' \in [Task -> Local]
    <3>1. PICK lease \in 1..leases :
            Enter(t, "release", [NoLocal EXCEPT !.op = "RELEASE", !.session = session.id,
                                                !.lease = lease])
      BY <1>4 DEF ReleaseRequest
    <3>2. lease \in Nat /\ "RELEASE" \in Op /\ "release" \in PC
      BY DEF CountersType, Op, PC
    <3>3. [NoLocal EXCEPT !.op = "RELEASE", !.session = session.id, !.lease = lease] \in Local
      BY <1>0, <3>2, LocalTypes, Zenon
    <3> QED
      BY <3>1, <3>2, <3>3, ControlType
  <2> QED
    BY <1>4, <2>1 DEF DataType, ReleaseRequest, medium
<1>5. CASE ReleaseStart(t)
  <2>1. pc' \in [Task -> PC] /\ loc' \in [Task -> Local]
    BY <1>5, ControlType DEF ReleaseStart, PC
  <2> QED
    BY <1>0, <1>5, <2>1 DEF DataType, ReleaseStart, medium
<1> QED
  BY <1>1, <1>2, <1>3, <1>4, <1>5

LEMMA BodyTypes ==
  ASSUME DataType, NEW t \in Task,
         \/ Drain(t) \/ DrainTimeout(t) \/ Refresh(t)
         \/ StoreTake(t) \/ StoreCommit(t) \/ StoreCheck(t) \/ Finish(t)
  PROVE  DataType'
<1>0. Target(t) \in Record /\ \A op : Finished(op, gate) \in Gate
  BY TargetType, GateTypes DEF DataType
<1>1. CASE Drain(t) \/ DrainTimeout(t) \/ Refresh(t)
  <2>1. pc' \in [Task -> PC] /\ loc' \in [Task -> Local]
    BY <1>1, ControlType DEF Drain, DrainTimeout, Refresh, PC
  <2> QED
    BY <1>1, <2>1 DEF DataType, Drain, DrainTimeout, Refresh, medium
<1>2. CASE StoreTake(t)
  <2>1. pc' \in [Task -> PC] /\ loc' \in [Task -> Local]
    BY <1>2, ControlType DEF StoreTake, StoreFails, PC
  <2> QED
    BY <1>2, <2>1 DEF DataType, StoreTake, medium
<1>3. CASE StoreCommit(t)
  <2>1. pc' \in [Task -> PC] /\ loc' \in [Task -> Local]
    BY <1>3, ControlType DEF StoreCommit, StoreFails, PC
  <2> QED
    BY <1>0, <1>3, <2>1 DEF DataType, StoreCommit, medium
<1>4. CASE StoreCheck(t)
  <2>1. pc' \in [Task -> PC] /\ loc' \in [Task -> Local]
    BY <1>4, ControlType DEF StoreCheck, StoreFails, PC
  <2> QED
    BY <1>0, <1>4, <2>1 DEF DataType, StoreCheck, medium
<1>5. CASE Finish(t)
  <2>1. pc' \in [Task -> PC] /\ loc' \in [Task -> Local]
    BY <1>5, ControlType DEF Finish, PC
  <2> QED
    BY <1>0, <1>5, <2>1 DEF DataType, Finish, medium
<1> QED
  BY <1>1, <1>2, <1>3, <1>4, <1>5

LEMMA UsbTypes ==
  ASSUME DataType, PlaceInv, CountInv,
         \/ \E op \in {"EJECT", "LOAD"} : HostStartStop(op)
         \/ \E writing \in BOOLEAN : HostIoBegin(writing)
         \/ HostIoFinish \/ HostSyncBegin \/ HostWriteComplete
  PROVE  DataType'
<1>0. /\ gate \in Gate /\ "usb" \in Task
      /\ gate.in_flight_io \in Nat /\ gate.pending_write_sync \in Nat /\ gate.managed \in BOOLEAN
  BY TaskFacts DEF DataType, Gate
<1>1. ASSUME NEW op \in {"EJECT", "LOAD"}, HostStartStop(op) PROVE DataType'
  <2>1. op \in Op /\ "drain" \in PC /\ "quarantine" \in PC
    BY DEF Op, PC
  <2>2. [NoLocal EXCEPT !.op = op, !.managed = gate.managed] \in Local
    BY <1>0, <2>1, LocalTypes, Zenon
  <2>3. pc' \in [Task -> PC] /\ loc' \in [Task -> Local]
    BY <1>0, <1>1, <2>1, <2>2, ControlType DEF HostStartStop, DataType
  <2>4. gate' \in Gate
    BY <1>0, <1>1, GateTypes DEF HostStartStop
  <2> QED
    BY <1>1, <2>3, <2>4 DEF DataType, HostStartStop, medium
<1>2. ASSUME NEW writing \in BOOLEAN, HostIoBegin(writing) PROVE DataType'
  <2>1. [NoLocal EXCEPT !.writing = writing] \in Local
    BY <1>0, LocalTypes, Zenon
  <2>2. pc' \in [Task -> PC] /\ loc' \in [Task -> Local]
    BY <1>0, <1>2, <2>1, ControlType DEF HostIoBegin, PC
  <2>3. gate' \in Gate
    <3>1. gate.in_flight_io + 1 \in Nat
      BY <1>0
    <3>2. gate' = [gate EXCEPT !.in_flight_io = gate.in_flight_io + 1]
      BY <1>2 DEF HostIoBegin
    <3> QED
      BY <1>0, <3>1, <3>2, GateTypes, Zenon
  <2> QED
    BY <1>2, <2>2, <2>3 DEF DataType, HostIoBegin, medium
<1>3. CASE HostIoFinish
  <2>1. gate.in_flight_io - 1 \in Nat
    BY <1>0, <1>3, SomeInFlight DEF HostIoFinish, InFlight, Flight
  <2>2. pc' \in [Task -> PC] /\ loc' \in [Task -> Local]
    BY <1>0, <1>3, ControlType DEF HostIoFinish, PC
  <2> DEFINE m == IF loc["usb"].writing THEN gate.pending_write_sync + 1
                  ELSE gate.pending_write_sync
  <2>3. m \in Nat
    BY <1>0
  <2>4. \/ gate' = [gate EXCEPT !.in_flight_io = gate.in_flight_io - 1,
                               !.pending_write_sync = m]
        \/ gate' = [gate EXCEPT !.in_flight_io = gate.in_flight_io - 1]
    BY <1>3 DEF HostIoFinish
  <2> HIDE DEF m
  <2>5. gate' \in Gate
    BY <1>0, <2>1, <2>3, <2>4 DEF Gate
  <2> QED
    BY <1>3, <2>2, <2>5 DEF DataType, HostIoFinish, medium
<1>4. CASE HostSyncBegin
  <2>1. [NoLocal EXCEPT !.sequence = gate.pending_write_sync] \in Local
    BY <1>0, LocalTypes, Zenon
  <2>2. pc' \in [Task -> PC] /\ loc' \in [Task -> Local]
    BY <1>0, <1>4, <2>1, ControlType DEF HostSyncBegin, PC
  <2> QED
    BY <1>4, <2>2 DEF DataType, HostSyncBegin, medium
<1>5. CASE HostWriteComplete
  <2>1. pc' \in [Task -> PC] /\ loc' \in [Task -> Local]
    BY <1>0, <1>5, ControlType DEF HostWriteComplete, PC
  <2> DEFINE n == IF gate.pending_write_sync = loc["usb"].sequence THEN 0
                  ELSE gate.pending_write_sync
  <2>2. gate' \in Gate
    <3>1. n \in Nat
      BY <1>0
    <3>2. \/ gate' = [gate EXCEPT !.pending_write_sync = n]
          \/ gate' = [gate EXCEPT !.quarantined = TRUE, !.ejected = TRUE]
      BY <1>5 DEF HostWriteComplete
    <3> HIDE DEF n
    <3> QED
      BY <1>0, <3>1, <3>2, GateTypes, Zenon
  <2> QED
    BY <1>5, <2>1, <2>2 DEF DataType, HostWriteComplete, medium
<1> QED
  BY <1>1, <1>2, <1>3, <1>4, <1>5

LEMMA VfsTypes ==
  ASSUME DataType, PlaceInv, CountInv,
         (\E t \in Task : VfsBegin(t) \/ VfsFinish(t)) \/ VfsOpened \/ VfsClose
  PROVE  DataType'
<1>0. gate \in Gate /\ gate.in_flight_io \in Nat /\ "vm" \in Task
  BY TaskFacts DEF DataType, Gate
<1>1. ASSUME NEW t \in Task, VfsBegin(t) PROVE DataType'
  <2>1. pc' \in [Task -> PC] /\ loc' \in [Task -> Local]
    BY <1>1, ControlType DEF VfsBegin, PC
  <2>2. gate' \in Gate
    <3>1. gate.in_flight_io + 1 \in Nat
      BY <1>0
    <3>2. gate' = [gate EXCEPT !.in_flight_io = gate.in_flight_io + 1]
      BY <1>1 DEF VfsBegin
    <3> QED
      BY <1>0, <3>1, <3>2, GateTypes, Zenon
  <2> QED
    BY <1>1, <2>1, <2>2 DEF DataType, VfsBegin, medium
<1>2. ASSUME NEW t \in Task, VfsFinish(t) PROVE DataType'
  <2>1. gate.in_flight_io - 1 \in Nat
    BY <1>2, SomeInFlight DEF VfsFinish, InFlight, Flight
  <2>2. pc' \in [Task -> PC] /\ loc' \in [Task -> Local]
    BY <1>2, ControlType DEF VfsFinish, PC
  <2>3. gate' \in Gate
    BY <1>0, <1>2, <2>1, GateTypes DEF VfsFinish
  <2> QED
    BY <1>2, <2>2, <2>3 DEF DataType, VfsFinish, medium
<1>3. CASE VfsOpened
  <2>1. pc' \in [Task -> PC] /\ loc' \in [Task -> Local]
    BY <1>0, <1>3, ControlType DEF VfsOpened, PC
  <2> QED
    BY <1>3, <2>1 DEF DataType, VfsOpened
<1>4. CASE VfsClose
  BY <1>4 DEF DataType, VfsClose
<1> QED
  BY <1>1, <1>2, <1>3, <1>4

LEMMA SessionTypes ==
  ASSUME DataType, CountersType,
         \/ \E t \in Task : SessionTransition(t) \/ CallbackCheck(t) \/ SessionChanged(t)
         \/ VmResetBegin \/ VmEpochAdvance
  PROVE  DataType'
<1>0. /\ gate \in Gate /\ session.id \in Nat /\ session.generation + 1 \in Nat /\ "vm" \in Task
      /\ Quarantined(gate) \in Gate
  <2>1. gate \in Gate /\ session \in [id : Nat, generation : Nat]
    BY DEF DataType
  <2>2. Quarantined(gate) \in Gate
    BY <2>1, GateTypes
  <2> QED
    BY <2>1, <2>2, TaskFacts
<1>1. ASSUME NEW t \in Task, SessionTransition(t) PROVE DataType'
  <2> DEFINE id == IF session.id = 0 THEN sessions + 1 ELSE 0
  <2>1. id \in Nat /\ "callback" \in PC
    BY DEF CountersType, PC
  <2>2. [NoLocal EXCEPT !.session = id, !.generation = session.generation + 1] \in Local
    BY <1>0, <2>1, LocalTypes, Zenon
  <2>3. pc' \in [Task -> PC] /\ loc' \in [Task -> Local]
    BY <1>1, <2>1, <2>2, ControlType DEF SessionTransition
  <2>4. session' \in [id : Nat, generation : Nat]
    BY <1>0, <1>1, <2>1 DEF SessionTransition
  <2> QED
    BY <1>1, <2>3, <2>4 DEF DataType, SessionTransition
<1>2. ASSUME NEW t \in Task, CallbackCheck(t) PROVE DataType'
  <2>1. pc' \in [Task -> PC] /\ loc' \in [Task -> Local]
    BY <1>2, ControlType DEF CallbackCheck, PC
  <2> QED
    BY <1>2, <2>1 DEF DataType, CallbackCheck, medium
<1>3. ASSUME NEW t \in Task, SessionChanged(t) PROVE DataType'
  <2>1. [NoLocal EXCEPT !.op = "QUARANTINE"] \in Local /\ "store" \in PC
    BY <1>3, LocalTypes DEF Op, PC
  <2>2. pc' \in [Task -> PC] /\ loc' \in [Task -> Local]
    BY <1>3, <2>1, ControlType DEF SessionChanged
  <2> QED
    BY <1>0, <1>3, <2>2 DEF DataType, SessionChanged, medium
<1>4. CASE VmResetBegin
  <2>1. pc' \in [Task -> PC] /\ loc' \in [Task -> Local]
    BY <1>0, <1>4, NoLocalType, ControlType DEF VmResetBegin, PC
  <2> QED
    BY <1>4, <2>1 DEF DataType, VmResetBegin
<1>5. CASE VmEpochAdvance
  <2>1. pc' \in [Task -> PC] /\ loc' \in [Task -> Local]
    BY <1>0, <1>5, ControlType DEF VmEpochAdvance, PC
  <2>2. session' \in [id : Nat, generation : Nat]
    BY <1>0, <1>5 DEF DataType, VmEpochAdvance
  <2> QED
    BY <1>5, <2>1, <2>2 DEF DataType, VmEpochAdvance
<1> QED
  BY <1>1, <1>2, <1>3, <1>4, <1>5

LEMMA RecoveredType == ASSUME NEW r \in Record PROVE Recovered(r) \in Gate
  BY DEF Recovered, GateInit, Gate, Record

LEMMA CrashTypes == ASSUME DataType, Crash PROVE DataType'
<1>1. GateInit(TRUE, FALSE) \in Gate
  BY DEF GateInit, Gate
<1>2. Plain("QUARANTINE") \in Record
  BY DEF Plain, Record, PersistState
<1>3. nvs \in Record /\ Recovered(nvs) \in Gate
  BY RecoveredType DEF DataType
<1>4. gate' \in Gate /\ record' \in Record
  BY <1>1, <1>2, <1>3 DEF Crash
<1>5. "idle" \in PC
  BY DEF PC
<1> QED
  BY <1>4, <1>5, NoLocalType DEF Crash, DataType

LEMMA InitTypes == ASSUME Init PROVE DataType
<1>1. Plain("HOST") \in Record
  BY DEF Plain, Record, PersistState
<1>2. gate \in Gate
  BY <1>1, RecoveredType DEF Init
<1>3. "idle" \in PC
  BY DEF PC
<1> QED
  BY <1>1, <1>2, <1>3, NoLocalType DEF Init, DataType

(***************************************************************************)
(* What a move of one task keeps.                                          *)
(***************************************************************************)
LEMMA PlaceKeeps ==
  ASSUME DataType, PlaceInv, NEW t \in Task, NEW p \in PC, NEW l \in Local, Moves(t, p, l),
         Place(t, p, l)
  PROVE  PlaceInv'
  BY MovesFacts DEF PlaceInv

LEMMA CountKeeps ==
  ASSUME DataType, CountInv, NEW t \in Task, NEW p \in PC, NEW l \in Local, Moves(t, p, l),
         p \in Flight <=> pc[t] \in Flight, gate'.in_flight_io = gate.in_flight_io
  PROVE  CountInv'
<1>1. InFlight' = InFlight
  BY MovesFacts DEF InFlight
<1> QED
  BY <1>1 DEF CountInv

LEMMA LockKeeps ==
  ASSUME DataType, LockInv, NEW t \in Task, NEW p \in PC, NEW l \in Local, Moves(t, p, l),
         p \in Holding <=> pc[t] \in Holding, UNCHANGED storeLock
  PROVE  LockInv'
  BY MovesFacts DEF LockInv

LEMMA BodyKeeps ==
  ASSUME DataType, BodyInv, NEW t \in Task, NEW p \in PC, NEW l \in Local, Moves(t, p, l),
         BodyAt(p, l) => Body(t),
         gate.transition_pending \/ gate.quarantined =>
           gate'.transition_pending \/ gate'.quarantined
  PROVE  BodyInv'
<1>1. \A u \in Task : Body(u)' => Body(u)
  BY MovesFacts DEF Body
<1> QED
  BY <1>1 DEF BodyInv

\* A new transition begins only when none is in its body.
LEMMA BodyBegins ==
  ASSUME DataType, BodyInv, NEW t \in Task, NEW p \in PC, NEW l \in Local, Moves(t, p, l),
         ~gate.transition_pending, ~gate.quarantined, gate'.transition_pending
  PROVE  BodyInv'
<1>1. \A u \in Task \ {t} : ~Body(u)'
  BY MovesFacts DEF Body, BodyInv
<1> QED
  BY <1>1 DEF BodyInv

\* With the one that was, none is left.
LEMMA BodyEnds ==
  ASSUME DataType, BodyInv, NEW t \in Task, NEW p \in PC, NEW l \in Local, Moves(t, p, l),
         Body(t), ~BodyAt(p, l)
  PROVE  BodyInv'
<1>1. \A u \in Task : ~Body(u)'
  BY MovesFacts DEF Body, BodyInv
<1> QED
  BY <1>1 DEF BodyInv

LEMMA QuietKeeps ==
  ASSUME DataType, QuietInv, NEW t \in Task, NEW p \in PC, NEW l \in Local, Moves(t, p, l),
         UNCHANGED handles,
         IoDrained(gate) => IoDrained(gate'),
         BodyAt(p, l) /\ p # "drain" => Body(t) /\ (pc[t] = "drain" => IoDrained(gate)),
         BodyAt(p, l) /\ p \notin {"drain", "handles"} =>
           pc[t] # "drain" /\ (pc[t] = "handles" => handles = 0),
         pc'["usb"] = "sync" => gate'.pending_write_sync # 0
  PROVE  QuietInv'
<1>1. ASSUME NEW u \in Task, Body(u)', pc'[u] # "drain" PROVE IoDrained(gate')
  BY <1>1, MovesFacts DEF QuietInv, Body
<1>2. ASSUME NEW u \in Task, Body(u)', pc'[u] \notin {"drain", "handles"} PROVE handles' = 0
  BY <1>2, MovesFacts DEF QuietInv, Body
<1> QED
  BY <1>1, <1>2 DEF QuietInv

\* While something is in flight, or written and not synchronised, every body is
\* still draining.
LEMMA BusyMeansDraining ==
  ASSUME QuietInv, ~IoDrained(gate), NEW u \in Task, Body(u)
  PROVE  pc[u] = "drain"
  BY DEF QuietInv

LEMMA BusyFlight ==
  ASSUME PlaceInv, CountInv, NEW t \in InFlight
  PROVE  ~IoDrained(gate)
  BY NoneInFlight DEF IoDrained

\* Such steps leave nothing to show of the bodies.
LEMMA QuietBusy ==
  ASSUME DataType, QuietInv, NEW t \in Task, NEW p \in PC, NEW l \in Local, Moves(t, p, l),
         ~IoDrained(gate) \/ (\A u \in Task : ~Body(u)),
         BodyAt(p, l) => p = "drain",
         pc'["usb"] = "sync" => gate'.pending_write_sync # 0
  PROVE  QuietInv'
<1>1. ASSUME NEW u \in Task, Body(u)' PROVE pc'[u] = "drain"
  BY <1>1, MovesFacts, BusyMeansDraining DEF Body
<1> QED
  BY <1>1 DEF QuietInv

SameMode ==
  /\ gate'.handoff_ready = gate.handoff_ready /\ gate'.lease_held = gate.lease_held
  /\ gate'.ejected = gate.ejected
  /\ gate'.managed = gate.managed /\ gate'.quarantined = gate.quarantined

LEMMA ModeKeeps ==
  ASSUME ModeInv, SameMode, HostActive' => HostActive, DeviceActive' => DeviceActive
  PROVE  ModeInv'
  BY DEF ModeInv, SameMode

\* A task that is at rest or in a transition uses the volume on neither side.
LEMMA ActiveKeeps ==
  ASSUME DataType, NEW t \in Task, NEW p \in PC, NEW l \in Local, Moves(t, p, l),
         p \notin Flight \cup {"sync"}, UNCHANGED handles,
         gate'.pending_write_sync = gate.pending_write_sync
  PROVE  (HostActive' => HostActive) /\ (DeviceActive' => DeviceActive)
<1>1. HostActive' => HostActive
  BY MovesFacts, TaskFacts DEF HostActive, Flight
<1>2. DeviceActive' => DeviceActive
  BY MovesFacts, TaskFacts DEF DeviceActive, Flight
<1> QED
  BY <1>1, <1>2

LEMMA QuarantineKeeps ==
  ASSUME gate'.quarantined, gate'.ejected, ~gate'.lease_held \/ (gate.lease_held /\ gate'.managed)
  PROVE  ModeInv'
  BY DEF ModeInv

(***************************************************************************)
(* Every action keeps the invariant.                                       *)
(***************************************************************************)
\* A step that leaves the gate, the lock and the files alone, and no operation
\* in flight, and that does not advance a transition.
LEMMA PlainStep ==
  ASSUME SafeInv, NEW t \in Task, NEW p \in PC, NEW l \in Local, Moves(t, p, l),
         Place(t, p, l),
         pc[t] \notin Flight \cup Holding \cup {"sync"},
         p \notin Flight \cup Holding \cup {"sync"},
         ~BodyAt(p, l),
         UNCHANGED <<gate, storeLock, handles>>
  PROVE  ControlInv'
<1> USE DEF SafeInv, ControlInv
<1>1. PlaceInv'
  BY PlaceKeeps
<1>2. CountInv' /\ LockInv'
  BY CountKeeps, LockKeeps
<1>3. BodyInv'
  BY BodyKeeps
<1>4. QuietInv'
  <2>1. pc'["usb"] = "sync" => pc["usb"] = "sync"
    BY MovesFacts, TaskFacts
  <2> QED
    BY <2>1, QuietKeeps DEF QuietInv
<1>5. ModeInv'
  BY ActiveKeeps, ModeKeeps DEF SameMode
<1> QED
  BY <1>1, <1>2, <1>3, <1>4, <1>5

LEMMA RequestSteps ==
  ASSUME SafeInv, NEW t \in Task,
         AcquireRequest(t) \/ ReleaseRequest(t) \/ SessionTransition(t) \/ CallbackCheck(t)
  PROVE  ControlInv'
<1>0. DataType /\ CountersType /\ loc[t] \in Local /\ session.id \in Nat /\ NoLocal.op = "NONE"
      /\ session.generation + 1 \in Nat
  <2>1. session \in [id : Nat, generation : Nat]
    BY DEF SafeInv, DataType
  <2>2. DataType /\ CountersType
    BY DEF SafeInv
  <2>3. NoLocal.op = "NONE"
    BY DEF NoLocal
  <2>4. session.id \in Nat /\ session.generation + 1 \in Nat
    BY <2>1
  <2>5. loc[t] \in Local
    BY <2>2 DEF DataType
  <2> QED
    BY <2>2, <2>3, <2>4, <2>5
<1>1. CASE AcquireRequest(t)
  <2> DEFINE l == [NoLocal EXCEPT !.op = "ACQUIRE", !.session = session.id]
  <2>1. l \in Local /\ l.op = "ACQUIRE" /\ "acquire" \in PC
    <3>1. "ACQUIRE" \in Op /\ "acquire" \in PC /\ l.op = "ACQUIRE"
      BY DEF Op, PC, NoLocal
    <3> QED
      BY <1>0, <3>1, LocalTypes, Zenon
  <2>2. Moves(t, "acquire", l)
    BY <1>1, EnterMoves DEF AcquireRequest
  <2> HIDE DEF l
  <2>3. Place(t, "acquire", l)
    BY <2>1 DEF Place
  <2> QED
    BY <1>1, <2>1, <2>2, <2>3, PlainStep DEF AcquireRequest, Flight, Holding, BodyAt, medium
<1>2. CASE ReleaseRequest(t)
  <2>1. PICK lease \in 1..leases :
          Enter(t, "release", [NoLocal EXCEPT !.op = "RELEASE", !.session = session.id,
                                              !.lease = lease])
    BY <1>2 DEF ReleaseRequest
  <2> DEFINE l == [NoLocal EXCEPT !.op = "RELEASE", !.session = session.id, !.lease = lease]
  <2>2. lease \in Nat /\ "RELEASE" \in Op
    BY <1>0 DEF CountersType, Op
  <2>3. l \in Local
    BY <1>0, <2>2, LocalTypes, Zenon
  <2>4. l.op = "RELEASE" /\ "release" \in PC
    BY DEF PC, NoLocal
  <2>5. Moves(t, "release", l)
    BY <2>1, EnterMoves
  <2> HIDE DEF l
  <2>6. Place(t, "release", l)
    BY <2>4 DEF Place
  <2> QED
    BY <1>2, <2>3, <2>4, <2>5, <2>6, PlainStep DEF ReleaseRequest, Flight, Holding, BodyAt, medium
<1>3. CASE SessionTransition(t)
  <2> DEFINE id == IF session.id = 0 THEN sessions + 1 ELSE 0
             l == [NoLocal EXCEPT !.session = id, !.generation = session.generation + 1]
  <2>1. id \in Nat
    BY <1>0 DEF CountersType
  <2>2. l \in Local
    BY <1>0, <2>1, LocalTypes, Zenon
  <2>3. l.op = "NONE" /\ "callback" \in PC
    BY DEF PC, NoLocal
  <2>4. Moves(t, "callback", l)
    BY <1>3, EnterMoves DEF SessionTransition
  <2> HIDE DEF l
  <2>5. Place(t, "callback", l)
    BY <2>3 DEF Place
  <2> QED
    BY <1>3, <2>2, <2>3, <2>4, <2>5, PlainStep DEF SessionTransition, Flight, Holding, BodyAt
<1>4. CASE CallbackCheck(t)
  <2>1. loc[t].op # "QUARANTINE"
    BY <1>4 DEF CallbackCheck, SafeInv, ControlInv, PlaceInv, Place
  <2>2. CASE Goto(t, "changed")
    <3>1. Moves(t, "changed", loc[t]) /\ "changed" \in PC
      BY <1>0, <2>2, GotoMoves DEF PC
    <3>2. Place(t, "changed", loc[t])
      BY <2>1 DEF Place
    <3> QED
      BY <1>0, <1>4, <3>1, <3>2, PlainStep DEF CallbackCheck, Flight, Holding, BodyAt, medium
  <2>3. CASE Idle(t)
    <3> DEFINE p == IF t = "vm" THEN "epoch" ELSE "idle"
    <3>1. Moves(t, p, NoLocal) /\ p \in PC /\ p \in {"epoch", "idle"}
      BY <2>3, IdleMoves DEF PC
    <3> HIDE DEF p
    <3>2. Place(t, p, NoLocal)
      BY <1>0, <3>1 DEF Place
    <3> QED
      BY <1>4, <3>1, <3>2, NoLocalType, PlainStep DEF CallbackCheck, Flight, Holding, BodyAt, medium
  <2> QED
    BY <1>4, <2>2, <2>3 DEF CallbackCheck
<1> QED
  BY <1>1, <1>2, <1>3, <1>4

LEMMA ResetSteps ==
  ASSUME SafeInv, VmResetBegin \/ VmEpochAdvance
  PROVE  ControlInv'
<1>0. DataType /\ "vm" \in Task /\ loc["vm"] \in Local /\ NoLocal.op = "NONE"
      /\ {"changed", "idle"} \subseteq PC
  BY TaskFacts, LocalTypes DEF SafeInv, NoLocal, PC
<1>1. CASE VmResetBegin
  <2>1. Moves("vm", "changed", NoLocal) /\ Place("vm", "changed", NoLocal)
    BY <1>0, <1>1, EnterMoves DEF VmResetBegin, Place
  <2> QED
    BY <1>0, <1>1, <2>1, NoLocalType, PlainStep DEF VmResetBegin, Flight, Holding, BodyAt
<1>2. CASE VmEpochAdvance
  <2>1. loc["vm"].op # "QUARANTINE"
    BY <1>0, <1>2 DEF VmEpochAdvance, SafeInv, ControlInv, PlaceInv, Place
  <2>2. Moves("vm", "idle", loc["vm"]) /\ Place("vm", "idle", loc["vm"])
    BY <1>0, <1>2, <2>1, GotoMoves DEF VmEpochAdvance, Place
  <2> QED
    BY <1>0, <1>2, <2>2, PlainStep DEF VmEpochAdvance, Flight, Holding, BodyAt, medium, counters
<1> QED
  BY <1>1, <1>2

\* A transition begins at an open gate.  t is the task, l what it works with.
LEMMA BeginStep ==
  ASSUME SafeInv, NEW t \in Task, NEW l \in Local, Moves(t, "drain", l),
         NEW op \in {"ACQUIRE", "RELEASE", "EJECT", "LOAD"}, l.op = op,
         pc[t] \notin Flight \cup Holding \cup {"sync"},
         MayBegin(op, gate), gate' = Begun(op, gate),
         UNCHANGED <<storeLock, handles>>
  PROVE  ControlInv'
<1> USE DEF SafeInv, ControlInv
<1>0. gate \in Gate /\ "drain" \in PC
  BY DEF DataType, PC
<1>1. /\ ~gate.transition_pending /\ ~gate.quarantined
      /\ gate'.transition_pending
      /\ gate'.in_flight_io = gate.in_flight_io
      /\ gate'.pending_write_sync = gate.pending_write_sync
      /\ gate'.handoff_ready = gate.handoff_ready /\ gate'.lease_held = gate.lease_held
      /\ gate'.managed = gate.managed /\ gate'.quarantined = gate.quarantined
      /\ gate.ejected => gate'.ejected
  BY <1>0 DEF MayBegin, Begun, Gate
<1>2. Place(t, "drain", l)
  BY DEF Place
<1>3. PlaceInv'
  BY <1>0, <1>2, PlaceKeeps
<1>4. CountInv' /\ LockInv'
  BY <1>0, <1>1, CountKeeps, LockKeeps DEF Flight, Holding
<1>5. BodyInv'
  BY <1>0, <1>1, BodyBegins
<1>6. QuietInv'
  <2>1. \A u \in Task : ~Body(u)
    BY <1>1 DEF BodyInv
  <2>2. pc'["usb"] = "sync" => gate'.pending_write_sync # 0
    BY <1>0, <1>1, MovesFacts, TaskFacts DEF QuietInv
  <2> QED
    BY <1>0, <2>1, <2>2, QuietBusy DEF BodyAt
<1>7. ModeInv'
  <2>1. (HostActive' => HostActive) /\ (DeviceActive' => DeviceActive)
    BY <1>0, <1>1, ActiveKeeps DEF Flight
  <2> QED
    BY <1>1, <2>1 DEF ModeInv
<1> QED
  BY <1>3, <1>4, <1>5, <1>6, <1>7

\* A refused request ends, or is on its way to quarantine: a plain step.
LEMMA GivesUp ==
  ASSUME SafeInv, NEW t \in Task,
         pc[t] \notin Flight \cup Holding \cup {"sync"},
         Idle(t) \/ (Goto(t, "quarantine") /\ loc[t].op # "QUARANTINE"),
         UNCHANGED <<gate, storeLock, handles>>
  PROVE  ControlInv'
<1>0. DataType /\ loc[t] \in Local /\ {"quarantine", "epoch", "idle"} \subseteq PC
      /\ NoLocal.op = "NONE"
  <2>1. DataType
    BY DEF SafeInv
  <2> QED
    BY <2>1, LocalTypes DEF NoLocal, PC
<1>1. CASE Idle(t)
  <2> DEFINE p == IF t = "vm" THEN "epoch" ELSE "idle"
  <2>1. Moves(t, p, NoLocal) /\ p \in PC /\ p \in {"epoch", "idle"}
    BY <1>0, <1>1, IdleMoves
  <2> HIDE DEF p
  <2>2. Place(t, p, NoLocal)
    BY <1>0, <2>1 DEF Place
  <2> QED
    BY <2>1, <2>2, NoLocalType, PlainStep DEF Flight, Holding, BodyAt
<1>2. CASE Goto(t, "quarantine") /\ loc[t].op # "QUARANTINE"
  <2>1. Moves(t, "quarantine", loc[t]) /\ Place(t, "quarantine", loc[t])
    BY <1>0, <1>2, GotoMoves DEF Place
  <2> QED
    BY <1>0, <2>1, PlainStep DEF Flight, Holding, BodyAt
<1> QED
  BY <1>1, <1>2

LEMMA BeginSteps ==
  ASSUME SafeInv, NEW t \in Task,
         \/ AcquireStart(t) \/ ReleaseStart(t)
         \/ t = "usb" /\ \E op \in {"EJECT", "LOAD"} : HostStartStop(op)
  PROVE  ControlInv'
<1>0. DataType /\ CountersType /\ loc[t] \in Local
  <2>1. DataType /\ CountersType
    BY DEF SafeInv
  <2> QED
    BY <2>1, LocalTypes
<1>p. Place(t, pc[t], loc[t])
  BY DEF SafeInv, ControlInv, PlaceInv
<1>1. CASE AcquireStart(t)
  <2>0. pc[t] = "acquire" /\ loc[t].op = "ACQUIRE"
    BY <1>1, <1>p DEF AcquireStart, Place
  <2>1. CASE MayBegin("ACQUIRE", gate)
    <3> DEFINE l == [loc[t] EXCEPT !.lease = leases + 1]
    <3>1. leases + 1 \in Nat
      BY <1>0 DEF CountersType
    <3>2. l \in Local
      BY <1>0, <3>1, LocalTypes, Zenon
    <3>3. l.op = "ACQUIRE"
      BY <1>0, <2>0 DEF Local
    <3>4. Moves(t, "drain", l)
      BY <1>1, <2>1, EnterMoves DEF AcquireStart
    <3> HIDE DEF l
    <3> QED
      BY <1>1, <2>0, <2>1, <3>2, <3>3, <3>4, BeginStep DEF AcquireStart, Flight, Holding
  <2>2. CASE ~MayBegin("ACQUIRE", gate)
    BY <1>1, <2>0, <2>2, GivesUp DEF AcquireStart, Flight, Holding
  <2> QED
    BY <2>1, <2>2
<1>2. CASE ReleaseStart(t)
  <2>0. pc[t] = "release" /\ loc[t].op = "RELEASE" /\ UNCHANGED <<storeLock, handles>>
    BY <1>2, <1>p DEF ReleaseStart, Place, medium
  <2>1. CASE Goto(t, "quarantine") /\ UNCHANGED gate
    BY <2>0, <2>1, GivesUp DEF Flight, Holding
  <2>2. CASE MayBegin("RELEASE", gate) /\ gate' = Begun("RELEASE", gate) /\ Goto(t, "drain")
    <3>1. Moves(t, "drain", loc[t])
      BY <1>0, <2>2, GotoMoves DEF PC
    <3> QED
      BY <1>0, <2>0, <2>2, <3>1, BeginStep DEF Flight, Holding
  <2> QED
    BY <1>2, <2>1, <2>2 DEF ReleaseStart
<1>3. ASSUME t = "usb", NEW op \in {"EJECT", "LOAD"}, HostStartStop(op)
      PROVE  ControlInv'
  <2>0. pc[t] = "idle" /\ loc[t].op # "QUARANTINE" /\ UNCHANGED <<storeLock, handles>>
    BY <1>3, <1>p DEF HostStartStop, Place, medium
  <2>1. CASE UNCHANGED <<gate, pc, loc>>
    <3>1. Moves(t, pc[t], loc[t]) /\ pc[t] \in PC
      BY <1>0, <2>1 DEF Moves, DataType
    <3> QED
      BY <1>0, <1>p, <2>0, <2>1, <3>1, PlainStep DEF Flight, Holding, BodyAt
  <2>2. CASE Goto(t, "quarantine") /\ UNCHANGED gate
    BY <2>0, <2>2, GivesUp DEF Flight, Holding
  <2>3. CASE /\ MayBegin(op, gate) /\ gate' = Begun(op, gate)
             /\ Enter(t, "drain", [NoLocal EXCEPT !.op = op, !.managed = gate.managed])
    <3> DEFINE l == [NoLocal EXCEPT !.op = op, !.managed = gate.managed]
    <3>1. op \in Op /\ gate.managed \in BOOLEAN
      BY <1>0 DEF Op, DataType, Gate
    <3>2. l \in Local
      BY <1>0, <3>1, LocalTypes, Zenon
    <3>3. l.op = op
      BY DEF NoLocal
    <3>4. Moves(t, "drain", l)
      BY <2>3, EnterMoves
    <3> HIDE DEF l
    <3> QED
      BY <2>0, <2>3, <3>2, <3>3, <3>4, BeginStep DEF Flight, Holding
  <2> QED
    BY <1>3, <2>1, <2>2, <2>3 DEF HostStartStop
<1> QED
  BY <1>1, <1>2, <1>3

LEMMA LockTaken ==
  ASSUME DataType, LockInv, NEW t \in Task, NEW p \in Holding, NEW l \in Local, Moves(t, p, l),
         storeLock = NoTask, storeLock' = t
  PROVE  LockInv'
<1>1. p \in PC
  BY DEF Holding, PC
<1> QED
  BY <1>1, MovesFacts, TaskFacts DEF LockInv

LEMMA LockDropped ==
  ASSUME DataType, LockInv, NEW t \in Task, NEW p \in PC, NEW l \in Local, Moves(t, p, l),
         p \notin Holding, pc[t] \in Holding, storeLock' = NoTask
  PROVE  LockInv'
  BY MovesFacts, TaskFacts DEF LockInv

\* A step of a task that has nothing in flight, at an unchanged gate.
LEMMA BodyMove ==
  ASSUME SafeInv, NEW t \in Task, NEW p \in PC, NEW l \in Local, Moves(t, p, l),
         Place(t, p, l),
         pc[t] \notin Flight \cup {"sync"}, p \notin Flight \cup {"sync"},
         BodyAt(p, l) => Body(t),
         BodyAt(p, l) /\ p # "drain" => (pc[t] = "drain" => IoDrained(gate)),
         BodyAt(p, l) /\ p \notin {"drain", "handles"} =>
           pc[t] # "drain" /\ (pc[t] = "handles" => handles = 0),
         UNCHANGED <<gate, handles>>,
         LockInv'
  PROVE  ControlInv'
<1> USE DEF SafeInv, ControlInv
<1>1. PlaceInv'
  BY PlaceKeeps
<1>2. CountInv'
  BY CountKeeps
<1>3. BodyInv'
  BY BodyKeeps
<1>4. QuietInv'
  <2>1. pc'["usb"] = "sync" => pc["usb"] = "sync"
    BY MovesFacts, TaskFacts
  <2> QED
    BY <2>1, QuietKeeps DEF QuietInv
<1>5. ModeInv'
  BY ActiveKeeps, ModeKeeps DEF SameMode
<1> QED
  BY <1>1, <1>2, <1>3, <1>4, <1>5

LEMMA DrainSteps ==
  ASSUME SafeInv, NEW t \in Task, Drain(t) \/ DrainTimeout(t) \/ Refresh(t)
  PROVE  ControlInv'
<1>0. DataType /\ LockInv /\ loc[t] \in Local /\ Place(t, pc[t], loc[t])
      /\ pc[t] \in {"drain", "handles", "refresh"}
  BY DEF SafeInv, ControlInv, PlaceInv, DataType, Drain, DrainTimeout, Refresh
<1>1. PICK p \in {"drain", "handles", "refresh", "store", "finish", "quarantine"} :
        /\ Goto(t, p)
        /\ p = "handles" => pc[t] = "drain" /\ IoDrained(gate)
        /\ p = "refresh" => pc[t] = "handles" /\ handles = 0
        /\ p \in {"store", "finish"} => pc[t] = "refresh"
  BY DEF Drain, DrainTimeout, Refresh
<1>2. p \in PC /\ p \notin Flight \cup Holding \cup {"sync"}
  BY DEF PC, Flight, Holding
<1>3. Moves(t, p, loc[t])
  BY <1>0, <1>1, <1>2, GotoMoves
<1>4. loc[t].op \in {"ACQUIRE", "RELEASE", "EJECT", "LOAD"}
  BY <1>0 DEF Place
<1>5. Place(t, p, loc[t]) /\ Body(t) /\ pc[t] \notin Flight \cup Holding \cup {"sync"}
  BY <1>0, <1>1, <1>2, <1>4 DEF Place, Body, BodyAt, Flight, Holding
<1>6. UNCHANGED <<gate, handles, storeLock>>
  BY DEF Drain, DrainTimeout, Refresh, medium
<1>7. LockInv'
  BY <1>0, <1>2, <1>3, <1>5, <1>6, LockKeeps
<1> QED
  BY <1>0, <1>1, <1>2, <1>3, <1>5, <1>6, <1>7, BodyMove DEF BodyAt

\* The three steps of writer_store: a failure ends a quarantine's own store and
\* turns any other into a quarantine.
LEMMA StoreSteps ==
  ASSUME SafeInv, NEW t \in Task, StoreTake(t) \/ StoreCommit(t) \/ StoreCheck(t)
  PROVE  ControlInv'
<1>0. DataType /\ LockInv /\ loc[t] \in Local /\ Place(t, pc[t], loc[t])
      /\ pc[t] \in {"store", "commit", "storeCheck"} /\ UNCHANGED <<gate, handles>>
  BY DEF SafeInv, ControlInv, PlaceInv, DataType, StoreTake, StoreCommit, StoreCheck, medium
<1>1. pc[t] \notin Flight \cup {"sync"} /\ (loc[t].op # "QUARANTINE" => Body(t))
  BY <1>0 DEF Flight, Body, BodyAt
<1>2. CASE Goto(t, "commit") \/ Goto(t, "storeCheck")
  <2>1. PICK p \in {"commit", "storeCheck"} : Goto(t, p)
    BY <1>2
  <2>2. Moves(t, p, loc[t]) /\ p \in PC
    BY <1>0, <2>1, GotoMoves DEF PC
  <2>3. Place(t, p, loc[t]) /\ p \notin Flight \cup {"sync"}
    BY <1>0, <2>1 DEF Place, Flight
  <2>4. CASE pc[t] = "store"
    <3>1. storeLock = NoTask /\ storeLock' = t
      BY <1>2, <2>4, <1>0 DEF StoreTake, StoreCommit, StoreCheck, StoreFails, Goto, Idle, DataType
    <3>2. LockInv'
      BY <1>0, <2>1, <2>2, <3>1, LockTaken DEF Holding
    <3> QED
      BY <1>0, <1>1, <2>2, <2>3, <2>4, <3>2, BodyMove DEF BodyAt
  <2>5. CASE pc[t] \in {"commit", "storeCheck"}
    <3>1. UNCHANGED storeLock
      BY <1>2, <2>5, <1>0 DEF StoreTake, StoreCommit, StoreCheck, StoreFails, Goto, Idle, DataType
    <3>2. LockInv'
      BY <1>0, <2>1, <2>2, <2>5, <3>1, LockKeeps DEF Holding
    <3> QED
      BY <1>0, <1>1, <2>2, <2>3, <2>5, <3>2, BodyMove DEF BodyAt
  <2> QED
    BY <1>0, <2>4, <2>5
<1>3. CASE ~(Goto(t, "commit") \/ Goto(t, "storeCheck"))
  <2>1. /\ \/ storeLock' = NoTask
           \/ pc[t] = "store" /\ UNCHANGED storeLock
        /\ StoreFails(t) \/ (loc[t].op = "QUARANTINE" /\ Idle(t))
           \/ (loc[t].op # "QUARANTINE" /\ Goto(t, "finish") /\ pc[t] = "storeCheck")
    BY <1>3 DEF StoreTake, StoreCommit, StoreCheck
  <2>2. PICK p \in {"quarantine", "epoch", "idle", "finish"}, l \in {loc[t], NoLocal} :
          /\ Moves(t, p, l)
          /\ p = "quarantine" \/ p = "finish" => l = loc[t] /\ loc[t].op # "QUARANTINE"
          /\ p = "idle" \/ p = "epoch" => l = NoLocal
          /\ p = "finish" => pc[t] = "storeCheck"
    <3>1. CASE loc[t].op = "QUARANTINE" /\ Idle(t)
      BY <3>1, IdleMoves
    <3>2. CASE loc[t].op # "QUARANTINE" /\ (Goto(t, "quarantine") \/ (Goto(t, "finish") /\ pc[t] = "storeCheck"))
      BY <1>0, <3>2, GotoMoves DEF PC
    <3> QED
      BY <2>1, <3>1, <3>2 DEF StoreFails
  <2>3. p \in PC /\ l \in Local /\ p \notin Flight \cup Holding \cup {"sync"}
        /\ NoLocal.op = "NONE"
    BY <1>0, NoLocalType DEF PC, Flight, Holding, NoLocal
  <2>4. Place(t, p, l)
    <3>1. CASE p = "finish"
      <4>1. loc[t].op \in Op
        BY <1>0 DEF Local
      <4> QED
        BY <1>0, <2>2, <2>3, <3>1, <4>1 DEF Place, Op
    <3>2. CASE p # "finish"
      BY <1>0, <2>2, <2>3, <3>2 DEF Place
    <3> QED
      BY <3>1, <3>2
  <2>5. LockInv'
    <3>1. CASE pc[t] = "store" /\ UNCHANGED storeLock
      BY <1>0, <2>2, <2>3, <3>1, LockKeeps DEF Holding
    <3>2. CASE pc[t] \in Holding /\ storeLock' = NoTask
      BY <1>0, <2>2, <2>3, <3>2, LockDropped
    <3>3. CASE pc[t] = "store" /\ storeLock' = NoTask
      <4>1. storeLock = NoTask
        BY <1>0, <3>3 DEF StoreTake, StoreCommit, StoreCheck
      <4> QED
        BY <1>0, <2>2, <2>3, <3>3, <4>1, LockKeeps DEF Holding
    <3> QED
      BY <1>0, <2>1, <3>1, <3>2, <3>3 DEF Holding
  <2> QED
    BY <1>0, <1>1, <2>2, <2>3, <2>4, <2>5, BodyMove DEF BodyAt
<1> QED
  BY <1>2, <1>3

\* A task closes the gate for good, and goes on to record it.
LEMMA QuarantineStep ==
  ASSUME SafeInv, NEW t \in Task,
         gate' = Quarantined(gate),
         Enter(t, "store", [NoLocal EXCEPT !.op = "QUARANTINE"]),
         pc[t] \notin Flight \cup Holding \cup {"sync"},
         UNCHANGED <<storeLock, handles>>
  PROVE  ControlInv'
<1> USE DEF SafeInv, ControlInv
<1> DEFINE l == [NoLocal EXCEPT !.op = "QUARANTINE"]
<1>0. gate \in Gate /\ "store" \in PC /\ l \in Local /\ l.op = "QUARANTINE"
  BY LocalTypes DEF DataType, PC, Op, NoLocal
<1>1. Moves(t, "store", l)
  BY EnterMoves
<1> HIDE DEF l
<1>2. /\ gate'.quarantined /\ gate'.ejected /\ ~gate'.lease_held
      /\ gate'.in_flight_io = gate.in_flight_io
      /\ gate'.pending_write_sync = gate.pending_write_sync
  BY <1>0 DEF Quarantined, Gate
<1>3. PlaceInv'
  BY <1>0, <1>1, PlaceKeeps DEF Place
<1>4. CountInv' /\ LockInv'
  BY <1>0, <1>1, <1>2, CountKeeps, LockKeeps DEF Flight, Holding
<1>5. BodyInv'
  BY <1>0, <1>1, <1>2, BodyKeeps DEF BodyAt
<1>6. QuietInv'
  <2>1. pc'["usb"] = "sync" => gate'.pending_write_sync # 0
    BY <1>0, <1>1, <1>2, MovesFacts, TaskFacts DEF QuietInv
  <2> QED
    BY <1>0, <1>1, <1>2, <2>1, QuietKeeps DEF BodyAt, IoDrained
<1>7. ModeInv'
  BY <1>2, QuarantineKeeps
<1> QED
  BY <1>3, <1>4, <1>5, <1>6, <1>7

LEMMA QuarantineSteps ==
  ASSUME SafeInv, NEW t \in Task, Quarantine(t) \/ SessionChanged(t)
  PROVE  ControlInv'
<1>1. pc[t] \notin Flight \cup Holding \cup {"sync"} /\ UNCHANGED <<storeLock, handles>>
  BY DEF Quarantine, SessionChanged, medium, Flight, Holding
<1>2. CASE Quarantine(t)
  BY <1>1, <1>2, QuarantineStep DEF Quarantine
<1>3. CASE SessionChanged(t)
  BY <1>1, <1>3, QuarantineStep, GivesUp DEF SessionChanged
<1> QED
  BY <1>2, <1>3

\* The transition ends, and the volume changes hands: nothing is in flight on
\* either side, and no file is open.
LEMMA FinishStep ==
  ASSUME SafeInv, NEW t \in Task, Finish(t)
  PROVE  ControlInv'
<1> USE DEF SafeInv, ControlInv
<1>0. /\ DataType /\ gate \in Gate /\ pc[t] = "finish" /\ Place(t, pc[t], loc[t])
      /\ loc[t] \in Local /\ UNCHANGED <<storeLock, handles>>
  BY DEF DataType, PlaceInv, Finish, medium
<1>1. loc[t].op \in {"ACQUIRE", "RELEASE", "EJECT", "LOAD"} /\ Body(t)
  BY <1>0 DEF Place, Body, BodyAt
<1>2. CASE Goto(t, "quarantine") /\ UNCHANGED gate
  BY <1>0, <1>1, <1>2, GivesUp DEF Flight, Holding
<1>3. CASE MayFinish(loc[t].op, gate) /\ gate' = Finished(loc[t].op, gate) /\ Idle(t)
  <2> DEFINE p == IF t = "vm" THEN "epoch" ELSE "idle"
  <2>1. Moves(t, p, NoLocal) /\ p \in PC /\ p \in {"epoch", "idle"} /\ NoLocal.op = "NONE"
    BY <1>3, IdleMoves DEF PC, NoLocal
  <2> HIDE DEF p
  <2>2. /\ gate'.in_flight_io = gate.in_flight_io
        /\ gate'.pending_write_sync = gate.pending_write_sync
        /\ gate'.quarantined = gate.quarantined
        /\ gate'.lease_held = (loc[t].op = "ACQUIRE" \/ (gate.lease_held /\ loc[t].op # "RELEASE"))
        /\ gate'.handoff_ready = (loc[t].op \in {"EJECT", "RELEASE"})
        /\ gate'.managed = (gate.managed \/ loc[t].op \in {"ACQUIRE", "RELEASE"})
        /\ gate'.ejected = (loc[t].op # "LOAD")
    BY <1>0, <1>3 DEF Finished, Gate
  <2>3. PlaceInv'
    BY <2>1, NoLocalType, PlaceKeeps DEF Place
  <2>4. CountInv' /\ LockInv'
    BY <1>0, <2>1, <2>2, NoLocalType, CountKeeps, LockKeeps DEF Flight, Holding
  <2>5. BodyInv'
    BY <1>1, <2>1, NoLocalType, BodyEnds DEF BodyAt
  <2>6. QuietInv'
    <3>1. pc'["usb"] = "sync" => gate'.pending_write_sync # 0
      BY <2>1, <2>2, NoLocalType, MovesFacts, TaskFacts DEF QuietInv
    <3> QED
      BY <1>0, <2>1, <2>2, <3>1, NoLocalType, QuietKeeps DEF BodyAt, IoDrained
  <2>7. ModeInv'
    <3>1. handles = 0 /\ IoDrained(gate) /\ InFlight = {}
      BY <1>0, <1>1, NoneInFlight DEF QuietInv, IoDrained
    <3>2. ~HostActive /\ ~DeviceActive
      <4>1. pc["usb"] \notin {"hostIo", "sync"}
        BY <3>1, TaskFacts DEF InFlight, Flight, QuietInv, IoDrained
      <4>2. \A u \in VfsTasks : pc[u] \notin {"vfs", "vfsFinish"}
        BY <3>1, TaskFacts DEF InFlight, Flight
      <4> QED
        BY <3>1, <4>1, <4>2 DEF HostActive, DeviceActive, IoDrained
    <3>3. ~HostActive' /\ ~DeviceActive'
      BY <1>0, <2>1, <2>2, <3>2, NoLocalType, ActiveKeeps DEF Flight
    <3>4. loc[t].op \in {"EJECT", "LOAD"} => ~gate.lease_held
      BY <1>3 DEF MayFinish
    <3> QED
      BY <1>1, <2>2, <3>3, <3>4 DEF ModeInv
  <2> QED
    BY <2>3, <2>4, <2>5, <2>6, <2>7
<1> QED
  BY <1>2, <1>3 DEF Finish

\* The count of the gate follows an operation that begins, and one that ends.
LEMMA CountBegins ==
  ASSUME DataType, PlaceInv, CountInv, NEW t \in Task, NEW p \in PC, NEW l \in Local, Moves(t, p, l),
         pc[t] \notin Flight, p \in Flight, gate'.in_flight_io = gate.in_flight_io + 1
  PROVE  CountInv'
<1>1. InFlight' = InFlight \cup {t}
  BY MovesFacts DEF InFlight
<1>2. t \notin InFlight
  BY DEF InFlight
<1> QED
  BY <1>1, <1>2, FlightGrows DEF CountInv

LEMMA CountEnds ==
  ASSUME DataType, PlaceInv, CountInv, NEW t \in Task, NEW p \in PC, NEW l \in Local, Moves(t, p, l),
         pc[t] \in Flight, p \notin Flight, gate'.in_flight_io = gate.in_flight_io - 1
  PROVE  CountInv'
<1>1. InFlight' = InFlight \ {t}
  BY MovesFacts DEF InFlight
<1>2. t \in InFlight
  BY DEF InFlight
<1> QED
  BY <1>1, <1>2, FlightShrinks DEF CountInv

\* The host may begin only while no transition is in its body and the device
\* has nothing in flight that counts.
LEMMA HostIoBeginStep ==
  ASSUME SafeInv, NEW writing \in BOOLEAN, HostIoBegin(writing)
  PROVE  ControlInv'
<1> USE DEF SafeInv, ControlInv
<1> DEFINE l == [NoLocal EXCEPT !.writing = writing]
<1>0. /\ DataType /\ gate \in Gate /\ "usb" \in Task /\ "hostIo" \in PC
      /\ l \in Local /\ l.op = "NONE" /\ pc["usb"] = "idle"
      /\ UNCHANGED <<storeLock, handles>>
  BY LocalTypes, TaskFacts DEF DataType, PC, NoLocal, HostIoBegin, medium
<1>1. Moves("usb", "hostIo", l)
  BY EnterMoves DEF HostIoBegin
<1> HIDE DEF l
<1>2. /\ gate'.in_flight_io = gate.in_flight_io + 1
      /\ gate'.pending_write_sync = gate.pending_write_sync
      /\ SameMode /\ gate'.transition_pending = gate.transition_pending
  BY <1>0 DEF HostIoBegin, Gate, SameMode
<1>3. \A u \in Task : ~Body(u)
  BY DEF HostIoBegin, HostWritable, HostLoadAllowed, BodyInv
<1>4. PlaceInv'
  BY <1>0, <1>1, PlaceKeeps DEF Place
<1>5. CountInv' /\ LockInv'
  BY <1>0, <1>1, <1>2, CountBegins, LockKeeps DEF Flight, Holding
<1>6. BodyInv'
  BY <1>0, <1>1, <1>2, BodyKeeps DEF BodyAt, SameMode
<1>7. QuietInv'
  <2>1. pc'["usb"] # "sync"
    BY <1>0, <1>1, MovesFacts
  <2> QED
    BY <1>0, <1>1, <1>3, <2>1, QuietBusy DEF BodyAt
<1>8. ModeInv'
  <2>1. DeviceActive' => DeviceActive
    BY <1>0, <1>1, MovesFacts, TaskFacts DEF DeviceActive
  <2>2. ~gate.handoff_ready /\ ~gate.lease_held
    BY DEF HostIoBegin, HostWritable, HostLoadAllowed, ModeInv
  <2> QED
    BY <1>2, <2>1, <2>2 DEF ModeInv, SameMode
<1> QED
  BY <1>4, <1>5, <1>6, <1>7, <1>8

LEMMA HostIoFinishStep ==
  ASSUME SafeInv, HostIoFinish
  PROVE  ControlInv'
<1> USE DEF SafeInv, ControlInv
<1>0. /\ DataType /\ gate \in Gate /\ "usb" \in Task /\ pc["usb"] = "hostIo"
      /\ loc["usb"] \in Local /\ loc["usb"].op # "QUARANTINE" /\ NoLocal.op = "NONE"
      /\ UNCHANGED <<storeLock, handles>>
  BY TaskFacts DEF DataType, PlaceInv, Place, NoLocal, HostIoFinish, medium
<1>1. PICK p \in {"idle", "quarantine"}, l \in {loc["usb"], NoLocal} :
        Moves("usb", p, l) /\ l \in Local /\ p \in PC
  BY <1>0, GotoMoves, IdleMoves, NoLocalType DEF HostIoFinish, PC
<1>2. /\ gate'.in_flight_io = gate.in_flight_io - 1
      /\ SameMode /\ gate'.transition_pending = gate.transition_pending
  BY <1>0 DEF HostIoFinish, Gate, SameMode
<1>3. PlaceInv'
  BY <1>0, <1>1, PlaceKeeps DEF Place
<1>4. CountInv' /\ LockInv'
  BY <1>0, <1>1, <1>2, CountEnds, LockKeeps DEF Flight, Holding
<1>5. BodyInv'
  BY <1>0, <1>1, <1>2, BodyKeeps DEF BodyAt, SameMode
<1>6. QuietInv'
  <2>1. ~IoDrained(gate)
    BY <1>0, BusyFlight DEF InFlight, Flight
  <2>2. pc'["usb"] # "sync"
    BY <1>0, <1>1, MovesFacts
  <2> QED
    BY <1>0, <1>1, <2>1, <2>2, QuietBusy DEF BodyAt
<1>7. ModeInv'
  <2>1. DeviceActive' => DeviceActive
    BY <1>0, <1>1, MovesFacts, TaskFacts DEF DeviceActive
  <2>2. HostActive
    BY <1>0 DEF HostActive
  <2> QED
    BY <1>2, <2>1, <2>2, ModeKeeps
<1> QED
  BY <1>3, <1>4, <1>5, <1>6, <1>7

LEMMA HostSyncBeginStep ==
  ASSUME SafeInv, HostSyncBegin
  PROVE  ControlInv'
<1> USE DEF SafeInv, ControlInv
<1> DEFINE l == [NoLocal EXCEPT !.sequence = gate.pending_write_sync]
<1>0. /\ DataType /\ gate \in Gate /\ "usb" \in Task /\ "sync" \in PC
      /\ pc["usb"] = "idle" /\ gate.pending_write_sync # 0
      /\ UNCHANGED <<gate, storeLock, handles>>
  BY TaskFacts DEF DataType, PC, HostSyncBegin, medium
<1>1. l \in Local /\ l.op = "NONE"
  <2>1. gate.pending_write_sync \in Nat
    BY <1>0 DEF Gate
  <2> QED
    BY <1>0, <2>1, LocalTypes DEF NoLocal
<1>2. Moves("usb", "sync", l)
  BY EnterMoves DEF HostSyncBegin
<1> HIDE DEF l
<1>3. PlaceInv'
  BY <1>0, <1>1, <1>2, PlaceKeeps DEF Place
<1>4. CountInv' /\ LockInv'
  BY <1>0, <1>1, <1>2, CountKeeps, LockKeeps DEF Flight, Holding
<1>5. BodyInv'
  BY <1>0, <1>1, <1>2, BodyKeeps DEF BodyAt
<1>6. QuietInv'
  BY <1>0, <1>1, <1>2, QuietKeeps DEF BodyAt
<1>7. ModeInv'
  <2>1. DeviceActive' => DeviceActive
    BY <1>0, <1>1, <1>2, MovesFacts, TaskFacts DEF DeviceActive
  <2>2. HostActive
    BY <1>0 DEF HostActive
  <2> QED
    BY <1>0, <2>1, <2>2, ModeKeeps DEF SameMode
<1> QED
  BY <1>3, <1>4, <1>5, <1>6, <1>7

\* What the host wrote is synchronised, or the volume is quarantined.
LEMMA HostWriteCompleteStep ==
  ASSUME SafeInv, HostWriteComplete
  PROVE  ControlInv'
<1> USE DEF SafeInv, ControlInv
<1>0. /\ DataType /\ gate \in Gate /\ "usb" \in Task /\ pc["usb"] = "sync"
      /\ loc["usb"] \in Local /\ loc["usb"].op # "QUARANTINE" /\ NoLocal.op = "NONE"
      /\ UNCHANGED <<storeLock, handles>>
  BY TaskFacts DEF DataType, PlaceInv, Place, NoLocal, HostWriteComplete, medium
<1>1. PICK p \in {"idle", "quarantine"}, l \in {loc["usb"], NoLocal} :
        Moves("usb", p, l) /\ l \in Local /\ p \in PC
  BY <1>0, GotoMoves, IdleMoves, NoLocalType DEF HostWriteComplete, PC
<1>2. /\ gate'.in_flight_io = gate.in_flight_io
      /\ gate'.transition_pending = gate.transition_pending
      /\ \/ SameMode
         \/ /\ gate'.quarantined /\ gate'.ejected
            /\ gate'.lease_held = gate.lease_held /\ gate'.managed = gate.managed
  BY <1>0 DEF HostWriteComplete, Gate, SameMode
<1>3. PlaceInv'
  BY <1>0, <1>1, PlaceKeeps DEF Place
<1>4. CountInv' /\ LockInv'
  BY <1>0, <1>1, <1>2, CountKeeps, LockKeeps DEF Flight, Holding
<1>5. BodyInv'
  BY <1>0, <1>1, <1>2, BodyKeeps DEF BodyAt, SameMode
<1>6. QuietInv'
  <2>1. ~IoDrained(gate)
    BY <1>0 DEF QuietInv, IoDrained
  <2>2. pc'["usb"] # "sync"
    BY <1>0, <1>1, MovesFacts
  <2> QED
    BY <1>0, <1>1, <2>1, <2>2, QuietBusy DEF BodyAt
<1>7. ModeInv'
  <2>1. DeviceActive' => DeviceActive
    BY <1>0, <1>1, MovesFacts, TaskFacts DEF DeviceActive
  <2>2. HostActive
    BY <1>0 DEF HostActive
  <2> QED
    BY <1>2, <2>1, <2>2, ModeKeeps, QuarantineKeeps DEF ModeInv
<1> QED
  BY <1>3, <1>4, <1>5, <1>6, <1>7

\* The device may begin only while no transition is in its body and, on a
\* managed volume, the host has nothing in flight.
LEMMA VfsBeginStep ==
  ASSUME SafeInv, NEW t \in Task, VfsBegin(t)
  PROVE  ControlInv'
<1> USE DEF SafeInv, ControlInv
<1>0. /\ DataType /\ gate \in Gate /\ t \in VfsTasks /\ t # "usb" /\ "vfs" \in PC
      /\ loc[t] \in Local /\ loc[t].op # "QUARANTINE" /\ pc[t] = "idle"
      /\ UNCHANGED <<storeLock, handles>>
  BY TaskFacts DEF DataType, PC, PlaceInv, Place, VfsBegin, medium
<1>1. Moves(t, "vfs", loc[t])
  BY <1>0, GotoMoves DEF VfsBegin
<1>2. /\ gate'.in_flight_io = gate.in_flight_io + 1
      /\ gate'.pending_write_sync = gate.pending_write_sync
      /\ SameMode /\ gate'.transition_pending = gate.transition_pending
  BY <1>0 DEF VfsBegin, Gate, SameMode
<1>3. \A u \in Task : ~Body(u)
  BY DEF VfsBegin, PythonIoAllowed, BodyInv
<1>4. PlaceInv'
  BY <1>0, <1>1, PlaceKeeps DEF Place
<1>5. CountInv' /\ LockInv'
  BY <1>0, <1>1, <1>2, CountBegins, LockKeeps DEF Flight, Holding
<1>6. BodyInv'
  BY <1>0, <1>1, <1>2, BodyKeeps DEF BodyAt, SameMode
<1>7. QuietInv'
  <2>1. pc'["usb"] = "sync" => gate'.pending_write_sync # 0
    BY <1>0, <1>1, <1>2, MovesFacts, TaskFacts DEF QuietInv
  <2> QED
    BY <1>0, <1>1, <1>3, <2>1, QuietBusy DEF BodyAt
<1>8. ModeInv'
  <2>1. HostActive' => HostActive
    BY <1>0, <1>1, <1>2, MovesFacts, TaskFacts DEF HostActive
  <2>2. gate.managed => gate.handoff_ready \/ gate.lease_held
    BY DEF VfsBegin, PythonIoAllowed
  <2> QED
    BY <1>2, <2>1, <2>2 DEF ModeInv, SameMode
<1> QED
  BY <1>4, <1>5, <1>6, <1>7, <1>8

\* A file is opened while the operation that opens it is still counted.
LEMMA VfsOpenedStep ==
  ASSUME SafeInv, VfsOpened
  PROVE  ControlInv'
<1> USE DEF SafeInv, ControlInv
<1>0. /\ DataType /\ "vm" \in Task /\ "vm" \in VfsTasks /\ "vfsFinish" \in PC
      /\ loc["vm"] \in Local /\ loc["vm"].op # "QUARANTINE" /\ pc["vm"] = "vfs"
      /\ UNCHANGED <<gate, storeLock>>
  BY TaskFacts DEF DataType, VfsTasks, PC, PlaceInv, Place, VfsOpened
<1>1. Moves("vm", "vfsFinish", loc["vm"])
  BY <1>0, GotoMoves DEF VfsOpened
<1>2. PlaceInv'
  BY <1>0, <1>1, PlaceKeeps DEF Place
<1>3. CountInv' /\ LockInv'
  BY <1>0, <1>1, CountKeeps, LockKeeps DEF Flight, Holding
<1>4. BodyInv'
  BY <1>0, <1>1, BodyKeeps DEF BodyAt
<1>5. QuietInv'
  <2>1. ~IoDrained(gate)
    BY <1>0, BusyFlight DEF InFlight, Flight
  <2>2. pc'["usb"] = "sync" => gate'.pending_write_sync # 0
    BY <1>0, <1>1, MovesFacts, TaskFacts DEF QuietInv
  <2> QED
    BY <1>0, <1>1, <2>1, <2>2, QuietBusy DEF BodyAt
<1>6. ModeInv'
  <2>1. HostActive' => HostActive
    BY <1>0, <1>1, MovesFacts, TaskFacts DEF HostActive
  <2>2. DeviceActive
    BY <1>0 DEF DeviceActive
  <2> QED
    BY <1>0, <2>1, <2>2, ModeKeeps DEF SameMode
<1> QED
  BY <1>2, <1>3, <1>4, <1>5, <1>6

LEMMA VfsFinishStep ==
  ASSUME SafeInv, NEW t \in Task, VfsFinish(t)
  PROVE  ControlInv'
<1> USE DEF SafeInv, ControlInv
<1>0. /\ DataType /\ gate \in Gate /\ "idle" \in PC /\ pc[t] \in {"vfs", "vfsFinish"}
      /\ loc[t] \in Local /\ loc[t].op # "QUARANTINE"
      /\ UNCHANGED <<storeLock, handles>>
  BY DEF DataType, PC, PlaceInv, Place, VfsFinish, medium
<1>1. Moves(t, "idle", loc[t]) /\ t \in VfsTasks /\ t # "usb"
  BY <1>0, GotoMoves, TaskFacts DEF VfsFinish, PlaceInv, Place, VfsTasks
<1>2. /\ gate'.in_flight_io = gate.in_flight_io - 1
      /\ gate'.pending_write_sync = gate.pending_write_sync
      /\ SameMode /\ gate'.transition_pending = gate.transition_pending
  BY <1>0 DEF VfsFinish, Gate, SameMode
<1>3. PlaceInv'
  BY <1>0, <1>1, PlaceKeeps DEF Place
<1>4. CountInv' /\ LockInv'
  BY <1>0, <1>1, <1>2, CountEnds, LockKeeps DEF Flight, Holding
<1>5. BodyInv'
  BY <1>0, <1>1, <1>2, BodyKeeps DEF BodyAt, SameMode
<1>6. QuietInv'
  <2>1. ~IoDrained(gate)
    BY <1>0, BusyFlight DEF InFlight, Flight
  <2>2. pc'["usb"] = "sync" => gate'.pending_write_sync # 0
    BY <1>0, <1>1, <1>2, MovesFacts, TaskFacts DEF QuietInv
  <2> QED
    BY <1>0, <1>1, <2>1, <2>2, QuietBusy DEF BodyAt
<1>7. ModeInv'
  BY <1>0, <1>1, <1>2, ActiveKeeps, ModeKeeps DEF Flight
<1> QED
  BY <1>3, <1>4, <1>5, <1>6, <1>7

\* close() passes no gate, but only takes from what is counted.
LEMMA VfsCloseStep ==
  ASSUME SafeInv, VfsClose
  PROVE  ControlInv'
<1> USE DEF SafeInv, ControlInv
<1>1. UNCHANGED <<gate, storeLock, pc, loc>> /\ handles # 0
  <2>1. handles \in Nat
    BY DEF DataType
  <2> QED
    BY <2>1 DEF VfsClose
<1>2. PlaceInv' /\ LockInv'
  BY <1>1 DEF PlaceInv, LockInv
<1>3. CountInv'
  BY <1>1 DEF CountInv, InFlight
<1>4. BodyInv'
  BY <1>1 DEF BodyInv, Body
<1>5. QuietInv'
  BY <1>1 DEF QuietInv, Body
<1>6. ModeInv'
  BY <1>1 DEF ModeInv, HostActive, DeviceActive
<1> QED
  BY <1>2, <1>3, <1>4, <1>5, <1>6

\* What a gate that esp_vision_msc_writer_init sets up never says.
LEMMA StartGate ==
  ASSUME NEW r, NEW g, g = Recovered(r) \/ g = GateInit(TRUE, FALSE)
  PROVE  /\ g.in_flight_io = 0 /\ g.pending_write_sync = 0 /\ ~g.lease_held
         /\ ~g.transition_pending
         /\ g.handoff_ready => g.ejected
<1>1. g \in {GateInit(FALSE, FALSE), [GateInit(FALSE, FALSE) EXCEPT !.managed = TRUE],
            GateInit(FALSE, TRUE), GateInit(TRUE, FALSE)}
  <2>1. CASE r.state = "HOST"
    BY <2>1 DEF Recovered
  <2>2. CASE r.state = "MANAGED_HOST"
    BY <2>2 DEF Recovered
  <2>3. CASE r.state = "HANDOFF"
    BY <2>3 DEF Recovered
  <2>4. CASE r.state \notin {"HOST", "MANAGED_HOST", "HANDOFF"}
    BY <2>4 DEF Recovered
  <2> QED
    BY <2>1, <2>2, <2>3, <2>4
<1>2. CASE g = GateInit(FALSE, FALSE)
  BY <1>2 DEF GateInit
<1>3. CASE g = [GateInit(FALSE, FALSE) EXCEPT !.managed = TRUE]
  BY <1>3 DEF GateInit
<1>4. CASE g = GateInit(FALSE, TRUE)
  BY <1>4 DEF GateInit
<1>5. CASE g = GateInit(TRUE, FALSE)
  BY <1>5 DEF GateInit
<1> QED
  BY <1>1, <1>2, <1>3, <1>4, <1>5

\* At a start every task is at rest, and the gate is what the record says.
LEMMA AtRest ==
  ASSUME NEW r, gate = Recovered(r) \/ gate = GateInit(TRUE, FALSE),
         pc = [t \in Task |-> "idle"], loc = [t \in Task |-> NoLocal],
         storeLock = NoTask, handles = 0
  PROVE  ControlInv
<1>1. /\ \A t \in Task : pc[t] = "idle" /\ loc[t].op = "NONE"
      /\ gate.in_flight_io = 0 /\ gate.pending_write_sync = 0 /\ ~gate.lease_held
      /\ gate.handoff_ready => gate.ejected
  BY StartGate DEF NoLocal
<1>2. PlaceInv /\ LockInv
  BY <1>1, TaskFacts DEF PlaceInv, Place, LockInv, Holding
<1>3. CountInv
  <2>1. InFlight = {}
    BY <1>1 DEF InFlight, Flight
  <2> QED
    BY <1>1, <2>1, FS_EmptySet DEF CountInv
<1>4. BodyInv /\ QuietInv
  BY <1>1, TaskFacts DEF BodyInv, QuietInv, Body, BodyAt
<1>5. ModeInv
  <2>1. ~HostActive
    BY <1>1, TaskFacts DEF HostActive
  <2>2. ~DeviceActive
    BY <1>1, TaskFacts DEF DeviceActive
  <2> QED
    BY <1>1, <2>1, <2>2 DEF ModeInv
<1> QED
  BY <1>2, <1>3, <1>4, <1>5 DEF ControlInv

LEMMA InitSafe == ASSUME Init PROVE SafeInv
<1>1. ControlInv
  BY AtRest DEF Init
<1>2. CountersType
  BY DEF Init, CountersType
<1> QED
  BY <1>1, <1>2, InitTypes DEF SafeInv

LEMMA CrashStep == ASSUME Crash PROVE ControlInv'
<1> DEFINE r == nvs
<1>1. /\ gate' = Recovered(r) \/ gate' = GateInit(TRUE, FALSE)
      /\ pc' = [t \in Task |-> "idle"] /\ loc' = [t \in Task |-> NoLocal]
      /\ storeLock' = NoTask /\ handles' = 0
  BY DEF Crash
<1>2. /\ \A t \in Task : pc'[t] = "idle" /\ loc'[t].op = "NONE"
      /\ gate'.in_flight_io = 0 /\ gate'.pending_write_sync = 0 /\ ~gate'.lease_held
      /\ gate'.handoff_ready => gate'.ejected
  BY <1>1, StartGate DEF NoLocal
<1>3. PlaceInv' /\ LockInv'
  BY <1>1, <1>2, TaskFacts DEF PlaceInv, Place, LockInv, Holding
<1>4. CountInv'
  <2>1. InFlight' = {}
    BY <1>2 DEF InFlight, Flight
  <2> QED
    BY <1>2, <2>1, FS_EmptySet DEF CountInv
<1>5. BodyInv' /\ QuietInv'
  BY <1>2, TaskFacts DEF BodyInv, QuietInv, Body, BodyAt
<1>6. ModeInv'
  <2>1. ~HostActive'
    BY <1>2, TaskFacts DEF HostActive
  <2>2. ~DeviceActive'
    BY <1>1, <1>2, TaskFacts DEF DeviceActive
  <2> QED
    BY <1>2, <2>1, <2>2 DEF ModeInv
<1> QED
  BY <1>3, <1>4, <1>5, <1>6 DEF ControlInv

LEMMA StutterStep == ASSUME SafeInv, UNCHANGED vars PROVE SafeInv'
<1>1. UNCHANGED <<gate, record, nvs, storeLock, handles, session, pc, loc, leases, sessions>>
  BY DEF vars
<1>2. DataType' /\ CountersType'
  BY <1>1 DEF SafeInv, DataType, CountersType
<1>3. PlaceInv' /\ LockInv' /\ CountInv'
  BY <1>1 DEF SafeInv, ControlInv, PlaceInv, LockInv, CountInv, InFlight
<1>4. BodyInv' /\ QuietInv'
  BY <1>1 DEF SafeInv, ControlInv, BodyInv, QuietInv, Body
<1>5. ModeInv'
  BY <1>1 DEF SafeInv, ControlInv, ModeInv, HostActive, DeviceActive
<1> QED
  BY <1>2, <1>3, <1>4, <1>5 DEF SafeInv, ControlInv

LEMMA CountersStep == ASSUME CountersType, Next PROVE CountersType'
<1>1. ASSUME NEW t \in Task,
             \/ Continue(t) \/ DrainTimeout(t)
             \/ AcquireRequest(t) \/ ReleaseRequest(t)
             \/ VfsBegin(t) \/ VfsFinish(t)
             \/ SessionTransition(t) \/ CallbackCheck(t) \/ SessionChanged(t)
      PROVE  leases' \in {leases, leases + 1} /\ sessions' \in {sessions, sessions + 1, 0}
  <2>1. CASE Continue(t)
    BY <2>1 DEF Continue, AcquireStart, ReleaseStart, Drain, Refresh, StoreTake, StoreCommit,
                StoreCheck, Finish, Quarantine, medium, counters
  <2>2. CASE SessionTransition(t)
    BY <2>2 DEF SessionTransition
  <2>3. CASE ~Continue(t) /\ ~SessionTransition(t)
    BY <1>1, <2>3 DEF DrainTimeout, AcquireRequest, ReleaseRequest, VfsBegin, VfsFinish,
                      CallbackCheck, SessionChanged, medium, counters
  <2> QED
    BY <2>1, <2>2, <2>3
<1>2. ASSUME \/ \E op \in {"EJECT", "LOAD"} : HostStartStop(op)
             \/ \E writing \in BOOLEAN : HostIoBegin(writing)
             \/ HostIoFinish \/ HostSyncBegin \/ HostWriteComplete
             \/ VfsOpened \/ VfsClose \/ VmResetBegin \/ VmEpochAdvance \/ Crash
      PROVE  UNCHANGED <<leases, sessions>>
  BY <1>2 DEF HostStartStop, HostIoBegin, HostIoFinish, HostSyncBegin, HostWriteComplete,
              VfsOpened, VfsClose, VmResetBegin, VmEpochAdvance, Crash, medium, counters
<1>3. leases' \in {leases, leases + 1} /\ sessions' \in {sessions, sessions + 1, 0}
  BY <1>1, <1>2 DEF Next
<1> QED
  BY <1>3 DEF CountersType

LEMMA SafeStep == ASSUME SafeInv, Next PROVE SafeInv'
<1>0. DataType /\ CountersType /\ PlaceInv /\ CountInv /\ "usb" \in Task
  BY TaskFacts DEF SafeInv, ControlInv
<1> SUFFICES DataType' /\ ControlInv'
  BY <1>0, CountersStep DEF SafeInv
<1>1. ASSUME NEW t \in Task,
             \/ Continue(t) \/ DrainTimeout(t)
             \/ AcquireRequest(t) \/ ReleaseRequest(t)
             \/ VfsBegin(t) \/ VfsFinish(t)
             \/ SessionTransition(t) \/ CallbackCheck(t) \/ SessionChanged(t)
      PROVE  DataType' /\ ControlInv'
  <2>1. CASE AcquireStart(t) \/ ReleaseStart(t)
    BY <1>0, <2>1, BeginTypes, BeginSteps
  <2>2. CASE Drain(t) \/ DrainTimeout(t) \/ Refresh(t)
    BY <1>0, <2>2, BodyTypes, DrainSteps
  <2>3. CASE StoreTake(t) \/ StoreCommit(t) \/ StoreCheck(t)
    BY <1>0, <2>3, BodyTypes, StoreSteps
  <2>4. CASE Finish(t)
    BY <1>0, <2>4, BodyTypes, FinishStep
  <2>5. CASE Quarantine(t)
    BY <1>0, <2>5, BeginTypes, QuarantineSteps
  <2>6. CASE AcquireRequest(t) \/ ReleaseRequest(t)
    BY <1>0, <2>6, BeginTypes, RequestSteps
  <2>7. CASE VfsBegin(t) \/ VfsFinish(t)
    BY <1>0, <2>7, VfsTypes, VfsBeginStep, VfsFinishStep
  <2>8. CASE SessionTransition(t) \/ CallbackCheck(t)
    BY <1>0, <2>8, SessionTypes, RequestSteps
  <2>9. CASE SessionChanged(t)
    BY <1>0, <2>9, SessionTypes, QuarantineSteps
  <2> QED
    BY <1>1, <2>1, <2>2, <2>3, <2>4, <2>5, <2>6, <2>7, <2>8, <2>9 DEF Continue
<1>2. CASE \/ \E op \in {"EJECT", "LOAD"} : HostStartStop(op)
           \/ \E writing \in BOOLEAN : HostIoBegin(writing)
           \/ HostIoFinish \/ HostSyncBegin \/ HostWriteComplete
  <2>1. DataType'
    BY <1>0, <1>2, UsbTypes
  <2> QED
    BY <1>0, <1>2, <2>1, BeginSteps, HostIoBeginStep, HostIoFinishStep, HostSyncBeginStep,
       HostWriteCompleteStep
<1>3. CASE VfsOpened \/ VfsClose
  BY <1>0, <1>3, VfsTypes, VfsOpenedStep, VfsCloseStep
<1>4. CASE VmResetBegin \/ VmEpochAdvance
  BY <1>0, <1>4, SessionTypes, ResetSteps
<1>5. CASE Crash
  BY <1>0, <1>5, CrashTypes, CrashStep
<1> QED
  BY <1>1, <1>2, <1>3, <1>4, <1>5 DEF Next

\* The inductive invariant holds in every reachable state.
THEOREM SafeCorrect == Spec => []SafeInv
<1>1. SafeInv /\ [Next]_vars => SafeInv'
  BY SafeStep, StutterStep
<1> QED
  BY InitSafe, <1>1, PTL DEF Spec

(***************************************************************************)
(* What the runs check, for every value of the constants.                  *)
(***************************************************************************)
\* The gate counts what is in flight, the store lock is held by the task that
\* writes, and on a volume that has been leased the USB host and the device are
\* never active at the same time.
THEOREM WriterCorrect == Spec => []WriterInv
<1>1. SafeInv => WriterInv
  <2> SUFFICES ASSUME SafeInv PROVE WriterInv
    OBVIOUS
  <2>1. TypeOK
    BY TypeParts DEF SafeInv, ControlInv
  <2>2. OneWriter
    BY DEF SafeInv, ControlInv, ModeInv, OneWriter
  <2> QED
    BY <2>1, <2>2 DEF WriterInv
<1> QED
  BY <1>1, SafeCorrect, PTL

\* What a transition has drained stays drained until the transition ends.
THEOREM DrainCorrect == Spec => []DrainHolds
<1>1. SafeInv => DrainHolds
  <2> SUFFICES ASSUME SafeInv, NEW t \in Task,
                      pc[t] \in {"refresh", "store", "commit", "storeCheck", "finish"},
                      loc[t].op # "QUARANTINE"
               PROVE  ~HostActive /\ ~DeviceActive
    BY DEF DrainHolds
  <2>1. Body(t) /\ pc[t] \notin {"drain", "handles"}
    BY DEF Body, BodyAt
  <2>2. IoDrained(gate) /\ handles = 0
    BY <2>1 DEF SafeInv, ControlInv, QuietInv
  <2>3. InFlight = {}
    BY <2>2, NoneInFlight DEF SafeInv, ControlInv, IoDrained
  <2>4. pc["usb"] \notin {"hostIo", "sync"}
    BY <2>2, <2>3, TaskFacts DEF SafeInv, ControlInv, QuietInv, IoDrained, InFlight, Flight
  <2>5. \A u \in VfsTasks : pc[u] \notin {"vfs", "vfsFinish"}
    BY <2>3, TaskFacts DEF InFlight, Flight
  <2> QED
    BY <2>2, <2>4, <2>5 DEF HostActive, DeviceActive, IoDrained
<1> QED
  BY <1>1, SafeCorrect, PTL

(***************************************************************************)
(* What NVS holds: the inductive invariant of RecordInv.                   *)
(***************************************************************************)
Imposing(p, l) == p = "quarantine" \/ l.op = "QUARANTINE"

\* Only a gate that is closed for good is recorded as such, and what a task has
\* written stays in NVS while it holds the store lock.
WrittenInv ==
  \A t \in Task :
    /\ loc[t].op = "QUARANTINE" => gate.quarantined
    /\ pc[t] = "storeCheck" => nvs = Target(t)

\* A transition that leaves no record is one of a volume that was never leased;
\* one that leaves a record finishes after it.
TransitInv ==
  \A t \in Task : Body(t) /\ ~gate.quarantined =>
    /\ loc[t].op \in {"EJECT", "LOAD"} => loc[t].managed = gate.managed
    /\ IF NeedsStore(t)
       THEN pc[t] = "finish" => nvs = Target(t) /\ record = Target(t)
       ELSE nvs.state = "HOST" /\ pc[t] \notin {"store", "commit", "storeCheck"}

\* At rest NVS holds the mode in force.
RestInv ==
  ~gate.transition_pending /\ ~gate.quarantined =>
    IF ~gate.managed THEN nvs.state = "HOST"
    ELSE IF gate.lease_held THEN nvs.state = "LEASED" /\ nvs = record
    ELSE IF gate.handoff_ready THEN nvs.state = "HANDOFF"
    ELSE nvs.state = "MANAGED_HOST" /\ ~gate.ejected

\* In quarantine a task is still to record it as long as NVS does not say so, and
\* as long as a transition may write over it.
ImposedInv ==
  /\ ~NvsFails /\ gate.quarantined
  /\ \/ nvs.state \notin {"LEASED", "QUARANTINE"}
     \/ \E t \in Task : Body(t) /\ pc[t] \in Holding
  => \E t \in Task : Imposing(pc[t], loc[t])

StoredInv == WrittenInv /\ TransitInv /\ RestInv /\ ImposedInv

\* A step that writes no record and leaves the mode alone.
LEMMA RecordKeeps ==
  ASSUME SafeInv, StoredInv,
         NEW t \in Task, NEW p \in PC, NEW l \in Local, Moves(t, p, l),
         UNCHANGED <<nvs, record>>,
         SameMode, gate'.transition_pending = gate.transition_pending,
         l.op = "QUARANTINE" => loc[t].op = "QUARANTINE",
         Imposing(pc[t], loc[t]) => Imposing(p, l),
         p # "storeCheck",
         BodyAt(p, l) => Body(t) /\ l = loc[t],
         BodyAt(p, l) /\ p = "finish" => ~NeedsStore(t),
         BodyAt(p, l) /\ p \in {"store", "commit"} => NeedsStore(t),
         BodyAt(p, l) /\ p = "commit" => ~gate.quarantined
  PROVE  StoredInv'
<1>0. DataType
  BY DEF SafeInv
<1>1. \A u \in Task : loc'[u] = loc[u] => Target(u)' = Target(u) /\ (NeedsStore(u)' <=> NeedsStore(u))
  BY DEF Target, NeedsStore
<1>2. /\ pc'[t] = p /\ loc'[t] = l
      /\ \A u \in Task \ {t} : pc'[u] = pc[u] /\ loc'[u] = loc[u]
  BY <1>0, MovesFacts
<1>3. WrittenInv'
  BY <1>1, <1>2 DEF WrittenInv, StoredInv, SameMode
<1>4. TransitInv'
  <2> SUFFICES ASSUME NEW u \in Task, Body(u)', ~gate'.quarantined
               PROVE  /\ loc'[u].op \in {"EJECT", "LOAD"} => loc'[u].managed = gate'.managed
                      /\ IF NeedsStore(u)'
                         THEN pc'[u] = "finish" => nvs' = Target(u)' /\ record' = Target(u)'
                         ELSE nvs'.state = "HOST" /\ pc'[u] \notin {"store", "commit", "storeCheck"}
    BY DEF TransitInv
  <2>1. Body(u) /\ loc'[u] = loc[u] /\ ~gate.quarantined
    BY <1>2 DEF Body, SameMode
  <2>2. /\ loc[u].op \in {"EJECT", "LOAD"} => loc[u].managed = gate.managed
        /\ NeedsStore(u) => (pc[u] = "finish" => nvs = Target(u) /\ record = Target(u))
        /\ ~NeedsStore(u) => nvs.state = "HOST" /\ pc[u] \notin {"store", "commit", "storeCheck"}
    BY <2>1 DEF StoredInv, TransitInv
  <2>3. CASE u # t
    BY <1>1, <1>2, <2>1, <2>2, <2>3 DEF SameMode
  <2>4. CASE u = t
    <3>1. BodyAt(p, l)
      BY <1>2, <2>4 DEF Body
    <3> QED
      BY <1>1, <1>2, <2>1, <2>2, <2>4, <3>1 DEF SameMode
  <2> QED
    BY <2>3, <2>4
<1>5. RestInv'
  BY DEF RestInv, StoredInv, SameMode
<1>6. ImposedInv'
  <2> SUFFICES ASSUME ~NvsFails, gate'.quarantined,
                      \/ nvs'.state \notin {"LEASED", "QUARANTINE"}
                      \/ \E u \in Task : Body(u)' /\ pc'[u] \in Holding
               PROVE  \E u \in Task : Imposing(pc'[u], loc'[u])
    BY DEF ImposedInv
  <2>1. gate.quarantined
    BY DEF SameMode
  <2>2. ASSUME NEW u \in Task, Body(u)', pc'[u] \in Holding
        PROVE  Body(u) /\ pc[u] \in Holding
    BY <1>2, <2>1, <2>2 DEF Body, Holding
  <2>3. PICK w \in Task : Imposing(pc[w], loc[w])
    BY <2>1, <2>2 DEF StoredInv, ImposedInv
  <2> QED
    BY <1>2, <2>3
<1> QED
  BY <1>3, <1>4, <1>5, <1>6 DEF StoredInv

\* A step that closes the gate for good while its task is to record it.
LEMMA RecordQuarantines ==
  ASSUME SafeInv, StoredInv,
         NEW t \in Task, NEW p \in PC, NEW l \in Local, Moves(t, p, l),
         UNCHANGED nvs, gate'.quarantined, Imposing(p, l), p # "storeCheck"
  PROVE  StoredInv'
<1>1. /\ pc'[t] = p /\ loc'[t] = l
      /\ \A u \in Task \ {t} : pc'[u] = pc[u] /\ loc'[u] = loc[u]
  BY MovesFacts DEF SafeInv
<1>2. WrittenInv'
  BY <1>1 DEF WrittenInv, StoredInv, Target
<1>3. TransitInv' /\ RestInv'
  BY DEF TransitInv, RestInv
<1>4. ImposedInv'
  BY <1>1 DEF ImposedInv
<1> QED
  BY <1>2, <1>3, <1>4 DEF StoredInv

\* A transition begins: what it will need to know of the volume is fixed.
LEMMA RecordBegins ==
  ASSUME SafeInv, StoredInv, NEW t \in Task, NEW l \in Local, Moves(t, "drain", l),
         UNCHANGED <<nvs, record>>,
         ~gate.transition_pending, ~gate.quarantined,
         gate'.transition_pending, ~gate'.quarantined, gate'.managed = gate.managed,
         l.op # "QUARANTINE",
         l.op \in {"EJECT", "LOAD"} => l.managed = gate.managed,
         l.op \in {"ACQUIRE", "RELEASE", "EJECT", "LOAD"}
  PROVE  StoredInv'
<1>0. "drain" \in PC
  BY DEF PC
<1>1. /\ pc'[t] = "drain" /\ loc'[t] = l
      /\ \A u \in Task \ {t} : pc'[u] = pc[u] /\ loc'[u] = loc[u]
  BY <1>0, MovesFacts DEF SafeInv
<1>2. WrittenInv'
  BY <1>1 DEF WrittenInv, StoredInv, Target
<1>3. TransitInv'
  <2> SUFFICES ASSUME NEW u \in Task, Body(u)'
               PROVE  /\ loc'[u].op \in {"EJECT", "LOAD"} => loc'[u].managed = gate'.managed
                      /\ IF NeedsStore(u)'
                         THEN pc'[u] = "finish" => nvs' = Target(u)' /\ record' = Target(u)'
                         ELSE nvs'.state = "HOST" /\ pc'[u] \notin {"store", "commit", "storeCheck"}
    BY DEF TransitInv
  <2>1. u = t
    BY <1>1 DEF Body, SafeInv, ControlInv, BodyInv
  <2>2. ~NeedsStore(t)' => nvs.state = "HOST"
    BY <1>1 DEF NeedsStore, StoredInv, RestInv
  <2> QED
    BY <1>1, <2>1, <2>2
<1>4. RestInv' /\ ImposedInv'
  BY DEF RestInv, ImposedInv
<1> QED
  BY <1>2, <1>3, <1>4 DEF StoredInv

\* Another task's place in a transition or a quarantine excludes these.
LEMMA OneHolder ==
  ASSUME SafeInv, NEW t \in Task, pc[t] \in Holding, NEW u \in Task, pc[u] \in Holding
  PROVE  u = t
  BY DEF SafeInv, ControlInv, LockInv

\* A step to a place where nothing is recorded and no transition is under way.
LEMMA RecordPlain ==
  ASSUME SafeInv, StoredInv,
         NEW t \in Task, NEW p \in PC, NEW l \in Local, Moves(t, p, l),
         UNCHANGED <<nvs, record>>,
         SameMode, gate'.transition_pending = gate.transition_pending,
         l.op # "QUARANTINE", ~Imposing(pc[t], loc[t]),
         p \notin {"drain", "handles", "refresh", "store", "commit", "storeCheck", "finish"}
  PROVE  StoredInv'
<1>1. ~BodyAt(p, l)
  BY DEF BodyAt
<1> QED
  BY <1>1, RecordKeeps

\* The steps of a task that has nothing to do with a record.
LEMMA RequestRecord ==
  ASSUME SafeInv, StoredInv, NEW t \in Task,
         \/ AcquireRequest(t) \/ ReleaseRequest(t) \/ SessionTransition(t) \/ CallbackCheck(t)
         \/ VfsBegin(t) \/ VfsFinish(t)
  PROVE  StoredInv'
<1>0. /\ DataType /\ CountersType /\ gate \in Gate /\ loc[t] \in Local /\ NoLocal.op = "NONE"
      /\ session.id \in Nat /\ session.generation + 1 \in Nat /\ Place(t, pc[t], loc[t])
  <2>1. DataType /\ CountersType /\ Place(t, pc[t], loc[t])
    BY DEF SafeInv, ControlInv, PlaceInv
  <2>2. session \in [id : Nat, generation : Nat] /\ gate \in Gate /\ loc[t] \in Local
    BY <2>1 DEF DataType
  <2>3. session.id \in Nat /\ session.generation + 1 \in Nat
    BY <2>2
  <2> QED
    BY <2>1, <2>2, <2>3 DEF NoLocal
<1>1. pc[t] \in {"idle", "callback", "vfs", "vfsFinish"} /\ UNCHANGED <<nvs, record>>
  BY DEF AcquireRequest, ReleaseRequest, SessionTransition, CallbackCheck, VfsBegin, VfsFinish,
         medium
<1>2. loc[t].op # "QUARANTINE" /\ ~Imposing(pc[t], loc[t])
  BY <1>0, <1>1 DEF Place, Imposing
<1>3. SameMode /\ gate'.transition_pending = gate.transition_pending
  BY <1>0 DEF AcquireRequest, ReleaseRequest, SessionTransition, CallbackCheck, VfsBegin, VfsFinish,
              SameMode, Gate
<1>4. PICK p \in {"acquire", "release", "callback", "changed", "epoch", "idle", "vfs"},
           l \in Local : Moves(t, p, l) /\ l.op # "QUARANTINE"
  <2>1. CASE AcquireRequest(t)
    <3> DEFINE l == [NoLocal EXCEPT !.op = "ACQUIRE", !.session = session.id]
    <3>1. "ACQUIRE" \in Op /\ l.op = "ACQUIRE"
      BY DEF Op, NoLocal
    <3>2. l \in Local
      BY <1>0, <3>1, LocalTypes, Zenon
    <3>3. Moves(t, "acquire", l)
      BY <2>1, EnterMoves DEF AcquireRequest
    <3> HIDE DEF l
    <3> QED
      BY <3>1, <3>2, <3>3
  <2>2. CASE ReleaseRequest(t)
    <3>1. PICK lease \in 1..leases :
            Enter(t, "release", [NoLocal EXCEPT !.op = "RELEASE", !.session = session.id,
                                                !.lease = lease])
      BY <2>2 DEF ReleaseRequest
    <3> DEFINE l == [NoLocal EXCEPT !.op = "RELEASE", !.session = session.id, !.lease = lease]
    <3>2. lease \in Nat /\ "RELEASE" \in Op /\ l.op = "RELEASE"
      BY <1>0 DEF CountersType, Op, NoLocal
    <3>3. l \in Local
      BY <1>0, <3>2, LocalTypes, Zenon
    <3>4. Moves(t, "release", l)
      BY <3>1, EnterMoves
    <3> HIDE DEF l
    <3> QED
      BY <3>2, <3>3, <3>4
  <2>3. CASE SessionTransition(t)
    <3> DEFINE id == IF session.id = 0 THEN sessions + 1 ELSE 0
               l == [NoLocal EXCEPT !.session = id, !.generation = session.generation + 1]
    <3>1. id \in Nat
      BY <1>0 DEF CountersType
    <3>2. l \in Local
      BY <1>0, <3>1, LocalTypes, Zenon
    <3>3. l.op = "NONE"
      BY DEF NoLocal
    <3>4. Moves(t, "callback", l)
      BY <2>3, EnterMoves DEF SessionTransition
    <3> HIDE DEF l
    <3> QED
      BY <3>2, <3>3, <3>4
  <2>4. CASE Idle(t)
    BY <1>0, <2>4, IdleMoves, NoLocalType
  <2>5. CASE Goto(t, "changed") \/ Goto(t, "vfs") \/ Goto(t, "idle")
    BY <1>0, <1>2, <2>5, GotoMoves DEF PC
  <2> QED
    BY <2>1, <2>2, <2>3, <2>4, <2>5 DEF CallbackCheck, VfsBegin, VfsFinish
<1>5. p \in PC
  BY DEF PC
<1> QED
  BY <1>1, <1>2, <1>3, <1>4, <1>5, RecordPlain

LEMMA VmRecord ==
  ASSUME SafeInv, StoredInv, VmResetBegin \/ VmEpochAdvance \/ VfsOpened \/ VfsClose
  PROVE  StoredInv'
<1>0. /\ DataType /\ "vm" \in Task /\ loc["vm"] \in Local /\ Place("vm", pc["vm"], loc["vm"])
      /\ pc["vm"] \in {"idle", "epoch", "vfs"} /\ UNCHANGED <<nvs, record, gate>>
  BY TaskFacts DEF SafeInv, DataType, ControlInv, PlaceInv, VmResetBegin, VmEpochAdvance,
                   VfsOpened, VfsClose
<1>1. loc["vm"].op # "QUARANTINE" /\ ~Imposing(pc["vm"], loc["vm"]) /\ NoLocal.op = "NONE"
  BY <1>0 DEF Place, Imposing, NoLocal
<1>2. PICK p \in {"changed", "idle", "vfsFinish"}, l \in {loc["vm"], NoLocal} : Moves("vm", p, l)
  <2>1. CASE VfsClose
    BY <1>0, <2>1 DEF VfsClose, Moves, DataType
  <2>2. CASE VmResetBegin
    BY <2>2, EnterMoves DEF VmResetBegin
  <2>3. CASE VmEpochAdvance \/ VfsOpened
    BY <1>0, <2>3, GotoMoves DEF VmEpochAdvance, VfsOpened, PC
  <2> QED
    BY <2>1, <2>2, <2>3
<1>3. p \in PC /\ l \in Local
  BY <1>0, NoLocalType DEF PC
<1> QED
  BY <1>0, <1>1, <1>2, <1>3, RecordPlain DEF SameMode

LEMMA UsbRecord ==
  ASSUME SafeInv, StoredInv,
         \/ \E writing \in BOOLEAN : HostIoBegin(writing)
         \/ HostIoFinish \/ HostSyncBegin \/ HostWriteComplete
  PROVE  StoredInv'
<1>0. /\ DataType /\ gate \in Gate /\ "usb" \in Task /\ loc["usb"] \in Local
      /\ Place("usb", pc["usb"], loc["usb"])
      /\ pc["usb"] \in {"idle", "hostIo", "sync"} /\ UNCHANGED <<nvs, record>>
  BY TaskFacts DEF SafeInv, DataType, ControlInv, PlaceInv, HostIoBegin, HostIoFinish,
                   HostSyncBegin, HostWriteComplete, medium
<1>1. loc["usb"].op # "QUARANTINE" /\ ~Imposing(pc["usb"], loc["usb"]) /\ NoLocal.op = "NONE"
  BY <1>0 DEF Place, Imposing, NoLocal
<1>2. CASE SameMode /\ gate'.transition_pending = gate.transition_pending
  <2>1. PICK p \in {"hostIo", "idle", "sync", "quarantine"}, l \in Local :
               Moves("usb", p, l) /\ l.op # "QUARANTINE"
    <3>1. ASSUME NEW writing \in BOOLEAN, HostIoBegin(writing)
          PROVE  \E l \in Local : Moves("usb", "hostIo", l) /\ l.op # "QUARANTINE"
      <4> DEFINE l == [NoLocal EXCEPT !.writing = writing]
      <4>1. l \in Local
        BY <1>0, LocalTypes, Zenon
      <4>2. l.op = "NONE"
        BY DEF NoLocal
      <4>3. Moves("usb", "hostIo", l)
        BY <3>1, EnterMoves DEF HostIoBegin
      <4> HIDE DEF l
      <4> QED
        BY <4>1, <4>2, <4>3
    <3>2. CASE HostSyncBegin
      <4> DEFINE l == [NoLocal EXCEPT !.sequence = gate.pending_write_sync]
      <4>1. gate.pending_write_sync \in Nat
        BY <1>0 DEF Gate
      <4>2. l \in Local
        BY <1>0, <4>1, LocalTypes, Zenon
      <4>3. l.op = "NONE"
        BY DEF NoLocal
      <4>4. Moves("usb", "sync", l)
        BY <3>2, EnterMoves DEF HostSyncBegin
      <4> HIDE DEF l
      <4> QED
        BY <4>2, <4>3, <4>4
    <3>3. CASE Idle("usb") \/ Goto("usb", "quarantine")
      BY <1>0, <1>1, <3>3, IdleMoves, GotoMoves, NoLocalType DEF PC
    <3> QED
      BY <3>1, <3>2, <3>3 DEF HostIoFinish, HostWriteComplete
  <2>2. p \in PC
    BY DEF PC
  <2> QED
    BY <1>0, <1>1, <1>2, <2>1, <2>2, RecordPlain
<1>3. CASE ~(SameMode /\ gate'.transition_pending = gate.transition_pending)
  <2>1. gate'.quarantined /\ Goto("usb", "quarantine")
    BY <1>0, <1>3 DEF HostIoBegin, HostIoFinish, HostSyncBegin, HostWriteComplete, SameMode, Gate
  <2>2. Moves("usb", "quarantine", loc["usb"]) /\ "quarantine" \in PC
    BY <1>0, <2>1, GotoMoves DEF PC
  <2> QED
    BY <1>0, <2>1, <2>2, RecordQuarantines DEF Imposing
<1> QED
  BY <1>2, <1>3

\* A refused request, or one on its way to quarantine.
LEMMA RecordGivesUp ==
  ASSUME SafeInv, StoredInv, NEW t \in Task, ~Imposing(pc[t], loc[t]),
         Idle(t) \/ Goto(t, "quarantine"),
         UNCHANGED <<nvs, record, gate>>
  PROVE  StoredInv'
<1>0. DataType /\ loc[t] \in Local /\ {"quarantine", "epoch", "idle"} \subseteq PC
      /\ NoLocal.op = "NONE"
  BY DEF SafeInv, DataType, NoLocal, PC
<1>1. PICK p \in {"quarantine", "epoch", "idle"}, l \in {loc[t], NoLocal} : Moves(t, p, l)
  BY <1>0, IdleMoves, GotoMoves
<1>2. p \in PC /\ l \in Local /\ l.op # "QUARANTINE"
  BY <1>0, NoLocalType DEF Imposing
<1> QED
  BY <1>1, <1>2, RecordPlain DEF SameMode

LEMMA BeginRecord ==
  ASSUME SafeInv, StoredInv, NEW t \in Task,
         \/ AcquireStart(t) \/ ReleaseStart(t)
         \/ t = "usb" /\ \E op \in {"EJECT", "LOAD"} : HostStartStop(op)
  PROVE  StoredInv'
<1>0. /\ DataType /\ CountersType /\ gate \in Gate /\ loc[t] \in Local
      /\ Place(t, pc[t], loc[t]) /\ pc[t] \in {"acquire", "release", "idle"}
      /\ UNCHANGED <<nvs, record>>
  BY DEF SafeInv, DataType, ControlInv, PlaceInv, AcquireStart, ReleaseStart, HostStartStop, medium
<1>1. ~Imposing(pc[t], loc[t])
  BY <1>0 DEF Place, Imposing
<1>2. CASE (Idle(t) \/ Goto(t, "quarantine")) /\ UNCHANGED gate
  BY <1>0, <1>1, <1>2, RecordGivesUp
<1>3. CASE UNCHANGED <<gate, pc, loc>>
  <2>1. Moves(t, pc[t], loc[t]) /\ pc[t] \in PC
    BY <1>0, <1>3 DEF Moves, DataType
  <2> QED
    BY <1>0, <1>1, <1>3, <2>1, RecordPlain DEF Imposing, SameMode
<1>4. ASSUME NEW op \in {"ACQUIRE", "RELEASE", "EJECT", "LOAD"},
             MayBegin(op, gate), gate' = Begun(op, gate),
             NEW l \in Local, Moves(t, "drain", l), l.op = op,
             op \in {"EJECT", "LOAD"} => l.managed = gate.managed
      PROVE  StoredInv'
  <2>1. /\ ~gate.transition_pending /\ ~gate.quarantined
        /\ gate'.transition_pending /\ gate'.managed = gate.managed /\ ~gate'.quarantined
    BY <1>0, <1>4 DEF MayBegin, Begun, Gate
  <2> QED
    BY <1>0, <1>4, <2>1, RecordBegins
<1>5. CASE AcquireStart(t)
  <2>1. CASE MayBegin("ACQUIRE", gate)
    <3> DEFINE l == [loc[t] EXCEPT !.lease = leases + 1]
    <3>1. leases + 1 \in Nat
      BY <1>0 DEF CountersType
    <3>2. l \in Local
      BY <1>0, <3>1, LocalTypes, Zenon
    <3>3. l.op = "ACQUIRE"
      BY <1>0, <1>5 DEF AcquireStart, Place, Local
    <3>4. Moves(t, "drain", l)
      BY <1>5, <2>1, EnterMoves DEF AcquireStart
    <3> HIDE DEF l
    <3> QED
      BY <1>4, <1>5, <2>1, <3>2, <3>3, <3>4 DEF AcquireStart
  <2>2. CASE ~MayBegin("ACQUIRE", gate)
    BY <1>2, <1>5, <2>2 DEF AcquireStart
  <2> QED
    BY <2>1, <2>2
<1>6. CASE ReleaseStart(t)
  <2>1. CASE MayBegin("RELEASE", gate) /\ gate' = Begun("RELEASE", gate) /\ Goto(t, "drain")
    <3>1. Moves(t, "drain", loc[t]) /\ loc[t].op = "RELEASE"
      BY <1>0, <1>6, <2>1, GotoMoves DEF PC, Place, ReleaseStart
    <3> QED
      BY <1>0, <1>4, <2>1, <3>1
  <2> QED
    BY <1>2, <1>6, <2>1 DEF ReleaseStart
<1>7. ASSUME t = "usb", NEW op \in {"EJECT", "LOAD"}, HostStartStop(op)
      PROVE  StoredInv'
  <2>1. CASE /\ MayBegin(op, gate) /\ gate' = Begun(op, gate)
             /\ Enter(t, "drain", [NoLocal EXCEPT !.op = op, !.managed = gate.managed])
    <3> DEFINE l == [NoLocal EXCEPT !.op = op, !.managed = gate.managed]
    <3>1. op \in Op /\ gate.managed \in BOOLEAN
      BY <1>0 DEF Op, Gate
    <3>2. l \in Local
      BY <1>0, <3>1, LocalTypes, Zenon
    <3>3. l.op = op /\ l.managed = gate.managed
      BY DEF NoLocal
    <3>4. Moves(t, "drain", l)
      BY <2>1, EnterMoves
    <3> HIDE DEF l
    <3> QED
      BY <1>4, <2>1, <3>2, <3>3, <3>4
  <2> QED
    BY <1>2, <1>3, <1>7, <2>1 DEF HostStartStop
<1> QED
  BY <1>5, <1>6, <1>7

LEMMA QuarantineRecord ==
  ASSUME SafeInv, StoredInv, NEW t \in Task, Quarantine(t) \/ SessionChanged(t)
  PROVE  StoredInv'
<1>0. /\ DataType /\ gate \in Gate /\ loc[t] \in Local /\ Place(t, pc[t], loc[t])
      /\ UNCHANGED <<nvs, record>>
  BY DEF SafeInv, DataType, ControlInv, PlaceInv, Quarantine, SessionChanged, medium
<1>1. CASE gate' = Quarantined(gate) /\ Enter(t, "store", [NoLocal EXCEPT !.op = "QUARANTINE"])
  <2> DEFINE l == [NoLocal EXCEPT !.op = "QUARANTINE"]
  <2>1. l \in Local /\ l.op = "QUARANTINE" /\ "store" \in PC
    BY LocalTypes, <1>0 DEF Op, NoLocal, PC
  <2>2. Moves(t, "store", l)
    BY <1>1, EnterMoves
  <2>3. gate'.quarantined
    BY <1>0, <1>1 DEF Quarantined, Gate
  <2> HIDE DEF l
  <2> QED
    BY <1>0, <2>1, <2>2, <2>3, RecordQuarantines DEF Imposing
<1>2. CASE pc[t] = "changed" /\ Idle(t) /\ UNCHANGED gate
  <2>1. ~Imposing(pc[t], loc[t])
    BY <1>0, <1>2 DEF Place, Imposing
  <2> QED
    BY <1>0, <1>2, <2>1, RecordGivesUp
<1> QED
  BY <1>1, <1>2 DEF Quarantine, SessionChanged

LEMMA DrainRecord ==
  ASSUME SafeInv, StoredInv, NEW t \in Task, Drain(t) \/ DrainTimeout(t) \/ Refresh(t)
  PROVE  StoredInv'
<1>0. /\ DataType /\ loc[t] \in Local /\ Place(t, pc[t], loc[t])
      /\ pc[t] \in {"drain", "handles", "refresh"} /\ UNCHANGED <<nvs, record, gate>>
  BY DEF SafeInv, ControlInv, PlaceInv, DataType, Drain, DrainTimeout, Refresh, medium
<1>1. PICK p \in {"drain", "handles", "refresh", "store", "finish", "quarantine"} :
        /\ Goto(t, p)
        /\ p = "store" => NeedsStore(t)
        /\ p = "finish" => ~NeedsStore(t)
  BY DEF Drain, DrainTimeout, Refresh
<1>2. p \in PC /\ Moves(t, p, loc[t])
  BY <1>0, <1>1, GotoMoves DEF PC
<1>3. loc[t].op # "QUARANTINE" /\ ~Imposing(pc[t], loc[t]) /\ Body(t)
  BY <1>0 DEF Place, Imposing, Body, BodyAt
<1> QED
  BY <1>0, <1>1, <1>2, <1>3, RecordKeeps DEF SameMode

LEMMA StoreTakeRecord ==
  ASSUME SafeInv, StoredInv, NEW t \in Task, StoreTake(t)
  PROVE  StoredInv'
<1>0. /\ DataType /\ loc[t] \in Local /\ pc[t] = "store" /\ UNCHANGED <<nvs, record, gate>>
  BY DEF SafeInv, DataType, StoreTake, medium
<1>1. CASE StoreAllowed(t) /\ Goto(t, "commit")
  <2>1. Moves(t, "commit", loc[t]) /\ "commit" \in PC
    BY <1>0, <1>1, GotoMoves DEF PC
  <2>2. BodyAt("commit", loc[t]) => Body(t)
    BY <1>0 DEF Body, BodyAt
  <2>3. BodyAt("commit", loc[t]) => ~gate.quarantined
    BY <1>1 DEF StoreAllowed, BodyAt
  <2>4. BodyAt("commit", loc[t]) => NeedsStore(t)
    BY <1>0, <2>2, <2>3 DEF StoredInv, TransitInv
  <2> QED
    BY <1>0, <2>1, <2>2, <2>3, <2>4, RecordKeeps DEF SameMode, Imposing
<1>2. CASE ~StoreAllowed(t) /\ StoreFails(t)
  <2>1. loc[t].op # "QUARANTINE"
    BY <1>2 DEF StoreAllowed, StoredInv, WrittenInv
  <2> QED
    BY <1>0, <1>2, <2>1, RecordGivesUp DEF StoreFails, Imposing
<1> QED
  BY <1>1, <1>2 DEF StoreTake

\* Only the task that holds the store lock writes.
LEMMA StoreCommitRecord ==
  ASSUME SafeInv, StoredInv, NEW t \in Task, StoreCommit(t)
  PROVE  StoredInv'
<1>0. /\ DataType /\ LockInv /\ loc[t] \in Local /\ pc[t] = "commit"
      /\ Place(t, pc[t], loc[t]) /\ UNCHANGED <<record, gate>> /\ nvs' \in {nvs, Target(t)}
  BY DEF SafeInv, ControlInv, PlaceInv, DataType, StoreCommit, medium
<1>1. PICK p \in {"storeCheck", "quarantine", "epoch", "idle"}, l \in {loc[t], NoLocal} :
        /\ Moves(t, p, l)
        /\ p = "storeCheck" => l = loc[t] /\ nvs' = Target(t)
        /\ p # "storeCheck" => NvsFails
        /\ p = "quarantine" => l = loc[t] /\ loc[t].op # "QUARANTINE"
        /\ p \in {"epoch", "idle"} => l = NoLocal
  <2>1. CASE nvs' = Target(t) /\ Goto(t, "storeCheck")
    BY <1>0, <2>1, GotoMoves DEF PC
  <2>2. CASE NvsFails /\ StoreFails(t)
    BY <1>0, <2>2, GotoMoves, IdleMoves DEF StoreFails, PC
  <2> QED
    BY <2>1, <2>2 DEF StoreCommit
<1>2. p \in PC /\ l \in Local /\ NoLocal.op = "NONE"
  BY <1>0, NoLocalType DEF PC, NoLocal
<1>3. /\ pc'[t] = p /\ loc'[t] = l
      /\ \A u \in Task \ {t} : pc'[u] = pc[u] /\ loc'[u] = loc[u]
  BY <1>0, <1>1, <1>2, MovesFacts
<1>4. WrittenInv'
  <2>1. \A u \in Task \ {t} : pc[u] # "storeCheck"
    BY <1>0, OneHolder DEF Holding
  <2>2. p = "storeCheck" => Target(t)' = Target(t)
    BY <1>1, <1>3 DEF Target
  <2> QED
    BY <1>0, <1>1, <1>2, <1>3, <2>1, <2>2 DEF WrittenInv, StoredInv
<1>5. TransitInv'
  <2> SUFFICES ASSUME NEW u \in Task, Body(u)', ~gate'.quarantined
               PROVE  /\ loc'[u].op \in {"EJECT", "LOAD"} => loc'[u].managed = gate'.managed
                      /\ IF NeedsStore(u)'
                         THEN pc'[u] = "finish" => nvs' = Target(u)' /\ record' = Target(u)'
                         ELSE nvs'.state = "HOST" /\ pc'[u] \notin {"store", "commit", "storeCheck"}
    BY DEF TransitInv
  <2>1. loc[t].op # "QUARANTINE"
    BY <1>0 DEF StoredInv, WrittenInv
  <2>2. Body(t)
    BY <1>0, <2>1 DEF Body, BodyAt
  <2>3. u = t
    <3>1. u # t => Body(u)
      BY <1>3 DEF Body
    <3> QED
      BY <2>2, <3>1 DEF SafeInv, ControlInv, BodyInv
  <2>4. p = "storeCheck" /\ l = loc[t]
    BY <1>1, <1>3, <2>3 DEF Body, BodyAt
  <2>5. NeedsStore(t) /\ (loc[t].op \in {"EJECT", "LOAD"} => loc[t].managed = gate.managed)
    BY <1>0, <2>2 DEF StoredInv, TransitInv
  <2>6. NeedsStore(t)'
    BY <1>3, <2>4, <2>5 DEF NeedsStore
  <2> QED
    BY <1>0, <1>3, <2>3, <2>4, <2>5, <2>6
<1>6. RestInv'
  <2>1. gate.transition_pending \/ gate.quarantined
    BY <1>0 DEF SafeInv, ControlInv, BodyInv, Body, BodyAt, StoredInv, WrittenInv
  <2> QED
    BY <1>0, <2>1 DEF RestInv
<1>7. ImposedInv'
  <2> SUFFICES ASSUME ~NvsFails, gate'.quarantined
               PROVE  \E u \in Task : Imposing(pc'[u], loc'[u])
    BY DEF ImposedInv
  <2>1. p = "storeCheck" /\ l = loc[t]
    BY <1>1
  <2>2. CASE loc[t].op = "QUARANTINE"
    BY <1>3, <2>1, <2>2 DEF Imposing
  <2>3. CASE loc[t].op # "QUARANTINE"
    <3>1. Body(t) /\ pc[t] \in Holding
      BY <1>0, <2>3 DEF Body, BodyAt, Holding
    <3>2. PICK w \in Task : Imposing(pc[w], loc[w])
      BY <1>0, <3>1 DEF StoredInv, ImposedInv
    <3>3. w # t
      BY <1>0, <2>3, <3>2 DEF Imposing
    <3> QED
      BY <1>3, <3>2, <3>3
  <2> QED
    BY <2>2, <2>3
<1> QED
  BY <1>4, <1>5, <1>6, <1>7 DEF StoredInv

LEMMA StoreCheckRecord ==
  ASSUME SafeInv, StoredInv, NEW t \in Task, StoreCheck(t)
  PROVE  StoredInv'
<1>0. /\ DataType /\ LockInv /\ loc[t] \in Local /\ pc[t] = "storeCheck" /\ nvs = Target(t)
      /\ Place(t, pc[t], loc[t]) /\ UNCHANGED <<nvs, gate>>
  BY DEF SafeInv, ControlInv, PlaceInv, DataType, StoreCheck, medium, StoredInv, WrittenInv
<1>1. CASE ~StillAllowed(t) /\ StoreFails(t) /\ UNCHANGED record
  <2>1. loc[t].op # "QUARANTINE"
    BY <1>1 DEF StillAllowed, StoredInv, WrittenInv
  <2> QED
    BY <1>0, <1>1, <2>1, RecordGivesUp DEF StoreFails, Imposing
<1>2. CASE StillAllowed(t) /\ record' = Target(t) /\ loc[t].op = "QUARANTINE" /\ Idle(t)
  <2>1. PICK p \in {"epoch", "idle"} : Moves(t, p, NoLocal)
    BY <1>2, IdleMoves
  <2>2. /\ pc'[t] = p /\ loc'[t] = NoLocal
        /\ \A u \in Task \ {t} : pc'[u] = pc[u] /\ loc'[u] = loc[u]
    <3>1. p \in PC
      BY DEF PC
    <3> QED
      BY <1>0, <2>1, <3>1, NoLocalType, MovesFacts
  <2>3. gate'.quarantined
    BY <1>0, <1>2 DEF StillAllowed
  <2>4. WrittenInv'
    BY <1>0, <2>2, <2>3 DEF WrittenInv, StoredInv, Target
  <2>5. TransitInv' /\ RestInv'
    BY <2>3 DEF TransitInv, RestInv
  <2>6. ImposedInv'
    <3>1. nvs'.state = "QUARANTINE"
      BY <1>0, <1>2 DEF Target, Plain
    <3>2. \A u \in Task : pc'[u] \notin Holding
      BY <1>0, <2>2, OneHolder DEF Holding
    <3> QED
      BY <3>1, <3>2 DEF ImposedInv
  <2> QED
    BY <2>4, <2>5, <2>6 DEF StoredInv
<1>3. CASE StillAllowed(t) /\ record' = Target(t) /\ loc[t].op # "QUARANTINE" /\ Goto(t, "finish")
  <2>1. /\ pc'[t] = "finish" /\ loc'[t] = loc[t]
        /\ \A u \in Task \ {t} : pc'[u] = pc[u] /\ loc'[u] = loc[u]
    <3>1. "finish" \in PC
      BY DEF PC
    <3> QED
      BY <1>0, <1>3, <3>1, GotoMoves, MovesFacts
  <2>2. Body(t) /\ ~gate.quarantined /\ gate.transition_pending
    BY <1>0, <1>3 DEF Body, BodyAt, StillAllowed
  <2>3. WrittenInv'
    BY <1>0, <2>1 DEF WrittenInv, StoredInv, Target
  <2>4. TransitInv'
    <3> SUFFICES ASSUME NEW u \in Task, Body(u)'
                 PROVE  /\ loc'[u].op \in {"EJECT", "LOAD"} => loc'[u].managed = gate'.managed
                        /\ IF NeedsStore(u)'
                           THEN pc'[u] = "finish" => nvs' = Target(u)' /\ record' = Target(u)'
                           ELSE nvs'.state = "HOST" /\ pc'[u] \notin {"store", "commit", "storeCheck"}
      BY DEF TransitInv
    <3>1. u = t
      <4>1. u # t => Body(u)
        BY <2>1 DEF Body
      <4> QED
        BY <2>2, <4>1 DEF SafeInv, ControlInv, BodyInv
    <3>2. NeedsStore(t) /\ (loc[t].op \in {"EJECT", "LOAD"} => loc[t].managed = gate.managed)
      BY <1>0, <2>2 DEF StoredInv, TransitInv
    <3>3. NeedsStore(t)' /\ Target(t)' = Target(t)
      BY <2>1, <3>2 DEF NeedsStore, Target
    <3> QED
      BY <1>0, <1>3, <2>1, <3>1, <3>2, <3>3
  <2>5. RestInv' /\ ImposedInv'
    BY <1>0, <2>2 DEF RestInv, ImposedInv
  <2> QED
    BY <2>3, <2>4, <2>5 DEF StoredInv
<1> QED
  BY <1>1, <1>2, <1>3 DEF StoreCheck

\* The transition that ends leaves the mode that NVS holds.
LEMMA FinishRecord ==
  ASSUME SafeInv, StoredInv, NEW t \in Task, Finish(t)
  PROVE  StoredInv'
<1>0. /\ DataType /\ gate \in Gate /\ loc[t] \in Local /\ Place(t, pc[t], loc[t])
      /\ pc[t] = "finish" /\ UNCHANGED <<nvs, record>>
  BY DEF SafeInv, DataType, ControlInv, PlaceInv, Finish, medium
<1>1. /\ loc[t].op \in {"ACQUIRE", "RELEASE", "EJECT", "LOAD"}
      /\ Body(t) /\ ~Imposing(pc[t], loc[t])
  BY <1>0 DEF Place, Body, BodyAt, Imposing
<1>2. CASE Goto(t, "quarantine") /\ UNCHANGED gate
  BY <1>0, <1>1, <1>2, RecordGivesUp
<1>3. CASE MayFinish(loc[t].op, gate) /\ gate' = Finished(loc[t].op, gate) /\ Idle(t)
  <2>1. PICK p \in {"epoch", "idle"} : Moves(t, p, NoLocal)
    BY <1>3, IdleMoves
  <2>2. /\ pc'[t] = p /\ loc'[t] = NoLocal /\ NoLocal.op = "NONE"
        /\ \A u \in Task \ {t} : pc'[u] = pc[u] /\ loc'[u] = loc[u]
    <3>1. p \in PC
      BY DEF PC
    <3> QED
      BY <1>0, <2>1, <3>1, NoLocalType, MovesFacts DEF NoLocal
  <2>3. /\ gate'.quarantined = gate.quarantined
        /\ gate'.lease_held = (loc[t].op = "ACQUIRE" \/ (gate.lease_held /\ loc[t].op # "RELEASE"))
        /\ gate'.handoff_ready = (loc[t].op \in {"EJECT", "RELEASE"})
        /\ gate'.managed = (gate.managed \/ loc[t].op \in {"ACQUIRE", "RELEASE"})
        /\ gate'.ejected = (loc[t].op # "LOAD")
    BY <1>0, <1>3 DEF Finished, Gate
  <2>4. WrittenInv'
    BY <1>0, <2>2, <2>3 DEF WrittenInv, StoredInv, Target
  <2>5. TransitInv'
    <3>1. \A u \in Task : ~Body(u)'
      BY <1>1, <2>2 DEF Body, BodyAt, SafeInv, ControlInv, BodyInv
    <3> QED
      BY <3>1 DEF TransitInv
  <2>6. RestInv'
    <3> SUFFICES ASSUME ~gate'.quarantined
                 PROVE  IF ~gate'.managed THEN nvs.state = "HOST"
                        ELSE IF gate'.lease_held THEN nvs.state = "LEASED" /\ nvs = record
                        ELSE IF gate'.handoff_ready THEN nvs.state = "HANDOFF"
                        ELSE nvs.state = "MANAGED_HOST" /\ ~gate'.ejected
      BY <1>0 DEF RestInv
    <3>1. /\ loc[t].op \in {"EJECT", "LOAD"} => loc[t].managed = gate.managed /\ ~gate.lease_held
          /\ NeedsStore(t) => nvs = Target(t) /\ record = Target(t)
          /\ ~NeedsStore(t) => nvs.state = "HOST"
      BY <1>0, <1>1, <1>3, <2>3 DEF StoredInv, TransitInv, MayFinish
    <3>2. CASE loc[t].op = "ACQUIRE"
      <4>1. nvs.state = "LEASED" /\ nvs = record
        BY <3>1, <3>2 DEF NeedsStore, Target
      <4>2. gate'.managed /\ gate'.lease_held
        BY <2>3, <3>2
      <4> QED
        BY <4>1, <4>2
    <3>3. CASE loc[t].op = "RELEASE"
      <4>1. nvs.state = "HANDOFF"
        BY <3>1, <3>3 DEF NeedsStore, Target, Plain
      <4>2. gate'.managed /\ ~gate'.lease_held /\ gate'.handoff_ready
        BY <2>3, <3>3
      <4> QED
        BY <4>1, <4>2
    <3>4. CASE loc[t].op = "EJECT"
      <4>1. IF loc[t].managed THEN nvs.state = "HANDOFF" ELSE nvs.state = "HOST"
        BY <3>1, <3>4 DEF NeedsStore, Target, Plain
      <4>2. (gate'.managed <=> loc[t].managed) /\ ~gate'.lease_held /\ gate'.handoff_ready
        BY <2>3, <3>1, <3>4
      <4> QED
        BY <4>1, <4>2
    <3>5. CASE loc[t].op = "LOAD"
      <4>1. IF loc[t].managed THEN nvs.state = "MANAGED_HOST" ELSE nvs.state = "HOST"
        BY <3>1, <3>5 DEF NeedsStore, Target, Plain
      <4>2. /\ gate'.managed <=> loc[t].managed
            /\ ~gate'.lease_held /\ ~gate'.handoff_ready /\ ~gate'.ejected
        BY <2>3, <3>1, <3>5
      <4> QED
        BY <4>1, <4>2
    <3> QED
      BY <1>1, <3>2, <3>3, <3>4, <3>5
  <2>7. ImposedInv'
    <3> SUFFICES ASSUME ~NvsFails, gate'.quarantined,
                        \/ nvs'.state \notin {"LEASED", "QUARANTINE"}
                        \/ \E u \in Task : Body(u)' /\ pc'[u] \in Holding
                 PROVE  \E u \in Task : Imposing(pc'[u], loc'[u])
      BY DEF ImposedInv
    <3>1. ASSUME NEW u \in Task, Body(u)' PROVE Body(u) /\ pc'[u] = pc[u]
      BY <2>2, <3>1 DEF Body, BodyAt
    <3>2. PICK w \in Task : Imposing(pc[w], loc[w])
      BY <1>0, <2>3, <3>1 DEF StoredInv, ImposedInv
    <3> QED
      BY <1>1, <2>2, <3>2
  <2> QED
    BY <2>4, <2>5, <2>6, <2>7 DEF StoredInv
<1> QED
  BY <1>2, <1>3 DEF Finish

LEMMA GateInitFacts ==
  ASSUME NEW a \in BOOLEAN, NEW b \in BOOLEAN
  PROVE  /\ GateInit(a, b).managed <=> a \/ b
         /\ GateInit(a, b).ejected <=> a \/ b
         /\ GateInit(a, b).quarantined <=> a
         /\ GateInit(a, b).handoff_ready <=> b
  BY DEF GateInit

\* What a start makes of each record.
LEMMA RecoveredGate ==
  ASSUME NEW r
  PROVE  /\ r.state = "HOST" => ~Recovered(r).managed /\ ~Recovered(r).quarantined
         /\ r.state = "MANAGED_HOST" =>
              /\ Recovered(r).managed /\ ~Recovered(r).quarantined
              /\ ~Recovered(r).handoff_ready /\ ~Recovered(r).ejected
         /\ r.state = "HANDOFF" =>
              /\ Recovered(r).managed /\ ~Recovered(r).quarantined
              /\ Recovered(r).handoff_ready /\ Recovered(r).ejected
         /\ r.state \notin {"HOST", "MANAGED_HOST", "HANDOFF"} => Recovered(r).quarantined
         /\ ~Recovered(r).transition_pending /\ ~Recovered(r).lease_held
<1>1. CASE r.state = "HOST"
  <2>1. Recovered(r) = GateInit(FALSE, FALSE)
    BY <1>1 DEF Recovered
  <2>2. ~Recovered(r).managed /\ ~Recovered(r).quarantined
    BY <2>1, GateInitFacts
  <2>3. ~Recovered(r).transition_pending /\ ~Recovered(r).lease_held
    BY <2>1 DEF GateInit
  <2> QED
    BY <1>1, <2>2, <2>3
<1>2. CASE r.state = "MANAGED_HOST"
  <2>1. Recovered(r) = [GateInit(FALSE, FALSE) EXCEPT !.managed = TRUE]
    BY <1>2 DEF Recovered
  <2> QED
    BY <1>2, <2>1 DEF GateInit
<1>3. CASE r.state = "HANDOFF"
  <2>1. Recovered(r) = GateInit(FALSE, TRUE)
    BY <1>3 DEF Recovered
  <2>2. /\ Recovered(r).managed /\ ~Recovered(r).quarantined
        /\ Recovered(r).handoff_ready /\ Recovered(r).ejected
    BY <2>1, GateInitFacts
  <2>3. ~Recovered(r).transition_pending /\ ~Recovered(r).lease_held
    BY <2>1 DEF GateInit
  <2> QED
    BY <1>3, <2>2, <2>3
<1>4. CASE r.state \notin {"HOST", "MANAGED_HOST", "HANDOFF"}
  <2>1. Recovered(r) = GateInit(TRUE, FALSE)
    BY <1>4 DEF Recovered
  <2> QED
    BY <1>4, <2>1 DEF GateInit
<1> QED
  BY <1>1, <1>2, <1>3, <1>4

LEMMA InitRecord == ASSUME Init PROVE StoredInv
<1>1. /\ \A t \in Task : pc[t] = "idle" /\ loc[t].op = "NONE"
      /\ nvs.state = "HOST" /\ ~gate.quarantined /\ ~gate.managed
  BY RecoveredGate DEF Init, NoLocal, Plain
<1>2. WrittenInv /\ TransitInv
  BY <1>1 DEF WrittenInv, TransitInv, Body, BodyAt
<1> QED
  BY <1>1, <1>2 DEF StoredInv, RestInv, ImposedInv

LEMMA CrashRecord == ASSUME SafeInv, StoredInv, Crash PROVE StoredInv'
<1>1. /\ \A t \in Task : pc'[t] = "idle" /\ loc'[t].op = "NONE"
      /\ nvs' = nvs /\ nvs \in Record
  BY DEF Crash, NoLocal, SafeInv, DataType
<1>2. WrittenInv' /\ TransitInv'
  BY <1>1 DEF WrittenInv, TransitInv, Body, BodyAt
<1>3. nvs.state \in {"HOST", "HANDOFF", "LEASED", "QUARANTINE", "MANAGED_HOST"}
  BY <1>1 DEF Record, PersistState
<1>4. \A t \in Task : ~Body(t)'
  BY <1>1 DEF Body, BodyAt
<1>5. CASE gate' = Recovered(nvs) /\ record' = nvs
  <2>1. RestInv'
    BY <1>1, <1>3, <1>5, RecoveredGate DEF RestInv
  <2>2. ImposedInv'
    BY <1>1, <1>3, <1>4, <1>5, RecoveredGate DEF ImposedInv
  <2> QED
    BY <1>2, <2>1, <2>2 DEF StoredInv
<1>6. CASE NvsFails /\ gate' = GateInit(TRUE, FALSE)
  <2>1. gate'.quarantined
    BY <1>6 DEF GateInit
  <2> QED
    BY <1>2, <1>6, <2>1 DEF StoredInv, RestInv, ImposedInv
<1> QED
  BY <1>5, <1>6 DEF Crash

LEMMA StutterRecord == ASSUME StoredInv, UNCHANGED vars PROVE StoredInv'
<1>1. UNCHANGED <<gate, record, nvs, pc, loc>>
  BY DEF vars
<1> QED
  BY <1>1 DEF StoredInv, WrittenInv, TransitInv, RestInv, ImposedInv, Body, Target, NeedsStore

LEMMA RecordStep == ASSUME SafeInv, StoredInv, Next PROVE StoredInv'
<1>0. "usb" \in Task
  BY TaskFacts
<1>1. ASSUME NEW t \in Task,
             \/ Continue(t) \/ DrainTimeout(t)
             \/ AcquireRequest(t) \/ ReleaseRequest(t)
             \/ VfsBegin(t) \/ VfsFinish(t)
             \/ SessionTransition(t) \/ CallbackCheck(t) \/ SessionChanged(t)
      PROVE  StoredInv'
  BY <1>1, BeginRecord, DrainRecord, StoreTakeRecord, StoreCommitRecord, StoreCheckRecord,
     FinishRecord, QuarantineRecord, RequestRecord DEF Continue
<1>2. CASE \E op \in {"EJECT", "LOAD"} : HostStartStop(op)
  BY <1>0, <1>2, BeginRecord
<1>3. CASE \/ \E writing \in BOOLEAN : HostIoBegin(writing)
           \/ HostIoFinish \/ HostSyncBegin \/ HostWriteComplete
  BY <1>3, UsbRecord
<1>4. CASE VfsOpened \/ VfsClose \/ VmResetBegin \/ VmEpochAdvance
  BY <1>4, VmRecord
<1>5. CASE Crash
  BY <1>5, CrashRecord
<1> QED
  BY <1>1, <1>2, <1>3, <1>4, <1>5 DEF Next

THEOREM StoredCorrect == Spec => [](SafeInv /\ StoredInv)
<1>1. Init => SafeInv /\ StoredInv
  BY InitSafe, InitRecord
<1>2. (SafeInv /\ StoredInv) /\ [Next]_vars => (SafeInv /\ StoredInv)'
  BY SafeStep, RecordStep, StutterStep, StutterRecord
<1> QED
  BY <1>1, <1>2, PTL DEF Spec

\* A power failure at rest recovers the mode in force, and one after a quarantine
\* finds the quarantine, unless a task is still about to record it.
THEOREM RecordCorrect == Spec => []RecordInv
<1>1. SafeInv /\ StoredInv => RecordInv
  <2> SUFFICES ASSUME SafeInv, StoredInv PROVE RecordInv
    OBVIOUS
  <2>0. /\ gate \in Gate /\ nvs \in Record /\ RestInv /\ ImposedInv /\ ModeInv
        /\ nvs.state \in {"HOST", "HANDOFF", "LEASED", "QUARANTINE", "MANAGED_HOST"}
    BY DEF SafeInv, StoredInv, DataType, ControlInv, Record, PersistState
  <2>1. RecoveryAgrees
    <3> SUFFICES ASSUME ~gate.transition_pending, ~gate.quarantined
                 PROVE  IF gate.lease_held THEN Recovered(nvs).quarantined /\ nvs = record
                        ELSE /\ ~Recovered(nvs).quarantined
                             /\ Recovered(nvs).managed = gate.managed
                             /\ gate.managed =>
                                  /\ HostWritable(Recovered(nvs)) = HostWritable(gate)
                                  /\ PythonIoAllowed(Recovered(nvs)) = PythonIoAllowed(gate)
      BY DEF RecoveryAgrees
    <3>1. CASE ~gate.managed
      <4>1. nvs.state = "HOST" /\ ~gate.lease_held
        BY <2>0, <3>1 DEF RestInv, ModeInv
      <4>2. Recovered(nvs).managed = FALSE
        BY <4>1 DEF Recovered, GateInit
      <4>3. gate.managed = FALSE
        BY <2>0, <3>1 DEF Gate
      <4> QED
        BY <4>1, <4>2, <4>3, RecoveredGate
    <3>2. CASE gate.managed /\ gate.lease_held
      BY <2>0, <3>2, RecoveredGate DEF RestInv
    <3>3. CASE gate.managed /\ ~gate.lease_held
      <4>1. nvs.state = IF gate.handoff_ready THEN "HANDOFF" ELSE "MANAGED_HOST"
        BY <2>0, <3>3 DEF RestInv
      <4>2. gate.ejected = gate.handoff_ready
        BY <2>0, <3>3 DEF RestInv, ModeInv, Gate
      <4>3. nvs \in Record /\ Recovered(nvs) \in Gate
        BY <2>0, RecoveredType
      <4>4. /\ ~Recovered(nvs).quarantined /\ Recovered(nvs).managed = gate.managed
            /\ ~Recovered(nvs).transition_pending /\ ~Recovered(nvs).lease_held
            /\ Recovered(nvs).ejected = gate.ejected
            /\ Recovered(nvs).handoff_ready = gate.handoff_ready
        BY <2>0, <3>3, <4>1, <4>2, <4>3, RecoveredGate DEF Gate
      <4>5. HostWritable(Recovered(nvs)) = HostWritable(gate)
        BY <3>3, <4>4 DEF HostWritable, HostLoadAllowed
      <4>6. PythonIoAllowed(Recovered(nvs)) = PythonIoAllowed(gate)
        BY <3>3, <4>4 DEF PythonIoAllowed
      <4> QED
        BY <3>3, <4>4, <4>5, <4>6
    <3> QED
      BY <3>1, <3>2, <3>3
  <2>2. QuarantineIsStored
    <3>1. nvs.state \in {"LEASED", "QUARANTINE"} => Recovered(nvs).quarantined
      BY RecoveredGate
    <3> QED
      BY <2>0, <3>1 DEF QuarantineIsStored, ImposedInv, Imposing
  <2> QED
    BY <2>1, <2>2 DEF RecordInv
<1> QED
  BY <1>1, StoredCorrect, PTL

\* In particular what a start recovers is the mode in force, whether or not an
\* NVS write may fail.
THEOREM RecoveryCorrect == Spec => []RecoveryAgrees
<1>1. RecordInv => RecoveryAgrees
  BY DEF RecordInv
<1> QED
  BY <1>1, RecordCorrect, PTL

(***************************************************************************)
(* The hand-over of a volume: StorageWriter implements VolumeWriter.       *)
(***************************************************************************)
\* Whatever transition is under way, NVS holds no record of a mode that the volume
\* never had, and only the release of a lease begins with one.
KeptInv ==
  /\ ~gate.quarantined =>
       /\ gate.managed => nvs.state # "HOST"
       /\ gate.lease_held => nvs.state # "MANAGED_HOST"
       /\ ~gate.managed => nvs.state \notin {"HANDOFF", "MANAGED_HOST"}
  /\ \A t \in Task : Body(t) /\ ~gate.quarantined => (loc[t].op = "RELEASE" <=> gate.lease_held)

HandStep == KeptInv' /\ [Volume!Next]_(Volume!vars)

LEMMA Moved ==
  ASSUME DataType, NEW t \in Task, NEW p, NEW l, Moves(t, p, l)
  PROVE  /\ pc'[t] = p /\ loc'[t] = l
         /\ \A u \in Task \ {t} : pc'[u] = pc[u] /\ loc'[u] = loc[u]
  BY DEF DataType, Moves

LEMMA GotoMoved ==
  ASSUME DataType, NEW t \in Task, NEW p, Goto(t, p)
  PROVE  Moves(t, p, loc[t])
  BY DEF DataType, Goto, Moves

LEMMA KeptKeeps ==
  ASSUME DataType, KeptInv, NEW t \in Task, NEW p, NEW l, Moves(t, p, l), nvs' = nvs,
         gate'.quarantined = gate.quarantined,
         gate'.managed = gate.managed, gate'.lease_held = gate.lease_held,
         BodyAt(p, l) =>
           (Body(t) /\ l.op = loc[t].op) \/ (l.op = "RELEASE" <=> gate.lease_held)
  PROVE  KeptInv'
<1>1. ASSUME NEW u \in Task, Body(u)', ~gate'.quarantined
      PROVE  loc'[u].op = "RELEASE" <=> gate'.lease_held
  BY <1>1, Moved DEF KeptInv, Body
<1> QED
  BY <1>1 DEF KeptInv

LEMMA KeptQuarantined == ASSUME gate'.quarantined PROVE KeptInv'
  BY DEF KeptInv

(***************************************************************************)
(* Steps of the volume.                                                    *)
(***************************************************************************)
SameGate == SameMode /\ gate'.transition_pending = gate.transition_pending

LEMMA VolumeKeeps ==
  ASSUME SameGate
  PROVE  VolumeMode' = VolumeMode /\ Allowed' = Allowed
  BY DEF SameGate, SameMode, VolumeMode, Allowed, HostWritable, HostLoadAllowed, PythonIoAllowed

LEMMA VolumeStutters ==
  ASSUME VolumeMode' = VolumeMode, Allowed' = Allowed, Busy' = Busy
  PROVE  [Volume!Next]_(Volume!vars)
  BY DEF Volume!vars

\* A task at rest or in a transition, before and after, uses the volume on neither side.
LEMMA BusyStays ==
  ASSUME DataType, NEW t \in Task, NEW p, NEW l, Moves(t, p, l),
         pc[t] \notin Flight \cup {"sync"}, p \notin Flight \cup {"sync"},
         UNCHANGED handles, gate'.pending_write_sync = gate.pending_write_sync
  PROVE  Busy' = Busy
<1>1. HostActive' <=> HostActive
  BY Moved, TaskFacts DEF HostActive, Flight
<1>2. DeviceActive' <=> DeviceActive
  BY Moved, TaskFacts DEF DeviceActive, Flight
<1> QED
  BY <1>1, <1>2 DEF Busy

LEMMA HostUses ==
  ASSUME SameGate, DeviceActive' <=> DeviceActive,
         HostActive' => HostActive \/ HostWritable(gate)
  PROVE  [Volume!Next]_(Volume!vars)
<1>0. VolumeMode' = VolumeMode /\ Allowed' = Allowed
  BY VolumeKeeps
<1>1. CASE HostActive' <=> HostActive
  <2>1. Busy' = Busy
    BY <1>1 DEF Busy
  <2> QED
    BY <1>0, <2>1, VolumeStutters
<1>2. CASE ~HostActive' /\ HostActive
  <2>1. Busy' = Busy \ {"host"}
    BY <1>2 DEF Busy
  <2>2. Volume!End("host")
    BY <1>0, <2>1 DEF Volume!End
  <2> QED
    BY <2>2 DEF Volume!Next, Volume!Writers, Volume!Host
<1>3. CASE HostActive' /\ ~HostActive
  <2>1. Busy' = Busy \cup {"host"} /\ "host" \in Allowed
    BY <1>3 DEF Busy, Allowed
  <2>2. Volume!Begin("host")
    BY <1>0, <2>1 DEF Volume!Begin
  <2> QED
    BY <2>2 DEF Volume!Next, Volume!Writers, Volume!Host
<1> QED
  BY <1>1, <1>2, <1>3

LEMMA DeviceUses ==
  ASSUME SameGate, HostActive' <=> HostActive,
         DeviceActive' => DeviceActive \/ PythonIoAllowed(gate)
  PROVE  [Volume!Next]_(Volume!vars)
<1>0. VolumeMode' = VolumeMode /\ Allowed' = Allowed
  BY VolumeKeeps
<1>1. CASE DeviceActive' <=> DeviceActive
  <2>1. Busy' = Busy
    BY <1>1 DEF Busy
  <2> QED
    BY <1>0, <2>1, VolumeStutters
<1>2. CASE ~DeviceActive' /\ DeviceActive
  <2>1. Busy' = Busy \ {"device"}
    BY <1>2 DEF Busy
  <2>2. Volume!End("device")
    BY <1>0, <2>1 DEF Volume!End
  <2> QED
    BY <2>2 DEF Volume!Next, Volume!Writers, Volume!Device
<1>3. CASE DeviceActive' /\ ~DeviceActive
  <2>1. Busy' = Busy \cup {"device"} /\ "device" \in Allowed
    BY <1>3 DEF Busy, Allowed
  <2>2. Volume!Begin("device")
    BY <1>0, <2>1 DEF Volume!Begin
  <2> QED
    BY <2>2 DEF Volume!Next, Volume!Writers, Volume!Device
<1> QED
  BY <1>1, <1>2, <1>3

\* Neither side begins or ends to use the volume, and the gate is left alone.
LEMMA PlainHand ==
  ASSUME SafeInv, KeptInv, NEW t \in Task, NEW p, NEW l, Moves(t, p, l),
         pc[t] \notin Flight \cup {"sync"}, p \notin Flight \cup {"sync"},
         BodyAt(p, l) => Body(t) /\ l.op = loc[t].op,
         UNCHANGED <<gate, nvs, handles>>
  PROVE  HandStep
<1>0. DataType /\ SameGate
  BY DEF SafeInv, SameGate, SameMode
<1>1. KeptInv'
  BY <1>0, KeptKeeps
<1>2. Busy' = Busy
  BY <1>0, BusyStays
<1> QED
  BY <1>0, <1>1, <1>2, VolumeKeeps, VolumeStutters DEF HandStep

LEMMA QuarantineHand ==
  ASSUME gate'.quarantined, Busy' = Busy
  PROVE  HandStep
<1>1. VolumeMode' = "quarantined" /\ Allowed' = {}
  BY DEF VolumeMode, Allowed, HostWritable, HostLoadAllowed, PythonIoAllowed
<1>2. Volume!Quarantine
  BY <1>1 DEF Volume!Quarantine
<1> QED
  BY <1>2, KeptQuarantined DEF HandStep, Volume!Next

\* A transition that begins closes the volume to both.
LEMMA CloseHand ==
  ASSUME SafeInv, KeptInv, NEW t \in Task, NEW op \in {"ACQUIRE", "RELEASE", "EJECT", "LOAD"},
         NEW l, Moves(t, "drain", l), l.op = op, pc[t] \notin Flight \cup {"sync"},
         MayBegin(op, gate), gate' = Begun(op, gate), UNCHANGED <<nvs, handles>>
  PROVE  HandStep
<1>0. DataType /\ gate \in Gate
  BY DEF SafeInv, DataType
<1>1. /\ gate'.transition_pending
      /\ gate'.quarantined = gate.quarantined /\ gate'.managed = gate.managed
      /\ gate'.lease_held = gate.lease_held
      /\ gate'.pending_write_sync = gate.pending_write_sync
  BY <1>0 DEF Begun, Gate
<1>2. op = "RELEASE" <=> gate.lease_held
  BY DEF MayBegin
<1>3. KeptInv'
  BY <1>0, <1>1, <1>2, KeptKeeps
<1>4. Busy' = Busy
  <2>1. "drain" \notin Flight \cup {"sync"}
    BY DEF Flight
  <2> QED
    BY <1>0, <1>1, <2>1, BusyStays
<1>5. VolumeMode' = VolumeMode
  BY <1>1 DEF VolumeMode
<1>6. Allowed' = {}
  BY <1>1 DEF Allowed, HostWritable, HostLoadAllowed, PythonIoAllowed
<1>7. Volume!Close
  BY <1>4, <1>5, <1>6 DEF Volume!Close
<1> QED
  BY <1>3, <1>7 DEF HandStep, Volume!Next

\* The steps of a task that waits for nothing of the volume.
LEMMA RequestHand ==
  ASSUME SafeInv, KeptInv, NEW t \in Task,
         AcquireRequest(t) \/ ReleaseRequest(t) \/ SessionTransition(t) \/ CallbackCheck(t)
  PROVE  HandStep
<1>0. /\ DataType /\ pc[t] \in {"idle", "callback"} /\ UNCHANGED <<gate, nvs, handles>>
  BY DEF SafeInv, AcquireRequest, ReleaseRequest, SessionTransition, CallbackCheck, medium
<1>1. \E p \in {"acquire", "release", "callback", "changed", "epoch", "idle"} :
        \E l : Moves(t, p, l)
  BY <1>0, EnterMoves, GotoMoved, IdleMoves
     DEF AcquireRequest, ReleaseRequest, SessionTransition, CallbackCheck
<1> QED
  BY <1>0, <1>1, PlainHand DEF Flight, BodyAt

LEMMA ResetHand ==
  ASSUME SafeInv, KeptInv, VmResetBegin \/ VmEpochAdvance
  PROVE  HandStep
<1>0. /\ DataType /\ pc["vm"] \in {"idle", "epoch"} /\ UNCHANGED <<gate, nvs, handles>>
      /\ "vm" \in Task
  BY TaskFacts DEF SafeInv, VmResetBegin, VmEpochAdvance
<1>1. \E p \in {"changed", "idle"} : \E l : Moves("vm", p, l)
  BY <1>0, EnterMoves, GotoMoved DEF VmResetBegin, VmEpochAdvance
<1> QED
  BY <1>0, <1>1, PlainHand DEF Flight, BodyAt

\* A refused request, or a task on its way to quarantine.
LEMMA GivesUpHand ==
  ASSUME SafeInv, KeptInv, NEW t \in Task, pc[t] \notin Flight \cup {"sync"},
         Idle(t) \/ Goto(t, "quarantine"), UNCHANGED <<gate, nvs, handles>>
  PROVE  HandStep
<1>0. DataType
  BY DEF SafeInv
<1>1. \E p \in {"epoch", "idle", "quarantine"} : \E l : Moves(t, p, l)
  BY <1>0, GotoMoved, IdleMoves
<1> QED
  BY <1>1, PlainHand DEF Flight, BodyAt

LEMMA BeginHand ==
  ASSUME SafeInv, KeptInv, NEW t \in Task,
         \/ AcquireStart(t) \/ ReleaseStart(t)
         \/ t = "usb" /\ \E op \in {"EJECT", "LOAD"} : HostStartStop(op)
  PROVE  HandStep
<1>0. /\ DataType /\ loc[t] \in Local /\ Place(t, pc[t], loc[t])
      /\ pc[t] \in {"acquire", "release", "idle"} /\ UNCHANGED <<nvs, handles>>
  BY DEF SafeInv, DataType, ControlInv, PlaceInv, AcquireStart, ReleaseStart, HostStartStop, medium
<1>1. pc[t] \notin Flight \cup {"sync"}
  BY <1>0 DEF Flight
<1>2. CASE (Idle(t) \/ Goto(t, "quarantine")) /\ UNCHANGED gate
  BY <1>0, <1>1, <1>2, GivesUpHand
<1>3. CASE UNCHANGED <<gate, pc, loc>>
  <2>1. Moves(t, pc[t], loc[t])
    BY <1>0, <1>3 DEF Moves, DataType
  <2> QED
    BY <1>0, <1>1, <1>3, <2>1, PlainHand DEF Body
<1>4. CASE AcquireStart(t)
  <2>1. CASE MayBegin("ACQUIRE", gate)
    <3> DEFINE l == [loc[t] EXCEPT !.lease = leases + 1]
    <3>1. l.op = "ACQUIRE"
      BY <1>0, <1>4 DEF AcquireStart, Place, Local
    <3>2. Moves(t, "drain", l) /\ gate' = Begun("ACQUIRE", gate)
      BY <1>4, <2>1, EnterMoves DEF AcquireStart
    <3> HIDE DEF l
    <3> QED
      BY <1>0, <1>1, <2>1, <3>1, <3>2, CloseHand
  <2> QED
    BY <1>2, <1>4, <2>1 DEF AcquireStart
<1>5. CASE ReleaseStart(t)
  <2>1. CASE MayBegin("RELEASE", gate) /\ gate' = Begun("RELEASE", gate) /\ Goto(t, "drain")
    <3>1. Moves(t, "drain", loc[t]) /\ loc[t].op = "RELEASE"
      BY <1>0, <1>5, <2>1, GotoMoved DEF Place, ReleaseStart
    <3> QED
      BY <1>0, <1>1, <2>1, <3>1, CloseHand
  <2> QED
    BY <1>2, <1>5, <2>1 DEF ReleaseStart
<1>6. ASSUME t = "usb", NEW op \in {"EJECT", "LOAD"}, HostStartStop(op)
      PROVE  HandStep
  <2>1. CASE /\ MayBegin(op, gate) /\ gate' = Begun(op, gate)
             /\ Enter(t, "drain", [NoLocal EXCEPT !.op = op, !.managed = gate.managed])
    <3> DEFINE l == [NoLocal EXCEPT !.op = op, !.managed = gate.managed]
    <3>1. l.op = op
      BY DEF NoLocal
    <3>2. Moves(t, "drain", l)
      BY <2>1, EnterMoves
    <3> HIDE DEF l
    <3> QED
      BY <1>0, <1>1, <2>1, <3>1, <3>2, CloseHand
  <2> QED
    BY <1>2, <1>3, <1>6, <2>1 DEF HostStartStop
<1> QED
  BY <1>4, <1>5, <1>6

LEMMA DrainHand ==
  ASSUME SafeInv, KeptInv, NEW t \in Task, Drain(t) \/ DrainTimeout(t) \/ Refresh(t)
  PROVE  HandStep
<1>0. /\ DataType /\ Place(t, pc[t], loc[t]) /\ pc[t] \in {"drain", "handles", "refresh"}
      /\ UNCHANGED <<gate, nvs, handles>>
  BY DEF SafeInv, ControlInv, PlaceInv, Drain, DrainTimeout, Refresh, medium
<1>1. \E p \in {"drain", "handles", "refresh", "store", "finish", "quarantine"} :
        Moves(t, p, loc[t])
  BY <1>0, GotoMoved DEF Drain, DrainTimeout, Refresh
<1>2. Body(t)
  BY <1>0 DEF Place, Body, BodyAt
<1> QED
  BY <1>0, <1>1, <1>2, PlainHand DEF Flight

\* The store lock is taken, or the record made known; what is written is fit.
LEMMA StoreHand ==
  ASSUME SafeInv, KeptInv, NEW t \in Task, StoreTake(t) \/ StoreCheck(t)
  PROVE  HandStep
<1>0. /\ DataType /\ pc[t] \in {"store", "storeCheck"} /\ UNCHANGED <<gate, nvs, handles>>
  BY DEF SafeInv, StoreTake, StoreCheck, medium
<1>1. pc[t] \notin Flight \cup {"sync"}
  BY <1>0 DEF Flight
<1>2. CASE Idle(t) \/ Goto(t, "quarantine")
  BY <1>0, <1>1, <1>2, GivesUpHand
<1>3. CASE Goto(t, "commit") \/ Goto(t, "finish")
  <2>1. \E p \in {"commit", "finish"} : Moves(t, p, loc[t])
    BY <1>0, <1>3, GotoMoved
  <2>2. loc[t].op # "QUARANTINE" => Body(t)
    BY <1>0 DEF Body, BodyAt
  <2> QED
    BY <1>0, <1>1, <2>1, <2>2, PlainHand DEF Flight, BodyAt
<1> QED
  BY <1>2, <1>3 DEF StoreTake, StoreCheck, StoreFails

LEMMA CommitHand ==
  ASSUME SafeInv, StoredInv, KeptInv, NEW t \in Task, StoreCommit(t)
  PROVE  HandStep
<1>0. /\ DataType /\ pc[t] = "commit" /\ Place(t, pc[t], loc[t])
      /\ UNCHANGED <<gate, handles>> /\ nvs' \in {nvs, Target(t)} /\ ModeInv
      /\ loc[t].op \in Op
  BY DEF SafeInv, ControlInv, PlaceInv, DataType, Local, StoreCommit, medium
<1>1. PICK p \in {"storeCheck", "quarantine", "epoch", "idle"} : \E l : Moves(t, p, l)
                                              /\ (p = "storeCheck" => l = loc[t])
  BY <1>0, GotoMoved, IdleMoves DEF StoreCommit, StoreFails
<1>2. PICK l : Moves(t, p, l) /\ (p = "storeCheck" => l = loc[t])
  BY <1>1
<1>3. /\ pc'[t] = p /\ loc'[t] = l
      /\ \A u \in Task \ {t} : pc'[u] = pc[u] /\ loc'[u] = loc[u]
  BY <1>0, <1>2, Moved
<1>4. Busy' = Busy
  <2>1. pc[t] \notin Flight \cup {"sync"} /\ p \notin Flight \cup {"sync"}
    BY <1>0, <1>1 DEF Flight
  <2> QED
    BY <1>0, <1>2, <2>1, BusyStays
<1>5. SameGate
  BY <1>0 DEF SameGate, SameMode
<1>6. KeptInv'
  <2> SUFFICES ASSUME ~gate.quarantined PROVE KeptInv'
    BY <1>0 DEF KeptInv
  <2>1. Body(t)
    BY <1>0 DEF Body, BodyAt, StoredInv, WrittenInv
  <2>2. loc[t].op = "RELEASE" <=> gate.lease_held
    BY <2>1 DEF KeptInv
  <2>3. loc[t].op \in {"EJECT", "LOAD"} => gate.managed
    BY <1>0, <2>1 DEF StoredInv, TransitInv, NeedsStore
  <2>4. loc[t].op \in {"ACQUIRE", "RELEASE", "EJECT", "LOAD"}
    BY <1>0, <2>1 DEF Op, Place, Body, BodyAt
  <2>5. /\ gate.managed => nvs'.state # "HOST"
        /\ gate.lease_held => nvs'.state # "MANAGED_HOST"
        /\ ~gate.managed => nvs'.state \notin {"HANDOFF", "MANAGED_HOST"}
    <3>1. CASE nvs' = nvs
      BY <3>1 DEF KeptInv
    <3>2. CASE nvs' = Target(t)
      <4>1. gate.lease_held => gate.managed
        BY <1>0 DEF ModeInv
      <4> QED
        BY <2>2, <2>3, <2>4, <3>2, <4>1 DEF Target, Plain
    <3> QED
      BY <1>0, <3>1, <3>2
  <2>6. ASSUME NEW u \in Task, Body(u)' PROVE loc'[u].op = "RELEASE" <=> gate.lease_held
    <3>1. CASE u = t
      BY <1>2, <1>3, <2>2, <2>6, <3>1 DEF Body, BodyAt
    <3>2. CASE u # t
      <4>1. Body(u)
        BY <1>3, <2>6, <3>2 DEF Body
      <4> QED
        BY <1>3, <3>2, <4>1 DEF KeptInv
    <3> QED
      BY <3>1, <3>2
  <2> QED
    BY <1>0, <2>5, <2>6 DEF KeptInv
<1> QED
  BY <1>4, <1>5, <1>6, VolumeKeeps, VolumeStutters DEF HandStep

LEMMA QuarantinesHand ==
  ASSUME SafeInv, KeptInv, NEW t \in Task, Quarantine(t) \/ SessionChanged(t)
  PROVE  HandStep
<1>0. /\ DataType /\ gate \in Gate /\ pc[t] \in {"quarantine", "changed"}
      /\ UNCHANGED <<nvs, handles>>
  BY DEF SafeInv, DataType, Quarantine, SessionChanged, medium
<1>1. CASE gate' = Quarantined(gate) /\ Enter(t, "store", [NoLocal EXCEPT !.op = "QUARANTINE"])
  <2>1. gate'.quarantined /\ gate'.pending_write_sync = gate.pending_write_sync
    BY <1>0, <1>1 DEF Quarantined, Gate
  <2>2. \E l : Moves(t, "store", l)
    BY <1>1, EnterMoves
  <2>3. Busy' = Busy
    BY <1>0, <2>1, <2>2, BusyStays DEF Flight
  <2> QED
    BY <2>1, <2>3, QuarantineHand
<1>2. CASE Idle(t) /\ UNCHANGED gate
  BY <1>0, <1>2, GivesUpHand DEF Flight
<1> QED
  BY <1>1, <1>2 DEF Quarantine, SessionChanged

\* One chunk or one synchronisation of the host; the device is as it was.
LEMMA HostHand ==
  ASSUME SafeInv, KeptInv,
         \/ \E writing \in BOOLEAN : HostIoBegin(writing)
         \/ HostIoFinish \/ HostSyncBegin \/ HostWriteComplete
  PROVE  HandStep
<1>0. /\ DataType /\ gate \in Gate /\ "usb" \in Task /\ UNCHANGED <<nvs, handles>>
      /\ pc["usb"] \in {"idle", "hostIo", "sync"} /\ QuietInv
  BY TaskFacts DEF SafeInv, ControlInv, DataType, HostIoBegin, HostIoFinish, HostSyncBegin,
                   HostWriteComplete, medium
<1>1. PICK p \in {"hostIo", "idle", "sync", "quarantine"} : \E l : Moves("usb", p, l)
  BY <1>0, EnterMoves, GotoMoved, IdleMoves DEF HostIoBegin, HostIoFinish, HostSyncBegin,
                                                HostWriteComplete
<1>2. PICK l : Moves("usb", p, l)
  BY <1>1
<1>3. pc'["usb"] = p /\ \A u \in Task \ {"usb"} : pc'[u] = pc[u]
  BY <1>0, <1>2, Moved
<1>4. DeviceActive' <=> DeviceActive
  BY <1>0, <1>3, TaskFacts DEF DeviceActive
<1>5. CASE SameGate
  <2>1. KeptInv'
    BY <1>0, <1>1, <1>2, <1>5, KeptKeeps DEF BodyAt, SameGate, SameMode
  <2>2. HostActive' => HostActive \/ HostWritable(gate)
    <3>1. CASE \E writing \in BOOLEAN : HostIoBegin(writing)
      BY <3>1 DEF HostIoBegin
    <3>2. CASE HostIoFinish \/ HostWriteComplete
      BY <3>2 DEF HostIoFinish, HostWriteComplete, HostActive
    <3>3. CASE HostSyncBegin
      BY <3>3 DEF HostSyncBegin, HostActive
    <3> QED
      BY <3>1, <3>2, <3>3
  <2> QED
    BY <1>4, <1>5, <2>1, <2>2, HostUses DEF HandStep
<1>6. CASE ~SameGate
  <2>1. /\ HostWriteComplete /\ Goto("usb", "quarantine")
        /\ gate' = [gate EXCEPT !.quarantined = TRUE, !.ejected = TRUE]
    BY <1>0, <1>6 DEF HostIoBegin, HostIoFinish, HostSyncBegin, HostWriteComplete, SameGate,
                      SameMode, Gate
  <2>2. gate'.quarantined /\ gate'.pending_write_sync = gate.pending_write_sync
    BY <1>0, <2>1 DEF Gate
  <2>3. gate.pending_write_sync # 0
    BY <1>0, <2>1 DEF QuietInv, HostWriteComplete
  <2>4. HostActive' /\ HostActive
    BY <2>2, <2>3 DEF HostActive
  <2>5. Busy' = Busy
    BY <1>4, <2>4 DEF Busy
  <2> QED
    BY <2>2, <2>5, QuarantineHand
<1> QED
  BY <1>5, <1>6

\* File operations; the host is as it was.
LEMMA DeviceHand ==
  ASSUME SafeInv, KeptInv, NEW t \in VfsTasks,
         VfsBegin(t) \/ VfsFinish(t) \/ (t = "vm" /\ (VfsOpened \/ VfsClose))
  PROVE  HandStep
<1>0. /\ DataType /\ gate \in Gate /\ t \in Task /\ t # "usb" /\ UNCHANGED nvs
      /\ handles \in Nat
  BY TaskFacts DEF SafeInv, DataType, VfsBegin, VfsFinish, VfsOpened, VfsClose
<1>1. SameGate /\ gate'.pending_write_sync = gate.pending_write_sync
  BY <1>0 DEF VfsBegin, VfsFinish, VfsOpened, VfsClose, SameGate, SameMode, Gate
<1>2. PICK p \in {"vfs", "vfsFinish", "idle"} : Moves(t, p, loc[t])
  <2>1. CASE t = "vm" /\ VfsClose
    BY <1>0, <2>1 DEF VfsClose, Moves, DataType
  <2> QED
    BY <1>0, <2>1, GotoMoved DEF VfsBegin, VfsFinish, VfsOpened
<1>3. pc'[t] = p /\ \A u \in Task \ {t} : pc'[u] = pc[u]
  BY <1>0, <1>2, Moved
<1>4. HostActive' <=> HostActive
  BY <1>0, <1>1, <1>3, TaskFacts DEF HostActive
<1>5. KeptInv'
  BY <1>0, <1>1, <1>2, KeptKeeps DEF BodyAt, SameGate, SameMode
<1>6. DeviceActive' => DeviceActive \/ PythonIoAllowed(gate)
  <2>1. CASE VfsBegin(t)
    BY <2>1 DEF VfsBegin
  <2>2. CASE VfsFinish(t)
    BY <2>2 DEF VfsFinish, DeviceActive
  <2>3. CASE t = "vm" /\ (VfsOpened \/ VfsClose)
    BY <2>3 DEF VfsOpened, VfsClose, DeviceActive
  <2> QED
    BY <2>1, <2>2, <2>3
<1> QED
  BY <1>1, <1>4, <1>5, <1>6, DeviceUses DEF HandStep

\* A volume whose transition has been drained is nobody's.
LEMMA DrainedIdle ==
  ASSUME SafeInv, NEW t \in Task, Body(t), pc[t] \notin {"drain", "handles"}
  PROVE  Busy = {}
<1>1. IoDrained(gate) /\ handles = 0
  BY DEF SafeInv, ControlInv, QuietInv
<1>2. InFlight = {}
  BY <1>1, NoneInFlight DEF SafeInv, ControlInv, IoDrained
<1>3. pc["usb"] \notin {"hostIo", "sync"}
  BY <1>1, <1>2, TaskFacts DEF SafeInv, ControlInv, QuietInv, IoDrained, InFlight, Flight
<1>4. \A u \in VfsTasks : pc[u] \notin {"vfs", "vfsFinish"}
  BY <1>2, TaskFacts DEF InFlight, Flight
<1> QED
  BY <1>1, <1>3, <1>4 DEF HostActive, DeviceActive, IoDrained, Busy

LEMMA FinishHand ==
  ASSUME SafeInv, StoredInv, KeptInv, NEW t \in Task, Finish(t)
  PROVE  HandStep
<1>0. /\ DataType /\ gate \in Gate /\ pc[t] = "finish" /\ UNCHANGED <<nvs, handles>>
      /\ loc[t].op \in {"ACQUIRE", "RELEASE", "EJECT", "LOAD"} /\ Body(t)
      /\ pc[t] \notin Flight \cup {"sync"} /\ ModeInv
  BY DEF SafeInv, DataType, ControlInv, PlaceInv, Place, Finish, medium, Body, BodyAt, Flight
<1>1. CASE Goto(t, "quarantine") /\ UNCHANGED gate
  BY <1>0, <1>1, GivesUpHand
<1>2. CASE MayFinish(loc[t].op, gate) /\ gate' = Finished(loc[t].op, gate) /\ Idle(t)
  <2>1. PICK p \in {"epoch", "idle"} : Moves(t, p, NoLocal)
    BY <1>2, IdleMoves
  <2>2. /\ pc'[t] = p /\ \A u \in Task \ {t} : pc'[u] = pc[u] /\ loc'[u] = loc[u]
    BY <1>0, <2>1, Moved
  <2>3. /\ gate'.quarantined = gate.quarantined /\ ~gate'.transition_pending
        /\ gate'.lease_held = (loc[t].op = "ACQUIRE" \/ (gate.lease_held /\ loc[t].op # "RELEASE"))
        /\ gate'.handoff_ready = (loc[t].op \in {"EJECT", "RELEASE"})
        /\ gate'.managed = (gate.managed \/ loc[t].op \in {"ACQUIRE", "RELEASE"})
        /\ gate'.ejected = (loc[t].op # "LOAD")
        /\ gate'.pending_write_sync = gate.pending_write_sync
    BY <1>0, <1>2 DEF Finished, Gate
  <2>4. Busy = {} /\ Busy' = Busy
    <3>1. p \notin Flight \cup {"sync"}
      BY DEF Flight
    <3> QED
      BY <1>0, <2>1, <2>3, <3>1, DrainedIdle, BusyStays
  <2>5. Allowed = {}
    BY <1>2 DEF MayFinish, Allowed, HostWritable, HostLoadAllowed, PythonIoAllowed
  <2>6. \A u \in Task : ~Body(u)'
    BY <1>0, <2>2 DEF Body, BodyAt, SafeInv, ControlInv, BodyInv
  <2>7. CASE gate.quarantined
    BY <2>3, <2>4, <2>7, QuarantineHand
  <2>8. CASE ~gate.quarantined
    <3>1. loc[t].op = "RELEASE" <=> gate.lease_held
      BY <1>0, <2>8 DEF KeptInv
    <3>2. KeptInv'
      <4>1. loc[t].op = "ACQUIRE" => nvs.state = "LEASED"
        BY <1>0, <2>8 DEF StoredInv, TransitInv, NeedsStore, Target
      <4>2. loc[t].op = "RELEASE" => nvs.state = "HANDOFF"
        BY <1>0, <2>8 DEF StoredInv, TransitInv, NeedsStore, Target, Plain
      <4> QED
        BY <1>0, <2>3, <2>6, <2>8, <3>1, <4>1, <4>2 DEF KeptInv
    <3>3. Volume!Settled
      BY <2>4, <2>5 DEF Volume!Settled
    <3>4. CASE loc[t].op = "ACQUIRE"
      <4>1. VolumeMode \in {"shared", "managed"} /\ VolumeMode' = "leased"
        BY <2>3, <2>8, <3>1, <3>4 DEF VolumeMode
      <4>2. Allowed' = {"device"}
        BY <2>3, <2>8, <3>4 DEF Allowed, HostWritable, HostLoadAllowed, PythonIoAllowed
      <4>3. Volume!Lease
        BY <2>4, <3>3, <4>1, <4>2 DEF Volume!Lease, Volume!Device
      <4> QED
        BY <3>2, <4>3 DEF HandStep, Volume!Next
    <3>5. CASE loc[t].op = "RELEASE"
      <4>1. VolumeMode = "leased" /\ VolumeMode' = "managed"
        BY <2>3, <2>8, <3>1, <3>5 DEF VolumeMode
      <4>2. Allowed' = {"device"}
        BY <2>3, <2>8, <3>5 DEF Allowed, HostWritable, HostLoadAllowed, PythonIoAllowed
      <4>3. Volume!GiveBack
        BY <2>4, <3>3, <4>1, <4>2 DEF Volume!GiveBack, Volume!Device
      <4> QED
        BY <3>2, <4>3 DEF HandStep, Volume!Next
    <3>6. CASE loc[t].op \in {"EJECT", "LOAD"}
      <4>1. VolumeMode \in {"shared", "managed"} /\ VolumeMode' = VolumeMode
        BY <2>3, <2>8, <3>1, <3>6 DEF VolumeMode
      <4>2. Allowed' = IF loc[t].op = "EJECT" THEN {"device"}
                       ELSE IF VolumeMode = "managed" THEN {"host"} ELSE {"host", "device"}
        <5>1. VolumeMode = "managed" <=> gate.managed
          BY <2>8, <3>1, <3>6 DEF VolumeMode
        <5> QED
          BY <2>3, <2>8, <3>1, <3>6, <5>1
             DEF Allowed, HostWritable, HostLoadAllowed, PythonIoAllowed
      <4>3. Volume!HandOver \/ Volume!Share
        BY <2>4, <3>3, <3>6, <4>1, <4>2
           DEF Volume!HandOver, Volume!Share, Volume!Device, Volume!Host, Volume!Writers
      <4> QED
        BY <3>2, <4>3 DEF HandStep, Volume!Next
    <3> QED
      BY <1>0, <3>4, <3>5, <3>6
  <2> QED
    BY <2>7, <2>8
<1> QED
  BY <1>1, <1>2 DEF Finish

\* What a start makes of each record, as the volume sees it.
LEMMA RecoveredVolume ==
  ASSUME gate' = Recovered(nvs), nvs \in Record
  PROVE  /\ nvs.state = "HOST" => VolumeMode' = "shared" /\ Allowed' = {"host", "device"}
         /\ nvs.state = "MANAGED_HOST" => VolumeMode' = "managed" /\ Allowed' = {"host"}
         /\ nvs.state = "HANDOFF" => VolumeMode' = "managed" /\ Allowed' = {"device"}
         /\ nvs.state \in {"LEASED", "QUARANTINE"} =>
              VolumeMode' = "quarantined" /\ Allowed' = {}
<1>0. nvs.state = "HOST" => ~gate'.ejected
  BY DEF Recovered, GateInit
<1>1. /\ gate'.quarantined <=> nvs.state \in {"LEASED", "QUARANTINE"}
      /\ nvs.state = "HOST" => ~gate'.managed /\ ~gate'.ejected
      /\ nvs.state = "MANAGED_HOST" =>
           gate'.managed /\ ~gate'.ejected /\ ~gate'.handoff_ready
      /\ nvs.state = "HANDOFF" => gate'.managed /\ gate'.ejected /\ gate'.handoff_ready
      /\ ~gate'.transition_pending /\ ~gate'.lease_held
  <2>1. nvs.state \in {"HOST", "HANDOFF", "LEASED", "QUARANTINE", "MANAGED_HOST"}
    BY DEF Record, PersistState
  <2> QED
    BY <1>0, <2>1, RecoveredGate
<1> QED
  BY <1>1 DEF VolumeMode, Allowed, HostWritable, HostLoadAllowed, PythonIoAllowed

\* Who may use a volume at rest is what NVS says.
LEMMA RestingVolume ==
  ASSUME SafeInv, StoredInv, Allowed # {}
  PROVE  /\ VolumeMode # "quarantined"
         /\ VolumeMode = "leased" => nvs.state = "LEASED"
         /\ VolumeMode = "shared" => nvs.state = "HOST"
         /\ VolumeMode = "managed" => \/ nvs.state = "MANAGED_HOST" /\ Allowed = {"host"}
                                      \/ nvs.state = "HANDOFF" /\ Allowed = {"device"}
<1>1. ~gate.transition_pending /\ ~gate.quarantined
  BY DEF Allowed, HostWritable, HostLoadAllowed, PythonIoAllowed
<1>2. ModeInv /\ RestInv
  BY DEF SafeInv, ControlInv, StoredInv
<1>3. VolumeMode = "managed" => \/ nvs.state = "MANAGED_HOST" /\ Allowed = {"host"}
                                \/ nvs.state = "HANDOFF" /\ Allowed = {"device"}
  <2> SUFFICES ASSUME gate.managed, ~gate.lease_held
               PROVE  \/ nvs.state = "MANAGED_HOST" /\ Allowed = {"host"}
                      \/ nvs.state = "HANDOFF" /\ Allowed = {"device"}
    BY DEF VolumeMode
  <2>1. CASE gate.handoff_ready
    BY <1>1, <1>2, <2>1
       DEF RestInv, ModeInv, Allowed, HostWritable, HostLoadAllowed, PythonIoAllowed
  <2>2. CASE ~gate.handoff_ready
    BY <1>1, <1>2, <2>2
       DEF RestInv, ModeInv, Allowed, HostWritable, HostLoadAllowed, PythonIoAllowed
  <2> QED
    BY <2>1, <2>2
<1>4. /\ VolumeMode = "leased" => nvs.state = "LEASED"
      /\ VolumeMode = "shared" => nvs.state = "HOST"
  BY <1>1, <1>2 DEF RestInv, ModeInv, VolumeMode
<1> QED
  BY <1>1, <1>3, <1>4 DEF VolumeMode

LEMMA CrashHand ==
  ASSUME SafeInv, StoredInv, KeptInv, Crash
  PROVE  HandStep
<1>1. /\ \A t \in Task : pc'[t] = "idle"
      /\ nvs' = nvs /\ nvs \in Record /\ handles' = 0
      /\ nvs.state \in {"HOST", "HANDOFF", "LEASED", "QUARANTINE", "MANAGED_HOST"}
  BY DEF Crash, SafeInv, DataType, Record, PersistState
<1>2. \A t \in Task : ~Body(t)'
  BY <1>1 DEF Body, BodyAt
<1>3. Busy' = {}
  <2>1. gate'.pending_write_sync = 0
    BY StartGate DEF Crash, Recovered, GateInit
  <2> QED
    BY <1>1, <2>1, TaskFacts DEF Busy, HostActive, DeviceActive
<1>4. CASE NvsFails /\ gate' = GateInit(TRUE, FALSE)
  <2>1. gate'.quarantined
    BY <1>4 DEF GateInit
  <2>2. VolumeMode' = "quarantined" /\ Allowed' = {}
    BY <2>1 DEF VolumeMode, Allowed, HostWritable, HostLoadAllowed, PythonIoAllowed
  <2>3. Volume!Restart
    BY <1>3, <1>4, <2>2 DEF Volume!Restart
  <2> QED
    BY <2>1, <2>3, KeptQuarantined DEF HandStep, Volume!Next
<1>5. CASE gate' = Recovered(nvs)
  <2>1. KeptInv'
    BY <1>1, <1>2, <1>5, RecoveredGate DEF KeptInv
  <2>2. VolumeMode \in {"shared", "managed", "leased", "quarantined"}
    BY DEF VolumeMode
  <2>3. /\ VolumeMode \in {"managed", "leased"} => nvs.state # "HOST"
        /\ VolumeMode = "leased" => nvs.state # "MANAGED_HOST"
        /\ VolumeMode = "shared" => nvs.state \notin {"HANDOFF", "MANAGED_HOST"}
    <3>1. gate.lease_held => gate.managed
      BY DEF SafeInv, ControlInv, ModeInv
    <3> QED
      BY <3>1 DEF KeptInv, VolumeMode
  <2>4. VolumeMode = "quarantined" => Allowed = {}
    BY RestingVolume
  <2>5. Volume!Restart
    <3>1. CASE nvs.state = "HOST"
      <4>1. VolumeMode' = "shared" /\ Allowed' = {"host", "device"}
        BY <1>1, <1>5, <3>1, RecoveredVolume
      <4> QED
        BY <1>3, <2>2, <2>3, <3>1, <4>1
           DEF Volume!Restart, Volume!Writers, Volume!Host, Volume!Device
    <3>2. CASE nvs.state \in {"LEASED", "QUARANTINE"}
      <4>1. VolumeMode' = "quarantined" /\ Allowed' = {}
        BY <1>1, <1>5, <3>2, RecoveredVolume
      <4>2. Allowed = {} \/ VolumeMode = "leased"
        BY <2>2, <3>2, RestingVolume
      <4> QED
        BY <1>3, <4>1, <4>2 DEF Volume!Restart
    <3>3. CASE nvs.state = "MANAGED_HOST"
      <4>1. VolumeMode' = "managed" /\ Allowed' = {"host"}
        BY <1>1, <1>5, <3>3, RecoveredVolume
      <4>2. \/ VolumeMode = "quarantined"
            \/ VolumeMode = "managed" /\ (Allowed = {} \/ Allowed = {"host"})
        BY <2>2, <2>3, <3>3, RestingVolume
      <4> QED
        BY <1>3, <4>1, <4>2 DEF Volume!Restart, Volume!Host, Volume!Device
    <3>4. CASE nvs.state = "HANDOFF"
      <4>1. VolumeMode' = "managed" /\ Allowed' = {"device"}
        BY <1>1, <1>5, <3>4, RecoveredVolume
      <4>2. \/ VolumeMode = "quarantined"
            \/ VolumeMode = "managed" /\ (Allowed = {} \/ Allowed = {"device"})
            \/ VolumeMode = "leased" /\ Allowed = {}
        BY <2>2, <2>3, <3>4, RestingVolume
      <4> QED
        BY <1>3, <4>1, <4>2 DEF Volume!Restart, Volume!Host, Volume!Device
    <3> QED
      BY <1>1, <3>1, <3>2, <3>3, <3>4
  <2> QED
    BY <2>1, <2>5 DEF HandStep, Volume!Next
<1> QED
  BY <1>4, <1>5 DEF Crash

LEMMA HandNext == ASSUME SafeInv, StoredInv, KeptInv, Next PROVE HandStep
<1>0. "usb" \in Task /\ "vm" \in VfsTasks
  BY TaskFacts DEF VfsTasks
<1>1. ASSUME NEW t \in Task,
             \/ Continue(t) \/ DrainTimeout(t)
             \/ AcquireRequest(t) \/ ReleaseRequest(t)
             \/ VfsBegin(t) \/ VfsFinish(t)
             \/ SessionTransition(t) \/ CallbackCheck(t) \/ SessionChanged(t)
      PROVE  HandStep
  <2>1. CASE AcquireStart(t) \/ ReleaseStart(t)
    BY <2>1, BeginHand
  <2>2. CASE Drain(t) \/ DrainTimeout(t) \/ Refresh(t)
    BY <2>2, DrainHand
  <2>3. CASE StoreTake(t) \/ StoreCheck(t)
    BY <2>3, StoreHand
  <2>4. CASE StoreCommit(t)
    BY <2>4, CommitHand
  <2>5. CASE Finish(t)
    BY <2>5, FinishHand
  <2>6. CASE Quarantine(t) \/ SessionChanged(t)
    BY <2>6, QuarantinesHand
  <2>7. CASE AcquireRequest(t) \/ ReleaseRequest(t) \/ SessionTransition(t) \/ CallbackCheck(t)
    BY <2>7, RequestHand
  <2>8. CASE VfsBegin(t) \/ VfsFinish(t)
    <3>1. t \in VfsTasks
      BY <2>8 DEF VfsBegin, VfsFinish, SafeInv, ControlInv, PlaceInv, Place, VfsTasks
    <3> QED
      BY <2>8, <3>1, DeviceHand
  <2> QED
    BY <1>1, <2>1, <2>2, <2>3, <2>4, <2>5, <2>6, <2>7, <2>8 DEF Continue
<1>2. CASE \E op \in {"EJECT", "LOAD"} : HostStartStop(op)
  BY <1>0, <1>2, BeginHand
<1>3. CASE \/ \E writing \in BOOLEAN : HostIoBegin(writing)
           \/ HostIoFinish \/ HostSyncBegin \/ HostWriteComplete
  BY <1>3, HostHand
<1>4. CASE VfsOpened \/ VfsClose
  BY <1>0, <1>4, DeviceHand
<1>5. CASE VmResetBegin \/ VmEpochAdvance
  BY <1>5, ResetHand
<1>6. CASE Crash
  BY <1>6, CrashHand
<1> QED
  BY <1>1, <1>2, <1>3, <1>4, <1>5, <1>6 DEF Next

LEMMA HandInit == ASSUME Init PROVE KeptInv /\ Volume!Init
<1>1. /\ \A t \in Task : pc[t] = "idle"
      /\ nvs.state = "HOST" /\ handles = 0 /\ gate = GateInit(FALSE, FALSE)
  BY DEF Init, Plain, Recovered
<1>2. /\ ~gate.quarantined /\ ~gate.lease_held /\ ~gate.managed /\ ~gate.ejected
      /\ ~gate.transition_pending /\ gate.pending_write_sync = 0
  BY <1>1 DEF GateInit
<1>3. KeptInv
  BY <1>1, <1>2 DEF KeptInv, Body, BodyAt
<1>4. VolumeMode = "shared" /\ Allowed = {"host", "device"}
  BY <1>2 DEF VolumeMode, Allowed, HostWritable, HostLoadAllowed, PythonIoAllowed
<1>5. Busy = {}
  BY <1>1, <1>2, TaskFacts DEF Busy, HostActive, DeviceActive
<1> QED
  BY <1>3, <1>4, <1>5 DEF Volume!Init, Volume!Writers, Volume!Host, Volume!Device

LEMMA HandStutters == ASSUME KeptInv, UNCHANGED vars PROVE HandStep
<1>1. UNCHANGED <<gate, nvs, handles, pc, loc>>
  BY DEF vars
<1>2. KeptInv'
  BY <1>1 DEF KeptInv, Body
<1>3. VolumeMode' = VolumeMode /\ Allowed' = Allowed /\ Busy' = Busy
  BY <1>1 DEF VolumeMode, Allowed, Busy, HostActive, DeviceActive
<1> QED
  BY <1>2, <1>3, VolumeStutters DEF HandStep

\* The gate, the drain and the record together hand a volume over as VolumeWriter
\* says: by way of nobody, after its users have stopped, and a power failure leaves
\* it to whom it was, whatever tasks there are and whether or not NVS may fail.
THEOREM HandOverCorrect == Spec => HandsOver
<1> DEFINE Inv == SafeInv /\ StoredInv /\ KeptInv
<1>1. Init => Inv /\ Volume!Init
  BY InitSafe, InitRecord, HandInit
<1>2. Inv /\ [Next]_vars => Inv' /\ [Volume!Next]_(Volume!vars)
  <2> SUFFICES ASSUME Inv, [Next]_vars PROVE Inv' /\ [Volume!Next]_(Volume!vars)
    OBVIOUS
  <2>1. SafeInv' /\ StoredInv'
    BY SafeStep, RecordStep, StutterStep, StutterRecord
  <2>2. HandStep
    BY HandNext, HandStutters
  <2> QED
    BY <2>1, <2>2 DEF HandStep
<1> HIDE DEF Inv
<1> QED
  BY <1>1, <1>2, PTL DEF Spec, HandsOver, Volume!Spec
=============================================================================
