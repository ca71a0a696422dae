---------------------------- MODULE StorageWriter ----------------------------
(***************************************************************************)
(* Who may write a storage volume: the USB host through mass storage, or   *)
(* the device (MicroPython files, uploads), and the lease that hands the   *)
(* volume over.                                                            *)
(*                                                                         *)
(*   platform/storage_writer_gate.h   the gate, under s_writer_mux         *)
(*   platform/storage_writer_msc.c    drain, refresh, NVS record, recovery *)
(*   platform/usb_msc.c, storage_vfs.c, ev_file_transfer.c,                *)
(*   ev_control_transport.c           the callers                          *)
(*                                                                         *)
(* One volume (the gates of flash and SD card are independent).  Each      *)
(* critical section is one action; between two of them a task may be       *)
(* preempted or the power may fail.  Only nvs survives a power failure.    *)
(* Operation ids, which the client chooses, are folded into the lease id.  *)
(***************************************************************************)
EXTENDS Naturals, FiniteSets

CONSTANTS
  RpcTasks,     \* tasks that serve storage.writer.acquire and release
  SessionTasks, \* tasks that run the callback of a session transition
  NvsFails,     \* whether an NVS write may fail
  MaxSessions,  \* bound: sessions explored
  MaxLeases,    \* bound: leases explored
  MaxHandles,   \* bound: files open at once
  MaxWrites,    \* bound: chunks of one WRITE10 command
  MaxCrashes,   \* bound: power failures explored
  MaxResets     \* bound: soft resets explored

ASSUME WriterAssumption ==
  /\ NvsFails \in BOOLEAN
  /\ MaxSessions \in Nat /\ MaxLeases \in Nat /\ MaxHandles \in Nat
  /\ MaxWrites \in Nat /\ MaxCrashes \in Nat /\ MaxResets \in Nat
  /\ (RpcTasks \cup SessionTasks) \cap {"usb", "vm", "file", "none"} = {}

VARIABLES
  gate,        \* s_gate[volume]
  record,      \* s_record[volume]
  nvs,         \* the record in NVS
  storeLock,   \* holder of s_writer_store_lock
  handles,     \* s_vfs_open_handles[volume]
  session,     \* the EV-MUX session: its id (0: none) and input_generation
  pc, loc,     \* control point and locals of each task
  leases, sessions, crashes, resets  \* how many so far

vars == <<gate, record, nvs, storeLock, handles, session, pc, loc,
          leases, sessions, crashes, resets>>

VfsTasks == {"vm", "file"}
Task == RpcTasks \cup SessionTasks \cup VfsTasks \cup {"usb"}
NoTask == "none"

Gate == [ejected : BOOLEAN, transition_pending : BOOLEAN, lease_held : BOOLEAN,
         handoff_ready : BOOLEAN, managed : BOOLEAN, quarantined : BOOLEAN,
         in_flight_io : Nat, pending_write_sync : Nat]

PersistState == {"HOST", "HANDOFF", "LEASED", "QUARANTINE", "MANAGED_HOST"}
Record == [state : PersistState, session : Nat, lease : Nat]
Plain(state) == [state |-> state, session |-> 0, lease |-> 0]

PC == {"idle", "acquire", "release", "drain", "handles", "refresh", "store", "commit",
       "storeCheck", "finish", "quarantine", "hostIo", "sync", "vfs", "vfsFinish",
       "callback", "changed", "epoch"}
Op == {"NONE", "ACQUIRE", "RELEASE", "EJECT", "LOAD", "QUARANTINE"}
Local == [op : Op, session : Nat, generation : Nat, lease : Nat, managed : BOOLEAN,
          writing : BOOLEAN, sequence : Nat]
NoLocal == [op |-> "NONE", session |-> 0, generation |-> 0, lease |-> 0, managed |-> FALSE,
            writing |-> FALSE, sequence |-> 0]

(***************************************************************************)
(* storage_writer_gate.h                                                   *)
(***************************************************************************)
GateInit(recovered_quarantine, recovered_handoff) ==
  [ejected |-> recovered_quarantine \/ recovered_handoff,
   transition_pending |-> FALSE, lease_held |-> FALSE,
   handoff_ready |-> recovered_handoff,
   managed |-> recovered_quarantine \/ recovered_handoff,
   quarantined |-> recovered_quarantine,
   in_flight_io |-> 0, pending_write_sync |-> 0]

HostLoadAllowed(g) == ~g.transition_pending /\ ~g.lease_held /\ ~g.quarantined
HostWritable(g) == ~g.ejected /\ HostLoadAllowed(g)

\* Mutant of PythonIoAllowed: a managed volume is not kept from the device.
MPythonIoAllowed(g) == ~g.transition_pending /\ ~g.quarantined

PythonIoAllowed(g) ==
  /\ ~g.transition_pending
  /\ ~g.quarantined
  /\ ~g.managed \/ g.handoff_ready \/ g.lease_held

IoDrained(g) == g.in_flight_io = 0 /\ g.pending_write_sync = 0

\* Quarantine drops a lease and stays until the device restarts.
Quarantined(g) ==
  [g EXCEPT !.transition_pending = FALSE, !.lease_held = FALSE, !.managed = TRUE,
            !.quarantined = TRUE, !.ejected = TRUE]

\* The begin_* functions: whether a transition may start.
MayBegin(op, g) ==
  /\ ~g.transition_pending
  /\ ~g.quarantined
  /\ CASE op = "EJECT"   -> ~g.lease_held
       [] op = "LOAD"    -> g.ejected /\ g.handoff_ready /\ ~g.lease_held /\ IoDrained(g)
       [] op = "ACQUIRE" -> g.ejected /\ ~g.lease_held
       [] op = "RELEASE" -> g.lease_held

Begun(op, g) ==
  [g EXCEPT !.transition_pending = TRUE, !.ejected = (op = "EJECT") \/ @]

\* The finish_* functions: whether the transition is still there to finish.
MayFinish(op, g) ==
  /\ g.transition_pending
  /\ IoDrained(g)
  /\ op \in {"EJECT", "LOAD"} => ~g.lease_held /\ ~g.quarantined
  /\ op = "LOAD" => g.ejected
  /\ op = "RELEASE" => g.lease_held

\* Mutant of Finished: a release gives the volume straight back to the host.
MFinished(op, g) ==
  [g EXCEPT !.transition_pending = FALSE,
            !.lease_held = (op = "ACQUIRE") \/ (@ /\ op # "RELEASE"),
            !.handoff_ready = op = "EJECT",
            !.managed = @ \/ op \in {"ACQUIRE", "RELEASE"},
            !.ejected = op \notin {"LOAD", "RELEASE"}]

Finished(op, g) ==
  [g EXCEPT !.transition_pending = FALSE,
            !.lease_held = (op = "ACQUIRE") \/ (@ /\ op # "RELEASE"),
            !.handoff_ready = op \in {"EJECT", "RELEASE"},
            !.managed = @ \/ op \in {"ACQUIRE", "RELEASE"},
            !.ejected = op # "LOAD"]

(***************************************************************************)
(* Steps of a task.                                                        *)
(***************************************************************************)
counters == <<leases, sessions, crashes, resets>>
medium == <<handles, session, counters>>

Goto(t, p) == pc' = [pc EXCEPT ![t] = p] /\ UNCHANGED loc
\* The operation is over; a soft reset, which only the interpreter's task makes,
\* still has the epoch to advance.
Idle(t) ==
  /\ pc' = [pc EXCEPT ![t] = IF t = "vm" THEN "epoch" ELSE "idle"]
  /\ loc' = [loc EXCEPT ![t] = NoLocal]
Enter(t, p, l) == pc' = [pc EXCEPT ![t] = p] /\ loc' = [loc EXCEPT ![t] = l]

\* Every task that is about to quarantine first closes the gate, then records it.
Quarantine(t) ==
  /\ pc[t] = "quarantine"
  /\ gate' = Quarantined(gate)
  /\ Enter(t, "store", [NoLocal EXCEPT !.op = "QUARANTINE"])
  /\ UNCHANGED <<record, nvs, storeLock, medium>>

\* storage.writer.acquire of an authenticated session.
AcquireRequest(t) ==
  /\ t \in RpcTasks /\ pc[t] = "idle"
  /\ session.id # 0
  /\ Enter(t, "acquire", [NoLocal EXCEPT !.op = "ACQUIRE", !.session = session.id])
  /\ UNCHANGED <<gate, record, nvs, storeLock, medium>>

\* esp_vision_msc_writer_acquire: a refused start is an error, not a quarantine.
AcquireStart(t) ==
  /\ pc[t] = "acquire"
  /\ \/ /\ MayBegin("ACQUIRE", gate)
        /\ leases < MaxLeases
        /\ leases' = leases + 1
        /\ gate' = Begun("ACQUIRE", gate)
        /\ Enter(t, "drain", [loc[t] EXCEPT !.lease = leases + 1])
     \/ /\ ~MayBegin("ACQUIRE", gate)
        /\ Idle(t)
        /\ UNCHANGED <<gate, leases>>
  /\ UNCHANGED <<record, nvs, storeLock, handles, session, sessions, crashes, resets>>

\* storage.writer.release names a lease, perhaps a wrong one.
ReleaseRequest(t) ==
  /\ t \in RpcTasks /\ pc[t] = "idle"
  /\ session.id # 0
  /\ \E lease \in 1..leases :
       Enter(t, "release", [NoLocal EXCEPT !.op = "RELEASE", !.session = session.id,
                                           !.lease = lease])
  /\ UNCHANGED <<gate, record, nvs, storeLock, medium>>

\* esp_vision_msc_writer_release: anything but a match quarantines.
ReleaseStart(t) ==
  LET matches == /\ gate.lease_held /\ ~gate.quarantined
                 /\ record.lease = loc[t].lease
                 /\ record.session = loc[t].session
  IN /\ pc[t] = "release"
     /\ \/ /\ matches /\ MayBegin("RELEASE", gate)
           /\ gate' = Begun("RELEASE", gate)
           /\ Goto(t, "drain")
        \/ /\ ~(matches /\ MayBegin("RELEASE", gate))
           /\ Goto(t, "quarantine")
           /\ UNCHANGED gate
     /\ UNCHANGED <<record, nvs, storeLock, medium>>

\* START STOP UNIT with LOEJ: eject, or load.  Loading a volume the host has
\* already is a success; any other refusal quarantines.
HostStartStop(op) ==
  /\ pc["usb"] = "idle"
  /\ \/ /\ op = "LOAD" /\ HostWritable(gate)
        /\ UNCHANGED <<gate, pc, loc>>
     \/ /\ MayBegin(op, gate)
        /\ gate' = Begun(op, gate)
        /\ Enter("usb", "drain", [NoLocal EXCEPT !.op = op, !.managed = gate.managed])
     \/ /\ ~(op = "LOAD" /\ HostWritable(gate)) /\ ~MayBegin(op, gate)
        /\ Goto("usb", "quarantine")
        /\ UNCHANGED gate
  /\ UNCHANGED <<record, nvs, storeLock, medium>>

(***************************************************************************)
(* The body of a transition: drain, refresh, store, finish.                *)
(***************************************************************************)
\* Mutant of Drain: the open handles are counted before the gate is read.
MDrain(t) ==
  /\ \/ pc[t] = "drain" /\ handles = 0 /\ Goto(t, "handles")
     \/ pc[t] = "handles" /\ IoDrained(gate) /\ Goto(t, "refresh")
     \/ pc[t] = "handles" /\ ~IoDrained(gate) /\ Goto(t, "drain")
  /\ UNCHANGED <<gate, record, nvs, storeLock, medium>>

\* writer_gate_quiescent copies the gate first and counts handles afterwards.
Drain(t) ==
  /\ \/ pc[t] = "drain" /\ IoDrained(gate) /\ Goto(t, "handles")
     \/ pc[t] = "handles" /\ handles = 0 /\ Goto(t, "refresh")
     \/ pc[t] = "handles" /\ handles # 0 /\ Goto(t, "drain")
  /\ UNCHANGED <<gate, record, nvs, storeLock, medium>>

\* Mutant of DrainTimeout: only I/O in flight is waited for with a deadline.
MDrainTimeout(t) ==
  /\ pc[t] = "drain" /\ ~IoDrained(gate)
  /\ Goto(t, "quarantine")
  /\ UNCHANGED <<gate, record, nvs, storeLock, medium>>

\* writer_wait_quiescent gives up after two seconds of failed polls.
DrainTimeout(t) ==
  /\ \/ pc[t] = "drain" /\ ~IoDrained(gate)
     \/ pc[t] = "handles" /\ handles # 0
  /\ Goto(t, "quarantine")
  /\ UNCHANGED <<gate, record, nvs, storeLock, medium>>

\* Mutant of NeedsStore: the host's own eject and load leave no record.
MNeedsStore(t) == loc[t].op \in {"ACQUIRE", "RELEASE"}

\* Only a volume that was ever leased keeps a record of its mode.
NeedsStore(t) == loc[t].op \in {"ACQUIRE", "RELEASE"} \/ loc[t].managed

\* writer_refresh: sync and mount again, unless a file has been opened.
Refresh(t) ==
  /\ pc[t] = "refresh"
  /\ \/ handles = 0 /\ Goto(t, IF NeedsStore(t) THEN "store" ELSE "finish")
     \/ Goto(t, "quarantine")
  /\ UNCHANGED <<gate, record, nvs, storeLock, medium>>

\* The record a task writes.
Target(t) ==
  CASE loc[t].op = "ACQUIRE" -> [state |-> "LEASED", session |-> loc[t].session,
                                 lease |-> loc[t].lease]
    [] loc[t].op \in {"RELEASE", "EJECT"} -> Plain("HANDOFF")
    [] loc[t].op = "LOAD" -> Plain("MANAGED_HOST")
    [] OTHER -> Plain("QUARANTINE")

\* writer_store_state_allowed, before the write.
StoreAllowed(t) ==
  CASE loc[t].op = "QUARANTINE" -> gate.quarantined
    [] loc[t].op = "ACQUIRE" -> ~gate.quarantined /\ gate.transition_pending /\ ~gate.lease_held
    [] OTHER -> ~gate.quarantined /\ gate.transition_pending /\ gate.managed

\* The check after the write: the transition must still be under way.
StillAllowed(t) ==
  IF loc[t].op = "QUARANTINE" THEN gate.quarantined
  ELSE /\ ~gate.quarantined /\ gate.transition_pending
       /\ loc[t].op = "ACQUIRE" \/ gate.managed

\* A failed store quarantines, except when it was the quarantine's own.
StoreFails(t) == IF loc[t].op = "QUARANTINE" THEN Idle(t) ELSE Goto(t, "quarantine")

StoreTake(t) ==
  /\ pc[t] = "store"
  /\ storeLock = NoTask
  /\ \/ StoreAllowed(t) /\ storeLock' = t /\ Goto(t, "commit")
     \/ ~StoreAllowed(t) /\ StoreFails(t) /\ UNCHANGED storeLock
  /\ UNCHANGED <<gate, record, nvs, medium>>

\* nvs_set_blob and nvs_commit; a failed call may have written or not.
StoreCommit(t) ==
  /\ pc[t] = "commit"
  /\ \/ nvs' = Target(t) /\ Goto(t, "storeCheck") /\ UNCHANGED storeLock
     \/ /\ NvsFails
        /\ nvs' \in {nvs, Target(t)}
        /\ StoreFails(t)
        /\ storeLock' = NoTask
  /\ UNCHANGED <<gate, record, medium>>

StoreCheck(t) ==
  /\ pc[t] = "storeCheck"
  /\ storeLock' = NoTask
  /\ \/ /\ StillAllowed(t)
        /\ record' = Target(t)
        /\ IF loc[t].op = "QUARANTINE" THEN Idle(t) ELSE Goto(t, "finish")
     \/ /\ ~StillAllowed(t)
        /\ StoreFails(t)
        /\ UNCHANGED record
  /\ UNCHANGED <<gate, nvs, medium>>

Finish(t) ==
  /\ pc[t] = "finish"
  /\ \/ /\ MayFinish(loc[t].op, gate)
        /\ gate' = Finished(loc[t].op, gate)
        /\ Idle(t)
     \/ /\ ~MayFinish(loc[t].op, gate)
        /\ Goto(t, "quarantine")
        /\ UNCHANGED gate
  /\ UNCHANGED <<record, nvs, storeLock, medium>>

(***************************************************************************)
(* Mass storage and file access.                                           *)
(***************************************************************************)
\* tud_msc_read10_cb and tud_msc_write10_cb: one chunk.
HostIoBegin(writing) ==
  /\ pc["usb"] = "idle"
  /\ HostWritable(gate)
  /\ writing => gate.pending_write_sync < MaxWrites
  /\ gate' = [gate EXCEPT !.in_flight_io = @ + 1]
  /\ Enter("usb", "hostIo", [NoLocal EXCEPT !.writing = writing])
  /\ UNCHANGED <<record, nvs, storeLock, medium>>

\* A chunk that fails on the medium quarantines.
HostIoFinish ==
  /\ pc["usb"] = "hostIo"
  /\ \/ /\ gate' = [gate EXCEPT !.in_flight_io = @ - 1,
                                !.pending_write_sync = IF loc["usb"].writing THEN @ + 1 ELSE @]
        /\ Idle("usb")
     \/ /\ gate' = [gate EXCEPT !.in_flight_io = @ - 1]
        /\ Goto("usb", "quarantine")
  /\ UNCHANGED <<record, nvs, storeLock, medium>>

\* tud_msc_write10_complete_cb, once per command.
HostSyncBegin ==
  /\ pc["usb"] = "idle"
  /\ gate.pending_write_sync # 0
  /\ ~gate.quarantined
  /\ Enter("usb", "sync", [NoLocal EXCEPT !.sequence = gate.pending_write_sync])
  /\ UNCHANGED <<gate, record, nvs, storeLock, medium>>

HostWriteComplete ==
  LET covered == gate.pending_write_sync >= loc["usb"].sequence
  IN /\ pc["usb"] = "sync"
     /\ \/ /\ covered
           /\ gate' = [gate EXCEPT !.pending_write_sync =
                         IF @ = loc["usb"].sequence THEN 0 ELSE @]
           /\ Idle("usb")
        \/ /\ gate' = [gate EXCEPT !.quarantined = TRUE, !.ejected = TRUE]
           /\ Goto("usb", "quarantine")
     /\ UNCHANGED <<record, nvs, storeLock, medium>>

\* A file operation of the interpreter, or a whole upload.
VfsBegin(t) ==
  /\ t \in VfsTasks /\ pc[t] = "idle"
  /\ PythonIoAllowed(gate)
  /\ gate' = [gate EXCEPT !.in_flight_io = @ + 1]
  /\ Goto(t, "vfs")
  /\ UNCHANGED <<record, nvs, storeLock, medium>>

\* open(): the handle is counted before the operation ends.
VfsOpened ==
  /\ pc["vm"] = "vfs"
  /\ handles < MaxHandles
  /\ handles' = handles + 1
  /\ Goto("vm", "vfsFinish")
  /\ UNCHANGED <<gate, record, nvs, storeLock, session, counters>>

VfsFinish(t) ==
  /\ pc[t] \in {"vfs", "vfsFinish"}
  /\ gate' = [gate EXCEPT !.in_flight_io = @ - 1]
  /\ Goto(t, "idle")
  /\ UNCHANGED <<record, nvs, storeLock, medium>>

\* close() passes no gate.
VfsClose ==
  /\ pc["vm"] = "idle"
  /\ handles > 0
  /\ handles' = handles - 1
  /\ UNCHANGED <<gate, record, nvs, storeLock, session, pc, loc, counters>>

(***************************************************************************)
(* Sessions, soft resets and power failures.                               *)
(***************************************************************************)
\* A session ends, or a new one completes its handshake, in task t.
SessionTransition(t) ==
  LET id == IF session.id = 0 THEN sessions + 1 ELSE 0
      generation == session.generation + 1
  IN /\ t \in SessionTasks /\ pc[t] = "idle"
     /\ id <= MaxSessions
     /\ session' = [id |-> id, generation |-> generation]
     /\ sessions' = IF id = 0 THEN sessions ELSE id
     /\ Enter(t, "callback", [NoLocal EXCEPT !.session = id, !.generation = generation])
     /\ UNCHANGED <<gate, record, nvs, storeLock, handles, leases, crashes, resets>>

\* ev_control_session_changed returns early when it has been overtaken.
CallbackCheck(t) ==
  /\ pc[t] = "callback"
  /\ \/ session.generation = loc[t].generation /\ Goto(t, "changed")
     \/ session.generation # loc[t].generation /\ Idle(t)
  /\ UNCHANGED <<gate, record, nvs, storeLock, medium>>

\* Mutant of SessionChanged: the lease goes, but the record stays.
MSessionChanged(t) ==
  LET invalidate == /\ gate.lease_held \/ gate.transition_pending
                    /\ loc[t].session = 0 \/ loc[t].session # record.session
  IN /\ pc[t] = "changed"
     /\ gate' = IF invalidate THEN Quarantined(gate) ELSE gate
     /\ Idle(t)
     /\ UNCHANGED <<record, nvs, storeLock, medium>>

\* esp_vision_msc_writer_session_changed: the lease of another session, or a
\* transition in progress, is quarantined.
SessionChanged(t) ==
  LET invalidate == /\ gate.lease_held \/ gate.transition_pending
                    /\ loc[t].session = 0 \/ loc[t].session # record.session
  IN /\ pc[t] = "changed"
     /\ \/ /\ invalidate
           /\ gate' = Quarantined(gate)
           /\ Enter(t, "store", [NoLocal EXCEPT !.op = "QUARANTINE"])
        \/ /\ ~invalidate
           /\ Idle(t)
           /\ UNCHANGED gate
     /\ UNCHANGED <<record, nvs, storeLock, medium>>

\* ev_control_transport_vm_reset_begin: the lease is invalidated first, the
\* epoch (and with it input_generation) advances afterwards.
VmResetBegin ==
  /\ pc["vm"] = "idle"
  /\ resets < MaxResets
  /\ resets' = resets + 1
  /\ Enter("vm", "changed", NoLocal)
  /\ UNCHANGED <<gate, record, nvs, storeLock, handles, session, leases, sessions, crashes>>

\* ev_session_vm_epoch_advance.
VmEpochAdvance ==
  /\ pc["vm"] = "epoch"
  /\ session' = [session EXCEPT !.generation = @ + 1]
  /\ Goto("vm", "idle")
  /\ UNCHANGED <<gate, record, nvs, storeLock, handles, counters>>

\* esp_vision_msc_writer_init: an interrupted lease is never resumed.
Recovered(r) ==
  CASE r.state = "HOST" -> GateInit(FALSE, FALSE)
    [] r.state = "MANAGED_HOST" -> [GateInit(FALSE, FALSE) EXCEPT !.managed = TRUE]
    [] r.state = "HANDOFF" -> GateInit(FALSE, TRUE)
    [] OTHER -> GateInit(TRUE, FALSE)

\* The power fails and the device starts again; a record that cannot be read
\* quarantines.
Crash ==
  /\ crashes < MaxCrashes
  /\ crashes' = crashes + 1
  /\ \/ gate' = Recovered(nvs) /\ record' = nvs
     \/ NvsFails /\ gate' = GateInit(TRUE, FALSE) /\ record' = Plain("QUARANTINE")
  /\ storeLock' = NoTask
  /\ handles' = 0
  /\ session' = [id |-> 0, generation |-> 0]
  /\ pc' = [t \in Task |-> "idle"]
  /\ loc' = [t \in Task |-> NoLocal]
  /\ UNCHANGED <<nvs, leases, sessions, resets>>

Init ==
  /\ gate = Recovered(Plain("HOST"))
  /\ record = Plain("HOST")
  /\ nvs = Plain("HOST")
  /\ storeLock = NoTask
  /\ handles = 0
  /\ session = [id |-> 0, generation |-> 0]
  /\ pc = [t \in Task |-> "idle"]
  /\ loc = [t \in Task |-> NoLocal]
  /\ leases = 0 /\ sessions = 0 /\ crashes = 0 /\ resets = 0

\* The steps by which task t carries a transition or a quarantine to its end.
Continue(t) ==
  \/ AcquireStart(t) \/ ReleaseStart(t)
  \/ Drain(t) \/ Refresh(t)
  \/ StoreTake(t) \/ StoreCommit(t) \/ StoreCheck(t)
  \/ Finish(t) \/ Quarantine(t)

Next ==
  \/ \E t \in Task :
       \/ Continue(t) \/ DrainTimeout(t)
       \/ AcquireRequest(t) \/ ReleaseRequest(t)
       \/ VfsBegin(t) \/ VfsFinish(t)
       \/ SessionTransition(t) \/ CallbackCheck(t) \/ SessionChanged(t)
  \/ \E op \in {"EJECT", "LOAD"} : HostStartStop(op)
  \/ \E writing \in BOOLEAN : HostIoBegin(writing)
  \/ HostIoFinish \/ HostSyncBegin \/ HostWriteComplete
  \/ VfsOpened \/ VfsClose
  \/ VmResetBegin \/ VmEpochAdvance
  \/ Crash

Spec == Init /\ [][Next]_vars

\* A ready task runs, and the deadline of a drain passes.  Nothing obliges the
\* host to complete a write, a script to close a file or an upload to end.
Fairness == \A t \in Task : WF_vars(Continue(t)) /\ SF_vars(DrainTimeout(t))
FairSpec == Spec /\ Fairness

(***************************************************************************)
(* Properties.                                                             *)
(***************************************************************************)
\* Type correctness; the I/O count of the gate is the number of operations
\* begun and not finished, and the store lock is held by the task that writes.
TypeOK ==
  /\ gate \in Gate
  /\ record \in Record /\ nvs \in Record
  /\ storeLock \in Task \cup {NoTask}
  /\ handles \in 0..MaxHandles
  /\ session \in [id : Nat, generation : Nat]
  /\ pc \in [Task -> PC] /\ loc \in [Task -> Local]
  /\ gate.in_flight_io = Cardinality({t \in Task : pc[t] \in {"hostIo", "vfs", "vfsFinish"}})
  /\ \A t \in Task : pc[t] \in {"commit", "storeCheck"} <=> storeLock = t

HostActive == pc["usb"] \in {"hostIo", "sync"} \/ gate.pending_write_sync # 0
DeviceActive == handles # 0 \/ \E t \in VfsTasks : pc[t] \in {"vfs", "vfsFinish"}

\* Once a volume has been leased, the USB host and the device never use it at
\* the same time: while one has data in flight, written and not synchronised,
\* or a file open, the other has none (storage_writer_gate.h).
OneWriter == gate.managed /\ ~gate.quarantined => ~(HostActive /\ DeviceActive)

\* The gate counts what is in flight, and host and device take turns.
WriterInv == TypeOK /\ OneWriter

\* What a transition has drained stays drained until it ends: the volume is
\* mounted again, and its new mode recorded, with no operation in flight on
\* either side and no file open (writer_gate_quiescent reads the two in turn).
DrainHolds ==
  \A t \in Task :
    pc[t] \in {"refresh", "store", "commit", "storeCheck", "finish"} /\ loc[t].op # "QUARANTINE" =>
      ~HostActive /\ ~DeviceActive

\* A power failure while the volume is at rest does not change who may write it:
\* what esp_vision_msc_writer_init would recover is the mode in force, except
\* that a lease is recovered as a quarantine, and the eject of a volume that was
\* never leased is forgotten.
RecoveryAgrees ==
  ~gate.transition_pending /\ ~gate.quarantined =>
    LET after == Recovered(nvs)
    IN IF gate.lease_held THEN after.quarantined /\ nvs = record
       ELSE /\ ~after.quarantined
            /\ after.managed = gate.managed
            /\ gate.managed => /\ HostWritable(after) = HostWritable(gate)
                              /\ PythonIoAllowed(after) = PythonIoAllowed(gate)

\* A quarantine is permanent: unless a task is still about to record it, a power
\* failure finds it in NVS, whatever other record was being written when it was
\* imposed (writer_store).  Stated for an NVS whose writes succeed.
QuarantineIsStored ==
  ~NvsFails /\ gate.quarantined =>
    \/ Recovered(nvs).quarantined
    \/ \E t \in Task : pc[t] = "quarantine" \/ loc[t].op = "QUARANTINE"

\* What NVS holds is what the next start needs, at rest and in quarantine.
RecordInv == RecoveryAgrees /\ QuarantineIsStored

\* No transition is pending for ever, whatever the host, scripts and uploads do
\* (WRITER_DRAIN_TIMEOUT_MS).
TransitionEnds == gate.transition_pending ~> ~gate.transition_pending

\* A lease belongs to the session that is there: the session of the lease is
\* the current one, or the callback of the transition that ended it is still
\* to come (ev_control_transport.c, ev_control_session_changed).
LeaseHasSession ==
  gate.lease_held =>
    \/ record.session = session.id
    \/ \E t \in Task : pc[t] \in {"callback", "changed"}
\* Who may begin to use the volume, and who is using it.
VolumeMode ==
  IF gate.quarantined THEN "quarantined"
  ELSE IF gate.lease_held THEN "leased"
  ELSE IF gate.managed THEN "managed"
  ELSE "shared"
Allowed == {w \in {"host", "device"} :
              IF w = "host" THEN HostWritable(gate) ELSE PythonIoAllowed(gate)}
Busy == {w \in {"host", "device"} : IF w = "host" THEN HostActive ELSE DeviceActive}
Volume == INSTANCE VolumeWriter
  WITH mode <- VolumeMode, allowed <- Allowed, busy <- Busy, Fallible <- NvsFails

\* The volume changes hands only by way of nobody and after its users have
\* stopped; from a lease it goes back to the device, never straight to the host;
\* and a power failure leaves it to whom it was, or quarantines what was leased
\* or changing hands (storage_writer_gate.h, storage_writer_msc.c).
HandsOver == Volume!Spec
=============================================================================
