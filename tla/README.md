# A TLA+ development of the ESP-VISION firmware's control plane

ESP-VISION runs MicroPython on ESP32-class chips and lets one host at a time
control the device over UART, USB or TCP. The modules here model the part of
the firmware that decides *who* controls the device and what reaches it: the
EV-MUX session, its lease and its output routes, the transmit worker, the links
below it, the hand-over of a storage volume between the USB host and the
device, uploads, the change of the UART's speed, the Wi-Fi station, the input
that reaches the interpreter, and what the launcher knows of the scripts it runs.
TLC checks small instances of them; for every value of the constants TLAPS
proves the routes, completions and serial links of the session, the storage
writer, the upload with its abstract specification, the input of the
interpreter, the launcher, the speed change and the gate of the Wi-Fi station.

All paths below are relative to the repository. A definition of a module keeps
the name of the function it models where it can; `PROJECT.json` gives the
source lines of each.

## 1. Inventory

### Tasks

| task | code | does |
|------|------|------|
| `transport` | `ev_control_transport.c`, `_task`, `_pump` | reads USB, UART and USB-serial links, parses frames, serves requests, runs the lease tick, the baud time-outs and the upload's poll |
| `tcp` | `ev_tcp.c`, `ev_tcp_task` | accepts and closes sockets, parses their frames, serves their requests |
| `tx` | `ev_mux.c`, `ev_mux_tx_task` | sends queued frames, runs their completions, fails sessions it cannot write to |
| interpreter | `main.c`, `mp_task` | runs Python, reads input, serves VM requests, soft resets |
| `ev_network`, event task | `network_service.c` | runs the owner's Wi-Fi operations and reconnects; records what the driver reports |
| TinyUSB | `usb_msc.c`, `ev_cdc_rx.h` | mass storage commands, CDC receive ring |

The first three are created without a core, so on a dual-core chip they really
run beside each other and beside the interpreter. They share state under short
locks: the session mutex, the link registry mutex, the route-apply mutex, one
mutex per transmit queue, the mutex of the special frames, the VM queue mutex
and spin locks (REPL ring, storage gate, UART baud, launcher). The difficult
behaviour lies *between* these critical sections: a value read under one lock
is used under the next.

### Components

| component | state | operations | interacts through | what makes it correct |
|---|---|---|---|---|
| Session (`ev_session.c`) | FREE/OWNED/RELEASING, owner link, session id, nonce, VM epoch, input generation, transition id, last activity | acquire, hello_complete, keepalive, authorize, release_prepare, release_finish, link_lost, tick, vm_epoch_advance | route writers, session callback | one owner; routes follow it; release and loss always end; a silent host's lease ends, and an active one's only by the race of finding 1 |
| Link registry and routes (`ev_transport.c`, `ev_channel.c`) | generation and open flag per link, two owner references | open, close, advance_generation, set_owner | references `(link, generation)` held by everyone | a stale reference never acts on a newer link |
| Transmit worker (`ev_mux.c`) | per-target frame slots, arenas of blocks, the quota two TCP queues share, one large answer, two preview buffers, observers' previews | submit, choose, send piecemeal, expire, cancel, fail the session | completions call back into the session | quotas and blocks neither leak nor are counted twice; a cut frame is never followed by another on the same connection; every frame leaves and every completion arrives |
| Control transport (`ev_control_transport.c`) | parsers, VM queue, REPL ring, response context | frame handler, RPC methods, session callback, CDC open/close | calls all others | requests of a dead generation do nothing; requests of a live one are answered |
| TCP links (`ev_tcp.c`) | socket table, pending closes, listener | accept, read, close, notice of another task, handshake and idle deadlines | registry, session | a pending close never hits the next connection; no socket is lost; an invalidated link gives its slot back |
| Storage writer (`storage_writer_gate.h`, `storage_writer_msc.c`) | gate flags, I/O counts, NVS record | acquire, release, eject, load, quarantine, recovery | MSC callbacks, VFS, session callback | one writer at a time; what a power failure leaves agrees with what was in force |
| Mass storage, VFS (`usb_msc.c`, `storage_vfs.c`) | open handles | READ10/WRITE10, open/close | storage gate | admitted only for the side that has the volume |
| File upload (`ev_file_transfer.c`) | the one upload, its staging file, digest, time of last use | begin, write, commit, abort, poll | storage gate, session, file system | the target holds the old or the whole new file; the gate is held exactly while an upload needs it; an abandoned upload ends |
| REPL ring, VM output origin (`ev_repl_queue.h`, `ev_vm_output.c`) | ring with a guard generation; origin of line and command | push, pop, pending, clear; accept, scope push/pop | interpreter's reader | a command is one host's |
| UART speed (`ev_uart_baud.h` and its callers) | phase, requested speed, owner, time stamp; pause of the output | prepare, switch, probe, commit, poll, restore | session, transmit completions, UART driver | the line is at a speed both sides know; the speed changes only with the line quiet; a pause ends |
| Launcher state (`ev_launcher_state.c`) | record of the application, record of the trial, boot window | arm, cancel, begin, finish, reset | VM epoch, script.run | what is reported as running is running; a trial runs at most once |
| USB CDC receive ring (`ev_cdc_rx.h`, `mp_usbd_cdc.c`) | generation of the connection, tagged ring, pending flag | mount, unmount, receive, pump, read, restart | transport task | bytes of one connection are never parsed as those of another; input moves |
| Network service (`network_service.c`, `network_wlan.c`) | flags of the station, stored record in RAM and NVS, the one operation, its last result | configure, enable, forget, reconnect; the driver's events; WLAN connect, disconnect, active, config | driver, NVS, Python, transmit completion of the answer | what an operation reported as done is in force; every operation ends; Python and the owner do not change the station at once |
| Auto-download, restart, discovery, storage mount, standard streams | own phases | - | session, VM epoch | not modelled, see section 6 |
| Camera, codecs, displays, imlib, bindings, boards, host tools | - | - | - | not modelled, see section 6 |

The hazards this list leads to are in `PROJECT.json`, each at its line, with the
properties that would catch it.

## 2. Modules

### `EvSession`: ownership, routes and completions

Variables: the registry (`links`), `s_session` (`session`), the two routes
(`transportOwner`, `channelOwner`), the holder of the route-apply lock, the
transmit slots of each link (`txq`), and for each of the three tasks a control
point and its locals (`pc`, `loc`).

One action is one critical section. `ev_session_acquire`, for example, is
`HelloBegin` (link check), `AcquireLocked` (the grant), `AcquireRecheck` (link
check after the grant); `ev_session_apply_route` is `ApplyRoute` (compare under
the session lock), `SetTransportOwner`, `ChannelCheck`, `ChannelSet`: the code
writes the routes *after* it has dropped the session lock, and the model lets
every other task move in between. Frame completions (`TxSent`, `TxFailed`,
`TxDropped`) lead to `HelloDone`, the finish of a release, or a closed link. Links come
and go (`LinkUp`, `LinkDown`, `CdcRefresh`, `UartRestore`), and `TickExpire`
may find any OWNED session expired.

Abstractions: a session id is the number of the transition that granted it (the
code draws 128 random bits); 32-bit counters do not wrap; any queued frame may
be the next one sent (the code's priorities only choose among these orders);
only frames that carry a session completion are in the queue, the others appear
as a full queue's refusal; a CDC close and reopen are two actions.

### `EvLease`: the clock

The session reduced to FREE/OWNED and `last_activity_ms`, with a clock that
wraps, a sample taken *before* the lock (`Sample`, then `HelloCalled`,
`KeepaliveCalled` or `TickCalled`), and a bound on how late a sampled value is
used. `age`, which the code does not have, is the true time since the recorded
activity.

Two kinds of task refresh the lease. Those that receive (`Receivers`: transport, and
tcp where there is TCP) do it for hello, keepalive and every request they authorise.
The interpreter's (`Interpreter`) does it on every device, USB and serial alone
included: `ev_control_transport_vm_poll` authorises each request of the VM queue once
more before it runs it, with a sample of its own. The tick runs in the transport task,
so there is always a refresher beside it, and a refresh may fall between the tick's
sample and its lock. That interleaving is in every instance; `ExpiresIdleOrOvertaken`
says it is the only way to lose a lease early, `ExpiresOnlyWhenIdle`, which the session's tests
suggest, is what it violates.

### `EvMux`: queues, special frames and the worker

`frames` holds the frames in use by place: the slots of a target's queue, the
large answer, the owner's two previews, the observers' previews. Beside it
stand the C counters that must agree with it: `used` (per queue), `quota` (the
`s_tcp_*_used` of all TCP frames, of discovery frames and of low-priority
frames) and `freeBlocks`. `received` is a history: what the peer of each target
can make of the bytes it got.

A submission holds a mutex from its checks to its end and is one step; one that
is refused changes nothing and is no step. A visit of the worker to a target is
one step: expire, choose, write a piece, finish or fail. The worker takes
`s_special_mutex` without waiting, so every visit happens with and without it
(`locked`). What it does after giving the mutexes back are steps of their own
(`LinkLost`, `CloseLink`), as is each queue that `ev_mux_cancel_session` and
`ev_mux_cancel_vm_epoch` go through (`CancelQueue`, `CancelBusy`).

Abstractions: `tx_offset` is reduced to "not started, started, all written";
the clock to `late` (two seconds in the queue) and `overdue` (the frame's own
deadline). The session, the links, the VM epoch and the pause of the UART
belong to other modules and change here at any time. Left out: frame headers
and CRC, tickets and `ev_mux_wait`, the staging of REPL output and its origin,
the frames that only `uart.baud` answers use. The code draws a frame's
`enqueue_order` before it takes `s_special_mutex`, so two special frames prepared at
once may be stored in the other order than they are numbered; the model numbers a
frame when it is stored. Which of two frames goes first is a preference of the worker
that no property depends on.

### `EvTcp`: the socket table

The slots of `ev_tcp.c`, the TCP part of the registry, the pending closes, the
manager task, the descriptors lwIP has open. Other tasks end a link in two
steps: invalidate its generation (`closers`), then leave a notice
(`CloserMarks`); the manager goes on in between. A manager step is what it does
between two points where another task can matter: it takes the descriptor out
of the slot under the lock and closes it in a step of its own, after the lock.
Deadlines may have passed whenever the code asks; what the network does is a
choice.

### `CdcRx`: the USB receive ring

`mp_usbd_lock` makes each function of `mp_usbd_cdc.c` one step; the bus may be
mounted anew, with or without an unmount callback, between any two. A round of
the transport task is `cdc_update` (what it read of the bus, then what it does
to the link), the read, the parser. `GenerationMax` stands for `UINT32_MAX`,
where the code stops receiving. A byte carries the number of the connection it
was sent on, which the code cannot see.

### `StorageWriter` and `VolumeWriter`: the storage gate and its NVS record

`gate`, `record` and `nvs` are the C structures; the USB task, the interpreter,
an upload, the task that serves requests and the task that runs the session
callback take one critical section at a time. `Crash` may happen between any two
steps and keeps `nvs` alone; `Recovered` is `esp_vision_msc_writer_init`. One
volume is modelled: the gates of flash and SD card share only the store lock.
Operation ids, chosen by the client, are folded into the lease id.

`VolumeWriter` says the same without gate, drain and record: a volume is shared by
host and device until its first lease, then it is somebody's, leased, or in
quarantine; `allowed` says who may begin to use it and `busy` who does. It changes
hands only when `allowed` and `busy` are empty; a lease is given back to the device,
and the host gets the volume by a load of its own; a power failure while it is
somebody's leaves it his, or quarantines a lease. In `StorageWriter` the host is
allowed when `HostWritable` holds of the gate and the device when `PythonIoAllowed`
does; they are busy as in `OneWriter`. Begin and end of a transition are `Close` and
one of the four actions that open the volume; what lies between (drain, refresh,
NVS) stutters; `Crash` is `Restart`, which in the midst of a transition leaves
several outcomes and at rest one.

### `FileTransfer` and `PublishedFile`: an upload

`FileTransfer` is `ev_file_transfer.c`. Each handler holds `s_lock` from its
first check to its return, so one runs at a time and `step` says how far it is:
a step is one call of the file system, which is atomic and may fail. What
the upload shares with the rest changes between two such calls: the session
(`SessionChange`), the target, which a script may create or remove (`Script`),
and the power (`Crash`, after which only `disk` is left). `publish()` is six
actions, from the examination of the target to the rollback.

`PublishedFile` is what the owner of the target was promised: its content is
replaced in one step by a whole, checked file, or not at all. There is one
exception, which the code makes: a publication that is given up may undo what
scripts did to the target since it set the content aside. `FileTransfer`
implements it under this mapping: `content` is what the target's name holds, or
else what the backup holds that displaced it (the history variable `displaced`
says whose backup that is); `checked` is the staging file while `publish()` is
at work; `aside` is the backup between the rename to it and the end of the swap
or the rollback (`BackedUp`); steps of scripts are counted on both sides, so that
no step of an upload can pass for a script's.

### `NetworkService`: the Wi-Fi station

`net` holds the flags of `network_service.c` under `s_lock` (`inProgress` is
`s_connect_in_progress`, `mutating` is `s_python_mutation_active`, `resume` is
`s_reconnect_paused`, `address` says that `s_ipv4` is not empty, `waiting` that
`s_retry_at_us` lies ahead), `config` and `netNvs` the record in RAM and in NVS,
`operation` and `lastOperation` the one operation and the last result. Four
parties move: the receiving task (`Submit`, `Release`), the worker, a WLAN method
(`Python...`), and the event task (`HandleEvent`), which learns of what the driver
did (`AccessPointActs`) later than it happens. A critical section, a call of the
driver or a write of NVS is a step of its own, except where two follow each
other and nobody else can tell. `connect_record` serves the start, a configure
and its rollback; `netWorker.for` says which. The driver is external: each of
its calls may fail, an `nvs_set_blob` that fails may have written. `s_sta_active`
and `s_sta_associated` are left out: the first only decides whether
`WLAN.active(False)` calls a driver that is off anyway, the second only ends a
wait that may time out in any case.

### `UartBaud`: the change of the speed

The transport task runs the request handlers and the poll. A handler is one
step; the poll is three (`PollRead`, `PollCheck`, `PollSetDone`/`PollSetBusy`),
since it reads session and clock before the spin lock and sets the speed after
it. The transmit worker starts a frame, finishes or drops it and runs its
completion; bytes in the FIFO (`wire`) drain later. Anybody may end the
session. Requests carry what the handlers compare and no more. The client is
one that keeps to the protocol: it uses a token once, says hello at the
baseline, and is silent between the answer to prepare and the switch; a client
that does not may only lose its own frames.

### `LauncherState`: the application and the trial

Each function of `ev_launcher_state.c` is one critical section. Those that arm
and begin read the VM epoch before it; only the interpreter's task advances the
epoch, and they run in that task or under the interpreter's lock, so the reading
belongs to the same step. Who calls what in which order comes from the boot
sequence, the soft reset, `script.run` and the two execute functions of the
launcher's module. A path and its digest belong to the operation id. `ran` and
`revoked` are histories.

### `VmInput`: the REPL ring, the VM queue and the reader

The session is reduced to what `ev_session_authorize` looks at. A request
carries its input generation alone: link, session id, VM epoch and transition
are read in the same critical section, and whatever changes one of them
advances the generation. One frame of `repl.stdin` is one entry of the ring.
The reader is split as `ev_control_repl_rx_pop` is: stale-origin test
(`ReadStart`), session snapshot and acceptance (`ReadSnapshot`), ring (`Pop`).
A soft reset is taken step by step. `Execute`, `ExecuteEnd` and `Restart` stand for
`pyexec.c` and `nlr_jump_fail`.

### How the modules fit together

`EvSession` owns the state the others depend on: who the owner is, whether a
link is up, which VM epoch it is. The other modules take these from it as an
environment that may change at *any* step (`SessionChange`, `OwnerEnds`,
`LinkCloses`, `VmReset`, ...), which includes every order `EvSession` can
produce; what they owe it in return is stated as their property: `EvSession`
takes for granted that a queued frame's completion comes (`FramesEnd` of
`EvMux`) and that a link invalidated by another task is closed
(`InvalidLinkEnds` of `EvTcp`). `StorageWriter` composes the gate with its
users: USB host, VFS and upload (the upload as a holder of an operation;
`FileTransfer` shows that it gives that back, `UploadInv` and `UploadEnds`).
`NetworkService` owes the session nothing; the completion of an answer that it
waits for at most a second is one more completion that `EvMux` gives.
A product of all of them is out of TLC's reach.

`MCEvSession` adds `active`, the links that move in a behaviour. `MCEvMux`
lists the scenarios a behaviour may begin with. `MCDeviceParts` puts `EvLease`,
`UartBaud`, `LauncherState`, `CdcRx` and `EvTcp` side by side: they share no
variable, so a property of one holds of all together exactly when it holds
while the others stand still; the initial state picks the one that moves and
its fairness is required of it alone. `MCHostServices` does the same for
`FileTransfer` and `NetworkService`. The other MC modules give model values.
`EvSessionProofs`, `EvSessionRoutes`, `StorageWriterProofs`, `FileTransferProofs`,
`VmInputProofs`, `EvMuxProofs` and `NetworkProofs` hold the theorems, each of the
module it is named after; `DevicePartsProofs` those of `LauncherState`, `EvTcp`,
`UartBaud`, `EvLease`, `CdcRx` and of `MCDeviceParts`, which puts them side by side;
`FileTransferProofs` that of `MCHostServices` too.

## 3. Runs

| run | instance | shows |
|---|---|---|
| `session_serial_and_tcp` | UART and one TCP slot, one queue slot each, 3 transitions | `RoutesFollowSession`; no session waits for a completion that will not come (`CompletionOutstanding`); a serial byte stream never changes hands silently (`SerialInv`: `StaleSerialOwnerIsTransient`, `SerialRouteOnlyForOwner`) |
| `session_usb_and_tcp` | one CDC link with 3 generations and soft resets, or one TCP slot; 2 nonces; fair | the inductive invariant `RouteInv` itself; `ReleaseEnds`, `DeadOwnerEnds` |
| `lease_race` (violation) | one receiving task and the interpreter's refresh the lease, as on a device without TCP | finding 1 |
| `writer_safety` | 2 sessions, 2 leases, power failure, soft reset | one writer (`WriterInv`), `DrainHolds`, `RecordInv` (`RecoveryAgrees`, `QuarantineIsStored`), the refinement `HandsOver` of `VolumeWriter` |
| `writer_faults` | NVS writes and reads fail, power fails, fair | `RecoveryAgrees`; every transition ends (`TransitionEnds`) |
| `writer_lease_binding` (violation) | one session, one lease | finding 2 |
| `vm_input` | one receiving task, 2 owners, 3 inputs, Ctrl-C, script.run, resets | `LineHasOneOrigin`, `InputKept`, the queues hold nothing of a past owner (`QueueInv`) |
| `vm_requests` | two receiving tasks, 2 owners, 2 requests, resets | no request is lost, answered twice or outlives its owner (`RequestInv`) |
| `vm_signal` (violation) | Ctrl-C against a command that ends | finding 3 |
| `host_services` | the upload or the Wi-Fi service, one moving at a time, fair. Upload: 2 ids, 2 uploads of up to 1 chunk, 2 sessions, 2 steps of scripts, 1 power failure, every file system call may fail. Wi-Fi: 2 networks, 2 operations or WLAN methods, 1 event waiting when the access point acts, every driver and NVS call may fail | the gate follows the upload, and the gate of the station holds (`ServicesInv`: `UploadInv`, `NetworkInv`); the refinement `ReplacesAtomically`; `NameComesBack`, `StagingIsOwn`, `UploadEnds`; `ResultInForce`, `OperationEnds` |
| `device_parts` | five parts, one moving at a time, fair | the lease (`ExpiresIdleOrOvertaken`, `SilentSessionEnds`), the speed (`KnownSpeed`, `SpeedChangeIsAgreed`, `PauseEnds`), the launcher (`RunningIsTrue`, `TrialRunsOnce`), the USB ring (`OneStream`, `InputMoves`), the sockets (`PartsInv`, `OnlyItsOwnClose`, `InvalidLinkEnds`) |
| `transmit` | 7 scenarios, the UART or two TCP links, fair | quotas and blocks (`MuxInv`), `StreamIsWhole`, `BufferHolds`, `FramesEnd`, `ObserverEnds` |

Type correctness of a component, and in some runs the simplest of its
invariants, is a conjunct of the named invariant (`WriterInv`, `QueueInv`,
`RequestInv`, `ServicesInv`, `PartsInv`, `MuxInv`, `RouteInv`, `SerialInv`).

**Why the bounds are enough for the cases that matter.**

- Session: three transitions hold grant, loss and the next grant, which is the
  shortest history in which an old writer can overwrite a newer route. One queue
  slot makes "queue full" ordinary; longer queues are the theorem's business.
  Three link generations hold open, close and reopen. USB and TCP links move in
  separate behaviours of one run; UART and TCP together are the other run.
- Lease: the clock (modulo 11) is a little more than twice the lease (4), so
  every phase of the wrap occurs, and the initial time is arbitrary. The transport
  task and the interpreter's are the two refreshers every device has; a TCP task
  would be a third that does what the transport task does beside its tick. A tick
  delayed by one is the least that a later activity can overtake.
- Storage: two leases are the least with which a late record of the first can
  meet the second.
- Input: generation 4 is the second owner of a device whose first owner has
  gone, or one owner across a soft reset; three inputs fill a ring of two and
  have one refused; the VM queue has its real length (2 slots, 1 usable). The
  symmetry in `vm_requests` exchanges the two receiving tasks, which `VmInput`
  never names.
- Upload: two ids let the second upload meet what the first left on the medium
  under the same and under another name; a file of one chunk is met before and
  after the chunk is written, and a file of none needs no write; the two steps of
  scripts can fall between any two calls, a write and a removal between the two
  renames included; the second session is the one an upload must not survive into.
  Longer files and more steps of scripts are the theorems' business.
- Wi-Fi: the second of two commands finds what the first left: a record changed or
  written in vain, Python's network in the driver, an event still to be handled.
  A second network is what a configure can replace the first by; nothing tells
  networks from each other, so the stored one is network 1. The access point acts
  when no event waits; the driver's own calls post theirs at any time, two in a
  row included.
- Speed: two speeds are the baseline and another; the second negotiation can
  follow a commit, a rollback or a change of the owner; two queued answers hold
  an answer behind which another waits.
- Launcher: two operations let one follow, repeat or cancel the other; three VMs
  hold a reset before, during and after a trial.
- USB ring: a generation that ends at 5 is reached and passed within three
  connections, since mount and unmount both count; a ring of two bytes has no room for the third.
- TCP: two slots are what the code has; the third connection reuses a slot.
- Transmit: a queue of two frames with one reserved, three bytes with one
  reserved and two blocks are each filled by two submissions, by frames,
  by bytes and by blocks in turn. All kinds of frames at once are out of reach; a
  scenario says which are submitted, on which targets, and what disturbs them,
  and each of the seven is there for one meeting: two links on one quota; a large
  answer or a preview between queued frames while the session, link or VM ends;
  previews of two owners in turn; endless observer previews on two links and on a
  link that is rotated; the paused UART.

Bounds on counters are in the guards of the actions that start something
(hello, link up, reset, request, submission, accept), never of those that finish
something.

**Fairness.** It is always that of a task's loop or of time.

- `EvSession`: tasks run (weak fairness of `Continue`); the worker visits every
  target each round and drops a frame after two seconds (strong fairness of
  `Transmit`, since a task between two steps disables it); the tick runs each
  round and nothing refreshes a lease whose link is gone (strong fairness of that
  tick alone; a live owner may stay for ever).
- `EvLease`: the pump loop comes round, calls made are completed.
- `StorageWriter`: tasks run and a drain's deadline passes; nothing obliges the
  host to finish a WRITE10, a script to close a file, or an upload to end.
- `FileTransfer`: a handler that has begun runs on, time passes, the transport
  task polls each round. Nothing obliges the client to do anything.
- `NetworkService`: the worker's loop goes on, and after a second the answer to an
  operation counts as sent. Nothing obliges the driver, the access point or Python.
- `UartBaud`: the poll's steps, the worker, the FIFO and the clock go on. Strong
  fairness of `PollSetDone`: polls come every 2 ms, and one of them finds the
  wire idle.
- `CdcRx`, `EvTcp`: the transport task's and the manager's loops go on; a task
  that invalidated a link leaves its notice.
- `EvMux`: the worker comes back to every target and finds `s_special_mutex`
  free now and then (strong fairness of a visit with it); time passes for every
  frame; closing and cancelling end.
- `VmInput` and `LauncherState` have no liveness property.

**Deadlock** is checked in every run but `host_services`, `device_parts` and
`transmit`, where the device may really stop: all uploads, operations, negotiations,
connections or submissions that the bounds allow are done and nothing is left to
do. `Rest` in `EvSession` is the device with all tasks idle and all queues
empty; there it may stay.

## 4. What the violated runs show

1. `lease_race`: `ev_session_tick` subtracts stamps as `uint32_t`. The pump task
   samples its clock, another task records a later activity, the difference
   wraps, and a session active a moment ago is expired. The other task is the
   interpreter's, on every device, when `ev_control_transport_vm_poll` authorises a
   queued request; with TCP it is the TCP task as well. `device_parts` and
   `ExpiryCorrect` show that nothing else ends a lease early.
2. `writer_lease_binding`: the session of a `storage.writer.acquire` may end,
   its callback included, before `begin_acquire`; the volume is then leased to
   a session that no longer exists, contrary to the comment in
   `ev_control_session_changed`.
3. `vm_signal`: `ev_control_deliver_ctrl_c` tests `mp_interrupt_char` and then
   schedules the interrupt; the interpreter may disarm it in between, which is
   what the comment above the function says must not happen.

Further observations are in the models and not stated as properties, since no
text of the repository says otherwise.

- The callback of a session's own hello, delayed until the host has begun an
  acquire, finds a transition whose record has no session id yet and quarantines
  the volume; it fails safe.
- A reader that took its snapshot before the handshake completed force-clears
  bytes that the new owner sent since; `InputKept` names this as the one way in
  which accepted input of a live generation is lost.
- `vm_queue_clear_stale` looks at the head of the queue only: `RequestInv` holds
  with the queue length the code has, and fails with 3 slots, where a live
  request queued behind a stale one would be dropped with it.
- A file that a script creates and removes again between the two renames of
  `publish()` leaves the target's name free, the swap fails for another reason,
  and the rollback (`ev_file_transfer.c:289-290`) puts back what was set aside: the
  script's removal is undone. Nothing is lost that anybody still had, but "not
  touched unless replaced" is not what happens; `PublishedFile!GiveUp` allows it
  and only it. It takes two steps of scripts inside one publication, and came to
  light when the refinement was proved for any number of them.
- The baud poll reads the clock before its critical section. The completion of
  the prepare answer may stamp `since_ms` in between; the unsigned difference is
  then huge and the negotiation is rolled back. The host falls back to the
  baseline and may ask again.
- The transmit worker drops a frame that spent two seconds in the queue only in
  a visit that finds nothing to send. A stream of fresh frames that never dries up
  keeps a late one in its slot, which is why `FramesEnd` is claimed of a finite
  number of submissions.
- The limits that keep discovery and low-priority frames from filling the shared
  TCP quota are independent of each other; together the two can fill it.
- `try_reconnect` claims the driver with `s_connect_in_progress`, so that, as its
  comment says, neither side enters the driver on a stale permission. The event
  task clears the same flag when it handles an event of the past, and
  `schedule_retry` clears it 100 ms after the call; in the first case a WLAN
  method can begin between the claim and `esp_wifi_connect`, and worker and Python
  are in the driver together. `GateHolds` is about the owner's operations, for
  which no such flag is used.
- A GOT_IP of the previous network that the event task has not handled when
  `connect_record` clears the address makes `wait_for_ip` succeed for a candidate
  that never connected, and it is persisted; "persists only after obtaining IP"
  (`docs/en/communication/host-integration.rst:105`) then holds of another
  network's address. A late DISCONNECTED can likewise end the wait early. The
  model has both behaviours (`ConnectDone`, `ConnectLost` after `HandleEvent`).
- `WLAN.connect` sets `s_connect_in_progress` after `esp_wifi_connect`; an event
  handled in between leaves the flag set with nothing under way, and WLAN methods
  get EBUSY until another event or operation clears it.
- A rollback whose `esp_wifi_set_config` fails leaves the candidate's name and
  password in the driver, with which `try_reconnect` then goes on: `ResultInForce`
  speaks of operations that succeeded.

## 5. Proofs

Assumptions on the constants, each in its module and evaluated by the runs:
`LinkAssumption` (the kinds of link are disjoint, `NoLink` and `NoNonce` are not
members) and `BoundAssumption` (the bounds are naturals) in `EvSession`;
`WriterAssumption` (the bounds are naturals, the tasks' names are apart) in
`StorageWriter`; `UploadAssumption` (the bounds are naturals) in `FileTransfer`;
`InputAssumption` (the queues have a slot, the kinds are among the four, the
bounds are naturals, the tasks' names are apart) in `VmInput`;
`NetworkAssumption` (the bounds are naturals, "no network" is none) in
`NetworkService`; `BaudsAssumption` (the baseline is a speed) and `BoundsAssumption` (bounds are
naturals) in `UartBaud`; `VmsAssumption` and `OperationsAssumption` (there is an
epoch; "no operation" is none) in `LauncherState`; `TcpAssumption` (slots are
numbers, the bound is a natural) in `EvTcp`; `LeaseAssumption` (a lease, a round of
the pump and two delays fit into the clock) in `EvLease`; `CdcAssumption` (there is a
generation, the bounds are naturals) in `CdcRx`; `MuxAssumption` (finitely many
targets, the UART among them, a reserve no larger than its queue, the bounds are
naturals) in `EvMux`. Apart from the clock's, nothing is assumed of their
size: the code's clock has 32 bits of milliseconds and its lease is seconds. One
theorem has a hypothesis on the constants, `RequestsCorrect`, and says why.

### Session

- `EvSessionProofs!TypeCorrect`: `Spec => []TypeOK`, one lemma per group of
  actions.
- `EvSessionRoutes!RouteInvariant`: `Spec => []RouteInv`.
- `EvSessionRoutes!RoutesCorrect`: `Spec => []RoutesFollowSession`.
- `EvSessionProofs!CompletionCorrect`: `Spec => []CompletionOutstanding`.
- `EvSessionRoutes!SerialCorrect`: `Spec => []SerialInv`.

`RoutesFollowSession` is not inductive: it says nothing while a writer is under
way, and an old writer may be under way when the newest is done. `RouteInv`
adds what excludes it. `LockInv`: the route lock is held exactly by a task
between comparison and last write, so there is one writer. `GenInv`: the
owner's reference came from the registry, so a generation cannot become current
again once passed. `SnapshotInv`: a snapshot is never newer than the session,
and one with the session's transition number has its owner. `AcquireInv`: a link is served
by one task, so a session cannot be released by the task that is still
answering its hello, and the snapshot of an acquisition under way stays OWNED.
`ProgressInv`: the writer of the latest transition, past its first write,
has written it right. `SettledInv`: either the task that made the latest transition
still has its route to apply, or the owner's link is gone, or both routes are
right and every remaining writer is a writer of the latest transition. The last
clause is the heart: a writer that passed its comparison before the latest
transition must finish before the new one gets the route lock, and the new one
then corrects both routes.

`CompletionOutstanding` says that a RELEASING session, or one before its
handshake, has its frame or the task that carries the frame's completion. A
frame could be there and no longer be the session's, so `CompletionInv` adds what
frames and tasks know of the id they carry (`KnowledgeInv`: `FrameKnows`,
`TaskKnows`): the session of that id is over, or it is the session, on the link
the frame is queued on and in the state the completion expects. It stays true since
an id is the number of the transition that granted it and is never used again
(`IdsInv`, `IdKnown`): whatever a session turns into later has a larger one.

`SerialInv` needs two parts more. `SerialRefsInv`: a reference on a serial link, in
a route or in a snapshot that is still to become one, is no newer than the link and
is current only as the owner's; its generation goes up only when its session
ends, so an old writer writes a reference that is no longer current, or the owner's.
`SerialStaysInv`: frames that close their link, and tasks that close or advance
one, are of links that are not serial. Both rest on `RouteInv` (a snapshot of the
present transition has the present owner) and on `CompletionInv` (the hello that
rotated the link is the one that gives the session back).

### Storage writer

- `StorageWriterProofs!WriterCorrect`: `Spec => []WriterInv`.
- `StorageWriterProofs!DrainCorrect`: `Spec => []DrainHolds`.
- `StorageWriterProofs!RecordCorrect`, `RecoveryCorrect`: `Spec => []RecordInv`,
  `Spec => []RecoveryAgrees`.

The first two follow from `SafeInv`. `PlaceInv` says for every place of a task
what the gate then is, so that a step is judged by the place it starts from;
`CountInv` ties `in_flight_io` to the tasks that are in flight, and `LockInv` the
store lock to the task that writes. `BodyInv`: one transition is between its
begin and its finish, and the gate refuses another. `QuietInv`: what that
transition has found drained or closed stays so, because everything that could
disturb it asks the gate first; this is `DrainHolds`, stated for each step of the
transition. `ModeInv` ties `ejected`, `managed`, `handoff_ready` and `lease_held` together.

`RecoveryAgrees` speaks of a volume at rest only. To have it when a transition
finishes, `StoredInv` follows the record while one is under way. `TransitInv`: at
its finish NVS holds what it set out to store, and a transition that stores
nothing finds HOST there, a volume never leased. `RestInv`: at rest NVS names the mode
in force. `ImposedInv`: a volume in quarantine whose record does not yet say so
has a task on its way to write it, and so has one over whose record a
transition may still write; without failing NVS writes this is `QuarantineIsStored`.

- `StorageWriterProofs!HandOverCorrect`: `Spec => HandsOver`, the refinement of
  `VolumeWriter`, with and without failing NVS calls.

Every action is one lemma: it uses the volume (`HostUses`, `DeviceUses`), closes it
(`CloseHand`), opens it (`FinishHand`), quarantines it or leaves it as it was. That it
opens only when nobody is busy is `QuietInv`. `CrashHand` needs more than `StoredInv`
says, since the power may also fail in the midst of a transition or after one has
failed and before its quarantine: `KeptInv` says that even then NVS never holds a mode
the volume was never in (no HOST once it was leased, no MANAGED_HOST during a lease, no
HANDOFF before the first), because a body that releases is one of a leased volume and
any other is not.

### File upload

- `FileTransferProofs!TransferCorrect`, `UploadCorrect`: `Spec => []TransferInv`,
  `Spec => []UploadInv`.
- `FileTransferProofs!StagingCorrect`, `NameCorrect`: `Spec => StagingIsOwn`,
  `Spec => NameComesBack`.
- `FileTransferProofs!PublishCorrect`: `Spec => ReplacesAtomically`, the refinement of
  `PublishedFile`.

`TransferInv` adds to `UploadInv` what a handler has established at each of its
steps (`StepInv`), that the staging file holds the chunks the client was told of,
and the one being answered (`StagedInv`), and that what was set aside is under the
backup's name while the target's is free (`BackupInv`).

Under the mapping the rename of the staging file, direct or in the swap, is
`Replace`; the rename to the backup is `SetAside`; the close that ends the checks of a
commit is `Check`; the rollback, each failure, the end of the session and the power
failure are `GiveUp`; a script's step is `Script`; all others stutter. The rename is a
`Replace` by a *whole* upload because of `StagedInv`, and the content is where the
mapping looks for it because of `BackupInv`.

### Input of the interpreter

- `VmInputProofs!QueueCorrect`: `Spec => []QueueInv`.
- `VmInputProofs!LineCorrect`: `Spec => []LineHasOneOrigin`.
- `VmInputProofs!KeptCorrect`: `Spec => InputKept`.
- `VmInputProofs!RequestsCorrect`: `QueueLen <= 2 => (Spec => []RequestInv)`.

`InputInv` is the invariant of the first three. `GuardInv`: what is in the ring is of
the generation that guards it, so a reader skips nothing it ought to have read.
`MeansInv`: a generation that was once authorised and is still live means a session
that is OWNED and has its handshake, and no soft reset past its epoch; hence
a check made before a queue's lock was taken is worth something under it, where the
generation alone is compared. `OrderInv`: requests are queued in the order of
their generations; since `clear_stale` looks at the head only, that is what makes
a live head stand for a queue all of whose requests are live. `CleanInv`: a queue
holds input of the past only while a callback that has not been overtaken, or a
reset, is on its way to clear it. `LineInv` binds the snapshot of the reader, between
acceptance and pop, to the origin of the line (`ReadyInv` and `SentInv` are about
soft resets and about who may hold a request).

`FateInv` follows each request by itself: answered, queued, or in the hands of
one task, in one of two roles there (the request it was called with, or the
expired head it is about to answer). A step hands a request on (`Hands`), and one that
is dropped is no longer authorised, which is final (`AuthorizedBefore`). The
hypothesis `QueueLen <= 2` is the code's constant (`EV_CONTROL_VM_QUEUE_LEN`,
`ev_control_transport.c:93`): with a third slot the statement is false (section 4), and
the proof uses it where the queue is cleared for the sake of its head.

### Launcher

- `DevicePartsProofs!RunningCorrect`: `LauncherSpec => []RunningIsTrue`.
- `DevicePartsProofs!TrialCorrect`: `LauncherSpec => []TrialRunsOnce`.
- `DevicePartsProofs!ResetCorrect`: a late end of an application or a trial never
  overwrites a reset's verdict (`ResetIsFinal`).

The invariant `LauncherInv` adds to the types and the two properties that a
record's parts agree (`RecordAgrees`: armed or running only when valid, the
operation is the last one armed) and that what is armed has neither begun nor
been revoked (`ArmedIsFresh`). Without the first, a finish or a reset could miss
the record it has to close; without the second, `TrialRunsOnce` says nothing of
the begin that is still to come. What makes it inductive in the code is that
`arm_trial` refuses the last operation id and that a reset closes the record
before the epoch advances.

### Speed of the UART

- `DevicePartsProofs!SpeedCorrect`: `BaudSpec => []KnownSpeed`.
- `DevicePartsProofs!ChangeCorrect`: `BaudSpec => SpeedChangeIsAgreed`.

`KnownSpeed` needs `PollAgrees`: the poll works without the lock between its
steps, and only the end of the session can overtake it, since requests are
handled by the same task and no completion changes a negotiation that is to be
switched (`BaudInv`). `SpeedChangeIsAgreed` speaks about the queue at the moment
of the switch, so the invariant has to follow the answer to prepare from its
submission: output has been held since (`Held`), nothing of the owner's is
queued behind that answer (`PrepareIsLast`), so nothing of the owner's is left
when it has gone (`QuietBeforeSwitch`); tokens are fresh (`Numbered`), so no
other frame's completion can pass for it; a poll that goes back without
ending the session has read another owner (`PollKnowsOwner`).

### TCP links

- `DevicePartsProofs!SocketsCorrect`: `TcpSpec => [](TcpTypeOK /\ SocketsAccounted)`.
- `DevicePartsProofs!CloseCorrect`: `TcpSpec => OnlyItsOwnClose`.

The invariant is `LinkInv`. `ManagerInv`: the manager holds a socket exactly between
`accept` and the slot, or between the slot and `close`, and no slot has that socket
too; where it is about to install one, the slot is still empty and its entry in the
registry open, since other tasks end only links that are in use. `DeadInv` is what
makes a late notice harmless: whatever a task has still to announce (`closers`) and
whatever is announced (`closeAt`) is behind the registry, whose generations only
grow, so a notice that fits a slot's generation fits a connection that was already
invalidated. `CountInv` bounds the generations by the connections so far, and makes
the next socket a new one.

### Wi-Fi station

- `NetworkProofs!GateCorrect`: `NetworkSpec => []GateHolds`.
- `NetworkProofs!ResultCorrect`: `NetworkSpec => []ResultInForce`.
- `NetworkProofs!NetworkCorrect`: `NetworkSpec => []NetworkInv`, the types and
  the gate.

`complete_operation` opens the gate whoever shut it, so `GateHolds` needs that
the worker completes only what it runs: `GateInv` adds that a worker inside
`run_operation`, or connecting on behalf of it (`Executing`), has an operation
that is running, and that an operation is queued or running until it is gone. A
step of the worker is then quiet (`QuietPlace`, `QuietFlags`) or completes
(`CompleteKeeps`), and a method that is under way shuts out both `Submit` and the
operation it would need.

`ResultInForce` speaks about the moment after an operation; what makes it true was
done before, between failures of the driver and of NVS. `OperationInv` says what
the worker has brought about at each place of `run_operation`: the profile a
`configure` persists is the one in the driver, `run_enable` reaches the driver only
with the record in NVS and in use, and what `run_forget` reports as done is gone
from NVS and from the driver. `SettledInv` keeps it from there on. An operation that
succeeded leaves `controlled` clear, so what the worker wants is the record's
word; `try_reconnect` is begun only on that word, so a worker that is past the test
(`ReconnectPlaces`) was right to begin, although it does not look again; and the
attempt of the start, which is on no operation's behalf, is over before the first
result. The events of the driver, late as they are, touch none of `controlled`,
`requested` and the records.

### Transmit worker

- `EvMuxProofs!TransmitAccounted`: `MuxSpec => []MuxInv`.
- `EvMuxProofs!TransmitWhole`: `MuxSpec => []StreamIsWhole`.
- `EvMuxProofs!TransmitBuffers`: `MuxSpec => []BufferHolds`.

The invariant is `MuxIInv`, which TLC checked on the instance of `transmit` before it
was proved. `CountsOK`: each C counter is the cardinality, or the sum of the bytes, of
the frames it counts. An action's effect on the frames is one of six (one more, one
fewer, many fewer, one with a flag changed, nothing, the buffers of a preview taken
over); for each one lemma shows the counters, so that an action has only to name its
effect. `OneStarted`: a target has at most one frame under way, and a special one
is the one its `partial` names. `StreamOK`: what a TCP peer has received ends at a
boundary or inside the frame under way; after a cut frame the worker is on its way to
close the link (`Closing`), and it does so before it visits a target again, which is
why a peer never receives the head of another frame behind a cut one. `FramesOK` says
that a frame's generation is at most its link's: a link that comes back begins with a
generation no frame has, hence with no frame under way. `BuffersOK`: a buffer is that
of the place, and only an observer's frame shares one, which is written when nobody
refers to it.

### Lease

- `DevicePartsProofs!AgeCorrect`: `Spec => []TypeOK`.
- `DevicePartsProofs!ExpiryCorrect`: `Spec => ExpiresIdleOrOvertaken`.

The names are those of `EvLease`. `StampsTell`: a stamp that a task holds is as old as
the task has delayed, and the recorded activity as old as `age`. `AgeBounded`: an OWNED session is
never older than a lease, a round and the delays, so that the unsigned difference
has wrapped at most once and `Elapsed` is the age (`WrapsOnce`, `ElapsedIs`). In
`ExpiryCorrect` that makes the difference the tick computes `age - delay[Ticker]`
whenever the tick's sample is not older than the recorded activity, and then a whole
lease has passed. Where it is older, the difference wraps: that case is the other half
of the property, and the run `lease_race` shows that it occurs (finding 1). Neither
theorem has a hypothesis on who refreshes the lease.

### USB ring

- `DevicePartsProofs!StreamCorrect`: `CdcSpec => [](CdcTypeOK /\ OneStream)`.

`OneStream` speaks of what the parser was fed; `RingInv` follows each byte there.
`RingIsCurrent`: every byte in the ring bears the present generation, since whatever
advances the generation empties the ring with it; hence `ring_filter` leaves the ring as
it is (`FilteredKeepsAll`, where the recursive `Filtered` is shown to be the identity by
its defining equation and not by induction). `WaitingIsTail`: ring and FIFO together
hold the last bytes sent on a connection. `TaskIsBehind` and `SnapshotAgrees`: the
transport task may lag behind the bus, but its generation tells it. `NothingLost`: what
was parsed and what waits are all that was sent, unless the link was restarted, which
is the only loss the code makes.

### Side by side

- `DevicePartsProofs!PartsCorrect`: `PartsSpec => []PartsInv`.
- `FileTransferProofs!ServicesCorrect`: `ServicesSpec => []ServicesInv`.

A step of one part is a step that leaves the variables of the others as they were, so
each part's invariant is kept by its own step lemma or by its stuttering.

### Only model-checked

Every liveness property and everything under fairness, which the prover cannot
do: `ReleaseEnds`, `DeadOwnerEnds`, `TransitionEnds`, `UploadEnds`, `OperationEnds`,
`SilentSessionEnds`, `PauseEnds`, `InputMoves`, `InvalidLinkEnds`, `FramesEnd` and
`ObserverEnds`. Every invariant and every action property that a passing run checks, and
both refinements, are theorems, one of them (`RequestInv`) under the hypothesis on the
constants that is given with it.

What the proofs do not show: the theorems are about the modules one by one, as the runs
are. That the modules fit together rests on the argument of section 2, that each
takes the others' state as an environment free to change at any step.

## 6. Not modelled

The repository is mostly image processing (imlib and what it vendors), camera,
codec and display drivers, MicroPython bindings and board files. Their behaviour
is in numeric kernels, in tables and in peripherals; they hold no state that
several tasks contend for, and a TLA+ module of them would repeat the code. The
control plane, which the modules are about, is a small share of it: the
components listed as modelled or partly modelled are about 17300 lines of the
118000, parsing and formatting included.

Left out within the control plane:

- byte I/O, JSON, base64, CRC and path checks: conversions, covered by host tests;
- the frame parser, and the requests that only report state;
- tickets, `ev_mux_wait` and the staging of REPL output in `ev_mux.c`; nested
  output scopes and the origin of output in `ev_vm_output.c`;
- DTR and the automatic download over USB;
- of the Wi-Fi service, the access point mode, Python's limit of reconnects, factory
  defaults and the check of the NVS record at start, the text of its status;
  discovery (mDNS), which keeps no state that decides anything;
- mounting, formatting and labels of volumes: a sequential policy over FatFs
  calls, of which `StorageWriter` has the refresh;
- standard streams, boot order and the interpreter's own loop;
- the host tools: a host may send any request in any order.

`PROJECT.json` lists each component with the reason.

## 7. Plan

Done: all modules of section 2, the runs of section 3, and theorems for every
invariant, action property and refinement among them.

What would come next, in this order:

1. Of `ev_mux.c`, tickets and the staging of REPL output; `ev_vm_output.c` with
   its nested scopes.
2. The start of the Wi-Fi service (NVS record, factory defaults); mounting of
   volumes; automatic download.
3. A composition of `EvSession` with `EvMux` in which the frames that carry a session
   completion are those of the queue, to replace the argument of section 2 by a
   refinement.
