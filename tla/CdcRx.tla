------------------------------- MODULE CdcRx -------------------------------
(***************************************************************************)
(* What the device receives over USB CDC while EV-MUX has the stream       *)
(* (platform/ev_cdc_rx.h, the overlay's mp_usbd_cdc.c, and the cdc_*       *)
(* functions of ev_control_transport.c).  The USB stack puts bytes into a  *)
(* ring, each with the generation of the connection; the transport task    *)
(* opens a link for a generation and feeds its bytes to the parser.        *)
(*                                                                         *)
(* mp_usbd_lock makes each function of mp_usbd_cdc.c one step.  The bus    *)
(* may change between any two of them: mounted anew with or without an     *)
(* unmount callback.  The transmit worker closes the link after a failure. *)
(***************************************************************************)
EXTENDS Naturals, Sequences

CONSTANTS
  GenerationMax,  \* stands for UINT32_MAX
  RingCapacity,   \* bytes the ring can hold
  MaxConnections, \* bound: mounts of the bus
  MaxBytes        \* bound: bytes the host sends over one connection

ASSUME CdcAssumption ==
  /\ GenerationMax \in Nat \ {0} /\ RingCapacity \in Nat
  /\ MaxConnections \in Nat /\ MaxBytes \in Nat

VARIABLES
  cdc,        \* cdc_rx_state
  bus,        \* tud_mounted()
  fifo,       \* bytes in TinyUSB's receive FIFO
  pending,    \* cdc_itf_pending: the ring was full
  ring,       \* cdc_stdin_ringbuf with cdc_rx_generation_tags
  pump,       \* where the transport task is in its round
  snapshot,   \* what cdc_update read of the bus
  known, wasMounted, rxGeneration,  \* s_cdc_connection_known, _mounted, _rx_generation
  link,       \* the USB link is open
  parsed,     \* bytes fed to the parser since it was reset
  connections, sent,  \* mounts so far; bytes sent over the present one
  restarted   \* history: the link was opened by rx_restart

usbVars == <<cdc, bus, fifo, pending, ring>>
taskVars == <<pump, snapshot, known, wasMounted, rxGeneration, link, parsed, restarted>>
hostVars == <<connections, sent>>
cdcVars == <<usbVars, taskVars, hostVars>>

Byte(connection, n) == [connection |-> connection, n |-> n]

(***************************************************************************)
(* ev_cdc_rx.h                                                             *)
(***************************************************************************)
AdvanceGeneration(state) ==
  IF state.valid /\ state.generation = GenerationMax THEN [state EXCEPT !.valid = FALSE]
  ELSE IF state.valid THEN [state EXCEPT !.generation = @ + 1]
  ELSE state

BusMount(state) ==
  [(IF state.mountSeen THEN AdvanceGeneration(state) ELSE state)
     EXCEPT !.mountSeen = TRUE, !.mounted = TRUE]

BusUnmount(state) ==
  [(IF state.mounted THEN AdvanceGeneration(state) ELSE state) EXCEPT !.mounted = FALSE]

BusState(state) ==
  IF bus = state.mounted THEN state ELSE IF bus THEN BusMount(state) ELSE BusUnmount(state)

\* ring_filter keeps the bytes of the present generation, in order: what it has kept
\* when it has looked at i bytes.
Filtered(bytes, generation) ==
  LET kept[i \in 0..Len(bytes)] ==
        IF i = 0 THEN <<>>
        ELSE IF bytes[i].tag = generation THEN Append(kept[i - 1], bytes[i])
        ELSE kept[i - 1]
  IN kept[Len(bytes)]

(***************************************************************************)
(* mp_usbd_cdc.c                                                           *)
(***************************************************************************)
\* mp_usbd_cdc_transport_flush_rx
Flush == ring' = <<>> /\ fifo' = <<>> /\ pending' = FALSE

\* tud_mount_cb.  The host's connection starts.
Mount ==
  /\ connections < MaxConnections
  /\ connections' = connections + 1
  /\ sent' = 0
  /\ bus' = TRUE
  /\ cdc' = BusMount(cdc)
  /\ Flush
  /\ UNCHANGED taskVars

\* tud_umount_cb
Unmount ==
  /\ bus
  /\ bus' = FALSE
  /\ cdc' = BusUnmount(cdc)
  /\ Flush
  /\ UNCHANGED <<taskVars, hostVars>>

\* A reset of the bus empties the FIFO and calls nobody.
BusReset ==
  /\ bus
  /\ bus' = FALSE
  /\ fifo' = <<>>
  /\ UNCHANGED <<cdc, pending, ring, taskVars, hostVars>>

\* tud_cdc_rx_cb over the bytes that are available: into the ring while there is
\* room, or away when the generations are exhausted.
RxCallback(bytes) ==
  LET room == RingCapacity - Len(ring)
      n == IF Len(bytes) <= room THEN Len(bytes) ELSE room
      Tagged(i) == [tag |-> cdc.generation, byte |-> bytes[i]]
  IN IF cdc.valid
       THEN /\ ring' = ring \o [i \in 1..n |-> Tagged(i)]
            /\ fifo' = SubSeq(bytes, n + 1, Len(bytes))
            /\ pending' = (n < Len(bytes))
       ELSE /\ fifo' = <<>>
            /\ pending' = FALSE
            /\ UNCHANGED ring

Receive ==
  /\ bus
  /\ sent < MaxBytes
  /\ sent' = sent + 1
  /\ RxCallback(Append(fifo, Byte(connections, sent + 1)))
  /\ UNCHANGED <<cdc, bus, taskVars, connections>>

\* Mutant of Pump: a callback that was cut short is not called again.
MPump ==
  /\ pump = "pump"
  /\ pump' = "update"
  /\ UNCHANGED <<usbVars, snapshot, known, wasMounted, rxGeneration, link, parsed, restarted,
                 hostVars>>

\* mp_usbd_cdc_transport_pump
Pump ==
  /\ pump = "pump"
  /\ pump' = "update"
  /\ IF pending /\ Len(ring) < RingCapacity /\ bus
       THEN RxCallback(fifo)
       ELSE UNCHANGED <<ring, fifo, pending>>
  /\ UNCHANGED <<cdc, bus, snapshot, known, wasMounted, rxGeneration, link, parsed, restarted,
                 hostVars>>

\* What every function of mp_usbd_cdc.c does first: see whether the bus changed.
\* "kept" is what the function leaves in the ring when it did not.
Synchronized(kept) ==
  LET state == BusState(cdc) IN
  /\ cdc' = state
  /\ IF state # cdc
       THEN Flush
       ELSE /\ ring' = IF bus /\ state.valid THEN kept ELSE <<>>
            /\ UNCHANGED <<fifo, pending>>

(***************************************************************************)
(* The transport task: cdc_update, then the read of the link.              *)
(***************************************************************************)
\* mp_usbd_cdc_transport_rx_state
Observe ==
  /\ pump = "update"
  /\ pump' = "apply"
  /\ Synchronized(Filtered(ring, BusState(cdc).generation))
  /\ snapshot' = [mounted |-> bus /\ cdc'.valid, generation |-> cdc'.generation]
  /\ UNCHANGED <<bus, known, wasMounted, rxGeneration, link, parsed, restarted, hostVars>>

Changed ==
  ~known \/ snapshot.generation # rxGeneration \/ snapshot.mounted # wasMounted

\* The link is closed and, when the bus is mounted, opened anew: cdc_close and
\* cdc_open reset the parser.
Follow ==
  /\ pump = "apply"
  /\ Changed
  /\ known' = TRUE
  /\ wasMounted' = snapshot.mounted
  /\ rxGeneration' = snapshot.generation
  /\ link' = snapshot.mounted
  /\ parsed' = IF link \/ snapshot.mounted THEN <<>> ELSE parsed
  /\ restarted' = (restarted /\ ~snapshot.mounted)
  /\ pump' = IF snapshot.mounted THEN "read" ELSE "clear"
  /\ UNCHANGED <<usbVars, snapshot, hostVars>>

\* mp_usbd_cdc_transport_rx_restart: after the transmit worker closed the link.
Restart ==
  LET state == BusState(cdc) IN
  /\ pump = "apply"
  /\ ~Changed
  /\ snapshot.mounted /\ ~link
  /\ IF bus /\ state.valid /\ state.generation < GenerationMax
       THEN /\ cdc' = [state EXCEPT !.generation = @ + 1]
            /\ Flush
            /\ rxGeneration' = state.generation + 1
            /\ link' = TRUE
            /\ parsed' = <<>>
            /\ restarted' = TRUE
            /\ pump' = "read"
            /\ UNCHANGED wasMounted
       ELSE /\ cdc' = IF bus THEN [state EXCEPT !.valid = FALSE] ELSE state
            /\ IF state # cdc THEN Flush ELSE UNCHANGED <<ring, fifo, pending>>
            /\ wasMounted' = FALSE
            /\ pump' = "clear"
            /\ UNCHANGED <<rxGeneration, link, parsed, restarted>>
  /\ UNCHANGED <<bus, snapshot, known, hostVars>>

\* Nothing has changed.  (A link that is open on an unmounted bus, which cdc_update
\* closes too, does not occur: see the last conjunct of CdcTypeOK.)
Keep ==
  /\ pump = "apply"
  /\ ~Changed
  /\ snapshot.mounted = link
  /\ pump' = "read"
  /\ UNCHANGED <<usbVars, snapshot, known, wasMounted, rxGeneration, link, parsed, restarted,
                 hostVars>>

\* mp_usbd_cdc_transport_clear_rx_if_unmounted
ClearIfUnmounted ==
  LET state == BusState(cdc) IN
  /\ pump = "clear"
  /\ pump' = "read"
  /\ cdc' = state
  /\ IF state # cdc \/ ~bus \/ ~state.valid THEN Flush ELSE UNCHANGED <<ring, fifo, pending>>
  /\ UNCHANGED <<bus, snapshot, known, wasMounted, rxGeneration, link, parsed, restarted,
                 hostVars>>

\* Mutant of ReadLink: the bytes are taken whatever their generation.
MReadLink ==
  /\ pump = "read"
  /\ pump' = "pump"
  /\ link
  /\ Synchronized(<<>>)
  /\ parsed' = IF bus /\ cdc'.valid
                 THEN parsed \o [i \in DOMAIN ring |-> ring[i].byte] ELSE parsed
  /\ UNCHANGED <<bus, snapshot, known, wasMounted, rxGeneration, link, restarted, hostVars>>

\* ev_control_transport_read_link and mp_usbd_cdc_transport_rx_read
ReadLink ==
  LET mine == BusState(cdc).generation = rxGeneration
      bytes == Filtered(ring, rxGeneration)
  IN
  /\ pump = "read"
  /\ pump' = "pump"
  /\ link
  /\ Synchronized(IF mine THEN <<>> ELSE Filtered(ring, BusState(cdc).generation))
  /\ parsed' = IF bus /\ cdc'.valid /\ cdc' = cdc /\ mine
                 THEN parsed \o [i \in DOMAIN bytes |-> bytes[i].byte] ELSE parsed
  /\ UNCHANGED <<bus, snapshot, known, wasMounted, rxGeneration, link, restarted, hostVars>>

NoLinkToRead ==
  /\ pump = "read"
  /\ ~link
  /\ pump' = "pump"
  /\ UNCHANGED <<usbVars, snapshot, known, wasMounted, rxGeneration, link, parsed, restarted,
                 hostVars>>

\* The transmit worker gives the link up.
TransmitFails ==
  /\ link
  /\ link' = FALSE
  /\ UNCHANGED <<usbVars, pump, snapshot, known, wasMounted, rxGeneration, parsed, restarted,
                 hostVars>>

CdcInit ==
  /\ cdc = [generation |-> 1, mounted |-> FALSE, mountSeen |-> FALSE, valid |-> TRUE]
  /\ bus = FALSE
  /\ fifo = <<>> /\ pending = FALSE /\ ring = <<>>
  /\ pump = "pump"
  /\ snapshot = [mounted |-> FALSE, generation |-> 0]
  /\ known = FALSE /\ wasMounted = FALSE /\ rxGeneration = 0
  /\ link = TRUE
  /\ parsed = <<>>
  /\ connections = 0 /\ sent = 0
  /\ restarted = FALSE

TransportRound ==
  Pump \/ Observe \/ Follow \/ Restart \/ Keep \/ ClearIfUnmounted \/ ReadLink \/ NoLinkToRead

CdcNext == Mount \/ Unmount \/ BusReset \/ Receive \/ TransportRound \/ TransmitFails

CdcSpec == CdcInit /\ [][CdcNext]_cdcVars

\* The transport task goes round.
CdcFairness == WF_cdcVars(TransportRound)

(***************************************************************************)
(* Properties                                                              *)
(***************************************************************************)
Bytes == [connection : 1..MaxConnections, n : 1..MaxBytes]

CdcTypeOK ==
  /\ cdc \in [generation : 1..GenerationMax, mounted : BOOLEAN, mountSeen : BOOLEAN,
              valid : BOOLEAN]
  /\ bus \in BOOLEAN /\ pending \in BOOLEAN
  /\ fifo \in Seq(Bytes) /\ Len(fifo) <= MaxBytes
  /\ ring \in Seq([tag : 1..GenerationMax, byte : Bytes]) /\ Len(ring) <= RingCapacity
  /\ pump \in {"pump", "update", "apply", "clear", "read"}
  /\ snapshot \in [mounted : BOOLEAN, generation : 0..GenerationMax]
  /\ {known, wasMounted, link, restarted} \subseteq BOOLEAN
  /\ rxGeneration \in 0..GenerationMax
  /\ parsed \in Seq(Bytes)
  /\ connections \in 0..MaxConnections /\ sent \in 0..MaxBytes
  /\ known /\ link => wasMounted

\* What the parser is fed between two resets is one unbroken run of the bytes of one
\* connection, and it starts with the connection's first byte unless the link was
\* restarted: no byte of an earlier connection leads it, none is lost, none is repeated.
OneStream ==
  /\ \A i \in DOMAIN parsed : parsed[i] = Byte(parsed[1].connection, parsed[1].n + i - 1)
  /\ parsed # <<>> /\ ~restarted => parsed[1].n = 1

\* Whatever the host sent is parsed or discarded with its connection; a full ring, a
\* failed transmission or exhausted generations never leave bytes waiting for ever.
InputMoves == fifo # <<>> \/ ring # <<>> ~> fifo = <<>> /\ ring = <<>>
=============================================================================
