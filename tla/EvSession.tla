------------------------------ MODULE EvSession ------------------------------
(***************************************************************************)
(* The EV-MUX control session of the firmware: which host link owns the    *)
(* device, and where the device's output is routed.                        *)
(*                                                                         *)
(*   platform/ev_transport.c  link registry (slot, generation, open)       *)
(*   platform/ev_session.c    FREE / OWNED / RELEASING, transition ids     *)
(*   platform/ev_channel.c    the user/debug output route                  *)
(*   platform/ev_control_transport.c, ev_tcp.c, ev_mux.c   the callers     *)
(*                                                                         *)
(* Three FreeRTOS tasks run the code: "transport" parses the serial and    *)
(* USB links and runs the lease tick, "tcp" owns the sockets and "tx" is   *)
(* the mux transmit worker; a fourth, the interpreter's, only advances the *)
(* VM epoch here.  A task may be preempted between any two critical        *)
(* sections, so each critical section of ev_session.c, ev_transport.c and  *)
(* ev_channel.c is one action, and pc and loc keep what the task holds on  *)
(* its stack in between.                                                   *)
(*                                                                         *)
(* Abstractions.  Session ids are 128 random bits in the code; here the id *)
(* is the transition number of the acquisition, which is equally unused.   *)
(* The 32-bit counters do not wrap.  Time is left out: an OWNED session    *)
(* may be found expired at any tick (module EvLease models the clock).     *)
(***************************************************************************)
EXTENDS Naturals, Sequences, FiniteSets

CONSTANTS
  SerialLinks,   \* USJ and UART endpoints, whose generation rotates on loss
  UsbLinks,      \* the USB CDC endpoint
  TcpLinks,      \* TCP slots
  NoLink,        \* "no link" in a cleared ev_link_ref_t
  Nonces,        \* client nonces of hello requests
  NoNonce,
  MaxTransitions,  \* bound: session transitions explored
  MaxGeneration,   \* bound: link generations explored
  MaxEpoch,        \* bound: VM epochs explored
  QueueFrames      \* EV_MUX_QUEUE_FRAMES

Link == SerialLinks \cup UsbLinks \cup TcpLinks

ASSUME LinkAssumption ==
  /\ NoLink \notin Link
  /\ NoNonce \notin Nonces
  /\ SerialLinks \cap UsbLinks = {}
  /\ SerialLinks \cap TcpLinks = {}
  /\ UsbLinks \cap TcpLinks = {}
ASSUME BoundAssumption ==
  /\ MaxTransitions \in Nat
  /\ MaxGeneration \in Nat
  /\ MaxEpoch \in Nat
  /\ QueueFrames \in Nat

VARIABLES
  links,           \* s_links: generation and open flag of every endpoint
  session,         \* s_session
  transportOwner,  \* s_owner of ev_transport.c
  channelOwner,    \* s_owner_link of ev_channel.c
  routeLock,       \* holder of s_route_apply_lock
  txq,             \* s_targets: the frame slots of each link's transmit queue
  pc, loc          \* control point and locals of each task

vars == <<links, session, transportOwner, channelOwner, routeLock, txq, pc, loc>>

Task == {"transport", "tcp", "tx"}
NoTask == "none"
RxTask(l) == IF l \in TcpLinks THEN "tcp" ELSE "transport"

NoRef == [link |-> NoLink, gen |-> 0]
Ref == [link : Link, gen : Nat]
RefOrNone == Ref \cup {NoRef}
RefOf(l) == [link |-> l, gen |-> links[l].gen]

\* The control points between two critical sections of one task.
PC == {"idle", "acquire", "recheck", "respond", "busy",
       "release", "releaseRespond",
       "clear", "apply", "setTransport", "channelCheck", "channelSet",
       "notify", "callback", "helloDone", "lost", "cancel", "close", "advance"}

States == {"FREE", "OWNED", "RELEASING"}

Snapshot == [state : States, owner_link : RefOrNone, session_id : Nat,
             transition_id : Nat, input_generation : Nat]
NoSnapshot == [state |-> "FREE", owner_link |-> NoRef, session_id |-> 0,
               transition_id |-> 0, input_generation |-> 0]

\* A queued response, named by the completion it carries.
Frame == [kind : {"HELLO", "RELEASE", "CLOSE"}, link : RefOrNone, session_id : Nat]
NoFrame == [kind |-> "NONE", link |-> NoRef, session_id |-> 0]
Slot == 1..QueueFrames

Local == [ref : RefOrNone,            \* the link the call is about
          nonce : Nonces \cup {NoNonce},
          session_id : Nat,           \* 0: no session id given
          require_releasing : BOOLEAN,
          acquired : BOOLEAN,         \* this hello made the session OWNED
          snapshot : Snapshot,
          previous : Nat,             \* previous_session_id of the callback
          after : {"respond", "notify"},              \* after ev_session_apply_route
          next : {"idle", "lost", "cancel", "close", "advance"}, \* after clear_owner
          failed : Nat]               \* session id of the frame that failed
NoLocal == [ref |-> NoRef, nonce |-> NoNonce, session_id |-> 0,
            require_releasing |-> FALSE, acquired |-> FALSE,
            snapshot |-> NoSnapshot, previous |-> 0,
            after |-> "notify", next |-> "idle", failed |-> 0]

(***************************************************************************)
(* ev_transport.c: the link registry.                                      *)
(***************************************************************************)
\* ev_transport_link_is_current
IsCurrent(r) == /\ r.link \in Link
                /\ links[r.link].open
                /\ links[r.link].gen = r.gen

\* ev_transport_link_open gives the endpoint a new generation.
LinkOpenEffect(l) ==
  /\ links' = [links EXCEPT ![l] = [gen |-> @.gen + 1, open |-> TRUE]]
  /\ UNCHANGED transportOwner

\* ev_transport_link_close: a stale reference is a no-op.
LinkCloseEffect(r) ==
  IF IsCurrent(r)
  THEN /\ links' = [links EXCEPT ![r.link] = [gen |-> @.gen + 1, open |-> FALSE]]
       /\ transportOwner' = IF transportOwner = r THEN NoRef ELSE transportOwner
  ELSE UNCHANGED <<links, transportOwner>>

\* ev_transport_link_advance_generation: the recorded owner of the endpoint
\* follows the rotation.
LinkAdvanceEffect(r) ==
  IF IsCurrent(r)
  THEN LET fresh == [r EXCEPT !.gen = @ + 1]
       IN /\ links' = [links EXCEPT ![r.link].gen = @ + 1]
          /\ transportOwner' = IF transportOwner.link = r.link THEN fresh
                               ELSE transportOwner
  ELSE UNCHANGED <<links, transportOwner>>

(***************************************************************************)
(* ev_session.c: the pieces the operations share.                          *)
(***************************************************************************)
TakeSnapshot(s) ==
  [state |-> s.state, owner_link |-> s.owner_link, session_id |-> s.session_id,
   transition_id |-> s.transition_id, input_generation |-> s.input_generation]

HasOwner(s) == s.state # "FREE"

\* The session after ev_session_clear_owner or an expired ev_session_tick.
Cleared(s) ==
  [s EXCEPT !.state = "FREE", !.owner_link = NoRef, !.session_id = 0,
            !.client_nonce = NoNonce, !.handshake_complete = FALSE,
            !.transition_id = @ + 1, !.input_generation = @ + 1]

\* The locked section that takes ownership away: the generation of a USJ or
\* UART stream is rotated before the session becomes FREE.
ClearOwnerEffect(t) ==
  /\ IF session.owner_link.link \in SerialLinks
     THEN LinkAdvanceEffect(session.owner_link)
     ELSE UNCHANGED <<links, transportOwner>>
  /\ session' = Cleared(session)
  /\ pc' = [pc EXCEPT ![t] = "apply"]
  /\ loc' = [loc EXCEPT ![t].snapshot = TakeSnapshot(Cleared(session)),
                        ![t].previous = session.session_id,
                        ![t].after = "notify"]

Goto(t, p) == pc' = [pc EXCEPT ![t] = p]

\* Return from the call a task was in; an idle task keeps no locals.
Return(t) ==
  /\ pc' = [pc EXCEPT ![t] = loc[t].next]
  /\ loc' = [loc EXCEPT ![t] =
               IF loc[t].next = "idle" THEN NoLocal
               ELSE [NoLocal EXCEPT !.ref = loc[t].ref, !.failed = loc[t].failed]]

\* Enter ev_session_clear_owner; failed is the session of a failed frame.
Clear(t, r, sid, releasing, next, failed) ==
  /\ pc' = [pc EXCEPT ![t] = "clear"]
  /\ loc' = [loc EXCEPT ![t] = [NoLocal EXCEPT !.ref = r, !.session_id = sid,
                                  !.require_releasing = releasing, !.next = next,
                                  !.failed = failed]]

Idle(t) == /\ pc' = [pc EXCEPT ![t] = "idle"]
           /\ loc' = [loc EXCEPT ![t] = NoLocal]

(***************************************************************************)
(* ev_session_acquire, called for a hello request.                         *)
(***************************************************************************)
\* A hello arrives on an open link: the frame handler and ev_session_acquire
\* have both found the reference current.
HelloBegin(l, n) ==
  LET t == RxTask(l)
  IN /\ pc[t] = "idle"
     /\ links[l].open
     /\ session.transition_id < MaxTransitions
     /\ Goto(t, "acquire")
     /\ loc' = [loc EXCEPT ![t] = [NoLocal EXCEPT !.ref = RefOf(l), !.nonce = n]]
     /\ UNCHANGED <<links, session, transportOwner, channelOwner, routeLock, txq>>

Granted(r, n) ==
  [session EXCEPT !.state = "OWNED", !.owner_link = r, !.client_nonce = n,
                  !.session_id = session.transition_id + 1,
                  !.handshake_complete = FALSE,
                  !.transition_id = @ + 1, !.input_generation = @ + 1]

\* The locked section: grant a FREE session, refresh an identical hello, or
\* answer BUSY.
AcquireLocked(t) ==
  LET r == loc[t].ref
      same == /\ session.state = "OWNED"
              /\ session.owner_link = r
              /\ session.client_nonce = loc[t].nonce
  IN /\ pc[t] = "acquire"
     /\ \/ /\ session.state = "FREE"
           /\ session' = Granted(r, loc[t].nonce)
           /\ loc' = [loc EXCEPT ![t].snapshot = TakeSnapshot(Granted(r, loc[t].nonce)),
                                 ![t].acquired = TRUE]
           /\ Goto(t, "recheck")
        \/ /\ same
           /\ loc' = [loc EXCEPT ![t].snapshot = TakeSnapshot(session)]
           /\ Goto(t, "recheck")
           /\ UNCHANGED session
        \/ /\ session.state # "FREE"
           /\ ~same
           /\ loc' = [loc EXCEPT ![t].snapshot = TakeSnapshot(session)]
           /\ Goto(t, "busy")
           /\ UNCHANGED session
     /\ UNCHANGED <<links, transportOwner, channelOwner, routeLock, txq>>

\* Mutant of AcquireRecheck: the link is not checked again.
MAcquireRecheck(t) ==
  /\ pc[t] = "recheck"
  /\ \/ /\ loc[t].acquired
        /\ Goto(t, "apply")
        /\ loc' = [loc EXCEPT ![t].after = "respond"]
     \/ /\ ~loc[t].acquired
        /\ Goto(t, "respond")
        /\ UNCHANGED loc
  /\ UNCHANGED <<links, session, transportOwner, channelOwner, routeLock, txq>>

\* The link is checked again after the locked section: a reference that went
\* stale in between gives the session back through ev_session_link_lost.
AcquireRecheck(t) ==
  /\ pc[t] = "recheck"
  /\ \/ /\ ~IsCurrent(loc[t].ref)
        /\ Clear(t, loc[t].ref, 0, FALSE, "idle", 0)
     \/ /\ IsCurrent(loc[t].ref)
        /\ loc[t].acquired
        /\ Goto(t, "apply")
        /\ loc' = [loc EXCEPT ![t].after = "respond"]
     \/ /\ IsCurrent(loc[t].ref)
        /\ ~loc[t].acquired
        /\ Goto(t, "respond")
        /\ UNCHANGED loc
  /\ UNCHANGED <<links, session, transportOwner, channelOwner, routeLock, txq>>

\* ev_control_submit_rpc_link: a response keeps the link and the session of its
\* request, and the completion that was set for it.
Response(kind, r, sid) == [kind |-> kind, link |-> r, session_id |-> sid]

\* ev_mux_submit_link takes the first unused slot.  A full queue or a busy
\* queue mutex refuses the frame; the link's generation is not looked at.
Enqueue(f) ==
  \E i \in Slot :
    /\ txq[f.link.link][i] = NoFrame
    /\ \A j \in 1..(i - 1) : txq[f.link.link][j] # NoFrame
    /\ txq' = [txq EXCEPT ![f.link.link][i] = f]

\* The hello response carries the HELLO completion; when it cannot be queued
\* the new session is given up at once (ev_session_hello_complete, failed).
HelloRespond(t) ==
  LET sid == loc[t].snapshot.session_id
  IN /\ pc[t] = "respond"
     /\ \/ /\ Enqueue(Response("HELLO", loc[t].ref, sid))
           /\ Idle(t)
        \/ /\ Clear(t, loc[t].ref, sid, FALSE, "idle", 0)
           /\ UNCHANGED txq
     /\ UNCHANGED <<links, session, transportOwner, channelOwner, routeLock>>

\* SESSION_BUSY: a TCP client is disconnected after the answer, unless its own
\* release is still completing.
BusyRespond(t) ==
  LET r == loc[t].ref
      releasing_owner == /\ loc[t].snapshot.state = "RELEASING"
                         /\ loc[t].snapshot.owner_link = r
      closing == r.link \in TcpLinks /\ ~releasing_owner
  IN /\ pc[t] = "busy"
     /\ \/ /\ ~closing
           /\ Idle(t)
           /\ UNCHANGED txq
        \/ /\ closing
           /\ Enqueue(Response("CLOSE", r, 0))
           /\ Idle(t)
        \/ /\ closing
           /\ Goto(t, "close")
           /\ UNCHANGED <<loc, txq>>
     /\ UNCHANGED <<links, session, transportOwner, channelOwner, routeLock>>

(***************************************************************************)
(* session.release                                                         *)
(***************************************************************************)
\* An authorised session.release request from the owner.
ReleaseBegin(l) ==
  LET t == RxTask(l)
  IN /\ pc[t] = "idle"
     /\ IsCurrent(session.owner_link)
     /\ session.owner_link = RefOf(l)
     /\ session.state = "OWNED"
     /\ session.handshake_complete
     /\ Goto(t, "release")
     /\ loc' = [loc EXCEPT ![t] = [NoLocal EXCEPT !.ref = RefOf(l),
                                     !.session_id = session.session_id]]
     /\ UNCHANGED <<links, session, transportOwner, channelOwner, routeLock, txq>>

\* ev_session_release_prepare: competing hellos stay BUSY until the response
\* has been transmitted.
ReleasePrepare(t) ==
  LET owns == /\ session.state = "OWNED"
              /\ session.owner_link = loc[t].ref
              /\ session.session_id = loc[t].session_id
  IN /\ pc[t] = "release"
     /\ \/ /\ owns
           /\ session' = [session EXCEPT !.state = "RELEASING", !.input_generation = @ + 1]
           /\ Goto(t, "releaseRespond")
           /\ UNCHANGED loc
        \/ /\ ~owns
           /\ Idle(t)
           /\ UNCHANGED session
     /\ UNCHANGED <<links, transportOwner, channelOwner, routeLock, txq>>

\* Mutant of ReleaseRespond: a response that cannot be queued is forgotten.
MReleaseRespond(t) ==
  /\ pc[t] = "releaseRespond"
  /\ \/ Enqueue(Response("RELEASE", loc[t].ref, loc[t].session_id))
     \/ UNCHANGED txq
  /\ Idle(t)
  /\ UNCHANGED <<links, session, transportOwner, channelOwner, routeLock>>

\* The response carries the RELEASE completion; without a queue slot the
\* release is finished immediately.
ReleaseRespond(t) ==
  LET r == loc[t].ref
      sid == loc[t].session_id
  IN /\ pc[t] = "releaseRespond"
     /\ \/ /\ Enqueue(Response("RELEASE", r, sid))
           /\ Idle(t)
        \/ /\ Clear(t, r, sid, TRUE, "idle", 0)
           /\ UNCHANGED txq
     /\ UNCHANGED <<links, session, transportOwner, channelOwner, routeLock>>

(***************************************************************************)
(* ev_session_clear_owner, ev_session_tick and ev_session_apply_route      *)
(***************************************************************************)
MayClear(r, sid, releasing) ==
  /\ session.state # "FREE"
  /\ session.owner_link = r
  /\ releasing => session.state = "RELEASING"
  /\ sid # 0 => session.session_id = sid

ClearOwner(t) ==
  /\ pc[t] = "clear"
  /\ \/ /\ MayClear(loc[t].ref, loc[t].session_id, loc[t].require_releasing)
        /\ ClearOwnerEffect(t)
     \/ /\ ~MayClear(loc[t].ref, loc[t].session_id, loc[t].require_releasing)
        /\ Return(t)
        /\ UNCHANGED <<links, session, transportOwner>>
  /\ UNCHANGED <<channelOwner, routeLock, txq>>

\* Mutant of TickExpire: a session whose link is gone is skipped.
MTickExpire ==
  /\ pc["transport"] = "idle"
  /\ session.state = "OWNED"
  /\ IsCurrent(session.owner_link)
  /\ ClearOwnerEffect("transport")
  /\ UNCHANGED <<channelOwner, routeLock, txq>>

\* The lease tick finds an OWNED session expired; RELEASING never expires.
TickExpire ==
  /\ pc["transport"] = "idle"
  /\ session.state = "OWNED"
  /\ ClearOwnerEffect("transport")
  /\ UNCHANGED <<channelOwner, routeLock, txq>>

\* Mutant of SnapshotIsCurrent: the transition and the owner are not compared.
MSnapshotIsCurrent(snapshot) == session.state = snapshot.state

\* A snapshot is applied only while it still describes the session.
SnapshotIsCurrent(snapshot) ==
  /\ session.transition_id = snapshot.transition_id
  /\ session.state = snapshot.state
  /\ HasOwner(snapshot) => session.owner_link = snapshot.owner_link

AfterApply(t, applied) ==
  IF loc[t].after = "respond" THEN Goto(t, "respond") /\ UNCHANGED loc
  ELSE IF applied THEN Goto(t, "notify") /\ UNCHANGED loc
  ELSE Return(t)

\* ev_session_apply_route takes the route lock and compares under the session
\* lock, but it writes the two routes after dropping the session lock.
ApplyRoute(t) ==
  /\ pc[t] = "apply"
  /\ routeLock = NoTask
  /\ \/ /\ SnapshotIsCurrent(loc[t].snapshot)
        /\ routeLock' = t
        /\ Goto(t, "setTransport")
        /\ UNCHANGED loc
     \/ /\ ~SnapshotIsCurrent(loc[t].snapshot)
        /\ AfterApply(t, FALSE)
        /\ UNCHANGED routeLock
  /\ UNCHANGED <<links, session, transportOwner, channelOwner, txq>>

\* ev_transport_set_owner
SetTransportOwner(t) ==
  LET r == loc[t].snapshot.owner_link
  IN /\ pc[t] = "setTransport"
     /\ transportOwner' = IF IsCurrent(r) THEN r ELSE NoRef
     /\ Goto(t, "channelCheck")
     /\ UNCHANGED <<links, session, channelOwner, routeLock, txq, loc>>

\* ev_channel_set_owner_link refuses a stale link and keeps the old route; the
\* check precedes the channel lock.
ChannelCheck(t) ==
  LET r == loc[t].snapshot.owner_link
  IN /\ pc[t] = "channelCheck"
     /\ \/ /\ r = NoRef \/ IsCurrent(r)
           /\ Goto(t, "channelSet")
           /\ UNCHANGED <<routeLock, loc>>
        \/ /\ r # NoRef /\ ~IsCurrent(r)
           /\ routeLock' = NoTask
           /\ AfterApply(t, TRUE)
     /\ UNCHANGED <<links, session, transportOwner, channelOwner, txq>>

ChannelSet(t) ==
  /\ pc[t] = "channelSet"
  /\ channelOwner' = loc[t].snapshot.owner_link
  /\ routeLock' = NoTask
  /\ AfterApply(t, TRUE)
  /\ UNCHANGED <<links, session, transportOwner, txq>>

(***************************************************************************)
(* ev_control_session_changed: the callback of a transition.               *)
(***************************************************************************)
\* A callback that a later transition or a VM reset overtook does nothing.
NotifyCheck(t) ==
  LET s == loc[t].snapshot
      fresh == /\ session.transition_id = s.transition_id
               /\ session.input_generation = s.input_generation
  IN /\ pc[t] = "notify"
     /\ \/ fresh /\ Goto(t, "callback") /\ UNCHANGED loc
        \/ ~fresh /\ Return(t)
     /\ UNCHANGED <<links, session, transportOwner, channelOwner, routeLock, txq>>

\* ev_mux_cancel_session drops the session's frames that have not started; it
\* gives up on a queue mutex it cannot get within 20 ms.  The completions it
\* runs find the session already gone, so they have no effect of their own.
WithoutSession(q, sid, started) ==
  [l \in Link |-> [i \in Slot |->
     IF sid # 0 /\ q[l][i].session_id = sid /\ i # started THEN NoFrame ELSE q[l][i]]]

CancelSession(q, sid) ==
  \/ txq' = q
  \/ \E started \in 0..QueueFrames : txq' = WithoutSession(q, sid, started)

\* The effects after the check: the previous owner's frames are cancelled.
Callback(t) ==
  /\ pc[t] = "callback"
  /\ CancelSession(txq, loc[t].previous)
  /\ Return(t)
  /\ UNCHANGED <<links, session, transportOwner, channelOwner, routeLock>>

(***************************************************************************)
(* The transmit worker: ev_mux_process_target and the frame completions.   *)
(* The code picks by class and age; any queued frame may be next here.     *)
(***************************************************************************)
\* ev_mux_frame_authorized, for frames of the SESSION class.
Deliverable(f) ==
  /\ IsCurrent(f.link)
  /\ f.session_id # 0 => /\ HasOwner(session)
                         /\ session.owner_link = f.link
                         /\ session.session_id = f.session_id

\* ev_control_tx_complete, after which the worker goes on at next.
TxComplete(l, i, succeeded, next) ==
  LET f == txq[l][i]
      rest == [txq EXCEPT ![l][i] = NoFrame]
  IN \/ /\ f.kind = "HELLO" /\ succeeded
        /\ Goto("tx", "helloDone")
        /\ loc' = [loc EXCEPT !["tx"] = [NoLocal EXCEPT !.ref = f.link,
                                            !.session_id = f.session_id]]
        /\ txq' = rest
     \/ /\ f.kind = "HELLO" /\ ~succeeded
        /\ Clear("tx", f.link, f.session_id, FALSE, next, f.session_id)
        /\ txq' = rest
     \/ /\ f.kind = "RELEASE"
        /\ Clear("tx", f.link, f.session_id, TRUE, next, f.session_id)
        /\ CancelSession(rest, f.session_id)
     \/ /\ f.kind = "CLOSE"
        /\ Goto("tx", "close")
        /\ loc' = [loc EXCEPT !["tx"] = [NoLocal EXCEPT !.ref = f.link]]
        /\ txq' = rest

TxReady(l, i) == pc["tx"] = "idle" /\ txq[l][i] # NoFrame

TxSent(l, i) ==
  /\ TxReady(l, i)
  /\ Deliverable(txq[l][i])
  /\ TxComplete(l, i, TRUE, "idle")
  /\ UNCHANGED <<links, session, transportOwner, channelOwner, routeLock>>

\* A write error or a deadline: the completion fails, then ev_mux_fail_session.
TxFailed(l, i) ==
  /\ TxReady(l, i)
  /\ TxComplete(l, i, FALSE, "lost")
  /\ UNCHANGED <<links, session, transportOwner, channelOwner, routeLock>>

\* Mutant of TxDropped: the completion of a dropped frame does not run.
MTxDropped(l, i) ==
  /\ TxReady(l, i)
  /\ txq' = [txq EXCEPT ![l][i] = NoFrame]
  /\ UNCHANGED <<links, session, transportOwner, channelOwner, routeLock, pc, loc>>

\* A queued frame past its two seconds, or one whose link or session is gone;
\* only a frame cut short closes its TCP link.
TxDropped(l, i) ==
  LET stale == ~Deliverable(txq[l][i])
  IN /\ TxReady(l, i)
     /\ \/ TxComplete(l, i, FALSE, "idle")
        \/ stale /\ l \in TcpLinks /\ TxComplete(l, i, FALSE, "close")
     /\ UNCHANGED <<links, session, transportOwner, channelOwner, routeLock>>

\* An output frame of the running session fails (the frame itself is outside
\* this module): ev_mux_fail_session.
OutputFailed ==
  /\ pc["tx"] = "idle"
  /\ HasOwner(session)
  /\ session.handshake_complete
  /\ Goto("tx", "lost")
  /\ loc' = [loc EXCEPT !["tx"] = [NoLocal EXCEPT !.ref = session.owner_link,
                                      !.failed = session.session_id]]
  /\ UNCHANGED <<links, session, transportOwner, channelOwner, routeLock, txq>>

\* ev_session_hello_complete after a successful transmission.
HelloDone(t) ==
  LET mine == /\ session.state = "OWNED"
              /\ session.owner_link = loc[t].ref
              /\ session.session_id = loc[t].session_id
              /\ ~session.handshake_complete
      done == [session EXCEPT !.handshake_complete = TRUE]
  IN /\ pc[t] = "helloDone"
     /\ \/ /\ mine
           /\ session' = done
           /\ Goto(t, "apply")
           /\ loc' = [loc EXCEPT ![t].snapshot = TakeSnapshot(done)]
        \/ /\ ~mine
           /\ Idle(t)
           /\ UNCHANGED session
     /\ UNCHANGED <<links, transportOwner, channelOwner, routeLock, txq>>

\* ev_mux_fail_session: the session is lost, its frames are cancelled, and a
\* TCP link that a frame was cut short on is closed.
FailLost(t) ==
  /\ pc[t] = "lost"
  /\ Clear(t, loc[t].ref, 0, FALSE, "cancel", loc[t].failed)
  /\ UNCHANGED <<links, session, transportOwner, channelOwner, routeLock, txq>>

FailCancel(t) ==
  /\ pc[t] = "cancel"
  /\ CancelSession(txq, loc[t].failed)
  /\ \/ Idle(t)
     \/ loc[t].ref.link \in TcpLinks /\ Goto(t, "close") /\ UNCHANGED loc
  /\ UNCHANGED <<links, session, transportOwner, channelOwner, routeLock>>

(***************************************************************************)
(* Links come and go; the VM restarts.                                     *)
(***************************************************************************)
\* ev_transport_link_close, the last call of the paths that end a link.
LinkClose(t) ==
  /\ pc[t] = "close"
  /\ LinkCloseEffect(loc[t].ref)
  /\ Idle(t)
  /\ UNCHANGED <<session, channelOwner, routeLock, txq>>

\* ev_transport_link_advance_generation, when a mounted CDC is opened again.
LinkAdvance(t) ==
  /\ pc[t] = "advance"
  /\ LinkAdvanceEffect(loc[t].ref)
  /\ Idle(t)
  /\ UNCHANGED <<session, channelOwner, routeLock, txq>>

\* ev_transport_link_open: a TCP connection is accepted, or USB is mounted.
LinkUp(l) ==
  /\ l \notin SerialLinks
  /\ pc[RxTask(l)] = "idle"
  /\ ~links[l].open
  /\ links[l].gen < MaxGeneration
  /\ LinkOpenEffect(l)
  /\ UNCHANGED <<session, channelOwner, routeLock, txq, pc, loc>>

\* ev_tcp_request_close_slot and the CDC close: link_lost, then close.
LinkDown(l) ==
  /\ l \notin SerialLinks
  /\ pc[RxTask(l)] = "idle"
  /\ links[l].open
  /\ Clear(RxTask(l), RefOf(l), 0, FALSE, "close", 0)
  /\ UNCHANGED <<links, session, transportOwner, channelOwner, routeLock, txq>>

\* CDC opened while its registry entry is open: link_lost, then rotate.
CdcRefresh(l) ==
  /\ l \in UsbLinks
  /\ pc["transport"] = "idle"
  /\ links[l].open
  /\ links[l].gen < MaxGeneration
  /\ Clear("transport", RefOf(l), 0, FALSE, "advance", 0)
  /\ UNCHANGED <<links, session, transportOwner, channelOwner, routeLock, txq>>

\* The UART returns to its baseline speed: its owner is dropped.
UartRestore(l) ==
  /\ l \in SerialLinks
  /\ pc["transport"] = "idle"
  /\ HasOwner(session)
  /\ session.owner_link.link = l
  /\ Clear("transport", session.owner_link, 0, FALSE, "idle", 0)
  /\ UNCHANGED <<links, session, transportOwner, channelOwner, routeLock, txq>>

\* ev_session_vm_epoch_advance, called by the VM task at a soft reset.
VmEpochAdvance ==
  /\ session.vm_epoch < MaxEpoch
  /\ session' = [session EXCEPT !.vm_epoch = @ + 1, !.input_generation = @ + 1]
  /\ UNCHANGED <<links, transportOwner, channelOwner, routeLock, txq, pc, loc>>

(***************************************************************************)
(* The specification.                                                      *)
(***************************************************************************)
Init ==
  /\ links = [l \in Link |-> IF l \in TcpLinks THEN [gen |-> 0, open |-> FALSE]
                             ELSE [gen |-> 1, open |-> TRUE]]
  /\ session = [state |-> "FREE", owner_link |-> NoRef, session_id |-> 0,
                client_nonce |-> NoNonce, vm_epoch |-> 1, input_generation |-> 1,
                transition_id |-> 0, handshake_complete |-> FALSE]
  /\ transportOwner = NoRef
  /\ channelOwner = NoRef
  /\ routeLock = NoTask
  /\ txq = [l \in Link |-> [i \in Slot |-> NoFrame]]
  /\ pc = [t \in Task |-> "idle"]
  /\ loc = [t \in Task |-> NoLocal]

\* The steps that carry a call of task t on.
Continue(t) ==
  \/ AcquireLocked(t) \/ AcquireRecheck(t) \/ HelloRespond(t) \/ BusyRespond(t)
  \/ ReleasePrepare(t) \/ ReleaseRespond(t)
  \/ ClearOwner(t) \/ ApplyRoute(t) \/ SetTransportOwner(t)
  \/ ChannelCheck(t) \/ ChannelSet(t) \/ NotifyCheck(t) \/ Callback(t)
  \/ HelloDone(t) \/ FailLost(t) \/ FailCancel(t)
  \/ LinkClose(t) \/ LinkAdvance(t)

Transmit(l, i) == TxSent(l, i) \/ TxFailed(l, i) \/ TxDropped(l, i)

LinkEvent(l) ==
  \/ ReleaseBegin(l)
  \/ LinkUp(l) \/ LinkDown(l) \/ CdcRefresh(l) \/ UartRestore(l)
  \/ \E n \in Nonces : HelloBegin(l, n)

\* Every task waits and nothing is queued: the device may stay like this.
Rest ==
  /\ \A t \in Task : pc[t] = "idle"
  /\ \A l \in Link, i \in Slot : txq[l][i] = NoFrame
  /\ UNCHANGED vars

Next ==
  \/ \E t \in Task : Continue(t)
  \/ \E l \in Link : LinkEvent(l)
  \/ \E l \in Link, i \in Slot : Transmit(l, i)
  \/ TickExpire \/ OutputFailed
  \/ VmEpochAdvance
  \/ Rest

Spec == Init /\ [][Next]_vars

\* The tasks run for ever and only wait for the route lock; the worker visits
\* every target in each round and drops a frame after two seconds; the pump
\* loop calls the lease tick in each round, and nothing refreshes the lease of
\* a link that is no longer current.
Fairness ==
  /\ \A t \in Task : WF_vars(Continue(t))
  /\ \A l \in Link, i \in Slot : SF_vars(Transmit(l, i))
  /\ SF_vars(TickExpire /\ ~IsCurrent(session.owner_link))

FairSpec == Spec /\ Fairness

(***************************************************************************)
(* Properties.                                                             *)
(***************************************************************************)
SessionType ==
  [state : States, owner_link : RefOrNone, session_id : Nat,
   client_nonce : Nonces \cup {NoNonce}, vm_epoch : Nat, input_generation : Nat,
   transition_id : Nat, handshake_complete : BOOLEAN]

\* The registry, the session, both routes, the queues and the stack of every
\* task hold values of the declared C types.
TypeOK ==
  /\ links \in [Link -> [gen : Nat, open : BOOLEAN]]
  /\ session \in SessionType
  /\ transportOwner \in RefOrNone
  /\ channelOwner \in RefOrNone
  /\ routeLock \in Task \cup {NoTask}
  /\ txq \in [Link -> [Slot -> Frame \cup {NoFrame}]]
  /\ pc \in [Task -> PC]
  /\ loc \in [Task -> Local]

\* Task t still has the route of the latest transition to apply.
RoutePending(t) ==
  /\ \/ pc[t] = "recheck" /\ loc[t].acquired
     \/ pc[t] \in {"apply", "setTransport", "channelCheck", "channelSet"}
  /\ loc[t].snapshot.transition_id = session.transition_id

\* Once nobody has the latest transition left to apply, both routes agree with
\* the session: a delayed or superseded ev_session_apply_route never has the
\* last word, although it writes the routes after dropping the session lock.
RoutesFollowSession ==
  (\A t \in Task : ~RoutePending(t)) =>
     /\ session.state = "FREE" => transportOwner = NoRef /\ channelOwner = NoRef
     /\ IsCurrent(session.owner_link) => /\ transportOwner = session.owner_link
                                        /\ channelOwner = session.owner_link

(***************************************************************************)
(* Why the routes follow the session: the parts of an inductive invariant. *)
(***************************************************************************)
InRoute(t) == pc[t] \in {"setTransport", "channelCheck", "channelSet"}
Latest(t) == loc[t].snapshot.transition_id = session.transition_id

\* The route lock is held exactly inside the writing part of apply_route.
LockInv == \A t \in Task : routeLock = t <=> InRoute(t)

\* A reference that may become or is the owner was handed out by the registry.
GenInv ==
  /\ session.state = "FREE" <=> session.owner_link = NoRef
  /\ HasOwner(session) => session.owner_link.gen <= links[session.owner_link.link].gen
  /\ \A t \in Task : pc[t] = "acquire" =>
       loc[t].ref \in Ref /\ loc[t].ref.gen <= links[loc[t].ref.link].gen

\* A snapshot is not newer than the session, and equal numbers mean equal owners.
SnapshotInv ==
  \A t \in Task : (pc[t] \in {"recheck", "apply"} \/ InRoute(t)) =>
    /\ loc[t].snapshot.transition_id <= session.transition_id
    /\ Latest(t) => /\ loc[t].snapshot.owner_link = session.owner_link
                    /\ loc[t].snapshot.state = "FREE" <=> session.state = "FREE"

\* Task t is applying the route of the session it has just acquired.
Acquiring(t) ==
  \/ pc[t] = "recheck" /\ loc[t].acquired
  \/ (pc[t] = "apply" \/ InRoute(t)) /\ loc[t].after = "respond"

\* A link is served by one task, so its owner cannot release while its hello
\* is still being answered.
AcquireInv ==
  \A t \in Task :
    /\ pc[t] \in {"acquire", "recheck", "release"} \/ Acquiring(t) => t = RxTask(loc[t].ref.link)
    /\ Acquiring(t) => /\ loc[t].snapshot.owner_link = loc[t].ref
                       /\ loc[t].snapshot.state = "OWNED"
                       /\ Latest(t) => session.state = "OWNED"
    /\ pc[t] = "helloDone" => loc[t].after = "notify"

\* A route agrees with the session.
Follows(route) ==
  /\ session.state = "FREE" => route = NoRef
  /\ IsCurrent(session.owner_link) => route = session.owner_link

\* The transport route is right once the latest transition has written it.
ProgressInv ==
  \A t \in Task : pc[t] \in {"channelCheck", "channelSet"} /\ Latest(t) => Follows(transportOwner)

\* Task t made the latest transition and has not applied its route yet.
Origin(t) ==
  /\ Latest(t)
  /\ \/ Acquiring(t)
     \/ (pc[t] = "apply" \/ InRoute(t)) /\ loc[t].snapshot.state = "FREE"

\* Either the route of the latest transition is still to be applied, or the
\* owner's link is gone, or both routes are right and no older writer is left.
SettledInv ==
  \/ \E t \in Task : Origin(t)
  \/ HasOwner(session) /\ ~IsCurrent(session.owner_link)
  \/ /\ Follows(transportOwner) /\ Follows(channelOwner)
     /\ \A t \in Task : InRoute(t) => Latest(t)

\* The invariant is preserved by every step of ev_session_apply_route, of the
\* transitions and of the link registry, and implies RoutesFollowSession.
RouteInv ==
  /\ TypeOK /\ LockInv /\ GenInv /\ SnapshotInv
  /\ AcquireInv /\ ProgressInv /\ SettledInv

\* Task t is inside ev_session_clear_owner for the present session.
Clearing(t) ==
  /\ pc[t] = "clear"
  /\ loc[t].ref = session.owner_link
  /\ loc[t].session_id \in {0, session.session_id}

\* Task t carries the hello response of the present session.
HelloCarried(t) ==
  \/ /\ \/ pc[t] \in {"recheck", "respond"}
        \/ /\ pc[t] \in {"apply", "setTransport", "channelCheck", "channelSet"}
           /\ loc[t].after = "respond"
     /\ loc[t].snapshot.session_id = session.session_id
  \/ pc[t] = "helloDone" /\ loc[t].session_id = session.session_id

\* Task t has yet to queue the release response of the present session.
ReleaseCarried(t) ==
  pc[t] = "releaseRespond" /\ loc[t].session_id = session.session_id

Queued(kind) ==
  \E l \in Link, i \in Slot : txq[l][i] = [kind |-> kind, link |-> session.owner_link,
                                         session_id |-> session.session_id]

\* A RELEASING session never expires and a session before its handshake
\* answers nothing, so each always has the frame, or the task, whose completion
\* will end it: no refused, cancelled, expired or overtaken response strands it.
CompletionOutstanding ==
  /\ session.state = "RELEASING" =>
       \/ Queued("RELEASE")
       \/ \E t \in Task : Clearing(t) \/ ReleaseCarried(t)
  /\ session.state = "OWNED" /\ ~session.handshake_complete =>
       \/ Queued("HELLO")
       \/ \E t \in Task : Clearing(t) \/ HelloCarried(t)

\* A serial session held by a rotated reference is about to be given back by
\* the very hello that took it: the byte stream never changes hands silently.
StaleSerialOwnerIsTransient ==
  session.owner_link.link \in SerialLinks /\ ~IsCurrent(session.owner_link) =>
    \E t \in Task : Clearing(t) \/ (pc[t] = "recheck" /\ loc[t].ref = session.owner_link)

\* User and debug output never reaches a serial link except for the session
\* that owns it now: a route that is written late names a rotated generation.
SerialRouteOnlyForOwner ==
  channelOwner.link \in SerialLinks /\ IsCurrent(channelOwner) =>
    HasOwner(session) /\ session.owner_link = channelOwner

\* Registry, session and queues are well typed, and no serial byte stream, in or
\* out, is shared by two hosts unnoticed.
SerialInv == TypeOK /\ StaleSerialOwnerIsTransient /\ SerialRouteOnlyForOwner

\* A release always ends: the session becomes FREE whatever happens to the
\* response frame, its link or the worker's queue.
ReleaseEnds == session.state = "RELEASING" ~> session.state = "FREE"

\* A session whose link is gone does not lock other hosts out for ever.
DeadOwnerEnds ==
  (HasOwner(session) /\ ~IsCurrent(session.owner_link)) ~>
    (session.state = "FREE" \/ IsCurrent(session.owner_link))

==============================================================================
