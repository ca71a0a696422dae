------------------------------- MODULE EvTcp -------------------------------
(***************************************************************************)
(* The TCP links (platform/ev_tcp.c) and their entries in the link         *)
(* registry (ev_transport.c).  One manager task accepts, reads and closes  *)
(* sockets.  Other tasks may end a link: they invalidate its generation in *)
(* the registry and then, in a second step, leave a notice for the manager *)
(* to close the socket.  Between the two the manager goes on.              *)
(*                                                                         *)
(* A step of the manager is what it does between two points where another  *)
(* task can matter.  Time is a choice: a deadline may have passed whenever *)
(* the code asks.  So are the state of the network and whether a link has  *)
(* subscribed to the preview.                                              *)
(***************************************************************************)
EXTENDS Naturals, FiniteSets

CONSTANTS
  Slots,       \* EV_TRANSPORT_TCP_LINKS: 0..n
  MaxAccepts   \* bound: connections accepted

ASSUME TcpAssumption == Slots \subseteq Nat /\ MaxAccepts \in Nat

VARIABLES
  slots,     \* s_links of ev_tcp.c
  registry,  \* s_links of ev_transport.c, the TCP part
  closeAt,   \* s_close_pending, s_close_generation
  manager,   \* where the manager task is
  closers,   \* links other tasks have invalidated and not announced yet
  sockets,   \* descriptors that lwIP has open for connections
  listening, \* s_listener >= 0
  tcpOwner,  \* the link of the session's owner
  accepts    \* connections so far

tcpVars == <<slots, registry, closeAt, manager, closers, sockets, listening,
             tcpOwner, accepts>>

NoFd == 0
NoRef == [slot |-> 0, generation |-> 0]
Ref(s) == [slot |-> s, generation |-> slots[s].generation]
Current(ref) == registry[ref.slot].open /\ registry[ref.slot].generation = ref.generation

EmptySlot == [fd |-> NoFd, active |-> FALSE, generation |-> 0, claimed |-> FALSE, armed |-> FALSE]
Idle == [pc |-> "sync", slot |-> 0, todo |-> {}, then |-> "sync", fd |-> NoFd, received |-> FALSE]
Lowest(S) == CHOOSE s \in S : \A t \in S : s <= t
NextSlot(s) == s + 1

(***************************************************************************)
(* The end of a link.                                                      *)
(***************************************************************************)
\* ev_transport_link_close: generations are odd while the link is open.
Invalidated(ref) ==
  IF Current(ref)
    THEN [registry EXCEPT ![ref.slot] = [open |-> FALSE, generation |-> ref.generation + 1]]
    ELSE registry

\* Mutant of Marked: the notice is for the slot, whichever link is in it.
MMarked(ref) ==
  IF slots[ref.slot].active
    THEN [closeAt EXCEPT ![ref.slot] =
            [pending |-> TRUE, generation |-> slots[ref.slot].generation]]
    ELSE closeAt

\* ev_tcp_mark_close_pending, under the socket lock.
Marked(ref) ==
  IF slots[ref.slot].active /\ slots[ref.slot].generation = ref.generation
    THEN [closeAt EXCEPT ![ref.slot] = [pending |-> TRUE, generation |-> ref.generation]]
    ELSE closeAt

\* The transmit worker, the session or the VM ends a link that is in use.  A session
\* that owns it may have ended before, may end later, or may wait for its lease.
CloserInvalidates(s) ==
  /\ slots[s].active
  /\ Current(Ref(s))
  /\ registry' = Invalidated(Ref(s))
  /\ closers' = closers \cup {Ref(s)}
  /\ UNCHANGED <<slots, closeAt, manager, sockets, listening, tcpOwner, accepts>>

OwnerLeaves ==
  /\ tcpOwner # NoRef
  /\ tcpOwner' = NoRef
  /\ UNCHANGED <<slots, registry, closeAt, manager, closers, sockets, listening, accepts>>

\* Mutant of CloserMarks: only a link that is still valid is announced.
MCloserMarks ==
  \E ref \in closers :
    /\ closers' = closers \ {ref}
    /\ closeAt' = IF Current(ref) THEN Marked(ref) ELSE closeAt
    /\ UNCHANGED <<slots, registry, manager, sockets, listening, tcpOwner, accepts>>

CloserMarks ==
  \E ref \in closers :
    /\ closers' = closers \ {ref}
    /\ closeAt' = Marked(ref)
    /\ UNCHANGED <<slots, registry, manager, sockets, listening, tcpOwner, accepts>>

\* The manager goes through the notices, and then on at pc "then".
Reap(then, slot) ==
  manager' = [Idle EXCEPT !.pc = "reap", !.todo = Slots, !.then = then, !.slot = slot]

\* ev_tcp_request_close_slot for an active slot: the session, the registry, the
\* notice; the socket is closed by the reaping that follows.
RequestClose(s) ==
  /\ tcpOwner' = IF tcpOwner = Ref(s) THEN NoRef ELSE tcpOwner
  /\ registry' = Invalidated(Ref(s))
  /\ closeAt' = Marked(Ref(s))

(***************************************************************************)
(* ev_tcp_close_pending_links, slot by slot.                               *)
(***************************************************************************)
ReapSlot ==
  LET s == Lowest(manager.todo)
      retire == closeAt[s].pending /\ slots[s].active
                /\ slots[s].generation = closeAt[s].generation
  IN /\ manager.pc = "reap"
     /\ manager.todo # {}
     /\ manager' = [manager EXCEPT !.todo = @ \ {s}, !.fd = IF retire THEN slots[s].fd ELSE NoFd,
                                   !.pc = IF retire THEN "close" ELSE "reap"]
     /\ slots' = IF retire THEN [slots EXCEPT ![s] = [@ EXCEPT !.fd = NoFd, !.active = FALSE,
                                                               !.generation = 0]]
                 ELSE slots
     /\ closeAt' = [closeAt EXCEPT ![s].pending = @ /\ retire]
     /\ UNCHANGED <<registry, closers, sockets, listening, tcpOwner, accepts>>

\* close() outside the lock, then the notice is cleared.
CloseSocket ==
  LET reaped == Slots \ manager.todo
      s == CHOOSE t \in reaped : \A u \in reaped : u <= t
  IN /\ manager.pc = "close"
     /\ sockets' = sockets \ {manager.fd}
     /\ closeAt' = [closeAt EXCEPT ![s].pending = FALSE]
     /\ manager' = [manager EXCEPT !.pc = "reap", !.fd = NoFd]
     /\ UNCHANGED <<slots, registry, closers, listening, tcpOwner, accepts>>

ReapDone ==
  /\ manager.pc = "reap"
  /\ manager.todo = {}
  /\ manager' = [Idle EXCEPT !.pc = manager.then, !.slot = manager.slot]
  /\ UNCHANGED <<slots, registry, closeAt, closers, sockets, listening, tcpOwner, accepts>>

(***************************************************************************)
(* A round of ev_tcp_task: the listener, the notices, one accept, every    *)
(* link, the notices again.                                                *)
(***************************************************************************)
\* ev_tcp_sync_listener.  A round may come too early for it, or the listener may
\* not be created this time.
SyncListener ==
  /\ manager.pc = "sync"
  /\ listening' \in {listening, TRUE}
  /\ Reap("accept", 0)
  /\ UNCHANGED <<slots, registry, closeAt, closers, sockets, tcpOwner, accepts>>

\* The network is gone or has another address: the listener goes and so do all links.
StopListening ==
  /\ manager.pc = "sync"
  /\ listening' = FALSE
  /\ manager' = [Idle EXCEPT !.pc = "shut"]
  /\ UNCHANGED <<slots, registry, closeAt, closers, sockets, tcpOwner, accepts>>

ShutLinks ==
  LET active == {s \in Slots : slots[s].active} IN
  /\ manager.pc = "shut"
  /\ IF active # {}
       THEN RequestClose(Lowest(active)) /\ Reap("shut", 0) /\ UNCHANGED listening
       ELSE /\ Reap("accept", 0)
            /\ listening' \in BOOLEAN
            /\ UNCHANGED <<registry, closeAt, tcpOwner>>
  /\ UNCHANGED <<slots, closers, sockets, accepts>>

Poll(slot) == manager' = [Idle EXCEPT !.pc = "poll", !.slot = slot]

\* ev_tcp_accept_one: nobody waits.
AcceptNone ==
  /\ manager.pc = "accept"
  /\ Poll(0)
  /\ UNCHANGED <<slots, registry, closeAt, closers, sockets, listening, tcpOwner, accepts>>

\* Mutant of Accept: a connection for which there is no slot is not closed.
MAccept ==
  /\ manager.pc = "accept"
  /\ listening
  /\ accepts < MaxAccepts
  /\ accepts' = accepts + 1
  /\ LET free == {s \in Slots : ~slots[s].active}
         s == Lowest(free)
     IN IF free = {} \/ registry[s].open
          THEN /\ sockets' = sockets \cup {accepts + 1}
               /\ Poll(0)
               /\ UNCHANGED registry
          ELSE /\ sockets' = sockets \cup {accepts + 1}
               /\ registry' = [registry EXCEPT ![s] = [open |-> TRUE, generation |-> @.generation + 1]]
               /\ manager' = [Idle EXCEPT !.pc = "install", !.slot = s, !.fd = accepts + 1]
  /\ UNCHANGED <<slots, closeAt, closers, listening, tcpOwner>>

\* The socket gets a slot and a generation, or is closed again.
Accept ==
  /\ manager.pc = "accept"
  /\ listening
  /\ accepts < MaxAccepts
  /\ accepts' = accepts + 1
  /\ LET free == {s \in Slots : ~slots[s].active}
         s == Lowest(free)
     IN IF free = {} \/ registry[s].open
          THEN /\ Poll(0)
               /\ UNCHANGED <<registry, sockets>>
          ELSE /\ sockets' = sockets \cup {accepts + 1}
               /\ registry' = [registry EXCEPT ![s] = [open |-> TRUE, generation |-> @.generation + 1]]
               /\ manager' = [Idle EXCEPT !.pc = "install", !.slot = s, !.fd = accepts + 1]
  /\ UNCHANGED <<slots, closeAt, closers, listening, tcpOwner>>

Install ==
  /\ manager.pc = "install"
  /\ slots' = [slots EXCEPT ![manager.slot] =
                 [fd |-> manager.fd, active |-> TRUE, claimed |-> FALSE, armed |-> FALSE,
                  generation |-> registry[manager.slot].generation]]
  /\ Poll(0)
  /\ UNCHANGED <<registry, closeAt, closers, sockets, listening, tcpOwner, accepts>>

(***************************************************************************)
(* ev_tcp_poll_link                                                        *)
(***************************************************************************)
Claim(s) == slots' = [slots EXCEPT ![s].claimed = TRUE, ![s].armed = FALSE]

PollDone ==
  /\ manager.pc = "poll"
  /\ manager.slot \notin Slots
  /\ Reap("sync", 0)
  /\ UNCHANGED <<slots, registry, closeAt, closers, sockets, listening, tcpOwner, accepts>>

PollEmpty ==
  /\ manager.pc = "poll"
  /\ manager.slot \in Slots
  /\ ~slots[manager.slot].active
  /\ Poll(NextSlot(manager.slot))
  /\ UNCHANGED <<slots, registry, closeAt, closers, sockets, listening, tcpOwner, accepts>>

\* A link whose generation is no longer valid waits for its notice.
PollStale ==
  /\ manager.pc = "poll"
  /\ manager.slot \in Slots
  /\ slots[manager.slot].active
  /\ ~Current(Ref(manager.slot))
  /\ Reap("poll", NextSlot(manager.slot))
  /\ UNCHANGED <<slots, registry, closeAt, closers, sockets, listening, tcpOwner, accepts>>

PollLink ==
  LET s == manager.slot IN
  /\ manager.pc = "poll"
  /\ s \in Slots
  /\ slots[s].active
  /\ Current(Ref(s))
  /\ \/ /\ manager' = [manager EXCEPT !.pc = "read"]
        /\ Claim(s) \/ (tcpOwner # Ref(s) /\ UNCHANGED slots)
        /\ UNCHANGED <<registry, closeAt, tcpOwner>>
     \/ \* the handshake's deadline has passed
        /\ tcpOwner # Ref(s) /\ ~slots[s].claimed
        /\ RequestClose(s)
        /\ Reap("poll", NextSlot(s))
        /\ UNCHANGED slots
  /\ UNCHANGED <<closers, sockets, listening, accepts>>

\* ev_tcp_link_read and what the parser makes of the bytes: they may acquire the session.
ReadData ==
  LET s == manager.slot IN
  /\ manager.pc = "read"
  /\ ~(closeAt[s].pending /\ closeAt[s].generation = slots[s].generation)
  /\ \/ UNCHANGED tcpOwner
     \/ tcpOwner = NoRef /\ Current(Ref(s)) /\ tcpOwner' = Ref(s)
     \/ tcpOwner = Ref(s) /\ tcpOwner' = NoRef
  /\ manager' = [manager EXCEPT !.pc = "judge", !.received = TRUE]
  /\ UNCHANGED <<slots, registry, closeAt, closers, sockets, listening, accepts>>

ReadNothing ==
  /\ manager.pc = "read"
  /\ manager' = [manager EXCEPT !.pc = "judge"]
  /\ UNCHANGED <<slots, registry, closeAt, closers, sockets, listening, tcpOwner, accepts>>

\* The peer closed, or the link was ended meanwhile.
ReadClosed ==
  /\ manager.pc = "read"
  /\ RequestClose(manager.slot)
  /\ Reap("poll", NextSlot(manager.slot))
  /\ UNCHANGED <<slots, closers, sockets, listening, accepts>>

\* The owner's link, or one that has subscribed to the preview.
JudgeOwner ==
  /\ manager.pc = "judge"
  /\ Claim(manager.slot)
  /\ Poll(NextSlot(manager.slot))
  /\ UNCHANGED <<registry, closeAt, closers, sockets, listening, tcpOwner, accepts>>

\* Nobody owns the link: a claimed one gets an idle period first; at a deadline the
\* link is closed.
JudgeIdle ==
  LET s == manager.slot
      starts == slots[s].claimed /\ (~slots[s].armed \/ manager.received)
  IN
  /\ manager.pc = "judge"
  /\ tcpOwner # Ref(s)
  /\ \/ /\ slots' = IF starts THEN [slots EXCEPT ![s].armed = TRUE] ELSE slots
        /\ Poll(NextSlot(s))
        /\ UNCHANGED <<registry, closeAt, tcpOwner>>
     \/ /\ ~starts
        /\ RequestClose(s)
        /\ Reap("poll", NextSlot(s))
        /\ UNCHANGED slots
  /\ UNCHANGED <<closers, sockets, listening, accepts>>

TcpInit ==
  /\ slots = [s \in Slots |-> EmptySlot]
  /\ registry = [s \in Slots |-> [open |-> FALSE, generation |-> 0]]
  /\ closeAt = [s \in Slots |-> [pending |-> FALSE, generation |-> 0]]
  /\ manager = Idle
  /\ closers = {}
  /\ sockets = {}
  /\ listening = FALSE
  /\ tcpOwner = NoRef
  /\ accepts = 0

Manage ==
  \/ SyncListener \/ StopListening \/ ShutLinks
  \/ ReapSlot \/ CloseSocket \/ ReapDone
  \/ AcceptNone \/ Accept \/ Install
  \/ PollDone \/ PollEmpty \/ PollStale \/ PollLink
  \/ ReadData \/ ReadNothing \/ ReadClosed \/ JudgeOwner \/ JudgeIdle

TcpNext ==
  \/ Manage
  \/ CloserMarks
  \/ OwnerLeaves
  \/ \E s \in Slots : CloserInvalidates(s)

TcpSpec == TcpInit /\ [][TcpNext]_tcpVars

\* The manager goes round; a task that invalidated a link leaves its notice.
TcpFairness == WF_tcpVars(Manage) /\ WF_tcpVars(CloserMarks)

(***************************************************************************)
(* Properties                                                              *)
(***************************************************************************)
Generations == 0..(2 * MaxAccepts)
Refs == [slot : Slots, generation : Generations]

TcpTypeOK ==
  /\ slots \in [Slots -> [fd : 0..MaxAccepts, active : BOOLEAN, generation : Generations,
                          claimed : BOOLEAN, armed : BOOLEAN]]
  /\ registry \in [Slots -> [open : BOOLEAN, generation : Generations]]
  /\ closeAt \in [Slots -> [pending : BOOLEAN, generation : Generations]]
  /\ manager.pc \in {"sync", "shut", "reap", "close", "accept", "install", "poll", "read", "judge"}
  /\ closers \subseteq Refs
  /\ sockets \subseteq 1..MaxAccepts
  /\ tcpOwner \in Refs \cup {NoRef}

\* No socket is lost and none is shared: each one that is open is in exactly one slot,
\* or in the manager's hands between a slot and accept() or close().
SocketsAccounted ==
  /\ sockets = ({slots[s].fd : s \in Slots} \cup {manager.fd}) \ {NoFd}
  /\ \A s, t \in Slots : s # t /\ slots[s].fd # NoFd => slots[s].fd # slots[t].fd
  /\ \A s \in Slots : slots[s].active <=> slots[s].fd # NoFd

\* A connection leaves its slot only after its own generation was invalidated: a late
\* notice for an earlier connection in the slot never closes it.
OnlyItsOwnClose ==
  [][\A s \in Slots : slots[s].active /\ Ref(s)' # Ref(s) => ~Current(Ref(s))]_tcpVars

\* A link that was invalidated is closed: its slot is free for another connection.
InvalidLinkEnds ==
  \A s \in Slots : (slots[s].active /\ ~Current(Ref(s))) ~> ~(slots[s].active /\ ~Current(Ref(s)))
=============================================================================
