------------------------------- MODULE EvMux -------------------------------
(***************************************************************************)
(* The transmit side of EV-MUX (platform/ev_mux.c): the queue of every     *)
(* target, the shared quota of the TCP targets, the special frames (one    *)
(* large answer, the owner's two previews, the observers' previews) and    *)
(* the worker that writes them piecemeal.                                  *)
(*                                                                         *)
(* A submission holds one mutex from its checks to its end, so it is one   *)
(* step; one that is refused changes nothing and is no step.  The worker   *)
(* visits the targets in turn; here it visits any of them.  It takes       *)
(* s_special_mutex without waiting: "locked" says whether it got it.  A    *)
(* visit is one step; what it does after giving the mutexes back, failing  *)
(* the session, cancelling its frames and closing the link, are steps of   *)
(* their own.  tx_offset is reduced to "started", the clock to "late" (two *)
(* seconds in the queue) and "overdue" (the frame's own deadline).  The    *)
(* session, the links and the pause of the UART belong to EvSession, EvTcp *)
(* and UartBaud and change here at any time.                               *)
(***************************************************************************)
EXTENDS Integers, FiniteSets, Sequences, SequencesExt

CONSTANTS
  SerialTargets, TcpTargets,    \* the targets' numbers, by transport
  Uart,                         \* the serial target that may be uartPaused
  QueueFrames, ReservedFrames,  \* EV_MUX_QUEUE_FRAMES, EV_MUX_QUEUE_RESERVED_FRAMES
  QueueBytes, ReservedBytes,    \* EV_MUX_QUEUE_BYTES, EV_MUX_QUEUE_RESERVED_BYTES
  BlockCount,                   \* EV_MUX_BLOCK_COUNT
  PreviewObservers,             \* EV_TRANSPORT_PREVIEW_OBSERVERS
  Scenarios                     \* bounds: what is submitted, the targets in play, and how
                                \* often the rest of the device interferes

Targets == SerialTargets \cup TcpTargets

\* EV_MUX_TX_SESSION, CONTROL, REPL, PREVIEW (LOG, 3, is queued like REPL)
Session == 0
Control == 1
Repl == 2
Preview == 4
Class == {Session, Control, Repl, Preview}

Kinds == [owned : BOOLEAN, vm : BOOLEAN, class : Class, bytes : Nat, blocks : Nat]

ASSUME MuxAssumption ==
  /\ SerialTargets \subseteq Nat /\ TcpTargets \subseteq Nat /\ SerialTargets \cap TcpTargets = {}
  /\ IsFiniteSet(Targets) /\ Uart \in SerialTargets
  /\ QueueFrames \in Nat /\ ReservedFrames \in 0..QueueFrames
  /\ QueueBytes \in Nat /\ ReservedBytes \in 0..QueueBytes
  /\ BlockCount \in Nat /\ PreviewObservers \in Nat
  /\ Scenarios \subseteq
       [normal : Nat, large : Nat, preview : Nat, observer : Nat, kinds : SUBSET Kinds,
        targets : SUBSET Targets, owners : Nat, generations : Nat, disturb : Nat,
        events : SUBSET STRING]

VARIABLES
  frames,     \* the frames in use, by their place
  order,      \* the places of each target's frames by enqueue_order, oldest first
  used,       \* frames_used and bytes_used of each target's queue
  freeBlocks, \* free_blocks of each serial target, s_tcp_free_blocks
  quota,      \* s_tcp_*_used
  preview,    \* s_preview_pending and s_preview_active (0: none)
  partial,    \* s_special_partial_frame
  observers,  \* s_observer_generations
  links, owner, epoch, uartPaused,  \* the links, the session, the VM epoch, s_uart_paused
  worker,     \* the session and link that the worker is failing
  cancels,    \* calls of ev_mux_cancel_session and ev_mux_cancel_vm_epoch under way
  budget,     \* what is left of the scenario
  received        \* history: what the peer of each target has received so far

queueVars == <<frames, order, used, freeBlocks, quota>>
specialVars == <<preview, partial, observers>>
deviceVars == <<links, owner, epoch, uartPaused>>
muxVars == <<queueVars, specialVars, deviceVars, worker, cancels, budget, received>>

(***************************************************************************)
(* Places and frames.                                                      *)
(***************************************************************************)
NormalPlaces(t) == {<<"queue", t, i>> : i \in 1..QueueFrames}
Large == <<"large">>
PreviewPlace(i) == <<"preview", i>>
ObserverPlaces == {<<"observer", i>> : i \in 1..(2 * PreviewObservers)}
Special == {Large, PreviewPlace(1), PreviewPlace(2)} \cup ObserverPlaces
Place == (UNION {NormalPlaces(t) : t \in Targets}) \cup Special
NoPlace == <<>>

ObserverBuffers == {<<"observer buffer", i>> : i \in 1..(PreviewObservers + 1)}

\* A frame as ev_mux_prepare_frame leaves it.  "intact" is history: the buffer that a
\* special frame refers to has not been written since.
NewFrame(target, generation, session, vm, class, bytes) ==
  [target |-> target, generation |-> generation, session |-> session, epoch |-> vm,
   class |-> class, bytes |-> bytes, blocks |-> {}, observer |-> FALSE,
   attempted |-> FALSE, started |-> FALSE, late |-> FALSE, overdue |-> FALSE,
   buffer |-> NoPlace, intact |-> TRUE]

IsTcp(t) == t \in TcpTargets
TcpArena == -1
Arena(t) == IF IsTcp(t) THEN TcpArena ELSE t
Arenas == SerialTargets \cup {TcpArena}

Discovery(f) == f.session = 0
Low(f) == f.class >= Repl
Minus(a, b) == IF a >= b THEN a - b ELSE 0
LowestOf(S) == CHOOSE i \in S : \A j \in S : i <= j
\* The sum of the frames' bytes: the number of pairs of a frame and one of its bytes.
BytesOf(P) == Cardinality(UNION {{p} \X (1..frames[p].bytes) : p \in P})
\* A queue without the places in P, in its order.
Without(queue, P) ==
  LET kept[i \in 0..Len(queue)] ==
        IF i = 0 THEN <<>>
        ELSE IF queue[i] \in P THEN kept[i - 1] ELSE Append(kept[i - 1], queue[i])
  IN kept[Len(queue)]

IsCurrent(target, generation) == links[target] = [generation |-> generation, open |-> TRUE]
Held(f) ==
  owner.held /\ owner.id = f.session /\ owner.target = f.target
             /\ owner.generation = f.generation

(***************************************************************************)
(* Removing frames: ev_mux_frame_finish_normal_locked,                     *)
(* ev_mux_special_release_locked and the loops that cancel.                *)
(***************************************************************************)
\* The TCP quota with n frames of b bytes more or less in one of its three classes.
Less(share, P) ==
  [frames |-> Minus(share.frames, Cardinality(P)), bytes |-> Minus(share.bytes, BytesOf(P))]
More(share, f) == [frames |-> share.frames + 1, bytes |-> share.bytes + f.bytes]

\* Mutant of TcpRelease: the share of the low classes is not given back.
MTcpRelease(P) ==
  quota' = [quota EXCEPT !.all = Less(@, P),
                         !.discovery = Less(@, {p \in P : Discovery(frames[p])})]

\* ev_mux_tcp_release_reservation
TcpRelease(P) ==
  quota' = [all |-> Less(quota.all, P),
            discovery |-> Less(quota.discovery, {p \in P : Discovery(frames[p])}),
            low |-> Less(quota.low, {p \in P : Low(frames[p])})]

\* What is left when the frames at P are gone; "whole" when their last byte was written.
Dropped(P, whole) ==
  LET normal(t) == P \cap NormalPlaces(t)
      cut(t) == {p \in P : frames[p].target = t /\ frames[p].started
                           /\ frames[p].generation = links[t].generation}
  IN
  /\ frames' = [p \in DOMAIN frames \ P |-> frames[p]]
  /\ order' = [t \in Targets |-> Without(order[t], P)]
  /\ used' = [t \in Targets |-> Less(used[t], normal(t))]
  /\ freeBlocks' = [a \in Arenas |->
       freeBlocks[a] \cup UNION {frames[p].blocks : p \in
                                   UNION {normal(t) : t \in {u \in Targets : Arena(u) = a}}}]
  /\ TcpRelease(UNION {normal(t) : t \in TcpTargets})
  /\ preview' = [k \in DOMAIN preview |-> IF PreviewPlace(preview[k]) \in P THEN 0 ELSE preview[k]]
  /\ partial' = [t \in Targets |->
       IF partial[t] \in P /\ frames[partial[t]].started THEN NoPlace ELSE partial[t]]
  /\ IF whole THEN TRUE
              ELSE received' = [t \in Targets |->
                     IF cut(t) # {} /\ received[t].state = "open" THEN [received[t] EXCEPT !.state = "cut"]
                                                              ELSE received[t]]

(***************************************************************************)
(* Submissions.                                                            *)
(***************************************************************************)
\* The frame limits of a target's queue and, for TCP, of the quota the TCP targets
\* share, each kept free of a reserve that low-priority or discovery frames may not use.
Fits(share, f, frameLimit, byteLimit) ==
  share.frames < frameLimit /\ share.bytes + f.bytes <= byteLimit
FitsReserved(share, f) == Fits(share, f, QueueFrames - ReservedFrames, QueueBytes - ReservedBytes)

QueueAccepts(t, f) ==
  /\ Fits(used[t], f, QueueFrames, QueueBytes)
  /\ Low(f) => FitsReserved(used[t], f)

\* ev_mux_tcp_reserve
TcpAccepts(f) ==
  /\ Fits(quota.all, f, QueueFrames, QueueBytes)
  /\ Discovery(f) => FitsReserved(quota.discovery, f)
  /\ Low(f) => FitsReserved(quota.low, f)
TcpReserve(f) ==
  [all |-> More(quota.all, f),
   discovery |-> IF Discovery(f) THEN More(quota.discovery, f) ELSE quota.discovery,
   low |-> IF Low(f) THEN More(quota.low, f) ELSE quota.low]

\* The frame f takes the place p, and its payload the buffer it names, if any.
Stored(p, f) ==
  /\ frames' = [q \in DOMAIN frames \cup {p} |->
       IF q = p THEN f
       ELSE [frames[q] EXCEPT !.intact = @ /\ (f.buffer = NoPlace \/ frames[q].buffer # f.buffer)]]
  /\ order' = [t \in Targets |-> Without(order[t], {p})
                                 \o (IF t = f.target THEN <<p>> ELSE <<>>)]

Spend(kind) == budget[kind] > 0 /\ budget' = [budget EXCEPT ![kind] = @ - 1]

\* ev_mux_enqueue_normal: a frame for a link that is, or was when its sender looked, open;
\* for no session or the one its sender saw; bound to the VM epoch or not.
Submit(t, kind) ==
  LET f == NewFrame(t, IF kind.owned THEN owner.generation ELSE links[t].generation,
                    IF kind.owned THEN owner.id ELSE 0, IF kind.vm THEN epoch ELSE 0,
                    kind.class, kind.bytes)
      slots == {i \in 1..QueueFrames : <<"queue", t, i>> \notin DOMAIN frames}
      free == freeBlocks[Arena(t)]
      taken == {b \in free : Cardinality({c \in free : c < b}) < kind.blocks}
  IN
  /\ Spend("normal")
  /\ kind.owned => owner.id # 0 /\ owner.target = t
  /\ QueueAccepts(t, f)
  /\ slots # {}
  /\ IsTcp(t) => TcpAccepts(f)
  /\ Cardinality(taken) = kind.blocks
  /\ Stored(<<"queue", t, LowestOf(slots)>>, [f EXCEPT !.blocks = taken])
  /\ used' = [used EXCEPT ![t] = More(@, f)]
  /\ quota' = IF IsTcp(t) THEN TcpReserve(f) ELSE quota
  /\ freeBlocks' = [freeBlocks EXCEPT ![Arena(t)] = @ \ taken]
  /\ UNCHANGED <<specialVars, deviceVars, worker, cancels, received>>

SpecialFrame(t, generation, session, vm, class, b) ==
  [NewFrame(t, generation, session, vm, class, 0) EXCEPT !.buffer = b]

\* The owner's output was ready when the sender looked; its end or release may have come
\* since (ev_mux_submit_large_link and ev_mux_submit_preview_link before they call
\* ev_mux_submit_special).
WasReady == owner.ready # "not yet"

\* ev_mux_submit_large_link and ev_mux_submit_special
SubmitLarge ==
  /\ Spend("large")
  /\ WasReady
  /\ Large \notin DOMAIN frames
  /\ \E vm \in {0, epoch} :
       Stored(Large, SpecialFrame(owner.target, owner.generation, owner.id, vm, Control, Large))
  /\ UNCHANGED <<used, freeBlocks, quota, preview, partial, observers, deviceVars, worker, cancels,
                 received>>

\* The place a new preview of the owner takes: the pending one's, or a free one that is
\* not being sent, or the first when none is.
PreviewPool ==
  LET free == {i \in 1..2 : i # preview.active /\ PreviewPlace(i) \notin DOMAIN frames} IN
  IF preview.pending # 0 THEN preview.pending
  ELSE IF free # {} THEN LowestOf(free)
  ELSE IF preview.active = 0 THEN 1 ELSE 0

\* ev_mux_submit_preview_link and ev_mux_submit_special: the pending preview is replaced
SubmitPreview ==
  LET p == PreviewPlace(PreviewPool) IN
  /\ Spend("preview")
  /\ WasReady
  /\ PreviewPool # 0
  /\ p \in DOMAIN frames => ~frames[p].started
  /\ Stored(p, SpecialFrame(owner.target, owner.generation, owner.id, epoch, Preview, p))
  /\ preview' = [preview EXCEPT !.pending = p[2]]
  /\ UNCHANGED <<used, freeBlocks, quota, partial, observers, deviceVars, worker, cancels, received>>

(***************************************************************************)
(* Observers: other TCP links that watch the previews.                     *)
(***************************************************************************)
\* ev_mux_preview_subscribed
Subscribed(t) == IsCurrent(t, observers[t])

\* ev_mux_preview_subscribe
Subscribe(t, enable) ==
  /\ links[t].open
  /\ ~(owner.held /\ owner.target = t /\ owner.generation = links[t].generation)
  /\ \/ ~enable
     \/ Subscribed(t)
     \/ Cardinality({u \in TcpTargets : Subscribed(u)}) < PreviewObservers
  /\ budget.observer > 0
  /\ observers' = [observers EXCEPT ![t] = IF enable THEN links[t].generation ELSE 0]
  /\ UNCHANGED <<queueVars, preview, partial, deviceVars, worker, cancels, budget, received>>

\* Mutant of IdleBuffers: a frame that has started does not hold its buffer.
MIdleBuffers == ObserverBuffers

\* A buffer that no frame under way refers to.
IdleBuffers ==
  {b \in ObserverBuffers :
     ~\E p \in ObserverPlaces \cap DOMAIN frames : frames[p].started /\ frames[p].buffer = b}

\* The frame an observer's next one replaces: its deadline goes on.
Waiting(t) ==
  {frames[p] : p \in {q \in ObserverPlaces \cap DOMAIN frames :
     /\ frames[q].target = t /\ frames[q].generation = links[t].generation
     /\ frames[q].attempted /\ ~frames[q].started}}

\* Mutant of ObserverFrame: the replacement starts the deadline anew.
MObserverFrame(t, b) ==
  [SpecialFrame(t, links[t].generation, 0, 0, Preview, b) EXCEPT !.observer = TRUE]

ObserverFrame(t, b) ==
  [SpecialFrame(t, links[t].generation, 0, 0, Preview, b) EXCEPT
     !.observer = TRUE,
     !.attempted = Waiting(t) # {},
     !.overdue = \E f \in Waiting(t) : f.overdue]

\* ev_mux_preview_publish_observers: every frame that has not started is replaced, and
\* the k-th subscribed link takes the k-th place that is free then, if there is one.
Publish ==
  LET replaced == {p \in ObserverPlaces \cap DOMAIN frames : ~frames[p].started}
      kept == DOMAIN frames \ replaced
      free == {i \in 1..(2 * PreviewObservers) : <<"observer", i>> \notin kept}
      readers == {t \in TcpTargets : Subscribed(t)}
      rank(S, x) == Cardinality({y \in S : y < x})
      served(i) == {t \in readers : rank(readers, t) = rank(free, i)}
      fresh == {<<"observer", i>> : i \in {j \in free : served(j) # {}}}
      b == <<"observer buffer", LowestOf({i \in 1..(PreviewObservers + 1) :
                                          <<"observer buffer", i>> \in IdleBuffers})>>
  IN
  /\ budget.observer > 0
  /\ IdleBuffers # {}
  /\ frames' = [p \in kept \cup fresh |->
       IF p \in kept THEN [frames[p] EXCEPT !.intact = @ /\ frames[p].buffer # b]
       ELSE ObserverFrame(CHOOSE t \in served(p[2]) : TRUE, b)]
  /\ order' = [t \in Targets |-> Without(order[t], replaced)
                                 \o SetToSeq({p \in fresh : t \in served(p[2])})]
  /\ UNCHANGED <<used, freeBlocks, quota, preview, partial, observers, deviceVars, worker, cancels,
                 budget, received>>

(***************************************************************************)
(* A visit of the worker: which frame, and may it be sent?                 *)
(***************************************************************************)
\* The frames of a target that the visit can see.
Seen(t, locked) ==
  {p \in DOMAIN frames : frames[p].target = t /\ (p \in Special => locked)}
UartPaused(f) == f.target = Uart /\ uartPaused
Position(p) == CHOOSE i \in DOMAIN order[frames[p].target] : order[frames[p].target][i] = p
Before(p, q) ==
  \/ frames[p].class < frames[q].class
  \/ frames[p].class = frames[q].class /\ Position(p) < Position(q)

\* Mutant of Choice: the marker of a special frame under way is not looked at.
MChoice(t, locked) ==
  LET started == {p \in Seen(t, locked) : frames[p].started}
      fresh == {p \in Seen(t, locked) : ~frames[p].late /\ ~UartPaused(frames[p])}
  IN
  IF started # {} THEN started
  ELSE {p \in fresh : \A q \in fresh \ {p} : Before(p, q)}

\* ev_mux_choose_frame_locked: a frame that has started owns its target.
Choice(t, locked) ==
  LET started == {p \in Seen(t, locked) : frames[p].started}
      fresh == {p \in Seen(t, locked) : ~frames[p].late /\ ~UartPaused(frames[p])}
  IN
  IF ~locked /\ partial[t] # NoPlace THEN {}
  ELSE IF started # {} THEN started
  ELSE {p \in fresh : \A q \in fresh \ {p} : Before(p, q)}

\* ev_mux_frame_authorized.  (The origin that some output of the VM carries, and the
\* answers that UART speed negotiation lets through a pause, are left out.)
Stale(f) ==
  \/ f.observer /\ ~f.started /\ observers[f.target] # f.generation
  \/ /\ ~UartPaused(f) \/ f.started
     /\ \/ ~f.started /\ f.epoch # 0 /\ f.epoch # epoch
        \/ f.session # 0 /\ ~Held(f)
Allowed(f) ==
  /\ ~Stale(f)
  /\ \/ f.started
     \/ ~UartPaused(f) /\ (f.session = 0 \/ f.class = Session \/ owner.ready = "yes")

Visiting == [at |-> "visit", target |-> 0, generation |-> 0, session |-> 0, close |-> FALSE]

\* ev_mux_fail_session begins.
Fail(f, close) ==
  worker' = [at |-> "fail", target |-> f.target, generation |-> f.generation,
             session |-> f.session, close |-> close /\ IsTcp(f.target)]

\* Mutant of Expire: the special frames are not looked at.
MExpire(t, locked) ==
  /\ worker = Visiting
  /\ Choice(t, locked) = {}
  /\ \E p \in Seen(t, FALSE) :
       /\ frames[p].late /\ ~frames[p].started
       /\ Dropped({p}, FALSE)
  /\ UNCHANGED <<observers, deviceVars, worker, cancels, budget>>

\* No frame is chosen: one that spent its time in the queue is dropped, if there is one.
Expire(t, locked) ==
  /\ worker = Visiting
  /\ Choice(t, locked) = {}
  /\ \E p \in Seen(t, locked) :
       /\ frames[p].late /\ ~frames[p].started
       /\ Dropped({p}, FALSE)
  /\ UNCHANGED <<observers, deviceVars, worker, cancels, budget>>

\* The time in the queue ends between the choice and the second look at the clock.
Lapse(p) ==
  /\ ~frames[p].started
  /\ Dropped({p}, FALSE)
  /\ Fail(frames[p], FALSE)

DropStale(p) ==
  LET f == frames[p] IN
  /\ ~IsCurrent(f.target, f.generation) \/ Stale(f)
  /\ Dropped({p}, FALSE)
  /\ worker' = IF f.started /\ IsTcp(f.target)
                 THEN [at |-> "close", target |-> f.target, generation |-> f.generation,
                       session |-> 0, close |-> TRUE]
                 ELSE worker

\* A frame that a change of the speed has made too long for the UART.
TooSlow(p) ==
  /\ IsCurrent(frames[p].target, frames[p].generation) /\ Allowed(frames[p])
  /\ frames[p].target = Uart /\ ~frames[p].attempted
  /\ Dropped({p}, FALSE)
  /\ Fail(frames[p], FALSE)

\* The frame's own deadline.
Deadline(p) ==
  /\ IsCurrent(frames[p].target, frames[p].generation) /\ Allowed(frames[p])
  /\ frames[p].attempted /\ frames[p].overdue
  /\ Dropped({p}, FALSE)
  /\ Fail(frames[p], TRUE)

MaySend(p) ==
  /\ IsCurrent(frames[p].target, frames[p].generation) /\ Allowed(frames[p])
  /\ ~(frames[p].attempted /\ frames[p].overdue)

\* The transport takes nothing.
Blocked(p) ==
  /\ MaySend(p)
  /\ frames' = [frames EXCEPT ![p].attempted = TRUE]
  /\ UNCHANGED <<order, used, freeBlocks, quota, preview, partial, worker, received>>

\* The peer of t receives bytes of the frame at p, the last ones if "whole".
Receives(t, p, whole) ==
  LET follows == \/ received[t].state = "boundary"
                 \/ received[t].state = "open" /\ received[t].place = p
  IN
  received' = [received EXCEPT ![t] =
    [state |-> IF ~follows THEN "garbled" ELSE IF whole THEN "boundary" ELSE "open",
     place |-> IF whole THEN NoPlace ELSE p]]

SendSome(p) ==
  /\ MaySend(p)
  /\ frames' = [frames EXCEPT ![p].attempted = TRUE, ![p].started = TRUE, ![p].late = FALSE]
  /\ preview' = IF p \in {PreviewPlace(1), PreviewPlace(2)} /\ ~frames[p].started
                  THEN [pending |-> IF preview.pending = p[2] THEN 0 ELSE preview.pending,
                        active |-> p[2]]
                  ELSE preview
  /\ partial' = IF p \in Special THEN [partial EXCEPT ![frames[p].target] = p] ELSE partial
  /\ Receives(frames[p].target, p, FALSE)
  /\ UNCHANGED <<order, used, freeBlocks, quota, worker>>

SendAll(p) ==
  /\ MaySend(p)
  /\ Dropped({p}, TRUE)
  /\ Receives(frames[p].target, p, TRUE)
  /\ UNCHANGED worker

SendFails(p) ==
  /\ MaySend(p)
  /\ Dropped({p}, FALSE)
  /\ Fail(frames[p], TRUE)

\* ev_mux_process_target, when it chooses a frame and the frame may go on or must go
Visit(t, locked) ==
  /\ worker = Visiting
  /\ \E p \in Choice(t, locked) :
       \/ Lapse(p) \/ DropStale(p) \/ TooSlow(p) \/ Deadline(p)
       \/ Blocked(p) \/ SendSome(p) \/ SendAll(p) \/ SendFails(p)
  /\ UNCHANGED <<observers, deviceVars, cancels, budget>>

(***************************************************************************)
(* The failure of a session, and cancelling.                               *)
(***************************************************************************)
SpecialFrames == -1
Cancel(by, target, generation, session, vm) ==
  [by |-> by, target |-> target, generation |-> generation, session |-> session, epoch |-> vm,
   left |-> {SpecialFrames} \cup
     (IF vm = 0 THEN {target}
      ELSE {t \in Targets : \E p \in NormalPlaces(t) \cap DOMAIN frames : frames[p].epoch = vm})]

\* The session ends and its callback cancels what it left.
OwnerLost(more) ==
  /\ owner' = [owner EXCEPT !.held = FALSE]
  /\ cancels' = cancels \cup more
       \cup {Cancel("callback", owner.target, owner.generation, owner.id, 0)}

\* ev_mux_fail_session: ev_session_link_lost, then ev_mux_cancel_session
LinkLost ==
  LET w == worker
      mine == Cancel("worker", w.target, w.generation, w.session, 0)
  IN
  /\ w.at = "fail"
  /\ worker' = [w EXCEPT !.at = "close"]
  /\ IF w.session = 0 THEN UNCHANGED <<owner, cancels>>
     ELSE IF owner.held /\ owner.target = w.target /\ owner.generation = w.generation
       THEN OwnerLost({mine})
       ELSE cancels' = cancels \cup {mine} /\ UNCHANGED owner
  /\ UNCHANGED <<queueVars, specialVars, links, epoch, uartPaused, budget, received>>

\* ev_transport_link_close
CloseLink ==
  /\ worker.at = "close"
  /\ ~\E c \in cancels : c.by = "worker"
  /\ worker' = Visiting
  /\ links' = IF worker.close /\ IsCurrent(worker.target, worker.generation)
                THEN [links EXCEPT ![worker.target].open = FALSE] ELSE links
  /\ UNCHANGED <<queueVars, specialVars, owner, epoch, uartPaused, cancels, budget, received>>

\* The frames of a session on its link, or of a VM epoch.
Matches(c, f) ==
  IF c.epoch # 0 THEN f.epoch = c.epoch
  ELSE f.target = c.target /\ f.generation = c.generation /\ f.session = c.session

\* One queue of ev_mux_cancel_session or ev_mux_cancel_vm_epoch: the special frames,
\* then the targets.  A started frame stays.  Queues that cannot hold such a frame are
\* passed over.
CancelQueue(c, q) ==
  LET places == IF q = SpecialFrames THEN Special ELSE NormalPlaces(q)
      gone == {p \in places \cap DOMAIN frames : Matches(c, frames[p]) /\ ~frames[p].started}
      rest == [c EXCEPT !.left = @ \ {q}]
  IN
  /\ q \in c.left
  /\ SpecialFrames \in c.left => q = SpecialFrames
  /\ Dropped(gone, FALSE)
  /\ cancels' = (cancels \ {c}) \cup (IF rest.left = {} THEN {} ELSE {rest})
  /\ UNCHANGED <<observers, deviceVars, worker, budget>>

\* The mutex of the queue is busy for 20 ms: without that of the special frames the whole
\* call ends, without a target's only that queue is passed over.
CancelBusy(c, q) ==
  LET rest == [c EXCEPT !.left = @ \ {q}] IN
  /\ q \in c.left
  /\ SpecialFrames \in c.left => q = SpecialFrames
  /\ cancels' = (cancels \ {c}) \cup (IF q = SpecialFrames \/ rest.left = {} THEN {} ELSE {rest})
  /\ UNCHANGED <<queueVars, specialVars, deviceVars, worker, budget, received>>

(***************************************************************************)
(* The rest of the device and the clock.                                   *)
(***************************************************************************)
Disturb(event) == event \in budget.events /\ Spend("disturb")

deviceFrame == <<queueVars, specialVars, worker>>

OwnerBegins(t) ==
  /\ ~owner.held /\ owner.id < budget.owners /\ links[t].open
  /\ owner' = [id |-> owner.id + 1, target |-> t, generation |-> links[t].generation,
               held |-> TRUE, ready |-> "not yet"]
  /\ UNCHANGED <<deviceFrame, links, epoch, uartPaused, cancels, budget, received>>

OwnerReady ==
  /\ owner.held /\ owner.ready = "not yet"
  /\ owner' = [owner EXCEPT !.ready = "yes"]
  /\ UNCHANGED <<deviceFrame, links, epoch, uartPaused, cancels, budget, received>>

\* A release makes the output not ready; it, a takeover or the loss of the link end it.
OwnerReleases ==
  /\ Disturb("release")
  /\ owner.held /\ owner.ready = "yes"
  /\ owner' = [owner EXCEPT !.ready = "over"]
  /\ UNCHANGED <<deviceFrame, links, epoch, uartPaused, cancels, received>>

OwnerEnds ==
  /\ Disturb("end")
  /\ owner.held
  /\ OwnerLost({})
  /\ UNCHANGED <<deviceFrame, links, epoch, uartPaused, received>>

VmReset ==
  /\ Disturb("reset")
  /\ epoch' = epoch + 1
  /\ cancels' = cancels \cup {Cancel("reset", 0, 0, 0, epoch)}
  /\ UNCHANGED <<deviceFrame, links, owner, uartPaused, received>>

Pause ==
  /\ Disturb("pause")
  /\ uartPaused' = ~uartPaused
  /\ UNCHANGED <<deviceFrame, links, owner, epoch, cancels, received>>

LinkCloses(t) ==
  /\ Disturb("close")
  /\ links[t].open
  /\ links' = [links EXCEPT ![t].open = FALSE]
  /\ UNCHANGED <<deviceFrame, owner, epoch, uartPaused, cancels, received>>

LinkOpens(t) ==
  /\ ~links[t].open /\ links[t].generation < budget.generations
  /\ links' = [links EXCEPT ![t] = [generation |-> @.generation + 1, open |-> TRUE]]
  /\ received' = [received EXCEPT ![t] = [state |-> "boundary", place |-> NoPlace]]
  /\ UNCHANGED <<deviceFrame, owner, epoch, uartPaused, cancels, budget>>

\* EV_MUX_QUEUE_TIMEOUT_MS have passed since the frame was queued.
Age(p) ==
  /\ p \in DOMAIN frames
  /\ ~frames[p].late /\ ~frames[p].started
  /\ frames' = [frames EXCEPT ![p].late = TRUE]
  /\ UNCHANGED <<order, used, freeBlocks, quota, specialVars, deviceVars, worker, cancels, budget,
                 received>>

\* The time of a frame, or an observer's time without progress, has passed.
Overdue(t) ==
  /\ \E p \in DOMAIN frames :
       /\ frames[p].target = t
       /\ frames[p].attempted /\ ~frames[p].overdue
       /\ frames' = [frames EXCEPT ![p].overdue = TRUE]
  /\ UNCHANGED <<order, used, freeBlocks, quota, specialVars, deviceVars, worker, cancels, budget,
                 received>>

(***************************************************************************)
(* The specification.                                                      *)
(***************************************************************************)
MuxInit ==
  /\ frames = <<>> /\ order = [t \in Targets |-> <<>>]
  /\ used = [t \in Targets |-> [frames |-> 0, bytes |-> 0]]
  /\ freeBlocks = [a \in Arenas |-> 1..BlockCount]
  /\ quota = [k \in {"all", "discovery", "low"} |-> [frames |-> 0, bytes |-> 0]]
  /\ preview = [pending |-> 0, active |-> 0]
  /\ partial = [t \in Targets |-> NoPlace]
  /\ observers = [t \in TcpTargets |-> 0]
  /\ links = [t \in Targets |-> [generation |-> 1, open |-> TRUE]]
  /\ owner = [id |-> 0, target |-> 0, generation |-> 0, held |-> FALSE,
              ready |-> "not yet"]
  /\ epoch = 1
  /\ uartPaused = FALSE
  /\ worker = Visiting
  /\ cancels = {}
  /\ budget \in Scenarios
  /\ received = [t \in Targets |-> [state |-> "boundary", place |-> NoPlace]]

Producer ==
  \/ \E t \in budget.targets, kind \in budget.kinds : Submit(t, kind)
  \/ SubmitLarge \/ SubmitPreview \/ Publish
  \/ \E t \in budget.targets \cap TcpTargets, enable \in BOOLEAN : Subscribe(t, enable)

Worker ==
  \/ \E t \in Targets, locked \in BOOLEAN : Visit(t, locked) \/ Expire(t, locked)
  \/ LinkLost \/ CloseLink

Canceller == \E c \in cancels : \E q \in c.left : CancelQueue(c, q) \/ CancelBusy(c, q)

Device ==
  \/ \E t \in budget.targets : OwnerBegins(t) \/ LinkCloses(t) \/ LinkOpens(t)
  \/ OwnerReady \/ OwnerReleases \/ OwnerEnds \/ VmReset \/ Pause

Clock == (\E p \in Place : Age(p)) \/ (\E t \in Targets : Overdue(t))

MuxNext == Producer \/ Worker \/ Canceller \/ Device \/ Clock

MuxSpec == MuxInit /\ [][MuxNext]_muxVars

\* The worker's loop comes back to every target, and finds s_special_mutex free, which
\* producers hold for a moment, now and then; time passes; a call that cancels ends.
MuxFairness ==
  /\ \A t \in Targets : SF_muxVars(Visit(t, TRUE) \/ Expire(t, TRUE))
  /\ WF_muxVars(LinkLost \/ CloseLink) /\ WF_muxVars(Canceller)
  /\ WF_muxVars(\E p \in DOMAIN frames : Age(p))
  /\ \A t \in Targets : WF_muxVars(Overdue(t))

(***************************************************************************)
(* Properties.                                                             *)
(***************************************************************************)
Share == [frames : 0..QueueFrames, bytes : 0..QueueBytes]
MuxTypeOK ==
  /\ DOMAIN frames \subseteq Place
  /\ \A p \in DOMAIN frames :
       /\ frames[p].target \in Targets /\ frames[p].generation \in 1..links[frames[p].target].generation
       /\ frames[p].session \in 0..owner.id /\ frames[p].class \in Class
       /\ frames[p].blocks \subseteq 1..BlockCount /\ frames[p].epoch \in 0..epoch
  /\ \A t \in Targets : ToSet(order[t]) = {p \in DOMAIN frames : frames[p].target = t}
  /\ used \in [Targets -> Share] /\ quota \in [{"all", "discovery", "low"} -> Share]
  /\ freeBlocks \in [Arenas -> SUBSET (1..BlockCount)]
  /\ preview \in [pending : 0..2, active : 0..2]
  /\ partial \in [Targets -> Special \cup {NoPlace}]

\* Nothing leaks and nothing is counted twice: what the counters of a queue, the shared
\* quota of the TCP targets and the block bitmaps say is what the frames in use hold, and
\* no block belongs to two frames, however frames end (sent, stale, late, failed, cancelled).
QuotaAccounted ==
  LET count(P) == [frames |-> Cardinality(P), bytes |-> BytesOf(P)]
      queued(T) == DOMAIN frames \cap UNION {NormalPlaces(t) : t \in T}
      tcp == queued(TcpTargets)
      at(a) == queued({t \in Targets : Arena(t) = a})
  IN
  /\ \A t \in Targets : used[t] = count(queued({t}))
  /\ quota = [all |-> count(tcp),
              discovery |-> count({p \in tcp : Discovery(frames[p])}),
              low |-> count({p \in tcp : Low(frames[p])})]
  /\ \A a \in Arenas :
       /\ freeBlocks[a] = (1..BlockCount) \ UNION {frames[p].blocks : p \in at(a)}
       /\ \A p, q \in at(a) : p # q => frames[p].blocks \cap frames[q].blocks = {}

\* The frames are well typed and accounted for.
MuxInv == MuxTypeOK /\ QuotaAccounted

\* A TCP peer can parse everything it receives: frames never interleave on a link, and
\* after a frame that was cut short the link is closed before another byte is written.
StreamIsWhole == \A t \in TcpTargets : received[t].state # "garbled"

\* A special frame is sent from the buffer that holds its payload: a newer preview never
\* overwrites one that is being sent or still waits.
BufferHolds ==
  \A p \in Special \cap DOMAIN frames : frames[p].intact

\* Every frame of a finite number of submissions leaves its queue, sent or not: no peer
\* that stops reading, no pause and no end of a session leaves a frame behind.
FramesEnd ==
  DOMAIN frames \ ObserverPlaces # {} ~> DOMAIN frames \subseteq ObserverPlaces

\* However often previews are published, an observer whose socket takes nothing does not
\* keep its link and its place for ever: replacing a frame does not refresh its deadline.
ObserverEnds ==
  LET here(t) == {p \in ObserverPlaces \cap DOMAIN frames :
                    frames[p].target = t /\ IsCurrent(t, frames[p].generation)}
      stuck(t) == here(t) # {} /\ \A p \in here(t) : ~frames[p].started
  IN
  \A t \in TcpTargets : stuck(t) ~> ~stuck(t)
=============================================================================
