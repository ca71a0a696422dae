------------------------------ MODULE EvLease ------------------------------
(***************************************************************************)
(* The lease of an EV-MUX session: platform/ev_session.c compares 32-bit   *)
(* millisecond stamps by unsigned subtraction.  A caller samples now_ms    *)
(* first and enters the session lock afterwards, so a task that is         *)
(* preempted in between brings an old stamp along.  The tasks that do so   *)
(* are those that receive, for hello and for every request they serve, and *)
(* the interpreter's, which authorises each request of the VM queue again  *)
(* before it runs it (ev_control_transport_vm_poll).                       *)
(*                                                                         *)
(* The clock wraps at ClockMod (2^32 in the code).  Counter age is not in  *)
(* the code: it is the true time since the activity the session last       *)
(* recorded, which the stamps are meant to measure.                        *)
(***************************************************************************)
EXTENDS Naturals

CONSTANTS
  Receivers,   \* tasks that serve hello and requests: transport, and tcp where there is TCP
  ClockMod,    \* modulus of uint32_t milliseconds
  Lease,       \* EV_SESSION_LEASE_MS
  MaxDelay,    \* bound: ticks between sampling now_ms and entering the lock
  PumpGap      \* bound: ticks between two rounds of the pump loop

ASSUME LeaseAssumption ==
  /\ Lease \in Nat \ {0} /\ MaxDelay \in Nat /\ PumpGap \in Nat \ {0}
  /\ ClockMod \in Nat
  /\ Lease + PumpGap + 2 * MaxDelay < ClockMod

\* The pump task calls ev_session_tick at the end of each round.
Ticker == "transport"

\* The main VM task calls ev_control_transport_vm_poll from its hooks, on every device.
Interpreter == "vm"

\* Tasks that call acquire, keepalive or authorize.
Refreshers == Receivers \cup {Interpreter}
Task == Refreshers \cup {Ticker}

VARIABLES
  now,      \* esp_timer_get_time() / 1000, truncated
  state,    \* FREE or OWNED
  last,     \* last_activity_ms
  pc,       \* what each task is about to do under the lock
  sample,   \* now_ms as the task sampled it
  delay,    \* ticks since it did
  gap,      \* ticks since the pump loop last came round
  age       \* ticks since the recorded activity really happened

vars == <<now, state, last, pc, sample, delay, gap, age>>

\* (uint32_t)(a - b)
Elapsed(a, b) == (a + ClockMod - b) % ClockMod

Init ==
  /\ now \in 0..(ClockMod - 1)
  /\ state = "FREE"
  /\ last = 0
  /\ pc = [t \in Task |-> "idle"]
  /\ sample = [t \in Task |-> 0]
  /\ delay = [t \in Task |-> 0]
  /\ gap = 0
  /\ age = 0

\* Time passes; the bounds say how long the scheduler keeps a task waiting.
Advance ==
  /\ gap < PumpGap
  /\ \A t \in Task : pc[t] # "idle" => delay[t] < MaxDelay
  /\ now' = (now + 1) % ClockMod
  /\ delay' = [t \in Task |-> IF pc[t] # "idle" THEN delay[t] + 1 ELSE 0]
  /\ gap' = gap + 1
  /\ age' = IF age < ClockMod THEN age + 1 ELSE age
  /\ UNCHANGED <<state, last, pc, sample>>

\* ev_control_now_ms() as an argument of the call that follows.
Sample(t, call) ==
  /\ pc[t] = "idle"
  /\ pc' = [pc EXCEPT ![t] = call]
  /\ sample' = [sample EXCEPT ![t] = now]
  /\ delay' = [delay EXCEPT ![t] = 0]
  /\ UNCHANGED <<now, state, last, age>>

HelloCalled(t) == t \in Receivers /\ Sample(t, "acquire") /\ UNCHANGED gap
KeepaliveCalled(t) == t \in Refreshers /\ Sample(t, "keepalive") /\ UNCHANGED gap
TickCalled == Sample(Ticker, "tick") /\ gap' = 0

Finish(t) ==
  /\ pc' = [pc EXCEPT ![t] = "idle"]
  /\ sample' = [sample EXCEPT ![t] = 0]
  /\ delay' = [delay EXCEPT ![t] = 0]
  /\ UNCHANGED <<now, gap>>

\* Record the activity of task t.
Refresh(t) == last' = sample[t] /\ age' = delay[t]

\* ev_session_acquire: a FREE session is granted, the owner's own hello
\* refreshes the lease, any other hello is BUSY.
Acquire(t) ==
  /\ pc[t] = "acquire"
  /\ \/ state' = "OWNED" /\ Refresh(t)
     \/ state = "OWNED" /\ UNCHANGED <<state, last, age>>
  /\ Finish(t)

\* ev_session_keepalive and ev_session_authorize: only an accepted request
\* refreshes the lease.
Keepalive(t) ==
  /\ pc[t] = "keepalive"
  /\ \/ state = "OWNED" /\ Refresh(t)
     \/ UNCHANGED <<last, age>>
  /\ Finish(t)
  /\ UNCHANGED state

\* Mutants of Expired: a deadline compared as a number; equality instead of an order.
MExpiredDeadline(now_ms) == state = "OWNED" /\ now_ms >= (last + Lease) % ClockMod
MExpiredExactly(now_ms) == state = "OWNED" /\ Elapsed(now_ms, last) = Lease

Expired(now_ms) == state = "OWNED" /\ Elapsed(now_ms, last) >= Lease

\* ev_session_tick
TickExpires ==
  /\ pc[Ticker] = "tick"
  /\ Expired(sample[Ticker])
  /\ state' = "FREE"
  /\ Finish(Ticker)
  /\ UNCHANGED <<last, age>>

TickKeeps ==
  /\ pc[Ticker] = "tick"
  /\ ~Expired(sample[Ticker])
  /\ Finish(Ticker)
  /\ UNCHANGED <<state, last, age>>

\* ev_session_clear_owner: released, or the link is lost.
ClearOwner ==
  /\ state = "OWNED"
  /\ state' = "FREE"
  /\ UNCHANGED <<now, last, pc, sample, delay, gap, age>>

Next ==
  \/ Advance \/ TickCalled \/ TickExpires \/ TickKeeps \/ ClearOwner
  \/ \E t \in Task : HelloCalled(t) \/ KeepaliveCalled(t) \/ Acquire(t) \/ Keepalive(t)

\* The pump loop and the clock never stop, and a call that was begun ends.
Fairness ==
  /\ WF_vars(Advance)
  /\ SF_vars(TickCalled)
  /\ WF_vars(TickExpires \/ TickKeeps)
  /\ \A t \in Task : WF_vars(Acquire(t) \/ Keepalive(t))

Spec == Init /\ [][Next]_vars /\ Fairness

(***************************************************************************)
(* Properties.                                                             *)
(***************************************************************************)
\* Stamps stay in the range of uint32_t and delays within their bounds.  So does the
\* age of an OWNED session, which therefore never reaches the wrap of the clock: the
\* unsigned difference never takes an idle session for a fresh one.
TypeOK ==
  /\ now \in 0..(ClockMod - 1) /\ last \in 0..(ClockMod - 1)
  /\ state \in {"FREE", "OWNED"}
  /\ pc \in [Task -> {"idle", "acquire", "keepalive", "tick"}]
  /\ sample \in [Task -> 0..(ClockMod - 1)]
  /\ delay \in [Task -> 0..MaxDelay]
  /\ gap \in 0..PumpGap /\ age \in 0..ClockMod
  /\ state = "OWNED" => age <= Lease + PumpGap + 2 * MaxDelay

\* ev_session_tick expires a session after a whole lease without activity, counted to the
\* time the tick sampled, or when an activity later than that sample was recorded before
\* the tick took the lock.  Nothing else ends a lease early: no wrap of the clock, no
\* stamp a delayed task brings along, no order of the tasks' calls.
ExpiresIdleOrOvertaken ==
  [][TickExpires => age >= Lease + delay[Ticker] \/ age < delay[Ticker]]_vars

\* ev_session_tick expires a session only after a whole lease without recorded
\* activity.
ExpiresOnlyWhenIdle == [][TickExpires => age >= Lease]_vars

\* A session whose host falls silent ends.
SilentSessionEnds ==
  []<>(state = "FREE")
    \/ []<><<\E t \in Task : (Acquire(t) \/ Keepalive(t)) /\ Refresh(t)>>_vars
=============================================================================
