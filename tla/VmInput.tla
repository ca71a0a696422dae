------------------------------- MODULE VmInput -------------------------------
(***************************************************************************)
(* What a host sends to the interpreter: bytes of repl.stdin, Ctrl-C of    *)
(* repl.signal, and requests that must run in the interpreter's task.      *)
(*                                                                         *)
(*   platform/ev_repl_queue.h         the byte ring and its guard          *)
(*   platform/ev_control_transport.c  the VM request queue, its callers    *)
(*   platform/ev_vm_output.c          whose line is being edited or run    *)
(*   overlay/micropython pyexec.c, mphalport.c   the reader (external)     *)
(*                                                                         *)
(* Link, session id, VM epoch and transition id of a request are read in   *)
(* the critical section that reads input_generation, and whatever changes  *)
(* one of them advances input_generation (ev_session.c): here a request    *)
(* carries the generation alone.  Module EvSession has the session itself; *)
(* here it is what ev_session_authorize looks at.  A frame of repl.stdin   *)
(* is one entry, numbered in the order of acceptance.                      *)
(***************************************************************************)
EXTENDS Naturals, Sequences, FiniteSets

CONSTANTS
  RxTasks,        \* tasks that handle frames: transport and tcp
  QueueLen,       \* EV_CONTROL_VM_QUEUE_LEN, one slot stays empty
  Capacity,       \* EV_REPL_QUEUE_CAPACITY, one entry stays empty
  Kinds,          \* the requests explored, of "stdin", "signal", "run", "debug"
  MaxGeneration,  \* bound: input generations explored
  MaxInput,       \* bound: accepted frames of repl.stdin
  MaxRequests     \* bound: VM requests

ASSUME InputAssumption ==
  /\ QueueLen \in Nat \ {0} /\ Capacity \in Nat \ {0}
  /\ Kinds \subseteq {"stdin", "signal", "run", "debug"}
  /\ MaxGeneration \in Nat /\ MaxInput \in Nat /\ MaxRequests \in Nat
  /\ RxTasks \cap {"tx", "vm"} = {}

VARIABLES
  session,    \* the fields of s_session that authorize a request
  repl,       \* s_repl_rx: entries and guard_generation (0: not valid)
  vmq,        \* s_vm_queue
  vm,         \* the interpreter: what it runs, for whom, the line so far
  interrupt,  \* a KeyboardInterrupt is pending
  pc, loc,    \* control point and locals of each task
  accepted,   \* frames of repl.stdin accepted so far
  requests,   \* generation of each VM request sent so far
  answered    \* the requests that have been answered

vars == <<session, repl, vmq, vm, interrupt, pc, loc, accepted, requests, answered>>

Task == RxTasks \cup {"tx", "vm"}
SessionTask == RxTasks \cup {"tx"}

PC == {"idle", "check", "push", "expire", "timeout", "queue", "signal", "send",
       "callback", "clearVm", "clearRepl",
       "read", "pop", "peek", "dispatch", "resetEpoch", "resetVm", "resetRead", "resetRepl", "boot"}
Entry == [generation : Nat, n : Nat]
Request == [generation : Nat, n : Nat, kind : {"run", "debug"}]
NoRequest == [generation |-> 0, n |-> 0, kind |-> "debug"]
Local == [generation : Nat, kind : {"none", "stdin", "signal", "run", "debug"},
          ready : BOOLEAN, request : Request, head : Request]
NoLocal == [generation |-> 0, kind |-> "none", ready |-> FALSE,
            request |-> NoRequest, head |-> NoRequest]

Live(g) == session.generation = g

\* ev_session_authorize for a VM request of generation g, together with its
\* callers' comparison of generation and transition.
Authorized(g) ==
  /\ session.state = "OWNED" /\ session.link
  /\ session.handshake /\ session.ready
  /\ Live(g)

Goto(t, p) == pc' = [pc EXCEPT ![t] = p] /\ UNCHANGED loc
Enter(t, p, l) == pc' = [pc EXCEPT ![t] = p] /\ loc' = [loc EXCEPT ![t] = l]
Idle(t) == Enter(t, "idle", NoLocal)

(***************************************************************************)
(* ev_repl_queue.h                                                         *)
(***************************************************************************)
ForceClear(g) == [entries |-> <<>>, guard |-> g]

\* Mutant of ClearGeneration: the guard is not looked at.
MClearGeneration(q, g) == IF Live(g) THEN ForceClear(g) ELSE q

\* Input of the live generation that is queued already survives.
ClearGeneration(q, g) == IF Live(g) /\ q.guard # g THEN ForceClear(g) ELSE q

\* ev_repl_queue_push, given that g is live.
Pushed(q, e) == [ClearGeneration(q, e.generation) EXCEPT !.entries = Append(@, e)]
Room(q, g) == Len(ClearGeneration(q, g).entries) < Capacity - 1

\* The entries from the first one of generation g on.
Skip(s, g) ==
  LET first == {i \in DOMAIN s : s[i].generation = g}
  IN IF first = {} THEN <<>>
     ELSE SubSeq(s, CHOOSE i \in first : \A j \in first : i <= j, Len(s))

\* The ring as a reader of generation g finds it, skipping older input; a
\* reader whose session was not ready clears it.
Found(q, g, ready) ==
  IF ~ready THEN ForceClear(g)
  ELSE [ClearGeneration(q, g) EXCEPT !.entries = Skip(@, g)]

(***************************************************************************)
(* Session transitions, as far as they matter here.                        *)
(***************************************************************************)
input == <<repl, vmq, vm, interrupt, accepted, requests, answered>>

\* ev_session_acquire grants a FREE session; no callback before the handshake.
Acquire(t) ==
  /\ t \in RxTasks /\ pc[t] = "idle"
  /\ session.state = "FREE"
  /\ session.generation < MaxGeneration
  /\ session' = [session EXCEPT !.state = "OWNED", !.link = TRUE, !.generation = @ + 1]
  /\ UNCHANGED <<pc, loc, input>>

\* The hello response is out: the handshake completes, the generation stays.
HelloComplete ==
  /\ pc["tx"] = "idle"
  /\ session.state = "OWNED" /\ ~session.handshake
  /\ session' = [session EXCEPT !.handshake = TRUE]
  /\ Enter("tx", "callback", [NoLocal EXCEPT !.generation = session.generation])
  /\ UNCHANGED input

ReleasePrepare(t) ==
  /\ t \in RxTasks /\ pc[t] = "idle"
  /\ session.state = "OWNED" /\ session.link /\ session.handshake
  /\ session' = [session EXCEPT !.state = "RELEASING", !.generation = @ + 1]
  /\ UNCHANGED <<pc, loc, input>>

\* The owner's link is closed or rotated; nobody has noticed yet.
LinkGone ==
  /\ session.state # "FREE" /\ session.link
  /\ session' = [session EXCEPT !.link = FALSE]
  /\ UNCHANGED <<pc, loc, input>>

\* ev_session_clear_owner or an expired lease, in the task that found out.
ClearOwner(t) ==
  /\ t \in SessionTask /\ pc[t] = "idle"
  /\ session.state # "FREE"
  /\ session' = [session EXCEPT !.state = "FREE", !.link = FALSE, !.handshake = FALSE,
                                !.generation = @ + 1]
  /\ Enter(t, "callback", [NoLocal EXCEPT !.generation = session.generation + 1])
  /\ UNCHANGED input

\* ev_control_session_changed: nothing when overtaken, else both queues lose
\* the input of other generations.
CallbackCheck(t) ==
  /\ pc[t] = "callback"
  /\ IF Live(loc[t].generation) THEN Goto(t, "clearVm") ELSE Idle(t)
  /\ UNCHANGED <<session, input>>

\* ev_control_vm_queue_clear_stale looks at the head of the queue.
ClearVmStale(t) ==
  LET g == loc[t].generation
      stale == Live(g) /\ vmq # <<>> /\ Head(vmq).generation # g
  IN /\ pc[t] = "clearVm"
     /\ vmq' = IF stale THEN <<>> ELSE vmq
     /\ Goto(t, "clearRepl")
     /\ UNCHANGED <<session, repl, vm, interrupt, accepted, requests, answered>>

ClearReplGeneration(t) ==
  /\ pc[t] = "clearRepl"
  /\ repl' = ClearGeneration(repl, loc[t].generation)
  /\ Idle(t)
  /\ UNCHANGED <<session, vmq, vm, interrupt, accepted, requests, answered>>

(***************************************************************************)
(* The frame handler: repl.stdin, repl.signal and VM requests.             *)
(***************************************************************************)
\* An authorised frame; script.run and the like are numbered.
Receive(t, kind) ==
  LET request == [generation |-> session.generation, n |-> Len(requests) + 1, kind |-> kind]
  IN /\ t \in RxTasks /\ pc[t] = "idle" /\ kind \in Kinds
     /\ Authorized(session.generation)
     /\ \/ /\ kind \in {"stdin", "signal"}
           /\ accepted < MaxInput
           /\ Enter(t, "check", [NoLocal EXCEPT !.generation = session.generation, !.kind = kind])
           /\ UNCHANGED requests
        \/ /\ kind \in {"run", "debug"}
           /\ Len(requests) < MaxRequests
           /\ requests' = Append(requests, session.generation)
           /\ Enter(t, "check", [NoLocal EXCEPT !.generation = session.generation, !.kind = kind,
                                                !.request = request])
     /\ UNCHANGED <<session, repl, vmq, vm, interrupt, accepted, answered>>

Answer(r) == answered' = answered \cup {r.n}

\* Each path authorises again before it touches a queue; a VM request that is
\* refused is answered VM_BUSY, other input is dropped.
Reauthorize(t) ==
  LET ok == Authorized(loc[t].generation)
  IN /\ pc[t] = "check"
     /\ \/ /\ ok
           /\ Goto(t, CASE loc[t].kind = "stdin" -> "push"
                        [] loc[t].kind = "signal" -> "signal"
                        [] OTHER -> IF t = "vm" THEN "push" ELSE "expire")
           /\ UNCHANGED answered
        \/ /\ ~ok
           /\ IF loc[t].request # NoRequest THEN Answer(loc[t].request) ELSE UNCHANGED answered
           /\ Idle(t)
     /\ UNCHANGED <<session, repl, vmq, vm, interrupt, accepted, requests>>

\* ev_repl_queue_push, for repl.stdin and for the command script.run injects.
ReplPush(t) ==
  LET g == loc[t].generation
  IN /\ pc[t] = "push"
     /\ \/ /\ Live(g) /\ Room(repl, g)
           /\ repl' = Pushed(repl, [generation |-> g, n |-> accepted + 1])
           /\ accepted' = accepted + 1
        \/ /\ Live(g) /\ ~Room(repl, g)
           /\ repl' = ClearGeneration(repl, g)
           /\ UNCHANGED accepted
        \/ /\ ~Live(g)
           /\ UNCHANGED <<repl, accepted>>
     /\ IF loc[t].request # NoRequest THEN Answer(loc[t].request) ELSE UNCHANGED answered
     /\ Idle(t)
     /\ UNCHANGED <<session, vmq, vm, interrupt, requests>>

\* Mutant of ExpireHead: the head is answered and stays in the queue.
MExpireHead(t) ==
  /\ pc[t] = "expire"
  /\ \/ /\ vmq # <<>>
        /\ Enter(t, "timeout", [loc[t] EXCEPT !.head = Head(vmq)])
     \/ Goto(t, "queue")
  /\ UNCHANGED <<session, repl, vmq, vm, interrupt, accepted, requests, answered>>

\* ev_control_vm_queue_expire: a head older than five seconds is taken out and
\* answered VM_TIMEOUT, then the next one is looked at.
ExpireHead(t) ==
  /\ pc[t] = "expire"
  /\ \/ /\ vmq # <<>>
        /\ vmq' = Tail(vmq)
        /\ Enter(t, "timeout", [loc[t] EXCEPT !.head = Head(vmq)])
     \/ /\ Goto(t, "queue")
        /\ UNCHANGED vmq
  /\ UNCHANGED <<session, repl, vm, interrupt, accepted, requests, answered>>

ExpireAnswer(t) ==
  /\ pc[t] = "timeout"
  /\ IF Authorized(loc[t].head.generation) THEN Answer(loc[t].head) ELSE UNCHANGED answered
  /\ Enter(t, "expire", [loc[t] EXCEPT !.head = NoRequest])
  /\ UNCHANGED <<session, repl, vmq, vm, interrupt, accepted, requests>>

\* Mutant of VmQueuePush: the generation is not compared under the lock.
MVmQueuePush(t) ==
  /\ pc[t] = "queue"
  /\ \/ /\ Len(vmq) < QueueLen - 1
        /\ vmq' = Append(vmq, loc[t].request)
        /\ UNCHANGED answered
     \/ /\ Len(vmq) >= QueueLen - 1
        /\ Answer(loc[t].request)
        /\ UNCHANGED vmq
  /\ Idle(t)
  /\ UNCHANGED <<session, repl, vm, interrupt, accepted, requests>>

\* The locked part of ev_control_vm_queue_push.
VmQueuePush(t) ==
  LET fits == Live(loc[t].generation) /\ Len(vmq) < QueueLen - 1
  IN /\ pc[t] = "queue"
     /\ \/ /\ fits
           /\ vmq' = Append(vmq, loc[t].request)
           /\ UNCHANGED answered
        \/ /\ ~fits
           /\ Answer(loc[t].request)
           /\ UNCHANGED vmq
     /\ Idle(t)
     /\ UNCHANGED <<session, repl, vm, interrupt, accepted, requests>>

\* External: pyexec arms mp_interrupt_char while it executes code.
Armed == vm.mode \in {"exec", "main"}

\* ev_control_deliver_ctrl_c tests mp_interrupt_char, then schedules the
\* interrupt; unarmed, Ctrl-C is an input byte like any other.
Signal(t) ==
  /\ pc[t] = "signal"
  /\ IF Armed THEN Goto(t, "send") ELSE Enter(t, "check", [loc[t] EXCEPT !.kind = "stdin"])
  /\ UNCHANGED <<session, input>>

SignalSend(t) ==
  /\ pc[t] = "send"
  /\ interrupt' = TRUE
  /\ Idle(t)
  /\ UNCHANGED <<session, repl, vmq, vm, accepted, requests, answered>>

(***************************************************************************)
(* The interpreter's task: reading input.                                  *)
(***************************************************************************)
Ready == session.state = "OWNED" /\ session.handshake /\ session.ready

Editing == vm.mode = "edit"

\* ev_vm_output_input_origin_stale: the code that runs, or the line that is
\* being edited, belongs to a generation that is over.
OriginStale ==
  \/ vm.scope # 0 /\ ~Live(vm.scope)
  \/ vm.scope = 0 /\ Editing /\ vm.origin # 0 /\ ~Live(vm.origin)

\* Mutant of Accepts: an edit in progress accepts any owner's input.
MAccepts(g) == vm.scope = 0 \/ vm.scope = g

\* ev_vm_output_repl_input_accept
Accepts(g) ==
  IF vm.scope # 0 THEN vm.scope = g ELSE Editing => vm.origin \in {0, g}

\* The reader gets Ctrl-C and no byte is consumed: an edited line is dropped.
CtrlC == vm' = IF Editing THEN [vm EXCEPT !.line = <<>>, !.origin = 0] ELSE vm

\* ev_control_repl_rx_pop first asks whether its own origin is stale,
ReadStart ==
  /\ pc["vm"] = "idle"
  /\ \/ /\ OriginStale
        /\ CtrlC
        /\ UNCHANGED pc
     \/ /\ ~OriginStale
        /\ pc' = [pc EXCEPT !["vm"] = "read"]
        /\ UNCHANGED vm
  /\ UNCHANGED <<session, repl, vmq, interrupt, loc, accepted, requests, answered>>

\* then takes a snapshot of the session, whose origin the edit must accept.
ReadSnapshot ==
  /\ pc["vm"] = "read"
  /\ \/ /\ Ready /\ ~Accepts(session.generation)
        /\ CtrlC
        /\ Idle("vm")
     \/ /\ Ready => Accepts(session.generation)
        /\ vm' = IF Ready /\ Editing THEN [vm EXCEPT !.origin = session.generation] ELSE vm
        /\ Enter("vm", "pop", [NoLocal EXCEPT !.generation = session.generation,
                                              !.ready = Ready])
  /\ UNCHANGED <<session, repl, vmq, interrupt, accepted, requests, answered>>

\* ev_repl_queue_pop
Pop ==
  LET g == loc["vm"].generation
      found == Found(repl, g, loc["vm"].ready)
      byte == Live(g) /\ found.entries # <<>>
  IN /\ pc["vm"] = "pop"
     /\ repl' = CASE ~Live(g) -> repl
                  [] byte -> [found EXCEPT !.entries = Tail(@)]
                  [] OTHER -> found
     /\ vm' = IF byte /\ Editing THEN [vm EXCEPT !.line = Append(@, Head(found.entries))] ELSE vm
     /\ Idle("vm")
     /\ UNCHANGED <<session, vmq, interrupt, accepted, requests, answered>>

\* ev_control_transport_repl_pending, for a script that polls its input.
PeekStart ==
  /\ pc["vm"] = "idle" /\ ~Editing
  /\ Enter("vm", "peek", [NoLocal EXCEPT !.generation = session.generation, !.ready = Ready])
  /\ UNCHANGED <<session, input>>

Peek ==
  LET g == loc["vm"].generation
  IN /\ pc["vm"] = "peek"
     /\ repl' = IF Live(g) THEN Found(repl, g, loc["vm"].ready) ELSE repl
     /\ Idle("vm")
     /\ UNCHANGED <<session, vmq, vm, interrupt, accepted, requests, answered>>

\* External: the line is complete (pyexec.c).  It runs in the scope of its
\* origin, or not at all when its session is no longer there.
Execute ==
  LET current == vm.origin = 0 \/ (Ready /\ Live(vm.origin))
  IN /\ pc["vm"] = "idle" /\ Editing /\ vm.line # <<>>
     /\ vm' = IF current THEN [vm EXCEPT !.mode = "exec", !.scope = vm.origin, !.origin = 0]
              ELSE [vm EXCEPT !.line = <<>>, !.origin = 0]
     /\ UNCHANGED <<session, repl, vmq, interrupt, pc, loc, accepted, requests, answered>>

\* External: the code returns or is interrupted; pyexec disarms the interrupt
\* and clears a pending one, and the next prompt begins.
ExecuteEnd ==
  /\ pc["vm"] = "idle" /\ Armed
  /\ vm' = [mode |-> "edit", origin |-> 0, scope |-> 0, line |-> <<>>]
  /\ interrupt' = FALSE
  /\ UNCHANGED <<session, repl, vmq, pc, loc, accepted, requests, answered>>

(***************************************************************************)
(* The interpreter's task: requests and soft resets.                       *)
(***************************************************************************)
\* ev_control_transport_vm_poll, called between bytecodes and while waiting.
Poll ==
  /\ pc["vm"] = "idle" /\ vmq # <<>>
  /\ vmq' = Tail(vmq)
  /\ Enter("vm", "dispatch", [NoLocal EXCEPT !.request = Head(vmq)])
  /\ UNCHANGED <<session, repl, vm, interrupt, accepted, requests, answered>>

\* The request is authorised once more; script.run goes on to inject its
\* command, other handlers answer.
Dispatch ==
  LET r == loc["vm"].request
      ok == Authorized(r.generation)
  IN /\ pc["vm"] = "dispatch"
     /\ \/ /\ ok /\ r.kind = "run"
           /\ Enter("vm", "check", [NoLocal EXCEPT !.generation = r.generation, !.kind = "run",
                                                   !.request = r])
           /\ UNCHANGED answered
        \/ /\ ok /\ r.kind = "debug"
           /\ Answer(r)
           /\ Idle("vm")
        \/ /\ ~ok
           /\ Idle("vm")
           /\ UNCHANGED answered
     /\ UNCHANGED <<session, repl, vmq, vm, interrupt, accepted, requests>>

\* ev_control_transport_vm_reset_begin, step by step.
ResetBegin ==
  /\ pc["vm"] = "idle" /\ Editing
  /\ session.generation < MaxGeneration
  /\ session' = [session EXCEPT !.ready = FALSE]
  /\ Goto("vm", "resetEpoch")
  /\ UNCHANGED input

ResetEpoch ==
  /\ pc["vm"] = "resetEpoch"
  /\ session' = [session EXCEPT !.generation = @ + 1]
  /\ Goto("vm", "resetVm")
  /\ UNCHANGED input

ResetVmQueue ==
  /\ pc["vm"] = "resetVm"
  /\ vmq' = <<>>
  /\ Goto("vm", "resetRead")
  /\ UNCHANGED <<session, repl, vm, interrupt, accepted, requests, answered>>

\* ev_control_repl_rx_clear reads the generation before its critical section.
ResetRead ==
  /\ pc["vm"] = "resetRead"
  /\ Enter("vm", "resetRepl", [NoLocal EXCEPT !.generation = session.generation])
  /\ UNCHANGED <<session, input>>

ResetRepl ==
  /\ pc["vm"] = "resetRepl"
  /\ repl' = ForceClear(loc["vm"].generation)
  /\ Enter("vm", "boot", NoLocal)
  /\ UNCHANGED <<session, vmq, vm, interrupt, accepted, requests, answered>>

\* ev_control_transport_vm_ready; boot.py and main.py run next.
VmReady ==
  /\ pc["vm"] = "boot"
  /\ session' = [session EXCEPT !.ready = TRUE]
  /\ vm' = [mode |-> "main", origin |-> 0, scope |-> 0, line |-> <<>>]
  /\ Idle("vm")
  /\ UNCHANGED <<repl, vmq, interrupt, accepted, requests, answered>>

Init ==
  /\ session = [state |-> "FREE", link |-> FALSE, handshake |-> FALSE, ready |-> FALSE,
                generation |-> 1]
  /\ repl = ForceClear(0)
  /\ vmq = <<>>
  /\ vm = [mode |-> "main", origin |-> 0, scope |-> 0, line |-> <<>>]
  /\ interrupt = FALSE
  /\ pc = [t \in Task |-> IF t = "vm" THEN "boot" ELSE "idle"]
  /\ loc = [t \in Task |-> NoLocal]
  /\ accepted = 0 /\ requests = <<>> /\ answered = {}

\* External: an interrupt raised at the prompt finds no handler, and
\* nlr_jump_fail restarts the chip.
Restart ==
  /\ interrupt /\ Editing /\ pc["vm"] = "idle"
  /\ session' = [state |-> "FREE", link |-> FALSE, handshake |-> FALSE, ready |-> FALSE,
                 generation |-> 1]
  /\ repl' = ForceClear(0)
  /\ vmq' = <<>>
  /\ vm' = [mode |-> "main", origin |-> 0, scope |-> 0, line |-> <<>>]
  /\ interrupt' = FALSE
  /\ pc' = [t \in Task |-> IF t = "vm" THEN "boot" ELSE "idle"]
  /\ loc' = [t \in Task |-> NoLocal]
  /\ accepted' = 0 /\ requests' = <<>> /\ answered' = {}

\* The steps by which task t goes on with what it has begun.
Continue(t) ==
  \/ CallbackCheck(t) \/ ClearVmStale(t) \/ ClearReplGeneration(t)
  \/ Reauthorize(t) \/ ReplPush(t)
  \/ ExpireHead(t) \/ ExpireAnswer(t) \/ VmQueuePush(t)
  \/ Signal(t) \/ SignalSend(t)

VmContinue ==
  \/ ReadSnapshot \/ Pop \/ Peek \/ Dispatch
  \/ ResetEpoch \/ ResetVmQueue \/ ResetRead \/ ResetRepl \/ VmReady

Next ==
  \/ \E t \in Task : Continue(t) \/ Acquire(t) \/ ReleasePrepare(t) \/ ClearOwner(t)
  \/ \E t \in RxTasks, kind \in Kinds : Receive(t, kind)
  \/ HelloComplete \/ LinkGone
  \/ ReadStart \/ PeekStart \/ Execute \/ ExecuteEnd
  \/ Poll \/ ResetBegin \/ Restart \/ VmContinue

Spec == Init /\ [][Next]_vars

(***************************************************************************)
(* Properties.                                                             *)
(***************************************************************************)
\* Both queues stay within their rings; every task holds values of its types.
TypeOK ==
  /\ session \in [state : {"FREE", "OWNED", "RELEASING"}, link : BOOLEAN,
                  handshake : BOOLEAN, ready : BOOLEAN, generation : Nat]
  /\ repl.entries \in Seq(Entry) /\ Len(repl.entries) < Capacity /\ repl.guard \in Nat
  /\ vmq \in Seq(Request) /\ Len(vmq) < QueueLen
  /\ vm \in [mode : {"main", "edit", "exec"}, origin : Nat, scope : Nat, line : Seq(Entry)]
  /\ interrupt \in BOOLEAN
  /\ pc \in [Task -> PC] /\ loc \in [Task -> Local]
  /\ accepted \in Nat /\ requests \in Seq(Nat) /\ answered \subseteq DOMAIN requests

\* A command is what one host typed: all bytes of the line being edited, or
\* running, were accepted in the one generation it is bound to, although hosts
\* change between any two bytes (ev_vm_output.c, ev_repl_queue.h).
LineHasOneOrigin ==
  vm.line # <<>> =>
    LET g == IF Editing THEN vm.origin ELSE vm.scope
    IN g # 0 /\ \A i \in DOMAIN vm.line : vm.line[i].generation = g

\* A callback or a reset is about to clear the queues.
Clearing ==
  \/ \E t \in SessionTask : pc[t] \in {"callback", "clearVm", "clearRepl"}
  \/ pc["vm"] \in {"resetEpoch", "resetVm", "resetRead", "resetRepl", "boot"}

\* The next owner finds no request and no readable input of the last one: once
\* the callback of its handshake is over, everything queued is its own, and
\* a FREE device has nothing queued (clear_stale, clear_generation, the checks
\* under both queue locks).
QueuesAreTheOwners ==
  (~Clearing /\ (session.state = "FREE" \/ session.handshake) /\ session.state # "RELEASING") =>
    /\ \A i \in DOMAIN vmq : Live(vmq[i].generation) /\ session.state = "OWNED"
    /\ \A i \in DOMAIN repl.entries :
         Live(repl.entries[i].generation) /\ session.state = "OWNED"

\* The rings keep their bounds, and what they hold is the owner's.
QueueInv == TypeOK /\ QueuesAreTheOwners

Queued(n) == \E i \in DOMAIN vmq : vmq[i].n = n
Holders(n) == {t \in Task : loc[t].request.n = n \/ loc[t].head.n = n}

\* A request of an owner that is still there is queued, or in the hands of one
\* task, or answered, and only one of these: none is lost in a callback, reset
\* or expiry, and none answered twice (vm_queue_push, _expire, _poll).
RequestAccounted ==
  \A n \in DOMAIN requests :
    /\ n \in answered => ~Queued(n) /\ Holders(n) = {}
    /\ Queued(n) => Holders(n) = {}
    /\ Cardinality(Holders(n)) <= 1
    /\ Authorized(requests[n]) => n \in answered \/ Queued(n) \/ Holders(n) # {}

\* A request has one fate, and none outlives its owner in the queue.
RequestInv == QueuesAreTheOwners /\ RequestAccounted

\* Accepted input leaves the ring only to be read or because its generation is
\* over, with one exception: a reader that looked at the session before the
\* handshake completed clears what arrived since (ev_repl_queue_pop, _pending).
InputKept ==
  [][ \A i \in DOMAIN repl.entries :
        LET e == repl.entries[i]
            kept == \E j \in DOMAIN repl'.entries : repl'.entries[j] = e
            read == pc["vm"] = "pop" /\ i = 1
            early == pc["vm"] \in {"pop", "peek"} /\ ~loc["vm"].ready
        IN Live(e.generation) /\ session' = session /\ ~kept => read \/ early ]_vars

\* KeyboardInterrupt is scheduled only while the interpreter executes code
\* with interrupts armed (the comment above ev_control_deliver_ctrl_c).
InterruptOnlyArmed == interrupt => Armed
=============================================================================
