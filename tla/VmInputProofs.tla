---------------------------- MODULE VmInputProofs ----------------------------
(***************************************************************************)
(* Theorems about VmInput, for any receiving tasks, lengths of the two     *)
(* queues, kinds of requests and values of the bounds.                     *)
(***************************************************************************)
EXTENDS VmInput, SequenceTheorems, FiniteSetTheorems, TLAPS

USE InputAssumption

(***************************************************************************)
(* The inductive invariant.  First the data.                               *)
(***************************************************************************)
Ring == [entries : Seq(Entry), guard : Nat]
Session == [state : {"FREE", "OWNED", "RELEASING"}, link : BOOLEAN,
            handshake : BOOLEAN, ready : BOOLEAN, generation : Nat]
Reader == [mode : {"main", "edit", "exec"}, origin : Nat, scope : Nat, line : Seq(Entry)]

DataType ==
  /\ session \in Session /\ session.generation # 0
  /\ repl \in Ring /\ Len(repl.entries) < Capacity
  /\ vmq \in Seq(Request) /\ Len(vmq) < QueueLen
  /\ vm \in Reader
  /\ interrupt \in BOOLEAN
  /\ pc \in [Task -> PC] /\ loc \in [Task -> Local]
  /\ accepted \in Nat /\ requests \in Seq(Nat)

\* A request that is held or queued is one that was received.
Sent(r) == r.n \in DOMAIN requests /\ r.generation = requests[r.n]

\* A task that works on input, and one that holds a request.
Working == {"check", "push", "expire", "timeout", "queue", "signal", "send"}
Holding == {"check", "push", "expire", "timeout", "queue", "dispatch"}

HoldsAt(p, l) ==
  /\ l.request # NoRequest => p \in Holding /\ Sent(l.request)
  /\ l.head # NoRequest => p = "timeout" /\ Sent(l.head)
  /\ p \in {"expire", "timeout", "queue", "dispatch"} => l.request # NoRequest
  /\ p = "timeout" => l.head # NoRequest
  /\ p = "check" /\ l.kind \notin {"stdin", "signal"} => l.request # NoRequest
  /\ p \in Working /\ l.request # NoRequest => l.generation = l.request.generation
  /\ l.kind \in {"stdin", "signal"} => l.request = NoRequest
  /\ p = "signal" => l.kind = "signal"
  /\ p = "send" => l.kind = "signal"

SentInv ==
  /\ \A i \in DOMAIN vmq : Sent(vmq[i])
  /\ \A t \in Task : HoldsAt(pc[t], loc[t])
  /\ answered \subseteq DOMAIN requests

\* Everything in the ring is of the generation the ring is guarded with.
GuardInv == \A i \in DOMAIN repl.entries : repl.entries[i].generation = repl.guard

\* A soft reset has advanced the generation and is not over.
PastEpoch == {"resetVm", "resetRead", "resetRepl", "boot"}

ReadyInv ==
  /\ ~session.ready <=> pc["vm"] \in {"resetEpoch"} \cup PastEpoch
  /\ session.state = "FREE" => ~session.handshake

\* What a generation that was once authorised tells while it is live.
Means(g) ==
  /\ g <= session.generation
  /\ Live(g) => /\ session.state = "OWNED" /\ session.handshake
                /\ pc["vm"] \notin PastEpoch

MeansInv ==
  /\ \A n \in DOMAIN requests : Means(requests[n])
  /\ \A i \in DOMAIN repl.entries : Means(repl.entries[i].generation)
  /\ \A t \in Task : pc[t] \in Working => Means(loc[t].generation)

\* The requests are queued in the order of their generations.
OrderInv == \A i, j \in DOMAIN vmq : i <= j => vmq[i].generation <= vmq[j].generation

\* A callback that is not overtaken is at one of the places P.
CallbackAt(P) == \E t \in SessionTask : pc[t] \in P /\ Live(loc[t].generation)

\* A queue holds input of the past only while somebody is on the way to clear it.
AtOwner == (session.state = "FREE" \/ session.handshake) /\ session.state # "RELEASING"
CleanInv ==
  AtOwner =>
    /\ \/ \A i \in DOMAIN vmq : Live(vmq[i].generation)
       \/ pc["vm"] \in {"resetEpoch", "resetVm"}
       \/ CallbackAt({"callback", "clearVm"})
    /\ \/ \A i \in DOMAIN repl.entries : Live(repl.entries[i].generation)
       \/ pc["vm"] \in {"resetEpoch", "resetVm", "resetRead", "resetRepl"}
       \/ CallbackAt({"callback", "clearVm", "clearRepl"})

\* The reader works for the origin of the line.
LineInv ==
  /\ Editing => vm.scope = 0
  /\ vm.mode = "main" => vm.line = <<>>
  /\ LineHasOneOrigin
  /\ pc["vm"] = "pop" /\ loc["vm"].ready =>
       loc["vm"].generation # 0 /\ (Editing => vm.origin = loc["vm"].generation)

InputInv ==
  /\ DataType /\ SentInv /\ GuardInv /\ ReadyInv
  /\ MeansInv /\ OrderInv /\ CleanInv /\ LineInv

LEMMA TypeParts == DataType /\ answered \subseteq DOMAIN requests => TypeOK
  BY DEF TypeOK, DataType, Session, Ring, Reader

(***************************************************************************)
(* Sequences and the ring.                                                 *)
(***************************************************************************)
LEMMA TailFacts ==
  ASSUME NEW S, NEW s \in Seq(S), s # <<>>
  PROVE  /\ Head(s) \in S /\ Head(s) = s[1] /\ 1 \in DOMAIN s
         /\ Tail(s) \in Seq(S) /\ Len(Tail(s)) < Len(s)
         /\ \A i \in DOMAIN Tail(s) : i + 1 \in DOMAIN s /\ Tail(s)[i] = s[i + 1]
         /\ \A i \in DOMAIN s : i # 1 => i - 1 \in DOMAIN Tail(s) /\ Tail(s)[i - 1] = s[i]
  BY HeadTailProperties

LEMMA AppendFacts ==
  ASSUME NEW S, NEW s \in Seq(S), NEW e \in S
  PROVE  /\ Append(s, e) \in Seq(S) /\ Len(Append(s, e)) = Len(s) + 1
         /\ \A i \in DOMAIN s : i \in DOMAIN Append(s, e) /\ Append(s, e)[i] = s[i]
         /\ \A i \in DOMAIN Append(s, e) :
              \/ i \in DOMAIN s /\ Append(s, e)[i] = s[i]
              \/ i = Len(s) + 1 /\ Append(s, e)[i] = e
         /\ Len(s) + 1 \in DOMAIN Append(s, e) /\ Append(s, e)[Len(s) + 1] = e
  BY AppendProperties, LenProperties

\* Where all entries are of one generation none is skipped.
LEMMA SkipAll ==
  ASSUME NEW s \in Seq(Entry), NEW g \in Nat, \A i \in DOMAIN s : s[i].generation = g
  PROVE  Skip(s, g) = s
<1> DEFINE first == {i \in DOMAIN s : s[i].generation = g}
<1>1. first = DOMAIN s
  OBVIOUS
<1>2. CASE s = <<>>
  <2>1. first = {}
    BY <1>1, <1>2
  <2> QED
    BY <2>1, <1>2 DEF Skip
<1>3. CASE s # <<>>
  <2>1. 1 \in first /\ \A j \in first : 1 <= j
    BY <1>1, <1>3, EmptySeq
  <2>2. (CHOOSE i \in first : \A j \in first : i <= j) = 1
    <3>1. \A i \in first : (\A j \in first : i <= j) => i = 1
      BY <2>1, <1>1
    <3> QED
      BY <2>1, <3>1
  <2>3. SubSeq(s, 1, Len(s)) = s
    BY SubSeqFull
  <2> QED
    BY <2>1, <2>2, <2>3 DEF Skip
<1> QED
  BY <1>2, <1>3

LEMMA EmptyRing ==
  ASSUME NEW g \in Nat
  PROVE  /\ ForceClear(g) \in Ring
         /\ ForceClear(g).entries = <<>> /\ ForceClear(g).guard = g
         /\ Len(ForceClear(g).entries) < Capacity
  BY DEF ForceClear, Ring

\* What clear_generation leaves, and what a reader finds.
LEMMA ClearShape ==
  ASSUME DataType, GuardInv, NEW g \in Nat
  PROVE  ClearGeneration(repl, g) = IF Live(g) /\ repl.guard # g THEN ForceClear(g) ELSE repl
  BY DEF ClearGeneration

LEMMA FoundShape ==
  ASSUME DataType, GuardInv, NEW g \in Nat, Live(g), NEW ready \in BOOLEAN
  PROVE  Found(repl, g, ready) = IF ready /\ repl.guard = g THEN repl ELSE ForceClear(g)
<1>1. CASE ~ready
  BY <1>1 DEF Found
<1>2. CASE ready /\ repl.guard = g
  <2>1. ClearGeneration(repl, g) = repl
    BY <1>2 DEF ClearGeneration
  <2>2. Skip(repl.entries, g) = repl.entries
    BY <1>2, SkipAll DEF GuardInv, DataType, Ring
  <2>3. [repl EXCEPT !.entries = repl.entries] = repl
    BY DEF DataType, Ring
  <2>4. [repl EXCEPT !.entries = Skip(@, g)] = repl
    BY <2>2, <2>3
  <2> QED
    BY <1>2, <2>1, <2>4 DEF Found
<1>3. CASE ready /\ repl.guard # g
  <2>1. ClearGeneration(repl, g) = ForceClear(g)
    BY <1>3 DEF ClearGeneration
  <2>2. Skip(<<>>, g) = <<>>
    <3>1. <<>> \in Seq(Entry) /\ \A i \in DOMAIN <<>> : <<>>[i].generation = g
      OBVIOUS
    <3> QED
      BY <3>1, SkipAll
  <2>3. [ForceClear(g) EXCEPT !.entries = Skip(@, g)] = ForceClear(g)
    BY <2>2 DEF ForceClear
  <2> QED
    BY <1>3, <2>1, <2>3 DEF Found
<1> QED
  BY <1>1, <1>2, <1>3

(***************************************************************************)
(* Which steps change what.                                                *)
(***************************************************************************)
SessionStep ==
  \/ \E t \in Task : Acquire(t) \/ ReleasePrepare(t) \/ ClearOwner(t)
  \/ HelloComplete \/ LinkGone \/ ResetBegin \/ ResetEpoch \/ VmReady

LEMMA SessionSteps == Next => UNCHANGED session \/ SessionStep \/ Restart
<1>1. ASSUME NEW t \in Task, Continue(t) PROVE UNCHANGED session
  BY <1>1 DEF Continue, CallbackCheck, ClearVmStale, ClearReplGeneration, Reauthorize, ReplPush,
       ExpireHead, ExpireAnswer, VmQueuePush, Signal, SignalSend
<1>2. ASSUME NEW t \in RxTasks, NEW kind \in Kinds, Receive(t, kind) PROVE UNCHANGED session
  BY <1>2 DEF Receive
<1>3. ASSUME ReadStart \/ PeekStart \/ Execute \/ ExecuteEnd \/ Poll PROVE UNCHANGED session
  BY <1>3 DEF ReadStart, PeekStart, Execute, ExecuteEnd, Poll
<1>4. ASSUME VmContinue PROVE UNCHANGED session \/ ResetEpoch \/ VmReady
  BY <1>4 DEF VmContinue, ReadSnapshot, Pop, Peek, Dispatch, ResetVmQueue, ResetRead, ResetRepl
<1> QED
  BY <1>1, <1>2, <1>3, <1>4 DEF Next, SessionStep

RingStep ==
  \/ \E t \in Task : ClearReplGeneration(t) \/ ReplPush(t)
  \/ Pop \/ Peek \/ ResetRepl

LEMMA RingSteps == Next => UNCHANGED <<repl, accepted>> \/ RingStep \/ Restart
<1> USE DEF input
<1>1. ASSUME NEW t \in Task, Continue(t) PROVE UNCHANGED <<repl, accepted>> \/ RingStep
  BY <1>1 DEF Continue, RingStep, CallbackCheck, ClearVmStale, Reauthorize,
       ExpireHead, ExpireAnswer, VmQueuePush, Signal, SignalSend
<1>2. ASSUME NEW t \in RxTasks, NEW kind \in Kinds, Receive(t, kind)
      PROVE  UNCHANGED <<repl, accepted>>
  BY <1>2 DEF Receive
<1>3. ASSUME ReadStart \/ PeekStart \/ Execute \/ ExecuteEnd \/ Poll
      PROVE  UNCHANGED <<repl, accepted>>
  BY <1>3 DEF ReadStart, PeekStart, Execute, ExecuteEnd, Poll
<1>4. ASSUME VmContinue PROVE UNCHANGED <<repl, accepted>> \/ RingStep
  BY <1>4 DEF VmContinue, RingStep, ReadSnapshot, Dispatch, ResetEpoch, ResetVmQueue, ResetRead,
       VmReady
<1>5. ASSUME NEW t \in Task, Acquire(t) \/ ReleasePrepare(t) \/ ClearOwner(t)
      PROVE  UNCHANGED <<repl, accepted>>
  BY <1>5 DEF Acquire, ReleasePrepare, ClearOwner
<1>6. ASSUME HelloComplete \/ LinkGone \/ ResetBegin PROVE UNCHANGED <<repl, accepted>>
  BY <1>6 DEF HelloComplete, LinkGone, ResetBegin
<1> QED
  BY <1>1, <1>2, <1>3, <1>4, <1>5, <1>6 DEF Next

QueueStep ==
  \/ \E t \in Task : ClearVmStale(t) \/ ExpireHead(t) \/ VmQueuePush(t)
  \/ Poll \/ ResetVmQueue

LEMMA QueueSteps == Next => UNCHANGED vmq \/ QueueStep \/ Restart
<1> USE DEF input
<1>1. ASSUME NEW t \in Task, Continue(t) PROVE UNCHANGED vmq \/ QueueStep
  BY <1>1 DEF Continue, QueueStep, CallbackCheck, ClearReplGeneration, Reauthorize, ReplPush,
       ExpireAnswer, Signal, SignalSend
<1>2. ASSUME NEW t \in RxTasks, NEW kind \in Kinds, Receive(t, kind) PROVE UNCHANGED vmq
  BY <1>2 DEF Receive
<1>3. ASSUME ReadStart \/ PeekStart \/ Execute \/ ExecuteEnd PROVE UNCHANGED vmq
  BY <1>3 DEF ReadStart, PeekStart, Execute, ExecuteEnd
<1>4. ASSUME VmContinue PROVE UNCHANGED vmq \/ QueueStep
  BY <1>4 DEF VmContinue, QueueStep, ReadSnapshot, Pop, Peek, Dispatch, ResetEpoch, ResetRead,
       ResetRepl, VmReady
<1>5. ASSUME NEW t \in Task, Acquire(t) \/ ReleasePrepare(t) \/ ClearOwner(t)
      PROVE  UNCHANGED vmq
  BY <1>5 DEF Acquire, ReleasePrepare, ClearOwner
<1>6. ASSUME HelloComplete \/ LinkGone \/ ResetBegin PROVE UNCHANGED vmq
  BY <1>6 DEF HelloComplete, LinkGone, ResetBegin
<1> QED
  BY <1>1, <1>2, <1>3, <1>4, <1>5, <1>6 DEF Next, QueueStep

ReaderStep == ReadStart \/ ReadSnapshot \/ Pop \/ Execute \/ ExecuteEnd \/ VmReady

LEMMA ReaderSteps == Next => UNCHANGED <<vm, interrupt>> \/ ReaderStep \/ Restart \/ \E t \in Task : SignalSend(t)
<1> USE DEF input
<1>1. ASSUME NEW t \in Task, Continue(t) PROVE UNCHANGED <<vm, interrupt>> \/ SignalSend(t)
  BY <1>1 DEF Continue, CallbackCheck, ClearVmStale, ClearReplGeneration, Reauthorize, ReplPush,
       ExpireHead, ExpireAnswer, VmQueuePush, Signal
<1>2. ASSUME NEW t \in RxTasks, NEW kind \in Kinds, Receive(t, kind)
      PROVE  UNCHANGED <<vm, interrupt>>
  BY <1>2 DEF Receive
<1>3. ASSUME PeekStart \/ Poll PROVE UNCHANGED <<vm, interrupt>>
  BY <1>3 DEF PeekStart, Poll
<1>4. ASSUME VmContinue PROVE UNCHANGED <<vm, interrupt>> \/ ReaderStep
  BY <1>4 DEF VmContinue, ReaderStep, Peek, Dispatch, ResetEpoch, ResetVmQueue, ResetRead, ResetRepl
<1>5. ASSUME NEW t \in Task, Acquire(t) \/ ReleasePrepare(t) \/ ClearOwner(t)
      PROVE  UNCHANGED <<vm, interrupt>>
  BY <1>5 DEF Acquire, ReleasePrepare, ClearOwner
<1>6. ASSUME HelloComplete \/ LinkGone \/ ResetBegin PROVE UNCHANGED <<vm, interrupt>>
  BY <1>6 DEF HelloComplete, LinkGone, ResetBegin
<1> QED
  BY <1>1, <1>2, <1>3, <1>4, <1>5, <1>6 DEF Next, ReaderStep

(***************************************************************************)
(* Every step keeps the types and the bounds of the two queues.            *)
(***************************************************************************)
LEMMA LocalFacts ==
  /\ NoRequest \in Request /\ NoRequest.n = 0
  /\ NoLocal \in Local /\ NoLocal.request = NoRequest /\ NoLocal.head = NoRequest
  /\ NoLocal.kind = "none" /\ NoLocal.generation = 0 /\ ~NoLocal.ready
  BY DEF NoRequest, Request, NoLocal, Local

LEMMA TaskFacts ==
  /\ "vm" \in Task /\ "tx" \in Task /\ "vm" \notin SessionTask
  /\ "tx" \in SessionTask /\ RxTasks \subseteq SessionTask /\ SessionTask \subseteq Task
  BY DEF Task, SessionTask

SessionType == session \in Session /\ session.generation # 0
LEMMA SessionTypeStays == SessionType /\ Next => SessionType'
<1> SUFFICES ASSUME SessionType, Next PROVE SessionType'
  OBVIOUS
<1> DEFINE n == session.generation + 1
<1>1. n \in Nat /\ n # 0 /\ session.generation \in Nat
  BY DEF SessionType, Session
<1>2. \A s \in Session : [s EXCEPT !.ready = TRUE] \in Session /\ [s EXCEPT !.ready = FALSE] \in Session
                      /\ [s EXCEPT !.handshake = TRUE] \in Session /\ [s EXCEPT !.link = FALSE] \in Session
  BY DEF Session
<1>3. \A g \in Nat : [session EXCEPT !.generation = g] \in Session
  BY DEF Session, SessionType
<1>4. CASE \E t \in Task : Acquire(t)
  <2>1. session' = [session EXCEPT !.state = "OWNED", !.link = TRUE, !.generation = n]
    BY <1>4 DEF Acquire
  <2> HIDE DEF n
  <2> QED
    BY <1>1, <2>1 DEF Session, SessionType
<1>5. CASE \E t \in Task : ReleasePrepare(t)
  <2>1. session' = [session EXCEPT !.state = "RELEASING", !.generation = n]
    BY <1>5 DEF ReleasePrepare
  <2> HIDE DEF n
  <2> QED
    BY <1>1, <2>1 DEF Session, SessionType
<1>6. CASE \E t \in Task : ClearOwner(t)
  <2>1. session' = [session EXCEPT !.state = "FREE", !.link = FALSE, !.handshake = FALSE,
                                   !.generation = n]
    BY <1>6 DEF ClearOwner
  <2> HIDE DEF n
  <2> QED
    BY <1>1, <2>1 DEF Session, SessionType
<1>7. CASE HelloComplete \/ LinkGone \/ ResetBegin \/ VmReady
  <2>1. session' \in {[session EXCEPT !.ready = TRUE], [session EXCEPT !.ready = FALSE],
                      [session EXCEPT !.handshake = TRUE], [session EXCEPT !.link = FALSE]}
    BY <1>7 DEF HelloComplete, LinkGone, ResetBegin, VmReady
  <2>2. session'.generation = session.generation
    BY <2>1 DEF SessionType, Session
  <2> QED
    BY <1>2, <2>1, <2>2 DEF SessionType
<1>8. CASE ResetEpoch
  <2>1. session' = [session EXCEPT !.generation = n]
    BY <1>8 DEF ResetEpoch
  <2> HIDE DEF n
  <2> QED
    BY <1>1, <1>3, <2>1 DEF Session, SessionType
<1>9. CASE Restart
  BY <1>9 DEF Restart, Session, SessionType
<1>10. CASE UNCHANGED session
  BY <1>10 DEF SessionType
<1> QED
  BY <1>4, <1>5, <1>6, <1>7, <1>8, <1>9, <1>10, SessionSteps DEF SessionStep

RingType == repl \in Ring /\ Len(repl.entries) < Capacity /\ accepted \in Nat
LEMMA RingTypeStays == DataType /\ GuardInv /\ Next => RingType' /\ GuardInv'
<1> SUFFICES ASSUME DataType, GuardInv, Next PROVE RingType' /\ GuardInv'
  OBVIOUS
<1>1. RingType
  BY DEF RingType, DataType
<1> DEFINE Good(q) == /\ q \in Ring /\ Len(q.entries) < Capacity
                      /\ \A i \in DOMAIN q.entries : q.entries[i].generation = q.guard
<1>2. Good(repl)
  BY <1>1 DEF RingType, GuardInv
<1>3. \A g \in Nat : Good(ForceClear(g))
  BY EmptyRing
<1>4. Good(repl') /\ accepted' \in Nat => RingType' /\ GuardInv'
  BY DEF RingType, GuardInv
<1>5. CASE \E t \in Task : ClearReplGeneration(t)
  <2> PICK t \in Task : ClearReplGeneration(t)
    BY <1>5
  <2>1. loc[t].generation \in Nat
    BY DEF DataType, Local
  <2>2. repl' \in {repl, ForceClear(loc[t].generation)} /\ accepted' = accepted
    BY <2>1, ClearShape DEF ClearReplGeneration
  <2> HIDE DEF Good
  <2> QED
    BY <1>1, <1>2, <1>3, <1>4, <2>1, <2>2 DEF RingType
<1>6. CASE \E t \in Task : ReplPush(t)
  <2> PICK t \in Task : ReplPush(t)
    BY <1>6
  <2> DEFINE g == loc[t].generation
             q == ClearGeneration(repl, g)
             e == [generation |-> g, n |-> accepted + 1]
  <2>1. g \in Nat /\ accepted \in Nat
    BY DEF DataType, Local
  <2>2. Good(q) /\ (Live(g) => q.guard = g)
    <3>1. q \in {repl, ForceClear(g)} /\ (Live(g) => q.guard = g)
      BY <2>1, ClearShape, EmptyRing
    <3> HIDE DEF Good, q
    <3> QED
      BY <1>2, <1>3, <2>1, <3>1
  <2>3. CASE Live(g) /\ Room(repl, g)
    <3>1. repl' = [q EXCEPT !.entries = Append(@, e)] /\ accepted' = accepted + 1
          /\ Len(q.entries) < Capacity - 1
      BY <2>3 DEF ReplPush, Pushed, Room
    <3>2. e \in Entry /\ e.generation = g
      BY <2>1 DEF Entry
    <3>3. q.entries \in Seq(Entry)
      BY <2>2 DEF Ring
    <3> HIDE DEF q, e, g
    <3>4. repl'.entries = Append(q.entries, e) /\ repl'.guard = q.guard
          /\ repl' = [entries |-> Append(q.entries, e), guard |-> q.guard]
      BY <2>2, <3>1 DEF Ring
    <3>5. Append(q.entries, e) \in Seq(Entry) /\ Len(Append(q.entries, e)) < Capacity
      BY <3>1, <3>2, <3>3, AppendFacts
    <3>6. repl' \in Ring
      BY <2>2, <3>4, <3>5 DEF Ring
    <3>7. \A i \in DOMAIN repl'.entries : repl'.entries[i].generation = repl'.guard
      BY <2>2, <2>3, <3>2, <3>3, <3>4, AppendFacts
    <3> QED
      BY <1>4, <2>1, <3>1, <3>4, <3>5, <3>6, <3>7
  <2>4. CASE ~(Live(g) /\ Room(repl, g))
    <3>1. repl' \in {repl, q} /\ accepted' = accepted
      BY <2>4 DEF ReplPush
    <3> HIDE DEF Good, q
    <3> QED
      BY <1>2, <1>4, <2>1, <2>2, <3>1
  <2> QED
    BY <2>3, <2>4
<1>7. CASE Pop
  <2> DEFINE g == loc["vm"].generation
             q == Found(repl, g, loc["vm"].ready)
  <2>1. g \in Nat /\ loc["vm"].ready \in BOOLEAN
    BY TaskFacts DEF DataType, Local
  <2>2. CASE ~Live(g)
    BY <1>2, <1>4, <1>7, <2>2 DEF Pop, DataType
  <2>3. CASE Live(g)
    <3>1. Good(q)
      <4>1. q \in {repl, ForceClear(g)}
        BY <2>1, <2>3, FoundShape
      <4> HIDE DEF Good, q
      <4> QED
        BY <1>2, <1>3, <2>1, <4>1
    <3>2. CASE q.entries = <<>>
      <4>1. repl' = q /\ accepted' = accepted
        BY <1>7, <2>3, <3>2 DEF Pop
      <4> HIDE DEF Good, q
      <4> QED
        BY <1>1, <1>4, <3>1, <4>1 DEF RingType
    <3>3. CASE q.entries # <<>>
      <4>1. repl' = [q EXCEPT !.entries = Tail(@)] /\ accepted' = accepted
        BY <1>7, <2>3, <3>3 DEF Pop
      <4> HIDE DEF q
      <4>2. q.entries \in Seq(Entry)
        BY <3>1 DEF Ring
      <4>3. repl' \in Ring /\ repl'.entries = Tail(q.entries) /\ repl'.guard = q.guard
        BY <3>1, <3>3, <4>1, <4>2, TailFacts DEF Ring
      <4>4. Len(repl'.entries) < Capacity
        BY <3>1, <3>3, <4>2, <4>3, TailFacts
      <4>5. \A i \in DOMAIN repl'.entries : repl'.entries[i].generation = repl'.guard
        BY <3>1, <3>3, <4>2, <4>3, TailFacts
      <4> QED
        BY <1>1, <1>4, <4>1, <4>3, <4>4, <4>5 DEF RingType
    <3> QED
      BY <3>2, <3>3
  <2> QED
    BY <2>2, <2>3
<1>8. CASE Peek \/ ResetRepl \/ Restart
  <2>1. loc["vm"].generation \in Nat /\ loc["vm"].ready \in BOOLEAN
    BY TaskFacts DEF DataType, Local
  <2>2. (\E g \in Nat : repl' \in {repl, ForceClear(g)}) /\ accepted' \in {accepted, 0}
    BY <1>8, <2>1, FoundShape DEF Peek, ResetRepl, Restart
  <2> HIDE DEF Good
  <2> QED
    BY <1>1, <1>2, <1>3, <1>4, <2>2 DEF RingType
<1>9. CASE UNCHANGED <<repl, accepted>>
  BY <1>1, <1>9 DEF RingType, GuardInv
<1> QED
  BY <1>5, <1>6, <1>7, <1>8, <1>9, RingSteps DEF RingStep

QueueType == vmq \in Seq(Request) /\ Len(vmq) < QueueLen
LEMMA QueueTypeStays == DataType /\ Next => QueueType'
<1> SUFFICES ASSUME DataType, Next PROVE QueueType'
  OBVIOUS
<1>1. QueueType /\ QueueLen \in Nat \ {0}
  BY DEF QueueType, DataType
<1>2. CASE UNCHANGED vmq
  BY <1>1, <1>2 DEF QueueType
<1>3. CASE vmq' = <<>>
  BY <1>1, <1>3, EmptySeq DEF QueueType
<1>4. CASE vmq # <<>> /\ vmq' = Tail(vmq)
  BY <1>1, <1>4, TailFacts DEF QueueType
<1>5. ASSUME NEW t \in Task, VmQueuePush(t) PROVE QueueType'
  <2>1. UNCHANGED vmq \/ (vmq' = Append(vmq, loc[t].request) /\ Len(vmq) < QueueLen - 1)
    BY <1>5 DEF VmQueuePush
  <2>2. loc[t].request \in Request
    BY DEF DataType, Local
  <2> QED
    BY <1>1, <2>1, <2>2, AppendFacts DEF QueueType
<1>6. QueueStep => \/ UNCHANGED vmq \/ vmq' = <<>> \/ (vmq # <<>> /\ vmq' = Tail(vmq))
                   \/ \E t \in Task : VmQueuePush(t)
  BY DEF QueueStep, ClearVmStale, ExpireHead, Poll, ResetVmQueue
<1> QED
  BY <1>2, <1>3, <1>4, <1>5, <1>6, QueueSteps DEF Restart

ReaderType == vm \in Reader /\ interrupt \in BOOLEAN
LEMMA ReaderTypeStays == DataType /\ GuardInv /\ Next => ReaderType'
<1> SUFFICES ASSUME DataType, GuardInv, Next PROVE ReaderType'
  OBVIOUS
<1>1. ReaderType /\ session.generation \in Nat
  BY DEF ReaderType, DataType, Session
<1>2. /\ \A g \in Nat : [vm EXCEPT !.origin = g] \in Reader
      /\ [vm EXCEPT !.line = <<>>, !.origin = 0] \in Reader
      /\ [vm EXCEPT !.mode = "exec", !.scope = vm.origin, !.origin = 0] \in Reader
      /\ \A e \in Entry : [vm EXCEPT !.line = Append(@, e)] \in Reader
      /\ \A m \in {"main", "edit"} : [mode |-> m, origin |-> 0, scope |-> 0, line |-> <<>>] \in Reader
  <2>1. \A e \in Entry : Append(vm.line, e) \in Seq(Entry)
    BY <1>1, AppendFacts DEF ReaderType, Reader
  <2> DEFINE a(e) == Append(vm.line, e)
  <2>2. \A s \in Seq(Entry) : [vm EXCEPT !.line = s] \in Reader
    BY <1>1 DEF ReaderType, Reader
  <2>3. \A e \in Entry : [vm EXCEPT !.line = Append(vm.line, e)] \in Reader
    BY <2>1, <2>2
  <2>4. <<>> \in Seq(Entry)
    OBVIOUS
  <2>5. \A g \in Nat : [vm EXCEPT !.origin = g] \in Reader
    BY <1>1 DEF ReaderType, Reader
  <2>6. [vm EXCEPT !.line = <<>>, !.origin = 0] \in Reader
    BY <1>1, <2>4 DEF ReaderType, Reader
  <2>7. [vm EXCEPT !.mode = "exec", !.scope = vm.origin, !.origin = 0] \in Reader
    BY <1>1 DEF ReaderType, Reader
  <2>8. \A m \in {"main", "edit"} : [mode |-> m, origin |-> 0, scope |-> 0, line |-> <<>>] \in Reader
    BY <2>4 DEF Reader
  <2> QED
    BY <2>3, <2>5, <2>6, <2>7, <2>8
<1>3. CASE ReadStart
  BY <1>1, <1>2, <1>3 DEF ReadStart, CtrlC, ReaderType
<1>4. CASE ReadSnapshot
  BY <1>1, <1>2, <1>4 DEF ReadSnapshot, CtrlC, ReaderType
<1>5. CASE Pop
  <2> DEFINE g == loc["vm"].generation
             q == Found(repl, g, loc["vm"].ready)
  <2>1. interrupt' = interrupt
    BY <1>5 DEF Pop
  <2>2. CASE Live(g) /\ q.entries # <<>> /\ Editing
    <3>1. vm' = [vm EXCEPT !.line = Append(@, Head(q.entries))]
      BY <1>5, <2>2 DEF Pop
    <3>2. q.entries \in Seq(Entry)
      <4>1. g \in Nat /\ loc["vm"].ready \in BOOLEAN /\ repl \in Ring
        BY TaskFacts DEF DataType, Local
      <4>2. q \in {repl, ForceClear(g)}
        BY <2>2, <4>1, FoundShape
      <4> HIDE DEF q, g
      <4> QED
        BY <4>1, <4>2, EmptyRing DEF Ring
    <3>3. Head(q.entries) \in Entry
      BY <2>2, <3>2, TailFacts
    <3> QED
      BY <1>1, <1>2, <2>1, <3>1, <3>3 DEF ReaderType
  <2>3. CASE ~(Live(g) /\ q.entries # <<>> /\ Editing)
    BY <1>1, <1>5, <2>1, <2>3 DEF Pop, ReaderType
  <2> QED
    BY <2>2, <2>3
<1>6. CASE Execute
  BY <1>1, <1>2, <1>6 DEF Execute, ReaderType
<1>7. CASE ExecuteEnd \/ VmReady \/ Restart
  BY <1>1, <1>2, <1>7 DEF ExecuteEnd, VmReady, Restart, ReaderType
<1>8. CASE \E t \in Task : SignalSend(t)
  BY <1>1, <1>8 DEF SignalSend, ReaderType
<1>9. CASE UNCHANGED <<vm, interrupt>>
  BY <1>1, <1>9 DEF ReaderType
<1> QED
  BY <1>3, <1>4, <1>5, <1>6, <1>7, <1>8, <1>9, ReaderSteps DEF ReaderStep

(***************************************************************************)
(* Where each step takes the task that makes it.                           *)
(***************************************************************************)
\* Task t moves to p with the locals l, the others stay where they are.
Moves(t, p, l) == pc' = [pc EXCEPT ![t] = p] /\ loc' = [loc EXCEPT ![t] = l]
Stays == UNCHANGED <<pc, loc>>
Quiet == Stays /\ UNCHANGED <<vmq, requests, answered>>

LEMMA MovesFacts ==
  ASSUME DataType, NEW t \in Task, NEW p \in PC, NEW l \in Local, Moves(t, p, l)
  PROVE  /\ pc' \in [Task -> PC] /\ loc' \in [Task -> Local]
         /\ pc'[t] = p /\ loc'[t] = l
         /\ \A u \in Task : u # t => pc'[u] = pc[u] /\ loc'[u] = loc[u]
  BY DEF DataType, Moves

LEMMA GotoMoves ==
  ASSUME DataType, NEW t \in Task, NEW p, Goto(t, p)
  PROVE  Moves(t, p, loc[t])
<1>1. loc = [loc EXCEPT ![t] = loc[t]]
  BY DEF DataType
<1> QED
  BY <1>1 DEF Goto, Moves

\* From p with the locals l, task t goes on to q with the locals m.
CallbackMove(t, q, m) ==
  \/ CallbackCheck(t) /\ Live(loc[t].generation) /\ q = "clearVm" /\ m = loc[t]
  \/ CallbackCheck(t) /\ ~Live(loc[t].generation) /\ q = "idle" /\ m = NoLocal
  \/ ClearVmStale(t) /\ q = "clearRepl" /\ m = loc[t]
  \/ ClearReplGeneration(t) /\ q = "idle" /\ m = NoLocal

InputMove(t, q, m) ==
  \/ Reauthorize(t) /\ Authorized(loc[t].generation) /\ m = loc[t]
     /\ q = CASE loc[t].kind = "stdin" -> "push"
              [] loc[t].kind = "signal" -> "signal"
              [] OTHER -> IF t = "vm" THEN "push" ELSE "expire"
  \/ Reauthorize(t) /\ ~Authorized(loc[t].generation) /\ q = "idle" /\ m = NoLocal
  \/ ReplPush(t) /\ q = "idle" /\ m = NoLocal
  \/ Signal(t) /\ Armed /\ q = "send" /\ m = loc[t]
  \/ Signal(t) /\ ~Armed /\ q = "check" /\ m = [loc[t] EXCEPT !.kind = "stdin"]
  \/ SignalSend(t) /\ q = "idle" /\ m = NoLocal

RequestMove(t, q, m) ==
  \/ ExpireHead(t) /\ UNCHANGED vmq /\ q = "queue" /\ m = loc[t]
  \/ ExpireHead(t) /\ vmq # <<>> /\ vmq' = Tail(vmq) /\ q = "timeout"
     /\ m = [loc[t] EXCEPT !.head = Head(vmq)]
  \/ ExpireAnswer(t) /\ q = "expire" /\ m = [loc[t] EXCEPT !.head = NoRequest]
  \/ VmQueuePush(t) /\ q = "idle" /\ m = NoLocal

LEMMA ContinueMoves ==
  ASSUME DataType, NEW t \in Task, Continue(t)
  PROVE  \E q \in PC, m \in Local :
           Moves(t, q, m) /\ (CallbackMove(t, q, m) \/ InputMove(t, q, m) \/ RequestMove(t, q, m))
<1> DEFINE Goes(q, m) == Moves(t, q, m) /\ (CallbackMove(t, q, m) \/ InputMove(t, q, m)
                                             \/ RequestMove(t, q, m))
<1>1. loc[t] \in Local /\ NoLocal \in Local
  BY LocalFacts DEF DataType
<1>2. \A q \in PC, m \in Local : Goes(q, m) => \E p \in PC, l \in Local : Goes(p, l)
  OBVIOUS
<1>3. CASE CallbackCheck(t)
  BY <1>1, <1>3, GotoMoves DEF CallbackCheck, CallbackMove, Idle, Enter, Moves, PC
<1>4. CASE ClearVmStale(t)
  BY <1>1, <1>4, GotoMoves DEF ClearVmStale, CallbackMove, PC
<1>5. CASE ClearReplGeneration(t)
  BY <1>1, <1>5 DEF ClearReplGeneration, CallbackMove, Idle, Enter, Moves, PC
<1>6. CASE Reauthorize(t)
  <2>1. CASE Authorized(loc[t].generation)
    <3> DEFINE q == CASE loc[t].kind = "stdin" -> "push"
                      [] loc[t].kind = "signal" -> "signal"
                      [] OTHER -> IF t = "vm" THEN "push" ELSE "expire"
    <3>1. q \in PC
      BY DEF PC
    <3>2. Goto(t, q)
      BY <1>6, <2>1 DEF Reauthorize
    <3>3. InputMove(t, q, loc[t])
      BY <1>6, <2>1 DEF InputMove
    <3> HIDE DEF q
    <3> QED
      BY <1>1, <3>1, <3>2, <3>3, GotoMoves
  <2>2. CASE ~Authorized(loc[t].generation)
    BY <1>1, <1>6, <2>2 DEF Reauthorize, InputMove, Idle, Enter, Moves, PC
  <2> QED
    BY <2>1, <2>2
<1>7. CASE ReplPush(t)
  BY <1>1, <1>7 DEF ReplPush, InputMove, Idle, Enter, Moves, PC
<1>8. CASE ExpireHead(t)
  <2>1. CASE UNCHANGED vmq /\ Goto(t, "queue")
    BY <1>1, <1>8, <2>1, GotoMoves DEF RequestMove, PC
  <2>2. CASE vmq # <<>> /\ vmq' = Tail(vmq) /\ Enter(t, "timeout", [loc[t] EXCEPT !.head = Head(vmq)])
    <3>1. Head(vmq) \in Request
      BY <2>2, TailFacts DEF DataType
    <3>2. [loc[t] EXCEPT !.head = Head(vmq)] \in Local
      BY <1>1, <3>1 DEF Local
    <3> QED
      BY <1>8, <2>2, <3>2 DEF RequestMove, Enter, Moves, PC
  <2> QED
    BY <1>8, <2>1, <2>2 DEF ExpireHead
<1>9. CASE ExpireAnswer(t)
  <2>1. [loc[t] EXCEPT !.head = NoRequest] \in Local
    BY <1>1, LocalFacts DEF Local
  <2> QED
    BY <1>9, <2>1 DEF ExpireAnswer, RequestMove, Enter, Moves, PC
<1>10. CASE VmQueuePush(t)
  BY <1>1, <1>10 DEF VmQueuePush, RequestMove, Idle, Enter, Moves, PC
<1>11. CASE Signal(t)
  <2>1. [loc[t] EXCEPT !.kind = "stdin"] \in Local
    BY <1>1 DEF Local
  <2>2. CASE Armed
    BY <1>1, <1>11, <2>2, GotoMoves DEF Signal, InputMove, PC
  <2>3. CASE ~Armed
    BY <1>11, <2>1, <2>3 DEF Signal, InputMove, Enter, Moves, PC
  <2> QED
    BY <2>2, <2>3
<1>12. CASE SignalSend(t)
  BY <1>1, <1>12 DEF SignalSend, InputMove, Idle, Enter, Moves, PC
<1> QED
  BY <1>3, <1>4, <1>5, <1>6, <1>7, <1>8, <1>9, <1>10, <1>11, <1>12 DEF Continue

\* A task begins something new.
BeginMove(t, q, m) ==
  \/ ClearOwner(t) /\ q = "callback"
     /\ m = [NoLocal EXCEPT !.generation = session.generation + 1]
  \/ HelloComplete /\ t = "tx" /\ q = "callback"
     /\ m = [NoLocal EXCEPT !.generation = session.generation]
  \/ t \in RxTasks /\ q = "check" /\ requests' = requests
     /\ \E kind \in {"stdin", "signal"} :
          Receive(t, kind) /\ m = [NoLocal EXCEPT !.generation = session.generation, !.kind = kind]
  \/ t \in RxTasks /\ q = "check" /\ requests' = Append(requests, session.generation)
     /\ \E kind \in {"run", "debug"} :
          /\ Receive(t, kind)
          /\ m = [NoLocal EXCEPT !.generation = session.generation, !.kind = kind,
                    !.request = [generation |-> session.generation, n |-> Len(requests) + 1,
                                 kind |-> kind]]

LEMMA LocalChanges ==
  /\ \A g \in Nat : [NoLocal EXCEPT !.generation = g] \in Local
  /\ \A g \in Nat, k \in {"none", "stdin", "signal", "run", "debug"} :
       [NoLocal EXCEPT !.generation = g, !.kind = k] \in Local
  /\ \A g \in Nat, k \in {"none", "stdin", "signal", "run", "debug"}, r \in Request :
       [NoLocal EXCEPT !.generation = g, !.kind = k, !.request = r] \in Local
  /\ \A g \in Nat, b \in BOOLEAN : [NoLocal EXCEPT !.generation = g, !.ready = b] \in Local
  /\ \A r \in Request : [NoLocal EXCEPT !.request = r] \in Local
  BY LocalFacts DEF NoLocal, Local

LEMMA BeginMoves ==
  ASSUME DataType,
         \/ \E t \in Task : ClearOwner(t)
         \/ HelloComplete
         \/ \E t \in RxTasks, kind \in Kinds : Receive(t, kind)
  PROVE  \E t \in SessionTask, q \in PC, m \in Local : Moves(t, q, m) /\ BeginMove(t, q, m)
<1>1. session.generation \in Nat /\ session.generation + 1 \in Nat
  BY DEF DataType, Session
<1>2. ASSUME NEW t \in Task, ClearOwner(t)
      PROVE  \E q \in PC, m \in Local : Moves(t, q, m) /\ BeginMove(t, q, m)
  BY <1>1, <1>2, LocalChanges DEF ClearOwner, BeginMove, Enter, Moves, PC
<1>3. ASSUME HelloComplete
      PROVE  \E q \in PC, m \in Local : Moves("tx", q, m) /\ BeginMove("tx", q, m)
  BY <1>1, <1>3, LocalChanges DEF HelloComplete, BeginMove, Enter, Moves, PC
<1>4. ASSUME NEW t \in RxTasks, NEW kind \in Kinds, Receive(t, kind)
      PROVE  \E q \in PC, m \in Local : Moves(t, q, m) /\ BeginMove(t, q, m)
  <2> DEFINE g == session.generation
             r == [generation |-> g, n |-> Len(requests) + 1, kind |-> kind]
             m1 == [NoLocal EXCEPT !.generation = g, !.kind = kind]
             m2 == [NoLocal EXCEPT !.generation = g, !.kind = kind, !.request = r]
  <2>1. CASE kind \in {"stdin", "signal"}
    <3>1. m1 \in Local
      BY <1>1, <2>1, LocalChanges
    <3>2. Enter(t, "check", m1) /\ requests' = requests
      BY <1>4, <2>1 DEF Receive
    <3>3. BeginMove(t, "check", m1)
      BY <1>4, <2>1, <3>2 DEF BeginMove
    <3> QED
      BY <3>1, <3>2, <3>3 DEF Enter, Moves, PC
  <2>2. CASE kind \in {"run", "debug"}
    <3>1. r \in Request
      BY <1>1, <2>2 DEF DataType, Request
    <3>2. m2 \in Local
      BY <1>1, <2>2, <3>1, LocalChanges
    <3>3. Enter(t, "check", m2) /\ requests' = Append(requests, g)
      BY <1>4, <2>2 DEF Receive
    <3>4. BeginMove(t, "check", m2)
      BY <1>4, <2>2, <3>3 DEF BeginMove
    <3> HIDE DEF m2
    <3> QED
      BY <3>2, <3>3, <3>4 DEF Enter, Moves, PC
  <2> QED
    BY <2>1, <2>2
<1> QED
  BY <1>2, <1>3, <1>4, TaskFacts DEF ClearOwner

\* The interpreter's task.
ReadMove(q, m) ==
  \/ ReadStart /\ q = "read" /\ m = loc["vm"]
  \/ ReadSnapshot /\ q = "idle" /\ m = NoLocal
  \/ /\ ReadSnapshot /\ q = "pop"
     /\ m = [NoLocal EXCEPT !.generation = session.generation, !.ready = Ready]
     /\ vm' = IF Ready /\ Editing THEN [vm EXCEPT !.origin = session.generation] ELSE vm
     /\ Ready => Accepts(session.generation)
  \/ Pop /\ q = "idle" /\ m = NoLocal
  \/ /\ PeekStart /\ q = "peek"
     /\ m = [NoLocal EXCEPT !.generation = session.generation, !.ready = Ready]
  \/ Peek /\ q = "idle" /\ m = NoLocal

ServeMove(q, m) ==
  \/ Poll /\ q = "dispatch" /\ m = [NoLocal EXCEPT !.request = Head(vmq)]
  \/ /\ Dispatch /\ q = "check" /\ Authorized(loc["vm"].request.generation)
     /\ UNCHANGED answered
     /\ m = [NoLocal EXCEPT !.generation = loc["vm"].request.generation, !.kind = "run",
                            !.request = loc["vm"].request]
  \/ /\ Dispatch /\ q = "idle" /\ m = NoLocal
     /\ Answer(loc["vm"].request) \/ ~Authorized(loc["vm"].request.generation)

ResetMove(q, m) ==
  \/ ResetBegin /\ q = "resetEpoch" /\ m = loc["vm"]
  \/ ResetEpoch /\ q = "resetVm" /\ m = loc["vm"]
  \/ ResetVmQueue /\ q = "resetRead" /\ m = loc["vm"]
  \/ ResetRead /\ q = "resetRepl" /\ m = [NoLocal EXCEPT !.generation = session.generation]
  \/ ResetRepl /\ q = "boot" /\ m = NoLocal
  \/ VmReady /\ q = "idle" /\ m = NoLocal

VmMove(q, m) == ReadMove(q, m) \/ ServeMove(q, m) \/ ResetMove(q, m)

LEMMA VmMoves ==
  ASSUME DataType, ReadStart \/ PeekStart \/ Poll \/ ResetBegin \/ VmContinue
  PROVE  Quiet \/ \E q \in PC, m \in Local : Moves("vm", q, m) /\ VmMove(q, m)
<1> DEFINE g == session.generation
<1>1. /\ loc["vm"] \in Local /\ NoLocal \in Local /\ loc["vm"].request \in Request
      /\ g \in Nat /\ "vm" \in Task /\ Ready \in BOOLEAN
  BY LocalFacts, TaskFacts DEF DataType, Local, Session, Ready
<1>2. CASE ReadStart
  <2>1. Quiet \/ Goto("vm", "read")
    BY <1>2 DEF ReadStart, Goto, Stays, Quiet
  <2> QED
    BY <1>1, <1>2, <2>1, GotoMoves DEF VmMove, ReadMove, PC
<1>3. CASE PeekStart
  <2>1. [NoLocal EXCEPT !.generation = g, !.ready = Ready] \in Local
    BY <1>1, LocalChanges
  <2> QED
    BY <1>3, <2>1 DEF PeekStart, VmMove, ReadMove, Enter, Moves, PC
<1>4. CASE ReadSnapshot
  <2>1. [NoLocal EXCEPT !.generation = g, !.ready = Ready] \in Local
    BY <1>1, LocalChanges
  <2>2. CASE Ready /\ ~Accepts(session.generation) /\ Idle("vm")
    BY <1>1, <1>4, <2>2 DEF VmMove, ReadMove, Idle, Enter, Moves, PC
  <2>3. CASE ~(Ready /\ ~Accepts(session.generation) /\ Idle("vm"))
    BY <1>4, <2>1, <2>3 DEF ReadSnapshot, VmMove, ReadMove, Enter, Moves, PC
  <2> QED
    BY <2>2, <2>3
<1>5. CASE Pop \/ Peek
  BY <1>1, <1>5 DEF Pop, Peek, VmMove, ReadMove, Idle, Enter, Moves, PC
<1>6. CASE Poll
  <2>1. [NoLocal EXCEPT !.request = Head(vmq)] \in Local
    BY <1>6, LocalChanges, TailFacts DEF Poll, DataType
  <2> QED
    BY <1>6, <2>1 DEF Poll, VmMove, ServeMove, Enter, Moves, PC
<1>7. CASE Dispatch
  <2> DEFINE r == loc["vm"].request
             m == [NoLocal EXCEPT !.generation = r.generation, !.kind = "run", !.request = r]
  <2>1. m \in Local
    BY <1>1, LocalChanges DEF Request
  <2>2. \/ Authorized(r.generation) /\ Enter("vm", "check", m) /\ UNCHANGED answered
        \/ Answer(r) /\ Idle("vm")
        \/ ~Authorized(r.generation) /\ Idle("vm")
    BY <1>7 DEF Dispatch
  <2>3. CASE Authorized(r.generation) /\ Enter("vm", "check", m) /\ UNCHANGED answered
    <3>1. ServeMove("check", m)
      BY <1>7, <2>3 DEF ServeMove
    <3> HIDE DEF m
    <3> QED
      BY <2>1, <2>3, <3>1 DEF VmMove, Enter, Moves, PC
  <2>4. CASE Idle("vm") /\ (Answer(r) \/ ~Authorized(r.generation))
    BY <1>1, <1>7, <2>4 DEF VmMove, ServeMove, Idle, Enter, Moves, PC
  <2> QED
    BY <2>2, <2>3, <2>4
<1>8. CASE ResetBegin
  BY <1>1, <1>8, GotoMoves DEF ResetBegin, VmMove, ResetMove, PC
<1>9. CASE ResetEpoch
  BY <1>1, <1>9, GotoMoves DEF ResetEpoch, VmMove, ResetMove, PC
<1>10. CASE ResetVmQueue
  BY <1>1, <1>10, GotoMoves DEF ResetVmQueue, VmMove, ResetMove, PC
<1>11. CASE ResetRead
  BY <1>1, <1>11, LocalChanges DEF ResetRead, VmMove, ResetMove, Enter, Moves, PC
<1>12. CASE ResetRepl \/ VmReady
  BY <1>1, <1>12 DEF ResetRepl, VmReady, VmMove, ResetMove, Idle, Enter, Moves, PC
<1> QED
  BY <1>2, <1>3, <1>4, <1>5, <1>6, <1>7, <1>8, <1>9, <1>10, <1>11, <1>12 DEF VmContinue

\* Every step is a restart, leaves all tasks where they are, or moves one.
OneMove(t, q, m) ==
  /\ Moves(t, q, m)
  /\ \/ CallbackMove(t, q, m) \/ InputMove(t, q, m) \/ RequestMove(t, q, m)
     \/ t \in SessionTask /\ BeginMove(t, q, m)
     \/ t = "vm" /\ VmMove(q, m)

LEMMA AllMoves ==
  ASSUME DataType, Next
  PROVE  \/ Restart
         \/ Quiet
         \/ \E t \in Task, q \in PC, m \in Local : OneMove(t, q, m)
<1>1. ASSUME NEW t \in Task, Continue(t)
      PROVE  \E q \in PC, m \in Local : OneMove(t, q, m)
  BY <1>1, ContinueMoves DEF OneMove
<1>2. ASSUME \/ \E t \in Task : ClearOwner(t)
             \/ HelloComplete
             \/ \E t \in RxTasks, kind \in Kinds : Receive(t, kind)
      PROVE  \E t \in Task, q \in PC, m \in Local : OneMove(t, q, m)
  BY <1>2, BeginMoves, TaskFacts DEF OneMove
<1>3. ASSUME ReadStart \/ PeekStart \/ Poll \/ ResetBegin \/ VmContinue
      PROVE  Quiet \/ \E t \in Task, q \in PC, m \in Local : OneMove(t, q, m)
  BY <1>3, VmMoves, TaskFacts DEF OneMove
<1>4. ASSUME \/ \E t \in Task : Acquire(t) \/ ReleasePrepare(t)
             \/ LinkGone \/ Execute \/ ExecuteEnd
      PROVE  Quiet
  BY <1>4 DEF Acquire, ReleasePrepare, LinkGone, Execute, ExecuteEnd, Stays, Quiet, input
<1> QED
  BY <1>1, <1>2, <1>3, <1>4 DEF Next

LEMMA RequestSteps ==
  Next => \/ Restart
          \/ UNCHANGED requests
          \/ \E t \in RxTasks, kind \in Kinds : Receive(t, kind)
<1> USE DEF input
<1>1. ASSUME NEW t \in Task, Continue(t) PROVE UNCHANGED requests
  BY <1>1 DEF Continue, CallbackCheck, ClearVmStale, ClearReplGeneration, Reauthorize, ReplPush,
       ExpireHead, ExpireAnswer, VmQueuePush, Signal, SignalSend
<1>2. ASSUME ReadStart \/ PeekStart \/ Execute \/ ExecuteEnd \/ Poll PROVE UNCHANGED requests
  BY <1>2 DEF ReadStart, PeekStart, Execute, ExecuteEnd, Poll
<1>3. ASSUME VmContinue PROVE UNCHANGED requests
  BY <1>3 DEF VmContinue, ReadSnapshot, Pop, Peek, Dispatch, ResetEpoch, ResetVmQueue, ResetRead,
       ResetRepl, VmReady
<1>4. ASSUME NEW t \in Task, Acquire(t) \/ ReleasePrepare(t) \/ ClearOwner(t)
      PROVE  UNCHANGED requests
  BY <1>4 DEF Acquire, ReleasePrepare, ClearOwner
<1>5. ASSUME HelloComplete \/ LinkGone \/ ResetBegin PROVE UNCHANGED requests
  BY <1>5 DEF HelloComplete, LinkGone, ResetBegin
<1> QED
  BY <1>1, <1>2, <1>3, <1>4, <1>5 DEF Next

LEMMA DataStays == DataType /\ GuardInv /\ Next => DataType'
<1> SUFFICES ASSUME DataType, GuardInv, Next PROVE DataType'
  OBVIOUS
<1>1. SessionType' /\ RingType' /\ QueueType' /\ ReaderType'
  BY SessionTypeStays, RingTypeStays, QueueTypeStays, ReaderTypeStays DEF SessionType, DataType
<1>2. pc' \in [Task -> PC] /\ loc' \in [Task -> Local]
  <2>1. CASE Restart
    BY <2>1, LocalFacts DEF Restart, PC
  <2>2. CASE Stays
    BY <2>2 DEF Stays, DataType
  <2>3. ASSUME NEW t \in Task, NEW q \in PC, NEW m \in Local, OneMove(t, q, m)
        PROVE  pc' \in [Task -> PC] /\ loc' \in [Task -> Local]
    BY <2>3, MovesFacts DEF OneMove
  <2> QED
    BY <2>1, <2>2, <2>3, AllMoves DEF Quiet
<1>3. requests' \in Seq(Nat)
  <2>1. requests \in Seq(Nat) /\ session.generation \in Nat
    BY DEF DataType, Session
  <2>2. ASSUME NEW t \in RxTasks, NEW kind \in Kinds, Receive(t, kind)
        PROVE  requests' \in {requests, Append(requests, session.generation)}
    BY <2>2 DEF Receive
  <2>3. Append(requests, session.generation) \in Seq(Nat)
    BY <2>1, AppendFacts
  <2>4. CASE Restart
    BY <2>4, EmptySeq DEF Restart
  <2> QED
    BY <2>1, <2>2, <2>3, <2>4, RequestSteps
<1> QED
  BY <1>1, <1>2, <1>3 DEF DataType, SessionType, RingType, QueueType, ReaderType

(***************************************************************************)
(* What is held, queued or answered was received.                          *)
(***************************************************************************)
LEMMA SentStays ==
  ASSUME DataType, Next, ~Restart
  PROVE  /\ \A r \in Request : Sent(r) => Sent(r)'
         /\ DOMAIN requests \subseteq DOMAIN requests'
         /\ \A n \in DOMAIN requests : requests'[n] = requests[n]
<1>1. requests \in Seq(Nat) /\ session.generation \in Nat
  BY DEF DataType, Session
<1>2. /\ DOMAIN requests \subseteq DOMAIN requests'
      /\ \A n \in DOMAIN requests : requests'[n] = requests[n]
  <2>1. ASSUME NEW t \in RxTasks, NEW kind \in Kinds, Receive(t, kind)
        PROVE  requests' \in {requests, Append(requests, session.generation)}
    BY <2>1 DEF Receive
  <2> QED
    BY <1>1, <2>1, AppendFacts, RequestSteps
<1> QED
  BY <1>2 DEF Sent

LEMMA HoldsStays ==
  ASSUME DataType, SentInv, Next, ~Restart
  PROVE  \A u \in Task : HoldsAt(pc[u], loc[u])'
<1>1. \A p \in PC, l \in Local : HoldsAt(p, l) => HoldsAt(p, l)'
  <2>1. \A l \in Local : l.request \in Request /\ l.head \in Request
    BY DEF Local
  <2> QED
    BY <2>1, SentStays DEF HoldsAt
<1>2. /\ \A u \in Task : pc[u] \in PC /\ loc[u] \in Local /\ HoldsAt(pc[u], loc[u])
      /\ \A i \in DOMAIN vmq : Sent(vmq[i]) /\ vmq[i] \in Request
  BY DEF DataType, SentInv
<1>3. CASE Stays
  <2>1. \A u \in Task : \A p, l : p = pc[u] /\ l = loc[u] => HoldsAt(p, l)'
    BY <1>1, <1>2
  <2> QED
    BY <1>3, <2>1 DEF Stays
<1>4. ASSUME NEW t \in Task, NEW q \in PC, NEW m \in Local, OneMove(t, q, m), HoldsAt(q, m)'
      PROVE  \A u \in Task : HoldsAt(pc[u], loc[u])'
  <2>1. /\ pc'[t] = q /\ loc'[t] = m
        /\ \A u \in Task : u # t => pc'[u] = pc[u] /\ loc'[u] = loc[u]
    BY <1>4, MovesFacts DEF OneMove
  <2>2. \A u \in Task : \A p, l : p = pc[u] /\ l = loc[u] => HoldsAt(p, l)'
    BY <1>1, <1>2
  <2> QED
    BY <1>4, <2>1, <2>2
<1>5. ASSUME NEW t \in Task, NEW q \in PC, NEW m \in Local, OneMove(t, q, m)
      PROVE  HoldsAt(q, m)'
  <2>1. HoldsAt(pc[t], loc[t]) /\ loc[t] \in Local
    BY <1>2
  <2>2. \A g \in Nat, b \in BOOLEAN :
          /\ HoldsAt("callback", [NoLocal EXCEPT !.generation = g])
          /\ HoldsAt("resetRepl", [NoLocal EXCEPT !.generation = g])
          /\ HoldsAt("pop", [NoLocal EXCEPT !.generation = g, !.ready = b])
          /\ HoldsAt("peek", [NoLocal EXCEPT !.generation = g, !.ready = b])
    BY LocalFacts DEF HoldsAt, NoLocal, Working
  <2>3. HoldsAt("idle", NoLocal) /\ HoldsAt("boot", NoLocal)
    BY LocalFacts DEF HoldsAt, Working
  <2>4. session.generation \in Nat /\ session.generation + 1 \in Nat /\ Ready \in BOOLEAN
    BY DEF DataType, Session, Ready
  <2>5. CASE CallbackMove(t, q, m)
    BY <1>1, <2>1, <2>3, <2>5
       DEF CallbackMove, CallbackCheck, ClearVmStale, HoldsAt, Working, Holding
  <2>6. CASE InputMove(t, q, m)
    <3>1. CASE Reauthorize(t) /\ q # "idle"
      BY <1>1, <2>1, <2>6, <3>1 DEF InputMove, Reauthorize, HoldsAt, Working, Holding, ReplPush, Signal, SignalSend
    <3>2. CASE Signal(t) /\ q = "send"
      BY <1>1, <2>1, <2>6, <3>2 DEF InputMove, Signal, HoldsAt, Working, Holding
    <3>3. CASE Signal(t) /\ q = "check"
      <4>1. /\ m.kind = "stdin" /\ m.request = loc[t].request /\ m.head = loc[t].head
            /\ pc[t] = "signal" /\ loc[t].kind = "signal"
        BY <2>1, <2>6, <3>3 DEF InputMove, Signal, Local, HoldsAt
      <4>2. m.request = NoRequest /\ m.head = NoRequest
        BY <2>1, <4>1 DEF HoldsAt
      <4> QED
        BY <1>1, <3>3, <4>1, <4>2 DEF HoldsAt
    <3> QED
      BY <1>1, <2>3, <2>6, <3>1, <3>2, <3>3 DEF InputMove
  <2>7. CASE RequestMove(t, q, m)
    <3>1. CASE q = "queue"
      BY <1>1, <2>1, <2>7, <3>1 DEF RequestMove, ExpireHead, HoldsAt, Working, Holding
    <3>2. CASE q = "timeout"
      <4>1. /\ pc[t] = "expire" /\ vmq # <<>>
            /\ m.kind = loc[t].kind /\ m.request = loc[t].request /\ m.head = Head(vmq)
            /\ m.generation = loc[t].generation
        BY <2>1, <2>7, <3>2 DEF RequestMove, ExpireHead, ExpireAnswer, VmQueuePush, Local
      <4>2. Sent(m.head) /\ m.head # NoRequest
        <5>1. Head(vmq) = vmq[1] /\ 1 \in DOMAIN vmq
          BY <4>1, TailFacts DEF DataType
        <5>2. Sent(m.head)
          BY <1>2, <4>1, <5>1
        <5> QED
          BY <5>2, LocalFacts DEF Sent, DataType
      <4> QED
        BY <1>1, <2>1, <3>2, <4>1, <4>2 DEF HoldsAt, Working, Holding
    <3>3. CASE q = "expire"
      <4>1. /\ pc[t] = "timeout"
            /\ m.kind = loc[t].kind /\ m.request = loc[t].request /\ m.head = NoRequest
            /\ m.generation = loc[t].generation
        BY <2>1, <2>7, <3>3 DEF RequestMove, ExpireAnswer, Local
      <4> QED
        BY <1>1, <2>1, <3>3, <4>1 DEF HoldsAt, Working, Holding
    <3> QED
      BY <1>1, <2>3, <2>7, <3>1, <3>2, <3>3 DEF RequestMove
  <2>8. CASE BeginMove(t, q, m)
    <3>1. CASE q = "callback"
      BY <1>1, <2>2, <2>4, <2>8, <3>1 DEF BeginMove
    <3>2. ASSUME NEW kind \in {"stdin", "signal"}, q = "check",
                 m = [NoLocal EXCEPT !.generation = session.generation, !.kind = kind]
          PROVE  HoldsAt(q, m)'
      <4>1. m.kind = kind /\ m.request = NoRequest /\ m.head = NoRequest
        BY <3>2 DEF NoLocal
      <4> QED
        BY <1>1, <3>2, <4>1 DEF HoldsAt
    <3>3. ASSUME NEW kind \in {"run", "debug"}, q = "check",
                 requests' = Append(requests, session.generation),
                 m = [NoLocal EXCEPT !.generation = session.generation, !.kind = kind,
                        !.request = [generation |-> session.generation, n |-> Len(requests) + 1,
                                     kind |-> kind]]
          PROVE  HoldsAt(q, m)'
      <4>1. /\ m.kind = kind /\ m.head = NoRequest
            /\ m.generation = session.generation /\ m.request.generation = session.generation
            /\ m.request.n = Len(requests) + 1
        BY <3>3 DEF NoLocal
      <4>2. Sent(m.request)'
        BY <2>4, <3>3, <4>1, AppendFacts DEF Sent, DataType
      <4>3. m.request # NoRequest
        BY <4>1, LocalFacts DEF DataType
      <4> QED
        BY <3>3, <4>1, <4>2, <4>3 DEF HoldsAt, Holding
    <3> QED
      BY <2>8, <3>1, <3>2, <3>3 DEF BeginMove
  <2>9. CASE t = "vm" /\ VmMove(q, m)
    <3>1. CASE ReadMove(q, m)
      <4>1. CASE ReadStart /\ q = "read" /\ m = loc["vm"]
        BY <1>1, <2>1, <2>9, <4>1 DEF ReadStart, HoldsAt, Working, Holding
      <4>2. CASE /\ q \in {"pop", "peek"}
                 /\ m = [NoLocal EXCEPT !.generation = session.generation, !.ready = Ready]
        <5>1. HoldsAt(q, m)
          BY <2>2, <2>4, <4>2, Zenon
        <5> QED
          BY <1>1, <5>1
      <4> QED
        BY <1>1, <2>3, <3>1, <4>1, <4>2 DEF ReadMove
    <3>2. CASE ResetMove(q, m)
      <4>1. CASE /\ q \in {"resetEpoch", "resetVm", "resetRead"} /\ m = loc["vm"]
                 /\ pc["vm"] \in {"idle", "resetEpoch", "resetVm"}
        BY <1>1, <2>1, <2>9, <4>1 DEF HoldsAt, Working, Holding
      <4>2. CASE q = "resetRepl" /\ m = [NoLocal EXCEPT !.generation = session.generation]
        BY <1>1, <2>2, <2>4, <4>2
      <4> QED
        BY <1>1, <2>3, <3>2, <4>1, <4>2 DEF ResetMove, ResetBegin, ResetEpoch, ResetVmQueue
    <3>3. CASE Poll /\ q = "dispatch" /\ m = [NoLocal EXCEPT !.request = Head(vmq)]
      <4>1. Head(vmq) = vmq[1] /\ 1 \in DOMAIN vmq
        BY <3>3, TailFacts DEF Poll, DataType
      <4>2. Sent(Head(vmq)) /\ Head(vmq) # NoRequest
        BY <1>2, <4>1, LocalFacts DEF Sent, DataType
      <4>3. m.request = Head(vmq) /\ m.head = NoRequest /\ m.kind = "none"
        BY <3>3 DEF NoLocal
      <4>4. HoldsAt("dispatch", m)
        BY <4>2, <4>3 DEF HoldsAt, Working, Holding
      <4> QED
        BY <1>1, <3>3, <4>4
    <3>4. CASE Dispatch /\ q = "check"
      <4>1. /\ m.request = loc["vm"].request /\ m.head = NoRequest /\ m.kind = "run"
            /\ m.generation = m.request.generation /\ pc["vm"] = "dispatch"
        BY <2>9, <3>4 DEF VmMove, ServeMove, ReadMove, ResetMove, Dispatch, NoLocal
      <4> QED
        BY <1>1, <2>1, <2>9, <3>4, <4>1 DEF HoldsAt, Working, Holding
    <3> QED
      BY <1>1, <2>3, <2>9, <3>1, <3>2, <3>3, <3>4 DEF VmMove, ServeMove
  <2> QED
    BY <1>5, <2>5, <2>6, <2>7, <2>8, <2>9 DEF OneMove
<1> QED
  BY <1>3, <1>4, <1>5, AllMoves DEF Quiet

LEMMA AnsweredStays ==
  ASSUME DataType, SentInv, Next, ~Restart
  PROVE  answered' \subseteq DOMAIN requests'
<1> USE DEF input
<1>1. answered \subseteq DOMAIN requests'
  BY SentStays DEF SentInv
<1>2. ASSUME NEW t \in Task, Continue(t) PROVE answered' \subseteq DOMAIN requests'
  <2>1. /\ HoldsAt(pc[t], loc[t])
        /\ loc[t].request # NoRequest => loc[t].request.n \in DOMAIN requests
        /\ loc[t].head # NoRequest => loc[t].head.n \in DOMAIN requests
    BY DEF SentInv, HoldsAt, Sent
  <2>2. DOMAIN requests \subseteq DOMAIN requests'
    BY SentStays
  <2>3. CASE Reauthorize(t) \/ ReplPush(t)
    BY <1>1, <2>1, <2>2, <2>3 DEF Reauthorize, ReplPush, Answer
  <2>4. CASE ExpireAnswer(t) \/ VmQueuePush(t)
    BY <1>1, <2>1, <2>2, <2>4 DEF ExpireAnswer, VmQueuePush, Answer, HoldsAt
  <2>5. CASE CallbackCheck(t) \/ ClearVmStale(t) \/ ClearReplGeneration(t) \/ ExpireHead(t)
             \/ Signal(t) \/ SignalSend(t)
    BY <1>1, <2>5 DEF CallbackCheck, ClearVmStale, ClearReplGeneration, ExpireHead, Signal, SignalSend
  <2> QED
    BY <1>2, <2>3, <2>4, <2>5 DEF Continue
<1>3. CASE Dispatch
  <2>1. loc["vm"].request.n \in DOMAIN requests'
    BY <1>3, SentStays, TaskFacts DEF Dispatch, SentInv, HoldsAt, Sent
  <2> QED
    BY <1>1, <1>3, <2>1 DEF Dispatch, Answer
<1>4. CASE VmContinue /\ ~Dispatch
  BY <1>1, <1>4 DEF VmContinue, ReadSnapshot, Pop, Peek, ResetEpoch, ResetVmQueue, ResetRead,
       ResetRepl, VmReady
<1>5. ASSUME NEW t \in RxTasks, NEW kind \in Kinds, Receive(t, kind)
      PROVE  answered' \subseteq DOMAIN requests'
  BY <1>1, <1>5 DEF Receive
<1>6. CASE ReadStart \/ PeekStart \/ Execute \/ ExecuteEnd \/ Poll
  BY <1>1, <1>6 DEF ReadStart, PeekStart, Execute, ExecuteEnd, Poll
<1>7. ASSUME NEW t \in Task, Acquire(t) \/ ReleasePrepare(t) \/ ClearOwner(t)
      PROVE  answered' \subseteq DOMAIN requests'
  BY <1>1, <1>7 DEF Acquire, ReleasePrepare, ClearOwner
<1>8. CASE HelloComplete \/ LinkGone \/ ResetBegin
  BY <1>1, <1>8 DEF HelloComplete, LinkGone, ResetBegin
<1> QED
  BY <1>2, <1>3, <1>4, <1>5, <1>6, <1>7, <1>8 DEF Next

LEMMA SentInvStays ==
  ASSUME DataType, SentInv, Next
  PROVE  SentInv'
<1>1. CASE Restart
  <2>1. \A p, l : p \in {"idle", "boot"} /\ l = NoLocal => HoldsAt(p, l)'
    BY LocalFacts DEF HoldsAt, Working
  <2>2. \A t \in Task : pc'[t] \in {"idle", "boot"} /\ loc'[t] = NoLocal
    BY <1>1 DEF Restart
  <2>3. \A t \in Task : HoldsAt(pc[t], loc[t])'
    BY <2>1, <2>2
  <2>4. vmq' = <<>> /\ answered' = {}
    BY <1>1 DEF Restart
  <2> QED
    BY <2>3, <2>4 DEF SentInv
<1>2. CASE ~Restart
  <2>1. vmq \in Seq(Request) /\ \A r \in Request : Sent(r) => Sent(r)'
    BY <1>2, SentStays DEF DataType
  <2>2. \A i \in DOMAIN vmq : vmq[i] \in Request /\ Sent(vmq[i])
    BY <2>1 DEF SentInv
  <2>3. \A i \in DOMAIN vmq : \A r : r = vmq[i] => Sent(r)'
    BY <2>1, <2>2
  <2>4. \A i \in DOMAIN vmq' : \A r : r = vmq'[i] => Sent(r)'
    <3>1. CASE UNCHANGED vmq \/ vmq' = <<>>
      BY <2>3, <3>1
    <3>2. CASE vmq # <<>> /\ vmq' = Tail(vmq)
      BY <2>1, <2>3, <3>2, TailFacts
    <3>3. ASSUME NEW t \in Task, VmQueuePush(t) PROVE \A i \in DOMAIN vmq' : \A r : r = vmq'[i] => Sent(r)'
      <4>1. UNCHANGED vmq \/ vmq' = Append(vmq, loc[t].request)
        BY <3>3 DEF VmQueuePush
      <4>2. loc[t].request \in Request /\ Sent(loc[t].request)
        BY <3>3 DEF DataType, Local, VmQueuePush, SentInv, HoldsAt
      <4>3. \A r : r = loc[t].request => Sent(r)'
        BY <2>1, <4>2
      <4> QED
        BY <2>1, <2>3, <4>1, <4>2, <4>3, AppendFacts
    <3>4. QueueStep => \/ UNCHANGED vmq \/ vmq' = <<>> \/ (vmq # <<>> /\ vmq' = Tail(vmq))
                       \/ \E t \in Task : VmQueuePush(t)
      BY DEF QueueStep, ClearVmStale, ExpireHead, Poll, ResetVmQueue
    <3> QED
      BY <1>2, <3>1, <3>2, <3>3, <3>4, QueueSteps
  <2>5. \A i \in DOMAIN vmq' : Sent(vmq[i])'
    BY <2>4
  <2> QED
    BY <1>2, <2>5, HoldsStays, AnsweredStays DEF SentInv
<1> QED
  BY <1>1, <1>2

(***************************************************************************)
(* Soft resets, and what a generation tells while it is live.              *)
(***************************************************************************)
\* How the interpreter's task enters and leaves a soft reset.
LEMMA ResetSteps ==
  ASSUME DataType, Next, ~Restart
  PROVE  LET p == pc["vm"]
             q == pc'["vm"]
         IN /\ q = "resetEpoch" => p = "resetEpoch" \/ ResetBegin
            /\ p = "resetEpoch" => q = "resetEpoch" \/ ResetEpoch
            /\ q \in PastEpoch => p \in PastEpoch \/ ResetEpoch
            /\ p \in PastEpoch => q \in PastEpoch \/ VmReady
            /\ p = "resetVm" => q = "resetVm" \/ ResetVmQueue
            /\ p = "resetRead" => q \in {"resetRead", "resetRepl"}
            /\ p = "resetRepl" => q = "resetRepl" \/ ResetRepl
<1>1. CASE Stays
  BY <1>1 DEF Stays
<1>2. ASSUME NEW t \in Task, NEW q \in PC, NEW m \in Local, OneMove(t, q, m), t # "vm"
      PROVE  pc'["vm"] = pc["vm"]
  BY <1>2, MovesFacts, TaskFacts DEF OneMove
<1>3. ASSUME NEW q \in PC, NEW m \in Local, OneMove("vm", q, m)
      PROVE  /\ pc'["vm"] = q
             /\ CallbackMove("vm", q, m) \/ InputMove("vm", q, m) \/ RequestMove("vm", q, m)
                \/ VmMove(q, m)
  BY <1>3, MovesFacts, TaskFacts DEF OneMove
<1>4. ASSUME NEW q, NEW m, CallbackMove("vm", q, m)
      PROVE  pc["vm"] \in {"callback", "clearVm", "clearRepl"} /\ q \in {"clearVm", "clearRepl", "idle"}
  BY <1>4 DEF CallbackMove, CallbackCheck, ClearVmStale, ClearReplGeneration
<1>5. ASSUME NEW q, NEW m, InputMove("vm", q, m)
      PROVE  /\ pc["vm"] \in {"check", "push", "signal", "send"}
             /\ q \in {"push", "signal", "expire", "idle", "check", "send"}
  BY <1>5 DEF InputMove, Reauthorize, ReplPush, Signal, SignalSend
<1>6. ASSUME NEW q, NEW m, RequestMove("vm", q, m)
      PROVE  /\ pc["vm"] \in {"expire", "timeout", "queue"}
             /\ q \in {"queue", "timeout", "expire", "idle"}
  BY <1>6 DEF RequestMove, ExpireHead, ExpireAnswer, VmQueuePush
<1>7. ASSUME NEW q, NEW m, ReadMove(q, m) \/ ServeMove(q, m)
      PROVE  /\ pc["vm"] \in {"idle", "read", "pop", "peek", "dispatch"}
             /\ q \in {"idle", "read", "pop", "peek", "dispatch", "check"}
  BY <1>7 DEF ReadMove, ServeMove, ReadStart, ReadSnapshot, Pop, PeekStart, Peek, Poll, Dispatch
<1>8. ASSUME NEW q, NEW m, ResetMove(q, m)
      PROVE  \/ ResetBegin /\ pc["vm"] = "idle" /\ q = "resetEpoch"
             \/ ResetEpoch /\ pc["vm"] = "resetEpoch" /\ q = "resetVm"
             \/ ResetVmQueue /\ pc["vm"] = "resetVm" /\ q = "resetRead"
             \/ pc["vm"] = "resetRead" /\ q = "resetRepl"
             \/ ResetRepl /\ pc["vm"] = "resetRepl" /\ q = "boot"
             \/ VmReady /\ pc["vm"] = "boot" /\ q = "idle"
  BY <1>8 DEF ResetMove, ResetBegin, ResetEpoch, ResetVmQueue, ResetRead, ResetRepl, VmReady
<1>9. ASSUME NEW q \in PC, NEW m \in Local, OneMove("vm", q, m)
      PROVE  pc'["vm"] = q /\
             LET p == pc["vm"]
             IN /\ q = "resetEpoch" => p = "resetEpoch" \/ ResetBegin
                /\ p = "resetEpoch" => q = "resetEpoch" \/ ResetEpoch
                /\ q \in PastEpoch => p \in PastEpoch \/ ResetEpoch
                /\ p \in PastEpoch => q \in PastEpoch \/ VmReady
                /\ p = "resetVm" => q = "resetVm" \/ ResetVmQueue
                /\ p = "resetRead" => q \in {"resetRead", "resetRepl"}
                /\ p = "resetRepl" => q = "resetRepl" \/ ResetRepl
  BY <1>3, <1>4, <1>5, <1>6, <1>7, <1>8, <1>9 DEF VmMove, PastEpoch
<1> QED
  BY <1>1, <1>2, <1>9, AllMoves, TaskFacts DEF Quiet

LEMMA ReadyStays ==
  ASSUME DataType, ReadyInv, Next
  PROVE  ReadyInv'
<1>1. CASE Restart
  BY <1>1, TaskFacts DEF Restart, ReadyInv, PastEpoch
<1>2. CASE ~Restart
  <2>1. session \in Session
    BY DEF DataType
  <2>2. CASE ResetBegin
    BY <2>1, <2>2, TaskFacts DEF ResetBegin, Goto, ReadyInv, DataType, Session, PastEpoch
  <2>3. CASE VmReady
    BY <2>1, <2>3, TaskFacts DEF VmReady, Idle, Enter, ReadyInv, DataType, Session, PastEpoch
  <2>4. CASE ~ResetBegin /\ ~VmReady
    <3>1. session'.ready = session.ready
      BY <1>2, <2>1, <2>4, SessionSteps
         DEF SessionStep, Acquire, ReleasePrepare, ClearOwner, HelloComplete, LinkGone, ResetEpoch, Session
    <3>2. session'.state = "FREE" => ~session'.handshake
      <4>1. session.state = "FREE" => ~session.handshake
        BY DEF ReadyInv
      <4>2. ASSUME NEW t \in Task, Acquire(t) \/ ReleasePrepare(t)
            PROVE  session'.state # "FREE"
        BY <2>1, <4>2 DEF Acquire, ReleasePrepare, Session
      <4>3. ASSUME NEW t \in Task, ClearOwner(t) PROVE ~session'.handshake
        BY <2>1, <4>3 DEF ClearOwner, Session
      <4>4. CASE HelloComplete \/ LinkGone
        BY <2>1, <4>4 DEF HelloComplete, LinkGone, Session
      <4>5. CASE UNCHANGED session \/ ResetEpoch
        BY <2>1, <4>1, <4>5 DEF ResetEpoch, Session
      <4> QED
        BY <1>2, <2>4, <4>2, <4>3, <4>4, <4>5, SessionSteps DEF SessionStep
    <3>3. ResetEpoch => pc'["vm"] = "resetVm" /\ pc["vm"] = "resetEpoch"
      BY TaskFacts DEF ResetEpoch, Goto, DataType
    <3>4. pc'["vm"] \in {"resetEpoch"} \cup PastEpoch <=> pc["vm"] \in {"resetEpoch"} \cup PastEpoch
      BY <1>2, <2>4, <3>3, ResetSteps DEF PastEpoch
    <3> QED
      BY <3>1, <3>2, <3>4 DEF ReadyInv
  <2> QED
    BY <2>2, <2>3, <2>4
<1> QED
  BY <1>1, <1>2

\* A generation is never live again, and what it tells while it is live stays true.
LEMMA MeansStays ==
  ASSUME DataType, ReadyInv, Next, ~Restart
  PROVE  /\ session'.generation \in Nat /\ session.generation <= session'.generation
         /\ \A g \in Nat : Means(g) => Means(g)'
         /\ \A g \in Nat : Means(g) /\ Live(g)' => Live(g)
<1>1. session \in Session /\ session.generation \in Nat
  BY DEF DataType, Session
<1>2. \/ session'.generation = session.generation + 1
      \/ /\ session'.generation = session.generation
         /\ session'.state = session.state
         /\ session.handshake => session'.handshake
  BY <1>1, SessionSteps
     DEF SessionStep, Acquire, ReleasePrepare, ClearOwner, HelloComplete, LinkGone, ResetBegin, ResetEpoch,
         VmReady, Session
<1>3. pc'["vm"] \in PastEpoch => pc["vm"] \in PastEpoch \/ session'.generation = session.generation + 1
  BY <1>1, ResetSteps DEF ResetEpoch, Session
<1>4. session'.generation \in Nat /\ session.generation <= session'.generation
  BY <1>1, <1>2
<1>5. ASSUME NEW g \in Nat, Means(g)
      PROVE  g <= session'.generation /\ (session'.generation = g => session.generation = g)
  BY <1>1, <1>2, <1>5 DEF Means
<1>6. ASSUME NEW g \in Nat, Means(g), session'.generation = g
      PROVE  session'.state = "OWNED" /\ session'.handshake /\ pc'["vm"] \notin PastEpoch
  BY <1>1, <1>2, <1>3, <1>5, <1>6 DEF Means, Live
<1> QED
  BY <1>4, <1>5, <1>6 DEF Means, Live

\* What is authorised now has the meaning.
LEMMA MeansNow ==
  ASSUME DataType, ReadyInv, Authorized(session.generation)
  PROVE  Means(session.generation)
  BY DEF DataType, Session, ReadyInv, Authorized, Means

\* What a step makes of the ring: it is emptied or not, then an entry is taken
\* from it or put into it.
Emptied ==
  \/ \A i \in DOMAIN repl.entries : ~Live(repl.entries[i].generation)
  \/ pc["vm"] \in {"pop", "peek"} /\ ~loc["vm"].ready
  \/ pc["vm"] = "resetRepl"
Taken(s) == pc["vm"] = "pop" /\ s = repl.entries /\ s # <<>> /\ repl'.entries = Tail(s)
Put(s) ==
  \E t \in Task, e \in Entry :
    /\ pc[t] = "push" /\ Live(e.generation) /\ e.generation = loc[t].generation
    /\ repl'.entries = Append(s, e)

LEMMA RingShape ==
  ASSUME DataType, GuardInv, Next, ~Restart
  PROVE  \E s \in {repl.entries, <<>>} :
           /\ s = repl.entries \/ Emptied
           /\ repl'.entries = s \/ Taken(s) \/ Put(s)
<1> DEFINE Shape(s) == /\ s = repl.entries \/ Emptied
                       /\ repl'.entries = s \/ Taken(s) \/ Put(s)
<1>1. /\ repl \in Ring /\ repl.entries \in Seq(Entry)
      /\ \A t \in Task : loc[t].generation \in Nat /\ loc[t].ready \in BOOLEAN
      /\ accepted \in Nat
  BY DEF DataType, Ring, Local
<1>2. ASSUME NEW g \in Nat
      PROVE  LET q == ClearGeneration(repl, g)
             IN q = repl \/ (q = ForceClear(g) /\ Emptied)
  BY ClearShape DEF GuardInv, Emptied, Live
<1>3. \A g \in Nat : ForceClear(g).entries = <<>>
  BY EmptyRing
<1>4. ASSUME NEW t \in Task, ClearReplGeneration(t) PROVE \E s \in {repl.entries, <<>>} : Shape(s)
  BY <1>1, <1>2, <1>3, <1>4 DEF ClearReplGeneration
<1>5. ASSUME NEW t \in Task, ReplPush(t) PROVE \E s \in {repl.entries, <<>>} : Shape(s)
  <2> DEFINE g == loc[t].generation
             q == ClearGeneration(repl, g)
             e == [generation |-> g, n |-> accepted + 1]
  <2>1. q = repl \/ (q = ForceClear(g) /\ Emptied)
    BY <1>1, <1>2
  <2>2. CASE Live(g) /\ Room(repl, g)
    <3>1. repl' = [q EXCEPT !.entries = Append(@, e)]
      BY <1>5, <2>2 DEF ReplPush, Pushed
    <3>2. q \in Ring
      BY <1>1, <2>1, EmptyRing
    <3>3. repl'.entries = Append(q.entries, e)
      BY <3>1, <3>2 DEF Ring
    <3>4. Put(q.entries)
      BY <1>1, <1>5, <2>2, <3>3 DEF Put, Entry, ReplPush
    <3>5. q.entries = repl.entries \/ (q.entries = <<>> /\ Emptied)
      BY <1>1, <1>3, <2>1
    <3> HIDE DEF q
    <3> QED
      BY <3>4, <3>5
  <2>3. CASE ~(Live(g) /\ Room(repl, g))
    <3>1. repl' = repl \/ repl' = q
      BY <1>5, <2>3 DEF ReplPush
    <3> QED
      BY <1>1, <1>3, <2>1, <3>1
  <2> QED
    BY <2>2, <2>3
<1>6. CASE Pop \/ Peek
  <2> DEFINE g == loc["vm"].generation
             ready == loc["vm"].ready
             q == Found(repl, g, ready)
  <2>1. CASE ~Live(g)
    BY <1>6, <2>1 DEF Pop, Peek
  <2>2. CASE Live(g)
    <3>1. q = repl \/ (q = ForceClear(g) /\ Emptied)
      <4>1. q = IF ready /\ repl.guard = g THEN repl ELSE ForceClear(g)
        BY <1>1, <2>2, FoundShape, TaskFacts
      <4>2. ready /\ repl.guard # g => Emptied
        BY <2>2 DEF GuardInv, Emptied, Live
      <4>3. ~ready => Emptied
        BY <1>6 DEF Emptied, Pop, Peek
      <4> QED
        BY <4>1, <4>2, <4>3
    <3>2. CASE repl' = q
      BY <1>1, <1>3, <3>1, <3>2, TaskFacts
    <3>3. CASE Pop /\ repl' # q
      <4>1. q.entries # <<>> /\ repl' = [q EXCEPT !.entries = Tail(@)]
        BY <2>2, <3>3 DEF Pop
      <4>2. q = repl
        BY <1>1, <1>3, <3>1, <4>1, TaskFacts
      <4>3. repl'.entries = Tail(repl.entries)
        BY <1>1, <4>1, <4>2 DEF Ring
      <4> QED
        BY <3>3, <4>1, <4>2, <4>3 DEF Taken, Pop
    <3>4. Peek => repl' = q
      BY <2>2 DEF Peek
    <3> QED
      BY <1>6, <3>2, <3>3, <3>4
  <2> QED
    BY <2>1, <2>2
<1>7. CASE ResetRepl
  BY <1>1, <1>3, <1>7, TaskFacts DEF ResetRepl, Emptied
<1>8. CASE UNCHANGED repl
  BY <1>8
<1> QED
  BY <1>4, <1>5, <1>6, <1>7, <1>8, RingSteps DEF RingStep

\* Every entry was in the ring before, or is put there by a task that found
\* its generation live.
LEMMA RingEntries ==
  ASSUME DataType, GuardInv, Next, ~Restart, NEW i \in DOMAIN repl'.entries
  PROVE  \/ \E j \in DOMAIN repl.entries : repl'.entries[i] = repl.entries[j]
         \/ \E t \in Task : /\ pc[t] = "push" /\ Live(loc[t].generation)
                            /\ repl'.entries[i].generation = loc[t].generation
<1>1. repl.entries \in Seq(Entry)
  BY DEF DataType, Ring
<1> PICK s \in {repl.entries, <<>>} : repl'.entries = s \/ Taken(s) \/ Put(s)
  BY RingShape
<1>2. s \in Seq(Entry)
  BY <1>1, EmptySeq
<1>3. CASE repl'.entries = s
  BY <1>3
<1>4. CASE Taken(s)
  BY <1>1, <1>4, TailFacts DEF Taken
<1>5. CASE Put(s)
  BY <1>2, <1>5, AppendFacts DEF Put
<1> QED
  BY <1>3, <1>4, <1>5

\* Likewise of the requests that are queued.
LEMMA QueueEntries ==
  ASSUME DataType, Next, ~Restart, NEW i \in DOMAIN vmq'
  PROVE  \/ \E j \in DOMAIN vmq : vmq'[i] = vmq[j]
         \/ \E t \in Task : VmQueuePush(t) /\ Live(loc[t].generation) /\ vmq'[i] = loc[t].request
<1>1. vmq \in Seq(Request)
  BY DEF DataType
<1>2. CASE UNCHANGED vmq \/ vmq' = <<>>
  BY <1>2
<1>3. CASE vmq # <<>> /\ vmq' = Tail(vmq)
  BY <1>1, <1>3, TailFacts
<1>4. ASSUME NEW t \in Task, VmQueuePush(t), vmq' # vmq
      PROVE  (\E j \in DOMAIN vmq : vmq'[i] = vmq[j])
             \/ (Live(loc[t].generation) /\ vmq'[i] = loc[t].request)
  <2>1. Live(loc[t].generation) /\ vmq' = Append(vmq, loc[t].request)
    BY <1>4 DEF VmQueuePush
  <2>2. loc[t].request \in Request
    BY DEF DataType, Local
  <2> QED
    BY <1>1, <2>1, <2>2, AppendFacts
<1>5. QueueStep => \/ UNCHANGED vmq \/ vmq' = <<>> \/ (vmq # <<>> /\ vmq' = Tail(vmq))
                   \/ \E t \in Task : VmQueuePush(t) /\ vmq' # vmq
  BY DEF QueueStep, ClearVmStale, ExpireHead, Poll, ResetVmQueue
<1> QED
  BY <1>2, <1>3, <1>4, <1>5, QueueSteps

LEMMA MeansInvStays ==
  ASSUME DataType, SentInv, GuardInv, ReadyInv, MeansInv, Next
  PROVE  MeansInv'
<1>1. CASE Restart
  <2>1. requests' = <<>> /\ repl'.entries = <<>> /\ \A t \in Task : pc'[t] \in {"idle", "boot"}
    BY <1>1 DEF Restart, ForceClear
  <2> QED
    BY <2>1 DEF MeansInv, Working
<1>2. CASE ~Restart
  <2> DEFINE M(g) == Means(g)
  <2>1. \A g : g \in Nat /\ M(g) => Means(g)'
    BY <1>2, MeansStays
  <2>2. session.generation \in Nat
    BY DEF DataType, Session
  <2>3. ASSUME NEW t \in RxTasks, NEW kind \in Kinds, Receive(t, kind) PROVE M(session.generation)
    BY <2>3, MeansNow DEF Receive
  <2>4. \A n \in DOMAIN requests' : \A g : g = requests'[n] => g \in Nat /\ M(g)
    <3>1. requests \in Seq(Nat) /\ \A n \in DOMAIN requests : requests[n] \in Nat /\ M(requests[n])
      BY DEF MeansInv, DataType
    <3>2. ASSUME NEW t \in RxTasks, NEW kind \in Kinds, Receive(t, kind)
          PROVE  \A n \in DOMAIN requests' : requests'[n] \in Nat /\ M(requests'[n])
      <4>1. requests' \in {requests, Append(requests, session.generation)}
        BY <3>2 DEF Receive
      <4>2. M(session.generation)
        BY <2>3, <3>2
      <4> HIDE DEF M
      <4> QED
        BY <2>2, <3>1, <4>1, <4>2, AppendFacts
    <3> HIDE DEF M
    <3> QED
      BY <1>2, <3>1, <3>2, RequestSteps
  <2>5. \A i \in DOMAIN repl'.entries : \A g : g = repl'.entries[i].generation => g \in Nat /\ M(g)
    <3>1. \A j \in DOMAIN repl.entries :
            repl.entries[j].generation \in Nat /\ M(repl.entries[j].generation)
      <4>1. \A j \in DOMAIN repl.entries : M(repl.entries[j].generation)
        BY DEF MeansInv
      <4>2. repl.entries \in Seq(Entry) /\ \A e \in Entry : e.generation \in Nat
        BY DEF DataType, Ring, Entry
      <4> QED
        BY <4>1, <4>2
    <3>2. \A t \in Task : pc[t] = "push" => loc[t].generation \in Nat /\ M(loc[t].generation)
      BY DEF DataType, Local, MeansInv, Working
    <3> HIDE DEF M
    <3> QED
      BY <1>2, <3>1, <3>2, RingEntries
  <2>6. \A t \in Task : \A g : pc'[t] \in Working /\ g = loc'[t].generation => g \in Nat /\ M(g)
    <3>1. \A t \in Task : /\ loc[t] \in Local /\ loc[t].generation \in Nat
                          /\ pc[t] \in Working => M(loc[t].generation)
      BY DEF DataType, Local, MeansInv
    <3>2. CASE Stays
      BY <3>1, <3>2, Zenon DEF Stays
    <3>3. ASSUME NEW t \in Task, NEW q \in PC, NEW m \in Local, OneMove(t, q, m), q \in Working
          PROVE  m.generation \in Nat /\ M(m.generation)
      <4>1. CASE CallbackMove(t, q, m)
        BY <3>3, <4>1 DEF CallbackMove, Working
      <4>2. CASE InputMove(t, q, m) \/ RequestMove(t, q, m)
        <5>1. pc[t] \in Working
          BY <4>2 DEF InputMove, RequestMove, Reauthorize, ReplPush, Signal, SignalSend,
                      ExpireHead, ExpireAnswer, VmQueuePush, Working
        <5>2. m.generation = loc[t].generation
          BY <3>1, <3>3, <4>2 DEF InputMove, RequestMove, Working, Local
        <5> QED
          BY <3>1, <5>1, <5>2, Zenon
      <4>3. CASE BeginMove(t, q, m)
        <5>1. M(session.generation) /\ m.generation = session.generation
          BY <2>3, <3>3, <4>3 DEF BeginMove, Working, NoLocal, Receive
        <5> QED
          BY <2>2, <5>1
      <4>4. CASE t = "vm" /\ VmMove(q, m)
        <5>1. Dispatch /\ m.generation = loc["vm"].request.generation
          BY <3>3, <4>4 DEF VmMove, ReadMove, ServeMove, ResetMove, Working, NoLocal
        <5>2. Sent(loc["vm"].request)
          BY <5>1, TaskFacts DEF SentInv, HoldsAt, Dispatch
        <5>3. requests \in Seq(Nat)
          BY DEF DataType
        <5> QED
          BY <5>1, <5>2, <5>3 DEF Sent, MeansInv
      <4> QED
        BY <3>3, <4>1, <4>2, <4>3, <4>4 DEF OneMove
    <3> HIDE DEF M
    <3>4. ASSUME NEW t \in Task, NEW q \in PC, NEW m \in Local, OneMove(t, q, m)
          PROVE  \A u \in Task : pc'[u] \in Working => loc'[u].generation \in Nat /\ M(loc'[u].generation)
      <4>1. /\ pc'[t] = q /\ loc'[t] = m
            /\ \A u \in Task : u # t => pc'[u] = pc[u] /\ loc'[u] = loc[u]
        BY <3>4, MovesFacts DEF OneMove
      <4> QED
        BY <3>1, <3>3, <3>4, <4>1, Zenon
    <3> QED
      BY <1>2, <3>2, <3>4, AllMoves DEF Quiet
  <2>7. \A n \in DOMAIN requests' : Means(requests[n])'
    BY <2>1, <2>4
  <2>8. \A i \in DOMAIN repl'.entries : Means(repl.entries[i].generation)'
    BY <2>1, <2>5
  <2>9. \A t \in Task : pc'[t] \in Working => Means(loc[t].generation)'
    BY <2>1, <2>6
  <2> QED
    BY <2>7, <2>8, <2>9 DEF MeansInv
<1> QED
  BY <1>1, <1>2

(***************************************************************************)
(* What is queued is in order, and the owner's unless it is about to go.   *)
(***************************************************************************)
LEMMA QueueMeans ==
  ASSUME DataType, SentInv, MeansInv, NEW i \in DOMAIN vmq
  PROVE  vmq[i] \in Request /\ vmq[i].generation \in Nat /\ Means(vmq[i].generation)
<1>1. vmq[i] \in Request /\ vmq[i].generation \in Nat
  <2>1. vmq \in Seq(Request) /\ \A r \in Request : r.generation \in Nat
    BY DEF DataType, Request
  <2> QED
    BY <2>1
<1>2. vmq[i].n \in DOMAIN requests /\ vmq[i].generation = requests[vmq[i].n]
  BY DEF SentInv, Sent
<1> QED
  BY <1>1, <1>2, Zenon DEF MeansInv

LEMMA OrderStays ==
  ASSUME DataType, SentInv, MeansInv, OrderInv, Next
  PROVE  OrderInv'
<1>1. vmq \in Seq(Request) /\ session.generation \in Nat
  BY DEF DataType, Session
<1>2. \A i \in DOMAIN vmq : vmq[i].generation \in Nat /\ vmq[i].generation <= session.generation
  BY QueueMeans DEF Means
<1>3. CASE UNCHANGED vmq \/ vmq' = <<>>
  BY <1>3 DEF OrderInv
<1>4. CASE vmq # <<>> /\ vmq' = Tail(vmq)
  <2>1. \A i, j \in DOMAIN Tail(vmq) : i <= j => i + 1 <= j + 1
    BY <1>1, <1>4, TailFacts
  <2>2. \A i \in DOMAIN Tail(vmq) : i + 1 \in DOMAIN vmq /\ Tail(vmq)[i] = vmq[i + 1]
    BY <1>1, <1>4, TailFacts
  <2> QED
    BY <1>4, <2>1, <2>2 DEF OrderInv
<1>5. ASSUME NEW t \in Task, VmQueuePush(t), vmq' # vmq PROVE OrderInv'
  <2> DEFINE r == loc[t].request
  <2>1. vmq' = Append(vmq, r) /\ Live(loc[t].generation)
    BY <1>5 DEF VmQueuePush
  <2>2. r \in Request /\ r.generation = session.generation
    BY <1>5, <2>1 DEF VmQueuePush, DataType, Local, SentInv, HoldsAt, Working, Live
  <2>3. \A i \in DOMAIN vmq : i <= Len(vmq) /\ i \in Nat
    BY <1>1
  <2> HIDE DEF r
  <2>4. \A i, j \in DOMAIN vmq' : i <= j => vmq'[i].generation <= vmq'[j].generation
    <3> SUFFICES ASSUME NEW i \in DOMAIN vmq', NEW j \in DOMAIN vmq', i <= j
                 PROVE  vmq'[i].generation <= vmq'[j].generation
      OBVIOUS
    <3>1. /\ (i \in DOMAIN vmq /\ vmq'[i] = vmq[i]) \/ (i = Len(vmq) + 1 /\ vmq'[i] = r)
          /\ (j \in DOMAIN vmq /\ vmq'[j] = vmq[j]) \/ (j = Len(vmq) + 1 /\ vmq'[j] = r)
      BY <1>1, <2>1, <2>2, AppendFacts
    <3>2. CASE j \in DOMAIN vmq /\ vmq'[j] = vmq[j]
      <4>1. i \in DOMAIN vmq /\ vmq'[i] = vmq[i]
        BY <1>1, <2>3, <3>1, <3>2
      <4> QED
        BY <3>2, <4>1 DEF OrderInv
    <3>3. CASE vmq'[j] = r
      BY <1>1, <1>2, <2>2, <3>1, <3>3
    <3> QED
      BY <3>1, <3>2, <3>3
  <2> QED
    BY <2>4 DEF OrderInv
<1>6. QueueStep => \/ UNCHANGED vmq \/ vmq' = <<>> \/ (vmq # <<>> /\ vmq' = Tail(vmq))
                   \/ \E t \in Task : VmQueuePush(t) /\ vmq' # vmq
  BY DEF QueueStep, ClearVmStale, ExpireHead, Poll, ResetVmQueue
<1>7. Restart => vmq' = <<>>
  BY DEF Restart
<1> QED
  BY <1>3, <1>4, <1>5, <1>6, <1>7, QueueSteps

\* A callback or a soft reset comes with whatever ends an owner.
LEMMA OwnerSteps ==
  ASSUME DataType, ReadyInv, Next, ~Restart, AtOwner'
  PROVE  \/ CallbackAt({"callback"})'
         \/ pc'["vm"] = "resetVm" /\ ResetEpoch
         \/ session'.generation = session.generation /\ AtOwner
<1>1. session \in Session
  BY DEF DataType
<1>2. ASSUME NEW t \in Task, Acquire(t) PROVE FALSE
  BY <1>1, <1>2 DEF Acquire, ReadyInv, AtOwner, Session
<1>3. ASSUME NEW t \in Task, ReleasePrepare(t) PROVE FALSE
  BY <1>1, <1>3 DEF ReleasePrepare, AtOwner, Session
<1>4. ASSUME NEW t \in Task, ClearOwner(t) PROVE CallbackAt({"callback"})'
  <2>1. t \in SessionTask /\ pc'[t] = "callback" /\ loc'[t].generation = session.generation + 1
    BY <1>4 DEF ClearOwner, Enter, DataType, NoLocal
  <2>2. session'.generation = session.generation + 1
    BY <1>1, <1>4 DEF ClearOwner, Session
  <2> QED
    BY <2>1, <2>2 DEF CallbackAt, Live
<1>5. CASE HelloComplete
  <2>1. pc'["tx"] = "callback" /\ loc'["tx"].generation = session.generation
    BY <1>5, TaskFacts DEF HelloComplete, Enter, DataType, NoLocal
  <2>2. session'.generation = session.generation
    BY <1>1, <1>5 DEF HelloComplete, Session
  <2> QED
    BY <2>1, <2>2, TaskFacts DEF CallbackAt, Live
<1>6. CASE ResetEpoch
  BY <1>6, TaskFacts DEF ResetEpoch, Goto, DataType
<1>7. CASE LinkGone \/ ResetBegin \/ VmReady \/ UNCHANGED session
  BY <1>1, <1>7 DEF LinkGone, ResetBegin, VmReady, AtOwner, Session
<1> QED
  BY <1>2, <1>3, <1>4, <1>5, <1>6, <1>7, SessionSteps DEF SessionStep

\* A callback that is not overtaken goes on to clear both queues.
LEMMA CallbackSteps ==
  ASSUME DataType, Next, ~Restart, NEW t \in SessionTask, Live(loc[t].generation),
         pc[t] \in {"callback", "clearVm", "clearRepl"}
  PROVE  \/ pc'[t] = pc[t] /\ loc'[t] = loc[t]
         \/ pc[t] = "callback" /\ pc'[t] = "clearVm" /\ loc'[t] = loc[t]
         \/ ClearVmStale(t) /\ pc'[t] = "clearRepl" /\ loc'[t] = loc[t]
         \/ ClearReplGeneration(t)
<1>1. CASE Stays
  BY <1>1 DEF Stays
<1>2. ASSUME NEW u \in Task, NEW q \in PC, NEW m \in Local, OneMove(u, q, m), u # t
      PROVE  pc'[t] = pc[t] /\ loc'[t] = loc[t]
  BY <1>2, MovesFacts, TaskFacts DEF OneMove
<1>3. ASSUME NEW q \in PC, NEW m \in Local, OneMove(t, q, m)
      PROVE  \/ pc[t] = "callback" /\ pc'[t] = "clearVm" /\ loc'[t] = loc[t]
             \/ ClearVmStale(t) /\ pc'[t] = "clearRepl" /\ loc'[t] = loc[t]
             \/ ClearReplGeneration(t)
  <2>1. t \in Task /\ t # "vm" /\ pc'[t] = q /\ loc'[t] = m
    BY <1>3, MovesFacts, TaskFacts DEF OneMove
  <2>2. ~InputMove(t, q, m) /\ ~RequestMove(t, q, m)
    BY DEF InputMove, RequestMove, Reauthorize, ReplPush, Signal, SignalSend, ExpireHead, ExpireAnswer,
           VmQueuePush
  <2>3. ~BeginMove(t, q, m)
    BY DEF BeginMove, ClearOwner, HelloComplete, Receive
  <2>4. CallbackMove(t, q, m)
    BY <1>3, <2>1, <2>2, <2>3 DEF OneMove
  <2> QED
    BY <2>1, <2>4 DEF CallbackMove, CallbackCheck
<1> QED
  BY <1>1, <1>2, <1>3, AllMoves, TaskFacts DEF Quiet

AllLive == \A i \in DOMAIN vmq : Live(vmq[i].generation)
RingLive == \A i \in DOMAIN repl.entries : Live(repl.entries[i].generation)

LEMMA CleanStays ==
  ASSUME DataType, SentInv, GuardInv, ReadyInv, MeansInv, OrderInv, CleanInv, Next
  PROVE  CleanInv'
<1>1. CASE Restart
  <2>1. vmq' = <<>> /\ repl'.entries = <<>>
    BY <1>1 DEF Restart, ForceClear
  <2> QED
    BY <2>1 DEF CleanInv
<1>2. CASE ~Restart
  <2> SUFFICES ASSUME AtOwner'
               PROVE  /\ \/ AllLive'
                         \/ pc'["vm"] \in {"resetEpoch", "resetVm"}
                         \/ CallbackAt({"callback", "clearVm"})'
                      /\ \/ RingLive'
                         \/ pc'["vm"] \in {"resetEpoch", "resetVm", "resetRead", "resetRepl"}
                         \/ CallbackAt({"callback", "clearVm", "clearRepl"})'
    BY DEF CleanInv, AllLive, RingLive
  <2>1. CASE CallbackAt({"callback"})'
    BY <2>1 DEF CallbackAt
  <2>2. CASE pc'["vm"] = "resetVm"
    BY <2>2
  <2>3. CASE session'.generation = session.generation /\ AtOwner
    <3>1. \A g : Live(g) <=> Live(g)'
      BY <2>3 DEF Live
    <3>2. ~ResetEpoch
      BY <2>3 DEF ResetEpoch, DataType, Session
    <3>3. /\ vmq \in Seq(Request) /\ session.generation \in Nat
          /\ \A t \in Task : loc[t] \in Local /\ loc[t].generation \in Nat
      BY DEF DataType, Session, Local
    <3>4. \/ AllLive'
          \/ pc'["vm"] \in {"resetEpoch", "resetVm"}
          \/ CallbackAt({"callback", "clearVm"})'
      <4>1. CASE AllLive
        <5>1. ASSUME NEW t \in Task, VmQueuePush(t), Live(loc[t].generation)
              PROVE  Live(loc[t].request.generation)
          BY <5>1 DEF VmQueuePush, SentInv, HoldsAt, Working
        <5>2. \A i \in DOMAIN vmq' : \A g : g = vmq'[i].generation => Live(g)
          BY <1>2, <4>1, <5>1, QueueEntries DEF AllLive
        <5> QED
          BY <3>1, <5>2 DEF AllLive
      <4>2. CASE pc["vm"] \in {"resetEpoch", "resetVm"}
        <5>1. ResetVmQueue => AllLive'
          BY DEF ResetVmQueue, AllLive
        <5> QED
          BY <1>2, <3>2, <4>2, <5>1, ResetSteps
      <4>3. ASSUME NEW t \in SessionTask, pc[t] \in {"callback", "clearVm"}, Live(loc[t].generation)
            PROVE  AllLive' \/ CallbackAt({"callback", "clearVm"})'
        <5>1. CASE pc'[t] \in {"callback", "clearVm"} /\ loc'[t] = loc[t]
          BY <3>1, <4>3, <5>1 DEF CallbackAt
        <5>2. CASE ClearVmStale(t)
          <6>1. CASE vmq' = <<>>
            BY <6>1 DEF AllLive
          <6>2. CASE vmq' = vmq /\ vmq # <<>> /\ Live(Head(vmq).generation)
            <7>1. Head(vmq) = vmq[1] /\ 1 \in DOMAIN vmq /\ \A i \in DOMAIN vmq : 1 <= i
              BY <3>3, <6>2, TailFacts
            <7>2. \A i \in DOMAIN vmq : /\ vmq[i].generation \in Nat
                                        /\ vmq[i].generation <= session.generation
                                        /\ session.generation <= vmq[i].generation
              BY <6>2, <7>1, QueueMeans DEF OrderInv, Means, Live
            <7>3. AllLive
              BY <3>3, <7>2 DEF AllLive, Live
            <7> QED
              BY <3>1, <6>2, <7>3 DEF AllLive
          <6>3. vmq' = <<>> \/ (vmq' = vmq /\ vmq # <<>> /\ Live(Head(vmq).generation))
            BY <4>3, <5>2 DEF ClearVmStale, Live
          <6> QED
            BY <6>1, <6>2, <6>3
        <5> QED
          BY <1>2, <4>3, <5>1, <5>2, CallbackSteps DEF ClearReplGeneration
      <4> QED
        BY <2>3, <4>1, <4>2, <4>3 DEF CleanInv, AllLive, CallbackAt
    <3>5. \/ RingLive'
          \/ pc'["vm"] \in {"resetEpoch", "resetVm", "resetRead", "resetRepl"}
          \/ CallbackAt({"callback", "clearVm", "clearRepl"})'
      <4>1. CASE RingLive
        <5>1. \A i \in DOMAIN repl'.entries : \A g : g = repl'.entries[i].generation => Live(g)
          BY <1>2, <4>1, RingEntries DEF RingLive
        <5> QED
          BY <3>1, <5>1 DEF RingLive
      <4>2. CASE pc["vm"] \in {"resetEpoch", "resetVm", "resetRead", "resetRepl"}
        <5>1. ResetRepl => RingLive'
          BY DEF ResetRepl, RingLive, ForceClear
        <5>2. ResetVmQueue => pc'["vm"] = "resetRead"
          BY TaskFacts DEF ResetVmQueue, Goto, DataType
        <5> QED
          BY <1>2, <3>2, <4>2, <5>1, <5>2, ResetSteps
      <4>3. ASSUME NEW t \in SessionTask, pc[t] \in {"callback", "clearVm", "clearRepl"},
                   Live(loc[t].generation)
            PROVE  RingLive' \/ CallbackAt({"callback", "clearVm", "clearRepl"})'
        <5>1. CASE pc'[t] \in {"callback", "clearVm", "clearRepl"} /\ loc'[t] = loc[t]
          BY <3>1, <4>3, <5>1 DEF CallbackAt
        <5>2. CASE ClearReplGeneration(t)
          <6>1. repl' = IF repl.guard # loc[t].generation THEN ForceClear(loc[t].generation) ELSE repl
            BY <4>3, <5>2 DEF ClearReplGeneration, ClearGeneration
          <6>2. CASE repl'.entries = <<>>
            BY <6>2 DEF RingLive
          <6>3. CASE repl' = repl /\ repl.guard = loc[t].generation
            <7>1. RingLive
              BY <4>3, <6>3 DEF RingLive, GuardInv
            <7> QED
              BY <3>1, <6>3, <7>1 DEF RingLive
          <6> QED
            BY <6>1, <6>2, <6>3 DEF ForceClear
        <5> QED
          BY <1>2, <4>3, <5>1, <5>2, CallbackSteps
      <4> QED
        BY <2>3, <4>1, <4>2, <4>3 DEF CleanInv, RingLive, CallbackAt
    <3> QED
      BY <3>4, <3>5
  <2> QED
    BY <1>2, <2>1, <2>2, <2>3, OwnerSteps
<1> QED
  BY <1>1, <1>2

(***************************************************************************)
(* The line and its origin.                                                *)
(***************************************************************************)
LineOk ==
  /\ Editing => vm.scope = 0
  /\ vm.mode = "main" => vm.line = <<>>
  /\ LineHasOneOrigin

LEMMA LineOkStays ==
  ASSUME DataType, GuardInv, LineInv, Next
  PROVE  LineOk'
<1>1. /\ vm \in Reader /\ vm.line \in Seq(Entry) /\ session.generation \in Nat \ {0}
      /\ loc["vm"].generation \in Nat /\ loc["vm"].ready \in BOOLEAN
  BY TaskFacts DEF DataType, Reader, Session, Local
<1>2. LineOk
  BY DEF LineOk, LineInv
<1>3. vm'.line = <<>> /\ (vm'.mode = "edit" => vm'.scope = 0) => LineOk'
  BY DEF LineOk, LineHasOneOrigin, Editing
<1>4. CtrlC => LineOk'
  <2>1. CASE Editing
    BY <1>1, <1>2, <1>3, <2>1 DEF CtrlC, LineOk, Editing, Reader
  <2>2. CASE ~Editing
    BY <1>2, <2>2 DEF CtrlC, LineOk, LineHasOneOrigin, Editing
  <2> QED
    BY <2>1, <2>2
<1>5. UNCHANGED vm => LineOk'
  BY <1>2 DEF LineOk, LineHasOneOrigin, Editing
<1>6. CASE ReadStart
  BY <1>4, <1>5, <1>6 DEF ReadStart
<1>7. CASE ReadSnapshot
  <2>1. CASE CtrlC
    BY <1>4, <2>1
  <2>2. CASE UNCHANGED vm
    BY <1>5, <2>2
  <2>3. CASE /\ Editing /\ Accepts(session.generation)
             /\ vm' = [vm EXCEPT !.origin = session.generation]
    <3>1. /\ vm'.line = vm.line /\ vm'.mode = "edit" /\ vm'.scope = 0
          /\ vm'.origin = session.generation
      BY <1>1, <1>2, <2>3 DEF Reader, LineOk, Editing
    <3>2. vm.line # <<>> => vm.origin = session.generation
      BY <1>2, <2>3 DEF LineOk, LineHasOneOrigin, Accepts, Editing
    <3>3. vm.line # <<>> => \A i \in DOMAIN vm.line : vm.line[i].generation = session.generation
      BY <1>2, <2>3, <3>2 DEF LineOk, LineHasOneOrigin
    <3> QED
      BY <1>1, <3>1, <3>3 DEF LineOk, LineHasOneOrigin, Editing
  <2> QED
    BY <1>7, <2>1, <2>2, <2>3 DEF ReadSnapshot
<1>8. CASE Pop
  <2> DEFINE g == loc["vm"].generation
             ready == loc["vm"].ready
             q == Found(repl, g, ready)
             e == Head(q.entries)
  <2>1. CASE Live(g) /\ q.entries # <<>> /\ Editing
    <3>1. vm' = [vm EXCEPT !.line = Append(@, e)]
      BY <1>8, <2>1 DEF Pop
    <3>2. q = IF ready /\ repl.guard = g THEN repl ELSE ForceClear(g)
      BY <1>1, <2>1, FoundShape
    <3>3. q = repl /\ ready /\ repl.guard = g
      BY <1>1, <2>1, <3>2, EmptyRing
    <3>4. e \in Entry /\ e.generation = g
      <4>1. repl.entries \in Seq(Entry) /\ repl.entries # <<>>
        BY <2>1, <3>3 DEF DataType, Ring
      <4>2. Head(repl.entries) = repl.entries[1] /\ 1 \in DOMAIN repl.entries
            /\ Head(repl.entries) \in Entry
        BY <4>1, TailFacts
      <4> QED
        BY <3>3, <4>2 DEF GuardInv
    <3>5. g # 0 /\ vm.origin = g
      BY <1>8, <2>1, <3>3 DEF LineInv, Pop
    <3> HIDE DEF e, q
    <3>6. /\ vm'.line = Append(vm.line, e) /\ vm'.mode = "edit" /\ vm'.scope = 0
          /\ vm'.origin = vm.origin
      BY <1>1, <1>2, <2>1, <3>1 DEF Reader, LineOk, Editing
    <3>7. \A i \in DOMAIN vm.line : vm.line[i].generation = g
      <4>1. CASE vm.line = <<>>
        BY <4>1
      <4>2. CASE vm.line # <<>>
        BY <1>2, <2>1, <3>5, <4>2 DEF LineOk, LineHasOneOrigin
      <4> QED
        BY <4>1, <4>2
    <3>8. \A i \in DOMAIN vm'.line : vm'.line[i].generation = g
      BY <1>1, <3>4, <3>6, <3>7, AppendFacts
    <3> QED
      BY <3>5, <3>6, <3>8 DEF LineOk, LineHasOneOrigin, Editing
  <2>2. CASE ~(Live(g) /\ q.entries # <<>> /\ Editing)
    BY <1>5, <1>8, <2>2 DEF Pop
  <2> QED
    BY <2>1, <2>2
<1>9. CASE Execute
  <2>1. CASE vm' = [vm EXCEPT !.mode = "exec", !.scope = vm.origin, !.origin = 0]
    <3>1. vm'.line = vm.line /\ vm'.mode = "exec" /\ vm'.scope = vm.origin
      BY <1>1, <2>1 DEF Reader
    <3> QED
      BY <1>2, <1>9, <3>1 DEF Execute, LineOk, LineHasOneOrigin, Editing
  <2>2. CASE vm' = [vm EXCEPT !.line = <<>>, !.origin = 0]
    BY <1>1, <1>2, <1>3, <1>9, <2>2 DEF Execute, LineOk, Editing, Reader
  <2> QED
    BY <1>9, <2>1, <2>2 DEF Execute
<1>10. CASE ExecuteEnd \/ VmReady \/ Restart
  BY <1>3, <1>10 DEF ExecuteEnd, VmReady, Restart
<1>11. CASE \E t \in Task : SignalSend(t)
  BY <1>5, <1>11 DEF SignalSend
<1> QED
  BY <1>5, <1>6, <1>7, <1>8, <1>9, <1>10, <1>11, ReaderSteps DEF ReaderStep

LEMMA LineStays ==
  ASSUME DataType, GuardInv, LineInv, Next
  PROVE  LineInv'
<1>1. LineOk'
  BY LineOkStays
<1>2. pc'["vm"] = "pop" /\ loc'["vm"].ready =>
        loc'["vm"].generation # 0 /\ (Editing' => vm'.origin = loc'["vm"].generation)
  <2> SUFFICES ASSUME pc'["vm"] = "pop", loc'["vm"].ready
               PROVE  loc'["vm"].generation # 0 /\ (Editing' => vm'.origin = loc'["vm"].generation)
    OBVIOUS
  <2>1. CASE pc["vm"] = "pop" /\ loc'["vm"] = loc["vm"] /\ vm' = vm
    BY <2>1 DEF LineInv, Editing
  <2>2. ASSUME NEW m \in Local, Moves("vm", "pop", m), ReadMove("pop", m)
        PROVE  loc'["vm"].generation # 0 /\ (Editing' => vm'.origin = loc'["vm"].generation)
    <3>1. /\ loc'["vm"] = m
          /\ m = [NoLocal EXCEPT !.generation = session.generation, !.ready = Ready]
          /\ vm' = IF Ready /\ Editing THEN [vm EXCEPT !.origin = session.generation] ELSE vm
      BY <2>2, TaskFacts DEF ReadMove, Moves, DataType
    <3>2. m.generation = session.generation /\ m.ready = Ready
      BY <3>1 DEF NoLocal
    <3>3. Ready /\ session.generation # 0 /\ vm \in Reader
      BY <3>1, <3>2 DEF DataType
    <3>4. Editing' => vm'.origin = session.generation
      BY <3>1, <3>3 DEF Editing, Reader
    <3> QED
      BY <3>1, <3>2, <3>3, <3>4
  <2>3. pc["vm"] = "pop" /\ ~Pop => vm' = vm \/ Restart
    BY ReaderSteps DEF ReaderStep, ReadStart, ReadSnapshot, Execute, ExecuteEnd, VmReady, SignalSend
  <2>4. ~Restart /\ ~Pop
    <3>1. Pop => pc'["vm"] = "idle"
      BY TaskFacts DEF Pop, Idle, Enter, DataType
    <3> QED
      BY <3>1, TaskFacts DEF Restart
  <2>5. CASE Stays
    BY <2>1, <2>3, <2>4, <2>5 DEF Stays
  <2>6. ASSUME NEW t \in Task, NEW q \in PC, NEW m \in Local, OneMove(t, q, m), t # "vm"
        PROVE  pc'["vm"] = pc["vm"] /\ loc'["vm"] = loc["vm"]
    BY <2>6, MovesFacts, TaskFacts DEF OneMove
  <2>7. ASSUME NEW q \in PC, NEW m \in Local, OneMove("vm", q, m)
        PROVE  Moves("vm", "pop", m) /\ ReadMove("pop", m)
    <3>1. q = "pop" /\ Moves("vm", q, m)
      BY <2>7, MovesFacts, TaskFacts DEF OneMove
    <3>2. ~CallbackMove("vm", q, m) /\ ~InputMove("vm", q, m) /\ ~RequestMove("vm", q, m)
          /\ ~ServeMove(q, m) /\ ~ResetMove(q, m)
      BY <3>1 DEF CallbackMove, InputMove, RequestMove, ServeMove, ResetMove
    <3> QED
      BY <2>7, <3>1, <3>2, TaskFacts DEF OneMove, VmMove
  <2> QED
    BY <2>1, <2>2, <2>3, <2>4, <2>5, <2>6, <2>7, AllMoves DEF Quiet
<1> QED
  BY <1>1, <1>2 DEF LineOk, LineInv

(***************************************************************************)
(* The theorems.                                                           *)
(***************************************************************************)
LEMMA InputInit == Init => InputInv
<1> SUFFICES ASSUME Init PROVE InputInv
  OBVIOUS
<1> USE LocalFacts, TaskFacts
<1>1. /\ vmq = <<>> /\ requests = <<>> /\ answered = {} /\ vm.line = <<>> /\ vm.scope = 0
      /\ repl = ForceClear(0) /\ repl.entries = <<>> /\ vm.mode = "main"
      /\ pc = [t \in Task |-> IF t = "vm" THEN "boot" ELSE "idle"] /\ loc = [t \in Task |-> NoLocal]
  BY DEF Init, ForceClear
<1>2. pc["vm"] = "boot" /\ loc["vm"] = NoLocal
  BY <1>1
<1>3. DataType
  <2>1. session \in Session /\ session.generation # 0 /\ interrupt \in BOOLEAN /\ accepted \in Nat
    <3>1. /\ session = [state |-> "FREE", link |-> FALSE, handshake |-> FALSE, ready |-> FALSE,
                       generation |-> 1]
          /\ interrupt = FALSE /\ accepted = 0
      BY DEF Init
    <3>2. session \in Session /\ session.generation = 1
      BY <3>1 DEF Session
    <3>3. interrupt \in BOOLEAN
      BY <3>1, Zenon
    <3> QED
      BY <3>1, <3>2, <3>3
  <2>2. repl \in Ring /\ Len(repl.entries) < Capacity
    BY <1>1, EmptyRing
  <2>3. vm \in Reader
    BY DEF Init, Reader
  <2>4. vmq \in Seq(Request) /\ Len(vmq) < QueueLen /\ requests \in Seq(Nat)
    BY <1>1
  <2>5. pc \in [Task -> PC] /\ loc \in [Task -> Local]
    BY <1>1 DEF PC
  <2> QED
    BY <2>1, <2>2, <2>3, <2>4, <2>5 DEF DataType
<1>4. SentInv
  <2>1. \A t \in Task : pc[t] \in {"idle", "boot"} /\ loc[t] = NoLocal
    BY <1>1
  <2>2. \A t \in Task : HoldsAt(pc[t], loc[t])
    BY <2>1 DEF HoldsAt, Working
  <2> QED
    BY <1>1, <2>2 DEF SentInv
<1>5. GuardInv /\ OrderInv /\ CleanInv
  BY <1>1 DEF GuardInv, OrderInv, CleanInv
<1>6. ReadyInv
  BY <1>2 DEF Init, ReadyInv, PastEpoch
<1>7. MeansInv
  BY <1>1 DEF MeansInv, Working
<1>8. LineInv
  BY <1>1, <1>2 DEF LineInv, LineHasOneOrigin, Editing
<1> QED
  BY <1>3, <1>4, <1>5, <1>6, <1>7, <1>8 DEF InputInv

LEMMA InputNext == InputInv /\ [Next]_vars => InputInv'
<1> SUFFICES ASSUME InputInv, [Next]_vars PROVE InputInv'
  OBVIOUS
<1>1. CASE Next
  BY <1>1, DataStays, SentInvStays, RingTypeStays, ReadyStays, MeansInvStays, OrderStays, CleanStays,
     LineStays DEF InputInv
<1>2. CASE UNCHANGED vars
  <2> USE <1>2 DEF InputInv, vars
  <2>1. DataType' /\ GuardInv' /\ OrderInv'
    BY DEF DataType, GuardInv, OrderInv
  <2>2. SentInv'
    BY DEF SentInv, HoldsAt, Sent
  <2>3. ReadyInv' /\ MeansInv'
    BY DEF ReadyInv, MeansInv, Means, Live
  <2>4. CleanInv'
    BY DEF CleanInv, AtOwner, CallbackAt, Live
  <2>5. LineInv'
    BY DEF LineInv, LineHasOneOrigin, Editing
  <2> QED
    BY <2>1, <2>2, <2>3, <2>4, <2>5
<1> QED
  BY <1>1, <1>2

LEMMA InputAlways == Spec => []InputInv
  BY InputInit, InputNext, PTL DEF Spec

\* The rings keep their bounds and everything a task holds its type; the next
\* owner finds no request and no readable input of the last one, whichever
\* callback or reset clears the two queues and in whatever order hosts, the
\* transmit worker and the interpreter move (ev_control_session_changed,
\* ev_repl_queue_push, ev_control_vm_queue_push).
THEOREM QueueCorrect == Spec => []QueueInv
<1>1. InputInv => QueueInv
  <2> SUFFICES ASSUME InputInv PROVE QueueInv
    OBVIOUS
  <2>1. TypeOK
    BY TypeParts DEF InputInv, SentInv
  <2>2. QueuesAreTheOwners
    <3> SUFFICES ASSUME ~Clearing, session.state = "FREE" \/ session.handshake,
                        session.state # "RELEASING"
                 PROVE  /\ \A i \in DOMAIN vmq : Live(vmq[i].generation) /\ session.state = "OWNED"
                        /\ \A i \in DOMAIN repl.entries :
                             Live(repl.entries[i].generation) /\ session.state = "OWNED"
      BY DEF QueuesAreTheOwners
    <3>1. AtOwner /\ CleanInv
      BY DEF AtOwner, InputInv
    <3>2. AllLive /\ RingLive
      BY <3>1 DEF CleanInv, CallbackAt, Clearing, AllLive, RingLive
    <3>3. \A i \in DOMAIN vmq : session.state = "OWNED"
      BY <3>2, QueueMeans DEF AllLive, Means, InputInv
    <3>4. \A i \in DOMAIN repl.entries : session.state = "OWNED"
      BY <3>2 DEF RingLive, Means, MeansInv, InputInv
    <3> QED
      BY <3>2, <3>3, <3>4 DEF AllLive, RingLive
  <2> QED
    BY <2>1, <2>2 DEF QueueInv
<1> QED
  BY <1>1, InputAlways, PTL

\* All bytes of a line that is edited or run were accepted in the generation
\* the line is bound to: no host's bytes ever complete another's command
\* (ev_vm_output_repl_input_accept, ev_repl_queue_pop, repl_rx_pop).
THEOREM LineCorrect == Spec => []LineHasOneOrigin
<1>1. InputInv => LineHasOneOrigin
  BY DEF InputInv, LineInv
<1> QED
  BY <1>1, InputAlways, PTL

\* Accepted input of a live generation leaves the ring only to be read, or by
\* the hand of a reader whose snapshot is older than the handshake
\* (ev_repl_queue_clear_generation, _pop, _pending, ev_control_repl_rx_clear).
THEOREM KeptCorrect == Spec => InputKept
<1> DEFINE Kept == \A i \in DOMAIN repl.entries :
        LET e == repl.entries[i]
            kept == \E j \in DOMAIN repl'.entries : repl'.entries[j] = e
            read == pc["vm"] = "pop" /\ i = 1
            early == pc["vm"] \in {"pop", "peek"} /\ ~loc["vm"].ready
        IN Live(e.generation) /\ session' = session /\ ~kept => read \/ early
<1>1. InputInv /\ [Next]_vars => [Kept]_vars
  <2> SUFFICES ASSUME InputInv, Next PROVE Kept
    BY DEF vars
  <2> SUFFICES ASSUME NEW i \in DOMAIN repl.entries,
                      Live(repl.entries[i].generation), session' = session,
                      ~\E j \in DOMAIN repl'.entries : repl'.entries[j] = repl.entries[i]
               PROVE  \/ pc["vm"] = "pop" /\ i = 1
                      \/ pc["vm"] \in {"pop", "peek"} /\ ~loc["vm"].ready
    OBVIOUS
  <2>1. ~Restart
    BY DEF Restart, InputInv, ReadyInv, PastEpoch
  <2>2. DataType /\ GuardInv /\ repl.entries \in Seq(Entry)
    BY DEF InputInv, DataType, Ring
  <2> PICK s \in {repl.entries, <<>>} : /\ s = repl.entries \/ Emptied
                                        /\ repl'.entries = s \/ Taken(s) \/ Put(s)
    BY <2>1, <2>2, RingShape
  <2>3. CASE Emptied
    <3>1. pc["vm"] # "resetRepl"
      BY DEF InputInv, MeansInv, Means, PastEpoch
    <3> QED
      BY <2>3, <3>1 DEF Emptied
  <2>4. CASE s = repl.entries
    <3>1. repl'.entries # s
      BY <2>4
    <3>2. CASE Taken(s)
      <4>1. repl.entries # <<>> /\ repl'.entries = Tail(repl.entries) /\ pc["vm"] = "pop"
        BY <2>4, <3>2 DEF Taken
      <4>2. i # 1 => i - 1 \in DOMAIN repl'.entries /\ repl'.entries[i - 1] = repl.entries[i]
        BY <2>2, <4>1, TailFacts
      <4> QED
        BY <4>1, <4>2
    <3>3. ~Put(s)
      BY <2>2, <2>4, AppendFacts DEF Put
    <3> QED
      BY <3>1, <3>2, <3>3
  <2> QED
    BY <2>3, <2>4
<1>2. Spec => [][Kept]_vars
  BY <1>1, InputAlways, PTL DEF Spec
<1> QED
  BY <1>2 DEF InputKept

(***************************************************************************)
(* The fate of a request.                                                  *)
(***************************************************************************)
Has(t, n) == loc[t].request.n = n \/ loc[t].head.n = n
Fate(n) ==
  /\ n \in answered => ~Queued(n) /\ \A t \in Task : ~Has(t, n)
  /\ Queued(n) => \A t \in Task : ~Has(t, n)
  /\ \A t, u \in Task : Has(t, n) /\ Has(u, n) => t = u
  /\ \A t \in Task : loc[t].request.n = n => loc[t].head.n # n
  /\ Authorized(requests[n]) => n \in answered \/ Queued(n) \/ \E t \in Task : Has(t, n)
FateInv == \A n \in DOMAIN requests : Fate(n)

\* A request that is no longer authorised never is again.
LEMMA AuthorizedBefore ==
  ASSUME DataType, ReadyInv, Next, ~Restart, NEW g \in Nat, Means(g), Authorized(g)'
  PROVE  Authorized(g)
<1>1. session \in Session
  BY DEF DataType
<1>2. Live(g) /\ session'.generation = session.generation
  BY MeansStays DEF Authorized, Live
<1>3. /\ session.state = "OWNED" /\ session.handshake /\ pc["vm"] \notin PastEpoch
      /\ session'.link /\ session'.ready
  BY <1>2 DEF Means, Authorized
<1>4. ~VmReady
  BY <1>3 DEF VmReady, PastEpoch
<1>5. session.link /\ session.ready
  BY <1>1, <1>2, <1>3, <1>4, SessionSteps
     DEF SessionStep, Acquire, ReleasePrepare, ClearOwner, HelloComplete, LinkGone, ResetBegin, ResetEpoch,
         Session
<1> QED
  BY <1>2, <1>3, <1>5 DEF Authorized

\* Task t and the queue hand a request on: it is answered, given up by t or by
\* the queue when it is no longer authorised, taken from the queue, or put there.
Roles(t, n, m) == (m.request.n = n <=> loc[t].request.n = n) /\ (m.head.n = n <=> loc[t].head.n = n)
Free(n, m) == m.request.n # n /\ m.head.n # n
One(n, m) == ~Free(n, m) /\ (m.request.n = n => m.head.n # n)
Hands(t, n, m) ==
  \/ /\ Roles(t, n, m) /\ (Queued(n) <=> Queued(n)') /\ (n \in answered <=> n \in answered')
  \/ /\ Free(n, m) /\ (Queued(n) <=> Queued(n)')
     /\ n \in answered' <=> n \in answered \/ Has(t, n)
  \/ /\ Free(n, m) /\ (Queued(n) <=> Queued(n)') /\ (n \in answered <=> n \in answered')
     /\ ~Authorized(requests[n])
  \/ /\ Roles(t, n, m) /\ ~Queued(n)' /\ (n \in answered <=> n \in answered')
     /\ ~Authorized(requests[n])
  \/ /\ One(n, m) /\ Queued(n) /\ ~Queued(n)' /\ (n \in answered <=> n \in answered')
  \/ /\ Free(n, m) /\ Has(t, n) /\ Queued(n)' /\ (n \in answered <=> n \in answered')

LEMMA FateHands ==
  ASSUME DataType, NEW t \in Task, NEW q \in PC, NEW m \in Local, Moves(t, q, m), NEW n,
         Fate(n), Hands(t, n, m), Authorized(requests[n])' => Authorized(requests[n])
  PROVE  Fate(n)'
<1>1. loc'[t] = m /\ \A u \in Task : u # t => loc'[u] = loc[u]
  BY MovesFacts
<1>2. /\ Has(t, n)' <=> ~Free(n, m)
      /\ \A u \in Task : u # t => (Has(u, n)' <=> Has(u, n))
      /\ \A u \in Task : u # t => (loc'[u].request.n = n => loc'[u].head.n # n)
  BY <1>1 DEF Has, Free, Fate
<1>3. (n \in answered)' <=> n \in answered'
  OBVIOUS
<1>4. CASE Roles(t, n, m)
  <2>1. \A u \in Task : Has(u, n)' <=> Has(u, n)
    BY <1>2, <1>4 DEF Roles, Free, Has
  <2>2. \A u \in Task : loc'[u].request.n = n => loc'[u].head.n # n
    BY <1>1, <1>2, <1>4 DEF Roles, Fate
  <2>3. /\ n \in answered' <=> n \in answered
        /\ (Queued(n)' <=> Queued(n)) \/ (~Queued(n)' /\ ~Authorized(requests[n]))
    BY <1>4 DEF Hands, Roles, Free, One, Has, Fate
  <2> QED
    BY <2>1, <2>2, <2>3 DEF Fate
<1>5. CASE Free(n, m)
  BY <1>1, <1>2, <1>5 DEF Hands, Roles, Free, One, Has, Fate
<1>6. CASE One(n, m) /\ Queued(n) /\ ~Queued(n)' /\ (n \in answered <=> n \in answered')
  BY <1>1, <1>2, <1>6 DEF Free, One, Has, Fate
<1> QED
  BY <1>4, <1>5, <1>6 DEF Hands

\* With one usable slot (EV_CONTROL_VM_QUEUE_LEN is 2) the head is the queue.
LEMMA ShortQueue ==
  ASSUME QueueLen <= 2, DataType, NEW n
  PROVE  /\ vmq # <<>> => Tail(vmq) = <<>> /\ Head(vmq) = vmq[1] /\ Head(vmq) \in Request
         /\ Queued(n) <=> vmq # <<>> /\ Head(vmq).n = n
<1>1. vmq \in Seq(Request) /\ Len(vmq) \in Nat /\ Len(vmq) <= 1 /\ DOMAIN vmq = 1..Len(vmq)
  BY DEF DataType
<1>2. CASE vmq = <<>>
  BY <1>2 DEF Queued
<1>3. CASE vmq # <<>>
  <2>1. Len(vmq) = 1
    BY <1>1, <1>3, EmptySeq
  <2>2. DOMAIN vmq = {1}
    BY <1>1, <2>1
  <2>3. Len(Tail(vmq)) = 0 /\ Tail(vmq) \in Seq(Request) /\ Head(vmq) = vmq[1] /\ Head(vmq) \in Request
    BY <1>1, <1>3, <2>1, HeadTailProperties
  <2>4. Tail(vmq) = <<>>
    BY <2>3, EmptySeq
  <2> QED
    BY <1>3, <2>2, <2>3, <2>4 DEF Queued
<1> QED
  BY <1>2, <1>3

LEMMA EveryHand ==
  ASSUME QueueLen <= 2, DataType, SentInv, GuardInv, ReadyInv, MeansInv, FateInv, Next, ~Restart,
         NEW t \in Task, NEW q \in PC, NEW m \in Local, OneMove(t, q, m),
         NEW n \in DOMAIN requests
  PROVE  Hands(t, n, m)
<1> USE LocalFacts
<1>1. n # 0 /\ n \in Nat /\ Fate(n) /\ requests[n] \in Nat /\ Means(requests[n])
  BY DEF DataType, FateInv, MeansInv
<1>2. HoldsAt(pc[t], loc[t]) /\ loc[t] \in Local
  BY DEF SentInv, DataType
<1>3. pc[t] \notin Holding => loc[t].request.n # n /\ loc[t].head.n # n
  BY <1>1, <1>2 DEF HoldsAt, Holding
<1>4. pc[t] # "timeout" => loc[t].head = NoRequest /\ loc[t].head.n # n
  BY <1>1, <1>2 DEF HoldsAt
<1>5. q \notin Holding => Free(n, m)
  <2>1. HoldsAt(pc[t], loc[t])' /\ pc'[t] = q /\ loc'[t] = m
    BY HoldsStays, MovesFacts DEF OneMove
  <2>2. q \notin Holding => m.request = NoRequest /\ m.head = NoRequest
    BY <2>1 DEF HoldsAt, Holding
  <2> QED
    BY <1>1, <2>2 DEF Free
<1>6. UNCHANGED vmq => (Queued(n) <=> Queued(n)')
  BY DEF Queued
<1>7. vmq' = <<>> => ~Queued(n)'
  BY DEF Queued
<1>8. pc[t] \notin Holding /\ q \notin Holding => Roles(t, n, m)
  BY <1>3, <1>5 DEF Roles, Free
<1>9. m = loc[t] => Roles(t, n, m)
  BY DEF Roles
<1>10. CASE CallbackMove(t, q, m)
  <2>1. Roles(t, n, m) /\ answered' = answered
    BY <1>8, <1>10 DEF CallbackMove, CallbackCheck, ClearVmStale, ClearReplGeneration, Holding, input
  <2>2. CASE ~ClearVmStale(t)
    BY <1>6, <1>10, <2>1, <2>2 DEF CallbackMove, CallbackCheck, ClearReplGeneration, input, Hands
  <2>3. CASE ClearVmStale(t)
    <3>1. CASE UNCHANGED vmq
      BY <1>6, <2>1, <3>1 DEF Hands
    <3>2. CASE vmq' # vmq
      <4>1. vmq' = <<>> /\ vmq # <<>> /\ ~Live(Head(vmq).generation)
        BY <2>3, <3>2 DEF ClearVmStale, Live
      <4>2. CASE Head(vmq).n = n
        <5>1. 1 \in DOMAIN vmq /\ Head(vmq) = vmq[1]
          BY <4>1, TailFacts DEF DataType
        <5>2. requests[n] = Head(vmq).generation
          BY <4>2, <5>1 DEF SentInv, Sent
        <5> QED
          BY <1>7, <2>1, <4>1, <5>2 DEF Hands, Authorized
      <4>3. CASE Head(vmq).n # n
        BY <1>7, <2>1, <4>1, <4>3, ShortQueue DEF Hands
      <4> QED
        BY <4>2, <4>3
    <3> QED
      BY <3>1, <3>2
  <2> QED
    BY <2>2, <2>3
<1>11. CASE InputMove(t, q, m)
  <2>1. UNCHANGED vmq
    BY <1>11 DEF InputMove, Reauthorize, ReplPush, Signal, SignalSend, input
  <2>2. CASE Reauthorize(t) /\ Authorized(loc[t].generation) /\ m = loc[t]
    BY <1>6, <1>9, <2>1, <2>2 DEF Reauthorize, Hands
  <2>3. CASE /\ q = "idle"
             /\ (Reauthorize(t) /\ ~Authorized(loc[t].generation)) \/ ReplPush(t)
    <3>1. answered' = IF loc[t].request # NoRequest THEN answered \cup {loc[t].request.n} ELSE answered
      BY <2>3 DEF Reauthorize, ReplPush, Answer
    <3>2. n \in answered' <=> n \in answered \/ Has(t, n)
      BY <1>1, <1>4, <2>3, <3>1 DEF Has, Reauthorize, ReplPush
    <3> QED
      BY <1>5, <1>6, <2>1, <2>3, <3>2 DEF Hands, Holding
  <2>4. CASE Signal(t) \/ SignalSend(t)
    <3>1. (m.request = loc[t].request /\ m.head = loc[t].head) \/ m = NoLocal
      BY <1>2, <1>11, <2>4 DEF InputMove, Local, Signal, SignalSend, Reauthorize, ReplPush
    <3>2. Roles(t, n, m) /\ answered' = answered
      BY <1>1, <1>3, <2>4, <3>1 DEF Roles, Signal, SignalSend, Holding, input
    <3> QED
      BY <1>6, <2>1, <3>2 DEF Hands
  <2> QED
    BY <1>11, <2>2, <2>3, <2>4 DEF InputMove
<1>12. CASE RequestMove(t, q, m)
  <2>1. CASE ExpireHead(t) /\ UNCHANGED vmq /\ m = loc[t]
    BY <1>6, <1>9, <2>1 DEF ExpireHead, Hands
  <2>2. CASE ExpireHead(t) /\ vmq # <<>> /\ vmq' = Tail(vmq) /\ m = [loc[t] EXCEPT !.head = Head(vmq)]
    <3>1. /\ m.request = loc[t].request /\ m.head = Head(vmq) /\ loc[t].head.n # n
          /\ answered' = answered
      BY <1>2, <1>4, <2>2 DEF Local, ExpireHead
    <3>2. ~Queued(n)' /\ (Queued(n) <=> Head(vmq).n = n)
      BY <1>7, <2>2, ShortQueue
    <3>3. CASE Head(vmq).n = n
      <4>1. loc[t].request.n # n
        BY <1>1, <3>2, <3>3 DEF Fate, Has
      <4> QED
        BY <3>1, <3>2, <3>3, <4>1 DEF Hands, One, Free
    <3>4. CASE Head(vmq).n # n
      BY <3>1, <3>2, <3>4 DEF Hands, Roles
    <3> QED
      BY <3>3, <3>4
  <2>3. CASE ExpireAnswer(t) /\ m = [loc[t] EXCEPT !.head = NoRequest]
    <3>1. m.request = loc[t].request /\ m.head.n # n /\ UNCHANGED vmq
      BY <1>1, <1>2, <2>3 DEF Local, ExpireAnswer
    <3>2. answered' = IF Authorized(loc[t].head.generation) THEN answered \cup {loc[t].head.n} ELSE answered
      BY <2>3 DEF ExpireAnswer, Answer
    <3>3. CASE loc[t].head.n = n
      <4>1. loc[t].request.n # n
        BY <1>1, <3>3 DEF Fate
      <4>2. loc[t].head.generation = requests[n]
        BY <1>1, <1>2, <3>3 DEF HoldsAt, Sent
      <4> QED
        BY <1>6, <3>1, <3>2, <3>3, <4>1, <4>2 DEF Hands, Free, Has
    <3>4. CASE loc[t].head.n # n
      BY <1>6, <3>1, <3>2, <3>4 DEF Hands, Roles
    <3> QED
      BY <3>3, <3>4
  <2>4. CASE VmQueuePush(t) /\ q = "idle"
    <3>1. Free(n, m) /\ loc[t].head.n # n
      BY <1>4, <1>5, <2>4 DEF VmQueuePush, Holding
    <3>2. CASE vmq' = Append(vmq, loc[t].request) /\ UNCHANGED answered
      <4>1. vmq \in Seq(Request) /\ loc[t].request \in Request
        BY <1>2 DEF DataType, Local
      <4>2. Queued(n)' <=> Queued(n) \/ loc[t].request.n = n
        BY <3>2, <4>1, AppendFacts DEF Queued
      <4>3. CASE loc[t].request.n = n
        BY <3>1, <3>2, <4>2, <4>3 DEF Hands, Has
      <4>4. CASE loc[t].request.n # n
        BY <3>1, <3>2, <4>2, <4>4 DEF Hands, Has
      <4> QED
        BY <4>3, <4>4
    <3>3. CASE UNCHANGED vmq /\ answered' = answered \cup {loc[t].request.n}
      BY <1>6, <3>1, <3>3 DEF Hands, Has
    <3> QED
      BY <2>4, <3>2, <3>3 DEF VmQueuePush, Answer
  <2> QED
    BY <1>12, <2>1, <2>2, <2>3, <2>4 DEF RequestMove
<1>13. CASE BeginMove(t, q, m)
  <2>1. /\ pc[t] = "idle" /\ UNCHANGED vmq /\ answered' = answered
    BY <1>13 DEF BeginMove, ClearOwner, HelloComplete, Receive, input
  <2>2. Free(n, m)
    <3>1. CASE q = "callback"
      BY <1>5, <3>1 DEF Holding
    <3>2. ASSUME NEW kind,
                 m = [NoLocal EXCEPT !.generation = session.generation, !.kind = kind]
          PROVE  m.request = NoRequest /\ m.head = NoRequest
      BY <3>2 DEF NoLocal
    <3>3. ASSUME NEW kind,
                 m = [NoLocal EXCEPT !.generation = session.generation, !.kind = kind,
                        !.request = [generation |-> session.generation, n |-> Len(requests) + 1,
                                     kind |-> kind]]
          PROVE  m.request.n # n /\ m.head = NoRequest
      <4>1. m.request.n = Len(requests) + 1 /\ m.head = NoRequest
        BY <3>3 DEF NoLocal
      <4>2. n <= Len(requests) /\ Len(requests) \in Nat
        BY DEF DataType
      <4> QED
        BY <1>1, <4>1, <4>2
    <3> QED
      BY <1>1, <1>13, <3>1, <3>2, <3>3 DEF BeginMove, Free
  <2> QED
    BY <1>3, <1>6, <2>1, <2>2 DEF Hands, Free, Roles, Holding
<1>14. CASE t = "vm" /\ VmMove(q, m)
  <2>1. CASE Poll /\ q = "dispatch" /\ m = [NoLocal EXCEPT !.request = Head(vmq)]
    <3>1. /\ m.request = Head(vmq) /\ m.head.n # n /\ vmq # <<>> /\ vmq' = Tail(vmq)
          /\ loc[t].request.n # n /\ loc[t].head.n # n /\ answered' = answered
      BY <1>1, <1>3, <1>14, <2>1 DEF NoLocal, Poll, Holding
    <3>2. ~Queued(n)' /\ (Queued(n) <=> Head(vmq).n = n)
      BY <1>7, <3>1, ShortQueue
    <3> QED
      BY <3>1, <3>2 DEF Hands, One, Free, Roles
  <2>2. CASE Dispatch
    <3>1. UNCHANGED vmq /\ pc[t] = "dispatch"
      BY <1>14, <2>2 DEF Dispatch
    <3>2. CASE /\ UNCHANGED answered
               /\ m = [NoLocal EXCEPT !.generation = loc["vm"].request.generation, !.kind = "run",
                                      !.request = loc["vm"].request]
      <4>1. m.request = loc[t].request /\ m.head = NoRequest
        BY <1>14, <3>2 DEF NoLocal
      <4> QED
        BY <1>1, <1>4, <1>6, <3>1, <3>2, <4>1 DEF Hands, Roles
    <3>3. CASE q = "idle" /\ Answer(loc[t].request)
      <4>1. Free(n, m) /\ loc[t].head.n # n
        BY <1>4, <1>5, <3>1, <3>3 DEF Holding
      <4> QED
        BY <1>6, <3>1, <3>3, <4>1 DEF Hands, Has, Answer
    <3>4. CASE q = "idle" /\ ~Authorized(loc[t].request.generation) /\ UNCHANGED answered
      <4>1. Free(n, m) /\ loc[t].head.n # n
        BY <1>4, <1>5, <3>1, <3>4 DEF Holding
      <4>2. loc[t].request.n = n => loc[t].request.generation = requests[n]
        BY <1>1, <1>2 DEF HoldsAt, Sent
      <4> QED
        BY <1>6, <3>1, <3>4, <4>1, <4>2 DEF Hands, Has, Roles, Free
    <3>5. \/ /\ UNCHANGED answered
             /\ m = [NoLocal EXCEPT !.generation = loc["vm"].request.generation, !.kind = "run",
                                    !.request = loc["vm"].request]
          \/ q = "idle" /\ Answer(loc[t].request)
          \/ q = "idle" /\ ~Authorized(loc[t].request.generation) /\ UNCHANGED answered
      <4>1. pc'["vm"] = q
        BY <1>14, MovesFacts DEF OneMove
      <4>2. CASE q = "idle"
        <5>1. pc'["vm"] # "check"
          BY <4>1, <4>2
        <5> QED
          BY <1>14, <2>2, <4>2, <5>1, MovesFacts DEF Dispatch, Enter, DataType
      <4>3. CASE q # "idle"
        <5>1. /\ m = [NoLocal EXCEPT !.generation = loc["vm"].request.generation, !.kind = "run",
                                     !.request = loc["vm"].request]
              /\ UNCHANGED answered
          BY <1>14, <3>1, <4>3 DEF VmMove, ServeMove, ReadMove, ResetMove, Poll, ReadStart, ReadSnapshot,
               PeekStart, ResetBegin, ResetEpoch, ResetVmQueue, ResetRead, ResetRepl, VmReady
        <5> QED
          BY <5>1
      <4> QED
        BY <4>2, <4>3
    <3> QED
      BY <3>2, <3>3, <3>4, <3>5
  <2>3. CASE ReadMove(q, m) \/ ResetMove(q, m)
    <3>1. /\ answered' = answered /\ Roles(t, n, m)
      BY <1>8, <1>14, <2>3 DEF ReadMove, ResetMove, ReadStart, ReadSnapshot, Pop, PeekStart, Peek, ResetBegin,
           ResetEpoch, ResetVmQueue, ResetRead, ResetRepl, VmReady, Holding, input
    <3>2. CASE UNCHANGED vmq
      BY <1>6, <3>1, <3>2 DEF Hands
    <3>3. CASE vmq' = <<>> /\ pc["vm"] = "resetVm"
      BY <1>1, <1>7, <3>1, <3>3 DEF Hands, Means, Authorized, PastEpoch
    <3> QED
      BY <2>3, <3>2, <3>3 DEF ReadMove, ResetMove, ReadStart, ReadSnapshot, Pop, PeekStart, Peek, ResetBegin,
           ResetEpoch, ResetVmQueue, ResetRead, ResetRepl, VmReady, input
  <2> QED
    BY <1>14, <2>1, <2>2, <2>3 DEF VmMove, ServeMove
<1> QED
  BY <1>10, <1>11, <1>12, <1>13, <1>14 DEF OneMove

\* A request that has just been received is in the hands of its receiver.
LEMMA FateNew ==
  ASSUME DataType, SentInv, NEW t \in RxTasks, NEW kind \in Kinds, Receive(t, kind),
         NEW n \in DOMAIN requests', n \notin DOMAIN requests
  PROVE  Fate(n)'
<1>1. /\ requests \in Seq(Nat) /\ session.generation \in Nat /\ Len(requests) \in Nat
      /\ DOMAIN requests = 1..Len(requests) /\ t \in Task /\ 0 \notin DOMAIN requests
  BY TaskFacts DEF DataType, Session
<1> DEFINE g == session.generation
           r == [generation |-> g, n |-> Len(requests) + 1, kind |-> kind]
           m == [NoLocal EXCEPT !.generation = g, !.kind = kind, !.request = r]
<1>2. requests' = Append(requests, g) /\ Enter(t, "check", m) /\ UNCHANGED <<vmq, answered>>
  BY DEF Receive
<1>3. n = Len(requests) + 1 /\ n # 0
  BY <1>1, <1>2, AppendFacts
<1>4. m.request.n = n /\ m.head.n # n
  BY <1>3 DEF NoLocal, NoRequest
<1> HIDE DEF m
<1>5. loc'[t] = m /\ \A u \in Task : u # t => loc'[u] = loc[u]
  BY <1>1, <1>2 DEF Enter, DataType
<1>6. \A u \in Task : ~Has(u, n)
  <2>1. \A u \in Task : HoldsAt(pc[u], loc[u])
    BY DEF SentInv
  <2>2. NoRequest.n = 0
    BY DEF NoRequest
  <2> QED
    BY <1>3, <2>1, <2>2 DEF HoldsAt, Sent, Has
<1>7. ~Queued(n) /\ n \notin answered
  BY DEF SentInv, Sent, Queued
<1>8. ~Queued(n)' /\ n \notin answered'
  BY <1>2, <1>7 DEF Queued
<1>9. Has(t, n)' /\ \A u \in Task : u # t => ~Has(u, n)'
  BY <1>1, <1>4, <1>5, <1>6 DEF Has
<1>10. \A u \in Task : loc'[u].request.n = n => loc'[u].head.n # n
  BY <1>4, <1>5, <1>6 DEF Has
<1> QED
  BY <1>1, <1>8, <1>9, <1>10 DEF Fate

LEMMA FateStays ==
  ASSUME QueueLen <= 2, DataType, SentInv, GuardInv, ReadyInv, MeansInv, FateInv, Next
  PROVE  FateInv'
<1>1. CASE Restart
  BY <1>1 DEF Restart, FateInv
<1>2. CASE ~Restart
  <2> SUFFICES ASSUME NEW n \in DOMAIN requests' PROVE Fate(n)'
    BY DEF FateInv
  <2>1. CASE n \in DOMAIN requests
    <3>1. Fate(n) /\ requests'[n] = requests[n] /\ requests[n] \in Nat /\ Means(requests[n])
      BY <1>2, <2>1, SentStays DEF FateInv, MeansInv, DataType
    <3>2. Authorized(requests[n])' => Authorized(requests[n])
      <4>1. \A g \in Nat : Means(g) /\ Authorized(g)' => Authorized(g)
        BY <1>2, AuthorizedBefore
      <4>2. \A g : g = requests[n] => (Authorized(requests[n])' => Authorized(g)')
        BY <3>1 DEF Authorized, Live
      <4> QED
        BY <3>1, <4>1, <4>2
    <3>3. CASE Quiet
      BY <3>1, <3>2, <3>3 DEF Quiet, Stays, Fate, Queued, Has
    <3>4. ASSUME NEW t \in Task, NEW q \in PC, NEW m \in Local, OneMove(t, q, m)
          PROVE  Fate(n)'
      <4>1. Hands(t, n, m) /\ Moves(t, q, m)
        BY <1>2, <2>1, <3>4, EveryHand DEF OneMove
      <4> QED
        BY <3>1, <3>2, <4>1, FateHands
    <3> QED
      BY <1>2, <3>3, <3>4, AllMoves
  <2>2. CASE n \notin DOMAIN requests
    <3>1. PICK t \in RxTasks, kind \in Kinds : Receive(t, kind)
      BY <1>2, <2>2, RequestSteps
    <3> QED
      BY <2>2, <3>1, FateNew
  <2> QED
    BY <2>1, <2>2
<1> QED
  BY <1>1, <1>2

\* The code gives the queue two slots (EV_CONTROL_VM_QUEUE_LEN), of which one
\* stays empty.  As long as it has no more, a request of an owner that is still
\* there is queued, in the hands of one task or answered, and only one of
\* these, and none outlives its owner in the queue (ev_control_vm_queue_push,
\* _expire, _clear_stale, ev_control_transport_vm_poll, _vm_reset_begin).
THEOREM RequestsCorrect == QueueLen <= 2 => (Spec => []RequestInv)
<1> SUFFICES ASSUME QueueLen <= 2 PROVE Spec => []RequestInv
  OBVIOUS
<1>1. Init => FateInv
  BY DEF Init, FateInv
<1>2. InputInv /\ FateInv /\ [Next]_vars => FateInv'
  <2> SUFFICES ASSUME InputInv, FateInv, [Next]_vars PROVE FateInv'
    OBVIOUS
  <2>1. CASE Next
    BY <2>1, FateStays DEF InputInv
  <2>2. CASE UNCHANGED vars
    BY <2>2 DEF vars, FateInv, Fate, Queued, Has, Authorized, Live
  <2> QED
    BY <2>1, <2>2
<1>3. InputInv /\ FateInv => RequestAccounted
  <2> SUFFICES ASSUME InputInv, FateInv, NEW n \in DOMAIN requests
               PROVE  /\ n \in answered => ~Queued(n) /\ Holders(n) = {}
                      /\ Queued(n) => Holders(n) = {}
                      /\ Cardinality(Holders(n)) <= 1
                      /\ Authorized(requests[n]) => n \in answered \/ Queued(n) \/ Holders(n) # {}
    BY DEF RequestAccounted
  <2>1. Fate(n)
    BY DEF FateInv
  <2>2. Holders(n) = {t \in Task : Has(t, n)}
    BY DEF Holders, Has
  <2>3. Cardinality(Holders(n)) <= 1
    <3>1. CASE Holders(n) = {}
      BY <3>1, FS_EmptySet
    <3>2. CASE Holders(n) # {}
      <4>1. PICK t \in Task : Holders(n) = {t}
        BY <2>1, <2>2, <3>2 DEF Fate
      <4>2. Cardinality({t}) = 1
        BY FS_Singleton
      <4> QED
        BY <4>1, <4>2
    <3> QED
      BY <3>1, <3>2
  <2> QED
    BY <2>1, <2>2, <2>3 DEF Fate
<1>4. Spec => []QueueInv
  BY QueueCorrect
<1>5. InputInv /\ FateInv /\ QueueInv => RequestInv
  BY <1>3 DEF RequestInv, QueueInv
<1> QED
  BY <1>1, <1>2, <1>4, <1>5, InputAlways, PTL DEF Spec
=============================================================================
