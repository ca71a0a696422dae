-------------------------- MODULE EvSessionProofs --------------------------
(***************************************************************************)
(* Theorems about EvSession, for every set of links and nonces and every   *)
(* value of the bounds: its types, and that no session waits for a         *)
(* completion that will not come (CompletionInv).  The routes and the      *)
(* serial links are in module EvSessionRoutes.                             *)
(***************************************************************************)
EXTENDS EvSession, TLAPS

\* A reference handed out by ev_transport_link_ref is a reference.
LEMMA RefOfType == ASSUME TypeOK, NEW l \in Link PROVE RefOf(l) \in Ref
  BY DEF TypeOK, RefOf, Ref

LEMMA NoLocalType == NoLocal \in Local
  BY DEF NoLocal, Local, RefOrNone, NoSnapshot, Snapshot, States

\* ev_session_snapshot_locked copies fields of the session.
LEMMA SnapshotType == ASSUME NEW s \in SessionType PROVE TakeSnapshot(s) \in Snapshot
  BY DEF SessionType, TakeSnapshot, Snapshot

LEMMA ClearedType == ASSUME NEW s \in SessionType PROVE Cleared(s) \in SessionType
<1>1. s.transition_id + 1 \in Nat /\ s.input_generation + 1 \in Nat /\ 0 \in Nat
  BY DEF SessionType
<1>2. NoRef \in RefOrNone /\ NoNonce \in Nonces \cup {NoNonce} /\ "FREE" \in States
  BY DEF RefOrNone, States
<1> QED
  BY <1>1, <1>2, Zenon DEF SessionType, Cleared

LEMMA LinkCloseType ==
  ASSUME TypeOK, NEW r, LinkCloseEffect(r)
  PROVE  /\ links' \in [Link -> [gen : Nat, open : BOOLEAN]]
         /\ transportOwner' \in RefOrNone
<1>1. CASE IsCurrent(r)
  <2>1. r.link \in Link /\ links[r.link].gen + 1 \in Nat
    BY <1>1 DEF TypeOK, IsCurrent
  <2>2. [gen |-> links[r.link].gen + 1, open |-> FALSE] \in [gen : Nat, open : BOOLEAN]
    BY <2>1
  <2> QED
    BY <1>1, <2>1, <2>2, Zenon DEF TypeOK, LinkCloseEffect, RefOrNone
<1>2. CASE ~IsCurrent(r)
  BY <1>2 DEF TypeOK, LinkCloseEffect
<1> QED
  BY <1>1, <1>2

LEMMA LinkAdvanceType ==
  ASSUME TypeOK, NEW r \in RefOrNone, LinkAdvanceEffect(r)
  PROVE  /\ links' \in [Link -> [gen : Nat, open : BOOLEAN]]
         /\ transportOwner' \in RefOrNone
<1>1. CASE IsCurrent(r)
  <2>1. r.link \in Link /\ links[r.link].gen + 1 \in Nat
    BY <1>1 DEF TypeOK, IsCurrent
  <2>2. r \in Ref
    BY <2>1, LinkAssumption DEF RefOrNone, NoRef
  <2>3. r.gen + 1 \in Nat
    BY <2>2 DEF Ref
  <2>4. [r EXCEPT !.gen = r.gen + 1] \in Ref
    BY <2>2, <2>3, Zenon DEF Ref
  <2>5. links' = [links EXCEPT ![r.link].gen = links[r.link].gen + 1]
    BY <1>1 DEF LinkAdvanceEffect
  <2>6. links[r.link] \in [gen : Nat, open : BOOLEAN]
    BY <2>1 DEF TypeOK
  <2>7. [links[r.link] EXCEPT !.gen = links[r.link].gen + 1] \in [gen : Nat, open : BOOLEAN]
    BY <2>1, <2>6, Zenon
  <2>8. links' \in [Link -> [gen : Nat, open : BOOLEAN]]
    BY <2>1, <2>5, <2>7, Zenon DEF TypeOK
  <2>9. transportOwner' \in RefOrNone
    BY <1>1, <2>4 DEF TypeOK, LinkAdvanceEffect, RefOrNone
  <2> QED
    BY <2>8, <2>9
<1>2. CASE ~IsCurrent(r)
  BY <1>2 DEF TypeOK, LinkAdvanceEffect
<1> QED
  BY <1>1, <1>2

LEMMA ReturnType ==
  ASSUME TypeOK, NEW t \in Task, Return(t)
  PROVE  pc' \in [Task -> PC] /\ loc' \in [Task -> Local]
<1>1. NoLocal \in Local
  BY NoLocalType
<1>2. [NoLocal EXCEPT !.ref = loc[t].ref, !.failed = loc[t].failed] \in Local
  BY <1>1 DEF TypeOK, Local
<1>3. loc[t].next \in PC
  BY DEF TypeOK, Local, PC
<1> QED
  BY <1>1, <1>2, <1>3 DEF TypeOK, Return

LEMMA ClearType ==
  ASSUME TypeOK, NEW t \in Task, NEW r \in RefOrNone, NEW sid \in Nat,
         NEW releasing \in BOOLEAN, NEW next \in {"idle", "lost", "cancel", "close", "advance"},
         NEW failed \in Nat, Clear(t, r, sid, releasing, next, failed)
  PROVE  pc' \in [Task -> PC] /\ loc' \in [Task -> Local]
<1>1. [NoLocal EXCEPT !.ref = r, !.session_id = sid, !.require_releasing = releasing,
                      !.next = next, !.failed = failed] \in Local
  BY NoLocalType DEF Local
<1> QED
  BY <1>1 DEF TypeOK, Clear, PC

LEMMA IdleType ==
  ASSUME TypeOK, NEW t \in Task, Idle(t)
  PROVE  pc' \in [Task -> PC] /\ loc' \in [Task -> Local]
  BY NoLocalType DEF TypeOK, Idle, PC

LEMMA GotoType ==
  ASSUME TypeOK, NEW t \in Task, NEW p \in PC, Goto(t, p)
  PROVE  pc' \in [Task -> PC]
  BY DEF TypeOK, Goto

\* Storing a snapshot in the locals of a task keeps them well typed.
LEMMA StoreSnapshotType ==
  ASSUME TypeOK, NEW t \in Task, NEW s \in Snapshot
  PROVE  [loc EXCEPT ![t].snapshot = s] \in [Task -> Local]
<1>1. loc[t] \in Local
  BY DEF TypeOK
<1>2. [loc[t] EXCEPT !.snapshot = s] \in Local
  BY <1>1, Zenon DEF Local
<1> QED
  BY <1>2, Zenon DEF TypeOK

LEMMA ClearOwnerEffectType ==
  ASSUME TypeOK, NEW t \in Task, ClearOwnerEffect(t)
  PROVE  /\ links' \in [Link -> [gen : Nat, open : BOOLEAN]]
         /\ transportOwner' \in RefOrNone
         /\ session' \in SessionType
         /\ pc' \in [Task -> PC]
         /\ loc' \in [Task -> Local]
<1>1. session \in SessionType /\ session.owner_link \in RefOrNone /\ session.session_id \in Nat
  BY DEF TypeOK, SessionType
<1>2. /\ links' \in [Link -> [gen : Nat, open : BOOLEAN]]
      /\ transportOwner' \in RefOrNone
  <2>1. CASE session.owner_link.link \in SerialLinks
    BY <1>1, <2>1, LinkAdvanceType DEF ClearOwnerEffect
  <2>2. CASE session.owner_link.link \notin SerialLinks
    BY <2>2 DEF ClearOwnerEffect, TypeOK
  <2> QED
    BY <2>1, <2>2
<1>3. session' \in SessionType
  BY <1>1, ClearedType DEF ClearOwnerEffect
<1>4. pc' \in [Task -> PC]
  BY DEF ClearOwnerEffect, TypeOK, PC
<1>5. TakeSnapshot(Cleared(session)) \in Snapshot
  BY <1>1, ClearedType, SnapshotType
<1>6. [loc[t] EXCEPT !.snapshot = TakeSnapshot(Cleared(session)),
                     !.previous = session.session_id, !.after = "notify"] \in Local
  <2>1. loc[t] \in Local
    BY DEF TypeOK
  <2> QED
    BY <1>1, <1>5, <2>1, Zenon DEF Local
<1>7. loc' = [loc EXCEPT ![t] = [loc[t] EXCEPT !.snapshot = TakeSnapshot(Cleared(session)),
                     !.previous = session.session_id, !.after = "notify"]]
  BY DEF ClearOwnerEffect, TypeOK
<1>8. loc' \in [Task -> Local]
  BY <1>6, <1>7, Zenon DEF TypeOK
<1> QED
  BY <1>2, <1>3, <1>4, <1>8

LEMMA AfterApplyType ==
  ASSUME TypeOK, NEW t \in Task, NEW applied \in BOOLEAN, AfterApply(t, applied)
  PROVE  pc' \in [Task -> PC] /\ loc' \in [Task -> Local]
  BY ReturnType, GotoType DEF TypeOK, AfterApply, PC

LEMMA EnqueueType ==
  ASSUME TypeOK, NEW f \in Frame, Enqueue(f)
  PROVE  txq' \in [Link -> [Slot -> Frame \cup {NoFrame}]]
<1>1. PICK i \in Slot : txq' = [txq EXCEPT ![f.link.link][i] = f]
  BY DEF Enqueue
<1> QED
  BY <1>1 DEF TypeOK

LEMMA CancelType ==
  ASSUME NEW q \in [Link -> [Slot -> Frame \cup {NoFrame}]], NEW sid, CancelSession(q, sid)
  PROVE  txq' \in [Link -> [Slot -> Frame \cup {NoFrame}]]
  BY DEF CancelSession, WithoutSession

(***************************************************************************)
(* The shape of a step: one task moves, the others stay.                   *)
(***************************************************************************)
OthersKept(t) == \A u \in Task \ {t} : pc'[u] = pc[u] /\ loc'[u] = loc[u]

LEMMA GotoShape ==
  ASSUME TypeOK, NEW t \in Task, NEW p, Goto(t, p), UNCHANGED loc
  PROVE  OthersKept(t) /\ pc'[t] = p /\ loc'[t] = loc[t]
  BY DEF TypeOK, Goto, OthersKept

\* The locals of a call of ev_session_clear_owner.
ClearLocal(r, sid, releasing, next, failed) ==
  [NoLocal EXCEPT !.ref = r, !.session_id = sid, !.require_releasing = releasing,
                  !.next = next, !.failed = failed]

LEMMA ClearShape ==
  ASSUME TypeOK, NEW t \in Task, NEW r, NEW sid, NEW releasing, NEW next, NEW failed,
         Clear(t, r, sid, releasing, next, failed)
  PROVE  /\ OthersKept(t) /\ pc'[t] = "clear"
         /\ loc'[t] = ClearLocal(r, sid, releasing, next, failed)
  BY DEF TypeOK, Clear, OthersKept, ClearLocal

LEMMA IdleShape ==
  ASSUME TypeOK, NEW t \in Task, Idle(t)
  PROVE  OthersKept(t) /\ pc'[t] = "idle" /\ loc'[t] = NoLocal
  BY DEF TypeOK, Idle, OthersKept

LEMMA ReturnShape ==
  ASSUME TypeOK, NEW t \in Task, Return(t)
  PROVE  /\ OthersKept(t) /\ pc'[t] \in {"idle", "lost", "cancel", "close", "advance"}
         /\ pc'[t] = loc[t].next
         /\ loc'[t] = IF loc[t].next = "idle" THEN NoLocal
                      ELSE [NoLocal EXCEPT !.ref = loc[t].ref, !.failed = loc[t].failed]
<1>1. loc[t].next \in {"idle", "lost", "cancel", "close", "advance"}
  BY DEF TypeOK, Local
<1> QED
  BY <1>1 DEF TypeOK, Return, OthersKept

(***************************************************************************)
(* Every action keeps the types, in the order of module EvSession.         *)
(***************************************************************************)
LEMMA HelloTypes ==
  ASSUME TypeOK, NEW t \in Task,
         AcquireLocked(t) \/ AcquireRecheck(t) \/ HelloRespond(t) \/ BusyRespond(t)
  PROVE  TypeOK'
<1>0. loc[t] \in Local /\ session \in SessionType
  BY DEF TypeOK
<1>l. /\ loc[t].ref \in RefOrNone /\ loc[t].nonce \in Nonces \cup {NoNonce}
      /\ loc[t].session_id \in Nat /\ loc[t].snapshot \in Snapshot
  BY <1>0 DEF Local
<1>1. CASE AcquireLocked(t)
  <2> DEFINE g == Granted(loc[t].ref, loc[t].nonce)
  <2>1. session.transition_id + 1 \in Nat /\ session.input_generation + 1 \in Nat
    BY <1>0 DEF SessionType
  <2>2. g \in SessionType
    <3>1. "OWNED" \in States
      BY DEF States
    <3> QED
      BY <1>0, <1>l, <2>1, <3>1, Zenon DEF SessionType, Granted
  <2>3. TakeSnapshot(g) \in Snapshot /\ TakeSnapshot(session) \in Snapshot
    BY <1>0, <2>2, SnapshotType
  <2>4. session' \in SessionType
    BY <1>0, <1>1, <2>2 DEF AcquireLocked
  <2>5. pc' \in [Task -> PC]
    BY <1>1 DEF TypeOK, AcquireLocked, Goto, PC
  <2>6. [loc[t] EXCEPT !.snapshot = TakeSnapshot(g), !.acquired = TRUE] \in Local
    BY <1>0, <2>3, Zenon DEF Local
  <2>7. [loc EXCEPT ![t].snapshot = TakeSnapshot(g), ![t].acquired = TRUE]
          = [loc EXCEPT ![t] = [loc[t] EXCEPT !.snapshot = TakeSnapshot(g), !.acquired = TRUE]]
    BY DEF TypeOK
  <2>8. [loc EXCEPT ![t].snapshot = TakeSnapshot(g), ![t].acquired = TRUE] \in [Task -> Local]
    BY <2>6, <2>7, Zenon DEF TypeOK
  <2>9. loc' \in [Task -> Local]
    BY <1>1, <2>3, <2>8, StoreSnapshotType DEF AcquireLocked
  <2> QED
    BY <1>1, <2>4, <2>5, <2>9 DEF TypeOK, AcquireLocked
<1>2. CASE AcquireRecheck(t)
  <2>1. [loc EXCEPT ![t].after = "respond"] \in [Task -> Local]
    <3>1. [loc[t] EXCEPT !.after = "respond"] \in Local
      BY <1>0, Zenon DEF Local
    <3> QED
      BY <3>1, Zenon DEF TypeOK
  <2>2. CASE Clear(t, loc[t].ref, 0, FALSE, "idle", 0)
    BY <1>2, <1>l, <2>2, ClearType DEF TypeOK, AcquireRecheck
  <2>3. CASE ~Clear(t, loc[t].ref, 0, FALSE, "idle", 0)
    BY <1>2, <2>1, <2>3 DEF TypeOK, AcquireRecheck, Goto, PC
  <2> QED
    BY <2>2, <2>3
<1>3. CASE HelloRespond(t)
  <2> DEFINE sid == loc[t].snapshot.session_id
             f == Response("HELLO", loc[t].ref, sid)
  <2>1. sid \in Nat
    BY <1>l DEF Snapshot
  <2>2. f \in Frame
    BY <1>l, <2>1 DEF Frame, Response
  <2>3. CASE Enqueue(f) /\ Idle(t)
    BY <1>3, <2>2, <2>3, EnqueueType, IdleType DEF TypeOK, HelloRespond
  <2>4. CASE Clear(t, loc[t].ref, sid, FALSE, "idle", 0) /\ UNCHANGED txq
    BY <1>3, <1>l, <2>1, <2>4, ClearType DEF TypeOK, HelloRespond
  <2> QED
    BY <1>3, <2>3, <2>4 DEF HelloRespond
<1>4. CASE BusyRespond(t)
  <2> DEFINE f == Response("CLOSE", loc[t].ref, 0)
  <2>1. f \in Frame
    BY <1>l DEF Frame, Response
  <2>2. CASE Idle(t) /\ UNCHANGED txq
    BY <1>4, <2>2, IdleType DEF TypeOK, BusyRespond
  <2>3. CASE Idle(t) /\ Enqueue(f)
    BY <1>4, <2>1, <2>3, IdleType, EnqueueType DEF TypeOK, BusyRespond
  <2>4. CASE Goto(t, "close") /\ UNCHANGED <<loc, txq>>
    BY <1>4, <2>4 DEF TypeOK, BusyRespond, Goto, PC
  <2> QED
    BY <1>4, <2>2, <2>3, <2>4 DEF BusyRespond
<1> QED
  BY <1>1, <1>2, <1>3, <1>4

LEMMA ReleaseTypes ==
  ASSUME TypeOK, NEW t \in Task, ReleasePrepare(t) \/ ReleaseRespond(t)
  PROVE  TypeOK'
<1>0. loc[t] \in Local /\ session \in SessionType
  BY DEF TypeOK
<1>l. loc[t].ref \in RefOrNone /\ loc[t].session_id \in Nat
  BY <1>0 DEF Local
<1>1. CASE ReleasePrepare(t)
  <2>1. [session EXCEPT !.state = "RELEASING", !.input_generation = session.input_generation + 1]
          \in SessionType
    <3>1. session.input_generation + 1 \in Nat /\ "RELEASING" \in States
      BY <1>0 DEF SessionType, States
    <3> QED
      BY <1>0, <3>1, Zenon DEF SessionType
  <2>2. CASE session' = [session EXCEPT !.state = "RELEASING", !.input_generation = @ + 1]
             /\ Goto(t, "releaseRespond") /\ UNCHANGED loc
    BY <1>1, <2>1, <2>2 DEF TypeOK, ReleasePrepare, Goto, PC
  <2>3. CASE Idle(t) /\ UNCHANGED session
    BY <1>1, <2>3, IdleType DEF TypeOK, ReleasePrepare
  <2> QED
    BY <1>1, <2>2, <2>3 DEF ReleasePrepare
<1>2. CASE ReleaseRespond(t)
  <2> DEFINE f == Response("RELEASE", loc[t].ref, loc[t].session_id)
  <2>1. f \in Frame
    BY <1>l DEF Frame, Response
  <2>2. CASE Enqueue(f) /\ Idle(t)
    BY <1>2, <2>1, <2>2, EnqueueType, IdleType DEF TypeOK, ReleaseRespond
  <2>3. CASE Clear(t, loc[t].ref, loc[t].session_id, TRUE, "idle", 0) /\ UNCHANGED txq
    BY <1>2, <1>l, <2>3, ClearType DEF TypeOK, ReleaseRespond
  <2> QED
    BY <1>2, <2>2, <2>3 DEF ReleaseRespond
<1> QED
  BY <1>1, <1>2

LEMMA ClearRouteTypes ==
  ASSUME TypeOK, NEW t \in Task,
         \/ ClearOwner(t) \/ ApplyRoute(t) \/ SetTransportOwner(t)
         \/ ChannelCheck(t) \/ ChannelSet(t) \/ NotifyCheck(t) \/ Callback(t)
  PROVE  TypeOK'
<1>0. loc[t] \in Local /\ loc[t].snapshot \in Snapshot
  BY DEF TypeOK, Local
<1>s. loc[t].snapshot.owner_link \in RefOrNone
  BY <1>0 DEF Snapshot
<1>1. CASE ClearOwner(t)
  BY <1>1, ClearOwnerEffectType, ReturnType DEF TypeOK, ClearOwner
<1>2. CASE ApplyRoute(t)
  BY <1>2, AfterApplyType DEF TypeOK, ApplyRoute, Goto, PC
<1>3. CASE SetTransportOwner(t)
  BY <1>3, <1>s DEF TypeOK, SetTransportOwner, Goto, PC, RefOrNone
<1>4. CASE ChannelCheck(t)
  BY <1>4, AfterApplyType DEF TypeOK, ChannelCheck, Goto, PC
<1>5. CASE ChannelSet(t)
  BY <1>5, <1>s, AfterApplyType DEF TypeOK, ChannelSet
<1>6. CASE NotifyCheck(t)
  BY <1>6, ReturnType DEF TypeOK, NotifyCheck, Goto, PC
<1>7. CASE Callback(t)
  BY <1>7, ReturnType, CancelType DEF TypeOK, Callback
<1> QED
  BY <1>1, <1>2, <1>3, <1>4, <1>5, <1>6, <1>7

LEMMA FailTypes ==
  ASSUME TypeOK, NEW t \in Task,
         HelloDone(t) \/ FailLost(t) \/ FailCancel(t) \/ LinkClose(t) \/ LinkAdvance(t)
  PROVE  TypeOK'
<1>0. loc[t] \in Local /\ session \in SessionType
  BY DEF TypeOK
<1>l. loc[t].ref \in RefOrNone /\ loc[t].failed \in Nat
  BY <1>0 DEF Local
<1>1. CASE HelloDone(t)
  <2> DEFINE done == [session EXCEPT !.handshake_complete = TRUE]
  <2>1. done \in SessionType
    BY <1>0, Zenon DEF SessionType
  <2>2. TakeSnapshot(done) \in Snapshot
    BY <2>1, SnapshotType
  <2>3. CASE /\ session' = done /\ Goto(t, "apply")
             /\ loc' = [loc EXCEPT ![t].snapshot = TakeSnapshot(done)]
    <3>1. loc' \in [Task -> Local]
      BY <2>2, <2>3, StoreSnapshotType
    <3> QED
      BY <1>1, <2>1, <2>3, <3>1 DEF TypeOK, HelloDone, Goto, PC
  <2>4. CASE Idle(t) /\ UNCHANGED session
    BY <1>1, <2>4, IdleType DEF TypeOK, HelloDone
  <2> QED
    BY <1>1, <2>3, <2>4 DEF HelloDone
<1>2. CASE FailLost(t)
  BY <1>2, <1>l, ClearType DEF TypeOK, FailLost
<1>3. CASE FailCancel(t)
  <2>1. txq' \in [Link -> [Slot -> Frame \cup {NoFrame}]]
    BY <1>3, CancelType DEF TypeOK, FailCancel
  <2>2. pc' \in [Task -> PC] /\ loc' \in [Task -> Local]
    BY <1>3, IdleType DEF TypeOK, FailCancel, Goto, PC
  <2> QED
    BY <1>3, <2>1, <2>2 DEF TypeOK, FailCancel
<1>4. CASE LinkClose(t)
  BY <1>4, IdleType, LinkCloseType DEF TypeOK, LinkClose
<1>5. CASE LinkAdvance(t)
  BY <1>5, <1>l, IdleType, LinkAdvanceType DEF TypeOK, LinkAdvance
<1> QED
  BY <1>1, <1>2, <1>3, <1>4, <1>5
LEMMA TxCompleteType ==
  ASSUME TypeOK, NEW l \in Link, NEW i \in Slot, NEW succeeded \in BOOLEAN,
         NEW next \in {"idle", "lost", "close"},
         txq[l][i] # NoFrame, TxComplete(l, i, succeeded, next)
  PROVE  /\ txq' \in [Link -> [Slot -> Frame \cup {NoFrame}]]
         /\ pc' \in [Task -> PC] /\ loc' \in [Task -> Local]
<1> DEFINE f == txq[l][i]
           rest == [txq EXCEPT ![l][i] = NoFrame]
<1>1. f \in Frame
  BY DEF TypeOK
<1>2. f.link \in RefOrNone /\ f.session_id \in Nat
  BY <1>1 DEF Frame
<1>3. rest \in [Link -> [Slot -> Frame \cup {NoFrame}]]
  BY DEF TypeOK
<1>4. "tx" \in Task
  BY DEF Task
<1>5. /\ [NoLocal EXCEPT !.ref = f.link, !.session_id = f.session_id] \in Local
      /\ [NoLocal EXCEPT !.ref = f.link] \in Local
  BY <1>2, NoLocalType, Zenon DEF Local
<1>6. ASSUME NEW p \in {"helloDone", "close"}, Goto("tx", p),
             NEW x \in Local, loc' = [loc EXCEPT !["tx"] = x], txq' = rest
      PROVE  /\ txq' \in [Link -> [Slot -> Frame \cup {NoFrame}]]
             /\ pc' \in [Task -> PC] /\ loc' \in [Task -> Local]
  BY <1>3, <1>4, <1>6 DEF TypeOK, Goto, PC
<1>7. ASSUME NEW releasing \in BOOLEAN,
             Clear("tx", f.link, f.session_id, releasing, next, f.session_id)
      PROVE  pc' \in [Task -> PC] /\ loc' \in [Task -> Local]
  BY <1>2, <1>4, <1>7, ClearType
<1>8. ASSUME CancelSession(rest, f.session_id)
      PROVE  txq' \in [Link -> [Slot -> Frame \cup {NoFrame}]]
  BY <1>3, <1>8, CancelType
<1>9. \/ /\ Goto("tx", "helloDone") /\ txq' = rest
         /\ loc' = [loc EXCEPT !["tx"] = [NoLocal EXCEPT !.ref = f.link,
                                             !.session_id = f.session_id]]
      \/ Clear("tx", f.link, f.session_id, FALSE, next, f.session_id) /\ txq' = rest
      \/ /\ Clear("tx", f.link, f.session_id, TRUE, next, f.session_id)
         /\ CancelSession(rest, f.session_id)
      \/ /\ Goto("tx", "close") /\ txq' = rest
         /\ loc' = [loc EXCEPT !["tx"] = [NoLocal EXCEPT !.ref = f.link]]
  BY Zenon DEF TxComplete
<1> HIDE DEF f, rest
<1> QED
  BY <1>3, <1>5, <1>6, <1>7, <1>8, <1>9

LEMMA TransmitTypes ==
  ASSUME TypeOK, NEW l \in Link, NEW i \in Slot, Transmit(l, i)
  PROVE  TypeOK'
<1>1. txq[l][i] # NoFrame
  BY DEF Transmit, TxSent, TxFailed, TxDropped, TxReady
<1>2. PICK succeeded \in BOOLEAN, next \in {"idle", "lost", "close"} :
        TxComplete(l, i, succeeded, next)
  BY DEF Transmit, TxSent, TxFailed, TxDropped
<1>3. UNCHANGED <<links, session, transportOwner, channelOwner, routeLock>>
  BY DEF Transmit, TxSent, TxFailed, TxDropped
<1> QED
  BY <1>1, <1>2, <1>3, TxCompleteType DEF TypeOK

LEMMA LinkEventTypes ==
  ASSUME TypeOK, NEW l \in Link, LinkEvent(l)
  PROVE  TypeOK'
<1>0. /\ RxTask(l) \in Task /\ "transport" \in Task
      /\ RefOf(l) \in RefOrNone
      /\ session.owner_link \in RefOrNone /\ session.session_id \in Nat
  BY RefOfType DEF TypeOK, SessionType, RxTask, Task, RefOrNone
<1>1. CASE ReleaseBegin(l)
  <2>1. [NoLocal EXCEPT !.ref = RefOf(l), !.session_id = session.session_id] \in Local
    BY <1>0, NoLocalType, Zenon DEF Local
  <2> QED
    BY <1>0, <1>1, <2>1 DEF TypeOK, ReleaseBegin, Goto, PC
<1>2. CASE LinkUp(l)
  <2>1. [gen |-> links[l].gen + 1, open |-> TRUE] \in [gen : Nat, open : BOOLEAN]
    BY DEF TypeOK
  <2> QED
    BY <1>2, <2>1 DEF TypeOK, LinkUp, LinkOpenEffect
<1>3. CASE LinkDown(l)
  BY <1>0, <1>3, ClearType DEF TypeOK, LinkDown
<1>4. CASE CdcRefresh(l)
  BY <1>0, <1>4, ClearType DEF TypeOK, CdcRefresh
<1>5. CASE UartRestore(l)
  BY <1>0, <1>5, ClearType DEF TypeOK, UartRestore
<1>6. ASSUME NEW n \in Nonces, HelloBegin(l, n) PROVE TypeOK'
  <2>1. [NoLocal EXCEPT !.ref = RefOf(l), !.nonce = n] \in Local
    BY <1>0, NoLocalType, Zenon DEF Local
  <2> QED
    BY <1>0, <1>6, <2>1 DEF TypeOK, HelloBegin, Goto, PC
<1> QED
  BY <1>1, <1>2, <1>3, <1>4, <1>5, <1>6 DEF LinkEvent

LEMMA OtherTypes ==
  ASSUME TypeOK, TickExpire \/ OutputFailed \/ VmEpochAdvance
  PROVE  TypeOK'
<1>0. /\ session \in SessionType
      /\ session.owner_link \in RefOrNone /\ session.session_id \in Nat
      /\ session.vm_epoch + 1 \in Nat /\ session.input_generation + 1 \in Nat
  BY DEF TypeOK, SessionType
<1>t. "transport" \in Task /\ "tx" \in Task
  BY DEF Task
<1>1. CASE TickExpire
  BY <1>t, <1>1, ClearOwnerEffectType DEF TypeOK, TickExpire
<1>2. CASE OutputFailed
  <2>1. [NoLocal EXCEPT !.ref = session.owner_link, !.failed = session.session_id] \in Local
    BY <1>0, NoLocalType, Zenon DEF Local
  <2> QED
    BY <1>t, <1>2, <2>1 DEF TypeOK, OutputFailed, Goto, PC
<1>3. CASE VmEpochAdvance
  <2>1. [session EXCEPT !.vm_epoch = session.vm_epoch + 1,
                        !.input_generation = session.input_generation + 1] \in SessionType
    BY <1>0, Zenon DEF SessionType
  <2> QED
    BY <1>3, <2>1 DEF TypeOK, VmEpochAdvance
<1> QED
  BY <1>1, <1>2, <1>3

\* One step of Next keeps the types.
LEMMA TypeStep == TypeOK /\ [Next]_vars => TypeOK'
<1> SUFFICES ASSUME TypeOK, [Next]_vars PROVE TypeOK'
  OBVIOUS
<1>1. ASSUME NEW t \in Task, Continue(t) PROVE TypeOK'
  BY <1>1, HelloTypes, ReleaseTypes, ClearRouteTypes, FailTypes DEF Continue
<1>2. ASSUME NEW l \in Link, LinkEvent(l) PROVE TypeOK'
  BY <1>2, LinkEventTypes
<1>3. ASSUME NEW l \in Link, NEW i \in Slot, Transmit(l, i) PROVE TypeOK'
  BY <1>3, TransmitTypes
<1>4. CASE TickExpire \/ OutputFailed \/ VmEpochAdvance
  BY <1>4, OtherTypes
<1>5. CASE UNCHANGED vars
  BY <1>5 DEF TypeOK, vars
<1> QED
  BY <1>1, <1>2, <1>3, <1>4, <1>5 DEF Next, Rest

LEMMA TypeInit == Init => TypeOK
<1> SUFFICES ASSUME Init PROVE TypeOK
  OBVIOUS
<1>1. session \in SessionType
  BY DEF Init, SessionType, States, RefOrNone
<1>2. loc \in [Task -> Local]
  BY NoLocalType DEF Init
<1> QED
  BY <1>1, <1>2 DEF Init, TypeOK, RefOrNone, PC, Task, NoTask

\* The state of links, session, routes, queues and tasks keeps its types in
\* every behaviour of the session manager and its callers.
THEOREM TypeCorrect == Spec => []TypeOK
  BY TypeInit, TypeStep, PTL DEF Spec

(***************************************************************************)
(* Completions: no session waits for an answer that will not come.         *)
(***************************************************************************)
\* A session of this id, if it is the present one, is owned by link r.
OwnedBy(s, r, sid) == sid # 0 /\ sid = s.session_id => s.owner_link = r

\* A session of this id, if it is the present one, is being released.
Releasing(s, sid) == sid # 0 /\ (sid = s.session_id => s.state = "RELEASING")

\* No session of this id is left.
Over(s, sid) == sid = 0 \/ sid # s.session_id

\* What a queued response knows of its session.
FrameKnows(s, f) ==
  /\ f.session_id <= s.transition_id
  /\ OwnedBy(s, f.link, f.session_id)
  /\ f.kind = "RELEASE" => Releasing(s, f.session_id)

ApplyPc == {"apply", "setTransport", "channelCheck", "channelSet"}

\* What a task at control point p with the locals x knows of the sessions it
\* carries: the one it answers, the one it takes away, the one whose frame failed.
TaskKnows(s, p, x) ==
  /\ x.session_id <= s.transition_id
  /\ x.snapshot.session_id <= s.transition_id
  /\ x.previous <= s.transition_id
  /\ x.failed <= s.transition_id
  /\ p = "acquire" => x.ref \in Ref
  /\ p = "release" => x.session_id # 0
  /\ p = "releaseRespond" => OwnedBy(s, x.ref, x.session_id) /\ Releasing(s, x.session_id)
  /\ p = "helloDone" => /\ OwnedBy(s, x.ref, x.session_id)
                        /\ x.after = "notify" /\ x.previous = 0 /\ x.failed = 0
  /\ p \in {"recheck", "respond"} \/ (p \in ApplyPc /\ x.after = "respond")
       => OwnedBy(s, x.ref, x.snapshot.session_id)
  /\ p = "clear" => /\ x.require_releasing => Releasing(s, x.session_id)
                    /\ OwnedBy(s, x.ref, x.failed)
                    /\ x.next = "cancel" => x.session_id = 0 /\ ~x.require_releasing
  /\ p = "lost" => OwnedBy(s, x.ref, x.failed)
  /\ p = "cancel" => Over(s, x.failed)
  /\ p \in {"notify", "callback"} \/ (p \in ApplyPc /\ x.after = "notify") =>
       /\ Over(s, x.previous)
       /\ x.next = "lost" => OwnedBy(s, x.ref, x.failed)
       /\ x.next = "cancel" => Over(s, x.failed)

\* A session id is the number of the transition that granted it; FREE has none.
IdsInv ==
  /\ session.session_id <= session.transition_id
  /\ HasOwner(session) => session.owner_link \in Ref
  /\ session.state = "FREE" <=> session.session_id = 0

KnowledgeInv ==
  /\ \A l \in Link, i \in Slot : FrameKnows(session, txq[l][i])
  /\ \A t \in Task : TaskKnows(session, pc[t], loc[t])

CompletionInv == TypeOK /\ IdsInv /\ KnowledgeInv /\ CompletionOutstanding

\* A session goes on, or ends, or a new one begins whose id nobody has seen.
Moves(s, z) ==
  /\ s.transition_id <= z.transition_id
  /\ \/ /\ z.session_id = s.session_id /\ z.owner_link = s.owner_link
        /\ s.state = "RELEASING" => z.state = "RELEASING"
     \/ z.session_id = 0
     \/ s.transition_id < z.session_id

\* What is known of an id stays true.
LEMMA IdKnown ==
  ASSUME NEW s \in SessionType, NEW z \in SessionType, Moves(s, z),
         NEW sid \in Nat, sid <= s.transition_id, NEW r
  PROVE  /\ sid <= z.transition_id
         /\ OwnedBy(s, r, sid) => OwnedBy(z, r, sid)
         /\ Releasing(s, sid) => Releasing(z, sid)
         /\ Over(s, sid) => Over(z, sid)
<1>1. /\ s.transition_id \in Nat /\ z.transition_id \in Nat
      /\ s.session_id \in Nat /\ z.session_id \in Nat
  BY DEF SessionType
<1> QED
  BY <1>1 DEF Moves, OwnedBy, Releasing, Over

LEMMA FrameStillKnows ==
  ASSUME NEW s \in SessionType, NEW z \in SessionType, Moves(s, z),
         NEW f \in Frame \cup {NoFrame}, FrameKnows(s, f)
  PROVE  FrameKnows(z, f)
<1>1. f.session_id \in Nat
  BY DEF Frame, NoFrame
<1> QED
  BY <1>1, IdKnown DEF FrameKnows

LEMMA TaskStillKnows ==
  ASSUME NEW s \in SessionType, NEW z \in SessionType, Moves(s, z),
         NEW p, NEW x \in Local, TaskKnows(s, p, x)
  PROVE  TaskKnows(z, p, x)
<1>1. /\ x.session_id \in Nat /\ x.snapshot.session_id \in Nat
      /\ x.previous \in Nat /\ x.failed \in Nat
  BY DEF Local, Snapshot
<1>2. /\ x.session_id <= s.transition_id /\ x.snapshot.session_id <= s.transition_id
      /\ x.previous <= s.transition_id /\ x.failed <= s.transition_id
  BY DEF TaskKnows
<1>3. /\ x.session_id <= z.transition_id
      /\ OwnedBy(s, x.ref, x.session_id) => OwnedBy(z, x.ref, x.session_id)
      /\ Releasing(s, x.session_id) => Releasing(z, x.session_id)
  BY <1>1, <1>2, IdKnown
<1>4. /\ x.snapshot.session_id <= z.transition_id
      /\ OwnedBy(s, x.ref, x.snapshot.session_id) => OwnedBy(z, x.ref, x.snapshot.session_id)
  BY <1>1, <1>2, IdKnown
<1>5. x.previous <= z.transition_id /\ (Over(s, x.previous) => Over(z, x.previous))
  BY <1>1, <1>2, IdKnown
<1>6. /\ x.failed <= z.transition_id
      /\ OwnedBy(s, x.ref, x.failed) => OwnedBy(z, x.ref, x.failed)
      /\ Over(s, x.failed) => Over(z, x.failed)
  BY <1>1, <1>2, IdKnown
<1> QED
  BY <1>3, <1>4, <1>5, <1>6 DEF TaskKnows

\* Everybody else knows what they knew.
LEMMA KnowledgeStep ==
  ASSUME TypeOK, TypeOK', KnowledgeInv, NEW t \in Task, OthersKept(t),
         Moves(session, session'), TaskKnows(session', pc'[t], loc'[t]),
         \A l \in Link, i \in Slot :
           txq'[l][i] \in {txq[l][i], NoFrame} \/ FrameKnows(session', txq'[l][i])
  PROVE  KnowledgeInv'
<1>0. session \in SessionType /\ session' \in SessionType
  BY DEF TypeOK
<1>1. ASSUME NEW u \in Task PROVE TaskKnows(session', pc'[u], loc'[u])
  <2>1. CASE u # t
    <3>1. loc[u] \in Local /\ TaskKnows(session, pc[u], loc[u])
      BY DEF TypeOK, KnowledgeInv
    <3>2. TaskKnows(session', pc[u], loc[u])
      BY <1>0, <3>1, TaskStillKnows
    <3>3. pc'[u] = pc[u] /\ loc'[u] = loc[u]
      BY <2>1 DEF OthersKept
    <3> QED
      BY <3>2, <3>3
  <2> QED
    BY <2>1
<1>2. ASSUME NEW l \in Link, NEW i \in Slot PROVE FrameKnows(session', txq'[l][i])
  <2>1. CASE txq'[l][i] = txq[l][i]
    <3>1. txq[l][i] \in Frame \cup {NoFrame} /\ FrameKnows(session, txq[l][i])
      BY DEF TypeOK, KnowledgeInv
    <3>2. FrameKnows(session', txq[l][i])
      BY <1>0, <3>1, FrameStillKnows
    <3> QED
      BY <2>1, <3>2
  <2>2. CASE txq'[l][i] = NoFrame
    BY <1>0, <2>2 DEF FrameKnows, NoFrame, OwnedBy, SessionType
  <2> QED
    BY <2>1, <2>2
<1> QED
  BY <1>1, <1>2 DEF KnowledgeInv

\* What ends a release, and what answers a hello.
ReleaseAwaited == Queued("RELEASE") \/ \E t \in Task : Clearing(t) \/ ReleaseCarried(t)
HelloAwaited == Queued("HELLO") \/ \E t \in Task : Clearing(t) \/ HelloCarried(t)

LEMMA AwaitedMeans ==
  CompletionOutstanding <=>
    /\ session.state = "RELEASING" => ReleaseAwaited
    /\ session.state = "OWNED" /\ ~session.handshake_complete => HelloAwaited
  BY DEF CompletionOutstanding, ReleaseAwaited, HelloAwaited

LEMMA AwaitedMeansNext ==
  (CompletionOutstanding <=>
    /\ session.state = "RELEASING" => ReleaseAwaited
    /\ session.state = "OWNED" /\ ~session.handshake_complete => HelloAwaited)'
  BY AwaitedMeans, PTL

\* The session's frames of a kind stay in their slots.
FramesKept(kind) ==
  \A l \in Link, i \in Slot :
    txq[l][i].kind = kind /\ txq[l][i].session_id = session.session_id => txq'[l][i] = txq[l][i]

LEMMA QueuedKept ==
  ASSUME NEW kind, FramesKept(kind), Queued(kind),
         session'.session_id = session.session_id, session'.owner_link = session.owner_link
  PROVE  Queued(kind)'
<1>1. PICK l \in Link, i \in Slot :
        txq[l][i] = [kind |-> kind, link |-> session.owner_link, session_id |-> session.session_id]
  BY DEF Queued
<1>2. txq'[l][i] = txq[l][i]
  BY <1>1 DEF FramesKept
<1> QED
  BY <1>1, <1>2 DEF Queued

\* Task t hands on what it carries, and the frames stay or are handed on as well.
LEMMA ReleaseStep ==
  ASSUME NEW t \in Task, OthersKept(t),
         session'.session_id = session.session_id, session'.owner_link = session.owner_link,
         FramesKept("RELEASE") \/ Clearing(t)',
         Clearing(t) \/ ReleaseCarried(t) =>
           Queued("RELEASE")' \/ Clearing(t)' \/ ReleaseCarried(t)',
         ReleaseAwaited
  PROVE  ReleaseAwaited'
<1>1. ASSUME NEW u \in Task \ {t}
      PROVE  (Clearing(u) => Clearing(u)') /\ (ReleaseCarried(u) => ReleaseCarried(u)')
  BY DEF OthersKept, Clearing, ReleaseCarried
<1>2. Queued("RELEASE") => Queued("RELEASE")' \/ Clearing(t)'
  BY QueuedKept
<1>3. CASE Queued("RELEASE")
  BY <1>2, <1>3 DEF ReleaseAwaited
<1>4. ASSUME NEW u \in Task, Clearing(u) \/ ReleaseCarried(u) PROVE ReleaseAwaited'
  BY <1>1, <1>4 DEF ReleaseAwaited
<1> QED
  BY <1>3, <1>4 DEF ReleaseAwaited

LEMMA HelloStep ==
  ASSUME NEW t \in Task, OthersKept(t),
         session'.session_id = session.session_id, session'.owner_link = session.owner_link,
         FramesKept("HELLO") \/ Clearing(t)' \/ HelloCarried(t)',
         Clearing(t) \/ HelloCarried(t) =>
           Queued("HELLO")' \/ Clearing(t)' \/ HelloCarried(t)',
         HelloAwaited
  PROVE  HelloAwaited'
<1>1. ASSUME NEW u \in Task \ {t}
      PROVE  (Clearing(u) => Clearing(u)') /\ (HelloCarried(u) => HelloCarried(u)')
  BY DEF OthersKept, Clearing, HelloCarried
<1>2. Queued("HELLO") => Queued("HELLO")' \/ Clearing(t)' \/ HelloCarried(t)'
  BY QueuedKept
<1>3. CASE Queued("HELLO")
  BY <1>2, <1>3 DEF HelloAwaited
<1>4. ASSUME NEW u \in Task, Clearing(u) \/ HelloCarried(u) PROVE HelloAwaited'
  BY <1>1, <1>4 DEF HelloAwaited
<1> QED
  BY <1>3, <1>4 DEF HelloAwaited

\* A step of task t that leaves the session as it is.
LEMMA CallStep ==
  ASSUME CompletionInv, TypeOK', NEW t \in Task, OthersKept(t), UNCHANGED session,
         TaskKnows(session, pc'[t], loc'[t]),
         \A l \in Link, i \in Slot :
           txq'[l][i] \in {txq[l][i], NoFrame} \/ FrameKnows(session, txq'[l][i]),
         session.state # "FREE" =>
           /\ FramesKept("RELEASE") \/ Clearing(t)'
           /\ FramesKept("HELLO") \/ Clearing(t)' \/ HelloCarried(t)',
         session.state = "RELEASING" /\ (Clearing(t) \/ ReleaseCarried(t)) =>
           Queued("RELEASE")' \/ Clearing(t)' \/ ReleaseCarried(t)',
         session.state = "OWNED" /\ ~session.handshake_complete
           /\ (Clearing(t) \/ HelloCarried(t)) =>
             Queued("HELLO")' \/ Clearing(t)' \/ HelloCarried(t)'
  PROVE  CompletionInv'
<1>1. IdsInv'
  BY DEF CompletionInv, IdsInv, HasOwner
<1>2. Moves(session, session')
  BY DEF Moves, CompletionInv, TypeOK, SessionType
<1>3. KnowledgeInv'
  BY <1>2, KnowledgeStep DEF CompletionInv
<1>4. session.state = "RELEASING" => ReleaseAwaited'
  BY ReleaseStep, AwaitedMeans DEF CompletionInv
<1>5. session.state = "OWNED" /\ ~session.handshake_complete => HelloAwaited'
  BY HelloStep, AwaitedMeans DEF CompletionInv
<1> QED
  BY <1>1, <1>3, <1>4, <1>5, AwaitedMeansNext DEF CompletionInv

\* Where a task carries neither a response nor a session to take away.
FreePc == {"idle", "acquire", "busy", "release", "notify", "callback", "lost", "cancel",
           "close", "advance"}

\* A step of a task that carries nothing, with no frame involved.
LEMMA FreeStep ==
  ASSUME CompletionInv, TypeOK', NEW t \in Task, OthersKept(t), UNCHANGED <<session, txq>>,
         pc[t] \in FreePc, TaskKnows(session, pc'[t], loc'[t])
  PROVE  CompletionInv'
<1>1. ~Clearing(t) /\ ~ReleaseCarried(t) /\ ~HelloCarried(t)
  BY DEF FreePc, Clearing, ReleaseCarried, HelloCarried
<1>2. FramesKept("RELEASE") /\ FramesKept("HELLO")
  BY DEF FramesKept
<1> QED
  BY <1>1, <1>2, CallStep

(***************************************************************************)
(* What a task knows after each way of moving.                             *)
(***************************************************************************)
LEMMA IdleKnows == ASSUME NEW s \in SessionType PROVE TaskKnows(s, "idle", NoLocal)
  BY DEF TaskKnows, NoLocal, NoSnapshot, SessionType, ApplyPc

LEMMA ClearKnows ==
  ASSUME NEW s \in SessionType, NEW r, NEW sid \in Nat, NEW releasing \in BOOLEAN, NEW next,
         NEW failed \in Nat,
         sid <= s.transition_id, failed <= s.transition_id,
         releasing => Releasing(s, sid),
         OwnedBy(s, r, failed),
         next = "cancel" => sid = 0 /\ ~releasing
  PROVE  TaskKnows(s, "clear", ClearLocal(r, sid, releasing, next, failed))
<1> DEFINE x == ClearLocal(r, sid, releasing, next, failed)
<1>1. /\ x.session_id = sid /\ x.failed = failed /\ x.ref = r /\ x.next = next
      /\ x.previous = 0 /\ x.snapshot = NoSnapshot
  BY Zenon DEF NoLocal, ClearLocal
<1>2. x.snapshot.session_id = 0
  BY <1>1 DEF NoSnapshot
<1>3. x.require_releasing = releasing
  BY Zenon DEF NoLocal, ClearLocal
<1>5. x.require_releasing => Releasing(s, x.session_id)
  BY <1>1, <1>3, Zenon
<1>6. x.next = "cancel" => x.session_id = 0 /\ ~x.require_releasing
  BY <1>1, <1>3, Zenon
<1>4. TaskKnows(s, "clear", x)
  <2> HIDE DEF x
  <2> QED
    BY <1>1, <1>2, <1>5, <1>6 DEF TaskKnows, ApplyPc, SessionType
<1> QED
  BY <1>4

\* A call that names only a link, or a link and the session of a failed frame.
LEMMA CallKnows ==
  ASSUME NEW s \in SessionType, NEW r, NEW failed \in Nat, NEW p, NEW x,
         x = [NoLocal EXCEPT !.ref = r, !.failed = failed],
         failed <= s.transition_id,
         p \in {"idle", "lost", "cancel", "close", "advance"},
         p = "lost" => OwnedBy(s, r, failed),
         p = "cancel" => Over(s, failed)
  PROVE  TaskKnows(s, p, x)
<1>1. /\ x.session_id = 0 /\ x.failed = failed /\ x.ref = r
      /\ x.previous = 0 /\ x.snapshot = NoSnapshot
  BY Zenon DEF NoLocal
<1>2. x.snapshot.session_id = 0
  BY <1>1 DEF NoSnapshot
<1> QED
  BY <1>1, <1>2 DEF TaskKnows, ApplyPc, SessionType

\* A task that goes back to its caller passes on the failed frame's session.
LEMMA ReturnKnows ==
  ASSUME TypeOK, NEW t \in Task, Return(t), TaskKnows(session, pc[t], loc[t]),
         loc[t].next = "lost" => OwnedBy(session, loc[t].ref, loc[t].failed),
         loc[t].next = "cancel" => Over(session, loc[t].failed)
  PROVE  TaskKnows(session, pc'[t], loc'[t])
<1>1. session \in SessionType /\ loc[t].failed \in Nat
  BY DEF TypeOK, Local
<1>2. loc[t].failed <= session.transition_id
  BY DEF TaskKnows
<1>3. /\ pc'[t] \in {"idle", "lost", "cancel", "close", "advance"} /\ pc'[t] = loc[t].next
      /\ loc'[t] = IF loc[t].next = "idle" THEN NoLocal
                   ELSE [NoLocal EXCEPT !.ref = loc[t].ref, !.failed = loc[t].failed]
  BY ReturnShape
<1>4. CASE loc[t].next = "idle"
  BY <1>1, <1>3, <1>4, IdleKnows
<1>5. CASE loc[t].next # "idle"
  BY <1>1, <1>2, <1>3, <1>5, CallKnows
<1> QED
  BY <1>4, <1>5

(***************************************************************************)
(* The actions.                                                            *)
(***************************************************************************)
LEMMA TaskHasKnowledge ==
  ASSUME CompletionInv, NEW t \in Task
  PROVE  /\ TaskKnows(session, pc[t], loc[t])
         /\ session \in SessionType /\ loc[t] \in Local
         /\ session.session_id \in Nat /\ session.transition_id \in Nat
         /\ session.session_id <= session.transition_id
         /\ loc[t].session_id \in Nat /\ loc[t].failed \in Nat /\ loc[t].previous \in Nat
         /\ loc[t].snapshot.session_id \in Nat
  BY DEF CompletionInv, KnowledgeInv, IdsInv, TypeOK, Local, Snapshot, SessionType

\* Steps of a task that carries nothing yet, or no longer.
LEMMA FreeActions ==
  ASSUME CompletionInv, TypeOK', NEW t \in Task, FailLost(t) \/ NotifyCheck(t) \/ LinkClose(t) \/ LinkAdvance(t)
  PROVE  CompletionInv'
<1>k. /\ TaskKnows(session, pc[t], loc[t]) /\ TypeOK
      /\ session \in SessionType /\ loc[t] \in Local /\ loc[t].failed \in Nat /\ session.transition_id \in Nat
      /\ 0 \in Nat
  BY TaskHasKnowledge DEF CompletionInv
<1>1. CASE FailLost(t)
  <2>1. /\ OthersKept(t) /\ pc'[t] = "clear"
        /\ loc'[t] = ClearLocal(loc[t].ref, 0, FALSE, "cancel", loc[t].failed)
    <3>1. Clear(t, loc[t].ref, 0, FALSE, "cancel", loc[t].failed)
      BY <1>1 DEF FailLost
    <3> QED
      BY <1>k, <3>1 DEF Clear, ClearLocal, OthersKept, TypeOK
  <2>2. OwnedBy(session, loc[t].ref, loc[t].failed) /\ loc[t].failed <= session.transition_id
    BY <1>k, <1>1 DEF TaskKnows, FailLost
  <2>3. TaskKnows(session, "clear", loc'[t])
    <3>1. FALSE \in BOOLEAN /\ 0 <= session.transition_id
      BY <1>k
    <3> QED
      BY <1>k, <2>1, <2>2, <3>1, ClearKnows, Zenon
  <2> QED
    BY <1>1, <2>1, <2>3, FreeStep DEF FailLost, FreePc
<1>2. CASE NotifyCheck(t)
  <2>1. CASE Goto(t, "callback") /\ UNCHANGED loc
    <3>1. OthersKept(t) /\ pc'[t] = "callback" /\ loc'[t] = loc[t]
      BY <1>k, <2>1, GotoShape
    <3>2. TaskKnows(session, "callback", loc[t])
      BY <1>k, <1>2 DEF TaskKnows, NotifyCheck, ApplyPc
    <3> QED
      BY <1>2, <3>1, <3>2, FreeStep DEF NotifyCheck, FreePc
  <2>2. CASE Return(t)
    <3>1. OthersKept(t)
      BY <1>k, <2>2, ReturnShape
    <3>2. TaskKnows(session, pc'[t], loc'[t])
      BY <1>k, <1>2, <2>2, ReturnKnows DEF TaskKnows, NotifyCheck, ApplyPc
    <3> QED
      BY <1>2, <3>1, <3>2, FreeStep DEF NotifyCheck, FreePc
  <2> QED
    BY <1>2, <2>1, <2>2 DEF NotifyCheck
<1>3. CASE LinkClose(t) \/ LinkAdvance(t)
  <2>1. OthersKept(t) /\ pc'[t] = "idle" /\ loc'[t] = NoLocal
    BY <1>k, <1>3, IdleShape DEF LinkClose, LinkAdvance
  <2>2. TaskKnows(session, "idle", NoLocal)
    BY <1>k, IdleKnows
  <2> QED
    BY <1>3, <2>1, <2>2, FreeStep DEF LinkClose, LinkAdvance, FreePc
<1> QED
  BY <1>1, <1>2, <1>3

\* Storing a snapshot changes nothing else that a task holds.
LEMMA SnapshotShape ==
  ASSUME TypeOK, NEW t \in Task, NEW s, loc' = [loc EXCEPT ![t].snapshot = TakeSnapshot(s)]
  PROVE  /\ loc'[t].snapshot.session_id = s.session_id
         /\ \A u \in Task \ {t} : loc'[u] = loc[u]
         /\ loc'[t].ref = loc[t].ref /\ loc'[t].session_id = loc[t].session_id
         /\ loc'[t].previous = loc[t].previous /\ loc'[t].failed = loc[t].failed
         /\ loc'[t].after = loc[t].after /\ loc'[t].next = loc[t].next
<1>1. loc'[t] = [loc[t] EXCEPT !.snapshot = TakeSnapshot(s)] /\ loc[t] \in Local
  BY DEF TypeOK
<1>2. loc'[t].snapshot = TakeSnapshot(s)
  BY <1>1 DEF Local
<1>3. loc'[t].snapshot.session_id = s.session_id
  BY <1>2 DEF TakeSnapshot
<1>4. \A u \in Task \ {t} : loc'[u] = loc[u]
  BY DEF TypeOK
<1> QED
  BY <1>1, <1>3, <1>4 DEF Local

\* A grant begins a session that only the granting task knows; it carries the answer.
LEMMA AcquireCompletes ==
  ASSUME CompletionInv, TypeOK', NEW t \in Task, AcquireLocked(t)
  PROVE  CompletionInv'
<1>k. /\ TaskKnows(session, pc[t], loc[t]) /\ TypeOK /\ pc[t] = "acquire" /\ UNCHANGED txq
      /\ session \in SessionType /\ loc[t] \in Local
      /\ session.session_id \in Nat /\ session.transition_id \in Nat
      /\ session.session_id <= session.transition_id
      /\ loc[t].session_id \in Nat /\ loc[t].failed \in Nat /\ loc[t].previous \in Nat
  BY TaskHasKnowledge DEF CompletionInv, AcquireLocked
<1>i. /\ loc[t].session_id <= session.transition_id /\ loc[t].failed <= session.transition_id
      /\ loc[t].previous <= session.transition_id
  BY <1>k DEF TaskKnows
<1>1. CASE session.state = "FREE"
  <2>1. /\ session' = Granted(loc[t].ref, loc[t].nonce)
        /\ loc' = [loc EXCEPT ![t].snapshot = TakeSnapshot(session'), ![t].acquired = TRUE]
        /\ Goto(t, "recheck")
    BY <1>1 DEF AcquireLocked
  <2>2. /\ session'.transition_id = session.transition_id + 1
        /\ session'.session_id = session.transition_id + 1
        /\ session'.state = "OWNED" /\ session'.owner_link = loc[t].ref
    BY <1>k, <2>1 DEF Granted, SessionType
  <2>3. loc'[t] = [loc[t] EXCEPT !.snapshot = TakeSnapshot(session'), !.acquired = TRUE]
    BY <1>k, <2>1 DEF TypeOK
  <2>4. /\ loc'[t].snapshot = TakeSnapshot(session') /\ loc'[t].ref = loc[t].ref
        /\ loc'[t].session_id = loc[t].session_id /\ loc'[t].failed = loc[t].failed
        /\ loc'[t].previous = loc[t].previous
    BY <1>k, <2>3 DEF Local
  <2>5. pc'[t] = "recheck" /\ OthersKept(t)
    BY <1>k, <2>1 DEF Goto, OthersKept, TypeOK
  <2>6. loc'[t].snapshot.session_id = session'.session_id
    BY <2>4 DEF TakeSnapshot
  <2>7. TaskKnows(session', pc'[t], loc'[t])
    BY <1>k, <1>i, <2>2, <2>4, <2>5, <2>6 DEF TaskKnows, ApplyPc, OwnedBy
  <2>8. Moves(session, session')
    BY <1>k, <2>2 DEF Moves
  <2>9. KnowledgeInv'
    BY <1>k, <2>5, <2>7, <2>8, KnowledgeStep DEF CompletionInv
  <2>10. IdsInv'
    BY <1>k, <2>2 DEF IdsInv, TaskKnows
  <2>11. CompletionOutstanding'
    <3>1. HelloCarried(t)'
      BY <2>5, <2>6 DEF HelloCarried
    <3> QED
      BY <2>2, <3>1 DEF CompletionOutstanding
  <2> QED
    BY <2>9, <2>10, <2>11 DEF CompletionInv
<1>2. CASE /\ session.owner_link = loc[t].ref \/ pc'[t] = "busy"
           /\ loc' = [loc EXCEPT ![t].snapshot = TakeSnapshot(session)]
           /\ Goto(t, "recheck") \/ Goto(t, "busy")
           /\ UNCHANGED session
  <2>1. /\ loc'[t].snapshot.session_id = session.session_id /\ OthersKept(t)
        /\ loc'[t].ref = loc[t].ref /\ loc'[t].session_id = loc[t].session_id
        /\ loc'[t].previous = loc[t].previous /\ loc'[t].failed = loc[t].failed
        /\ pc'[t] \in {"recheck", "busy"}
    BY <1>k, <1>2, SnapshotShape DEF OthersKept, Goto, TypeOK
  <2>2. TaskKnows(session, pc'[t], loc'[t])
    BY <1>k, <1>i, <1>2, <2>1 DEF TaskKnows, ApplyPc, OwnedBy
  <2> QED
    BY <1>k, <1>2, <2>1, <2>2, FreeStep DEF FreePc
<1>3. Goto(t, "busy") => pc'[t] = "busy"
  BY <1>k DEF Goto, TypeOK
<1> QED
  BY <1>1, <1>2, <1>3 DEF AcquireLocked

\* The hello's second check of the link, and its answer.
LEMMA RecheckCompletes ==
  ASSUME CompletionInv, TypeOK', NEW t \in Task, AcquireRecheck(t)
  PROVE  CompletionInv'
<1>k. /\ TaskKnows(session, pc[t], loc[t]) /\ TypeOK /\ pc[t] = "recheck" /\ UNCHANGED <<session, txq>>
      /\ session \in SessionType /\ loc[t] \in Local /\ session.transition_id \in Nat
      /\ session.state = "FREE" <=> session.session_id = 0
  BY TaskHasKnowledge DEF CompletionInv, IdsInv, AcquireRecheck
<1>o. OwnedBy(session, loc[t].ref, loc[t].snapshot.session_id)
  BY <1>k DEF TaskKnows
<1>q. FramesKept("RELEASE") /\ FramesKept("HELLO") /\ ~Clearing(t) /\ ~ReleaseCarried(t)
  BY <1>k DEF FramesKept, Clearing, ReleaseCarried
<1>1. CASE Clear(t, loc[t].ref, 0, FALSE, "idle", 0)
  <2>1. /\ OthersKept(t) /\ pc'[t] = "clear"
        /\ loc'[t] = ClearLocal(loc[t].ref, 0, FALSE, "idle", 0)
    BY <1>k, <1>1 DEF Clear, ClearLocal, OthersKept, TypeOK
  <2>2. TaskKnows(session, "clear", loc'[t])
    <3>1. FALSE \in BOOLEAN /\ 0 \in Nat /\ 0 <= session.transition_id /\ "idle" # "cancel"
          /\ OwnedBy(session, loc[t].ref, 0)
      BY <1>k DEF OwnedBy
    <3> QED
      BY <1>k, <2>1, <3>1, ClearKnows, Zenon
  <2>3. loc'[t].ref = loc[t].ref /\ loc'[t].session_id = 0
    BY <2>1 DEF ClearLocal, NoLocal
  <2>4. session.state # "FREE" /\ HelloCarried(t) => Clearing(t)'
    BY <1>k, <1>o, <2>1, <2>3 DEF HelloCarried, Clearing, OwnedBy
  <2> QED
    BY <1>k, <1>q, <2>1, <2>2, <2>4, CallStep
<1>2. CASE loc[t].acquired /\ Goto(t, "apply") /\ loc' = [loc EXCEPT ![t].after = "respond"]
  <2>1. OthersKept(t) /\ pc'[t] = "apply" /\ loc'[t] = [loc[t] EXCEPT !.after = "respond"]
    BY <1>k, <1>2 DEF Goto, OthersKept, TypeOK
  <2>2. /\ loc'[t].after = "respond" /\ loc'[t].ref = loc[t].ref
        /\ loc'[t].snapshot = loc[t].snapshot /\ loc'[t].session_id = loc[t].session_id
        /\ loc'[t].previous = loc[t].previous /\ loc'[t].failed = loc[t].failed
    BY <1>k, <2>1 DEF Local
  <2>3. TaskKnows(session, pc'[t], loc'[t])
    BY <1>k, <2>1, <2>2 DEF TaskKnows, ApplyPc
  <2>4. HelloCarried(t) => HelloCarried(t)'
    BY <1>k, <2>1, <2>2 DEF HelloCarried
  <2> QED
    BY <1>k, <1>q, <2>1, <2>3, <2>4, CallStep
<1>3. CASE Goto(t, "respond") /\ UNCHANGED loc
  <2>1. OthersKept(t) /\ pc'[t] = "respond" /\ loc'[t] = loc[t]
    BY <1>k, <1>3, GotoShape
  <2>2. TaskKnows(session, pc'[t], loc'[t])
    BY <1>k, <2>1 DEF TaskKnows, ApplyPc
  <2>3. HelloCarried(t) => HelloCarried(t)'
    BY <1>k, <2>1 DEF HelloCarried
  <2> QED
    BY <1>k, <1>q, <2>1, <2>2, <2>3, CallStep
<1> QED
  BY <1>1, <1>2, <1>3 DEF AcquireRecheck

\* A queued response takes a free slot and disturbs no other.
LEMMA EnqueueShape ==
  ASSUME TypeOK, NEW f \in Frame, Enqueue(f)
  PROVE  /\ \A l \in Link, i \in Slot :
              \/ txq'[l][i] = txq[l][i]
              \/ txq[l][i] = NoFrame /\ txq'[l][i] = f
         /\ f.link.link \in Link => \E i \in Slot : txq'[f.link.link][i] = f
<1>1. PICK i \in Slot : /\ txq[f.link.link][i] = NoFrame
                        /\ txq' = [txq EXCEPT ![f.link.link][i] = f]
  BY DEF Enqueue
<1>2. \A l \in Link : txq[l] \in [Slot -> Frame \cup {NoFrame}]
  BY DEF TypeOK
<1> QED
  BY <1>1, <1>2 DEF TypeOK

LEMMA EnqueueKeeps ==
  ASSUME TypeOK, NEW f \in Frame, Enqueue(f), FrameKnows(session, f)
  PROVE  /\ FramesKept("RELEASE") /\ FramesKept("HELLO")
         /\ \A l \in Link, i \in Slot :
              txq'[l][i] \in {txq[l][i], NoFrame} \/ FrameKnows(session, txq'[l][i])
<1>1. NoFrame.kind = "NONE"
  BY DEF NoFrame
<1> QED
  BY <1>1, EnqueueShape DEF FramesKept

\* A response of the present session, once queued, is awaited.
LEMMA EnqueueQueued ==
  ASSUME TypeOK, NEW kind \in {"HELLO", "RELEASE"}, NEW r \in Ref, NEW sid \in Nat,
         Enqueue(Response(kind, r, sid)), UNCHANGED session,
         sid = session.session_id, r = session.owner_link
  PROVE  Queued(kind)'
<1> DEFINE f == Response(kind, r, sid)
<1>1. f \in Frame /\ f.link = r /\ f.kind = kind /\ f.session_id = sid /\ r.link \in Link
  BY DEF Frame, Response, Ref, RefOrNone
<1>2. Enqueue(f)
  OBVIOUS
<1>3. f = [kind |-> kind, link |-> r, session_id |-> sid]
  BY DEF Response
<1> HIDE DEF f
<1>4. PICK i \in Slot : txq'[r.link][i] = f
  BY <1>1, <1>2, EnqueueShape
<1> QED
  BY <1>1, <1>3, <1>4 DEF Queued

\* The answer to a hello is queued, or its session is given up.
LEMMA HelloCompletes ==
  ASSUME CompletionInv, TypeOK', NEW t \in Task, HelloRespond(t)
  PROVE  CompletionInv'
<1> DEFINE r == loc[t].ref
           sid == loc[t].snapshot.session_id
<1>k. /\ TaskKnows(session, pc[t], loc[t]) /\ TypeOK /\ pc[t] = "respond" /\ UNCHANGED session
      /\ session \in SessionType /\ loc[t] \in Local /\ session.transition_id \in Nat
      /\ sid \in Nat /\ r \in RefOrNone
      /\ session.state = "FREE" <=> session.session_id = 0
  BY TaskHasKnowledge DEF CompletionInv, IdsInv, HelloRespond, Local
<1>o. OwnedBy(session, r, sid) /\ sid <= session.transition_id
  BY <1>k DEF TaskKnows
<1>c. ~Clearing(t) /\ ~ReleaseCarried(t)
  BY <1>k DEF Clearing, ReleaseCarried
<1>1. CASE Enqueue(Response("HELLO", r, sid)) /\ Idle(t)
  <2>1. OthersKept(t) /\ pc'[t] = "idle" /\ loc'[t] = NoLocal
    BY <1>k, <1>1, IdleShape
  <2>2. TaskKnows(session, pc'[t], loc'[t])
    BY <1>k, <2>1, IdleKnows
  <2>3. Response("HELLO", r, sid) \in Frame /\ FrameKnows(session, Response("HELLO", r, sid))
    BY <1>k, <1>o DEF Frame, Response, FrameKnows
  <2>4. /\ FramesKept("RELEASE") /\ FramesKept("HELLO")
        /\ \A l \in Link, i \in Slot :
             txq'[l][i] \in {txq[l][i], NoFrame} \/ FrameKnows(session, txq'[l][i])
    BY <1>k, <1>1, <2>3, EnqueueKeeps
  <2>5. ASSUME session.state # "FREE", HelloCarried(t) PROVE Queued("HELLO")'
    <3>1. sid = session.session_id /\ r = session.owner_link /\ r \in Ref
      BY <1>k, <1>o, <2>5 DEF HelloCarried, OwnedBy, CompletionInv, IdsInv, HasOwner
    <3> QED
      BY <1>k, <1>1, <3>1, EnqueueQueued
  <2> QED
    BY <1>k, <1>c, <2>1, <2>2, <2>4, <2>5, CallStep
<1>2. CASE Clear(t, r, sid, FALSE, "idle", 0) /\ UNCHANGED txq
  <2>1. /\ OthersKept(t) /\ pc'[t] = "clear"
        /\ loc'[t] = ClearLocal(r, sid, FALSE, "idle", 0)
    BY <1>k, <1>2 DEF Clear, ClearLocal, OthersKept, TypeOK
  <2>2. TaskKnows(session, "clear", loc'[t])
    <3>1. FALSE \in BOOLEAN /\ 0 \in Nat /\ 0 <= session.transition_id /\ "idle" # "cancel"
          /\ OwnedBy(session, r, 0)
      BY <1>k DEF OwnedBy
    <3> QED
      BY <1>k, <1>o, <2>1, <3>1, ClearKnows, Zenon
  <2>3. loc'[t].ref = r /\ loc'[t].session_id = sid
    BY <2>1 DEF ClearLocal, NoLocal
  <2>4. session.state # "FREE" /\ HelloCarried(t) => Clearing(t)'
    BY <1>k, <1>o, <2>1, <2>3 DEF HelloCarried, Clearing, OwnedBy
  <2>5. FramesKept("RELEASE") /\ FramesKept("HELLO")
    BY <1>2 DEF FramesKept
  <2> QED
    BY <1>k, <1>c, <1>2, <2>1, <2>2, <2>4, <2>5, CallStep
<1> QED
  BY <1>1, <1>2 DEF HelloRespond

\* BUSY is an answer that nobody waits for.
LEMMA BusyCompletes ==
  ASSUME CompletionInv, TypeOK', NEW t \in Task, BusyRespond(t)
  PROVE  CompletionInv'
<1>k. /\ TaskKnows(session, pc[t], loc[t]) /\ TypeOK /\ pc[t] = "busy" /\ UNCHANGED session
      /\ session \in SessionType /\ loc[t] \in Local /\ session.transition_id \in Nat
      /\ loc[t].ref \in RefOrNone
  BY TaskHasKnowledge DEF CompletionInv, BusyRespond, Local
<1>c. ~Clearing(t) /\ ~ReleaseCarried(t) /\ ~HelloCarried(t)
  BY <1>k DEF Clearing, ReleaseCarried, HelloCarried
<1>1. CASE Idle(t) /\ UNCHANGED txq
  BY <1>k, <1>1, IdleShape, IdleKnows, FreeStep DEF FreePc
<1>2. CASE Goto(t, "close") /\ UNCHANGED <<loc, txq>>
  <2>1. OthersKept(t) /\ pc'[t] = "close" /\ loc'[t] = loc[t]
    BY <1>k, <1>2, GotoShape
  <2>2. TaskKnows(session, "close", loc[t])
    BY <1>k DEF TaskKnows, ApplyPc
  <2> QED
    BY <1>k, <1>2, <2>1, <2>2, FreeStep DEF FreePc
<1>3. CASE Enqueue(Response("CLOSE", loc[t].ref, 0)) /\ Idle(t)
  <2>1. /\ Response("CLOSE", loc[t].ref, 0) \in Frame
        /\ FrameKnows(session, Response("CLOSE", loc[t].ref, 0))
    BY <1>k DEF Frame, Response, FrameKnows, OwnedBy
  <2>2. /\ FramesKept("RELEASE") /\ FramesKept("HELLO")
        /\ \A l \in Link, i \in Slot :
             txq'[l][i] \in {txq[l][i], NoFrame} \/ FrameKnows(session, txq'[l][i])
    BY <1>k, <1>3, <2>1, EnqueueKeeps
  <2>3. OthersKept(t) /\ pc'[t] = "idle" /\ loc'[t] = NoLocal
    BY <1>k, <1>3, IdleShape
  <2>4. TaskKnows(session, pc'[t], loc'[t])
    BY <1>k, <2>3, IdleKnows
  <2> QED
    BY <1>k, <1>c, <2>2, <2>3, <2>4, CallStep
<1> QED
  BY <1>1, <1>2, <1>3 DEF BusyRespond

\* A release takes the session out of OWNED and carries its answer.
LEMMA PrepareCompletes ==
  ASSUME CompletionInv, TypeOK', NEW t \in Task, ReleasePrepare(t)
  PROVE  CompletionInv'
<1>k. /\ TaskKnows(session, pc[t], loc[t]) /\ TypeOK /\ pc[t] = "release" /\ UNCHANGED txq
      /\ session \in SessionType /\ session.transition_id \in Nat
      /\ session.session_id <= session.transition_id /\ session.session_id \in Nat
      /\ IdsInv
  BY TaskHasKnowledge DEF CompletionInv, ReleasePrepare
<1>1. CASE Idle(t) /\ UNCHANGED session
  BY <1>k, <1>1, IdleShape, IdleKnows, FreeStep DEF FreePc
<1>2. CASE /\ session.state = "OWNED" /\ session.owner_link = loc[t].ref
           /\ session.session_id = loc[t].session_id
           /\ session' = [session EXCEPT !.state = "RELEASING", !.input_generation = @ + 1]
           /\ Goto(t, "releaseRespond") /\ UNCHANGED loc
  <2>1. OthersKept(t) /\ pc'[t] = "releaseRespond" /\ loc'[t] = loc[t]
    BY <1>k, <1>2, GotoShape
  <2>2. /\ session'.state = "RELEASING" /\ session'.owner_link = session.owner_link
        /\ session'.session_id = session.session_id
        /\ session'.transition_id = session.transition_id
    BY <1>k, <1>2 DEF SessionType
  <2>3. Moves(session, session')
    BY <1>k, <2>2 DEF Moves
  <2>4. TaskKnows(session', pc'[t], loc'[t])
    BY <1>k, <1>2, <2>1, <2>2 DEF TaskKnows, ApplyPc, OwnedBy, Releasing
  <2>5. KnowledgeInv'
    BY <1>k, <2>1, <2>3, <2>4, KnowledgeStep DEF CompletionInv
  <2>6. IdsInv'
    BY <1>k, <1>2, <2>2 DEF IdsInv, HasOwner
  <2>7. CompletionOutstanding'
    <3>1. ReleaseCarried(t)'
      BY <1>2, <2>1, <2>2 DEF ReleaseCarried
    <3> QED
      BY <2>2, <3>1 DEF CompletionOutstanding
  <2> QED
    BY <2>5, <2>6, <2>7 DEF CompletionInv
<1> QED
  BY <1>1, <1>2 DEF ReleasePrepare

\* The answer to a release is queued, or the release is finished at once.
LEMMA ReleaseCompletes ==
  ASSUME CompletionInv, TypeOK', NEW t \in Task, ReleaseRespond(t)
  PROVE  CompletionInv'
<1> DEFINE r == loc[t].ref
           sid == loc[t].session_id
<1>k. /\ TaskKnows(session, pc[t], loc[t]) /\ TypeOK /\ pc[t] = "releaseRespond"
      /\ UNCHANGED session
      /\ session \in SessionType /\ loc[t] \in Local /\ session.transition_id \in Nat
      /\ sid \in Nat /\ r \in RefOrNone /\ IdsInv
  BY TaskHasKnowledge DEF CompletionInv, ReleaseRespond, Local
<1>o. OwnedBy(session, r, sid) /\ sid <= session.transition_id /\ Releasing(session, sid)
  BY <1>k DEF TaskKnows
<1>c. ~Clearing(t) /\ ~HelloCarried(t)
  BY <1>k DEF Clearing, HelloCarried
<1>1. CASE Enqueue(Response("RELEASE", r, sid)) /\ Idle(t)
  <2>1. OthersKept(t) /\ pc'[t] = "idle" /\ loc'[t] = NoLocal
    BY <1>k, <1>1, IdleShape
  <2>2. TaskKnows(session, pc'[t], loc'[t])
    BY <1>k, <2>1, IdleKnows
  <2>3. Response("RELEASE", r, sid) \in Frame /\ FrameKnows(session, Response("RELEASE", r, sid))
    BY <1>k, <1>o DEF Frame, Response, FrameKnows
  <2>4. /\ FramesKept("RELEASE") /\ FramesKept("HELLO")
        /\ \A l \in Link, i \in Slot :
             txq'[l][i] \in {txq[l][i], NoFrame} \/ FrameKnows(session, txq'[l][i])
    BY <1>k, <1>1, <2>3, EnqueueKeeps
  <2>5. ASSUME session.state # "FREE", ReleaseCarried(t) PROVE Queued("RELEASE")'
    <3>1. sid = session.session_id /\ r = session.owner_link /\ r \in Ref
      BY <1>k, <1>o, <2>5 DEF ReleaseCarried, OwnedBy, IdsInv, HasOwner
    <3> QED
      BY <1>k, <1>1, <3>1, EnqueueQueued
  <2> QED
    BY <1>k, <1>c, <2>1, <2>2, <2>4, <2>5, CallStep
<1>2. CASE Clear(t, r, sid, TRUE, "idle", 0) /\ UNCHANGED txq
  <2>1. /\ OthersKept(t) /\ pc'[t] = "clear"
        /\ loc'[t] = ClearLocal(r, sid, TRUE, "idle", 0)
    BY <1>k, <1>2 DEF Clear, ClearLocal, OthersKept, TypeOK
  <2>2. TaskKnows(session, "clear", loc'[t])
    <3>1. TRUE \in BOOLEAN /\ 0 \in Nat /\ 0 <= session.transition_id /\ "idle" # "cancel"
          /\ OwnedBy(session, r, 0)
      BY <1>k DEF OwnedBy
    <3> QED
      BY <1>k, <1>o, <2>1, <3>1, ClearKnows, Zenon
  <2>3. loc'[t].ref = r /\ loc'[t].session_id = sid
    BY <2>1 DEF ClearLocal, NoLocal
  <2>4. session.state # "FREE" /\ ReleaseCarried(t) => Clearing(t)'
    BY <1>k, <1>o, <2>1, <2>3 DEF ReleaseCarried, Clearing, OwnedBy, IdsInv
  <2>5. FramesKept("RELEASE") /\ FramesKept("HELLO")
    BY <1>2 DEF FramesKept
  <2> QED
    BY <1>k, <1>c, <1>2, <2>1, <2>2, <2>4, <2>5, CallStep
<1> QED
  BY <1>1, <1>2 DEF ReleaseRespond

\* The session ends: nothing is awaited any more.
LEMMA EndCompletes ==
  ASSUME CompletionInv, TypeOK', NEW t \in Task, pc[t] \in {"idle", "clear"},
         ClearOwnerEffect(t), UNCHANGED txq, session.state # "FREE"
  PROVE  CompletionInv'
<1>k. /\ TaskKnows(session, pc[t], loc[t]) /\ TypeOK
      /\ session \in SessionType /\ loc[t] \in Local
      /\ session.session_id \in Nat /\ session.transition_id \in Nat
      /\ session.session_id <= session.transition_id /\ IdsInv
      /\ loc[t].session_id \in Nat /\ loc[t].failed \in Nat
  BY TaskHasKnowledge DEF CompletionInv
<1>1. /\ session'.transition_id = session.transition_id + 1
      /\ session'.state = "FREE" /\ session'.session_id = 0
  BY <1>k DEF ClearOwnerEffect, Cleared, SessionType
<1>2. /\ pc'[t] = "apply" /\ OthersKept(t)
      /\ loc'[t].snapshot = TakeSnapshot(Cleared(session)) /\ loc'[t].after = "notify"
      /\ loc'[t].previous = session.session_id /\ loc'[t].session_id = loc[t].session_id
      /\ loc'[t].failed = loc[t].failed
  <2>1. loc' = [loc EXCEPT ![t].snapshot = TakeSnapshot(Cleared(session)),
                           ![t].previous = session.session_id, ![t].after = "notify"]
    BY DEF ClearOwnerEffect
  <2>2. pc'[t] = "apply" /\ OthersKept(t)
    BY <1>k, <2>1 DEF ClearOwnerEffect, OthersKept, TypeOK
  <2>3. loc'[t] = [loc[t] EXCEPT !.snapshot = TakeSnapshot(Cleared(session)),
                                 !.previous = session.session_id, !.after = "notify"]
    BY <1>k, <2>1 DEF TypeOK
  <2> QED
    BY <1>k, <2>2, <2>3 DEF Local
<1>3. loc'[t].snapshot.session_id = 0
  BY <1>1, <1>2 DEF TakeSnapshot, ClearOwnerEffect
<1>4. Moves(session, session')
  BY <1>k, <1>1 DEF Moves
<1>5. TaskKnows(session', pc'[t], loc'[t])
  BY <1>k, <1>1, <1>2, <1>3 DEF TaskKnows, ApplyPc, OwnedBy, Over
<1>6. KnowledgeInv'
  BY <1>k, <1>2, <1>4, <1>5, KnowledgeStep DEF CompletionInv
<1>7. IdsInv' /\ CompletionOutstanding'
  BY <1>k, <1>1 DEF IdsInv, HasOwner, CompletionOutstanding
<1> QED
  BY <1>6, <1>7 DEF CompletionInv

\* A task that comes to take the present session away may do so.
LEMMA MayClearPresent ==
  ASSUME CompletionInv, NEW t \in Task, Clearing(t), session.state # "FREE"
  PROVE  MayClear(loc[t].ref, loc[t].session_id, loc[t].require_releasing)
<1>1. loc[t].require_releasing => Releasing(session, loc[t].session_id)
  BY TaskHasKnowledge DEF TaskKnows, Clearing
<1>2. loc[t].require_releasing => session.state = "RELEASING"
  BY <1>1 DEF Releasing, Clearing
<1> QED
  BY <1>2, Zenon DEF MayClear, Clearing

LEMMA ClearCompletes ==
  ASSUME CompletionInv, TypeOK', NEW t \in Task, ClearOwner(t)
  PROVE  CompletionInv'
<1>k. /\ TaskKnows(session, pc[t], loc[t]) /\ TypeOK /\ pc[t] = "clear" /\ UNCHANGED txq
      /\ session \in SessionType /\ loc[t] \in Local /\ IdsInv
  BY TaskHasKnowledge DEF CompletionInv, ClearOwner
<1>1. CASE MayClear(loc[t].ref, loc[t].session_id, loc[t].require_releasing) /\ ClearOwnerEffect(t)
  BY <1>k, <1>1, EndCompletes DEF MayClear
<1>2. CASE /\ ~MayClear(loc[t].ref, loc[t].session_id, loc[t].require_releasing)
           /\ Return(t) /\ UNCHANGED session
  <2>1. OthersKept(t)
    BY <1>k, <1>2, ReturnShape
  <2>2. loc[t].next = "cancel" => Over(session, loc[t].failed)
    <3> SUFFICES ASSUME loc[t].next = "cancel" PROVE Over(session, loc[t].failed)
      OBVIOUS
    <3>1. /\ loc[t].session_id = 0 /\ ~loc[t].require_releasing
          /\ OwnedBy(session, loc[t].ref, loc[t].failed)
      BY <1>k DEF TaskKnows
    <3>2. session.state = "FREE" \/ session.owner_link # loc[t].ref
      BY <1>2, <3>1, Zenon DEF MayClear
    <3> QED
      BY <1>k, <3>1, <3>2 DEF OwnedBy, Over, IdsInv
  <2>3. TaskKnows(session, pc'[t], loc'[t])
    BY <1>k, <1>2, <2>2, ReturnKnows DEF TaskKnows
  <2>4. ~Clearing(t) \/ session.state = "FREE"
    BY <1>2, MayClearPresent
  <2>5. ~ReleaseCarried(t) /\ ~HelloCarried(t) /\ FramesKept("RELEASE") /\ FramesKept("HELLO")
    BY <1>k DEF ReleaseCarried, HelloCarried, FramesKept
  <2> QED
    BY <1>k, <1>2, <2>1, <2>3, <2>4, <2>5, CallStep
<1> QED
  BY <1>1, <1>2 DEF ClearOwner

\* apply_route hands the hello's answer on to the task that responds.
LEMMA AfterApplyCompletes ==
  ASSUME CompletionInv, TypeOK', NEW t \in Task, NEW applied \in BOOLEAN, AfterApply(t, applied),
         pc[t] \in ApplyPc, UNCHANGED <<session, txq>>
  PROVE  CompletionInv'
<1>k. /\ TaskKnows(session, pc[t], loc[t]) /\ TypeOK
      /\ session \in SessionType /\ loc[t] \in Local
  BY TaskHasKnowledge DEF CompletionInv
<1>c. ~Clearing(t) /\ ~ReleaseCarried(t) /\ FramesKept("RELEASE") /\ FramesKept("HELLO")
  BY DEF Clearing, ReleaseCarried, FramesKept, ApplyPc
<1>1. CASE loc[t].after = "respond"
  <2>1. OthersKept(t) /\ pc'[t] = "respond" /\ loc'[t] = loc[t]
    BY <1>k, <1>1, GotoShape DEF AfterApply
  <2>2. TaskKnows(session, pc'[t], loc'[t])
    BY <1>k, <1>1, <2>1 DEF TaskKnows, ApplyPc
  <2>3. HelloCarried(t) => HelloCarried(t)'
    BY <1>1, <2>1 DEF HelloCarried, ApplyPc
  <2> QED
    BY <1>c, <2>1, <2>2, <2>3, CallStep
<1>2. CASE loc[t].after = "notify"
  <2>1. ~HelloCarried(t)
    BY <1>2 DEF HelloCarried, ApplyPc
  <2>2. CASE Goto(t, "notify") /\ UNCHANGED loc
    <3>1. OthersKept(t) /\ pc'[t] = "notify" /\ loc'[t] = loc[t]
      BY <1>k, <2>2, GotoShape
    <3>2. TaskKnows(session, pc'[t], loc'[t])
      BY <1>k, <1>2, <3>1 DEF TaskKnows, ApplyPc
    <3> QED
      BY <1>c, <2>1, <3>1, <3>2, CallStep
  <2>3. CASE Return(t)
    <3>1. OthersKept(t)
      BY <1>k, <2>3, ReturnShape
    <3>2. TaskKnows(session, pc'[t], loc'[t])
      BY <1>k, <1>2, <2>3, ReturnKnows DEF TaskKnows, ApplyPc
    <3> QED
      BY <1>c, <2>1, <3>1, <3>2, CallStep
  <2> QED
    BY <1>2, <2>2, <2>3 DEF AfterApply
<1> QED
  BY <1>k, <1>1, <1>2 DEF Local

\* Inside apply_route the task keeps what it carries.
LEMMA ForwardCompletes ==
  ASSUME CompletionInv, TypeOK', NEW t \in Task, NEW p \in ApplyPc, Goto(t, p),
         pc[t] \in ApplyPc, UNCHANGED <<session, txq, loc>>
  PROVE  CompletionInv'
<1>k. TaskKnows(session, pc[t], loc[t]) /\ TypeOK
  BY TaskHasKnowledge DEF CompletionInv
<1>1. OthersKept(t) /\ pc'[t] = p /\ loc'[t] = loc[t]
  BY <1>k, GotoShape
<1>2. TaskKnows(session, pc'[t], loc'[t])
  BY <1>k, <1>1 DEF TaskKnows, ApplyPc
<1>3. HelloCarried(t) => HelloCarried(t)'
  BY <1>1 DEF HelloCarried, ApplyPc
<1>4. ~Clearing(t) /\ ~ReleaseCarried(t) /\ FramesKept("RELEASE") /\ FramesKept("HELLO")
  BY DEF Clearing, ReleaseCarried, FramesKept, ApplyPc
<1> QED
  BY <1>1, <1>2, <1>3, <1>4, CallStep

LEMMA RouteCompletes ==
  ASSUME CompletionInv, TypeOK', NEW t \in Task,
         ApplyRoute(t) \/ SetTransportOwner(t) \/ ChannelCheck(t) \/ ChannelSet(t)
  PROVE  CompletionInv'
<1>0. {"setTransport", "channelCheck", "channelSet"} \subseteq ApplyPc
      /\ TRUE \in BOOLEAN /\ FALSE \in BOOLEAN
  BY DEF ApplyPc
<1>1. CASE ApplyRoute(t)
  <2>1. CASE Goto(t, "setTransport") /\ UNCHANGED loc
    BY <1>0, <1>1, <2>1, ForwardCompletes DEF ApplyRoute, ApplyPc
  <2>2. CASE AfterApply(t, FALSE)
    <3>1. pc[t] \in ApplyPc /\ UNCHANGED <<session, txq>>
      BY <1>1 DEF ApplyRoute, ApplyPc
    <3> QED
      BY <1>0, <2>2, <3>1, AfterApplyCompletes, Zenon
  <2> QED
    BY <1>1, <2>1, <2>2 DEF ApplyRoute
<1>2. CASE SetTransportOwner(t)
  BY <1>0, <1>2, ForwardCompletes DEF SetTransportOwner, ApplyPc
<1>3. CASE ChannelCheck(t)
  <2>1. CASE Goto(t, "channelSet") /\ UNCHANGED loc
    BY <1>0, <1>3, <2>1, ForwardCompletes DEF ChannelCheck, ApplyPc
  <2>2. CASE AfterApply(t, TRUE)
    <3>1. pc[t] \in ApplyPc /\ UNCHANGED <<session, txq>>
      BY <1>3 DEF ChannelCheck, ApplyPc
    <3> QED
      BY <1>0, <2>2, <3>1, AfterApplyCompletes, Zenon
  <2> QED
    BY <1>3, <2>1, <2>2 DEF ChannelCheck
<1>4. CASE ChannelSet(t)
  <2>1. pc[t] \in ApplyPc /\ UNCHANGED <<session, txq>> /\ AfterApply(t, TRUE)
    BY <1>4 DEF ChannelSet, ApplyPc
  <2> QED
    BY <1>0, <2>1, AfterApplyCompletes, Zenon
<1> QED
  BY <1>1, <1>2, <1>3, <1>4

\* Cancelling the frames of a session that is over leaves those of the present one.
LEMMA CancelKeeps ==
  ASSUME TypeOK, NEW q \in [Link -> [Slot -> Frame \cup {NoFrame}]], NEW sid,
         CancelSession(q, sid)
  PROVE  \A l \in Link, i \in Slot :
           \/ txq'[l][i] = q[l][i]
           \/ txq'[l][i] = NoFrame /\ sid # 0 /\ q[l][i].session_id = sid
<1>1. CASE txq' = q
  BY <1>1
<1>2. ASSUME NEW started \in 0..QueueFrames, txq' = WithoutSession(q, sid, started)
      PROVE  \A l \in Link, i \in Slot :
               \/ txq'[l][i] = q[l][i]
               \/ txq'[l][i] = NoFrame /\ sid # 0 /\ q[l][i].session_id = sid
  BY <1>2 DEF WithoutSession
<1> QED
  BY <1>1, <1>2 DEF CancelSession

LEMMA CancelCompletes ==
  ASSUME CompletionInv, TypeOK', NEW t \in Task, Callback(t) \/ FailCancel(t)
  PROVE  CompletionInv'
<1>k. /\ TaskKnows(session, pc[t], loc[t]) /\ TypeOK /\ UNCHANGED session
      /\ pc[t] \in {"callback", "cancel"}
      /\ session \in SessionType /\ loc[t] \in Local
      /\ txq \in [Link -> [Slot -> Frame \cup {NoFrame}]]
  BY TaskHasKnowledge DEF CompletionInv, Callback, FailCancel, TypeOK
<1>1. PICK sid \in Nat : Over(session, sid) /\ CancelSession(txq, sid)
  <2>1. CASE Callback(t)
    BY <1>k, <2>1, TaskHasKnowledge DEF Callback, TaskKnows
  <2>2. CASE FailCancel(t)
    BY <1>k, <2>2, TaskHasKnowledge DEF FailCancel, TaskKnows
  <2> QED
    BY <2>1, <2>2
<1>2. /\ FramesKept("RELEASE") /\ FramesKept("HELLO")
      /\ \A l \in Link, i \in Slot : txq'[l][i] \in {txq[l][i], NoFrame}
  BY <1>k, <1>1, CancelKeeps DEF FramesKept, Over
<1>3. OthersKept(t) /\ TaskKnows(session, pc'[t], loc'[t])
  <2>1. CASE Callback(t)
    <3>1. Return(t)
      BY <2>1 DEF Callback
    <3> QED
      BY <1>k, <2>1, <3>1, ReturnShape, ReturnKnows DEF TaskKnows, Callback
  <2>2. CASE Idle(t)
    BY <1>k, <2>2, IdleShape, IdleKnows
  <2>3. CASE Goto(t, "close") /\ UNCHANGED loc
    <3>1. OthersKept(t) /\ pc'[t] = "close" /\ loc'[t] = loc[t]
      BY <1>k, <2>3, GotoShape
    <3> QED
      BY <1>k, <3>1 DEF TaskKnows, ApplyPc
  <2> QED
    BY <2>1, <2>2, <2>3 DEF FailCancel
<1>4. ~Clearing(t) /\ ~ReleaseCarried(t) /\ ~HelloCarried(t)
  BY <1>k DEF Clearing, ReleaseCarried, HelloCarried
<1> QED
  BY <1>k, <1>2, <1>3, <1>4, CallStep

\* The hello's completion ends what its answer stood for.
LEMMA HelloDoneCompletes ==
  ASSUME CompletionInv, TypeOK', NEW t \in Task, HelloDone(t)
  PROVE  CompletionInv'
<1>k. /\ TaskKnows(session, pc[t], loc[t]) /\ TypeOK /\ pc[t] = "helloDone" /\ UNCHANGED txq
      /\ session \in SessionType /\ loc[t] \in Local /\ session.transition_id \in Nat
      /\ session.session_id <= session.transition_id /\ session.session_id \in Nat
      /\ IdsInv
  BY TaskHasKnowledge DEF CompletionInv, HelloDone
<1>o. /\ OwnedBy(session, loc[t].ref, loc[t].session_id)
      /\ loc[t].after = "notify" /\ loc[t].previous = 0 /\ loc[t].failed = 0
      /\ loc[t].session_id <= session.transition_id
  BY <1>k DEF TaskKnows
<1>1. CASE /\ session.state = "OWNED"
           /\ session' = [session EXCEPT !.handshake_complete = TRUE]
           /\ Goto(t, "apply")
           /\ loc' = [loc EXCEPT ![t].snapshot = TakeSnapshot(session')]
  <2>1. /\ session'.state = "OWNED" /\ session'.owner_link = session.owner_link
        /\ session'.session_id = session.session_id /\ session'.handshake_complete
        /\ session'.transition_id = session.transition_id
    BY <1>k, <1>1 DEF SessionType
  <2>2. /\ loc'[t].snapshot.session_id = session'.session_id /\ OthersKept(t)
        /\ loc'[t].ref = loc[t].ref /\ loc'[t].session_id = loc[t].session_id
        /\ loc'[t].previous = 0 /\ loc'[t].failed = 0 /\ loc'[t].after = "notify"
        /\ pc'[t] = "apply"
    <3>1. pc'[t] = "apply" /\ \A u \in Task \ {t} : pc'[u] = pc[u]
      BY <1>k, <1>1 DEF Goto, TypeOK
    <3>2. loc' = [loc EXCEPT ![t].snapshot = TakeSnapshot(session')]
      BY <1>1
    <3>3. /\ loc'[t].snapshot.session_id = session'.session_id
          /\ \A u \in Task \ {t} : loc'[u] = loc[u]
          /\ loc'[t].ref = loc[t].ref /\ loc'[t].session_id = loc[t].session_id
          /\ loc'[t].previous = loc[t].previous /\ loc'[t].failed = loc[t].failed
          /\ loc'[t].after = loc[t].after
      BY <1>k, <3>2, SnapshotShape
    <3> QED
      BY <1>o, <3>1, <3>3 DEF OthersKept
  <2>3. Moves(session, session')
    BY <1>k, <1>1, <2>1 DEF Moves
  <2>4. TaskKnows(session', pc'[t], loc'[t])
    BY <1>k, <1>o, <2>1, <2>2 DEF TaskKnows, ApplyPc, OwnedBy, Over
  <2>5. KnowledgeInv'
    BY <1>k, <2>2, <2>3, <2>4, KnowledgeStep DEF CompletionInv
  <2>6. IdsInv' /\ CompletionOutstanding'
    BY <1>k, <1>1, <2>1 DEF IdsInv, HasOwner, CompletionOutstanding
  <2> QED
    BY <2>5, <2>6 DEF CompletionInv
<1>2. CASE /\ ~(/\ session.state = "OWNED" /\ session.owner_link = loc[t].ref
                /\ session.session_id = loc[t].session_id /\ ~session.handshake_complete)
           /\ Idle(t) /\ UNCHANGED session
  <2>1. OthersKept(t) /\ pc'[t] = "idle" /\ loc'[t] = NoLocal
    BY <1>k, <1>2, IdleShape
  <2>2. TaskKnows(session, pc'[t], loc'[t])
    BY <1>k, <2>1, IdleKnows
  <2>3. ~(session.state = "OWNED" /\ ~session.handshake_complete /\ HelloCarried(t))
    BY <1>k, <1>o, <1>2 DEF HelloCarried, OwnedBy, IdsInv
  <2>4. ~Clearing(t) /\ ~ReleaseCarried(t) /\ FramesKept("RELEASE") /\ FramesKept("HELLO")
    BY <1>k DEF Clearing, ReleaseCarried, FramesKept
  <2> QED
    BY <1>k, <1>2, <2>1, <2>2, <2>3, <2>4, CallStep
<1> QED
  BY <1>1, <1>2 DEF HelloDone

\* A frame that leaves its slot hands its session on to the task of its completion.
LEMMA TxCompletes ==
  ASSUME CompletionInv, TypeOK', NEW l \in Link, NEW i \in Slot, NEW succeeded \in BOOLEAN,
         NEW next \in {"idle", "lost", "close"}, TxReady(l, i),
         TxComplete(l, i, succeeded, next), UNCHANGED session
  PROVE  CompletionInv'
<1> DEFINE f == txq[l][i]
           rest == [txq EXCEPT ![l][i] = NoFrame]
           r == f.link
           sid == f.session_id
<1>t. "tx" \in Task
  BY DEF Task
<1>k. /\ TaskKnows(session, pc["tx"], loc["tx"]) /\ TypeOK /\ pc["tx"] = "idle"
      /\ session \in SessionType /\ session.transition_id \in Nat
      /\ session.session_id \in Nat /\ IdsInv
      /\ txq \in [Link -> [Slot -> Frame \cup {NoFrame}]]
  BY <1>t, TaskHasKnowledge DEF CompletionInv, TxReady, TypeOK
<1>f. /\ f \in Frame /\ r \in RefOrNone /\ sid \in Nat
      /\ OwnedBy(session, r, sid) /\ sid <= session.transition_id
      /\ f.kind = "RELEASE" => Releasing(session, sid)
  <2>1. f \in Frame
    BY <1>k DEF TxReady
  <2>2. FrameKnows(session, f)
    BY DEF CompletionInv, KnowledgeInv
  <2> QED
    BY <2>1, <2>2 DEF Frame, FrameKnows
<1>c. ~Clearing("tx") /\ ~ReleaseCarried("tx") /\ ~HelloCarried("tx")
  BY <1>k DEF Clearing, ReleaseCarried, HelloCarried
<1>r. /\ rest \in [Link -> [Slot -> Frame \cup {NoFrame}]]
      /\ \A m \in Link, j \in Slot :
           rest[m][j] = IF m = l /\ j = i THEN NoFrame ELSE txq[m][j]
  BY <1>k
<1>n. next # "cancel" /\ TRUE \in BOOLEAN /\ FALSE \in BOOLEAN
  OBVIOUS
<1>1. CASE /\ f.kind = "HELLO" /\ Goto("tx", "helloDone") /\ txq' = rest
           /\ loc' = [loc EXCEPT !["tx"] = [NoLocal EXCEPT !.ref = r, !.session_id = sid]]
  <2>1. /\ OthersKept("tx") /\ pc'["tx"] = "helloDone"
        /\ loc'["tx"] = [NoLocal EXCEPT !.ref = r, !.session_id = sid]
    BY <1>k, <1>t, <1>1 DEF Goto, OthersKept, TypeOK
  <2> HIDE DEF f, rest, r, sid
  <2>2. /\ loc'["tx"].ref = r /\ loc'["tx"].session_id = sid /\ loc'["tx"].previous = 0
        /\ loc'["tx"].failed = 0 /\ loc'["tx"].after = "notify"
        /\ loc'["tx"].snapshot = NoSnapshot
    BY <2>1, Zenon DEF NoLocal
  <2>3. loc'["tx"].snapshot.session_id = 0
    BY <2>2 DEF NoSnapshot
  <2>4. TaskKnows(session, pc'["tx"], loc'["tx"])
    BY <1>k, <1>f, <2>1, <2>2, <2>3 DEF TaskKnows, ApplyPc
  <2>5. HelloCarried("tx")' \/ sid # session.session_id
    BY <1>1, <2>1, <2>2 DEF HelloCarried
  <2>6. FramesKept("RELEASE") /\ (FramesKept("HELLO") \/ HelloCarried("tx")')
    BY <1>1, <1>r, <2>5 DEF FramesKept, f, sid
  <2>7. \A m \in Link, j \in Slot : txq'[m][j] \in {txq[m][j], NoFrame}
    BY <1>1, <1>r
  <2> QED
    BY <1>t, <1>k, <1>c, <2>1, <2>4, <2>6, <2>7, CallStep
<1>2. ASSUME NEW releasing \in BOOLEAN, Clear("tx", r, sid, releasing, next, sid),
             releasing => Releasing(session, sid),
             \A m \in Link, j \in Slot :
               \/ txq'[m][j] = txq[m][j]
               \/ txq'[m][j] = NoFrame /\ (txq[m][j].session_id = sid \/ (m = l /\ j = i))
      PROVE  CompletionInv'
  <2>1. /\ OthersKept("tx") /\ pc'["tx"] = "clear"
        /\ loc'["tx"] = ClearLocal(r, sid, releasing, next, sid)
    BY <1>k, <1>t, <1>2 DEF Clear, ClearLocal, OthersKept, TypeOK
  <2>2. TaskKnows(session, "clear", loc'["tx"])
    <3>1. /\ releasing => Releasing(session, sid)
          /\ next = "cancel" => sid = 0 /\ ~releasing
      BY <1>2, <1>n
    <3>2. sid \in Nat /\ sid <= session.transition_id /\ OwnedBy(session, r, sid)
      BY <1>f
    <3>3. session \in SessionType /\ releasing \in BOOLEAN
      BY <1>k
    <3> HIDE DEF f, rest, r, sid
    <3>4. TaskKnows(session, "clear", ClearLocal(r, sid, releasing, next, sid))
      BY <3>1, <3>2, <3>3, ClearKnows, Zenon
    <3> QED
      BY <2>1, <3>4, Zenon
  <2>3. loc'["tx"].ref = r /\ loc'["tx"].session_id = sid
    <3> HIDE DEF f, rest, r, sid
    <3> QED
      BY <2>1, Zenon DEF ClearLocal, NoLocal
  <2>4. \A m \in Link, j \in Slot : txq'[m][j] \in {txq[m][j], NoFrame}
    BY <1>2
  <2>5. session.state # "FREE" =>
          (FramesKept("RELEASE") /\ FramesKept("HELLO")) \/ Clearing("tx")'
    <3>1. CASE sid = session.session_id
      <4>1. session.state # "FREE" => r = session.owner_link
        BY <1>f, <1>k, <3>1 DEF OwnedBy, IdsInv
      <4> QED
        BY <2>1, <2>3, <3>1, <4>1 DEF Clearing
    <3>2. CASE sid # session.session_id
      BY <1>2, <3>2 DEF FramesKept
    <3> QED
      BY <3>1, <3>2
  <2> QED
    BY <1>t, <1>k, <1>c, <2>1, <2>2, <2>4, <2>5, CallStep
<1>3. CASE Clear("tx", r, sid, FALSE, next, sid) /\ txq' = rest
  BY <1>2, <1>3, <1>n, <1>r
<1>4. CASE /\ f.kind = "RELEASE" /\ Clear("tx", r, sid, TRUE, next, sid)
           /\ CancelSession(rest, sid)
  <2>1. \A m \in Link, j \in Slot :
          \/ txq'[m][j] = rest[m][j]
          \/ txq'[m][j] = NoFrame /\ sid # 0 /\ rest[m][j].session_id = sid
    <3> HIDE DEF f, rest, r, sid
    <3> QED
      BY <1>k, <1>r, <1>4, CancelKeeps
  <2>2. \A m \in Link, j \in Slot :
          \/ txq'[m][j] = txq[m][j]
          \/ txq'[m][j] = NoFrame /\ (txq[m][j].session_id = sid \/ (m = l /\ j = i))
    <3> HIDE DEF f, rest, r, sid
    <3> QED
      BY <1>r, <2>1
  <2> QED
    BY <1>2, <1>4, <1>f, <1>n, <2>2
<1>5. CASE /\ f.kind = "CLOSE" /\ Goto("tx", "close") /\ txq' = rest
           /\ loc' = [loc EXCEPT !["tx"] = [NoLocal EXCEPT !.ref = r]]
  <2>1. /\ OthersKept("tx") /\ pc'["tx"] = "close"
        /\ loc'["tx"] = [NoLocal EXCEPT !.ref = r]
    BY <1>k, <1>t, <1>5 DEF Goto, OthersKept, TypeOK
  <2>2. /\ loc'["tx"].session_id = 0 /\ loc'["tx"].previous = 0
        /\ loc'["tx"].failed = 0 /\ loc'["tx"].snapshot = NoSnapshot
    BY <2>1 DEF NoLocal
  <2>3. loc'["tx"].snapshot.session_id = 0
    BY <2>2 DEF NoSnapshot
  <2>4. TaskKnows(session, pc'["tx"], loc'["tx"])
    BY <1>k, <2>1, <2>2, <2>3 DEF TaskKnows, ApplyPc
  <2>5. FramesKept("RELEASE") /\ FramesKept("HELLO")
    BY <1>5, <1>r DEF FramesKept
  <2>6. \A m \in Link, j \in Slot : txq'[m][j] \in {txq[m][j], NoFrame}
    BY <1>5, <1>r
  <2> QED
    BY <1>t, <1>k, <1>c, <2>1, <2>4, <2>5, <2>6, CallStep
<1> QED
  BY <1>1, <1>3, <1>4, <1>5, Zenon DEF TxComplete

LEMMA TransmitCompletes ==
  ASSUME CompletionInv, TypeOK', NEW l \in Link, NEW i \in Slot, Transmit(l, i)
  PROVE  CompletionInv'
<1>1. PICK succeeded \in BOOLEAN, next \in {"idle", "lost", "close"} :
        TxComplete(l, i, succeeded, next)
  BY DEF Transmit, TxSent, TxFailed, TxDropped
<1>2. TxReady(l, i) /\ UNCHANGED session
  BY DEF Transmit, TxSent, TxFailed, TxDropped
<1> QED
  BY <1>1, <1>2, TxCompletes

\* A call that clears the owner of a link on behalf of nobody's frame.
LEMMA DropCompletes ==
  ASSUME CompletionInv, TypeOK', NEW t \in Task, pc[t] = "idle", NEW r,
         NEW next \in {"idle", "close", "advance"},
         Clear(t, r, 0, FALSE, next, 0), UNCHANGED <<session, txq>>
  PROVE  CompletionInv'
<1>k. TypeOK /\ session \in SessionType /\ session.transition_id \in Nat
  BY TaskHasKnowledge DEF CompletionInv
<1>1. /\ OthersKept(t) /\ pc'[t] = "clear"
      /\ loc'[t] = ClearLocal(r, 0, FALSE, next, 0)
  BY <1>k DEF Clear, ClearLocal, OthersKept, TypeOK
<1>2. FALSE \in BOOLEAN /\ 0 \in Nat /\ 0 <= session.transition_id /\ next # "cancel"
      /\ OwnedBy(session, r, 0)
  BY <1>k DEF OwnedBy
<1>3. TaskKnows(session, "clear", loc'[t])
  BY <1>k, <1>1, <1>2, ClearKnows, Zenon
<1> QED
  BY <1>1, <1>3, FreeStep DEF FreePc

\* A call that starts, with a link and the id of its session or of a failed frame.
LEMMA LinkEventCompletes ==
  ASSUME CompletionInv, TypeOK', NEW l \in Link, LinkEvent(l)
  PROVE  CompletionInv'
<1> DEFINE t == RxTask(l)
<1>t. t \in Task /\ "transport" \in Task
  BY DEF RxTask, Task
<1>k. /\ TypeOK /\ TaskKnows(session, pc[t], loc[t])
      /\ session \in SessionType /\ session.transition_id \in Nat
      /\ session.session_id \in Nat /\ IdsInv
      /\ RefOf(l) \in Ref /\ session.owner_link \in RefOrNone
  BY <1>t, TaskHasKnowledge, RefOfType DEF CompletionInv, TypeOK, SessionType
<1>1. ASSUME NEW n \in Nonces, HelloBegin(l, n) PROVE CompletionInv'
  <2>1. /\ OthersKept(t) /\ pc'[t] = "acquire" /\ pc[t] = "idle"
        /\ loc'[t] = [NoLocal EXCEPT !.ref = RefOf(l), !.nonce = n]
        /\ UNCHANGED <<session, txq>>
    BY <1>k, <1>t, <1>1 DEF HelloBegin, Goto, OthersKept, TypeOK
  <2>2. /\ loc'[t].ref = RefOf(l) /\ loc'[t].session_id = 0 /\ loc'[t].previous = 0
        /\ loc'[t].failed = 0 /\ loc'[t].snapshot = NoSnapshot
    BY <2>1, Zenon DEF NoLocal
  <2>3. loc'[t].snapshot.session_id = 0
    BY <2>2 DEF NoSnapshot
  <2>4. TaskKnows(session, pc'[t], loc'[t])
    BY <1>k, <2>1, <2>2, <2>3 DEF TaskKnows, ApplyPc
  <2> QED
    BY <1>t, <2>1, <2>4, FreeStep DEF FreePc
<1>2. CASE ReleaseBegin(l)
  <2>1. /\ OthersKept(t) /\ pc'[t] = "release" /\ pc[t] = "idle" /\ session.state = "OWNED"
        /\ loc'[t] = [NoLocal EXCEPT !.ref = RefOf(l), !.session_id = session.session_id]
        /\ UNCHANGED <<session, txq>>
    BY <1>k, <1>t, <1>2 DEF ReleaseBegin, Goto, OthersKept, TypeOK
  <2>2. /\ loc'[t].session_id = session.session_id /\ loc'[t].previous = 0
        /\ loc'[t].failed = 0 /\ loc'[t].snapshot = NoSnapshot
    BY <2>1, Zenon DEF NoLocal
  <2>3. loc'[t].snapshot.session_id = 0
    BY <2>2 DEF NoSnapshot
  <2>4. TaskKnows(session, pc'[t], loc'[t])
    BY <1>k, <2>1, <2>2, <2>3 DEF TaskKnows, ApplyPc, IdsInv
  <2> QED
    BY <1>t, <2>1, <2>4, FreeStep DEF FreePc
<1>3. CASE LinkUp(l)
  BY <1>t, <1>3, <1>k, FreeStep DEF LinkUp, OthersKept, FreePc
<1>4. CASE LinkDown(l)
  BY <1>t, <1>4, DropCompletes DEF LinkDown
<1>5. CASE CdcRefresh(l)
  BY <1>t, <1>5, DropCompletes DEF CdcRefresh
<1>6. CASE UartRestore(l)
  BY <1>t, <1>6, DropCompletes DEF UartRestore
<1> QED
  BY <1>1, <1>2, <1>3, <1>4, <1>5, <1>6 DEF LinkEvent

LEMMA OthersComplete ==
  ASSUME CompletionInv, TypeOK', TickExpire \/ OutputFailed \/ VmEpochAdvance
  PROVE  CompletionInv'
<1>t. "tx" \in Task /\ "transport" \in Task
  BY DEF Task
<1>k. /\ TypeOK /\ session \in SessionType /\ session.transition_id \in Nat
      /\ session.session_id \in Nat /\ IdsInv
      /\ TaskKnows(session, pc["transport"], loc["transport"])
  BY <1>t, TaskHasKnowledge DEF CompletionInv
<1>1. CASE TickExpire
  BY <1>t, <1>1, EndCompletes DEF TickExpire
<1>2. CASE OutputFailed
  <2>1. /\ OthersKept("tx") /\ pc'["tx"] = "lost" /\ pc["tx"] = "idle" /\ HasOwner(session)
        /\ loc'["tx"] = [NoLocal EXCEPT !.ref = session.owner_link, !.failed = session.session_id]
        /\ UNCHANGED <<session, txq>>
    BY <1>k, <1>t, <1>2 DEF OutputFailed, Goto, OthersKept, TypeOK
  <2>2. TaskKnows(session, "lost", loc'["tx"])
    BY <1>k, <2>1, CallKnows DEF IdsInv, OwnedBy
  <2> QED
    BY <1>t, <2>1, <2>2, FreeStep DEF FreePc
<1>3. CASE VmEpochAdvance
  <2>1. /\ session'.state = session.state /\ session'.session_id = session.session_id
        /\ session'.owner_link = session.owner_link
        /\ session'.transition_id = session.transition_id
        /\ session'.handshake_complete = session.handshake_complete
        /\ UNCHANGED <<pc, loc, txq>>
    BY <1>k, <1>3 DEF VmEpochAdvance, SessionType
  <2>2. Moves(session, session')
    BY <1>k, <2>1 DEF Moves
  <2>3. TaskKnows(session', pc["transport"], loc["transport"])
    <3>1. loc["transport"] \in Local /\ session' \in SessionType
      BY <1>k, <1>t DEF TypeOK
    <3> QED
      BY <1>k, <2>2, <3>1, TaskStillKnows
  <2>4. KnowledgeInv'
    BY <1>k, <1>t, <2>1, <2>2, <2>3, KnowledgeStep DEF CompletionInv, OthersKept
  <2>5. IdsInv'
    BY <1>k, <2>1 DEF IdsInv, HasOwner
  <2>6. CompletionOutstanding'
    BY <2>1 DEF CompletionInv, CompletionOutstanding, Clearing, ReleaseCarried, HelloCarried,
                Queued
  <2> QED
    BY <2>4, <2>5, <2>6 DEF CompletionInv
<1> QED
  BY <1>1, <1>2, <1>3

LEMMA CompletionInit == Init => CompletionInv
<1> SUFFICES ASSUME Init PROVE CompletionInv
  OBVIOUS
<1>1. TypeOK
  BY TypeInit
<1>2. session \in SessionType
  BY <1>1 DEF TypeOK
<1>3. session.state = "FREE" /\ session.session_id = 0 /\ session.transition_id = 0
  BY DEF Init
<1>4. \A t \in Task : TaskKnows(session, pc[t], loc[t])
  BY <1>2, IdleKnows DEF Init
<1>5. \A l \in Link, i \in Slot : FrameKnows(session, txq[l][i])
  BY <1>3 DEF Init, FrameKnows, NoFrame, OwnedBy
<1> QED
  BY <1>1, <1>3, <1>4, <1>5 DEF CompletionInv, IdsInv, KnowledgeInv, CompletionOutstanding, HasOwner

LEMMA CompletionStep == CompletionInv /\ [Next]_vars => CompletionInv'
<1> SUFFICES ASSUME CompletionInv, [Next]_vars PROVE CompletionInv'
  OBVIOUS
<1>0. TypeOK'
  BY TypeStep DEF CompletionInv
<1>1. ASSUME NEW t \in Task, Continue(t) PROVE CompletionInv'
  BY <1>0, <1>1, FreeActions, AcquireCompletes, RecheckCompletes, HelloCompletes,
     BusyCompletes, PrepareCompletes, ReleaseCompletes, ClearCompletes, RouteCompletes,
     CancelCompletes, HelloDoneCompletes DEF Continue
<1>2. ASSUME NEW l \in Link, LinkEvent(l) PROVE CompletionInv'
  BY <1>0, <1>2, LinkEventCompletes
<1>3. ASSUME NEW l \in Link, NEW i \in Slot, Transmit(l, i) PROVE CompletionInv'
  BY <1>0, <1>3, TransmitCompletes
<1>4. CASE TickExpire \/ OutputFailed \/ VmEpochAdvance
  BY <1>0, <1>4, OthersComplete
<1>5. CASE UNCHANGED vars
  <2>1. KnowledgeInv' /\ IdsInv'
    BY <1>5 DEF CompletionInv, KnowledgeInv, IdsInv, HasOwner, vars
  <2>2. CompletionOutstanding'
    BY <1>5 DEF CompletionInv, CompletionOutstanding, Clearing, ReleaseCarried, HelloCarried,
                Queued, vars
  <2> QED
    BY <1>0, <2>1, <2>2 DEF CompletionInv
<1> QED
  BY <1>1, <1>2, <1>3, <1>4, <1>5 DEF Next, Rest

LEMMA CompletionAlways == Spec => []CompletionInv
  BY CompletionInit, CompletionStep, PTL DEF Spec

\* No session waits for a completion that will not come: a RELEASING session and one
\* before its handshake always have the frame, or the task, that will end the wait.
THEOREM CompletionCorrect == Spec => []CompletionOutstanding
<1>1. CompletionInv => CompletionOutstanding
  BY DEF CompletionInv
<1> QED
  BY <1>1, CompletionAlways, PTL
=============================================================================
