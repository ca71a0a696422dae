-------------------------- MODULE EvSessionRoutes --------------------------
(***************************************************************************)
(* Where the output of the device goes, for every set of links, every      *)
(* queue length and every number of transitions.                           *)
(*                                                                         *)
(* RouteInv is inductive, so the routes follow the session.  SerialIInv is *)
(* inductive beside RouteInv and CompletionInv, so no serial byte stream   *)
(* changes hands unnoticed.                                                *)
(***************************************************************************)
EXTENDS EvSessionProofs

\* Where a task carries a snapshot that apply_route will compare or write.
RoutePc == {"recheck", "apply", "setTransport", "channelCheck", "channelSet"}

SessionKept ==
  /\ session'.state = session.state
  /\ session'.owner_link = session.owner_link
  /\ session'.transition_id = session.transition_id

\* What the target of a step of task t must satisfy by itself.
Enters(t) ==
  /\ pc'[t] = "acquire" => /\ loc'[t].ref \in Ref
                           /\ loc'[t].ref.gen <= links'[loc'[t].ref.link].gen
  /\ pc'[t] \in {"acquire", "release"} => t = RxTask(loc'[t].ref.link)
  /\ pc'[t] = "helloDone" => loc'[t].after = "notify"

\* A step of task t outside apply_route that changes neither links nor owner.
LEMMA QuietStep ==
  ASSUME RouteInv, TypeOK', NEW t \in Task, OthersKept(t), SessionKept, Enters(t),
         UNCHANGED <<links, transportOwner, channelOwner, routeLock>>,
         pc[t] \notin RoutePc, pc'[t] \notin RoutePc
  PROVE  RouteInv'
<1> USE DEF RouteInv, RoutePc, InRoute, Latest
<1>1. LockInv'
  BY DEF LockInv, OthersKept
<1>2. GenInv'
  BY DEF GenInv, OthersKept, SessionKept, Enters, HasOwner
<1>3. SnapshotInv'
  BY DEF SnapshotInv, OthersKept, SessionKept
<1>4. AcquireInv'
  BY DEF AcquireInv, Acquiring, OthersKept, SessionKept, Enters
<1>5. ProgressInv'
  BY DEF ProgressInv, Follows, IsCurrent, OthersKept, SessionKept
<1>6. SettledInv'
  <2>1. ASSUME NEW u \in Task, Origin(u) PROVE Origin(u)'
    BY <2>1 DEF Origin, Acquiring, OthersKept, SessionKept
  <2>2. CASE HasOwner(session) /\ ~IsCurrent(session.owner_link)
    BY <2>2 DEF SettledInv, HasOwner, IsCurrent, SessionKept
  <2>3. CASE /\ Follows(transportOwner) /\ Follows(channelOwner)
             /\ \A u \in Task : InRoute(u) => Latest(u)
    BY <2>3 DEF SettledInv, Follows, IsCurrent, OthersKept, SessionKept
  <2> QED
    BY <2>1, <2>2, <2>3 DEF SettledInv
<1> QED
  BY <1>1, <1>2, <1>3, <1>4, <1>5, <1>6
\* Opening, closing or rotating a link never makes an old reference current.
OnlyRetires ==
  /\ \A l \in Link : links[l].gen <= links'[l].gen
  /\ \A r \in Ref : r.gen <= links[r.link].gen /\ IsCurrent(r)' => IsCurrent(r)

LEMMA OwnerIsRef ==
  ASSUME TypeOK, GenInv PROVE session.owner_link \in Ref \/ session.owner_link = NoRef
  BY DEF TypeOK, SessionType, RefOrNone

LEMMA NoRefNotCurrent == ~IsCurrent(NoRef) /\ ~IsCurrent(NoRef)'
<1>1. NoRef.link = NoLink
  BY DEF NoRef
<1> QED
  BY <1>1, LinkAssumption DEF IsCurrent

\* A step of the link registry by task t, outside apply_route.
LEMMA LinkStep ==
  ASSUME RouteInv, TypeOK', NEW t \in Task, OthersKept(t), OnlyRetires,
         UNCHANGED <<session, channelOwner, routeLock>>,
         Follows(transportOwner) => Follows(transportOwner)',
         pc[t] \notin RoutePc, pc'[t] = "idle"
  PROVE  RouteInv'
<1> USE DEF RouteInv, RoutePc, InRoute, Latest
<1>o. IsCurrent(session.owner_link)' => IsCurrent(session.owner_link)
  <2>1. CASE session.owner_link = NoRef
    BY <2>1, NoRefNotCurrent
  <2>2. CASE session.owner_link # NoRef
    <3>1. session.owner_link \in Ref /\ session.owner_link.gen <= links[session.owner_link.link].gen
      BY <2>2, OwnerIsRef DEF GenInv, HasOwner
    <3> QED
      BY <3>1 DEF OnlyRetires
  <2> QED
    BY <2>1, <2>2
<1>1. LockInv'
  BY DEF LockInv, OthersKept
<1>2. GenInv'
  <2>1. HasOwner(session) =>
          session.owner_link.gen <= links'[session.owner_link.link].gen
    <3>1. HasOwner(session) => session.owner_link \in Ref
      BY OwnerIsRef DEF GenInv, HasOwner
    <3> QED
      BY <3>1 DEF GenInv, OnlyRetires, TypeOK, Ref
  <2>2. ASSUME NEW u \in Task, pc'[u] = "acquire"
        PROVE  loc'[u].ref \in Ref /\ loc'[u].ref.gen <= links'[loc'[u].ref.link].gen
    <3>1. u # t /\ pc[u] = "acquire" /\ loc'[u] = loc[u]
      BY <2>2 DEF OthersKept
    <3>2. loc[u].ref \in Ref /\ loc[u].ref.gen <= links[loc[u].ref.link].gen
      BY <3>1 DEF GenInv
    <3> QED
      BY <3>1, <3>2 DEF OnlyRetires, TypeOK, Ref
  <2> QED
    BY <2>1, <2>2 DEF GenInv, HasOwner
<1>3. SnapshotInv'
  BY DEF SnapshotInv, OthersKept
<1>4. AcquireInv'
  BY DEF AcquireInv, Acquiring, OthersKept
<1>5. ProgressInv'
  BY DEF ProgressInv, OthersKept
<1>6. SettledInv'
  <2>1. ASSUME NEW u \in Task, Origin(u) PROVE Origin(u)'
    BY <2>1 DEF Origin, Acquiring, OthersKept
  <2>2. CASE HasOwner(session) /\ ~IsCurrent(session.owner_link)
    BY <1>o, <2>2 DEF SettledInv, HasOwner
  <2>3. CASE /\ Follows(transportOwner) /\ Follows(channelOwner)
             /\ \A u \in Task : InRoute(u) => Latest(u)
    <3>1. Follows(channelOwner)'
      BY <1>o, <2>3 DEF Follows
    <3> QED
      BY <2>3, <3>1 DEF SettledInv, OthersKept
  <2> QED
    BY <2>1, <2>2, <2>3 DEF SettledInv
<1> QED
  BY <1>1, <1>2, <1>3, <1>4, <1>5, <1>6

\* One endpoint gets a later generation, the others stay as they are.
LEMMA RetiresOne ==
  ASSUME TypeOK, NEW k \in Link, links'[k].gen = links[k].gen + 1,
         \A l \in Link \ {k} : links'[l] = links[l]
  PROVE  OnlyRetires
<1>1. \A l \in Link : links[l].gen \in Nat
  BY DEF TypeOK
<1>2. ASSUME NEW l \in Link PROVE links[l].gen <= links'[l].gen
  <2>1. CASE l = k
    BY <1>1, <2>1
  <2>2. CASE l # k
    BY <1>1, <2>2
  <2> QED
    BY <2>1, <2>2
<1>3. ASSUME NEW q \in Ref, q.gen <= links[q.link].gen, IsCurrent(q)' PROVE IsCurrent(q)
  <2>1. q.link \in Link /\ q.gen \in Nat /\ links'[q.link].open /\ links'[q.link].gen = q.gen
    BY <1>3 DEF IsCurrent, Ref
  <2>2. q.link # k
    BY <1>1, <1>3, <2>1
  <2>3. links'[q.link] = links[q.link]
    BY <2>1, <2>2
  <2> QED
    BY <2>1, <2>3 DEF IsCurrent
<1> QED
  BY <1>2, <1>3 DEF OnlyRetires

\* An owner whose link is current after the step was current on another link.
LEMMA OwnerElsewhere ==
  ASSUME TypeOK, GenInv, NEW k \in Link, links'[k].gen = links[k].gen + 1,
         \A l \in Link \ {k} : links'[l] = links[l],
         session' = session, IsCurrent(session.owner_link)'
  PROVE  session.owner_link.link # k /\ IsCurrent(session.owner_link)
<1>1. session.owner_link # NoRef
  BY NoRefNotCurrent
<1>2. session.owner_link \in Ref
  BY <1>1, OwnerIsRef
<1>3. session.owner_link.gen <= links[session.owner_link.link].gen
  BY <1>1 DEF GenInv, HasOwner
<1>4. /\ session.owner_link.link \in Link /\ session.owner_link.gen \in Nat
      /\ links'[session.owner_link.link].gen = session.owner_link.gen
  BY <1>2 DEF IsCurrent, Ref
<1>5. links[session.owner_link.link].gen \in Nat
  BY <1>4 DEF TypeOK
<1>6. session.owner_link.link # k
  BY <1>3, <1>4, <1>5
<1>7. links'[session.owner_link.link] = links[session.owner_link.link]
  BY <1>4, <1>6
<1> QED
  BY <1>6, <1>7 DEF IsCurrent

\* ev_transport_link_close keeps a transport route that agrees with the session.
LEMMA CloseKeepsRoute ==
  ASSUME TypeOK, GenInv, NEW r, LinkCloseEffect(r), UNCHANGED session
  PROVE  OnlyRetires /\ (Follows(transportOwner) => Follows(transportOwner)')
<1>1. CASE ~IsCurrent(r)
  BY <1>1 DEF LinkCloseEffect, OnlyRetires, Follows, IsCurrent, TypeOK
<1>2. CASE IsCurrent(r)
  <2>1. r.link \in Link
    BY <1>2 DEF IsCurrent
  <2>2. /\ links'[r.link].gen = links[r.link].gen + 1
        /\ \A l \in Link \ {r.link} : links'[l] = links[l]
    BY <1>2, <2>1 DEF LinkCloseEffect, TypeOK
  <2>3. OnlyRetires
    BY <2>1, <2>2, RetiresOne
  <2>4. ASSUME Follows(transportOwner) PROVE Follows(transportOwner)'
    <3>1. transportOwner' = IF transportOwner = r THEN NoRef ELSE transportOwner
      BY <1>2 DEF LinkCloseEffect
    <3>2. session.state = "FREE" => transportOwner' = NoRef
      BY <2>4, <3>1 DEF Follows
    <3>3. ASSUME IsCurrent(session.owner_link)' PROVE transportOwner' = session.owner_link
      <4>1. session.owner_link.link # r.link /\ IsCurrent(session.owner_link)
        BY <2>1, <2>2, <3>3, OwnerElsewhere
      <4> QED
        BY <2>4, <3>1, <4>1 DEF Follows
    <3> QED
      BY <3>2, <3>3 DEF Follows
  <2> QED
    BY <2>3, <2>4
<1> QED
  BY <1>1, <1>2

LEMMA AdvanceShape ==
  ASSUME TypeOK, NEW r, LinkAdvanceEffect(r), IsCurrent(r)
  PROVE  /\ r.link \in Link
         /\ links'[r.link].gen = links[r.link].gen + 1
         /\ \A l \in Link \ {r.link} : links'[l] = links[l]
<1>1. r.link \in Link
  BY DEF IsCurrent
<1>2. links' = [links EXCEPT ![r.link].gen = @ + 1]
  BY DEF LinkAdvanceEffect
<1>3. links[r.link] \in [gen : Nat, open : BOOLEAN]
  BY <1>1 DEF TypeOK
<1>4. links'[r.link] = [links[r.link] EXCEPT !.gen = @ + 1]
  BY <1>1, <1>2 DEF TypeOK
<1> QED
  BY <1>1, <1>2, <1>3, <1>4 DEF TypeOK

LEMMA AdvanceRetires == ASSUME TypeOK, NEW r, LinkAdvanceEffect(r) PROVE OnlyRetires
<1>1. CASE ~IsCurrent(r)
  BY <1>1 DEF LinkAdvanceEffect, OnlyRetires, IsCurrent, TypeOK
<1>2. CASE IsCurrent(r)
  BY <1>2, AdvanceShape, RetiresOne
<1> QED
  BY <1>1, <1>2

\* So does ev_transport_link_advance_generation.
LEMMA AdvanceKeepsRoute ==
  ASSUME TypeOK, GenInv, NEW r, LinkAdvanceEffect(r), UNCHANGED session
  PROVE  OnlyRetires /\ (Follows(transportOwner) => Follows(transportOwner)')
<1>1. CASE ~IsCurrent(r)
  BY <1>1 DEF LinkAdvanceEffect, OnlyRetires, Follows, IsCurrent, TypeOK
<1>2. CASE IsCurrent(r)
  <2>1. r.link \in Link
    BY <1>2 DEF IsCurrent
  <2>5. /\ links'[r.link].gen = links[r.link].gen + 1
        /\ \A l \in Link \ {r.link} : links'[l] = links[l]
    BY <1>2, AdvanceShape
  <2>6. OnlyRetires
    BY AdvanceRetires
  <2>7. ASSUME Follows(transportOwner) PROVE Follows(transportOwner)'
    <3>1. transportOwner.link # r.link => transportOwner' = transportOwner
      BY <1>2 DEF LinkAdvanceEffect
    <3>2. NoRef.link # r.link
      <4>1. NoRef.link = NoLink
        BY DEF NoRef
      <4> QED
        BY <2>1, <4>1, LinkAssumption
    <3>3. session.state = "FREE" => transportOwner' = NoRef
      BY <2>7, <3>1, <3>2 DEF Follows
    <3>4. ASSUME IsCurrent(session.owner_link)' PROVE transportOwner' = session.owner_link
      <4>1. session.owner_link.link # r.link /\ IsCurrent(session.owner_link)
        BY <2>1, <2>5, <3>4, OwnerElsewhere
      <4> QED
        BY <2>7, <3>1, <4>1 DEF Follows
    <3> QED
      BY <3>3, <3>4 DEF Follows
  <2> QED
    BY <2>6, <2>7
<1> QED
  BY <1>1, <1>2

\* A task other than the one that moves keeps the transition it has to apply.
LEMMA OriginKept ==
  ASSUME NEW t \in Task, NEW u \in Task \ {t}, OthersKept(t), SessionKept, Origin(u)
  PROVE  Origin(u)'
  BY DEF Origin, Acquiring, InRoute, Latest, OthersKept, SessionKept

\* A step of task t into, inside or out of apply_route: what remains to be shown.
LEMMA LocalStep ==
  ASSUME RouteInv, TypeOK', NEW t \in Task, OthersKept(t), SessionKept, UNCHANGED links,
         Enters(t),
         routeLock' = t <=> InRoute(t)',
         \A u \in Task \ {t} : routeLock' = u <=> routeLock = u,
         pc'[t] \in RoutePc =>
           /\ loc'[t].snapshot.transition_id <= session.transition_id
           /\ Latest(t)' =>
                /\ loc'[t].snapshot.owner_link = session.owner_link
                /\ loc'[t].snapshot.state = "FREE" <=> session.state = "FREE",
         pc'[t] = "recheck" => t = RxTask(loc'[t].ref.link),
         Acquiring(t)' => /\ t = RxTask(loc'[t].ref.link)
                          /\ loc'[t].snapshot.owner_link = loc'[t].ref
                          /\ loc'[t].snapshot.state = "OWNED"
                          /\ Latest(t)' => session.state = "OWNED",
         ProgressInv', SettledInv'
  PROVE  RouteInv'
<1> USE DEF RouteInv, RoutePc, InRoute, Latest
<1>1. LockInv'
  BY DEF LockInv, OthersKept
<1>2. GenInv'
  BY DEF GenInv, OthersKept, SessionKept, Enters, HasOwner
<1>3. SnapshotInv'
  <2>1. ASSUME NEW u \in Task \ {t}, pc'[u] \in {"recheck", "apply"} \/ InRoute(u)'
        PROVE  /\ loc'[u].snapshot.transition_id <= session'.transition_id
               /\ Latest(u)' => /\ loc'[u].snapshot.owner_link = session'.owner_link
                                /\ loc'[u].snapshot.state = "FREE" <=> session'.state = "FREE"
    BY <2>1 DEF SnapshotInv, OthersKept, SessionKept
  <2>2. ASSUME pc'[t] \in {"recheck", "apply"} \/ InRoute(t)'
        PROVE  /\ loc'[t].snapshot.transition_id <= session'.transition_id
               /\ Latest(t)' => /\ loc'[t].snapshot.owner_link = session'.owner_link
                                /\ loc'[t].snapshot.state = "FREE" <=> session'.state = "FREE"
    BY <2>2 DEF SessionKept
  <2> QED
    BY <2>1, <2>2 DEF SnapshotInv
<1>4. AcquireInv'
  <2>1. ASSUME NEW u \in Task \ {t}
        PROVE  /\ pc'[u] \in {"acquire", "recheck", "release"} \/ Acquiring(u)'
                    => u = RxTask(loc'[u].ref.link)
               /\ Acquiring(u)' => /\ loc'[u].snapshot.owner_link = loc'[u].ref
                                   /\ loc'[u].snapshot.state = "OWNED"
                                   /\ Latest(u)' => session'.state = "OWNED"
               /\ pc'[u] = "helloDone" => loc'[u].after = "notify"
    BY <2>1 DEF AcquireInv, Acquiring, OthersKept, SessionKept
  <2>2. /\ pc'[t] \in {"acquire", "recheck", "release"} \/ Acquiring(t)'
             => t = RxTask(loc'[t].ref.link)
        /\ Acquiring(t)' => /\ loc'[t].snapshot.owner_link = loc'[t].ref
                            /\ loc'[t].snapshot.state = "OWNED"
                            /\ Latest(t)' => session'.state = "OWNED"
        /\ pc'[t] = "helloDone" => loc'[t].after = "notify"
    BY DEF Enters, SessionKept
  <2> QED
    BY <2>1, <2>2 DEF AcquireInv
<1> QED
  BY <1>1, <1>2, <1>3, <1>4

\* A new transition: task t grants or takes away the session and carries its route.
LEMMA TransitionStep ==
  ASSUME RouteInv, TypeOK', NEW t \in Task, OthersKept(t), UNCHANGED routeLock,
         session'.transition_id = session.transition_id + 1,
         \A l \in Link : links[l].gen <= links'[l].gen,
         ~InRoute(t), pc'[t] \in {"recheck", "apply"},
         loc'[t].snapshot.transition_id = session'.transition_id,
         loc'[t].snapshot.owner_link = session'.owner_link,
         loc'[t].snapshot.state = session'.state,
         session'.state = "FREE" <=> session'.owner_link = NoRef,
         HasOwner(session)' => session'.owner_link.gen <= links'[session'.owner_link.link].gen,
         pc'[t] = "recheck" \/ Acquiring(t)' => t = RxTask(loc'[t].ref.link),
         Acquiring(t)' => session'.state = "OWNED" /\ session'.owner_link = loc'[t].ref,
         Origin(t)'
  PROVE  RouteInv'
<1> USE DEF RouteInv, RoutePc, InRoute, Latest
<1>n. session.transition_id \in Nat /\ \A l \in Link : links[l].gen \in Nat /\ links'[l].gen \in Nat
  BY DEF TypeOK, SessionType
<1>o. ASSUME NEW u \in Task \ {t}, pc[u] \in RoutePc
      PROVE  ~Latest(u)' /\ loc'[u].snapshot.transition_id <= session'.transition_id
  <2>1. loc[u].snapshot.transition_id <= session.transition_id /\ loc'[u] = loc[u]
    BY <1>o DEF SnapshotInv, OthersKept
  <2>2. loc[u].snapshot.transition_id \in Nat
    BY DEF TypeOK, Local, Snapshot
  <2> QED
    BY <1>n, <2>1, <2>2
<1>1. LockInv'
  BY DEF LockInv, OthersKept
<1>2. GenInv'
  <2>1. ASSUME NEW u \in Task, pc'[u] = "acquire"
        PROVE  loc'[u].ref \in Ref /\ loc'[u].ref.gen <= links'[loc'[u].ref.link].gen
    <3>1. u # t /\ pc[u] = "acquire" /\ loc'[u] = loc[u]
      BY <2>1 DEF OthersKept
    <3>2. loc[u].ref \in Ref /\ loc[u].ref.gen <= links[loc[u].ref.link].gen
      BY <3>1 DEF GenInv
    <3>3. loc[u].ref.link \in Link /\ loc[u].ref.gen \in Nat
      BY <3>2 DEF Ref
    <3> QED
      BY <1>n, <3>1, <3>2, <3>3
  <2> QED
    BY <2>1 DEF GenInv
<1>3. SnapshotInv'
  <2>1. ASSUME NEW u \in Task \ {t}, pc'[u] \in RoutePc
        PROVE  ~Latest(u)' /\ loc'[u].snapshot.transition_id <= session'.transition_id
    BY <1>o, <2>1 DEF OthersKept
  <2>2. loc'[t].snapshot.transition_id <= session'.transition_id
    BY <1>n
  <2> QED
    BY <2>1, <2>2 DEF SnapshotInv
<1>4. AcquireInv'
  <2>1. ASSUME NEW u \in Task \ {t}
        PROVE  /\ pc'[u] \in {"acquire", "recheck", "release"} \/ Acquiring(u)'
                    => u = RxTask(loc'[u].ref.link)
               /\ Acquiring(u)' => /\ loc'[u].snapshot.owner_link = loc'[u].ref
                                   /\ loc'[u].snapshot.state = "OWNED"
                                   /\ ~Latest(u)'
               /\ pc'[u] = "helloDone" => loc'[u].after = "notify"
    BY <1>o, <2>1 DEF AcquireInv, Acquiring, OthersKept
  <2>2. /\ pc'[t] \in {"acquire", "recheck", "release"} \/ Acquiring(t)'
             => t = RxTask(loc'[t].ref.link)
        /\ Acquiring(t)' => /\ loc'[t].snapshot.owner_link = loc'[t].ref
                            /\ loc'[t].snapshot.state = "OWNED"
                            /\ session'.state = "OWNED"
        /\ pc'[t] = "helloDone" => loc'[t].after = "notify"
    OBVIOUS
  <2> QED
    BY <2>1, <2>2 DEF AcquireInv
<1>5. ProgressInv'
  BY <1>o DEF ProgressInv, OthersKept
<1>6. SettledInv'
  BY DEF SettledInv
<1> QED
  BY <1>1, <1>2, <1>3, <1>4, <1>5, <1>6

(***************************************************************************)
(* The actions, one by one.                                                *)
(***************************************************************************)
\* Where a task goes that neither starts nor carries a route.
AwayPc == {"idle", "respond", "busy", "releaseRespond", "clear", "notify", "callback",
           "lost", "cancel", "close", "advance"}

LEMMA AfterApplyShape ==
  ASSUME TypeOK, NEW t \in Task, NEW applied, AfterApply(t, applied)
  PROVE  OthersKept(t) /\ pc'[t] \in AwayPc
<1>1. CASE loc[t].after = "respond"
  BY <1>1, GotoShape DEF AfterApply, AwayPc
<1>2. CASE loc[t].after # "respond" /\ applied
  BY <1>2, GotoShape DEF AfterApply, AwayPc
<1>3. CASE loc[t].after # "respond" /\ ~applied
  BY <1>3, ReturnShape DEF AfterApply, AwayPc
<1> QED
  BY <1>1, <1>2, <1>3

\* A step away from the route code that changes only a task and the queues.
LEMMA AwayStep ==
  ASSUME RouteInv, TypeOK', NEW t \in Task, OthersKept(t),
         UNCHANGED <<links, session, transportOwner, channelOwner, routeLock>>,
         pc[t] \notin RoutePc, pc'[t] \in AwayPc
  PROVE  RouteInv'
  BY QuietStep DEF SessionKept, Enters, RoutePc, AwayPc

LEMMA AwayActions ==
  ASSUME RouteInv, TypeOK', NEW t \in Task,
         \/ HelloRespond(t) \/ BusyRespond(t) \/ ReleaseRespond(t) \/ NotifyCheck(t)
         \/ Callback(t) \/ FailLost(t) \/ FailCancel(t)
  PROVE  RouteInv'
<1> USE DEF RouteInv, RoutePc, AwayPc
<1>1. CASE HelloRespond(t)
  <2>1. OthersKept(t) /\ pc'[t] \in {"idle", "clear"}
    BY <1>1, IdleShape, ClearShape DEF HelloRespond
  <2> QED
    BY <1>1, <2>1, AwayStep DEF HelloRespond
<1>2. CASE BusyRespond(t)
  <2>1. OthersKept(t) /\ pc'[t] \in {"idle", "close"}
    BY <1>2, IdleShape, GotoShape DEF BusyRespond
  <2> QED
    BY <1>2, <2>1, AwayStep DEF BusyRespond
<1>3. CASE ReleaseRespond(t)
  <2>1. OthersKept(t) /\ pc'[t] \in {"idle", "clear"}
    BY <1>3, IdleShape, ClearShape DEF ReleaseRespond
  <2> QED
    BY <1>3, <2>1, AwayStep DEF ReleaseRespond
<1>4. CASE NotifyCheck(t)
  <2>1. OthersKept(t) /\ pc'[t] \in AwayPc
    BY <1>4, ReturnShape, GotoShape DEF NotifyCheck
  <2> QED
    BY <1>4, <2>1, AwayStep DEF NotifyCheck
<1>5. CASE Callback(t)
  <2>1. OthersKept(t) /\ pc'[t] \in AwayPc
    BY <1>5, ReturnShape DEF Callback
  <2> QED
    BY <1>5, <2>1, AwayStep DEF Callback
<1>6. CASE FailLost(t)
  <2>1. OthersKept(t) /\ pc'[t] = "clear"
    BY <1>6, ClearShape DEF FailLost
  <2> QED
    BY <1>6, <2>1, AwayStep DEF FailLost
<1>7. CASE FailCancel(t)
  <2>1. OthersKept(t) /\ pc'[t] \in {"idle", "close"}
    BY <1>7, IdleShape, GotoShape DEF FailCancel
  <2> QED
    BY <1>7, <2>1, AwayStep DEF FailCancel
<1> QED
  BY <1>1, <1>2, <1>3, <1>4, <1>5, <1>6, <1>7

\* The worker's task only leaves its idle state.
LEMMA TransmitActions ==
  ASSUME RouteInv, TypeOK', NEW l \in Link, NEW i \in Slot, Transmit(l, i)
  PROVE  RouteInv'
<1>t. "tx" \in Task
  BY DEF Task
<1>1. /\ pc["tx"] = "idle"
      /\ UNCHANGED <<links, session, transportOwner, channelOwner, routeLock>>
      /\ \E b \in BOOLEAN, next \in {"idle", "lost", "close"} : TxComplete(l, i, b, next)
  BY DEF Transmit, TxSent, TxFailed, TxDropped, TxReady
<1>2. PICK b \in BOOLEAN, next \in {"idle", "lost", "close"} : TxComplete(l, i, b, next)
  BY <1>1
<1>3. CASE pc'["tx"] = "helloDone"
  <2>1. OthersKept("tx") /\ loc'["tx"].after = "notify"
    <3>1. loc' = [loc EXCEPT !["tx"] = [NoLocal EXCEPT !.ref = txq[l][i].link,
                                          !.session_id = txq[l][i].session_id]]
          /\ pc' = [pc EXCEPT !["tx"] = "helloDone"]
      BY <1>t, <1>2, <1>3 DEF TxComplete, Clear, Goto, RouteInv, TypeOK
    <3>2. [NoLocal EXCEPT !.ref = txq[l][i].link, !.session_id = txq[l][i].session_id].after
            = "notify"
      BY DEF NoLocal
    <3> QED
      BY <1>t, <3>1, <3>2 DEF OthersKept, RouteInv, TypeOK
  <2> QED
    BY <1>t, <1>1, <1>3, <2>1, QuietStep DEF SessionKept, Enters, RoutePc
<1>4. CASE pc'["tx"] # "helloDone"
  <2>1. OthersKept("tx") /\ pc'["tx"] \in {"clear", "close"}
    BY <1>t, <1>2, <1>4 DEF TxComplete, Clear, Goto, OthersKept, RouteInv, TypeOK
  <2> QED
    BY <1>t, <1>1, <2>1, AwayStep DEF RoutePc, AwayPc
<1> QED
  BY <1>3, <1>4

LEMMA RegistryActions ==
  ASSUME RouteInv, TypeOK', NEW t \in Task, LinkClose(t) \/ LinkAdvance(t)
  PROVE  RouteInv'
<1> USE DEF RouteInv, RoutePc
<1>1. CASE LinkClose(t)
  <2>1. OthersKept(t) /\ pc'[t] = "idle"
    BY <1>1, IdleShape DEF LinkClose
  <2>2. OnlyRetires /\ (Follows(transportOwner) => Follows(transportOwner)')
    BY <1>1, CloseKeepsRoute DEF LinkClose
  <2> QED
    BY <1>1, <2>1, <2>2, LinkStep DEF LinkClose
<1>2. CASE LinkAdvance(t)
  <2>1. OthersKept(t) /\ pc'[t] = "idle"
    BY <1>2, IdleShape DEF LinkAdvance
  <2>2. OnlyRetires /\ (Follows(transportOwner) => Follows(transportOwner)')
    BY <1>2, AdvanceKeepsRoute DEF LinkAdvance
  <2> QED
    BY <1>2, <2>1, <2>2, LinkStep DEF LinkAdvance
<1> QED
  BY <1>1, <1>2

LEMMA LinkUpAction ==
  ASSUME RouteInv, TypeOK', NEW l \in Link, LinkUp(l)
  PROVE  RouteInv'
<1> USE DEF RouteInv, RoutePc
<1>1. RxTask(l) \in Task
  BY DEF RxTask, Task
<1>2. /\ links'[l].gen = links[l].gen + 1
      /\ \A k \in Link \ {l} : links'[k] = links[k]
  BY DEF LinkUp, LinkOpenEffect, TypeOK
<1>3. OnlyRetires
  BY <1>2, RetiresOne
<1>4. Follows(transportOwner) => Follows(transportOwner)'
  <2>1. IsCurrent(session.owner_link)' => IsCurrent(session.owner_link)
    BY <1>2, OwnerElsewhere DEF LinkUp, LinkOpenEffect
  <2> QED
    BY <2>1 DEF Follows, LinkUp, LinkOpenEffect
<1>5. OthersKept(RxTask(l)) /\ pc[RxTask(l)] = "idle" /\ pc'[RxTask(l)] = "idle"
  BY DEF LinkUp, LinkOpenEffect, OthersKept
<1> QED
  BY <1>1, <1>3, <1>4, <1>5, LinkStep DEF LinkUp, LinkOpenEffect

LEMMA LinkEventActions ==
  ASSUME RouteInv, TypeOK', NEW l \in Link, LinkEvent(l)
  PROVE  RouteInv'
<1> USE DEF RouteInv, RoutePc, AwayPc
<1>t. RxTask(l) \in Task /\ "transport" \in Task
  BY DEF RxTask, Task
<1>r. RefOf(l) \in Ref /\ RefOf(l).link = l /\ RefOf(l).gen = links[l].gen /\ links[l].gen \in Nat
  BY RefOfType DEF RefOf, TypeOK
<1>1. CASE ReleaseBegin(l)
  <2>1. /\ pc' = [pc EXCEPT ![RxTask(l)] = "release"]
        /\ loc' = [loc EXCEPT ![RxTask(l)] = [NoLocal EXCEPT !.ref = RefOf(l),
                                                !.session_id = session.session_id]]
    BY <1>1 DEF ReleaseBegin, Goto
  <2>2. [NoLocal EXCEPT !.ref = RefOf(l), !.session_id = session.session_id].ref = RefOf(l)
    BY DEF NoLocal
  <2>3. /\ OthersKept(RxTask(l)) /\ pc'[RxTask(l)] = "release"
        /\ loc'[RxTask(l)].ref = RefOf(l)
    BY <1>t, <2>1, <2>2 DEF OthersKept, TypeOK
  <2>4. Enters(RxTask(l))
    BY <1>r, <2>3 DEF Enters
  <2> QED
    BY <1>t, <1>1, <2>3, <2>4, QuietStep DEF ReleaseBegin, SessionKept
<1>2. CASE LinkUp(l)
  BY <1>2, LinkUpAction
<1>3. CASE LinkDown(l)
  <2>1. OthersKept(RxTask(l)) /\ pc'[RxTask(l)] = "clear"
    BY <1>t, <1>3, ClearShape DEF LinkDown
  <2> QED
    BY <1>t, <1>3, <2>1, AwayStep DEF LinkDown
<1>4. CASE CdcRefresh(l)
  <2>1. OthersKept("transport") /\ pc'["transport"] = "clear"
    BY <1>t, <1>4, ClearShape DEF CdcRefresh
  <2> QED
    BY <1>t, <1>4, <2>1, AwayStep DEF CdcRefresh
<1>5. CASE UartRestore(l)
  <2>1. OthersKept("transport") /\ pc'["transport"] = "clear"
    BY <1>t, <1>5, ClearShape DEF UartRestore
  <2> QED
    BY <1>t, <1>5, <2>1, AwayStep DEF UartRestore
<1>6. ASSUME NEW n \in Nonces, HelloBegin(l, n) PROVE RouteInv'
  <2>1. /\ pc' = [pc EXCEPT ![RxTask(l)] = "acquire"]
        /\ loc' = [loc EXCEPT ![RxTask(l)] = [NoLocal EXCEPT !.ref = RefOf(l), !.nonce = n]]
    BY <1>6 DEF HelloBegin, Goto
  <2>2. [NoLocal EXCEPT !.ref = RefOf(l), !.nonce = n].ref = RefOf(l)
    BY DEF NoLocal
  <2>3. /\ OthersKept(RxTask(l)) /\ pc'[RxTask(l)] = "acquire"
        /\ loc'[RxTask(l)].ref = RefOf(l)
    BY <1>t, <2>1, <2>2 DEF OthersKept, TypeOK
  <2>4. links' = links
    BY <1>6 DEF HelloBegin
  <2>5. Enters(RxTask(l))
    BY <1>r, <2>3, <2>4 DEF Enters
  <2> QED
    BY <1>t, <1>6, <2>3, <2>5, QuietStep DEF HelloBegin, SessionKept
<1> QED
  BY <1>1, <1>2, <1>3, <1>4, <1>5, <1>6 DEF LinkEvent

\* Taking the session away starts a new transition, whose route is NoRef.
LEMMA ClearOwnerEffectInv ==
  ASSUME RouteInv, TypeOK', NEW t \in Task, ClearOwnerEffect(t), UNCHANGED routeLock,
         pc[t] \in {"idle", "clear"}
  PROVE  RouteInv'
<1> USE DEF RouteInv, InRoute
<1>1. \A l \in Link : links[l].gen <= links'[l].gen
  <2>0. \A l \in Link : links[l].gen \in Nat
    BY DEF TypeOK
  <2>1. CASE UNCHANGED links
    BY <2>0, <2>1
  <2>2. CASE LinkAdvanceEffect(session.owner_link)
    BY <2>2, AdvanceRetires DEF OnlyRetires
  <2> QED
    BY <2>1, <2>2 DEF ClearOwnerEffect
<1>2. session \in SessionType
  BY DEF TypeOK
<1>3. /\ session' = Cleared(session)
      /\ session'.transition_id = session.transition_id + 1
      /\ session'.state = "FREE" /\ session'.owner_link = NoRef
  BY <1>2 DEF ClearOwnerEffect, Cleared, SessionType
<1>4. /\ pc'[t] = "apply" /\ OthersKept(t)
      /\ loc'[t].snapshot = TakeSnapshot(session') /\ loc'[t].after = "notify"
  <2>1. loc[t] \in Local
    BY DEF TypeOK
  <2>2. loc' = [loc EXCEPT ![t].snapshot = TakeSnapshot(session'),
                           ![t].previous = session.session_id, ![t].after = "notify"]
    BY <1>3 DEF ClearOwnerEffect
  <2>3. pc'[t] = "apply" /\ OthersKept(t)
    BY <2>2 DEF ClearOwnerEffect, OthersKept, TypeOK
  <2>4. loc'[t] = [loc[t] EXCEPT !.snapshot = TakeSnapshot(session'),
                                 !.previous = session.session_id, !.after = "notify"]
    BY <2>2 DEF TypeOK
  <2>5. loc'[t].snapshot = TakeSnapshot(session') /\ loc'[t].after = "notify"
    BY <2>1, <2>4 DEF Local
  <2> QED
    BY <2>3, <2>5
<1>5. /\ loc'[t].snapshot.transition_id = session'.transition_id
      /\ loc'[t].snapshot.owner_link = session'.owner_link
      /\ loc'[t].snapshot.state = session'.state
  BY <1>4 DEF TakeSnapshot
<1>6. Origin(t)' /\ ~Acquiring(t)'
  BY <1>3, <1>4, <1>5 DEF Origin, Latest, Acquiring
<1> QED
  BY <1>1, <1>3, <1>4, <1>5, <1>6, TransitionStep DEF HasOwner

LEMMA ClearActions ==
  ASSUME RouteInv, TypeOK', TickExpire \/ \E t \in Task : ClearOwner(t)
  PROVE  RouteInv'
<1>1. CASE TickExpire
  <2>1. "transport" \in Task
    BY DEF Task
  <2> QED
    BY <1>1, <2>1, ClearOwnerEffectInv DEF TickExpire
<1>2. ASSUME NEW t \in Task, ClearOwner(t) PROVE RouteInv'
  <2>1. CASE ClearOwnerEffect(t)
    BY <1>2, <2>1, ClearOwnerEffectInv DEF ClearOwner
  <2>2. CASE Return(t) /\ UNCHANGED <<links, session, transportOwner>>
    <3>1. OthersKept(t) /\ pc'[t] \in AwayPc
      BY <2>2, ReturnShape DEF AwayPc, RouteInv
    <3> QED
      BY <1>2, <2>2, <3>1, AwayStep DEF ClearOwner, RoutePc
  <2> QED
    BY <1>2, <2>1, <2>2 DEF ClearOwner
<1> QED
  BY <1>1, <1>2

LEMMA OtherActions ==
  ASSUME RouteInv, TypeOK', OutputFailed \/ VmEpochAdvance \/ UNCHANGED vars
  PROVE  RouteInv'
<1>t. "tx" \in Task
  BY DEF Task
<1>1. CASE OutputFailed
  <2>1. OthersKept("tx") /\ pc'["tx"] = "lost"
    BY <1>t, <1>1 DEF OutputFailed, Goto, OthersKept, RouteInv, TypeOK
  <2> QED
    BY <1>t, <1>1, <2>1, AwayStep DEF OutputFailed, RoutePc, AwayPc
<1>2. CASE VmEpochAdvance \/ UNCHANGED vars
  <2>1. /\ UNCHANGED <<links, transportOwner, channelOwner, routeLock, pc, loc>>
        /\ SessionKept
    <3>1. session \in SessionType
      BY DEF RouteInv, TypeOK
    <3> QED
      BY <1>2, <3>1 DEF VmEpochAdvance, vars, SessionKept, SessionType
  <2>2. SettledInv'
    <3>1. ASSUME NEW u \in Task, Origin(u) PROVE Origin(u)'
      BY <2>1, <3>1 DEF Origin, Acquiring, InRoute, Latest, SessionKept
    <3>2. CASE HasOwner(session) /\ ~IsCurrent(session.owner_link)
      BY <2>1, <3>2 DEF SettledInv, HasOwner, IsCurrent, SessionKept
    <3>3. CASE /\ Follows(transportOwner) /\ Follows(channelOwner)
               /\ \A u \in Task : InRoute(u) => Latest(u)
      BY <2>1, <3>3 DEF SettledInv, Follows, IsCurrent, SessionKept, InRoute, Latest
    <3> QED
      BY <3>1, <3>2, <3>3 DEF SettledInv, RouteInv
  <2>3. ProgressInv'
    BY <2>1 DEF RouteInv, ProgressInv, Follows, IsCurrent, SessionKept, Latest
  <2>4. LockInv' /\ GenInv' /\ SnapshotInv' /\ AcquireInv'
    BY <2>1 DEF RouteInv, LockInv, GenInv, SnapshotInv, AcquireInv, Acquiring, InRoute,
                Latest, HasOwner, SessionKept
  <2> QED
    BY <2>2, <2>3, <2>4 DEF RouteInv
<1> QED
  BY <1>1, <1>2

\* A FREE session is granted, an identical hello is refreshed, others are BUSY.
LEMMA AcquireLockedAction ==
  ASSUME RouteInv, TypeOK', NEW t \in Task, AcquireLocked(t)
  PROVE  RouteInv'
<1> USE DEF RouteInv
<1>0. /\ session \in SessionType /\ loc[t] \in Local /\ pc[t] = "acquire"
      /\ loc[t].ref \in Ref /\ loc[t].ref.gen <= links[loc[t].ref.link].gen
      /\ t = RxTask(loc[t].ref.link)
      /\ UNCHANGED <<links, transportOwner, channelOwner, routeLock>>
  BY DEF TypeOK, AcquireLocked, GenInv, AcquireInv
<1>1. CASE session.state = "FREE"
  <2>1. /\ session' = Granted(loc[t].ref, loc[t].nonce)
        /\ loc' = [loc EXCEPT ![t].snapshot = TakeSnapshot(Granted(loc[t].ref, loc[t].nonce)),
                              ![t].acquired = TRUE]
        /\ Goto(t, "recheck")
    BY <1>1 DEF AcquireLocked
  <2>2. /\ session'.transition_id = session.transition_id + 1
        /\ session'.state = "OWNED" /\ session'.owner_link = loc[t].ref
    BY <1>0, <2>1 DEF Granted, SessionType
  <2>3. loc'[t] = [loc[t] EXCEPT !.snapshot = TakeSnapshot(session'), !.acquired = TRUE]
    BY <2>1 DEF TypeOK
  <2>4. /\ loc'[t].snapshot = TakeSnapshot(session') /\ loc'[t].acquired = TRUE
        /\ loc'[t].ref = loc[t].ref
    BY <1>0, <2>3 DEF Local
  <2>5. pc'[t] = "recheck" /\ OthersKept(t)
    BY <2>1 DEF Goto, OthersKept, TypeOK
  <2>6. /\ loc'[t].snapshot.transition_id = session'.transition_id
        /\ loc'[t].snapshot.owner_link = session'.owner_link
        /\ loc'[t].snapshot.state = session'.state
    BY <2>4 DEF TakeSnapshot
  <2>7. Origin(t)'
    BY <2>4, <2>5, <2>6 DEF Origin, Latest, Acquiring
  <2>8. NoRef \notin Ref
    <3>1. NoRef.link = NoLink
      BY DEF NoRef
    <3> QED
      BY <3>1, LinkAssumption DEF Ref
  <2>9. \A l \in Link : links[l].gen <= links'[l].gen
    BY <1>0 DEF TypeOK
  <2> QED
    BY <1>0, <2>2, <2>4, <2>5, <2>6, <2>7, <2>8, <2>9, TransitionStep DEF InRoute
<1>2. CASE /\ session.state = "OWNED" /\ session.owner_link = loc[t].ref
           /\ loc' = [loc EXCEPT ![t].snapshot = TakeSnapshot(session)]
           /\ Goto(t, "recheck") /\ UNCHANGED session
  <2>1. loc'[t] = [loc[t] EXCEPT !.snapshot = TakeSnapshot(session)]
    BY <1>2 DEF TypeOK
  <2>2. loc'[t].snapshot = TakeSnapshot(session) /\ loc'[t].ref = loc[t].ref
    BY <1>0, <2>1 DEF Local
  <2>3. /\ loc'[t].snapshot.transition_id = session.transition_id
        /\ loc'[t].snapshot.owner_link = session.owner_link
        /\ loc'[t].snapshot.state = session.state
    BY <2>2 DEF TakeSnapshot
  <2>4. pc'[t] = "recheck" /\ OthersKept(t) /\ SessionKept
    BY <1>2 DEF Goto, OthersKept, TypeOK, SessionKept
  <2>5. ProgressInv'
    BY <1>0, <2>4 DEF ProgressInv, Follows, IsCurrent, OthersKept, SessionKept, Latest
  <2>6. SettledInv'
    <3>1. ASSUME NEW u \in Task, Origin(u) PROVE Origin(u)'
      <4>1. u # t
        BY <1>0, <3>1 DEF Origin, Acquiring, InRoute
      <4> QED
        BY <2>4, <3>1, <4>1, OriginKept
    <3>2. CASE HasOwner(session) /\ ~IsCurrent(session.owner_link)
      BY <1>0, <2>4, <3>2 DEF SettledInv, HasOwner, IsCurrent, SessionKept
    <3>3. CASE /\ Follows(transportOwner) /\ Follows(channelOwner)
               /\ \A u \in Task : InRoute(u) => Latest(u)
      BY <1>0, <2>4, <3>3 DEF SettledInv, Follows, IsCurrent, SessionKept, OthersKept,
                              InRoute, Latest
    <3> QED
      BY <3>1, <3>2, <3>3 DEF SettledInv
  <2>7. session.transition_id <= session.transition_id
    BY <1>0 DEF SessionType
  <2>8. routeLock' = t <=> InRoute(t)'
    BY <1>0, <2>4 DEF LockInv, InRoute
  <2> QED
    BY <1>0, <1>2, <2>2, <2>3, <2>4, <2>5, <2>6, <2>7, <2>8, LocalStep DEF Enters, RoutePc
<1>3. CASE /\ loc' = [loc EXCEPT ![t].snapshot = TakeSnapshot(session)]
           /\ Goto(t, "busy") /\ UNCHANGED session
  <2>1. OthersKept(t) /\ pc'[t] = "busy"
    BY <1>3 DEF Goto, OthersKept, TypeOK
  <2> QED
    BY <1>0, <1>3, <2>1, AwayStep DEF RoutePc, AwayPc
<1> QED
  BY <1>1, <1>2, <1>3 DEF AcquireLocked

\* A step that keeps session, links and routes keeps what is settled, unless
\* task t had the latest transition to apply.
LEMMA SettledKept ==
  ASSUME RouteInv, NEW t \in Task, OthersKept(t), SessionKept,
         UNCHANGED <<links, transportOwner, channelOwner>>,
         Origin(t) => Origin(t)' \/ (HasOwner(session) /\ ~IsCurrent(session.owner_link)),
         InRoute(t)' => Latest(t)' \/ (InRoute(t) /\ loc'[t] = loc[t])
  PROVE  SettledInv'
<1>1. ASSUME HasOwner(session), ~IsCurrent(session.owner_link) PROVE SettledInv'
  BY <1>1 DEF SettledInv, HasOwner, IsCurrent, SessionKept
<1>2. ASSUME NEW u \in Task, Origin(u) PROVE SettledInv'
  <2>1. CASE u = t
    BY <1>1, <1>2, <2>1 DEF SettledInv
  <2>2. CASE u # t
    BY <1>2, <2>2, OriginKept DEF SettledInv
  <2> QED
    BY <2>1, <2>2
<1>3. CASE /\ Follows(transportOwner) /\ Follows(channelOwner)
           /\ \A u \in Task : InRoute(u) => Latest(u)
  <2>1. Follows(transportOwner)' /\ Follows(channelOwner)'
    BY <1>3 DEF Follows, IsCurrent, SessionKept
  <2>2. ASSUME NEW u \in Task, InRoute(u)' PROVE Latest(u)'
    BY <1>3, <2>2 DEF InRoute, Latest, SessionKept, OthersKept
  <2> QED
    BY <2>1, <2>2 DEF SettledInv
<1> QED
  BY <1>1, <1>2, <1>3 DEF SettledInv, RouteInv

LEMMA AcquireRecheckAction ==
  ASSUME RouteInv, TypeOK', NEW t \in Task, AcquireRecheck(t)
  PROVE  RouteInv'
<1> USE DEF RouteInv
<1>0. /\ pc[t] = "recheck" /\ loc[t] \in Local /\ t = RxTask(loc[t].ref.link)
      /\ UNCHANGED <<links, session, transportOwner, channelOwner, routeLock>> /\ SessionKept
  BY DEF AcquireRecheck, AcquireInv, TypeOK, SessionKept
<1>1. CASE ~IsCurrent(loc[t].ref) /\ Clear(t, loc[t].ref, 0, FALSE, "idle", 0)
  <2>1. OthersKept(t) /\ pc'[t] = "clear"
    BY <1>1, ClearShape
  <2>2. Origin(t) => HasOwner(session) /\ ~IsCurrent(session.owner_link)
    BY <1>0, <1>1 DEF Origin, AcquireInv, SnapshotInv, HasOwner, InRoute
  <2>3. SettledInv'
    BY <1>0, <2>1, <2>2, SettledKept DEF InRoute
  <2>4. ProgressInv'
    BY <1>0, <2>1 DEF ProgressInv, Follows, IsCurrent, OthersKept, Latest
  <2>5. routeLock' = t <=> InRoute(t)'
    BY <1>0, <2>1 DEF LockInv, InRoute
  <2> QED
    BY <1>0, <2>1, <2>3, <2>4, <2>5, LocalStep DEF Enters, RoutePc, Acquiring, InRoute
<1>2. CASE loc[t].acquired /\ Goto(t, "apply") /\ loc' = [loc EXCEPT ![t].after = "respond"]
  <2>1. loc'[t] = [loc[t] EXCEPT !.after = "respond"]
    BY <1>2 DEF TypeOK
  <2>2. /\ loc'[t].snapshot = loc[t].snapshot /\ loc'[t].ref = loc[t].ref
        /\ loc'[t].after = "respond"
    BY <1>0, <2>1 DEF Local
  <2>3. pc'[t] = "apply" /\ OthersKept(t)
    BY <1>2 DEF Goto, OthersKept, TypeOK
  <2>4. Origin(t) => Origin(t)'
    BY <1>0, <1>2, <2>2, <2>3 DEF Origin, Acquiring, Latest
  <2>5. SettledInv'
    BY <1>0, <2>3, <2>4, SettledKept DEF InRoute
  <2>6. ProgressInv'
    BY <1>0, <2>3 DEF ProgressInv, Follows, IsCurrent, OthersKept, Latest
  <2>7. routeLock' = t <=> InRoute(t)'
    BY <1>0, <2>3 DEF LockInv, InRoute
  <2>8. /\ loc'[t].snapshot.transition_id <= session.transition_id
        /\ Latest(t)' => /\ loc'[t].snapshot.owner_link = session.owner_link
                         /\ loc'[t].snapshot.state = "FREE" <=> session.state = "FREE"
    BY <1>0, <2>2 DEF SnapshotInv, Latest
  <2>9. /\ loc'[t].snapshot.owner_link = loc'[t].ref
        /\ loc'[t].snapshot.state = "OWNED"
        /\ Latest(t)' => session.state = "OWNED"
    BY <1>0, <1>2, <2>2 DEF AcquireInv, Acquiring, Latest
  <2> QED
    BY <1>0, <2>2, <2>3, <2>5, <2>6, <2>7, <2>8, <2>9, LocalStep DEF Enters, RoutePc
<1>3. CASE ~loc[t].acquired /\ Goto(t, "respond") /\ UNCHANGED loc
  <2>1. OthersKept(t) /\ pc'[t] = "respond"
    BY <1>3, GotoShape
  <2>2. ~Origin(t)
    BY <1>0, <1>3 DEF Origin, Acquiring, InRoute
  <2>3. SettledInv'
    BY <1>0, <2>1, <2>2, SettledKept DEF InRoute
  <2>4. ProgressInv'
    BY <1>0, <2>1 DEF ProgressInv, Follows, IsCurrent, OthersKept, Latest
  <2>5. routeLock' = t <=> InRoute(t)'
    BY <1>0, <2>1 DEF LockInv, InRoute
  <2> QED
    BY <1>0, <2>1, <2>3, <2>4, <2>5, LocalStep DEF Enters, RoutePc, Acquiring, InRoute
<1> QED
  BY <1>1, <1>2, <1>3 DEF AcquireRecheck

\* The session of task t's own link becomes RELEASING: no hello of that link
\* is in flight, because the link is served by t.
LEMMA ReleasePrepareAction ==
  ASSUME RouteInv, TypeOK', NEW t \in Task, ReleasePrepare(t)
  PROVE  RouteInv'
<1> USE DEF RouteInv
<1>0. /\ pc[t] = "release" /\ session \in SessionType /\ t = RxTask(loc[t].ref.link)
      /\ UNCHANGED <<links, transportOwner, channelOwner, routeLock>>
  BY DEF ReleasePrepare, AcquireInv, TypeOK
<1>1. CASE Idle(t) /\ UNCHANGED session
  <2>1. OthersKept(t) /\ pc'[t] = "idle"
    BY <1>1, IdleShape
  <2> QED
    BY <1>0, <1>1, <2>1, AwayStep DEF RoutePc, AwayPc
<1>2. CASE /\ session.state = "OWNED" /\ session.owner_link = loc[t].ref
           /\ session' = [session EXCEPT !.state = "RELEASING", !.input_generation = @ + 1]
           /\ Goto(t, "releaseRespond") /\ UNCHANGED loc
  <2>1. OthersKept(t) /\ pc'[t] = "releaseRespond"
    BY <1>2, GotoShape
  <2>2. /\ session'.state = "RELEASING" /\ session'.owner_link = session.owner_link
        /\ session'.transition_id = session.transition_id
    BY <1>0, <1>2 DEF SessionType
  <2>3. ASSUME NEW u \in Task, Acquiring(u), Latest(u) PROVE FALSE
    <3>1. u = RxTask(loc[u].ref.link) /\ loc[u].snapshot.owner_link = loc[u].ref
      BY <2>3 DEF AcquireInv
    <3>2. loc[u].snapshot.owner_link = session.owner_link
      BY <2>3 DEF SnapshotInv, Acquiring
    <3>3. u = t
      BY <1>0, <1>2, <3>1, <3>2
    <3> QED
      BY <1>0, <2>3, <3>3 DEF Acquiring, InRoute
  <2>4. LockInv' /\ GenInv' /\ SnapshotInv'
    <3>1. LockInv'
      BY <1>0, <2>1 DEF LockInv, InRoute, OthersKept
    <3>2. GenInv'
      BY <1>0, <1>2, <2>1, <2>2 DEF GenInv, HasOwner, OthersKept
    <3>3. SnapshotInv'
      BY <1>0, <1>2, <2>1, <2>2 DEF SnapshotInv, InRoute, Latest, OthersKept
    <3> QED
      BY <3>1, <3>2, <3>3
  <2>5. AcquireInv'
    BY <1>0, <2>1, <2>2, <2>3 DEF AcquireInv, Acquiring, InRoute, Latest, OthersKept
  <2>6. Follows(transportOwner) => Follows(transportOwner)'
    BY <1>0, <2>2 DEF Follows, IsCurrent
  <2>7. Follows(channelOwner) => Follows(channelOwner)'
    BY <1>0, <2>2 DEF Follows, IsCurrent
  <2>8. ProgressInv'
    BY <2>1, <2>2, <2>6 DEF ProgressInv, Latest, OthersKept
  <2>9. SettledInv'
    <3>1. ASSUME NEW u \in Task, Origin(u) PROVE FALSE
      BY <1>2, <2>3, <3>1 DEF Origin, SnapshotInv
    <3>2. CASE HasOwner(session) /\ ~IsCurrent(session.owner_link)
      BY <1>0, <2>2, <3>2 DEF SettledInv, HasOwner, IsCurrent
    <3>3. CASE /\ Follows(transportOwner) /\ Follows(channelOwner)
               /\ \A u \in Task : InRoute(u) => Latest(u)
      BY <2>1, <2>2, <2>6, <2>7, <3>3 DEF SettledInv, InRoute, Latest, OthersKept
    <3> QED
      BY <3>1, <3>2, <3>3 DEF SettledInv
  <2> QED
    BY <2>4, <2>5, <2>8, <2>9
<1> QED
  BY <1>1, <1>2 DEF ReleasePrepare

LEMMA HelloDoneAction ==
  ASSUME RouteInv, TypeOK', NEW t \in Task, HelloDone(t)
  PROVE  RouteInv'
<1> USE DEF RouteInv
<1>0. /\ pc[t] = "helloDone" /\ session \in SessionType /\ loc[t] \in Local
      /\ loc[t].after = "notify"
      /\ UNCHANGED <<links, transportOwner, channelOwner, routeLock>>
  BY DEF HelloDone, AcquireInv, TypeOK
<1>1. CASE Idle(t) /\ UNCHANGED session
  <2>1. OthersKept(t) /\ pc'[t] = "idle"
    BY <1>1, IdleShape
  <2> QED
    BY <1>0, <1>1, <2>1, AwayStep DEF RoutePc, AwayPc
<1>2. CASE /\ session' = [session EXCEPT !.handshake_complete = TRUE]
           /\ loc' = [loc EXCEPT ![t].snapshot = TakeSnapshot(session')]
           /\ Goto(t, "apply")
  <2>1. SessionKept
    BY <1>0, <1>2 DEF SessionKept, SessionType
  <2>2. loc'[t] = [loc[t] EXCEPT !.snapshot = TakeSnapshot(session')]
    BY <1>2 DEF TypeOK
  <2>3. loc'[t].snapshot = TakeSnapshot(session') /\ loc'[t].after = "notify"
    BY <1>0, <2>2 DEF Local
  <2>4. /\ loc'[t].snapshot.transition_id = session.transition_id
        /\ loc'[t].snapshot.owner_link = session.owner_link
        /\ loc'[t].snapshot.state = session.state
    BY <2>1, <2>3 DEF TakeSnapshot, SessionKept
  <2>5. pc'[t] = "apply" /\ OthersKept(t)
    BY <1>2 DEF Goto, OthersKept, TypeOK
  <2>6. ~Origin(t) /\ ~Acquiring(t)' /\ ~InRoute(t)' /\ ~InRoute(t)
    BY <1>0, <2>3, <2>5 DEF Origin, Acquiring, InRoute
  <2>7. SettledInv'
    BY <1>0, <2>1, <2>5, <2>6, SettledKept
  <2>8. ProgressInv'
    BY <1>0, <2>1, <2>5 DEF ProgressInv, Follows, IsCurrent, OthersKept, SessionKept, Latest
  <2>9. (routeLock' = t <=> InRoute(t)') /\ session.transition_id <= session.transition_id
    BY <1>0, <2>6 DEF LockInv, SessionType
  <2> QED
    BY <1>0, <2>1, <2>4, <2>5, <2>6, <2>7, <2>8, <2>9, LocalStep DEF Enters, RoutePc
<1> QED
  BY <1>1, <1>2 DEF HelloDone

\* What every step inside apply_route starts from.
LEMMA RouteStepFacts ==
  ASSUME RouteInv, NEW t \in Task, pc[t] = "apply" \/ InRoute(t)
  PROVE  /\ loc[t].snapshot.transition_id <= session.transition_id
         /\ Latest(t) => /\ loc[t].snapshot.owner_link = session.owner_link
                         /\ loc[t].snapshot.state = "FREE" <=> session.state = "FREE"
         /\ Acquiring(t) => /\ t = RxTask(loc[t].ref.link)
                            /\ loc[t].snapshot.owner_link = loc[t].ref
                            /\ loc[t].snapshot.state = "OWNED"
                            /\ Latest(t) => session.state = "OWNED"
         /\ \A u \in Task \ {t} : InRoute(t) => ~InRoute(u)
<1>1. /\ loc[t].snapshot.transition_id <= session.transition_id
      /\ Latest(t) => /\ loc[t].snapshot.owner_link = session.owner_link
                      /\ loc[t].snapshot.state = "FREE" <=> session.state = "FREE"
  BY DEF RouteInv, SnapshotInv
<1>2. Acquiring(t) => /\ t = RxTask(loc[t].ref.link)
                      /\ loc[t].snapshot.owner_link = loc[t].ref
                      /\ loc[t].snapshot.state = "OWNED"
                      /\ Latest(t) => session.state = "OWNED"
  BY DEF RouteInv, AcquireInv
<1>3. \A u \in Task \ {t} : InRoute(t) => ~InRoute(u)
  BY DEF RouteInv, LockInv
<1> QED
  BY <1>1, <1>2, <1>3

\* A step from the route code on to its next control point.
LEMMA RouteForward ==
  ASSUME RouteInv, TypeOK', NEW t \in Task, OthersKept(t), UNCHANGED <<links, session, loc>>,
         pc[t] = "apply" \/ InRoute(t), InRoute(t)',
         routeLock' = t, \A u \in Task \ {t} : routeLock # u,
         ProgressInv', SettledInv'
  PROVE  RouteInv'
<1>1. SessionKept
  BY DEF SessionKept
<1>2. t # NoTask
  BY DEF Task, NoTask
<1>3. Enters(t) /\ pc'[t] # "recheck"
  BY DEF Enters, InRoute
<1>4. Acquiring(t)' => Acquiring(t)
  BY DEF Acquiring, InRoute
<1>5. Latest(t)' <=> Latest(t)
  BY DEF Latest
<1> QED
  BY <1>1, <1>2, <1>3, <1>4, <1>5, RouteStepFacts, LocalStep

\* A step out of apply_route.
LEMMA RouteLeave ==
  ASSUME RouteInv, TypeOK', NEW t \in Task, OthersKept(t), UNCHANGED <<links, session>>,
         pc[t] = "apply" \/ InRoute(t), pc'[t] \in AwayPc,
         routeLock' # t, \A u \in Task \ {t} : routeLock' = u <=> routeLock = u,
         ProgressInv', SettledInv'
  PROVE  RouteInv'
<1>1. SessionKept
  BY DEF SessionKept
<1>2. Enters(t) /\ pc'[t] \notin RoutePc /\ ~InRoute(t)' /\ ~Acquiring(t)'
  BY DEF Enters, InRoute, Acquiring, AwayPc, RoutePc
<1> QED
  BY <1>1, <1>2, LocalStep DEF RoutePc

LEMMA ApplyRouteAction ==
  ASSUME RouteInv, TypeOK', NEW t \in Task, ApplyRoute(t)
  PROVE  RouteInv'
<1>0. /\ pc[t] = "apply" /\ routeLock = NoTask /\ ~InRoute(t)
      /\ UNCHANGED <<links, session, transportOwner, channelOwner>> /\ SessionKept
      /\ NoTask \notin Task
  BY DEF ApplyRoute, InRoute, SessionKept, Task, NoTask
<1>1. CASE SnapshotIsCurrent(loc[t].snapshot)
  <2>1. routeLock' = t /\ OthersKept(t) /\ pc'[t] = "setTransport" /\ UNCHANGED loc
    BY <1>1, GotoShape DEF ApplyRoute, RouteInv
  <2>2. Latest(t)' /\ InRoute(t)'
    BY <1>0, <1>1, <2>1 DEF SnapshotIsCurrent, Latest, InRoute
  <2>3. Origin(t) => Origin(t)'
    BY <1>0, <2>1, <2>2 DEF Origin, Acquiring, InRoute
  <2>4. SettledInv'
    BY <1>0, <2>1, <2>2, <2>3, SettledKept
  <2>5. ProgressInv'
    BY <1>0, <2>1 DEF RouteInv, ProgressInv, Follows, IsCurrent, OthersKept, Latest
  <2> QED
    BY <1>0, <2>1, <2>2, <2>4, <2>5, RouteForward
<1>2. CASE ~SnapshotIsCurrent(loc[t].snapshot)
  <2>1. AfterApply(t, FALSE) /\ routeLock' = routeLock
    BY <1>2 DEF ApplyRoute
  <2>2. OthersKept(t) /\ pc'[t] \in AwayPc
    BY <2>1, AfterApplyShape DEF RouteInv
  <2>3. ~Origin(t)
    BY <1>0, <1>2, RouteStepFacts DEF Origin, SnapshotIsCurrent, HasOwner, Latest
  <2>4. ~InRoute(t)'
    BY <2>2 DEF InRoute, AwayPc
  <2>5. SettledInv'
    BY <1>0, <2>2, <2>3, <2>4, SettledKept
  <2>6. ProgressInv'
    BY <1>0, <2>2 DEF RouteInv, ProgressInv, Follows, IsCurrent, OthersKept, Latest, AwayPc
  <2> QED
    BY <1>0, <2>1, <2>2, <2>5, <2>6, RouteLeave
<1> QED
  BY <1>1, <1>2

LEMMA SetTransportOwnerAction ==
  ASSUME RouteInv, TypeOK', NEW t \in Task, SetTransportOwner(t)
  PROVE  RouteInv'
<1>0. /\ pc[t] = "setTransport" /\ InRoute(t) /\ routeLock = t
      /\ UNCHANGED <<links, session, channelOwner, routeLock, loc>> /\ SessionKept
      /\ transportOwner' = IF IsCurrent(loc[t].snapshot.owner_link)
                           THEN loc[t].snapshot.owner_link ELSE NoRef
  BY DEF SetTransportOwner, InRoute, SessionKept, RouteInv, LockInv
<1>1. OthersKept(t) /\ pc'[t] = "channelCheck" /\ InRoute(t)'
  BY GotoShape DEF SetTransportOwner, RouteInv, InRoute
<1>2. Latest(t) => Follows(transportOwner)'
  <2>1. ASSUME Latest(t), session.state = "FREE" PROVE transportOwner' = NoRef
    BY <1>0, <2>1, RouteStepFacts, NoRefNotCurrent DEF RouteInv, GenInv
  <2>2. ASSUME Latest(t), IsCurrent(session.owner_link) PROVE transportOwner' = session.owner_link
    BY <1>0, <2>2, RouteStepFacts
  <2>3. IsCurrent(session.owner_link)' <=> IsCurrent(session.owner_link)
    BY <1>0 DEF IsCurrent
  <2> QED
    BY <1>0, <2>1, <2>2, <2>3 DEF Follows
<1>3. \A u \in Task \ {t} : ~InRoute(u)'
  BY <1>0, <1>1, RouteStepFacts DEF InRoute, OthersKept
<1>4. ProgressInv'
  BY <1>0, <1>2, <1>3 DEF ProgressInv, InRoute, Latest
<1>5. SettledInv'
  <2>1. ASSUME NEW u \in Task, Origin(u) PROVE Origin(u)'
    BY <1>0, <1>1, <2>1, OriginKept DEF Origin, Acquiring, InRoute, Latest
  <2>2. CASE HasOwner(session) /\ ~IsCurrent(session.owner_link)
    BY <1>0, <2>2 DEF SettledInv, HasOwner, IsCurrent
  <2>3. CASE Follows(channelOwner) /\ \A u \in Task : InRoute(u) => Latest(u)
    <3>1. Follows(channelOwner)'
      BY <1>0, <2>3 DEF Follows, IsCurrent
    <3>2. Latest(t) /\ Latest(t)'
      BY <1>0, <2>3 DEF Latest
    <3> QED
      BY <1>2, <1>3, <3>1, <3>2 DEF SettledInv
  <2> QED
    BY <2>1, <2>2, <2>3 DEF SettledInv, RouteInv
<1> QED
  BY <1>0, <1>1, <1>4, <1>5, RouteForward

LEMMA ChannelCheckAction ==
  ASSUME RouteInv, TypeOK', NEW t \in Task, ChannelCheck(t)
  PROVE  RouteInv'
<1>0. /\ pc[t] = "channelCheck" /\ InRoute(t) /\ routeLock = t
      /\ UNCHANGED <<links, session, transportOwner, channelOwner>> /\ SessionKept
      /\ NoTask \notin Task
  BY DEF ChannelCheck, InRoute, SessionKept, RouteInv, LockInv, Task, NoTask
<1>1. CASE Goto(t, "channelSet") /\ UNCHANGED <<routeLock, loc>>
  <2>1. OthersKept(t) /\ pc'[t] = "channelSet" /\ InRoute(t)'
    BY <1>1, GotoShape DEF RouteInv, InRoute
  <2>2. Origin(t) => Origin(t)'
    BY <1>0, <1>1, <2>1 DEF Origin, Acquiring, InRoute, Latest
  <2>3. SettledInv'
    BY <1>0, <1>1, <2>1, <2>2, SettledKept
  <2>4. ProgressInv'
    BY <1>0, <1>1, <2>1 DEF RouteInv, ProgressInv, Follows, IsCurrent, OthersKept, Latest
  <2> QED
    BY <1>0, <1>1, <2>1, <2>3, <2>4, RouteForward
<1>2. CASE /\ loc[t].snapshot.owner_link # NoRef /\ ~IsCurrent(loc[t].snapshot.owner_link)
           /\ routeLock' = NoTask /\ AfterApply(t, TRUE)
  <2>1. OthersKept(t) /\ pc'[t] \in AwayPc /\ ~InRoute(t)'
    BY <1>2, AfterApplyShape DEF RouteInv, InRoute, AwayPc
  <2>2. Origin(t) => HasOwner(session) /\ ~IsCurrent(session.owner_link)
    BY <1>0, <1>2, RouteStepFacts DEF Origin, HasOwner, RouteInv, GenInv
  <2>3. SettledInv'
    BY <1>0, <2>1, <2>2, SettledKept
  <2>4. ProgressInv'
    BY <1>0, <2>1 DEF RouteInv, ProgressInv, Follows, IsCurrent, OthersKept, Latest, AwayPc
  <2> QED
    BY <1>0, <1>2, <2>1, <2>3, <2>4, RouteLeave
<1> QED
  BY <1>1, <1>2 DEF ChannelCheck

\* The last write of apply_route: when the transition is the latest one, both
\* routes now agree with the session.
LEMMA ChannelSetAction ==
  ASSUME RouteInv, TypeOK', NEW t \in Task, ChannelSet(t)
  PROVE  RouteInv'
<1>0. /\ pc[t] = "channelSet" /\ InRoute(t) /\ routeLock = t
      /\ UNCHANGED <<links, session, transportOwner>> /\ SessionKept
      /\ channelOwner' = loc[t].snapshot.owner_link /\ routeLock' = NoTask
      /\ AfterApply(t, TRUE) /\ NoTask \notin Task
  BY DEF ChannelSet, InRoute, SessionKept, RouteInv, LockInv, Task, NoTask
<1>1. OthersKept(t) /\ pc'[t] \in AwayPc /\ ~InRoute(t)'
  BY <1>0, AfterApplyShape DEF RouteInv, InRoute, AwayPc
<1>2. \A u \in Task : ~InRoute(u)'
  BY <1>0, <1>1, RouteStepFacts DEF InRoute, OthersKept
<1>3. ProgressInv'
  BY <1>2 DEF ProgressInv, InRoute
<1>4. SettledInv'
  <2>0. IsCurrent(session.owner_link)' <=> IsCurrent(session.owner_link)
    BY <1>0 DEF IsCurrent
  <2>1. ASSUME Latest(t) PROVE SettledInv'
    <3>1. Follows(transportOwner)
      BY <1>0, <2>1 DEF RouteInv, ProgressInv
    <3>2. Follows(transportOwner)'
      BY <1>0, <2>0, <3>1 DEF Follows
    <3>3. channelOwner' = session.owner_link
      BY <1>0, <2>1, RouteStepFacts
    <3>4. session.state = "FREE" => session.owner_link = NoRef
      BY DEF RouteInv, GenInv
    <3>5. Follows(channelOwner)'
      BY <1>0, <3>3, <3>4 DEF Follows
    <3> QED
      BY <1>2, <3>2, <3>5 DEF SettledInv
  <2>2. ASSUME NEW u \in Task, Origin(u) PROVE SettledInv'
    <3>1. CASE u = t
      BY <2>1, <2>2, <3>1 DEF Origin
    <3>2. CASE u # t
      BY <1>0, <1>1, <2>2, <3>2, OriginKept DEF SettledInv
    <3> QED
      BY <3>1, <3>2
  <2>3. CASE HasOwner(session) /\ ~IsCurrent(session.owner_link)
    BY <1>0, <2>0, <2>3 DEF SettledInv, HasOwner
  <2>4. CASE \A u \in Task : InRoute(u) => Latest(u)
    BY <1>0, <2>1, <2>4
  <2> QED
    BY <2>2, <2>3, <2>4 DEF SettledInv, RouteInv
<1> QED
  BY <1>0, <1>1, <1>3, <1>4, RouteLeave

(***************************************************************************)
(* The theorems.                                                           *)
(***************************************************************************)
LEMMA RouteInit == Init => RouteInv
<1> SUFFICES ASSUME Init PROVE RouteInv
  OBVIOUS
<1>1. TypeOK
  BY TypeInit
<1>2. /\ \A t \in Task : pc[t] = "idle"
      /\ session.state = "FREE" /\ session.owner_link = NoRef
      /\ transportOwner = NoRef /\ channelOwner = NoRef /\ routeLock = NoTask
  BY DEF Init
<1>3. LockInv /\ SnapshotInv /\ AcquireInv /\ ProgressInv
  BY <1>2 DEF LockInv, SnapshotInv, AcquireInv, ProgressInv, InRoute, Acquiring, Task, NoTask
<1>4. GenInv
  BY <1>2 DEF GenInv, HasOwner
<1>5. SettledInv
  BY <1>2, NoRefNotCurrent DEF SettledInv, Follows, InRoute
<1> QED
  BY <1>1, <1>3, <1>4, <1>5 DEF RouteInv

LEMMA RouteStep == RouteInv /\ [Next]_vars => RouteInv'
<1> SUFFICES ASSUME RouteInv, [Next]_vars PROVE RouteInv'
  OBVIOUS
<1>0. TypeOK'
  BY TypeStep DEF RouteInv
<1>1. ASSUME NEW t \in Task, Continue(t) PROVE RouteInv'
  <2>1. CASE AcquireLocked(t) \/ AcquireRecheck(t) \/ ReleasePrepare(t) \/ HelloDone(t)
    BY <1>0, <2>1, AcquireLockedAction, AcquireRecheckAction, ReleasePrepareAction, HelloDoneAction
  <2>2. CASE ApplyRoute(t) \/ SetTransportOwner(t) \/ ChannelCheck(t) \/ ChannelSet(t)
    BY <1>0, <2>2, ApplyRouteAction, SetTransportOwnerAction, ChannelCheckAction, ChannelSetAction
  <2>3. CASE ClearOwner(t)
    BY <1>0, <2>3, ClearActions
  <2>4. CASE LinkClose(t) \/ LinkAdvance(t)
    BY <1>0, <2>4, RegistryActions
  <2> QED
    BY <1>0, <1>1, <2>1, <2>2, <2>3, <2>4, AwayActions DEF Continue
<1>2. ASSUME NEW l \in Link, LinkEvent(l) PROVE RouteInv'
  BY <1>0, <1>2, LinkEventActions
<1>3. ASSUME NEW l \in Link, NEW i \in Slot, Transmit(l, i) PROVE RouteInv'
  BY <1>0, <1>3, TransmitActions
<1>4. CASE TickExpire
  BY <1>0, <1>4, ClearActions
<1>5. CASE OutputFailed \/ VmEpochAdvance \/ UNCHANGED vars
  BY <1>0, <1>5, OtherActions
<1> QED
  BY <1>1, <1>2, <1>3, <1>4, <1>5 DEF Next, Rest

\* The inductive invariant of transitions, snapshots, the route lock and the
\* two route writes holds in every behaviour.
THEOREM RouteInvariant == Spec => []RouteInv
  BY RouteInit, RouteStep, PTL DEF Spec

\* With nothing left to apply, SettledInv leaves no other case.
LEMMA RouteInvFollows == RouteInv => RoutesFollowSession
<1> SUFFICES ASSUME RouteInv, \A t \in Task : ~RoutePending(t)
             PROVE  /\ session.state = "FREE" => transportOwner = NoRef /\ channelOwner = NoRef
                    /\ IsCurrent(session.owner_link) => /\ transportOwner = session.owner_link
                                                       /\ channelOwner = session.owner_link
  BY DEF RoutesFollowSession
<1>1. ASSUME NEW t \in Task, Origin(t) PROVE FALSE
  BY <1>1 DEF Origin, Acquiring, InRoute, Latest, RoutePending
<1>2. CASE HasOwner(session) /\ ~IsCurrent(session.owner_link)
  BY <1>2 DEF HasOwner
<1>3. CASE Follows(transportOwner) /\ Follows(channelOwner)
  BY <1>3 DEF Follows
<1> QED
  BY <1>1, <1>2, <1>3 DEF RouteInv, SettledInv

\* However the tasks interleave, and however often ev_session_apply_route is
\* overtaken, the routes end up where the session says, for any set of links.
THEOREM RoutesCorrect == Spec => []RoutesFollowSession
  BY RouteInvariant, RouteInvFollows, PTL

(***************************************************************************)
(* Serial links: a byte stream never changes hands unnoticed.              *)
(***************************************************************************)
\* A reference on a serial link is not newer than the link, and is current only
\* while it is the owner's.
SerialRef(r) ==
  r.link \in SerialLinks => /\ r.gen <= links[r.link].gen
                            /\ IsCurrent(r) => HasOwner(session) /\ session.owner_link = r

\* Every route that is written, or is still to be written.
SerialRefsInv ==
  /\ SerialRef(channelOwner)
  /\ \A t \in Task : pc[t] \in RoutePc => SerialRef(loc[t].snapshot.owner_link)

\* Only links that are not serial are closed or reopened.
FrameStays(l, f) ==
  f # NoFrame => f.link.link = l /\ (f.kind = "CLOSE" => l \in TcpLinks)
TaskStays(p, x) ==
  p \in {"close", "advance"} \/ x.next \in {"close", "advance"} => x.ref.link \notin SerialLinks
SerialStaysInv ==
  /\ \A l \in Link, i \in Slot : FrameStays(l, txq[l][i])
  /\ \A t \in Task : TaskStays(pc[t], loc[t])

SerialIInv == SerialStaysInv /\ SerialRefsInv /\ StaleSerialOwnerIsTransient

\* What the steps below start from.
SerialBase == RouteInv /\ CompletionInv /\ SerialIInv

\* The links that are serial, and the session as far as routes can tell.
SerialLinksKept == \A l \in SerialLinks : links'[l] = links[l]
OwnerKept ==
  /\ HasOwner(session)' <=> HasOwner(session)
  /\ session'.owner_link = session.owner_link
  /\ session'.session_id = session.session_id

LEMMA NoSerialInNone == NoRef.link \notin SerialLinks
<1>1. NoRef.link = NoLink
  BY DEF NoRef
<1> QED
  BY <1>1, LinkAssumption DEF Link

LEMMA SerialRefKept ==
  ASSUME SerialLinksKept, OwnerKept, NEW r, SerialRef(r)
  PROVE  /\ r.link \in SerialLinks => r.gen <= links'[r.link].gen
         /\ r.link \in SerialLinks /\ IsCurrent(r)' => HasOwner(session)' /\ session'.owner_link = r
         /\ r.link \in SerialLinks => (IsCurrent(r)' <=> IsCurrent(r))
  BY DEF SerialLinksKept, OwnerKept, SerialRef, IsCurrent

\* A step that leaves the owner and the serial links as they are.
LEMMA SerialStep ==
  ASSUME SerialBase, NEW t \in Task, OthersKept(t), SerialLinksKept, OwnerKept,
         TaskStays(pc'[t], loc'[t]),
         \A l \in Link, i \in Slot : FrameStays(l, txq'[l][i]),
         pc'[t] \in RoutePc => SerialRef(loc'[t].snapshot.owner_link),
         SerialRef(channelOwner'),
         HasOwner(session) /\ ~IsCurrent(session.owner_link)
           /\ (Clearing(t) \/ (pc[t] = "recheck" /\ loc[t].ref = session.owner_link))
           => Clearing(t)'
  PROVE  SerialIInv'
<1>1. SerialStaysInv'
  BY DEF SerialBase, SerialIInv, SerialStaysInv, OthersKept
<1>2. SerialRefsInv'
  <2>1. SerialRef(channelOwner)'
    BY SerialRefKept DEF SerialRef
  <2>2. ASSUME NEW u \in Task, pc'[u] \in RoutePc PROVE SerialRef(loc[u].snapshot.owner_link)'
    <3>1. SerialRef(loc'[u].snapshot.owner_link)
      <4>1. CASE u = t
        BY <2>2, <4>1
      <4>2. CASE u # t
        BY <2>2, <4>2 DEF OthersKept, SerialBase, SerialIInv, SerialRefsInv
      <4> QED
        BY <4>1, <4>2
    <3> QED
      BY <3>1, SerialRefKept DEF SerialRef
  <2> QED
    BY <2>1, <2>2 DEF SerialRefsInv
<1>3. StaleSerialOwnerIsTransient'
  <2> SUFFICES ASSUME session'.owner_link.link \in SerialLinks, ~IsCurrent(session.owner_link)'
               PROVE  \E u \in Task :
                        \/ Clearing(u)'
                        \/ pc'[u] = "recheck" /\ loc'[u].ref = session'.owner_link
    BY DEF StaleSerialOwnerIsTransient
  <2>1. session.owner_link.link \in SerialLinks /\ ~IsCurrent(session.owner_link)
    BY DEF OwnerKept, SerialLinksKept, IsCurrent
  <2>2. HasOwner(session)
    BY <2>1, NoSerialInNone DEF SerialBase, RouteInv, GenInv, HasOwner
  <2>3. PICK u \in Task : Clearing(u) \/ (pc[u] = "recheck" /\ loc[u].ref = session.owner_link)
    BY <2>1 DEF SerialBase, SerialIInv, StaleSerialOwnerIsTransient
  <2>4. CASE u = t
    BY <2>1, <2>2, <2>3, <2>4
  <2>5. CASE u # t
    BY <2>3, <2>5 DEF OthersKept, OwnerKept, Clearing
  <2> QED
    BY <2>4, <2>5
<1> QED
  BY <1>1, <1>2, <1>3 DEF SerialIInv

\* The same, when nothing but a task moves: it goes where nobody carries a route.
LEMMA SerialAway ==
  ASSUME SerialBase, NEW t \in Task, OthersKept(t), SerialLinksKept, OwnerKept,
         UNCHANGED channelOwner,
         TaskStays(pc'[t], loc'[t]), pc'[t] \notin RoutePc, pc[t] \notin {"clear", "recheck"},
         \A l \in Link, i \in Slot : FrameStays(l, txq'[l][i])
  PROVE  SerialIInv'
<1>1. SerialRef(channelOwner')
  BY DEF SerialBase, SerialIInv, SerialRefsInv
<1> QED
  BY <1>1, SerialStep DEF Clearing

\* The ways of moving keep away from serial links.
LEMMA TaskHasStayed ==
  ASSUME SerialBase, NEW t \in Task
  PROVE  TypeOK /\ TaskStays(pc[t], loc[t]) /\ loc[t] \in Local
  BY DEF SerialBase, SerialIInv, SerialStaysInv, RouteInv, TypeOK

LEMMA IdleStays == TaskStays("idle", NoLocal)
  BY DEF TaskStays, NoLocal

LEMMA ClearStays ==
  ASSUME NEW r, NEW sid, NEW releasing, NEW next, NEW failed,
         next \in {"close", "advance"} => r.link \notin SerialLinks
  PROVE  TaskStays("clear", ClearLocal(r, sid, releasing, next, failed))
<1> DEFINE x == ClearLocal(r, sid, releasing, next, failed)
<1>1. x.ref = r /\ x.next = next
  BY Zenon DEF ClearLocal, NoLocal
<1>2. TaskStays("clear", x)
  <2> HIDE DEF x
  <2> QED
    BY <1>1 DEF TaskStays
<1> QED
  BY <1>2

LEMMA ReturnStays ==
  ASSUME TypeOK, NEW t \in Task, Return(t), TaskStays(pc[t], loc[t])
  PROVE  OthersKept(t) /\ TaskStays(pc'[t], loc'[t]) /\ pc'[t] \notin RoutePc
<1>1. /\ OthersKept(t) /\ pc'[t] \in {"idle", "lost", "cancel", "close", "advance"}
      /\ pc'[t] = loc[t].next
      /\ loc'[t] = IF loc[t].next = "idle" THEN NoLocal
                   ELSE [NoLocal EXCEPT !.ref = loc[t].ref, !.failed = loc[t].failed]
  BY ReturnShape
<1>2. CASE loc[t].next = "idle"
  BY <1>1, <1>2, IdleStays DEF RoutePc
<1>3. CASE loc[t].next # "idle"
  <2>1. loc'[t].ref = loc[t].ref /\ loc'[t].next = "idle"
    BY <1>1, <1>3 DEF NoLocal
  <2> QED
    BY <1>1, <2>1 DEF TaskStays, RoutePc
<1> QED
  BY <1>2, <1>3

\* The queues when nothing is queued, or only removed from them.
LEMMA FramesStay ==
  ASSUME SerialBase,
         \A l \in Link, i \in Slot : txq'[l][i] \in {txq[l][i], NoFrame}
  PROVE  \A l \in Link, i \in Slot : FrameStays(l, txq'[l][i])
  BY DEF SerialBase, SerialIInv, SerialStaysInv, FrameStays

LEMMA EnqueueStays ==
  ASSUME SerialBase, NEW kind \in {"HELLO", "RELEASE", "CLOSE"}, NEW r \in RefOrNone,
         NEW sid \in Nat, kind = "CLOSE" => r.link \in TcpLinks,
         Enqueue(Response(kind, r, sid))
  PROVE  \A l \in Link, i \in Slot : FrameStays(l, txq'[l][i])
<1> DEFINE f == Response(kind, r, sid)
<1>1. f.link = r /\ f.kind = kind
  BY DEF Response
<1>2. PICK i \in Slot : txq' = [txq EXCEPT ![f.link.link][i] = f]
  BY DEF Enqueue
<1> HIDE DEF f
<1>3. ASSUME NEW l \in Link, NEW j \in Slot
      PROVE  txq'[l][j] = txq[l][j] \/ (l = r.link /\ txq'[l][j] = f)
  BY <1>1, <1>2, <1>3 DEF SerialBase, RouteInv, TypeOK
<1> QED
  BY <1>1, <1>3 DEF SerialBase, SerialIInv, SerialStaysInv, FrameStays

\* Answers, and steps that only go on to another call.
LEMMA SerialAnswers ==
  ASSUME SerialBase, NEW t \in Task,
         HelloRespond(t) \/ BusyRespond(t) \/ ReleaseRespond(t)
  PROVE  SerialIInv'
<1>k. /\ TypeOK /\ TaskStays(pc[t], loc[t]) /\ loc[t] \in Local
      /\ loc[t].ref \in RefOrNone /\ loc[t].session_id \in Nat
      /\ loc[t].snapshot.session_id \in Nat
  BY TaskHasStayed DEF Local, Snapshot
<1>q. /\ UNCHANGED channelOwner /\ SerialLinksKept /\ OwnerKept
      /\ pc[t] \notin {"clear", "recheck"}
  BY DEF HelloRespond, BusyRespond, ReleaseRespond, SerialLinksKept, OwnerKept, HasOwner
<1>1. CASE Idle(t) /\ \A l \in Link, i \in Slot : FrameStays(l, txq'[l][i])
  <2>1. OthersKept(t) /\ pc'[t] = "idle" /\ loc'[t] = NoLocal
    BY <1>k, <1>1, IdleShape
  <2> QED
    BY <1>q, <1>1, <2>1, IdleStays, SerialAway DEF RoutePc
<1>2. ASSUME NEW sid, NEW releasing, Clear(t, loc[t].ref, sid, releasing, "idle", 0), UNCHANGED txq
      PROVE  SerialIInv'
  <2>1. /\ OthersKept(t) /\ pc'[t] = "clear"
        /\ loc'[t] = ClearLocal(loc[t].ref, sid, releasing, "idle", 0)
    BY <1>k, <1>2 DEF Clear, ClearLocal, OthersKept, TypeOK
  <2>2. TaskStays("clear", loc'[t])
    <3>1. "idle" \notin {"close", "advance"}
      OBVIOUS
    <3> QED
      BY <2>1, <3>1, ClearStays, Zenon
  <2>3. \A l \in Link, i \in Slot : FrameStays(l, txq'[l][i])
    BY <1>2, FramesStay
  <2> QED
    BY <1>q, <2>1, <2>2, <2>3, SerialAway DEF RoutePc
<1>3. CASE HelloRespond(t)
  <2>1. CASE Enqueue(Response("HELLO", loc[t].ref, loc[t].snapshot.session_id)) /\ Idle(t)
    BY <1>k, <1>1, <2>1, EnqueueStays
  <2>2. CASE /\ Clear(t, loc[t].ref, loc[t].snapshot.session_id, FALSE, "idle", 0)
             /\ UNCHANGED txq
    BY <1>2, <2>2, Zenon
  <2> QED
    BY <1>3, <2>1, <2>2 DEF HelloRespond
<1>4. CASE ReleaseRespond(t)
  <2>1. CASE Enqueue(Response("RELEASE", loc[t].ref, loc[t].session_id)) /\ Idle(t)
    BY <1>k, <1>1, <2>1, EnqueueStays
  <2>2. CASE /\ Clear(t, loc[t].ref, loc[t].session_id, TRUE, "idle", 0)
             /\ UNCHANGED txq
    BY <1>2, <2>2, Zenon
  <2> QED
    BY <1>4, <2>1, <2>2 DEF ReleaseRespond
<1>5. CASE BusyRespond(t)
  <2>1. CASE Idle(t) /\ UNCHANGED txq
    BY <1>1, <2>1, FramesStay
  <2>2. CASE loc[t].ref.link \in TcpLinks /\ Enqueue(Response("CLOSE", loc[t].ref, 0)) /\ Idle(t)
    BY <1>k, <1>1, <2>2, EnqueueStays
  <2>3. CASE loc[t].ref.link \in TcpLinks /\ Goto(t, "close") /\ UNCHANGED <<loc, txq>>
    <3>1. OthersKept(t) /\ pc'[t] = "close" /\ loc'[t] = loc[t]
      BY <1>k, <2>3, GotoShape
    <3>2. TaskStays("close", loc[t])
      BY <2>3, LinkAssumption DEF TaskStays
    <3>3. \A l \in Link, i \in Slot : FrameStays(l, txq'[l][i])
      BY <2>3, FramesStay
    <3> QED
      BY <1>q, <3>1, <3>2, <3>3, SerialAway DEF RoutePc
  <2> QED
    BY <1>5, <2>1, <2>2, <2>3 DEF BusyRespond
<1> QED
  BY <1>3, <1>4, <1>5

\* ev_session_acquire: the owner's reference came from the registry.
LEMMA SerialAcquire ==
  ASSUME SerialBase, NEW t \in Task, AcquireLocked(t)
  PROVE  SerialIInv'
<1>k. /\ TypeOK /\ TaskStays(pc[t], loc[t]) /\ loc[t] \in Local /\ pc[t] = "acquire"
      /\ session \in SessionType /\ UNCHANGED <<links, channelOwner, txq>>
      /\ loc[t].ref \in Ref /\ loc[t].ref.gen <= links[loc[t].ref.link].gen
  BY TaskHasStayed DEF AcquireLocked, TypeOK, SerialBase, RouteInv, GenInv
<1>f. \A l \in Link, i \in Slot : FrameStays(l, txq'[l][i])
  BY <1>k, FramesStay
<1>1. CASE session.state = "FREE"
  <2>1. /\ session' = Granted(loc[t].ref, loc[t].nonce)
        /\ loc' = [loc EXCEPT ![t].snapshot = TakeSnapshot(session'), ![t].acquired = TRUE]
        /\ Goto(t, "recheck")
    BY <1>1 DEF AcquireLocked
  <2>2. session'.state = "OWNED" /\ session'.owner_link = loc[t].ref
    BY <1>k, <2>1 DEF Granted, SessionType
  <2>3. loc'[t] = [loc[t] EXCEPT !.snapshot = TakeSnapshot(session'), !.acquired = TRUE]
    BY <1>k, <2>1 DEF TypeOK
  <2>4. /\ loc'[t].snapshot = TakeSnapshot(session') /\ loc'[t].ref = loc[t].ref
        /\ loc'[t].next = loc[t].next
    BY <1>k, <2>3 DEF Local
  <2>5. pc'[t] = "recheck" /\ OthersKept(t)
    BY <1>k, <2>1 DEF Goto, OthersKept, TypeOK
  <2>6. loc'[t].snapshot.owner_link = loc[t].ref
    BY <2>2, <2>4 DEF TakeSnapshot
  <2>7. SerialStaysInv'
    <3>1. TaskStays(pc'[t], loc'[t])
      BY <1>k, <2>4, <2>5 DEF TaskStays
    <3> QED
      BY <1>f, <2>5, <3>1 DEF SerialStaysInv, SerialBase, SerialIInv, OthersKept
  <2>8. SerialRefsInv'
    <3>1. \A q : SerialRef(q) => SerialRef(q)'
      BY <1>k, <1>1, <2>2 DEF SerialRef, IsCurrent, HasOwner
    <3>2. \A q : q = loc[t].ref => SerialRef(q)'
      BY <1>k, <2>2 DEF SerialRef, HasOwner
    <3>3. SerialRef(channelOwner)'
      BY <1>k, <3>1 DEF SerialBase, SerialIInv, SerialRefsInv
    <3>4. ASSUME NEW u \in Task, pc'[u] \in RoutePc
          PROVE  SerialRef(loc[u].snapshot.owner_link)'
      <4>1. CASE u = t
        BY <2>6, <3>2, <4>1 DEF SerialRef
      <4>2. CASE u # t
        <5>1. pc[u] \in RoutePc /\ loc'[u] = loc[u]
          BY <2>5, <3>4, <4>2 DEF OthersKept
        <5>2. SerialRef(loc[u].snapshot.owner_link)
          BY <5>1 DEF SerialBase, SerialIInv, SerialRefsInv
        <5> QED
          BY <3>1, <5>1, <5>2 DEF SerialRef
      <4> QED
        BY <4>1, <4>2
    <3> QED
      BY <3>3, <3>4 DEF SerialRefsInv
  <2>9. StaleSerialOwnerIsTransient'
    BY <2>2, <2>4, <2>5 DEF StaleSerialOwnerIsTransient
  <2> QED
    BY <2>7, <2>8, <2>9 DEF SerialIInv
<1>2. CASE /\ session.state # "FREE"
           /\ loc' = [loc EXCEPT ![t].snapshot = TakeSnapshot(session)]
           /\ Goto(t, "recheck") \/ Goto(t, "busy")
           /\ UNCHANGED session
  <2>1. loc'[t] = [loc[t] EXCEPT !.snapshot = TakeSnapshot(session)]
    BY <1>k, <1>2 DEF TypeOK
  <2>2. /\ loc'[t].snapshot = TakeSnapshot(session) /\ loc'[t].ref = loc[t].ref
        /\ loc'[t].next = loc[t].next
    BY <1>k, <2>1 DEF Local
  <2>3. OthersKept(t) /\ pc'[t] \in {"recheck", "busy"}
    BY <1>k, <1>2 DEF OthersKept, Goto, TypeOK
  <2>4. SerialRef(loc'[t].snapshot.owner_link)
    BY <1>2, <2>2 DEF TakeSnapshot, SerialRef, HasOwner, SerialBase, RouteInv, GenInv
  <2>5. TaskStays(pc'[t], loc'[t])
    BY <1>k, <2>2, <2>3 DEF TaskStays
  <2>6. SerialRef(channelOwner') /\ SerialLinksKept /\ OwnerKept
    BY <1>k, <1>2 DEF SerialBase, SerialIInv, SerialRefsInv, SerialLinksKept, OwnerKept, HasOwner
  <2> QED
    BY <1>k, <1>f, <2>3, <2>4, <2>5, <2>6, SerialStep DEF Clearing
<1> QED
  BY <1>1, <1>2 DEF AcquireLocked

\* A step of a call changes no link, and of the session neither its owner nor
\* its id; what a task carries into the route code it carried before.
LEMMA SerialForward ==
  ASSUME SerialBase, NEW t \in Task, OthersKept(t), UNCHANGED links, OwnerKept,
         TaskStays(pc'[t], loc'[t]),
         \A l \in Link, i \in Slot : txq'[l][i] \in {txq[l][i], NoFrame},
         pc'[t] \in RoutePc => SerialRef(loc'[t].snapshot.owner_link),
         SerialRef(channelOwner'),
         HasOwner(session) /\ ~IsCurrent(session.owner_link)
           /\ (Clearing(t) \/ (pc[t] = "recheck" /\ loc[t].ref = session.owner_link))
           => Clearing(t)'
  PROVE  SerialIInv'
<1>1. SerialLinksKept
  BY DEF SerialLinksKept
<1>2. \A l \in Link, i \in Slot : FrameStays(l, txq'[l][i])
  BY FramesStay
<1> QED
  BY <1>1, <1>2, SerialStep

\* The link is checked again: a stale one goes to clear, for the present session.
LEMMA SerialRecheck ==
  ASSUME SerialBase, NEW t \in Task, AcquireRecheck(t)
  PROVE  SerialIInv'
<1>k. /\ TypeOK /\ TaskStays(pc[t], loc[t]) /\ loc[t] \in Local /\ pc[t] = "recheck"
      /\ UNCHANGED <<links, session, channelOwner, txq>>
      /\ SerialRef(loc[t].snapshot.owner_link) /\ SerialRef(channelOwner')
  BY TaskHasStayed DEF AcquireRecheck, SerialBase, SerialIInv, SerialRefsInv, RoutePc
<1>q. OwnerKept /\ \A l \in Link, i \in Slot : txq'[l][i] \in {txq[l][i], NoFrame}
  BY <1>k DEF OwnerKept, HasOwner
<1>1. CASE Clear(t, loc[t].ref, 0, FALSE, "idle", 0)
  <2>1. /\ OthersKept(t) /\ pc'[t] = "clear"
        /\ loc'[t] = ClearLocal(loc[t].ref, 0, FALSE, "idle", 0)
    BY <1>k, <1>1 DEF Clear, ClearLocal, OthersKept, TypeOK
  <2>2. TaskStays("clear", loc'[t])
    <3>1. "idle" \notin {"close", "advance"}
      OBVIOUS
    <3> QED
      BY <2>1, <3>1, ClearStays, Zenon
  <2>3. loc'[t].ref = loc[t].ref /\ loc'[t].session_id = 0
    BY <2>1 DEF ClearLocal, NoLocal
  <2>4. loc[t].ref = session.owner_link => Clearing(t)'
    BY <1>k, <2>1, <2>3 DEF Clearing
  <2>5. ~Clearing(t)
    BY <1>k DEF Clearing
  <2> QED
    BY <1>k, <1>q, <2>1, <2>2, <2>4, <2>5, SerialForward DEF RoutePc
<1>2. CASE IsCurrent(loc[t].ref) /\ pc'[t] \in {"apply", "respond"} /\ OthersKept(t)
           /\ loc'[t].snapshot = loc[t].snapshot /\ loc'[t].next = loc[t].next
           /\ loc'[t].ref = loc[t].ref
  <2>1. TaskStays(pc'[t], loc'[t])
    BY <1>k, <1>2 DEF TaskStays
  <2>2. SerialRef(loc'[t].snapshot.owner_link)
    BY <1>k, <1>2, Zenon
  <2>3. ~Clearing(t) /\ (~IsCurrent(session.owner_link) => loc[t].ref # session.owner_link)
    BY <1>k, <1>2 DEF Clearing
  <2> QED
    BY <1>k, <1>q, <1>2, <2>1, <2>2, <2>3, SerialForward
<1>3. CASE IsCurrent(loc[t].ref) /\ Goto(t, "apply") /\ loc' = [loc EXCEPT ![t].after = "respond"]
  <2>1. loc'[t] = [loc[t] EXCEPT !.after = "respond"]
    BY <1>k, <1>3 DEF TypeOK
  <2>2. loc'[t].snapshot = loc[t].snapshot /\ loc'[t].next = loc[t].next /\ loc'[t].ref = loc[t].ref
    BY <1>k, <2>1 DEF Local
  <2>3. pc'[t] = "apply" /\ OthersKept(t)
    BY <1>k, <1>3 DEF Goto, OthersKept, TypeOK
  <2> QED
    BY <1>2, <1>3, <2>2, <2>3
<1>4. CASE IsCurrent(loc[t].ref) /\ Goto(t, "respond") /\ UNCHANGED loc
  <2>1. pc'[t] = "respond" /\ OthersKept(t)
    BY <1>k, <1>4 DEF Goto, OthersKept, TypeOK
  <2> QED
    BY <1>2, <1>4, <2>1
<1> QED
  BY <1>1, <1>3, <1>4 DEF AcquireRecheck

LEMMA AfterApplyStays ==
  ASSUME TypeOK, NEW t \in Task, NEW applied, AfterApply(t, applied), TaskStays(pc[t], loc[t])
  PROVE  OthersKept(t) /\ TaskStays(pc'[t], loc'[t]) /\ pc'[t] \notin RoutePc
<1>1. ASSUME NEW p \in {"respond", "notify"}, Goto(t, p), UNCHANGED loc
      PROVE  OthersKept(t) /\ TaskStays(pc'[t], loc'[t]) /\ pc'[t] \notin RoutePc
  <2>1. OthersKept(t) /\ pc'[t] = p /\ loc'[t] = loc[t]
    BY <1>1, GotoShape
  <2> QED
    BY <2>1 DEF TaskStays, RoutePc
<1> QED
  BY <1>1, ReturnStays DEF AfterApply

\* ev_session_apply_route and the callback: the channel's route becomes a
\* snapshot's owner, which was the session's own.
LEMMA SerialRoutes ==
  ASSUME SerialBase, NEW t \in Task,
         \/ ApplyRoute(t) \/ SetTransportOwner(t) \/ ChannelCheck(t) \/ ChannelSet(t)
         \/ NotifyCheck(t) \/ Callback(t)
  PROVE  SerialIInv'
<1>k. /\ TypeOK /\ TaskStays(pc[t], loc[t]) /\ loc[t] \in Local
      /\ pc[t] \in RoutePc => SerialRef(loc[t].snapshot.owner_link)
      /\ SerialRef(channelOwner)
  BY TaskHasStayed DEF SerialBase, SerialIInv, SerialRefsInv
<1>q. /\ UNCHANGED <<links, session>> /\ OwnerKept
      /\ pc[t] \in {"apply", "setTransport", "channelCheck", "channelSet", "notify", "callback"}
  BY DEF ApplyRoute, SetTransportOwner, ChannelCheck, ChannelSet, NotifyCheck, Callback,
         OwnerKept, HasOwner
<1>c. ~Clearing(t) /\ pc[t] # "recheck"
  BY <1>q DEF Clearing
<1>s. SerialRef(channelOwner')
  BY <1>k DEF ApplyRoute, SetTransportOwner, ChannelCheck, ChannelSet, NotifyCheck, Callback, RoutePc
<1>f. \A l \in Link, i \in Slot : txq'[l][i] \in {txq[l][i], NoFrame}
  <2>1. CASE Callback(t)
    <3>1. CancelSession(txq, loc[t].previous)
      BY <2>1 DEF Callback
    <3> QED
      BY <1>k, <3>1 DEF CancelSession, WithoutSession, TypeOK
  <2>2. CASE UNCHANGED txq
    BY <2>2
  <2> QED
    BY <2>1, <2>2 DEF ApplyRoute, SetTransportOwner, ChannelCheck, ChannelSet, NotifyCheck
<1>1. ASSUME NEW p \in {"setTransport", "channelCheck", "channelSet", "callback"},
             Goto(t, p), UNCHANGED loc, pc[t] \in RoutePc \/ p = "callback"
      PROVE  SerialIInv'
  <2>1. OthersKept(t) /\ pc'[t] = p /\ loc'[t] = loc[t]
    BY <1>k, <1>1, GotoShape
  <2>2. TaskStays(pc'[t], loc'[t])
    BY <1>1, <1>k, <2>1 DEF TaskStays
  <2> QED
    BY <1>k, <1>q, <1>c, <1>s, <1>f, <1>1, <2>1, <2>2, SerialForward DEF RoutePc
<1>2. ASSUME NEW applied, AfterApply(t, applied) PROVE SerialIInv'
  <2>1. OthersKept(t) /\ TaskStays(pc'[t], loc'[t]) /\ pc'[t] \notin RoutePc
    BY <1>k, <1>2, AfterApplyStays
  <2> QED
    BY <1>q, <1>c, <1>s, <1>f, <2>1, SerialForward
<1>3. CASE Return(t)
  <2>1. OthersKept(t) /\ TaskStays(pc'[t], loc'[t]) /\ pc'[t] \notin RoutePc
    BY <1>k, <1>3, ReturnStays
  <2> QED
    BY <1>q, <1>c, <1>s, <1>f, <2>1, SerialForward
<1>4. CASE ApplyRoute(t)
  BY <1>1, <1>2, <1>4 DEF ApplyRoute, RoutePc
<1>5. CASE SetTransportOwner(t)
  BY <1>1, <1>5 DEF SetTransportOwner, RoutePc
<1>6. CASE ChannelCheck(t)
  BY <1>1, <1>2, <1>6 DEF ChannelCheck, RoutePc
<1>7. CASE ChannelSet(t)
  BY <1>2, <1>7 DEF ChannelSet
<1>8. CASE NotifyCheck(t)
  BY <1>1, <1>3, <1>8 DEF NotifyCheck
<1>9. CASE Callback(t)
  BY <1>3, <1>9 DEF Callback
<1> QED
  BY <1>4, <1>5, <1>6, <1>7, <1>8, <1>9

\* The release, the end of a hello and a failed frame: the owner stays.
LEMMA SerialCalls ==
  ASSUME SerialBase, NEW t \in Task,
         ReleasePrepare(t) \/ HelloDone(t) \/ FailLost(t) \/ FailCancel(t)
  PROVE  SerialIInv'
<1>k. /\ TypeOK /\ TaskStays(pc[t], loc[t]) /\ loc[t] \in Local /\ session \in SessionType
      /\ SerialRef(channelOwner) /\ UNCHANGED <<links, channelOwner>>
  BY TaskHasStayed DEF SerialBase, SerialIInv, SerialRefsInv, TypeOK, ReleasePrepare, HelloDone,
                       FailLost, FailCancel
<1>c. ~Clearing(t) /\ pc[t] # "recheck"
  BY DEF Clearing, ReleasePrepare, HelloDone, FailLost, FailCancel
<1>1. CASE Idle(t) /\ UNCHANGED session
           /\ \A l \in Link, i \in Slot : txq'[l][i] \in {txq[l][i], NoFrame}
  <2>1. OthersKept(t) /\ pc'[t] = "idle" /\ loc'[t] = NoLocal
    BY <1>k, <1>1, IdleShape
  <2>2. OwnerKept
    BY <1>1 DEF OwnerKept, HasOwner
  <2> QED
    BY <1>k, <1>c, <1>1, <2>1, <2>2, IdleStays, SerialForward DEF RoutePc
<1>2. CASE ReleasePrepare(t)
  <2>1. CASE /\ session.state = "OWNED"
             /\ session' = [session EXCEPT !.state = "RELEASING", !.input_generation = @ + 1]
             /\ Goto(t, "releaseRespond") /\ UNCHANGED <<loc, txq>>
    <3>1. OthersKept(t) /\ pc'[t] = "releaseRespond" /\ loc'[t] = loc[t]
      BY <1>k, <2>1, GotoShape
    <3>2. OwnerKept
      BY <1>k, <2>1 DEF OwnerKept, HasOwner, SessionType
    <3>3. TaskStays(pc'[t], loc'[t])
      BY <1>k, <3>1 DEF TaskStays
    <3> QED
      BY <1>k, <1>c, <2>1, <3>1, <3>2, <3>3, SerialForward DEF RoutePc
  <2> QED
    BY <1>1, <1>2, <2>1 DEF ReleasePrepare
<1>3. CASE HelloDone(t)
  <2>1. CASE /\ session.state = "OWNED"
             /\ session' = [session EXCEPT !.handshake_complete = TRUE]
             /\ Goto(t, "apply")
             /\ loc' = [loc EXCEPT ![t].snapshot = TakeSnapshot(session')]
             /\ UNCHANGED txq
    <3>1. loc'[t] = [loc[t] EXCEPT !.snapshot = TakeSnapshot(session')]
      BY <1>k, <2>1 DEF TypeOK
    <3>2. /\ loc'[t].snapshot = TakeSnapshot(session') /\ loc'[t].ref = loc[t].ref
          /\ loc'[t].next = loc[t].next
      BY <1>k, <3>1 DEF Local
    <3>3. OwnerKept
      BY <1>k, <2>1 DEF OwnerKept, HasOwner, SessionType
    <3>4. loc'[t].snapshot.owner_link = session.owner_link
      BY <3>2, <3>3 DEF TakeSnapshot, OwnerKept
    <3>5. SerialRef(session.owner_link)
      BY <2>1 DEF SerialRef, HasOwner, SerialBase, RouteInv, GenInv
    <3>6. SerialRef(loc'[t].snapshot.owner_link)
      BY <3>4, <3>5, Zenon
    <3>7. OthersKept(t) /\ pc'[t] = "apply"
      BY <1>k, <2>1 DEF OthersKept, Goto, TypeOK
    <3>8. TaskStays(pc'[t], loc'[t])
      BY <1>k, <3>2, <3>7 DEF TaskStays
    <3> QED
      BY <1>k, <1>c, <2>1, <3>3, <3>6, <3>7, <3>8, SerialForward
  <2> QED
    BY <1>1, <1>3, <2>1 DEF HelloDone
<1>4. CASE FailLost(t)
  <2>0. Clear(t, loc[t].ref, 0, FALSE, "cancel", loc[t].failed) /\ UNCHANGED <<session, txq>>
    BY <1>4 DEF FailLost
  <2>1. /\ OthersKept(t) /\ pc'[t] = "clear"
        /\ loc'[t] = ClearLocal(loc[t].ref, 0, FALSE, "cancel", loc[t].failed)
    BY <1>k, <2>0 DEF Clear, ClearLocal, OthersKept, TypeOK
  <2>2. TaskStays("clear", loc'[t])
    <3>1. "cancel" \notin {"close", "advance"}
      OBVIOUS
    <3> QED
      BY <2>1, <3>1, ClearStays, Zenon
  <2>3. OwnerKept
    BY <2>0 DEF OwnerKept, HasOwner
  <2> QED
    BY <1>k, <1>c, <2>0, <2>1, <2>2, <2>3, SerialForward DEF RoutePc
<1>5. CASE FailCancel(t)
  <2>1. CancelSession(txq, loc[t].failed) /\ UNCHANGED session
    BY <1>5 DEF FailCancel
  <2>2. \A l \in Link, i \in Slot : txq'[l][i] \in {txq[l][i], NoFrame}
    BY <1>k, <2>1 DEF CancelSession, WithoutSession, TypeOK
  <2>3. CASE loc[t].ref.link \in TcpLinks /\ Goto(t, "close") /\ UNCHANGED loc
    <3>1. OthersKept(t) /\ pc'[t] = "close" /\ loc'[t] = loc[t]
      BY <1>k, <2>3, GotoShape
    <3>2. TaskStays("close", loc[t])
      BY <2>3, LinkAssumption DEF TaskStays
    <3>3. OwnerKept
      BY <2>1 DEF OwnerKept, HasOwner
    <3> QED
      BY <1>k, <1>c, <2>2, <3>1, <3>2, <3>3, SerialForward DEF RoutePc
  <2> QED
    BY <1>1, <1>5, <2>1, <2>2, <2>3 DEF FailCancel
<1> QED
  BY <1>2, <1>3, <1>4, <1>5

\* Only a link that is not serial is closed or rotated on its own.
LEMMA SerialRegistry ==
  ASSUME SerialBase, NEW t \in Task, LinkClose(t) \/ LinkAdvance(t)
  PROVE  SerialIInv'
<1>k. /\ TypeOK /\ TaskStays(pc[t], loc[t]) /\ pc[t] \in {"close", "advance"}
      /\ UNCHANGED <<session, channelOwner, txq>> /\ Idle(t)
  BY TaskHasStayed DEF LinkClose, LinkAdvance
<1>1. loc[t].ref.link \notin SerialLinks
  BY <1>k DEF TaskStays
<1>2. SerialLinksKept
  BY <1>k, <1>1 DEF SerialLinksKept, LinkClose, LinkAdvance, LinkCloseEffect, LinkAdvanceEffect,
                    TypeOK, Link
<1>3. OthersKept(t) /\ pc'[t] = "idle" /\ loc'[t] = NoLocal
  BY <1>k, IdleShape
<1>4. OwnerKept /\ \A l \in Link, i \in Slot : FrameStays(l, txq'[l][i])
  BY <1>k, FramesStay DEF OwnerKept, HasOwner
<1> QED
  BY <1>k, <1>2, <1>3, <1>4, IdleStays, SerialAway DEF RoutePc

\* Ownership is taken away: the serial stream is rotated in the same locked
\* section, so no route that was ever handed out is current any more.
LEMMA SerialCleared ==
  ASSUME SerialBase, NEW t \in Task, ClearOwnerEffect(t), UNCHANGED <<channelOwner, txq>>
  PROVE  SerialIInv'
<1>k. /\ TypeOK /\ TaskStays(pc[t], loc[t]) /\ loc[t] \in Local /\ session \in SessionType
  BY TaskHasStayed DEF TypeOK
<1>1. session' = Cleared(session) /\ session'.owner_link = NoRef
  BY <1>k DEF ClearOwnerEffect, Cleared, SessionType
<1>2. /\ pc'[t] = "apply" /\ OthersKept(t) /\ loc'[t].snapshot.owner_link = NoRef
      /\ loc'[t].next = loc[t].next /\ loc'[t].ref = loc[t].ref
  <2>1. loc' = [loc EXCEPT ![t].snapshot = TakeSnapshot(session'),
                           ![t].previous = session.session_id, ![t].after = "notify"]
    BY <1>1 DEF ClearOwnerEffect
  <2>2. loc'[t] = [loc[t] EXCEPT !.snapshot = TakeSnapshot(session'),
                                 !.previous = session.session_id, !.after = "notify"]
    BY <1>k, <2>1 DEF TypeOK
  <2>3. /\ loc'[t].snapshot = TakeSnapshot(session')
        /\ loc'[t].next = loc[t].next /\ loc'[t].ref = loc[t].ref
    BY <1>k, <2>2 DEF Local
  <2>4. pc'[t] = "apply" /\ OthersKept(t)
    BY <1>k, <2>1 DEF ClearOwnerEffect, OthersKept, TypeOK
  <2> QED
    BY <1>1, <2>3, <2>4 DEF TakeSnapshot
<1>3. SerialStaysInv'
  <2>1. TaskStays(pc'[t], loc'[t])
    BY <1>k, <1>2 DEF TaskStays
  <2> QED
    BY <1>2, <2>1 DEF SerialStaysInv, SerialBase, SerialIInv, OthersKept
<1>4. \A q \in RefOrNone : SerialRef(q) =>
        (q.link \in SerialLinks => q.gen <= links'[q.link].gen /\ ~IsCurrent(q)')
  <2> TAKE q \in RefOrNone
  <2> SUFFICES ASSUME SerialRef(q), q.link \in SerialLinks
               PROVE  q.gen <= links'[q.link].gen /\ ~IsCurrent(q)'
    OBVIOUS
  <2>g. q.gen <= links[q.link].gen /\ q.link \in Link /\ q.gen \in Nat
    BY DEF SerialRef, Link, RefOrNone, Ref, NoRef
  <2>1. CASE ~IsCurrent(q) /\ links'[q.link] = links[q.link]
    BY <2>g, <2>1 DEF IsCurrent
  <2>2. CASE IsCurrent(session.owner_link) /\ session.owner_link.link = q.link
    <3>1. links'[q.link].gen = links[q.link].gen + 1
      BY <1>k, <2>2, AdvanceShape DEF ClearOwnerEffect
    <3>2. links[q.link].gen \in Nat /\ links[q.link].gen = session.owner_link.gen
      BY <1>k, <2>g, <2>2 DEF TypeOK, IsCurrent
    <3>3. q.gen # links'[q.link].gen /\ q.gen <= links'[q.link].gen
      <4> DEFINE n == links[q.link].gen
                 m == links'[q.link].gen
                 k == q.gen
      <4> SUFFICES k # m /\ k <= m
        OBVIOUS
      <4>1. n \in Nat /\ m = n + 1 /\ k <= n /\ k \in Nat
        BY <2>g, <3>1, <3>2
      <4> HIDE DEF n, m, k
      <4> QED
        BY <4>1
    <3> QED
      BY <3>3 DEF IsCurrent
  <2>3. ~IsCurrent(q) \/ (IsCurrent(session.owner_link) /\ session.owner_link.link = q.link)
    BY DEF SerialRef
  <2>4. \/ IsCurrent(session.owner_link) /\ session.owner_link.link = q.link
        \/ links'[q.link] = links[q.link]
    <3>1. CASE session.owner_link.link \in SerialLinks /\ IsCurrent(session.owner_link)
      BY <1>k, <2>g, <3>1, AdvanceShape DEF ClearOwnerEffect
    <3>2. CASE ~(session.owner_link.link \in SerialLinks /\ IsCurrent(session.owner_link))
      BY <3>2 DEF ClearOwnerEffect, LinkAdvanceEffect
    <3> QED
      BY <3>1, <3>2
  <2> QED
    BY <2>1, <2>2, <2>3, <2>4
<1>5. SerialRefsInv'
  <2>1. SerialRef(channelOwner)'
    <3>1. channelOwner \in RefOrNone
      BY <1>k DEF TypeOK
    <3> QED
      BY <1>4, <3>1 DEF SerialRef, SerialBase, SerialIInv, SerialRefsInv
  <2>2. ASSUME NEW u \in Task, pc'[u] \in RoutePc PROVE SerialRef(loc[u].snapshot.owner_link)'
    <3>1. CASE u = t
      BY <1>2, <3>1, NoSerialInNone DEF SerialRef
    <3>2. CASE u # t
      <4>1. pc[u] \in RoutePc /\ loc'[u] = loc[u]
        BY <1>2, <2>2, <3>2 DEF OthersKept
      <4>2. SerialRef(loc[u].snapshot.owner_link)
        BY <4>1 DEF SerialBase, SerialIInv, SerialRefsInv
      <4>3. loc[u].snapshot.owner_link \in RefOrNone
        BY <1>k DEF TypeOK, Local, Snapshot
      <4> QED
        BY <1>4, <4>1, <4>2, <4>3 DEF SerialRef
    <3> QED
      BY <3>1, <3>2
  <2> QED
    BY <2>1, <2>2 DEF SerialRefsInv
<1>6. StaleSerialOwnerIsTransient'
  BY <1>1, NoSerialInNone DEF StaleSerialOwnerIsTransient
<1> QED
  BY <1>3, <1>5, <1>6 DEF SerialIInv

LEMMA SerialClear ==
  ASSUME SerialBase, NEW t \in Task, ClearOwner(t)
  PROVE  SerialIInv'
<1>k. /\ TypeOK /\ TaskStays(pc[t], loc[t]) /\ pc[t] = "clear"
      /\ SerialRef(channelOwner) /\ UNCHANGED <<channelOwner, txq>>
  BY TaskHasStayed DEF ClearOwner, SerialBase, SerialIInv, SerialRefsInv
<1>1. CASE ClearOwnerEffect(t)
  BY <1>k, <1>1, SerialCleared
<1>2. CASE /\ ~MayClear(loc[t].ref, loc[t].session_id, loc[t].require_releasing)
           /\ Return(t) /\ UNCHANGED <<links, session>>
  <2>1. OthersKept(t) /\ TaskStays(pc'[t], loc'[t]) /\ pc'[t] \notin RoutePc
    BY <1>k, <1>2, ReturnStays
  <2>2. HasOwner(session) => ~Clearing(t)
    BY <1>2, MayClearPresent DEF SerialBase, HasOwner
  <2>3. OwnerKept /\ pc[t] # "recheck"
    BY <1>k, <1>2 DEF OwnerKept, HasOwner
  <2> QED
    BY <1>k, <1>2, <2>1, <2>2, <2>3, SerialForward
<1> QED
  BY <1>1, <1>2 DEF ClearOwner

\* A task that was idle enters a call; the owner, the links and the queues stay.
LEMMA SerialEnter ==
  ASSUME SerialBase, NEW t \in Task, OthersKept(t), pc[t] = "idle",
         pc'[t] \notin RoutePc, TaskStays(pc'[t], loc'[t]),
         UNCHANGED <<links, session, channelOwner, txq>>
  PROVE  SerialIInv'
<1>1. OwnerKept /\ SerialLinksKept
  BY DEF OwnerKept, HasOwner, SerialLinksKept
<1>2. \A l \in Link, i \in Slot : FrameStays(l, txq'[l][i])
  BY FramesStay
<1> QED
  BY <1>1, <1>2, SerialAway

\* A call of ev_session_clear_owner on a link that may be closed afterwards.
LEMMA SerialDrop ==
  ASSUME SerialBase, NEW t \in Task, pc[t] = "idle", NEW r, NEW sid, NEW releasing, NEW next,
         NEW failed, Clear(t, r, sid, releasing, next, failed),
         next \in {"close", "advance"} => r.link \notin SerialLinks,
         UNCHANGED <<links, session, channelOwner>>,
         \A l \in Link, i \in Slot : txq'[l][i] \in {txq[l][i], NoFrame}
  PROVE  SerialIInv'
<1>1. /\ OthersKept(t) /\ pc'[t] = "clear"
      /\ loc'[t] = ClearLocal(r, sid, releasing, next, failed)
  BY TaskHasStayed DEF Clear, ClearLocal, OthersKept, TypeOK
<1>2. TaskStays("clear", loc'[t])
  BY <1>1, ClearStays, Zenon
<1>3. OwnerKept /\ SerialLinksKept
  BY DEF OwnerKept, HasOwner, SerialLinksKept
<1>4. \A l \in Link, i \in Slot : FrameStays(l, txq'[l][i])
  BY FramesStay
<1> QED
  BY <1>1, <1>2, <1>3, <1>4, SerialAway DEF RoutePc

\* A frame is on the queue of its own link, so the worker closes that link.
LEMMA SerialTransmit ==
  ASSUME SerialBase, NEW l \in Link, NEW i \in Slot, Transmit(l, i)
  PROVE  SerialIInv'
<1> DEFINE f == txq[l][i]
           rest == [txq EXCEPT ![l][i] = NoFrame]
<1>t. "tx" \in Task
  BY DEF Task
<1>k. TypeOK /\ FrameStays(l, f) /\ f # NoFrame
  BY DEF SerialBase, RouteInv, SerialIInv, SerialStaysInv, Transmit, TxSent, TxFailed, TxDropped,
         TxReady
<1>1. /\ pc["tx"] = "idle" /\ UNCHANGED <<links, session, channelOwner>>
      /\ \E b \in BOOLEAN, next \in {"idle", "lost", "close"} :
           TxComplete(l, i, b, next) /\ (next = "close" => l \in TcpLinks)
  BY DEF Transmit, TxSent, TxFailed, TxDropped, TxReady
<1>2. PICK b \in BOOLEAN, next \in {"idle", "lost", "close"} :
        TxComplete(l, i, b, next) /\ (next = "close" => l \in TcpLinks)
  BY <1>1
<1>3. f.link.link = l /\ (f.kind = "CLOSE" => l \in TcpLinks)
  BY <1>k DEF FrameStays
<1>r. /\ rest \in [Link -> [Slot -> Frame \cup {NoFrame}]]
      /\ \A m \in Link, j \in Slot : rest[m][j] \in {txq[m][j], NoFrame}
  BY <1>k DEF TypeOK
<1>q. OwnerKept /\ SerialLinksKept
  BY <1>1 DEF OwnerKept, HasOwner, SerialLinksKept
<1>4. ASSUME NEW p \in {"helloDone", "close"}, NEW x, Goto("tx", p),
             loc' = [loc EXCEPT !["tx"] = x], x.next = "idle", p = "close" => x.ref = f.link,
             p = "close" => l \in TcpLinks, txq' = rest
      PROVE  SerialIInv'
  <2>1. OthersKept("tx") /\ pc'["tx"] = p /\ loc'["tx"] = x
    BY <1>k, <1>t, <1>4 DEF Goto, OthersKept, TypeOK
  <2>2. TaskStays(pc'["tx"], loc'["tx"])
    BY <1>3, <1>4, <2>1, LinkAssumption DEF TaskStays
  <2>3. \A m \in Link, j \in Slot : FrameStays(m, txq'[m][j])
    BY <1>r, <1>4, FramesStay
  <2> QED
    BY <1>t, <1>1, <1>4, <1>q, <2>1, <2>2, <2>3, SerialAway DEF RoutePc
<1>5. CASE Goto("tx", "helloDone") /\ txq' = rest
           /\ loc' = [loc EXCEPT !["tx"] = [NoLocal EXCEPT !.ref = f.link,
                                                           !.session_id = f.session_id]]
  <2>1. [NoLocal EXCEPT !.ref = f.link, !.session_id = f.session_id].next = "idle"
    BY DEF NoLocal
  <2> QED
    BY <1>4, <1>5, <2>1
<1>6. CASE f.kind = "CLOSE" /\ Goto("tx", "close") /\ txq' = rest
           /\ loc' = [loc EXCEPT !["tx"] = [NoLocal EXCEPT !.ref = f.link]]
  <2>1. /\ [NoLocal EXCEPT !.ref = f.link].next = "idle"
        /\ [NoLocal EXCEPT !.ref = f.link].ref = f.link
    BY DEF NoLocal
  <2> QED
    BY <1>3, <1>4, <1>6, <2>1
<1>7. ASSUME NEW releasing, Clear("tx", f.link, f.session_id, releasing, next, f.session_id),
             \A m \in Link, j \in Slot : txq'[m][j] \in {txq[m][j], NoFrame}
      PROVE  SerialIInv'
  <2>1. next \in {"close", "advance"} => f.link.link \notin SerialLinks
    BY <1>2, <1>3, LinkAssumption
  <2> HIDE DEF f
  <2> QED
    BY <1>t, <1>1, <1>7, <2>1, SerialDrop, Zenon
<1>8. CASE CancelSession(rest, f.session_id)
  <2>1. \A m \in Link, j \in Slot : txq'[m][j] \in {rest[m][j], NoFrame}
    <3> DEFINE sid == f.session_id
    <3>1. CancelSession(rest, sid)
      BY <1>8
    <3> HIDE DEF rest, sid
    <3> QED
      BY <1>k, <1>r, <3>1, CancelKeeps
  <2>2. \A m \in Link, j \in Slot : txq'[m][j] \in {txq[m][j], NoFrame}
    <3> HIDE DEF rest
    <3> QED
      BY <1>r, <2>1
  <2> QED
    BY <1>2, <1>5, <1>6, <1>7, <2>2, <1>r DEF TxComplete
<1>9. CASE txq' = rest
  BY <1>2, <1>5, <1>6, <1>7, <1>9, <1>r DEF TxComplete
<1> QED
  BY <1>2, <1>8, <1>9 DEF TxComplete

LEMMA SerialLinkEvents ==
  ASSUME SerialBase, NEW l \in Link, LinkEvent(l)
  PROVE  SerialIInv'
<1>t. RxTask(l) \in Task /\ "transport" \in Task
  BY DEF RxTask, Task
<1>k. TypeOK /\ SerialRef(channelOwner) /\ RefOf(l).link = l
  BY DEF SerialBase, RouteInv, SerialIInv, SerialRefsInv, RefOf
<1>1. ASSUME NEW p \in {"acquire", "release"}, NEW x, pc[RxTask(l)] = "idle",
             Goto(RxTask(l), p), loc' = [loc EXCEPT ![RxTask(l)] = x], x.next = "idle",
             UNCHANGED <<links, session, channelOwner, txq>>
      PROVE  SerialIInv'
  <2>1. OthersKept(RxTask(l)) /\ pc'[RxTask(l)] = p /\ loc'[RxTask(l)] = x
    BY <1>k, <1>t, <1>1 DEF Goto, OthersKept, TypeOK
  <2>2. TaskStays(p, x) /\ p \notin RoutePc
    BY <1>1 DEF TaskStays, RoutePc
  <2> QED
    BY <1>t, <1>1, <2>1, <2>2, SerialEnter
<1>2. CASE ReleaseBegin(l)
  <2>1. [NoLocal EXCEPT !.ref = RefOf(l), !.session_id = session.session_id].next = "idle"
    BY DEF NoLocal
  <2> QED
    BY <1>1, <1>2, <2>1 DEF ReleaseBegin
<1>3. ASSUME NEW n \in Nonces, HelloBegin(l, n) PROVE SerialIInv'
  <2>1. [NoLocal EXCEPT !.ref = RefOf(l), !.nonce = n].next = "idle"
    BY DEF NoLocal
  <2> QED
    BY <1>1, <1>3, <2>1 DEF HelloBegin
<1>4. CASE LinkUp(l)
  <2>1. SerialLinksKept
    BY <1>k, <1>4 DEF LinkUp, LinkOpenEffect, SerialLinksKept, TypeOK, Link
  <2>2. /\ OwnerKept /\ UNCHANGED <<channelOwner, txq>> /\ pc'[RxTask(l)] = "idle"
        /\ OthersKept(RxTask(l)) /\ loc'[RxTask(l)] = loc[RxTask(l)]
        /\ pc[RxTask(l)] = "idle"
    BY <1>4 DEF LinkUp, OwnerKept, HasOwner, OthersKept
  <2>3. TaskStays(pc'[RxTask(l)], loc'[RxTask(l)])
    <3>1. TaskStays(pc[RxTask(l)], loc[RxTask(l)])
      BY <1>t, TaskHasStayed
    <3> QED
      BY <2>2, <3>1
  <2>4. \A m \in Link, i \in Slot : FrameStays(m, txq'[m][i])
    BY <2>2, FramesStay
  <2> QED
    BY <1>t, <2>1, <2>2, <2>3, <2>4, SerialAway DEF RoutePc
<1>5. CASE LinkDown(l)
  <2>1. /\ Clear(RxTask(l), RefOf(l), 0, FALSE, "close", 0) /\ pc[RxTask(l)] = "idle"
        /\ UNCHANGED <<links, session, channelOwner>>
        /\ \A m \in Link, i \in Slot : txq'[m][i] \in {txq[m][i], NoFrame}
        /\ RefOf(l).link \notin SerialLinks
    BY <1>k, <1>5 DEF LinkDown
  <2> QED
    BY <1>t, <2>1, SerialDrop, Zenon
<1>6. CASE CdcRefresh(l)
  <2>1. /\ Clear("transport", RefOf(l), 0, FALSE, "advance", 0) /\ pc["transport"] = "idle"
        /\ UNCHANGED <<links, session, channelOwner>>
        /\ \A m \in Link, i \in Slot : txq'[m][i] \in {txq[m][i], NoFrame}
        /\ RefOf(l).link \notin SerialLinks
    BY <1>k, <1>6, LinkAssumption DEF CdcRefresh
  <2> QED
    BY <1>t, <2>1, SerialDrop, Zenon
<1>7. CASE UartRestore(l)
  <2>1. /\ Clear("transport", session.owner_link, 0, FALSE, "idle", 0) /\ pc["transport"] = "idle"
        /\ UNCHANGED <<links, session, channelOwner>>
        /\ \A m \in Link, i \in Slot : txq'[m][i] \in {txq[m][i], NoFrame}
        /\ "idle" \notin {"close", "advance"}
    BY <1>7 DEF UartRestore
  <2> QED
    BY <1>t, <2>1, SerialDrop, Zenon
<1> QED
  BY <1>2, <1>3, <1>4, <1>5, <1>6, <1>7 DEF LinkEvent

LEMMA SerialOthers ==
  ASSUME SerialBase, TickExpire \/ OutputFailed \/ VmEpochAdvance \/ UNCHANGED vars
  PROVE  SerialIInv'
<1>t. "tx" \in Task /\ "transport" \in Task
  BY DEF Task
<1>k. TypeOK /\ session \in SessionType
  BY DEF SerialBase, RouteInv, TypeOK
<1>1. CASE TickExpire
  BY <1>t, <1>1, SerialCleared DEF TickExpire
<1>2. CASE OutputFailed
  <2>1. /\ OthersKept("tx") /\ pc'["tx"] = "lost" /\ pc["tx"] = "idle"
        /\ loc'["tx"] = [NoLocal EXCEPT !.ref = session.owner_link, !.failed = session.session_id]
        /\ UNCHANGED <<links, session, channelOwner, txq>>
    BY <1>k, <1>t, <1>2 DEF OutputFailed, Goto, OthersKept, TypeOK
  <2>2. loc'["tx"].next = "idle"
    BY <2>1 DEF NoLocal
  <2>3. TaskStays("lost", loc'["tx"])
    BY <2>2 DEF TaskStays
  <2> QED
    BY <1>t, <2>1, <2>3, SerialEnter DEF RoutePc
<1>3. CASE VmEpochAdvance \/ UNCHANGED vars
  <2>1. /\ session'.state = session.state /\ session'.owner_link = session.owner_link
        /\ session'.session_id = session.session_id
        /\ UNCHANGED <<links, channelOwner, txq, pc, loc>>
    BY <1>k, <1>3 DEF VmEpochAdvance, vars, SessionType
  <2>2. SerialStaysInv'
    BY <2>1 DEF SerialBase, SerialIInv, SerialStaysInv
  <2>3. SerialRefsInv'
    BY <2>1 DEF SerialBase, SerialIInv, SerialRefsInv, SerialRef, IsCurrent, HasOwner
  <2>4. StaleSerialOwnerIsTransient'
    BY <2>1 DEF SerialBase, SerialIInv, StaleSerialOwnerIsTransient, IsCurrent, Clearing
  <2> QED
    BY <2>2, <2>3, <2>4 DEF SerialIInv
<1> QED
  BY <1>1, <1>2, <1>3

LEMMA SerialInit == Init => SerialIInv
<1> SUFFICES ASSUME Init PROVE SerialIInv
  OBVIOUS
<1>1. /\ \A t \in Task : pc[t] = "idle" /\ loc[t] = NoLocal
      /\ \A l \in Link, i \in Slot : txq[l][i] = NoFrame
      /\ session.owner_link = NoRef /\ channelOwner = NoRef
  BY DEF Init
<1>2. SerialStaysInv
  BY <1>1, IdleStays DEF SerialStaysInv, FrameStays
<1>3. SerialRefsInv
  BY <1>1, NoSerialInNone DEF SerialRefsInv, SerialRef, RoutePc
<1>4. StaleSerialOwnerIsTransient
  BY <1>1, NoSerialInNone DEF StaleSerialOwnerIsTransient
<1> QED
  BY <1>2, <1>3, <1>4 DEF SerialIInv

LEMMA SerialIStep == SerialBase /\ [Next]_vars => SerialIInv'
<1> SUFFICES ASSUME SerialBase, [Next]_vars PROVE SerialIInv'
  OBVIOUS
<1>1. ASSUME NEW t \in Task, Continue(t) PROVE SerialIInv'
  BY <1>1, SerialAcquire, SerialRecheck, SerialAnswers, SerialCalls, SerialClear, SerialRoutes,
     SerialRegistry DEF Continue
<1>2. ASSUME NEW l \in Link, LinkEvent(l) PROVE SerialIInv'
  BY <1>2, SerialLinkEvents
<1>3. ASSUME NEW l \in Link, NEW i \in Slot, Transmit(l, i) PROVE SerialIInv'
  BY <1>3, SerialTransmit
<1>4. CASE TickExpire \/ OutputFailed \/ VmEpochAdvance \/ UNCHANGED vars
  BY <1>4, SerialOthers
<1> QED
  BY <1>1, <1>2, <1>3, <1>4 DEF Next, Rest

\* No host's serial bytes reach another host unnoticed: a route on a serial link
\* is the owner's or names a generation that is gone, and a serial owner that is
\* no longer current is being cleared by the hello that took the session.
THEOREM SerialCorrect == Spec => []SerialInv
<1>1. RouteInv /\ CompletionInv /\ SerialIInv /\ [Next]_vars => SerialIInv'
  BY SerialIStep DEF SerialBase
<1>2. Spec => []SerialIInv
  BY <1>1, SerialInit, RouteInvariant, CompletionAlways, PTL DEF Spec
<1>3. RouteInv /\ SerialIInv => SerialInv
  BY DEF RouteInv, SerialIInv, SerialRefsInv, SerialRef, SerialInv, SerialRouteOnlyForOwner
<1> QED
  BY <1>2, <1>3, RouteInvariant, PTL
=============================================================================
