---------------------------- MODULE EvMuxProofs ----------------------------
(***************************************************************************)
(* Theorems about the transmit side of EV-MUX: the counters of the queues  *)
(* say what the frames hold (MuxInv), a special frame is sent from a       *)
(* buffer nobody has written since (BufferHolds), and a TCP peer can parse *)
(* everything it receives (StreamIsWhole).                                 *)
(***************************************************************************)
EXTENDS EvMux, FiniteSetTheorems, WellFoundedInduction, TLAPS

(***************************************************************************)
(* The inductive invariant.                                                *)
(***************************************************************************)
Buffers == {NoPlace, Large, PreviewPlace(1), PreviewPlace(2)} \cup ObserverBuffers
Frame ==
  [target : Targets, generation : Nat, session : Nat, epoch : Nat, class : Class, bytes : Nat,
   blocks : SUBSET (1..BlockCount), observer : BOOLEAN, attempted : BOOLEAN, started : BOOLEAN,
   late : BOOLEAN, overdue : BOOLEAN, buffer : Buffers, intact : BOOLEAN]
Budget ==
  [normal : Nat, large : Nat, preview : Nat, observer : Nat, kinds : SUBSET Kinds,
   targets : SUBSET Targets, owners : Nat, generations : Nat, disturb : Nat,
   events : SUBSET STRING]

OwnerType == [id : Nat, target : Int, generation : Nat, held : BOOLEAN,
              ready : {"not yet", "yes", "over"}]
WorkerType == [at : {"visit", "fail", "close"}, target : Int, generation : Nat, session : Nat,
               close : BOOLEAN]
LinkTable == [Targets -> [generation : Nat \ {0}, open : BOOLEAN]]
PreviewType == [pending : 0..2, active : 0..2]

\* The session names a link that has been there.
DeviceOK ==
  /\ links \in LinkTable
  /\ epoch \in Nat
  /\ owner \in OwnerType
  /\ owner.id # 0 => owner.target \in Targets
                     /\ owner.generation \in 1..links[owner.target].generation
  /\ owner.held \/ owner.ready # "not yet" => owner.id # 0
  /\ worker \in WorkerType
  /\ observers \in [TcpTargets -> Nat]
  /\ preview \in PreviewType
  /\ budget \in Budget

\* Frames are of links, sessions and VM epochs that have been there.
FramesOK ==
  /\ DOMAIN frames \subseteq Place
  /\ frames \in [DOMAIN frames -> Frame]
  /\ \A p \in DOMAIN frames :
       /\ frames[p].generation \in 1..links[frames[p].target].generation
       /\ frames[p].session <= owner.id /\ frames[p].epoch <= epoch

OrderOK ==
  /\ order \in [Targets -> Seq(Place)]
  /\ \A t \in Targets : ToSet(order[t]) = {p \in DOMAIN frames : frames[p].target = t}

CountsOK ==
  /\ used \in [Targets -> Share] /\ quota \in [{"all", "discovery", "low"} -> Share]
  /\ freeBlocks \in [Arenas -> SUBSET (1..BlockCount)]
  /\ QuotaAccounted

\* The buffer that a frame refers to says which place it has, but for observers' frames.
BuffersOK ==
  \A p \in DOMAIN frames :
    /\ p \notin Special => frames[p].buffer = NoPlace
    /\ p \in Special \ ObserverPlaces => frames[p].buffer = p
    /\ p \in ObserverPlaces => frames[p].buffer \in ObserverBuffers
    /\ p \in Special => frames[p].intact

\* A target has at most one frame under way, and a special one is marked.
OneStarted ==
  /\ partial \in [Targets -> Special \cup {NoPlace}]
  /\ \A p, q \in DOMAIN frames :
       frames[p].started /\ frames[q].started /\ frames[p].target = frames[q].target => p = q
  /\ \A p \in Special \cap DOMAIN frames :
       frames[p].started => partial[frames[p].target] = p

\* The frame under way on the link that a target has now.
UnderWay(t) ==
  {p \in DOMAIN frames : frames[p].target = t /\ frames[p].started
                         /\ frames[p].generation = links[t].generation}
\* The worker is about to close the link that a target has now.
Closing(t) ==
  /\ worker.at # "visit" /\ worker.close
  /\ worker.target = t /\ worker.generation = links[t].generation

\* What a TCP peer has received ends with the frame under way, or at a boundary; after a
\* frame that was cut the link is closed or will be before the worker's next visit.
StreamOK ==
  /\ received \in [Targets -> [state : {"boundary", "open", "cut", "garbled"},
                               place : Place \cup {NoPlace}]]
  /\ \A t \in TcpTargets :
       \/ received[t].state = "open" /\ received[t].place \in UnderWay(t)
       \/ received[t].state = "boundary" /\ UnderWay(t) = {}
       \/ received[t].state = "cut" /\ UnderWay(t) = {} /\ (links[t].open => Closing(t))

MuxIInv ==
  /\ DeviceOK /\ FramesOK /\ OrderOK /\ CountsOK /\ BuffersOK /\ OneStarted /\ StreamOK

(***************************************************************************)
(* Places, cardinalities and queues.                                       *)
(***************************************************************************)
\* A place belongs to one queue, or is special.
LEMMA PlacesDiffer ==
  /\ \A t \in Targets, u \in Targets : NormalPlaces(t) \cap NormalPlaces(u) # {} => t = u
  /\ \A t : NormalPlaces(t) \cap Special = {}
  /\ Large \notin ObserverPlaces /\ NoPlace \notin Place
  /\ \A i : PreviewPlace(i) \notin ObserverPlaces /\ PreviewPlace(i) # Large
  /\ \A i, j : PreviewPlace(i) = PreviewPlace(j) => i = j
  /\ Special \subseteq Place /\ \A t \in Targets : NormalPlaces(t) \subseteq Place
  /\ \A p \in Place : p \in Special \/ \E t \in Targets : p \in NormalPlaces(t)
<1>0. /\ Special \subseteq Place /\ \A t \in Targets : NormalPlaces(t) \subseteq Place
      /\ \A p \in Place : p \in Special \/ \E t \in Targets : p \in NormalPlaces(t)
  <2> DEFINE N == UNION {NormalPlaces(t) : t \in Targets}
  <2>1. Place = N \cup Special
    BY DEF Place
  <2>2. \A p : p \in N <=> \E t \in Targets : p \in NormalPlaces(t)
    OBVIOUS
  <2> HIDE DEF N
  <2> QED BY <2>1, <2>2
<1>1. \A t \in Targets, u \in Targets : NormalPlaces(t) \cap NormalPlaces(u) # {} => t = u
  <2>1. SUFFICES ASSUME NEW t \in Targets, NEW u \in Targets, NEW i \in 1..QueueFrames,
                        NEW j \in 1..QueueFrames, <<"queue", t, i>> = <<"queue", u, j>>
                 PROVE  t = u
    BY DEF NormalPlaces
  <2> QED BY <2>1
<1>2. ASSUME NEW t, NEW p \in NormalPlaces(t) PROVE p \notin Special
  <2>1. PICK i \in 1..QueueFrames : p = <<"queue", t, i>>
    BY DEF NormalPlaces
  <2>2. p # Large /\ \A j : p # <<"preview", j>> /\ p # <<"observer", j>>
    BY <2>1 DEF Large
  <2> QED BY <2>2 DEF Special, PreviewPlace, ObserverPlaces
<1>3. Large \notin ObserverPlaces
  BY DEF Large, ObserverPlaces
<1>4. NoPlace \notin Place
  <2>1. \A t, i : <<"queue", t, i>> # NoPlace
    BY DEF NoPlace
  <2>2. \A i : <<"preview", i>> # NoPlace /\ <<"observer", i>> # NoPlace /\ Large # NoPlace
    BY DEF NoPlace, Large
  <2>3. \A t : NoPlace \notin NormalPlaces(t)
    BY <2>1 DEF NormalPlaces
  <2>4. NoPlace \notin ObserverPlaces /\ \A i : NoPlace # PreviewPlace(i)
    BY <2>2 DEF ObserverPlaces, PreviewPlace
  <2>5. NoPlace \notin Special
    <3> HIDE DEF NoPlace
    <3> QED BY <2>2, <2>4 DEF Special
  <2> QED BY <2>3, <2>5, <1>0
<1>5. \A i : PreviewPlace(i) \notin ObserverPlaces /\ PreviewPlace(i) # Large
  <2>1. \A i, j : <<"preview", i>> # <<"observer", j>> /\ <<"preview", i>> # Large
    BY DEF Large
  <2> QED BY <2>1 DEF PreviewPlace, ObserverPlaces
<1>6. \A i, j : PreviewPlace(i) = PreviewPlace(j) => i = j
  BY DEF PreviewPlace
<1> QED BY <1>0, <1>1, <1>2, <1>3, <1>4, <1>5, <1>6

\* No buffer of the observers is that of another special frame.
LEMMA BuffersDiffer ==
  /\ NoPlace \notin ObserverBuffers \cup Special
  /\ ObserverBuffers \cap Special = {}
<1>1. ASSUME NEW i PROVE <<"observer buffer", i>> # NoPlace /\ <<"observer buffer", i>> \notin Special
  <2>1. <<"observer buffer", i>> # Large
    BY DEF Large
  <2>2. \A j : <<"observer buffer", i>> # <<"preview", j>> /\ <<"observer buffer", i>> # <<"observer", j>>
    OBVIOUS
  <2>3. <<"observer buffer", i>> # NoPlace
    BY DEF NoPlace
  <2>4. <<"observer buffer", i>> \notin ObserverPlaces /\ \A j : <<"observer buffer", i>> # PreviewPlace(j)
    BY <2>2 DEF ObserverPlaces, PreviewPlace
  <2> QED BY <2>1, <2>3, <2>4 DEF Special
<1>2. NoPlace \notin Special
  BY PlacesDiffer
<1> QED BY <1>1, <1>2 DEF ObserverBuffers

\* A set of numbers that is not empty has a least one.
LEMMA LeastIn ==
  ASSUME NEW S \in SUBSET Nat, S # {}
  PROVE  \E x \in S : \A y \in S : x <= y
<1> DEFINE Before1 == OpToRel(<, Nat)
<1>1. \A x, y \in Nat : y < x => <<y, x>> \in Before1
  BY DEF OpToRel
<1>2. IsWellFoundedOn(Before1, Nat)
  BY NatLessThanWellFounded
<1> HIDE DEF Before1
<1>3. PICK x \in S : \A y \in S : ~(<<y, x>> \in Before1)
  BY <1>2, WFMin
<1>4. \A y \in S : x <= y
  <2> SUFFICES ASSUME NEW y \in S PROVE x <= y
    OBVIOUS
  <2>1. x \in Nat /\ y \in Nat
    OBVIOUS
  <2>2. ~(y < x)
    BY <1>1, <1>3, <2>1
  <2> QED
    BY <2>1, <2>2
<1> QED
  BY <1>4

\* The lowest number of a set is one of it.
LEMMA LowestIn ==
  ASSUME NEW S \in SUBSET Nat, S # {}
  PROVE  LowestOf(S) \in S
BY LeastIn DEF LowestOf

\* What an append and a concatenation hold.
LEMMA AppendSet ==
  ASSUME NEW A, NEW s \in Seq(A), NEW x \in A
  PROVE  Append(s, x) \in Seq(A) /\ ToSet(Append(s, x)) = ToSet(s) \cup {x}
<1>1. Append(s, x) \in Seq(A) /\ Len(Append(s, x)) = Len(s) + 1 /\ Len(s) \in Nat
  OBVIOUS
<1>2. DOMAIN Append(s, x) = 1..(Len(s) + 1) /\ DOMAIN s = 1..Len(s)
  BY <1>1
<1>3. \A i \in 1..Len(s) : Append(s, x)[i] = s[i]
  OBVIOUS
<1>4. Append(s, x)[Len(s) + 1] = x
  OBVIOUS
<1>5. \A i \in 1..(Len(s) + 1) : i \in 1..Len(s) \/ i = Len(s) + 1
  BY <1>1
<1>6. \A i \in 1..Len(s) : i \in 1..(Len(s) + 1)
  BY <1>1
<1>7. Len(s) + 1 \in 1..(Len(s) + 1)
  BY <1>1
<1>8. ToSet(Append(s, x)) = {Append(s, x)[i] : i \in 1..(Len(s) + 1)}
  BY <1>2 DEF ToSet
<1>9. ToSet(s) = {s[i] : i \in 1..Len(s)}
  BY <1>2 DEF ToSet
<1>10. ASSUME NEW y \in ToSet(Append(s, x)) PROVE y \in ToSet(s) \cup {x}
  <2>1. PICK i \in 1..(Len(s) + 1) : y = Append(s, x)[i]
    BY <1>8
  <2> QED
    BY <2>1, <1>3, <1>4, <1>5, <1>9
<1>11. ASSUME NEW y \in ToSet(s) PROVE y \in ToSet(Append(s, x))
  <2>1. PICK i \in 1..Len(s) : y = s[i]
    BY <1>9
  <2> QED
    BY <2>1, <1>3, <1>6, <1>8
<1>12. x \in ToSet(Append(s, x))
  BY <1>4, <1>7, <1>8
<1> QED
  BY <1>1, <1>10, <1>11, <1>12

LEMMA ConcatSet ==
  ASSUME NEW A, NEW s \in Seq(A), NEW u \in Seq(A)
  PROVE  s \o u \in Seq(A) /\ ToSet(s \o u) = ToSet(s) \cup ToSet(u)
<1>1. s \o u \in Seq(A) /\ Len(s \o u) = Len(s) + Len(u) /\ Len(s) \in Nat /\ Len(u) \in Nat
  OBVIOUS
<1>2. DOMAIN (s \o u) = 1..(Len(s) + Len(u)) /\ DOMAIN s = 1..Len(s) /\ DOMAIN u = 1..Len(u)
  BY <1>1
<1>3. \A i \in 1..Len(s) : i \in 1..(Len(s) + Len(u)) /\ (s \o u)[i] = s[i]
  BY <1>1
<1>4. \A i \in 1..Len(u) : Len(s) + i \in 1..(Len(s) + Len(u)) /\ (s \o u)[Len(s) + i] = u[i]
  BY <1>1
<1>5. \A i \in 1..(Len(s) + Len(u)) : i \in 1..Len(s) \/ \E j \in 1..Len(u) : i = Len(s) + j
  <2>1. ASSUME NEW i \in 1..(Len(s) + Len(u)), i \notin 1..Len(s)
        PROVE  i - Len(s) \in 1..Len(u) /\ i = Len(s) + (i - Len(s))
    BY <1>1, <2>1
  <2> QED
    BY <2>1
<1>6. ToSet(s \o u) = {(s \o u)[i] : i \in 1..(Len(s) + Len(u))}
  BY <1>2 DEF ToSet
<1>7. ToSet(s) = {s[i] : i \in 1..Len(s)} /\ ToSet(u) = {u[i] : i \in 1..Len(u)}
  BY <1>2 DEF ToSet
<1> DEFINE both == s \o u
<1>8. \A y \in ToSet(both) : y \in ToSet(s) \cup ToSet(u)
  BY <1>3, <1>4, <1>5, <1>6, <1>7
<1>9. \A y \in ToSet(s) \cup ToSet(u) : y \in ToSet(both)
  BY <1>3, <1>4, <1>6, <1>7
<1> QED
  BY <1>1, <1>8, <1>9

\* Without leaves the other elements of a queue, and no more.
LEMMA WithoutKeeps ==
  ASSUME NEW A, NEW s \in Seq(A), NEW P
  PROVE  Without(s, P) \in Seq(A) /\ ToSet(Without(s, P)) = ToSet(s) \ P
<1> DEFINE Next1(i, before) == IF s[i] \in P THEN before ELSE Append(before, s[i])
           Step(f, n) == [i \in 0..n |-> IF i = 0 THEN <<>> ELSE Next1(i, f[i - 1])]
           Missing == {n \in Nat : n <= Len(s) /\ ~\E f : f = Step(f, n)}
<1>1. Missing = {}
  <2> SUFFICES ASSUME Missing # {} PROVE FALSE
    OBVIOUS
  <2>1. PICK n \in Missing : \A m \in Missing : n <= m
    <3>1. Missing \in SUBSET Nat
      OBVIOUS
    <3> HIDE DEF Missing
    <3> QED
      BY <3>1, LeastIn
  <2>2. n \in Nat /\ n <= Len(s) /\ ~\E f : f = Step(f, n)
    OBVIOUS
  <2>3. n # 0
    <3> SUFFICES ASSUME n = 0 PROVE FALSE
      OBVIOUS
    <3> DEFINE f == [i \in 0..0 |-> <<>>]
    <3>1. f = Step(f, 0)
      OBVIOUS
    <3> QED
      BY <2>2, <3>1
  <2>4. PICK f : f = Step(f, n - 1)
    <3>1. n - 1 \in Nat /\ n - 1 <= Len(s) /\ n - 1 \notin Missing
      <4>1. n - 1 \in Nat /\ n - 1 <= Len(s) /\ ~(n <= n - 1)
        BY <2>2, <2>3
      <4> HIDE DEF Missing
      <4> QED
        BY <2>1, <4>1
    <3> QED
      BY <3>1
  <2> DEFINE g == [i \in 0..n |-> IF i = n THEN Next1(n, f[n - 1]) ELSE f[i]]
  <2> HIDE DEF Next1
  <2>5. g = Step(g, n)
    <3>1. ASSUME NEW i \in 0..n PROVE g[i] = Step(g, n)[i]
      <4>1. CASE i = n
        <5>1. n - 1 \in 0..n /\ n - 1 # n
          BY <2>2, <2>3
        <5>2. g[n - 1] = f[n - 1]
          BY <5>1
        <5> QED
          BY <4>1, <5>2, <2>3
      <4>2. CASE i # n /\ i # 0
        <5>1. i \in 0..(n - 1) /\ i - 1 \in 0..n /\ i - 1 # n
          BY <2>2, <4>2
        <5>2. g[i] = f[i] /\ g[i - 1] = f[i - 1]
          BY <4>2, <5>1
        <5>3. f[i] = Next1(i, f[i - 1])
          <6>1. f[i] = Step(f, n - 1)[i]
            BY <2>4
          <6> QED
            BY <5>1, <4>2, <6>1
        <5> QED
          BY <5>2, <5>3, <4>2
      <4>3. CASE i = 0
        <5>1. 0 \in 0..(n - 1) /\ 0 # n
          BY <2>2, <2>3
        <5>2. f[0] = Step(f, n - 1)[0]
          BY <2>4
        <5> QED
          BY <4>3, <5>1, <5>2
      <4> QED
        BY <4>1, <4>2, <4>3
    <3> QED
      BY <3>1
  <2> QED
    BY <2>2, <2>5
<1>2. Len(s) \in Nat
  OBVIOUS
<1>3. \E f : f = Step(f, Len(s))
  <2> HIDE DEF Step
  <2> QED
    BY <1>1, <1>2
<1> DEFINE kept == CHOOSE f : f = Step(f, Len(s))
<1>4. kept = Step(kept, Len(s))
  BY <1>3
<1>5. Without(s, P) = kept[Len(s)]
  BY DEF Without
<1> HIDE DEF kept
<1>6. kept[0] = <<>> /\ \A i \in 1..Len(s) : kept[i] = Next1(i, kept[i - 1])
  <2>1. kept[0] = Step(kept, Len(s))[0]
    BY <1>4
  <2>2. ASSUME NEW i \in 1..Len(s) PROVE kept[i] = Next1(i, kept[i - 1])
    <3>1. kept[i] = Step(kept, Len(s))[i]
      BY <1>4
    <3> QED
      BY <3>1
  <2> QED
    BY <1>2, <2>1, <2>2
<1> HIDE DEF Step, Missing
<1> DEFINE Good(i) == /\ kept[i] \in Seq(A)
                      /\ ToSet(kept[i]) = {s[j] : j \in 1..i} \ P
           Wrong == {i \in Nat : i <= Len(s) /\ ~Good(i)}
<1>7. Wrong = {}
  <2> SUFFICES ASSUME Wrong # {} PROVE FALSE
    OBVIOUS
  <2>1. PICK n \in Wrong : \A m \in Wrong : n <= m
    <3>1. Wrong \in SUBSET Nat
      OBVIOUS
    <3> HIDE DEF Wrong
    <3> QED
      BY <3>1, LeastIn
  <2>2. n \in Nat /\ n <= Len(s) /\ ~Good(n)
    OBVIOUS
  <2>3. n # 0
    <3>1. <<>> \in Seq(A) /\ ToSet(<<>>) = {}
      BY DEF ToSet
    <3>2. {s[j] : j \in 1..0} = {}
      OBVIOUS
    <3> QED
      BY <1>6, <2>2, <3>1, <3>2
  <2>4. n - 1 \in Nat /\ n \in 1..Len(s) /\ n - 1 \notin Wrong
    <3>1. n - 1 \in Nat /\ n \in 1..Len(s) /\ ~(n <= n - 1)
      BY <1>2, <2>2, <2>3
    <3> HIDE DEF Wrong
    <3> QED
      BY <2>1, <3>1
  <2>5. Good(n - 1)
    <3>1. n - 1 <= Len(s)
      BY <1>2, <2>2
    <3> HIDE DEF Good
    <3> QED
      BY <2>4, <3>1
  <2>6. s[n] \in A
    BY <2>4
  <2>7. {s[j] : j \in 1..n} = {s[j] : j \in 1..(n - 1)} \cup {s[n]}
    <3>1. \A j \in 1..n : j \in 1..(n - 1) \/ j = n
      BY <2>4
    <3>2. n \in 1..n /\ \A j \in 1..(n - 1) : j \in 1..n
      BY <2>4
    <3> QED
      BY <3>1, <3>2
  <2>8. CASE s[n] \in P
    <3>1. kept[n] = kept[n - 1]
      BY <1>6, <2>4, <2>8
    <3> QED
      BY <2>2, <2>5, <2>7, <2>8, <3>1
  <2>9. CASE s[n] \notin P
    <3>1. kept[n] = Append(kept[n - 1], s[n])
      BY <1>6, <2>4, <2>9
    <3>2. kept[n - 1] \in Seq(A)
      BY <2>5
    <3>3. kept[n] \in Seq(A) /\ ToSet(kept[n]) = ToSet(kept[n - 1]) \cup {s[n]}
      BY <2>6, <3>1, <3>2, AppendSet
    <3> QED
      BY <2>2, <2>5, <2>7, <2>9, <3>3
  <2> QED
    BY <2>8, <2>9
<1>8. ToSet(s) = {s[j] : j \in 1..Len(s)}
  BY DEF ToSet
<1>9. Good(Len(s))
  <2> HIDE DEF Good
  <2> QED
    BY <1>2, <1>7
<1> QED
  BY <1>5, <1>8, <1>9

(***************************************************************************)
(* Counting: what the counters should say.                                 *)
(***************************************************************************)
BytesIn(g, P) == UNION {{p} \X (1..g[p].bytes) : p \in P}
Count(g, P) == [frames |-> Cardinality(P), bytes |-> Cardinality(BytesIn(g, P))]

LEMMA BytesInIs ==
  ASSUME NEW g, NEW P
  PROVE  \A x : x \in BytesIn(g, P) <=> \E p \in P : \E i \in 1..g[p].bytes : x = <<p, i>>
<1> SUFFICES ASSUME NEW x
             PROVE  x \in BytesIn(g, P) <=> \E p \in P : \E i \in 1..g[p].bytes : x = <<p, i>>
  OBVIOUS
<1>1. x \in BytesIn(g, P) <=> \E p \in P : x \in {p} \X (1..g[p].bytes)
  BY DEF BytesIn
<1>2. \A p : x \in {p} \X (1..g[p].bytes) <=> \E i \in 1..g[p].bytes : x = <<p, i>>
  OBVIOUS
<1> QED
  BY <1>1, <1>2

LEMMA BytesFinite ==
  ASSUME NEW g, NEW P, IsFiniteSet(P), \A p \in P : g[p].bytes \in Nat
  PROVE  IsFiniteSet(BytesIn(g, P)) /\ Cardinality(BytesIn(g, P)) \in Nat
<1> DEFINE of(p) == {p} \X (1..g[p].bytes)
           f == [p \in P |-> of(p)]
           all == {of(p) : p \in P}
<1>1. \A p \in P : IsFiniteSet(of(p))
  <2> SUFFICES ASSUME NEW p \in P PROVE IsFiniteSet(of(p))
    OBVIOUS
  <2>1. IsFiniteSet({p})
    BY FS_Singleton
  <2>2. IsFiniteSet(1..g[p].bytes)
    BY FS_Interval
  <2> QED
    BY <2>1, <2>2, FS_Product
<1>2. BytesIn(g, P) = UNION all
  BY DEF BytesIn
<1> HIDE DEF of
<1>3. f \in Surjection(P, all)
  BY DEF Surjection
<1>4. IsFiniteSet(all)
  <2> HIDE DEF f, all
  <2> QED
    BY <1>3, FS_Surjection
<1>5. IsFiniteSet(UNION all)
  <2>1. \A T \in all : IsFiniteSet(T)
    BY <1>1
  <2> HIDE DEF all
  <2> QED
    BY <1>4, <2>1, FS_UNION
<1> QED
  BY <1>2, <1>5, FS_CardinalityType

LEMMA CountType ==
  ASSUME NEW g, NEW P, IsFiniteSet(P), \A p \in P : g[p].bytes \in Nat
  PROVE  Count(g, P) \in [frames : Nat, bytes : Nat]
<1>1. Cardinality(P) \in Nat
  BY FS_CardinalityType
<1> QED
  BY <1>1, BytesFinite DEF Count

\* Nothing is counted as nothing.
LEMMA CountNone ==
  ASSUME NEW g
  PROVE  Count(g, {}) = [frames |-> 0, bytes |-> 0]
<1>1. BytesIn(g, {}) = {}
  BY BytesInIs
<1> QED
  BY <1>1, FS_EmptySet DEF Count

\* The frames that stay count as before when their bytes stay.
LEMMA CountSame ==
  ASSUME NEW g, NEW h, NEW P, \A p \in P : g[p].bytes = h[p].bytes
  PROVE  Count(g, P) = Count(h, P)
<1>1. BytesIn(g, P) = BytesIn(h, P)
  <2>1. \A x : x \in BytesIn(g, P) <=> x \in BytesIn(h, P)
    BY BytesInIs
  <2> QED
    BY <2>1
<1> QED
  BY <1>1 DEF Count

\* Taking frames away takes their count away.
LEMMA CountLess ==
  ASSUME NEW g, NEW S, NEW P \in SUBSET S, IsFiniteSet(S), \A p \in S : g[p].bytes \in Nat
  PROVE  /\ Count(g, S \ P).frames = Minus(Count(g, S).frames, Count(g, P).frames)
         /\ Count(g, S \ P).bytes = Minus(Count(g, S).bytes, Count(g, P).bytes)
         /\ Count(g, S \ P).frames <= Count(g, S).frames
         /\ Count(g, S \ P).bytes <= Count(g, S).bytes
<1> DEFINE bS == BytesIn(g, S)
           bP == BytesIn(g, P)
           bR == BytesIn(g, S \ P)
<1>1. IsFiniteSet(P) /\ Cardinality(S \ P) = Cardinality(S) - Cardinality(P)
  <2>1. IsFiniteSet(P)
    BY FS_Subset
  <2>2. S \cap P = P
    OBVIOUS
  <2> QED
    BY <2>1, <2>2, FS_Difference
<1>2. bP \subseteq bS
  <2>1. \A x : x \in bP => x \in bS
    BY BytesInIs
  <2> QED
    BY <2>1
<1>3. bR = bS \ bP
  <2>1. ASSUME NEW x, x \in bR PROVE x \in bS /\ x \notin bP
    <3>1. PICK p \in S \ P : \E i \in 1..g[p].bytes : x = <<p, i>>
      BY <2>1, BytesInIs
    <3>2. \A q \in P : \A i : x # <<q, i>>
      BY <3>1
    <3> QED
      BY <3>1, <3>2, BytesInIs
  <2>2. ASSUME NEW x, x \in bS, x \notin bP PROVE x \in bR
    <3>1. PICK p \in S : \E i \in 1..g[p].bytes : x = <<p, i>>
      BY <2>2, BytesInIs
    <3>2. p \notin P
      BY <2>2, <3>1, BytesInIs
    <3> QED
      BY <3>1, <3>2, BytesInIs
  <2> HIDE DEF bS, bP, bR
  <2> QED
    BY <2>1, <2>2
<1>4. IsFiniteSet(bS) /\ Cardinality(bS) \in Nat /\ Cardinality(bP) \in Nat
  BY <1>1, BytesFinite
<1>5. Cardinality(bR) = Cardinality(bS) - Cardinality(bP) /\ Cardinality(bP) <= Cardinality(bS)
  <2> HIDE DEF bS, bP, bR
  <2>1. bS \cap bP = bP
    BY <1>2
  <2>2. Cardinality(bS \ bP) = Cardinality(bS) - Cardinality(bS \cap bP)
    BY <1>4, FS_Difference
  <2>3. bP \in SUBSET bS
    BY <1>2
  <2>4. Cardinality(bP) <= Cardinality(bS)
    BY <1>4, <2>3, FS_Subset
  <2> QED
    BY <1>3, <2>1, <2>2, <2>4
<1>6. Cardinality(S) \in Nat /\ Cardinality(P) \in Nat /\ Cardinality(P) <= Cardinality(S)
  BY <1>1, FS_CardinalityType, FS_Subset
<1> HIDE DEF bS, bP, bR
<1>7. /\ Count(g, S) = [frames |-> Cardinality(S), bytes |-> Cardinality(bS)]
      /\ Count(g, P) = [frames |-> Cardinality(P), bytes |-> Cardinality(bP)]
      /\ Count(g, S \ P) = [frames |-> Cardinality(S \ P), bytes |-> Cardinality(bR)]
  BY DEF Count, bS, bP, bR
<1>8. ASSUME NEW a \in Nat, NEW b \in Nat, b <= a PROVE Minus(a, b) = a - b /\ a - b <= a
  BY <1>8 DEF Minus
<1>9. /\ Cardinality(S \ P) = Minus(Cardinality(S), Cardinality(P))
      /\ Cardinality(S \ P) <= Cardinality(S)
  BY <1>1, <1>6, <1>8
<1>10. /\ Cardinality(bR) = Minus(Cardinality(bS), Cardinality(bP))
       /\ Cardinality(bR) <= Cardinality(bS)
  BY <1>4, <1>5, <1>8
<1>11. /\ Count(g, S).frames = Cardinality(S) /\ Count(g, S).bytes = Cardinality(bS)
       /\ Count(g, P).frames = Cardinality(P) /\ Count(g, P).bytes = Cardinality(bP)
       /\ Count(g, S \ P).frames = Cardinality(S \ P) /\ Count(g, S \ P).bytes = Cardinality(bR)
  BY <1>7
<1> HIDE DEF Count, Minus
<1> QED
  BY ONLY <1>9, <1>10, <1>11

\* A frame more counts as one more, and its bytes.
LEMMA CountMore ==
  ASSUME NEW g, NEW S, NEW p, p \notin S, IsFiniteSet(S), \A q \in S \cup {p} : g[q].bytes \in Nat
  PROVE  /\ Count(g, S \cup {p}).frames = Count(g, S).frames + 1
         /\ Count(g, S \cup {p}).bytes = Count(g, S).bytes + g[p].bytes
<1> DEFINE bS == BytesIn(g, S)
           b1 == BytesIn(g, {p})
           bA == BytesIn(g, S \cup {p})
<1>1. IsFiniteSet(bS) /\ Cardinality(bS) \in Nat
  BY BytesFinite
<1>2. b1 = {p} \X (1..g[p].bytes)
  BY DEF BytesIn
<1>3. IsFiniteSet(b1) /\ Cardinality(b1) = g[p].bytes
  <2>1. IsFiniteSet({p}) /\ Cardinality({p}) = 1
    BY FS_Singleton
  <2>2. g[p].bytes \in Nat
    OBVIOUS
  <2>3. IsFiniteSet(1..g[p].bytes) /\ Cardinality(1..g[p].bytes) = g[p].bytes
    <3> DEFINE n == g[p].bytes
    <3>1. n \in Nat
      BY <2>2
    <3> HIDE DEF n
    <3>2. IsFiniteSet(1..n) /\ Cardinality(1..n) = IF 1 > n THEN 0 ELSE n - 1 + 1
      BY <3>1, FS_Interval
    <3>3. Cardinality(1..n) = n
      BY <3>1, <3>2
    <3> QED
      BY <3>2, <3>3 DEF n
  <2>4. IsFiniteSet({p} \X (1..g[p].bytes))
        /\ Cardinality({p} \X (1..g[p].bytes)) = Cardinality({p}) * Cardinality(1..g[p].bytes)
    BY <2>1, <2>3, FS_Product
  <2>5. \A n \in Nat : 1 * n = n
    OBVIOUS
  <2>6. Cardinality(b1) = 1 * g[p].bytes
    BY <1>2, <2>1, <2>3, <2>4
  <2> QED
    BY <1>2, <2>2, <2>4, <2>5, <2>6
<1>4. bA = bS \cup b1
  <2>1. \A x : x \in bA <=> x \in bS \/ x \in b1
    BY BytesInIs
  <2> HIDE DEF bA, bS, b1
  <2> QED
    BY <2>1
<1>5. bS \cap b1 = {}
  <2> SUFFICES ASSUME NEW x, x \in bS, x \in b1 PROVE FALSE
    OBVIOUS
  <2>1. PICK q \in S : \E i \in 1..g[q].bytes : x = <<q, i>>
    BY BytesInIs
  <2>2. \E i : x = <<p, i>>
    BY BytesInIs
  <2> QED
    BY <2>1, <2>2
<1> HIDE DEF bS, b1, bA
<1>6. Cardinality(bA) = Cardinality(bS) + g[p].bytes
  <2>1. Cardinality(bS \cup b1) = Cardinality(bS) + Cardinality(b1) - Cardinality(bS \cap b1)
    BY <1>1, <1>3, FS_Union
  <2>2. Cardinality(bS \cap b1) = 0
    BY <1>5, FS_EmptySet
  <2> QED
    BY <1>1, <1>3, <1>4, <2>1, <2>2
<1>7. Cardinality(S \cup {p}) = Cardinality(S) + 1
  BY FS_AddElement
<1> QED
  BY <1>6, <1>7 DEF Count, bS, bA

(***************************************************************************)
(* The session, the links, the worker and the scenario.                    *)
(***************************************************************************)
\* Sessions, VM epochs and generations of links only go on.
Onward ==
  /\ owner.id <= owner'.id /\ epoch <= epoch'
  /\ \A t \in Targets : links[t].generation <= links'[t].generation

linkPart == <<links, epoch, owner>>
restPart == <<worker, observers, preview, budget>>

LEMMA TargetTypes ==
  /\ Targets \subseteq Nat /\ Targets \subseteq Int
  /\ TcpTargets \subseteq Targets /\ IsFiniteSet(TcpTargets)
  /\ Uart \in Targets /\ Uart \notin TcpTargets
<1>1. Targets \subseteq Nat /\ TcpTargets \subseteq Targets /\ IsFiniteSet(Targets)
      /\ Uart \in Targets /\ Uart \notin TcpTargets
  BY MuxAssumption DEF Targets
<1>2. TcpTargets \in SUBSET Targets
  BY <1>1
<1>3. IsFiniteSet(TcpTargets)
  BY <1>1, <1>2, FS_Subset
<1>4. Targets \subseteq Int
  BY <1>1
<1> QED
  BY <1>1, <1>3, <1>4

LEMMA SpendKeeps ==
  ASSUME DeviceOK, NEW k \in {"normal", "large", "preview", "disturb"}, Spend(k)
  PROVE  budget' \in Budget
<1>1. budget \in Budget /\ budget[k] > 0 /\ budget' = [budget EXCEPT ![k] = @ - 1]
  BY DEF DeviceOK, Spend
<1>2. budget[k] \in Nat
  BY <1>1 DEF Budget
<1>3. budget[k] - 1 \in Nat
  BY <1>1, <1>2
<1> DEFINE n == budget[k] - 1
<1> HIDE DEF n
<1>4. budget' = [budget EXCEPT ![k] = n] /\ n \in Nat
  BY <1>1, <1>3 DEF n
<1> QED
  BY <1>1, <1>4 DEF Budget

LEMMA LinksStay ==
  ASSUME DeviceOK, UNCHANGED <<links, epoch>>
  PROVE  \A t \in Targets : links[t].generation <= links'[t].generation
<1>1. \A t \in Targets : links[t] \in [generation : Nat \ {0}, open : BOOLEAN]
  BY DEF DeviceOK, LinkTable
<1>2. \A t \in Targets : links[t].generation \in Nat
  BY <1>1
<1> QED
  BY <1>2

LEMMA FrameFields ==
  ASSUME NEW f \in Frame
  PROVE  /\ f.target \in Targets /\ f.target \in Int /\ f.generation \in Nat /\ f.session \in Nat
         /\ f.epoch \in Nat /\ f.class \in Class /\ f.bytes \in Nat /\ f.blocks \in SUBSET (1..BlockCount)
         /\ f.observer \in BOOLEAN /\ f.attempted \in BOOLEAN /\ f.started \in BOOLEAN
         /\ f.late \in BOOLEAN /\ f.overdue \in BOOLEAN /\ f.buffer \in Buffers /\ f.intact \in BOOLEAN
<1>1. /\ f.target \in Targets /\ f.generation \in Nat /\ f.session \in Nat
      /\ f.epoch \in Nat /\ f.class \in Class /\ f.bytes \in Nat /\ f.blocks \in SUBSET (1..BlockCount)
      /\ f.observer \in BOOLEAN /\ f.attempted \in BOOLEAN /\ f.started \in BOOLEAN
      /\ f.late \in BOOLEAN /\ f.overdue \in BOOLEAN /\ f.buffer \in Buffers /\ f.intact \in BOOLEAN
  BY DEF Frame
<1> QED
  BY <1>1, TargetTypes

\* When neither the links nor the session change, the rest must stay typed.
LEMMA RestStep ==
  ASSUME DeviceOK, UNCHANGED linkPart,
         worker' \in WorkerType,
         observers' \in [TcpTargets -> Nat],
         preview' \in PreviewType,
         budget' \in Budget
  PROVE  DeviceOK' /\ Onward
<1>1. DeviceOK'
  BY DEF DeviceOK, linkPart
<1>2. owner.id \in Nat /\ epoch \in Nat
  BY DEF DeviceOK, OwnerType
<1> QED
  BY <1>1, <1>2, LinksStay DEF Onward, linkPart

LEMMA DropPreview ==
  ASSUME DeviceOK, NEW P, NEW whole, Dropped(P, whole)
  PROVE  preview' \in PreviewType
<1>1. preview \in PreviewType
  BY DEF DeviceOK
<1>2. preview' = [k \in DOMAIN preview |-> IF PreviewPlace(preview[k]) \in P THEN 0 ELSE preview[k]]
  BY DEF Dropped
<1> QED
  BY <1>1, <1>2 DEF PreviewType

LEMMA FailType ==
  ASSUME FramesOK, NEW p \in DOMAIN frames, NEW c \in BOOLEAN, Fail(frames[p], c)
  PROVE  worker' \in WorkerType
<1>1. frames[p] \in Frame
  BY DEF FramesOK
<1>2. /\ frames[p].target \in Int /\ frames[p].generation \in Nat /\ frames[p].session \in Nat
  BY <1>1, FrameFields
<1> QED
  BY <1>2 DEF Fail, IsTcp, WorkerType

LEMMA VisitDevice ==
  ASSUME DeviceOK, FramesOK, NEW t, NEW locked \in BOOLEAN, Visit(t, locked)
  PROVE  DeviceOK' /\ Onward
<1> DEFINE WorkerOK == worker' \in WorkerType
           PreviewOK == preview' \in PreviewType
<1>1. PICK p \in Choice(t, locked) :
        \/ Lapse(p) \/ DropStale(p) \/ TooSlow(p) \/ Deadline(p)
        \/ Blocked(p) \/ SendSome(p) \/ SendAll(p) \/ SendFails(p)
  BY DEF Visit
<1>2. p \in DOMAIN frames /\ frames[p] \in Frame
  BY DEF Choice, Seen, FramesOK
<1>3. /\ worker \in WorkerType
      /\ preview \in PreviewType /\ budget \in Budget
      /\ observers \in [TcpTargets -> Nat]
  BY DEF DeviceOK
<1>4. WorkerOK
  <2>1. CASE Lapse(p)
    BY <1>2, <2>1, FailType DEF Lapse
  <2>2. CASE DropStale(p)
    <3>1. frames[p].target \in Int /\ frames[p].generation \in Nat
      BY <1>2, FrameFields
    <3> QED
      BY <1>3, <2>2, <3>1 DEF DropStale, WorkerType
  <2>3. CASE TooSlow(p)
    BY <1>2, <2>3, FailType DEF TooSlow
  <2>4. CASE Deadline(p)
    BY <1>2, <2>4, FailType DEF Deadline
  <2>5. CASE Blocked(p) \/ SendSome(p) \/ SendAll(p)
    BY <1>3, <2>5 DEF Blocked, SendSome, SendAll
  <2>6. CASE SendFails(p)
    BY <1>2, <2>6, FailType DEF SendFails
  <2> QED
    BY <1>1, <2>1, <2>2, <2>3, <2>4, <2>5, <2>6
<1>5. PreviewOK
  <2>1. CASE Lapse(p) \/ DropStale(p) \/ TooSlow(p) \/ Deadline(p) \/ SendAll(p) \/ SendFails(p)
    BY <2>1, DropPreview DEF Lapse, DropStale, TooSlow, Deadline, SendAll, SendFails
  <2>2. CASE Blocked(p)
    BY <1>3, <2>2 DEF Blocked
  <2>3. CASE SendSome(p)
    <3>1. CASE p \in {PreviewPlace(1), PreviewPlace(2)} /\ ~frames[p].started
      <4>1. p[2] \in 0..2
        BY <3>1 DEF PreviewPlace
      <4> QED
        BY <1>3, <2>3, <3>1, <4>1 DEF SendSome, PreviewType
    <3>2. CASE ~(p \in {PreviewPlace(1), PreviewPlace(2)} /\ ~frames[p].started)
      BY <1>3, <2>3, <3>2 DEF SendSome
    <3> QED
      BY <3>1, <3>2
  <2> QED
    BY <1>1, <2>1, <2>2, <2>3
<1>6. UNCHANGED linkPart /\ UNCHANGED <<observers, budget>>
  BY DEF Visit, deviceVars, linkPart
<1> QED
  BY <1>3, <1>4, <1>5, <1>6, RestStep

LEMMA NatMore == \A n \in Nat : n <= n /\ n <= n + 1 /\ n + 1 \in Nat /\ n + 1 # 0
OBVIOUS

\* A step that changes the links or the session keeps them in order.
LEMMA LinkStep ==
  ASSUME DeviceOK, UNCHANGED <<observers, preview>>,
         worker' \in WorkerType,
         budget' \in Budget, epoch' \in Nat, epoch <= epoch',
         links' \in LinkTable,
         \A t \in Targets : links[t].generation <= links'[t].generation,
         owner' \in OwnerType,
         owner.id <= owner'.id,
         owner'.id # 0 => owner'.target \in Targets
                          /\ owner'.generation \in 1..links'[owner'.target].generation,
         owner'.held \/ owner'.ready # "not yet" => owner'.id # 0
  PROVE  DeviceOK' /\ Onward
BY DEF DeviceOK, Onward

LEMMA OwnerOnly ==
  ASSUME DeviceOK, UNCHANGED <<links, epoch, observers, preview, worker>>, budget' \in Budget,
         NEW h \in BOOLEAN, NEW r \in {"not yet", "yes", "over"},
         owner' = [owner EXCEPT !.held = h, !.ready = r],
         h \/ r # "not yet" => owner.id # 0
  PROVE  DeviceOK' /\ Onward
<1>1. /\ owner \in OwnerType
      /\ owner.id # 0 => owner.target \in Targets
                         /\ owner.generation \in 1..links[owner.target].generation
      /\ worker \in WorkerType
      /\ links \in LinkTable /\ epoch \in Nat
  BY DEF DeviceOK
<1>2. /\ owner' \in OwnerType
      /\ owner'.id = owner.id /\ owner'.target = owner.target
      /\ owner'.generation = owner.generation /\ owner'.held = h /\ owner'.ready = r
  BY <1>1 DEF OwnerType
<1>3. owner.id \in Nat
  BY <1>1 DEF OwnerType
<1>4. owner.id <= owner'.id /\ epoch <= epoch
  <2>1. epoch \in Nat
    BY <1>1
  <2> QED
    BY <1>2, <1>3, <2>1, NatMore
<1>5. \A t \in Targets : links[t].generation <= links'[t].generation
  BY LinksStay
<1>6. links' = links /\ epoch' = epoch /\ worker' = worker
  OBVIOUS
<1>7. /\ owner'.id # 0 => owner'.target \in Targets
                          /\ owner'.generation \in 1..links'[owner'.target].generation
      /\ owner'.held \/ owner'.ready # "not yet" => owner'.id # 0
  BY <1>1, <1>2, <1>6
<1> QED
  BY <1>1, <1>2, <1>4, <1>5, <1>6, <1>7, LinkStep

LEMMA DeviceEvent ==
  ASSUME DeviceOK, FramesOK, Device
  PROVE  DeviceOK' /\ Onward
<1>1. /\ owner \in OwnerType
      /\ owner.id # 0 => owner.target \in Targets
                         /\ owner.generation \in 1..links[owner.target].generation
      /\ worker \in WorkerType
      /\ links \in LinkTable /\ epoch \in Nat
      /\ budget \in Budget /\ (owner.held \/ owner.ready # "not yet" => owner.id # 0)
  BY DEF DeviceOK
<1>2. budget.targets \subseteq Targets
  BY <1>1 DEF Budget
<1>3. \A t \in Targets : links[t].generation \in Nat /\ links[t].generation >= 1
                         /\ links[t].open \in BOOLEAN
  <2>1. \A t \in Targets : links[t] \in [generation : Nat \ {0}, open : BOOLEAN]
    BY <1>1 DEF LinkTable
  <2>2. \A t \in Targets : links[t].generation \in Nat \ {0} /\ links[t].open \in BOOLEAN
    BY <2>1
  <2> QED
    BY <2>2
<1>4. owner.id \in Nat /\ owner.target \in Int /\ owner.generation \in Nat
      /\ owner.held \in BOOLEAN /\ owner.ready \in {"not yet", "yes", "over"}
  BY <1>1 DEF OwnerType
<1>12. epoch \in Nat
  BY <1>1
<1>5. ASSUME NEW event, Disturb(event) PROVE budget' \in Budget
  BY <1>5, SpendKeeps DEF Disturb
<1>6. UNCHANGED deviceFrame => UNCHANGED <<observers, preview, worker>>
  BY DEF deviceFrame, specialVars
<1>7. ASSUME NEW t \in budget.targets, OwnerBegins(t) PROVE DeviceOK' /\ Onward
  <2>1. /\ owner' = [id |-> owner.id + 1, target |-> t, generation |-> links[t].generation,
                     held |-> TRUE, ready |-> "not yet"]
        /\ links' = links /\ epoch' = epoch /\ worker' = worker /\ budget' = budget
        /\ UNCHANGED <<observers, preview>>
    BY <1>6, <1>7 DEF OwnerBegins
  <2>2. t \in Targets /\ t \in Int
    BY <1>2, TargetTypes
  <2>3. /\ owner' \in OwnerType
        /\ owner'.id = owner.id + 1 /\ owner'.target = t
        /\ owner'.generation = links'[t].generation
    <3>1. owner.id + 1 \in Nat /\ links[t].generation \in Nat
      BY <1>3, <1>4, <2>2, NatMore
    <3> QED
      BY <2>1, <2>2, <3>1 DEF OwnerType
  <2>4. /\ owner.id <= owner.id + 1 /\ owner.id + 1 # 0
        /\ links'[t].generation \in 1..links'[t].generation
    <3>1. links'[t].generation \in Nat /\ links'[t].generation >= 1
      BY <1>3, <2>1, <2>2
    <3>2. \A n \in Nat : n >= 1 => n \in 1..n
      OBVIOUS
    <3> QED
      BY <1>4, <3>1, <3>2, NatMore
  <2>5. epoch' \in Nat /\ epoch <= epoch' /\ links' \in LinkTable
    <3>1. epoch <= epoch
      BY <1>12, NatMore
    <3> QED
      BY <1>1, <2>1, <3>1
  <2>6. budget' \in Budget /\ worker' \in WorkerType
    BY <1>1, <2>1
  <2>7. \A u \in Targets : links[u].generation <= links'[u].generation
    BY <2>1, LinksStay
  <2> QED
    BY <2>1, <2>2, <2>3, <2>4, <2>5, <2>6, <2>7, LinkStep
<1>8. ASSUME NEW t \in budget.targets, LinkCloses(t) PROVE DeviceOK' /\ Onward
  <2>1. /\ links' = [links EXCEPT ![t].open = FALSE]
        /\ owner' = owner /\ epoch' = epoch /\ worker' = worker
        /\ UNCHANGED <<observers, preview>> /\ budget' \in Budget
    BY <1>5, <1>6, <1>8 DEF LinkCloses
  <2>2. /\ links' \in LinkTable
        /\ \A u \in Targets : links'[u].generation = links[u].generation
    BY <1>1, <2>1 DEF LinkTable
  <2>3. \A u \in Targets : links[u].generation <= links'[u].generation
    BY <1>3, <2>2
  <2>4. owner.id <= owner'.id /\ epoch <= epoch'
    BY <1>4, <1>12, <2>1, NatMore
  <2>5. owner'.id # 0 => owner'.target \in Targets
                         /\ owner'.generation \in 1..links'[owner'.target].generation
    BY <1>1, <2>1, <2>2
  <2> QED
    BY <1>1, <2>1, <2>2, <2>3, <2>4, <2>5, LinkStep
<1>9. ASSUME NEW t \in budget.targets, LinkOpens(t) PROVE DeviceOK' /\ Onward
  <2>1. /\ links' = [links EXCEPT ![t] = [generation |-> links[t].generation + 1, open |-> TRUE]]
        /\ owner' = owner /\ epoch' = epoch /\ worker' = worker /\ budget' = budget
        /\ UNCHANGED <<observers, preview>>
    BY <1>6, <1>9 DEF LinkOpens
  <2>2. links[t].generation + 1 \in Nat \ {0}
    BY <1>2, <1>3
  <2>3. /\ links' \in LinkTable
        /\ \A u \in Targets : links'[u].generation = links[u].generation
                              \/ links'[u].generation = links[u].generation + 1
    BY <1>1, <1>2, <2>1, <2>2 DEF LinkTable
  <2>4. \A u \in Targets : links[u].generation <= links'[u].generation
                           /\ links'[u].generation \in Nat
    BY <1>3, <2>3
  <2>5. owner'.id # 0 => owner'.target \in Targets
                         /\ owner'.generation \in 1..links'[owner'.target].generation
    <3> SUFFICES ASSUME owner.id # 0
                 PROVE  owner.target \in Targets /\ owner.generation \in 1..links'[owner.target].generation
      BY <2>1
    <3>1. owner.target \in Targets /\ owner.generation \in 1..links[owner.target].generation
      BY <1>1
    <3>2. links[owner.target].generation <= links'[owner.target].generation
          /\ links'[owner.target].generation \in Nat /\ links[owner.target].generation \in Nat
      BY <1>3, <2>4, <3>1
    <3> QED
      BY <3>1, <3>2
  <2>6. owner.id <= owner'.id /\ epoch <= epoch'
    BY <1>4, <1>12, <2>1, NatMore
  <2> QED
    BY <1>1, <2>1, <2>3, <2>4, <2>5, <2>6, LinkStep
<1>10. ASSUME OwnerReady \/ OwnerReleases \/ OwnerEnds PROVE DeviceOK' /\ Onward
  <2>1. CASE OwnerReady
    <3>1. /\ owner' = [owner EXCEPT !.held = owner.held, !.ready = "yes"] /\ owner.held
          /\ UNCHANGED <<links, epoch, observers, preview, worker>> /\ budget' \in Budget
      BY <1>1, <1>6, <2>1 DEF OwnerReady
    <3> QED
      BY <1>1, <1>4, <3>1, OwnerOnly
  <2>2. CASE OwnerReleases
    <3>1. /\ owner' = [owner EXCEPT !.held = owner.held, !.ready = "over"] /\ owner.held
          /\ UNCHANGED <<links, epoch, observers, preview, worker>> /\ budget' \in Budget
      BY <1>1, <1>5, <1>6, <2>2 DEF OwnerReleases
    <3> QED
      BY <1>1, <1>4, <3>1, OwnerOnly
  <2>3. CASE OwnerEnds
    <3>1. /\ owner' = [owner EXCEPT !.held = FALSE, !.ready = owner.ready]
          /\ UNCHANGED <<links, epoch, observers, preview, worker>> /\ budget' \in Budget
      BY <1>1, <1>5, <1>6, <2>3 DEF OwnerEnds, OwnerLost
    <3> QED
      BY <1>1, <1>4, <3>1, OwnerOnly
  <2> QED
    BY <1>10, <2>1, <2>2, <2>3
<1>11. ASSUME VmReset \/ Pause PROVE DeviceOK' /\ Onward
  <2>1. /\ epoch' = epoch + 1 \/ epoch' = epoch
        /\ links' = links /\ owner' = owner /\ worker' = worker
        /\ UNCHANGED <<observers, preview>> /\ budget' \in Budget
    <3>1. CASE VmReset
      BY <1>5, <1>6, <3>1 DEF VmReset
    <3>2. CASE Pause
      BY <1>5, <1>6, <3>2 DEF Pause
    <3> QED
      BY <1>11, <3>1, <3>2
  <2>2. epoch' \in Nat /\ epoch <= epoch'
    BY <1>12, <2>1, NatMore
  <2>3. \A u \in Targets : links[u].generation <= links'[u].generation
    BY <1>3, <2>1
  <2>4. owner.id <= owner'.id
    BY <1>4, <2>1, NatMore
  <2> QED
    BY <1>1, <2>1, <2>2, <2>3, <2>4, LinkStep
<1> QED
  BY <1>7, <1>8, <1>9, <1>10, <1>11 DEF Device

(***************************************************************************)
(* What a step does to the frames: one of six effects.                     *)
(***************************************************************************)
\* A frame that is queued: nothing of it has been sent, and it is of a link, a session and
\* a VM epoch that have been there.
Fresh(f) ==
  /\ f \in Frame /\ ~f.started /\ f.intact
  /\ f.generation \in 1..links[f.target].generation
  /\ f.session <= owner.id /\ f.epoch <= epoch

\* Only what has become of the sending changes.
FlagsOf(f, g) ==
  \E a, s, l, o \in BOOLEAN :
    g = [f EXCEPT !.attempted = a, !.started = s, !.late = l, !.overdue = o]
FlagsChange ==
  /\ frames' \in [DOMAIN frames -> Frame]
  /\ \A p \in DOMAIN frames : FlagsOf(frames[p], frames'[p])
  /\ UNCHANGED <<order, used, freeBlocks, quota>>

NormalStored(t, p, f) ==
  /\ t \in Targets /\ p \in NormalPlaces(t) \ DOMAIN frames
  /\ Fresh(f) /\ f.target = t /\ f.buffer = NoPlace
  /\ QueueAccepts(t, f) /\ (IsTcp(t) => TcpAccepts(f))
  /\ f.blocks \subseteq freeBlocks[Arena(t)]
  /\ Stored(p, f)
  /\ used' = [used EXCEPT ![t] = More(@, f)]
  /\ quota' = IF IsTcp(t) THEN TcpReserve(f) ELSE quota
  /\ freeBlocks' = [freeBlocks EXCEPT ![Arena(t)] = @ \ f.blocks]

SpecialStored(p, f) ==
  /\ p \in Special \ ObserverPlaces
  /\ p \in DOMAIN frames => ~frames[p].started
  /\ Fresh(f) /\ f.buffer = p
  /\ Stored(p, f)
  /\ UNCHANGED <<used, freeBlocks, quota>>

Effect ==
  \/ UNCHANGED <<frames, order, used, freeBlocks, quota>>
  \/ FlagsChange
  \/ \E P \in SUBSET DOMAIN frames, whole \in BOOLEAN : Dropped(P, whole)
  \/ \E t \in Targets : \E p, f : NormalStored(t, p, f)
  \/ \E p, f : SpecialStored(p, f)
  \/ Publish

LEMMA SubmitEffect ==
  ASSUME DeviceOK, CountsOK, NEW t \in budget.targets, NEW kind \in budget.kinds,
         Submit(t, kind)
  PROVE  \E p, f : NormalStored(t, p, f)
<1> DEFINE g == IF kind.owned THEN owner.generation ELSE links[t].generation
           s == IF kind.owned THEN owner.id ELSE 0
           v == IF kind.vm THEN epoch ELSE 0
           f0 == NewFrame(t, g, s, v, kind.class, kind.bytes)
           slots == {i \in 1..QueueFrames : <<"queue", t, i>> \notin DOMAIN frames}
           free == freeBlocks[Arena(t)]
           taken == {b \in free : Cardinality({c \in free : c < b}) < kind.blocks}
           f == [f0 EXCEPT !.blocks = taken]
           p == <<"queue", t, LowestOf(slots)>>
<1>1. t \in Targets /\ kind \in Kinds
  BY DEF DeviceOK, Budget
<1>2. /\ kind.owned => owner.id # 0 /\ owner.target = t
      /\ QueueAccepts(t, f0) /\ slots # {} /\ (IsTcp(t) => TcpAccepts(f0))
      /\ Stored(p, f)
      /\ used' = [used EXCEPT ![t] = More(@, f0)]
      /\ quota' = IF IsTcp(t) THEN TcpReserve(f0) ELSE quota
      /\ freeBlocks' = [freeBlocks EXCEPT ![Arena(t)] = @ \ taken]
  BY DEF Submit
<1>3. kind.owned \in BOOLEAN /\ kind.vm \in BOOLEAN /\ kind.class \in Class /\ kind.bytes \in Nat
  BY <1>1 DEF Kinds
<1>4. owner.id \in Nat /\ epoch \in Nat /\ owner.generation \in Nat
      /\ (owner.id # 0 => owner.generation \in 1..links[owner.target].generation)
  BY DEF DeviceOK, OwnerType
<1>5. links[t].generation \in Nat \ {0}
  <2>1. links[t] \in [generation : Nat \ {0}, open : BOOLEAN]
    BY <1>1 DEF DeviceOK, LinkTable
  <2> QED
    BY <2>1
<1>6. g \in Nat /\ g \in 1..links[t].generation
  <2>1. \A n \in Nat \ {0} : n \in 1..n
    OBVIOUS
  <2> QED
    BY <1>2, <1>4, <1>5, <2>1
<1>7. s \in Nat /\ s <= owner.id /\ v \in Nat /\ v <= epoch
  <2>1. \A n \in Nat : 0 <= n /\ n <= n
    OBVIOUS
  <2> QED
    BY <1>4, <2>1
<1>8. taken \subseteq freeBlocks[Arena(t)] /\ taken \in SUBSET (1..BlockCount)
  <2>1. Arena(t) \in Arenas
    BY <1>1 DEF Arena, Arenas, IsTcp, Targets
  <2>2. freeBlocks[Arena(t)] \in SUBSET (1..BlockCount)
    BY <2>1 DEF CountsOK
  <2> QED
    BY <2>2
<1> HIDE DEF taken, g, s, v
<1>9. /\ f \in Frame /\ f.target = t /\ f.generation = g /\ f.session = s /\ f.epoch = v
      /\ f.class = kind.class /\ f.bytes = kind.bytes /\ f.blocks = taken /\ f.buffer = NoPlace
      /\ f.started = FALSE /\ f.intact = TRUE
      /\ f0.class = f.class /\ f0.bytes = f.bytes /\ f0.session = f.session
  <2>1. f = [NewFrame(t, g, s, v, kind.class, kind.bytes) EXCEPT !.blocks = taken]
    OBVIOUS
  <2>2. NoPlace \in Buffers
    BY DEF Buffers
  <2>3. f0.class = kind.class /\ f0.bytes = kind.bytes /\ f0.session = s
    BY DEF NewFrame
  <2> HIDE DEF f, f0
  <2>4. /\ f \in Frame /\ f.target = t /\ f.generation = g /\ f.session = s /\ f.epoch = v
        /\ f.class = kind.class /\ f.bytes = kind.bytes /\ f.blocks = taken
        /\ f.buffer = NoPlace /\ f.started = FALSE /\ f.intact = TRUE
    BY ONLY <1>1, <1>3, <1>6, <1>7, <1>8, <2>1, <2>2 DEF NewFrame, Frame
  <2> QED
    BY <2>3, <2>4
<1> HIDE DEF f, f0
<1>10. Fresh(f)
  BY <1>6, <1>7, <1>9 DEF Fresh
<1>11. p \in NormalPlaces(t) \ DOMAIN frames
  <2>1. slots \in SUBSET Nat
    OBVIOUS
  <2>2. LowestOf(slots) \in slots
    <3> HIDE DEF slots
    <3> QED
      BY <1>2, <2>1, LowestIn
  <2> QED
    BY <2>2 DEF NormalPlaces
<1>12. /\ QueueAccepts(t, f) /\ (IsTcp(t) => TcpAccepts(f))
       /\ More(used[t], f0) = More(used[t], f) /\ TcpReserve(f0) = TcpReserve(f)
  <2>1. \A share, a, b : Fits(share, f0, a, b) <=> Fits(share, f, a, b)
    BY <1>9 DEF Fits
  <2>2. \A share : More(share, f0) = More(share, f)
    BY <1>9 DEF More
  <2>3. (Low(f0) <=> Low(f)) /\ (Discovery(f0) <=> Discovery(f))
    BY <1>9 DEF Low, Discovery
  <2>4. QueueAccepts(t, f)
    BY <1>2, <2>1, <2>3 DEF QueueAccepts, FitsReserved
  <2>5. IsTcp(t) => TcpAccepts(f)
    BY <1>2, <2>1, <2>3 DEF TcpAccepts, FitsReserved
  <2>6. TcpReserve(f0) = TcpReserve(f)
    BY <2>2, <2>3 DEF TcpReserve
  <2> QED
    BY <2>2, <2>4, <2>5, <2>6
<1>13. NormalStored(t, p, f)
  <2>1. Stored(p, f)
    BY <1>2
  <2>2. f.blocks \subseteq freeBlocks[Arena(t)]
    BY <1>8, <1>9
  <2>3. used' = [used EXCEPT ![t] = More(@, f)]
    BY <1>2, <1>12
  <2>4. freeBlocks' = [freeBlocks EXCEPT ![Arena(t)] = @ \ f.blocks]
    BY <1>2, <1>9
  <2>5. quota' = IF IsTcp(t) THEN TcpReserve(f) ELSE quota
    BY <1>2, <1>12
  <2> HIDE DEF p
  <2> QED
    BY <1>1, <1>9, <1>10, <1>11, <1>12, <2>1, <2>2, <2>3, <2>4, <2>5 DEF NormalStored
<1> QED
  BY <1>13

LEMMA FlagsSet ==
  ASSUME FramesOK, NEW p \in DOMAIN frames, UNCHANGED <<order, used, freeBlocks, quota>>,
         \/ frames' = [frames EXCEPT ![p].attempted = TRUE]
         \/ frames' = [frames EXCEPT ![p].attempted = TRUE, ![p].started = TRUE, ![p].late = FALSE]
         \/ frames' = [frames EXCEPT ![p].late = TRUE]
         \/ frames' = [frames EXCEPT ![p].overdue = TRUE]
  PROVE  FlagsChange
<1>1. frames \in [DOMAIN frames -> Frame]
  BY DEF FramesOK
<1>2. ASSUME NEW f \in Frame, NEW a \in BOOLEAN, NEW s \in BOOLEAN, NEW l \in BOOLEAN, NEW o \in BOOLEAN
      PROVE  [f EXCEPT !.attempted = a, !.started = s, !.late = l, !.overdue = o] \in Frame
  BY DEF Frame
<1>3. ASSUME NEW f \in Frame
      PROVE  /\ FlagsOf(f, f) /\ FlagsOf(f, [f EXCEPT !.attempted = TRUE])
             /\ FlagsOf(f, [f EXCEPT !.attempted = TRUE, !.started = TRUE, !.late = FALSE])
             /\ FlagsOf(f, [f EXCEPT !.late = TRUE]) /\ FlagsOf(f, [f EXCEPT !.overdue = TRUE])
  <2>1. /\ f.attempted \in BOOLEAN /\ f.started \in BOOLEAN /\ f.late \in BOOLEAN
        /\ f.overdue \in BOOLEAN
    BY FrameFields
  <2>2. f = [f EXCEPT !.attempted = f.attempted, !.started = f.started, !.late = f.late, !.overdue = f.overdue]
    BY DEF Frame
  <2>3. [f EXCEPT !.attempted = TRUE]
          = [f EXCEPT !.attempted = TRUE, !.started = f.started, !.late = f.late, !.overdue = f.overdue]
    BY DEF Frame
  <2>4. [f EXCEPT !.attempted = TRUE, !.started = TRUE, !.late = FALSE]
          = [f EXCEPT !.attempted = TRUE, !.started = TRUE, !.late = FALSE, !.overdue = f.overdue]
    BY DEF Frame
  <2>5. [f EXCEPT !.late = TRUE]
          = [f EXCEPT !.attempted = f.attempted, !.started = f.started, !.late = TRUE, !.overdue = f.overdue]
    BY DEF Frame
  <2>6. [f EXCEPT !.overdue = TRUE]
          = [f EXCEPT !.attempted = f.attempted, !.started = f.started, !.late = f.late, !.overdue = TRUE]
    BY DEF Frame
  <2>7. TRUE \in BOOLEAN /\ FALSE \in BOOLEAN
    OBVIOUS
  <2> QED
    BY <2>1, <2>2, <2>3, <2>4, <2>5, <2>6, <2>7, Zenon DEF FlagsOf
<1>4. /\ \A f, g : f \in Frame /\ FlagsOf(f, g) => g \in Frame
  BY <1>2 DEF FlagsOf
<1>5. /\ DOMAIN frames' = DOMAIN frames
      /\ frames' = [q \in DOMAIN frames |-> frames'[q]]
      /\ \A q \in DOMAIN frames : q # p => frames'[q] = frames[q]
      /\ \/ frames'[p] = [frames[p] EXCEPT !.attempted = TRUE]
         \/ frames'[p] = [frames[p] EXCEPT !.attempted = TRUE, !.started = TRUE, !.late = FALSE]
         \/ frames'[p] = [frames[p] EXCEPT !.late = TRUE]
         \/ frames'[p] = [frames[p] EXCEPT !.overdue = TRUE]
  OBVIOUS
<1>6. \A q \in DOMAIN frames : frames[q] \in Frame
  BY <1>1
<1>7. \A q \in DOMAIN frames : FlagsOf(frames[q], frames'[q])
  <2>1. FlagsOf(frames[p], frames'[p])
    <3> DEFINE f == frames[p]
               g == frames'[p]
    <3>1. f \in Frame
      BY <1>6
    <3>2. \/ g = [f EXCEPT !.attempted = TRUE]
          \/ g = [f EXCEPT !.attempted = TRUE, !.started = TRUE, !.late = FALSE]
          \/ g = [f EXCEPT !.late = TRUE]
          \/ g = [f EXCEPT !.overdue = TRUE]
      BY <1>5
    <3> HIDE DEF f, g
    <3>3. FlagsOf(f, g)
      BY <1>3, <3>1, <3>2, Zenon
    <3> QED
      BY <3>3 DEF f, g
  <2>2. ASSUME NEW q \in DOMAIN frames, q # p PROVE FlagsOf(frames[q], frames'[q])
    <3>1. frames'[q] = frames[q] /\ frames[q] \in Frame
      BY <1>5, <1>6, <2>2
    <3> QED
      BY <1>3, <3>1
  <2> QED
    BY <2>1, <2>2
<1>8. frames' \in [DOMAIN frames -> Frame]
  BY <1>4, <1>5, <1>6, <1>7
<1> QED
  BY <1>7, <1>8 DEF FlagsChange

LEMMA SpecialIs ==
  /\ Large \in Special /\ Large \in Buffers /\ Large \notin ObserverPlaces
  /\ \A i \in 1..2 : PreviewPlace(i) \in Special /\ PreviewPlace(i) \in Buffers
                     /\ PreviewPlace(i) \notin ObserverPlaces
  /\ ObserverPlaces \subseteq Special /\ ObserverBuffers \subseteq Buffers
  /\ \A p \in Special \ ObserverPlaces :
       p = Large \/ p = PreviewPlace(1) \/ p = PreviewPlace(2)
  /\ \A i : PreviewPlace(i)[2] = i
<1>1. \A i \in 1..2 : i = 1 \/ i = 2
  OBVIOUS
<1>2. \A i : PreviewPlace(i)[2] = i
  BY DEF PreviewPlace
<1> QED
  BY <1>1, <1>2, PlacesDiffer DEF Special, Buffers

\* The owner's output was ready at some time: it names a link and a session.
LEMMA OwnerWasReady ==
  ASSUME DeviceOK, WasReady
  PROVE  /\ owner.target \in Targets /\ owner.generation \in Nat /\ owner.id \in Nat
         /\ epoch \in Nat
         /\ owner.generation \in 1..links[owner.target].generation
BY DEF DeviceOK, WasReady, OwnerType

LEMMA OwnerFrame ==
  ASSUME DeviceOK, WasReady, NEW p \in Special \ ObserverPlaces, NEW v \in {0, epoch},
         NEW c \in Class, NEW f, f = SpecialFrame(owner.target, owner.generation, owner.id, v, c, p)
  PROVE  Fresh(f) /\ f.buffer = p
<1>1. p \in Buffers
  BY SpecialIs
<1>2. v \in Nat /\ v <= epoch /\ owner.id <= owner.id
  BY OwnerWasReady
<1>3. /\ f \in Frame /\ f.target = owner.target /\ f.generation = owner.generation
      /\ f.session = owner.id /\ f.epoch = v /\ f.buffer = p
      /\ f.started = FALSE /\ f.intact = TRUE
  <2> DEFINE t == owner.target
             g == owner.generation
             s == owner.id
  <2>1. t \in Targets /\ g \in Nat /\ s \in Nat
    BY OwnerWasReady
  <2>2. f = SpecialFrame(t, g, s, v, c, p)
    OBVIOUS
  <2> HIDE DEF t, g, s
  <2>3. /\ f \in Frame /\ f.target = t /\ f.generation = g
        /\ f.session = s /\ f.epoch = v /\ f.buffer = p
        /\ f.started = FALSE /\ f.intact = TRUE
    <3>1. c \in Class /\ v \in Nat /\ p \in Buffers
      BY <1>1, <1>2
    <3> QED
      BY ONLY <2>1, <2>2, <3>1 DEF SpecialFrame, NewFrame, Frame
  <2> QED
    BY <2>3 DEF t, g, s
<1> QED
  BY <1>2, <1>3, OwnerWasReady DEF Fresh

LEMMA LargeEffect ==
  ASSUME DeviceOK, SubmitLarge
  PROVE  \E p, f : SpecialStored(p, f)
<1>1. PICK v \in {0, epoch} :
        Stored(Large, SpecialFrame(owner.target, owner.generation, owner.id, v, Control, Large))
  BY DEF SubmitLarge
<1> DEFINE f == SpecialFrame(owner.target, owner.generation, owner.id, v, Control, Large)
<1>2. WasReady /\ Large \notin DOMAIN frames /\ UNCHANGED <<used, freeBlocks, quota>>
  BY DEF SubmitLarge
<1>3. Control \in Class /\ Large \in Special \ ObserverPlaces
  BY SpecialIs DEF Class
<1>4. Fresh(f) /\ f.buffer = Large
  BY <1>2, <1>3, OwnerFrame
<1> HIDE DEF f
<1>5. SpecialStored(Large, f)
  BY <1>1, <1>2, <1>3, <1>4 DEF SpecialStored, f
<1> QED
  BY <1>5

LEMMA PoolIs ==
  ASSUME preview \in PreviewType, PreviewPool # 0
  PROVE  PreviewPool \in 1..2
<1> DEFINE free == {i \in 1..2 : i # preview.active /\ PreviewPlace(i) \notin DOMAIN frames}
<1>1. preview.pending \in 0..2
  BY DEF PreviewType
<1>2. free \in SUBSET Nat
  OBVIOUS
<1>3. free # {} => LowestOf(free) \in 1..2
  <2> SUFFICES ASSUME free # {} PROVE LowestOf(free) \in free
    OBVIOUS
  <2> HIDE DEF free
  <2> QED
    BY <1>2, LowestIn
<1> QED
  BY <1>1, <1>3 DEF PreviewPool

LEMMA PreviewEffect ==
  ASSUME DeviceOK, SubmitPreview
  PROVE  /\ \E p, f : SpecialStored(p, f)
         /\ preview' \in PreviewType
<1> DEFINE p == PreviewPlace(PreviewPool)
           f == SpecialFrame(owner.target, owner.generation, owner.id, epoch, Preview, p)
<1>1. preview \in PreviewType
  BY DEF DeviceOK
<1>2. /\ WasReady /\ PreviewPool # 0 /\ (p \in DOMAIN frames => ~frames[p].started)
      /\ Stored(p, f)
      /\ preview' = [preview EXCEPT !.pending = p[2]]
      /\ UNCHANGED <<used, freeBlocks, quota>>
  BY DEF SubmitPreview
<1>3. PreviewPool \in 1..2
  BY <1>1, <1>2, PoolIs
<1>4. Preview \in Class /\ p \in Special \ ObserverPlaces /\ p[2] = PreviewPool
  BY <1>3, SpecialIs DEF Class
<1>5. preview' \in PreviewType
  BY <1>1, <1>2, <1>3, <1>4 DEF PreviewType
<1>6. Fresh(f) /\ f.buffer = p
  <2> HIDE DEF p
  <2> QED
    BY <1>2, <1>4, OwnerFrame
<1> HIDE DEF p, f
<1>7. SpecialStored(p, f)
  BY <1>2, <1>4, <1>6 DEF SpecialStored
<1> QED
  BY <1>5, <1>7

\* A visit of the worker drops the frame it chose, or sends some of it.
LEMMA VisitEffect ==
  ASSUME FramesOK, NEW t, NEW locked, Visit(t, locked)
  PROVE  FlagsChange \/ \E P \in SUBSET DOMAIN frames, whole \in BOOLEAN : Dropped(P, whole)
<1>1. PICK p \in Choice(t, locked) :
        \/ Lapse(p) \/ DropStale(p) \/ TooSlow(p) \/ Deadline(p)
        \/ Blocked(p) \/ SendSome(p) \/ SendAll(p) \/ SendFails(p)
  BY DEF Visit
<1>2. p \in DOMAIN frames
  BY DEF Choice, Seen
<1>3. {p} \in SUBSET DOMAIN frames
  BY <1>2
<1>4. CASE Lapse(p) \/ DropStale(p) \/ TooSlow(p) \/ Deadline(p) \/ SendFails(p)
  <2>1. Dropped({p}, FALSE)
    BY <1>4 DEF Lapse, DropStale, TooSlow, Deadline, SendFails
  <2> QED
    BY <1>3, <2>1
<1>5. CASE SendAll(p)
  <2>1. Dropped({p}, TRUE)
    BY <1>5 DEF SendAll
  <2> QED
    BY <1>3, <2>1
<1>6. CASE Blocked(p)
  <2>1. /\ frames' = [frames EXCEPT ![p].attempted = TRUE]
        /\ UNCHANGED <<order, used, freeBlocks, quota>>
    BY <1>6 DEF Blocked
  <2> QED
    BY <1>2, <2>1, FlagsSet
<1>7. CASE SendSome(p)
  <2>1. /\ frames' = [frames EXCEPT ![p].attempted = TRUE, ![p].started = TRUE, ![p].late = FALSE]
        /\ UNCHANGED <<order, used, freeBlocks, quota>>
    BY <1>7 DEF SendSome
  <2> QED
    BY <1>2, <2>1, FlagsSet
<1> QED
  BY <1>1, <1>4, <1>5, <1>6, <1>7

LEMMA SubscribeTyped ==
  ASSUME DeviceOK, NEW t \in TcpTargets, NEW enable \in BOOLEAN, Subscribe(t, enable)
  PROVE  observers' \in [TcpTargets -> Nat]
<1>1. links[t].generation \in Nat
  <2>1. links[t] \in [generation : Nat \ {0}, open : BOOLEAN]
    BY TargetTypes DEF DeviceOK, LinkTable
  <2> QED
    BY <2>1
<1>2. observers \in [TcpTargets -> Nat]
      /\ observers' = [observers EXCEPT ![t] = IF enable THEN links[t].generation ELSE 0]
  BY DEF DeviceOK, Subscribe
<1> QED
  BY <1>1, <1>2

\* Every step has one of the six effects, and keeps the device in order.
LEMMA StepEffect ==
  ASSUME DeviceOK, FramesOK, CountsOK, [MuxNext]_muxVars
  PROVE  Effect /\ DeviceOK' /\ Onward
<1> USE DEF queueVars, specialVars, deviceVars
<1> DEFINE Same == UNCHANGED <<frames, order, used, freeBlocks, quota>>
<1>1. worker \in WorkerType /\ observers \in [TcpTargets -> Nat] /\ preview \in PreviewType
      /\ budget \in Budget
  BY DEF DeviceOK
<1>2. ASSUME NEW t \in budget.targets, NEW kind \in budget.kinds, Submit(t, kind)
      PROVE  Effect /\ DeviceOK' /\ Onward
  <2>1. Effect
    <3>1. t \in Targets
      BY <1>1 DEF Budget
    <3>2. \E p, f : NormalStored(t, p, f)
      BY <1>2, SubmitEffect
    <3> QED
      BY <3>1, <3>2 DEF Effect
  <2>2. budget' \in Budget
    BY <1>2, SpendKeeps DEF Submit
  <2>3. UNCHANGED linkPart /\ UNCHANGED <<worker, observers, preview>>
    BY <1>2 DEF Submit, linkPart
  <2> QED
    BY <1>1, <2>1, <2>2, <2>3, RestStep
<1>3. CASE SubmitLarge
  <2>1. Effect
    BY <1>3, LargeEffect DEF Effect
  <2>2. budget' \in Budget
    BY <1>3, SpendKeeps DEF SubmitLarge
  <2>3. UNCHANGED linkPart /\ UNCHANGED <<worker, observers, preview>>
    BY <1>3 DEF SubmitLarge, linkPart
  <2> QED
    BY <1>1, <2>1, <2>2, <2>3, RestStep
<1>4. CASE SubmitPreview
  <2>1. Effect /\ preview' \in PreviewType
    BY <1>4, PreviewEffect DEF Effect
  <2>2. budget' \in Budget
    BY <1>4, SpendKeeps DEF SubmitPreview
  <2>3. UNCHANGED linkPart /\ UNCHANGED <<worker, observers>>
    BY <1>4 DEF SubmitPreview, linkPart
  <2> QED
    BY <1>1, <2>1, <2>2, <2>3, RestStep
<1>5. CASE Publish
  <2>1. UNCHANGED linkPart /\ UNCHANGED <<worker, observers, preview, budget>>
    BY <1>5 DEF Publish, linkPart
  <2> QED
    BY <1>1, <1>5, <2>1, RestStep DEF Effect
<1>6. ASSUME NEW t \in TcpTargets, NEW enable \in BOOLEAN, Subscribe(t, enable)
      PROVE  Effect /\ DeviceOK' /\ Onward
  <2>1. observers' \in [TcpTargets -> Nat]
    BY <1>6, SubscribeTyped
  <2>2. Same /\ UNCHANGED linkPart /\ UNCHANGED <<worker, preview, budget>>
    BY <1>6 DEF Subscribe, linkPart
  <2> QED
    BY <1>1, <2>1, <2>2, RestStep DEF Effect
<1>7. ASSUME NEW t \in Targets, NEW locked \in BOOLEAN, Visit(t, locked)
      PROVE  Effect /\ DeviceOK' /\ Onward
  BY <1>7, VisitEffect, VisitDevice DEF Effect
<1>8. ASSUME NEW t \in Targets, NEW locked \in BOOLEAN, Expire(t, locked)
      PROVE  Effect /\ DeviceOK' /\ Onward
  <2>1. PICK p \in Seen(t, locked) : Dropped({p}, FALSE)
    BY <1>8 DEF Expire
  <2>2. {p} \in SUBSET DOMAIN frames
    BY DEF Seen
  <2>3. Effect /\ preview' \in PreviewType
    BY <2>1, <2>2, DropPreview DEF Effect
  <2>4. UNCHANGED linkPart /\ UNCHANGED <<worker, observers, budget>>
    BY <1>8 DEF Expire, linkPart
  <2> QED
    BY <1>1, <2>3, <2>4, RestStep
<1>9. CASE LinkLost
  <2>1. Same /\ UNCHANGED <<links, epoch, observers, preview, budget>>
    BY <1>9 DEF LinkLost
  <2>2. worker' \in WorkerType
    BY <1>1, <1>9 DEF LinkLost, WorkerType
  <2>3. owner' = owner \/ owner' = [owner EXCEPT !.held = FALSE]
    BY <1>9 DEF LinkLost, OwnerLost
  <2>4. owner \in OwnerType /\ links \in LinkTable /\ epoch \in Nat
        /\ (owner.id # 0 => owner.target \in Targets
                            /\ owner.generation \in 1..links[owner.target].generation)
        /\ (owner.held \/ owner.ready # "not yet" => owner.id # 0)
    BY DEF DeviceOK
  <2>5. owner' \in OwnerType /\ owner'.id = owner.id /\ owner'.target = owner.target
        /\ owner'.generation = owner.generation /\ owner'.ready = owner.ready
        /\ (owner'.held => owner.held) /\ owner.id \in Nat
    BY <2>3, <2>4 DEF OwnerType
  <2>6. owner.id <= owner'.id /\ epoch <= epoch'
    BY <2>1, <2>4, <2>5, NatMore
  <2>7. \A u \in Targets : links[u].generation <= links'[u].generation
    BY <2>1, LinksStay
  <2>8. budget' \in Budget /\ epoch' \in Nat /\ links' \in LinkTable /\ links' = links
    BY <1>1, <2>1, <2>4
  <2>9. /\ owner'.id # 0 => owner'.target \in Targets
                            /\ owner'.generation \in 1..links'[owner'.target].generation
        /\ owner'.held \/ owner'.ready # "not yet" => owner'.id # 0
    BY <2>4, <2>5, <2>8
  <2>10. UNCHANGED <<observers, preview>>
    BY <2>1
  <2>11. DeviceOK' /\ Onward
    BY <2>2, <2>5, <2>6, <2>7, <2>8, <2>9, <2>10, LinkStep
  <2> QED
    BY <2>1, <2>11 DEF Effect
<1>10. CASE CloseLink
  <2>1. Same /\ UNCHANGED <<owner, epoch, observers, preview, budget>> /\ worker' = Visiting
        /\ (links' = links \/ links' = [links EXCEPT ![worker.target].open = FALSE])
    BY <1>10 DEF CloseLink
  <2>2. worker' \in WorkerType
    BY <2>1 DEF Visiting, WorkerType
  <2>3. owner \in OwnerType /\ links \in LinkTable /\ epoch \in Nat
        /\ (owner.id # 0 => owner.target \in Targets
                            /\ owner.generation \in 1..links[owner.target].generation)
        /\ (owner.held \/ owner.ready # "not yet" => owner.id # 0)
    BY DEF DeviceOK
  <2>4. /\ links' \in LinkTable
        /\ \A u \in Targets : links'[u].generation = links[u].generation
    <3>1. CASE links' = links
      BY <2>3, <3>1
    <3>2. CASE links' = [links EXCEPT ![worker.target].open = FALSE]
      <4>1. \A u \in Targets : /\ links[u] \in [generation : Nat \ {0}, open : BOOLEAN]
                               /\ links'[u] = links[u] \/ links'[u] = [links[u] EXCEPT !.open = FALSE]
        BY <2>3, <3>2 DEF LinkTable
      <4>2. \A u \in Targets : links'[u] \in [generation : Nat \ {0}, open : BOOLEAN]
                               /\ links'[u].generation = links[u].generation
        BY <4>1
      <4>3. links' = [u \in Targets |-> links'[u]]
        BY <2>3, <3>2 DEF LinkTable
      <4> QED
        BY <4>2, <4>3 DEF LinkTable
    <3> QED
      BY <2>1, <3>1, <3>2
  <2>5. owner.id \in Nat
    BY <2>3 DEF OwnerType
  <2>6. owner.id <= owner'.id /\ epoch <= epoch' /\ epoch' \in Nat /\ owner' = owner
    BY <2>1, <2>3, <2>5, NatMore
  <2>7. \A u \in Targets : links[u].generation <= links'[u].generation
    <3>1. \A u \in Targets : links[u] \in [generation : Nat \ {0}, open : BOOLEAN]
      BY <2>3 DEF LinkTable
    <3>2. \A u \in Targets : links[u].generation \in Nat
      BY <3>1
    <3> QED
      BY <2>4, <3>2, NatMore
  <2>8. /\ owner'.id # 0 => owner'.target \in Targets
                            /\ owner'.generation \in 1..links'[owner'.target].generation
        /\ owner'.held \/ owner'.ready # "not yet" => owner'.id # 0
    BY <2>3, <2>4, <2>6
  <2>9. budget' \in Budget /\ UNCHANGED <<observers, preview>> /\ owner' \in OwnerType
    BY <1>1, <2>1, <2>3
  <2>10. DeviceOK' /\ Onward
    BY <2>2, <2>4, <2>6, <2>7, <2>8, <2>9, LinkStep
  <2> QED
    BY <2>1, <2>10 DEF Effect
<1>11. ASSUME NEW c, NEW q, CancelQueue(c, q)
       PROVE  Effect /\ DeviceOK' /\ Onward
  <2>1. PICK P \in SUBSET DOMAIN frames : Dropped(P, FALSE)
    BY <1>11 DEF CancelQueue
  <2>2. Effect /\ preview' \in PreviewType
    BY <2>1, DropPreview DEF Effect
  <2>3. UNCHANGED linkPart /\ UNCHANGED <<worker, observers, budget>>
    BY <1>11 DEF CancelQueue, linkPart
  <2> QED
    BY <1>1, <2>2, <2>3, RestStep
<1>12. ASSUME NEW c, NEW q, CancelBusy(c, q)
       PROVE  Effect /\ DeviceOK' /\ Onward
  <2>1. Same /\ UNCHANGED linkPart /\ UNCHANGED <<worker, observers, preview, budget>>
    BY <1>12 DEF CancelBusy, linkPart
  <2> QED
    BY <1>1, <2>1, RestStep DEF Effect
<1>13. CASE Device
  <2>1. Same
    BY <1>13 DEF Device, deviceFrame, OwnerBegins, LinkCloses, LinkOpens, OwnerReady,
                 OwnerReleases, OwnerEnds, VmReset, Pause
  <2> QED
    BY <1>13, <2>1, DeviceEvent DEF Effect
<1>14. CASE Clock
  <2>1. FlagsChange
    <3>1. PICK p \in DOMAIN frames : /\ \/ frames' = [frames EXCEPT ![p].late = TRUE]
                                        \/ frames' = [frames EXCEPT ![p].overdue = TRUE]
                                     /\ UNCHANGED <<order, used, freeBlocks, quota>>
      BY <1>14 DEF Clock, Age, Overdue
    <3> QED
      BY <3>1, FlagsSet
  <2>2. UNCHANGED linkPart /\ UNCHANGED <<worker, observers, preview, budget>>
    BY <1>14 DEF Clock, Age, Overdue, linkPart
  <2> QED
    BY <1>1, <2>1, <2>2, RestStep DEF Effect
<1>15. CASE UNCHANGED muxVars
  <2>1. Same /\ UNCHANGED linkPart /\ UNCHANGED <<worker, observers, preview, budget>>
    BY <1>15 DEF muxVars, linkPart
  <2> QED
    BY <1>1, <2>1, RestStep DEF Effect
<1>16. CASE Producer
  BY <1>2, <1>3, <1>4, <1>5, <1>6, <1>16 DEF Producer
<1>17. CASE Worker
  BY <1>7, <1>8, <1>9, <1>10, <1>17 DEF Worker
<1>18. CASE Canceller
  BY <1>11, <1>12, <1>18 DEF Canceller
<1> QED
  BY <1>13, <1>14, <1>15, <1>16, <1>17, <1>18 DEF MuxNext

(***************************************************************************)
(* The observers' previews.                                                *)
(***************************************************************************)
\* The elements of a finite set in some order.
LEMMA SetToSeqIs ==
  ASSUME NEW S, IsFiniteSet(S)
  PROVE  SetToSeq(S) \in Seq(S) /\ ToSet(SetToSeq(S)) = S
<1> DEFINE n == Cardinality(S)
           q == SetToSeq(S)
<1>1. n \in Nat /\ ExistsBijection(1..n, S)
  BY FS_CardinalityType
<1>2. PICK f : f \in Bijection(1..n, S)
  BY <1>1 DEF ExistsBijection
<1>3. f \in [1..n -> S] /\ IsInjective(f)
  BY <1>2 DEF Bijection, Injection
<1>4. q \in [1..n -> S] /\ IsInjective(q)
  BY <1>3 DEF SetToSeq
<1> HIDE DEF q
<1>5. q \in Injection(1..n, S)
  BY <1>4 DEF Injection
<1>6. Cardinality(1..n) = Cardinality(S)
  <2> HIDE DEF n
  <2>1. Cardinality(1..n) = n
    BY <1>1, FS_Interval
  <2> QED
    BY <2>1 DEF n
<1>7. q \in Surjection(1..n, S)
  <2> HIDE DEF n
  <2> QED
    BY <1>5, <1>6, FS_Injection
<1>8. \A x \in S : \E i \in 1..n : q[i] = x
  BY <1>7 DEF Surjection
<1> HIDE DEF n
<1>9. q \in Seq(S) /\ DOMAIN q = 1..n
  BY <1>1, <1>4
<1>10. ToSet(q) = {q[i] : i \in 1..n}
  BY <1>9 DEF ToSet
<1>11. \A i \in 1..n : q[i] \in S
  BY <1>4
<1> QED
  BY <1>8, <1>9, <1>10, <1>11 DEF q

\* A number of a finite set is told from the others by how many are lower.
LEMMA RankTells ==
  ASSUME NEW S \in SUBSET Nat, IsFiniteSet(S), NEW x \in S, NEW y \in S,
         Cardinality({z \in S : z < x}) = Cardinality({z \in S : z < y})
  PROVE  x = y
<1>1. ASSUME NEW a \in S, NEW b \in S, a < b
      PROVE  Cardinality({z \in S : z < a}) < Cardinality({z \in S : z < b})
  <2> DEFINE A == {z \in S : z < a}
             B == {z \in S : z < b}
  <2>1. a \notin A /\ a \in B /\ A \subseteq B
    <3>1. a \in Nat /\ b \in Nat /\ ~(a < a)
      OBVIOUS
    <3>2. ASSUME NEW z \in S, z < a PROVE z < b
      <4>1. z \in Nat
        OBVIOUS
      <4> QED
        BY <1>1, <3>1, <3>2, <4>1
    <3> QED
      BY <1>1, <3>1, <3>2
  <2>2. A \in SUBSET S /\ B \in SUBSET S
    OBVIOUS
  <2> HIDE DEF A, B
  <2>3. IsFiniteSet(A) /\ IsFiniteSet(B)
    BY <2>2, FS_Subset
  <2>4. IsFiniteSet(A \cup {a}) /\ Cardinality(A \cup {a}) = Cardinality(A) + 1
    BY <2>1, <2>3, FS_AddElement
  <2>5. A \cup {a} \in SUBSET B
    BY <2>1
  <2>6. Cardinality(A \cup {a}) <= Cardinality(B)
    BY <2>3, <2>5, FS_Subset
  <2>7. Cardinality(A) \in Nat /\ Cardinality(B) \in Nat
    BY <2>3, FS_CardinalityType
  <2>8. Cardinality(A) < Cardinality(B)
    BY <2>4, <2>6, <2>7
  <2> QED
    BY <2>8 DEF A, B
<1>2. Cardinality({z \in S : z < x}) \in Nat
  <2>1. {z \in S : z < x} \in SUBSET S
    OBVIOUS
  <2> QED
    BY <2>1, FS_Subset, FS_CardinalityType
<1>3. \A n \in Nat : ~(n < n)
  OBVIOUS
<1>4. ~(x < y) /\ ~(y < x)
  BY <1>1, <1>2, <1>3
<1>5. x \in Nat /\ y \in Nat
  OBVIOUS
<1> QED
  BY <1>4, <1>5

LEMMA ObserverFinite ==
  ASSUME NEW S \in SUBSET ObserverPlaces
  PROVE  IsFiniteSet(S)
<1> DEFINE I == 1..(2 * PreviewObservers)
           f == [i \in I |-> <<"observer", i>>]
<1>1. f \in Surjection(I, ObserverPlaces)
  BY DEF Surjection, ObserverPlaces
<1>2. IsFiniteSet(I)
  <2>1. PreviewObservers \in Nat
    BY MuxAssumption
  <2>2. 2 * PreviewObservers \in Int
    BY <2>1
  <2> QED
    BY <2>2, FS_Interval
<1> HIDE DEF f, I
<1>3. IsFiniteSet(ObserverPlaces)
  BY <1>1, <1>2, FS_Surjection
<1> QED
  BY <1>3, FS_Subset

\* The frame of a link that watches.
LEMMA ObserverFrameIs ==
  ASSUME DeviceOK, NEW t \in TcpTargets, NEW b \in ObserverBuffers
  PROVE  LET f == ObserverFrame(t, b) IN Fresh(f) /\ f.target = t /\ f.buffer = b
<1> DEFINE g == links[t].generation
           a == Waiting(t) # {}
           o == \E h \in Waiting(t) : h.overdue
           f == ObserverFrame(t, b)
<1>1. t \in Targets /\ b \in Buffers
  BY TargetTypes, SpecialIs
<1>2. g \in Nat \ {0}
  <2>1. links[t] \in [generation : Nat \ {0}, open : BOOLEAN]
    BY <1>1 DEF DeviceOK, LinkTable
  <2> QED
    BY <2>1
<1>3. a \in BOOLEAN /\ o \in BOOLEAN /\ Preview \in Class
  BY DEF Class
<1>4. f = [SpecialFrame(t, g, 0, 0, Preview, b) EXCEPT !.observer = TRUE, !.attempted = a, !.overdue = o]
  BY DEF ObserverFrame
<1> HIDE DEF g, a, o, f
<1>5. /\ f \in Frame /\ f.target = t /\ f.generation = g /\ f.session = 0 /\ f.epoch = 0
      /\ f.buffer = b /\ f.started = FALSE /\ f.intact = TRUE
  BY ONLY <1>1, <1>2, <1>3, <1>4 DEF SpecialFrame, NewFrame, Frame
<1>6. g \in 1..g
  BY <1>2
<1>7. owner.id \in Nat /\ epoch \in Nat
  BY DEF DeviceOK, OwnerType
<1>8. 0 <= owner.id /\ 0 <= epoch
  BY <1>7
<1>9. f.generation \in 1..links[f.target].generation
  BY <1>5, <1>6 DEF g
<1>10. Fresh(f)
  BY <1>5, <1>8, <1>9 DEF Fresh
<1> QED
  BY <1>5, <1>10 DEF f

\* What Publish leaves: the frames at "replaced" give way to new ones at "fresh", each for
\* the link "reader" names, all in the buffer b that no frame under way refers to.
Published(replaced, fresh, reader, b) ==
  LET kept == DOMAIN frames \ replaced IN
  /\ replaced = {p \in ObserverPlaces \cap DOMAIN frames : ~frames[p].started}
  /\ fresh \in SUBSET ObserverPlaces /\ fresh \cap kept = {}
  /\ reader \in [fresh -> TcpTargets] /\ b \in IdleBuffers
  /\ DOMAIN frames' = kept \cup fresh
  /\ frames' = [p \in DOMAIN frames' |-> frames'[p]]
  /\ \A p \in kept : frames'[p] = [frames[p] EXCEPT !.intact = @ /\ frames[p].buffer # b]
  /\ \A p \in fresh : Fresh(frames'[p]) /\ frames'[p].target = reader[p] /\ frames'[p].buffer = b
  /\ \A t \in Targets : \E new \in Seq(ObserverPlaces) :
       /\ order'[t] = Without(order[t], replaced) \o new
       /\ ToSet(new) = {p \in fresh : reader[p] = t}
  /\ order' = [t \in Targets |-> order'[t]]
  /\ UNCHANGED <<used, freeBlocks, quota>>

LEMMA PublishIs ==
  ASSUME DeviceOK, Publish
  PROVE  \E replaced, fresh, reader, b : Published(replaced, fresh, reader, b)
<1> DEFINE replaced == {p \in ObserverPlaces \cap DOMAIN frames : ~frames[p].started}
           kept == DOMAIN frames \ replaced
           free == {i \in 1..(2 * PreviewObservers) : <<"observer", i>> \notin kept}
           readers == {t \in TcpTargets : Subscribed(t)}
           rank(S, x) == Cardinality({y \in S : y < x})
           served(i) == {t \in readers : rank(readers, t) = rank(free, i)}
           fresh == {<<"observer", i>> : i \in {j \in free : served(j) # {}}}
           number == LowestOf({i \in 1..(PreviewObservers + 1) :
                                 <<"observer buffer", i>> \in IdleBuffers})
           b == <<"observer buffer", number>>
           reader == [p \in fresh |-> CHOOSE t \in served(p[2]) : TRUE]
<1>1. /\ IdleBuffers # {}
      /\ frames' = [p \in kept \cup fresh |->
           IF p \in kept THEN [frames[p] EXCEPT !.intact = @ /\ frames[p].buffer # b]
           ELSE ObserverFrame(CHOOSE t \in served(p[2]) : TRUE, b)]
      /\ order' = [t \in Targets |-> Without(order[t], replaced)
                                     \o SetToSeq({p \in fresh : t \in served(p[2])})]
      /\ UNCHANGED <<used, freeBlocks, quota>>
  BY DEF Publish
<1>2. b \in IdleBuffers
  <2> DEFINE idle == {i \in 1..(PreviewObservers + 1) : <<"observer buffer", i>> \in IdleBuffers}
  <2>1. IdleBuffers \subseteq ObserverBuffers
    BY DEF IdleBuffers
  <2>2. idle # {}
    BY <1>1, <2>1 DEF ObserverBuffers
  <2>3. idle \in SUBSET Nat
    <3>1. PreviewObservers + 1 \in Int
      BY MuxAssumption
    <3>2. 1..(PreviewObservers + 1) \subseteq Nat
      BY <3>1
    <3>3. idle \subseteq 1..(PreviewObservers + 1)
      OBVIOUS
    <3> HIDE DEF idle
    <3> QED
      BY <3>2, <3>3
  <2> HIDE DEF idle
  <2>4. LowestOf(idle) \in idle
    BY <2>2, <2>3, LowestIn
  <2> QED
    BY <2>4 DEF idle
<1> HIDE DEF number
<1>3. b \in ObserverBuffers
  BY <1>2 DEF IdleBuffers
<1>4. readers \in SUBSET Nat /\ IsFiniteSet(readers) /\ readers \subseteq TcpTargets
  <2>1. readers \in SUBSET TcpTargets
    OBVIOUS
  <2> HIDE DEF readers
  <2> QED
    BY <2>1, TargetTypes, FS_Subset
<1>5. ASSUME NEW i, NEW t \in served(i), NEW u \in served(i) PROVE t = u
  <2>1. t \in readers /\ u \in readers /\ rank(readers, t) = rank(readers, u)
    OBVIOUS
  <2> HIDE DEF readers
  <2> QED
    BY <1>4, <2>1, RankTells
<1>6. \A i : served(i) \subseteq readers
  OBVIOUS
<1> HIDE DEF served, readers
<1>7. \A p \in fresh : served(p[2]) # {} /\ p \in ObserverPlaces /\ p \notin kept
  <2> SUFFICES ASSUME NEW j \in free, served(j) # {}
               PROVE  LET p == <<"observer", j>> IN served(p[2]) # {} /\ p \in ObserverPlaces /\ p \notin kept
    OBVIOUS
  <2>1. <<"observer", j>>[2] = j
    OBVIOUS
  <2>2. j \in 1..(2 * PreviewObservers) /\ <<"observer", j>> \notin kept
    OBVIOUS
  <2> HIDE DEF kept, free
  <2> QED
    BY <2>1, <2>2 DEF ObserverPlaces
<1> HIDE DEF fresh
<1>8. \A p \in fresh : reader[p] \in served(p[2]) /\ reader[p] \in TcpTargets
  BY <1>4, <1>6, <1>7
<1>9. \A p \in fresh, t \in Targets : t \in served(p[2]) <=> reader[p] = t
  BY <1>5, <1>8
<1>10. reader \in [fresh -> TcpTargets]
  BY <1>8
<1>11. DOMAIN frames' = kept \cup fresh /\ frames' = [p \in DOMAIN frames' |-> frames'[p]]
  <2> DEFINE body(p) == IF p \in kept THEN [frames[p] EXCEPT !.intact = @ /\ frames[p].buffer # b]
                        ELSE ObserverFrame(CHOOSE t \in served(p[2]) : TRUE, b)
  <2>1. frames' = [p \in kept \cup fresh |-> body(p)]
    BY <1>1
  <2> HIDE DEF body, kept
  <2> QED
    BY <2>1
<1>12. \A p \in kept : frames'[p] = [frames[p] EXCEPT !.intact = @ /\ frames[p].buffer # b]
  BY <1>1
<1>13. ASSUME NEW p \in fresh
       PROVE  Fresh(frames'[p]) /\ frames'[p].target = reader[p] /\ frames'[p].buffer = b
  <2>1. p \notin kept /\ reader[p] \in TcpTargets
    BY <1>7, <1>8
  <2>2. frames'[p] = ObserverFrame(reader[p], b)
    <3>1. reader[p] = CHOOSE t \in served(p[2]) : TRUE
      OBVIOUS
    <3>2. frames'[p] = ObserverFrame(CHOOSE t \in served(p[2]) : TRUE, b)
      BY <1>1, <2>1
    <3> HIDE DEF reader, b
    <3> QED
      BY <3>1, <3>2
  <2> DEFINE t == reader[p]
  <2> HIDE DEF reader, b
  <2>3. t \in TcpTargets /\ frames'[p] = ObserverFrame(t, b)
    BY <2>1, <2>2
  <2> HIDE DEF t
  <2>4. LET f == ObserverFrame(t, b) IN Fresh(f) /\ f.target = t /\ f.buffer = b
    BY <1>3, <2>3, ObserverFrameIs
  <2>5. Fresh(frames'[p]) /\ frames'[p].target = t /\ frames'[p].buffer = b
    BY <2>3, <2>4
  <2> QED
    BY <2>5 DEF t
<1>14. ASSUME NEW t \in Targets
       PROVE  \E new \in Seq(ObserverPlaces) :
                /\ order'[t] = Without(order[t], replaced) \o new
                /\ ToSet(new) = {p \in fresh : reader[p] = t}
  <2> DEFINE mine == {p \in fresh : t \in served(p[2])}
  <2>1. mine \in SUBSET ObserverPlaces
    BY <1>7
  <2>2. mine = {p \in fresh : reader[p] = t}
    <3> HIDE DEF reader
    <3> QED
      BY <1>9
  <2>3. order'[t] = Without(order[t], replaced) \o SetToSeq(mine)
    BY <1>1
  <2> HIDE DEF mine
  <2>4. SetToSeq(mine) \in Seq(mine) /\ ToSet(SetToSeq(mine)) = mine
    BY <2>1, ObserverFinite, SetToSeqIs
  <2>5. SetToSeq(mine) \in Seq(ObserverPlaces)
    BY <2>1, <2>4
  <2> QED
    BY <2>2, <2>3, <2>4, <2>5
<1>15. order' = [t \in Targets |-> order'[t]]
  BY <1>1
<1>16. fresh \in SUBSET ObserverPlaces /\ fresh \cap kept = {}
  BY <1>7
<1>17. UNCHANGED <<used, freeBlocks, quota>>
  BY <1>1
<1>18. replaced = {p \in ObserverPlaces \cap DOMAIN frames : ~frames[p].started}
  OBVIOUS
<1> HIDE DEF replaced, reader, b
<1>19. Published(replaced, fresh, reader, b)
  BY <1>2, <1>10, <1>11, <1>12, <1>13, <1>14, <1>15, <1>16, <1>17, <1>18 DEF Published
<1> QED
  BY <1>19

(***************************************************************************)
(* The frames, their buffers and their order.                              *)
(***************************************************************************)
\* What never changes of a frame while it is in use.
Alike(f, g) ==
  /\ f.target = g.target /\ f.generation = g.generation /\ f.session = g.session
  /\ f.epoch = g.epoch /\ f.class = g.class /\ f.bytes = g.bytes /\ f.blocks = g.blocks
  /\ f.buffer = g.buffer

LEMMA AlikeSame ==
  /\ \A f : Alike(f, f)
  /\ \A f \in Frame : \A i \in BOOLEAN :
       LET g == [f EXCEPT !.intact = i] IN
       Alike(f, g) /\ g \in Frame /\ g.intact = i /\ g.started = f.started
  /\ \A f \in Frame : \A g : FlagsOf(f, g) => Alike(f, g) /\ g \in Frame /\ g.intact = f.intact
<1>1. ASSUME NEW f \in Frame, NEW i \in BOOLEAN
      PROVE  LET g == [f EXCEPT !.intact = i] IN
             Alike(f, g) /\ g \in Frame /\ g.intact = i /\ g.started = f.started
  BY DEF Alike, Frame
<1>2. ASSUME NEW f \in Frame, NEW g, FlagsOf(f, g)
      PROVE  Alike(f, g) /\ g \in Frame /\ g.intact = f.intact
  <2>1. PICK a \in BOOLEAN, s \in BOOLEAN, l \in BOOLEAN, o \in BOOLEAN :
          g = [f EXCEPT !.attempted = a, !.started = s, !.late = l, !.overdue = o]
    BY <1>2 DEF FlagsOf
  <2> QED
    BY <2>1 DEF Alike, Frame
<1> QED
  BY <1>1, <1>2 DEF Alike

LEMMA DroppedIs ==
  ASSUME FramesOK, NEW P \in SUBSET DOMAIN frames, NEW whole, Dropped(P, whole)
  PROVE  /\ DOMAIN frames' = DOMAIN frames \ P
         /\ frames' = [p \in DOMAIN frames' |-> frames'[p]]
         /\ \A p \in DOMAIN frames' : frames'[p] = frames[p]
         /\ order' = [t \in Targets |-> Without(order[t], P)]
BY DEF Dropped

LEMMA StoredIs ==
  ASSUME FramesOK, NEW p \in Place, NEW f, Fresh(f), Stored(p, f)
  PROVE  /\ DOMAIN frames' = DOMAIN frames \cup {p}
         /\ frames' = [q \in DOMAIN frames' |-> frames'[q]]
         /\ frames'[p] = f
         /\ \A q \in DOMAIN frames \ {p} :
              /\ Alike(frames[q], frames'[q]) /\ frames'[q] \in Frame
              /\ frames'[q].started = frames[q].started
              /\ f.buffer = NoPlace \/ frames[q].buffer # f.buffer
                   => frames'[q].intact = frames[q].intact
         /\ order' = [t \in Targets |-> Without(order[t], {p})
                                        \o (IF t = f.target THEN <<p>> ELSE <<>>)]
<1> DEFINE safe(q) == f.buffer = NoPlace \/ frames[q].buffer # f.buffer
           body(q) == IF q = p THEN f ELSE [frames[q] EXCEPT !.intact = @ /\ safe(q)]
<1>1. frames' = [q \in DOMAIN frames \cup {p} |-> body(q)]
      /\ order' = [t \in Targets |-> Without(order[t], {p})
                                     \o (IF t = f.target THEN <<p>> ELSE <<>>)]
  BY DEF Stored
<1>2. /\ DOMAIN frames' = DOMAIN frames \cup {p}
      /\ frames' = [q \in DOMAIN frames' |-> frames'[q]]
      /\ \A q \in DOMAIN frames \cup {p} : frames'[q] = body(q)
  <2> HIDE DEF body
  <2> QED
    BY <1>1
<1>3. frames'[p] = f
  BY <1>2
<1>4. ASSUME NEW q \in DOMAIN frames \ {p}
      PROVE  /\ Alike(frames[q], frames'[q]) /\ frames'[q] \in Frame
             /\ frames'[q].started = frames[q].started
             /\ safe(q) => frames'[q].intact = frames[q].intact
  <2> DEFINE i == frames[q].intact /\ safe(q)
  <2>1. frames'[q] = [frames[q] EXCEPT !.intact = i]
    BY <1>2
  <2>2. frames[q] \in Frame
    BY DEF FramesOK
  <2>3. frames[q].intact \in BOOLEAN
    BY <2>2, FrameFields
  <2>4. i \in BOOLEAN /\ (safe(q) => i = frames[q].intact)
    BY <2>3
  <2> HIDE DEF i, safe
  <2>5. LET g == [frames[q] EXCEPT !.intact = i] IN
        Alike(frames[q], g) /\ g \in Frame /\ g.intact = i /\ g.started = frames[q].started
    BY <2>2, <2>4, AlikeSame
  <2> QED
    BY <2>1, <2>4, <2>5
<1> QED
  BY <1>1, <1>2, <1>3, <1>4

\* Frames that are new or as before keep the frames in order.
LEMMA FramesKept ==
  ASSUME FramesOK, DeviceOK, DeviceOK', Onward,
         frames' = [p \in DOMAIN frames' |-> frames'[p]],
         \A p \in DOMAIN frames' :
           \/ p \in Place /\ Fresh(frames'[p])
           \/ p \in DOMAIN frames /\ Alike(frames[p], frames'[p]) /\ frames'[p] \in Frame
  PROVE  FramesOK'
<1>1. DOMAIN frames \subseteq Place /\ \A p \in DOMAIN frames : frames[p] \in Frame
      /\ frames[p].generation \in 1..links[frames[p].target].generation
      /\ frames[p].session <= owner.id /\ frames[p].epoch <= epoch
  BY DEF FramesOK
<1>2. \A p \in DOMAIN frames' : p \in Place /\ frames'[p] \in Frame
  BY <1>1 DEF Fresh
<1>3. ASSUME NEW p \in DOMAIN frames'
      PROVE  /\ frames'[p].generation \in 1..links[frames'[p].target].generation
             /\ frames'[p].session <= owner.id /\ frames'[p].epoch <= epoch
  <2>1. CASE Fresh(frames'[p])
    BY <2>1 DEF Fresh
  <2>2. CASE p \in DOMAIN frames /\ Alike(frames[p], frames'[p])
    BY <1>1, <2>2 DEF Alike
  <2> QED
    BY <2>1, <2>2
<1>4. ASSUME NEW p \in DOMAIN frames'
      PROVE  /\ frames'[p].generation \in 1..links'[frames'[p].target].generation
             /\ frames'[p].session <= owner'.id /\ frames'[p].epoch <= epoch'
  <2> DEFINE f == frames'[p]
             n == links[f.target].generation
             m == links'[f.target].generation
  <2>1. f.target \in Targets /\ f.session \in Nat /\ f.epoch \in Nat /\ f.generation \in Nat
    BY <1>2, FrameFields
  <2>2. owner.id \in Nat /\ owner'.id \in Nat /\ epoch \in Nat /\ epoch' \in Nat
    BY DEF DeviceOK, OwnerType
  <2>3. n \in Nat /\ m \in Nat
    <3>1. links[f.target] \in [generation : Nat \ {0}, open : BOOLEAN]
      BY <2>1 DEF DeviceOK, LinkTable
    <3>2. links'[f.target] \in [generation : Nat \ {0}, open : BOOLEAN]
      BY <2>1 DEF DeviceOK, LinkTable
    <3> QED
      BY <3>1, <3>2
  <2>4. n <= m /\ owner.id <= owner'.id /\ epoch <= epoch'
    BY <2>1 DEF Onward
  <2>5. f.generation \in 1..n /\ f.session <= owner.id /\ f.epoch <= epoch
    BY <1>3
  <2> HIDE DEF f, n, m
  <2>6. f.generation \in 1..m /\ f.session <= owner'.id /\ f.epoch <= epoch'
    BY <2>1, <2>2, <2>3, <2>4, <2>5
  <2> QED
    BY <2>6 DEF f, n, m
<1>5. frames' \in [DOMAIN frames' -> Frame]
  BY <1>2
<1> QED
  BY <1>2, <1>4, <1>5 DEF FramesOK

LEMMA PlaceTypes ==
  /\ \A t \in Targets : \A p \in NormalPlaces(t) : p \in Place /\ p \notin Special
  /\ \A p \in Special : p \in Place
BY PlacesDiffer

\* Every effect leaves frames that are new or as before.
LEMMA EffectFrames ==
  ASSUME FramesOK, DeviceOK, Effect
  PROVE  /\ frames' = [p \in DOMAIN frames' |-> frames'[p]]
         /\ \A p \in DOMAIN frames' :
              \/ p \in Place /\ Fresh(frames'[p])
              \/ p \in DOMAIN frames /\ Alike(frames[p], frames'[p]) /\ frames'[p] \in Frame
<1> DEFINE Goal == /\ frames' = [p \in DOMAIN frames' |-> frames'[p]]
                   /\ \A p \in DOMAIN frames' :
                        \/ p \in Place /\ Fresh(frames'[p])
                        \/ p \in DOMAIN frames /\ Alike(frames[p], frames'[p]) /\ frames'[p] \in Frame
<1>1. frames \in [DOMAIN frames -> Frame] /\ DOMAIN frames \subseteq Place
  BY DEF FramesOK
<1>2. CASE UNCHANGED <<frames, order, used, freeBlocks, quota>>
  <2>1. frames' = frames
    BY <1>2
  <2> QED
    BY <1>1, <2>1, AlikeSame
<1>3. CASE FlagsChange
  <2>1. frames' \in [DOMAIN frames -> Frame] /\ \A p \in DOMAIN frames : FlagsOf(frames[p], frames'[p])
    BY <1>3 DEF FlagsChange
  <2>2. \A p \in DOMAIN frames : Alike(frames[p], frames'[p])
    BY <1>1, <2>1, AlikeSame
  <2> QED
    BY <2>1, <2>2
<1>4. ASSUME NEW P \in SUBSET DOMAIN frames, NEW whole \in BOOLEAN, Dropped(P, whole) PROVE Goal
  <2>1. /\ DOMAIN frames' = DOMAIN frames \ P
        /\ frames' = [p \in DOMAIN frames' |-> frames'[p]]
        /\ \A p \in DOMAIN frames' : frames'[p] = frames[p]
    BY <1>4, DroppedIs
  <2>2. \A p \in DOMAIN frames' : p \in DOMAIN frames /\ frames'[p] \in Frame
    BY <1>1, <2>1
  <2> QED
    BY <2>1, <2>2, AlikeSame
<1>5. ASSUME NEW p \in Place, NEW f, Fresh(f), Stored(p, f) PROVE Goal
  <2>1. /\ DOMAIN frames' = DOMAIN frames \cup {p}
        /\ frames' = [q \in DOMAIN frames' |-> frames'[q]]
        /\ frames'[p] = f
        /\ \A q \in DOMAIN frames \ {p} : Alike(frames[q], frames'[q]) /\ frames'[q] \in Frame
    BY <1>5, StoredIs
  <2> QED
    BY <1>5, <2>1
<1>6. ASSUME NEW t \in Targets, NEW p, NEW f, NormalStored(t, p, f) PROVE Goal
  BY <1>5, <1>6, PlaceTypes DEF NormalStored
<1>7. ASSUME NEW p, NEW f, SpecialStored(p, f) PROVE Goal
  BY <1>5, <1>7, PlaceTypes DEF SpecialStored
<1>8. CASE Publish
  <2>1. PICK replaced, fresh, reader, b : Published(replaced, fresh, reader, b)
    BY <1>8, PublishIs
  <2>2. /\ fresh \in SUBSET ObserverPlaces
        /\ DOMAIN frames' = (DOMAIN frames \ replaced) \cup fresh
        /\ frames' = [p \in DOMAIN frames' |-> frames'[p]]
        /\ \A p \in DOMAIN frames \ replaced :
             frames'[p] = [frames[p] EXCEPT !.intact = @ /\ frames[p].buffer # b]
        /\ \A p \in fresh : Fresh(frames'[p])
    BY <2>1 DEF Published
  <2>3. ASSUME NEW p \in DOMAIN frames \ replaced
        PROVE  Alike(frames[p], frames'[p]) /\ frames'[p] \in Frame
    <3>1. frames[p] \in Frame /\ frames[p].intact \in BOOLEAN
      BY <1>1, FrameFields
    <3> DEFINE i == frames[p].intact /\ frames[p].buffer # b
    <3>2. i \in BOOLEAN /\ frames'[p] = [frames[p] EXCEPT !.intact = i]
      BY <2>2, <3>1
    <3> HIDE DEF i
    <3> QED
      BY <3>1, <3>2, AlikeSame
  <2>4. \A p \in fresh : p \in Place
    BY <2>2, SpecialIs, PlaceTypes
  <2> QED
    BY <2>2, <2>3, <2>4
<1> QED
  BY <1>2, <1>3, <1>4, <1>6, <1>7, <1>8 DEF Effect

LEMMA FramesStep ==
  ASSUME FramesOK, DeviceOK, DeviceOK', Onward, Effect
  PROVE  FramesOK'
BY EffectFrames, FramesKept

\* No effect writes a buffer that a special frame in use refers to.
LEMMA BuffersStep ==
  ASSUME FramesOK, DeviceOK, BuffersOK, Effect
  PROVE  BuffersOK'
<1> DEFINE Right(p, f) == /\ p \notin Special => f.buffer = NoPlace
                          /\ p \in Special \ ObserverPlaces => f.buffer = p
                          /\ p \in ObserverPlaces => f.buffer \in ObserverBuffers
                          /\ p \in Special => f.intact
<1>1. \A p \in DOMAIN frames : Right(p, frames[p])
  BY DEF BuffersOK
<1>2. SUFFICES \A p \in DOMAIN frames' : Right(p, frames'[p])
  BY DEF BuffersOK
<1>3. ASSUME NEW p, NEW f, NEW g, Right(p, f), f.buffer = g.buffer, g.intact = f.intact
      PROVE  Right(p, g)
  BY <1>3
<1>4. frames \in [DOMAIN frames -> Frame]
  BY DEF FramesOK
<1>5. CASE UNCHANGED <<frames, order, used, freeBlocks, quota>>
  <2>1. frames' = frames
    BY <1>5
  <2> QED
    BY <1>1, <2>1
<1>6. CASE FlagsChange
  <2>1. \A p \in DOMAIN frames : FlagsOf(frames[p], frames'[p])
    BY <1>6 DEF FlagsChange
  <2>2. DOMAIN frames' = DOMAIN frames
    BY <1>6 DEF FlagsChange
  <2>3. \A p \in DOMAIN frames : Alike(frames[p], frames'[p]) /\ frames'[p].intact = frames[p].intact
    BY <1>4, <2>1, AlikeSame
  <2>4. \A p \in DOMAIN frames : frames[p].buffer = frames'[p].buffer
    BY <2>3 DEF Alike
  <2> HIDE DEF Right
  <2> QED
    BY <1>1, <1>3, <2>2, <2>3, <2>4
<1>7. ASSUME NEW P \in SUBSET DOMAIN frames, NEW whole \in BOOLEAN, Dropped(P, whole)
      PROVE  \A p \in DOMAIN frames' : Right(p, frames'[p])
  <2>1. DOMAIN frames' = DOMAIN frames \ P /\ \A p \in DOMAIN frames' : frames'[p] = frames[p]
    BY <1>7, DroppedIs
  <2> HIDE DEF Right
  <2> QED
    BY <1>1, <2>1
<1>8. ASSUME NEW p \in Place, NEW f, Fresh(f), Stored(p, f), Right(p, f),
             f.buffer = NoPlace \/ (p \in Special \ ObserverPlaces /\ f.buffer = p)
      PROVE  \A q \in DOMAIN frames' : Right(q, frames'[q])
  <2>1. /\ DOMAIN frames' = DOMAIN frames \cup {p}
        /\ frames'[p] = f
        /\ \A q \in DOMAIN frames \ {p} :
             /\ Alike(frames[q], frames'[q]) /\ frames'[q] \in Frame
             /\ frames'[q].started = frames[q].started
             /\ f.buffer = NoPlace \/ frames[q].buffer # f.buffer
                  => frames'[q].intact = frames[q].intact
    <3> HIDE DEF Right
    <3> QED
      BY <1>8, StoredIs
  <2>2. ASSUME NEW q \in DOMAIN frames \ {p} PROVE Right(q, frames'[q])
    <3>1. Right(q, frames[q]) /\ frames[q].buffer = frames'[q].buffer
      BY <1>1, <2>1 DEF Alike
    <3>2. CASE f.buffer = NoPlace \/ frames[q].buffer # f.buffer
      <4>1. frames'[q].intact = frames[q].intact
        BY <2>1, <3>2
      <4> HIDE DEF Right
      <4> QED
        BY <1>3, <3>1, <4>1
    <3>3. CASE f.buffer = p /\ frames[q].buffer = p /\ p \in Special \ ObserverPlaces
      <4>1. p \notin ObserverBuffers /\ p # NoPlace /\ q # p
        BY <3>3, BuffersDiffer
      <4> QED
        BY <3>1, <3>3, <4>1
    <3> QED
      BY <1>8, <3>2, <3>3
  <2> HIDE DEF Right
  <2> QED
    BY <1>8, <2>1, <2>2
<1>9. ASSUME NEW t \in Targets, NEW p, NEW f, NormalStored(t, p, f)
      PROVE  \A q \in DOMAIN frames' : Right(q, frames'[q])
  <2>1. /\ p \in Place /\ p \notin Special /\ p \notin ObserverPlaces
        /\ Fresh(f) /\ Stored(p, f) /\ f.buffer = NoPlace
    BY <1>9, PlaceTypes, SpecialIs DEF NormalStored
  <2>2. Right(p, f)
    BY <2>1
  <2> HIDE DEF Right
  <2> QED
    BY <1>8, <2>1, <2>2
<1>10. ASSUME NEW p, NEW f, SpecialStored(p, f)
       PROVE  \A q \in DOMAIN frames' : Right(q, frames'[q])
  <2>1. /\ p \in Place /\ p \in Special \ ObserverPlaces
        /\ Fresh(f) /\ Stored(p, f) /\ f.buffer = p
    BY <1>10, PlaceTypes DEF SpecialStored
  <2>2. Right(p, f)
    BY <2>1 DEF Fresh
  <2> HIDE DEF Right
  <2> QED
    BY <1>8, <2>1, <2>2
<1>11. CASE Publish
  <2>1. PICK replaced, fresh, reader, b : Published(replaced, fresh, reader, b)
    BY <1>11, PublishIs
  <2>2. /\ replaced = {p \in ObserverPlaces \cap DOMAIN frames : ~frames[p].started}
        /\ fresh \in SUBSET ObserverPlaces /\ b \in IdleBuffers
        /\ DOMAIN frames' = (DOMAIN frames \ replaced) \cup fresh
        /\ \A p \in DOMAIN frames \ replaced :
             frames'[p] = [frames[p] EXCEPT !.intact = @ /\ frames[p].buffer # b]
        /\ \A p \in fresh : Fresh(frames'[p]) /\ frames'[p].buffer = b
    BY <2>1 DEF Published
  <2>3. b \in ObserverBuffers
        /\ \A p \in ObserverPlaces \cap DOMAIN frames : frames[p].started => frames[p].buffer # b
    BY <2>2 DEF IdleBuffers
  <2>4. ASSUME NEW p \in fresh PROVE Right(p, frames'[p])
    <3>1. p \in ObserverPlaces /\ p \in Special
      BY <2>2, SpecialIs
    <3> QED
      BY <2>2, <2>3, <3>1 DEF Fresh
  <2>5. ASSUME NEW p \in DOMAIN frames \ replaced PROVE Right(p, frames'[p])
    <3>1. frames[p] \in Frame /\ Right(p, frames[p]) /\ frames[p].intact \in BOOLEAN
      BY <1>1, <1>4, FrameFields
    <3>2. p \in Special => frames[p].buffer # b
      <4>1. CASE p \in ObserverPlaces
        BY <2>2, <2>3, <4>1
      <4>2. CASE p \in Special \ ObserverPlaces
        BY <2>3, <3>1, <4>2, BuffersDiffer
      <4> QED
        BY <4>1, <4>2
    <3> DEFINE i == frames[p].intact /\ frames[p].buffer # b
    <3>3. i \in BOOLEAN /\ frames'[p] = [frames[p] EXCEPT !.intact = i]
          /\ (p \in Special => i)
      BY <2>2, <3>1, <3>2
    <3> HIDE DEF i
    <3>4. Alike(frames[p], frames'[p]) /\ frames'[p].intact = i
      BY <3>1, <3>3, AlikeSame
    <3> QED
      BY <3>1, <3>3, <3>4 DEF Alike
  <2> HIDE DEF Right
  <2> QED
    BY <2>2, <2>4, <2>5
<1> HIDE DEF Right
<1> QED
  BY <1>5, <1>6, <1>7, <1>9, <1>10, <1>11 DEF Effect

\* Every effect keeps each target's order the order of its frames.
LEMMA OrderStep ==
  ASSUME FramesOK, DeviceOK, OrderOK, Effect
  PROVE  OrderOK'
<1> DEFINE Of(t) == {p \in DOMAIN frames : frames[p].target = t}
           New(t) == {p \in DOMAIN frames' : frames'[p].target = t}
           Good(t) == order'[t] \in Seq(Place) /\ ToSet(order'[t]) = New(t)
<1>1. \A t \in Targets : order[t] \in Seq(Place) /\ ToSet(order[t]) = Of(t)
  BY DEF OrderOK
<1>2. frames \in [DOMAIN frames -> Frame]
  BY DEF FramesOK
<1>3. ASSUME order' = [t \in Targets |-> order'[t]], \A t \in Targets : Good(t)
      PROVE  OrderOK'
  <2>1. order' \in [Targets -> Seq(Place)]
    BY <1>3
  <2> QED
    BY <1>3, <2>1 DEF OrderOK
<1>4. order = [t \in Targets |-> order[t]]
  BY DEF OrderOK
<1>5. CASE UNCHANGED <<frames, order, used, freeBlocks, quota>>
  <2>1. frames' = frames /\ order' = order
    BY <1>5
  <2> QED
    BY <1>1, <1>3, <1>4, <2>1
<1>6. CASE FlagsChange
  <2>1. order' = order /\ DOMAIN frames' = DOMAIN frames
        /\ \A p \in DOMAIN frames : FlagsOf(frames[p], frames'[p])
    BY <1>6 DEF FlagsChange
  <2>2. \A p \in DOMAIN frames : frames'[p].target = frames[p].target
    BY <1>2, <2>1, AlikeSame DEF Alike
  <2>3. \A t \in Targets : New(t) = Of(t)
    BY <2>1, <2>2
  <2>4. \A t \in Targets : Good(t)
    <3> HIDE DEF New, Of
    <3> QED
      BY <1>1, <2>1, <2>3
  <2> QED
    BY <1>3, <1>4, <2>1, <2>4
<1>7. ASSUME NEW P \in SUBSET DOMAIN frames, NEW whole \in BOOLEAN, Dropped(P, whole)
      PROVE  OrderOK'
  <2>1. /\ DOMAIN frames' = DOMAIN frames \ P
        /\ \A p \in DOMAIN frames' : frames'[p] = frames[p]
        /\ order' = [t \in Targets |-> Without(order[t], P)]
    BY <1>7, DroppedIs
  <2>2. ASSUME NEW t \in Targets PROVE Good(t)
    <3>1. order'[t] = Without(order[t], P)
      BY <2>1
    <3>2. New(t) = Of(t) \ P
      BY <2>1
    <3> HIDE DEF New, Of
    <3> QED
      BY <1>1, <3>1, <3>2, WithoutKeeps
  <2> HIDE DEF Good
  <2> QED
    BY <1>3, <2>1, <2>2
<1>8. ASSUME NEW p \in Place, NEW f, Fresh(f), Stored(p, f)
      PROVE  OrderOK'
  <2>1. /\ DOMAIN frames' = DOMAIN frames \cup {p}
        /\ frames'[p] = f
        /\ \A q \in DOMAIN frames \ {p} : Alike(frames[q], frames'[q])
    <3> HIDE DEF Good, New, Of
    <3> QED
      BY <1>8, StoredIs
  <2>9. order' = [t \in Targets |-> Without(order[t], {p})
                                    \o (IF t = f.target THEN <<p>> ELSE <<>>)]
    BY <1>8 DEF Stored
  <2>2. ASSUME NEW t \in Targets PROVE Good(t)
    <3> DEFINE tail == IF t = f.target THEN <<p>> ELSE <<>>
               rest == Without(order[t], {p})
    <3>1. order'[t] = rest \o tail
      BY <2>9
    <3>2. rest \in Seq(Place) /\ ToSet(rest) = Of(t) \ {p}
      <4> HIDE DEF Of
      <4> QED
        BY <1>1, WithoutKeeps
    <3>3. tail \in Seq(Place) /\ ToSet(tail) = IF t = f.target THEN {p} ELSE {}
      <4>1. <<p>> \in Seq(Place) /\ <<>> \in Seq(Place)
        OBVIOUS
      <4>2. ToSet(<<p>>) = {p}
        <5>1. DOMAIN <<p>> = {1} /\ <<p>>[1] = p
          OBVIOUS
        <5> QED
          BY <5>1 DEF ToSet
      <4>3. ToSet(<<>>) = {}
        BY DEF ToSet
      <4> QED
        BY <4>1, <4>2, <4>3
    <3>4. \A q \in DOMAIN frames \ {p} : frames'[q].target = frames[q].target
      BY <2>1 DEF Alike
    <3>5. New(t) = (Of(t) \ {p}) \cup (IF t = f.target THEN {p} ELSE {})
      BY <2>1, <3>4
    <3> HIDE DEF tail, rest, New, Of
    <3>6. rest \o tail \in Seq(Place) /\ ToSet(rest \o tail) = ToSet(rest) \cup ToSet(tail)
      BY <3>2, <3>3, ConcatSet
    <3> QED
      BY <3>1, <3>2, <3>3, <3>5, <3>6
  <2> HIDE DEF Good
  <2> QED
    BY <1>3, <2>2, <2>9
<1>9. ASSUME NEW t \in Targets, NEW p, NEW f, NormalStored(t, p, f) PROVE OrderOK'
  BY <1>8, <1>9, PlaceTypes DEF NormalStored
<1>10. ASSUME NEW p, NEW f, SpecialStored(p, f) PROVE OrderOK'
  BY <1>8, <1>10, PlaceTypes DEF SpecialStored
<1>11. CASE Publish
  <2>1. PICK replaced, fresh, reader, b : Published(replaced, fresh, reader, b)
    BY <1>11, PublishIs
  <2>2. /\ fresh \in SUBSET ObserverPlaces /\ fresh \cap (DOMAIN frames \ replaced) = {}
        /\ DOMAIN frames' = (DOMAIN frames \ replaced) \cup fresh
        /\ \A p \in DOMAIN frames \ replaced :
             frames'[p] = [frames[p] EXCEPT !.intact = @ /\ frames[p].buffer # b]
        /\ \A p \in fresh : frames'[p].target = reader[p]
        /\ \A t \in Targets : \E new \in Seq(ObserverPlaces) :
             /\ order'[t] = Without(order[t], replaced) \o new
             /\ ToSet(new) = {p \in fresh : reader[p] = t}
        /\ order' = [t \in Targets |-> order'[t]]
    BY <2>1 DEF Published
  <2>3. \A p \in DOMAIN frames \ replaced : frames'[p].target = frames[p].target
    <3> SUFFICES ASSUME NEW p \in DOMAIN frames \ replaced
                 PROVE  frames'[p].target = frames[p].target
      OBVIOUS
    <3>1. frames[p] \in Frame /\ frames[p].intact \in BOOLEAN
      BY <1>2, FrameFields
    <3> DEFINE i == frames[p].intact /\ frames[p].buffer # b
    <3>2. i \in BOOLEAN /\ frames'[p] = [frames[p] EXCEPT !.intact = i]
      BY <2>2, <3>1
    <3> HIDE DEF i
    <3> QED
      BY <3>1, <3>2, AlikeSame DEF Alike
  <2>4. ASSUME NEW t \in Targets PROVE Good(t)
    <3> DEFINE rest == Without(order[t], replaced)
    <3>1. PICK new \in Seq(ObserverPlaces) : /\ order'[t] = rest \o new
                                             /\ ToSet(new) = {p \in fresh : reader[p] = t}
      BY <2>2
    <3>2. rest \in Seq(Place) /\ ToSet(rest) = Of(t) \ replaced
      <4> HIDE DEF Of
      <4> QED
        BY <1>1, WithoutKeeps
    <3>3. new \in Seq(Place)
      <4>1. ObserverPlaces \subseteq Place
        BY SpecialIs, PlaceTypes
      <4> QED
        BY <4>1
    <3>4. New(t) = (Of(t) \ replaced) \cup {p \in fresh : reader[p] = t}
      BY <2>2, <2>3
    <3> HIDE DEF rest, New, Of
    <3>5. rest \o new \in Seq(Place) /\ ToSet(rest \o new) = ToSet(rest) \cup ToSet(new)
      BY <3>2, <3>3, ConcatSet
    <3> QED
      BY <3>1, <3>2, <3>4, <3>5
  <2> HIDE DEF Good
  <2> QED
    BY <1>3, <2>2, <2>4
<1> QED
  BY <1>5, <1>6, <1>7, <1>9, <1>10, <1>11 DEF Effect

(***************************************************************************)
(* The counters and the blocks.                                            *)
(***************************************************************************)
Normal(T) == UNION {NormalPlaces(t) : t \in T}
InArena(a) == {t \in Targets : Arena(t) = a}
Queued(g, T) == DOMAIN g \cap Normal(T)
DiscoveryOf(g, P) == {p \in P : Discovery(g[p])}
LowOf(g, P) == {p \in P : Low(g[p])}

\* QuotaAccounted, for frames, counters and bitmaps of any state.
UsedBy(g, u) == \A t \in Targets : u[t] = Count(g, Queued(g, {t}))
SharedBy(g, q) ==
  LET tcp == Queued(g, TcpTargets) IN
  q = [all |-> Count(g, tcp), discovery |-> Count(g, DiscoveryOf(g, tcp)),
       low |-> Count(g, LowOf(g, tcp))]
FreeBy(g, b) ==
  \A a \in Arenas :
    LET at == Queued(g, InArena(a)) IN
    /\ b[a] = (1..BlockCount) \ UNION {g[p].blocks : p \in at}
    /\ \A p, q \in at : p # q => g[p].blocks \cap g[q].blocks = {}

LEMMA AccountedIs ==
  QuotaAccounted <=> UsedBy(frames, used) /\ SharedBy(frames, quota) /\ FreeBy(frames, freeBlocks)
BY DEF QuotaAccounted, UsedBy, SharedBy, FreeBy, Count, BytesOf, BytesIn, Queued, Normal,
       InArena, DiscoveryOf, LowOf

LEMMA AccountedNext ==
  QuotaAccounted' <=> UsedBy(frames', used') /\ SharedBy(frames', quota')
                      /\ FreeBy(frames', freeBlocks')
BY DEF QuotaAccounted, UsedBy, SharedBy, FreeBy, Count, BytesOf, BytesIn, Queued, Normal,
       InArena, DiscoveryOf, LowOf

\* The queues of a finite number of targets hold a finite number of frames.
LEMMA QueuedFinite ==
  ASSUME NEW g, NEW T, IsFiniteSet(T)
  PROVE  IsFiniteSet(Queued(g, T))
<1> DEFINE all == {NormalPlaces(t) : t \in T}
           f == [t \in T |-> NormalPlaces(t)]
<1>1. ASSUME NEW t PROVE IsFiniteSet(NormalPlaces(t))
  <2> DEFINE h == [i \in 1..QueueFrames |-> <<"queue", t, i>>]
  <2>1. h \in Surjection(1..QueueFrames, NormalPlaces(t))
    BY DEF Surjection, NormalPlaces
  <2>2. IsFiniteSet(1..QueueFrames)
    BY MuxAssumption, FS_Interval
  <2> HIDE DEF h
  <2> QED
    BY <2>1, <2>2, FS_Surjection
<1>2. f \in Surjection(T, all)
  BY DEF Surjection
<1>3. \A S \in all : IsFiniteSet(S)
  BY <1>1
<1>4. Normal(T) = UNION all
  BY DEF Normal
<1> HIDE DEF f, all
<1>5. IsFiniteSet(all)
  BY <1>2, FS_Surjection
<1>6. IsFiniteSet(Normal(T))
  BY <1>3, <1>4, <1>5, FS_UNION
<1>7. Queued(g, T) \in SUBSET Normal(T)
  BY DEF Queued
<1> QED
  BY <1>6, <1>7, FS_Subset

LEMMA QueuesAre ==
  /\ Normal({}) = {}
  /\ \A t : Normal({t}) = NormalPlaces(t)
  /\ \A T \in SUBSET Targets : \A p : p \in Normal(T) <=> \E t \in T : p \in NormalPlaces(t)
  /\ \A T \in SUBSET Targets : \A t \in Targets : \A p \in NormalPlaces(t) : p \in Normal(T) <=> t \in T
  /\ \A T \in SUBSET Targets : Normal(T) \cap Special = {}
<1>1. \A T : \A p : p \in Normal(T) <=> \E t \in T : p \in NormalPlaces(t)
  BY DEF Normal
<1>2. ASSUME NEW T \in SUBSET Targets, NEW t \in Targets, NEW p \in NormalPlaces(t)
      PROVE  p \in Normal(T) <=> t \in T
  <2>1. \A u \in Targets : p \in NormalPlaces(u) => u = t
    BY PlacesDiffer
  <2> QED
    BY <1>1, <2>1
<1>3. ASSUME NEW T \in SUBSET Targets PROVE Normal(T) \cap Special = {}
  BY <1>1, PlacesDiffer
<1>4. \A t : Normal({t}) = NormalPlaces(t)
  BY <1>1
<1>5. Normal({}) = {}
  BY <1>1
<1> QED
  BY <1>1, <1>2, <1>3, <1>4, <1>5

LEMMA ShareFields ==
  ASSUME NEW s \in Share
  PROVE  /\ s.frames \in Nat /\ s.bytes \in Nat
         /\ s.frames <= QueueFrames /\ s.bytes <= QueueBytes
<1>1. s.frames \in 0..QueueFrames /\ s.bytes \in 0..QueueBytes
  BY DEF Share
<1> QED
  BY <1>1, MuxAssumption

LEMMA LessIs ==
  ASSUME NEW S, NEW P \in SUBSET S, IsFiniteSet(S), \A p \in S : frames[p].bytes \in Nat,
         Count(frames, S) \in Share
  PROVE  Less(Count(frames, S), P) = Count(frames, S \ P) /\ Count(frames, S \ P) \in Share
<1>1. /\ Count(frames, S \ P).frames = Minus(Count(frames, S).frames, Count(frames, P).frames)
      /\ Count(frames, S \ P).bytes = Minus(Count(frames, S).bytes, Count(frames, P).bytes)
      /\ Count(frames, S \ P).frames <= Count(frames, S).frames
      /\ Count(frames, S \ P).bytes <= Count(frames, S).bytes
  BY CountLess
<1>2. Count(frames, S \ P) \in [frames : Nat, bytes : Nat]
  <2>1. IsFiniteSet(S \ P)
    BY FS_Difference
  <2> QED
    BY <2>1, CountType
<1>3. Count(frames, P).frames = Cardinality(P) /\ Count(frames, P).bytes = BytesOf(P)
  BY DEF Count, BytesOf, BytesIn
<1>4. Less(Count(frames, S), P) = Count(frames, S \ P)
  <2> DEFINE c == Count(frames, S)
             d == Count(frames, S \ P)
  <2>1. d.frames = Minus(c.frames, Cardinality(P)) /\ d.bytes = Minus(c.bytes, BytesOf(P))
    BY <1>1, <1>3
  <2>2. d = [frames |-> d.frames, bytes |-> d.bytes]
    BY <1>2
  <2> HIDE DEF c, d
  <2>3. Less(c, P) = d
    BY <2>1, <2>2 DEF Less
  <2> QED
    BY <2>3 DEF c, d
<1>5. Count(frames, S \ P) \in Share
  <2> DEFINE c == Count(frames, S)
             d == Count(frames, S \ P)
  <2>1. c.frames <= QueueFrames /\ c.bytes <= QueueBytes /\ c.frames \in Nat /\ c.bytes \in Nat
    BY ShareFields
  <2>2. d.frames <= c.frames /\ d.bytes <= c.bytes
    BY <1>1
  <2>3. d \in [frames : Nat, bytes : Nat]
    BY <1>2
  <2> HIDE DEF c, d
  <2>4. d.frames \in Nat /\ d.bytes \in Nat
    BY <2>3
  <2>5. d.frames \in 0..QueueFrames /\ d.bytes \in 0..QueueBytes
    BY <2>1, <2>2, <2>4, MuxAssumption
  <2>6. d \in Share
    BY <2>3, <2>5 DEF Share
  <2> QED
    BY <2>6 DEF d
<1> QED
  BY <1>4, <1>5

LEMMA MoreIs ==
  ASSUME NEW g, NEW h, NEW S, NEW p, p \notin S, IsFiniteSet(S),
         \A q \in S : h[q].bytes = g[q].bytes /\ h[q].bytes \in Nat,
         NEW f, h[p].bytes = f.bytes, f.bytes \in Nat
  PROVE  More(Count(g, S), f) = Count(h, S \cup {p})
<1>1. Count(g, S) = Count(h, S)
  BY CountSame
<1>2. /\ Count(h, S \cup {p}).frames = Count(h, S).frames + 1
      /\ Count(h, S \cup {p}).bytes = Count(h, S).bytes + h[p].bytes
  BY CountMore
<1>3. Count(h, S \cup {p}) = [frames |-> Count(h, S \cup {p}).frames,
                              bytes |-> Count(h, S \cup {p}).bytes]
  BY DEF Count
<1> QED
  BY <1>1, <1>2, <1>3 DEF More

CountTypes(u, q, b) ==
  /\ u \in [Targets -> Share] /\ q \in [{"all", "discovery", "low"} -> Share]
  /\ b \in [Arenas -> SUBSET (1..BlockCount)]

\* The parts of CountsOK at the next state.
LEMMA CountsNext ==
  ASSUME CountTypes(used', quota', freeBlocks'), UsedBy(frames', used'),
         SharedBy(frames', quota'), FreeBy(frames', freeBlocks')
  PROVE  CountsOK'
BY AccountedNext DEF CountsOK, CountTypes

LEMMA CountsNow ==
  ASSUME CountsOK
  PROVE  /\ CountTypes(used, quota, freeBlocks) /\ UsedBy(frames, used)
         /\ SharedBy(frames, quota) /\ FreeBy(frames, freeBlocks)
BY AccountedIs DEF CountsOK, CountTypes

\* When the queues keep their frames the counters stay right.
LEMMA QueuesStay ==
  ASSUME CountsOK, UNCHANGED <<used, freeBlocks, quota>>,
         \A p : p \notin Special => (p \in DOMAIN frames <=> p \in DOMAIN frames'),
         \A p \in DOMAIN frames : p \notin Special => Alike(frames[p], frames'[p])
  PROVE  CountsOK'
<1>1. ASSUME NEW T \in SUBSET Targets
      PROVE  /\ Queued(frames', T) = Queued(frames, T)
             /\ \A p \in Queued(frames, T) : Alike(frames[p], frames'[p])
  <2>1. \A p \in Normal(T) : p \notin Special
    BY QueuesAre
  <2> QED
    BY <2>1 DEF Queued
<1>2. ASSUME NEW S, \A p \in S : Alike(frames[p], frames'[p])
      PROVE  /\ Count(frames', S) = Count(frames, S)
             /\ DiscoveryOf(frames', S) = DiscoveryOf(frames, S)
             /\ LowOf(frames', S) = LowOf(frames, S)
  <2>1. \A p \in S : frames'[p].bytes = frames[p].bytes
                     /\ frames'[p].session = frames[p].session /\ frames'[p].class = frames[p].class
    BY <1>2 DEF Alike
  <2>2. Count(frames', S) = Count(frames, S)
    BY <2>1, CountSame
  <2>3. \A p \in S : (Discovery(frames'[p]) <=> Discovery(frames[p]))
                     /\ (Low(frames'[p]) <=> Low(frames[p]))
    BY <2>1 DEF Discovery, Low
  <2> QED
    BY <2>2, <2>3 DEF DiscoveryOf, LowOf
<1>3. UsedBy(frames', used')
  <2> SUFFICES ASSUME NEW t \in Targets PROVE used'[t] = Count(frames', Queued(frames', {t}))
    BY DEF UsedBy
  <2>1. used[t] = Count(frames, Queued(frames, {t}))
    BY CountsNow DEF UsedBy
  <2>2. {t} \in SUBSET Targets
    OBVIOUS
  <2> QED
    BY <1>1, <1>2, <2>1, <2>2
<1>4. SharedBy(frames', quota')
  <2> DEFINE tcp == Queued(frames, TcpTargets)
  <2>1. TcpTargets \in SUBSET Targets
    BY TargetTypes
  <2>2. Queued(frames', TcpTargets) = tcp /\ \A p \in tcp : Alike(frames[p], frames'[p])
    BY <1>1, <2>1
  <2>3. \A p \in DiscoveryOf(frames, tcp) \cup LowOf(frames, tcp) : Alike(frames[p], frames'[p])
    BY <2>2 DEF DiscoveryOf, LowOf
  <2>4. quota = [all |-> Count(frames, tcp), discovery |-> Count(frames, DiscoveryOf(frames, tcp)),
                 low |-> Count(frames, LowOf(frames, tcp))]
    BY CountsNow DEF SharedBy
  <2> HIDE DEF tcp
  <2>5. /\ Count(frames', tcp) = Count(frames, tcp)
        /\ DiscoveryOf(frames', tcp) = DiscoveryOf(frames, tcp)
        /\ LowOf(frames', tcp) = LowOf(frames, tcp)
        /\ Count(frames', DiscoveryOf(frames, tcp)) = Count(frames, DiscoveryOf(frames, tcp))
        /\ Count(frames', LowOf(frames, tcp)) = Count(frames, LowOf(frames, tcp))
    BY <1>2, <2>2, <2>3
  <2> QED
    BY <2>2, <2>4, <2>5 DEF SharedBy
<1>5. FreeBy(frames', freeBlocks')
  <2> SUFFICES ASSUME NEW a \in Arenas
               PROVE  LET at == Queued(frames', InArena(a)) IN
                      /\ freeBlocks'[a] = (1..BlockCount) \ UNION {frames'[p].blocks : p \in at}
                      /\ \A p, q \in at : p # q => frames'[p].blocks \cap frames'[q].blocks = {}
    BY DEF FreeBy
  <2> DEFINE at == Queued(frames, InArena(a))
  <2>1. InArena(a) \in SUBSET Targets
    BY DEF InArena
  <2>2. Queued(frames', InArena(a)) = at /\ \A p \in at : Alike(frames[p], frames'[p])
    BY <1>1, <2>1
  <2>3. \A p \in at : frames'[p].blocks = frames[p].blocks
    BY <2>2 DEF Alike
  <2>4. /\ freeBlocks[a] = (1..BlockCount) \ UNION {frames[p].blocks : p \in at}
        /\ \A p, q \in at : p # q => frames[p].blocks \cap frames[q].blocks = {}
    BY CountsNow DEF FreeBy
  <2> HIDE DEF at
  <2>5. UNION {frames'[p].blocks : p \in at} = UNION {frames[p].blocks : p \in at}
    BY <2>3
  <2> QED
    BY <2>2, <2>3, <2>4, <2>5
<1>6. CountTypes(used', quota', freeBlocks')
  BY CountsNow DEF CountTypes
<1> QED
  BY <1>3, <1>4, <1>5, <1>6, CountsNext

\* Frames that go give back what they held.
LEMMA CountsDropped ==
  ASSUME FramesOK, CountsOK, NEW P \in SUBSET DOMAIN frames, NEW whole, Dropped(P, whole)
  PROVE  CountsOK'
<1> DEFINE Gone(T) == P \cap Normal(T)
<1>1. /\ DOMAIN frames' = DOMAIN frames \ P /\ \A p \in DOMAIN frames' : frames'[p] = frames[p]
  BY DroppedIs
<1>2. \A p \in DOMAIN frames : frames[p].bytes \in Nat
  BY FrameFields DEF FramesOK
<1>3. ASSUME NEW T \in SUBSET Targets
      PROVE  /\ Queued(frames', T) = Queued(frames, T) \ Gone(T)
             /\ Gone(T) \in SUBSET Queued(frames, T)
             /\ \A p \in Queued(frames', T) : frames'[p] = frames[p]
  BY <1>1 DEF Queued
<1>4. ASSUME NEW S, NEW R \in SUBSET S, S \subseteq DOMAIN frames, IsFiniteSet(S),
             Count(frames, S) \in Share, \A p \in S \ R : frames'[p] = frames[p]
      PROVE  /\ Less(Count(frames, S), R) = Count(frames', S \ R) /\ Count(frames', S \ R) \in Share
  <2>1. Less(Count(frames, S), R) = Count(frames, S \ R) /\ Count(frames, S \ R) \in Share
    BY <1>2, <1>4, LessIs
  <2>2. Count(frames', S \ R) = Count(frames, S \ R)
    BY <1>4, CountSame
  <2> QED
    BY <2>1, <2>2
<1>5. ASSUME NEW t \in Targets
      PROVE  used'[t] = Count(frames', Queued(frames', {t})) /\ used'[t] \in Share
  <2> DEFINE S == Queued(frames, {t})
             R == Gone({t})
  <2>1. {t} \in SUBSET Targets /\ IsFiniteSet({t})
    BY FS_Singleton
  <2>2. IsFiniteSet(S)
    BY <2>1, QueuedFinite
  <2>3. Queued(frames', {t}) = S \ R /\ R \in SUBSET S /\ \A p \in S \ R : frames'[p] = frames[p]
    BY <1>3, <2>1
  <2>4. used[t] = Count(frames, S) /\ used[t] \in Share
    BY CountsNow DEF UsedBy, CountTypes
  <2>5. used'[t] = Less(used[t], R)
    BY QueuesAre DEF Dropped
  <2>6. S \subseteq DOMAIN frames
    BY DEF Queued
  <2> HIDE DEF S, R
  <2> QED
    BY <1>4, <2>2, <2>3, <2>4, <2>5, <2>6
<1>6. used' \in [Targets -> Share]
  <2>1. used' = [t \in Targets |-> used'[t]]
    BY DEF Dropped
  <2> QED
    BY <1>5, <2>1
<1>7. SharedBy(frames', quota') /\ quota' \in [{"all", "discovery", "low"} -> Share]
  <2> DEFINE S == Queued(frames, TcpTargets)
             R == Gone(TcpTargets)
             S1 == Queued(frames', TcpTargets)
  <2>1. TcpTargets \in SUBSET Targets /\ IsFiniteSet(TcpTargets)
    BY TargetTypes
  <2>2. IsFiniteSet(S) /\ S \subseteq DOMAIN frames
    BY <2>1, QueuedFinite DEF Queued
  <2>3. S1 = S \ R /\ R \in SUBSET S /\ \A p \in S \ R : frames'[p] = frames[p]
    BY <1>3, <2>1
  <2>4. /\ quota = [all |-> Count(frames, S), discovery |-> Count(frames, DiscoveryOf(frames, S)),
                    low |-> Count(frames, LowOf(frames, S))]
        /\ quota \in [{"all", "discovery", "low"} -> Share]
    BY CountsNow DEF SharedBy, CountTypes
  <2>5. /\ Count(frames, S) \in Share /\ Count(frames, DiscoveryOf(frames, S)) \in Share
        /\ Count(frames, LowOf(frames, S)) \in Share
        /\ quota.all = Count(frames, S) /\ quota.discovery = Count(frames, DiscoveryOf(frames, S))
        /\ quota.low = Count(frames, LowOf(frames, S))
    BY <2>4
  <2>6. R = UNION {P \cap NormalPlaces(t) : t \in TcpTargets}
    BY DEF Normal
  <2>7. quota' = [all |-> Less(quota.all, R), discovery |-> Less(quota.discovery, DiscoveryOf(frames, R)),
                  low |-> Less(quota.low, LowOf(frames, R))]
    <3>1. TcpRelease(UNION {P \cap NormalPlaces(t) : t \in TcpTargets})
      BY DEF Dropped
    <3> QED
      BY <2>6, <3>1 DEF TcpRelease, DiscoveryOf, LowOf
  <2> HIDE DEF S, R, S1
  <2>8. /\ DiscoveryOf(frames', S1) = DiscoveryOf(frames, S) \ DiscoveryOf(frames, R)
        /\ DiscoveryOf(frames, R) \in SUBSET DiscoveryOf(frames, S)
        /\ DiscoveryOf(frames, S) \subseteq S
        /\ \A p \in DiscoveryOf(frames, S) \ DiscoveryOf(frames, R) : frames'[p] = frames[p]
    BY <2>3 DEF DiscoveryOf
  <2>9. /\ LowOf(frames', S1) = LowOf(frames, S) \ LowOf(frames, R)
        /\ LowOf(frames, R) \in SUBSET LowOf(frames, S) /\ LowOf(frames, S) \subseteq S
        /\ \A p \in LowOf(frames, S) \ LowOf(frames, R) : frames'[p] = frames[p]
    BY <2>3 DEF LowOf
  <2>10. IsFiniteSet(DiscoveryOf(frames, S)) /\ IsFiniteSet(LowOf(frames, S))
    <3>1. DiscoveryOf(frames, S) \in SUBSET S /\ LowOf(frames, S) \in SUBSET S
      BY <2>8, <2>9
    <3> QED
      BY <2>2, <3>1, FS_Subset
  <2>11. Less(quota.all, R) = Count(frames', S1) /\ Count(frames', S1) \in Share
    BY <1>4, <2>2, <2>3, <2>5
  <2>12. /\ Less(quota.discovery, DiscoveryOf(frames, R)) = Count(frames', DiscoveryOf(frames', S1))
         /\ Count(frames', DiscoveryOf(frames', S1)) \in Share
    <3> DEFINE A == DiscoveryOf(frames, S)
               B == DiscoveryOf(frames, R)
    <3>1. /\ B \in SUBSET A /\ A \subseteq DOMAIN frames /\ IsFiniteSet(A)
          /\ Count(frames, A) \in Share /\ \A p \in A \ B : frames'[p] = frames[p]
      BY <2>2, <2>5, <2>8, <2>10
    <3> HIDE DEF A, B
    <3>2. Less(Count(frames, A), B) = Count(frames', A \ B) /\ Count(frames', A \ B) \in Share
      BY <1>4, <3>1
    <3> QED
      BY <2>5, <2>8, <3>2 DEF A, B
  <2>13. /\ Less(quota.low, LowOf(frames, R)) = Count(frames', LowOf(frames', S1))
         /\ Count(frames', LowOf(frames', S1)) \in Share
    <3> DEFINE A == LowOf(frames, S)
               B == LowOf(frames, R)
    <3>1. /\ B \in SUBSET A /\ A \subseteq DOMAIN frames /\ IsFiniteSet(A)
          /\ Count(frames, A) \in Share /\ \A p \in A \ B : frames'[p] = frames[p]
      BY <2>2, <2>5, <2>9, <2>10
    <3> HIDE DEF A, B
    <3>2. Less(Count(frames, A), B) = Count(frames', A \ B) /\ Count(frames', A \ B) \in Share
      BY <1>4, <3>1
    <3> QED
      BY <2>5, <2>9, <3>2 DEF A, B
  <2>14. quota' = [all |-> Count(frames', S1), discovery |-> Count(frames', DiscoveryOf(frames', S1)),
                   low |-> Count(frames', LowOf(frames', S1))]
    BY <2>7, <2>11, <2>12, <2>13
  <2> QED
    BY <2>11, <2>12, <2>13, <2>14 DEF SharedBy, S1
<1>8. ASSUME NEW a \in Arenas
      PROVE  LET at == Queued(frames', InArena(a)) IN
             /\ freeBlocks'[a] = (1..BlockCount) \ UNION {frames'[p].blocks : p \in at}
             /\ \A p, q \in at : p # q => frames'[p].blocks \cap frames'[q].blocks = {}
  <2> DEFINE S == Queued(frames, InArena(a))
             R == Gone(InArena(a))
             left == Queued(frames', InArena(a))
  <2>1. InArena(a) \in SUBSET Targets
    BY DEF InArena
  <2>2. left = S \ R /\ R \in SUBSET S /\ \A p \in left : frames'[p] = frames[p]
    BY <1>3, <2>1
  <2>3. /\ freeBlocks[a] = (1..BlockCount) \ UNION {frames[p].blocks : p \in S}
        /\ \A p, q \in S : p # q => frames[p].blocks \cap frames[q].blocks = {}
    BY CountsNow DEF FreeBy
  <2>4. UNION {P \cap NormalPlaces(t) : t \in {u \in Targets : Arena(u) = a}} = R
    BY DEF Normal, InArena
  <2>5. freeBlocks'[a] = freeBlocks[a] \cup UNION {frames[p].blocks : p \in R}
    <3>1. freeBlocks'[a] = freeBlocks[a] \cup UNION {frames[p].blocks : p \in
                             UNION {P \cap NormalPlaces(t) : t \in {u \in Targets : Arena(u) = a}}}
      BY DEF Dropped
    <3> QED
      BY <2>4, <3>1
  <2>6. \A p \in S : frames[p].blocks \in SUBSET (1..BlockCount)
    BY FrameFields DEF FramesOK, Queued
  <2> HIDE DEF S, R, left
  <2>7. UNION {frames'[p].blocks : p \in left} = UNION {frames[p].blocks : p \in S \ R}
    BY <2>2
  <2>8. freeBlocks'[a] = (1..BlockCount) \ UNION {frames[p].blocks : p \in S \ R}
    BY <2>2, <2>3, <2>5, <2>6
  <2>9. \A p, q \in left : p # q => frames'[p].blocks \cap frames'[q].blocks = {}
    BY <2>2, <2>3
  <2> QED
    BY <2>7, <2>8, <2>9 DEF left
<1>9. freeBlocks' \in [Arenas -> SUBSET (1..BlockCount)]
  <2>1. freeBlocks' = [a \in Arenas |-> freeBlocks'[a]]
    BY DEF Dropped
  <2>2. \A a \in Arenas : freeBlocks'[a] \in SUBSET (1..BlockCount)
    BY <1>8
  <2> QED
    BY <2>1, <2>2
<1>10. UsedBy(frames', used') /\ FreeBy(frames', freeBlocks')
  BY <1>5, <1>8 DEF UsedBy, FreeBy
<1>11. CountTypes(used', quota', freeBlocks')
  BY <1>6, <1>7, <1>9 DEF CountTypes
<1> QED
  BY <1>7, <1>10, <1>11, CountsNext

\* A frame that fits keeps a share within its limits.
LEMMA MoreFits ==
  ASSUME NEW s \in Share, NEW f, f.bytes \in Nat,
         Fits(s, f, QueueFrames, QueueBytes) \/ FitsReserved(s, f)
  PROVE  More(s, f) \in Share
<1>1. /\ s.frames \in Nat /\ s.bytes \in Nat
  BY ShareFields
<1>2. CASE Fits(s, f, QueueFrames, QueueBytes)
  <2>1. s.frames < QueueFrames /\ s.bytes + f.bytes <= QueueBytes
    BY <1>2 DEF Fits
  <2>2. s.frames + 1 \in 0..QueueFrames /\ s.bytes + f.bytes \in 0..QueueBytes
    BY <1>1, <2>1, MuxAssumption
  <2> QED
    BY <2>2 DEF More, Share
<1>3. CASE FitsReserved(s, f)
  <2>1. s.frames < QueueFrames - ReservedFrames /\ s.bytes + f.bytes <= QueueBytes - ReservedBytes
    BY <1>3 DEF Fits, FitsReserved
  <2>2. s.frames + 1 \in 0..QueueFrames /\ s.bytes + f.bytes \in 0..QueueBytes
    BY <1>1, <2>1, MuxAssumption
  <2> QED
    BY <2>2 DEF More, Share
<1> QED
  BY <1>2, <1>3

\* A frame that is queued takes what it is counted for.
LEMMA CountsStored ==
  ASSUME FramesOK, CountsOK, NEW t \in Targets, NEW p, NEW f, NormalStored(t, p, f)
  PROVE  CountsOK'
<1>1. /\ p \in NormalPlaces(t) /\ p \notin DOMAIN frames /\ p \in Place
      /\ Fresh(f) /\ f.bytes \in Nat /\ f.blocks \in SUBSET (1..BlockCount)
  <2>1. p \in NormalPlaces(t) /\ p \notin DOMAIN frames /\ Fresh(f)
    BY DEF NormalStored
  <2>2. f \in Frame
    BY <2>1 DEF Fresh
  <2> QED
    BY <2>1, <2>2, FrameFields, PlaceTypes
<1>2. /\ DOMAIN frames' = DOMAIN frames \cup {p} /\ frames'[p] = f
      /\ \A q \in DOMAIN frames : Alike(frames[q], frames'[q])
  <2>1. Stored(p, f)
    BY DEF NormalStored
  <2>2. /\ DOMAIN frames' = DOMAIN frames \cup {p} /\ frames'[p] = f
        /\ \A q \in DOMAIN frames \ {p} : Alike(frames[q], frames'[q])
    BY <1>1, <2>1, StoredIs
  <2> QED
    BY <1>1, <2>2
<1>3. \A q \in DOMAIN frames : /\ frames[q].bytes \in Nat /\ frames'[q].bytes = frames[q].bytes
                               /\ frames'[q].session = frames[q].session
                               /\ frames'[q].class = frames[q].class
                               /\ frames'[q].blocks = frames[q].blocks
                               /\ frames[q].blocks \in SUBSET (1..BlockCount)
  <2>1. \A q \in DOMAIN frames : frames[q] \in Frame
    BY DEF FramesOK
  <2> QED
    BY <1>2, <2>1, FrameFields DEF Alike
<1>4. ASSUME NEW T \in SUBSET Targets
      PROVE  /\ t \in T => Queued(frames', T) = Queued(frames, T) \cup {p}
             /\ t \notin T => Queued(frames', T) = Queued(frames, T)
             /\ Queued(frames, T) \subseteq DOMAIN frames
  <2>1. p \in Normal(T) <=> t \in T
    BY <1>1, QueuesAre
  <2> QED
    BY <1>2, <2>1 DEF Queued
<1>5. ASSUME NEW S \in SUBSET DOMAIN frames, IsFiniteSet(S)
      PROVE  Count(frames', S) = Count(frames, S) /\ More(Count(frames, S), f) = Count(frames', S \cup {p})
  <2>1. Count(frames', S) = Count(frames, S)
    BY <1>3, CountSame
  <2>2. IsFiniteSet(S) /\ p \notin S /\ \A q \in S : frames'[q].bytes = frames[q].bytes /\ frames'[q].bytes \in Nat
    BY <1>1, <1>3, <1>5
  <2>3. frames'[p].bytes = f.bytes /\ f.bytes \in Nat
    BY <1>1, <1>2
  <2>4. More(Count(frames, S), f) = Count(frames', S \cup {p})
    BY <2>2, <2>3, MoreIs
  <2> QED
    BY <2>1, <2>4
<1>6. /\ QueueAccepts(t, f) /\ (IsTcp(t) => TcpAccepts(f)) /\ f.blocks \subseteq freeBlocks[Arena(t)]
      /\ used' = [used EXCEPT ![t] = More(@, f)]
      /\ quota' = IF IsTcp(t) THEN TcpReserve(f) ELSE quota
      /\ freeBlocks' = [freeBlocks EXCEPT ![Arena(t)] = @ \ f.blocks]
  BY DEF NormalStored
<1>7. CountTypes(used, quota, freeBlocks) /\ UsedBy(frames, used)
      /\ SharedBy(frames, quota) /\ FreeBy(frames, freeBlocks)
  BY CountsNow
<1>8. UsedBy(frames', used') /\ used' \in [Targets -> Share]
  <2> SUFFICES ASSUME NEW u \in Targets
               PROVE  used'[u] = Count(frames', Queued(frames', {u})) /\ used'[u] \in Share
    <3>1. used \in [Targets -> Share]
      BY <1>7 DEF CountTypes
    <3>2. used' = [x \in Targets |-> used'[x]]
      BY <1>6, <3>1
    <3> QED
      BY <3>2 DEF UsedBy
  <2> DEFINE S == Queued(frames, {u})
  <2>1. used[u] = Count(frames, S) /\ used[u] \in Share /\ used \in [Targets -> Share]
    BY <1>7 DEF UsedBy, CountTypes
  <2>2. IsFiniteSet(S)
    BY QueuedFinite, FS_Singleton
  <2>3. S \in SUBSET DOMAIN frames
    BY DEF Queued
  <2>4. {u} \in SUBSET Targets
    OBVIOUS
  <2>5. /\ u = t => Queued(frames', {u}) = S \cup {p}
        /\ u # t => Queued(frames', {u}) = S
    BY <1>4, <2>4
  <2> HIDE DEF S
  <2>6. CASE u = t
    <3>1. used'[u] = More(used[u], f)
      BY <1>6, <2>1, <2>6
    <3>2. Fits(used[u], f, QueueFrames, QueueBytes)
      BY <1>6, <2>6 DEF QueueAccepts
    <3>3. More(used[u], f) \in Share
      BY <1>1, <2>1, <3>2, MoreFits
    <3> QED
      BY <1>5, <2>1, <2>2, <2>3, <2>5, <2>6, <3>1, <3>3
  <2>7. CASE u # t
    <3>1. used'[u] = used[u]
      BY <1>6, <2>1, <2>7
    <3> QED
      BY <1>5, <2>1, <2>2, <2>3, <2>5, <2>7, <3>1
  <2> QED
    BY <2>6, <2>7
<1>9. SharedBy(frames', quota') /\ quota' \in [{"all", "discovery", "low"} -> Share]
  <2> DEFINE S == Queued(frames, TcpTargets)
             D == DiscoveryOf(frames, S)
             L == LowOf(frames, S)
  <2>1. TcpTargets \in SUBSET Targets /\ IsFiniteSet(TcpTargets)
    BY TargetTypes
  <2>2. IsFiniteSet(S) /\ S \in SUBSET DOMAIN frames
    BY <2>1, QueuedFinite DEF Queued
  <2>3. D \in SUBSET S /\ L \in SUBSET S
    BY DEF DiscoveryOf, LowOf
  <2>4. /\ IsFiniteSet(D) /\ IsFiniteSet(L)
        /\ D \in SUBSET DOMAIN frames /\ L \in SUBSET DOMAIN frames
    BY <2>2, <2>3, FS_Subset
  <2>5. /\ quota = [all |-> Count(frames, S), discovery |-> Count(frames, D),
                    low |-> Count(frames, L)]
        /\ quota \in [{"all", "discovery", "low"} -> Share]
    BY <1>7 DEF SharedBy, CountTypes
  <2>6. /\ quota.all = Count(frames, S) /\ quota.discovery = Count(frames, D)
        /\ quota.low = Count(frames, L)
        /\ quota.all \in Share /\ quota.discovery \in Share /\ quota.low \in Share
    BY <2>5
  <2>7. /\ Count(frames', S) = Count(frames, S) /\ More(Count(frames, S), f) = Count(frames', S \cup {p})
        /\ Count(frames', D) = Count(frames, D) /\ More(Count(frames, D), f) = Count(frames', D \cup {p})
        /\ Count(frames', L) = Count(frames, L) /\ More(Count(frames, L), f) = Count(frames', L \cup {p})
    BY <1>5, <2>2, <2>4
  <2>8. \A q \in S : (Discovery(frames'[q]) <=> Discovery(frames[q])) /\ (Low(frames'[q]) <=> Low(frames[q]))
    BY <1>3, <2>2 DEF Discovery, Low
  <2>9. /\ t \in TcpTargets => Queued(frames', TcpTargets) = S \cup {p}
        /\ t \notin TcpTargets => Queued(frames', TcpTargets) = S
    BY <1>4, <2>1
  <2>10. /\ DiscoveryOf(frames', S) = D /\ LowOf(frames', S) = L
         /\ DiscoveryOf(frames', S \cup {p}) = IF Discovery(f) THEN D \cup {p} ELSE D
         /\ LowOf(frames', S \cup {p}) = IF Low(f) THEN L \cup {p} ELSE L
    BY <1>2, <2>8 DEF DiscoveryOf, LowOf
  <2> HIDE DEF S, D, L
  <2>11. CASE t \in TcpTargets
    <3>1. quota' = TcpReserve(f) /\ TcpAccepts(f)
      BY <1>6, <2>11 DEF IsTcp
    <3>2. quota' = [all |-> Count(frames', S \cup {p}),
                    discovery |-> Count(frames', DiscoveryOf(frames', S \cup {p})),
                    low |-> Count(frames', LowOf(frames', S \cup {p}))]
      BY <2>6, <2>7, <2>10, <3>1 DEF TcpReserve
    <3>3. More(quota.all, f) \in Share
      BY <1>1, <2>6, <3>1, MoreFits DEF TcpAccepts
    <3>4. Discovery(f) => More(quota.discovery, f) \in Share
      BY <1>1, <2>6, <3>1, MoreFits DEF TcpAccepts
    <3>5. Low(f) => More(quota.low, f) \in Share
      BY <1>1, <2>6, <3>1, MoreFits DEF TcpAccepts
    <3>6. quota' \in [{"all", "discovery", "low"} -> Share]
      BY <2>6, <3>1, <3>3, <3>4, <3>5 DEF TcpReserve
    <3> QED
      BY <2>9, <2>11, <3>2, <3>6 DEF SharedBy
  <2>12. CASE t \notin TcpTargets
    <3>1. quota' = quota
      BY <1>6, <2>12 DEF IsTcp
    <3> QED
      BY <2>5, <2>7, <2>9, <2>10, <2>12, <3>1 DEF SharedBy
  <2> QED
    BY <2>11, <2>12
<1>10. FreeBy(frames', freeBlocks') /\ freeBlocks' \in [Arenas -> SUBSET (1..BlockCount)]
  <2>1. freeBlocks \in [Arenas -> SUBSET (1..BlockCount)]
    BY <1>7 DEF CountTypes
  <2>2. Arena(t) \in Arenas
    BY DEF Arena, Arenas, IsTcp, Targets
  <2> SUFFICES ASSUME NEW a \in Arenas
               PROVE  LET at == Queued(frames', InArena(a)) IN
                      /\ freeBlocks'[a] = (1..BlockCount) \ UNION {frames'[q].blocks : q \in at}
                      /\ \A q, r \in at : q # r => frames'[q].blocks \cap frames'[r].blocks = {}
    <3>1. freeBlocks' \in [Arenas -> SUBSET (1..BlockCount)]
      BY <1>6, <2>1, <2>2
    <3> QED
      BY <3>1 DEF FreeBy
  <2> DEFINE S == Queued(frames, InArena(a))
             left == Queued(frames', InArena(a))
  <2>3. InArena(a) \in SUBSET Targets /\ (t \in InArena(a) <=> a = Arena(t))
    BY DEF InArena
  <2>4. /\ freeBlocks[a] = (1..BlockCount) \ UNION {frames[q].blocks : q \in S}
        /\ \A q, r \in S : q # r => frames[q].blocks \cap frames[r].blocks = {}
    BY <1>7 DEF FreeBy
  <2>5. /\ a = Arena(t) => left = S \cup {p} 
        /\ a # Arena(t) => left = S
        /\ S \subseteq DOMAIN frames
    BY <1>4, <2>3
  <2> HIDE DEF S, left
  <2>6. \A q \in S : frames'[q].blocks = frames[q].blocks /\ frames[q].blocks \in SUBSET (1..BlockCount)
    BY <1>3, <2>5
  <2>7. CASE a = Arena(t)
    <3>1. freeBlocks'[a] = freeBlocks[a] \ f.blocks /\ f.blocks \subseteq freeBlocks[a]
      BY <1>6, <2>1, <2>7
    <3>2. \A q \in S : frames[q].blocks \cap f.blocks = {}
      BY <2>4, <3>1
    <3>3. frames'[p].blocks = f.blocks
      BY <1>2
    <3>4. freeBlocks'[a] = (1..BlockCount) \ UNION {frames'[q].blocks : q \in S \cup {p}}
      BY <2>4, <2>6, <3>1, <3>3
    <3>5. \A q, r \in S \cup {p} : q # r => frames'[q].blocks \cap frames'[r].blocks = {}
      BY <2>4, <2>6, <3>2, <3>3
    <3> QED
      BY <2>5, <2>7, <3>4, <3>5 DEF left
  <2>8. CASE a # Arena(t)
    <3>1. freeBlocks'[a] = freeBlocks[a]
      BY <1>6, <2>1, <2>8
    <3> QED
      BY <2>4, <2>5, <2>6, <2>8, <3>1 DEF left
  <2> QED
    BY <2>7, <2>8
<1> QED
  BY <1>8, <1>9, <1>10, CountsNext DEF CountTypes

LEMMA CountsStep ==
  ASSUME FramesOK, DeviceOK, CountsOK, Effect
  PROVE  CountsOK'
<1>1. frames \in [DOMAIN frames -> Frame]
  BY DEF FramesOK
<1>2. CASE UNCHANGED <<frames, order, used, freeBlocks, quota>>
  <2>1. frames' = frames /\ UNCHANGED <<used, freeBlocks, quota>>
    BY <1>2
  <2> QED
    BY <2>1, AlikeSame, QueuesStay
<1>3. CASE FlagsChange
  <2>1. /\ DOMAIN frames' = DOMAIN frames /\ UNCHANGED <<used, freeBlocks, quota>>
        /\ \A p \in DOMAIN frames : FlagsOf(frames[p], frames'[p])
    BY <1>3 DEF FlagsChange
  <2>2. \A p \in DOMAIN frames : Alike(frames[p], frames'[p])
    BY <1>1, <2>1, AlikeSame
  <2> QED
    BY <2>1, <2>2, QueuesStay
<1>4. ASSUME NEW p, NEW f, SpecialStored(p, f) PROVE CountsOK'
  <2>1. p \in Special /\ p \in Place /\ Fresh(f) /\ Stored(p, f) /\ UNCHANGED <<used, freeBlocks, quota>>
    BY <1>4, PlaceTypes DEF SpecialStored
  <2>2. /\ DOMAIN frames' = DOMAIN frames \cup {p}
        /\ \A q \in DOMAIN frames \ {p} : Alike(frames[q], frames'[q])
    BY <2>1, StoredIs
  <2> QED
    BY <2>1, <2>2, QueuesStay
<1>5. CASE Publish
  <2>1. PICK replaced, fresh, reader, b : Published(replaced, fresh, reader, b)
    BY <1>5, PublishIs
  <2>2. /\ replaced \subseteq Special /\ fresh \subseteq Special
        /\ DOMAIN frames' = (DOMAIN frames \ replaced) \cup fresh
        /\ \A p \in DOMAIN frames \ replaced :
             frames'[p] = [frames[p] EXCEPT !.intact = @ /\ frames[p].buffer # b]
        /\ UNCHANGED <<used, freeBlocks, quota>>
    BY <2>1, SpecialIs DEF Published
  <2>3. ASSUME NEW p \in DOMAIN frames \ replaced
        PROVE  Alike(frames[p], frames'[p])
    <3>1. frames[p] \in Frame /\ frames[p].intact \in BOOLEAN
      BY <1>1, FrameFields
    <3> DEFINE i == frames[p].intact /\ frames[p].buffer # b
    <3>2. i \in BOOLEAN /\ frames'[p] = [frames[p] EXCEPT !.intact = i]
      BY <2>2, <3>1
    <3> HIDE DEF i
    <3> QED
      BY <3>1, <3>2, AlikeSame
  <2> QED
    BY <2>2, <2>3, QueuesStay
<1> QED
  BY <1>2, <1>3, <1>4, <1>5, CountsDropped, CountsStored DEF Effect

(***************************************************************************)
(* The frames under way.                                                   *)
(***************************************************************************)
\* The frames that have started stay, and no other starts.
StartedStay ==
  /\ \A p \in DOMAIN frames : frames[p].started =>
       /\ p \in DOMAIN frames' /\ frames'[p].started
       /\ frames'[p].target = frames[p].target /\ frames'[p].generation = frames[p].generation
  /\ \A p \in DOMAIN frames' : frames'[p].started => p \in DOMAIN frames /\ frames[p].started

LEMMA StayStarted ==
  ASSUME OneStarted, StartedStay, UNCHANGED partial
  PROVE  OneStarted'
BY DEF OneStarted, StartedStay

LEMMA StayStream ==
  ASSUME StreamOK, StartedStay, UNCHANGED received,
         \A t \in TcpTargets :
           /\ links'[t].generation = links[t].generation
           /\ links'[t].open => links[t].open
           /\ links'[t].open /\ Closing(t) => Closing(t)'
  PROVE  StreamOK'
<1>1. \A t \in TcpTargets : UnderWay(t)' = UnderWay(t)
  BY DEF UnderWay, StartedStay
<1>2. \A t \in TcpTargets :
        \/ received[t].state = "open" /\ received[t].place \in UnderWay(t)
        \/ received[t].state = "boundary" /\ UnderWay(t) = {}
        \/ received[t].state = "cut" /\ UnderWay(t) = {} /\ (links[t].open => Closing(t))
  BY DEF StreamOK
<1>3. received' = received
      /\ received \in [Targets -> [state : {"boundary", "open", "cut", "garbled"},
                                   place : Place \cup {NoPlace}]]
  BY DEF StreamOK
<1>4. \A t \in TcpTargets : links[t].open /\ Closing(t) /\ links'[t].open => Closing(t)'
  OBVIOUS
<1> HIDE DEF UnderWay, Closing
<1>5. \A t \in TcpTargets :
        \/ received'[t].state = "open" /\ received'[t].place \in UnderWay(t)'
        \/ received'[t].state = "boundary" /\ UnderWay(t)' = {}
        \/ received'[t].state = "cut" /\ UnderWay(t)' = {} /\ (links'[t].open => Closing(t)')
  BY <1>1, <1>2, <1>3, <1>4
<1> QED
  BY <1>3, <1>5 DEF StreamOK

\* A step that leaves the links, the worker and the stream alone.
LEMMA StayBoth ==
  ASSUME OneStarted, StreamOK, StartedStay, UNCHANGED <<partial, received, links, worker>>
  PROVE  OneStarted' /\ StreamOK'
<1>1. \A t \in TcpTargets :
        /\ links'[t].generation = links[t].generation
        /\ links'[t].open => links[t].open
        /\ links'[t].open /\ Closing(t) => Closing(t)'
  BY DEF Closing
<1> QED
  BY <1>1, StayStarted, StayStream

LEMMA SameStays ==
  ASSUME UNCHANGED frames
  PROVE  StartedStay
BY DEF StartedStay

LEMMA StoredStays ==
  ASSUME FramesOK, NEW p \in Place, NEW f, Fresh(f), Stored(p, f),
         p \in DOMAIN frames => ~frames[p].started
  PROVE  StartedStay
<1>1. /\ DOMAIN frames' = DOMAIN frames \cup {p} /\ frames'[p] = f
      /\ \A q \in DOMAIN frames \ {p} :
           Alike(frames[q], frames'[q]) /\ frames'[q].started = frames[q].started
  BY StoredIs
<1>2. ~f.started
  BY DEF Fresh
<1> QED
  BY <1>1, <1>2 DEF StartedStay, Alike

LEMMA PublishStays ==
  ASSUME FramesOK, DeviceOK, Publish
  PROVE  StartedStay
<1>1. PICK replaced, fresh, reader, b : Published(replaced, fresh, reader, b)
  BY PublishIs
<1>2. /\ replaced = {p \in ObserverPlaces \cap DOMAIN frames : ~frames[p].started}
      /\ DOMAIN frames' = (DOMAIN frames \ replaced) \cup fresh
      /\ \A p \in DOMAIN frames \ replaced :
           frames'[p] = [frames[p] EXCEPT !.intact = @ /\ frames[p].buffer # b]
      /\ \A p \in fresh : Fresh(frames'[p])
      /\ fresh \cap (DOMAIN frames \ replaced) = {}
  BY <1>1 DEF Published
<1>3. ASSUME NEW p \in DOMAIN frames \ replaced
      PROVE  Alike(frames[p], frames'[p]) /\ frames'[p].started = frames[p].started
  <2>1. frames[p] \in Frame /\ frames[p].intact \in BOOLEAN
    BY FrameFields DEF FramesOK
  <2> DEFINE i == frames[p].intact /\ frames[p].buffer # b
  <2>2. i \in BOOLEAN /\ frames'[p] = [frames[p] EXCEPT !.intact = i]
    BY <1>2, <2>1
  <2> HIDE DEF i
  <2> QED
    BY <2>1, <2>2, AlikeSame
<1>4. \A p \in fresh : ~frames'[p].started
  BY <1>2 DEF Fresh
<1> QED
  BY <1>2, <1>3, <1>4 DEF StartedStay, Alike

\* One flag of a frame that has not started, or not the one that says so.
LEMMA FlagStays ==
  ASSUME FramesOK, NEW p \in DOMAIN frames,
         \/ frames' = [frames EXCEPT ![p].late = TRUE]
         \/ frames' = [frames EXCEPT ![p].overdue = TRUE]
         \/ frames' = [frames EXCEPT ![p].attempted = TRUE]
  PROVE  StartedStay
<1>1. DOMAIN frames' = DOMAIN frames
      /\ \A q \in DOMAIN frames : \/ frames'[q] = frames[q]
                                  \/ frames'[q] = [frames[q] EXCEPT !.late = TRUE]
                                  \/ frames'[q] = [frames[q] EXCEPT !.overdue = TRUE]
                                  \/ frames'[q] = [frames[q] EXCEPT !.attempted = TRUE]
  BY DEF FramesOK
<1>2. \A q \in DOMAIN frames : /\ frames'[q].started = frames[q].started
                               /\ frames'[q].target = frames[q].target
                               /\ frames'[q].generation = frames[q].generation
  <2>1. \A f \in Frame : \A g : \/ g = f
                                \/ g = [f EXCEPT !.late = TRUE]
                                \/ g = [f EXCEPT !.overdue = TRUE]
                                \/ g = [f EXCEPT !.attempted = TRUE]
                              => g.started = f.started /\ g.target = f.target
                                 /\ g.generation = f.generation
    BY DEF Frame
  <2>2. \A q \in DOMAIN frames : frames[q] \in Frame
    BY DEF FramesOK
  <2> QED
    BY <1>1, <2>1, <2>2
<1> QED
  BY <1>1, <1>2 DEF StartedStay

\* Whatever is dropped, what is left is marked.
LEMMA DroppedStarted ==
  ASSUME FramesOK, OneStarted, NEW P \in SUBSET DOMAIN frames, NEW whole, Dropped(P, whole)
  PROVE  OneStarted'
<1>1. /\ DOMAIN frames' = DOMAIN frames \ P
      /\ \A p \in DOMAIN frames' : frames'[p] = frames[p]
  BY DroppedIs
<1>2. partial' = [t \in Targets |->
        IF partial[t] \in P /\ frames[partial[t]].started THEN NoPlace ELSE partial[t]]
  BY DEF Dropped
<1>3. partial' \in [Targets -> Special \cup {NoPlace}]
  BY <1>2 DEF OneStarted
<1>4. \A p \in DOMAIN frames : frames[p].target \in Targets
  BY FrameFields DEF FramesOK
<1>5. ASSUME NEW p \in Special \cap DOMAIN frames', frames'[p].started
      PROVE  partial'[frames'[p].target] = p
  <2>1. p \in Special \cap DOMAIN frames /\ p \notin P /\ frames'[p] = frames[p]
    BY <1>1
  <2>2. partial[frames[p].target] = p
    BY <1>5, <2>1 DEF OneStarted
  <2> QED
    BY <1>2, <1>4, <2>1, <2>2
<1>6. \A p, q \in DOMAIN frames' :
        frames'[p].started /\ frames'[q].started /\ frames'[p].target = frames'[q].target => p = q
  BY <1>1 DEF OneStarted
<1> QED
  BY <1>3, <1>5, <1>6 DEF OneStarted

LEMMA WaitingDropped ==
  ASSUME FramesOK, OneStarted, StreamOK, NEW P \in SUBSET DOMAIN frames, Dropped(P, FALSE),
         \A p \in P : ~frames[p].started
  PROVE  StartedStay /\ UNCHANGED received
<1>1. /\ DOMAIN frames' = DOMAIN frames \ P
      /\ \A p \in DOMAIN frames' : frames'[p] = frames[p]
  BY DroppedIs
<1>2. received \in [Targets -> [state : {"boundary", "open", "cut", "garbled"},
                                place : Place \cup {NoPlace}]]
  BY DEF StreamOK
<1> DEFINE cut(t) == {p \in P : frames[p].target = t /\ frames[p].started
                                /\ frames[p].generation = links[t].generation}
           next(t) == IF cut(t) # {} /\ received[t].state = "open"
                        THEN [received[t] EXCEPT !.state = "cut"] ELSE received[t]
<1>3. received' = [t \in Targets |-> next(t)]
  BY DEF Dropped
<1>4. \A t \in Targets : next(t) = received[t]
  OBVIOUS
<1> HIDE DEF next
<1>5. received' = received
  BY <1>2, <1>3, <1>4
<1> QED
  BY <1>1, <1>5 DEF StartedStay

\* A chosen frame is the one under way at its target, if there is one.
LEMMA ChoiceIs ==
  ASSUME OneStarted, NEW t, NEW locked, NEW p \in Choice(t, locked)
  PROVE  /\ p \in DOMAIN frames /\ frames[p].target = t
         /\ \A q \in DOMAIN frames : frames[q].started /\ frames[q].target = t => q = p
<1> DEFINE started == {q \in Seen(t, locked) : frames[q].started}
           fresh == {q \in Seen(t, locked) : ~frames[q].late /\ ~UartPaused(frames[q])}
<1>1. Choice(t, locked) = IF ~locked /\ partial[t] # NoPlace THEN {}
                          ELSE IF started # {} THEN started
                          ELSE {q \in fresh : \A r \in fresh \ {q} : Before(q, r)}
  BY DEF Choice
<1>2. p \in DOMAIN frames /\ frames[p].target = t
  BY <1>1 DEF Seen
<1>3. ASSUME NEW q \in DOMAIN frames, frames[q].started, frames[q].target = t
      PROVE  q = p
  <2>1. CASE q \in Seen(t, locked)
    <3>1. p \in started
      BY <1>1, <1>3, <2>1
    <3>2. frames[p].started
      BY <3>1
    <3> QED
      BY <1>2, <1>3, <3>2 DEF OneStarted
  <2>2. CASE q \notin Seen(t, locked)
    <3>1. q \in Special /\ ~locked
      BY <1>3, <2>2 DEF Seen
    <3>2. partial[t] = q
      BY <1>3, <3>1 DEF OneStarted
    <3>3. partial[t] # NoPlace
      BY <3>1, <3>2, BuffersDiffer
    <3> QED
      BY <1>1, <3>1, <3>3
  <2> QED
    BY <2>1, <2>2
<1> QED
  BY <1>2, <1>3

\* A frame is cut: the stream goes on only if the link is about to be closed.
LEMMA CutStream ==
  ASSUME FramesOK, OneStarted, StreamOK, NEW p \in DOMAIN frames, Dropped({p}, FALSE),
         worker = Visiting, UNCHANGED links,
         \A t \in TcpTargets :
           frames[p].started /\ frames[p].target = t /\ frames[p].generation = links[t].generation
             => Closing(t)'
  PROVE  StreamOK'
<1> DEFINE cut(t) == {q \in {p} : frames[q].target = t /\ frames[q].started
                                  /\ frames[q].generation = links[t].generation}
           next(t) == IF cut(t) # {} /\ received[t].state = "open"
                        THEN [received[t] EXCEPT !.state = "cut"] ELSE received[t]
<1>1. /\ DOMAIN frames' = DOMAIN frames \ {p}
      /\ \A q \in DOMAIN frames' : frames'[q] = frames[q]
  BY DroppedIs
<1>2. received' = [t \in Targets |-> next(t)]
  BY DEF Dropped
<1>3. \A t \in Targets : UnderWay(t)' = UnderWay(t) \ {p}
  BY <1>1 DEF UnderWay
<1>4. \A t \in Targets : cut(t) = UnderWay(t) \cap {p}
  BY DEF UnderWay
<1>5. \A t \in Targets : received[t] \in [state : {"boundary", "open", "cut", "garbled"},
                                          place : Place \cup {NoPlace}]
  BY DEF StreamOK
<1>6. \A t \in Targets : next(t) \in [state : {"boundary", "open", "cut", "garbled"},
                                      place : Place \cup {NoPlace}]
  BY <1>5
<1>7. \A t \in TcpTargets : ~Closing(t)
  BY DEF Closing, Visiting
<1>8. \A t \in Targets : \A q, r \in UnderWay(t) : q = r
  BY DEF OneStarted, UnderWay
<1>9. ASSUME NEW t \in TcpTargets
      PROVE  \/ received'[t].state = "open" /\ received'[t].place \in UnderWay(t)'
             \/ received'[t].state = "boundary" /\ UnderWay(t)' = {}
             \/ received'[t].state = "cut" /\ UnderWay(t)' = {} /\ (links'[t].open => Closing(t)')
  <2>1. t \in Targets
    BY TargetTypes
  <2>2. \/ received[t].state = "open" /\ received[t].place \in UnderWay(t)
        \/ received[t].state = "boundary" /\ UnderWay(t) = {}
        \/ received[t].state = "cut" /\ UnderWay(t) = {} /\ ~links[t].open
    BY <1>7 DEF StreamOK
  <2>3. CASE p \in UnderWay(t)
    <3>1. received[t].state = "open" /\ UnderWay(t)' = {}
      BY <1>3, <1>8, <2>1, <2>2, <2>3
    <3>2. received'[t] = [received[t] EXCEPT !.state = "cut"]
      BY <1>2, <1>4, <2>1, <2>3, <3>1
    <3>3. received'[t].state = "cut"
      BY <1>5, <2>1, <3>2
    <3>4. Closing(t)'
      BY <2>3 DEF UnderWay
    <3> QED
      BY <3>1, <3>3, <3>4
  <2>4. CASE p \notin UnderWay(t)
    <3>1. UnderWay(t)' = UnderWay(t)
      BY <1>3, <2>1, <2>4
    <3>2. received'[t] = received[t]
      BY <1>2, <1>4, <2>1, <2>4
    <3> HIDE DEF next
    <3> QED
      BY <2>2, <3>1, <3>2
  <2> QED
    BY <2>3, <2>4
<1> HIDE DEF next
<1> QED
  BY <1>2, <1>6, <1>9 DEF StreamOK

\* Bytes of a frame on an open link follow a boundary or bytes of the same frame.
LEMMA Follows ==
  ASSUME OneStarted, StreamOK, NEW t \in TcpTargets, NEW p \in DOMAIN frames,
         frames[p].target = t, IsCurrent(t, frames[p].generation), worker = Visiting,
         \A q \in DOMAIN frames : frames[q].started /\ frames[q].target = t => q = p
  PROVE  \/ received[t].state = "boundary"
         \/ received[t].state = "open" /\ received[t].place = p
<1>1. links[t].open
  BY DEF IsCurrent
<1>2. ~Closing(t)
  BY DEF Closing, Visiting
<1>3. \A q \in UnderWay(t) : q = p
  BY DEF UnderWay
<1> QED
  BY <1>1, <1>2, <1>3 DEF StreamOK

\* What is received of a frame, whole or not.
LEMMA ReceivesStream ==
  ASSUME StreamOK, NEW t \in Targets, NEW p \in Place, NEW whole \in BOOLEAN, Receives(t, p, whole),
         worker = Visiting, UNCHANGED links,
         \A u \in TcpTargets \ {t} : UnderWay(u)' = UnderWay(u),
         t \in TcpTargets =>
           /\ \/ received[t].state = "boundary"
              \/ received[t].state = "open" /\ received[t].place = p
           /\ IF whole THEN UnderWay(t)' = {} ELSE p \in UnderWay(t)'
  PROVE  StreamOK'
<1> DEFINE follows == \/ received[t].state = "boundary"
                      \/ received[t].state = "open" /\ received[t].place = p
           next == [state |-> IF ~follows THEN "garbled" ELSE IF whole THEN "boundary" ELSE "open",
                    place |-> IF whole THEN NoPlace ELSE p]
           Kind == [state : {"boundary", "open", "cut", "garbled"}, place : Place \cup {NoPlace}]
<1>1. received \in [Targets -> Kind]
  BY DEF StreamOK
<1>2. received' = [received EXCEPT ![t] = next]
  BY DEF Receives
<1>3. next \in Kind
  OBVIOUS
<1>4. received' \in [Targets -> Kind]
  BY <1>1, <1>2, <1>3
<1>5. ASSUME NEW u \in TcpTargets
      PROVE  \/ received'[u].state = "open" /\ received'[u].place \in UnderWay(u)'
             \/ received'[u].state = "boundary" /\ UnderWay(u)' = {}
             \/ received'[u].state = "cut" /\ UnderWay(u)' = {} /\ (links'[u].open => Closing(u)')
  <2>1. u \in Targets
    BY TargetTypes
  <2>2. CASE u = t
    <3>1. received'[u] = next
      BY <1>1, <1>2, <2>2
    <3>2. /\ next.state = IF whole THEN "boundary" ELSE "open"
          /\ next.place = IF whole THEN NoPlace ELSE p
      BY <2>2
    <3>3. IF whole THEN UnderWay(u)' = {} ELSE p \in UnderWay(u)'
      BY <2>2
    <3> HIDE DEF next
    <3> QED
      BY <3>1, <3>2, <3>3
  <2>3. CASE u # t
    <3>1. received'[u] = received[u] /\ UnderWay(u)' = UnderWay(u)
      BY <1>1, <1>2, <2>1, <2>3
    <3>2. ~Closing(u)
      BY DEF Closing, Visiting
    <3>3. \/ received[u].state = "open" /\ received[u].place \in UnderWay(u)
          \/ received[u].state = "boundary" /\ UnderWay(u) = {}
          \/ received[u].state = "cut" /\ UnderWay(u) = {} /\ ~links[u].open
      BY <3>2 DEF StreamOK
    <3>4. links' = links
      OBVIOUS
    <3> QED
      BY <3>1, <3>3, <3>4
  <2> QED
    BY <2>2, <2>3
<1> QED
  BY <1>4, <1>5 DEF StreamOK

\* A visit of the worker.
LEMMA VisitStream ==
  ASSUME FramesOK, OneStarted, StreamOK, NEW t \in Targets, NEW locked, Visit(t, locked)
  PROVE  OneStarted' /\ StreamOK'
<1>1. worker = Visiting /\ UNCHANGED links
  BY DEF Visit, deviceVars
<1>2. PICK p \in Choice(t, locked) :
        \/ Lapse(p) \/ DropStale(p) \/ TooSlow(p) \/ Deadline(p)
        \/ Blocked(p) \/ SendSome(p) \/ SendAll(p) \/ SendFails(p)
  BY DEF Visit
<1> DEFINE f == frames[p]
<1>3. /\ p \in DOMAIN frames /\ f.target = t
      /\ \A q \in DOMAIN frames : frames[q].started /\ frames[q].target = t => q = p
  BY ChoiceIs
<1>4. f \in Frame /\ p \in Place /\ {p} \in SUBSET DOMAIN frames
  BY <1>3 DEF FramesOK
<1>5. CASE Lapse(p)
  <2>1. Dropped({p}, FALSE) /\ ~f.started
    BY <1>5 DEF Lapse
  <2> QED
    BY <1>1, <1>3, <1>4, <2>1, DroppedStarted, CutStream
<1>6. CASE DropStale(p)
  <2>1. /\ Dropped({p}, FALSE)
        /\ f.started /\ IsTcp(f.target) =>
             worker' = [at |-> "close", target |-> f.target, generation |-> f.generation,
                        session |-> 0, close |-> TRUE]
    BY <1>6 DEF DropStale
  <2>2. \A u \in TcpTargets : f.started /\ f.target = u /\ f.generation = links[u].generation
                                => Closing(u)'
    BY <1>1, <2>1 DEF Closing, IsTcp
  <2> QED
    BY <1>1, <1>3, <1>4, <2>1, <2>2, DroppedStarted, CutStream
<1>7. CASE TooSlow(p)
  <2>1. Dropped({p}, FALSE) /\ f.target = Uart
    BY <1>7 DEF TooSlow
  <2>2. f.target \notin TcpTargets
    BY <2>1, TargetTypes
  <2> QED
    BY <1>1, <1>3, <1>4, <2>1, <2>2, DroppedStarted, CutStream
<1>8. CASE Deadline(p) \/ SendFails(p)
  <2>1. Dropped({p}, FALSE) /\ Fail(f, TRUE)
    BY <1>8 DEF Deadline, SendFails
  <2>2. \A u \in TcpTargets : f.started /\ f.target = u /\ f.generation = links[u].generation
                                => Closing(u)'
    BY <1>1, <2>1 DEF Closing, IsTcp, Fail
  <2> QED
    BY <1>1, <1>3, <1>4, <2>1, <2>2, DroppedStarted, CutStream
<1>9. CASE Blocked(p)
  <2>1. frames' = [frames EXCEPT ![p].attempted = TRUE] /\ UNCHANGED <<partial, worker, received>>
    BY <1>9 DEF Blocked
  <2>2. StartedStay
    BY <1>3, <2>1, FlagStays
  <2> QED
    BY <1>1, <2>1, <2>2, StayBoth
<1>10. CASE SendSome(p)
  <2>1. /\ frames' = [frames EXCEPT ![p].attempted = TRUE, ![p].started = TRUE, ![p].late = FALSE]
        /\ partial' = IF p \in Special THEN [partial EXCEPT ![f.target] = p] ELSE partial
        /\ Receives(f.target, p, FALSE) /\ IsCurrent(f.target, f.generation)
    BY <1>10 DEF SendSome, MaySend
  <2>2. /\ DOMAIN frames' = DOMAIN frames
        /\ frames'[p].started /\ frames'[p].target = t /\ frames'[p].generation = f.generation
        /\ \A q \in DOMAIN frames \ {p} : frames'[q] = frames[q]
    BY <1>3, <1>4, <2>1 DEF Frame, FramesOK
  <2>3. OneStarted'
    <3>1. /\ partial \in [Targets -> Special \cup {NoPlace}]
          /\ \A q, r \in DOMAIN frames :
               frames[q].started /\ frames[r].started /\ frames[q].target = frames[r].target => q = r
          /\ \A q \in Special \cap DOMAIN frames : frames[q].started => partial[frames[q].target] = q
      BY DEF OneStarted
    <3>2. partial' \in [Targets -> Special \cup {NoPlace}]
      BY <1>3, <2>1, <3>1
    <3>3. \A q, r \in DOMAIN frames' :
            frames'[q].started /\ frames'[r].started /\ frames'[q].target = frames'[r].target => q = r
      BY <1>3, <2>2, <3>1
    <3>4. ASSUME NEW q \in Special \cap DOMAIN frames', frames'[q].started
          PROVE  partial'[frames'[q].target] = q
      <4>1. CASE q = p
        BY <1>3, <2>1, <2>2, <3>1, <4>1
      <4>2. CASE q # p
        <5>1. q \in DOMAIN frames /\ frames'[q] = frames[q]
          BY <2>2, <4>2
        <5>2. frames[q].target # t
          BY <1>3, <3>4, <4>2, <5>1
        <5>3. partial'[frames[q].target] = partial[frames[q].target]
          BY <1>3, <2>1, <3>1, <5>2
        <5> QED
          BY <3>1, <3>4, <5>1, <5>3
      <4> QED
        BY <4>1, <4>2
    <3> QED
      BY <3>2, <3>3, <3>4 DEF OneStarted
  <2>4. \A u \in TcpTargets \ {t} : UnderWay(u)' = UnderWay(u)
    BY <1>1, <1>3, <2>2 DEF UnderWay
  <2>5. t \in TcpTargets => p \in UnderWay(t)'
    BY <1>1, <1>3, <2>1, <2>2 DEF UnderWay, IsCurrent
  <2>6. t \in TcpTargets => \/ received[t].state = "boundary"
                            \/ received[t].state = "open" /\ received[t].place = p
    BY <1>1, <1>3, <2>1, Follows
  <2>7. Receives(t, p, FALSE)
    BY <1>3, <2>1
  <2> QED
    BY <1>1, <1>4, <2>3, <2>4, <2>5, <2>6, <2>7, ReceivesStream
<1>11. CASE SendAll(p)
  <2>1. /\ Dropped({p}, TRUE) /\ Receives(f.target, p, TRUE) /\ IsCurrent(f.target, f.generation)
    BY <1>11 DEF SendAll, MaySend
  <2>2. /\ DOMAIN frames' = DOMAIN frames \ {p}
        /\ \A q \in DOMAIN frames' : frames'[q] = frames[q]
    BY <1>4, <2>1, DroppedIs
  <2>3. OneStarted'
    BY <1>4, <2>1, DroppedStarted
  <2>4. \A u \in TcpTargets \ {t} : UnderWay(u)' = UnderWay(u)
    BY <1>1, <1>3, <2>2 DEF UnderWay
  <2>5. UnderWay(t)' = {}
    BY <1>1, <1>3, <2>2 DEF UnderWay
  <2>6. t \in TcpTargets => \/ received[t].state = "boundary"
                            \/ received[t].state = "open" /\ received[t].place = p
    BY <1>1, <1>3, <2>1, Follows
  <2>7. Receives(t, p, TRUE)
    BY <1>3, <2>1
  <2> QED
    BY <1>1, <1>4, <2>3, <2>4, <2>5, <2>6, <2>7, ReceivesStream
<1> QED
  BY <1>2, <1>5, <1>6, <1>7, <1>8, <1>9, <1>10, <1>11

\* A link that opens starts with an empty stream: no frame is of its generation.
LEMMA OpensStream ==
  ASSUME DeviceOK, FramesOK, StreamOK, NEW t \in Targets, LinkOpens(t)
  PROVE  StreamOK'
<1>1. /\ links' = [links EXCEPT ![t] = [generation |-> @.generation + 1, open |-> TRUE]]
      /\ received' = [received EXCEPT ![t] = [state |-> "boundary", place |-> NoPlace]]
      /\ UNCHANGED <<frames, worker>>
  BY DEF LinkOpens, deviceFrame, queueVars
<1>2. links \in [Targets -> [generation : Nat \ {0}, open : BOOLEAN]]
  BY DEF DeviceOK, LinkTable
<1>3. links'[t].generation = links[t].generation + 1 /\ links[t].generation \in Nat
      /\ \A u \in Targets \ {t} : links'[u] = links[u]
  BY <1>1, <1>2
<1>4. UnderWay(t)' = {}
  <2>1. \A p \in DOMAIN frames : frames[p].target = t => frames[p].generation \in 1..links[t].generation
    BY DEF FramesOK
  <2>2. \A p \in DOMAIN frames : frames[p].target = t => frames[p].generation # links'[t].generation
    BY <1>3, <2>1
  <2> QED
    BY <1>1, <2>2 DEF UnderWay
<1>5. \A u \in Targets \ {t} : UnderWay(u)' = UnderWay(u) /\ (Closing(u) => Closing(u)')
                               /\ received'[u] = received[u]
  BY <1>1, <1>3 DEF UnderWay, Closing, StreamOK
<1>6. received \in [Targets -> [state : {"boundary", "open", "cut", "garbled"},
                                place : Place \cup {NoPlace}]]
  BY DEF StreamOK
<1>7. received' \in [Targets -> [state : {"boundary", "open", "cut", "garbled"},
                                 place : Place \cup {NoPlace}]]
  BY <1>1, <1>6
<1>8. received'[t].state = "boundary"
  BY <1>1, <1>6
<1>9. ASSUME NEW u \in TcpTargets
      PROVE  \/ received'[u].state = "open" /\ received'[u].place \in UnderWay(u)'
             \/ received'[u].state = "boundary" /\ UnderWay(u)' = {}
             \/ received'[u].state = "cut" /\ UnderWay(u)' = {} /\ (links'[u].open => Closing(u)')
  <2>1. \/ received[u].state = "open" /\ received[u].place \in UnderWay(u)
        \/ received[u].state = "boundary" /\ UnderWay(u) = {}
        \/ received[u].state = "cut" /\ UnderWay(u) = {} /\ (links[u].open => Closing(u))
    BY DEF StreamOK
  <2>2. CASE u = t
    BY <1>4, <1>8, <2>2
  <2>3. CASE u # t
    <3>1. u \in Targets \ {t}
      BY <2>3, TargetTypes
    <3>2. UnderWay(u)' = UnderWay(u) /\ (Closing(u) => Closing(u)') /\ received'[u] = received[u]
          /\ links'[u] = links[u]
      BY <1>3, <1>5, <3>1
    <3> QED
      BY <2>1, <3>2
  <2> QED
    BY <2>2, <2>3
<1> QED
  BY <1>7, <1>9 DEF StreamOK

LEMMA DeviceStream ==
  ASSUME DeviceOK, FramesOK, OneStarted, StreamOK, Device
  PROVE  OneStarted' /\ StreamOK'
<1>1. UNCHANGED <<frames, partial, worker>>
  BY DEF Device, OwnerBegins, LinkCloses, LinkOpens, OwnerReady, OwnerReleases, OwnerEnds, VmReset,
         Pause, deviceFrame, queueVars, specialVars
<1>2. StartedStay
  BY <1>1, SameStays
<1>3. OneStarted'
  BY <1>1, <1>2, StayStarted
<1>4. links \in [Targets -> [generation : Nat \ {0}, open : BOOLEAN]]
  BY DEF DeviceOK, LinkTable
<1>5. ASSUME NEW t \in budget.targets, LinkOpens(t) PROVE StreamOK'
  <2>1. budget.targets \in SUBSET Targets
    BY DEF DeviceOK, Budget
  <2>2. t \in Targets
    BY <2>1
  <2> QED
    BY <1>5, <2>2, OpensStream
<1>6. ASSUME NEW t \in budget.targets, LinkCloses(t) PROVE StreamOK'
  <2>1. links' = [links EXCEPT ![t].open = FALSE] /\ UNCHANGED received
    BY <1>6 DEF LinkCloses
  <2>2. \A u \in Targets : /\ links'[u].generation = links[u].generation
                           /\ links'[u].open => links[u].open
    BY <1>4, <2>1
  <2>3. \A u \in TcpTargets : /\ links'[u].generation = links[u].generation
                              /\ links'[u].open => links[u].open
                              /\ links'[u].open /\ Closing(u) => Closing(u)'
    BY <1>1, <2>2, TargetTypes DEF Closing
  <2> QED
    BY <1>2, <2>1, <2>3, StayStream
<1>7. CASE (\E t \in budget.targets : OwnerBegins(t)) \/ OwnerReady \/ OwnerReleases \/ OwnerEnds
           \/ VmReset \/ Pause
  <2>1. UNCHANGED <<links, received>>
    BY <1>7 DEF OwnerBegins, OwnerReady, OwnerReleases, OwnerEnds, VmReset, Pause
  <2> QED
    BY <1>1, <1>2, <2>1, StayBoth
<1> QED
  BY <1>3, <1>5, <1>6, <1>7 DEF Device

\* Every step keeps the frames under way in order and what the TCP peers receive whole.
LEMMA StreamStep ==
  ASSUME DeviceOK, FramesOK, CountsOK, OneStarted, StreamOK, [MuxNext]_muxVars
  PROVE  OneStarted' /\ StreamOK'
<1> USE DEF queueVars, specialVars, deviceVars
<1> DEFINE Right == OneStarted' /\ StreamOK'
<1>1. ASSUME NEW t \in budget.targets, NEW kind \in budget.kinds, Submit(t, kind) PROVE Right
  <2>1. PICK p, f : NormalStored(t, p, f)
    BY <1>1, SubmitEffect
  <2>2. p \in Place /\ p \notin DOMAIN frames /\ Fresh(f) /\ Stored(p, f)
    BY <2>1, PlaceTypes DEF NormalStored
  <2>3. StartedStay
    BY <2>2, StoredStays
  <2>4. UNCHANGED <<partial, received, links, worker>>
    BY <1>1 DEF Submit
  <2> QED
    BY <2>3, <2>4, StayBoth
<1>2. ASSUME SubmitLarge \/ SubmitPreview PROVE Right
  <2>1. PICK p, f : SpecialStored(p, f)
    BY <1>2, LargeEffect, PreviewEffect
  <2>2. p \in Place /\ (p \in DOMAIN frames => ~frames[p].started) /\ Fresh(f) /\ Stored(p, f)
    BY <2>1, PlaceTypes DEF SpecialStored
  <2>3. StartedStay
    BY <2>2, StoredStays
  <2>4. UNCHANGED <<partial, received, links, worker>>
    BY <1>2 DEF SubmitLarge, SubmitPreview
  <2> QED
    BY <2>3, <2>4, StayBoth
<1>3. CASE Publish
  <2>1. UNCHANGED <<partial, received, links, worker>>
    BY <1>3 DEF Publish
  <2> QED
    BY <1>3, <2>1, PublishStays, StayBoth
<1>4. ASSUME NEW t, NEW enable, Subscribe(t, enable) PROVE Right
  <2>1. UNCHANGED <<frames, partial, received, links, worker>>
    BY <1>4 DEF Subscribe
  <2> QED
    BY <2>1, SameStays, StayBoth
<1>5. ASSUME NEW t \in Targets, NEW locked, Expire(t, locked) PROVE Right
  <2>1. PICK p \in Seen(t, locked) : ~frames[p].started /\ Dropped({p}, FALSE)
    BY <1>5 DEF Expire
  <2>2. p \in DOMAIN frames /\ worker = Visiting /\ UNCHANGED links
    BY <1>5 DEF Expire, Seen
  <2>3. {p} \in SUBSET DOMAIN frames
    BY <2>2
  <2> QED
    BY <2>1, <2>2, <2>3, DroppedStarted, CutStream
<1>6. CASE LinkLost
  <2>1. UNCHANGED <<frames, partial, received, links>> /\ worker' = [worker EXCEPT !.at = "close"]
        /\ worker.at = "fail"
    BY <1>6 DEF LinkLost
  <2>2. worker \in WorkerType
    BY DEF DeviceOK
  <2>3. worker'.at # "visit" /\ worker'.close = worker.close /\ worker'.target = worker.target
        /\ worker'.generation = worker.generation
    BY <2>1, <2>2 DEF WorkerType
  <2>4. \A u \in TcpTargets : /\ links'[u].generation = links[u].generation
                              /\ links'[u].open => links[u].open
                              /\ links'[u].open /\ Closing(u) => Closing(u)'
    BY <2>1, <2>3 DEF Closing
  <2>5. StartedStay
    BY <2>1, SameStays
  <2> QED
    BY <2>1, <2>4, <2>5, StayStarted, StayStream
<1>7. CASE CloseLink
  <2>1. /\ UNCHANGED <<frames, partial, received>>
        /\ links' = IF worker.close /\ IsCurrent(worker.target, worker.generation)
                      THEN [links EXCEPT ![worker.target].open = FALSE] ELSE links
    BY <1>7 DEF CloseLink
  <2>2. links \in [Targets -> [generation : Nat \ {0}, open : BOOLEAN]]
    BY DEF DeviceOK, LinkTable
  <2>3. \A u \in Targets : /\ links'[u].generation = links[u].generation
                           /\ links'[u].open => links[u].open
    BY <2>1, <2>2
  <2>4. ASSUME NEW u \in TcpTargets, Closing(u) PROVE ~links'[u].open
    <3>1. u \in Targets /\ worker.close /\ worker.target = u /\ worker.generation = links[u].generation
      BY <2>4, TargetTypes DEF Closing
    <3>2. CASE links[u].open
      <4>1. links[u] = [generation |-> worker.generation, open |-> TRUE]
        BY <2>2, <3>1, <3>2
      <4>2. links' = [links EXCEPT ![u].open = FALSE]
        BY <2>1, <3>1, <4>1 DEF IsCurrent
      <4> QED
        BY <2>2, <3>1, <4>2
    <3>3. CASE ~links[u].open
      BY <2>3, <3>1, <3>3
    <3> QED
      BY <3>2, <3>3
  <2>5. \A u \in TcpTargets : /\ links'[u].generation = links[u].generation
                              /\ links'[u].open => links[u].open
                              /\ links'[u].open /\ Closing(u) => Closing(u)'
    BY <2>3, <2>4, TargetTypes
  <2>6. StartedStay
    BY <2>1, SameStays
  <2> QED
    BY <2>1, <2>5, <2>6, StayStarted, StayStream
<1>8. ASSUME NEW c, NEW q, CancelQueue(c, q) PROVE Right
  <2> DEFINE places == IF q = SpecialFrames THEN Special ELSE NormalPlaces(q)
             gone == {p \in places \cap DOMAIN frames : Matches(c, frames[p]) /\ ~frames[p].started}
  <2>0. Dropped(gone, FALSE)
    BY <1>8 DEF CancelQueue
  <2>9. gone \in SUBSET DOMAIN frames /\ \A p \in gone : ~frames[p].started
    OBVIOUS
  <2> HIDE DEF gone
  <2>1. PICK P \in SUBSET DOMAIN frames : Dropped(P, FALSE) /\ \A p \in P : ~frames[p].started
    BY <2>0, <2>9
  <2>2. UNCHANGED <<links, worker>>
    BY <1>8 DEF CancelQueue
  <2>3. OneStarted' /\ StartedStay /\ UNCHANGED received
    BY <2>1, DroppedStarted, WaitingDropped
  <2>4. \A u \in TcpTargets : /\ links'[u].generation = links[u].generation
                              /\ links'[u].open => links[u].open
                              /\ links'[u].open /\ Closing(u) => Closing(u)'
    BY <2>2 DEF Closing
  <2> QED
    BY <2>3, <2>4, StayStream
<1>9. ASSUME NEW c, NEW q, CancelBusy(c, q) PROVE Right
  <2>1. UNCHANGED <<frames, partial, received, links, worker>>
    BY <1>9 DEF CancelBusy
  <2> QED
    BY <2>1, SameStays, StayBoth
<1>10. CASE Clock
  <2>1. PICK p \in DOMAIN frames : \/ frames' = [frames EXCEPT ![p].late = TRUE]
                                   \/ frames' = [frames EXCEPT ![p].overdue = TRUE]
    BY <1>10 DEF Clock, Age, Overdue
  <2>2. UNCHANGED <<partial, received, links, worker>>
    BY <1>10 DEF Clock, Age, Overdue
  <2> QED
    BY <2>1, <2>2, FlagStays, StayBoth
<1>11. CASE UNCHANGED muxVars
  <2>1. UNCHANGED <<frames, partial, received, links, worker>>
    BY <1>11 DEF muxVars
  <2> QED
    BY <2>1, SameStays, StayBoth
<1>12. CASE Producer
  BY <1>1, <1>2, <1>3, <1>4, <1>12 DEF Producer
<1>13. CASE Worker
  BY <1>5, <1>6, <1>7, <1>13, VisitStream DEF Worker
<1>14. CASE Canceller
  BY <1>8, <1>9, <1>14 DEF Canceller
<1>15. CASE Device
  BY <1>15, DeviceStream
<1> QED
  BY <1>10, <1>11, <1>12, <1>13, <1>14, <1>15 DEF MuxNext

(***************************************************************************)
(* The invariant.                                                          *)
(***************************************************************************)
LEMMA InvInit ==
  ASSUME MuxInit
  PROVE  MuxIInv
<1>1. /\ DOMAIN frames = {}
      /\ order = [t \in Targets |-> <<>>]
      /\ used = [t \in Targets |-> [frames |-> 0, bytes |-> 0]]
      /\ freeBlocks = [a \in Arenas |-> 1..BlockCount]
      /\ quota = [k \in {"all", "discovery", "low"} |-> [frames |-> 0, bytes |-> 0]]
  <2>1. frames = <<>>
    BY Zenon DEF MuxInit
  <2>2. DOMAIN frames = {}
    BY <2>1
  <2>3. /\ order = [t \in Targets |-> <<>>]
        /\ used = [t \in Targets |-> [frames |-> 0, bytes |-> 0]]
        /\ freeBlocks = [a \in Arenas |-> 1..BlockCount]
        /\ quota = [k \in {"all", "discovery", "low"} |-> [frames |-> 0, bytes |-> 0]]
    BY Zenon DEF MuxInit
  <2> QED
    BY <2>2, <2>3, Zenon
<1>2. DeviceOK
  <2>1. links \in LinkTable
    <3>1. links = [t \in Targets |-> [generation |-> 1, open |-> TRUE]]
      BY DEF MuxInit
    <3> QED
      BY <3>1 DEF LinkTable
  <2>2. epoch \in Nat /\ owner \in OwnerType /\ owner.id = 0 /\ ~owner.held /\ owner.ready = "not yet"
    <3>1. epoch = 1
      BY Zenon DEF MuxInit
    <3>2. owner = [id |-> 0, target |-> 0, generation |-> 0, held |-> FALSE, ready |-> "not yet"]
      BY Zenon DEF MuxInit
    <3>3. owner \in OwnerType /\ owner.id = 0 /\ ~owner.held /\ owner.ready = "not yet"
      <4>1. owner \in OwnerType
        <5>1. 0 \in Nat /\ 0 \in Int /\ FALSE \in BOOLEAN
          OBVIOUS
        <5> QED
          BY ONLY <3>2, <5>1, Zenon DEF OwnerType
      <4>2. owner.id = 0 /\ owner.held = FALSE /\ owner.ready = "not yet"
        BY <3>2
      <4> QED
        BY <4>1, <4>2
    <3> QED
      BY <3>1, <3>3
  <2>3. worker \in WorkerType
    <3>1. worker = Visiting
      BY Zenon DEF MuxInit
    <3> QED
      BY <3>1 DEF WorkerType, Visiting
  <2>4. observers \in [TcpTargets -> Nat]
    BY DEF MuxInit
  <2>5. preview \in PreviewType
    <3>1. preview = [pending |-> 0, active |-> 0]
      BY Zenon DEF MuxInit
    <3> QED
      BY <3>1 DEF PreviewType
  <2>6. budget \in Budget
    BY MuxAssumption DEF MuxInit, Budget
  <2> QED
    BY <2>1, <2>2, <2>3, <2>4, <2>5, <2>6 DEF DeviceOK
<1>3. FramesOK
  BY <1>1 DEF FramesOK
<1>4. OrderOK
  <2>1. \A t \in Targets : order[t] = <<>> /\ ToSet(order[t]) = {}
    BY <1>1 DEF ToSet
  <2>2. order \in [Targets -> Seq(Place)]
    BY <1>1
  <2> QED
    BY <1>1, <2>1, <2>2 DEF OrderOK
<1>5. CountsOK
  <2>1. \A T : Queued(frames, T) = {}
    BY <1>1 DEF Queued
  <2>2. Count(frames, {}) = [frames |-> 0, bytes |-> 0]
    BY CountNone
  <2>3. [frames |-> 0, bytes |-> 0] \in Share
    BY MuxAssumption DEF Share
  <2>4. used \in [Targets -> Share] /\ quota \in [{"all", "discovery", "low"} -> Share]
        /\ freeBlocks \in [Arenas -> SUBSET (1..BlockCount)]
    BY <1>1, <2>3
  <2>5. UsedBy(frames, used)
    BY <1>1, <2>1, <2>2 DEF UsedBy
  <2>6. SharedBy(frames, quota)
    <3>1. DiscoveryOf(frames, {}) = {} /\ LowOf(frames, {}) = {}
      BY DEF DiscoveryOf, LowOf
    <3>2. quota = [all |-> [frames |-> 0, bytes |-> 0], discovery |-> [frames |-> 0, bytes |-> 0],
                   low |-> [frames |-> 0, bytes |-> 0]]
      BY <1>1
    <3> QED
      BY <2>1, <2>2, <3>1, <3>2 DEF SharedBy
  <2>7. FreeBy(frames, freeBlocks)
    BY <1>1, <2>1 DEF FreeBy
  <2> QED
    BY <2>4, <2>5, <2>6, <2>7, AccountedIs DEF CountsOK
<1>6. BuffersOK
  BY <1>1 DEF BuffersOK
<1>7. OneStarted
  <2>1. partial = [t \in Targets |-> NoPlace]
    BY DEF MuxInit
  <2> QED
    BY <1>1, <2>1 DEF OneStarted
<1>8. StreamOK
  <2>1. received = [t \in Targets |-> [state |-> "boundary", place |-> NoPlace]]
    BY DEF MuxInit
  <2>2. \A t \in TcpTargets : received[t].state = "boundary"
    BY <2>1, TargetTypes
  <2>3. \A t \in TcpTargets : UnderWay(t) = {}
    BY <1>1 DEF UnderWay
  <2>4. received \in [Targets -> [state : {"boundary", "open", "cut", "garbled"},
                                  place : Place \cup {NoPlace}]]
    BY <2>1
  <2> QED
    BY <2>2, <2>3, <2>4 DEF StreamOK
<1> QED
  BY <1>2, <1>3, <1>4, <1>5, <1>6, <1>7, <1>8 DEF MuxIInv

LEMMA InvStep ==
  ASSUME MuxIInv, [MuxNext]_muxVars
  PROVE  MuxIInv'
<1>1. DeviceOK /\ FramesOK /\ OrderOK /\ CountsOK /\ BuffersOK /\ OneStarted /\ StreamOK
  BY DEF MuxIInv
<1>2. Effect /\ DeviceOK' /\ Onward
  BY <1>1, StepEffect
<1>3. FramesOK'
  BY <1>1, <1>2, FramesStep
<1>4. OrderOK'
  BY <1>1, <1>2, OrderStep
<1>5. CountsOK'
  BY <1>1, <1>2, CountsStep
<1>6. BuffersOK'
  BY <1>1, <1>2, BuffersStep
<1>7. OneStarted' /\ StreamOK'
  BY <1>1, StreamStep
<1> QED
  BY <1>2, <1>3, <1>4, <1>5, <1>6, <1>7 DEF MuxIInv

LEMMA InvMeans ==
  ASSUME MuxIInv
  PROVE  MuxInv /\ StreamIsWhole /\ BufferHolds
<1>1. DeviceOK /\ FramesOK /\ OrderOK /\ CountsOK /\ BuffersOK /\ OneStarted /\ StreamOK
  BY DEF MuxIInv
<1>2. \A p \in DOMAIN frames :
        /\ frames[p].target \in Targets
        /\ frames[p].generation \in 1..links[frames[p].target].generation
        /\ frames[p].session \in 0..owner.id /\ frames[p].class \in Class
        /\ frames[p].blocks \subseteq 1..BlockCount /\ frames[p].epoch \in 0..epoch
  <2> SUFFICES ASSUME NEW p \in DOMAIN frames
               PROVE  /\ frames[p].target \in Targets
                      /\ frames[p].generation \in 1..links[frames[p].target].generation
                      /\ frames[p].session \in 0..owner.id /\ frames[p].class \in Class
                      /\ frames[p].blocks \subseteq 1..BlockCount /\ frames[p].epoch \in 0..epoch
    OBVIOUS
  <2>1. /\ frames[p].generation \in 1..links[frames[p].target].generation
        /\ frames[p].session <= owner.id /\ frames[p].epoch <= epoch
    BY <1>1 DEF FramesOK
  <2>2. /\ frames[p].target \in Targets /\ frames[p].class \in Class
        /\ frames[p].blocks \subseteq 1..BlockCount
        /\ frames[p].session \in Nat /\ frames[p].epoch \in Nat
    <3>1. frames[p] \in Frame
      BY <1>1 DEF FramesOK
    <3> QED
      BY <3>1, FrameFields
  <2>3. owner.id \in Nat /\ epoch \in Nat
    BY <1>1 DEF DeviceOK, OwnerType
  <2>4. frames[p].session \in 0..owner.id /\ frames[p].epoch \in 0..epoch
    BY <2>1, <2>2, <2>3
  <2> QED
    BY <2>1, <2>2, <2>4
<1>3. MuxTypeOK
  BY <1>1, <1>2 DEF MuxTypeOK, FramesOK, OrderOK, CountsOK, DeviceOK, PreviewType, OneStarted
<1>4. MuxInv
  BY <1>1, <1>3 DEF MuxInv, CountsOK
<1>5. StreamIsWhole
  BY <1>1 DEF StreamIsWhole, StreamOK
<1>6. BufferHolds
  BY <1>1 DEF BufferHolds, BuffersOK
<1> QED
  BY <1>4, <1>5, <1>6

LEMMA InvAlways == MuxSpec => []MuxIInv
<1>1. MuxInit => MuxIInv
  BY InvInit
<1>2. MuxIInv /\ [MuxNext]_muxVars => MuxIInv'
  BY InvStep
<1> QED
  BY <1>1, <1>2, PTL DEF MuxSpec

(***************************************************************************)
(* The theorems.                                                           *)
(***************************************************************************)
\* Whatever ends a frame (sent, stale, late, failed, cancelled, replaced), the counters of
\* the queues, the quota that the TCP targets share and the block bitmaps say what the
\* frames in use hold, no block belongs to two frames and no limit is passed.
THEOREM TransmitAccounted == MuxSpec => []MuxInv
<1>1. MuxIInv => MuxInv
  BY InvMeans
<1> QED
  BY <1>1, InvAlways, PTL

\* Frames never interleave on a TCP link, and after a frame that was cut short nothing is
\* written before the link is closed (ev_mux_process_target, ev_mux_fail_session).
THEOREM TransmitWhole == MuxSpec => []StreamIsWhole
<1>1. MuxIInv => StreamIsWhole
  BY InvMeans
<1> QED
  BY <1>1, InvAlways, PTL

\* The buffer of a special frame is not written while a frame in use refers to it, however
\* previews are replaced and published (ev_mux_submit_special,
\* ev_mux_preview_publish_observers).
THEOREM TransmitBuffers == MuxSpec => []BufferHolds
<1>1. MuxIInv => BufferHolds
  BY InvMeans
<1> QED
  BY <1>1, InvAlways, PTL
=============================================================================
