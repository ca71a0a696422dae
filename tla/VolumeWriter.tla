---------------------------- MODULE VolumeWriter ----------------------------
(***************************************************************************)
(* What the gate, the drain and the NVS record of a storage volume promise *)
(* together (platform/storage_writer_gate.h, storage_writer_msc.c): the    *)
(* volume changes hands only through nobody's, after everybody who was     *)
(* using it has stopped; once it was leased it has one writer at a time; a *)
(* power failure while it is somebody's leaves it his, except that a lease *)
(* is not resumed.                                                         *)
(***************************************************************************)
CONSTANT Fallible  \* whether a start may be unable to read the record

VARIABLES
  mode,     \* "shared" until the first lease; "leased"; "quarantined"
  allowed,  \* who may begin to use the volume
  busy      \* who is using it: data in flight or not synchronised, a file open

vars == <<mode, allowed, busy>>

Host == "host"
Device == "device"
Writers == {Host, Device}

Init ==
  /\ mode = "shared"
  /\ allowed = Writers
  /\ busy = {}

Begin(w) ==
  /\ w \in allowed
  /\ busy' = busy \cup {w}
  /\ UNCHANGED <<mode, allowed>>

End(w) ==
  /\ busy' = busy \ {w}
  /\ UNCHANGED <<mode, allowed>>

\* A transition begins: nobody may begin to use the volume any more.
Close ==
  /\ allowed' = {}
  /\ UNCHANGED <<mode, busy>>

Settled == allowed = {} /\ busy = {}

\* The host ejects or loads a volume that was never leased.
Share ==
  /\ Settled /\ mode = "shared"
  /\ allowed' \in {{Device}, Writers}
  /\ UNCHANGED <<mode, busy>>

\* The host ejects or loads any other.
HandOver ==
  /\ Settled /\ mode = "managed"
  /\ allowed' \in {{Device}, {Host}}
  /\ UNCHANGED <<mode, busy>>

Lease ==
  /\ Settled /\ mode \in {"shared", "managed"}
  /\ mode' = "leased"
  /\ allowed' = {Device}
  /\ UNCHANGED busy

\* The end of a lease does not give the volume to the host: the host loads it.
GiveBack ==
  /\ Settled /\ mode = "leased"
  /\ mode' = "managed"
  /\ allowed' = {Device}
  /\ UNCHANGED busy

Quarantine ==
  /\ mode' = "quarantined"
  /\ allowed' = {}
  /\ UNCHANGED busy

\* The power fails and the device starts again.  Who had the volume has it; in the
\* midst of a transition it is his who had it or who was to have it, or nobody's.
\* A lease that was not being released ends in quarantine.
Restart ==
  /\ busy' = {}
  /\ \/ /\ Fallible \/ allowed = {} \/ mode = "leased"
        /\ mode' = "quarantined" /\ allowed' = {}
     \/ /\ mode \in {"shared", "quarantined"}
        /\ mode' = "shared" /\ allowed' = Writers
     \/ /\ mode' = "managed" /\ allowed' \in {{Device}, {Host}}
        /\ \/ mode = "quarantined"
           \/ mode = "managed" /\ (allowed = {} \/ allowed' = allowed)
           \/ mode = "leased" /\ allowed = {} /\ allowed' = {Device}

Next ==
  \/ \E w \in Writers : Begin(w) \/ End(w)
  \/ Close \/ Share \/ HandOver \/ Lease \/ GiveBack
  \/ Quarantine \/ Restart

Spec == Init /\ [][Next]_vars
=============================================================================
