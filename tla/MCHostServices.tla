--------------------------- MODULE MCHostServices ---------------------------
(***************************************************************************)
(* File upload and the network service side by side, for TLC.  They share  *)
(* no variable: the initial state chooses the one that moves, and the      *)
(* state space is the sum of theirs.                                       *)
(***************************************************************************)
EXTENDS FileTransfer, NetworkService

VARIABLE service

servicesVars == <<vars, netVars, service>>

ServicesInit ==
  /\ service \in {"upload", "network"}
  /\ Init /\ NetworkInit
  /\ service = "network" => disk[Target] = Absent
  \* Nothing tells one network from another: the stored one is network 1.
  /\ IF service = "network" THEN config.profile \in {NoProfile, 1} ELSE config = NoRecord

UploadMoves == service = "upload" /\ Next /\ UNCHANGED <<netVars, service>>
NetworkMoves == service = "network" /\ NetworkNext /\ UNCHANGED <<vars, service>>

\* Fairness and NetworkFairness, each for the service that moves.
ServicesFairness ==
  /\ WF_vars(service = "upload" /\ Continue)
  /\ WF_vars(service = "upload" /\ Wait)
  /\ WF_vars(service = "upload" /\ Poll)
  /\ WF_netVars(service = "network" /\ WorkerStep)
  /\ WF_netVars(service = "network" /\ Release)

\* The upload and its gate agree; the owner's operations and Python keep out of each other's way.
ServicesInv == UploadInv /\ NetworkInv

ServicesSpec == ServicesInit /\ [][UploadMoves \/ NetworkMoves]_servicesVars /\ ServicesFairness
=============================================================================
