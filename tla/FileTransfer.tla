---------------------------- MODULE FileTransfer ----------------------------
(***************************************************************************)
(* The upload of a file by the owner of the session                        *)
(* (platform/ev_file_transfer.c).  Chunks go to a staging file; a commit   *)
(* checks their digest and gives the staging file the target's name.       *)
(*                                                                         *)
(* Every handler holds s_lock from its first check to its return, so one   *)
(* runs at a time and "step" says how far it is.  What it shares with the  *)
(* rest is the session, which other tasks end at any moment, the target,   *)
(* which a script may create or remove between two calls of the file       *)
(* system, and the medium, which is all that a power failure leaves.  A    *)
(* call of the file system is atomic and may fail.  A request that is      *)
(* refused changes nothing and is no step.                                 *)
(***************************************************************************)
EXTENDS Naturals

CONSTANTS
  Ids,          \* upload ids a client may choose
  MaxChunks,    \* bound: chunks of a file
  MaxUploads,   \* bound: uploads begun
  MaxSessions,  \* bound: sessions
  MaxScripts,   \* bound: steps of scripts
  MaxCrashes    \* bound: power failures

ASSUME UploadAssumption == {MaxChunks, MaxUploads, MaxSessions, MaxScripts, MaxCrashes} \subseteq Nat

VARIABLES
  file,      \* s_file
  step,      \* how far the handler that holds s_lock is ("idle": none does)
  exists,    \* publish(): the target existed when it was examined
  admitted,  \* operations the volume's gate counts for the upload
  disk,      \* the medium: a content for each name
  session,   \* the owner's snapshot (0: nobody may upload)
  uploads, sessions, scripts, crashes,  \* how many so far
  displaced  \* history: whose backup holds what the target held

vars == <<file, step, exists, admitted, disk, session, uploads, sessions, scripts, crashes, displaced>>

(***************************************************************************)
(* Contents and names.                                                     *)
(***************************************************************************)
Absent == [kind |-> "absent"]
Old == [kind |-> "old"]
Directory == [kind |-> "directory"]
Scripted == [kind |-> "scripted"]
\* What a staging file holds: the chunks written, and whether they are the ones
\* the client took its digest of.
Staged(upload, total, chunks, sound) ==
  [kind |-> "staged", upload |-> upload, total |-> total, chunks |-> chunks, sound |-> sound]
StagedContents == {Staged(u, n, k, b) : u \in 1..MaxUploads, n \in 0..MaxChunks,
                                        k \in 0..MaxChunks, b \in BOOLEAN}
Content == {Absent, Old, Directory, Scripted} \cup StagedContents
WholeFiles == {c \in StagedContents : c.chunks = c.total /\ c.sound}

Target == <<"target">>
Temporary(id) == <<"temporary", id>>
Backup(id) == <<"backup", id>>
Name == {Target} \cup {Temporary(id) : id \in Ids} \cup {Backup(id) : id \in Ids}

NoId == 0
NoFile ==
  [active |-> FALSE, poisoned |-> FALSE, overwrite |-> FALSE, fd |-> FALSE, staged |-> FALSE,
   sound |-> TRUE, late |-> FALSE, owner |-> 0, id |-> NoId, upload |-> 0,
   total |-> 0, received |-> 0]
NotDisplaced == [id |-> NoId, upload |-> 0]

IsFree(name) == disk[name] = Absent
Moved(d, from, to) == [d EXCEPT ![to] = d[from], ![from] = Absent]
counters == <<uploads, sessions, scripts, crashes>>

(***************************************************************************)
(* discard(): the end of every upload.                                     *)
(***************************************************************************)
\* Mutant of Discard: a failed close gives the gate back all the same.
MDiscard(f, d) ==
  /\ step' = "idle"
  /\ \/ /\ f.poisoned \/ f.fd
        /\ file' = [f EXCEPT !.fd = FALSE, !.poisoned = TRUE]
        /\ disk' = d
        /\ admitted' = 0
     \/ /\ ~f.poisoned
        /\ file' = NoFile
        /\ admitted' = IF f.active THEN admitted - 1 ELSE admitted
        /\ \/ disk' = d
           \/ f.staged /\ disk' = [d EXCEPT ![Temporary(f.id)] = Absent]

\* A failed close leaves the upload poisoned, with the gate held, until the
\* device restarts; otherwise the staging file goes (if it can be unlinked) and
\* the gate is given back.
Discard(f, d) ==
  /\ step' = "idle"
  /\ \/ /\ f.poisoned \/ f.fd
        /\ file' = [f EXCEPT !.fd = FALSE, !.poisoned = TRUE]
        /\ disk' = d
        /\ UNCHANGED admitted
     \/ /\ ~f.poisoned
        /\ file' = NoFile
        /\ admitted' = IF f.active THEN admitted - 1 ELSE admitted
        /\ \/ disk' = d
           \/ f.staged /\ disk' = [d EXCEPT ![Temporary(f.id)] = Absent]

(***************************************************************************)
(* ev_file_transfer_begin                                                  *)
(***************************************************************************)
\* The requests of others wait, or are refused, while an upload is there.
Begin(id, overwrite, total) ==
  /\ step = "idle"
  /\ session # 0
  /\ ~file.active
  /\ uploads < MaxUploads
  /\ uploads' = uploads + 1
  /\ admitted' = admitted + 1
  /\ file' = [NoFile EXCEPT !.active = TRUE, !.owner = session, !.overwrite = overwrite,
                            !.total = total, !.id = id, !.upload = uploads + 1]
  /\ step' = "examine"
  /\ UNCHANGED <<exists, disk, session, sessions, scripts, crashes, displaced>>

\* The target must be absent, or a regular file that may be overwritten.
MayReplace == IsFree(Target) \/ (file.overwrite /\ disk[Target] # Directory)

BeginExamine ==
  /\ step = "examine"
  /\ \/ /\ MayReplace
        /\ step' = "open"
        /\ UNCHANGED <<file, admitted, disk>>
     \/ Discard(file, disk)
  /\ UNCHANGED <<exists, session, counters, displaced>>

\* Mutant of BeginOpen: the name of the staging file is kept when it was not created.
MBeginOpen ==
  /\ step = "open"
  /\ \/ /\ IsFree(Temporary(file.id))
        /\ disk' = [disk EXCEPT ![Temporary(file.id)] = Staged(file.upload, file.total, 0, TRUE)]
        /\ file' = [file EXCEPT !.fd = TRUE, !.staged = TRUE]
        /\ step' = "idle"
        /\ UNCHANGED admitted
     \/ Discard([file EXCEPT !.staged = TRUE], disk)
  /\ UNCHANGED <<exists, session, counters, displaced>>

\* open(O_EXCL): a staging file that is there already is somebody else's.  After the
\* open the set-up of the digest may still fail.
BeginOpen ==
  LET opened == [file EXCEPT !.fd = TRUE, !.staged = TRUE]
      created == [disk EXCEPT ![Temporary(file.id)] = Staged(file.upload, file.total, 0, TRUE)]
  IN
  /\ step = "open"
  /\ \/ /\ IsFree(Temporary(file.id))
        /\ disk' = created
        /\ file' = opened
        /\ step' = "idle"
        /\ UNCHANGED admitted
     \/ IsFree(Temporary(file.id)) /\ Discard(opened, created)
     \/ Discard(file, disk)
  /\ UNCHANGED <<exists, session, counters, displaced>>

(***************************************************************************)
(* ev_file_transfer_write                                                  *)
(***************************************************************************)
\* A request of the upload's owner, who still owns the session.
Authorized == step = "idle" /\ file.active /\ ~file.poisoned /\ file.owner = session

\* One chunk more, which is the client's or is not.
Joined(content, sound) == [content EXCEPT !.chunks = @ + 1, !.sound = @ /\ sound]

\* The chunk at offset "received" is written and joins the digest.
Write(sound) ==
  /\ Authorized
  /\ file.received < file.total
  /\ \/ /\ disk' = [disk EXCEPT ![Temporary(file.id)] = Joined(@, sound)]
        /\ file' = [file EXCEPT !.sound = @ /\ sound]
        /\ step' = "written"
        /\ UNCHANGED admitted
     \/ Discard(file, disk)
  /\ UNCHANGED <<exists, session, counters, displaced>>

\* The owner is checked again; the digest may have failed too.
WriteFinish ==
  /\ step = "written"
  /\ \/ /\ file.owner = session
        /\ file' = [file EXCEPT !.received = @ + 1, !.late = FALSE]
        /\ step' = "idle"
        /\ UNCHANGED <<admitted, disk>>
     \/ Discard(file, disk)
  /\ UNCHANGED <<exists, session, counters, displaced>>

(***************************************************************************)
(* ev_file_transfer_end and publish                                        *)
(***************************************************************************)
Abort ==
  /\ Authorized
  /\ Discard(file, disk)
  /\ UNCHANGED <<exists, session, counters, displaced>>

\* Mutant of Commit: the digest is not compared.
MCommit ==
  /\ Authorized
  /\ file.received = file.total
  /\ \/ /\ step' = "synced"
        /\ UNCHANGED <<file, admitted, disk>>
     \/ Discard(file, disk)
  /\ UNCHANGED <<exists, session, counters, displaced>>

\* All chunks are there: the digest is compared and the file synchronised.
Commit ==
  /\ Authorized
  /\ file.received = file.total
  /\ \/ /\ file.sound
        /\ step' = "synced"
        /\ UNCHANGED <<file, admitted, disk>>
     \/ Discard(file, disk)
  /\ UNCHANGED <<exists, session, counters, displaced>>

\* The last look at the session, then close(), which poisons when it fails.
CommitClose ==
  /\ step = "synced"
  /\ \/ /\ file.owner = session
        /\ file' = [file EXCEPT !.fd = FALSE]
        /\ step' = "publish"
        /\ UNCHANGED <<admitted, disk>>
     \/ /\ file.owner = session
        /\ Discard([file EXCEPT !.fd = FALSE, !.poisoned = TRUE], disk)
     \/ /\ file.owner # session
        /\ Discard(file, disk)
  /\ UNCHANGED <<exists, session, counters, displaced>>

PublishExamine ==
  /\ step = "publish"
  /\ \/ /\ MayReplace
        /\ exists' = ~IsFree(Target)
        /\ step' = "rename"
        /\ UNCHANGED <<file, admitted, disk>>
     \/ Discard(file, disk) /\ UNCHANGED exists
  /\ UNCHANGED <<session, counters, displaced>>

\* FatFS does not replace: the rename succeeds only onto a free name.  One that
\* fails because of a target that was there goes on with a backup.
PublishRename ==
  /\ step = "rename"
  /\ \/ /\ IsFree(Target)
        /\ Discard([file EXCEPT !.staged = FALSE], Moved(disk, Temporary(file.id), Target))
        /\ displaced' = NotDisplaced
     \/ /\ exists /\ ~IsFree(Target)
        /\ step' = "backup"
        /\ UNCHANGED <<file, admitted, disk, displaced>>
     \/ /\ Discard(file, disk)
        /\ UNCHANGED displaced
  /\ UNCHANGED <<exists, session, counters>>

PublishBackup ==
  /\ step = "backup"
  /\ \/ /\ IsFree(Backup(file.id)) /\ ~IsFree(Target)
        /\ disk' = Moved(disk, Target, Backup(file.id))
        /\ displaced' = [id |-> file.id, upload |-> file.upload]
        /\ step' = "swap"
        /\ UNCHANGED <<file, admitted>>
     \/ /\ Discard(file, disk)
        /\ UNCHANGED displaced
  /\ UNCHANGED <<exists, session, counters>>

\* Mutant of PublishSwap: the second rename's failure is reported at once.
MPublishSwap ==
  /\ step = "swap"
  /\ \/ /\ IsFree(Target)
        /\ disk' = Moved(disk, Temporary(file.id), Target)
        /\ file' = [file EXCEPT !.staged = FALSE]
        /\ displaced' = NotDisplaced
        /\ step' = "unlink"
        /\ UNCHANGED admitted
     \/ Discard(file, disk) /\ UNCHANGED displaced
  /\ UNCHANGED <<exists, session, counters>>

PublishSwap ==
  /\ step = "swap"
  /\ \/ /\ IsFree(Target)
        /\ disk' = Moved(disk, Temporary(file.id), Target)
        /\ file' = [file EXCEPT !.staged = FALSE]
        /\ displaced' = NotDisplaced
        /\ step' = "unlink"
     \/ /\ step' = "rollback"
        /\ UNCHANGED <<file, disk, displaced>>
  /\ UNCHANGED <<exists, admitted, session, counters>>

PublishRollback ==
  /\ step = "rollback"
  /\ \/ /\ IsFree(Target)
        /\ Discard(file, Moved(disk, Backup(file.id), Target))
        /\ displaced' = NotDisplaced
     \/ /\ Discard(file, disk)
        /\ UNCHANGED displaced
  /\ UNCHANGED <<exists, session, counters>>

\* The backup goes if it can be unlinked.
PublishUnlink ==
  /\ step = "unlink"
  /\ \/ Discard(file, disk)
     \/ Discard(file, [disk EXCEPT ![Backup(file.id)] = Absent])
  /\ UNCHANGED <<exists, session, counters, displaced>>

(***************************************************************************)
(* ev_file_transfer_poll, and everyone else.                               *)
(***************************************************************************)
\* Mutant of Poll: an upload whose owner stays is never too late.
MPoll ==
  /\ step = "idle"
  /\ file.active
  /\ file.owner # session
  /\ Discard(file, disk)
  /\ UNCHANGED <<exists, session, counters, displaced>>

Poll ==
  /\ step = "idle"
  /\ file.active
  /\ file.owner # session \/ file.late
  /\ Discard(file, disk)
  /\ UNCHANGED <<exists, session, counters, displaced>>

\* FILE_IDLE_MS have passed since the last chunk.
Wait ==
  /\ file.active /\ ~file.late
  /\ file' = [file EXCEPT !.late = TRUE]
  /\ UNCHANGED <<step, exists, admitted, disk, session, counters, displaced>>

\* The session ends, moves on (a VM epoch, an input generation), or begins.
SessionChange ==
  /\ \/ /\ session' = 0 /\ session # 0
        /\ UNCHANGED sessions
     \/ /\ sessions < MaxSessions
        /\ session' = sessions + 1
        /\ sessions' = sessions + 1
  /\ UNCHANGED <<file, step, exists, admitted, disk, uploads, scripts, crashes, displaced>>

\* A script, which the gate admits beside an upload, writes or removes the target.
Script ==
  /\ scripts < MaxScripts
  /\ scripts' = scripts + 1
  /\ \E c \in {Absent, Scripted} \ {disk[Target]} : disk' = [disk EXCEPT ![Target] = c]
  /\ displaced' = NotDisplaced
  /\ UNCHANGED <<file, step, exists, admitted, session, uploads, sessions, crashes>>

\* The power fails; the medium stays as the last call left it.
Crash ==
  /\ crashes < MaxCrashes
  /\ crashes' = crashes + 1
  /\ file' = NoFile
  /\ step' = "idle"
  /\ exists' = FALSE
  /\ admitted' = 0
  /\ session' = 0
  /\ UNCHANGED <<disk, uploads, sessions, scripts, displaced>>

Init ==
  /\ file = NoFile
  /\ step = "idle"
  /\ exists = FALSE
  /\ admitted = 0
  /\ \E c \in {Absent, Old, Directory} : disk = [n \in Name |-> IF n = Target THEN c ELSE Absent]
  /\ session = 0
  /\ uploads = 0 /\ sessions = 0 /\ scripts = 0 /\ crashes = 0
  /\ displaced = NotDisplaced

\* The steps a handler takes once it has begun.
Continue ==
  \/ BeginExamine \/ BeginOpen \/ WriteFinish
  \/ CommitClose \/ PublishExamine \/ PublishRename \/ PublishBackup
  \/ PublishSwap \/ PublishRollback \/ PublishUnlink

Next ==
  \/ \E id \in Ids, overwrite \in BOOLEAN, total \in 0..MaxChunks : Begin(id, overwrite, total)
  \/ \E sound \in BOOLEAN : Write(sound)
  \/ Abort \/ Commit
  \/ Continue
  \/ Poll \/ Wait
  \/ SessionChange \/ Script \/ Crash

Spec == Init /\ [][Next]_vars

\* A handler runs on, time passes, and the transport task polls every cycle.
Fairness == WF_vars(Continue) /\ WF_vars(Wait) /\ WF_vars(Poll)
FairSpec == Spec /\ Fairness

(***************************************************************************)
(* Properties.                                                             *)
(***************************************************************************)
\* Type correctness; the gate counts the upload that is there, no other.
TypeOK ==
  /\ file \in [active : BOOLEAN, poisoned : BOOLEAN, overwrite : BOOLEAN, fd : BOOLEAN,
               staged : BOOLEAN, sound : BOOLEAN, late : BOOLEAN, owner : Nat,
               id : Ids \cup {NoId}, upload : Nat, total : 0..MaxChunks, received : 0..MaxChunks]
  /\ step \in {"idle", "examine", "open", "written", "synced", "publish", "rename", "backup",
               "swap", "rollback", "unlink"}
  /\ exists \in BOOLEAN
  /\ admitted \in 0..1
  /\ disk \in [Name -> Content]
  /\ session \in Nat
  /\ uploads \in Nat /\ sessions \in Nat /\ scripts \in Nat /\ crashes \in Nat
  /\ displaced \in [id : Ids \cup {NoId}, upload : Nat]

\* The volume is not handed over under an upload, nor withheld after one: the
\* gate counts an operation exactly while an upload is there, and the file
\* descriptor, a handler at work and a descriptor whose close failed all belong
\* to one (the comment above discard).
GateFollowsUpload ==
  /\ file.active <=> admitted = 1
  /\ file.fd \/ file.poisoned \/ step # "idle" => file.active

\* Everything the handlers leave behind is typed, and the gate agrees with it.
UploadInv == TypeOK /\ GateFollowsUpload

\* What the target held can be found until a whole, checked upload has its name:
\* under the target's name, or under the backup that displaced it.
Found ==
  IF ~IsFree(Target) THEN disk[Target]
  ELSE IF displaced # NotDisplaced THEN disk[Backup(displaced.id)]
  ELSE Absent

Publishing == step \in {"publish", "rename", "backup", "swap", "rollback"}
BackedUp == step \in {"swap", "rollback"}

Published == INSTANCE PublishedFile
               WITH Initial <- {Absent, Old, Directory}, Whole <- WholeFiles,
                    Other <- {Absent, Scripted}, Nothing <- Absent,
                    content <- Found, scripts <- scripts,
                    checked <- IF Publishing THEN disk[Temporary(file.id)] ELSE Absent,
                    aside <- IF BackedUp THEN disk[Backup(file.id)] ELSE Absent

\* The target's content is replaced at once, by the upload that was checked, or
\* kept: whichever call of publish() fails, whenever the power fails, the owner
\* leaves or a script interferes.  One thing more may happen to a file that a
\* script writes and removes between the two renames: the rollback finds the name
\* free and puts the old content back.
ReplacesAtomically == Published!Spec

\* Only a rollback that fails, or a power failure, leaves the target without the
\* name that publish() took from it ("not a power-loss journal").
NameComesBack ==
  [][step # "idle" /\ step' = "idle" /\ displaced'.upload = file.upload =>
       step = "rollback" \/ crashes' # crashes]_vars

\* A staging file that another upload left is neither removed nor written
\* ("Never unlink a pre-existing staging file").
StagingIsOwn ==
  [][\A id \in Ids :
       LET c == disk[Temporary(id)]
       IN c # Absent /\ c.upload # file.upload => disk'[Temporary(id)] = c]_vars

\* An upload that is abandoned ends: its owner leaves, stalls or finishes, and
\* only a descriptor that cannot be closed stays.
UploadEnds == file.active ~> ~file.active \/ file.poisoned
=============================================================================
