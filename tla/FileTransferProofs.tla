-------------------------- MODULE FileTransferProofs --------------------------
(***************************************************************************)
(* Theorems about FileTransfer, for any upload ids and every value of the  *)
(* bounds, and about the upload and the network service side by side.      *)
(***************************************************************************)
EXTENDS MCHostServices, NetworkProofs, TLAPS

USE UploadAssumption

(***************************************************************************)
(* The inductive invariant.                                                *)
(***************************************************************************)
\* What a handler has established at each step, and keeps.
StepInv ==
  /\ file.active => file.id \in Ids /\ file.upload = uploads /\ uploads \in 1..MaxUploads
  /\ ~file.active => file = NoFile
  /\ file.poisoned => step = "idle"
  /\ step \in {"examine", "open"} =>
       ~file.fd /\ ~file.staged /\ file.sound /\ file.received = 0
  /\ step = "idle" /\ file.active /\ ~file.poisoned => file.staged
  /\ step = "written" => file.staged /\ file.received < file.total
  /\ step = "synced" \/ Publishing => file.staged /\ file.sound /\ file.received = file.total
  /\ Publishing \/ step = "unlink" => ~file.fd
  /\ step = "unlink" => ~file.staged

\* The chunks a client may hear of are in the staging file, and so is the one
\* whose write has not been answered.
Written == file.received + (IF step = "written" THEN 1 ELSE 0)
StagedInv ==
  file.staged /\ ~file.poisoned =>
    disk[Temporary(file.id)] = Staged(file.upload, file.total, Written, file.sound)

\* What publish() has set aside is under the backup's name, and the target's name
\* is free until something takes it.
BackupInv ==
  /\ BackedUp => ~IsFree(Backup(file.id))
  /\ displaced # NotDisplaced =>
       /\ IsFree(Target)
       /\ displaced.id \in Ids
       /\ displaced.upload \in 1..uploads
       /\ BackedUp => displaced.id = file.id
  /\ step = "unlink" => displaced = NotDisplaced
  /\ file.active /\ displaced.upload = file.upload => BackedUp

TransferInv == UploadInv /\ StepInv /\ StagedInv /\ BackupInv

(***************************************************************************)
(* Names and contents.                                                     *)
(***************************************************************************)
LEMMA NameFacts ==
  /\ Target \in Name
  /\ \A i \in Ids : /\ Temporary(i) \in Name /\ Backup(i) \in Name
                    /\ Temporary(i) # Target /\ Backup(i) # Target
  /\ \A i, j \in Ids : Temporary(i) # Backup(j)
  /\ \A i, j \in Ids : i # j => Temporary(i) # Temporary(j) /\ Backup(i) # Backup(j)
  BY DEF Name, Target, Temporary, Backup

LEMMA StagedType ==
  ASSUME NEW u \in 1..MaxUploads, NEW n \in 0..MaxChunks, NEW k \in 0..MaxChunks, NEW b \in BOOLEAN
  PROVE  Staged(u, n, k, b) \in StagedContents
  BY DEF StagedContents

LEMMA StagedFields ==
  ASSUME NEW u, NEW n, NEW k, NEW b
  PROVE  /\ Staged(u, n, k, b).upload = u /\ Staged(u, n, k, b).total = n
         /\ Staged(u, n, k, b).chunks = k /\ Staged(u, n, k, b).sound = b
         /\ Staged(u, n, k, b) \notin {Absent, Old, Directory, Scripted}
<1>1. /\ Staged(u, n, k, b).kind = "staged"
      /\ Staged(u, n, k, b).upload = u /\ Staged(u, n, k, b).total = n
      /\ Staged(u, n, k, b).chunks = k /\ Staged(u, n, k, b).sound = b
  BY DEF Staged
<1>2. /\ Absent.kind = "absent" /\ Old.kind = "old" /\ Directory.kind = "directory"
      /\ Scripted.kind = "scripted"
  BY DEF Absent, Old, Directory, Scripted
<1> QED
  BY <1>1, <1>2

LEMMA ContentFacts ==
  /\ {Absent, Old, Directory, Scripted} \subseteq Content /\ StagedContents \subseteq Content
  /\ Scripted # Absent
<1>1. Absent.kind = "absent" /\ Scripted.kind = "scripted"
  BY DEF Absent, Scripted
<1> QED
  BY <1>1 DEF Content

\* A chunk joins the content of a staging file.
LEMMA ChunkWritten ==
  ASSUME NEW u \in Nat, NEW n \in Nat, NEW k \in Nat, NEW b \in BOOLEAN, NEW sound \in BOOLEAN
  PROVE  Joined(Staged(u, n, k, b), sound) = Staged(u, n, k + 1, b /\ sound)
<1> DEFINE before == Staged(u, n, k, b)
           after == [before EXCEPT !.chunks = before.chunks + 1, !.sound = before.sound /\ sound]
           expected == Staged(u, n, k + 1, b /\ sound)
           Form == [kind : {"staged"}, upload : Nat, total : Nat, chunks : Nat, sound : BOOLEAN]
<1>1. before \in Form /\ expected \in Form
  BY DEF Staged
<1>2. /\ before.kind = "staged" /\ before.upload = u /\ before.total = n
      /\ before.chunks = k /\ before.sound = b
      /\ expected.kind = "staged" /\ expected.upload = u /\ expected.total = n
      /\ expected.chunks = k + 1 /\ expected.sound = (b /\ sound)
  BY DEF Staged
<1> HIDE DEF before, expected
<1>3. after \in Form
  BY <1>1, <1>2
<1>4. /\ after.kind = "staged" /\ after.upload = u /\ after.total = n
      /\ after.chunks = k + 1 /\ after.sound = (b /\ sound)
  BY <1>1, <1>2
<1> HIDE DEF after
<1>5. after = expected
  BY <1>1, <1>2, <1>3, <1>4
<1> QED
  BY <1>5, Zenon DEF Joined, after, before, expected

\* What a rename changes, and what it leaves.
LEMMA MovedFacts ==
  ASSUME disk \in [Name -> Content], NEW from \in Name, NEW to \in Name, from # to
  PROVE  /\ Moved(disk, from, to) \in [Name -> Content]
         /\ Moved(disk, from, to)[to] = disk[from] /\ Moved(disk, from, to)[from] = Absent
         /\ \A name \in Name \ {from, to} : Moved(disk, from, to)[name] = disk[name]
  BY ContentFacts DEF Moved

(***************************************************************************)
(* The end of an upload keeps the invariant, wherever it comes.            *)
(***************************************************************************)
FileType ==
  [active : BOOLEAN, poisoned : BOOLEAN, overwrite : BOOLEAN, fd : BOOLEAN,
   staged : BOOLEAN, sound : BOOLEAN, late : BOOLEAN, owner : Nat,
   id : Ids \cup {NoId}, upload : Nat, total : 0..MaxChunks, received : 0..MaxChunks]
StepType == {"idle", "examine", "open", "written", "synced", "publish", "rename", "backup",
             "swap", "rollback", "unlink"}
DisplacedType == [id : Ids \cup {NoId}, upload : Nat]
EnvType == /\ exists \in BOOLEAN /\ session \in Nat
           /\ uploads \in Nat /\ sessions \in Nat /\ scripts \in Nat /\ crashes \in Nat

Typed == /\ file \in FileType /\ step \in StepType /\ admitted \in 0..1
         /\ disk \in [Name -> Content] /\ displaced \in DisplacedType /\ EnvType

LEMMA TypeParts == (TypeOK <=> Typed) /\ (TypeOK' <=> Typed')
  BY DEF TypeOK, Typed, FileType, StepType, DisplacedType, EnvType

LEMMA NoFileType ==
  /\ NoFile \in FileType /\ NotDisplaced \in DisplacedType
  /\ ~NoFile.active /\ ~NoFile.staged /\ ~NoFile.fd /\ ~NoFile.poisoned
  BY DEF NoFile, FileType, NotDisplaced, DisplacedType

\* f is the upload and d the medium that discard() is called with.
LEMMA DiscardKeeps ==
  ASSUME NEW f \in FileType, NEW d \in [Name -> Content], Discard(f, d),
         f.active, f.id \in Ids, f.upload = uploads, uploads \in 1..MaxUploads, admitted = 1,
         UNCHANGED uploads, EnvType',
         displaced' \in DisplacedType,
         displaced' # NotDisplaced =>
           d[Target] = Absent /\ displaced'.id \in Ids /\ displaced'.upload \in 1..uploads,
         f.fd \/ f.poisoned => displaced'.upload # f.upload
  PROVE  TransferInv'
<1>1. CASE /\ f.poisoned \/ f.fd
           /\ file' = [f EXCEPT !.fd = FALSE, !.poisoned = TRUE]
           /\ disk' = d /\ step' = "idle" /\ UNCHANGED admitted
  <2>1. /\ file' \in FileType /\ file'.active /\ file'.poisoned /\ ~file'.fd
        /\ file'.id = f.id /\ file'.upload = f.upload
    BY <1>1 DEF FileType
  <2>2. UploadInv'
    BY <1>1, <2>1, TypeParts DEF Typed, UploadInv, GateFollowsUpload, StepType
  <2>3. StepInv' /\ StagedInv'
    BY <1>1, <2>1 DEF StepInv, StagedInv, Publishing
  <2>4. BackupInv'
    BY <1>1, <2>1 DEF BackupInv, BackedUp, IsFree
  <2> QED
    BY <2>2, <2>3, <2>4 DEF TransferInv
<1>2. CASE /\ file' = NoFile /\ admitted' = admitted - 1 /\ step' = "idle"
           /\ disk' = d \/ disk' = [d EXCEPT ![Temporary(f.id)] = Absent]
  <2>1. disk' \in [Name -> Content] /\ disk'[Target] = d[Target]
    BY <1>2, NameFacts, ContentFacts
  <2>2. UploadInv'
    BY <1>2, <2>1, TypeParts, NoFileType DEF Typed, UploadInv, GateFollowsUpload, StepType
  <2>3. StepInv' /\ StagedInv'
    BY <1>2, NoFileType DEF StepInv, StagedInv, Publishing
  <2>4. BackupInv'
    BY <1>2, <2>1, NoFileType DEF BackupInv, BackedUp, IsFree
  <2> QED
    BY <2>2, <2>3, <2>4 DEF TransferInv
<1> QED
  BY <1>1, <1>2 DEF Discard

\* Most handlers call it for the upload that is there and the medium as it is.
LEMMA DiscardNow ==
  ASSUME TransferInv, Discard(file, disk), file.active, ~BackedUp,
         UNCHANGED <<uploads, displaced>>, EnvType'
  PROVE  TransferInv'
<1>1. /\ file \in FileType /\ disk \in [Name -> Content] /\ displaced \in DisplacedType
      /\ admitted = 1
  BY TypeParts DEF Typed, TransferInv, UploadInv, GateFollowsUpload
<1>2. file.id \in Ids /\ file.upload = uploads /\ uploads \in 1..MaxUploads
  BY DEF TransferInv, StepInv
<1>3. /\ displaced # NotDisplaced =>
           disk[Target] = Absent /\ displaced.id \in Ids /\ displaced.upload \in 1..uploads
      /\ displaced.upload # file.upload
  BY DEF TransferInv, BackupInv, IsFree
<1> QED
  BY <1>1, <1>2, <1>3, DiscardKeeps

(***************************************************************************)
(* Every action keeps it.                                                  *)
(***************************************************************************)
LEMMA HandlerFacts ==
  ASSUME TransferInv, step # "idle" \/ Authorized
  PROVE  /\ file \in FileType /\ disk \in [Name -> Content] /\ displaced \in DisplacedType
         /\ EnvType /\ step \in StepType /\ admitted = 1
         /\ file.active /\ ~file.poisoned
         /\ file.id \in Ids /\ file.upload = uploads /\ uploads \in 1..MaxUploads
         /\ file.staged => disk[Temporary(file.id)]
                             = Staged(file.upload, file.total, Written, file.sound)
  BY TypeParts DEF Typed, TransferInv, UploadInv, GateFollowsUpload, StepInv, StagedInv, Authorized

\* A handler goes on, and only notes how far it is.
LEMMA StepOnly ==
  ASSUME TransferInv, file.active, NEW s \in StepType, step' = s,
         UNCHANGED <<file, admitted, disk, uploads, displaced>>, EnvType',
         step # "written", s # "written",
         s # "idle",
         s \in {"examine", "open"} =>
           ~file.fd /\ ~file.staged /\ file.sound /\ file.received = 0,
         ~file.poisoned,
         s = "synced" \/ s \in {"publish", "rename", "backup", "swap", "rollback"} =>
           file.staged /\ file.sound /\ file.received = file.total,
         s \in {"publish", "rename", "backup", "swap", "rollback"} => ~file.fd,
         s # "unlink",
         s \in {"swap", "rollback"} <=> BackedUp
  PROVE  TransferInv'
<1>1. UploadInv'
  BY TypeParts DEF Typed, TransferInv, UploadInv, GateFollowsUpload
<1>2. StepInv'
  BY DEF TransferInv, StepInv, Publishing
<1>3. StagedInv'
  BY DEF TransferInv, StagedInv, Written
<1>4. BackupInv'
  BY DEF TransferInv, BackupInv, BackedUp, IsFree
<1> QED
  BY <1>1, <1>2, <1>3, <1>4 DEF TransferInv

LEMMA BeginKeeps ==
  ASSUME TransferInv, NEW id \in Ids, NEW overwrite \in BOOLEAN, NEW total \in 0..MaxChunks,
         Begin(id, overwrite, total)
  PROVE  TransferInv'
<1> DEFINE begun == [NoFile EXCEPT !.active = TRUE, !.owner = session, !.overwrite = overwrite,
                                   !.total = total, !.id = id, !.upload = uploads + 1]
<1>1. /\ file \in FileType /\ disk \in [Name -> Content] /\ displaced \in DisplacedType
      /\ EnvType /\ step = "idle" /\ ~file.active /\ admitted = 0 /\ uploads \in Nat
  BY TypeParts DEF Typed, EnvType, TransferInv, UploadInv, GateFollowsUpload, Begin
<1>2. uploads + 1 \in 1..MaxUploads
  BY <1>1 DEF Begin
<1>3. /\ begun \in FileType /\ begun.active /\ ~begun.staged /\ ~begun.fd /\ ~begun.poisoned
      /\ begun.id = id /\ begun.upload = uploads + 1 /\ begun.sound /\ begun.received = 0
  <2>1. session \in Nat /\ uploads + 1 \in Nat
    BY <1>1 DEF EnvType
  <2>2. begun \in FileType
    BY <2>1, NoFileType, Zenon DEF FileType
  <2>3. /\ NoFile.sound /\ NoFile.received = 0
        /\ DOMAIN NoFile = {"active", "poisoned", "overwrite", "fd", "staged", "sound", "late",
                            "owner", "id", "upload", "total", "received"}
    BY DEF NoFile
  <2> QED
    BY <2>2, <2>3, NoFileType
<1>4. file' = begun /\ uploads' = uploads + 1 /\ step' = "examine" /\ admitted' = 1
      /\ UNCHANGED <<exists, disk, session, sessions, scripts, crashes, displaced>>
  <2>1. file' = begun
    BY Zenon DEF Begin
  <2> HIDE DEF begun
  <2> QED
    BY <1>1, <2>1 DEF Begin
<1> HIDE DEF begun
<1>5. UploadInv'
  BY <1>1, <1>2, <1>3, <1>4, TypeParts DEF Typed, EnvType, UploadInv, GateFollowsUpload, StepType
<1>6. StepInv' /\ StagedInv'
  BY <1>2, <1>3, <1>4 DEF StepInv, StagedInv, Publishing
<1>7. BackupInv'
  <2>1. displaced # NotDisplaced =>
          IsFree(Target) /\ displaced.id \in Ids /\ displaced.upload \in 1..uploads
    BY DEF TransferInv, BackupInv
  <2>2. displaced.upload # uploads + 1
    BY <1>1, <2>1 DEF NotDisplaced
  <2> QED
    BY <1>1, <1>3, <1>4, <2>1, <2>2 DEF BackupInv, BackedUp, IsFree
<1> QED
  BY <1>5, <1>6, <1>7 DEF TransferInv

\* The steps that only look.
LEMMA ExamineKeeps ==
  ASSUME TransferInv, BeginExamine \/ PublishExamine
  PROVE  TransferInv'
<1>1. /\ file.active /\ ~file.poisoned /\ EnvType /\ ~BackedUp /\ step # "written"
      /\ UNCHANGED <<uploads, displaced>>
  BY HandlerFacts DEF BeginExamine, PublishExamine, BackedUp, counters
<1>2. EnvType'
  BY <1>1 DEF EnvType, BeginExamine, PublishExamine, counters
<1>3. CASE Discard(file, disk)
  BY <1>1, <1>2, <1>3, DiscardNow
<1>4. CASE step = "examine" /\ step' = "open" /\ UNCHANGED <<file, admitted, disk>>
  <2>1. /\ "open" \in StepType /\ ~file.fd /\ ~file.staged
        /\ file.sound /\ file.received = 0
    BY <1>4 DEF StepType, TransferInv, StepInv
  <2> QED
    BY <1>1, <1>2, <1>4, <2>1, StepOnly
<1>5. CASE step = "publish" /\ step' = "rename" /\ UNCHANGED <<file, admitted, disk>>
  <2>1. "rename" \in StepType /\ file.staged /\ file.sound /\ file.received = file.total /\ ~file.fd
    BY <1>5 DEF StepType, TransferInv, StepInv, Publishing
  <2> QED
    BY <1>1, <1>2, <1>5, <2>1, StepOnly
<1> QED
  BY <1>3, <1>4, <1>5 DEF BeginExamine, PublishExamine

LEMMA OpenKeeps ==
  ASSUME TransferInv, BeginOpen
  PROVE  TransferInv'
<1> DEFINE opened == [file EXCEPT !.fd = TRUE, !.staged = TRUE]
           c == Staged(file.upload, file.total, 0, TRUE)
           created == [disk EXCEPT ![Temporary(file.id)] = c]
<1>1. /\ file \in FileType /\ disk \in [Name -> Content] /\ displaced \in DisplacedType
      /\ EnvType /\ step = "open" /\ admitted = 1
      /\ file.active /\ ~file.poisoned
      /\ file.id \in Ids /\ file.upload = uploads /\ uploads \in 1..MaxUploads
      /\ UNCHANGED <<uploads, displaced, exists, session, sessions, scripts, crashes>>
  BY HandlerFacts DEF BeginOpen, counters
<1>2. EnvType' /\ ~BackedUp
  BY <1>1 DEF EnvType, BackedUp
<1>3. /\ opened \in FileType /\ opened.active /\ opened.staged /\ opened.fd /\ ~opened.poisoned
      /\ opened.id = file.id /\ opened.upload = file.upload /\ opened.total = file.total
      /\ opened.received = file.received /\ opened.sound = file.sound
  BY <1>1 DEF FileType
<1>4. created \in [Name -> Content] /\ created[Target] = disk[Target]
      /\ created[Temporary(file.id)] = c
  <2>1. c \in Content
    <3>1. file.upload \in 1..MaxUploads /\ file.total \in 0..MaxChunks /\ 0 \in 0..MaxChunks
      BY <1>1 DEF FileType
    <3> QED
      BY <3>1, StagedType, ContentFacts
  <2> HIDE DEF c
  <2> QED
    BY <1>1, <2>1, NameFacts
<1> HIDE DEF opened, created
<1>5. /\ displaced # NotDisplaced =>
           disk[Target] = Absent /\ displaced.id \in Ids /\ displaced.upload \in 1..uploads
      /\ displaced.upload # file.upload
      /\ file.sound /\ file.received = 0
  BY <1>1, <1>2 DEF TransferInv, BackupInv, IsFree, StepInv
<1>6. CASE Discard(file, disk)
  BY <1>1, <1>2, <1>6, DiscardNow
<1>7. CASE Discard(opened, created)
  BY <1>1, <1>2, <1>3, <1>4, <1>5, <1>7, DiscardKeeps
<1>8. CASE disk' = created /\ file' = opened /\ step' = "idle" /\ UNCHANGED admitted
  <2>1. UploadInv'
    BY <1>1, <1>2, <1>3, <1>4, <1>8, TypeParts DEF Typed, UploadInv, GateFollowsUpload, StepType
  <2>2. StepInv'
    BY <1>1, <1>3, <1>5, <1>8 DEF StepInv, Publishing
  <2>3. StagedInv'
    <3>1. Written' = 0
      BY <1>3, <1>5, <1>8 DEF Written
    <3>2. file'.sound = TRUE
      BY <1>3, <1>5, <1>8 DEF FileType
    <3>3. disk'[Temporary(file'.id)] = Staged(file'.upload, file'.total, 0, TRUE)
      BY <1>3, <1>4, <1>8
    <3> QED
      BY <3>1, <3>2, <3>3 DEF StagedInv
  <2>4. BackupInv'
    BY <1>1, <1>3, <1>4, <1>5, <1>8 DEF BackupInv, BackedUp, IsFree
  <2> QED
    BY <2>1, <2>2, <2>3, <2>4 DEF TransferInv
<1> QED
  BY <1>6, <1>7, <1>8, Zenon DEF BeginOpen, opened, created

LEMMA WriteKeeps ==
  ASSUME TransferInv, NEW sound \in BOOLEAN, Write(sound)
  PROVE  TransferInv'
<1> DEFINE name == Temporary(file.id)
           c == Staged(file.upload, file.total, file.received + 1, file.sound /\ sound)
           written == [file EXCEPT !.sound = @ /\ sound]
<1>1. /\ file \in FileType /\ disk \in [Name -> Content] /\ displaced \in DisplacedType
      /\ EnvType /\ step = "idle" /\ admitted = 1
      /\ file.active /\ ~file.poisoned /\ file.staged /\ file.received < file.total
      /\ file.id \in Ids /\ file.upload = uploads /\ uploads \in 1..MaxUploads
      /\ UNCHANGED <<uploads, displaced, exists, session, sessions, scripts, crashes>>
  BY HandlerFacts DEF Write, Authorized, counters, TransferInv, StepInv
<1>2. EnvType' /\ ~BackedUp
  BY <1>1 DEF EnvType, BackedUp
<1>3. CASE Discard(file, disk)
  BY <1>1, <1>2, <1>3, DiscardNow
<1>4. CASE /\ disk' = [disk EXCEPT ![name] = Joined(@, sound)]
           /\ file' = written /\ step' = "written" /\ UNCHANGED admitted
  <2>1. /\ file.received \in Nat /\ file.received + 1 \in 0..MaxChunks
        /\ file.total \in 0..MaxChunks /\ file.upload \in Nat /\ file.total \in Nat
        /\ (file.sound /\ sound) \in BOOLEAN /\ file.sound \in BOOLEAN
    BY <1>1 DEF FileType
  <2>2. disk[name] = Staged(file.upload, file.total, file.received, file.sound)
    <3>1. Written = file.received
      BY <1>1, <2>1 DEF Written
    <3> QED
      BY <1>1, <3>1 DEF TransferInv, StagedInv
  <2>3. disk' = [disk EXCEPT ![name] = c]
    <3> DEFINE u == file.upload  n == file.total  k == file.received  b == file.sound
    <3>1. Joined(Staged(u, n, k, b), sound) = Staged(u, n, k + 1, b /\ sound)
      <4>1. u \in Nat /\ n \in Nat /\ k \in Nat /\ b \in BOOLEAN
        BY <2>1
      <4> HIDE DEF u, n, k, b
      <4> QED
        BY <4>1, ChunkWritten
    <3>2. Joined(disk[name], sound) = c
      BY <2>2, <3>1, Zenon
    <3> HIDE DEF c
    <3> QED
      BY <1>4, <3>2
  <2>4. /\ disk' \in [Name -> Content] /\ disk'[Target] = disk[Target]
        /\ disk'[name] = c
    <3>1. c \in Content
      BY <1>1, <2>1, StagedType, ContentFacts
    <3> HIDE DEF c
    <3> QED
      BY <1>1, <2>3, <3>1, NameFacts
  <2>5. /\ file' \in FileType /\ file'.active /\ file'.staged /\ ~file'.poisoned
        /\ file'.id = file.id /\ file'.upload = file.upload /\ file'.total = file.total
        /\ file'.received = file.received /\ file'.sound = (file.sound /\ sound)
    BY <1>1, <1>4 DEF FileType
  <2> HIDE DEF c
  <2>6. UploadInv'
    BY <1>1, <1>2, <1>4, <2>4, <2>5, TypeParts DEF Typed, UploadInv, GateFollowsUpload, StepType
  <2>7. StepInv'
    BY <1>1, <1>4, <2>5 DEF StepInv, Publishing
  <2>8. StagedInv'
    <3>1. Written' = file.received + 1
      BY <1>4, <2>5 DEF Written
    <3> QED
      BY <2>4, <2>5, <3>1, Zenon DEF StagedInv, c
  <2>9. BackupInv'
    BY <1>1, <1>2, <1>4, <2>4, <2>5 DEF TransferInv, BackupInv, BackedUp, IsFree
  <2> QED
    BY <2>6, <2>7, <2>8, <2>9 DEF TransferInv
<1> QED
  BY <1>3, <1>4 DEF Write

LEMMA WriteFinishKeeps ==
  ASSUME TransferInv, WriteFinish
  PROVE  TransferInv'
<1>1. /\ file \in FileType /\ disk \in [Name -> Content] /\ displaced \in DisplacedType
      /\ EnvType /\ step = "written" /\ admitted = 1
      /\ file.active /\ ~file.poisoned /\ file.staged /\ file.received < file.total
      /\ file.id \in Ids /\ file.upload = uploads /\ uploads \in 1..MaxUploads
      /\ UNCHANGED <<uploads, displaced, exists, session, sessions, scripts, crashes>>
  BY HandlerFacts DEF WriteFinish, counters, TransferInv, StepInv
<1>2. EnvType' /\ ~BackedUp
  BY <1>1 DEF EnvType, BackedUp
<1>3. CASE Discard(file, disk)
  BY <1>1, <1>2, <1>3, DiscardNow
<1>4. CASE /\ file' = [file EXCEPT !.received = @ + 1, !.late = FALSE]
           /\ step' = "idle" /\ UNCHANGED <<admitted, disk>>
  <2>1. file.received \in Nat /\ file.received + 1 \in 0..MaxChunks
    BY <1>1 DEF FileType
  <2>2. /\ file' \in FileType /\ file'.active /\ file'.staged /\ ~file'.poisoned
        /\ file'.id = file.id /\ file'.upload = file.upload /\ file'.total = file.total
        /\ file'.received = file.received + 1 /\ file'.sound = file.sound
    BY <1>1, <1>4, <2>1 DEF FileType
  <2>3. UploadInv'
    BY <1>1, <1>2, <1>4, <2>2, TypeParts DEF Typed, UploadInv, GateFollowsUpload, StepType
  <2>4. StepInv'
    BY <1>1, <1>4, <2>2 DEF StepInv, Publishing
  <2>5. StagedInv'
    <3>1. Written' = Written
      BY <1>1, <1>4, <2>1, <2>2 DEF Written
    <3> QED
      BY <1>1, <1>4, <2>2, <3>1 DEF TransferInv, StagedInv
  <2>6. BackupInv'
    BY <1>1, <1>2, <1>4, <2>2 DEF TransferInv, BackupInv, BackedUp, IsFree
  <2> QED
    BY <2>3, <2>4, <2>5, <2>6 DEF TransferInv
<1> QED
  BY <1>3, <1>4 DEF WriteFinish

\* The ends that are no more than discard(), and the digest that is compared.
LEMMA CommitKeeps ==
  ASSUME TransferInv, Abort \/ Poll \/ Commit
  PROVE  TransferInv'
<1>1. /\ file.active /\ step = "idle" /\ EnvType
      /\ UNCHANGED <<uploads, displaced, exists, session, sessions, scripts, crashes>>
  BY TypeParts DEF Typed, TransferInv, UploadInv, Abort, Poll, Commit, Authorized, counters
<1>2. EnvType' /\ ~BackedUp
  BY <1>1 DEF EnvType, BackedUp
<1>3. CASE Discard(file, disk)
  BY <1>1, <1>2, <1>3, DiscardNow
<1>4. CASE Commit /\ file.sound /\ step' = "synced" /\ UNCHANGED <<file, admitted, disk>>
  <2>1. "synced" \in StepType /\ ~file.poisoned /\ file.staged /\ file.received = file.total
    BY <1>1, <1>4 DEF StepType, TransferInv, StepInv, Commit, Authorized
  <2> QED
    BY <1>1, <1>2, <1>4, <2>1, StepOnly
<1> QED
  BY <1>3, <1>4 DEF Abort, Poll, Commit

LEMMA CloseKeeps ==
  ASSUME TransferInv, CommitClose
  PROVE  TransferInv'
<1> DEFINE closed == [file EXCEPT !.fd = FALSE]
           unclosed == [file EXCEPT !.fd = FALSE, !.poisoned = TRUE]
<1>1. /\ file \in FileType /\ disk \in [Name -> Content] /\ displaced \in DisplacedType
      /\ EnvType /\ step = "synced" /\ admitted = 1
      /\ file.active /\ ~file.poisoned /\ file.staged /\ file.sound /\ file.received = file.total
      /\ file.id \in Ids /\ file.upload = uploads /\ uploads \in 1..MaxUploads
      /\ UNCHANGED <<uploads, displaced, exists, session, sessions, scripts, crashes>>
  BY HandlerFacts DEF CommitClose, counters, TransferInv, StepInv
<1>2. EnvType' /\ ~BackedUp
  BY <1>1 DEF EnvType, BackedUp
<1>3. /\ displaced # NotDisplaced =>
           disk[Target] = Absent /\ displaced.id \in Ids /\ displaced.upload \in 1..uploads
      /\ displaced.upload # file.upload
  BY <1>1, <1>2 DEF TransferInv, BackupInv, IsFree
<1>4. CASE Discard(file, disk)
  BY <1>1, <1>2, <1>4, DiscardNow
<1>5. CASE Discard(unclosed, disk)
  <2>1. /\ unclosed \in FileType /\ unclosed.active
        /\ unclosed.id = file.id /\ unclosed.upload = file.upload
    BY <1>1 DEF FileType
  <2> HIDE DEF unclosed
  <2> QED
    BY <1>1, <1>2, <1>3, <1>5, <2>1, DiscardKeeps
<1>6. CASE file' = closed /\ step' = "publish" /\ UNCHANGED <<admitted, disk>>
  <2>1. /\ file' \in FileType /\ file'.active /\ file'.staged /\ ~file'.poisoned /\ ~file'.fd
        /\ file'.id = file.id /\ file'.upload = file.upload /\ file'.total = file.total
        /\ file'.received = file.received /\ file'.sound = file.sound
    BY <1>1, <1>6 DEF FileType
  <2>2. UploadInv'
    BY <1>1, <1>2, <1>6, <2>1, TypeParts DEF Typed, UploadInv, GateFollowsUpload, StepType
  <2>3. StepInv'
    BY <1>1, <1>6, <2>1 DEF StepInv, Publishing
  <2>4. StagedInv'
    <3>1. Written' = Written
      BY <1>1, <1>6, <2>1 DEF Written
    <3> QED
      BY <1>1, <1>6, <2>1, <3>1 DEF TransferInv, StagedInv
  <2>5. BackupInv'
    BY <1>1, <1>2, <1>3, <1>6, <2>1 DEF BackupInv, BackedUp, IsFree
  <2> QED
    BY <2>2, <2>3, <2>4, <2>5 DEF TransferInv
<1> QED
  BY <1>4, <1>5, <1>6 DEF CommitClose

LEMMA RenameKeeps ==
  ASSUME TransferInv, PublishRename
  PROVE  TransferInv'
<1> DEFINE unstaged == [file EXCEPT !.staged = FALSE]
           moved == Moved(disk, Temporary(file.id), Target)
<1>1. /\ file \in FileType /\ disk \in [Name -> Content] /\ displaced \in DisplacedType
      /\ EnvType /\ step = "rename" /\ admitted = 1
      /\ file.active /\ ~file.poisoned /\ ~file.fd
      /\ file.staged /\ file.sound /\ file.received = file.total
      /\ file.id \in Ids /\ file.upload = uploads /\ uploads \in 1..MaxUploads
      /\ UNCHANGED <<uploads, exists, session, sessions, scripts, crashes>>
  BY HandlerFacts DEF PublishRename, counters, TransferInv, StepInv, Publishing
<1>2. EnvType' /\ ~BackedUp
  BY <1>1 DEF EnvType, BackedUp
<1>3. CASE Discard(file, disk) /\ UNCHANGED displaced
  BY <1>1, <1>2, <1>3, DiscardNow
<1>4. CASE step' = "backup" /\ UNCHANGED <<file, admitted, disk, displaced>>
  <2>1. "backup" \in StepType
    BY DEF StepType
  <2> QED
    BY <1>1, <1>2, <1>4, <2>1, StepOnly
<1>5. CASE Discard(unstaged, moved) /\ displaced' = NotDisplaced
  <2>1. /\ unstaged \in FileType /\ unstaged.active /\ ~unstaged.fd /\ ~unstaged.poisoned
        /\ unstaged.id = file.id /\ unstaged.upload = file.upload
    BY <1>1 DEF FileType
  <2>2. moved \in [Name -> Content]
    BY <1>1, NameFacts, MovedFacts
  <2> HIDE DEF unstaged, moved
  <2> QED
    BY <1>1, <1>2, <1>5, <2>1, <2>2, NoFileType, DiscardKeeps
<1> QED
  BY <1>3, <1>4, <1>5 DEF PublishRename

LEMMA BackupKeeps ==
  ASSUME TransferInv, PublishBackup
  PROVE  TransferInv'
<1>1. /\ file \in FileType /\ disk \in [Name -> Content] /\ displaced \in DisplacedType
      /\ EnvType /\ step = "backup" /\ admitted = 1
      /\ file.active /\ ~file.poisoned /\ ~file.fd
      /\ file.staged /\ file.sound /\ file.received = file.total
      /\ file.id \in Ids /\ file.upload = uploads /\ uploads \in 1..MaxUploads
      /\ UNCHANGED <<uploads, exists, session, sessions, scripts, crashes>>
  BY HandlerFacts DEF PublishBackup, counters, TransferInv, StepInv, Publishing
<1>2. EnvType' /\ ~BackedUp
  BY <1>1 DEF EnvType, BackedUp
<1>3. CASE Discard(file, disk) /\ UNCHANGED displaced
  BY <1>1, <1>2, <1>3, DiscardNow
<1>4. CASE /\ ~IsFree(Target)
           /\ disk' = Moved(disk, Target, Backup(file.id))
           /\ displaced' = [id |-> file.id, upload |-> file.upload]
           /\ step' = "swap" /\ UNCHANGED <<file, admitted>>
  <2>1. /\ disk' \in [Name -> Content] /\ disk'[Target] = Absent
        /\ disk'[Backup(file.id)] # Absent
        /\ disk'[Temporary(file.id)] = disk[Temporary(file.id)]
    BY <1>1, <1>4, NameFacts, MovedFacts DEF IsFree
  <2>2. /\ displaced' \in DisplacedType
        /\ displaced'.id = file.id /\ displaced'.upload = file.upload
    BY <1>1, <1>4 DEF DisplacedType
  <2>3. UploadInv'
    BY <1>1, <1>2, <1>4, <2>1, <2>2, TypeParts DEF Typed, UploadInv, GateFollowsUpload, StepType
  <2>4. StepInv'
    BY <1>1, <1>4 DEF StepInv, Publishing
  <2>5. StagedInv'
    BY <1>1, <1>4, <2>1 DEF TransferInv, StagedInv, Written
  <2>6. BackupInv'
    BY <1>1, <1>4, <2>1, <2>2 DEF BackupInv, BackedUp, IsFree
  <2> QED
    BY <2>3, <2>4, <2>5, <2>6 DEF TransferInv
<1> QED
  BY <1>3, <1>4 DEF PublishBackup

LEMMA SwapKeeps ==
  ASSUME TransferInv, PublishSwap
  PROVE  TransferInv'
<1>1. /\ file \in FileType /\ disk \in [Name -> Content] /\ displaced \in DisplacedType
      /\ EnvType /\ step = "swap" /\ admitted = 1
      /\ file.active /\ ~file.poisoned /\ ~file.fd
      /\ file.staged /\ file.sound /\ file.received = file.total
      /\ file.id \in Ids /\ file.upload = uploads /\ uploads \in 1..MaxUploads
      /\ UNCHANGED <<uploads, exists, admitted, session, sessions, scripts, crashes>>
  BY HandlerFacts DEF PublishSwap, counters, TransferInv, StepInv, Publishing
<1>2. EnvType' /\ BackedUp
  BY <1>1 DEF EnvType, BackedUp
<1>3. CASE step' = "rollback" /\ UNCHANGED <<file, disk, displaced>>
  <2>1. "rollback" \in StepType
    BY DEF StepType
  <2> QED
    BY <1>1, <1>2, <1>3, <2>1, StepOnly
<1>4. CASE /\ disk' = Moved(disk, Temporary(file.id), Target)
           /\ file' = [file EXCEPT !.staged = FALSE]
           /\ displaced' = NotDisplaced /\ step' = "unlink"
  <2>1. /\ file' \in FileType /\ file'.active /\ ~file'.staged /\ ~file'.fd /\ ~file'.poisoned
        /\ file'.id = file.id /\ file'.upload = file.upload
    BY <1>1, <1>4 DEF FileType
  <2>2. disk' \in [Name -> Content]
    BY <1>1, <1>4, NameFacts, MovedFacts
  <2>3. UploadInv'
    BY <1>1, <1>2, <1>4, <2>1, <2>2, TypeParts, NoFileType
       DEF Typed, UploadInv, GateFollowsUpload, StepType
  <2>4. StepInv' /\ StagedInv'
    BY <1>1, <1>4, <2>1 DEF StepInv, StagedInv, Publishing
  <2>5. BackupInv'
    BY <1>1, <1>4, <2>1 DEF BackupInv, BackedUp, IsFree, NotDisplaced
  <2> QED
    BY <2>3, <2>4, <2>5 DEF TransferInv
<1> QED
  BY <1>3, <1>4 DEF PublishSwap

\* A rollback that fails leaves the backup displaced; the upload ends all the same.
LEMMA RollbackKeeps ==
  ASSUME TransferInv, PublishRollback
  PROVE  TransferInv'
<1> DEFINE moved == Moved(disk, Backup(file.id), Target)
<1>1. /\ file \in FileType /\ disk \in [Name -> Content] /\ displaced \in DisplacedType
      /\ EnvType /\ step = "rollback" /\ admitted = 1
      /\ file.active /\ ~file.poisoned /\ ~file.fd
      /\ file.id \in Ids /\ file.upload = uploads /\ uploads \in 1..MaxUploads
      /\ UNCHANGED <<uploads, exists, session, sessions, scripts, crashes>>
  BY HandlerFacts DEF PublishRollback, counters, TransferInv, StepInv, Publishing
<1>2. EnvType'
  BY <1>1 DEF EnvType
<1>3. CASE Discard(file, disk) /\ UNCHANGED displaced
  <2>1. displaced # NotDisplaced =>
          disk[Target] = Absent /\ displaced.id \in Ids /\ displaced.upload \in 1..uploads
    BY DEF TransferInv, BackupInv, IsFree
  <2> QED
    BY <1>1, <1>2, <1>3, <2>1, DiscardKeeps
<1>4. CASE Discard(file, moved) /\ displaced' = NotDisplaced
  <2>1. moved \in [Name -> Content]
    BY <1>1, NameFacts, MovedFacts
  <2> HIDE DEF moved
  <2> QED
    BY <1>1, <1>2, <1>4, <2>1, NoFileType, DiscardKeeps
<1> QED
  BY <1>3, <1>4 DEF PublishRollback

LEMMA UnlinkKeeps ==
  ASSUME TransferInv, PublishUnlink
  PROVE  TransferInv'
<1> DEFINE unlinked == [disk EXCEPT ![Backup(file.id)] = Absent]
<1>1. /\ file \in FileType /\ disk \in [Name -> Content] /\ displaced = NotDisplaced
      /\ EnvType /\ step = "unlink" /\ admitted = 1
      /\ file.active /\ ~file.poisoned /\ ~file.fd
      /\ file.id \in Ids /\ file.upload = uploads /\ uploads \in 1..MaxUploads
      /\ UNCHANGED <<uploads, displaced, exists, session, sessions, scripts, crashes>>
  BY HandlerFacts DEF PublishUnlink, counters, TransferInv, StepInv, BackupInv
<1>2. EnvType' /\ ~BackedUp
  BY <1>1 DEF EnvType, BackedUp
<1>3. CASE Discard(file, disk)
  BY <1>1, <1>2, <1>3, DiscardNow
<1>4. CASE Discard(file, unlinked)
  <2>1. unlinked \in [Name -> Content]
    BY <1>1, NameFacts, ContentFacts
  <2> HIDE DEF unlinked
  <2> QED
    BY <1>1, <1>2, <1>4, <2>1, NoFileType, DiscardKeeps
<1> QED
  BY <1>3, <1>4 DEF PublishUnlink

(***************************************************************************)
(* Everyone else.                                                          *)
(***************************************************************************)
LEMMA WaitKeeps ==
  ASSUME TransferInv, Wait
  PROVE  TransferInv'
<1>1. /\ file \in FileType /\ file.active
      /\ UNCHANGED <<step, exists, admitted, disk, session, uploads, sessions, scripts, crashes,
                     displaced>>
  BY TypeParts DEF Typed, TransferInv, UploadInv, Wait, counters
<1>2. /\ file' \in FileType /\ file'.active /\ file'.staged = file.staged
      /\ file'.poisoned = file.poisoned /\ file'.fd = file.fd /\ file'.sound = file.sound
      /\ file'.id = file.id /\ file'.upload = file.upload /\ file'.total = file.total
      /\ file'.received = file.received
  BY <1>1 DEF Wait, FileType
<1>3. UploadInv'
  BY <1>1, <1>2, TypeParts DEF TransferInv, Typed, EnvType, UploadInv, GateFollowsUpload
<1>4. StepInv'
  BY <1>1, <1>2 DEF TransferInv, StepInv, Publishing
<1>5. StagedInv'
  <2>1. Written' = Written
    BY <1>1, <1>2 DEF Written
  <2> QED
    BY <1>1, <1>2, <2>1 DEF TransferInv, StagedInv
<1>6. BackupInv'
  BY <1>1, <1>2 DEF TransferInv, BackupInv, BackedUp, IsFree
<1> QED
  BY <1>3, <1>4, <1>5, <1>6 DEF TransferInv

LEMMA SessionKeeps ==
  ASSUME TransferInv, SessionChange
  PROVE  TransferInv'
<1>1. UNCHANGED <<file, step, exists, admitted, disk, uploads, scripts, crashes, displaced>>
  BY DEF SessionChange
<1>2. session' \in Nat /\ sessions' \in Nat
  BY TypeParts DEF SessionChange, TransferInv, UploadInv, Typed, EnvType
<1>3. UploadInv'
  BY <1>1, <1>2, TypeParts DEF TransferInv, Typed, EnvType, UploadInv, GateFollowsUpload
<1>4. StepInv' /\ StagedInv' /\ BackupInv'
  BY <1>1 DEF TransferInv, StepInv, Publishing, StagedInv, Written, BackupInv, BackedUp, IsFree
<1> QED
  BY <1>3, <1>4 DEF TransferInv

LEMMA ScriptKeeps ==
  ASSUME TransferInv, Script
  PROVE  TransferInv'
<1>1. /\ UNCHANGED <<file, step, exists, admitted, session, uploads, sessions, crashes>>
      /\ displaced' = NotDisplaced /\ scripts' = scripts + 1
      /\ \E c \in {Absent, Scripted} : disk' = [disk EXCEPT ![Target] = c]
  BY DEF Script
<1>2. /\ file \in FileType /\ disk \in [Name -> Content] /\ EnvType
      /\ file.staged => file.active
      /\ BackedUp => file.active
      /\ file.active => file.id \in Ids /\ file.upload \in 1..MaxUploads
  BY TypeParts, NoFileType
     DEF TransferInv, Typed, UploadInv, GateFollowsUpload, StepInv, BackedUp
<1>3. /\ disk' \in [Name -> Content]
      /\ \A name \in Name \ {Target} : disk'[name] = disk[name]
  BY <1>1, <1>2, NameFacts, ContentFacts
<1>4. UploadInv'
  BY <1>1, <1>2, <1>3, TypeParts, NoFileType
     DEF TransferInv, Typed, EnvType, UploadInv, GateFollowsUpload
<1>5. StepInv'
  BY <1>1 DEF TransferInv, StepInv, Publishing
<1>6. StagedInv'
  BY <1>1, <1>2, <1>3, NameFacts DEF TransferInv, StagedInv, Written
<1>7. BackupInv'
  <2>1. (BackedUp => ~IsFree(Backup(file.id)))'
    BY <1>1, <1>2, <1>3, NameFacts DEF TransferInv, BackupInv, BackedUp, IsFree
  <2> QED
    BY <1>1, <1>2, <2>1 DEF BackupInv, NotDisplaced
<1> QED
  BY <1>4, <1>5, <1>6, <1>7 DEF TransferInv

LEMMA CrashKeeps ==
  ASSUME TransferInv, Crash
  PROVE  TransferInv'
<1>1. /\ file' = NoFile /\ step' = "idle" /\ exists' = FALSE /\ admitted' = 0 /\ session' = 0
      /\ crashes' = crashes + 1
      /\ UNCHANGED <<disk, uploads, sessions, scripts, displaced>>
  BY DEF Crash
<1>2. UploadInv'
  <2>1. EnvType'
    <3>1. uploads \in Nat /\ sessions \in Nat /\ scripts \in Nat /\ crashes \in Nat
      BY TypeParts DEF TransferInv, UploadInv, Typed, EnvType
    <3>2. exists' \in BOOLEAN
      BY <1>1
    <3> QED
      BY <1>1, <3>1, <3>2 DEF EnvType
  <2>2. disk \in [Name -> Content] /\ displaced \in DisplacedType
    BY TypeParts DEF TransferInv, UploadInv, Typed
  <2>3. Typed'
    BY <1>1, <2>1, <2>2, NoFileType DEF Typed, StepType
  <2>4. GateFollowsUpload'
    BY <1>1, NoFileType DEF GateFollowsUpload
  <2> QED
    BY <2>3, <2>4, TypeParts DEF UploadInv
<1>3. StepInv' /\ StagedInv'
  BY <1>1, NoFileType DEF StepInv, StagedInv, Publishing
<1>4. BackupInv'
  BY <1>1, NoFileType DEF TransferInv, BackupInv, BackedUp, IsFree
<1> QED
  BY <1>2, <1>3, <1>4 DEF TransferInv

LEMMA TransferInit == Init => TransferInv
<1> SUFFICES ASSUME Init PROVE TransferInv
  OBVIOUS
<1>1. disk \in [Name -> Content]
  BY ContentFacts DEF Init
<1>2. UploadInv
  <2>1. EnvType
    BY DEF Init, EnvType
  <2>2. Typed
    BY <1>1, <2>1, NoFileType DEF Init, Typed, StepType
  <2>3. GateFollowsUpload
    BY NoFileType DEF Init, GateFollowsUpload
  <2> QED
    BY <2>2, <2>3, TypeParts DEF UploadInv
<1>3. StepInv /\ StagedInv /\ BackupInv
  BY NoFileType DEF Init, StepInv, Publishing, StagedInv, BackupInv, BackedUp
<1> QED
  BY <1>2, <1>3 DEF TransferInv

LEMMA TransferStep == TransferInv /\ [Next]_vars => TransferInv'
<1> SUFFICES ASSUME TransferInv, [Next]_vars PROVE TransferInv'
  OBVIOUS
<1>1. CASE \E id \in Ids, overwrite \in BOOLEAN, total \in 0..MaxChunks : Begin(id, overwrite, total)
  BY <1>1, BeginKeeps
<1>2. CASE \E sound \in BOOLEAN : Write(sound)
  BY <1>2, WriteKeeps
<1>3. CASE Abort \/ Commit \/ Poll
  BY <1>3, CommitKeeps
<1>4. CASE Continue
  BY <1>4, ExamineKeeps, OpenKeeps, WriteFinishKeeps, CloseKeeps, RenameKeeps, BackupKeeps,
     SwapKeeps, RollbackKeeps, UnlinkKeeps DEF Continue
<1>5. CASE Wait \/ SessionChange \/ Script \/ Crash
  BY <1>5, WaitKeeps, SessionKeeps, ScriptKeeps, CrashKeeps
<1>6. CASE UNCHANGED vars
  <2>1. UNCHANGED <<file, step, exists, admitted, disk, session, uploads, sessions, scripts,
                    crashes, displaced>>
    BY <1>6 DEF vars
  <2> QED
    BY <2>1, TypeParts
       DEF TransferInv, UploadInv, Typed, EnvType, GateFollowsUpload, StepInv, Publishing,
           StagedInv, Written, BackupInv, BackedUp, IsFree
<1> QED
  BY <1>1, <1>2, <1>3, <1>4, <1>5, <1>6 DEF Next

\* The upload's state, its staging file and the target's backup agree at every step of
\* the handlers, whoever interferes (ev_file_transfer_begin, _write, _end, publish, discard).
THEOREM TransferCorrect == Spec => []TransferInv
BY TransferInit, TransferStep, PTL DEF Spec

\* The gate counts an operation exactly while an upload is there, whatever fails
\* (the comment above discard).
THEOREM UploadCorrect == Spec => []UploadInv
<1>1. TransferInv => UploadInv
  BY DEF TransferInv
<1> QED
  BY <1>1, TransferCorrect, PTL

(***************************************************************************)
(* No step touches a staging file of another upload.                       *)
(***************************************************************************)
\* In medium d every staging file of another upload is as it was.
Untouched(d) ==
  \A id \in Ids : disk[Temporary(id)] # Absent /\ disk[Temporary(id)].upload # file.upload =>
                    d[Temporary(id)] = disk[Temporary(id)]

\* discard() unlinks only what open() has created.
LEMMA DiscardOwn ==
  ASSUME NEW f, NEW d \in [Name -> Content], Discard(f, d), f.id \in Ids, Untouched(d),
         f.staged /\ ~f.poisoned =>
           disk[Temporary(f.id)] = Absent \/ disk[Temporary(f.id)].upload = file.upload
  PROVE  Untouched(disk')
<1>1. CASE disk' = d
  BY <1>1 DEF Untouched
<1>2. CASE f.staged /\ ~f.poisoned /\ disk' = [d EXCEPT ![Temporary(f.id)] = Absent]
  <2>1. \A id \in Ids : id # f.id => disk'[Temporary(id)] = d[Temporary(id)]
    BY <1>2, NameFacts
  <2> QED
    BY <1>2, <2>1 DEF Untouched
<1> QED
  BY <1>1, <1>2 DEF Discard

\* The staging file that is there is the upload's own.
LEMMA StagedOwn ==
  ASSUME TransferInv, file.staged, ~file.poisoned
  PROVE  disk[Temporary(file.id)].upload = file.upload
  BY StagedFields DEF TransferInv, StagedInv

LEMMA DiscardNowOwn ==
  ASSUME TransferInv, file.active, Discard(file, disk)
  PROVE  Untouched(disk')
<1>1. /\ disk \in [Name -> Content] /\ file.id \in Ids
  BY TypeParts DEF Typed, TransferInv, UploadInv, StepInv
<1>2. Untouched(disk)
  BY DEF Untouched
<1> QED
  BY <1>1, <1>2, StagedOwn, DiscardOwn

\* Moving to or from another name does not matter, nor does the upload's own.
LEMMA MovedOwn ==
  ASSUME TransferInv, disk \in [Name -> Content], file.id \in Ids,
         NEW from \in Name, NEW to \in Name, from # to,
         from \in {Target, Backup(file.id)} \/ (from = Temporary(file.id) /\ file.staged),
         to \in {Target, Backup(file.id)}, ~file.poisoned
  PROVE  Untouched(Moved(disk, from, to)) /\ Moved(disk, from, to) \in [Name -> Content]
<1>1. ASSUME NEW id \in Ids, disk[Temporary(id)].upload # file.upload
      PROVE  Temporary(id) \in Name \ {from, to}
  BY <1>1, NameFacts, StagedOwn
<1> QED
  BY <1>1, MovedFacts DEF Untouched

LEMMA StagingStep ==
  ASSUME TransferInv, Next
  PROVE  Untouched(disk')
<1>0. disk \in [Name -> Content] /\ file \in FileType
  BY TypeParts DEF TransferInv, UploadInv, Typed
<1>1. CASE UNCHANGED disk
  BY <1>1 DEF Untouched
<1>2. CASE file.active /\ Discard(file, disk)
  BY <1>2, DiscardNowOwn
<1>3. CASE BeginOpen /\ ~Discard(file, disk)
  <2> DEFINE opened == [file EXCEPT !.fd = TRUE, !.staged = TRUE]
             c == Staged(file.upload, file.total, 0, TRUE)
             created == [disk EXCEPT ![Temporary(file.id)] = c]
  <2>1. /\ file.active /\ ~file.poisoned /\ file.id \in Ids
        /\ file.upload \in 1..MaxUploads /\ step = "open"
    BY <1>3, HandlerFacts DEF BeginOpen
  <2>2. IsFree(Temporary(file.id)) /\ (disk' = created \/ Discard(opened, created))
    BY <1>3, Zenon DEF BeginOpen
  <2>3. created \in [Name -> Content]
    <3>1. file.total \in 0..MaxChunks /\ 0 \in 0..MaxChunks
      BY <1>0 DEF FileType
    <3>2. c \in Content
      BY <2>1, <3>1, StagedType, ContentFacts
    <3> HIDE DEF c
    <3> QED
      BY <1>0, <3>2
  <2> HIDE DEF c
  <2>4. Untouched(created)
    BY <1>0, <2>1, <2>2, NameFacts DEF Untouched, IsFree
  <2>5. opened.id = file.id
    BY <1>0 DEF FileType
  <2> HIDE DEF opened, created
  <2> QED
    BY <2>1, <2>2, <2>3, <2>4, <2>5, DiscardOwn DEF IsFree
<1>4. CASE /\ file.id \in Ids /\ file.staged /\ ~file.poisoned
           /\ \E c : disk' = [disk EXCEPT ![Temporary(file.id)] = c]
  BY <1>0, <1>4, NameFacts, StagedOwn DEF Untouched
<1>5. ASSUME NEW from \in {Target, Temporary(file.id), Backup(file.id)},
             NEW to \in {Target, Backup(file.id)},
             from # to, from = Temporary(file.id) => file.staged, ~file.poisoned, file.id \in Ids,
             NEW f \in {file, [file EXCEPT !.staged = FALSE]},
             disk' = Moved(disk, from, to) \/ Discard(f, Moved(disk, from, to))
      PROVE  Untouched(disk')
  <2> DEFINE moved == Moved(disk, from, to)
  <2>1. Untouched(moved) /\ moved \in [Name -> Content]
    BY <1>0, <1>5, NameFacts, MovedOwn
  <2>2. f.id = file.id /\ f.staged /\ ~f.poisoned => file.staged /\ ~file.poisoned
    BY <1>0 DEF FileType
  <2>3. f.id = file.id
    BY <1>0 DEF FileType
  <2> HIDE DEF moved
  <2>4. CASE disk' = moved
    BY <2>1, <2>4
  <2>5. CASE Discard(f, moved)
    BY <1>5, <2>1, <2>2, <2>3, <2>5, StagedOwn, DiscardOwn
  <2> QED
    BY <1>5, <2>4, <2>5 DEF moved
<1>6. CASE Script
  BY <1>0, <1>6, NameFacts DEF Script, Untouched
<1>7. CASE PublishUnlink /\ ~Discard(file, disk)
  <2> DEFINE unlinked == [disk EXCEPT ![Backup(file.id)] = Absent]
  <2>1. /\ file.active /\ ~file.poisoned /\ file.id \in Ids /\ step = "unlink"
    BY <1>7, HandlerFacts DEF PublishUnlink
  <2>2. unlinked \in [Name -> Content] /\ Untouched(unlinked)
    BY <1>0, <2>1, NameFacts, ContentFacts DEF Untouched
  <2>3. Discard(file, unlinked)
    BY <1>7 DEF PublishUnlink
  <2> HIDE DEF unlinked
  <2> QED
    BY <2>1, <2>2, <2>3, StagedOwn, DiscardOwn
<1>8. CASE PublishRename \/ PublishBackup \/ PublishSwap \/ PublishRollback
  <2>1. /\ file.active /\ ~file.poisoned /\ file.id \in Ids
        /\ step \in {"rename", "backup", "swap", "rollback"} /\ file.staged
    BY <1>8, HandlerFacts
       DEF PublishRename, PublishBackup, PublishSwap, PublishRollback, TransferInv, StepInv,
           Publishing
  <2>2. CASE PublishRename
    BY <1>1, <1>2, <1>5, <2>1, <2>2, NameFacts DEF PublishRename
  <2>3. CASE PublishBackup
    BY <1>1, <1>2, <1>5, <2>1, <2>3, NameFacts DEF PublishBackup
  <2>4. CASE PublishSwap
    BY <1>1, <1>2, <1>5, <2>1, <2>4, NameFacts DEF PublishSwap
  <2>5. CASE PublishRollback
    BY <1>1, <1>2, <1>5, <2>1, <2>5, NameFacts DEF PublishRollback
  <2> QED
    BY <1>8, <2>2, <2>3, <2>4, <2>5
<1>9. CASE \E sound \in BOOLEAN : Write(sound)
  <2>1. file.active /\ ~file.poisoned /\ file.id \in Ids /\ file.staged
    BY <1>9 DEF Write, Authorized, TransferInv, StepInv
  <2> QED
    BY <1>2, <1>4, <1>9, <2>1 DEF Write
<1>10. CASE \/ BeginExamine \/ WriteFinish \/ CommitClose \/ PublishExamine
            \/ Abort \/ Commit \/ Poll
  <2>1. file.active /\ file.id \in Ids /\ (step # "idle" => file.active)
    BY <1>10, HandlerFacts
       DEF BeginExamine, WriteFinish, CommitClose, PublishExamine, Abort, Commit, Poll, Authorized,
           TransferInv, StepInv
  <2>2. CASE CommitClose
    <3> DEFINE unclosed == [file EXCEPT !.fd = FALSE, !.poisoned = TRUE]
    <3>1. unclosed.id = file.id /\ unclosed.poisoned
      BY <1>0 DEF FileType
    <3>2. Untouched(disk)
      BY DEF Untouched
    <3> HIDE DEF unclosed
    <3>3. CASE Discard(unclosed, disk)
      BY <1>0, <2>1, <3>1, <3>2, <3>3, DiscardOwn
    <3> QED
      BY <1>1, <1>2, <2>1, <2>2, <3>3 DEF CommitClose, unclosed
  <2> QED
    BY <1>1, <1>2, <1>10, <2>1, <2>2
       DEF BeginExamine, WriteFinish, PublishExamine, Abort, Commit, Poll
<1>11. CASE \/ \E id \in Ids, overwrite \in BOOLEAN, total \in 0..MaxChunks :
                 Begin(id, overwrite, total)
            \/ Wait \/ SessionChange \/ Crash
  BY <1>1, <1>11 DEF Begin, Wait, SessionChange, Crash
<1>12. CASE BeginOpen
  BY <1>2, <1>3, <1>12, HandlerFacts DEF BeginOpen
<1>13. CASE PublishUnlink
  BY <1>2, <1>7, <1>13, HandlerFacts DEF PublishUnlink
<1> QED
  BY <1>6, <1>8, <1>9, <1>10, <1>11, <1>12, <1>13 DEF Next, Continue

\* A staging file that another upload left behind, before or after a power failure, is
\* neither removed nor written ("Never unlink a pre-existing staging file").
THEOREM StagingCorrect == Spec => StagingIsOwn
<1>1. TransferInv /\ [Next]_vars =>
        [\A id \in Ids :
           LET c == disk[Temporary(id)]
           IN c # Absent /\ c.upload # file.upload => disk'[Temporary(id)] = c]_vars
  BY StagingStep DEF Untouched
<1> QED
  BY <1>1, TransferCorrect, PTL DEF Spec, StagingIsOwn

\* publish() gives the target its name back, unless the rollback fails or the power
\* does ("not a power-loss journal").
THEOREM NameCorrect == Spec => NameComesBack
<1>1. ASSUME TransferInv, Next, step # "idle", step' = "idle", displaced'.upload = file.upload,
             step # "rollback", crashes' = crashes
      PROVE  FALSE
  <2>1. /\ file.active /\ file.upload \in 1..MaxUploads /\ crashes \in Nat
        /\ displaced.upload = file.upload => step = "swap"
    BY <1>1, HandlerFacts DEF EnvType, TransferInv, BackupInv, BackedUp
  <2>2. displaced' # NotDisplaced
    BY <1>1, <2>1 DEF NotDisplaced
  <2>3. CASE Continue
    BY <1>1, <2>1, <2>2, <2>3
       DEF Continue, BeginExamine, BeginOpen, WriteFinish, CommitClose, PublishExamine,
           PublishRename, PublishBackup, PublishSwap, PublishRollback, PublishUnlink
  <2>4. CASE ~Continue
    BY <1>1, <2>1, <2>4
       DEF Next, Begin, Write, Authorized, Abort, Commit, Poll, Wait, SessionChange, Script, Crash
  <2> QED
    BY <2>3, <2>4
<1>2. TransferInv /\ [Next]_vars =>
        [step # "idle" /\ step' = "idle" /\ displaced'.upload = file.upload =>
           step = "rollback" \/ crashes' # crashes]_vars
  BY <1>1
<1> QED
  BY <1>2, TransferCorrect, PTL DEF Spec, NameComesBack

(***************************************************************************)
(* The upload implements PublishedFile.                                    *)
(***************************************************************************)
\* What the refinement maps "checked" and "aside" to.
Checked == IF Publishing THEN disk[Temporary(file.id)] ELSE Absent
Aside == IF BackedUp THEN disk[Backup(file.id)] ELSE Absent

LEMMA PublishedStutter ==
  ASSUME Found' = Found, Checked' = Checked, Aside' = Aside, UNCHANGED scripts
  PROVE  UNCHANGED Published!vars
  BY DEF Published!vars, Checked, Aside

LEMMA PublishedCheck ==
  ASSUME Checked = Absent, Checked' \in WholeFiles, Found' = Found, Aside' = Aside, UNCHANGED scripts
  PROVE  Published!Next
  BY DEF Published!Next, Published!Check, Checked, Aside

LEMMA PublishedSetAside ==
  ASSUME Checked # Absent, Aside' = Found, Found' = Found, Checked' = Checked, UNCHANGED scripts
  PROVE  Published!Next
  BY DEF Published!Next, Published!SetAside, Checked, Aside

LEMMA PublishedReplace ==
  ASSUME Checked # Absent, Found' = Checked, Checked' = Absent, Aside' = Absent, UNCHANGED scripts
  PROVE  Published!Next
  BY DEF Published!Next, Published!Replace, Checked, Aside

LEMMA PublishedGiveUp ==
  ASSUME Checked' = Absent, Aside' = Absent, UNCHANGED scripts,
         Found' = Found \/ (Aside # Absent /\ Found' = Aside)
  PROVE  Published!Next
  BY DEF Published!Next, Published!GiveUp, Checked, Aside

LEMMA PublishedScript ==
  ASSUME Found' \in {Absent, Scripted}, scripts' = scripts + 1, Checked' = Checked, Aside' = Aside
  PROVE  Published!Next
  BY DEF Published!Next, Published!Script, Checked, Aside

LEMMA IdleNothing ==
  /\ step = "idle" => Checked = Absent /\ Aside = Absent
  /\ step' = "idle" => Checked' = Absent /\ Aside' = Absent
  BY DEF Checked, Aside, Publishing, BackedUp

\* What Found looks at.
LEMMA FoundKept ==
  ASSUME TransferInv, UNCHANGED displaced, disk'[Target] = disk[Target],
         \A id \in Ids : disk'[Backup(id)] = disk[Backup(id)]
  PROVE  Found' = Found
  BY DEF Found, IsFree, TransferInv, BackupInv

\* discard() ends a publication and leaves the target and every backup alone.
LEMMA DiscardLeaves ==
  ASSUME NEW f, NEW d \in [Name -> Content], Discard(f, d), f.id \in Ids
  PROVE  /\ disk'[Target] = d[Target]
         /\ \A id \in Ids : disk'[Backup(id)] = d[Backup(id)]
         /\ Checked' = Absent /\ Aside' = Absent
<1>1. Checked' = Absent /\ Aside' = Absent
  BY IdleNothing DEF Discard
<1>2. CASE disk' = d
  BY <1>1, <1>2
<1>3. CASE disk' = [d EXCEPT ![Temporary(f.id)] = Absent]
  BY <1>1, <1>3, NameFacts
<1> QED
  BY <1>2, <1>3 DEF Discard

LEMMA DiscardGivesUp ==
  ASSUME TransferInv, file.active, NEW f, f.id = file.id,
         NEW d \in [Name -> Content], Discard(f, d),
         UNCHANGED <<scripts, displaced>>, d[Target] = disk[Target],
         \A id \in Ids : d[Backup(id)] = disk[Backup(id)]
  PROVE  Published!Next
<1>1. file.id \in Ids
  BY DEF TransferInv, StepInv
<1>2. /\ disk'[Target] = disk[Target] /\ \A id \in Ids : disk'[Backup(id)] = disk[Backup(id)]
      /\ Checked' = Absent /\ Aside' = Absent
  BY <1>1, DiscardLeaves
<1>3. Found' = Found
  BY <1>2, FoundKept
<1> QED
  BY <1>2, <1>3, PublishedGiveUp

\* What is being published is a whole file that was checked.
LEMMA PublishingWhole ==
  ASSUME TransferInv
  PROVE  /\ Publishing => Checked \in WholeFiles /\ Checked # Absent
                          /\ Checked = disk[Temporary(file.id)]
         /\ ~Publishing => Checked = Absent
<1>1. ASSUME Publishing
      PROVE  Checked \in WholeFiles /\ Checked # Absent /\ Checked = disk[Temporary(file.id)]
  <2>1. /\ file.staged /\ file.sound /\ file.received = file.total /\ step # "written"
        /\ file \in FileType /\ file.upload \in 1..MaxUploads
        /\ disk[Temporary(file.id)] = Staged(file.upload, file.total, Written, file.sound)
    BY <1>1, HandlerFacts DEF Publishing, TransferInv, StepInv
  <2>2. Checked = Staged(file.upload, file.total, file.total, file.sound)
    <3>1. Written = file.total
      BY <2>1 DEF Written, FileType
    <3> QED
      BY <1>1, <2>1, <3>1 DEF Checked
  <2>3. file.total \in 0..MaxChunks /\ file.sound \in BOOLEAN
    BY <2>1 DEF FileType
  <2>4. /\ Checked \in StagedContents
        /\ Checked.chunks = file.total /\ Checked.total = file.total /\ Checked.sound = file.sound
        /\ Checked # Absent
    <3> DEFINE u == file.upload  n == file.total  b == file.sound
    <3>1. u \in 1..MaxUploads /\ n \in 0..MaxChunks /\ b \in BOOLEAN /\ Checked = Staged(u, n, n, b)
      BY <2>1, <2>2, <2>3
    <3> HIDE DEF u, n, b
    <3>2. Checked \in StagedContents
      BY <3>1, StagedType
    <3>3. /\ Checked.chunks = n /\ Checked.total = n /\ Checked.sound = b
          /\ Checked # Absent
      BY <3>1, StagedFields
    <3> QED
      BY <3>2, <3>3 DEF n, b
  <2>5. Checked \in WholeFiles
    BY <2>1, <2>4 DEF WholeFiles
  <2> QED
    BY <1>1, <2>4, <2>5 DEF Checked
<1> QED
  BY <1>1 DEF Checked

LEMMA PublishedIsWhole ==
  (TransferInv /\ Publishing => Checked \in WholeFiles)'
<1>1. TransferInv /\ Publishing => Checked \in WholeFiles
  BY PublishingWhole
<1> QED
  BY <1>1, PTL

\* Outside publish(), and at its steps that only look.
LEMMA QuietStutter ==
  ASSUME TransferInv, UNCHANGED <<scripts, displaced>>, disk'[Target] = disk[Target],
         \A id \in Ids : disk'[Backup(id)] = disk[Backup(id)],
         \/ ~Publishing /\ ~Publishing'
         \/ /\ Publishing /\ Publishing' /\ (BackedUp <=> BackedUp')
            /\ file'.id = file.id /\ UNCHANGED disk
  PROVE  UNCHANGED Published!vars
<1>1. Found' = Found
  BY FoundKept
<1>2. BackedUp => Publishing
  BY DEF BackedUp, Publishing
<1>3. BackedUp' => Publishing'
  BY DEF BackedUp, Publishing
<1>4. Checked' = Checked /\ Aside' = Aside
  BY <1>2, <1>3 DEF Checked, Aside
<1> QED
  BY <1>1, <1>4, PublishedStutter

LEMMA RefineUpload ==
  ASSUME TransferInv,
         \/ \E id \in Ids, overwrite \in BOOLEAN, total \in 0..MaxChunks : Begin(id, overwrite, total)
         \/ \E sound \in BOOLEAN : Write(sound)
         \/ BeginExamine \/ BeginOpen \/ WriteFinish \/ Abort \/ Commit \/ Poll
  PROVE  [Published!Next]_(Published!vars)
<1>1. /\ disk \in [Name -> Content] /\ file \in FileType /\ UNCHANGED <<scripts, displaced>>
      /\ ~Publishing /\ (step # "idle" => file.active) /\ (file.active => file.id \in Ids)
  BY TypeParts DEF TransferInv, UploadInv, GateFollowsUpload, StepInv, Typed, Begin, Write,
     BeginExamine, BeginOpen, WriteFinish, Abort, Commit, Poll, Authorized, Publishing, counters
<1>2. CASE file.active /\ Discard(file, disk)
  BY <1>1, <1>2, DiscardGivesUp
<1>3. ASSUME ~Publishing', disk'[Target] = disk[Target],
             \A id \in Ids : disk'[Backup(id)] = disk[Backup(id)]
      PROVE  UNCHANGED Published!vars
  BY <1>1, <1>3, QuietStutter
<1>4. CASE \E id \in Ids, overwrite \in BOOLEAN, total \in 0..MaxChunks : Begin(id, overwrite, total)
  BY <1>3, <1>4 DEF Begin, Publishing
<1>5. CASE BeginOpen
  <2> DEFINE opened == [file EXCEPT !.fd = TRUE, !.staged = TRUE]
             c == Staged(file.upload, file.total, 0, TRUE)
             created == [disk EXCEPT ![Temporary(file.id)] = c]
  <2>1. file.active /\ file.id \in Ids /\ file.upload \in 1..MaxUploads
    BY <1>5, HandlerFacts DEF BeginOpen
  <2>2. c \in Content
    <3>1. file.total \in 0..MaxChunks /\ 0 \in 0..MaxChunks
      BY <1>1 DEF FileType
    <3>2. c \in StagedContents
      BY <2>1, <3>1, StagedType
    <3> HIDE DEF c
    <3> QED
      BY <3>2, ContentFacts
  <2> HIDE DEF c
  <2>3. /\ created \in [Name -> Content] /\ created[Target] = disk[Target]
        /\ \A id \in Ids : created[Backup(id)] = disk[Backup(id)]
    BY <1>1, <2>1, <2>2, NameFacts
  <2>4. opened.id = file.id
    BY <1>1 DEF FileType
  <2>5. \/ disk' = created /\ step' = "idle"
        \/ Discard(opened, created)
        \/ Discard(file, disk)
    BY <1>5, Zenon DEF BeginOpen, created, opened, c
  <2> HIDE DEF opened, created
  <2>6. CASE disk' = created /\ step' = "idle"
    BY <1>3, <2>3, <2>6 DEF Publishing
  <2>7. CASE Discard(opened, created)
    BY <1>1, <2>1, <2>3, <2>4, <2>7, DiscardGivesUp
  <2> QED
    BY <1>2, <2>1, <2>5, <2>6, <2>7
<1>6. CASE \E sound \in BOOLEAN : Write(sound)
  <2>1. file.active /\ file.id \in Ids
    BY <1>1, <1>6 DEF Write, Authorized
  <2>2. CASE step' = "written" /\ \E c : disk' = [disk EXCEPT ![Temporary(file.id)] = c]
    BY <1>1, <1>3, <2>1, <2>2, NameFacts DEF Publishing
  <2> QED
    BY <1>2, <1>6, <2>1, <2>2 DEF Write
<1>7. CASE BeginExamine \/ WriteFinish \/ Abort \/ Commit \/ Poll
  <2>1. file.active
    BY <1>1, <1>7 DEF BeginExamine, WriteFinish, Abort, Commit, Poll, Authorized
  <2>2. CASE step' \in {"open", "idle", "synced"} /\ UNCHANGED disk
    BY <1>3, <2>2 DEF Publishing
  <2> QED
    BY <1>2, <1>7, <2>1, <2>2 DEF BeginExamine, WriteFinish, Abort, Commit, Poll
<1> QED
  BY <1>4, <1>5, <1>6, <1>7

\* The last look at the session and a close that succeeds pass the file for published.
LEMMA RefineClose ==
  ASSUME TransferInv, TransferInv', CommitClose
  PROVE  Published!Next
<1> DEFINE unclosed == [file EXCEPT !.fd = FALSE, !.poisoned = TRUE]
<1>1. /\ disk \in [Name -> Content] /\ file \in FileType /\ UNCHANGED <<scripts, displaced>>
      /\ file.active /\ ~Publishing /\ ~BackedUp
  BY HandlerFacts DEF CommitClose, Publishing, BackedUp, counters
<1>2. unclosed.id = file.id
  BY <1>1 DEF FileType
<1> HIDE DEF unclosed
<1>3. CASE Discard(file, disk) \/ Discard(unclosed, disk)
  BY <1>1, <1>2, <1>3, DiscardGivesUp
<1>4. CASE step' = "publish" /\ UNCHANGED disk
  <2>1. Publishing' /\ ~BackedUp'
    BY <1>4 DEF Publishing, BackedUp
  <2>2. Checked' \in WholeFiles
    BY <2>1, PublishedIsWhole
  <2>3. Checked = Absent /\ Aside' = Aside
    BY <1>1, <2>1 DEF Checked, Aside
  <2>4. Found' = Found
    BY <1>1, <1>4, FoundKept
  <2> QED
    BY <1>1, <2>2, <2>3, <2>4, PublishedCheck
<1> QED
  BY <1>3, <1>4 DEF CommitClose, unclosed

\* The content is replaced, set aside or put back by a rename, and by nothing else.
LEMMA RefinePublish ==
  ASSUME TransferInv,
         \/ PublishExamine \/ PublishRename \/ PublishBackup \/ PublishSwap \/ PublishRollback
         \/ PublishUnlink
  PROVE  [Published!Next]_(Published!vars)
<1>1. /\ disk \in [Name -> Content] /\ file \in FileType /\ UNCHANGED scripts
      /\ file.active /\ file.id \in Ids /\ (step = "unlink" \/ Publishing)
      /\ file.upload # 0
  BY HandlerFacts DEF PublishExamine, PublishRename, PublishBackup, PublishSwap, PublishRollback,
     PublishUnlink, Publishing, counters
<1>2. Publishing => Checked # Absent /\ Checked = disk[Temporary(file.id)]
  BY PublishingWhole
<1>3. CASE Discard(file, disk) /\ UNCHANGED displaced
  BY <1>1, <1>3, DiscardGivesUp
<1>4. CASE PublishExamine
  <2>1. CASE step' = "rename" /\ UNCHANGED <<file, disk>>
    BY <1>1, <1>4, <2>1, QuietStutter DEF PublishExamine, Publishing, BackedUp
  <2> QED
    BY <1>3, <1>4, <2>1 DEF PublishExamine
<1>5. CASE PublishRename
  <2> DEFINE unstaged == [file EXCEPT !.staged = FALSE]
             moved == Moved(disk, Temporary(file.id), Target)
  <2>1. Publishing
    BY <1>5 DEF PublishRename, Publishing
  <2>2. unstaged.id = file.id
    BY <1>1 DEF FileType
  <2>3. moved \in [Name -> Content] /\ moved[Target] = disk[Temporary(file.id)]
    BY <1>1, NameFacts, MovedFacts
  <2> HIDE DEF unstaged, moved
  <2>4. CASE Discard(unstaged, moved)
    <3>1. disk'[Target] = Checked /\ Checked' = Absent /\ Aside' = Absent
      BY <1>1, <1>2, <2>1, <2>2, <2>3, <2>4, DiscardLeaves
    <3>2. Found' = Checked
      BY <1>2, <2>1, <3>1 DEF Found, IsFree
    <3> QED
      BY <1>1, <1>2, <2>1, <3>1, <3>2, PublishedReplace
  <2>5. CASE step = "rename" /\ step' = "backup" /\ UNCHANGED <<file, disk, displaced>>
    BY <1>1, <2>5, QuietStutter DEF Publishing, BackedUp
  <2> QED
    BY <1>3, <1>5, <2>4, <2>5 DEF PublishRename, unstaged, moved
<1>6. CASE PublishBackup
  <2>1. CASE /\ ~IsFree(Target)
             /\ disk' = Moved(disk, Target, Backup(file.id))
             /\ displaced' = [id |-> file.id, upload |-> file.upload]
             /\ step = "backup" /\ step' = "swap" /\ UNCHANGED file
    <3>1. Publishing /\ Publishing' /\ BackedUp'
      BY <2>1 DEF Publishing, BackedUp
    <3>2. /\ disk'[Target] = Absent /\ disk'[Backup(file.id)] = disk[Target]
          /\ disk'[Temporary(file.id)] = disk[Temporary(file.id)]
      BY <1>1, <2>1, NameFacts, MovedFacts
    <3>3. displaced'.id = file.id /\ displaced' # NotDisplaced
      BY <1>1, <2>1 DEF NotDisplaced
    <3>4. Found = disk[Target] /\ Found' = disk[Target]
      BY <2>1, <3>2, <3>3 DEF Found, IsFree
    <3>5. Aside' = disk[Target] /\ Checked' = Checked
      BY <2>1, <3>1, <3>2 DEF Aside, Checked
    <3> QED
      BY <1>1, <1>2, <3>1, <3>4, <3>5, PublishedSetAside
  <2> QED
    BY <1>3, <1>6, <2>1 DEF PublishBackup
<1>7. CASE PublishSwap
  <2>1. CASE step = "swap" /\ step' = "rollback" /\ UNCHANGED <<file, disk, displaced>>
    BY <1>1, <2>1, QuietStutter DEF Publishing, BackedUp
  <2>2. CASE /\ disk' = Moved(disk, Temporary(file.id), Target)
             /\ step = "swap" /\ step' = "unlink"
    <3>1. Publishing /\ Checked' = Absent /\ Aside' = Absent
      BY <2>2 DEF Publishing, BackedUp, Checked, Aside
    <3>2. disk'[Target] = Checked
      BY <1>1, <1>2, <2>2, <3>1, NameFacts, MovedFacts
    <3>3. Found' = Checked
      BY <1>2, <3>1, <3>2 DEF Found, IsFree
    <3> QED
      BY <1>1, <1>2, <3>1, <3>3, PublishedReplace
  <2> QED
    BY <1>7, <2>1, <2>2 DEF PublishSwap
<1>8. CASE PublishRollback
  <2> DEFINE moved == Moved(disk, Backup(file.id), Target)
  <2>1. BackedUp /\ Aside = disk[Backup(file.id)] /\ Aside # Absent
    BY <1>8 DEF PublishRollback, BackedUp, Aside, TransferInv, BackupInv, IsFree
  <2>2. moved \in [Name -> Content] /\ moved[Target] = Aside
    BY <1>1, <2>1, NameFacts, MovedFacts
  <2> HIDE DEF moved
  <2>3. CASE Discard(file, moved)
    <3>1. disk'[Target] = Aside /\ Checked' = Absent /\ Aside' = Absent
      BY <1>1, <2>2, <2>3, DiscardLeaves
    <3>2. Found' = Aside
      BY <2>1, <3>1 DEF Found, IsFree
    <3> QED
      BY <1>1, <2>1, <3>1, <3>2, PublishedGiveUp
  <2> QED
    BY <1>3, <1>8, <2>3 DEF PublishRollback, moved
<1>9. CASE PublishUnlink
  <2> DEFINE unlinked == [disk EXCEPT ![Backup(file.id)] = Absent]
  <2>1. displaced = NotDisplaced /\ UNCHANGED displaced
    BY <1>9 DEF PublishUnlink, TransferInv, BackupInv
  <2>2. unlinked \in [Name -> Content] /\ unlinked[Target] = disk[Target]
    BY <1>1, NameFacts, ContentFacts
  <2> HIDE DEF unlinked
  <2>3. CASE Discard(file, unlinked)
    <3>1. disk'[Target] = disk[Target] /\ Checked' = Absent /\ Aside' = Absent
      BY <1>1, <2>2, <2>3, DiscardLeaves
    <3>2. Found' = Found
      BY <2>1, <3>1 DEF Found, IsFree
    <3> QED
      BY <1>1, <3>1, <3>2, PublishedGiveUp
  <2> QED
    BY <1>3, <1>9, <2>1, <2>3 DEF PublishUnlink, unlinked
<1> QED
  BY <1>4, <1>5, <1>6, <1>7, <1>8, <1>9

LEMMA RefineOthers ==
  ASSUME TransferInv, Wait \/ SessionChange \/ Script \/ Crash
  PROVE  [Published!Next]_(Published!vars)
<1>1. disk \in [Name -> Content] /\ file \in FileType /\ (Publishing => file.id \in Ids)
  BY TypeParts DEF TransferInv, UploadInv, GateFollowsUpload, StepInv, Typed, Publishing
<1>2. CASE Wait \/ SessionChange
  <2>1. UNCHANGED <<step, disk, scripts, displaced>> /\ file'.id = file.id
    BY <1>1, <1>2 DEF Wait, SessionChange, counters, FileType
  <2> QED
    BY <2>1, QuietStutter DEF Publishing, BackedUp
<1>3. CASE Script
  <2>1. /\ UNCHANGED <<file, step>> /\ scripts' = scripts + 1 /\ displaced' = NotDisplaced
        /\ \E c \in {Absent, Scripted} : disk' = [disk EXCEPT ![Target] = c]
    BY <1>3 DEF Script
  <2>2. /\ disk'[Target] \in {Absent, Scripted}
        /\ \A name \in Name \ {Target} : disk'[name] = disk[name]
    BY <1>1, <2>1, NameFacts
  <2>3. Found' \in {Absent, Scripted}
    BY <2>1, <2>2 DEF Found, IsFree
  <2>4. (BackedUp => Publishing) /\ (Publishing' <=> Publishing) /\ (BackedUp' <=> BackedUp)
    BY <2>1 DEF Publishing, BackedUp
  <2>5. Checked' = Checked /\ Aside' = Aside
    BY <1>1, <2>1, <2>2, <2>4, NameFacts DEF Checked, Aside
  <2> QED
    BY <2>1, <2>3, <2>5, PublishedScript
<1>4. CASE Crash
  <2>1. step' = "idle" /\ UNCHANGED <<disk, scripts, displaced>>
    BY <1>4 DEF Crash
  <2>2. Found' = Found
    BY <2>1, FoundKept
  <2> QED
    BY <2>1, <2>2, IdleNothing, PublishedGiveUp
<1> QED
  BY <1>2, <1>3, <1>4

LEMMA PublishedInit == Init => Published!Init
<1> SUFFICES ASSUME Init PROVE Published!Init
  OBVIOUS
<1>1. Found \in {Absent, Old, Directory}
  BY NameFacts DEF Init, Found, IsFree
<1>2. ~Publishing /\ ~BackedUp /\ scripts = 0
  BY DEF Init, Publishing, BackedUp
<1> QED
  BY <1>1, <1>2 DEF Published!Init

LEMMA PublishedStep ==
  TransferInv /\ TransferInv' /\ [Next]_vars => [Published!Next]_(Published!vars)
<1> SUFFICES ASSUME TransferInv, TransferInv', [Next]_vars PROVE [Published!Next]_(Published!vars)
  OBVIOUS
<1>1. CASE UNCHANGED vars
  <2>1. UNCHANGED <<step, disk, scripts, displaced, file>>
    BY <1>1 DEF vars
  <2> QED
    BY <2>1, QuietStutter DEF Publishing, BackedUp
<1>2. CASE Next
  BY <1>2, RefineUpload, RefineClose, RefinePublish, RefineOthers DEF Next, Continue
<1> QED
  BY <1>1, <1>2

\* The content of the target is replaced in one step, by a whole upload that was checked,
\* or stays where it can be found: whichever call of publish() fails, whenever the power
\* fails, the owner leaves or a script interferes.  Only what scripts did between its
\* two renames may a publication that is given up undo.
THEOREM PublishCorrect == Spec => ReplacesAtomically
BY PublishedInit, PublishedStep, TransferCorrect, PTL DEF Spec, ReplacesAtomically, Published!Spec

(***************************************************************************)
(* The upload and the network service side by side.                        *)
(***************************************************************************)
\* A step of one service is a step that the other does not notice, so what holds of each
\* alone holds of both: the upload's gate counts it, and the gate between the owner's
\* operations and Python holds (ServicesInv), for any ids, networks and bounds.
THEOREM ServicesCorrect == ServicesSpec => []ServicesInv
<1> DEFINE Inv == TransferInv /\ GateInv /\ ResultInv
<1>1. ServicesInit => Inv
  BY TransferInit, GateInitially, ResultInitially DEF ServicesInit
<1>2. [UploadMoves \/ NetworkMoves]_servicesVars => [Next]_vars /\ [NetworkNext]_netVars
  BY DEF servicesVars, UploadMoves, NetworkMoves
<1>3. Inv /\ [UploadMoves \/ NetworkMoves]_servicesVars => Inv'
  BY <1>2, TransferStep, ResultStays
<1>4. Inv => ServicesInv
  BY ResultTyped DEF TransferInv, ServicesInv
<1> HIDE DEF Inv
<1> QED
  BY <1>1, <1>3, <1>4, PTL DEF ServicesSpec
=============================================================================
