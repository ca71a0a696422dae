--------------------------- MODULE PublishedFile ---------------------------
(***************************************************************************)
(* What an upload promises to whoever owns the file it replaces            *)
(* (platform/ev_file_transfer.c): the content is replaced in one step, by  *)
(* a whole file that was checked first, or it is not touched.  A power     *)
(* failure is a step like any other.  Scripts change the file as they      *)
(* like; their steps are counted so that no other step may pass for one.   *)
(* A publication that is given up may undo what they did since it set the  *)
(* content aside, and nothing else.                                        *)
(***************************************************************************)
EXTENDS Naturals

CONSTANTS
  Initial,  \* what the file may hold at first
  Whole,    \* complete uploads whose digest matched
  Other,    \* what a script may leave
  Nothing   \* no upload is being published

VARIABLES
  content,  \* what the owner of the file can still find
  checked,  \* the upload that is being published
  aside,    \* the content its publication has set aside
  scripts   \* steps of scripts so far

vars == <<content, checked, aside, scripts>>

Init ==
  /\ content \in Initial
  /\ checked = Nothing
  /\ aside = Nothing
  /\ scripts = 0

\* Size, digest, synchronisation, owner and close have all been checked.
Check(upload) ==
  /\ checked = Nothing
  /\ checked' = upload
  /\ UNCHANGED <<content, aside, scripts>>

SetAside ==
  /\ checked # Nothing
  /\ aside' = content
  /\ UNCHANGED <<content, checked, scripts>>

Replace ==
  /\ checked # Nothing
  /\ content' = checked
  /\ checked' = Nothing
  /\ aside' = Nothing
  /\ UNCHANGED scripts

\* An error, or the power failed.  What was set aside is put back, or stays where
\* it can be found: the same, unless a script has changed the file meanwhile.
GiveUp ==
  /\ checked' = Nothing
  /\ aside' = Nothing
  /\ content' = content \/ (aside # Nothing /\ content' = aside)
  /\ UNCHANGED scripts

Script ==
  /\ content' \in Other
  /\ scripts' = scripts + 1
  /\ UNCHANGED <<checked, aside>>

Next ==
  \/ \E upload \in Whole : Check(upload)
  \/ SetAside \/ Replace \/ GiveUp \/ Script

Spec == Init /\ [][Next]_vars
=============================================================================
