------------------------------- MODULE Maintenance -------------------------------
(***************************************************************************)
(* What keeps an installation: the hourly maintenance beside the workflows *)
(* (Operations), and the operator's backups and restores, for which every  *)
(* process is stopped (Backups).  The two share nothing: what a backup     *)
(* saves is the database, whatever workflows have written to it.           *)
(***************************************************************************)
EXTENDS Operations

CONSTANTS Objects  \* the objects that are ever stored

VARIABLES kind, running, file, journal, made, stored, archive, phase, snapshot, torn

K == INSTANCE Backups
saving == <<kind, running, file, journal, made, stored, archive, phase, snapshot, torn>>

\* A backup has all its rows name, a restore brings exactly them back, and no
\* row of a running installation names a missing object: see Backups.
BackupsHold == K!BackupsHold
==================================================================================
