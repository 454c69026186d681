-------------------------------- MODULE Backups --------------------------------
(***************************************************************************)
(* Backup, restore and compaction of an installation that keeps its        *)
(* objects locally (operations/maintenance.py, operations/compaction.py).  *)
(*                                                                         *)
(* The operator stops every process, runs one command, and starts the      *)
(* processes again when none is unfinished: an interrupted restore is run  *)
(* anew.  Any command may fail or be killed between two of its file        *)
(* operations.  The database is what its rows name, the keys of objects;   *)
(* SQLite finds them in the file and, on top of it, in the journal beside  *)
(* it, PostgreSQL in its tables.                                           *)
(***************************************************************************)
EXTENDS Naturals, FiniteSets

CONSTANTS Objects  \* the objects that are ever stored, each under a key of its own

VARIABLES kind,     \* the configured database
          running,  \* whether web and worker processes run
          file, journal,
          made,     \* objects that some row has named
          stored,
          archive,  \* the backup at its destination
          phase,    \* of the operator's command
          snapshot, \* its temporary copy of the database
          torn      \* a restore has begun to replace and has not ended

backups == <<kind, running, file, journal, made, stored, archive, phase, snapshot, torn>>

NoJournal == [on |-> FALSE, rows |-> {}]
Rows == IF journal.on THEN journal.rows ELSE file
Sets(rows) ==
  IF kind = "sqlite" THEN journal' = [on |-> TRUE, rows |-> rows] /\ UNCHANGED file
  ELSE file' = rows /\ UNCHANGED journal

\* readable: a zip with a manifest, a database and its checksum.  kept: the
\* command that wrote it reported success.
Archives == [readable : BOOLEAN, kept : BOOLEAN, db : SUBSET Objects, objects : SUBSET Objects]
NoArchive == [readable |-> FALSE, kept |-> FALSE, db |-> {}, objects |-> {}]
Commands == {"idle", "saved", "archiving", "extracted", "replaced", "dropped", "overlaying",
             "restored"}

TypeOK ==
  /\ kind \in {"sqlite", "postgresql"} /\ running \in BOOLEAN /\ torn \in BOOLEAN
  /\ file \in SUBSET Objects /\ made \in SUBSET Objects /\ stored \in SUBSET Objects
  /\ journal \in [on : BOOLEAN, rows : SUBSET Objects]
  /\ archive \in Archives /\ phase \in Commands /\ snapshot \in SUBSET Objects

-------------------------------------------------------------------------------
(* The installation at work: an object is stored before a row names it, and *)
(* removed once none does.                                                  *)

Store(k) ==
  /\ running /\ k \notin stored \cup made
  /\ stored' = stored \cup {k}
  /\ UNCHANGED <<kind, running, file, journal, made, archive, phase, snapshot, torn>>
Name(k) ==
  /\ running /\ k \in stored \ made
  /\ Sets(Rows \cup {k}) /\ made' = made \cup {k}
  /\ UNCHANGED <<kind, running, stored, archive, phase, snapshot, torn>>
Unname(k) ==
  /\ running /\ k \in Rows
  /\ Sets(Rows \ {k})
  /\ UNCHANGED <<kind, running, made, stored, archive, phase, snapshot, torn>>
Collect(k) ==
  /\ running /\ k \in (stored \cap made) \ Rows
  /\ stored' = stored \ {k}
  /\ UNCHANGED <<kind, running, file, journal, made, archive, phase, snapshot, torn>>
\* SQLite copies the journal into the file; a journal that stays has old pages.
Checkpoint ==
  /\ running /\ journal.on
  /\ file' = journal.rows /\ journal' \in {journal, NoJournal}
  /\ UNCHANGED <<kind, running, made, stored, archive, phase, snapshot, torn>>

\* Processes that are killed leave their journal behind.
Stop ==
  /\ running /\ running' = FALSE
  /\ UNCHANGED <<kind, file, journal, made, stored, archive, phase, snapshot, torn>>
Start ==
  /\ ~running /\ phase \in {"idle", "restored"} /\ ~torn
  /\ running' = TRUE /\ phase' = "idle"
  /\ UNCHANGED <<kind, file, journal, made, stored, archive, snapshot, torn>>

Ready == ~running /\ phase \in {"idle", "restored"}

\* compact_sqlite_database: checkpoint, VACUUM, checkpoint, under one lock.
Compact ==
  /\ Ready /\ ~torn /\ kind = "sqlite"
  /\ file' = Rows /\ journal' = NoJournal
  /\ UNCHANGED <<kind, running, made, stored, archive, phase, snapshot, torn>>

-------------------------------------------------------------------------------
(* create_backup: a copy of the database, then the archive.                 *)

SaveDatabase ==
  /\ Ready /\ ~torn
  /\ snapshot' = Rows /\ phase' = "saved"
  /\ UNCHANGED <<kind, running, file, journal, made, stored, archive, torn>>
\* The destination is overwritten, an earlier backup there included.
OpenArchive ==
  /\ phase = "saved" /\ phase' = "archiving"
  /\ archive' = NoArchive
  /\ UNCHANGED <<kind, running, file, journal, made, stored, snapshot, torn>>
ArchiveObject(k) ==
  /\ phase = "archiving" /\ k \in stored \ archive.objects
  /\ archive' = [archive EXCEPT !.objects = @ \cup {k}]
  /\ UNCHANGED <<kind, running, file, journal, made, stored, phase, snapshot, torn>>
\* Mutant: the archive is closed whatever is in it.
CloseArchiveEarly ==
  /\ phase = "archiving" /\ phase' = "idle"
  /\ archive' = [archive EXCEPT !.db = snapshot, !.readable = TRUE, !.kept = TRUE]
  /\ UNCHANGED <<kind, running, file, journal, made, stored, snapshot, torn>>
CloseArchive ==
  /\ phase = "archiving" /\ stored \subseteq archive.objects
  /\ phase' = "idle"
  /\ archive' = [archive EXCEPT !.db = snapshot, !.readable = TRUE, !.kept = TRUE]
  /\ UNCHANGED <<kind, running, file, journal, made, stored, snapshot, torn>>
\* An error closes the archive too, with what it has; a killed command does not.
BackupFails ==
  /\ phase \in {"saved", "archiving"} /\ phase' = "idle"
  /\ archive' \in {archive} \cup
       {[archive EXCEPT !.db = snapshot, !.readable = TRUE] : x \in {phase} \cap {"archiving"}}
  /\ UNCHANGED <<kind, running, file, journal, made, stored, snapshot, torn>>

-------------------------------------------------------------------------------
(* restore_backup --force of an archive whose backup reported success.      *)

\* verify_backup and _extract_backup change nothing of the installation.
Extract ==
  /\ Ready /\ archive.readable /\ archive.kept
  /\ snapshot' = archive.db /\ phase' = "extracted"
  /\ UNCHANGED <<kind, running, file, journal, made, stored, archive, torn>>
\* replacement.replace(target), of a copy made beside it.
ReplaceFile ==
  /\ phase = "extracted" /\ kind = "sqlite"
  /\ file' = snapshot /\ phase' = "replaced" /\ torn' = TRUE
  /\ UNCHANGED <<kind, running, journal, made, stored, archive, snapshot>>
\* Mutant: the journal of the replaced database stays.
KeepJournal ==
  /\ phase = "replaced" /\ phase' = "overlaying"
  /\ UNCHANGED <<kind, running, file, journal, made, stored, archive, snapshot, torn>>
UnlinkJournal ==
  /\ phase = "replaced"
  /\ journal' = NoJournal /\ phase' = "overlaying"
  /\ UNCHANGED <<kind, running, file, made, stored, archive, snapshot, torn>>
\* pg_restore --clean drops the tables, then fills them.
DropTables ==
  /\ phase = "extracted" /\ kind = "postgresql"
  /\ file' = {} /\ phase' = "dropped" /\ torn' = TRUE
  /\ UNCHANGED <<kind, running, journal, made, stored, archive, snapshot>>
FillTables ==
  /\ phase = "dropped"
  /\ file' = snapshot /\ phase' = "overlaying"
  /\ UNCHANGED <<kind, running, journal, made, stored, archive, snapshot, torn>>
OverlayObject(k) ==
  /\ phase = "overlaying" /\ k \in archive.objects \ stored
  /\ stored' = stored \cup {k}
  /\ UNCHANGED <<kind, running, file, journal, made, archive, phase, snapshot, torn>>
RestoreEnds ==
  /\ phase = "overlaying" /\ archive.objects \subseteq stored
  /\ phase' = "restored" /\ torn' = FALSE
  /\ UNCHANGED <<kind, running, file, journal, made, stored, archive, snapshot>>
RestoreFails ==
  /\ phase \in {"extracted", "replaced", "dropped", "overlaying"} /\ phase' = "idle"
  /\ UNCHANGED <<kind, running, file, journal, made, stored, archive, snapshot, torn>>

-------------------------------------------------------------------------------
Init ==
  /\ kind \in {"sqlite", "postgresql"} /\ running = TRUE
  /\ file = {} /\ journal = NoJournal /\ made = {} /\ stored = {}
  /\ archive = NoArchive /\ phase = "idle" /\ snapshot = {} /\ torn = FALSE

Backup ==
  \/ SaveDatabase \/ OpenArchive \/ CloseArchive \/ BackupFails
  \/ \E k \in Objects : ArchiveObject(k)
Restore ==
  \/ Extract \/ ReplaceFile \/ UnlinkJournal \/ DropTables \/ FillTables
  \/ RestoreEnds \/ RestoreFails
  \/ \E k \in Objects : OverlayObject(k)
Installation ==
  \/ Checkpoint \/ Stop \/ Start
  \/ \E k \in Objects : Store(k) \/ Name(k) \/ Unname(k) \/ Collect(k)
Next == Installation \/ Compact \/ Backup \/ Restore
Spec == Init /\ [][Next]_backups

-------------------------------------------------------------------------------
\* A backup that reported success has the objects of all its rows.
BackupIsWhole == archive.kept => archive.readable /\ archive.db \subseteq archive.objects

\* A restore that reports success, however many were interrupted before it,
\* leaves the rows of the backup and no others: the journal of the replaced
\* database is never read again.
RestoredIsSaved == phase = "restored" => Rows = archive.db

\* Whenever the processes run, the objects that rows name are stored.
RowsHaveObjects == running => Rows \subseteq stored

BackupsHold == BackupIsWhole /\ RestoredIsSaved /\ RowsHaveObjects
===============================================================================
