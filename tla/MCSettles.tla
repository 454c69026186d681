------------------------------- MODULE MCSettles -------------------------------
(***************************************************************************)
(* What is started comes to an end: an import of one PDF with one retry;   *)
(* the history of a preparation and of the cleanup it enqueues, while it   *)
(* is cancelled and resumed; or two integrity scans.  Beside them, the     *)
(* operator's backups and restores, and listings of workflows.             *)
(***************************************************************************)
EXTENDS Maintenance
CONSTANTS a, prepares, cleans, x1, x2, o1, o2, PageSize, ScanSize, MaxOld, MaxChanges, MaxGens
VARIABLES cast, upload, batch, granted, wf, seen, store, items, cleanup, sweep, reviewed,
          rows, listing, standing, ended, changes

Family == [w \in Flows |-> IF w = prepares THEN cleans ELSE NoFlow]
B == INSTANCE ImportBatch WITH Sources <- {a}
importing == <<upload, batch, granted, wf, seen, store, items, cleanup, sweep, reviewed>>
L == INSTANCE Listings
ASSUME L!SizesAssumption /\ L!BoundsAssumption
paging == <<rows, listing, standing, ended, changes>>

MCInit ==
  /\ Init /\ B!Init /\ K!Init
  /\ cast \in {"import", "history", "scan", "backup", "listing"}
  /\ IF cast = "listing" THEN L!Init ELSE L!Init /\ rows = <<>>
  /\ cast # "scan" => thumb.sized = 1
  /\ cast # "backup" => kind = "sqlite"
MCNext ==
  /\ \/ cast = "import" /\ B!Next /\ UNCHANGED <<vars, saving, paging>>
     \/ cast = "history" /\ (Execution \/ History) /\ UNCHANGED <<importing, saving, paging>>
     \/ cast = "scan" /\ Scan /\ UNCHANGED <<importing, saving, paging>>
     \/ cast = "backup" /\ K!Next /\ UNCHANGED <<vars, importing, paging>>
     \/ cast = "listing" /\ L!Next /\ UNCHANGED <<vars, importing, saving>>
  /\ UNCHANGED cast
MCSpec ==
  /\ MCInit /\ [][MCNext]_<<vars, importing, saving, paging, cast>>
  /\ cast = "history" => Works
  /\ cast = "import" => B!Works

\* A pending batch is settled whatever fails, objects that nothing owns are
\* collected, and histories leave with all their records: see ImportBatch and
\* Operations.
EverythingSettles == B!PendingSettles /\ B!OrphansGo /\ RecordsGo
\* A listing misses what is active only if it is longer than a page: see Listings.
ListingsHold == L!ListingsHold
================================================================================
