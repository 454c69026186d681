-------------------------------- MODULE Operations --------------------------------
(***************************************************************************)
(* Maintenance beside the work it maintains: the retirement of workflow    *)
(* history (core/workflow_storage.py) and the integrity scan               *)
(* (operations/workflows.py), by the hourly maintenance workflow.          *)
(*                                                                         *)
(* The execution of workflows is DBOS's, modelled from how src/ uses it: a *)
(* workflow does one datasource step, whose receipt commits with its       *)
(* effect, then may enqueue a child; a worker replays what is recorded.    *)
(***************************************************************************)
EXTENDS Naturals, FiniteSets

CONSTANTS Flows,      \* workflow ids
          ChildOf,    \* the child each of them enqueues, or NoFlow
          NoFlow,
          BatchSize,  \* rows retired by one transaction
          Scanners,   \* executors of integrity scans: one may be thought dead
          MaxScans,   \* bound: scans started
          MaxPaths,   \* bound: thumbnails ever published
          MaxFaults   \* bound: faults and interventions

\* The id of a child belongs to one parent (enqueue_child_workflow).
ASSUME FlowsAssumption ==
  /\ NoFlow \notin Flows /\ ChildOf \in [Flows -> Flows \cup {NoFlow}]
  /\ \A p, q \in Flows : ChildOf[p] = ChildOf[q] /\ ChildOf[p] # NoFlow => p = q
ASSUME BoundsAssumption ==
  {BatchSize, MaxScans, MaxFaults} \subseteq Nat /\ MaxPaths \in Nat \ {0}

VARIABLES row,      \* workflow_status
          old,      \* completed before the retention horizon
          op,       \* operation_outputs
          receipt,  \* datasource outputs
          at,       \* where the worker of a workflow is
          late,     \* an interrupted step may still record its error
          round,    \* the cleanup in progress
          ran,      \* history: commits of each workflow's step
          thumb,    \* thumbnail of a File Revision: its path, and the one its size is of
          scan,     \* the scan of each scanner
          started,  \* scans started so far, which is the clock
          shown,    \* the maintenance snapshot
          faults

flows == <<row, old, op, receipt, at, late, ran>>
scans == <<thumb, scan, started, shown>>
vars == <<flows, round, scans, faults>>

Ended == {"success", "error", "stopped"}  \* stopped: cancelled, or recovered too often
Runnable == {"queued", "running"}
Rest == [phase |-> "rest", picked |-> {}, retired |-> FALSE, fresh |-> {}]
NoScan == [phase |-> "idle", start |-> 0, path |-> 0]

TypeOK ==
  /\ row \in [Flows -> {"none", "gone"} \cup Runnable \cup Ended]
  /\ old \in [Flows -> BOOLEAN] /\ late \in [Flows -> BOOLEAN]
  /\ op \in [Flows -> SUBSET {"work", "child"}]
  /\ receipt \in [Flows -> {"none", "ok", "error"}]
  /\ at \in [Flows -> {"idle", "work", "record", "child", "link", "end", "failed"}]
  /\ ran \in [Flows -> 0..2]
  /\ round \in [phase : {"rest", "history", "sweep"}, picked : SUBSET Flows,
                retired : BOOLEAN, fresh : SUBSET Flows]
  /\ thumb \in [path : 1..MaxPaths, sized : 0..MaxPaths]
  /\ scan \in [Scanners -> [phase : {"idle", "reading", "failing"}, start : 0..MaxScans,
                            path : 0..MaxPaths]]
  /\ started \in 0..MaxScans
  /\ shown \in [start : 0..MaxScans, failed : BOOLEAN]
  /\ faults \in 0..MaxFaults

Children == {ChildOf[w] : w \in Flows}
Exists(w) == row[w] \notin {"none", "gone"}
Goes(w, place) == at' = [at EXCEPT ![w] = place]
Fault == faults < MaxFaults /\ faults' = faults + 1
Notes(w) == round' = [round EXCEPT !.fresh = @ \cup {w}]  \* a receipt of this round

-------------------------------------------------------------------------------
(* DBOS.                                                                    *)

Submit(w) ==
  /\ row[w] = "none" /\ w \notin Children
  /\ row' = [row EXCEPT ![w] = "queued"]
  /\ UNCHANGED <<old, op, receipt, at, late, ran, round, scans, faults>>
Start(w) ==
  /\ row[w] = "queued" /\ row' = [row EXCEPT ![w] = "running"] /\ Goes(w, "work")
  /\ UNCHANGED <<old, op, receipt, late, ran, round, scans, faults>>

Work(w) ==
  /\ at[w] = "work"
  /\ \/ /\ "work" \in op[w] /\ Goes(w, "child") /\ UNCHANGED <<receipt, ran, round>>
     \/ /\ "work" \notin op[w] /\ receipt[w] # "none"
        /\ Goes(w, IF receipt[w] = "ok" THEN "record" ELSE "failed")
        /\ UNCHANGED <<receipt, ran, round>>
     \/ /\ "work" \notin op[w] /\ receipt[w] = "none"
        /\ receipt' = [receipt EXCEPT ![w] = "ok"] /\ ran' = [ran EXCEPT ![w] = @ + 1]
        /\ Goes(w, "record") /\ Notes(w)
  /\ UNCHANGED <<row, old, op, late, scans, faults>>
WorkRaises(w) ==
  /\ at[w] = "work" /\ "work" \notin op[w] /\ receipt[w] = "none" /\ Fault
  /\ receipt' = [receipt EXCEPT ![w] = "error"] /\ Goes(w, "failed") /\ Notes(w)
  /\ UNCHANGED <<row, old, op, late, ran, scans>>
Record(w) ==
  /\ at[w] = "record" /\ op' = [op EXCEPT ![w] = @ \cup {"work"}] /\ Goes(w, "child")
  /\ UNCHANGED <<row, old, receipt, late, ran, round, scans, faults>>
\* enqueue_child_workflow: the row of the child, naming its parent, then the output
\* of the operation.  A child that is there already is left alone.
Enqueue(w) ==
  LET c == ChildOf[w] IN
  /\ at[w] = "child"
  /\ IF c = NoFlow \/ "child" \in op[w] THEN Goes(w, "end") /\ UNCHANGED row
     ELSE Goes(w, "link") /\ row' = IF Exists(c) THEN row ELSE [row EXCEPT ![c] = "queued"]
  /\ UNCHANGED <<old, op, receipt, late, ran, round, scans, faults>>
Link(w) ==
  /\ at[w] = "link" /\ op' = [op EXCEPT ![w] = @ \cup {"child"}] /\ Goes(w, "end")
  /\ UNCHANGED <<row, old, receipt, late, ran, round, scans, faults>>
Finish(w) ==
  /\ at[w] \in {"end", "failed"} /\ Goes(w, "idle")
  /\ row' = [row EXCEPT ![w] = IF at[w] = "end" THEN "success" ELSE "error"]
  /\ receipt' = [receipt EXCEPT ![w] = IF at[w] = "end" THEN "none" ELSE @]
  /\ UNCHANGED <<old, op, late, ran, round, scans, faults>>

\* A cancelled workflow stops; the step it was in may yet record an error.
Cancel(w) ==
  /\ row[w] \in Runnable /\ Fault
  /\ row' = [row EXCEPT ![w] = "stopped"] /\ Goes(w, "idle")
  /\ late' = [late EXCEPT ![w] = @ \/ at[w] = "work"]
  /\ UNCHANGED <<old, op, receipt, ran, round, scans>>
RecordLate(w) ==
  /\ late[w] /\ late' = [late EXCEPT ![w] = FALSE]
  /\ receipt' = [receipt EXCEPT ![w] = IF @ = "none" THEN "error" ELSE @] /\ Notes(w)
  /\ UNCHANGED <<row, old, op, at, ran, scans, faults>>
Resume(w) ==
  /\ row[w] = "stopped" /\ Fault
  /\ row' = [row EXCEPT ![w] = "queued"] /\ old' = [old EXCEPT ![w] = FALSE]
  /\ UNCHANGED <<op, receipt, at, late, ran, round, scans>>
\* The executor dies, and recovery starts the workflow again.
Recover(w) ==
  /\ at[w] # "idle" /\ Fault /\ Goes(w, "work")
  /\ UNCHANGED <<row, old, op, receipt, late, ran, round, scans>>
Age(w) ==
  /\ row[w] \in Ended /\ ~old[w] /\ old' = [old EXCEPT ![w] = TRUE]
  /\ UNCHANGED <<row, op, receipt, at, late, ran, round, scans, faults>>

-------------------------------------------------------------------------------
(* cleanup_retained_data_step: workflow history, then datasource orphans.    *)

\* Mutant: no thought of parents.
KeptByNobody(w) == FALSE
Kept(w) == \E p \in Flows : ChildOf[p] = w /\ Exists(p)
Expired(w) == row[w] \in Ended /\ old[w]
Eligible == {w \in Flows : Expired(w) /\ ~Kept(w)}

StartRound ==
  /\ round.phase = "rest" /\ round' = [Rest EXCEPT !.phase = "history"]
  /\ UNCHANGED <<flows, scans, faults>>
Pick ==
  /\ round.phase = "history" /\ round.picked = {}
  /\ \E s \in SUBSET Eligible :
       /\ Cardinality(s) <= BatchSize /\ (s = {} => Eligible = {})
       /\ round' = IF s = {} THEN [round EXCEPT !.phase = "sweep"]
                   ELSE [round EXCEPT !.picked = s]
  /\ UNCHANGED <<flows, scans, faults>>
\* The predicate of the DELETE is evaluated again on a row that changed meanwhile.
\* Mutant: it is not.
RecheckedNever(s) == s
Rechecked(s) == {w \in s : Expired(w)}
\* The status row, then what has no foreign key to it, in one transaction.
Retire ==
  LET s == Rechecked(round.picked) IN
  /\ round.phase = "history" /\ round.picked # {}
  /\ row' = [w \in Flows |-> IF w \in s THEN "gone" ELSE row[w]]
  /\ op' = [w \in Flows |-> IF w \in s THEN {} ELSE op[w]]
  /\ receipt' = [w \in Flows |-> IF w \in s THEN "none" ELSE receipt[w]]
  /\ round' = [round EXCEPT !.picked = {}, !.retired = @ \/ s # {},
                            !.phase = IF s = {} THEN "sweep" ELSE @]
  /\ UNCHANGED <<old, at, late, ran, scans, faults>>
\* purge_orphan_datasource_outputs, of what was written before the round.
\* Mutant: only when the round has retired a workflow.
SweepAfterRetiring ==
  /\ round.phase = "sweep" /\ round' = Rest
  /\ receipt' = [w \in Flows |-> IF round.retired /\ ~Exists(w) /\ w \notin round.fresh
                                   THEN "none" ELSE receipt[w]]
  /\ UNCHANGED <<row, old, op, at, late, ran, scans, faults>>
Sweep ==
  /\ round.phase = "sweep" /\ round' = Rest
  /\ receipt' = [w \in Flows |-> IF ~Exists(w) /\ w \notin round.fresh
                                   THEN "none" ELSE receipt[w]]
  /\ UNCHANGED <<row, old, op, at, late, ran, scans, faults>>
RoundFails ==
  /\ round.phase # "rest" /\ Fault /\ round' = Rest
  /\ UNCHANGED <<flows, scans>>

-------------------------------------------------------------------------------
(* scan_objects_step: what it shows, and the thumbnail sizes it fills in.     *)

\* A publication replaces the thumbnail and knows its size; a row from before sizes
\* were kept does not.
Publish ==
  /\ thumb.path < MaxPaths
  /\ thumb' = [path |-> thumb.path + 1, sized |-> thumb.path + 1]
  /\ UNCHANGED <<flows, round, scan, started, shown, faults>>
StartScan(x) ==
  /\ scan[x].phase = "idle" /\ started < MaxScans /\ started' = started + 1
  /\ scan' = [scan EXCEPT ![x] = [phase |-> "reading", start |-> started + 1,
                                  path |-> IF thumb.sized = 0 THEN thumb.path ELSE 0]]
  /\ UNCHANGED <<flows, round, thumb, shown, faults>>
ScanRaises(x) ==
  /\ scan[x].phase = "reading" /\ Fault /\ scan' = [scan EXCEPT ![x].phase = "failing"]
  /\ UNCHANGED <<flows, round, thumb, started, shown>>
Later(start) == shown.start <= start
\* _save_integrity_snapshot.
Shows(x, failed) ==
  shown' = IF Later(scan[x].start) THEN [start |-> scan[x].start, failed |-> failed] ELSE shown
Repairs(x) == scan[x].path = thumb.path /\ thumb.sized = 0
RecordScan(x) ==
  /\ scan[x].phase = "reading" /\ scan' = [scan EXCEPT ![x] = NoScan] /\ Shows(x, FALSE)
  /\ thumb' = IF Repairs(x) THEN [thumb EXCEPT !.sized = scan[x].path] ELSE thumb
  /\ UNCHANGED <<flows, round, started, faults>>
RecordFailure(x) ==
  /\ scan[x].phase = "failing" /\ scan' = [scan EXCEPT ![x] = NoScan] /\ Shows(x, TRUE)
  /\ UNCHANGED <<flows, round, thumb, started, faults>>

-------------------------------------------------------------------------------
Init ==
  /\ row = [w \in Flows |-> "none"] /\ old = [w \in Flows |-> FALSE]
  /\ op = [w \in Flows |-> {}] /\ receipt = [w \in Flows |-> "none"]
  /\ at = [w \in Flows |-> "idle"] /\ late = [w \in Flows |-> FALSE]
  /\ ran = [w \in Flows |-> 0] /\ round = Rest
  /\ thumb \in [path : {1}, sized : {0, 1}] /\ scan = [x \in Scanners |-> NoScan]
  /\ started = 0 /\ shown = [start |-> 0, failed |-> FALSE] /\ faults = 0

Advance(w) == Start(w) \/ Work(w) \/ Record(w) \/ Enqueue(w) \/ Link(w) \/ Finish(w)
Execution ==
  \E w \in Flows : \/ Submit(w) \/ Advance(w) \/ WorkRaises(w)
                   \/ Cancel(w) \/ RecordLate(w) \/ Resume(w) \/ Recover(w) \/ Age(w)
History == StartRound \/ Pick \/ Retire \/ Sweep \/ RoundFails
Scan == \/ Publish
        \/ \E x \in Scanners : StartScan(x) \/ ScanRaises(x) \/ RecordScan(x) \/ RecordFailure(x)
Next == Execution \/ History \/ Scan

\* Workers advance, time passes and the maintenance schedule fires.
Works == /\ \A w \in Flows : WF_vars(Advance(w)) /\ WF_vars(Age(w))
         /\ WF_vars(StartRound) /\ WF_vars(Pick) /\ WF_vars(Retire) /\ WF_vars(Sweep)
Spec == Init /\ [][Next]_vars /\ Works

-------------------------------------------------------------------------------
\* What a workflow does takes effect once, however it is cancelled, resumed,
\* recovered and retired: its records outlive every execution that could repeat it,
\* and a child its parent could enqueue again is not forgotten.
WorkDoneOnce == \A w \in Flows : ran[w] <= 1

\* A workflow that was resumed is not retired by a cleanup that had picked it before.
ResumedRunsOn == [][\A w \in Flows : row[w] \in Runnable => row'[w] # "gone"]_vars

\* Every workflow that ended for good leaves the store with all its records, the
\* receipts that arrive late included.
RecordsGo ==
  \A w \in Flows : row[w] \in Ended \/ receipt[w] # "none"
                     ~> row[w] \in Runnable \/ (row[w] = "gone" /\ receipt[w] = "none")

\* What the administrator is shown never gives way to an older scan, and a size
\* found by a scan is that of the thumbnail it is written beside.
ScansStand == [][shown'.start >= shown.start]_vars /\ [](thumb.sized \in {0, thumb.path})

\* Maintenance takes nothing back: neither a workflow that was resumed beside a
\* cleanup, nor the scan that is shown.
MaintenanceStands == ResumedRunsOn /\ ScansStand
===================================================================================
