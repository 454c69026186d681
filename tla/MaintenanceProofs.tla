--------------------------- MODULE MaintenanceProofs ---------------------------
(***************************************************************************)
(* Theorems about Operations, for any workflows and their children, any    *)
(* batch size, scanners and faults, and about Backups, for any set of      *)
(* objects and however often the operator's commands fail or are killed.   *)
(***************************************************************************)
EXTENDS Maintenance, TLAPS

-------------------------------------------------------------------------------
(* The inductive invariant of the workflows and their histories.             *)

\* A worker is at a workflow only while its row says so.
RunsWhileAt == \A w \in Flows : at[w] # "idle" => row[w] = "running"
\* Past its step, the step is recorded.
HasWorked == \A w \in Flows : at[w] \in {"child", "link", "end"} => "work" \in op[w]
NoRun == \A w \in Flows : row[w] = "none" => ran[w] = 0
\* A step that took effect can be found: in the record of the operation, or in its
\* receipt.
RanIsKept == \A w \in Flows : ran[w] > 0 /\ Exists(w) => "work" \in op[w] \/ receipt[w] = "ok"
\* A child comes after its parent, and goes after it.
Born == \A p, w \in Flows : ChildOf[p] = w /\ row[w] # "none" => row[p] # "none"
GoneIsOver == \A p, w \in Flows : ChildOf[p] = w /\ row[w] = "gone" => row[p] = "gone"
\* Nobody can enqueue again what a cleanup has picked.
PickedIsOver == \A w \in round.picked :
  row[w] # "none" /\ \A p \in Flows : ChildOf[p] = w => row[p] = "gone"

HistoryOK == /\ RunsWhileAt /\ HasWorked /\ NoRun /\ RanIsKept
             /\ Born /\ GoneIsOver /\ PickedIsOver /\ WorkDoneOnce
SizesOK == thumb.sized \in {0, thumb.path}
OperationsInv == TypeOK /\ HistoryOK /\ SizesOK

LEMMA Bounds ==
  BatchSize \in Nat /\ MaxScans \in Nat /\ MaxFaults \in Nat /\ MaxPaths \in Nat /\ MaxPaths > 0
BY BoundsAssumption

-------------------------------------------------------------------------------
(* Types.                                                                    *)

LEMMA FaultTypes ==
  ASSUME TypeOK, Fault PROVE faults' \in 0..MaxFaults
BY Bounds DEF TypeOK, Fault

LEMMA ExecutionTypes ==
  ASSUME TypeOK, WorkDoneOnce, NEW w \in Flows,
         \/ Submit(w) \/ Advance(w) \/ WorkRaises(w)
         \/ Cancel(w) \/ RecordLate(w) \/ Resume(w) \/ Recover(w) \/ Age(w)
  PROVE  TypeOK'
<1>0. /\ \A v \in Flows : row[v] \in {"none", "gone"} \cup Runnable \cup Ended
      /\ ran[w] + 1 \in 0..2
  BY DEF TypeOK, WorkDoneOnce
<1>1. UNCHANGED scans /\ faults' \in 0..MaxFaults
  BY FaultTypes
  DEF TypeOK, Submit, Advance, Start, Work, Record, Enqueue, Link, Finish, WorkRaises, Cancel,
      RecordLate, Resume, Recover, Age, scans
<1>2. round' = round \/ Notes(w)
  BY DEF Submit, Advance, Start, Work, Record, Enqueue, Link, Finish, WorkRaises, Cancel,
      RecordLate, Resume, Recover, Age
<1>3. round' \in [phase : {"rest", "history", "sweep"}, picked : SUBSET Flows,
                  retired : BOOLEAN, fresh : SUBSET Flows]
  BY <1>2 DEF TypeOK, Notes
<1>4. row' \in [Flows -> {"none", "gone"} \cup Runnable \cup Ended]
  BY FlowsAssumption
  DEF TypeOK, Submit, Advance, Start, Work, Record, Enqueue, Link, Finish, WorkRaises, Cancel,
      RecordLate, Resume, Recover, Age, Runnable, Ended
<1>5. old' \in [Flows -> BOOLEAN]
  BY DEF TypeOK, Submit, Advance, Start, Work, Record, Enqueue, Link, Finish, WorkRaises, Cancel,
      RecordLate, Resume, Recover, Age
<1>6. late' \in [Flows -> BOOLEAN]
  BY DEF TypeOK, Submit, Advance, Start, Work, Record, Enqueue, Link, Finish, WorkRaises, Cancel,
      RecordLate, Resume, Recover, Age
<1>7. op' \in [Flows -> SUBSET {"work", "child"}]
  BY DEF TypeOK, Submit, Advance, Start, Work, Record, Enqueue, Link, Finish, WorkRaises, Cancel,
      RecordLate, Resume, Recover, Age
<1>8. receipt' \in [Flows -> {"none", "ok", "error"}]
  BY DEF TypeOK, Submit, Advance, Start, Work, Record, Enqueue, Link, Finish, WorkRaises, Cancel,
      RecordLate, Resume, Recover, Age
<1>9. at' \in [Flows -> {"idle", "work", "record", "child", "link", "end", "failed"}]
  BY DEF TypeOK, Submit, Advance, Start, Work, Record, Enqueue, Link, Finish, WorkRaises, Cancel,
      RecordLate, Resume, Recover, Age, Goes
<1>10. ran' \in [Flows -> 0..2]
  BY <1>0 DEF TypeOK, Submit, Advance, Start, Work, Record, Enqueue, Link, Finish, WorkRaises, Cancel,
      RecordLate, Resume, Recover, Age
<1> QED BY <1>1, <1>3, <1>4, <1>5, <1>6, <1>7, <1>8, <1>9, <1>10 DEF TypeOK, scans

LEMMA HistoryTypes ==
  ASSUME TypeOK, History PROVE TypeOK'
<1> DEFINE Round == [phase : {"rest", "history", "sweep"}, picked : SUBSET Flows,
                     retired : BOOLEAN, fresh : SUBSET Flows]
<1>0. Rest \in Round BY DEF Rest
<1>1. CASE StartRound \/ RoundFails
  <2>1. round' \in Round BY <1>1, <1>0 DEF StartRound, RoundFails, Rest
  <2>2. UNCHANGED <<flows, scans>> /\ faults' \in 0..MaxFaults
    BY <1>1, FaultTypes DEF StartRound, RoundFails, TypeOK
  <2> QED BY <2>1, <2>2 DEF TypeOK, flows, scans
<1>2. CASE Pick
  <2>1. PICK s \in SUBSET Eligible :
          round' = IF s = {} THEN [round EXCEPT !.phase = "sweep"] ELSE [round EXCEPT !.picked = s]
    BY <1>2 DEF Pick
  <2>2. s \in SUBSET Flows BY DEF Eligible
  <2>3. round' \in Round BY <2>1, <2>2 DEF TypeOK
  <2> QED BY <1>2, <2>3 DEF Pick, TypeOK, flows, scans
<1>3. CASE Retire
  <2>1. /\ row' \in [Flows -> {"none", "gone"} \cup Runnable \cup Ended]
        /\ op' \in [Flows -> SUBSET {"work", "child"}]
        /\ receipt' \in [Flows -> {"none", "ok", "error"}]
    BY <1>3 DEF Retire, TypeOK
  <2>2. round' \in Round BY <1>3 DEF Retire, TypeOK
  <2> QED BY <1>3, <2>1, <2>2 DEF Retire, TypeOK, scans
<1>4. CASE Sweep
  <2>1. receipt' \in [Flows -> {"none", "ok", "error"}] BY <1>4 DEF Sweep, TypeOK
  <2> QED BY <1>0, <1>4, <2>1 DEF Sweep, TypeOK, scans
<1> QED BY <1>1, <1>2, <1>3, <1>4 DEF History

LEMMA ScanTypes ==
  ASSUME TypeOK, Scan PROVE TypeOK'
<1> DEFINE Scans == [phase : {"idle", "reading", "failing"}, start : 0..MaxScans, path : 0..MaxPaths]
<1>0. /\ thumb \in [path : 1..MaxPaths, sized : 0..MaxPaths] /\ started \in 0..MaxScans
      /\ scan \in [Scanners -> Scans] /\ shown \in [start : 0..MaxScans, failed : BOOLEAN]
      /\ NoScan \in Scans /\ MaxScans \in Nat /\ MaxPaths \in Nat
  BY Bounds DEF TypeOK, NoScan
<1>1. CASE Publish
  <2>1. thumb' \in [path : 1..MaxPaths, sized : 0..MaxPaths] BY <1>0, <1>1 DEF Publish
  <2> QED BY <1>1, <2>1 DEF Publish, TypeOK, flows
<1>2. ASSUME NEW x \in Scanners, StartScan(x) PROVE TypeOK'
  <2>1. started' \in 0..MaxScans /\ started' = started + 1 BY <1>0, <1>2 DEF StartScan
  <2>2. (IF thumb.sized = 0 THEN thumb.path ELSE 0) \in 0..MaxPaths BY <1>0
  <2>3. scan' \in [Scanners -> Scans] BY <1>0, <1>2, <2>1, <2>2 DEF StartScan
  <2> QED BY <1>2, <2>1, <2>3 DEF StartScan, TypeOK, flows
<1>3. ASSUME NEW x \in Scanners, ScanRaises(x) PROVE TypeOK'
  <2>1. scan' \in [Scanners -> Scans] BY <1>0, <1>3 DEF ScanRaises
  <2> QED BY <1>3, <2>1, FaultTypes DEF ScanRaises, TypeOK, flows
<1>4. ASSUME NEW x \in Scanners, RecordScan(x) \/ RecordFailure(x) PROVE TypeOK'
  <2>1. scan' \in [Scanners -> Scans] BY <1>0, <1>4 DEF RecordScan, RecordFailure
  <2>2. scan[x].start \in 0..MaxScans /\ scan[x].path \in 0..MaxPaths BY <1>0
  <2>3. \/ shown' = shown
        \/ shown' = [start |-> scan[x].start, failed |-> FALSE]
        \/ shown' = [start |-> scan[x].start, failed |-> TRUE]
    BY <1>4 DEF RecordScan, RecordFailure, Shows
  <2>4. shown' \in [start : 0..MaxScans, failed : BOOLEAN]
    <3>1. CASE shown' = shown BY <1>0, <3>1
    <3>2. CASE shown' = [start |-> scan[x].start, failed |-> FALSE] BY <2>2, <3>2
    <3>3. CASE shown' = [start |-> scan[x].start, failed |-> TRUE] BY <2>2, <3>3
    <3> QED BY <2>3, <3>1, <3>2, <3>3
  <2>5. thumb' = thumb \/ thumb' = [thumb EXCEPT !.sized = scan[x].path]
    BY <1>4 DEF RecordScan, RecordFailure
  <2>6. thumb' \in [path : 1..MaxPaths, sized : 0..MaxPaths] BY <1>0, <2>2, <2>5
  <2> QED BY <1>4, <2>1, <2>4, <2>6 DEF RecordScan, RecordFailure, TypeOK, flows
<1> QED BY <1>1, <1>2, <1>3, <1>4 DEF Scan

-------------------------------------------------------------------------------
(* Steps of a worker and of the operator keep the histories.                 *)

\* What the invariant says of one workflow by itself.
Own(w) ==
  /\ at[w] # "idle" => row[w] = "running"
  /\ at[w] \in {"child", "link", "end"} => "work" \in op[w]
  /\ row[w] = "none" => ran[w] = 0
  /\ ran[w] > 0 /\ Exists(w) => "work" \in op[w] \/ receipt[w] = "ok"
  /\ ran[w] <= 1

LEMMA HistoryParts ==
  HistoryOK <=> (\A w \in Flows : Own(w)) /\ Born /\ GoneIsOver /\ PickedIsOver
BY DEF HistoryOK, Own, RunsWhileAt, HasWorked, NoRun, RanIsKept, WorkDoneOnce

\* A worker's own row, unless it enqueues.
LEMMA OwnStep ==
  ASSUME TypeOK, HistoryOK, NEW w \in Flows,
         \/ Start(w) \/ Work(w) \/ Record(w) \/ Link(w) \/ Finish(w) \/ WorkRaises(w)
         \/ Cancel(w) \/ RecordLate(w) \/ Resume(w) \/ Recover(w) \/ Age(w) \/ Submit(w)
  PROVE  /\ Own(w)'
         /\ \A v \in Flows : v # w => /\ row'[v] = row[v] /\ at'[v] = at[v] /\ op'[v] = op[v]
                                      /\ ran'[v] = ran[v] /\ receipt'[v] = receipt[v]
         /\ row[w] = "none" => row'[w] = "none" \/ w \notin Children
         /\ row'[w] = "none" => row[w] = "none"
         /\ row'[w] = "gone" <=> row[w] = "gone"
         /\ round'.picked = round.picked
<1> DEFINE Rows == {"none", "gone", "queued", "running", "success", "error", "stopped"}
<1>0. /\ row \in [Flows -> Rows]
      /\ at \in [Flows -> {"idle", "work", "record", "child", "link", "end", "failed"}]
      /\ op \in [Flows -> SUBSET {"work", "child"}] /\ receipt \in [Flows -> {"none", "ok", "error"}]
      /\ ran \in [Flows -> 0..2]
  BY DEF TypeOK, Runnable, Ended
<1>1. Own(w) BY HistoryParts
<1>2. round'.picked = round.picked
  BY DEF TypeOK, Notes, Start, Work, Record, Link, Finish, WorkRaises,
      Cancel, RecordLate, Resume, Recover, Age, Submit
<1>3. CASE Submit(w)
  BY <1>0, <1>1, <1>2, <1>3 DEF Submit, Own, Exists
<1>4. CASE Start(w)
  BY <1>0, <1>1, <1>2, <1>4 DEF Start, Own, Exists, Goes, Runnable
<1>5. CASE Work(w)
  BY <1>0, <1>1, <1>2, <1>5 DEF Work, Own, Exists, Goes
<1>6. CASE Record(w)
  BY <1>0, <1>1, <1>2, <1>6 DEF Record, Own, Exists, Goes
<1>7. CASE Link(w)
  BY <1>0, <1>1, <1>2, <1>7 DEF Link, Own, Exists, Goes
<1>8. CASE Finish(w)
  BY <1>0, <1>1, <1>2, <1>8 DEF Finish, Own, Exists, Goes, Runnable
<1>9. CASE WorkRaises(w)
  BY <1>0, <1>1, <1>2, <1>9 DEF WorkRaises, Own, Exists, Goes
<1>10. CASE Cancel(w)
  BY <1>0, <1>1, <1>2, <1>10 DEF Cancel, Own, Exists, Goes, Runnable
<1>11. CASE RecordLate(w)
  BY <1>0, <1>1, <1>2, <1>11 DEF RecordLate, Own, Exists
<1>12. CASE Resume(w)
  BY <1>0, <1>1, <1>2, <1>12 DEF Resume, Own, Exists
<1>13. CASE Recover(w)
  BY <1>0, <1>1, <1>2, <1>13 DEF Recover, Own, Exists, Goes
<1>14. CASE Age(w)
  BY <1>0, <1>1, <1>2, <1>14 DEF Age, Own, Exists
<1> QED BY <1>3, <1>4, <1>5, <1>6, <1>7, <1>8, <1>9, <1>10, <1>11, <1>12, <1>13, <1>14

LEMMA EnqueueKeeps ==
  ASSUME TypeOK, HistoryOK, NEW w \in Flows, Enqueue(w) PROVE HistoryOK'
<1> DEFINE c == ChildOf[w]
<1>0. /\ \A v \in Flows : Own(v)
      /\ Born /\ GoneIsOver /\ PickedIsOver /\ round.picked \subseteq Flows
      /\ row \in [Flows -> {"none", "gone", "queued", "running", "success", "error", "stopped"}]
      /\ at \in [Flows -> {"idle", "work", "record", "child", "link", "end", "failed"}]
  BY HistoryParts DEF TypeOK, Runnable, Ended
<1>1. at[w] = "child" /\ row[w] = "running" /\ "work" \in op[w]
  BY <1>0 DEF Enqueue, Own
<1>2. /\ UNCHANGED <<op, receipt, ran, round>> /\ at'[w] \in {"end", "link"}
      /\ \A v \in Flows : v # w => at'[v] = at[v]
  BY <1>0 DEF Enqueue, Goes
<1>3. CASE row' = row
  <2>1. \A v \in Flows : Own(v)'
    <3> TAKE v \in Flows
    <3> QED BY <1>0, <1>1, <1>2, <1>3 DEF Own, Exists
  <2>2. Born' /\ GoneIsOver' /\ PickedIsOver'
    BY <1>0, <1>2, <1>3 DEF Born, GoneIsOver, PickedIsOver
  <2> QED BY <2>1, <2>2 DEF HistoryOK, Own, RunsWhileAt, HasWorked, NoRun, RanIsKept, WorkDoneOnce
<1>4. CASE row' # row
  <2>1. c # NoFlow /\ ~Exists(c) /\ row' = [row EXCEPT ![c] = "queued"]
    BY <1>4 DEF Enqueue
  <2>2. c \in Flows BY <2>1, FlowsAssumption
  <2>3. row[c] = "none" /\ c # w /\ ran[c] = 0 /\ at[c] = "idle"
    BY <1>0, <1>1, <2>1, <2>2 DEF Exists, GoneIsOver, Own
  <2>4. row'[c] = "queued" /\ \A v \in Flows : v # c => row'[v] = row[v]
    BY <1>0, <2>1, <2>2
  <2>5. \A v \in Flows : Own(v)'
    <3> TAKE v \in Flows
    <3> HIDE DEF c
    <3> QED BY <1>0, <1>1, <1>2, <2>3, <2>4 DEF Own, Exists
  <2>6. \A p \in Flows : ChildOf[p] = c => p = w
    BY <2>1, FlowsAssumption
  <2> HIDE DEF c
  <2>7. Born' BY <1>0, <1>1, <2>2, <2>3, <2>4, <2>6 DEF Born
  <2>8. GoneIsOver' BY <1>0, <2>2, <2>3, <2>4 DEF GoneIsOver
  <2>9. PickedIsOver' BY <1>0, <1>2, <2>2, <2>3, <2>4 DEF PickedIsOver
  <2> QED BY <2>5, <2>7, <2>8, <2>9
          DEF HistoryOK, Own, RunsWhileAt, HasWorked, NoRun, RanIsKept, WorkDoneOnce
<1> QED BY <1>3, <1>4

LEMMA ExecutionKeeps ==
  ASSUME TypeOK, HistoryOK, NEW w \in Flows,
         \/ Submit(w) \/ Advance(w) \/ WorkRaises(w)
         \/ Cancel(w) \/ RecordLate(w) \/ Resume(w) \/ Recover(w) \/ Age(w)
  PROVE  HistoryOK'
<1>0. /\ \A v \in Flows : Own(v)
      /\ Born /\ GoneIsOver /\ PickedIsOver /\ round.picked \subseteq Flows
  BY HistoryParts DEF TypeOK
<1>1. CASE Enqueue(w) BY <1>1, EnqueueKeeps
<1>2. CASE ~Enqueue(w)
  <2>1. /\ Own(w)'
        /\ \A v \in Flows : v # w => /\ row'[v] = row[v] /\ at'[v] = at[v] /\ op'[v] = op[v]
                                     /\ ran'[v] = ran[v] /\ receipt'[v] = receipt[v]
        /\ row[w] = "none" => row'[w] = "none" \/ w \notin Children
        /\ row'[w] = "none" => row[w] = "none"
        /\ row'[w] = "gone" <=> row[w] = "gone"
        /\ round'.picked = round.picked
    BY <1>2, OwnStep DEF Advance
  <2>2. \A v \in Flows : Own(v)'
    <3> TAKE v \in Flows
    <3>1. CASE v = w BY <2>1, <3>1
    <3>2. CASE v # w BY <1>0, <2>1, <3>2 DEF Own, Exists
    <3> QED BY <3>1, <3>2
  <2>3. Born' BY <1>0, <2>1 DEF Born, Children
  <2>4. GoneIsOver' BY <1>0, <2>1 DEF GoneIsOver
  <2>5. PickedIsOver' BY <1>0, <2>1 DEF PickedIsOver
  <2> QED BY <2>2, <2>3, <2>4, <2>5
          DEF HistoryOK, Own, RunsWhileAt, HasWorked, NoRun, RanIsKept, WorkDoneOnce
<1> QED BY <1>1, <1>2

-------------------------------------------------------------------------------
(* So does the cleanup.                                                      *)

LEMMA CleanupKeeps ==
  ASSUME TypeOK, HistoryOK, History PROVE HistoryOK'
<1>0. /\ \A v \in Flows : Own(v)
      /\ Born /\ GoneIsOver /\ PickedIsOver /\ round.picked \subseteq Flows
      /\ row \in [Flows -> {"none", "gone", "queued", "running", "success", "error", "stopped"}]
      /\ receipt \in [Flows -> {"none", "ok", "error"}]
  BY HistoryParts DEF TypeOK, Runnable, Ended
<1>1. CASE UNCHANGED flows /\ round'.picked = {}
  BY <1>1 DEF flows, HistoryOK, RunsWhileAt, HasWorked, NoRun, RanIsKept, Born, GoneIsOver, PickedIsOver,
              WorkDoneOnce, Exists
<1>2. CASE StartRound \/ RoundFails
  BY <1>1, <1>2 DEF StartRound, RoundFails, Rest
<1>3. CASE Pick
  <2>1. PICK s \in SUBSET Eligible : s = round'.picked \/ round'.picked = {}
    BY <1>3 DEF Pick, TypeOK
  <2>2. UNCHANGED flows BY <1>3 DEF Pick
  <2>3. ASSUME NEW w \in s
        PROVE  row[w] # "none" /\ \A p \in Flows : ChildOf[p] = w => row[p] = "gone"
    <3>1. w \in Flows /\ row[w] \in Ended /\ ~Kept(w) BY <2>3 DEF Eligible, Expired
    <3> QED BY <1>0, <3>1 DEF Kept, Exists, Born, Ended
  <2>4. PickedIsOver' BY <2>1, <2>2, <2>3 DEF PickedIsOver, flows
  <2> QED BY <2>2, <2>4 DEF flows, HistoryOK, RunsWhileAt, HasWorked, NoRun, RanIsKept, Born, GoneIsOver,
              WorkDoneOnce, Exists
<1>4. CASE Retire
  <2> DEFINE s == Rechecked(round.picked)
  <2>1. /\ row' = [w \in Flows |-> IF w \in s THEN "gone" ELSE row[w]]
        /\ op' = [w \in Flows |-> IF w \in s THEN {} ELSE op[w]]
        /\ receipt' = [w \in Flows |-> IF w \in s THEN "none" ELSE receipt[w]]
        /\ UNCHANGED <<at, ran>> /\ round'.picked = {}
    BY <1>4 DEF Retire, TypeOK
  <2>2. s \subseteq round.picked /\ \A w \in s : row[w] \in {"success", "error", "stopped"}
    BY DEF Rechecked, Expired, Ended
  <2> HIDE DEF s
  <2>3. \A v \in Flows : Own(v)'
    <3> TAKE v \in Flows
    <3>1. CASE v \in s BY <1>0, <2>1, <2>2, <3>1 DEF Own, Exists
    <3>2. CASE v \notin s BY <1>0, <2>1, <3>2 DEF Own, Exists
    <3> QED BY <3>1, <3>2
  <2>4. Born' BY <1>0, <2>1, <2>2 DEF Born
  <2>5. GoneIsOver' BY <1>0, <2>1, <2>2 DEF GoneIsOver, PickedIsOver
  <2>6. PickedIsOver' BY <2>1 DEF PickedIsOver
  <2> QED BY <2>3, <2>4, <2>5, <2>6
          DEF HistoryOK, Own, RunsWhileAt, HasWorked, NoRun, RanIsKept, WorkDoneOnce
<1>5. CASE Sweep
  <2>1. /\ receipt' = [w \in Flows |-> IF ~Exists(w) /\ w \notin round.fresh THEN "none" ELSE receipt[w]]
        /\ round'.picked = {} /\ UNCHANGED <<row, op, at, ran>>
    BY <1>5 DEF Sweep, Rest
  <2>2. \A v \in Flows : Own(v)'
    <3> TAKE v \in Flows
    <3> QED BY <1>0, <2>1 DEF Own, Exists
  <2>3. Born' /\ GoneIsOver' /\ PickedIsOver' BY <1>0, <2>1 DEF Born, GoneIsOver, PickedIsOver
  <2> QED BY <2>2, <2>3 DEF HistoryOK, Own, RunsWhileAt, HasWorked, NoRun, RanIsKept, WorkDoneOnce
<1> QED BY <1>2, <1>3, <1>4, <1>5 DEF History

-------------------------------------------------------------------------------
(* Scans.                                                                    *)

LEMMA ScanStep ==
  ASSUME TypeOK, SizesOK, Scan
  PROVE  SizesOK' /\ shown'.start >= shown.start
<1>0. /\ thumb \in [path : 1..MaxPaths, sized : 0..MaxPaths] /\ shown.start \in Nat
      /\ \A x \in Scanners : scan[x].start \in Nat
  BY DEF TypeOK
<1>1. CASE Publish BY <1>0, <1>1 DEF Publish, SizesOK
<1>2. ASSUME NEW x \in Scanners, StartScan(x) \/ ScanRaises(x)
      PROVE  SizesOK' /\ shown'.start >= shown.start
  BY <1>0, <1>2 DEF StartScan, ScanRaises, SizesOK
<1>3. ASSUME NEW x \in Scanners, RecordScan(x) \/ RecordFailure(x)
      PROVE  SizesOK' /\ shown'.start >= shown.start
  <2>1. shown' = shown \/ (shown'.start = scan[x].start /\ shown.start <= scan[x].start)
    BY <1>3 DEF RecordScan, RecordFailure, Shows, Later
  <2>2. shown'.start >= shown.start BY <1>0, <2>1
  <2>3. thumb' = thumb \/ (thumb' = [thumb EXCEPT !.sized = scan[x].path] /\ scan[x].path = thumb.path)
    BY <1>3 DEF RecordScan, RecordFailure, Repairs
  <2>4. SizesOK' BY <1>0, <2>3 DEF SizesOK
  <2> QED BY <2>2, <2>4
<1> QED BY <1>1, <1>2, <1>3 DEF Scan

LEMMA HistoryStays ==
  ASSUME HistoryOK, UNCHANGED <<flows, round>> PROVE HistoryOK'
BY DEF flows, HistoryOK, RunsWhileAt, HasWorked, NoRun, RanIsKept, Born, GoneIsOver, PickedIsOver,
       WorkDoneOnce, Exists

-------------------------------------------------------------------------------
(* The theorems of Operations.                                               *)

LEMMA OperationsStart == Init => OperationsInv
<1> SUFFICES ASSUME Init PROVE OperationsInv OBVIOUS
<1>1. TypeOK
  <2>1. /\ row \in [Flows -> {"none", "gone"} \cup Runnable \cup Ended]
        /\ old \in [Flows -> BOOLEAN] /\ late \in [Flows -> BOOLEAN]
        /\ op \in [Flows -> SUBSET {"work", "child"}]
        /\ receipt \in [Flows -> {"none", "ok", "error"}]
        /\ at \in [Flows -> {"idle", "work", "record", "child", "link", "end", "failed"}]
        /\ ran \in [Flows -> 0..2]
    BY DEF Init
  <2>2. round \in [phase : {"rest", "history", "sweep"}, picked : SUBSET Flows,
                   retired : BOOLEAN, fresh : SUBSET Flows]
    BY DEF Init, Rest
  <2>3. thumb \in [path : 1..MaxPaths, sized : 0..MaxPaths] BY Bounds DEF Init
  <2>4. scan \in [Scanners -> [phase : {"idle", "reading", "failing"}, start : 0..MaxScans,
                              path : 0..MaxPaths]]
    BY Bounds DEF Init, NoScan
  <2>5. /\ started \in 0..MaxScans /\ shown \in [start : 0..MaxScans, failed : BOOLEAN]
        /\ faults \in 0..MaxFaults
    BY Bounds DEF Init
  <2> QED BY <2>1, <2>2, <2>3, <2>4, <2>5 DEF TypeOK
<1>2. HistoryOK
  BY DEF Init, HistoryOK, RunsWhileAt, HasWorked, NoRun, RanIsKept, Born, GoneIsOver, PickedIsOver,
         WorkDoneOnce, Rest
<1>3. SizesOK BY DEF Init, SizesOK
<1> QED BY <1>1, <1>2, <1>3 DEF OperationsInv

LEMMA OperationsKeep == OperationsInv /\ [Next]_vars => OperationsInv'
<1> SUFFICES ASSUME OperationsInv, [Next]_vars PROVE OperationsInv' OBVIOUS
<1> USE DEF OperationsInv
<1>1. CASE Execution
  <2>1. UNCHANGED scans
    BY <1>1 DEF Execution, Submit, Advance, Start, Work, Record, Enqueue, Link, Finish, WorkRaises,
                Cancel, RecordLate, Resume, Recover, Age
  <2>2. SizesOK' BY <2>1 DEF SizesOK, scans
  <2>3. PICK w \in Flows : \/ Submit(w) \/ Advance(w) \/ WorkRaises(w)
                           \/ Cancel(w) \/ RecordLate(w) \/ Resume(w) \/ Recover(w) \/ Age(w)
    BY <1>1 DEF Execution
  <2>4. WorkDoneOnce BY DEF HistoryOK
  <2> QED BY <2>2, <2>3, <2>4, ExecutionTypes, ExecutionKeeps
<1>2. CASE History
  <2>1. UNCHANGED scans BY <1>2 DEF History, StartRound, Pick, Retire, Sweep, RoundFails
  <2>2. SizesOK' BY <2>1 DEF SizesOK, scans
  <2> QED BY <1>2, <2>2, HistoryTypes, CleanupKeeps
<1>3. CASE Scan
  <2>1. UNCHANGED <<flows, round>>
    BY <1>3 DEF Scan, Publish, StartScan, ScanRaises, RecordScan, RecordFailure
  <2> QED BY <1>3, <2>1, ScanTypes, ScanStep, HistoryStays
<1>4. CASE UNCHANGED vars
  <2>1. UNCHANGED <<flows, round>> BY <1>4 DEF vars
  <2>2. TypeOK' /\ SizesOK' BY <1>4 DEF vars, flows, scans, TypeOK, SizesOK
  <2> QED BY <2>1, <2>2, HistoryStays
<1> QED BY <1>1, <1>2, <1>3, <1>4 DEF Next

LEMMA OperationsHold == Spec => []OperationsInv
BY OperationsStart, OperationsKeep, PTL DEF Spec

\* However a workflow is cancelled, resumed, recovered and retired, beside a cleanup
\* that has picked it or its parent, what it does takes effect once: a receipt or a
\* record of it outlives whoever could repeat it (core/workflow_storage.py).
THEOREM EffectsAreOnce == Spec => []WorkDoneOnce
<1>1. OperationsInv => WorkDoneOnce BY DEF OperationsInv, HistoryOK
<1> QED BY <1>1, OperationsHold, PTL

\* Maintenance retires no workflow that runs again, never shows an older scan in the
\* place of a newer, and writes no size beside a thumbnail it is not the size of
\* (core/workflow_storage.py, operations/workflows.py).
THEOREM MaintenanceTakesNothingBack == Spec => MaintenanceStands
<1>1. OperationsInv /\ [Next]_vars => [\A w \in Flows : row[w] \in Runnable => row'[w] # "gone"]_vars
  <2> SUFFICES ASSUME OperationsInv, Next, NEW w \in Flows, row[w] \in Runnable
               PROVE  row'[w] # "gone"
    OBVIOUS
  <2>0. TypeOK /\ HistoryOK /\ row[w] \in {"queued", "running"} BY DEF OperationsInv, Runnable
  <2>1. ASSUME NEW v \in Flows,
               \/ Submit(v) \/ Advance(v) \/ WorkRaises(v)
               \/ Cancel(v) \/ RecordLate(v) \/ Resume(v) \/ Recover(v) \/ Age(v)
        PROVE  row'[w] # "gone"
    <3>1. CASE Enqueue(v) BY <2>0, <3>1 DEF Enqueue, TypeOK
    <3>2. CASE ~Enqueue(v) BY <2>0, <2>1, <3>2, OwnStep DEF Advance
    <3> QED BY <3>1, <3>2
  <2>2. CASE Retire BY <2>0, <2>2 DEF Retire, Rechecked, Expired, Ended
  <2>3. CASE StartRound \/ Pick \/ Sweep \/ RoundFails \/ Scan
    <3>1. row' = row
      BY <2>3 DEF StartRound, Pick, Sweep, RoundFails, Scan, Publish, StartScan, ScanRaises, RecordScan,
                  RecordFailure, flows
    <3> QED BY <2>0, <3>1
  <2> QED BY <2>1, <2>2, <2>3 DEF Next, Execution, History
<1>2. OperationsInv /\ [Next]_vars => [shown'.start >= shown.start]_vars
  <2> SUFFICES ASSUME OperationsInv, Next PROVE shown'.start >= shown.start OBVIOUS
  <2>1. CASE Scan BY <2>1, ScanStep DEF OperationsInv
  <2>2. CASE Execution \/ History
    <3>1. shown' = shown /\ shown.start \in Nat
      BY <2>2 DEF OperationsInv, TypeOK, Execution, Submit, Advance, Start, Work, Record, Enqueue, Link,
                  Finish, WorkRaises, Cancel, RecordLate, Resume, Recover, Age, History, StartRound, Pick,
                  Retire, Sweep, RoundFails, scans
    <3> QED BY <3>1
  <2> QED BY <2>1, <2>2 DEF Next
<1>3. OperationsInv => thumb.sized \in {0, thumb.path} BY DEF OperationsInv, SizesOK
<1> QED BY <1>1, <1>2, <1>3, OperationsHold, PTL DEF Spec, MaintenanceStands, ResumedRunsOn, ScansStand

-------------------------------------------------------------------------------
(* Backups: types.                                                           *)

LEMMA RowsAreObjects ==
  ASSUME K!TypeOK PROVE K!Rows \in SUBSET Objects
BY DEF K!TypeOK, K!Rows

\* A write shows: in the journal with SQLite, in the tables with PostgreSQL.
LEMMA SettingKeepsTypes ==
  ASSUME K!TypeOK, NEW rows \in SUBSET Objects, K!Sets(rows)
  PROVE  /\ file' \in SUBSET Objects
         /\ journal' \in [on : BOOLEAN, rows : SUBSET Objects]
         /\ kind = "sqlite" => K!Rows' = rows
         /\ kind # "sqlite" => K!Rows' = IF journal.on THEN journal.rows ELSE rows
<1>1. CASE kind = "sqlite"
  <2>1. journal' = [on |-> TRUE, rows |-> rows] /\ file' = file
    BY <1>1 DEF K!Sets
  <2>2. K!Rows' = rows
    BY <2>1 DEF K!Rows
  <2> QED BY <1>1, <2>1, <2>2 DEF K!TypeOK
<1>2. CASE kind # "sqlite"
  BY <1>2 DEF K!TypeOK, K!Sets, K!Rows
<1> QED BY <1>1, <1>2

LEMMA NoJournalIsTyped ==
  /\ K!NoJournal \in [on : BOOLEAN, rows : SUBSET Objects]
  /\ K!NoJournal.on = FALSE
BY DEF K!NoJournal

LEMMA InstallationTypes ==
  ASSUME K!TypeOK, K!Installation PROVE K!TypeOK'
<1> USE DEF K!TypeOK, K!Commands
<1>1. ASSUME NEW k \in Objects, K!Store(k) PROVE K!TypeOK'
  BY <1>1 DEF K!Store
<1>2. ASSUME NEW k \in Objects, K!Name(k) PROVE K!TypeOK'
  BY <1>2, SettingKeepsTypes, RowsAreObjects DEF K!Name
<1>3. ASSUME NEW k \in Objects, K!Unname(k) PROVE K!TypeOK'
  BY <1>3, SettingKeepsTypes, RowsAreObjects DEF K!Unname
<1>4. ASSUME NEW k \in Objects, K!Collect(k) PROVE K!TypeOK'
  BY <1>4 DEF K!Collect
<1>5. ASSUME K!Checkpoint PROVE K!TypeOK'
  BY <1>5, NoJournalIsTyped DEF K!Checkpoint
<1>6. ASSUME K!Stop PROVE K!TypeOK'
  BY <1>6 DEF K!Stop
<1>7. ASSUME K!Start PROVE K!TypeOK'
  BY <1>7 DEF K!Start
<1> QED
  BY <1>1, <1>2, <1>3, <1>4, <1>5, <1>6, <1>7 DEF K!Installation

LEMMA BackupTypes ==
  ASSUME K!TypeOK, K!Backup PROVE K!TypeOK'
<1> USE DEF K!TypeOK, K!Commands
<1>1. ASSUME K!SaveDatabase PROVE K!TypeOK'
  BY <1>1, RowsAreObjects DEF K!SaveDatabase
<1>2. ASSUME K!OpenArchive PROVE K!TypeOK'
  BY <1>2 DEF K!OpenArchive, K!Archives, K!NoArchive
<1>3. ASSUME NEW k \in Objects, K!ArchiveObject(k) PROVE K!TypeOK'
  BY <1>3 DEF K!ArchiveObject, K!Archives
<1>4. ASSUME K!CloseArchive PROVE K!TypeOK'
  BY <1>4 DEF K!CloseArchive, K!Archives
<1>5. ASSUME K!BackupFails PROVE K!TypeOK'
  BY <1>5 DEF K!BackupFails, K!Archives
<1> QED
  BY <1>1, <1>2, <1>3, <1>4, <1>5 DEF K!Backup

LEMMA RestoreTypes ==
  ASSUME K!TypeOK, K!Restore PROVE K!TypeOK'
<1> USE DEF K!TypeOK, K!Commands
<1>1. ASSUME K!Extract PROVE K!TypeOK'
  BY <1>1 DEF K!Extract, K!Archives
<1>2. ASSUME K!ReplaceFile PROVE K!TypeOK'
  BY <1>2 DEF K!ReplaceFile
<1>3. ASSUME K!UnlinkJournal PROVE K!TypeOK'
  BY <1>3, NoJournalIsTyped DEF K!UnlinkJournal
<1>4. ASSUME K!DropTables PROVE K!TypeOK'
  BY <1>4 DEF K!DropTables
<1>5. ASSUME K!FillTables PROVE K!TypeOK'
  BY <1>5 DEF K!FillTables
<1>6. ASSUME NEW k \in Objects, K!OverlayObject(k) PROVE K!TypeOK'
  BY <1>6 DEF K!OverlayObject
<1>7. ASSUME K!RestoreEnds PROVE K!TypeOK'
  BY <1>7 DEF K!RestoreEnds
<1>8. ASSUME K!RestoreFails PROVE K!TypeOK'
  BY <1>8 DEF K!RestoreFails
<1> QED
  BY <1>1, <1>2, <1>3, <1>4, <1>5, <1>6, <1>7, <1>8 DEF K!Restore

-------------------------------------------------------------------------------
(* The inductive invariant of the installation and its backups.              *)

\* Nothing runs beside a command, and no process on a torn installation.
Alone == running => phase = "idle" /\ ~torn

\* Unless a restore has torn it, the installation has an object for every row.
WholeUnlessTorn == ~torn => K!Rows \subseteq stored

\* Only SQLite keeps a journal beside its file.
OwnJournal == kind = "postgresql" => journal.on = FALSE

\* What a backup has copied of the database is what it finds the objects of.
SavedHasObjects == phase \in {"saved", "archiving"} => ~torn /\ snapshot \subseteq stored

\* The archive is no earlier backup any more once it is written.
NotYetKept == phase = "archiving" => ~archive.kept

\* A restore puts in place what it has extracted, of a backup that succeeded.
ExtractedIsKept ==
  phase \in {"extracted", "replaced", "dropped", "overlaying"} =>
    archive.readable /\ archive.kept /\ snapshot = archive.db

\* How far it has come, until it reports success.
Replacing ==
  /\ phase \in {"replaced", "dropped", "overlaying"} => torn
  /\ phase = "replaced" => kind = "sqlite" /\ file = snapshot
  /\ phase = "dropped" => kind = "postgresql"
  /\ phase \in {"overlaying", "restored"} => K!Rows = archive.db
  /\ phase = "restored" => ~torn

Phases ==
  /\ Alone /\ WholeUnlessTorn /\ OwnJournal
  /\ SavedHasObjects /\ NotYetKept /\ ExtractedIsKept /\ Replacing
  /\ K!BackupIsWhole
BackupsInv == K!TypeOK /\ Phases

-------------------------------------------------------------------------------
(* Every step keeps it.                                                      *)

LEMMA InstallationKeeps ==
  ASSUME K!TypeOK, Phases, K!Installation PROVE Phases'
<1> USE DEF Phases, Alone, WholeUnlessTorn, OwnJournal, SavedHasObjects, NotYetKept,
           ExtractedIsKept, Replacing, K!BackupIsWhole
<1>1. ASSUME NEW k \in Objects, K!Store(k) PROVE Phases'
  BY <1>1 DEF K!Store, K!Rows
<1>2. ASSUME NEW k \in Objects, K!Name(k) PROVE Phases'
  BY <1>2 DEF K!Name, K!Sets, K!Rows, K!TypeOK
<1>3. ASSUME NEW k \in Objects, K!Unname(k) PROVE Phases'
  BY <1>3 DEF K!Unname, K!Sets, K!Rows, K!TypeOK
<1>4. ASSUME NEW k \in Objects, K!Collect(k) PROVE Phases'
  BY <1>4 DEF K!Collect, K!Rows
<1>5. ASSUME K!Checkpoint PROVE Phases'
  BY <1>5, NoJournalIsTyped DEF K!Checkpoint, K!Rows, K!TypeOK
<1>6. ASSUME K!Stop PROVE Phases'
  BY <1>6 DEF K!Stop, K!Rows
<1>7. ASSUME K!Start PROVE Phases'
  BY <1>7 DEF K!Start, K!Rows
<1> QED
  BY <1>1, <1>2, <1>3, <1>4, <1>5, <1>6, <1>7 DEF K!Installation

LEMMA BackupKeeps ==
  ASSUME K!TypeOK, Phases, K!Backup PROVE Phases'
<1> USE DEF Phases, Alone, WholeUnlessTorn, OwnJournal, SavedHasObjects, NotYetKept,
           ExtractedIsKept, Replacing, K!BackupIsWhole
<1>1. ASSUME K!SaveDatabase PROVE Phases'
  BY <1>1 DEF K!SaveDatabase, K!Ready, K!Rows
<1>2. ASSUME K!OpenArchive PROVE Phases'
  BY <1>2 DEF K!OpenArchive, K!NoArchive, K!Rows
<1>3. ASSUME NEW k \in Objects, K!ArchiveObject(k) PROVE Phases'
  BY <1>3 DEF K!ArchiveObject, K!TypeOK, K!Archives, K!Rows
<1>4. ASSUME K!CloseArchive PROVE Phases'
  BY <1>4 DEF K!CloseArchive, K!TypeOK, K!Archives, K!Rows
<1>5. ASSUME K!BackupFails PROVE Phases'
  BY <1>5 DEF K!BackupFails, K!TypeOK, K!Archives, K!Rows
<1> QED
  BY <1>1, <1>2, <1>3, <1>4, <1>5 DEF K!Backup

LEMMA RestoreKeeps ==
  ASSUME K!TypeOK, Phases, K!Restore PROVE Phases'
<1> USE DEF Phases, Alone, WholeUnlessTorn, OwnJournal, SavedHasObjects, NotYetKept,
           ExtractedIsKept, Replacing, K!BackupIsWhole
<1>1. ASSUME K!Extract PROVE Phases'
  BY <1>1 DEF K!Extract, K!Ready, K!Rows
<1>2. ASSUME K!ReplaceFile PROVE Phases'
  BY <1>2 DEF K!ReplaceFile, K!Rows
<1>3. ASSUME K!UnlinkJournal PROVE Phases'
  BY <1>3, NoJournalIsTyped DEF K!UnlinkJournal, K!Rows
<1>4. ASSUME K!DropTables PROVE Phases'
  BY <1>4 DEF K!DropTables, K!Rows
<1>5. ASSUME K!FillTables PROVE Phases'
  BY <1>5 DEF K!FillTables, K!Rows
<1>6. ASSUME NEW k \in Objects, K!OverlayObject(k) PROVE Phases'
  BY <1>6 DEF K!OverlayObject, K!Rows
<1>7. ASSUME K!RestoreEnds PROVE Phases'
  BY <1>7 DEF K!RestoreEnds, K!Rows
<1>8. ASSUME K!RestoreFails PROVE Phases'
  BY <1>8 DEF K!RestoreFails, K!Rows
<1> QED
  BY <1>1, <1>2, <1>3, <1>4, <1>5, <1>6, <1>7, <1>8 DEF K!Restore

LEMMA CompactKeeps ==
  ASSUME BackupsInv, K!Compact PROVE BackupsInv'
<1>1. K!TypeOK'
  BY RowsAreObjects, NoJournalIsTyped DEF BackupsInv, K!TypeOK, K!Compact, K!Commands
<1>2. K!Rows' = K!Rows
  BY NoJournalIsTyped DEF K!Compact, K!Rows
<1>3. Phases'
  BY <1>2, NoJournalIsTyped DEF BackupsInv, K!Compact, K!Ready, Phases, Alone, WholeUnlessTorn,
     OwnJournal, SavedHasObjects, NotYetKept, ExtractedIsKept, Replacing, K!BackupIsWhole
<1> QED BY <1>1, <1>3 DEF BackupsInv

LEMMA StartsWhole == K!Init => BackupsInv
<1> SUFFICES ASSUME K!Init PROVE BackupsInv OBVIOUS
<1>1. K!TypeOK
  BY NoJournalIsTyped DEF K!Init, K!TypeOK, K!Archives, K!NoArchive, K!Commands
<1>2. Phases
  BY NoJournalIsTyped DEF K!Init, K!NoArchive, K!Rows, Phases, Alone, WholeUnlessTorn, OwnJournal,
     SavedHasObjects, NotYetKept, ExtractedIsKept, Replacing, K!BackupIsWhole
<1> QED BY <1>1, <1>2 DEF BackupsInv

LEMMA StepsKeep == BackupsInv /\ [K!Next]_(K!backups) => BackupsInv'
<1> SUFFICES ASSUME BackupsInv, [K!Next]_(K!backups) PROVE BackupsInv' OBVIOUS
<1> USE DEF BackupsInv
<1>1. CASE K!Installation
  BY <1>1, InstallationTypes, InstallationKeeps
<1>2. CASE K!Compact
  BY <1>2, CompactKeeps
<1>3. CASE K!Backup
  BY <1>3, BackupTypes, BackupKeeps
<1>4. CASE K!Restore
  BY <1>4, RestoreTypes, RestoreKeeps
<1>5. CASE UNCHANGED K!backups
  <2>1. K!TypeOK'
    BY <1>5 DEF K!backups, K!TypeOK
  <2>2. Phases'
    BY <1>5 DEF K!backups, K!Rows, Phases, Alone, WholeUnlessTorn, OwnJournal, SavedHasObjects,
       NotYetKept, ExtractedIsKept, Replacing, K!BackupIsWhole
  <2> QED BY <2>1, <2>2
<1> QED BY <1>1, <1>2, <1>3, <1>4, <1>5 DEF K!Next

LEMMA WhatHolds == BackupsInv => K!BackupsHold
BY DEF BackupsInv, Phases, K!BackupsHold, K!BackupIsWhole, K!RestoredIsSaved, K!RowsHaveObjects,
   Replacing, Alone, WholeUnlessTorn

-------------------------------------------------------------------------------
\* A backup that reported success has the objects of all its rows, a restore that
\* reported success has put back those rows and no others, and a running
\* installation has an object for every row: however many backups, restores and
\* compactions came before, failed, or were killed between two file operations.
THEOREM RestoresAreWhole == K!Spec => []BackupsHold
<1>1. K!Init => BackupsInv
  BY StartsWhole
<1>2. BackupsInv /\ [K!Next]_(K!backups) => BackupsInv'
  BY StepsKeep
<1>3. BackupsInv => BackupsHold
  BY WhatHolds DEF BackupsHold
<1> QED BY <1>1, <1>2, <1>3, PTL DEF K!Spec
================================================================================
