----------------------------- MODULE ProjectsProofs -----------------------------
(***************************************************************************)
(* The transactions of ProjectsTx implement the atomic commands of         *)
(* Projects, keep participation sound and never wait in a cycle, and the   *)
(* pages of Offers stand, for any number of accounts, Projects, Items and  *)
(* server processes and any requests.                                      *)
(***************************************************************************)
EXTENDS ProjectsTx, Offers, FiniteSetTheorems, TLAPS

-------------------------------------------------------------------------------
(* Atomic commands.                                                          *)

\* Whatever writes to Projects is granted in an active Workspace only.
WriteActions ==
  {"project_participation.join", "project_participation.leave",
   "project_participation.manage", "project.update", "project.archive", "project.restore",
   "project.delete", "project.create", "project_item.manage"}

LEMMA WritesNeedActive ==
  ASSUME NEW m, NEW action \in WriteActions, NEW relation, May(m, action, relation)
  PROVE  space = "active" /\ member[m].status = "active"
<1>1. PICK base \in Roles : <<action, space, relation>> \in Grants[base]
  BY DEF May, Allowed
<1>2. ASSUME NEW actions, NEW lifecycles, NEW relations,
             <<action, space, relation>> \in Grant(actions, lifecycles, relations)
      PROVE  space \in lifecycles /\ action \in actions
  BY <1>2 DEF Grant
<1>3. <<action, space, relation>> \in ViewerGrants => space = "active"
  BY <1>2 DEF ViewerGrants, WriteActions
<1>4. <<action, space, relation>> \in ReviewerGrants => space = "active"
  BY <1>2 DEF ReviewerGrants, WriteActions
<1>5. <<action, space, relation>> \in EditorGrants => space = "active"
  BY <1>2 DEF EditorGrants, WriteActions
<1>6. <<action, space, relation>> \in AdminGrants => space = "active"
  BY <1>2 DEF AdminGrants, WriteActions
<1>7. <<action, space, relation>> \in OwnerGrants => space = "active"
  BY <1>2 DEF OwnerGrants, WriteActions
<1> QED BY <1>1, <1>3, <1>4, <1>5, <1>6, <1>7 DEF Grants, Roles, May

\* Memberships are pairs.
LEMMA MemberParts ==
  ASSUME NEW m \in MemberIds
  PROVE  m[1] \in Users /\ m[2] \in Gens /\ m = <<m[1], m[2]>>
BY DEF MemberIds

\* A write to Project p that puts at most one current membership in, whose User
\* has no other selection left, and leaves no selection where there is no place.
LEMMA SeatsStay ==
  ASSUME TypeOK, ImplicitIsEmpty, SeatsAreCurrent, NEW p \in ProjectIds, NEW change,
         Write(p, change),
         \A s \in change.in : /\ s[1] = p /\ Current(s[2]) /\ change.in = {s}
                              /\ UserSeats(p, s[2][1]) \subseteq {s} \cup change.out,
         \A s \in (SeatsOf(p) \ change.out) \cup change.in :
           change.row.state \in {"active", "archived"} /\ change.row.mode # "workspace"
  PROVE  ImplicitIsEmpty' /\ SeatsAreCurrent'
<1> DEFINE row == change.row
           in == change.in
           out == change.out
<1>0. /\ project' = [project EXCEPT ![p] = row] /\ seat' = (seat \ out) \cup in
      /\ member' = member
  BY DEF Write
<1>00. /\ \A s \in in : /\ s[1] = p /\ Current(s[2]) /\ in = {s}
                        /\ UserSeats(p, s[2][1]) \subseteq {s} \cup out
       /\ \A s \in (SeatsOf(p) \ out) \cup in :
            row.state \in {"active", "archived"} /\ row.mode # "workspace"
  OBVIOUS
<1> HIDE DEF row, in, out
<1>1. project'[p] = row /\ \A x \in ProjectIds : x # p => project'[x] = project[x]
  BY <1>0 DEF TypeOK
<1>2. \A x \in ProjectIds : x # p => SeatsOf(x)' \subseteq SeatsOf(x)
  BY <1>0, <1>00 DEF SeatsOf
<1>3. SeatsOf(p)' \subseteq (SeatsOf(p) \ out) \cup in
  BY <1>0 DEF SeatsOf
<1>4. ImplicitIsEmpty'
  <2> SUFFICES ASSUME NEW x \in ProjectIds, SeatsOf(x)' # {}
               PROVE  Exists(x)' /\ project'[x].mode # "workspace"
    BY DEF ImplicitIsEmpty
  <2>1. CASE x = p BY <2>1, <1>00, <1>1, <1>3 DEF Exists
  <2>2. CASE x # p
    <3>1. SeatsOf(x) # {} BY <2>2, <1>2
    <3> QED BY <3>1, <2>2, <1>1 DEF ImplicitIsEmpty, Exists
  <2> QED BY <2>1, <2>2
<1>5. ASSUME NEW s \in seat' PROVE Current(s[2])'
  BY <1>0, <1>00, <1>5 DEF SeatsAreCurrent, Current
<1>6. ASSUME NEW s \in seat' PROVE UserSeats(s[1], s[2][1])' = {s}
  <2> SUFFICES ASSUME NEW o \in seat', o[1] = s[1], o[2][1] = s[2][1] PROVE o = s
    BY DEF UserSeats
  <2>1. CASE s \in seat /\ o \in seat
    <3>1. o \in UserSeats(s[1], s[2][1]) BY <2>1 DEF UserSeats
    <3> QED BY <3>1, <2>1 DEF SeatsAreCurrent
  <2>2. CASE s \in in
    <3>1. o \in in \/ o \in UserSeats(p, s[2][1]) \ out BY <1>0, <1>00, <2>2 DEF UserSeats
    <3> QED BY <1>00, <3>1, <2>2
  <2>3. CASE o \in in
    <3>1. s \in in \/ s \in UserSeats(p, o[2][1]) \ out BY <1>0, <1>00, <2>3 DEF UserSeats
    <3> QED BY <1>00, <3>1, <2>3
  <2> QED BY <1>0, <2>1, <2>2, <2>3
<1> QED BY <1>4, <1>5, <1>6 DEF SeatsAreCurrent

\* What every step of Projects does: the tables stay sound, what is read-only
\* stands, and only curation moves a managed Project.
TablesOK == TypeOK /\ ImplicitIsEmpty /\ SeatsAreCurrent
ReadOnlyStep == \A p \in ProjectIds :
  /\ Exists(p) /\ Exists(p)'
  /\ \/ project[p].state = "archived" /\ project[p]'.state = "archived"
     \/ space # "active"
  => /\ {l \in link : l[1] = p}' = {l \in link : l[1] = p}
     /\ SeatsOf(p)' = {s \in SeatsOf(p) : Current(s[2])'}
     /\ project[p]' = project[p]
CurationStep == \A p \in ProjectIds :
  /\ Exists(p) /\ project[p].mode = "managed"
  /\ Exists(p)' /\ (project[p]'.mode # "managed" \/ ~(SeatsOf(p)' \subseteq SeatsOf(p)))
  => \E m \in MemberIds : May(m, "project_participation.manage", "managed")
Proper == TablesOK' /\ ReadOnlyStep /\ CurationStep

Confined(p, change) ==
  /\ \A s \in change.in \cup change.out : s[1] = p
  /\ \A l \in change.linkIn \cup change.linkOut : l[1] = p
Placed(change) ==
  /\ change.row \in ProjectRows /\ change.in \subseteq ProjectIds \X MemberIds
  /\ change.linkIn \subseteq ProjectIds \X Items

LEMMA WriteTypes ==
  ASSUME TypeOK, NEW p \in ProjectIds, NEW change, Placed(change), Write(p, change)
  PROVE  TypeOK'
<1>1. project' \in [ProjectIds -> ProjectRows] BY DEF TypeOK, Write, Placed
<1>2. seat' \in SUBSET (ProjectIds \X MemberIds) BY DEF TypeOK, Write, Placed
<1>3. link' \in SUBSET (ProjectIds \X Items) BY DEF TypeOK, Write, Placed
<1>4. space' \in Lifecycles /\ member' \in [MemberIds -> MemberRows] BY DEF TypeOK, Write
<1> QED BY <1>1, <1>2, <1>3, <1>4 DEF TypeOK

\* A write leaves the other Projects alone.
LEMMA OthersStay ==
  ASSUME TypeOK, NEW p \in ProjectIds, NEW change, Confined(p, change), Write(p, change),
         NEW x \in ProjectIds, x # p
  PROVE  /\ project'[x] = project[x] /\ SeatsOf(x)' = SeatsOf(x)
         /\ {l \in link : l[1] = x}' = {l \in link : l[1] = x}
<1>1. project'[x] = project[x] BY DEF TypeOK, Write
<1>2. SeatsOf(x)' = SeatsOf(x) BY DEF SeatsOf, Write, Confined
<1>3. \A l : l \in link' /\ l[1] = x <=> l \in link /\ l[1] = x BY DEF Write, Confined
<1> QED BY <1>1, <1>2, <1>3

LEMMA WriteIsProper ==
  ASSUME TablesOK, NEW p \in ProjectIds, NEW change, Confined(p, change), Write(p, change),
         TablesOK', space = "active",
         Exists(p) /\ project[p].state = "archived" /\ change.row.state = "archived" =>
           change.row = project[p] /\ seat' = seat /\ link' = link,
         /\ Exists(p) /\ project[p].mode = "managed" /\ change.row.state # "deleted"
         /\ (change.row.mode # "managed" \/ ~(change.in \subseteq seat))
         => \E m \in MemberIds : May(m, "project_participation.manage", "managed")
  PROVE  Proper
<1>0. project'[p] = change.row BY DEF Write, TablesOK, TypeOK
<1>1. ReadOnlyStep
  <2> SUFFICES ASSUME NEW x \in ProjectIds, Exists(x), Exists(x)', project[x].state = "archived",
                      project[x]'.state = "archived"
               PROVE  /\ {l \in link : l[1] = x}' = {l \in link : l[1] = x}
                      /\ SeatsOf(x)' = {s \in SeatsOf(x) : Current(s[2])'}
                      /\ project[x]' = project[x]
    BY DEF ReadOnlyStep
  <2>1. /\ {l \in link : l[1] = x}' = {l \in link : l[1] = x} /\ SeatsOf(x)' = SeatsOf(x)
        /\ project[x]' = project[x]
    <3>1. CASE x = p
      <4>1. change.row.state = "archived" BY <1>0, <3>1
      <4>2. change.row = project[p] /\ seat' = seat /\ link' = link BY <3>1, <4>1
      <4> QED BY <1>0, <3>1, <4>2 DEF SeatsOf
    <3>2. CASE x # p BY <3>2, OthersStay DEF TablesOK
    <3> QED BY <3>1, <3>2
  <2>2. \A s \in SeatsOf(x) : Current(s[2])'
    BY DEF SeatsOf, TablesOK, SeatsAreCurrent, Current, Write
  <2> QED BY <2>1, <2>2
<1>2. CurationStep
  <2> SUFFICES ASSUME NEW x \in ProjectIds, Exists(x), project[x].mode = "managed", Exists(x)',
                      project[x]'.mode # "managed" \/ ~(SeatsOf(x)' \subseteq SeatsOf(x))
               PROVE  \E m \in MemberIds : May(m, "project_participation.manage", "managed")
    BY DEF CurationStep
  <2>1. x = p
    <3> SUFFICES ASSUME x # p PROVE FALSE OBVIOUS
    <3> QED BY OthersStay DEF TablesOK
  <2>2. change.row.state # "deleted" BY <1>0, <2>1 DEF Exists
  <2>3. SeatsOf(p)' \subseteq SeatsOf(p) \/ ~(change.in \subseteq seat)
    <3> SUFFICES ASSUME change.in \subseteq seat, ~(SeatsOf(p)' \subseteq SeatsOf(p))
                 PROVE  FALSE
      OBVIOUS
    <3>1. PICK s \in seat' : s[1] = p /\ s \notin seat BY DEF SeatsOf
    <3>2. s \in change.in BY <3>1 DEF Write
    <3> QED BY <3>1, <3>2
  <2> QED BY <1>0, <2>1, <2>2, <2>3
<1> QED BY <1>1, <1>2 DEF Proper

LEMMA ChangeParts ==
  ASSUME NEW row, NEW in, NEW out, NEW linkIn, NEW linkOut
  PROVE  /\ Change(row, in, out, linkIn, linkOut).row = row
         /\ Change(row, in, out, linkIn, linkOut).in = in
         /\ Change(row, in, out, linkIn, linkOut).out = out
         /\ Change(row, in, out, linkIn, linkOut).linkIn = linkIn
         /\ Change(row, in, out, linkIn, linkOut).linkOut = linkOut
BY DEF Change

LEMMA RowTypes ==
  ASSUME TypeOK, NEW p \in ProjectIds
  PROVE  /\ project[p] \in ProjectRows
         /\ \A mode \in Participations : [project[p] EXCEPT !.mode = mode] \in ProjectRows
         /\ \A s \in ProjectStates : LET row == [project[p] EXCEPT !.state = s] IN
              row \in ProjectRows /\ row.state = s /\ row.mode = project[p].mode
         /\ [project EXCEPT ![p] = project[p]] = project
BY DEF TypeOK, ProjectRows

\* A membership takes a seat in an open or managed Project.
LEMMA TakeIsProper ==
  ASSUME TablesOK, NEW p \in ProjectIds, NEW m \in MemberIds, Open(p), space = "active",
         project[p].mode # "workspace", member[m].status = "active", MayTake(p, m),
         project[p].mode = "managed" =>
           \E a \in MemberIds : May(a, "project_participation.manage", "managed"),
         Write(p, JoinChange(m, p))
  PROVE  Proper
<1> DEFINE change == JoinChange(m, p)
<1>1. /\ change.row = project[p] /\ change.in = {<<p, m>>} /\ change.out = {}
      /\ change.linkIn = {} /\ change.linkOut = {}
  BY ChangeParts DEF JoinChange, Seats
<1> HIDE DEF change
<1>2. Write(p, change) BY DEF change
<1>3. Confined(p, change) BY <1>1 DEF Confined
<1>4. TypeOK' BY <1>1, <1>2, WriteTypes, RowTypes DEF TablesOK, Placed
<1>5. ImplicitIsEmpty' /\ SeatsAreCurrent'
  <2>1. \A s \in change.in : /\ s[1] = p /\ Current(s[2]) /\ change.in = {s}
                             /\ UserSeats(p, s[2][1]) \subseteq {s} \cup change.out
    BY <1>1 DEF Current, MayTake
  <2>2. change.row.state = "active" /\ change.row.mode # "workspace" BY <1>1 DEF Open
  <2> QED BY <1>2, <2>1, <2>2, SeatsStay DEF TablesOK
<1>6. project[p].state # "archived" BY DEF Open
<1> QED BY <1>1, <1>2, <1>3, <1>4, <1>5, <1>6, WriteIsProper DEF TablesOK

\* Selections go, and links come and go, in an active Project.
LEMMA ReleaseIsProper ==
  ASSUME TablesOK, NEW p \in ProjectIds, NEW change, Open(p), space = "active",
         change.row = project[p], change.in = {}, change.linkIn \subseteq ProjectIds \X Items,
         Confined(p, change), Write(p, change)
  PROVE  Proper
<1>1. TypeOK' BY WriteTypes, RowTypes DEF TablesOK, Placed
<1>2. \A s \in SeatsOf(p) :
        change.row.state \in {"active", "archived"} /\ change.row.mode # "workspace"
  BY DEF TablesOK, ImplicitIsEmpty, Exists
<1>3. ImplicitIsEmpty' /\ SeatsAreCurrent' BY <1>2, SeatsStay DEF TablesOK
<1>4. project[p].state # "archived" /\ project[p].mode = change.row.mode BY DEF Open
<1> QED BY <1>1, <1>3, <1>4, WriteIsProper DEF TablesOK

LEMMA JoinIsProper ==
  ASSUME TablesOK, NEW p \in ProjectIds, NEW m \in MemberIds, Join(m, p)
  PROVE  Proper
<1>1. space = "active" /\ member[m].status = "active"
  BY WritesNeedActive DEF Join, MayJoin, WriteActions
<1> QED BY <1>1, TakeIsProper DEF Join, MayJoin

LEMMA AddIsProper ==
  ASSUME TablesOK, NEW p \in ProjectIds, NEW m \in MemberIds, NEW t \in MemberIds, Add(m, p, t)
  PROVE  Proper
<1>1. space = "active"
  BY WritesNeedActive DEF Add, MayAdd, MayCurate, WriteActions
<1> QED BY <1>1, TakeIsProper DEF Add, MayAdd, MayCurate

LEMMA LeaveIsProper ==
  ASSUME TablesOK, NEW p \in ProjectIds, NEW m \in MemberIds, Leave(m, p)
  PROVE  Proper
<1>1. space = "active" /\ Open(p)
  BY WritesNeedActive DEF Leave, MayLeave, WriteActions
<1> DEFINE change == LeaveChange(m, p)
<1>2. /\ change.row = project[p] /\ change.in = {} /\ Confined(p, change)
      /\ change.linkIn \subseteq ProjectIds \X Items
  BY ChangeParts DEF LeaveChange, Seats, Confined
<1>3. Write(p, change) BY DEF Leave
<1> HIDE DEF change
<1> QED BY <1>1, <1>2, <1>3, ReleaseIsProper

LEMMA RemoveIsProper ==
  ASSUME TablesOK, NEW p \in ProjectIds, NEW m \in MemberIds, NEW u \in Users, Remove(m, p, u)
  PROVE  Proper
<1>1. space = "active" /\ Open(p)
  BY WritesNeedActive DEF Remove, MayRemove, MayCurate, WriteActions
<1> DEFINE change == RemoveChange(p, u)
<1>2. /\ change.row = project[p] /\ change.in = {} /\ Confined(p, change)
      /\ change.linkIn \subseteq ProjectIds \X Items
  BY ChangeParts DEF RemoveChange, Seats, UserSeats, Confined
<1>3. Write(p, change) BY DEF Remove
<1> HIDE DEF change
<1> QED BY <1>1, <1>2, <1>3, ReleaseIsProper

LEMMA AttachIsProper ==
  ASSUME TablesOK, NEW p \in ProjectIds, NEW m \in MemberIds, NEW items \in SUBSET Items,
         Attach(m, p, items)
  PROVE  Proper
<1>1. space = "active" /\ Open(p)
  BY WritesNeedActive DEF Attach, MayLink, WriteActions
<1> DEFINE change == Links(p, LinksTo(p, items), {})
<1>2. /\ change.row = project[p] /\ change.in = {} /\ Confined(p, change)
      /\ change.linkIn \subseteq ProjectIds \X Items
  BY ChangeParts DEF Links, LinksTo, Confined
<1>3. Write(p, change) BY DEF Attach
<1> HIDE DEF change
<1> QED BY <1>1, <1>2, <1>3, ReleaseIsProper

LEMMA DetachIsProper ==
  ASSUME TablesOK, NEW p \in ProjectIds, NEW m \in MemberIds, NEW items \in SUBSET Items,
         Detach(m, p, items)
  PROVE  Proper
<1>1. space = "active" /\ Open(p)
  BY WritesNeedActive DEF Detach, MayLink, WriteActions
<1> DEFINE change == Links(p, {}, LinksTo(p, items))
<1>2. /\ change.row = project[p] /\ change.in = {} /\ Confined(p, change)
      /\ change.linkIn \subseteq ProjectIds \X Items
  BY ChangeParts DEF Links, LinksTo, Confined
<1>3. Write(p, change) BY DEF Detach
<1> HIDE DEF change
<1> QED BY <1>1, <1>2, <1>3, ReleaseIsProper

LEMMA UpdateIsProper ==
  ASSUME TablesOK, NEW p \in ProjectIds, NEW m \in MemberIds, NEW mode \in Participations,
         Update(m, p, mode)
  PROVE  Proper
<1> DEFINE change == UpdateChange(m, p, mode)
           changed == mode # project[p].mode
<1>1. /\ change.row = [project[p] EXCEPT !.mode = mode]
      /\ change.in = IF changed /\ mode = "open" /\ project[p].mode = "workspace"
                     THEN {<<p, m>>} ELSE {}
      /\ change.out = IF changed /\ "workspace" \in {mode, project[p].mode}
                      THEN SeatsOf(p) ELSE {}
      /\ change.linkIn = {} /\ change.linkOut = {}
  BY ChangeParts DEF UpdateChange
<1>2. Write(p, change) BY DEF Update
<1> HIDE DEF change
<1>3. space = "active" /\ member[m].status = "active" /\ project[p].state = "active"
  BY WritesNeedActive DEF Update, MayUpdate, WriteActions, Open
<1>4. change.row.state = "active" /\ change.row.mode = mode /\ change.row \in ProjectRows
  BY <1>1, <1>3, RowTypes DEF TablesOK, TypeOK, ProjectRows
<1>5. Confined(p, change) BY <1>1 DEF Confined, SeatsOf
<1>6. TypeOK'
  <2>1. change.in \subseteq ProjectIds \X MemberIds BY <1>1
  <2> QED BY <1>1, <1>2, <1>4, <2>1, WriteTypes DEF TablesOK, Placed
<1>7. ImplicitIsEmpty' /\ SeatsAreCurrent'
  <2>2. ASSUME NEW s \in change.in
        PROVE  /\ s[1] = p /\ Current(s[2]) /\ change.in = {s}
               /\ UserSeats(p, s[2][1]) \subseteq {s} \cup change.out
    <3>1. /\ s = <<p, m>> /\ change.in = {<<p, m>>} /\ project[p].mode = "workspace"
          /\ change.out = SeatsOf(p)
      BY <1>1, <2>2
    <3>2. UserSeats(p, s[2][1]) \subseteq SeatsOf(p) BY DEF UserSeats, SeatsOf
    <3> QED BY <3>1, <3>2, <1>3 DEF Current
  <2>3. (SeatsOf(p) \ change.out) \cup change.in # {} => change.row.mode # "workspace"
    <3> SUFFICES ASSUME mode = "workspace" PROVE (SeatsOf(p) \ change.out) \cup change.in = {}
      BY <1>4
    <3>1. change.in = {} BY <1>1
    <3>2. project[p].mode = "workspace" => SeatsOf(p) = {} BY DEF TablesOK, ImplicitIsEmpty
    <3> QED BY <3>1, <3>2, <1>1
  <2> QED BY <1>2, <1>4, <2>2, <2>3, SeatsStay DEF TablesOK
<1>8. project[p].mode = "managed" /\ change.row.mode # "managed" =>
        May(m, "project_participation.manage", "managed")
  BY <1>4 DEF Update, MayUpdate
<1>9. project[p].mode = "managed" => change.in = {} BY <1>1
<1> QED BY <1>2, <1>3, <1>5, <1>6, <1>7, <1>8, <1>9, WriteIsProper DEF TablesOK

LEMMA SetStateIsProper ==
  ASSUME TablesOK, NEW p \in ProjectIds, NEW m \in MemberIds,
         NEW s \in {"active", "archived"}, SetState(m, p, s)
  PROVE  Proper
<1> DEFINE change == StateChange(p, s)
<1>1. /\ change.row = [project[p] EXCEPT !.state = s] /\ change.in = {} /\ change.out = {}
      /\ change.linkIn = {} /\ change.linkOut = {}
  BY ChangeParts DEF StateChange
<1>2. Write(p, change) BY DEF SetState
<1> HIDE DEF change
<1>3. space = "active" BY WritesNeedActive DEF SetState, MaySetState, WriteActions
<1>4. change.row.state = s /\ change.row.mode = project[p].mode /\ change.row \in ProjectRows
  <2>1. TypeOK /\ s \in ProjectStates BY DEF TablesOK, ProjectStates
  <2> QED BY <1>1, <2>1, RowTypes
<1>5. Confined(p, change) BY <1>1 DEF Confined
<1>6. TypeOK' BY <1>1, <1>2, <1>4, WriteTypes DEF TablesOK, Placed
<1>7. ImplicitIsEmpty' /\ SeatsAreCurrent'
  <2>1. \A x \in SeatsOf(p) : project[p].mode # "workspace" BY DEF TablesOK, ImplicitIsEmpty
  <2> QED BY <1>1, <1>2, <1>4, <2>1, SeatsStay DEF TablesOK
<1>8. project[p].state = "archived" /\ change.row.state = "archived" => change.row = project[p]
  BY <1>1, <1>4 DEF TablesOK, TypeOK, ProjectRows
<1>9. seat' = seat /\ link' = link BY <1>1, <1>2 DEF Write
<1> QED BY <1>1, <1>2, <1>3, <1>4, <1>5, <1>6, <1>7, <1>8, <1>9, WriteIsProper DEF TablesOK

LEMMA DeleteIsProper ==
  ASSUME TablesOK, NEW p \in ProjectIds, NEW m \in MemberIds, Delete(m, p)
  PROVE  Proper
<1> DEFINE change == DeleteChange(p)
<1>1. /\ change.row = [project[p] EXCEPT !.state = "deleted"] /\ change.in = {}
      /\ change.out = SeatsOf(p)
      /\ change.linkIn = {} /\ change.linkOut = {l \in link : l[1] = p}
  BY ChangeParts DEF DeleteChange
<1>2. Write(p, change) BY DEF Delete
<1> HIDE DEF change
<1>3. space = "active" BY WritesNeedActive DEF Delete, MayDelete, WriteActions
<1>4. change.row.state = "deleted" /\ change.row \in ProjectRows
  BY <1>1, RowTypes DEF TablesOK, ProjectStates
<1>5. Confined(p, change) BY <1>1 DEF Confined, SeatsOf
<1>6. TypeOK' BY <1>1, <1>2, <1>4, WriteTypes DEF TablesOK, Placed
<1>7. ImplicitIsEmpty' /\ SeatsAreCurrent' BY <1>1, <1>2, SeatsStay DEF TablesOK
<1> QED BY <1>2, <1>3, <1>4, <1>5, <1>6, <1>7, WriteIsProper DEF TablesOK

LEMMA CreateIsProper ==
  ASSUME TablesOK, NEW p \in ProjectIds, NEW m \in MemberIds, NEW mode \in Participations,
         Create(m, p, mode)
  PROVE  Proper
<1> DEFINE change == CreateChange(m, p, mode)
<1>1. /\ change.row = [state |-> "active", mode |-> mode]
      /\ change.in = IF mode = "open" THEN {<<p, m>>} ELSE {}
      /\ change.out = {} /\ change.linkIn = {} /\ change.linkOut = {}
  BY ChangeParts DEF CreateChange
<1>2. Write(p, change) BY DEF Create
<1> HIDE DEF change
<1>3. space = "active" /\ member[m].status = "active" /\ project[p].state = "absent"
  BY WritesNeedActive DEF Create, MayCreate, WriteActions
<1>4. change.row \in ProjectRows BY <1>1 DEF ProjectRows, ProjectStates
<1>5. Confined(p, change) BY <1>1 DEF Confined
<1>6. TypeOK'
  <2>1. change.in \subseteq ProjectIds \X MemberIds BY <1>1
  <2> QED BY <1>1, <1>2, <1>4, <2>1, WriteTypes DEF TablesOK, Placed
<1>7. SeatsOf(p) = {} BY <1>3 DEF TablesOK, ImplicitIsEmpty, Exists
<1>8. ImplicitIsEmpty' /\ SeatsAreCurrent'
  <2>2. ASSUME NEW s \in change.in
        PROVE  /\ s[1] = p /\ Current(s[2]) /\ change.in = {s}
               /\ UserSeats(p, s[2][1]) \subseteq {s} \cup change.out
    <3>1. s = <<p, m>> /\ change.in = {s} BY <1>1, <2>2
    <3>2. UserSeats(p, s[2][1]) \subseteq SeatsOf(p) BY DEF UserSeats, SeatsOf
    <3> QED BY <3>1, <3>2, <1>3, <1>7 DEF Current
  <2>3. change.in # {} => change.row.mode # "workspace" BY <1>1
  <2>4. change.row.state = "active" BY <1>1
  <2> QED BY <1>2, <1>7, <2>2, <2>3, <2>4, SeatsStay DEF TablesOK
<1>9. ~Exists(p) BY <1>3 DEF Exists
<1> QED BY <1>2, <1>3, <1>5, <1>6, <1>8, <1>9, WriteIsProper DEF TablesOK

\* The Workspace keeps its members' selections, except where a membership ends.
LEMMA GovernIsProper ==
  ASSUME TablesOK, Govern
  PROVE  Proper
<1>1. UNCHANGED <<project, link>>
  BY DEF Govern, Admit, Revise, End, MoveSpace, Governed
<1>2. /\ space' \in Lifecycles /\ member' \in [MemberIds -> MemberRows]
      /\ seat' = {s \in seat : Current(s[2])'}
  <2>0. TypeOK /\ \A s \in seat : s[2] \in MemberIds /\ Current(s[2])
    BY DEF TablesOK, TypeOK, SeatsAreCurrent
  <2>1. ASSUME NEW u \in Users, NEW g \in Gens, NEW r \in AskRoles, Admit(u, g, r)
        PROVE  <1>2!:
    <3>1. /\ <<u, g>> \in MemberIds /\ [role |-> r, status |-> "active"] \in MemberRows
          /\ member' = [member EXCEPT ![<<u, g>>] = [role |-> r, status |-> "active"]]
      BY <2>1, RolesAssumption DEF Admit, MemberIds, MemberRows
    <3>2. member' \in [MemberIds -> MemberRows] /\ space' = space /\ seat' = seat
      BY <2>0, <2>1, <3>1 DEF Admit, TypeOK
    <3>3. \A s \in seat : Current(s[2])' BY <2>0, <3>1 DEF Current, TypeOK
    <3> QED BY <2>0, <3>2, <3>3 DEF TypeOK
  <2>2. ASSUME NEW m \in MemberIds, NEW r \in AskRoles, NEW s \in {"active", "suspended"},
               Revise(m, r, s)
        PROVE  <1>2!:
    <3>1. /\ [role |-> r, status |-> s] \in MemberRows
          /\ member' = [member EXCEPT ![m] = [role |-> r, status |-> s]]
      BY <2>2, RolesAssumption DEF Revise, MemberRows
    <3>2. member' \in [MemberIds -> MemberRows] /\ space' = space /\ seat' = seat
      BY <2>0, <2>2, <3>1 DEF Revise, TypeOK
    <3>3. \A x \in seat : Current(x[2])' BY <2>0, <3>1 DEF Current, TypeOK
    <3> QED BY <2>0, <3>2, <3>3 DEF TypeOK
  <2>3. ASSUME NEW m \in MemberIds, End(m)
        PROVE  <1>2!:
    <3>1. member' = [member EXCEPT ![m].status = "ended"] /\ seat' = {s \in seat : s[2] # m}
      BY <2>3 DEF End
    <3>2. member' \in [MemberIds -> MemberRows] /\ space' = space
      BY <2>0, <2>3, <3>1 DEF End, TypeOK, MemberRows
    <3>3. \A x \in seat : Current(x[2])' <=> x[2] # m
      BY <2>0, <3>1 DEF Current, TypeOK, MemberRows
    <3> QED BY <2>0, <3>1, <3>2, <3>3 DEF TypeOK
  <2>4. ASSUME NEW s \in Lifecycles, MoveSpace(s)
        PROVE  <1>2!:
    BY <2>0, <2>4 DEF MoveSpace, TypeOK, Current
  <2> QED BY <2>1, <2>2, <2>3, <2>4 DEF Govern
<1>3. \A p \in ProjectIds : SeatsOf(p)' = {s \in SeatsOf(p) : Current(s[2])'}
  BY <1>2 DEF SeatsOf
<1>4. TypeOK' BY <1>1, <1>2 DEF TypeOK, TablesOK
<1>5. ImplicitIsEmpty' BY <1>1, <1>3 DEF ImplicitIsEmpty, Exists, TablesOK
<1>6. SeatsAreCurrent'
  <2> SUFFICES ASSUME NEW s \in seat' PROVE Current(s[2])' /\ UserSeats(s[1], s[2][1])' = {s}
    BY DEF SeatsAreCurrent
  <2>1. s \in seat /\ Current(s[2])' /\ UserSeats(s[1], s[2][1]) = {s}
    BY <1>2 DEF TablesOK, SeatsAreCurrent
  <2>2. UserSeats(s[1], s[2][1])' = {s} BY <1>2, <2>1 DEF UserSeats
  <2> QED BY <2>1, <2>2
<1>7. ReadOnlyStep BY <1>1, <1>3 DEF ReadOnlyStep
<1>8. CurationStep BY <1>1, <1>3 DEF CurationStep
<1> QED BY <1>4, <1>5, <1>6, <1>7, <1>8 DEF Proper, TablesOK

LEMMA InitIsSound == Init => TablesOK
<1> SUFFICES ASSUME Init PROVE TablesOK OBVIOUS
<1>1. member \in [MemberIds -> MemberRows]
  <2>1. ASSUME NEW m \in MemberIds PROVE m[1] \in Users BY MemberParts
  <2>2. ASSUME NEW m \in MemberIds PROVE member[m] \in MemberRows
    <3>1. Roster[m[1]] \in Roles \cup {"none"} BY <2>1, RosterAssumption
    <3>2. member[m] = IF m[2] = 1 /\ Roster[m[1]] # "none"
                      THEN [role |-> Roster[m[1]], status |-> "active"]
                      ELSE [role |-> "viewer", status |-> "unused"]
      BY DEF Init
    <3> QED BY <3>1, <3>2 DEF MemberRows, Roles
  <2>3. member = [m \in MemberIds |-> member[m]] BY DEF Init
  <2> QED BY <2>2, <2>3
<1>2. project \in [ProjectIds -> ProjectRows]
  <2>1. PICK opening \in Openings : project = [p \in ProjectIds |->
          IF opening[p] = "none" THEN [state |-> "absent", mode |-> "open"]
          ELSE [state |-> "active", mode |-> opening[p]]]
    BY DEF Init
  <2>2. opening \in [ProjectIds -> Participations \cup {"none"}] BY OpeningsAssumption
  <2> QED BY <2>1, <2>2 DEF ProjectRows, ProjectStates, Participations
<1> QED
  BY <1>1, <1>2 DEF Init, TablesOK, TypeOK, ImplicitIsEmpty, SeatsAreCurrent, SeatsOf, Lifecycles

LEMMA NextIsProper ==
  ASSUME TablesOK, Next
  PROVE  Proper
BY JoinIsProper, LeaveIsProper, AddIsProper, RemoveIsProper, UpdateIsProper, CreateIsProper,
   SetStateIsProper, DeleteIsProper, AttachIsProper, DetachIsProper, GovernIsProper
DEF Next, Participate, Manage

\* The atomic commands keep participation sound, leave a read-only working set alone
\* and need a curator to move a managed Project (participation.py, lifecycle.py).
THEOREM CommandsAreSound == Spec => []TablesOK /\ ReadOnlyStands /\ CurationHasCurator
<1>1. TablesOK /\ [Next]_vars => TablesOK'
  <2>1. ASSUME TablesOK, UNCHANGED vars PROVE TablesOK'
    BY <2>1 DEF vars, TablesOK, TypeOK, ImplicitIsEmpty, SeatsAreCurrent, SeatsOf, UserSeats, Exists,
                Current
  <2> QED BY <2>1, NextIsProper DEF Proper
<1>2. TablesOK /\ [Next]_vars => [\A p \in ProjectIds :
        /\ Exists(p) /\ Exists(p)'
        /\ \/ project[p].state = "archived" /\ project[p]'.state = "archived"
           \/ space # "active"
        => /\ {l \in link : l[1] = p}' = {l \in link : l[1] = p}
           /\ SeatsOf(p)' = {s \in SeatsOf(p) : Current(s[2])'}
           /\ project[p]' = project[p]]_vars
  BY NextIsProper DEF Proper, ReadOnlyStep
<1>3. TablesOK /\ [Next]_vars => [\A p \in ProjectIds :
        /\ Exists(p) /\ project[p].mode = "managed"
        /\ Exists(p)' /\ (project[p]'.mode # "managed" \/ ~(SeatsOf(p)' \subseteq SeatsOf(p)))
        => \E m \in MemberIds : May(m, "project_participation.manage", "managed")]_vars
  BY NextIsProper DEF Proper, CurationStep
<1> QED BY <1>1, <1>2, <1>3, InitIsSound, PTL DEF Spec, ReadOnlyStands, CurationHasCurator

-------------------------------------------------------------------------------
(* The inductive invariant of the transactions.  What a command has decided  *)
(* on stays true until it commits, as whoever could change it needs a lock   *)
(* that conflicts with one it holds.                                         *)

SharedOps == {"join", "leave", "add", "attach", "detach"}
SeatOps == {"join", "leave", "add"}
LinkOps == {"attach", "detach"}
RootOps == {"remove", "update", "set_state", "delete"}
AllOps == SeatOps \cup LinkOps \cup RootOps \cup {"create"}

Pairs == ProjectIds \X MemberIds
Locks ==
  [on : {"project"}, key : ProjectIds, mode : {"shared", "update"}]
  \cup [on : {"seat"}, key : ProjectIds \X Users, mode : {"update"}]
  \cup [on : {"link"}, key : ProjectIds \X Items, mode : {"update"}]
NoCommand == [op |-> "none"]
TxRows ==
  [pc : {"idle", "find", "project", "decide", "rows", "reread"},
   cmd : Requests \cup {NoCommand}, me : MemberIds \cup {<<>>}, snap : SUBSET Pairs,
   todo : Seq(Locks), found : SUBSET Locks, held : SUBSET Locks,
   in : SUBSET Pairs, out : SUBSET Pairs,
   linkIn : SUBSET (ProjectIds \X Items), linkOut : SUBSET (ProjectIds \X Items),
   answer : {"none", "refused", "done", "lost"}]

\* The selection a participation command is about, and the lock of its key.
Person(t) == IF t.cmd.op = "add" THEN t.cmd.target ELSE t.me
SeatRow(t) == <<t.cmd.project, Person(t)>>
SeatLock(t) == SeatKey(t.cmd.project, Person(t)[1])
Bare(t) == t.in = {} /\ t.out = {} /\ t.linkIn = {} /\ t.linkOut = {}

\* A command acts for an active membership of its client, who is waiting.
Acts(t) == t.pc # "idle" =>
  /\ t.cmd \in Requests /\ t.me \in MemberIds
  /\ t.me[1] = t.cmd.by /\ member[t.me].status = "active" /\ t.answer = "none"

\* What a transaction holds and has yet to take at each place of its program.
Phase(t) ==
  /\ t.pc = "idle" => t.cmd = NoCommand
  /\ t.pc \in {"idle", "find", "project"} => t.held = {}
  /\ t.pc \in {"idle", "find", "decide"} => t.todo = <<>>
  /\ t.pc = "project" => t.todo = <<ProjectLock(t.cmd)>> /\ ProjectLock(t.cmd) \in t.found
  /\ t.pc \in {"project", "decide"} => t.cmd.op # "create"
  /\ t.pc = "reread" => t.cmd.op \in {"join", "add"} /\ t.todo \in {<<>>, <<SeatLock(t)>>}
  /\ t.pc \in {"decide", "reread"} => t.held = {ProjectLock(t.cmd)}
  /\ t.pc # "rows" => Bare(t)

\* Once decided, what the command required still holds.
Permitted(t) == LET c == t.cmd  p == t.cmd.project  m == t.me IN
  t.pc \in {"rows", "reread"} =>
    /\ c.op = "create" => MayCreate(m, p, c.mode)
    /\ c.op # "create" => Discovers(m, p)
    /\ c.op = "join" => MayJoin(m, p)
    /\ c.op = "leave" => MayLeave(m, p)
    /\ c.op = "add" => MayAdd(m, p, c.target)
    /\ c.op = "remove" => MayRemove(m, p, c.user)
    /\ c.op = "update" => MayUpdate(m, p, c.mode)
    /\ c.op = "set_state" => MaySetState(m, p, c.state)
    /\ c.op = "delete" => MayDelete(m, p)
    /\ c.op \in LinkOps => MayLink(m, p)

\* A selection that is written stays as it was found: its key is locked.
SeatWork(t) == t.pc = "rows" /\ t.cmd.op \in SeatOps =>
  /\ t.linkIn = {} /\ t.linkOut = {}
  /\ \/ t.todo = <<SeatLock(t)>> /\ t.held = {ProjectLock(t.cmd)} /\ t.in = {} /\ t.out = {}
     \/ t.todo = <<>> /\ \/ t.held = {ProjectLock(t.cmd), SeatLock(t)}
                         \/ t.held = {ProjectLock(t.cmd)} /\ t.in = {} /\ t.out = {}
  /\ t.in # {} => /\ t.cmd.op # "leave" /\ t.in = {SeatRow(t)}
                  /\ UserSeats(t.cmd.project, Person(t)[1]) = {}
  /\ t.out # {} => t.cmd.op = "leave" /\ t.out = {SeatRow(t)} /\ SeatRow(t) \in seat
  /\ t.todo = <<>> /\ t.in = {} /\ t.cmd.op # "leave" =>
       SeatLock(t) \in t.held /\ SeatRow(t) \in seat
SeatFound(t) ==
  t.pc \in {"rows", "reread"} /\ t.cmd.op \in SeatOps /\ SeatLock(t) \in t.found =>
    SeatRow(t) \in seat

\* Links a bulk command counts are locked one by one in its order.
Linked(t) == IF t.cmd.op = "attach" THEN t.linkIn ELSE t.linkOut
OrderOf(t) == IF t.cmd.op = "attach" THEN [i \in Items |-> i] ELSE LinkRank
LinkWork(t) == t.pc = "rows" /\ t.cmd.op \in LinkOps =>
  /\ t.in = {} /\ t.out = {}
  /\ t.cmd.op = "attach" => t.linkOut = {} /\ t.linkIn \cap link = {}
  /\ t.cmd.op = "detach" => t.linkIn = {} /\ t.linkOut \subseteq link
  /\ Linked(t) \subseteq LinksTo(t.cmd.project, Seqs!Range(t.cmd.items))
  /\ t.held = {ProjectLock(t.cmd)} \cup {LinkKey(l[1], l[2]) : l \in Linked(t)}
LinkFound(t) == t.pc = "rows" /\ t.cmd.op = "detach" =>
  \A p \in ProjectIds, i \in Items : LinkKey(p, i) \in t.found => <<p, i>> \in link
LinkPlan(t) == t.pc = "rows" /\ t.cmd.op \in LinkOps =>
  /\ \A n \in DOMAIN t.todo : \E i \in Seqs!Range(t.cmd.items) :
       t.todo[n] = LinkKey(t.cmd.project, i)
  /\ \A m, n \in DOMAIN t.todo : m < n =>
       OrderOf(t)[t.todo[m].key[2]] < OrderOf(t)[t.todo[n].key[2]]
  /\ \A l \in Linked(t), n \in DOMAIN t.todo : OrderOf(t)[l[2]] < OrderOf(t)[t.todo[n].key[2]]

\* The changes of a Project root are the command's, in the tables as they are.
ChangeOf(t) == LET c == t.cmd  p == t.cmd.project IN
  CASE c.op = "remove" -> RemoveChange(p, c.user)
    [] c.op = "update" -> UpdateChange(t.me, p, c.mode)
    [] c.op = "set_state" -> StateChange(p, c.state)
    [] c.op = "delete" -> DeleteChange(p)
    [] OTHER -> CreateChange(t.me, p, c.mode)
RootWork(t) == t.pc = "rows" /\ t.cmd.op \in RootOps \cup {"create"} =>
  /\ t.todo = <<>>
  /\ t.held = IF t.cmd.op = "create" THEN {} ELSE {ProjectLock(t.cmd)}
  /\ t.in = ChangeOf(t).in /\ t.out = ChangeOf(t).out
  /\ t.linkIn = {} /\ t.linkOut = ChangeOf(t).linkOut

Stands(t) ==
  /\ Acts(t) /\ Phase(t) /\ Permitted(t) /\ SeatWork(t) /\ SeatFound(t)
  /\ LinkWork(t) /\ LinkFound(t) /\ LinkPlan(t) /\ RootWork(t)

\* No two processes hold conflicting locks, or create the same Project.
Exclusive == \A q, r \in Processes : q # r =>
  /\ \A g \in tx[q].held, h \in tx[r].held : ~Blocks(g, h)
  /\ tx[q].pc = "rows" /\ tx[r].pc = "rows" /\ tx[q].cmd.op = "create" /\ tx[r].cmd.op = "create"
       => tx[q].cmd.project # tx[r].cmd.project

TxInv ==
  /\ TablesOK /\ tx \in [Processes -> TxRows]
  /\ Exclusive
  /\ \A q \in Processes : Stands(tx[q])

-------------------------------------------------------------------------------
(* Transactions between commits.                                             *)

Answers == {"none", "refused", "done", "lost"}

LEMMA RequestParts ==
  ASSUME NEW c \in Requests
  PROVE  /\ c.op \in AllOps /\ c.by \in Users /\ c.project \in ProjectIds /\ c.op # "none"
         /\ c.op = "add" => c.target \in MemberIds
         /\ c.op = "remove" => c.user \in Users
         /\ c.op \in {"update", "create"} => c.mode \in Participations
         /\ c.op = "set_state" => c.state \in {"active", "archived"}
         /\ c.op \in LinkOps => c.items \in Seq(Items)
BY RequestsAssumption DEF AllOps, SeatOps, LinkOps, RootOps

LEMMA IdleStands ==
  ASSUME NEW a \in Answers
  PROVE  Idle(a) \in TxRows /\ Stands(Idle(a)) /\ Idle(a).held = {} /\ Idle(a).pc = "idle"
<1>1. /\ Idle(a).pc = "idle" /\ Idle(a).cmd = NoCommand /\ Idle(a).todo = <<>>
      /\ Idle(a).held = {} /\ Bare(Idle(a))
  BY DEF Idle, NoCommand, Bare
<1>2. Idle(a) \in TxRows BY DEF Idle, TxRows, Answers, NoCommand
<1>3. Acts(Idle(a)) /\ Phase(Idle(a)) BY <1>1 DEF Acts, Phase
<1>4. Permitted(Idle(a)) /\ SeatWork(Idle(a)) /\ SeatFound(Idle(a)) BY <1>1 DEF Permitted, SeatWork, SeatFound
<1>5. LinkWork(Idle(a)) /\ LinkFound(Idle(a)) /\ LinkPlan(Idle(a)) /\ RootWork(Idle(a))
  BY <1>1 DEF LinkWork, LinkFound, LinkPlan, RootWork
<1> QED BY <1>1, <1>2, <1>3, <1>4, <1>5 DEF Stands

\* What stands of a transaction only moves with the tables.
LEMMA TablesKeep ==
  ASSUME NEW t, UNCHANGED tables, Stands(t)
  PROVE  Stands(t)'
<1> USE DEF tables
<1>1. Acts(t)' = Acts(t) BY DEF Acts
<1>2. Phase(t)' = Phase(t) BY DEF Phase, Bare
<1>3. Permitted(t)' = Permitted(t)
  BY DEF Permitted, MayCreate, Discovers, Shows, MayJoin, MayLeave, MayAdd, MayRemove, MayCurate,
         MayUpdate, MaySetState, MayDelete, MayLink, May, Open, UserSeats
<1>4. SeatWork(t)' = SeatWork(t) BY DEF SeatWork, UserSeats
<1>5. SeatFound(t)' = SeatFound(t) BY DEF SeatFound
<1>6. LinkWork(t)' = LinkWork(t) BY DEF LinkWork
<1>7. LinkFound(t)' = LinkFound(t) BY DEF LinkFound
<1>8. LinkPlan(t)' = LinkPlan(t) BY DEF LinkPlan
<1>9. ChangeOf(t)' = ChangeOf(t)
  BY DEF ChangeOf, RemoveChange, Seats, UserSeats, UpdateChange, StateChange, DeleteChange,
         CreateChange, SeatsOf
<1>10. RootWork(t)' = RootWork(t) BY <1>9 DEF RootWork
<1> QED BY <1>1, <1>2, <1>3, <1>4, <1>5, <1>6, <1>7, <1>8, <1>10 DEF Stands

LEMMA BlocksBothWays == \A g, h : Blocks(g, h) <=> Blocks(h, g)
BY DEF Blocks

\* A transaction moves on by itself.
LEMMA BecomesKeeps ==
  ASSUME TxInv, NEW q \in Processes, NEW t \in TxRows, tx' = [tx EXCEPT ![q] = t], UNCHANGED tables,
         Stands(t),
         \A r \in Processes \ {q} : \A g \in t.held, h \in tx[r].held : ~Blocks(g, h),
         t.pc = "rows" /\ t.cmd.op = "create" =>
           \A r \in Processes \ {q} : tx[r].pc = "rows" /\ tx[r].cmd.op = "create" =>
             tx[r].cmd.project # t.cmd.project
  PROVE  TxInv'
<1>1. tx' = [tx EXCEPT ![q] = t] /\ UNCHANGED tables OBVIOUS
<1>2. tx' \in [Processes -> TxRows] BY <1>1 DEF TxInv
<1>3. tx'[q] = t /\ \A r \in Processes \ {q} : tx'[r] = tx[r] BY <1>1 DEF TxInv
<1>4. TablesOK'
  BY <1>1 DEF TxInv, TablesOK, TypeOK, ImplicitIsEmpty, SeatsAreCurrent, tables, SeatsOf,
              UserSeats, Exists, Current
<1>5. ASSUME NEW r \in Processes PROVE Stands(tx[r])'
  <2>1. CASE r = q
    <3>1. Stands(t)' BY <1>1, TablesKeep
    <3> QED BY <2>1, <3>1, <1>3
  <2>2. CASE r # q
    <3> DEFINE o == tx[r]
    <3>1. Stands(o) BY DEF TxInv
    <3> QED BY <2>2, <1>3, <1>1, TablesKeep DEF TxInv
  <2> QED BY <2>1, <2>2
<1>6. Exclusive'
  <2> SUFFICES ASSUME NEW a \in Processes, NEW b \in Processes, a # b
               PROVE  /\ \A g \in tx'[a].held, h \in tx'[b].held : ~Blocks(g, h)
                      /\ /\ tx'[a].pc = "rows" /\ tx'[b].pc = "rows"
                         /\ tx'[a].cmd.op = "create" /\ tx'[b].cmd.op = "create"
                         => tx'[a].cmd.project # tx'[b].cmd.project
    BY DEF Exclusive, Blocks
  <2>1. CASE a # q /\ b # q BY <2>1, <1>3 DEF TxInv, Exclusive
  <2>2. CASE a = q BY <2>2, <1>3
  <2>3. CASE b = q BY <2>3, <1>3, BlocksBothWays
  <2> QED BY <2>1, <2>2, <2>3
<1> QED BY <1>2, <1>4, <1>5, <1>6 DEF TxInv

LEMMA IdleKeeps ==
  ASSUME TxInv, NEW q \in Processes, NEW a \in Answers, Becomes(q, Idle(a))
  PROVE  TxInv'
<1> DEFINE t == Idle(a)
<1>1. t \in TxRows /\ Stands(t) /\ t.held = {} /\ t.pc = "idle" BY IdleStands
<1>2. tx' = [tx EXCEPT ![q] = t] /\ UNCHANGED tables BY DEF Becomes
<1> HIDE DEF t
<1> QED BY <1>1, <1>2, BecomesKeeps

\* The next lock is free for a transaction that needs it.
LEMMA FreeLock ==
  ASSUME NEW q \in Processes, Free(q), Contends(q), NEW r \in Processes \ {q},
         NEW h \in tx[r].held
  PROVE  ~Blocks(Head(tx[q].todo), h)
BY BlocksBothWays DEF Free, BlockedBy

LEMMA StepKeeps ==
  ASSUME TxInv, NEW q \in Processes, NEW t \in TxRows, Becomes(q, t), Stands(t),
         \/ t.held \subseteq tx[q].held
         \/ Free(q) /\ Contends(q) /\ t.held \subseteq tx[q].held \cup {Head(tx[q].todo)},
         t.cmd.op = "create" => tx[q].pc = "rows" /\ t.cmd = tx[q].cmd
  PROVE  TxInv'
<1>1. \A r \in Processes \ {q} : \A g \in t.held, h \in tx[r].held : ~Blocks(g, h)
  <2> SUFFICES ASSUME NEW r \in Processes \ {q}, NEW g \in t.held, NEW h \in tx[r].held
               PROVE  ~Blocks(g, h)
    OBVIOUS
  <2>1. CASE g \in tx[q].held BY <2>1 DEF TxInv, Exclusive
  <2>2. CASE g \notin tx[q].held
    <3>1. Free(q) /\ Contends(q) /\ g = Head(tx[q].todo) BY <2>2
    <3> QED BY <3>1, FreeLock
  <2> QED BY <2>1, <2>2
<1>2. t.pc = "rows" /\ t.cmd.op = "create" =>
        \A r \in Processes \ {q} : tx[r].pc = "rows" /\ tx[r].cmd.op = "create" =>
          tx[r].cmd.project # t.cmd.project
  BY DEF TxInv, Exclusive
<1>3. tx' = [tx EXCEPT ![q] = t] /\ UNCHANGED tables BY DEF Becomes
<1> QED BY <1>1, <1>2, <1>3, BecomesKeeps

LEMMA RefuseKeeps ==
  ASSUME TxInv, NEW q \in Processes, Refuse(q)
  PROVE  TxInv'
BY IdleKeeps DEF Refuse, Answers

LEMMA LockTypes ==
  /\ \A c : c.project \in ProjectIds => ProjectLock(c) \in Locks
  /\ \A p \in ProjectIds, u \in Users : SeatKey(p, u) \in Locks
  /\ \A p \in ProjectIds, i \in Items : LinkKey(p, i) \in Locks
BY DEF ProjectLock, SeatKey, LinkKey, Lock, Locks

\* What is known of a transaction that has begun.
LEMMA Running ==
  ASSUME TxInv, NEW q \in Processes, tx[q].pc # "idle"
  PROVE  /\ tx[q] \in TxRows /\ Stands(tx[q])
         /\ tx[q].cmd \in Requests /\ tx[q].me \in MemberIds /\ tx[q].me[1] \in Users
         /\ tx[q].cmd.op \in AllOps /\ tx[q].cmd.op # "none" /\ tx[q].cmd.project \in ProjectIds
         /\ member[tx[q].me].status = "active" /\ tx[q].answer = "none"
         /\ Person(tx[q]) \in MemberIds /\ Person(tx[q])[1] \in Users
         /\ SeatRow(tx[q]) \in Pairs /\ SeatLock(tx[q]) \in Locks
         /\ ProjectLock(tx[q].cmd) \in Locks
<1>1. tx[q] \in TxRows /\ Stands(tx[q]) BY DEF TxInv
<1>2. /\ tx[q].cmd \in Requests /\ tx[q].me \in MemberIds
      /\ member[tx[q].me].status = "active" /\ tx[q].answer = "none"
  BY <1>1 DEF Stands, Acts
<1>3. /\ tx[q].cmd.op \in AllOps /\ tx[q].cmd.op # "none" /\ tx[q].cmd.project \in ProjectIds
      /\ tx[q].cmd.op = "add" => tx[q].cmd.target \in MemberIds
  BY <1>2, RequestParts
<1>4. Person(tx[q]) \in MemberIds /\ Person(tx[q])[1] \in Users
  BY <1>2, <1>3, MemberParts DEF Person
<1> QED BY <1>1, <1>2, <1>3, <1>4, MemberParts, LockTypes DEF SeatRow, SeatLock, Pairs

LEMMA BeginKeeps ==
  ASSUME TxInv, NEW q \in Processes, NEW c \in Requests, Begin(q, c)
  PROVE  TxInv'
<1>1. PICK m \in MemberIds :
        /\ m[1] = c.by /\ member[m].status = "active"
        /\ tx' = [tx EXCEPT ![q] = [Idle("none") EXCEPT !.pc = "find", !.cmd = c, !.me = m]]
        /\ UNCHANGED tables
  BY DEF Begin
<1> DEFINE i == Idle("none")
           t == [i EXCEPT !.pc = "find", !.cmd = c, !.me = m]
<1>2. /\ t.pc = "find" /\ t.cmd = c /\ t.me = m /\ t.todo = <<>> /\ t.held = {}
      /\ t.answer = "none" /\ Bare(t)
  BY DEF Idle, Bare
<1>3. t \in TxRows
  <2>1. i \in TxRows BY IdleStands DEF Answers
  <2> HIDE DEF i
  <2> QED BY <2>1 DEF TxRows
<1>4. tx' = [tx EXCEPT ![q] = t] /\ UNCHANGED tables BY <1>1
<1> HIDE DEF t
<1>5. Acts(t) BY <1>1, <1>2 DEF Acts
<1>6. Phase(t) BY <1>2 DEF Phase
<1>7. Stands(t)
  BY <1>2, <1>5, <1>6 DEF Stands, Permitted, SeatWork, SeatFound, LinkWork, LinkFound, LinkPlan,
                          RootWork
<1> QED BY <1>2, <1>3, <1>4, <1>7, BecomesKeeps

LEMMA FindKeeps ==
  ASSUME TxInv, NEW q \in Processes, Find(q)
  PROVE  TxInv'
<1> DEFINE lock == ProjectLock(tx[q].cmd)
           t == [tx[q] EXCEPT !.pc = "project", !.snap = seat, !.todo = <<lock>>, !.found = {lock}]
<1>0. tx[q].pc = "find" /\ tx[q].cmd.op # "create" /\ tx[q].pc # "idle" BY DEF Find
<1>r. /\ tx[q] \in TxRows /\ Stands(tx[q]) /\ lock \in Locks BY <1>0, Running
<1>1. CASE Refuse(q) BY <1>1, RefuseKeeps
<1>2. CASE Becomes(q, t)
  <2>1. /\ t.pc = "project" /\ t.cmd = tx[q].cmd /\ t.me = tx[q].me /\ t.todo = <<lock>>
        /\ t.found = {lock} /\ t.held = tx[q].held /\ t.answer = tx[q].answer
        /\ Bare(t) <=> Bare(tx[q])
    BY <1>r DEF TxRows, Bare
  <2>2. t \in TxRows
    <3>1. seat \in SUBSET Pairs BY DEF TxInv, TablesOK, TypeOK, Pairs
    <3>2. <<lock>> \in Seq(Locks) /\ {lock} \in SUBSET Locks BY <1>r
    <3> HIDE DEF lock
    <3> QED BY <1>r, <3>1, <3>2 DEF TxRows
  <2> HIDE DEF t
  <2>3. Acts(t) BY <1>0, <1>r, <2>1 DEF Stands, Acts
  <2>4. Phase(t) BY <1>0, <1>r, <2>1 DEF Stands, Phase
  <2>5. Stands(t)
    BY <2>1, <2>3, <2>4 DEF Stands, Permitted, SeatWork, SeatFound, LinkWork, LinkFound, LinkPlan,
                            RootWork
  <2>6. t.held \subseteq tx[q].held /\ t.cmd.op # "create" BY <1>0, <2>1
  <2> QED BY <1>2, <2>2, <2>5, <2>6, StepKeeps
<1> QED BY <1>0, <1>1, <1>2 DEF Find

LEMMA LockProjectKeeps ==
  ASSUME TxInv, NEW q \in Processes, LockProject(q)
  PROVE  TxInv'
<1> DEFINE lock == ProjectLock(tx[q].cmd)
           first == Head(tx[q].todo)
           t == [tx[q] EXCEPT !.pc = "decide", !.snap = {}, !.todo = <<>>,
                              !.held = {first}]
<1>0. tx[q].pc = "project" /\ tx[q].pc # "idle" /\ Free(q) BY DEF LockProject
<1>r. /\ tx[q] \in TxRows /\ Stands(tx[q]) /\ lock \in Locks BY <1>0, Running
<1>1. CASE Refuse(q) BY <1>1, RefuseKeeps
<1>2. CASE Becomes(q, t)
  <2>0. /\ tx[q].todo = <<lock>> /\ lock \in tx[q].found /\ tx[q].cmd.op # "create"
        /\ Bare(tx[q]) /\ Head(tx[q].todo) = lock
    BY <1>0, <1>r DEF Stands, Phase
  <2>1. /\ t.pc = "decide" /\ t.cmd = tx[q].cmd /\ t.me = tx[q].me /\ t.todo = <<>>
        /\ t.held = {lock} /\ t.answer = tx[q].answer /\ Bare(t)
    BY <1>r, <2>0 DEF TxRows, Bare
  <2>2. t \in TxRows
    <3>1. {first} \in SUBSET Locks /\ <<>> \in Seq(Locks) BY <1>r, <2>0
    <3> HIDE DEF first
    <3> QED BY <1>r, <3>1 DEF TxRows
  <2> HIDE DEF t
  <2>3. Acts(t) BY <1>0, <1>r, <2>1 DEF Stands, Acts
  <2>4. Phase(t) BY <1>0, <2>0, <2>1 DEF Phase
  <2>5. Stands(t)
    BY <2>1, <2>3, <2>4 DEF Stands, Permitted, SeatWork, SeatFound, LinkWork, LinkFound, LinkPlan,
                            RootWork
  <2>6. Contends(q) BY <1>0, <2>0 DEF Contends, Inserts
  <2>7. t.held \subseteq tx[q].held \cup {Head(tx[q].todo)} /\ t.cmd.op # "create"
    BY <2>0, <2>1
  <2> QED BY <1>0, <1>2, <2>2, <2>5, <2>6, <2>7, StepKeeps
<1> QED BY <1>0, <1>1, <1>2 DEF LockProject

-------------------------------------------------------------------------------
(* Lists in ascending order.  Induction over finite sets, as a least         *)
(* counterexample.                                                           *)

LEMMA LeastSubset ==
  ASSUME NEW S, IsFiniteSet(S), NEW Sets \in SUBSET (SUBSET S), Sets # {}
  PROVE  \E M \in Sets : \A N \in Sets : N \subseteq M => N = M
<1>1. IsWellFoundedOn(StrictSubsetOrdering(S), SUBSET S)
  BY FS_StrictSubsetOrderingWellFounded, FS_FiniteSubsetsOfFinite
<1>2. PICK M \in Sets : \A N \in Sets : <<N, M>> \notin StrictSubsetOrdering(S)
  BY <1>1, WFMin
<1>3. \A N \in Sets : N \subseteq M => N = M BY <1>2 DEF StrictSubsetOrdering
<1> QED BY <1>3

LEMMA HighestExists ==
  ASSUME NEW S, IsFiniteSet(S), S # {}, NEW rank, \A i \in S : rank[i] \in Int
  PROVE  \E x \in S : \A y \in S : rank[y] <= rank[x]
<1> DEFINE HasHighest(X) == \E x \in X : \A y \in X : rank[y] <= rank[x]
           Sets == {X \in SUBSET S : X # {} /\ ~HasHighest(X)}
<1> SUFFICES ASSUME Sets # {} PROVE FALSE OBVIOUS
<1>1. PICK M \in Sets : \A N \in Sets : N \subseteq M => N = M
  <2>1. Sets \in SUBSET (SUBSET S) OBVIOUS
  <2> HIDE DEF Sets
  <2> QED BY <2>1, LeastSubset
<1>2. PICK i \in M : TRUE OBVIOUS
<1>3. M \ {i} # {} OBVIOUS
<1>4. M \ {i} \notin Sets BY <1>1
<1>5. PICK x \in M \ {i} : \A y \in M \ {i} : rank[y] <= rank[x] BY <1>3, <1>4
<1>6. rank[x] \in Int /\ rank[i] \in Int BY <1>5
<1>7. CASE rank[i] <= rank[x]
  <2>1. \A y \in M : rank[y] <= rank[x] BY <1>5, <1>7
  <2> QED BY <2>1, <1>5
<1>8. CASE rank[x] <= rank[i]
  <2>1. \A y \in M : rank[y] <= rank[i]
    <3> SUFFICES ASSUME NEW y \in M PROVE rank[y] <= rank[i] OBVIOUS
    <3>1. rank[y] \in Int OBVIOUS
    <3> QED BY <3>1, <1>5, <1>6, <1>8
  <2> QED BY <2>1
<1> QED BY <1>6, <1>7, <1>8

Ascends(s, S, rank) ==
  /\ s \in [1..Cardinality(S) -> S]
  /\ \A m, n \in 1..Cardinality(S) : m < n => rank[s[m]] < rank[s[n]]

LEMMA AscendingExists ==
  ASSUME NEW S, IsFiniteSet(S), NEW rank, \A i \in S : rank[i] \in Int,
         \A i, j \in S : rank[i] = rank[j] => i = j
  PROVE  \E s : Ascends(s, S, rank)
<1> DEFINE Sets == {X \in SUBSET S : ~\E s : Ascends(s, X, rank)}
<1> SUFFICES ASSUME Sets # {} PROVE FALSE OBVIOUS
<1>1. PICK M \in Sets : \A N \in Sets : N \subseteq M => N = M
  <2>1. Sets \in SUBSET (SUBSET S) OBVIOUS
  <2> HIDE DEF Sets
  <2> QED BY <2>1, LeastSubset
<1>2. IsFiniteSet(M) /\ M \subseteq S BY FS_Subset
<1>3. M # {}
  <2> SUFFICES ASSUME M = {} PROVE FALSE OBVIOUS
  <2>1. Cardinality(M) = 0 BY FS_EmptySet
  <2>2. Ascends(<<>>, M, rank) BY <2>1 DEF Ascends
  <2> QED BY <2>2
<1>4. PICK x \in M : \A y \in M : rank[y] <= rank[x] BY <1>2, <1>3, HighestExists
<1> DEFINE N == M \ {x}
           k == Cardinality(N)
<1>5. N \in SUBSET S /\ N # M /\ N \subseteq M BY <1>2
<1>6. PICK s : Ascends(s, N, rank) BY <1>1, <1>5
<1>7. k \in Nat /\ Cardinality(M) = k + 1
  <2>1. IsFiniteSet(N) /\ k = Cardinality(M) - 1 BY <1>2, FS_RemoveElement
  <2>2. k \in Nat /\ Cardinality(M) \in Nat BY <2>1, <1>2, FS_CardinalityType
  <2> QED BY <2>1, <2>2
<1> DEFINE t == [n \in 1..(k + 1) |-> IF n = k + 1 THEN x ELSE s[n]]
<1>8. Ascends(t, M, rank)
  <2>0. s \in [1..k -> N] /\ \A m, n \in 1..k : m < n => rank[s[m]] < rank[s[n]]
    BY <1>6 DEF Ascends
  <2>t. x \in M /\ k \in Nat BY <1>7
  <2> HIDE DEF k
  <2>1. t \in [1..(k + 1) -> M] BY <2>0, <2>t
  <2>2. ASSUME NEW m \in 1..(k + 1), NEW n \in 1..(k + 1), m < n
        PROVE  rank[t[m]] < rank[t[n]]
    <3>1. CASE n = k + 1
      <4>1. m \in 1..k /\ t[m] = s[m] /\ t[n] = x BY <3>1, <2>2, <2>t
      <4>2. s[m] \in M /\ s[m] # x BY <4>1, <2>0
      <4>3. rank[s[m]] \in Int /\ rank[x] \in Int /\ rank[s[m]] # rank[x] BY <4>2, <1>2
      <4> QED BY <4>1, <4>2, <4>3, <1>4
    <3>2. CASE n # k + 1
      <4>1. m \in 1..k /\ n \in 1..k /\ t[m] = s[m] /\ t[n] = s[n] BY <3>2, <2>2, <2>t
      <4> QED BY <4>1, <2>0, <2>2
    <3> QED BY <3>1, <3>2
  <2> QED BY <2>1, <2>2, <1>7 DEF Ascends
<1> QED BY <1>8

LEMMA OrderedAscends ==
  ASSUME NEW S, IsFiniteSet(S), NEW rank, \A i \in S : rank[i] \in Int,
         \A i, j \in S : rank[i] = rank[j] => i = j
  PROVE  Ascends(Ordered(S, rank), S, rank)
BY AscendingExists DEF Ordered, Ascends

LEMMA RangeIsFinite ==
  ASSUME NEW items \in Seq(Items)
  PROVE  IsFiniteSet(Seqs!Range(items)) /\ Seqs!Range(items) \subseteq Items
<1>1. Len(items) \in Nat /\ items \in [1..Len(items) -> Items] OBVIOUS
<1>2. IsFiniteSet(1..Len(items)) BY <1>1, FS_Interval
<1>3. items \in Surjection(1..Len(items), Seqs!Range(items))
  BY <1>1 DEF Surjection, Seqs!Range
<1>4. IsFiniteSet(Seqs!Range(items)) BY <1>2, <1>3, FS_Surjection
<1> QED BY <1>1, <1>4 DEF Seqs!Range

\* The keys of a bulk command, in its order.
LEMMA OrderedKeys ==
  ASSUME NEW p \in ProjectIds, NEW S \in SUBSET Items, IsFiniteSet(S),
         NEW rank, rank = [i \in Items |-> i] \/ rank = LinkRank
  PROVE  LET keys == Keys(p, Ordered(S, rank)) IN
         /\ keys \in Seq(Locks)
         /\ \A n \in DOMAIN keys : \E i \in S : keys[n] = LinkKey(p, i)
         /\ \A m, n \in DOMAIN keys : m < n => rank[keys[m].key[2]] < rank[keys[n].key[2]]
<1> DEFINE k == Cardinality(S)
           list == Ordered(S, rank)
           keys == Keys(p, list)
<1>1. \A i, j \in Items : rank[i] \in Int /\ (rank[i] = rank[j] => i = j)
  BY ItemsAssumption, RankAssumption
<1>2. Ascends(list, S, rank) BY <1>1, OrderedAscends
<1>3. k \in Nat BY FS_CardinalityType
<1>4. /\ list \in [1..k -> S]
      /\ \A m, n \in 1..k : m < n => rank[list[m]] < rank[list[n]]
  BY <1>2 DEF Ascends
<1> HIDE DEF list, k
<1>5. /\ DOMAIN keys = 1..k
      /\ \A n \in 1..k : keys[n] = LinkKey(p, list[n]) /\ list[n] \in S
  BY <1>4 DEF Keys
<1>6. \A i : LinkKey(p, i).key[2] = i BY DEF LinkKey, Lock
<1>7. keys \in [1..k -> Locks] BY <1>4, LockTypes DEF Keys
<1>8. keys \in Seq(Locks)
  <2> HIDE DEF keys
  <2> QED BY <1>3, <1>7
<1> HIDE DEF keys
<1>9. \A n \in DOMAIN keys : \E i \in S : keys[n] = LinkKey(p, i) BY <1>5
<1>10. \A m, n \in DOMAIN keys : m < n => rank[keys[m].key[2]] < rank[keys[n].key[2]]
  BY <1>4, <1>5, <1>6
<1> QED BY <1>8, <1>9, <1>10 DEF keys, list

-------------------------------------------------------------------------------
(* Decisions.                                                                *)

\* A command goes on to write with the change it decided on.
Decided(t, q, keys, change) ==
  /\ t \in TxRows /\ Becomes(q, t)
  /\ t.pc = "rows" /\ t.cmd = tx[q].cmd /\ t.me = tx[q].me /\ t.todo = keys
  /\ t.found = IF t.cmd.op \in {"leave", "detach"} THEN Seqs!Range(keys) ELSE {}
  /\ t.held = tx[q].held /\ t.answer = "none"
  /\ t.in = change.in /\ t.out = change.out
  /\ t.linkIn = change.linkIn /\ t.linkOut = change.linkOut
Typed(change) ==
  /\ change.in \in SUBSET Pairs /\ change.out \in SUBSET Pairs
  /\ change.linkIn \in SUBSET (ProjectIds \X Items)
  /\ change.linkOut \in SUBSET (ProjectIds \X Items)

LEMMA ContinueParts ==
  ASSUME TxInv, NEW q \in Processes, tx[q].pc # "idle", NEW keys \in Seq(Locks),
         NEW change, Typed(change), Continue(q, keys, change)
  PROVE  \E t : Decided(t, q, keys, change)
<1> DEFINE found == IF tx[q].cmd.op \in {"leave", "detach"} THEN Seqs!Range(keys) ELSE {}
           in == change.in
           out == change.out
           linkIn == change.linkIn
           linkOut == change.linkOut
           t == [tx[q] EXCEPT !.pc = "rows", !.todo = keys, !.found = found,
                              !.in = in, !.out = out, !.linkIn = linkIn, !.linkOut = linkOut]
<1>1. tx[q] \in TxRows /\ tx[q].answer = "none" BY Running
<1>2. found \in SUBSET Locks BY DEF Seqs!Range
<1>3. /\ in \in SUBSET Pairs /\ out \in SUBSET Pairs
      /\ linkIn \in SUBSET (ProjectIds \X Items) /\ linkOut \in SUBSET (ProjectIds \X Items)
  BY DEF Typed
<1>4. Becomes(q, t) BY DEF Continue
<1>5. t \in TxRows
  <2> HIDE DEF found, in, out, linkIn, linkOut
  <2> QED BY <1>1, <1>2, <1>3 DEF TxRows
<1>6. /\ t.pc = "rows" /\ t.cmd = tx[q].cmd /\ t.me = tx[q].me /\ t.todo = keys
      /\ t.found = found /\ t.held = tx[q].held /\ t.answer = "none"
      /\ t.in = in /\ t.out = out /\ t.linkIn = linkIn /\ t.linkOut = linkOut
  <2> HIDE DEF found, in, out, linkIn, linkOut
  <2> QED BY <1>1 DEF TxRows
<1> HIDE DEF t
<1>7. Decided(t, q, keys, change) BY <1>4, <1>5, <1>6 DEF Decided
<1> QED BY <1>7

LEMMA NothingParts ==
  ASSUME NEW p
  PROVE  /\ Typed(Nothing(p)) /\ Nothing(p).in = {} /\ Nothing(p).out = {}
         /\ Nothing(p).linkIn = {} /\ Nothing(p).linkOut = {}
BY DEF Nothing, Change, Typed

LEMMA DecideParts ==
  ASSUME TxInv, NEW q \in Processes, tx[q].pc = "decide", NEW keys \in Seq(Locks),
         NEW change, Typed(change), Continue(q, keys, change)
  PROVE  /\ tx[q].held = {ProjectLock(tx[q].cmd)} /\ tx[q].cmd.op # "create"
         /\ \E t : Decided(t, q, keys, change)
<1>1. tx[q].pc # "idle" OBVIOUS
<1>2. tx[q].held = {ProjectLock(tx[q].cmd)} /\ tx[q].cmd.op # "create"
  BY <1>1, Running DEF Stands, Phase
<1> QED BY <1>1, <1>2, ContinueParts

\* What every decided transaction shares.
LEMMA DecidedStarts ==
  ASSUME TxInv, NEW q \in Processes, tx[q].pc # "idle", NEW keys, NEW change,
         NEW t, Decided(t, q, keys, change)
  PROVE  Acts(t) /\ Phase(t)
<1>1. Acts(tx[q]) BY Running DEF Stands
<1> QED BY <1>1 DEF Acts, Phase, Decided

LEMMA DecideSeatKeeps ==
  ASSUME TxInv, NEW q \in Processes, NEW op \in SeatOps, tx[q].pc # "idle", tx[q].cmd.op = op,
         NEW keys, NEW t, Decided(t, q, keys, Nothing(tx[q].cmd.project)),
         tx[q].held = {ProjectLock(tx[q].cmd)}, Discovers(tx[q].me, tx[q].cmd.project),
         op = "join" => MayJoin(tx[q].me, tx[q].cmd.project),
         op = "leave" => MayLeave(tx[q].me, tx[q].cmd.project),
         op = "add" => MayAdd(tx[q].me, tx[q].cmd.project, tx[q].cmd.target),
         \/ keys = <<SeatLock(tx[q])>> /\ (op = "leave" => SeatRow(tx[q]) \in seat)
         \/ keys = <<>> /\ op = "leave"
  PROVE  TxInv'
<1> DEFINE nothing == Nothing(tx[q].cmd.project)
<1>1. /\ t \in TxRows /\ Becomes(q, t)
      /\ t.pc = "rows" /\ t.cmd = tx[q].cmd /\ t.me = tx[q].me /\ t.todo = keys
      /\ t.found = IF t.cmd.op \in {"leave", "detach"} THEN Seqs!Range(keys) ELSE {}
      /\ t.held = tx[q].held /\ t.answer = "none" /\ t.in = nothing.in /\ t.out = nothing.out
      /\ t.linkIn = nothing.linkIn /\ t.linkOut = nothing.linkOut
  BY DEF Decided
<1>2. t.in = {} /\ t.out = {} /\ t.linkIn = {} /\ t.linkOut = {} BY <1>1, NothingParts
<1> HIDE DEF nothing
<1>3. Acts(t) /\ Phase(t) BY DecidedStarts
<1>4. SeatLock(t) = SeatLock(tx[q]) /\ SeatRow(t) = SeatRow(tx[q])
  BY <1>1 DEF SeatLock, SeatRow, Person
<1>5. Permitted(t) BY <1>1 DEF Permitted, SeatOps, LinkOps
<1>6. SeatWork(t) BY <1>1, <1>2, <1>4 DEF SeatWork
<1>7. SeatFound(t)
  <2>1. keys = <<>> => Seqs!Range(keys) = {} BY DEF Seqs!Range
  <2> QED BY <1>1, <1>4, <2>1 DEF SeatFound, SeatOps
<1>8. LinkWork(t) /\ LinkFound(t) /\ LinkPlan(t) /\ RootWork(t)
  BY <1>1 DEF LinkWork, LinkFound, LinkPlan, RootWork, SeatOps, LinkOps, RootOps
<1>9. Stands(t) BY <1>3, <1>5, <1>6, <1>7, <1>8 DEF Stands
<1>10. t.held \subseteq tx[q].held /\ t.cmd.op # "create" BY <1>1 DEF SeatOps
<1> QED BY <1>1, <1>9, <1>10, StepKeeps

LEMMA DecideLinkKeeps ==
  ASSUME TxInv, NEW q \in Processes, tx[q].pc # "idle", tx[q].cmd.op \in LinkOps,
         NEW S \in SUBSET Seqs!Range(tx[q].cmd.items), NEW rank,
         rank = OrderOf(tx[q]), tx[q].cmd.op = "detach" => LinksTo(tx[q].cmd.project, S) \subseteq link,
         NEW keys, keys = Keys(tx[q].cmd.project, Ordered(S, rank)),
         NEW t, Decided(t, q, keys, Nothing(tx[q].cmd.project)),
         tx[q].held = {ProjectLock(tx[q].cmd)}, Discovers(tx[q].me, tx[q].cmd.project),
         MayLink(tx[q].me, tx[q].cmd.project)
  PROVE  TxInv'
<1> DEFINE nothing == Nothing(tx[q].cmd.project)
<1>0. /\ tx[q].cmd.project \in ProjectIds /\ IsFiniteSet(S) /\ S \in SUBSET Items
      /\ rank = [i \in Items |-> i] \/ rank = LinkRank
  <2>1. tx[q].cmd.items \in Seq(Items) /\ tx[q].cmd.project \in ProjectIds
    BY Running, RequestParts
  <2>2. IsFiniteSet(S) BY <2>1, RangeIsFinite, FS_Subset
  <2> QED BY <2>1, <2>2, RangeIsFinite DEF OrderOf
<1>k. /\ keys \in Seq(Locks)
      /\ \A n \in DOMAIN keys : \E i \in S : keys[n] = LinkKey(tx[q].cmd.project, i)
      /\ \A m, n \in DOMAIN keys : m < n => rank[keys[m].key[2]] < rank[keys[n].key[2]]
  BY <1>0, OrderedKeys, SMTT(20)
<1>1. /\ t \in TxRows /\ Becomes(q, t)
      /\ t.pc = "rows" /\ t.cmd = tx[q].cmd /\ t.me = tx[q].me /\ t.todo = keys
      /\ t.found = IF t.cmd.op \in {"leave", "detach"} THEN Seqs!Range(keys) ELSE {}
      /\ t.held = tx[q].held /\ t.answer = "none" /\ t.in = nothing.in /\ t.out = nothing.out
      /\ t.linkIn = nothing.linkIn /\ t.linkOut = nothing.linkOut
  BY DEF Decided
<1>2. t.in = {} /\ t.out = {} /\ t.linkIn = {} /\ t.linkOut = {} BY <1>1, NothingParts
<1> HIDE DEF nothing
<1>3. Acts(t) /\ Phase(t) BY DecidedStarts
<1>4. OrderOf(t) = rank /\ Linked(t) = {} BY <1>1, <1>2 DEF OrderOf, Linked
<1>5. Permitted(t) BY <1>1 DEF Permitted, LinkOps
<1>6. SeatWork(t) /\ SeatFound(t) /\ RootWork(t)
  BY <1>1 DEF SeatWork, SeatFound, RootWork, SeatOps, LinkOps, RootOps
<1>7. LinkWork(t) BY <1>1, <1>2, <1>4 DEF LinkWork
<1>8. LinkFound(t)
  <2> SUFFICES ASSUME t.cmd.op = "detach", NEW p \in ProjectIds, NEW i \in Items,
                      LinkKey(p, i) \in t.found
               PROVE  <<p, i>> \in link
    BY DEF LinkFound
  <2>1. PICK n \in DOMAIN keys : keys[n] = LinkKey(p, i) BY <1>1 DEF Seqs!Range
  <2>2. PICK j \in S : keys[n] = LinkKey(tx[q].cmd.project, j) BY <1>k
  <2>3. p = tx[q].cmd.project /\ i = j BY <2>1, <2>2 DEF LinkKey, Lock
  <2> QED BY <1>1, <2>2, <2>3 DEF LinksTo
<1>9. LinkPlan(t) BY <1>1, <1>4, <1>k DEF LinkPlan
<1>10. Stands(t) BY <1>3, <1>5, <1>6, <1>7, <1>8, <1>9 DEF Stands
<1>11. t.held \subseteq tx[q].held /\ t.cmd.op # "create" BY <1>1 DEF LinkOps
<1> QED BY <1>1, <1>10, <1>11, StepKeeps

LEMMA DecideAssociationKeeps ==
  ASSUME TxInv, NEW q \in Processes, DecideAssociation(q)
  PROVE  TxInv'
<1> DEFINE c == tx[q].cmd
           p == tx[q].cmd.project
           m == tx[q].me
           key == SeatKey(p, m[1])
           leaving == IF <<p, m>> \in seat THEN <<key>> ELSE <<>>
           adding == <<SeatKey(p, c.target[1])>>
<1>0. tx[q].pc = "decide" /\ tx[q].pc # "idle" BY DEF DecideAssociation, Answer
<1>r. /\ c \in Requests /\ p \in ProjectIds /\ m \in MemberIds /\ m[1] \in Users
      /\ c.op = "add" => c.target \in MemberIds
      /\ c.op \in LinkOps => c.items \in Seq(Items)
  BY <1>0, Running, RequestParts
<1>s. /\ c.op # "add" => SeatLock(tx[q]) = key /\ SeatRow(tx[q]) = <<p, m>>
      /\ c.op = "add" => <<SeatLock(tx[q])>> = adding
  BY DEF SeatLock, SeatRow, Person
<1>n. Typed(Nothing(p)) BY NothingParts
<1>1. CASE Answer(q, "join", MayJoin(m, p), <<key>>, Nothing(p))
  <2> DEFINE nothing == Nothing(p)
             keys == <<key>>
  <2>1. tx[q].cmd.op = "join" BY <1>1 DEF Answer
  <2>2. keys \in Seq(Locks) /\ keys = <<SeatLock(tx[q])>> BY <2>1, <1>r, <1>s, LockTypes
  <2>3. \/ Refuse(q)
        \/ MayJoin(m, p) /\ Discovers(m, p) /\ Continue(q, keys, nothing)
    BY <1>1 DEF Answer, Rediscovered
  <2>7. keys \in Seq(Locks) /\ Typed(nothing) BY <2>2, <1>n
  <2> HIDE DEF keys, c, p, m, nothing
  <2>8. CASE Refuse(q) BY <2>8, RefuseKeeps
  <2>9. CASE MayJoin(m, p) /\ Discovers(m, p) /\ Continue(q, keys, nothing)
    <3>1. tx[q].held = {ProjectLock(tx[q].cmd)} /\ \E t : Decided(t, q, keys, nothing)
      BY <1>0, <2>7, <2>9, DecideParts
    <3> QED BY <3>1, <2>9, <1>0, <2>1, <2>2, DecideSeatKeeps DEF nothing, p, m, SeatOps
  <2> QED BY <2>3, <2>8, <2>9
<1>2. CASE Answer(q, "leave", MayLeave(m, p), leaving, Nothing(p))
  <2> DEFINE nothing == Nothing(p)
             keys == leaving
  <2>1. tx[q].cmd.op = "leave" BY <1>2 DEF Answer
  <2>2. /\ keys \in Seq(Locks)
        /\ \/ keys = <<SeatLock(tx[q])>> /\ SeatRow(tx[q]) \in seat
           \/ keys = <<>>
    BY <2>1, <1>r, <1>s, LockTypes
  <2>3. \/ Refuse(q)
        \/ MayLeave(m, p) /\ Discovers(m, p) /\ Continue(q, keys, nothing)
    BY <1>2 DEF Answer, Rediscovered
  <2>7. keys \in Seq(Locks) /\ Typed(nothing) BY <2>2, <1>n
  <2> HIDE DEF keys, c, p, m, nothing
  <2>8. CASE Refuse(q) BY <2>8, RefuseKeeps
  <2>9. CASE MayLeave(m, p) /\ Discovers(m, p) /\ Continue(q, keys, nothing)
    <3>1. tx[q].held = {ProjectLock(tx[q].cmd)} /\ \E t : Decided(t, q, keys, nothing)
      BY <1>0, <2>7, <2>9, DecideParts
    <3> QED BY <3>1, <2>9, <1>0, <2>1, <2>2, DecideSeatKeeps DEF nothing, p, m, SeatOps
  <2> QED BY <2>3, <2>8, <2>9
<1>3. CASE Answer(q, "add", MayAdd(m, p, c.target), adding, Nothing(p))
  <2> DEFINE nothing == Nothing(p)
             keys == adding
  <2>1. tx[q].cmd.op = "add" BY <1>3 DEF Answer
  <2>2. keys \in Seq(Locks) /\ keys = <<SeatLock(tx[q])>>
    <3>1. c.target[1] \in Users BY <2>1, <1>r, MemberParts
    <3> QED BY <2>1, <3>1, <1>r, <1>s, LockTypes
  <2>3. \/ Refuse(q)
        \/ MayAdd(m, p, c.target) /\ Discovers(m, p) /\ Continue(q, keys, nothing)
    BY <1>3 DEF Answer, Rediscovered
  <2>7. keys \in Seq(Locks) /\ Typed(nothing) BY <2>2, <1>n
  <2> HIDE DEF keys, c, p, m, nothing
  <2>8. CASE Refuse(q) BY <2>8, RefuseKeeps
  <2>9. CASE MayAdd(m, p, c.target) /\ Discovers(m, p) /\ Continue(q, keys, nothing)
    <3>1. tx[q].held = {ProjectLock(tx[q].cmd)} /\ \E t : Decided(t, q, keys, nothing)
      BY <1>0, <2>7, <2>9, DecideParts
    <3> QED BY <3>1, <2>9, <1>0, <2>1, <2>2, DecideSeatKeeps DEF nothing, c, p, m, SeatOps
  <2> QED BY <2>3, <2>8, <2>9
<1>4. CASE Answer(q, "attach", MayLink(m, p), InsertKeys(c), Nothing(p))
  <2> DEFINE nothing == Nothing(p)
             S == Seqs!Range(c.items)
             rank == [i \in Items |-> i]
             keys == Keys(p, Ordered(S, rank))
  <2>1. tx[q].cmd.op = "attach" /\ tx[q].cmd.op \in LinkOps BY <1>4 DEF Answer, LinkOps
  <2>2. rank = OrderOf(tx[q]) /\ (tx[q].cmd.op = "detach" => LinksTo(p, S) \subseteq link)
    BY <2>1 DEF OrderOf, LinksTo
  <2>3. \/ Refuse(q)
        \/ MayLink(m, p) /\ Discovers(m, p) /\ Continue(q, keys, nothing)
    BY <1>4 DEF Answer, Rediscovered, InsertKeys, Ascending
  <2>4. S \in SUBSET Seqs!Range(c.items) /\ IsFiniteSet(S) /\ S \in SUBSET Items
    BY <1>r, <2>1, RangeIsFinite, FS_Subset
  <2> HIDE DEF rank, S
  <2>5. keys \in Seq(Locks) BY <1>r, <2>2, <2>4, OrderedKeys DEF OrderOf
  <2>6. keys = Keys(tx[q].cmd.project, Ordered(S, rank)) BY DEF p
  <2>7. keys \in Seq(Locks) /\ Typed(nothing) BY <2>5, <1>n
  <2> HIDE DEF keys, c, p, m, nothing
  <2>8. CASE Refuse(q) BY <2>8, RefuseKeeps
  <2>9. CASE MayLink(m, p) /\ Discovers(m, p) /\ Continue(q, keys, nothing)
    <3>1. tx[q].held = {ProjectLock(tx[q].cmd)} /\ \E t : Decided(t, q, keys, nothing)
      BY <1>0, <2>7, <2>9, DecideParts
    <3> QED BY <3>1, <2>9, <1>0, <2>1, <2>2, <2>4, <2>6, DecideLinkKeeps DEF nothing, c, p, m
  <2> QED BY <2>3, <2>8, <2>9
<1>5. CASE Answer(q, "detach", MayLink(m, p), LinkKeys(c), Nothing(p))
  <2> DEFINE nothing == Nothing(p)
             S == {i \in Seqs!Range(c.items) : <<p, i>> \in link}
             rank == LinkRank
             keys == Keys(p, Ordered(S, rank))
  <2>1. tx[q].cmd.op = "detach" /\ tx[q].cmd.op \in LinkOps BY <1>5 DEF Answer, LinkOps
  <2>2. rank = OrderOf(tx[q]) /\ (tx[q].cmd.op = "detach" => LinksTo(p, S) \subseteq link)
    BY <2>1 DEF OrderOf, LinksTo
  <2>3. \/ Refuse(q)
        \/ MayLink(m, p) /\ Discovers(m, p) /\ Continue(q, keys, nothing)
    BY <1>5 DEF Answer, Rediscovered, LinkKeys
  <2>4. S \in SUBSET Seqs!Range(c.items) /\ IsFiniteSet(S) /\ S \in SUBSET Items
    BY <1>r, <2>1, RangeIsFinite, FS_Subset
  <2> HIDE DEF rank, S
  <2>5. keys \in Seq(Locks) BY <1>r, <2>2, <2>4, OrderedKeys DEF OrderOf
  <2>6. keys = Keys(tx[q].cmd.project, Ordered(S, rank)) BY DEF p
  <2>7. keys \in Seq(Locks) /\ Typed(nothing) BY <2>5, <1>n
  <2> HIDE DEF keys, c, p, m, nothing
  <2>8. CASE Refuse(q) BY <2>8, RefuseKeeps
  <2>9. CASE MayLink(m, p) /\ Discovers(m, p) /\ Continue(q, keys, nothing)
    <3>1. tx[q].held = {ProjectLock(tx[q].cmd)} /\ \E t : Decided(t, q, keys, nothing)
      BY <1>0, <2>7, <2>9, DecideParts
    <3> QED BY <3>1, <2>9, <1>0, <2>1, <2>2, <2>4, <2>6, DecideLinkKeeps DEF nothing, c, p, m
  <2> QED BY <2>3, <2>8, <2>9
<1> QED BY <1>1, <1>2, <1>3, <1>4, <1>5 DEF DecideAssociation

LEMMA ChangeTypes ==
  ASSUME TypeOK, NEW t, t.cmd \in Requests, t.me \in MemberIds,
         t.cmd.op \in RootOps \cup {"create"}
  PROVE  /\ Typed(ChangeOf(t)) /\ ChangeOf(t).linkIn = {}
         /\ Confined(t.cmd.project, ChangeOf(t))
<1> DEFINE c == t.cmd
           p == t.cmd.project
           changed == c.mode # project[p].mode
           opened == changed /\ c.mode = "open" /\ project[p].mode = "workspace"
           closed == changed /\ "workspace" \in {c.mode, project[p].mode}
<1>1. p \in ProjectIds BY RequestParts
<1>2. seat \in SUBSET Pairs /\ link \in SUBSET (ProjectIds \X Items) BY DEF TypeOK, Pairs
<1>3. <<p, t.me>> \in Pairs BY <1>1 DEF Pairs
<1>4. CASE c.op = "remove"
  <2>1. ChangeOf(t) = Change(project[p], {}, UserSeats(p, c.user), {}, {})
    BY <1>4 DEF ChangeOf, RemoveChange, Seats
  <2> HIDE DEF c
  <2>2. UserSeats(p, c.user) \in SUBSET Pairs /\ \A s \in UserSeats(p, c.user) : s[1] = p
    BY <1>2 DEF UserSeats
  <2> QED BY <2>1, <2>2, ChangeParts DEF Typed, Confined
<1>5. CASE c.op = "update"
  <2> DEFINE in == IF opened THEN {<<p, t.me>>} ELSE {}
             out == IF closed THEN SeatsOf(p) ELSE {}
             row == [project[p] EXCEPT !.mode = c.mode]
  <2>1. ChangeOf(t) = Change(row, in, out, {}, {}) BY <1>5 DEF ChangeOf, UpdateChange
  <2>2. /\ in \in SUBSET Pairs /\ out \in SUBSET Pairs /\ \A s \in in \cup out : s[1] = p
    BY <1>2, <1>3 DEF SeatsOf
  <2> HIDE DEF in, out, row
  <2> QED BY <2>1, <2>2, ChangeParts DEF Typed, Confined
<1>6. CASE c.op = "set_state"
  <2>1. ChangeOf(t) = StateChange(p, c.state) BY <1>6 DEF ChangeOf
  <2> QED BY <2>1 DEF StateChange, Change, Typed, Confined
<1>7. CASE c.op = "delete"
  <2> DEFINE out == SeatsOf(p)
             linkOut == {l \in link : l[1] = p}
             row == [project[p] EXCEPT !.state = "deleted"]
  <2>1. ChangeOf(t) = Change(row, {}, out, {}, linkOut) BY <1>7 DEF ChangeOf, DeleteChange
  <2>2. /\ out \in SUBSET Pairs /\ linkOut \in SUBSET (ProjectIds \X Items)
        /\ \A s \in out \cup linkOut : s[1] = p
    BY <1>2 DEF SeatsOf
  <2> HIDE DEF out, linkOut, row
  <2> QED BY <2>1, <2>2, ChangeParts DEF Typed, Confined
<1>8. CASE c.op = "create"
  <2> DEFINE in == IF c.mode = "open" THEN {<<p, t.me>>} ELSE {}
             row == [state |-> "active", mode |-> c.mode]
  <2>1. ChangeOf(t) = Change(row, in, {}, {}, {}) BY <1>8 DEF ChangeOf, CreateChange
  <2>2. in \in SUBSET Pairs /\ \A s \in in : s[1] = p BY <1>3
  <2> HIDE DEF in, row
  <2> QED BY <2>1, <2>2, ChangeParts DEF Typed, Confined
<1> QED BY <1>4, <1>5, <1>6, <1>7, <1>8 DEF RootOps

LEMMA DecidedRoot ==
  ASSUME TxInv, NEW q \in Processes, tx[q].pc # "idle",
         tx[q].cmd.op \in RootOps \cup {"create"},
         NEW change, change = ChangeOf(tx[q]), NEW t, Decided(t, q, <<>>, change),
         tx[q].held = IF tx[q].cmd.op = "create" THEN {} ELSE {ProjectLock(tx[q].cmd)},
         Permitted(t)
  PROVE  Stands(t) /\ t \in TxRows /\ Becomes(q, t) /\ t.cmd = tx[q].cmd /\ t.held = tx[q].held
<1>0. tx[q].cmd \in Requests /\ tx[q].me \in MemberIds BY Running
<1>c. ChangeOf(tx[q]).linkIn = {} BY <1>0, ChangeTypes DEF TxInv, TablesOK
<1>1. /\ t \in TxRows /\ Becomes(q, t)
      /\ t.pc = "rows" /\ t.cmd = tx[q].cmd /\ t.me = tx[q].me /\ t.todo = <<>>
      /\ t.found = IF t.cmd.op \in {"leave", "detach"} THEN Seqs!Range(<<>>) ELSE {}
      /\ t.held = tx[q].held /\ t.in = change.in /\ t.out = change.out
      /\ t.linkIn = change.linkIn /\ t.linkOut = change.linkOut
  BY DEF Decided
<1>2. Acts(t) /\ Phase(t) BY DecidedStarts
<1>3. ChangeOf(t) = change BY <1>1 DEF ChangeOf
<1>4. SeatWork(t) /\ SeatFound(t) /\ LinkWork(t) /\ LinkFound(t) /\ LinkPlan(t)
  BY <1>1 DEF SeatWork, SeatFound, LinkWork, LinkFound, LinkPlan, SeatOps, LinkOps, RootOps
<1>5. RootWork(t) BY <1>1, <1>3, <1>c DEF RootWork
<1> QED BY <1>1, <1>2, <1>4, <1>5 DEF Stands

LEMMA DecideRootKeeps ==
  ASSUME TxInv, NEW q \in Processes, tx[q].pc = "decide", tx[q].cmd.op \in RootOps,
         NEW change, change = ChangeOf(tx[q]), Continue(q, <<>>, change),
         Discovers(tx[q].me, tx[q].cmd.project),
         tx[q].cmd.op = "remove" => MayRemove(tx[q].me, tx[q].cmd.project, tx[q].cmd.user),
         tx[q].cmd.op = "update" => MayUpdate(tx[q].me, tx[q].cmd.project, tx[q].cmd.mode),
         tx[q].cmd.op = "set_state" => MaySetState(tx[q].me, tx[q].cmd.project, tx[q].cmd.state),
         tx[q].cmd.op = "delete" => MayDelete(tx[q].me, tx[q].cmd.project)
  PROVE  TxInv'
<1>0. tx[q].pc # "idle" OBVIOUS
<1>1. tx[q].cmd \in Requests /\ tx[q].me \in MemberIds BY <1>0, Running
<1>2. Typed(change) BY <1>1, ChangeTypes DEF TxInv, TablesOK
<1> DEFINE keys == <<>>
<1>3. keys \in Seq(Locks) OBVIOUS
<1>4. Continue(q, keys, change) OBVIOUS
<1> HIDE DEF keys
<1>5. /\ tx[q].held = {ProjectLock(tx[q].cmd)} /\ tx[q].cmd.op # "create"
      /\ \E t : Decided(t, q, keys, change)
  BY <1>2, <1>3, <1>4, DecideParts
<1>6. PICK t : Decided(t, q, keys, change) BY <1>5
<1>7. t.cmd = tx[q].cmd /\ t.me = tx[q].me BY <1>6 DEF Decided
<1>8. Permitted(t) BY <1>7 DEF Permitted, RootOps, LinkOps
<1>9. Stands(t) /\ t \in TxRows /\ Becomes(q, t) /\ t.cmd = tx[q].cmd /\ t.held = tx[q].held
  <2>1. Decided(t, q, <<>>, change) BY <1>6 DEF keys
  <2> QED BY <2>1, <1>0, <1>5, <1>8, DecidedRoot
<1> QED BY <1>5, <1>9, StepKeeps

LEMMA DecideProjectKeeps ==
  ASSUME TxInv, NEW q \in Processes, DecideProject(q)
  PROVE  TxInv'
<1> DEFINE c == tx[q].cmd
           p == tx[q].cmd.project
           m == tx[q].me
           change == ChangeOf(tx[q])
<1>0. tx[q].pc = "decide" BY DEF DecideProject, Answer
<1>1. CASE Refuse(q) BY <1>1, RefuseKeeps
<1>2. CASE ~Refuse(q)
  <2>1. /\ Discovers(m, p) /\ Continue(q, <<>>, change)
        /\ \/ c.op = "remove" /\ MayRemove(m, p, c.user)
           \/ c.op = "update" /\ MayUpdate(m, p, c.mode)
           \/ c.op = "set_state" /\ MaySetState(m, p, c.state)
           \/ c.op = "delete" /\ MayDelete(m, p)
    BY <1>2 DEF DecideProject, Answer, Rediscovered, ChangeOf
  <2>2. c.op \in RootOps BY <2>1 DEF RootOps
  <2> HIDE DEF change
  <2>3. change = ChangeOf(tx[q]) BY DEF change
  <2> QED BY <1>0, <2>1, <2>2, <2>3, DecideRootKeeps
<1> QED BY <1>1, <1>2

LEMMA DecideCreateKeeps ==
  ASSUME TxInv, NEW q \in Processes, DecideCreate(q)
  PROVE  TxInv'
<1> DEFINE change == ChangeOf(tx[q])
           keys == <<>>
<1>0. /\ tx[q].pc = "find" /\ tx[q].pc # "idle" /\ tx[q].cmd.op = "create"
      /\ \A r \in Processes \ {q} :
           tx[r].cmd.op = "create" => tx[r].cmd.project # tx[q].cmd.project
  BY DEF DecideCreate
<1>1. CASE Refuse(q) BY <1>1, RefuseKeeps
<1>2. CASE ~Refuse(q)
  <2>1. /\ MayCreate(tx[q].me, tx[q].cmd.project, tx[q].cmd.mode)
        /\ Continue(q, keys, change)
    BY <1>0, <1>2 DEF DecideCreate, ChangeOf
  <2>2. tx[q].cmd \in Requests /\ tx[q].me \in MemberIds /\ tx[q].held = {}
    BY <1>0, Running DEF Stands, Phase
  <2>3. Typed(change) BY <1>0, <2>2, ChangeTypes DEF TxInv, TablesOK
  <2>4. keys \in Seq(Locks) OBVIOUS
  <2> HIDE DEF keys, change
  <2>5. PICK t : Decided(t, q, keys, change) BY <1>0, <2>1, <2>3, <2>4, ContinueParts
  <2>6. t.cmd = tx[q].cmd /\ t.me = tx[q].me BY <2>5 DEF Decided
  <2>7. Permitted(t) BY <1>0, <2>1, <2>6 DEF Permitted, LinkOps
  <2>8. Stands(t) /\ t \in TxRows /\ Becomes(q, t) /\ t.cmd = tx[q].cmd /\ t.held = tx[q].held
    <3>1. Decided(t, q, <<>>, change) /\ change = ChangeOf(tx[q]) BY <2>5 DEF keys, change
    <3> QED BY <3>1, <1>0, <2>2, <2>7, DecidedRoot
  <2>9. tx' = [tx EXCEPT ![q] = t] /\ UNCHANGED tables BY <2>8 DEF Becomes
  <2> QED BY <1>0, <2>2, <2>8, <2>9, BecomesKeeps
<1> QED BY <1>1, <1>2

-------------------------------------------------------------------------------
(* Association rows.                                                         *)

\* A transaction takes its next lock, or gives it up.
Moved(t, s) == t.cmd = s.cmd /\ t.me = s.me /\ t.answer = s.answer /\ t.found = s.found
            /\ t.linkIn = s.linkIn /\ t.linkOut = s.linkOut

LEMMA HeadAndTail ==
  ASSUME NEW todo \in Seq(Locks), todo # <<>>
  PROVE  /\ Head(todo) \in Locks /\ Tail(todo) \in Seq(Locks) /\ Head(todo) = todo[1]
         /\ 1 \in DOMAIN todo
         /\ \A n \in DOMAIN Tail(todo) : n + 1 \in DOMAIN todo /\ Tail(todo)[n] = todo[n + 1] /\ n \in Nat
OBVIOUS

LEMMA MovedStands ==
  ASSUME TxInv, NEW q \in Processes, tx[q].pc # "idle", NEW t, Moved(t, tx[q])
  PROVE  /\ t.pc # "idle" => Acts(t)
         /\ tx[q].pc \in {"rows", "reread"} => Permitted(t)
         /\ tx[q].pc \in {"rows", "reread"} /\ tx[q].cmd.op \in SeatOps => SeatFound(t)
         /\ tx[q].cmd.op \in SeatOps => LinkWork(t) /\ LinkFound(t) /\ LinkPlan(t) /\ RootWork(t)
         /\ SeatLock(t) = SeatLock(tx[q]) /\ SeatRow(t) = SeatRow(tx[q]) /\ Person(t) = Person(tx[q])
         /\ SeatOf(q) = SeatRow(t) /\ Subject(q) = Person(t)
<1>1. Stands(tx[q]) BY Running
<1>2. Person(t) = Person(tx[q]) BY DEF Moved, Person
<1>3. SeatLock(t) = SeatLock(tx[q]) /\ SeatRow(t) = SeatRow(tx[q])
  BY <1>2 DEF SeatLock, SeatRow, Moved
<1>4. t.pc # "idle" => Acts(t) BY <1>1 DEF Stands, Acts, Moved
<1>5. tx[q].pc \in {"rows", "reread"} => Permitted(t) BY <1>1 DEF Stands, Permitted, Moved
<1>6. tx[q].pc \in {"rows", "reread"} /\ tx[q].cmd.op \in SeatOps => SeatFound(t)
  BY <1>1, <1>3 DEF Stands, SeatFound, Moved
<1>7. tx[q].cmd.op \in SeatOps => LinkWork(t) /\ LinkFound(t) /\ LinkPlan(t) /\ RootWork(t)
  BY DEF Moved, LinkWork, LinkFound, LinkPlan, RootWork, SeatOps, LinkOps, RootOps
<1>8. SeatOf(q) = SeatRow(t) /\ Subject(q) = Person(t)
  BY <1>2, <1>3 DEF SeatOf, Subject, SeatRow, Person, Moved
<1> QED BY <1>2, <1>3, <1>4, <1>5, <1>6, <1>7, <1>8

LEMMA SeatPlan ==
  ASSUME TxInv, NEW q \in Processes, tx[q].pc = "rows", tx[q].cmd.op \in SeatOps, Waiting(q)
  PROVE  /\ tx[q].todo = <<SeatLock(tx[q])>> /\ Head(tx[q].todo) = SeatLock(tx[q])
         /\ Tail(tx[q].todo) = <<>>
         /\ tx[q].held = {ProjectLock(tx[q].cmd)} /\ Bare(tx[q])
<1>1. Stands(tx[q]) BY Running
<1>2. tx[q].todo # <<>> BY DEF Waiting
<1>3. /\ tx[q].todo = <<SeatLock(tx[q])>> /\ tx[q].held = {ProjectLock(tx[q].cmd)} /\ Bare(tx[q])
  BY <1>1, <1>2 DEF Stands, SeatWork, Bare
<1> QED BY <1>3

LEMMA InsertSeatKeeps ==
  ASSUME TxInv, NEW q \in Processes, InsertSeat(q)
  PROVE  TxInv'
<1> DEFINE first == Head(tx[q].todo)
           rest == Tail(tx[q].todo)
           row == SeatOf(q)
           held == tx[q].held \cup {first}
           s == [tx[q] EXCEPT !.todo = rest, !.held = held, !.in = {row}]
           b == [tx[q] EXCEPT !.pc = "reread", !.todo = <<>>]
<1>0. /\ tx[q].pc = "rows" /\ tx[q].pc # "idle" /\ tx[q].cmd.op \in {"join", "add"}
      /\ tx[q].cmd.op \in SeatOps /\ Free(q) /\ Waiting(q)
  BY DEF InsertSeat, Free, SeatOps
<1>r. /\ tx[q] \in TxRows /\ Stands(tx[q]) /\ SeatLock(tx[q]) \in Locks /\ SeatRow(tx[q]) \in Pairs
  BY <1>0, Running
<1>p. /\ tx[q].todo = <<SeatLock(tx[q])>> /\ first = SeatLock(tx[q]) /\ rest = <<>>
      /\ tx[q].held = {ProjectLock(tx[q].cmd)} /\ Bare(tx[q])
  BY <1>0, SeatPlan
<1>o. row = SeatRow(tx[q]) /\ Subject(q) = Person(tx[q])
  BY DEF SeatOf, Subject, SeatRow, Person
<1>t. rest \in Seq(Locks) /\ <<>> \in Seq(Locks) /\ held \in SUBSET Locks /\ {row} \in SUBSET Pairs
  BY <1>r, <1>p, <1>o DEF TxRows
<1>c. Contends(q) BY <1>0, <1>p DEF Contends, Inserts, SeatLock, SeatKey, Lock
<1>1. CASE UserSeats(tx[q].cmd.project, Subject(q)[1]) = {} /\ Becomes(q, s)
  <2>1. /\ Moved(s, tx[q]) /\ s.pc = tx[q].pc /\ s.todo = rest /\ s.held = held
        /\ s.in = {row} /\ s.out = tx[q].out
    <3> HIDE DEF rest, held, row
    <3> QED BY <1>r DEF TxRows, Moved
  <2>2. s \in TxRows
    <3> HIDE DEF rest, held, row
    <3> QED BY <1>r, <1>t DEF TxRows
  <2> HIDE DEF s
  <2>m. /\ s.cmd = tx[q].cmd /\ SeatLock(s) = SeatLock(tx[q])
        /\ SeatRow(s) = SeatRow(tx[q]) /\ Person(s) = Person(tx[q])
        /\ s.todo = <<>> /\ s.out = {} /\ s.linkIn = {} /\ s.linkOut = {}
        /\ s.held = {ProjectLock(s.cmd), SeatLock(s)}
    BY <1>0, <1>p, <2>1, MovedStands DEF Moved, Bare
  <2>3. SeatWork(s)
    BY <1>0, <1>1, <1>o, <2>1, <2>m DEF SeatWork
  <2>4. Phase(s) BY <1>0, <2>1 DEF Phase
  <2>5. Stands(s) BY <1>0, <2>1, <2>3, <2>4, MovedStands DEF Stands
  <2>6. s.held \subseteq tx[q].held \cup {Head(tx[q].todo)} /\ s.cmd.op # "create"
    BY <1>0, <2>1 DEF Moved
  <2> QED BY <1>0, <1>1, <1>c, <2>2, <2>5, <2>6, StepKeeps
<1>2. CASE Becomes(q, b)
  <2>1. Moved(b, tx[q]) /\ b.pc = "reread" /\ b.todo = <<>> /\ b.held = tx[q].held /\ Bare(b)
    BY <1>r, <1>p DEF TxRows, Moved, Bare
  <2>2. b \in TxRows BY <1>r, <1>t DEF TxRows
  <2> HIDE DEF b
  <2>3. SeatWork(b) BY <2>1 DEF SeatWork
  <2>4. Phase(b) BY <1>0, <1>p, <2>1 DEF Phase, Moved
  <2>5. Stands(b) BY <1>0, <2>1, <2>3, <2>4, MovedStands DEF Stands
  <2>6. b.held \subseteq tx[q].held /\ b.cmd.op # "create" BY <1>0, <2>1 DEF Moved
  <2> QED BY <1>2, <2>2, <2>5, <2>6, StepKeeps
<1>3. s = [Taken(q) EXCEPT !.in = {SeatOf(q)}] /\ b = Conflict(q)
  BY <1>r DEF Taken, Conflict, TxRows
<1> QED BY <1>1, <1>2, <1>3 DEF InsertSeat

LEMMA RereadKeeps ==
  ASSUME TxInv, NEW q \in Processes, Reread(q)
  PROVE  TxInv'
<1> DEFINE key == SeatKey(tx[q].cmd.project, Subject(q)[1])
           t == [tx[q] EXCEPT !.todo = <<key>>, !.found = {key}]
<1>0. tx[q].pc = "reread" /\ tx[q].pc # "idle" /\ tx[q].todo = <<>> BY DEF Reread, Waiting
<1>r. /\ tx[q] \in TxRows /\ Stands(tx[q]) /\ SeatLock(tx[q]) \in Locks BY <1>0, Running
<1>o. key = SeatLock(tx[q]) /\ SeatOf(q) = SeatRow(tx[q])
  BY DEF SeatOf, Subject, SeatRow, Person, SeatLock
<1>1. CASE Refuse(q) BY <1>1, RefuseKeeps
<1>2. CASE SeatRow(tx[q]) \in seat /\ Becomes(q, t)
  <2>0. <<key>> \in Seq(Locks) /\ {key} \in SUBSET Locks BY <1>r, <1>o
  <2>1. /\ t.pc = "reread" /\ t.cmd = tx[q].cmd /\ t.me = tx[q].me /\ t.todo = <<key>>
        /\ t.held = tx[q].held /\ t.answer = tx[q].answer /\ (Bare(t) <=> Bare(tx[q]))
    <3> HIDE DEF key
    <3> QED BY <1>0, <1>r DEF TxRows, Bare
  <2>2. t \in TxRows
    <3> HIDE DEF key
    <3> QED BY <1>r, <2>0 DEF TxRows
  <2> HIDE DEF t
  <2>3. SeatLock(t) = SeatLock(tx[q]) /\ SeatRow(t) = SeatRow(tx[q])
    BY <2>1 DEF SeatLock, SeatRow, Person
  <2>4. Acts(t) /\ Permitted(t) BY <1>0, <1>r, <2>1 DEF Stands, Acts, Permitted
  <2>5. Phase(t) BY <1>0, <1>r, <1>o, <2>1, <2>3 DEF Stands, Phase
  <2>6. SeatFound(t) BY <1>2, <2>3 DEF SeatFound
  <2>7. SeatWork(t) /\ LinkWork(t) /\ LinkFound(t) /\ LinkPlan(t) /\ RootWork(t)
    BY <2>1 DEF SeatWork, LinkWork, LinkFound, LinkPlan, RootWork
  <2>8. Stands(t) BY <2>4, <2>5, <2>6, <2>7 DEF Stands
  <2>9. t.held \subseteq tx[q].held /\ t.cmd.op # "create"
    BY <1>0, <1>r, <2>1 DEF Stands, Phase
  <2> QED BY <1>2, <2>2, <2>8, <2>9, StepKeeps
<1> QED BY <1>1, <1>2, <1>o DEF Reread

LEMMA LockSeatKeeps ==
  ASSUME TxInv, NEW q \in Processes, LockSeat(q)
  PROVE  TxInv'
<1> DEFINE first == Head(tx[q].todo)
           rest == Tail(tx[q].todo)
           held == tx[q].held \cup {first}
           t == [tx[q] EXCEPT !.pc = "rows", !.todo = rest, !.held = held]
<1>0. tx[q].pc = "reread" /\ tx[q].pc # "idle" /\ Free(q) /\ Waiting(q) BY DEF LockSeat, Free
<1>r. /\ tx[q] \in TxRows /\ Stands(tx[q]) /\ SeatLock(tx[q]) \in Locks BY <1>0, Running
<1>p. /\ tx[q].cmd.op \in {"join", "add"} /\ tx[q].cmd.op \in SeatOps
      /\ first = SeatLock(tx[q]) /\ rest = <<>>
      /\ tx[q].held = {ProjectLock(tx[q].cmd)} /\ Bare(tx[q])
  <2>1. /\ tx[q].cmd.op \in {"join", "add"} /\ tx[q].todo \in {<<>>, <<SeatLock(tx[q])>>}
        /\ tx[q].held = {ProjectLock(tx[q].cmd)} /\ Bare(tx[q])
    BY <1>0, <1>r DEF Stands, Phase
  <2>2. tx[q].todo = <<SeatLock(tx[q])>> BY <1>0, <2>1 DEF Waiting
  <2> QED BY <2>1, <2>2 DEF SeatOps
<1>1. CASE Refuse(q) BY <1>1, RefuseKeeps
<1>2. CASE Contends(q) /\ Becomes(q, t)
  <2>0. rest \in Seq(Locks) /\ held \in SUBSET Locks
    <3>1. tx[q].held \in SUBSET Locks BY <1>r DEF TxRows
    <3> HIDE DEF first, rest
    <3> QED BY <3>1, <1>r, <1>p
  <2>1. /\ Moved(t, tx[q]) /\ t.pc = "rows" /\ t.todo = rest /\ t.held = held
        /\ t.in = tx[q].in /\ t.out = tx[q].out
    <3> HIDE DEF rest, held
    <3> QED BY <1>r DEF TxRows, Moved
  <2>2. t \in TxRows
    <3> HIDE DEF rest, held
    <3> QED BY <1>r, <2>0 DEF TxRows
  <2> HIDE DEF t
  <2>3. SeatRow(tx[q]) \in seat
    <3>1. SeatLock(tx[q]) \in tx[q].found BY <1>0, <1>2, <1>p DEF Contends, Inserts
    <3> QED BY <3>1, <1>0, <1>p, <1>r DEF Stands, SeatFound
  <2>4. SeatWork(t) BY <1>0, <1>p, <2>1, <2>3, MovedStands DEF SeatWork, Moved, Bare
  <2>5. Phase(t) BY <2>1 DEF Phase
  <2>6. Stands(t) BY <1>0, <1>p, <2>1, <2>4, <2>5, MovedStands DEF Stands
  <2>7. t.held \subseteq tx[q].held \cup {Head(tx[q].todo)} /\ t.cmd.op # "create"
    BY <1>p, <2>1 DEF Moved
  <2> QED BY <1>0, <1>2, <2>2, <2>6, <2>7, StepKeeps
<1>3. t = [Taken(q) EXCEPT !.pc = "rows"] BY <1>r DEF Taken, TxRows
<1> QED BY <1>1, <1>2, <1>3 DEF LockSeat

LEMMA DeleteSeatKeeps ==
  ASSUME TxInv, NEW q \in Processes, DeleteSeat(q)
  PROVE  TxInv'
<1> DEFINE first == Head(tx[q].todo)
           rest == Tail(tx[q].todo)
           row == SeatOf(q)
           held == tx[q].held \cup {first}
           s == [tx[q] EXCEPT !.todo = rest, !.held = held, !.out = {row}]
           b == [tx[q] EXCEPT !.todo = rest]
<1>0. /\ tx[q].pc = "rows" /\ tx[q].pc # "idle" /\ tx[q].cmd.op = "leave"
      /\ tx[q].cmd.op \in SeatOps /\ Free(q) /\ Waiting(q)
  BY DEF DeleteSeat, Free, SeatOps
<1>r. /\ tx[q] \in TxRows /\ Stands(tx[q]) /\ SeatLock(tx[q]) \in Locks /\ SeatRow(tx[q]) \in Pairs
  BY <1>0, Running
<1>p. /\ tx[q].todo = <<SeatLock(tx[q])>> /\ first = SeatLock(tx[q]) /\ rest = <<>>
      /\ tx[q].held = {ProjectLock(tx[q].cmd)} /\ Bare(tx[q])
  BY <1>0, SeatPlan
<1>o. row = SeatRow(tx[q]) BY DEF SeatOf, Subject, SeatRow, Person
<1>t. rest \in Seq(Locks) /\ held \in SUBSET Locks /\ {row} \in SUBSET Pairs
  BY <1>r, <1>p, <1>o DEF TxRows
<1>1. CASE Contends(q) /\ Becomes(q, s)
  <2>1. /\ Moved(s, tx[q]) /\ s.pc = tx[q].pc /\ s.todo = rest /\ s.held = held
        /\ s.in = tx[q].in /\ s.out = {row}
    <3> HIDE DEF rest, held, row
    <3> QED BY <1>r DEF TxRows, Moved
  <2>2. s \in TxRows
    <3> HIDE DEF rest, held, row
    <3> QED BY <1>r, <1>t DEF TxRows
  <2> HIDE DEF s
  <2>3. SeatRow(tx[q]) \in seat
    <3>1. SeatLock(tx[q]) \in tx[q].found BY <1>0, <1>1, <1>p DEF Contends, Inserts
    <3> QED BY <3>1, <1>0, <1>r DEF Stands, SeatFound
  <2>m. /\ s.cmd = tx[q].cmd /\ SeatLock(s) = SeatLock(tx[q])
        /\ SeatRow(s) = SeatRow(tx[q]) /\ Person(s) = Person(tx[q])
        /\ s.todo = <<>> /\ s.in = {} /\ s.linkIn = {} /\ s.linkOut = {}
        /\ s.held = {ProjectLock(s.cmd), SeatLock(s)}
    BY <1>0, <1>p, <2>1, MovedStands DEF Moved, Bare
  <2>4. SeatWork(s) BY <1>0, <1>o, <2>1, <2>3, <2>m DEF SeatWork
  <2>5. Phase(s) BY <1>0, <2>1 DEF Phase
  <2>6. Stands(s) BY <1>0, <2>1, <2>4, <2>5, MovedStands DEF Stands
  <2>7. s.held \subseteq tx[q].held \cup {Head(tx[q].todo)} /\ s.cmd.op # "create"
    BY <1>0, <2>1 DEF Moved
  <2> QED BY <1>0, <1>1, <2>2, <2>6, <2>7, StepKeeps
<1>2. CASE Becomes(q, b)
  <2>1. /\ Moved(b, tx[q]) /\ b.pc = "rows" /\ b.todo = rest /\ b.held = tx[q].held
        /\ b.in = tx[q].in /\ b.out = tx[q].out
    <3> HIDE DEF rest
    <3> QED BY <1>0, <1>r DEF TxRows, Moved
  <2>2. b \in TxRows
    <3> HIDE DEF rest
    <3> QED BY <1>r, <1>t DEF TxRows
  <2> HIDE DEF b
  <2>3. SeatWork(b) BY <1>0, <1>p, <2>1, MovedStands DEF SeatWork, Moved, Bare
  <2>4. Phase(b) BY <2>1 DEF Phase
  <2>5. Stands(b) BY <1>0, <2>1, <2>3, <2>4, MovedStands DEF Stands
  <2>6. b.held \subseteq tx[q].held /\ b.cmd.op # "create" BY <1>0, <2>1 DEF Moved
  <2> QED BY <1>2, <2>2, <2>5, <2>6, StepKeeps
<1>3. s = [Taken(q) EXCEPT !.out = {SeatOf(q)}] /\ b = Skipped(q)
  BY <1>r DEF Taken, Skipped, TxRows
<1> QED BY <1>1, <1>2, <1>3 DEF DeleteSeat

LEMMA TakeLinkKeeps ==
  ASSUME TxInv, NEW q \in Processes, TakeLink(q)
  PROVE  TxInv'
<1> DEFINE first == Head(tx[q].todo)
           rest == Tail(tx[q].todo)
           row == first.key
           held == tx[q].held \cup {first}
           linkIn == tx[q].linkIn \cup {row}
           linkOut == tx[q].linkOut \cup {row}
           b == [tx[q] EXCEPT !.todo = rest]
           s == [tx[q] EXCEPT !.todo = rest, !.held = held, !.linkIn = linkIn]
           d == [tx[q] EXCEPT !.todo = rest, !.held = held, !.linkOut = linkOut]
           Same(t) == /\ t.pc = "rows" /\ t.cmd = tx[q].cmd /\ t.me = tx[q].me /\ t.todo = rest
                      /\ t.answer = tx[q].answer /\ t.found = tx[q].found
                      /\ t.in = tx[q].in /\ t.out = tx[q].out
<1>0. /\ tx[q].pc = "rows" /\ tx[q].pc # "idle" /\ tx[q].cmd.op \in LinkOps
      /\ tx[q].cmd.op \in {"attach", "detach"} /\ Free(q) /\ Waiting(q) /\ tx[q].todo # <<>>
  BY DEF TakeLink, Free, LinkOps, Waiting
<1>r. /\ tx[q] \in TxRows /\ Stands(tx[q]) /\ tx[q].cmd.project \in ProjectIds
      /\ tx[q].cmd.items \in Seq(Items)
  BY <1>0, Running, RequestParts
<1>h. /\ first \in Locks /\ rest \in Seq(Locks) /\ first = tx[q].todo[1] /\ 1 \in DOMAIN tx[q].todo
      /\ \A n \in DOMAIN rest : n + 1 \in DOMAIN tx[q].todo /\ rest[n] = tx[q].todo[n + 1] /\ n \in Nat
  <2>1. tx[q].todo \in Seq(Locks) BY <1>r DEF TxRows
  <2> QED BY <2>1, <1>0, HeadAndTail
<1>i. PICK i \in Seqs!Range(tx[q].cmd.items) : first = LinkKey(tx[q].cmd.project, i)
  BY <1>0, <1>r, <1>h DEF Stands, LinkPlan
<1>j. /\ i \in Items /\ row = <<tx[q].cmd.project, i>> /\ row \in ProjectIds \X Items
      /\ first.on = "link" /\ row[2] = i /\ row \in LinksTo(tx[q].cmd.project, Seqs!Range(tx[q].cmd.items))
  BY <1>i, <1>r, RangeIsFinite DEF LinkKey, Lock, LinksTo
<1>w. /\ tx[q].in = {} /\ tx[q].out = {}
      /\ tx[q].cmd.op = "attach" => tx[q].linkOut = {} /\ tx[q].linkIn \cap link = {}
      /\ tx[q].cmd.op = "detach" => tx[q].linkIn = {} /\ tx[q].linkOut \subseteq link
      /\ Linked(tx[q]) \subseteq LinksTo(tx[q].cmd.project, Seqs!Range(tx[q].cmd.items))
      /\ tx[q].held = {ProjectLock(tx[q].cmd)} \cup {LinkKey(l[1], l[2]) : l \in Linked(tx[q])}
  BY <1>0, <1>r DEF Stands, LinkWork
<1>q. /\ \A n \in DOMAIN tx[q].todo : \E k \in Seqs!Range(tx[q].cmd.items) :
           tx[q].todo[n] = LinkKey(tx[q].cmd.project, k)
      /\ \A m, n \in DOMAIN tx[q].todo : m < n =>
           OrderOf(tx[q])[tx[q].todo[m].key[2]] < OrderOf(tx[q])[tx[q].todo[n].key[2]]
      /\ \A l \in Linked(tx[q]), n \in DOMAIN tx[q].todo :
           OrderOf(tx[q])[l[2]] < OrderOf(tx[q])[tx[q].todo[n].key[2]]
  BY <1>0, <1>r DEF Stands, LinkPlan
<1>t. held \in SUBSET Locks /\ linkIn \in SUBSET (ProjectIds \X Items)
      /\ linkOut \in SUBSET (ProjectIds \X Items)
  BY <1>r, <1>h, <1>j DEF TxRows
<1>f. \A k \in Linked(tx[q]) \cup {row}, n \in DOMAIN rest :
        OrderOf(tx[q])[k[2]] < OrderOf(tx[q])[rest[n].key[2]]
  <2> SUFFICES ASSUME NEW k \in Linked(tx[q]) \cup {row}, NEW n \in DOMAIN rest
               PROVE  OrderOf(tx[q])[k[2]] < OrderOf(tx[q])[rest[n].key[2]]
    OBVIOUS
  <2>1. n + 1 \in DOMAIN tx[q].todo /\ rest[n] = tx[q].todo[n + 1] /\ n \in Nat BY <1>h
  <2> HIDE DEF rest
  <2>2. CASE k \in Linked(tx[q]) BY <2>1, <2>2, <1>q
  <2>3. CASE k = row
    <3>1. 1 < n + 1 \/ n = 0 BY <2>1
    <3>2. n # 0
      <4>1. rest \in Seq(Locks) /\ n \in DOMAIN rest BY <1>h
      <4> QED BY <4>1
    <3>3. tx[q].todo[1].key[2] = k[2] BY <1>h, <2>3
    <3> QED BY <1>h, <1>q, <2>1, <3>1, <3>2, <3>3
  <2> QED BY <2>2, <2>3
\* What does not depend on whether the row is taken.
<1>s. ASSUME NEW t, Same(t), Linked(t) \in {Linked(tx[q]), Linked(tx[q]) \cup {row}}
      PROVE  /\ Acts(t) /\ Phase(t) /\ Permitted(t) /\ SeatWork(t) /\ SeatFound(t)
             /\ LinkFound(t) /\ LinkPlan(t) /\ RootWork(t) /\ OrderOf(t) = OrderOf(tx[q])
  <2> HIDE DEF rest, row
  <2>1. Acts(t) /\ Permitted(t) /\ LinkFound(t)
    BY <1>0, <1>r, <1>s DEF Stands, Acts, Permitted, LinkFound
  <2>2. Phase(t) BY <1>s DEF Phase
  <2>3. SeatWork(t) /\ SeatFound(t) /\ RootWork(t)
    BY <1>0, <1>s DEF SeatWork, SeatFound, RootWork, SeatOps, LinkOps, RootOps
  <2>4. OrderOf(t) = OrderOf(tx[q]) BY <1>s DEF OrderOf
  <2>5. LinkPlan(t)
    <3>1. \A n \in DOMAIN t.todo : \E k \in Seqs!Range(t.cmd.items) :
            t.todo[n] = LinkKey(t.cmd.project, k)
      BY <1>q, <1>h, <1>s
    <3>2. \A m, n \in DOMAIN t.todo : m < n =>
            OrderOf(t)[t.todo[m].key[2]] < OrderOf(t)[t.todo[n].key[2]]
      <4> SUFFICES ASSUME NEW m \in DOMAIN rest, NEW n \in DOMAIN rest, m < n
                   PROVE  OrderOf(tx[q])[rest[m].key[2]] < OrderOf(tx[q])[rest[n].key[2]]
        BY <1>s, <2>4
      <4>1. /\ m + 1 \in DOMAIN tx[q].todo /\ rest[m] = tx[q].todo[m + 1] /\ m \in Nat
            /\ n + 1 \in DOMAIN tx[q].todo /\ rest[n] = tx[q].todo[n + 1] /\ n \in Nat
            /\ m + 1 < n + 1
        BY <1>h
      <4> QED BY <4>1, <1>q
    <3>3. \A l \in Linked(t), n \in DOMAIN t.todo :
            OrderOf(t)[l[2]] < OrderOf(t)[t.todo[n].key[2]]
      BY <1>f, <1>s, <2>4
    <3> QED BY <3>1, <3>2, <3>3 DEF LinkPlan
  <2> QED BY <2>1, <2>2, <2>3, <2>4, <2>5
<1> HIDE DEF Same
<1>1. CASE Becomes(q, b)
  <2>1. Same(b) /\ b.linkIn = tx[q].linkIn /\ b.linkOut = tx[q].linkOut /\ b.held = tx[q].held
    <3> HIDE DEF rest
    <3> QED BY <1>0, <1>r DEF TxRows, Same
  <2>2. b \in TxRows
    <3> HIDE DEF rest
    <3> QED BY <1>r, <1>h DEF TxRows
  <2> HIDE DEF b
  <2>3. b.cmd = tx[q].cmd /\ b.in = tx[q].in /\ b.out = tx[q].out BY <2>1 DEF Same
  <2>4. Linked(b) = Linked(tx[q]) BY <2>1, <2>3 DEF Linked
  <2>5. LinkWork(b) BY <1>w, <2>1, <2>3, <2>4 DEF LinkWork
  <2>6. Stands(b) BY <1>s, <2>1, <2>4, <2>5 DEF Stands
  <2>7. b.held \subseteq tx[q].held /\ b.cmd.op # "create" BY <1>0, <2>1, <2>3 DEF LinkOps
  <2> QED BY <1>1, <2>2, <2>6, <2>7, StepKeeps
<1>2. CASE Contends(q) /\ tx[q].cmd.op = "attach" /\ Becomes(q, s)
  <2>1. Same(s) /\ s.linkIn = linkIn /\ s.linkOut = tx[q].linkOut /\ s.held = held
    <3> HIDE DEF rest, held, linkIn
    <3> QED BY <1>0, <1>r DEF TxRows, Same
  <2>2. s \in TxRows
    <3> HIDE DEF rest, held, linkIn
    <3> QED BY <1>r, <1>h, <1>t DEF TxRows
  <2> HIDE DEF s
  <2>3. s.cmd = tx[q].cmd /\ s.in = tx[q].in /\ s.out = tx[q].out BY <2>1 DEF Same
  <2>4. Linked(s) = Linked(tx[q]) \cup {row} BY <1>2, <2>1, <2>3 DEF Linked
  <2>5. row \notin link BY <1>0, <1>2, <1>j DEF Contends, Inserts
  <2>6. s.held = {ProjectLock(s.cmd)} \cup {LinkKey(l[1], l[2]) : l \in Linked(s)}
    <3> HIDE DEF row, first
    <3> QED BY <1>w, <1>i, <1>j, <2>1, <2>3, <2>4
  <2>7. LinkWork(s)
    <3> HIDE DEF row, first
    <3> QED BY <1>2, <1>w, <1>j, <2>1, <2>3, <2>4, <2>5, <2>6 DEF LinkWork
  <2>8. Stands(s) BY <1>s, <2>1, <2>4, <2>7 DEF Stands
  <2>9. s.held \subseteq tx[q].held \cup {Head(tx[q].todo)} /\ s.cmd.op # "create"
    BY <1>0, <2>1, <2>3 DEF LinkOps
  <2> QED BY <1>0, <1>2, <2>2, <2>8, <2>9, StepKeeps
<1>3. CASE Contends(q) /\ tx[q].cmd.op = "detach" /\ Becomes(q, d)
  <2>1. Same(d) /\ d.linkOut = linkOut /\ d.linkIn = tx[q].linkIn /\ d.held = held
    <3> HIDE DEF rest, held, linkOut
    <3> QED BY <1>0, <1>r DEF TxRows, Same
  <2>2. d \in TxRows
    <3> HIDE DEF rest, held, linkOut
    <3> QED BY <1>r, <1>h, <1>t DEF TxRows
  <2> HIDE DEF d
  <2>3. d.cmd = tx[q].cmd /\ d.in = tx[q].in /\ d.out = tx[q].out BY <2>1 DEF Same
  <2>4. Linked(d) = Linked(tx[q]) \cup {row} BY <1>3, <2>1, <2>3 DEF Linked
  <2>5. row \in link
    <3>1. LinkKey(tx[q].cmd.project, i) \in tx[q].found BY <1>0, <1>3, <1>i DEF Contends, Inserts
    <3> QED BY <3>1, <1>0, <1>3, <1>r, <1>j DEF Stands, LinkFound
  <2>6. d.held = {ProjectLock(d.cmd)} \cup {LinkKey(l[1], l[2]) : l \in Linked(d)}
    <3> HIDE DEF row, first
    <3> QED BY <1>w, <1>i, <1>j, <2>1, <2>3, <2>4
  <2>7. LinkWork(d)
    <3> HIDE DEF row, first
    <3> QED BY <1>3, <1>w, <1>j, <2>1, <2>3, <2>4, <2>5, <2>6 DEF LinkWork
  <2>8. Stands(d) BY <1>s, <2>1, <2>4, <2>7 DEF Stands
  <2>9. d.held \subseteq tx[q].held \cup {Head(tx[q].todo)} /\ d.cmd.op # "create"
    BY <1>0, <2>1, <2>3 DEF LinkOps
  <2> QED BY <1>0, <1>3, <2>2, <2>8, <2>9, StepKeeps
<1>4. /\ b = Skipped(q) /\ s = [Taken(q) EXCEPT !.linkIn = @ \cup {row}]
      /\ d = [Taken(q) EXCEPT !.linkOut = @ \cup {row}]
  BY <1>r DEF Taken, Skipped, TxRows
<1> QED BY <1>0, <1>1, <1>2, <1>3, <1>4 DEF TakeLink

-------------------------------------------------------------------------------
(* Commits.                                                                  *)

LEMMA WriteAs ==
  ASSUME NEW p, NEW made, NEW asked, Write(p, made), asked.row = made.row,
         (seat \ made.out) \cup made.in = (seat \ asked.out) \cup asked.in,
         (link \ made.linkOut) \cup made.linkIn = (link \ asked.linkOut) \cup asked.linkIn
  PROVE  Write(p, asked)
BY DEF Write

\* What a commit writes.
Written(q) == Change(Image(q), tx[q].in, tx[q].out, tx[q].linkIn, tx[q].linkOut)

LEMMA WrittenParts ==
  ASSUME NEW q
  PROVE  /\ Written(q).row = Image(q) /\ Written(q).in = tx[q].in /\ Written(q).out = tx[q].out
         /\ Written(q).linkIn = tx[q].linkIn /\ Written(q).linkOut = tx[q].linkOut
BY ChangeParts DEF Written

LEMMA SeatChangeParts ==
  ASSUME NEW p, NEW in, NEW out
  PROVE  /\ Seats(p, in, out).row = project[p] /\ Seats(p, in, out).in = in
         /\ Seats(p, in, out).out = out
         /\ Seats(p, in, out).linkIn = {} /\ Seats(p, in, out).linkOut = {}
         /\ Links(p, in, out).row = project[p] /\ Links(p, in, out).in = {}
         /\ Links(p, in, out).out = {}
         /\ Links(p, in, out).linkIn = in /\ Links(p, in, out).linkOut = out
BY DEF Seats, Links, Change

LEMMA RootChangeParts ==
  ASSUME NEW q, tx[q].cmd.op \in RootOps \cup {"create"}
  PROVE  ChangeOf(tx[q]).row = Image(q)
BY DEF ChangeOf, Image, RemoveChange, Seats, Change, RootOps

\* A transaction ready to commit.
LEMMA Ready ==
  ASSUME TxInv, NEW q \in Processes, tx[q].pc = "rows"
  PROVE  /\ tx[q] \in TxRows /\ Stands(tx[q]) /\ Acts(tx[q]) /\ Permitted(tx[q])
         /\ SeatWork(tx[q]) /\ LinkWork(tx[q]) /\ RootWork(tx[q])
         /\ tx[q].cmd \in Requests /\ tx[q].me \in MemberIds /\ tx[q].cmd.op \in AllOps
         /\ tx[q].cmd.project \in ProjectIds
         /\ tx[q].cmd.op # "create" => Discovers(tx[q].me, tx[q].cmd.project)
<1>1. tx[q].pc # "idle" OBVIOUS
<1>2. /\ tx[q] \in TxRows /\ Stands(tx[q])
      /\ tx[q].cmd \in Requests /\ tx[q].me \in MemberIds /\ tx[q].cmd.op \in AllOps
      /\ tx[q].cmd.project \in ProjectIds
  BY <1>1, Running
<1>3. /\ Acts(tx[q]) /\ Permitted(tx[q]) /\ SeatWork(tx[q]) /\ LinkWork(tx[q])
      /\ RootWork(tx[q])
  BY <1>2 DEF Stands
<1>4. tx[q].cmd.op # "create" => Discovers(tx[q].me, tx[q].cmd.project)
  BY <1>3 DEF Permitted
<1> QED BY <1>2, <1>3, <1>4

LEMMA SeatCommit ==
  ASSUME TxInv, NEW q \in Processes, tx[q].pc = "rows", ~Waiting(q), tx[q].cmd.op \in {"join", "add"},
         Write(tx[q].cmd.project, Written(q))
  PROVE  Commanded(q)
<1> DEFINE p == tx[q].cmd.project
           m == tx[q].me
           who == Person(tx[q])
           row == <<p, who>>
           asked == JoinChange(who, p)
<1>1. /\ tx[q].cmd.op \in SeatOps /\ tx[q].cmd.op # "leave" /\ tx[q].todo = <<>> BY DEF Waiting, SeatOps
<1>2. /\ tx[q].linkIn = {} /\ tx[q].linkOut = {} /\ tx[q].out = {}
      /\ \/ tx[q].in = {row} /\ UserSeats(p, who[1]) = {}
         \/ tx[q].in = {} /\ row \in seat
  BY <1>1, Ready DEF SeatWork, SeatRow
<1>3. Image(q) = project[p] BY DEF Image
<1>4. asked.row = project[p] /\ asked.in = {row} /\ asked.out = {} /\ asked.linkIn = {} /\ asked.linkOut = {}
  BY SeatChangeParts DEF JoinChange
<1>5. (seat \ tx[q].out) \cup tx[q].in = (seat \ {}) \cup {row} BY <1>2
<1>6. (link \ tx[q].linkOut) \cup tx[q].linkIn = (link \ {}) \cup {} BY <1>2
<1>7. Write(p, asked)
  <2> DEFINE made == Written(q)
  <2>1. Write(p, made) OBVIOUS
  <2>2. /\ made.row = Image(q) /\ made.in = tx[q].in /\ made.out = tx[q].out
        /\ made.linkIn = tx[q].linkIn /\ made.linkOut = tx[q].linkOut
    BY WrittenParts
  <2> HIDE DEF made, asked, row, p
  <2> QED BY <2>1, <2>2, <1>3, <1>4, <1>5, <1>6, WriteAs
<1>8. MayTake(p, who)
  <2>1. CASE UserSeats(p, who[1]) = {} BY <2>1 DEF MayTake
  <2>2. CASE row \in seat
    <3>1. UserSeats(row[1], row[2][1]) = {row} BY <2>2 DEF TxInv, TablesOK, SeatsAreCurrent
    <3> QED BY <3>1 DEF MayTake
  <2> QED BY <1>2, <2>1, <2>2
<1>9. Discovers(m, p) /\ Permitted(tx[q]) BY <1>1, Ready
<1>10. CASE tx[q].cmd.op = "join"
  <2>1. MayJoin(m, p) /\ who = m BY <1>9, <1>10 DEF Permitted, Person
  <2>2. Join(m, p) BY <2>1, <1>7, <1>8, <1>9 DEF Join
  <2> QED BY <2>2, <1>10 DEF Commanded
<1>11. CASE tx[q].cmd.op = "add"
  <2>1. MayAdd(m, p, tx[q].cmd.target) /\ who = tx[q].cmd.target BY <1>9, <1>11 DEF Permitted, Person
  <2>2. Add(m, p, tx[q].cmd.target) BY <2>1, <1>7, <1>8, <1>9 DEF Add
  <2> QED BY <2>2, <1>11 DEF Commanded
<1> QED BY <1>10, <1>11

LEMMA LeaveCommit ==
  ASSUME TxInv, NEW q \in Processes, tx[q].pc = "rows", ~Waiting(q), tx[q].cmd.op = "leave",
         Write(tx[q].cmd.project, Written(q))
  PROVE  Commanded(q) \/ UNCHANGED vars
<1> DEFINE p == tx[q].cmd.project
           m == tx[q].me
           row == <<p, m>>
           asked == LeaveChange(m, p)
           made == Written(q)
<1>1. /\ tx[q].cmd.op \in SeatOps /\ tx[q].todo = <<>> BY DEF Waiting, SeatOps
<1>2. /\ tx[q].linkIn = {} /\ tx[q].linkOut = {} /\ tx[q].in = {}
      /\ tx[q].out = {} \/ tx[q].out = {row}
  BY <1>1, Ready DEF SeatWork, SeatRow, Person
<1>3. Image(q) = project[p] BY DEF Image
<1>4. /\ made.row = Image(q) /\ made.in = tx[q].in /\ made.out = tx[q].out
      /\ made.linkIn = tx[q].linkIn /\ made.linkOut = tx[q].linkOut /\ Write(p, made)
  BY WrittenParts
<1>5. asked.row = project[p] /\ asked.in = {} /\ asked.out = {row} /\ asked.linkIn = {} /\ asked.linkOut = {}
  BY SeatChangeParts DEF LeaveChange
<1>6. Discovers(m, p) /\ MayLeave(m, p) BY <1>1, Ready DEF Permitted
<1>7. CASE tx[q].out = {}
  <2>1. p \in ProjectIds /\ project = [project EXCEPT ![p] = project[p]]
    BY Ready, RowTypes DEF TxInv, TablesOK
  <2> HIDE DEF made, row, p
  <2> QED BY <1>2, <1>3, <1>4, <1>7, <2>1 DEF Write, vars
<1>8. CASE tx[q].out = {row}
  <2>1. Write(p, asked)
    <3> HIDE DEF made, asked, row, p
    <3> QED BY <1>2, <1>3, <1>4, <1>5, <1>8, WriteAs
  <2>2. Leave(m, p) BY <1>6, <2>1 DEF Leave
  <2> QED BY <2>2 DEF Commanded
<1> QED BY <1>2, <1>7, <1>8

LEMMA LinkCommit ==
  ASSUME TxInv, NEW q \in Processes, tx[q].pc = "rows", tx[q].cmd.op \in LinkOps,
         Write(tx[q].cmd.project, Written(q))
  PROVE  Commanded(q)
<1> DEFINE p == tx[q].cmd.project
           m == tx[q].me
           items == {i \in Seqs!Range(tx[q].cmd.items) : <<p, i>> \in Linked(tx[q])}
           made == Written(q)
           attached == Links(p, LinksTo(p, items), {})
           detached == Links(p, {}, LinksTo(p, items))
<1>1. /\ tx[q].in = {} /\ tx[q].out = {}
      /\ tx[q].cmd.op = "attach" => tx[q].linkOut = {}
      /\ tx[q].cmd.op = "detach" => tx[q].linkIn = {}
      /\ Linked(tx[q]) \subseteq LinksTo(p, Seqs!Range(tx[q].cmd.items))
  BY Ready DEF LinkWork
<1>2. LinksTo(p, items) = Linked(tx[q]) BY <1>1 DEF LinksTo
<1>3. Image(q) = project[p] BY DEF Image, LinkOps
<1>4. /\ made.row = Image(q) /\ made.in = tx[q].in /\ made.out = tx[q].out
      /\ made.linkIn = tx[q].linkIn /\ made.linkOut = tx[q].linkOut /\ Write(p, made)
  BY WrittenParts
<1>5. Discovers(m, p) /\ MayLink(m, p) BY Ready DEF Permitted, LinkOps
<1>6. items \in SUBSET Seqs!Range(tx[q].cmd.items) OBVIOUS
<1>7. CASE tx[q].cmd.op = "attach"
  <2>1. /\ attached.row = project[p] /\ attached.in = {} /\ attached.out = {}
        /\ attached.linkIn = tx[q].linkIn /\ attached.linkOut = {}
    BY <1>2, <1>7, SeatChangeParts DEF Linked
  <2>2. Write(p, attached)
    <3> HIDE DEF made, attached, items, p
    <3> QED BY <1>1, <1>3, <1>4, <1>7, <2>1, WriteAs
  <2>3. Attach(m, p, items) BY <1>5, <2>2 DEF Attach
  <2> QED BY <1>6, <1>7, <2>3 DEF Commanded
<1>8. CASE tx[q].cmd.op = "detach"
  <2>1. /\ detached.row = project[p] /\ detached.in = {} /\ detached.out = {}
        /\ detached.linkIn = {} /\ detached.linkOut = tx[q].linkOut
    BY <1>2, <1>8, SeatChangeParts DEF Linked
  <2>2. Write(p, detached)
    <3> HIDE DEF made, detached, items, p
    <3> QED BY <1>1, <1>3, <1>4, <1>8, <2>1, WriteAs
  <2>3. Detach(m, p, items) BY <1>5, <2>2 DEF Detach
  <2> QED BY <1>6, <1>8, <2>3 DEF Commanded
<1> QED BY <1>7, <1>8 DEF LinkOps

LEMMA RootCommit ==
  ASSUME TxInv, NEW q \in Processes, tx[q].pc = "rows", tx[q].cmd.op \in RootOps \cup {"create"},
         Write(tx[q].cmd.project, Written(q))
  PROVE  Commanded(q)
<1> DEFINE p == tx[q].cmd.project
           m == tx[q].me
           c == tx[q].cmd
           made == Written(q)
           asked == ChangeOf(tx[q])
<1>1. /\ tx[q].in = asked.in /\ tx[q].out = asked.out
      /\ tx[q].linkIn = {} /\ tx[q].linkOut = asked.linkOut
  BY Ready DEF RootWork
<1>2. asked.linkIn = {} BY Ready, ChangeTypes DEF TxInv, TablesOK
<1>3. asked.row = Image(q) BY RootChangeParts
<1>4. /\ made.row = Image(q) /\ made.in = tx[q].in /\ made.out = tx[q].out
      /\ made.linkIn = tx[q].linkIn /\ made.linkOut = tx[q].linkOut /\ Write(p, made)
  BY WrittenParts
<1>5. Write(p, asked)
  <2> HIDE DEF made, asked, p
  <2> QED BY <1>1, <1>2, <1>3, <1>4, WriteAs
<1>6. Permitted(tx[q]) /\ (c.op # "create" => Discovers(m, p)) BY Ready
<1>7. /\ c.op = "remove" => MayRemove(m, p, c.user)
      /\ c.op = "update" => MayUpdate(m, p, c.mode)
      /\ c.op = "set_state" => MaySetState(m, p, c.state)
      /\ c.op = "delete" => MayDelete(m, p)
      /\ c.op = "create" => MayCreate(m, p, c.mode)
  BY <1>6 DEF Permitted
<1>8. /\ c.op = "remove" => Write(p, RemoveChange(p, c.user))
      /\ c.op = "update" => Write(p, UpdateChange(m, p, c.mode))
      /\ c.op = "set_state" => Write(p, StateChange(p, c.state))
      /\ c.op = "delete" => Write(p, DeleteChange(p))
      /\ c.op = "create" => Write(p, CreateChange(m, p, c.mode))
  BY <1>5 DEF ChangeOf
<1>9. /\ c.op = "remove" => Remove(m, p, c.user)
      /\ c.op = "update" => Update(m, p, c.mode)
      /\ c.op = "set_state" => SetState(m, p, c.state)
      /\ c.op = "delete" => Delete(m, p)
      /\ c.op = "create" => Create(m, p, c.mode)
  BY <1>6, <1>7, <1>8 DEF Remove, Update, SetState, Delete, Create
<1> QED BY <1>9 DEF Commanded, RootOps

LEMMA CommitCommands ==
  ASSUME TxInv, NEW q \in Processes, Commit(q)
  PROVE  Commanded(q) \/ UNCHANGED vars
<1>1. tx[q].pc = "rows" /\ ~Waiting(q) /\ Write(tx[q].cmd.project, Written(q))
  BY DEF Commit, Written
<1>2. tx[q].cmd.op \in AllOps BY <1>1, Ready
<1> QED BY <1>1, <1>2, SeatCommit, LeaveCommit, LinkCommit, RootCommit
    DEF AllOps, SeatOps

LEMMA CommandedIsProper ==
  ASSUME TxInv, NEW q \in Processes, tx[q].pc = "rows", Commanded(q)
  PROVE  Proper
<1> DEFINE p == tx[q].cmd.project
           m == tx[q].me
           c == tx[q].cmd
<1>1. c \in Requests /\ m \in MemberIds /\ p \in ProjectIds /\ TablesOK
  BY Ready DEF TxInv
<1>2. /\ c.op = "add" => c.target \in MemberIds
      /\ c.op = "remove" => c.user \in Users
      /\ c.op \in {"update", "create"} => c.mode \in Participations
      /\ c.op = "set_state" => c.state \in {"active", "archived"}
      /\ c.op \in LinkOps => Seqs!Range(c.items) \subseteq Items
  BY <1>1, RequestParts, RangeIsFinite
<1> HIDE DEF p, m, c
<1>3. CASE c.op = "join" /\ Join(m, p) BY <1>1, <1>3, JoinIsProper
<1>4. CASE c.op = "leave" /\ Leave(m, p) BY <1>1, <1>4, LeaveIsProper
<1>5. CASE c.op = "add" /\ Add(m, p, c.target) BY <1>1, <1>2, <1>5, AddIsProper
<1>6. CASE c.op = "remove" /\ Remove(m, p, c.user) BY <1>1, <1>2, <1>6, RemoveIsProper
<1>7. CASE c.op = "update" /\ Update(m, p, c.mode) BY <1>1, <1>2, <1>7, UpdateIsProper
<1>8. CASE c.op = "set_state" /\ SetState(m, p, c.state) BY <1>1, <1>2, <1>8, SetStateIsProper
<1>9. CASE c.op = "delete" /\ Delete(m, p) BY <1>1, <1>9, DeleteIsProper
<1>10. CASE c.op = "create" /\ Create(m, p, c.mode) BY <1>1, <1>2, <1>10, CreateIsProper
<1>11. CASE c.op = "attach" /\ \E items \in SUBSET Seqs!Range(c.items) : Attach(m, p, items)
  BY <1>1, <1>2, <1>11, AttachIsProper DEF LinkOps
<1>12. CASE c.op = "detach" /\ \E items \in SUBSET Seqs!Range(c.items) : Detach(m, p, items)
  BY <1>1, <1>2, <1>12, DetachIsProper DEF LinkOps
<1> QED BY <1>3, <1>4, <1>5, <1>6, <1>7, <1>8, <1>9, <1>10, <1>11, <1>12 DEF Commanded, p, m, c

\* What a commit does to the tables, seen from another transaction.
LEMMA HoldsProject ==
  ASSUME TxInv, NEW r \in Processes, tx[r].pc \in {"rows", "reread"}, tx[r].cmd.op # "create"
  PROVE  ProjectLock(tx[r].cmd) \in tx[r].held
<1>1. tx[r].pc # "idle" OBVIOUS
<1>2. Stands(tx[r]) /\ tx[r].cmd.op \in AllOps BY <1>1, Running
<1>3. CASE tx[r].pc = "reread" BY <1>2, <1>3 DEF Stands, Phase
<1>4. CASE tx[r].pc = "rows" /\ tx[r].cmd.op \in SeatOps BY <1>2, <1>4 DEF Stands, SeatWork
<1>5. CASE tx[r].pc = "rows" /\ tx[r].cmd.op \in LinkOps BY <1>2, <1>5 DEF Stands, LinkWork
<1>6. CASE tx[r].pc = "rows" /\ tx[r].cmd.op \in RootOps BY <1>2, <1>6 DEF Stands, RootWork
<1> QED BY <1>2, <1>3, <1>4, <1>5, <1>6 DEF AllOps

\* Two transactions that write to one Project share its lock.
LEMMA SameProject ==
  ASSUME TxInv, NEW q \in Processes, NEW r \in Processes, q # r, tx[q].pc = "rows",
         tx[r].pc \in {"rows", "reread"}, tx[q].cmd.project = tx[r].cmd.project
  PROVE  tx[q].cmd.op \in SharedOps /\ tx[r].cmd.op \in SharedOps
<1>1. tx[q].pc # "idle" /\ tx[r].pc # "idle" OBVIOUS
<1>2. /\ Permitted(tx[q]) /\ Permitted(tx[r])
      /\ tx[q].cmd.op \in AllOps /\ tx[r].cmd.op \in AllOps
  BY <1>1, Running DEF Stands
<1>3. Exclusive BY DEF TxInv
<1>4. tx[r].pc = "rows" \/ tx[r].cmd.op # "create"
  BY <1>1, Running DEF Stands, Phase
<1>5. tx[q].cmd.op # "create"
  <2> SUFFICES ASSUME tx[q].cmd.op = "create" PROVE FALSE OBVIOUS
  <2>1. project[tx[q].cmd.project].state = "absent" BY <1>2 DEF Permitted, MayCreate
  <2>2. tx[r].cmd.op # "create" BY <1>3, <1>4 DEF Exclusive
  <2>3. Discovers(tx[r].me, tx[r].cmd.project) BY <1>2, <2>2 DEF Permitted
  <2> QED BY <2>1, <2>3 DEF Discovers, Shows
<1>6. tx[r].cmd.op # "create"
  <2> SUFFICES ASSUME tx[r].cmd.op = "create" PROVE FALSE OBVIOUS
  <2>1. project[tx[r].cmd.project].state = "absent" BY <1>2 DEF Permitted, MayCreate
  <2>2. Discovers(tx[q].me, tx[q].cmd.project) BY <1>2, <1>5 DEF Permitted
  <2> QED BY <2>1, <2>2 DEF Discovers, Shows
<1>7. ~Blocks(ProjectLock(tx[q].cmd), ProjectLock(tx[r].cmd))
  <2>1. ProjectLock(tx[q].cmd) \in tx[q].held /\ ProjectLock(tx[r].cmd) \in tx[r].held
    BY <1>5, <1>6, HoldsProject
  <2> QED BY <2>1, <1>3 DEF Exclusive
<1>8. /\ ProjectLock(tx[q].cmd).mode # "update" /\ ProjectLock(tx[r].cmd).mode # "update"
  BY <1>7 DEF Blocks, ProjectLock, Lock
<1> QED BY <1>8 DEF ProjectLock, Lock, SharedOps

\* What a shared transaction writes, under the keys it holds.
LEMMA SharedWrites ==
  ASSUME TxInv, NEW q \in Processes, tx[q].pc = "rows", tx[q].cmd.op \in SharedOps
  PROVE  /\ tx[q].in \cup tx[q].out # {} =>
              /\ tx[q].cmd.op \in SeatOps /\ SeatLock(tx[q]) \in tx[q].held
              /\ tx[q].in \cup tx[q].out = {SeatRow(tx[q])}
         /\ tx[q].out # {} => project[tx[q].cmd.project].mode = "open"
         /\ \A l \in tx[q].linkIn \cup tx[q].linkOut :
              l[1] = tx[q].cmd.project /\ LinkKey(l[1], l[2]) \in tx[q].held /\ l = <<l[1], l[2]>>
         /\ Image(q) = project[tx[q].cmd.project]
<1>1. /\ SeatWork(tx[q]) /\ LinkWork(tx[q]) /\ Permitted(tx[q])
  BY Ready
<1>2. Image(q) = project[tx[q].cmd.project] BY DEF Image, SharedOps
<1>3. CASE tx[q].cmd.op \in SeatOps
  <2>1. tx[q].linkIn = {} /\ tx[q].linkOut = {} BY <1>1, <1>3 DEF SeatWork
  <2>2. /\ tx[q].in = {} \/ (tx[q].in = {SeatRow(tx[q])} /\ tx[q].cmd.op # "leave")
        /\ tx[q].out = {} \/ (tx[q].out = {SeatRow(tx[q])} /\ tx[q].cmd.op = "leave")
        /\ tx[q].in \cup tx[q].out # {} => SeatLock(tx[q]) \in tx[q].held
    <3>1. /\ tx[q].in # {} => tx[q].cmd.op # "leave" /\ tx[q].in = {SeatRow(tx[q])}
          /\ tx[q].out # {} => tx[q].cmd.op = "leave" /\ tx[q].out = {SeatRow(tx[q])}
          /\ \/ tx[q].in = {} /\ tx[q].out = {}
             \/ tx[q].held = {ProjectLock(tx[q].cmd), SeatLock(tx[q])}
      BY <1>1, <1>3 DEF SeatWork
    <3>2. tx[q].in \cup tx[q].out # {} => SeatLock(tx[q]) \in tx[q].held
      <4>1. CASE tx[q].in = {} /\ tx[q].out = {} BY <4>1
      <4>2. CASE tx[q].held = {ProjectLock(tx[q].cmd), SeatLock(tx[q])} BY <4>2
      <4> QED BY <3>1, <4>1, <4>2
    <3>3. tx[q].in = {} \/ (tx[q].in = {SeatRow(tx[q])} /\ tx[q].cmd.op # "leave") BY <3>1
    <3>4. tx[q].out = {} \/ (tx[q].out = {SeatRow(tx[q])} /\ tx[q].cmd.op = "leave") BY <3>1
    <3> QED BY <3>2, <3>3, <3>4
  <2>3. tx[q].out # {} => project[tx[q].cmd.project].mode = "open"
    BY <1>1, <2>2 DEF Permitted, MayLeave
  <2>4. tx[q].in \cup tx[q].out # {} => tx[q].in \cup tx[q].out = {SeatRow(tx[q])} BY <2>2
  <2>5. tx[q].linkIn \cup tx[q].linkOut = {} BY <2>1
  <2>6. \A l \in tx[q].linkIn \cup tx[q].linkOut :
          l[1] = tx[q].cmd.project /\ LinkKey(l[1], l[2]) \in tx[q].held /\ l = <<l[1], l[2]>>
    BY <2>5
  <2>7. tx[q].in \cup tx[q].out # {} => SeatLock(tx[q]) \in tx[q].held BY <2>2
  <2> QED BY <1>2, <1>3, <2>3, <2>4, <2>6, <2>7
<1>4. CASE tx[q].cmd.op \in LinkOps
  <2>1. /\ tx[q].in = {} /\ tx[q].out = {}
        /\ tx[q].linkIn \cup tx[q].linkOut = Linked(tx[q])
        /\ Linked(tx[q]) \subseteq LinksTo(tx[q].cmd.project, Seqs!Range(tx[q].cmd.items))
        /\ \A l \in Linked(tx[q]) : LinkKey(l[1], l[2]) \in tx[q].held
    BY <1>1, <1>4 DEF LinkWork, Linked, LinkOps
  <2>2. \A l \in Linked(tx[q]) : l[1] = tx[q].cmd.project /\ l = <<l[1], l[2]>>
    BY <2>1 DEF LinksTo
  <2> QED BY <1>2, <2>1, <2>2
<1> QED BY <1>3, <1>4 DEF SharedOps, SeatOps, LinkOps

LEMMA CommitConfined ==
  ASSUME TxInv, NEW q \in Processes, tx[q].pc = "rows"
  PROVE  Confined(tx[q].cmd.project, Written(q))
<1>1. tx[q].cmd.op \in AllOps BY Ready
<1>2. CASE tx[q].cmd.op \in SharedOps
  <2>1. /\ \A s \in tx[q].in \cup tx[q].out : s[1] = tx[q].cmd.project
        /\ \A l \in tx[q].linkIn \cup tx[q].linkOut : l[1] = tx[q].cmd.project
    BY <1>2, SharedWrites DEF SeatRow
  <2> QED BY <2>1, WrittenParts DEF Confined
<1>3. CASE tx[q].cmd.op \in RootOps \cup {"create"}
  <2>1. /\ tx[q].in = ChangeOf(tx[q]).in /\ tx[q].out = ChangeOf(tx[q]).out
        /\ tx[q].linkIn = {} /\ tx[q].linkOut = ChangeOf(tx[q]).linkOut
    BY <1>3, Ready DEF RootWork
  <2> QED BY <1>3, <2>1, Ready, ChangeTypes, WrittenParts DEF Confined, TxInv, TablesOK
<1> QED BY <1>1, <1>2, <1>3 DEF AllOps, SharedOps, SeatOps, LinkOps, RootOps

LEMMA WriteParts ==
  ASSUME TxInv, NEW q \in Processes, Commit(q)
  PROVE  /\ tx[q].pc = "rows" /\ tx[q].todo = <<>> /\ tx[q].cmd.project \in ProjectIds
         /\ project' = [project EXCEPT ![tx[q].cmd.project] = Image(q)]
         /\ seat' = (seat \ tx[q].out) \cup tx[q].in
         /\ link' = (link \ tx[q].linkOut) \cup tx[q].linkIn
         /\ member' = member /\ space' = space
         /\ Write(tx[q].cmd.project, Written(q)) /\ Confined(tx[q].cmd.project, Written(q))
         /\ \A s \in tx[q].in \cup tx[q].out : s[1] = tx[q].cmd.project
         /\ \A l \in tx[q].linkIn \cup tx[q].linkOut : l[1] = tx[q].cmd.project
<1>1. tx[q].pc = "rows" /\ tx[q].todo = <<>> /\ Write(tx[q].cmd.project, Written(q))
  BY DEF Commit, Waiting, Written
<1>2. Confined(tx[q].cmd.project, Written(q)) BY <1>1, CommitConfined
<1>3. tx[q].cmd.project \in ProjectIds BY <1>1, Ready
<1>4. /\ \A s \in tx[q].in \cup tx[q].out : s[1] = tx[q].cmd.project
      /\ \A l \in tx[q].linkIn \cup tx[q].linkOut : l[1] = tx[q].cmd.project
  BY <1>2, WrittenParts DEF Confined
<1> QED BY <1>1, <1>2, <1>3, <1>4, WrittenParts DEF Write

\* A Project another command writes to.
LEMMA OtherProject ==
  ASSUME TxInv, NEW q \in Processes, Commit(q), NEW p \in ProjectIds, p # tx[q].cmd.project
  PROVE  /\ project'[p] = project[p] /\ SeatsOf(p)' = SeatsOf(p)
         /\ {l \in link : l[1] = p}' = {l \in link : l[1] = p}
         /\ \A s : s[1] = p => (s \in seat' <=> s \in seat)
         /\ \A l : l[1] = p => (l \in link' <=> l \in link)
         /\ \A u : UserSeats(p, u)' = UserSeats(p, u)
<1>1. /\ tx[q].cmd.project \in ProjectIds /\ Write(tx[q].cmd.project, Written(q))
      /\ Confined(tx[q].cmd.project, Written(q))
      /\ seat' = (seat \ tx[q].out) \cup tx[q].in
      /\ link' = (link \ tx[q].linkOut) \cup tx[q].linkIn
      /\ \A s \in tx[q].in \cup tx[q].out : s[1] = tx[q].cmd.project
      /\ \A l \in tx[q].linkIn \cup tx[q].linkOut : l[1] = tx[q].cmd.project
  BY WriteParts
<1>2. /\ project'[p] = project[p] /\ SeatsOf(p)' = SeatsOf(p)
      /\ {l \in link : l[1] = p}' = {l \in link : l[1] = p}
  <2> DEFINE made == Written(q)
             here == tx[q].cmd.project
  <2>1. here \in ProjectIds /\ Write(here, made) /\ Confined(here, made) /\ p # here BY <1>1
  <2>2. TypeOK BY DEF TxInv, TablesOK
  <2> HIDE DEF made, here
  <2> QED BY <2>1, <2>2, OthersStay
<1>3. \A s : s[1] = p => (s \in seat' <=> s \in seat) BY <1>1
<1>4. \A l : l[1] = p => (l \in link' <=> l \in link) BY <1>1
<1>5. \A u : UserSeats(p, u)' = UserSeats(p, u) BY <1>3 DEF UserSeats
<1> QED BY <1>2, <1>3, <1>4, <1>5

\* A command on the same Project finds what it decided on unchanged.
LEMMA ProjectStays ==
  ASSUME TxInv, NEW q \in Processes, Commit(q), tx[q].cmd.op \in SharedOps
  PROVE  project' = project
<1>1. project' = [project EXCEPT ![tx[q].cmd.project] = project[tx[q].cmd.project]]
  BY WriteParts, SharedWrites
<1>2. tx[q].cmd.project \in ProjectIds BY WriteParts
<1> QED BY <1>1, <1>2, RowTypes DEF TxInv, TablesOK

\* The row of another transaction after a commit: fewer rows found are still there.
Told(t, q) == [t EXCEPT !.found = @ \ Deleted(q)]

LEMMA ToldParts ==
  ASSUME NEW t \in TxRows, NEW q
  PROVE  /\ Told(t, q) \in TxRows
         /\ Told(t, q).found = t.found \ Deleted(q)
         /\ Told(t, q).pc = t.pc /\ Told(t, q).cmd = t.cmd /\ Told(t, q).me = t.me
         /\ Told(t, q).snap = t.snap /\ Told(t, q).todo = t.todo /\ Told(t, q).held = t.held
         /\ Told(t, q).in = t.in /\ Told(t, q).out = t.out
         /\ Told(t, q).linkIn = t.linkIn /\ Told(t, q).linkOut = t.linkOut
         /\ Told(t, q).answer = t.answer
<1> DEFINE found == t.found \ Deleted(q)
<1>1. found \in SUBSET Locks BY DEF TxRows
<1>2. Told(t, q) = [t EXCEPT !.found = found] BY DEF Told, TxRows
<1> HIDE DEF found
<1>3. Told(t, q) \in TxRows BY <1>1, <1>2 DEF TxRows
<1>4. /\ Told(t, q).found = found
      /\ Told(t, q).pc = t.pc /\ Told(t, q).cmd = t.cmd /\ Told(t, q).me = t.me
      /\ Told(t, q).snap = t.snap /\ Told(t, q).todo = t.todo /\ Told(t, q).held = t.held
      /\ Told(t, q).in = t.in /\ Told(t, q).out = t.out
      /\ Told(t, q).linkIn = t.linkIn /\ Told(t, q).linkOut = t.linkOut
      /\ Told(t, q).answer = t.answer
  BY <1>2 DEF TxRows
<1> QED BY <1>3, <1>4 DEF found

\* Discovery survives the commits of others in the same Project.
LEMMA StillDiscovers ==
  ASSUME TxInv, NEW q \in Processes, NEW r \in Processes, q # r, Commit(q),
         tx[r].pc \in {"rows", "reread"}, tx[r].cmd.op # "create",
         NEW p, NEW m, p = tx[r].cmd.project, m = tx[r].me
  PROVE  Discovers(m, p)'
<1>1. /\ Permitted(tx[r]) /\ p \in ProjectIds /\ m \in MemberIds
  <2>1. tx[r].pc # "idle" OBVIOUS
  <2> QED BY <2>1, Running DEF Stands
<1>2. Discovers(m, p) BY <1>1 DEF Permitted
<1>3. tx[q].pc = "rows" /\ member' = member /\ space' = space
      /\ seat' = (seat \ tx[q].out) \cup tx[q].in
  BY WriteParts
<1>4. CASE p # tx[q].cmd.project
  <2>1. project'[p] = project[p] /\ \A s : s[1] = p => (s \in seat' <=> s \in seat)
    BY <1>1, <1>4, OtherProject
  <2>2. <<p, m>> \in seat' <=> <<p, m>> \in seat BY <2>1
  <2> QED BY <1>2, <1>3, <2>1, <2>2 DEF Discovers, Shows, May
<1>5. CASE p = tx[q].cmd.project
  <2>1. tx[q].cmd.op \in SharedOps BY <1>3, <1>5, SameProject
  <2>2. project' = project BY <2>1, ProjectStays
  <2>3. project[p].mode = "open" \/ tx[q].out = {} BY <1>3, <1>5, <2>1, SharedWrites
  <2> QED BY <1>2, <1>3, <2>2, <2>3 DEF Discovers, Shows, May
<1> QED BY <1>4, <1>5

LEMMA StillPermitted ==
  ASSUME TxInv, NEW q \in Processes, NEW r \in Processes, q # r, Commit(q),
         NEW t, t = tx[r]
  PROVE  Permitted(t)'
<1> DEFINE p == t.cmd.project
           m == t.me
           c == t.cmd
<1> SUFFICES ASSUME t.pc \in {"rows", "reread"} PROVE Permitted(t)' BY DEF Permitted
<1>1. /\ Permitted(t) /\ p \in ProjectIds /\ m \in MemberIds
  <2>1. tx[r].pc # "idle" OBVIOUS
  <2> QED BY <2>1, Running DEF Stands
<1>2. tx[q].pc = "rows" /\ member' = member /\ space' = space BY WriteParts
<1>3. c.op # "create" => Discovers(m, p)' BY StillDiscovers
<1>4. CASE p # tx[q].cmd.project
  <2>1. project'[p] = project[p] /\ \A u : UserSeats(p, u)' = UserSeats(p, u)
    BY <1>1, <1>4, OtherProject
  <2>2. /\ c.op = "create" => MayCreate(m, p, c.mode)'
        /\ c.op = "join" => MayJoin(m, p)'
        /\ c.op = "leave" => MayLeave(m, p)'
        /\ c.op = "add" => MayAdd(m, p, c.target)'
        /\ c.op = "update" => MayUpdate(m, p, c.mode)'
        /\ c.op = "set_state" => MaySetState(m, p, c.state)'
        /\ c.op = "delete" => MayDelete(m, p)'
        /\ c.op \in LinkOps => MayLink(m, p)'
    BY <1>1, <1>2, <2>1 DEF Permitted, MayCreate, MayJoin, MayLeave, MayAdd, MayCurate, MayUpdate,
                            MaySetState, MayDelete, MayLink, May, Open
  <2>3. c.op = "remove" => MayRemove(m, p, c.user)'
    BY <1>1, <1>2, <2>1 DEF Permitted, MayRemove, MayCurate, May, Open
  <2> QED BY <1>3, <2>2, <2>3 DEF Permitted
<1>5. CASE p = tx[q].cmd.project
  <2>1. tx[q].cmd.op \in SharedOps /\ c.op \in SharedOps BY <1>2, <1>5, SameProject
  <2>2. project' = project BY <2>1, ProjectStays
  <2>3. /\ c.op = "join" => MayJoin(m, p)'
        /\ c.op = "leave" => MayLeave(m, p)'
        /\ c.op = "add" => MayAdd(m, p, c.target)'
        /\ c.op \in LinkOps => MayLink(m, p)'
    BY <1>1, <1>2, <2>2 DEF Permitted, MayJoin, MayLeave, MayAdd, MayCurate, MayLink, May, Open
  <2> QED BY <1>3, <2>1, <2>3 DEF Permitted, SharedOps
<1> QED BY <1>4, <1>5

LEMMA PairParts ==
  /\ \A p, u, x, v : SeatKey(p, u) = SeatKey(x, v) => p = x /\ u = v
  /\ \A p, i, x, j : LinkKey(p, i) = LinkKey(x, j) => p = x /\ i = j
  /\ \A p, u, x, i : SeatKey(p, u) # LinkKey(x, i)
  /\ \A c, p, u : ProjectLock(c) # SeatKey(p, u) /\ ProjectLock(c) # LinkKey(p, u)
  /\ \A g : g.mode = "update" => Blocks(g, g)
  /\ \A p, u : SeatKey(p, u).mode = "update" /\ LinkKey(p, u).mode = "update"
BY DEF SeatKey, LinkKey, ProjectLock, Lock, Blocks

LEMMA HeldApart ==
  ASSUME TxInv, NEW q \in Processes, NEW r \in Processes, q # r,
         NEW g, g \in tx[q].held, g \in tx[r].held, g.mode = "update"
  PROVE  FALSE
BY PairParts DEF TxInv, Exclusive

LEMMA StillSeatWork ==
  ASSUME TxInv, NEW q \in Processes, NEW r \in Processes, q # r, Commit(q),
         NEW t, t = tx[r]
  PROVE  SeatWork(t)'
<1> DEFINE p == t.cmd.project
           u == Person(t)[1]
<1> SUFFICES ASSUME t.pc = "rows", t.cmd.op \in SeatOps PROVE SeatWork(t)' BY DEF SeatWork
<1>1. SeatWork(t) /\ p \in ProjectIds BY Ready
<1>2. SeatLock(t) \in t.held =>
        UserSeats(p, u)' = UserSeats(p, u) /\ (SeatRow(t) \in seat' <=> SeatRow(t) \in seat)
  <2> SUFFICES ASSUME SeatLock(t) \in t.held
               PROVE  UserSeats(p, u)' = UserSeats(p, u)
                      /\ (SeatRow(t) \in seat' <=> SeatRow(t) \in seat)
    OBVIOUS
  <2>1. /\ tx[q].pc = "rows" /\ seat' = (seat \ tx[q].out) \cup tx[q].in BY WriteParts
  <2>2. CASE p # tx[q].cmd.project
    BY <1>1, <2>2, OtherProject DEF SeatRow
  <2>3. CASE p = tx[q].cmd.project
    <3>1. tx[q].cmd.op \in SharedOps BY <2>1, <2>3, SameProject
    <3>2. tx[q].in \cup tx[q].out # {} => Person(tx[q])[1] # u
      <4> SUFFICES ASSUME tx[q].in \cup tx[q].out # {}, Person(tx[q])[1] = u PROVE FALSE
        OBVIOUS
      <4>1. SeatLock(tx[q]) \in tx[q].held BY <2>1, <3>1, SharedWrites
      <4>2. SeatLock(tx[q]) = SeatLock(t) BY <2>3 DEF SeatLock
      <4>3. SeatLock(t).mode = "update" BY PairParts DEF SeatLock
      <4> QED BY <4>1, <4>2, <4>3, HeldApart
    <3>3. \A s \in tx[q].in \cup tx[q].out : s[2][1] # u
      BY <2>1, <3>1, <3>2, SharedWrites DEF SeatRow
    <3>4. UserSeats(p, u)' = UserSeats(p, u) BY <2>1, <3>3 DEF UserSeats
    <3>5. SeatRow(t)[2][1] = u BY DEF SeatRow
    <3> QED BY <2>1, <3>3, <3>4, <3>5
  <2> QED BY <2>2, <2>3
<1>3. t.in # {} \/ t.out # {} => SeatLock(t) \in t.held
  <2>1. \/ t.in = {} /\ t.out = {}
        \/ t.held = {ProjectLock(t.cmd), SeatLock(t)}
    BY <1>1 DEF SeatWork
  <2> QED BY <2>1
<1>5. t.todo = <<>> /\ t.in = {} /\ t.cmd.op # "leave" => SeatLock(t) \in t.held /\ SeatRow(t) \in seat'
  BY <1>1, <1>2 DEF SeatWork
<1>6. t.in # {} => UserSeats(p, u)' = {} BY <1>1, <1>2, <1>3 DEF SeatWork
<1>7. t.out # {} => SeatRow(t) \in seat' BY <1>1, <1>2, <1>3 DEF SeatWork
<1> QED BY <1>1, <1>5, <1>6, <1>7 DEF SeatWork

LEMMA StillLinkWork ==
  ASSUME TxInv, NEW q \in Processes, NEW r \in Processes, q # r, Commit(q),
         NEW t, t = tx[r]
  PROVE  LinkWork(t)'
<1> SUFFICES ASSUME t.pc = "rows", t.cmd.op \in LinkOps PROVE LinkWork(t)' BY DEF LinkWork
<1>1. /\ LinkWork(t) /\ t.in = {} /\ t.out = {}
      /\ t.cmd.op = "attach" => t.linkOut = {} /\ t.linkIn \cap link = {}
      /\ t.cmd.op = "detach" => t.linkIn = {} /\ t.linkOut \subseteq link
      /\ Linked(t) \subseteq LinksTo(t.cmd.project, Seqs!Range(t.cmd.items))
      /\ t.held = {ProjectLock(t.cmd)} \cup {LinkKey(l[1], l[2]) : l \in Linked(t)}
  BY Ready DEF LinkWork
<1>2. tx[q].pc = "rows" /\ link' = (link \ tx[q].linkOut) \cup tx[q].linkIn
      /\ \A l \in tx[q].linkIn \cup tx[q].linkOut : l[1] = tx[q].cmd.project
  BY WriteParts
<1>3. \A l \in Linked(t) : l \notin tx[q].linkIn \cup tx[q].linkOut
  <2> SUFFICES ASSUME NEW l \in Linked(t), l \in tx[q].linkIn \cup tx[q].linkOut PROVE FALSE
    OBVIOUS
  <2>1. l[1] = t.cmd.project /\ LinkKey(l[1], l[2]) \in t.held BY <1>1 DEF LinksTo
  <2>2. tx[q].cmd.project = t.cmd.project BY <1>2, <2>1
  <2>3. tx[q].cmd.op \in SharedOps BY <1>2, <2>2, SameProject
  <2>4. LinkKey(l[1], l[2]) \in tx[q].held BY <1>2, <2>3, SharedWrites
  <2>5. LinkKey(l[1], l[2]).mode = "update" BY PairParts
  <2> QED BY <2>1, <2>4, <2>5, HeldApart
<1>4. t.cmd.op = "attach" => t.linkIn \cap link' = {} BY <1>1, <1>2, <1>3 DEF Linked
<1>5. t.cmd.op = "detach" => t.linkOut \subseteq link' BY <1>1, <1>2, <1>3 DEF Linked
<1>6. Linked(t)' = Linked(t) BY DEF Linked
<1> QED BY <1>1, <1>4, <1>5, <1>6 DEF LinkWork

LEMMA StillRootWork ==
  ASSUME TxInv, NEW q \in Processes, NEW r \in Processes, q # r, Commit(q),
         NEW t, t = tx[r]
  PROVE  RootWork(t)'
<1> SUFFICES ASSUME t.pc = "rows", t.cmd.op \in RootOps \cup {"create"} PROVE RootWork(t)'
  BY DEF RootWork
<1> DEFINE p == t.cmd.project
<1>1. RootWork(t) /\ p \in ProjectIds BY Ready
<1>2. tx[q].pc = "rows" BY WriteParts
<1>3. p # tx[q].cmd.project
  <2> SUFFICES ASSUME p = tx[q].cmd.project PROVE FALSE OBVIOUS
  <2>1. t.cmd.op \in SharedOps BY <1>2, SameProject
  <2> QED BY <2>1 DEF SharedOps, RootOps
<1>4. /\ project'[p] = project[p] /\ SeatsOf(p)' = SeatsOf(p)
      /\ {l \in link : l[1] = p}' = {l \in link : l[1] = p}
      /\ \A u : UserSeats(p, u)' = UserSeats(p, u)
  BY <1>1, <1>3, OtherProject
<1>5. ChangeOf(t)' = ChangeOf(t)
  BY <1>4 DEF ChangeOf, RemoveChange, Seats, UpdateChange, StateChange, DeleteChange, CreateChange, Change
<1> QED BY <1>1, <1>5 DEF RootWork

LEMMA ToldStands ==
  ASSUME TxInv, NEW q \in Processes, NEW r \in Processes, q # r, Commit(q),
         NEW t, t = tx[r], NEW u, u = Told(t, q)
  PROVE  Stands(u)' /\ u \in TxRows
<1>1. t \in TxRows /\ Stands(t) BY DEF TxInv
<1>2. /\ u \in TxRows /\ u.found = t.found \ Deleted(q)
      /\ u.pc = t.pc /\ u.cmd = t.cmd /\ u.me = t.me
      /\ u.snap = t.snap /\ u.todo = t.todo /\ u.held = t.held
      /\ u.in = t.in /\ u.out = t.out /\ u.linkIn = t.linkIn /\ u.linkOut = t.linkOut
      /\ u.answer = t.answer
  BY <1>1, ToldParts
<1>3. Person(u) = Person(t) /\ SeatRow(u) = SeatRow(t) /\ SeatLock(u) = SeatLock(t)
  BY <1>2 DEF Person, SeatRow, SeatLock
<1>4. /\ member' = member /\ seat' = (seat \ tx[q].out) \cup tx[q].in
      /\ link' = (link \ tx[q].linkOut) \cup tx[q].linkIn
  BY WriteParts
<1>5. Acts(u)' BY <1>1, <1>2, <1>4 DEF Stands, Acts
<1>6. Phase(u)'
  <2>1. ProjectLock(t.cmd) \notin Deleted(q) BY PairParts DEF Deleted
  <2> QED BY <1>1, <1>2, <1>3, <2>1 DEF Stands, Phase, Bare
<1>7. Permitted(u)'
  <2>1. Permitted(t)' BY StillPermitted
  <2> QED BY <1>2, <2>1 DEF Permitted
<1>8. SeatWork(u)'
  <2>1. SeatWork(t)' BY StillSeatWork
  <2> QED BY <1>2, <1>3, <2>1 DEF SeatWork, Person
<1>9. SeatFound(u)'
  <2> SUFFICES ASSUME u.pc \in {"rows", "reread"}, u.cmd.op \in SeatOps, SeatLock(u) \in u.found
               PROVE  SeatRow(u) \in seat'
    BY DEF SeatFound
  <2>1. SeatRow(t) \in seat /\ SeatLock(t) \notin Deleted(q)
    BY <1>1, <1>2, <1>3 DEF Stands, SeatFound
  <2>2. SeatKey(SeatRow(t)[1], SeatRow(t)[2][1]) = SeatLock(t) BY DEF SeatRow, SeatLock
  <2>3. SeatRow(t) \notin tx[q].out BY <2>1, <2>2 DEF Deleted
  <2> QED BY <1>3, <1>4, <2>1, <2>3
<1>10. LinkWork(u)'
  <2>1. LinkWork(t)' BY StillLinkWork
  <2> QED BY <1>2, <2>1 DEF LinkWork, Linked
<1>11. LinkFound(u)'
  <2> SUFFICES ASSUME u.pc = "rows", u.cmd.op = "detach", NEW p \in ProjectIds, NEW i \in Items,
                      LinkKey(p, i) \in u.found
               PROVE  <<p, i>> \in link'
    BY DEF LinkFound
  <2>1. <<p, i>> \in link /\ LinkKey(p, i) \notin Deleted(q)
    BY <1>1, <1>2 DEF Stands, LinkFound
  <2>2. <<p, i>> \notin tx[q].linkOut BY <2>1 DEF Deleted
  <2> QED BY <1>4, <2>1, <2>2
<1>12. LinkPlan(u)'
  <2>1. Linked(u) = Linked(t) /\ OrderOf(u) = OrderOf(t) BY <1>2 DEF Linked, OrderOf
  <2>2. LinkPlan(t) BY <1>1 DEF Stands
  <2>3. LinkPlan(u) BY <1>2, <2>1, <2>2, SMTT(20) DEF LinkPlan
  <2> QED BY <2>3 DEF LinkPlan, OrderOf, Linked
<1>13. RootWork(u)'
  <2>1. RootWork(t)' BY StillRootWork
  <2> QED BY <1>2, <2>1 DEF RootWork, ChangeOf
<1> QED BY <1>2, <1>5, <1>6, <1>7, <1>8, <1>9, <1>10, <1>11, <1>12, <1>13 DEF Stands

LEMMA CommitKeeps ==
  ASSUME TxInv, NEW q \in Processes, Commit(q)
  PROVE  TxInv' /\ ReadOnlyStep /\ CurationStep
<1>1. tx[q].pc = "rows" BY DEF Commit
<1>2. tx' = [r \in Processes |-> IF r = q THEN Idle("done") ELSE Told(tx[r], q)]
  BY DEF Commit, Told
<1>3. TablesOK' /\ ReadOnlyStep /\ CurationStep
  <2>1. CASE Commanded(q) BY <1>1, <2>1, CommandedIsProper DEF Proper
  <2>2. CASE UNCHANGED vars
    <3> USE <2>2 DEF vars
    <3>1. TablesOK'
      BY DEF TxInv, TablesOK, TypeOK, ImplicitIsEmpty, SeatsAreCurrent, SeatsOf, UserSeats,
             Exists, Current
    <3>2. CurationStep BY DEF CurationStep, SeatsOf
    <3>3. ReadOnlyStep
      <4>1. \A s \in seat : Current(s[2])' BY DEF TxInv, TablesOK, SeatsAreCurrent, Current
      <4>2. \A p : {s \in SeatsOf(p) : Current(s[2])'} = SeatsOf(p) BY <4>1 DEF SeatsOf
      <4>3. \A p : SeatsOf(p)' = SeatsOf(p) BY DEF SeatsOf
      <4> QED BY <4>2, <4>3 DEF ReadOnlyStep
    <3> QED BY <3>1, <3>2, <3>3
  <2> QED BY <2>1, <2>2, CommitCommands
<1>4. tx'[q] = Idle("done") /\ \A r \in Processes \ {q} : tx'[r] = Told(tx[r], q) BY <1>2
<1>5. Idle("done") \in TxRows /\ Stands(Idle("done")) /\ Idle("done").held = {}
      /\ Idle("done").pc = "idle"
  BY IdleStands DEF Answers
<1>6. \A r \in Processes \ {q} : Told(tx[r], q) \in TxRows
  BY ToldParts DEF TxInv
<1>7. tx' \in [Processes -> TxRows] BY <1>2, <1>5, <1>6
<1>8. ASSUME NEW r \in Processes PROVE Stands(tx[r])'
  <2>1. CASE r = q
    <3> DEFINE u == Idle("done")
    <3>1. u.pc = "idle" /\ u.cmd = NoCommand /\ u.todo = <<>> /\ u.held = {} /\ Bare(u)
      BY DEF Idle, NoCommand, Bare
    <3> HIDE DEF u
    <3>2. Bare(u)' BY <3>1 DEF Bare
    <3>3. Stands(u)'
      BY <3>1, <3>2 DEF Stands, Acts, Phase, Permitted, SeatWork, SeatFound, LinkWork, LinkFound,
                        LinkPlan, RootWork
    <3> QED BY <2>1, <1>4, <3>3 DEF u
  <2>2. CASE r # q
    <3> DEFINE t == tx[r]
               u == Told(t, q)
    <3>1. \A s, v : s = tx[r] /\ v = Told(s, q) => Stands(v)' BY <2>2, ToldStands
    <3>2. \A v : v = tx'[r] => Stands(v)' BY <3>1, <1>4, <2>2
    <3> QED BY <3>2
  <2> QED BY <2>1, <2>2
<1>9. \A r \in Processes \ {q} : /\ tx'[r].held = tx[r].held /\ tx'[r].pc = tx[r].pc
                                 /\ tx'[r].cmd = tx[r].cmd
  BY <1>4, ToldParts DEF TxInv
<1>10. Exclusive'
  <2> SUFFICES ASSUME NEW a \in Processes, NEW b \in Processes, a # b
               PROVE  /\ \A g \in tx'[a].held, h \in tx'[b].held : ~Blocks(g, h)
                      /\ /\ tx'[a].pc = "rows" /\ tx'[b].pc = "rows"
                         /\ tx'[a].cmd.op = "create" /\ tx'[b].cmd.op = "create"
                         => tx'[a].cmd.project # tx'[b].cmd.project
    BY DEF Exclusive, Blocks
  <2>1. CASE a # q /\ b # q BY <2>1, <1>9 DEF TxInv, Exclusive
  <2>2. CASE a = q \/ b = q BY <2>2, <1>4, <1>5
  <2> QED BY <2>1, <2>2
<1> QED BY <1>3, <1>7, <1>8, <1>10 DEF TxInv

LEMMA ChangeWorkspaceKeeps ==
  ASSUME TxInv, ChangeWorkspace
  PROVE  TxInv' /\ ReadOnlyStep /\ CurationStep
<1>1. RootFree /\ Govern /\ tx' = tx BY DEF ChangeWorkspace
<1>2. TablesOK' /\ ReadOnlyStep /\ CurationStep BY <1>1, GovernIsProper DEF TxInv, Proper
<1>3. Exclusive' BY <1>1 DEF TxInv, Exclusive, Blocks
<1>4. ASSUME NEW r \in Processes PROVE Stands(tx[r])'
  <2>1. \A t : t = tx[r] => Stands(t)'
    <3> SUFFICES ASSUME NEW t, t = tx[r] PROVE Stands(t)' OBVIOUS
    <3>1. Stands(t) /\ t.pc = "idle" BY <1>1 DEF TxInv, RootFree
    <3>2. Phase(t)' BY <3>1 DEF Stands, Phase, Bare
    <3> QED BY <3>1, <3>2 DEF Stands, Acts, Permitted, SeatWork, SeatFound, LinkWork, LinkFound,
                              LinkPlan, RootWork
  <2> QED BY <1>1, <2>1
<1>5. tx' \in [Processes -> TxRows] BY <1>1 DEF TxInv
<1> QED BY <1>2, <1>3, <1>4, <1>5 DEF TxInv

\* A step that leaves the tables alone.
LEMMA TablesStay ==
  ASSUME TablesOK, UNCHANGED tables
  PROVE  ReadOnlyStep /\ CurationStep
<1> USE DEF tables
<1>1. CurationStep BY DEF CurationStep, SeatsOf
<1>2. \A s \in seat : Current(s[2])' BY DEF TablesOK, SeatsAreCurrent, Current
<1>3. \A p : {s \in SeatsOf(p) : Current(s[2])'} = SeatsOf(p) BY <1>2 DEF SeatsOf
<1>4. \A p : SeatsOf(p)' = SeatsOf(p) BY DEF SeatsOf
<1>5. ReadOnlyStep BY <1>3, <1>4 DEF ReadOnlyStep
<1> QED BY <1>1, <1>5

\* Steps other than a commit or the Workspace's.
LEMMA StepsAlone ==
  ASSUME NEW q \in Processes,
         \/ Find(q) \/ LockProject(q) \/ DecideAssociation(q) \/ DecideProject(q)
         \/ DecideCreate(q) \/ InsertSeat(q) \/ Reread(q) \/ LockSeat(q) \/ DeleteSeat(q)
         \/ TakeLink(q) \/ Rollback(q)
  PROVE  UNCHANGED tables /\ \E t : tx' = [tx EXCEPT ![q] = t]
<1>1. (\E t : Becomes(q, t)) => UNCHANGED tables /\ \E t : tx' = [tx EXCEPT ![q] = t]
  BY DEF Becomes
<1>2. CASE Find(q) BY <1>1, <1>2 DEF Find, Refuse
<1>3. CASE LockProject(q) BY <1>1, <1>3 DEF LockProject, Refuse
<1>4. CASE DecideAssociation(q) BY <1>1, <1>4 DEF DecideAssociation, Answer, Continue, Refuse
<1>5. CASE DecideProject(q) BY <1>1, <1>5 DEF DecideProject, Answer, Continue, Refuse
<1>6. CASE DecideCreate(q) BY <1>1, <1>6 DEF DecideCreate, Continue, Refuse
<1>7. CASE InsertSeat(q) BY <1>1, <1>7 DEF InsertSeat
<1>8. CASE Reread(q) BY <1>1, <1>8 DEF Reread, Refuse
<1>9. CASE LockSeat(q) BY <1>1, <1>9 DEF LockSeat, Refuse
<1>10. CASE DeleteSeat(q) BY <1>1, <1>10 DEF DeleteSeat
<1>11. CASE TakeLink(q) BY <1>1, <1>11 DEF TakeLink
<1>12. CASE Rollback(q) BY <1>1, <1>12 DEF Rollback
<1> QED BY <1>2, <1>3, <1>4, <1>5, <1>6, <1>7, <1>8, <1>9, <1>10, <1>11, <1>12

LEMMA TxNextKeeps ==
  ASSUME TxInv, [TxNext]_txVars
  PROVE  TxInv' /\ ReadOnlyStep /\ CurationStep
<1>1. ASSUME NEW q \in Processes, Commit(q) PROVE TxInv' /\ ReadOnlyStep /\ CurationStep
  BY <1>1, CommitKeeps
<1>2. ASSUME NEW q \in Processes, Step(q) \/ Rollback(q), ~Commit(q)
      PROVE  TxInv' /\ ReadOnlyStep /\ CurationStep
  <2>1. UNCHANGED tables BY <1>2, StepsAlone DEF Step
  <2>2. ReadOnlyStep /\ CurationStep BY <2>1, TablesStay DEF TxInv
  <2>3. Rollback(q) => TxInv' BY IdleKeeps DEF Rollback, Answers
  <2>4. Step(q) => TxInv'
    BY <1>2, FindKeeps, LockProjectKeeps, DecideAssociationKeeps, DecideProjectKeeps,
       DecideCreateKeeps, InsertSeatKeeps, RereadKeeps, LockSeatKeeps, DeleteSeatKeeps,
       TakeLinkKeeps DEF Step
  <2> QED BY <1>2, <2>2, <2>3, <2>4
<1>3. ASSUME NEW q \in Processes, NEW c \in Requests, Begin(q, c)
      PROVE  TxInv' /\ ReadOnlyStep /\ CurationStep
  <2>1. UNCHANGED tables BY <1>3 DEF Begin
  <2> QED BY <1>3, <2>1, TablesStay, BeginKeeps DEF TxInv
<1>4. CASE ChangeWorkspace BY <1>4, ChangeWorkspaceKeeps
<1>5. CASE UNCHANGED txVars
  <2>1. UNCHANGED tables /\ tx' = tx BY <1>5 DEF txVars, tables
  <2>2. ReadOnlyStep /\ CurationStep BY <2>1, TablesStay DEF TxInv
  <2>3. TablesOK'
    BY <2>1 DEF TxInv, TablesOK, TypeOK, ImplicitIsEmpty, SeatsAreCurrent, tables, SeatsOf,
                UserSeats, Exists, Current
  <2>4. Exclusive' BY <2>1 DEF TxInv, Exclusive, Blocks
  <2>5. ASSUME NEW r \in Processes PROVE Stands(tx[r])'
    <3>1. \A t : t = tx[r] => Stands(t)' BY <2>1, TablesKeep DEF TxInv
    <3> QED BY <2>1, <3>1
  <2>6. tx' \in [Processes -> TxRows] BY <2>1 DEF TxInv
  <2> QED BY <2>2, <2>3, <2>4, <2>5, <2>6 DEF TxInv
<1> QED BY <1>1, <1>2, <1>3, <1>4, <1>5 DEF TxNext, Finished

-------------------------------------------------------------------------------
(* What is proved of every behaviour.                                        *)

\* The tables stay sound, each transaction's decision stands until it commits or
\* gives up, and no two hold conflicting locks (participation.py, lifecycle.py and
\* workspaces.py under the locks of lock_project_root and the association rows).
THEOREM TransactionsSound == TxSpec => []TxInv
<1>1. TxInit => TxInv
  <2> SUFFICES ASSUME TxInit PROVE TxInv OBVIOUS
  <2>1. TablesOK BY InitIsSound DEF TxInit
  <2>2. Idle("none") \in TxRows /\ Stands(Idle("none")) /\ Idle("none").held = {}
        /\ Idle("none").pc = "idle"
    BY IdleStands DEF Answers
  <2>3. \A q \in Processes : tx[q] = Idle("none") BY DEF TxInit
  <2>4. tx \in [Processes -> TxRows] BY <2>2 DEF TxInit
  <2>5. Exclusive BY <2>2, <2>3 DEF Exclusive
  <2> QED BY <2>1, <2>2, <2>3, <2>4, <2>5 DEF TxInv
<1>2. TxInv /\ [TxNext]_txVars => TxInv' BY TxNextKeeps
<1> QED BY <1>1, <1>2, PTL DEF TxSpec

LEMMA CountsHold ==
  ASSUME TxInv, NEW q \in Processes
  PROVE  /\ tx[q].in \cap seat = {} /\ tx[q].out \subseteq seat
         /\ tx[q].linkIn \cap link = {} /\ tx[q].linkOut \subseteq link
<1> DEFINE p == tx[q].cmd.project
           c == tx[q].cmd
           m == tx[q].me
           u == Person(tx[q])[1]
<1>1. CASE tx[q].pc # "rows" BY <1>1 DEF TxInv, Stands, Phase, Bare
<1>2. CASE tx[q].pc = "rows" /\ c.op \in SeatOps
  <2>1. SeatWork(tx[q]) BY <1>2, Ready
  <2>2. /\ tx[q].linkIn = {} /\ tx[q].linkOut = {}
        /\ tx[q].in # {} => tx[q].in = {SeatRow(tx[q])} /\ UserSeats(p, u) = {}
        /\ tx[q].out # {} => tx[q].out = {SeatRow(tx[q])} /\ SeatRow(tx[q]) \in seat
    BY <1>2, <2>1 DEF SeatWork
  <2>3. SeatRow(tx[q]) \in seat => SeatRow(tx[q]) \in UserSeats(p, u) BY DEF SeatRow, UserSeats
  <2>4. tx[q].in \cap seat = {}
    <3>1. CASE tx[q].in = {} BY <3>1
    <3>2. CASE tx[q].in # {} BY <3>2, <2>2, <2>3
    <3> QED BY <3>1, <3>2
  <2>5. tx[q].out \subseteq seat
    <3>1. CASE tx[q].out = {} BY <3>1
    <3>2. CASE tx[q].out # {} BY <3>2, <2>2
    <3> QED BY <3>1, <3>2
  <2> QED BY <2>2, <2>4, <2>5
<1>3. CASE tx[q].pc = "rows" /\ c.op \in LinkOps
  <2>1. LinkWork(tx[q]) BY <1>3, Ready
  <2> QED BY <1>3, <2>1 DEF LinkWork, LinkOps
<1>4. CASE tx[q].pc = "rows" /\ c.op \in RootOps \cup {"create"}
  <2>1. /\ tx[q].in = ChangeOf(tx[q]).in /\ tx[q].out = ChangeOf(tx[q]).out
        /\ tx[q].linkIn = {} /\ tx[q].linkOut = ChangeOf(tx[q]).linkOut
    BY <1>4, Ready DEF RootWork
  <2>2. p \in ProjectIds /\ Permitted(tx[q]) BY <1>4, Ready
  <2>3. /\ ChangeOf(tx[q]).in \in {{}, {<<p, m>>}}
        /\ ChangeOf(tx[q]).in # {} =>
             project[p].mode = "workspace" \/ project[p].state = "absent"
    <3>1. CASE c.op = "update"
      <4> DEFINE changed == c.mode # project[p].mode
                 in == IF changed /\ c.mode = "open" /\ project[p].mode = "workspace"
                       THEN {<<p, m>>} ELSE {}
                 out == IF changed /\ "workspace" \in {c.mode, project[p].mode}
                        THEN SeatsOf(p) ELSE {}
                 row == [project[p] EXCEPT !.mode = c.mode]
      <4>1. ChangeOf(tx[q]) = Change(row, in, out, {}, {})
        BY <3>1 DEF ChangeOf, UpdateChange
      <4>2. in \in {{}, {<<p, m>>}} /\ (in # {} => project[p].mode = "workspace") OBVIOUS
      <4> HIDE DEF row, in, out
      <4>3. ChangeOf(tx[q]).in = in BY <4>1, ChangeParts
      <4> QED BY <4>2, <4>3
    <3>2. CASE c.op = "create"
      <4> DEFINE in == IF c.mode = "open" THEN {<<p, m>>} ELSE {}
                 row == [state |-> "active", mode |-> c.mode]
      <4>1. ChangeOf(tx[q]) = Change(row, in, {}, {}, {})
        BY <3>2 DEF ChangeOf, CreateChange
      <4>2. in \in {{}, {<<p, m>>}} OBVIOUS
      <4>3. project[p].state = "absent" BY <1>4, <2>2, <3>2 DEF Permitted, MayCreate
      <4> HIDE DEF row, in
      <4>4. ChangeOf(tx[q]).in = in BY <4>1, ChangeParts
      <4> QED BY <4>2, <4>3, <4>4
    <3>3. CASE c.op \in {"remove", "set_state", "delete"}
      <4>1. ChangeOf(tx[q]).in = {}
        BY <3>3, ChangeParts, SeatChangeParts
           DEF ChangeOf, RemoveChange, StateChange, DeleteChange
      <4> QED BY <4>1
    <3> QED BY <1>4, <3>1, <3>2, <3>3 DEF RootOps
  <2>4. tx[q].in \cap seat = {}
    <3> SUFFICES ASSUME <<p, m>> \in seat, ChangeOf(tx[q]).in # {} PROVE FALSE
      BY <2>1, <2>3
    <3>1. <<p, m>> \in SeatsOf(p) BY DEF SeatsOf
    <3> QED BY <2>2, <2>3, <3>1 DEF TxInv, TablesOK, ImplicitIsEmpty, Exists
  <2>5. ChangeOf(tx[q]).out \subseteq seat /\ ChangeOf(tx[q]).linkOut \subseteq link
    <3>1. CASE c.op = "update"
      <4> DEFINE changed == c.mode # project[p].mode
                 in == IF changed /\ c.mode = "open" /\ project[p].mode = "workspace"
                       THEN {<<p, m>>} ELSE {}
                 out == IF changed /\ "workspace" \in {c.mode, project[p].mode}
                        THEN SeatsOf(p) ELSE {}
                 row == [project[p] EXCEPT !.mode = c.mode]
      <4>1. ChangeOf(tx[q]) = Change(row, in, out, {}, {})
        BY <3>1 DEF ChangeOf, UpdateChange
      <4>2. out \subseteq seat BY DEF SeatsOf
      <4> HIDE DEF row, in, out
      <4> QED BY <4>1, <4>2, ChangeParts
    <3>2. CASE c.op = "create"
      <4>1. ChangeOf(tx[q]).out = {} /\ ChangeOf(tx[q]).linkOut = {}
        BY <3>2 DEF ChangeOf, CreateChange, Change
      <4> QED BY <4>1
    <3>3. CASE c.op = "remove"
      <4>1. ChangeOf(tx[q]).out = UserSeats(p, c.user) /\ ChangeOf(tx[q]).linkOut = {}
        BY <3>3, SeatChangeParts DEF ChangeOf, RemoveChange
      <4> QED BY <4>1 DEF UserSeats
    <3>4. CASE c.op = "set_state"
      <4>1. ChangeOf(tx[q]).out = {} /\ ChangeOf(tx[q]).linkOut = {}
        BY <3>4 DEF ChangeOf, StateChange, Change
      <4> QED BY <4>1
    <3>5. CASE c.op = "delete"
      <4>1. /\ ChangeOf(tx[q]).out = SeatsOf(p)
            /\ ChangeOf(tx[q]).linkOut = {l \in link : l[1] = p}
        BY <3>5 DEF ChangeOf, DeleteChange, Change
      <4> QED BY <4>1 DEF SeatsOf
    <3> QED BY <1>4, <3>1, <3>2, <3>3, <3>4, <3>5 DEF RootOps
  <2> QED BY <2>1, <2>4, <2>5
<1>5. tx[q].pc = "rows" => c.op \in AllOps BY Ready
<1> QED BY <1>1, <1>2, <1>3, <1>4, <1>5 DEF AllOps

\* Participation agrees with the Project's mode and with the memberships, and what
\* a command in flight has counted as new or removed is so until it commits
\* (check_project_integrity; the counts the bulk commands report and audit).
THEOREM ParticipationHolds == TxSpec => []SeatsSound
<1>1. TxInv => SeatsSound
  BY CountsHold DEF SeatsSound, CountsStand, TxInv, TablesOK
<1> QED BY <1>1, TransactionsSound, PTL

\* Whose answer changes, and to what, in a step that is not a commit.
LEMMA NotDoneYet ==
  ASSUME TxInv, NEW q \in Processes, tx[q].pc # "idle",
         \/ Find(q) \/ LockProject(q) \/ DecideAssociation(q) \/ DecideProject(q)
         \/ DecideCreate(q) \/ InsertSeat(q) \/ Reread(q) \/ LockSeat(q) \/ DeleteSeat(q)
         \/ TakeLink(q) \/ Rollback(q)
  PROVE  tx'[q].answer # "done"
<1>1. tx[q] \in TxRows /\ tx[q].answer = "none" /\ DOMAIN tx = Processes
  BY Running DEF TxInv
<1>2. DOMAIN tx[q] = {"pc", "cmd", "me", "snap", "todo", "found", "held", "in", "out", "linkIn",
                      "linkOut", "answer"}
  BY <1>1 DEF TxRows
<1>3. \A t : Becomes(q, t) => tx'[q] = t BY <1>1 DEF Becomes
<1>4. Idle("refused").answer = "refused" /\ Idle("lost").answer = "lost" BY DEF Idle
<1>5. Refuse(q) => tx'[q].answer # "done" BY <1>3, <1>4 DEF Refuse
<1>6. \A keys, change : Continue(q, keys, change) => tx'[q].answer # "done"
  <2> SUFFICES ASSUME NEW keys, NEW change, Continue(q, keys, change)
               PROVE  tx'[q].answer # "done"
    OBVIOUS
  <2> DEFINE found == IF tx[q].cmd.op \in {"leave", "detach"} THEN Seqs!Range(keys) ELSE {}
             in == change.in
             out == change.out
             linkIn == change.linkIn
             linkOut == change.linkOut
             t == [tx[q] EXCEPT !.pc = "rows", !.todo = keys, !.found = found,
                                !.in = in, !.out = out, !.linkIn = linkIn, !.linkOut = linkOut]
  <2>1. Becomes(q, t) BY DEF Continue
  <2> HIDE DEF found, in, out, linkIn, linkOut
  <2>2. t.answer = "none" BY <1>1, <1>2
  <2> QED BY <1>3, <2>1, <2>2
<1>7. CASE Find(q)
  <2> DEFINE lock == ProjectLock(tx[q].cmd)
             t == [tx[q] EXCEPT !.pc = "project", !.snap = seat, !.todo = <<lock>>, !.found = {lock}]
  <2>1. Refuse(q) \/ Becomes(q, t) BY <1>7 DEF Find
  <2> HIDE DEF lock
  <2>2. t.answer = "none" BY <1>1, <1>2
  <2> QED BY <1>3, <1>5, <2>1, <2>2
<1>8. CASE LockProject(q)
  <2> DEFINE first == Head(tx[q].todo)
             t == [tx[q] EXCEPT !.pc = "decide", !.snap = {}, !.todo = <<>>, !.held = {first}]
  <2>1. Refuse(q) \/ Becomes(q, t) BY <1>8 DEF LockProject
  <2> HIDE DEF first
  <2>2. t.answer = "none" BY <1>1, <1>2
  <2> QED BY <1>3, <1>5, <2>1, <2>2
<1>9. CASE DecideAssociation(q) BY <1>5, <1>6, <1>9 DEF DecideAssociation, Answer
<1>10. CASE DecideProject(q) BY <1>5, <1>6, <1>10 DEF DecideProject, Answer
<1>11. CASE DecideCreate(q) BY <1>5, <1>6, <1>11 DEF DecideCreate
<1>12. Taken(q).answer = "none" /\ DOMAIN Taken(q) = DOMAIN tx[q]
  <2> DEFINE rest == Tail(tx[q].todo)
             held == tx[q].held \cup {Head(tx[q].todo)}
             t == [tx[q] EXCEPT !.todo = rest, !.held = held]
  <2>1. t = Taken(q) BY <1>2 DEF Taken
  <2> HIDE DEF rest, held
  <2>2. t.answer = "none" /\ DOMAIN t = DOMAIN tx[q] BY <1>1, <1>2
  <2> QED BY <2>1, <2>2
<1>13. Skipped(q).answer = "none" /\ Conflict(q).answer = "none"
  <2>1. \A x : [tx[q] EXCEPT !.todo = x].answer = "none" BY <1>1, <1>2
  <2>2. Skipped(q).answer = "none" BY <2>1 DEF Skipped
  <2>3. Conflict(q).answer = "none" BY <1>1, <1>2 DEF Conflict
  <2> QED BY <2>2, <2>3
<1>14. \A x : /\ [Taken(q) EXCEPT !.in = x].answer = "none"
              /\ [Taken(q) EXCEPT !.out = x].answer = "none"
              /\ [Taken(q) EXCEPT !.linkIn = x].answer = "none"
              /\ [Taken(q) EXCEPT !.linkOut = x].answer = "none"
              /\ [Taken(q) EXCEPT !.pc = x].answer = "none"
  <2> DEFINE t == Taken(q)
  <2>1. t.answer = "none" /\ "answer" \in DOMAIN t BY <1>2, <1>12
  <2> HIDE DEF t
  <2>2. \A x : /\ [t EXCEPT !.in = x].answer = "none" /\ [t EXCEPT !.out = x].answer = "none"
               /\ [t EXCEPT !.linkIn = x].answer = "none" /\ [t EXCEPT !.linkOut = x].answer = "none"
               /\ [t EXCEPT !.pc = x].answer = "none"
    BY <2>1
  <2> QED BY <2>2 DEF t
<1>15. CASE InsertSeat(q) BY <1>3, <1>13, <1>14, <1>15 DEF InsertSeat
<1>16. CASE Reread(q)
  <2> DEFINE key == SeatKey(tx[q].cmd.project, Subject(q)[1])
             t == [tx[q] EXCEPT !.todo = <<key>>, !.found = {key}]
  <2>1. Refuse(q) \/ Becomes(q, t) BY <1>16 DEF Reread
  <2> HIDE DEF key
  <2>2. t.answer = "none" BY <1>1, <1>2
  <2> QED BY <1>3, <1>5, <2>1, <2>2
<1>17. CASE LockSeat(q) BY <1>3, <1>5, <1>14, <1>17 DEF LockSeat
<1>18. CASE DeleteSeat(q) BY <1>3, <1>13, <1>14, <1>18 DEF DeleteSeat
<1>19. CASE TakeLink(q)
  <2> DEFINE row == Head(tx[q].todo).key
             linkIn == Taken(q).linkIn \cup {row}
             linkOut == Taken(q).linkOut \cup {row}
  <2>1. \/ Becomes(q, Skipped(q)) \/ Becomes(q, [Taken(q) EXCEPT !.linkIn = linkIn])
        \/ Becomes(q, [Taken(q) EXCEPT !.linkOut = linkOut])
    BY <1>19 DEF TakeLink
  <2> HIDE DEF linkIn, linkOut
  <2> QED BY <1>3, <1>13, <1>14, <2>1
<1>20. CASE Rollback(q) BY <1>3, <1>4, <1>20 DEF Rollback
<1> QED BY <1>7, <1>8, <1>9, <1>10, <1>11, <1>15, <1>16, <1>17, <1>18, <1>19, <1>20

\* Done is what only the transaction's own commit says.
LEMMA DoneByCommit ==
  ASSUME TxInv, [TxNext]_txVars, NEW q \in Processes, tx[q].pc # "idle",
         tx'[q].answer = "done"
  PROVE  Commit(q)
<1>1. tx[q].answer = "none" BY Running
<1>2. ASSUME tx'[q] = tx[q] PROVE FALSE BY <1>1, <1>2
<1>3. ASSUME NEW r \in Processes, Commit(r), r # q PROVE FALSE
  <2>1. tx'[q] = Told(tx[q], r) BY <1>3 DEF Commit, Told
  <2> QED BY <1>1, <2>1, ToldParts DEF TxInv
<1>4. ASSUME NEW r \in Processes, Step(r) \/ Rollback(r), ~Commit(r), r # q PROVE FALSE
  <2>1. \E t : tx' = [tx EXCEPT ![r] = t] BY <1>4, StepsAlone DEF Step
  <2>2. tx'[q] = tx[q] BY <1>4, <2>1 DEF TxInv
  <2> QED BY <2>2, <1>2
<1>5. ASSUME Step(q) \/ Rollback(q), ~Commit(q) PROVE FALSE BY <1>5, NotDoneYet DEF Step
<1>6. ASSUME NEW r \in Processes, NEW c \in Requests, Begin(r, c) PROVE FALSE
  <2>1. r # q BY <1>6 DEF Begin
  <2>2. tx'[q] = tx[q]
    <3>1. PICK t : tx' = [tx EXCEPT ![r] = t] BY <1>6 DEF Begin
    <3> QED BY <2>1, <3>1 DEF TxInv
  <2> QED BY <2>2, <1>2
<1>7. CASE ChangeWorkspace BY <1>2, <1>7 DEF ChangeWorkspace
<1>8. CASE UNCHANGED txVars BY <1>2, <1>8 DEF txVars
<1> QED BY <1>3, <1>4, <1>5, <1>6, <1>7, <1>8 DEF TxNext, Finished

\* Each commit is the one command its client sent, whose discovery, lifecycle, mode
\* and authority hold as it commits; nothing else but the Workspace changes the tables.
THEOREM CommandsAreAtomic == TxSpec => ImplementsProjects
<1> DEFINE Commands == \E q \in Processes :
             tx[q].pc = "rows" /\ tx'[q].answer = "done" /\ Commanded(q)
<1>1. ASSUME TxInv, [TxNext]_txVars PROVE Commands \/ Govern \/ UNCHANGED vars
  <2>1. ASSUME NEW q \in Processes, Commit(q) PROVE Commands \/ UNCHANGED vars
    <3>1. tx[q].pc = "rows" BY <2>1 DEF Commit
    <3>2. tx'[q].answer = "done" BY <2>1 DEF Commit, Idle
    <3> QED BY <1>1, <2>1, <3>1, <3>2, CommitCommands
  <2>2. ASSUME UNCHANGED tables PROVE UNCHANGED vars BY <2>2 DEF tables, vars
  <2>3. ASSUME NEW q \in Processes, Step(q) \/ Rollback(q), ~Commit(q) PROVE UNCHANGED tables
    BY <2>3, StepsAlone DEF Step
  <2>4. ASSUME NEW q \in Processes, NEW c \in Requests, Begin(q, c) PROVE UNCHANGED tables
    BY <2>4 DEF Begin
  <2>5. CASE ChangeWorkspace BY <2>5 DEF ChangeWorkspace
  <2>6. CASE UNCHANGED txVars BY <2>6 DEF txVars, vars
  <2> QED BY <1>1, <2>1, <2>2, <2>3, <2>4, <2>5, <2>6 DEF TxNext, Finished
<1>2. TxInv /\ [TxNext]_txVars => [
        \/ \E q \in Processes : tx[q].pc = "rows" /\ tx'[q].answer = "done" /\ Commanded(q)
        \/ Govern]_vars
  BY <1>1
<1>3. TxInit => Init BY DEF TxInit
<1> QED BY <1>2, <1>3, TransactionsSound, PTL DEF TxSpec, ImplementsProjects

\* Working sets stand while they are read-only, only curation moves a managed
\* Project, and whoever is told of a successful join or addition is seated.
THEOREM SeatingHolds == TxSpec => SeatingStands
<1> DEFINE Seated == \A q \in Processes :
             tx[q].cmd.op \in {"join", "add"} /\ tx'[q].answer = "done" => SeatOf(q) \in seat'
<1>1. ASSUME TxInv, [TxNext]_txVars PROVE Seated
  <2> SUFFICES ASSUME NEW q \in Processes, tx[q].cmd.op \in {"join", "add"}, tx'[q].answer = "done"
               PROVE  SeatOf(q) \in seat'
    OBVIOUS
  <2>1. tx[q].pc # "idle" BY <1>1 DEF TxInv, Stands, Phase, NoCommand
  <2>2. Commit(q) BY <1>1, <2>1, DoneByCommit
  <2>3. tx[q].pc = "rows" /\ tx[q].todo = <<>> /\ seat' = (seat \ tx[q].out) \cup tx[q].in
    BY <1>1, <2>2, WriteParts
  <2>4. SeatOf(q) = SeatRow(tx[q]) BY DEF SeatOf, Subject, SeatRow, Person
  <2>5. SeatWork(tx[q]) /\ tx[q].cmd.op \in SeatOps BY <1>1, <2>3, Ready DEF SeatOps
  <2>6. /\ tx[q].out = {}
        /\ tx[q].in = {SeatRow(tx[q])} \/ SeatRow(tx[q]) \in seat
    BY <2>3, <2>5 DEF SeatWork
  <2> QED BY <2>3, <2>4, <2>6
<1>2. TxInv /\ [TxNext]_txVars => [\A p \in ProjectIds :
        /\ Exists(p) /\ Exists(p)'
        /\ \/ project[p].state = "archived" /\ project[p]'.state = "archived"
           \/ space # "active"
        => /\ {l \in link : l[1] = p}' = {l \in link : l[1] = p}
           /\ SeatsOf(p)' = {s \in SeatsOf(p) : Current(s[2])'}
           /\ project[p]' = project[p]]_vars
  BY TxNextKeeps DEF ReadOnlyStep
<1>3. TxInv /\ [TxNext]_txVars => [\A p \in ProjectIds :
        /\ Exists(p) /\ project[p].mode = "managed"
        /\ Exists(p)' /\ (project[p]'.mode # "managed" \/ ~(SeatsOf(p)' \subseteq SeatsOf(p)))
        => \E m \in MemberIds : May(m, "project_participation.manage", "managed")]_vars
  BY TxNextKeeps DEF CurationStep
<1>4. TxInv /\ [TxNext]_txVars => [\A q \in Processes :
        tx[q].cmd.op \in {"join", "add"} /\ tx'[q].answer = "done" => SeatOf(q) \in seat']_txVars
  BY <1>1
<1> QED BY <1>2, <1>3, <1>4, TransactionsSound, PTL
        DEF TxSpec, SeatingStands, ReadOnlyStands, CurationHasCurator, JoinersAreSeated

-------------------------------------------------------------------------------
(* No cycle of lock waits.                                                   *)

\* A command that waits and stops for its lock.
Stops(q) == Waiting(q) /\ Contends(q)
NextItem(q) == Head(tx[q].todo).key[2]

\* What a waiting transaction holds: nothing, its Project, or links before the
\* one it waits for.
LEMMA WaitersHold ==
  ASSUME TxInv, NEW r \in Processes, Waiting(r)
  PROVE  /\ \A h \in tx[r].held : h = ProjectLock(tx[r].cmd) \/ h.on = "link"
         /\ tx[r].pc = "project" => tx[r].held = {}
         /\ tx[r].held # {} => tx[r].pc \in {"rows", "reread"} /\ tx[r].cmd.op \in SeatOps \cup LinkOps
         /\ \A h \in tx[r].held : h.on = "link" => tx[r].pc = "rows" /\ tx[r].cmd.op \in LinkOps
<1>1. tx[r].todo # <<>> BY DEF Waiting
<1>2. Stands(tx[r]) /\ tx[r] \in TxRows BY DEF TxInv
<1>3. tx[r].pc \in {"project", "rows", "reread"} BY <1>1, <1>2 DEF Stands, Phase, TxRows
<1>4. tx[r].pc # "idle" /\ tx[r].cmd.op \in AllOps BY <1>3, Running
<1>p. ProjectLock(tx[r].cmd).on = "project" BY DEF ProjectLock, Lock
<1>l. \A p, i : LinkKey(p, i).on = "link" BY DEF LinkKey, Lock
<1>5. CASE tx[r].pc = "project" BY <1>2, <1>5 DEF Stands, Phase
<1>6. CASE tx[r].pc = "reread" BY <1>2, <1>6, <1>p DEF Stands, Phase, SeatOps
<1>7. CASE tx[r].pc = "rows" /\ tx[r].cmd.op \in SeatOps
  <2>1. tx[r].held = {ProjectLock(tx[r].cmd)} BY <1>7, SeatPlan
  <2> QED BY <1>7, <1>p, <2>1
<1>8. CASE tx[r].pc = "rows" /\ tx[r].cmd.op \in LinkOps
  <2>1. tx[r].held = {ProjectLock(tx[r].cmd)} \cup {LinkKey(l[1], l[2]) : l \in Linked(tx[r])}
    BY <1>2, <1>8 DEF Stands, LinkWork
  <2> QED BY <1>8, <1>p, <1>l, <2>1
<1>9. CASE tx[r].pc = "rows" /\ tx[r].cmd.op \in RootOps \cup {"create"}
  BY <1>1, <1>2, <1>9 DEF Stands, RootWork
<1> QED BY <1>3, <1>4, <1>5, <1>6, <1>7, <1>8, <1>9 DEF AllOps

\* What a transaction waits for.
LEMMA WaitersWant ==
  ASSUME TxInv, NEW r \in Processes, Waiting(r)
  PROVE  \/ tx[r].pc = "project" /\ Head(tx[r].todo) = ProjectLock(tx[r].cmd)
         \/ tx[r].pc \in {"rows", "reread"} /\ Head(tx[r].todo).on = "seat"
         \/ /\ tx[r].pc = "rows" /\ tx[r].cmd.op \in LinkOps /\ Head(tx[r].todo).on = "link"
            /\ NextItem(r) \in Items /\ Head(tx[r].todo) = LinkKey(tx[r].cmd.project, NextItem(r))
            /\ \A l \in Linked(tx[r]) : OrderOf(tx[r])[l[2]] < OrderOf(tx[r])[NextItem(r)]
<1>1. tx[r].todo # <<>> BY DEF Waiting
<1>2. Stands(tx[r]) /\ tx[r] \in TxRows BY DEF TxInv
<1>3. tx[r].pc \in {"project", "rows", "reread"} BY <1>1, <1>2 DEF Stands, Phase, TxRows
<1>4. tx[r].pc # "idle" /\ tx[r].cmd.op \in AllOps /\ tx[r].cmd \in Requests BY <1>3, Running
<1>s. SeatLock(tx[r]).on = "seat" BY DEF SeatLock, SeatKey, Lock
<1>5. CASE tx[r].pc = "project" BY <1>2, <1>5 DEF Stands, Phase
<1>6. CASE tx[r].pc = "reread"
  <2>1. tx[r].todo \in {<<>>, <<SeatLock(tx[r])>>} BY <1>2, <1>6 DEF Stands, Phase
  <2> QED BY <1>1, <1>6, <1>s, <2>1
<1>7. CASE tx[r].pc = "rows" /\ tx[r].cmd.op \in SeatOps
  <2>1. Head(tx[r].todo) = SeatLock(tx[r]) BY <1>7, SeatPlan
  <2> QED BY <1>7, <1>s, <2>1
<1>8. CASE tx[r].pc = "rows" /\ tx[r].cmd.op \in LinkOps
  <2>1. /\ \A n \in DOMAIN tx[r].todo : \E i \in Seqs!Range(tx[r].cmd.items) :
             tx[r].todo[n] = LinkKey(tx[r].cmd.project, i)
        /\ \A l \in Linked(tx[r]), n \in DOMAIN tx[r].todo :
             OrderOf(tx[r])[l[2]] < OrderOf(tx[r])[tx[r].todo[n].key[2]]
    BY <1>2, <1>8 DEF Stands, LinkPlan
  <2>2. 1 \in DOMAIN tx[r].todo /\ Head(tx[r].todo) = tx[r].todo[1]
    <3>1. tx[r].todo \in Seq(Locks) BY <1>2 DEF TxRows
    <3> QED BY <1>1, <3>1, HeadAndTail
  <2>3. PICK i \in Seqs!Range(tx[r].cmd.items) : Head(tx[r].todo) = LinkKey(tx[r].cmd.project, i)
    BY <2>1, <2>2
  <2>4. i \in Items BY <1>4, <1>8, RequestParts, RangeIsFinite
  <2>5. NextItem(r) = i /\ Head(tx[r].todo).on = "link" BY <2>3 DEF NextItem, LinkKey, Lock
  <2>6. \A l \in Linked(tx[r]) : OrderOf(tx[r])[l[2]] < OrderOf(tx[r])[NextItem(r)]
    BY <2>1, <2>2 DEF NextItem
  <2> QED BY <1>8, <2>3, <2>4, <2>5, <2>6
<1>9. CASE tx[r].pc = "rows" /\ tx[r].cmd.op \in RootOps \cup {"create"}
  BY <1>1, <1>2, <1>9 DEF Stands, RootWork
<1> QED BY <1>3, <1>4, <1>5, <1>6, <1>7, <1>8, <1>9 DEF AllOps

\* A bulk command is only stopped by one of its own kind that waits further on.
LEMMA LinkWaits ==
  ASSUME TxInv, NEW q \in Processes, NEW r \in Processes, BlockedBy(q, r), Stops(r),
         Head(tx[q].todo).on = "link"
  PROVE  /\ Head(tx[r].todo).on = "link" /\ tx[r].cmd.op = tx[q].cmd.op
         /\ tx[q].cmd.op \in LinkOps /\ NextItem(q) \in Items /\ NextItem(r) \in Items
         /\ OrderOf(tx[q])[NextItem(q)] < OrderOf(tx[q])[NextItem(r)]
<1>1. Waiting(q) /\ Contends(q) /\ Waiting(r) BY DEF BlockedBy, Stops
<1>2. PICK h \in tx[r].held : Blocks(h, Head(tx[q].todo)) BY DEF BlockedBy
<1>3. h.on = "link" /\ h.key = Head(tx[q].todo).key BY <1>2 DEF Blocks
<1>4. /\ tx[q].pc = "rows" /\ tx[q].cmd.op \in LinkOps /\ NextItem(q) \in Items
      /\ Head(tx[q].todo) = LinkKey(tx[q].cmd.project, NextItem(q))
  <2>1. Head(tx[q].todo) # ProjectLock(tx[q].cmd) BY DEF ProjectLock, Lock
  <2> QED BY <1>1, <2>1, WaitersWant
<1>5. tx[r].pc = "rows" /\ tx[r].cmd.op \in LinkOps BY <1>1, <1>3, WaitersHold
<1>6. /\ Head(tx[r].todo).on = "link" /\ NextItem(r) \in Items
      /\ \A l \in Linked(tx[r]) : OrderOf(tx[r])[l[2]] < OrderOf(tx[r])[NextItem(r)]
  <2>1. Head(tx[r].todo).on # "seat"
    <3>1. PICK i \in Seqs!Range(tx[r].cmd.items) : Head(tx[r].todo) = LinkKey(tx[r].cmd.project, i)
      <4>1. tx[r].todo \in Seq(Locks) /\ tx[r].todo # <<>> BY <1>1 DEF TxInv, TxRows, Waiting
      <4>2. 1 \in DOMAIN tx[r].todo /\ Head(tx[r].todo) = tx[r].todo[1] BY <4>1, HeadAndTail
      <4> QED BY <1>5, <4>2 DEF TxInv, Stands, LinkPlan
    <3> QED BY <3>1 DEF LinkKey, Lock
  <2> QED BY <1>1, <1>5, <2>1, WaitersWant
<1>7. LinkWork(tx[r]) BY <1>5, Ready
<1>8. PICK l \in Linked(tx[r]) : h = LinkKey(l[1], l[2])
  <2>1. ProjectLock(tx[r].cmd).on = "project" BY DEF ProjectLock, Lock
  <2> QED BY <1>3, <1>5, <1>7, <2>1 DEF LinkWork
<1>9. l = <<tx[q].cmd.project, NextItem(q)>> /\ l[2] = NextItem(q)
  <2>1. <<l[1], l[2]>> = <<tx[q].cmd.project, NextItem(q)>>
    BY <1>3, <1>4, <1>8 DEF LinkKey, Lock
  <2>2. l = <<l[1], l[2]>> BY <1>5, <1>7 DEF LinkWork, LinksTo
  <2> QED BY <2>1, <2>2
<1>10. tx[r].cmd.op = tx[q].cmd.op
  <2>1. CASE tx[q].cmd.op = "attach"
    <3>1. l \notin link BY <1>1, <1>4, <1>9, <2>1 DEF Contends, Inserts, LinkKey, Lock
    <3>2. tx[r].cmd.op # "detach" BY <1>5, <1>7, <3>1 DEF LinkWork, Linked
    <3> QED BY <1>5, <2>1, <3>2 DEF LinkOps
  <2>2. CASE tx[q].cmd.op = "detach"
    <3>1. Head(tx[q].todo) \in tx[q].found BY <1>1, <2>2 DEF Contends, Inserts
    <3>2. tx[q].cmd.project \in ProjectIds /\ LinkFound(tx[q])
      BY <1>4, Ready DEF Stands
    <3>3. l \in link BY <1>4, <1>9, <2>2, <3>1, <3>2 DEF LinkFound
    <3>4. tx[r].cmd.op # "attach" BY <1>5, <1>7, <3>3 DEF LinkWork, Linked
    <3> QED BY <1>5, <2>2, <3>4 DEF LinkOps
  <2> QED BY <1>4, <2>1, <2>2 DEF LinkOps
<1>11. OrderOf(tx[q]) = OrderOf(tx[r]) BY <1>10 DEF OrderOf
<1> QED BY <1>4, <1>6, <1>9, <1>10, <1>11

\* Processes that wait for each other's links in a circle: there is a last one.
LEMMA LinksInOrder ==
  ASSUME TxInv, NEW S \in SUBSET Processes, S # {}, NEW op \in LinkOps,
         \A q \in S : Stops(q) /\ Head(tx[q].todo).on = "link" /\ tx[q].cmd.op = op,
         \A q \in S : \E r \in S : BlockedBy(q, r)
  PROVE  FALSE
<1> DEFINE order == IF op = "attach" THEN [i \in Items |-> i] ELSE LinkRank
           rank == [q \in S |-> order[NextItem(q)]]
<1>1. \A i \in Items : order[i] \in Int BY ItemsAssumption, RankAssumption
<1>2. \A q \in S : OrderOf(tx[q]) = order BY DEF OrderOf
<1> HIDE DEF order
<1>3. \A q \in S : NextItem(q) \in Items
  <2> SUFFICES ASSUME NEW q \in S PROVE NextItem(q) \in Items OBVIOUS
  <2>1. PICK r \in S : BlockedBy(q, r) OBVIOUS
  <2> QED BY <2>1, LinkWaits
<1>4. \A q \in S : rank[q] \in Int BY <1>1, <1>3
<1>5. IsFiniteSet(S) BY ProcessesAssumption, FS_Subset
<1>6. PICK q \in S : \A r \in S : rank[r] <= rank[q]
  <2> HIDE DEF rank
  <2> QED BY <1>4, <1>5, HighestExists
<1>7. PICK r \in S : BlockedBy(q, r) OBVIOUS
<1>8. order[NextItem(q)] < order[NextItem(r)] BY <1>2, <1>7, LinkWaits
<1>9. rank[q] < rank[r] BY <1>8
<1> QED BY <1>4, <1>6, <1>9

\* Project before associations, each in one order: bulk commands on the same Items in
\* opposite orders, and any mix with the others, never deadlock one another
\* (sorted ids in add_items_to_project, ORDER BY project_items.id FOR UPDATE in the
\* bulk removal).
THEOREM NoDeadlock == TxSpec => []NoLockCycle
<1>1. TxInv => NoLockCycle
  <2> SUFFICES ASSUME TxInv, NEW S \in SUBSET Processes, S # {},
                      \A q \in S : \E r \in S : BlockedBy(q, r)
               PROVE  FALSE
    BY DEF NoLockCycle
  <2>1. \A q \in S : Stops(q) BY DEF BlockedBy, Stops
  <2>2. \A q \in S : Head(tx[q].todo).on # "seat"
    <3> SUFFICES ASSUME NEW q \in S, Head(tx[q].todo).on = "seat" PROVE FALSE OBVIOUS
    <3>1. PICK r \in S : BlockedBy(q, r) OBVIOUS
    <3>2. PICK h \in tx[r].held : h.on = "seat" BY <3>1 DEF BlockedBy, Blocks
    <3>3. h = ProjectLock(tx[r].cmd) \/ h.on = "link" BY <2>1, WaitersHold DEF Stops
    <3> QED BY <3>2, <3>3 DEF ProjectLock, Lock
  <2>3. \E q \in S : Head(tx[q].todo).on = "link"
    <3> SUFFICES ASSUME \A q \in S : Head(tx[q].todo).on # "link" PROVE FALSE OBVIOUS
    <3>1. \A q \in S : tx[q].held = {} BY <2>1, <2>2, WaitersWant, WaitersHold DEF Stops
    <3>2. PICK q \in S : TRUE OBVIOUS
    <3>3. PICK r \in S : BlockedBy(q, r) OBVIOUS
    <3> QED BY <3>1, <3>3 DEF BlockedBy
  <2>4. PICK first \in S : Head(tx[first].todo).on = "link" BY <2>3
  <2> DEFINE op == tx[first].cmd.op
             Same == {q \in S : Head(tx[q].todo).on = "link" /\ tx[q].cmd.op = op}
  <2>5. ASSUME NEW q \in Same PROVE op \in LinkOps /\ \E r \in Same : BlockedBy(q, r)
    <3>1. PICK r \in S : BlockedBy(q, r) OBVIOUS
    <3>2. /\ Head(tx[r].todo).on = "link" /\ tx[r].cmd.op = tx[q].cmd.op
          /\ tx[q].cmd.op \in LinkOps
      BY <2>1, <3>1, LinkWaits
    <3> QED BY <3>1, <3>2
  <2>6. first \in Same /\ Same \in SUBSET Processes /\ Same # {} BY <2>4
  <2>7. op \in LinkOps BY <2>5, <2>6
  <2>8. \A q \in Same : Stops(q) /\ Head(tx[q].todo).on = "link" /\ tx[q].cmd.op = op BY <2>1
  <2> HIDE DEF Same, op
  <2> QED BY <2>5, <2>6, <2>7, <2>8, LinksInOrder
<1> QED BY <1>1, TransactionsSound, PTL

-------------------------------------------------------------------------------
(* The pages of Offers.  What they offer comes from the policy: the lemmas say *)
(* which of its grants come together.                                          *)

LEMMA GrantParts ==
  \A a, l, r, actions, lifecycles, relations :
    <<a, l, r>> \in Grant(actions, lifecycles, relations)
      <=> a \in actions /\ l \in lifecycles /\ r \in relations
BY DEF Grant

LEMMA Given ==
  ASSUME NEW role \in Roles, NEW base \in Roles, Inherits(role, base),
         NEW a, NEW l, NEW r, <<a, l, r>> \in Grants[base]
  PROVE  Allowed(role, a, l, r)
BY DEF Allowed

\* What every role may do.
LEMMA EverybodyReads ==
  ASSUME NEW role \in Roles, NEW l \in Lifecycles
  PROVE  /\ Allowed(role, "workspace.read", l, "any")
         /\ Allowed(role, "project_annotation.read", l, "own")
         /\ Allowed(role, "project_annotation.read", l, "other")
<1>1. Inherits(role, "viewer") /\ "viewer" \in Roles BY DEF Inherits, Rank, Roles
<1>2. /\ <<"workspace.read", l, "any">> \in ViewerGrants
      /\ <<"project_annotation.read", l, "own">> \in ViewerGrants
      /\ <<"project_annotation.read", l, "other">> \in ViewerGrants
  BY GrantParts DEF ViewerGrants, Readable
<1> QED BY <1>1, <1>2, Given DEF Grants

\* Admins and owners.
Governing(role) == role \in {"admin", "owner"}
Reviewing(role) == role \in {"reviewer", "editor", "admin", "owner"}

\* From which role on, and in which lifecycles, something is granted.
LEMMA AdminsOnly ==
  ASSUME NEW role \in Roles, NEW l, NEW a, NEW r, Allowed(role, a, l, r),
         \/ a = "project.create" /\ r = "managed"
         \/ a = "project_participation.manage"
         \/ /\ r = "other"
            /\ a \in {"project_annotation.hide", "project_annotation.archive",
                      "project_annotation.restore", "project_annotation.lock",
                      "project_annotation.unlock", "project_annotation.delete",
                      "project_discussion.delete"}
  PROVE  Governing(role) /\ l = "active"
<1>1. PICK base \in Roles : Inherits(role, base) /\ <<a, l, r>> \in Grants[base] BY DEF Allowed
<1>2. <<a, l, r>> \notin ViewerGrants BY GrantParts DEF ViewerGrants
<1>3. <<a, l, r>> \notin ReviewerGrants BY GrantParts DEF ReviewerGrants
<1>4. <<a, l, r>> \notin EditorGrants BY GrantParts DEF EditorGrants
<1>5. <<a, l, r>> \notin OwnerGrants BY GrantParts DEF OwnerGrants
<1>6. base = "admin" BY <1>1, <1>2, <1>3, <1>4, <1>5 DEF Grants, Roles
<1>7. l = "active" BY <1>1, <1>6, GrantParts DEF Grants, AdminGrants
<1> QED BY <1>1, <1>6, <1>7 DEF Governing, Inherits, Rank, Roles

LEMMA GoverningSees ==
  ASSUME NEW role \in Roles, NEW l \in Lifecycles, Governing(role)
  PROVE  /\ Allowed(role, "project_governance.read", l, "any")
         /\ Allowed(role, "project_annotation.review", l, "any")
<1>1. Inherits(role, "admin") /\ "admin" \in Roles BY DEF Inherits, Rank, Roles, Governing
<1>2. /\ <<"project_governance.read", l, "any">> \in AdminGrants
      /\ <<"project_annotation.review", l, "any">> \in AdminGrants
  BY GrantParts DEF AdminGrants, Readable
<1> QED BY <1>1, <1>2, Given DEF Grants

LEMMA ReviewersOnly ==
  ASSUME NEW role \in Roles, NEW l, NEW a, NEW r, Allowed(role, a, l, r),
         \/ a = "project_annotation.delete" /\ r = "own"
         \/ a = "project_annotation_reply.update"
  PROVE  Reviewing(role) /\ l = "active" /\ r = "own"
<1>1. PICK base \in Roles : Inherits(role, base) /\ <<a, l, r>> \in Grants[base] BY DEF Allowed
<1>2. <<a, l, r>> \notin ViewerGrants BY GrantParts DEF ViewerGrants
<1>3. <<a, l, r>> \notin AdminGrants BY GrantParts DEF AdminGrants
<1>4. <<a, l, r>> \notin EditorGrants BY GrantParts DEF EditorGrants
<1>5. <<a, l, r>> \notin OwnerGrants BY GrantParts DEF OwnerGrants
<1>6. base = "reviewer" BY <1>1, <1>2, <1>3, <1>4, <1>5 DEF Grants, Roles
<1>7. l = "active" /\ r = "own" BY <1>1, <1>6, GrantParts DEF Grants, ReviewerGrants
<1> QED BY <1>1, <1>6, <1>7 DEF Reviewing, Inherits, Rank, Roles

LEMMA ReviewingWrites ==
  ASSUME NEW role \in Roles, Reviewing(role)
  PROVE  /\ Allowed(role, "project_annotation.update", "active", "own")
         /\ Allowed(role, "project_discussion.delete", "active", "own")
         /\ Allowed(role, "project_annotation_reply.create", "active", "own")
         /\ Allowed(role, "project_annotation_reply.create", "active", "other")
<1>1. Inherits(role, "reviewer") /\ "reviewer" \in Roles
  BY DEF Inherits, Rank, Roles, Reviewing
<1>2. /\ <<"project_annotation.update", "active", "own">> \in ReviewerGrants
      /\ <<"project_discussion.delete", "active", "own">> \in ReviewerGrants
      /\ <<"project_annotation_reply.create", "active", "own">> \in ReviewerGrants
      /\ <<"project_annotation_reply.create", "active", "other">> \in ReviewerGrants
  BY GrantParts DEF ReviewerGrants
<1> QED BY <1>1, <1>2, Given DEF Grants

LEMMA OwnPrivately ==
  ASSUME NEW role \in Roles, NEW l, NEW r,
         \/ Allowed(role, "private_annotation.delete", l, r)
         \/ Allowed(role, "private_annotation_reply.update", l, r)
  PROVE  /\ r = "own"
         /\ Allowed(role, "private_annotation.update", l, "own")
         /\ Allowed(role, "private_annotation_reply.create", l, "own")
<1>1. PICK base \in Roles, a \in {"private_annotation.delete", "private_annotation_reply.update"} :
        <<a, l, r>> \in Grants[base]
  BY DEF Allowed
<1>2. <<a, l, r>> \notin ReviewerGrants BY GrantParts DEF ReviewerGrants
<1>3. <<a, l, r>> \notin AdminGrants BY GrantParts DEF AdminGrants
<1>4. <<a, l, r>> \notin EditorGrants BY GrantParts DEF EditorGrants
<1>5. <<a, l, r>> \notin OwnerGrants BY GrantParts DEF OwnerGrants
<1>6. base = "viewer" BY <1>1, <1>2, <1>3, <1>4, <1>5 DEF Grants, Roles
<1>7. l = "active" /\ r = "own" BY <1>1, <1>6, GrantParts DEF Grants, ViewerGrants
<1>8. Inherits(role, "viewer") /\ "viewer" \in Roles BY DEF Inherits, Rank, Roles
<1>9. /\ <<"private_annotation.update", l, "own">> \in ViewerGrants
      /\ <<"private_annotation_reply.create", l, "own">> \in ViewerGrants
  BY <1>7, GrantParts DEF ViewerGrants
<1> QED BY <1>7, <1>8, <1>9, Given DEF Grants

\* Memberships of one User follow each other: the earlier ones have ended.
GenerationsInOrder == \A m, x \in MemberIds :
  m[1] = x[1] /\ x[2] < m[2] /\ member[m].status # "unused" => member[x].status = "ended"
PagesInv == TablesOK /\ GenerationsInOrder

LEMMA OneCurrent ==
  ASSUME PagesInv, NEW m \in MemberIds, NEW x \in MemberIds, m[1] = x[1],
         Current(m), Current(x)
  PROVE  m = x
<1>1. m[2] \in Nat /\ x[2] \in Nat /\ m = <<m[1], m[2]>> /\ x = <<x[1], x[2]>>
  BY BoundsAssumption DEF MemberIds, Gens
<1>2. ~(x[2] < m[2]) /\ ~(m[2] < x[2]) BY DEF PagesInv, GenerationsInOrder, Current
<1>3. m[2] = x[2] BY <1>1, <1>2
<1> QED BY <1>1, <1>3

LEMMA ShowsAfter ==
  ASSUME NEW m, NEW p, NEW mode \in Participations, NEW row, NEW in, NEW out,
         row.state = "active", row.mode = mode,
         mode = "managed" => May(m, "project_governance.read", "any")
  PROVE  SeesAfter(m, p, Change(row, in, out, {}, {}))
BY DEF SeesAfter, Change, Shows, Participations

LEMMA ProjectPages == ASSUME PagesInv PROVE ProjectPagesAgree
<1> SUFFICES ASSUME NEW m \in MemberIds, NEW p \in ProjectIds, member[m].status = "active"
             PROVE  /\ project[p].state = "absent" => \A mode \in CreationChoices(m) :
                         SeesAfter(m, p, CreateChange(m, p, mode))
                    /\ Discovers(m, p) => ProjectPageAgrees(m, p)
  BY DEF ProjectPagesAgree, Discovers
<1>1. /\ member[m].role \in Roles /\ space \in Lifecycles
      /\ project[p] \in ProjectRows
  BY DEF PagesInv, TablesOK, TypeOK, MemberRows
<1>2. May(m, "workspace.read", "any") BY <1>1, EverybodyReads DEF May
<1>3. Governing(member[m].role) => May(m, "project_governance.read", "any")
  BY <1>1, GoverningSees DEF May
<1>4. project[p].state = "absent" => \A mode \in CreationChoices(m) :
        SeesAfter(m, p, CreateChange(m, p, mode))
  <2> SUFFICES ASSUME NEW mode \in CreationChoices(m)
               PROVE  SeesAfter(m, p, CreateChange(m, p, mode))
    OBVIOUS
  <2>1. mode \in Participations /\ May(m, "project.create", mode) BY DEF CreationChoices
  <2>2. mode = "managed" => May(m, "project_governance.read", "any")
    BY <1>1, <1>3, <2>1, AdminsOnly DEF May
  <2> QED BY <2>1, <2>2, ShowsAfter DEF CreateChange
<1> SUFFICES ASSUME Discovers(m, p) PROVE ProjectPageAgrees(m, p) BY <1>4
<1> DEFINE offers == ProjectDecisions(m, p)
<1>5. project[p].state \in {"active", "archived"} BY DEF Discovers, Shows
<1>6. p \in ListedProjects(m) BY <1>2 DEF ListedProjects
\* What each command's name among the offers stands for.
<1>7. /\ "project_participation.join" \in offers
           <=> ~Participates(m, p) /\ Open(p) /\ project[p].mode = "open"
               /\ May(m, "project_participation.join", "open")
      /\ "project_participation.leave" \in offers
           <=> Participates(m, p) /\ Open(p) /\ project[p].mode = "open"
               /\ May(m, "project_participation.leave", "open")
  BY DEF ProjectDecisions
<1>8. /\ "project.archive" \in offers <=> Open(p) /\ May(m, "project.archive", "any")
      /\ "project.restore" \in offers
           <=> project[p].state = "archived" /\ May(m, "project.restore", "any")
      /\ "project.delete" \in offers <=> May(m, "project.delete", "any")
      /\ "project_item.manage" \in offers <=> Open(p) /\ May(m, "project_item.manage", "any")
      /\ "project.update" \in offers <=> Open(p) /\ May(m, "project.update", "any")
      /\ "project_participation.manage" \in offers
           <=> Open(p) /\ project[p].mode = "managed"
               /\ May(m, "project_participation.manage", "managed")
      /\ "project_discussion.delete" \in offers
           <=> Open(p) /\ May(m, "project_discussion.delete", "other")
  BY DEF ProjectDecisions
<1>9. project[p].mode = "open" => (Participates(m, p) <=> <<p, m>> \in seat)
  BY DEF Participates
\* A selection of the caller's is one of this membership: no other is current.
<1>11. MayTake(p, m)
  <2> SUFFICES ASSUME NEW s \in UserSeats(p, m[1]) PROVE s = <<p, m>> BY DEF MayTake
  <2>1. s \in ProjectIds \X MemberIds /\ s[1] = p /\ s[2][1] = m[1] /\ Current(s[2])
    BY DEF UserSeats, PagesInv, TablesOK, TypeOK, SeatsAreCurrent
  <2>2. Current(m) BY DEF Current
  <2>3. s[2] = m BY <2>1, <2>2, OneCurrent
  <2> QED BY <2>1, <2>3
<1>12. "project_participation.join" \in offers
         <=> MayJoin(m, p) /\ MayTake(p, m) /\ <<p, m>> \notin seat
  BY <1>7, <1>9, <1>11 DEF MayJoin
<1>13. "project_participation.join" \in offers <=>
         p \in JoinableProjects(m) /\ May(m, "project_participation.join", "open")
  BY <1>6, <1>7 DEF JoinableProjects
<1>14. "project_participation.leave" \in offers <=> MayLeave(m, p) /\ <<p, m>> \in seat
  BY <1>7, <1>9 DEF MayLeave
<1>15. /\ "project.archive" \in offers <=> MaySetState(m, p, "archived") /\ Open(p)
       /\ "project.restore" \in offers <=> MaySetState(m, p, "active") /\ ~Open(p)
       /\ "project.delete" \in offers <=> MayDelete(m, p)
       /\ "project_item.manage" \in offers <=> MayLink(m, p)
       /\ MayLink(m, p) => p \in AssignableProjects(m)
       /\ "project.update" \in offers <=> MayUpdate(m, p, project[p].mode)
       /\ "project_participation.manage" \in offers <=> MayCurate(m, p)
  BY <1>5, <1>6, <1>8
     DEF MaySetState, Open, MayDelete, MayLink, AssignableProjects, MayUpdate, MayCurate
<1>16. ASSUME NEW mode \in ModeChoices(m, p) PROVE SeesAfter(m, p, UpdateChange(m, p, mode))
  <2>1. mode \in Participations /\ Open(p)
        /\ (mode # project[p].mode /\ "managed" \in {mode, project[p].mode} =>
              May(m, "project_participation.manage", "managed"))
    BY DEF ModeChoices, MayUpdate
  <2> DEFINE row == [project[p] EXCEPT !.mode = mode]
  <2>2. row.state = "active" /\ row.mode = mode BY <1>1, <2>1 DEF ProjectRows, Open
  <2>3. CASE mode # "managed" \/ mode # project[p].mode
    <3>1. mode = "managed" => May(m, "project_governance.read", "any")
      BY <1>1, <1>3, <2>1, <2>3, AdminsOnly DEF May
    <3> HIDE DEF row
    <3>2. \A in, out : SeesAfter(m, p, Change(row, in, out, {}, {}))
      BY <2>1, <2>2, <3>1, ShowsAfter
    <3> QED BY <3>2 DEF UpdateChange, row
  <2>4. CASE mode = "managed" /\ mode = project[p].mode
    <3> HIDE DEF row
    <3>1. UpdateChange(m, p, mode) = Change(row, {}, {}, {}, {}) BY <2>4 DEF UpdateChange, row
    <3>2. May(m, "project_governance.read", "any") \/ <<p, m>> \in seat
      BY <2>4 DEF Discovers, Shows
    <3> QED BY <2>2, <3>1, <3>2 DEF SeesAfter, Change, Shows
  <2> QED BY <2>3, <2>4
<1>17. MayCurate(m, p) => \A u \in ShownParticipants(p) : MayRemove(m, p, u)
  BY DEF ShownParticipants, MayRemove, UserSeats, SeatsOf
<1>18. ASSUME NEW u \in Users
       PROVE  /\ "project_discussion.delete" \in offers => MessageOffers(m, p, u) # {}
              /\ MessageOffers(m, p, u) # {} /\ u # m[1] =>
                   "project_discussion.delete" \in offers
  <2>1. MessageOffers(m, p, u) # {}
          <=> Open(p) /\ May(m, "project_discussion.delete", Relation(m, u))
    BY DEF MessageOffers
  <2>2. May(m, "project_discussion.delete", "other") => May(m, "project_discussion.delete", "own")
    BY <1>1, AdminsOnly, ReviewingWrites DEF May, Governing, Reviewing
  <2> QED BY <1>8, <2>1, <2>2 DEF Relation
<1> QED BY <1>6, <1>12, <1>13, <1>14, <1>15, <1>16, <1>17, <1>18 DEF ProjectPageAgrees

\* The policy's names.
LEMMA Names ==
  /\ Named("project_annotation")["read"] = "project_annotation.read"
  /\ Named("project_annotation")["update"] = "project_annotation.update"
  /\ Named("project_annotation")["delete"] = "project_annotation.delete"
  /\ Named("project_annotation")["restore"] = "project_annotation.restore"
  /\ Named("project_annotation")["hide"] = "project_annotation.hide"
  /\ Named("project_annotation")["archive"] = "project_annotation.archive"
  /\ Named("project_annotation")["lock"] = "project_annotation.lock"
  /\ Named("project_annotation")["unlock"] = "project_annotation.unlock"
  /\ Named("private_annotation")["read"] = "private_annotation.read"
  /\ Named("private_annotation")["update"] = "private_annotation.update"
  /\ Named("private_annotation")["delete"] = "private_annotation.delete"
  /\ Named("project_annotation_reply")["update"] = "project_annotation_reply.update"
  /\ Named("project_annotation_reply")["create"] = "project_annotation_reply.create"
  /\ Named("private_annotation_reply")["update"] = "private_annotation_reply.update"
  /\ Named("private_annotation_reply")["create"] = "private_annotation_reply.create"
BY DEF Named

LEMMA ModerationIsGoverning ==
  ASSUME NEW role \in Roles, NEW l, NEW action \in Moderations,
         Allowed(role, Named("project_annotation")[action], l, "other")
  PROVE  Governing(role)
BY Names, AdminsOnly DEF Moderations

LEMMA AnnotationPages == ASSUME PagesInv PROVE AnnotationPagesAgree
<1> SUFFICES ASSUME NEW m \in MemberIds, member[m].status = "active", NEW n \in AnnotationRows
             PROVE  AnnotationAgrees(m, n)
  BY DEF AnnotationPagesAgree
<1>1. member[m].role \in Roles /\ space \in Lifecycles
  BY DEF PagesInv, TablesOK, TypeOK, MemberRows
<1>2. /\ n.scope \in {"private", "project"} /\ n.veil \in SUBSET Veils
      /\ n.locked \in BOOLEAN /\ n.deleted \in BOOLEAN
  BY DEF AnnotationRows
<1>3. May(m, "workspace.read", "any") BY <1>1, EverybodyReads DEF May
<1>4. /\ n.scope = "project" => /\ Resource(n) = "project_annotation"
                                /\ ReplyResource(n) = "project_annotation_reply"
      /\ n.scope = "private" => /\ Resource(n) = "private_annotation"
                                /\ ReplyResource(n) = "private_annotation_reply"
  BY DEF Resource, ReplyResource
<1>5. Relation(m, n.author) = IF n.author = m[1] THEN "own" ELSE "other" BY DEF Relation
<1>6. n.scope = "project" => May(m, Named(Resource(n)).read, Relation(m, n.author))
  BY <1>1, <1>4, <1>5, Names, EverybodyReads DEF May
<1>7. Exported(m, n) <=> Reachable(m, n, FALSE)
  BY <1>2, <1>3 DEF Exported, Browsable, InScope, Reachable
<1>8. Browsable(m, n) <=> \/ Reachable(m, n, FALSE)
                          \/ /\ n.veil # {} /\ May(m, "project_annotation.review", "any")
                             /\ Reachable(m, [n EXCEPT !.veil = {}], FALSE)
  <2>1. PICK x : x = [n EXCEPT !.veil = {}] OBVIOUS
  <2>2. /\ x.scope = n.scope /\ x.author = n.author /\ x.project = n.project
        /\ x.item = n.item /\ x.deleted = n.deleted /\ x.veil = {}
    BY <2>1 DEF AnnotationRows
  <2>3. Reachable(m, x, FALSE) <=> ~n.deleted /\ InScope(m, n)
    BY <1>2, <1>3, <2>2 DEF Reachable, InScope, Bound, Resource
  <2>4. Reachable(m, n, FALSE) <=> ~n.deleted /\ InScope(m, n) /\ n.veil = {}
    BY <1>2, <1>3 DEF Reachable, InScope
  <2>5. Browsable(m, n) <=> \/ Reachable(m, n, FALSE)
                            \/ /\ n.veil # {} /\ May(m, "project_annotation.review", "any")
                               /\ Reachable(m, x, FALSE)
    BY <2>3, <2>4 DEF Browsable
  <2> QED BY <2>1, <2>5, Zenon
<1>9. \A action \in Moderations : MayModerate(m, n, action) => Browsable(m, n)
  <2> SUFFICES ASSUME NEW action \in Moderations, MayModerate(m, n, action)
               PROVE  Browsable(m, n)
    OBVIOUS
  <2>1. /\ ~n.deleted /\ n.scope = "project" /\ Bound(n) /\ Discovers(m, n.project)
        /\ May(m, Named("project_annotation")[action], "other")
    BY DEF MayModerate
  <2>2. Governing(member[m].role) BY <1>1, <2>1, ModerationIsGoverning DEF May
  <2>3. May(m, "project_annotation.review", "any") BY <1>1, <2>2, GoverningSees DEF May
  <2> QED BY <1>6, <2>1, <2>3 DEF Browsable, InScope
<1> SUFFICES ASSUME Browsable(m, n)
             PROVE  /\ \A action \in {"update", "delete"} :
                         action \in AuthorOffers(m, n) <=> MayAuthor(m, n, action)
                    /\ \A action \in Moderations :
                         action \in ModeratorOffers(m, n) <=>
                           /\ MayModerate(m, n, action) /\ Alters(n, action)
                           /\ action \in {"hide", "archive"} => n.veil = {}
                    /\ \A by \in Users : ReplyHint(m, n, by) <=> MayEditReply(m, n, by)
                    /\ MayEditReply(m, n, m[1]) => MayReply(m, n)
  BY <1>7, <1>8, <1>9 DEF AnnotationAgrees
<1>10. /\ ~n.deleted /\ May(m, Named(Resource(n)).read, Relation(m, n.author))
       /\ n.scope = "project" => Bound(n) /\ Discovers(m, n.project)
  BY DEF Browsable, InScope
<1>11. Reachable(m, n, FALSE) <=> n.veil = {} BY <1>2, <1>3, <1>10 DEF Reachable
<1>12. ASSUME NEW action \in {"update", "delete"}
       PROVE  action \in AuthorOffers(m, n) <=> MayAuthor(m, n, action)
  <2>1. action \in AuthorOffers(m, n)
          <=> EditableHint(m, n) /\ May(m, Named(Resource(n))[action], "own")
    BY DEF AuthorOffers
  \* What may be deleted may be updated.
  <2>2. May(m, Named(Resource(n))[action], "own") => May(m, Named(Resource(n)).update, "own")
    <3>1. CASE action = "update" BY <3>1
    <3>2. CASE action = "delete" /\ n.scope = "project"
      BY <1>1, <1>4, <3>2, Names, ReviewersOnly, ReviewingWrites DEF May
    <3>3. CASE action = "delete" /\ n.scope = "private"
      BY <1>1, <1>4, <3>3, Names, OwnPrivately DEF May
    <3> QED BY <1>2, <3>1, <3>2, <3>3
  <2>3. MayAuthor(m, n, action) <=>
          /\ n.veil = {} /\ ~n.locked /\ n.author = m[1]
          /\ May(m, Named(Resource(n))[action], "own")
          /\ n.scope = "project" => Open(n.project)
    BY <1>11 DEF MayAuthor
  <2> QED BY <1>10, <2>1, <2>2, <2>3 DEF EditableHint, ActiveAndVisible
<1>13. ASSUME NEW action \in Moderations
       PROVE  action \in ModeratorOffers(m, n) <=>
                /\ MayModerate(m, n, action) /\ Alters(n, action)
                /\ action \in {"hide", "archive"} => n.veil = {}
  <2> DEFINE candidates == (IF n.veil # {} THEN {"restore"} ELSE {"hide", "archive"})
                           \cup {IF n.locked THEN "unlock" ELSE "lock", "delete"}
  <2>1. action \in ModeratorOffers(m, n) <=> action \in candidates /\
          /\ n.scope = "project" /\ ~n.deleted /\ n.author # m[1]
          /\ Bound(n) /\ Open(n.project)
          /\ May(m, Named("project_annotation")[action], "other")
    BY DEF ModeratorOffers
  <2>2. action \in candidates <=>
          /\ Alters(n, action)
          /\ action \in {"hide", "archive"} => n.veil = {}
    BY <1>2 DEF Alters, Moderations
  <2>3. MayModerate(m, n, action) <=>
          /\ n.scope = "project" /\ ~n.deleted /\ n.author # m[1]
          /\ Bound(n) /\ Open(n.project)
          /\ May(m, Named("project_annotation")[action], "other")
    BY <1>3, <1>10 DEF MayModerate
  <2> HIDE DEF candidates
  <2> QED BY <2>1, <2>2, <2>3
<1>14. ASSUME NEW by \in Users PROVE ReplyHint(m, n, by) <=> MayEditReply(m, n, by)
  <2>1. Relation(m, by) \in {"own", "other"} BY DEF Relation
  \* Nobody edits the Reply of somebody else.
  <2>2. May(m, Named(ReplyResource(n)).update, Relation(m, by)) => Relation(m, by) = "own"
    <3>1. CASE n.scope = "project" BY <1>1, <1>4, <3>1, Names, ReviewersOnly DEF May
    <3>2. CASE n.scope = "private" BY <1>1, <1>4, <3>2, Names, OwnPrivately DEF May
    <3> QED BY <1>2, <3>1, <3>2
  <2>3. MayEditReply(m, n, by) <=>
          /\ n.veil = {} /\ ~n.locked
          /\ \A relation \in {"own", Relation(m, by)} :
               May(m, Named(ReplyResource(n)).update, relation)
          /\ IF n.scope = "project" THEN Open(n.project) ELSE n.author = m[1]
    BY <1>11 DEF MayEditReply
  <2> QED BY <1>10, <2>2, <2>3 DEF ReplyHint, ActiveAndVisible
<1>15. ASSUME MayEditReply(m, n, m[1]) PROVE MayReply(m, n)
  <2>1. /\ Reachable(m, n, FALSE) /\ ~n.locked
        /\ May(m, Named(ReplyResource(n)).update, "own")
        /\ IF n.scope = "project" THEN Open(n.project) ELSE n.author = m[1]
    BY <1>15 DEF MayEditReply
  <2>2. May(m, Named(ReplyResource(n)).create, Relation(m, n.author))
    <3>1. CASE n.scope = "project"
      BY <1>1, <1>4, <1>5, <2>1, <3>1, Names, ReviewersOnly, ReviewingWrites DEF May
    <3>2. CASE n.scope = "private"
      BY <1>1, <1>4, <1>5, <2>1, <3>2, Names, OwnPrivately DEF May
    <3> QED BY <1>2, <3>1, <3>2
  <2> QED BY <2>1, <2>2 DEF MayReply
<1> QED BY <1>12, <1>13, <1>14, <1>15

LEMMA PairIs == ASSUME NEW u \in Users, NEW g \in Gens
  PROVE <<u, g>> \in MemberIds /\ <<u, g>>[1] = u /\ <<u, g>>[2] = g
BY DEF MemberIds

LEMMA NextKeepsOrder == ASSUME PagesInv, Next PROVE GenerationsInOrder'
<1>0. /\ member \in [MemberIds -> MemberRows]
      /\ \A m \in MemberIds : m[1] \in Users /\ m[2] \in Gens /\ m = <<m[1], m[2]>>
  BY DEF PagesInv, TablesOK, TypeOK, MemberIds
<1>1. ASSUME member' = member PROVE GenerationsInOrder'
  BY <1>1 DEF PagesInv, GenerationsInOrder
<1>2. CASE Participate \/ Manage
  <2>1. member' = member
    BY <1>2 DEF Participate, Manage, Join, Leave, Add, Remove, Update, Create, SetState, Delete,
                Attach, Detach, Write
  <2> QED BY <1>1, <2>1
<1>3. ASSUME NEW u \in Users, NEW g \in Gens, NEW r \in AskRoles, Admit(u, g, r)
      PROVE  GenerationsInOrder'
  <2>1. /\ member[<<u, g>>].status = "unused"
        /\ \A h \in Gens : h < g => member[<<u, h>>].status = "ended"
        /\ \A m \in MemberIds : m # <<u, g>> => member'[m] = member[m]
    BY <1>0, <1>3 DEF Admit
  <2> SUFFICES ASSUME NEW m \in MemberIds, NEW x \in MemberIds, m[1] = x[1], x[2] < m[2],
                      member'[m].status # "unused"
               PROVE  member'[x].status = "ended"
    BY DEF GenerationsInOrder
  <2>2. m # x BY <1>0, BoundsAssumption DEF Gens
  <2>3. CASE m = <<u, g>> BY <1>0, <2>1, <2>2, <2>3
  <2>4. CASE x = <<u, g>>
    <3>1. member[m].status # "unused" BY <2>1, <2>2, <2>4
    <3>2. member[x].status = "ended" BY <3>1 DEF PagesInv, GenerationsInOrder
    <3> QED BY <2>1, <2>4, <3>2
  <2>5. CASE m # <<u, g>> /\ x # <<u, g>>
    BY <2>1, <2>5 DEF PagesInv, GenerationsInOrder
  <2> QED BY <2>3, <2>4, <2>5
\* A membership that changes or ends was not ended, and no later one is in use.
<1>4. ASSUME NEW y \in MemberIds, Current(y), \A m \in MemberIds : m # y => member'[m] = member[m]
      PROVE  GenerationsInOrder'
  <2> SUFFICES ASSUME NEW m \in MemberIds, NEW x \in MemberIds, m[1] = x[1], x[2] < m[2],
                      member'[m].status # "unused"
               PROVE  member'[x].status = "ended"
    BY DEF GenerationsInOrder
  <2>1. m # x BY <1>0, BoundsAssumption DEF Gens
  <2>2. member[m].status # "unused" BY <1>4 DEF Current
  <2>3. member[x].status = "ended" BY <2>2 DEF PagesInv, GenerationsInOrder
  <2>4. x # y BY <1>4, <2>3 DEF Current
  <2> QED BY <1>4, <2>3, <2>4
<1>5. CASE Govern
  <2>1. CASE \E u \in Users, g \in Gens, r \in AskRoles : Admit(u, g, r) BY <1>3, <2>1
  <2>2. ASSUME NEW y \in MemberIds, NEW r \in AskRoles, NEW s \in {"active", "suspended"},
               Revise(y, r, s)
        PROVE  GenerationsInOrder'
    BY <1>0, <1>4, <2>2 DEF Revise
  <2>3. ASSUME NEW y \in MemberIds, End(y) PROVE GenerationsInOrder'
    BY <1>0, <1>4, <2>3 DEF End
  <2>4. CASE \E s \in Lifecycles : MoveSpace(s) BY <1>1, <2>4 DEF MoveSpace
  <2> QED BY <1>5, <2>1, <2>2, <2>3, <2>4 DEF Govern
<1> QED BY <1>2, <1>5 DEF Next

LEMMA NextPages == PagesInv /\ [Next]_vars => PagesInv'
<1>1. ASSUME PagesInv, Next PROVE PagesInv'
  BY <1>1, NextKeepsOrder, NextIsProper DEF PagesInv, Proper
<1>2. ASSUME PagesInv, UNCHANGED vars PROVE PagesInv'
  BY <1>2 DEF vars, PagesInv, TablesOK, TypeOK, ImplicitIsEmpty, SeatsAreCurrent, SeatsOf,
              UserSeats, Exists, Current, GenerationsInOrder
<1> QED BY <1>1, <1>2

LEMMA InitPages == Init => PagesInv
<1> SUFFICES ASSUME Init PROVE GenerationsInOrder BY InitIsSound DEF PagesInv
<1> SUFFICES ASSUME NEW m \in MemberIds, NEW x \in MemberIds, x[2] < m[2],
                    member[m].status # "unused"
             PROVE  FALSE
  BY DEF GenerationsInOrder
<1>1. m[2] = 1 BY DEF Init
<1>2. x[2] \in 1..MaxGens BY DEF MemberIds, Gens
<1> QED BY <1>1, <1>2, BoundsAssumption

\* The pages of Projects and Annotations offer exactly what the commands behind
\* them accept, and show what can be opened (access/projections.py,
\* access/annotations.py).
THEOREM OffersAreTrue == Spec => []OffersStand
<1>1. PagesInv => OffersStand BY ProjectPages, AnnotationPages DEF OffersStand
<1> QED BY <1>1, InitPages, NextPages, PTL DEF Spec
===============================================================================
