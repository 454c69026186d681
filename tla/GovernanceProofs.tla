--------------------------- MODULE GovernanceProofs ---------------------------
(***************************************************************************)
(* Proofs about Governance, its pages and the policy, for any number of    *)
(* accounts, Workspaces, membership generations, invitations, Projects and *)
(* Items.                                                                  *)
(***************************************************************************)
EXTENDS Directory, AccessRequest, TLAPS

\* Row images that respect the types of their tables.
ImagesOf(rows, ids, type) ==
  DOMAIN rows \subseteq ids /\ \A x \in DOMAIN rows : rows[x] \in type
RowsOK(r) ==
  /\ ImagesOf(r.user, Users, UserRows)
  /\ ImagesOf(r.space, Workspaces, SpaceRows)
  /\ ImagesOf(r.member, MemberIds, MemberRows)
  /\ ImagesOf(r.invite, InviteIds, InviteRows)
  /\ ImagesOf(r.seat, MemberIds, BOOLEAN)

-------------------------------------------------------------------------------
(* Row sets. *)

LEMMA ChosenElement == ASSUME NEW S, S # {} PROVE (CHOOSE x \in S : TRUE) \in S
<1>1. PICK x \in S : TRUE OBVIOUS
<1> QED BY <1>1, Zenon

\* Writing images of the right type keeps a table well typed.
LEMMA PutType ==
  ASSUME NEW ids, NEW type, NEW table \in [ids -> type], NEW rows,
         ImagesOf(rows, ids, type)
  PROVE  Put(rows, table) \in [ids -> type]
BY DEF Put, ImagesOf

LEMMA NoRowsImages ==
  ASSUME NEW ids, NEW type PROVE ImagesOf(NoRows, ids, type)
BY DEF NoRows, ImagesOf

LEMMA RowImages ==
  ASSUME NEW ids, NEW type, NEW x \in ids, NEW image \in type
  PROVE  ImagesOf(Row(x, image), ids, type)
BY DEF Row, ImagesOf

LEMMA RevokedImages ==
  ASSUME TypeOK, NEW ids \in SUBSET InviteIds
  PROVE  ImagesOf(Revoked(ids), InviteIds, InviteRows)
<1> SUFFICES ASSUME NEW i \in ids
             PROVE  [invite[i] EXCEPT !.status = "revoked"] \in InviteRows
  BY DEF Revoked, ImagesOf
<1>1. invite[i] \in InviteRows BY DEF TypeOK
<1> QED BY <1>1 DEF InviteRows, InviteStatus

LEMMA WriteType ==
  ASSUME TypeOK, NEW r, RowsOK(r), Write(r) PROVE TypeOK'
<1>1. user' \in [Users -> UserRows] BY PutType DEF RowsOK, Write, TypeOK
<1>2. space' \in [Workspaces -> SpaceRows] BY PutType DEF RowsOK, Write, TypeOK
<1>3. member' \in [MemberIds -> MemberRows] BY PutType DEF RowsOK, Write, TypeOK
<1>4. invite' \in [InviteIds -> InviteRows] BY PutType DEF RowsOK, Write, TypeOK
<1>5. seat' \in [MemberIds -> BOOLEAN] BY PutType DEF RowsOK, Write, TypeOK
<1>6. lapsed' \in SUBSET InviteIds BY DEF Write, TypeOK
<1> QED BY <1>1, <1>2, <1>3, <1>4, <1>5, <1>6 DEF TypeOK

\* Rows of one table only.
LEMMA UserRowsOnly ==
  ASSUME NEW t, ImagesOf(t, Users, UserRows)
  PROVE  RowsOK(Rows(t, NoRows, NoRows, NoRows, NoRows))
BY NoRowsImages DEF Rows, RowsOK

LEMMA SpaceRowsOnly ==
  ASSUME NEW t, ImagesOf(t, Workspaces, SpaceRows)
  PROVE  RowsOK(Rows(NoRows, t, NoRows, NoRows, NoRows))
BY NoRowsImages DEF Rows, RowsOK

LEMMA MembershipRows ==
  ASSUME NEW t, ImagesOf(t, MemberIds, MemberRows),
         NEW i, ImagesOf(i, InviteIds, InviteRows),
         NEW s, ImagesOf(s, MemberIds, BOOLEAN)
  PROVE  RowsOK(Rows(NoRows, NoRows, t, i, s))
BY NoRowsImages DEF Rows, RowsOK

-------------------------------------------------------------------------------
(* Every command writes rows of the right types. *)

\* One row of workspace_members, possibly with revoked invitations and seats.
LEMMA MemberRowTypes ==
  ASSUME TypeOK, NEW m \in MemberIds
  PROVE  /\ \A r \in Roles : [member[m] EXCEPT !.role = r] \in MemberRows
         /\ \A s \in MemberStatus : [member[m] EXCEPT !.status = s] \in MemberRows
<1>1. member[m] \in MemberRows BY DEF TypeOK
<1> QED BY <1>1 DEF MemberRows

LEMMA PendingType == \A w \in Workspaces, u \in Users : PendingOf(w, u) \in SUBSET InviteIds
BY DEF PendingOf, InviteIds

LEMMA MemberIdParts == ASSUME NEW m \in MemberIds PROVE m[1] \in Workspaces /\ m[2] \in Users
BY DEF MemberIds

LEMMA OwnersType == \A w \in Workspaces : OwnersOf(w) \subseteq MemberIds
BY DEF OwnersOf, MemberIds

LEMMA MembersType == \A w \in Workspaces, u \in Users :
  /\ CurrentOf(w, u) \subseteq MemberIds
  /\ FreshMembers(w, u) \subseteq MemberIds
  /\ FreshInvites(w, u) \subseteq InviteIds
BY DEF CurrentOf, FreshMembers, FreshInvites, MemberIds, InviteIds

LEMMA HandOverImages ==
  ASSUME TypeOK, NEW m0 \in MemberIds, NEW m \in MemberIds
  PROVE  ImagesOf(HandOver(m0, m), MemberIds, MemberRows)
<1>1. [role |-> "owner", status |-> "active"] \in MemberRows
  BY DEF MemberRows, Roles, MemberStatus
<1>2. [member[m0] EXCEPT !.role = "admin"] \in MemberRows
  BY MemberRowTypes DEF Roles
<1> QED BY <1>1, <1>2 DEF HandOver, ImagesOf

LEMMA MemberCommandRows ==
  ASSUME TypeOK, NEW m \in MemberIds
  PROVE  /\ \A r \in Roles : RowsOK(SetRoleRows(m, r))
         /\ RowsOK(SuspendRows(m))
         /\ RowsOK(ReactivateRows(m))
         /\ RowsOK(EndRows(m))
         /\ OwnersOf(m[1]) # {} => RowsOK(TransferRows(m))
         /\ \A b \in BOOLEAN : RowsOK(SelectRows(m, b))
<1>1. ImagesOf(Revoked(PendingOf(m[1], m[2])), InviteIds, InviteRows)
  BY PendingType, RevokedImages, MemberIdParts
<1>2. \A r \in Roles : RowsOK(SetRoleRows(m, r))
  BY MemberRowTypes, MembershipRows, NoRowsImages, RowImages DEF SetRoleRows
<1>3. RowsOK(SuspendRows(m))
  <2>1. CASE member[m].status = "suspended"
    BY <2>1, UserRowsOnly, NoRowsImages DEF SuspendRows, NoChange
  <2>2. CASE member[m].status # "suspended"
    <3>1. ImagesOf(Row(m, [member[m] EXCEPT !.status = "suspended"]), MemberIds, MemberRows)
      BY MemberRowTypes, RowImages DEF MemberStatus
    <3> QED BY <2>2, <3>1, <1>1, MembershipRows, NoRowsImages DEF SuspendRows
  <2> QED BY <2>1, <2>2
<1>4. RowsOK(ReactivateRows(m))
  <2>1. ImagesOf(Row(m, [member[m] EXCEPT !.status = "active"]), MemberIds, MemberRows)
    BY MemberRowTypes, RowImages DEF MemberStatus
  <2> QED BY <2>1, MembershipRows, NoRowsImages DEF ReactivateRows
<1>5. RowsOK(EndRows(m))
  <2>1. ImagesOf(Row(m, [member[m] EXCEPT !.status = "ended"]), MemberIds, MemberRows)
    BY MemberRowTypes, RowImages DEF MemberStatus
  <2>2. ImagesOf(Row(m, FALSE), MemberIds, BOOLEAN) BY RowImages
  <2> QED BY <1>1, <2>1, <2>2, MembershipRows DEF EndRows
<1>6. OwnersOf(m[1]) # {} => RowsOK(TransferRows(m))
  <2> SUFFICES ASSUME OwnersOf(m[1]) # {} PROVE RowsOK(TransferRows(m)) OBVIOUS
  <2> DEFINE owner == CHOOSE o \in OwnersOf(m[1]) : TRUE
  <2>1. owner \in MemberIds BY ChosenElement, OwnersType, MemberIdParts
  <2> QED BY <2>1, HandOverImages, MembershipRows, NoRowsImages DEF TransferRows
<1>7. \A b \in BOOLEAN : RowsOK(SelectRows(m, b))
  BY RowImages, MembershipRows, NoRowsImages DEF SelectRows
<1> QED BY <1>2, <1>3, <1>4, <1>5, <1>6, <1>7

LEMMA ReassignRowTypes ==
  ASSUME TypeOK, NEW w \in Workspaces, NEW n \in Users,
         OwnersOf(w) # {}, CurrentOf(w, n) = {} => FreshMembers(w, n) # {}
  PROVE  RowsOK(ReassignRows(w, n))
<1> DEFINE candidates == IF CurrentOf(w, n) = {} THEN FreshMembers(w, n) ELSE CurrentOf(w, n)
           owner == CHOOSE o \in OwnersOf(w) : TRUE
           target == CHOOSE m \in candidates : TRUE
           invited == IF member[target].status = "active" THEN NoRows
                    ELSE Revoked(PendingOf(w, n))
<1>1. owner \in MemberIds BY ChosenElement, OwnersType
<1>2. target \in MemberIds
  <2>1. candidates # {} OBVIOUS
  <2>2. target \in candidates BY <2>1, ChosenElement
  <2> QED BY <2>2, MembersType
<1>3. ImagesOf(HandOver(owner, target), MemberIds, MemberRows) BY <1>1, <1>2, HandOverImages
<1>4. ImagesOf(invited, InviteIds, InviteRows) BY NoRowsImages, RevokedImages, PendingType
<1>5. RowsOK(Rows(NoRows, NoRows, HandOver(owner, target), invited, NoRows))
  BY <1>3, <1>4, MembershipRows, NoRowsImages
<1>6. RowsOK(NoChange) BY UserRowsOnly, NoRowsImages DEF NoChange
<1> QED BY <1>5, <1>6 DEF ReassignRows

LEMMA SpaceCommandRows ==
  ASSUME TypeOK, NEW w \in Workspaces
  PROVE  /\ \A b \in BOOLEAN : RowsOK(SetFrozenRows(w, b))
         /\ \A s \in SpaceStates : RowsOK(StateRows(w, s))
         /\ RowsOK(DeleteRows(w))
         /\ \A o \in Users : RowsOK(CreateRows(w, o))
<1>0. space[w] \in SpaceRows BY DEF TypeOK
<1>1. \A b \in BOOLEAN : RowsOK(SetFrozenRows(w, b))
  <2> TAKE b \in BOOLEAN
  <2>1. [space[w] EXCEPT !.frozen = b] \in SpaceRows BY <1>0 DEF SpaceRows
  <2> QED BY <2>1, RowImages, SpaceRowsOnly DEF SetFrozenRows
<1>2. ASSUME NEW s \in SpaceStates PROVE ImagesOf(Row(w, [space[w] EXCEPT !.state = s]), Workspaces, SpaceRows)
  <2>1. [space[w] EXCEPT !.state = s] \in SpaceRows BY <1>0 DEF SpaceRows
  <2> QED BY <2>1, RowImages
<1>3. \A s \in SpaceStates : RowsOK(StateRows(w, s))
  BY <1>2, SpaceRowsOnly DEF StateRows
<1>4. RowsOK(DeleteRows(w))
  <2> DEFINE own == {w} \X Users \X Gens
             invited == {w} \X Users \X Serials
             gone == [m \in {x \in own : member[x].status # "unused"} |->
                        [member[m] EXCEPT !.status = "gone"]]
             dropped == [i \in {x \in invited : invite[x].status # "unused"} |->
                           [invite[i] EXCEPT !.status = "gone"]]
             empty == [m \in own |-> FALSE]
  <2>1. own \subseteq MemberIds /\ invited \subseteq InviteIds BY DEF MemberIds, InviteIds
  <2>2. ImagesOf(gone, MemberIds, MemberRows)
    <3>1. "gone" \in MemberStatus BY DEF MemberStatus
    <3> QED BY <2>1, <3>1, MemberRowTypes DEF ImagesOf
  <2>3. ImagesOf(dropped, InviteIds, InviteRows)
    <3> SUFFICES ASSUME NEW i \in invited PROVE [invite[i] EXCEPT !.status = "gone"] \in InviteRows
      BY <2>1 DEF ImagesOf
    <3>1. invite[i] \in InviteRows BY <2>1 DEF TypeOK
    <3> QED BY <3>1 DEF InviteRows, InviteStatus
  <2>4. ImagesOf(empty, MemberIds, BOOLEAN) BY <2>1 DEF ImagesOf
  <2>5. ImagesOf(Row(w, [space[w] EXCEPT !.state = "deleted"]), Workspaces, SpaceRows)
    BY <1>2 DEF SpaceStates
  <2> HIDE DEF gone, dropped, empty
  <2>6. RowsOK(Rows(NoRows, Row(w, [space[w] EXCEPT !.state = "deleted"]), gone, dropped, empty))
    BY <2>2, <2>3, <2>4, <2>5, NoRowsImages DEF Rows, RowsOK
  <2> QED BY <2>6 DEF DeleteRows, gone, dropped, empty
<1>5. \A o \in Users : RowsOK(CreateRows(w, o))
  <2> TAKE o \in Users
  <2>1. ImagesOf(Row(w, [state |-> "active", frozen |-> FALSE]), Workspaces, SpaceRows)
    BY RowImages DEF SpaceRows, SpaceStates
  <2>2. <<w, o, 1>> \in MemberIds BY BoundsAssumption DEF MemberIds, Gens
  <2>3. [role |-> "owner", status |-> "active"] \in MemberRows BY DEF MemberRows, Roles, MemberStatus
  <2>4. ImagesOf(Row(<<w, o, 1>>, [role |-> "owner", status |-> "active"]), MemberIds, MemberRows)
    BY <2>2, <2>3, RowImages
  <2> QED BY <2>1, <2>4, NoRowsImages DEF CreateRows, Rows, RowsOK
<1> QED BY <1>1, <1>3, <1>4, <1>5

LEMMA InviteRowTypes ==
  ASSUME TypeOK, NEW a \in Users, NEW w \in Workspaces, NEW u \in Users,
         NEW r \in InvitationRoles, FreshInvites(w, u) # {}
  PROVE  RowsOK(InviteRow(a, w, u, r))
<1> DEFINE new == CHOOSE i \in FreshInvites(w, u) : TRUE
           image(i) == IF i = new THEN [role |-> r, by |-> a, status |-> "pending"]
                       ELSE [invite[i] EXCEPT !.status = "revoked"]
           images == [i \in PendingOf(w, u) \cup {new} |-> image(i)]
<1>1. new \in InviteIds BY ChosenElement, MembersType
<1>2. ASSUME NEW i \in PendingOf(w, u) \cup {new} PROVE i \in InviteIds /\ image(i) \in InviteRows
  <2>1. i \in InviteIds BY <1>1, PendingType
  <2>2. invite[i] \in InviteRows BY <2>1 DEF TypeOK
  <2>3. [role |-> r, by |-> a, status |-> "pending"] \in InviteRows BY DEF InviteRows, InviteStatus
  <2>4. [invite[i] EXCEPT !.status = "revoked"] \in InviteRows BY <2>2 DEF InviteRows, InviteStatus
  <2> QED BY <2>1, <2>3, <2>4
<1>3. ImagesOf(images, InviteIds, InviteRows) BY <1>2 DEF ImagesOf
<1> HIDE DEF images
<1>4. RowsOK(Rows(NoRows, NoRows, NoRows, images, NoRows)) BY <1>3, MembershipRows, NoRowsImages
<1> QED BY <1>4 DEF InviteRow, images

LEMMA AcceptRowTypes ==
  ASSUME TypeOK, NEW i \in InviteIds, FreshMembers(i[1], i[2]) # {}
  PROVE  RowsOK(AcceptRows(i))
<1> DEFINE new == CHOOSE m \in FreshMembers(i[1], i[2]) : TRUE
           image(x) == [invite[x] EXCEPT !.status = IF x = i THEN "accepted" ELSE "revoked"]
           images == [x \in PendingOf(i[1], i[2]) |-> image(x)]
<1>0. i[1] \in Workspaces /\ i[2] \in Users BY DEF InviteIds
<1>1. new \in MemberIds BY <1>0, ChosenElement, MembersType
<1>2. ASSUME NEW x \in PendingOf(i[1], i[2]) PROVE x \in InviteIds /\ image(x) \in InviteRows
  <2>1. x \in InviteIds BY <1>0, PendingType
  <2>2. invite[x] \in InviteRows BY <2>1 DEF TypeOK
  <2> QED BY <2>1, <2>2 DEF InviteRows, InviteStatus
<1>3. ImagesOf(images, InviteIds, InviteRows) BY <1>2 DEF ImagesOf
<1>4. [role |-> invite[i].role, status |-> "active"] \in MemberRows
  BY DEF TypeOK, InviteRows, MemberRows, InvitationRoles, MemberStatus
<1>5. ImagesOf(Row(new, [role |-> invite[i].role, status |-> "active"]), MemberIds, MemberRows)
  BY <1>1, <1>4, RowImages
<1> HIDE DEF images
<1>6. RowsOK(Rows(NoRows, NoRows, Row(new, [role |-> invite[i].role, status |-> "active"]), images, NoRows))
  BY <1>3, <1>5, MembershipRows, NoRowsImages
<1> QED BY <1>6 DEF AcceptRows, images

LEMMA RevokeRowTypes ==
  ASSUME TypeOK, NEW i \in InviteIds PROVE RowsOK(RevokeRows(i))
<1>1. RowsOK(NoChange) BY UserRowsOnly, NoRowsImages DEF NoChange
<1>2. RowsOK(Rows(NoRows, NoRows, NoRows, Revoked({i}), NoRows))
  BY RevokedImages, MembershipRows, NoRowsImages
<1> QED BY <1>1, <1>2 DEF RevokeRows

LEMMA AccountCommandRows ==
  ASSUME TypeOK, NEW u \in Users
  PROVE  /\ \A b \in BOOLEAN : RowsOK(SetActiveRows(u, b))
         /\ \A r \in SystemRoles : RowsOK(SetSystemRoleRows(u, r))
<1>0. user[u] \in UserRows BY DEF TypeOK
<1>1. \A b \in BOOLEAN : [user[u] EXCEPT !.active = b] \in UserRows BY <1>0 DEF UserRows
<1>2. \A r \in SystemRoles : [user[u] EXCEPT !.role = r] \in UserRows BY <1>0 DEF UserRows
<1>3. \A b \in BOOLEAN : RowsOK(SetActiveRows(u, b))
  BY <1>1, RowImages, UserRowsOnly DEF SetActiveRows
<1>4. \A r \in SystemRoles : RowsOK(SetSystemRoleRows(u, r))
  BY <1>2, RowImages, UserRowsOnly DEF SetSystemRoleRows
<1> QED BY <1>3, <1>4

LEMMA PurgeRowTypes ==
  ASSUME TypeOK, NEW oldInvites \in SUBSET TerminalInvites, NEW oldMembers \in SUBSET EndedMembers
  PROVE  RowsOK(Rows(NoRows, NoRows,
                     [m \in oldMembers |-> [member[m] EXCEPT !.status = "gone"]],
                     [i \in oldInvites |-> [invite[i] EXCEPT !.status = "gone"]], NoRows))
<1> DEFINE ms == [m \in oldMembers |-> [member[m] EXCEPT !.status = "gone"]]
           is == [i \in oldInvites |-> [invite[i] EXCEPT !.status = "gone"]]
<1>1. ImagesOf(ms, MemberIds, MemberRows)
  <2>1. "gone" \in MemberStatus /\ oldMembers \subseteq MemberIds BY DEF MemberStatus, EndedMembers
  <2> QED BY <2>1, MemberRowTypes DEF ImagesOf
<1>2. ImagesOf(is, InviteIds, InviteRows)
  <2>1. oldInvites \subseteq InviteIds BY DEF TerminalInvites
  <2> SUFFICES ASSUME NEW i \in oldInvites PROVE [invite[i] EXCEPT !.status = "gone"] \in InviteRows
    BY <2>1 DEF ImagesOf
  <2>2. invite[i] \in InviteRows BY <2>1 DEF TypeOK
  <2> QED BY <2>2 DEF InviteRows, InviteStatus
<1> HIDE DEF ms, is
<1>3. RowsOK(Rows(NoRows, NoRows, ms, is, NoRows)) BY <1>1, <1>2, MembershipRows, NoRowsImages
<1> QED BY <1>3 DEF ms, is

-------------------------------------------------------------------------------
(* Type correctness. *)

LEMMA InitType == Init => TypeOK
<1> SUFFICES ASSUME Init PROVE TypeOK OBVIOUS
<1>1. user \in [Users -> UserRows] BY DEF Init, UserRows
<1>2. space \in [Workspaces -> SpaceRows] BY DEF Init, SpaceRows, SpaceStates
<1>3. member \in [MemberIds -> MemberRows]
  <2> SUFFICES ASSUME NEW m \in MemberIds PROVE member[m] \in MemberRows
    BY DEF Init
  <2>1. Roster[m[1]][m[2]] \in Roles \cup {"none"}
    BY MemberIdParts, RosterAssumption
  <2>2. "viewer" \in Roles BY DEF Roles
  <2> QED BY <2>1, <2>2 DEF Init, MemberRows, MemberStatus
<1>4. invite \in [InviteIds -> InviteRows]
  <2> SUFFICES ASSUME NEW i \in InviteIds PROVE invite[i] \in InviteRows
    BY DEF Init
  <2>1. i[2] \in Users BY DEF InviteIds
  <2> QED BY <2>1 DEF Init, InviteRows, InviteStatus, InvitationRoles, Roles
<1>5. lapsed \in SUBSET InviteIds /\ seat \in [MemberIds -> BOOLEAN] BY DEF Init
<1> QED BY <1>1, <1>2, <1>3, <1>4, <1>5 DEF TypeOK

\* Every command of Next is a guarded write of well-typed rows.
LEMMA NextType == TypeOK /\ [Next]_vars => TypeOK'
<1> SUFFICES ASSUME TypeOK, [Next]_vars PROVE TypeOK' OBVIOUS
<1>1. CASE MemberCommand
  <2>0. PICK a \in Users, m \in MemberIds :
          \/ \E r \in AskRoles : SetRole(a, m, r)
          \/ Suspend(a, m)
          \/ Reactivate(a, m)
          \/ Terminate(a, m)
          \/ Leave(a, m)
          \/ Transfer(a, m)
          \/ \E b \in BOOLEAN : Select(a, m, b)
    BY <1>1 DEF MemberCommand
  <2>1. CASE \E r \in AskRoles : SetRole(a, m, r)
    BY <2>1, AskAssumption, MemberCommandRows, WriteType DEF SetRole
  <2>2. CASE Suspend(a, m) BY <2>2, MemberCommandRows, WriteType DEF Suspend
  <2>3. CASE Reactivate(a, m) BY <2>3, MemberCommandRows, WriteType DEF Reactivate
  <2>4. CASE Terminate(a, m) BY <2>4, MemberCommandRows, WriteType DEF Terminate
  <2>5. CASE Leave(a, m) BY <2>5, MemberCommandRows, WriteType DEF Leave
  <2>6. CASE Transfer(a, m)
    BY <2>6, MemberCommandRows, WriteType DEF Transfer, MayTransfer
  <2>7. CASE \E b \in BOOLEAN : Select(a, m, b)
    BY <2>7, MemberCommandRows, WriteType DEF Select
  <2> QED BY <2>0, <2>1, <2>2, <2>3, <2>4, <2>5, <2>6, <2>7
<1>2. CASE WorkspaceCommand
  <2>0. PICK a \in Users, w \in Workspaces :
          \/ \E n, expected \in Users : Reassign(a, w, n, expected)
          \/ Freeze(a, w)
          \/ Unfreeze(a, w)
          \/ Archive(a, w)
          \/ Restore(a, w)
          \/ Delete(a, w)
          \/ \E o \in Users : Create(a, w, o)
    BY <1>2 DEF WorkspaceCommand
  <2>1. CASE \E n, expected \in Users : Reassign(a, w, n, expected)
    <3>1. PICK n \in Users, expected \in Users : Reassign(a, w, n, expected) BY <2>1
    <3>2. OwnersOf(w) # {} /\ (CurrentOf(w, n) = {} => FreshMembers(w, n) # {})
      BY <3>1 DEF Reassign, MayReassign
    <3>3. Write(ReassignRows(w, n)) BY <3>1 DEF Reassign
    <3> QED BY <3>2, <3>3, ReassignRowTypes, WriteType
  <2>2. CASE Freeze(a, w) BY <2>2, SpaceCommandRows, WriteType DEF Freeze
  <2>3. CASE Unfreeze(a, w) BY <2>3, SpaceCommandRows, WriteType DEF Unfreeze
  <2>4. CASE Archive(a, w) BY <2>4, SpaceCommandRows, WriteType DEF Archive, SpaceStates
  <2>5. CASE Restore(a, w) BY <2>5, SpaceCommandRows, WriteType DEF Restore, SpaceStates
  <2>6. CASE Delete(a, w) BY <2>6, SpaceCommandRows, WriteType DEF Delete
  <2>7. CASE \E o \in Users : Create(a, w, o) BY <2>7, SpaceCommandRows, WriteType DEF Create
  <2> QED BY <2>0, <2>1, <2>2, <2>3, <2>4, <2>5, <2>6, <2>7
<1>3. CASE InvitationCommand
  <2>1. ASSUME NEW a \in Users, NEW w \in Workspaces, NEW u \in Users, NEW r \in AskRoles,
               Invite(a, w, u, r)
        PROVE  TypeOK'
    BY <2>1, InviteRowTypes, WriteType DEF Invite, MayInvite
  <2>2. ASSUME NEW a \in Users, NEW i \in InviteIds, Accept(a, i) PROVE TypeOK'
    BY <2>2, AcceptRowTypes, WriteType DEF Accept, MayAccept
  <2>3. ASSUME NEW a \in Users, NEW i \in InviteIds, Revoke(a, i) PROVE TypeOK'
    BY <2>3, RevokeRowTypes, WriteType DEF Revoke
  <2> QED BY <1>3, <2>1, <2>2, <2>3 DEF InvitationCommand
<1>4. CASE AccountCommand
  BY <1>4, AccountCommandRows, WriteType DEF AccountCommand, SetActive, SetSystemRole
<1>5. CASE PurgeHistory BY <1>5, PurgeRowTypes, WriteType DEF PurgeHistory
<1>6. CASE \E i \in InviteIds : Lapse(i) BY <1>6 DEF Lapse, TypeOK
<1>7. CASE UNCHANGED vars BY <1>7 DEF vars, TypeOK
<1> QED BY <1>1, <1>2, <1>3, <1>4, <1>5, <1>6, <1>7 DEF Next

\* The tables stay well typed: in particular no command ever writes the owner
\* role through an invitation.
THEOREM TypeCorrect == Spec => []TypeOK
<1> QED BY InitType, NextType, PTL DEF Spec

-------------------------------------------------------------------------------
(* Ownership.  OneOwner is not inductive: creation adds an owner, which is   *)
(* safe because a Workspace that was never created has no membership row;    *)
(* OneMembership needs the same fact.                                        *)

NothingBeforeCreation == \A m \in MemberIds :
  space[m[1]].state = "absent" => member[m].status = "unused"

OwnershipInv == TypeOK /\ NothingBeforeCreation /\ OneMembership /\ OneOwner

Owner(m) == Current(m) /\ member[m].role = "owner"

\* The steps that admit nobody and move no ownership.
Kept ==
  /\ \A w \in Workspaces :
       /\ Exists(w)' => Exists(w)
       /\ space'[w].state = "absent" => space[w].state = "absent"
  /\ \A m \in MemberIds :
       /\ Current(m)' => Current(m)
       /\ member'[m].status # "unused" => member[m].status # "unused"
       /\ Exists(m[1])' => (Owner(m)' <=> Owner(m))
       /\ Owner(m) /\ Owner(m)' /\ member[m].status = "active" => member'[m].status = "active"

LEMMA InSpace == ASSUME NEW w \in Workspaces, NEW m
  PROVE m \in {w} \X Users \X Gens <=> m \in MemberIds /\ m[1] = w
BY DEF MemberIds

LEMMA InPair == ASSUME NEW w \in Workspaces, NEW u \in Users, NEW m
  PROVE m \in {w} \X {u} \X Gens <=> m \in MemberIds /\ m[1] = w /\ m[2] = u
BY DEF MemberIds

LEMMA KeptInv == OwnershipInv /\ TypeOK' /\ Kept => OwnershipInv'
<1> SUFFICES ASSUME OwnershipInv, TypeOK', Kept PROVE OwnershipInv' OBVIOUS
<1>1. NothingBeforeCreation'
  <2> SUFFICES ASSUME NEW m \in MemberIds, space'[m[1]].state = "absent"
               PROVE  member'[m].status = "unused"
    BY DEF NothingBeforeCreation
  <2>1. space[m[1]].state = "absent" BY MemberIdParts DEF Kept
  <2> QED BY <2>1 DEF Kept, OwnershipInv, NothingBeforeCreation
<1>2. OneMembership' BY DEF OwnershipInv, OneMembership, Kept
<1>3. OneOwner'
  <2> SUFFICES ASSUME NEW w \in Workspaces, Exists(w)'
               PROVE  \E o \in OwnersOf(w)' : member'[o].status = "active" /\ OwnersOf(w)' = {o}
    BY DEF OneOwner
  <2>1. PICK o \in OwnersOf(w) : member[o].status = "active" /\ OwnersOf(w) = {o}
    BY DEF Kept, OwnershipInv, OneOwner
  <2>2. \A m \in {w} \X Users \X Gens : Owner(m)' <=> Owner(m)
    BY InSpace DEF Kept
  <2>3. OwnersOf(w)' = OwnersOf(w) BY <2>2 DEF OwnersOf, Owner
  <2>4. o \in MemberIds /\ Owner(o) BY <2>1, InSpace DEF OwnersOf, Owner
  <2>5. Owner(o)' BY <2>1, <2>2, <2>4, InSpace DEF OwnersOf
  <2>6. member'[o].status = "active" BY <2>1, <2>4, <2>5 DEF Kept
  <2> QED BY <2>1, <2>3, <2>6
<1> QED BY <1>1, <1>2, <1>3 DEF OwnershipInv

\* How a written table reads.
LEMMA PutNothing == ASSUME NEW ids, NEW type, NEW table \in [ids -> type]
  PROVE Put(NoRows, table) = table
BY DEF Put, NoRows

LEMMA PutRow == ASSUME NEW table, NEW x, NEW image, NEW y \in DOMAIN table
  PROVE Put(Row(x, image), table)[y] = IF y = x THEN image ELSE table[y]
BY DEF Put, Row

\* A step that leaves memberships and lifecycle states alone.
LEMMA KeptUnchanged ==
  ASSUME TypeOK, member' = member,
         \A w \in Workspaces : \/ space'[w].state = space[w].state
                               \/ Exists(w) /\ space'[w].state # "absent"
  PROVE  Kept
BY DEF Kept, Exists, Current, Owner

LEMMA KeptStatic == ASSUME TypeOK, member' = member, space' = space PROVE Kept
BY KeptUnchanged

\* A command that changes the status of one membership, neither admitting nor
\* touching the owner, or the role of a membership below the owner.
LEMMA KeptRow ==
  ASSUME TypeOK, NEW m \in MemberIds, NEW image \in MemberRows, Current(m),
         member' = Put(Row(m, image), member), UNCHANGED space,
         image.status \in {"active", "suspended", "ended"},
         IF member[m].role = "owner" THEN image = [member[m] EXCEPT !.status = "active"]
         ELSE image.role # "owner"
  PROVE  Kept
<1>1. \A x \in MemberIds : member'[x] = IF x = m THEN image ELSE member[x]
  BY PutRow DEF TypeOK
<1>2. member[m] \in MemberRows BY DEF TypeOK
<1>3. image.status # "unused" OBVIOUS
<1>4. Current(m)' => Current(m) OBVIOUS
<1>5. Owner(m)' <=> Owner(m)
  <2>1. CASE member[m].role = "owner"
    <3>1. image = [member[m] EXCEPT !.status = "active"] BY <2>1
    <3>2. image.role = "owner" /\ image.status = "active" BY <1>2, <2>1, <3>1 DEF MemberRows
    <3> QED BY <1>1, <2>1, <3>2 DEF Owner, Current
  <2>2. CASE member[m].role # "owner" BY <1>1, <2>2 DEF Owner
  <2> QED BY <2>1, <2>2
<1>6. Owner(m) => image.status = "active"
  BY <1>2 DEF Owner, MemberRows
<1>7. \A x \in MemberIds : x # m => member'[x] = member[x] BY <1>1
<1>8. member'[m] = image BY <1>1
<1>9. \A x \in MemberIds : Current(x)' => Current(x)
  BY <1>4, <1>7 DEF Current
<1>10. \A x \in MemberIds : Owner(x)' <=> Owner(x)
  BY <1>5, <1>7 DEF Owner, Current
<1>11. \A w \in Workspaces : Exists(w)' <=> Exists(w) BY DEF Exists
<1> QED
  BY <1>1, <1>3, <1>6, <1>7, <1>8, <1>9, <1>10, <1>11 DEF Kept, Current

\* No grant of the policy names the owner class: nobody acts on an owner's
\* membership by an ordinary member command.
LEMMA NobodyOnOwner ==
  \A grade, action, phase : ~Allowed(grade, action, phase, "owner")
<1> SUFFICES ASSUME NEW base \in Roles, NEW action, NEW phase,
                    <<action, phase, "owner">> \in Grants[base]
             PROVE  FALSE
  BY DEF Allowed
<1>1. ASSUME NEW actions, NEW lifecycles, NEW relations,
             <<action, phase, "owner">> \in Grant(actions, lifecycles, relations)
      PROVE  "owner" \in relations
  BY <1>1 DEF Grant
<1>2. <<action, phase, "owner">> \notin ViewerGrants BY <1>1 DEF ViewerGrants
<1>3. <<action, phase, "owner">> \notin ReviewerGrants BY <1>1 DEF ReviewerGrants
<1>4. <<action, phase, "owner">> \notin EditorGrants BY <1>1 DEF EditorGrants
<1>5. <<action, phase, "owner">> \notin AdminGrants BY <1>1 DEF AdminGrants
<1>6. <<action, phase, "owner">> \notin OwnerGrants BY <1>1 DEF OwnerGrants
<1> QED BY <1>2, <1>3, <1>4, <1>5, <1>6 DEF Grants, Roles

LEMMA KeptByMemberCommand ==
  ASSUME TypeOK, NEW a \in Users, NEW m \in MemberIds,
         \/ \E r \in AskRoles : SetRole(a, m, r)
         \/ Suspend(a, m)
         \/ Reactivate(a, m)
         \/ Terminate(a, m)
         \/ Leave(a, m)
         \/ \E b \in BOOLEAN : Select(a, m, b)
  PROVE  Kept
<1>0. /\ member \in [MemberIds -> MemberRows] /\ space \in [Workspaces -> SpaceRows]
      /\ member[m] \in MemberRows
  BY DEF TypeOK
<1>1. CASE \E r \in AskRoles : SetRole(a, m, r)
  <2>1. PICK r \in AskRoles : SetRole(a, m, r) BY <1>1
  <2>2. /\ Current(m) /\ member[m].role # "owner" /\ r # "owner" /\ r \in Roles
        /\ Write(SetRoleRows(m, r))
    BY <2>1, AskAssumption DEF SetRole, MaySetRole
  <2>3. member' = Put(Row(m, [member[m] EXCEPT !.role = r]), member) /\ UNCHANGED space
    BY <2>2, <1>0, PutNothing DEF Write, SetRoleRows, Rows
  <2>4. [member[m] EXCEPT !.role = r] \in MemberRows BY <2>2, MemberRowTypes
  <2>5. /\ [member[m] EXCEPT !.role = r].role = r
        /\ [member[m] EXCEPT !.role = r].status = member[m].status
    BY <1>0 DEF MemberRows
  <2> QED BY <2>2, <2>3, <2>4, <2>5, KeptRow DEF Current
<1>2. ASSUME NEW s \in {"active", "suspended", "ended"}, Current(m),
             member' = Put(Row(m, [member[m] EXCEPT !.status = s]), member), UNCHANGED space,
             member[m].role = "owner" => s = "active"
      PROVE  Kept
  <2>1. [member[m] EXCEPT !.status = s] \in MemberRows BY MemberRowTypes DEF MemberStatus
  <2>2. /\ [member[m] EXCEPT !.status = s].role = member[m].role
        /\ [member[m] EXCEPT !.status = s].status = s
    BY <1>0 DEF MemberRows
  <2> QED BY <1>2, <2>1, <2>2, KeptRow
<1>3. CASE Suspend(a, m)
  <2>1. Current(m) /\ member[m].role # "owner" /\ Write(SuspendRows(m))
    BY <1>3 DEF Suspend, MaySuspend
  <2>2. CASE member[m].status = "suspended"
    <3>1. UNCHANGED <<member, space>>
      BY <2>1, <2>2, <1>0, PutNothing DEF Write, SuspendRows, NoChange, Rows
    <3> QED BY <3>1, KeptStatic
  <2>3. CASE member[m].status # "suspended"
    <3>1. member' = Put(Row(m, [member[m] EXCEPT !.status = "suspended"]), member) /\ UNCHANGED space
      BY <2>1, <2>3, <1>0, PutNothing DEF Write, SuspendRows, Rows
    <3> QED BY <2>1, <3>1, <1>2
  <2> QED BY <2>2, <2>3
<1>4. CASE Reactivate(a, m)
  <2>1. Current(m) /\ Write(ReactivateRows(m)) BY <1>4 DEF Reactivate, MayReactivate
  <2>2. member' = Put(Row(m, [member[m] EXCEPT !.status = "active"]), member) /\ UNCHANGED space
    BY <2>1, <1>0, PutNothing DEF Write, ReactivateRows, Rows
  <2> QED BY <2>1, <2>2, <1>2
<1>5. ASSUME Current(m), member[m].role # "owner", Write(EndRows(m)) PROVE Kept
  <2>1. member' = Put(Row(m, [member[m] EXCEPT !.status = "ended"]), member) /\ UNCHANGED space
    BY <1>5, <1>0, PutNothing DEF Write, EndRows, Rows
  <2> QED BY <1>5, <2>1, <1>2
<1>6. CASE Terminate(a, m) BY <1>6, <1>5 DEF Terminate, MayTerminate
<1>7. CASE Leave(a, m)
  <2>1. Current(m) /\ Write(EndRows(m)) BY <1>7 DEF Leave, MayLeave, Current
  <2>2. MemberRelation(member[m].role) # "owner"
    BY <1>7, NobodyOnOwner DEF Leave, MayLeave, Authorized
  <2> QED BY <2>1, <2>2, <1>5 DEF MemberRelation
<1>8. CASE \E b \in BOOLEAN : Select(a, m, b)
  <2>1. UNCHANGED <<member, space>>
    BY <1>8, <1>0, PutNothing DEF Select, Write, SelectRows, Rows
  <2> QED BY <2>1, KeptStatic
<1> QED BY <1>1, <1>3, <1>4, <1>6, <1>7, <1>8

\* Commands on the root row, on invitations and on accounts, and time.
LEMMA KeptBySpaceRow ==
  ASSUME TypeOK, NEW w \in Workspaces, NEW image, member' = member, Exists(w),
         space' = Put(Row(w, image), space), image.state # "absent"
  PROVE  Kept
<1>1. \A x \in Workspaces : space'[x] = IF x = w THEN image ELSE space[x]
  BY PutRow DEF TypeOK
<1>2. \A x \in Workspaces : \/ space'[x].state = space[x].state
                            \/ Exists(x) /\ space'[x].state # "absent"
  BY <1>1
<1> QED BY <1>2, KeptUnchanged

LEMMA KeptByWorkspaceCommand ==
  ASSUME TypeOK, NEW a \in Users, NEW w \in Workspaces,
         \/ Freeze(a, w)
         \/ Unfreeze(a, w)
         \/ Archive(a, w)
         \/ Restore(a, w)
  PROVE  Kept
<1>0. /\ member \in [MemberIds -> MemberRows] /\ space[w] \in SpaceRows
      /\ space \in [Workspaces -> SpaceRows]
  BY DEF TypeOK
<1>1. ASSUME NEW b \in BOOLEAN, Exists(w), Write(SetFrozenRows(w, b)) PROVE Kept
  <2>1. member' = member /\ space' = Put(Row(w, [space[w] EXCEPT !.frozen = b]), space)
    BY <1>0, <1>1, PutNothing DEF Write, SetFrozenRows, Rows
  <2>2. [space[w] EXCEPT !.frozen = b].state = space[w].state BY <1>0 DEF SpaceRows
  <2>3. space[w].state # "absent" BY <1>1 DEF Exists
  <2> QED BY <1>1, <2>1, <2>2, <2>3, KeptBySpaceRow
<1>2. ASSUME NEW s \in {"active", "archived"}, Exists(w), Write(StateRows(w, s)) PROVE Kept
  <2>1. member' = member /\ space' = Put(Row(w, [space[w] EXCEPT !.state = s]), space)
    BY <1>0, <1>2, PutNothing DEF Write, StateRows, Rows
  <2>2. [space[w] EXCEPT !.state = s].state = s BY <1>0 DEF SpaceRows
  <2> QED BY <1>2, <2>1, <2>2, KeptBySpaceRow
<1>3. CASE Freeze(a, w) BY <1>3, <1>1 DEF Freeze, MaySetFrozen
<1>4. CASE Unfreeze(a, w) BY <1>4, <1>1 DEF Unfreeze, MaySetFrozen
<1>5. CASE Archive(a, w) BY <1>5, <1>2 DEF Archive, MayArchive, Authorized
<1>6. CASE Restore(a, w) BY <1>6, <1>2 DEF Restore, MayRestore, Authorized
<1> QED BY <1>3, <1>4, <1>5, <1>6

LEMMA KeptByDelete ==
  ASSUME TypeOK, NEW a \in Users, NEW w \in Workspaces, Delete(a, w)
  PROVE  Kept
<1>1. Exists(w) /\ Write(DeleteRows(w)) BY DEF Delete, MayDelete, Authorized
<1>2. space[w] \in SpaceRows /\ DOMAIN space = Workspaces /\ DOMAIN member = MemberIds
  BY DEF TypeOK
<1>3. space' = Put(Row(w, [space[w] EXCEPT !.state = "deleted"]), space)
  BY <1>1 DEF Write, DeleteRows, Rows
<1>4. \A x \in Workspaces : IF x = w THEN space'[x].state = "deleted" ELSE space'[x] = space[x]
  BY <1>2, <1>3, PutRow DEF SpaceRows
<1>5. \A m \in MemberIds : \/ member'[m] = member[m]
                           \/ /\ member'[m] = [member[m] EXCEPT !.status = "gone"]
                              /\ m[1] = w /\ member[m].status # "unused"
  BY <1>1, <1>2, InSpace DEF Write, DeleteRows, Rows, Put
<1>6. \A m \in MemberIds : [member[m] EXCEPT !.status = "gone"].status = "gone"
  <2> TAKE m \in MemberIds
  <2>1. member[m] \in MemberRows BY DEF TypeOK
  <2> QED BY <2>1 DEF MemberRows
<1>7. \A m \in MemberIds :
        \/ member'[m] = member[m]
        \/ m[1] = w /\ member'[m].status = "gone" /\ member[m].status # "unused"
  BY <1>5, <1>6
<1>8. ~Exists(w)' BY <1>4 DEF Exists
<1>9. \A x \in Workspaces : Exists(x)' => Exists(x) BY <1>1, <1>4 DEF Exists
<1> QED BY <1>4, <1>7, <1>8, <1>9, MemberIdParts DEF Kept, Current, Owner

LEMMA KeptByRest ==
  ASSUME TypeOK,
         \/ \E a, u \in Users, w \in Workspaces, r \in AskRoles : Invite(a, w, u, r)
         \/ \E a \in Users, i \in InviteIds : Revoke(a, i)
         \/ AccountCommand
         \/ \E i \in InviteIds : Lapse(i)
         \/ UNCHANGED vars
  PROVE  Kept
<1>1. member' = member /\ space' = space
  <2>0. member \in [MemberIds -> MemberRows] /\ space \in [Workspaces -> SpaceRows] BY DEF TypeOK
  <2>1. ASSUME NEW t, NEW i, Write(Rows(t, NoRows, NoRows, i, NoRows))
        PROVE  member' = member /\ space' = space
    BY <2>0, <2>1, PutNothing DEF Write, Rows
  <2>2. CASE \E a, u \in Users, w \in Workspaces, r \in AskRoles : Invite(a, w, u, r)
    BY <2>1, <2>2 DEF Invite, InviteRow
  <2>3. CASE \E a \in Users, i \in InviteIds : Revoke(a, i)
    BY <2>1, <2>3 DEF Revoke, RevokeRows, NoChange
  <2>4. CASE AccountCommand
    BY <2>1, <2>4 DEF AccountCommand, SetActive, SetActiveRows, SetSystemRole, SetSystemRoleRows
  <2>5. CASE \E i \in InviteIds : Lapse(i) BY <2>5 DEF Lapse
  <2>6. CASE UNCHANGED vars BY <2>6 DEF vars
  <2> QED BY <2>2, <2>3, <2>4, <2>5, <2>6
<1> QED BY <1>1, KeptStatic

LEMMA KeptByPurge == ASSUME TypeOK, PurgeHistory PROVE Kept
<1>1. PICK oldInvites \in SUBSET TerminalInvites, oldMembers \in SUBSET EndedMembers :
        Write(Rows(NoRows, NoRows,
                   [m \in oldMembers |-> [member[m] EXCEPT !.status = "gone"]],
                   [i \in oldInvites |-> [invite[i] EXCEPT !.status = "gone"]], NoRows))
  BY DEF PurgeHistory
<1>2. space' = space
  BY <1>1, PutNothing DEF Write, Rows, TypeOK
<1>3. \A m \in MemberIds :
        \/ member'[m] = member[m]
        \/ member[m].status = "ended" /\ member'[m] = [member[m] EXCEPT !.status = "gone"]
  BY <1>1 DEF Write, Rows, Put, TypeOK, EndedMembers
<1>4. \A m \in MemberIds : [member[m] EXCEPT !.status = "gone"].status = "gone"
  <2> TAKE m \in MemberIds
  <2>1. member[m] \in MemberRows BY DEF TypeOK
  <2> QED BY <2>1 DEF MemberRows
<1>5. \A m \in MemberIds :
        \/ member'[m] = member[m]
        \/ member[m].status = "ended" /\ member'[m].status = "gone"
  BY <1>3, <1>4
<1> QED BY <1>2, <1>5 DEF Kept, Exists, Current, Owner

\* Ownership moves from the only owner to another membership of the Workspace,
\* one that is current already or the first of its User.
LEMMA HandOverKeepsInv ==
  ASSUME OwnershipInv, TypeOK', NEW w \in Workspaces, Exists(w),
         NEW o \in OwnersOf(w), NEW t \in MemberIds, t[1] = w, t # o,
         member' = Put(HandOver(o, t), member), space' = space,
         Current(t) \/ CurrentOf(w, t[2]) = {}
  PROVE  OwnershipInv'
<1> USE DEF OwnershipInv
<1>0. /\ o \in MemberIds /\ o[1] = w /\ Owner(o) /\ OwnersOf(w) = {o}
      /\ member[o] \in MemberRows
  <2>1. o \in MemberIds /\ o[1] = w /\ Owner(o) BY InSpace DEF OwnersOf, Owner
  <2>2. OwnersOf(w) = {o} BY DEF OneOwner
  <2> QED BY <2>1, <2>2 DEF TypeOK
<1>1. /\ member'[t] = [role |-> "owner", status |-> "active"]
      /\ member'[o] = [member[o] EXCEPT !.role = "admin"]
      /\ \A m \in MemberIds : m # o /\ m # t => member'[m] = member[m]
  BY <1>0 DEF Put, HandOver, TypeOK
<1>2. member'[o].role = "admin" /\ member'[o].status = member[o].status
  BY <1>0, <1>1 DEF MemberRows
<1>3. NothingBeforeCreation'
  <2> SUFFICES ASSUME NEW m \in MemberIds, space[m[1]].state = "absent"
               PROVE  member'[m].status = "unused"
    BY DEF NothingBeforeCreation
  <2>1. m[1] # w BY DEF Exists
  <2> QED BY <1>0, <1>1, <2>1 DEF NothingBeforeCreation
<1>4. \A m \in MemberIds : m # t => (Current(m)' <=> Current(m))
  BY <1>1, <1>2 DEF Current
<1>5. OneMembership'
  <2> SUFFICES ASSUME NEW m1 \in MemberIds, NEW m2 \in MemberIds, Current(m1)', Current(m2)',
                      m1[1] = m2[1], m1[2] = m2[2], m1 # m2
               PROVE  FALSE
    BY DEF OneMembership
  <2>1. ASSUME NEW m \in MemberIds, m # t, m[1] = t[1], m[2] = t[2], Current(m) PROVE FALSE
    <3>1. CASE Current(t) BY <2>1, <3>1 DEF OneMembership
    <3>2. CASE CurrentOf(w, t[2]) = {}
      <4>1. m \in CurrentOf(w, t[2]) BY <2>1, InPair, MemberIdParts DEF CurrentOf
      <4> QED BY <3>2, <4>1
    <3> QED BY <3>1, <3>2
  <2>2. CASE m1 = t BY <1>4, <2>1, <2>2
  <2>3. CASE m2 = t BY <1>4, <2>1, <2>3
  <2>4. CASE m1 # t /\ m2 # t BY <1>4, <2>4 DEF OneMembership
  <2> QED BY <2>2, <2>3, <2>4
<1>6. OneOwner'
  <2> SUFFICES ASSUME NEW v \in Workspaces, Exists(v)'
               PROVE  \E p \in OwnersOf(v)' : member'[p].status = "active" /\ OwnersOf(v)' = {p}
    BY DEF OneOwner
  <2>1. CASE v = w
    <3>1. \A m \in {w} \X Users \X Gens : Owner(m)' <=> m = t
      <4> TAKE m \in {w} \X Users \X Gens
      <4>1. m \in MemberIds /\ m[1] = w BY InSpace
      <4>2. CASE m = t BY <1>1, <4>2 DEF Owner, Current
      <4>3. CASE m = o BY <1>2, <4>3 DEF Owner
      <4>4. CASE m # o /\ m # t
        <5>1. ~Owner(m) BY <1>0, <4>1, <4>4, InSpace DEF OwnersOf, Owner
        <5> QED BY <1>1, <4>1, <4>4, <5>1 DEF Owner, Current
      <4> QED BY <4>2, <4>3, <4>4
    <3>2. t \in {w} \X Users \X Gens BY InSpace
    <3>3. OwnersOf(w)' = {t} BY <3>1, <3>2 DEF OwnersOf, Owner
    <3> QED BY <1>1, <2>1, <3>3
  <2>2. CASE v # w
    <3>1. PICK p \in OwnersOf(v) : member[p].status = "active" /\ OwnersOf(v) = {p}
      BY DEF OneOwner, Exists
    <3>2. \A m \in {v} \X Users \X Gens : member'[m] = member[m]
      BY <1>0, <1>1, <2>2, InSpace
    <3>3. OwnersOf(v)' = OwnersOf(v) BY <3>2 DEF OwnersOf, Current
    <3>4. p \in {v} \X Users \X Gens BY DEF OwnersOf
    <3> QED BY <3>1, <3>2, <3>3, <3>4
  <2> QED BY <2>1, <2>2
<1> QED BY <1>3, <1>5, <1>6

\* A User without a current membership gets a new one below the owner.
LEMMA AdmissionKeepsInv ==
  ASSUME OwnershipInv, TypeOK', NEW new \in MemberIds, NEW grade \in InvitationRoles,
         Exists(new[1]), ~Current(new), CurrentOf(new[1], new[2]) = {},
         member' = Put(Row(new, [role |-> grade, status |-> "active"]), member), space' = space
  PROVE  OwnershipInv'
<1> USE DEF OwnershipInv
<1>1. \A m \in MemberIds :
        member'[m] = IF m = new THEN [role |-> grade, status |-> "active"] ELSE member[m]
  BY PutRow DEF TypeOK
<1>2. NothingBeforeCreation' BY <1>1 DEF NothingBeforeCreation, Exists
<1>3. \A m \in MemberIds : m[1] = new[1] /\ m[2] = new[2] => ~Current(m)
  BY InPair, MemberIdParts DEF CurrentOf
<1>4. OneMembership' BY <1>1, <1>3 DEF OneMembership, Current
<1>5. OneOwner'
  <2>1. \A m \in MemberIds : Owner(m)' <=> Owner(m)
    BY <1>1 DEF Owner, Current, InvitationRoles
  <2>2. \A v \in Workspaces : OwnersOf(v)' = OwnersOf(v)
    <3> TAKE v \in Workspaces
    <3>1. \A m \in {v} \X Users \X Gens : Owner(m)' <=> Owner(m) BY <2>1, InSpace
    <3> QED BY <3>1 DEF OwnersOf, Owner
  <2>3. \A v \in Workspaces : \A p \in OwnersOf(v) : member'[p] = member[p]
    BY <1>1, InSpace DEF OwnersOf
  <2> QED BY <2>2, <2>3 DEF OneOwner, Exists
<1> QED BY <1>2, <1>4, <1>5

\* A Workspace comes into being with its owner.
LEMMA CreationKeepsInv ==
  ASSUME OwnershipInv, TypeOK', NEW a \in Users, NEW w \in Workspaces, NEW o \in Users,
         Create(a, w, o)
  PROVE  OwnershipInv'
<1> USE DEF OwnershipInv
<1> DEFINE new == <<w, o, 1>>
<1>1. new \in MemberIds /\ new[1] = w BY BoundsAssumption DEF MemberIds, Gens
<1>2. space[w].state = "absent" /\ Write(CreateRows(w, o)) BY DEF Create, MayCreate
<1>3. /\ member' = Put(Row(new, [role |-> "owner", status |-> "active"]), member)
      /\ space' = Put(Row(w, [state |-> "active", frozen |-> FALSE]), space)
  BY <1>2 DEF Write, CreateRows, Rows
<1>4. /\ \A m \in MemberIds :
           member'[m] = IF m = new THEN [role |-> "owner", status |-> "active"] ELSE member[m]
      /\ \A v \in Workspaces :
           space'[v] = IF v = w THEN [state |-> "active", frozen |-> FALSE] ELSE space[v]
  BY <1>3, PutRow DEF TypeOK
<1>5. \A m \in MemberIds : m[1] = w => ~Current(m)
  BY <1>2 DEF NothingBeforeCreation, Current
<1>6. NothingBeforeCreation'
  <2> SUFFICES ASSUME NEW m \in MemberIds, space'[m[1]].state = "absent"
               PROVE  member'[m].status = "unused"
    BY DEF NothingBeforeCreation
  <2>1. m[1] # w BY <1>4
  <2>2. member'[m] = member[m] /\ space'[m[1]] = space[m[1]]
    BY <1>1, <1>4, <2>1, MemberIdParts
  <2> QED BY <2>2 DEF NothingBeforeCreation
<1>7. OneMembership' BY <1>1, <1>4, <1>5 DEF OneMembership, Current
<1>8. OneOwner'
  <2> SUFFICES ASSUME NEW v \in Workspaces, Exists(v)'
               PROVE  \E p \in OwnersOf(v)' : member'[p].status = "active" /\ OwnersOf(v)' = {p}
    BY DEF OneOwner
  <2>1. CASE v = w
    <3>1. \A m \in {w} \X Users \X Gens : Owner(m)' <=> m = new
      BY <1>1, <1>4, <1>5, InSpace DEF Owner, Current
    <3>2. new \in {w} \X Users \X Gens BY <1>1, InSpace
    <3>3. OwnersOf(w)' = {new} BY <3>1, <3>2 DEF OwnersOf, Owner
    <3> QED BY <1>1, <1>4, <2>1, <3>3
  <2>2. CASE v # w
    <3>1. Exists(v) BY <1>4, <2>2 DEF Exists
    <3>2. PICK p \in OwnersOf(v) : member[p].status = "active" /\ OwnersOf(v) = {p}
      BY <3>1 DEF OneOwner
    <3>3. \A m \in {v} \X Users \X Gens : member'[m] = member[m]
      BY <1>1, <1>4, <2>2, InSpace
    <3>4. OwnersOf(v)' = OwnersOf(v) BY <3>3 DEF OwnersOf, Current
    <3>5. p \in {v} \X Users \X Gens BY DEF OwnersOf
    <3> QED BY <3>2, <3>3, <3>4, <3>5
  <2> QED BY <2>1, <2>2
<1> QED BY <1>6, <1>7, <1>8

-------------------------------------------------------------------------------
LEMMA InitOwnership == Init => OwnershipInv
<1> SUFFICES ASSUME Init PROVE OwnershipInv OBVIOUS
<1>1. TypeOK BY InitType
<1>2. ASSUME NEW m \in MemberIds
      PROVE  IF m[3] = 1 /\ Roster[m[1]][m[2]] # "none"
             THEN member[m].status = "active" /\ member[m].role = Roster[m[1]][m[2]]
             ELSE member[m].status = "unused" /\ member[m].role = "viewer"
  <2>1. member[m] = IF m[3] = 1 /\ Roster[m[1]][m[2]] # "none"
                    THEN [role |-> Roster[m[1]][m[2]], status |-> "active"]
                    ELSE [role |-> "viewer", status |-> "unused"]
    BY DEF Init
  <2>2. CASE m[3] = 1 /\ Roster[m[1]][m[2]] # "none" BY <2>1, <2>2
  <2>3. CASE ~(m[3] = 1 /\ Roster[m[1]][m[2]] # "none") BY <2>1, <2>3
  <2> QED BY <2>2, <2>3
<1>3. \A m \in MemberIds : Current(m) <=> m[3] = 1 /\ Roster[m[1]][m[2]] # "none"
  BY <1>2 DEF Current
<1>4. NothingBeforeCreation
  <2> SUFFICES ASSUME NEW m \in MemberIds, space[m[1]].state = "absent"
               PROVE  member[m].status = "unused"
    BY DEF NothingBeforeCreation
  <2>1. ~Founded(m[1]) BY MemberIdParts DEF Init
  <2>2. Roster[m[1]][m[2]] = "none" BY <2>1, MemberIdParts DEF Founded
  <2> QED BY <1>2, <2>2
<1>5. OneMembership BY <1>3 DEF OneMembership, MemberIds
<1>6. OneOwner
  <2> SUFFICES ASSUME NEW w \in Workspaces, Exists(w)
               PROVE  \E p \in OwnersOf(w) : member[p].status = "active" /\ OwnersOf(w) = {p}
    BY DEF OneOwner
  <2>1. Founded(w) BY DEF Init, Exists
  <2>2. PICK o \in Users : \A u \in Users : Roster[w][u] = "owner" <=> u = o
    BY <2>1, RosterAssumption
  <2>3. <<w, o, 1>> \in {w} \X Users \X Gens /\ <<w, o, 1>> \in MemberIds
    BY BoundsAssumption DEF Gens, MemberIds
  <2>4. \A m \in {w} \X Users \X Gens : Owner(m) <=> m = <<w, o, 1>>
    <3> TAKE m \in {w} \X Users \X Gens
    <3>1. m \in MemberIds /\ m[1] = w /\ m[2] \in Users /\ m = <<m[1], m[2], m[3]>>
      BY DEF MemberIds
    <3>2. Owner(m) <=> m[3] = 1 /\ Roster[w][m[2]] = "owner" BY <1>2, <1>3, <3>1 DEF Owner
    <3> QED BY <2>2, <3>1, <3>2
  <2>5. OwnersOf(w) = {<<w, o, 1>>} BY <2>3, <2>4 DEF OwnersOf, Owner
  <2>6. member[<<w, o, 1>>].status = "active" BY <1>2, <2>2, <2>3
  <2> QED BY <2>5, <2>6
<1> QED BY <1>1, <1>4, <1>5, <1>6 DEF OwnershipInv

LEMMA TransferKeepsInv ==
  ASSUME OwnershipInv, TypeOK', NEW a \in Users, NEW m \in MemberIds, Transfer(a, m)
  PROVE  OwnershipInv'
<1> DEFINE o == CHOOSE x \in OwnersOf(m[1]) : TRUE
<1>1. /\ m[1] \in Workspaces /\ member[m].status = "active"
      /\ Exists(m[1]) /\ OwnersOf(m[1]) # {}
  BY MemberIdParts DEF Transfer, MayTransfer, Authorized
<1>2. MemberRelation(member[m].role) # "owner"
  BY NobodyOnOwner DEF Transfer, MayTransfer, Authorized
<1>3. o \in OwnersOf(m[1]) BY <1>1, ChosenElement
<1>4. o # m BY <1>2, <1>3 DEF OwnersOf, MemberRelation
<1>5. member' = Put(HandOver(o, m), member) /\ space' = space
  <2>1. space \in [Workspaces -> SpaceRows] BY DEF OwnershipInv, TypeOK
  <2>2. Write(TransferRows(m)) BY DEF Transfer
  <2> QED BY <2>1, <2>2, PutNothing DEF Write, TransferRows, Rows
<1>6. Current(m) BY <1>1 DEF Current
<1> HIDE DEF o
<1> QED BY <1>1, <1>3, <1>4, <1>5, <1>6, HandOverKeepsInv

LEMMA ReassignKeepsInv ==
  ASSUME OwnershipInv, TypeOK', NEW a \in Users, NEW w \in Workspaces,
         NEW n \in Users, NEW expected \in Users, Reassign(a, w, n, expected)
  PROVE  OwnershipInv'
<1> DEFINE o == CHOOSE x \in OwnersOf(w) : TRUE
           candidates == IF CurrentOf(w, n) = {} THEN FreshMembers(w, n) ELSE CurrentOf(w, n)
           t == CHOOSE x \in candidates : TRUE
<1>1. /\ Exists(w) /\ OwnersOf(w) # {} /\ candidates # {}
      /\ Write(ReassignRows(w, n))
  BY DEF Reassign, MayReassign
<1>2. o \in OwnersOf(w) BY <1>1, ChosenElement
<1>3. t \in candidates BY <1>1, ChosenElement
<1>4. t \in MemberIds /\ t[1] = w /\ t[2] = n
  BY <1>3, InPair DEF CurrentOf, FreshMembers
<1>5. Current(t) \/ CurrentOf(w, n) = {} BY <1>3 DEF CurrentOf
<1>6. CASE o[2] = n
  <2>1. member' = member /\ space' = space
    BY <1>1, <1>6, PutNothing DEF Write, ReassignRows, NoChange, Rows, OwnershipInv, TypeOK
  <2> QED BY <2>1, KeptStatic, KeptInv DEF OwnershipInv
<1>7. CASE o[2] # n
  <2>1. member' = Put(HandOver(o, t), member) /\ space' = space
    BY <1>1, <1>7, PutNothing DEF Write, ReassignRows, Rows, OwnershipInv, TypeOK
  <2>2. t # o BY <1>4, <1>7
  <2> HIDE DEF o, t
  <2> QED BY <1>1, <1>2, <1>4, <1>5, <2>1, <2>2, HandOverKeepsInv
<1> QED BY <1>6, <1>7

\* Whether the invitation has expired makes no difference to ownership.
LEMMA AcceptKeepsInv ==
  ASSUME OwnershipInv, TypeOK', NEW a \in Users, NEW i \in InviteIds,
         MayAcceptLate(a, i), Write(AcceptRows(i))
  PROVE  OwnershipInv'
<1> DEFINE new == CHOOSE m \in FreshMembers(i[1], i[2]) : TRUE
<1>1. /\ i[1] \in Workspaces /\ i[2] \in Users /\ Exists(i[1])
      /\ CurrentOf(i[1], i[2]) = {} /\ FreshMembers(i[1], i[2]) # {}
      /\ Write(AcceptRows(i))
  BY DEF MayAcceptLate, Writable, Exists, InviteIds
<1>2. new \in FreshMembers(i[1], i[2]) BY <1>1, ChosenElement
<1> HIDE DEF new
<1>3. new \in MemberIds /\ new[1] = i[1] /\ new[2] = i[2]
  <2>1. new \in {i[1]} \X {i[2]} \X Gens BY <1>2 DEF FreshMembers
  <2> QED BY <1>1, <2>1, InPair
<1>4. ~Current(new) BY <1>1, <1>3, InPair DEF CurrentOf
<1>5. /\ member' = Put(Row(new, [role |-> invite[i].role, status |-> "active"]), member)
      /\ space' = space
  BY <1>1, PutNothing DEF new, Write, AcceptRows, Rows, OwnershipInv, TypeOK
<1>6. invite[i].role \in InvitationRoles BY DEF OwnershipInv, TypeOK, InviteRows
<1> QED BY <1>1, <1>3, <1>4, <1>5, <1>6, AdmissionKeepsInv

LEMMA NextOwnership == OwnershipInv /\ [Next]_vars => OwnershipInv'
<1> SUFFICES ASSUME OwnershipInv, [Next]_vars PROVE OwnershipInv' OBVIOUS
<1>1. TypeOK /\ TypeOK' BY NextType DEF OwnershipInv
<1>2. ASSUME Kept PROVE OwnershipInv' BY <1>1, <1>2, KeptInv
<1>3. CASE MemberCommand
  <2>1. PICK a \in Users, m \in MemberIds :
          \/ \E r \in AskRoles : SetRole(a, m, r)
          \/ Suspend(a, m)
          \/ Reactivate(a, m)
          \/ Terminate(a, m)
          \/ Leave(a, m)
          \/ Transfer(a, m)
          \/ \E b \in BOOLEAN : Select(a, m, b)
    BY <1>3 DEF MemberCommand
  <2>2. CASE Transfer(a, m) BY <1>1, <2>2, TransferKeepsInv
  <2>3. CASE ~Transfer(a, m) BY <1>1, <1>2, <2>1, <2>3, KeptByMemberCommand
  <2> QED BY <2>2, <2>3
<1>4. CASE WorkspaceCommand
  <2>1. PICK a \in Users, w \in Workspaces :
          \/ \E n, expected \in Users : Reassign(a, w, n, expected)
          \/ Freeze(a, w)
          \/ Unfreeze(a, w)
          \/ Archive(a, w)
          \/ Restore(a, w)
          \/ Delete(a, w)
          \/ \E o \in Users : Create(a, w, o)
    BY <1>4 DEF WorkspaceCommand
  <2>2. CASE \E n, expected \in Users : Reassign(a, w, n, expected)
    BY <1>1, <2>2, ReassignKeepsInv
  <2>3. CASE Freeze(a, w) \/ Unfreeze(a, w) \/ Archive(a, w) \/ Restore(a, w)
    BY <1>1, <1>2, <2>3, KeptByWorkspaceCommand
  <2>4. CASE Delete(a, w) BY <1>1, <1>2, <2>4, KeptByDelete
  <2>5. CASE \E o \in Users : Create(a, w, o) BY <1>1, <2>5, CreationKeepsInv
  <2> QED BY <2>1, <2>2, <2>3, <2>4, <2>5
<1>5. CASE InvitationCommand
  <2>1. ASSUME NEW a \in Users, NEW i \in InviteIds, Accept(a, i) PROVE OwnershipInv'
    BY <1>1, <2>1, AcceptKeepsInv DEF Accept, MayAccept, MayAcceptLate
  <2>2. CASE \E a, u \in Users, w \in Workspaces, r \in AskRoles : Invite(a, w, u, r)
    BY <1>1, <1>2, <2>2, KeptByRest
  <2>3. CASE \E a \in Users, i \in InviteIds : Revoke(a, i) BY <1>1, <1>2, <2>3, KeptByRest
  <2> QED BY <1>5, <2>1, <2>2, <2>3 DEF InvitationCommand
<1>6. CASE AccountCommand BY <1>1, <1>2, <1>6, KeptByRest
<1>7. CASE PurgeHistory BY <1>1, <1>2, <1>7, KeptByPurge
<1>8. CASE \E i \in InviteIds : Lapse(i) BY <1>1, <1>2, <1>8, KeptByRest
<1>9. CASE UNCHANGED vars BY <1>1, <1>2, <1>9, KeptByRest
<1> QED BY <1>3, <1>4, <1>5, <1>6, <1>7, <1>8, <1>9 DEF Next

\* A Workspace that exists has exactly one current owner membership and it is
\* active, whatever is transferred, reassigned, left, suspended or deleted.
THEOREM OwnershipIsUnique == Spec => []OneOwner
<1>1. OwnershipInv => OneOwner BY DEF OwnershipInv
<1> QED BY <1>1, InitOwnership, NextOwnership, PTL DEF Spec

\* However often a User leaves and returns, one current membership per Workspace.
THEOREM MembershipIsUnique == Spec => []OneMembership
<1>1. OwnershipInv => OneMembership BY DEF OwnershipInv
<1> QED BY <1>1, InitOwnership, NextOwnership, PTL DEF Spec

-------------------------------------------------------------------------------
(* Administration. *)

AdministrationInv == TypeOK /\ AdministratorRemains

\* Only account commands write the users table.
LEMMA AccountsUnchanged ==
  ASSUME TypeOK, Next, ~AccountCommand PROVE user' = user
<1>0. user \in [Users -> UserRows] BY DEF TypeOK
<1>1. ASSUME NEW s, NEW m, NEW i, NEW t, Write(Rows(NoRows, s, m, i, t)) PROVE user' = user
  BY <1>0, <1>1, PutNothing DEF Write, Rows
<1>2. CASE MemberCommand
  <2>1. ASSUME NEW a \in Users, NEW m \in MemberIds, NEW r \in AskRoles, SetRole(a, m, r)
        PROVE  user' = user
    BY <1>1, <2>1 DEF SetRole, SetRoleRows
  <2>2. ASSUME NEW a \in Users, NEW m \in MemberIds, Suspend(a, m) PROVE user' = user
    BY <1>1, <2>2 DEF Suspend, SuspendRows, NoChange
  <2>3. ASSUME NEW a \in Users, NEW m \in MemberIds, Reactivate(a, m) PROVE user' = user
    BY <1>1, <2>3 DEF Reactivate, ReactivateRows
  <2>4. ASSUME NEW a \in Users, NEW m \in MemberIds, Terminate(a, m) \/ Leave(a, m)
        PROVE  user' = user
    BY <1>1, <2>4 DEF Terminate, Leave, EndRows
  <2>5. ASSUME NEW a \in Users, NEW m \in MemberIds, Transfer(a, m) PROVE user' = user
    BY <1>1, <2>5 DEF Transfer, TransferRows
  <2>6. ASSUME NEW a \in Users, NEW m \in MemberIds, NEW b \in BOOLEAN, Select(a, m, b)
        PROVE  user' = user
    BY <1>1, <2>6 DEF Select, SelectRows
  <2> QED BY <1>2, <2>1, <2>2, <2>3, <2>4, <2>5, <2>6 DEF MemberCommand
<1>3. CASE WorkspaceCommand
  <2>1. ASSUME NEW a \in Users, NEW w \in Workspaces, NEW n \in Users, NEW expected \in Users,
               Reassign(a, w, n, expected)
        PROVE  user' = user
    BY <1>1, <2>1 DEF Reassign, ReassignRows, NoChange
  <2>2. ASSUME NEW a \in Users, NEW w \in Workspaces, Freeze(a, w) \/ Unfreeze(a, w)
        PROVE  user' = user
    BY <1>1, <2>2 DEF Freeze, Unfreeze, SetFrozenRows
  <2>3. ASSUME NEW a \in Users, NEW w \in Workspaces, Archive(a, w) \/ Restore(a, w)
        PROVE  user' = user
    BY <1>1, <2>3 DEF Archive, Restore, StateRows
  <2>4. ASSUME NEW a \in Users, NEW w \in Workspaces, Delete(a, w) PROVE user' = user
    BY <1>1, <2>4 DEF Delete, DeleteRows
  <2>5. ASSUME NEW a \in Users, NEW w \in Workspaces, NEW o \in Users, Create(a, w, o)
        PROVE  user' = user
    BY <1>1, <2>5 DEF Create, CreateRows
  <2> QED BY <1>3, <2>1, <2>2, <2>3, <2>4, <2>5 DEF WorkspaceCommand
<1>4. CASE InvitationCommand
  BY <1>1, <1>4 DEF InvitationCommand, Invite, InviteRow, Accept, AcceptRows, Revoke,
                    RevokeRows, NoChange
<1>5. CASE PurgeHistory BY <1>1, <1>5 DEF PurgeHistory
<1>6. CASE \E i \in InviteIds : Lapse(i) BY <1>6 DEF Lapse
<1> QED BY <1>2, <1>3, <1>4, <1>5, <1>6 DEF Next

LEMMA NextAdministration == AdministrationInv /\ [Next]_vars => AdministrationInv'
<1> SUFFICES ASSUME AdministrationInv, [Next]_vars PROVE AdministrationInv' OBVIOUS
<1>0. TypeOK /\ TypeOK' BY NextType DEF AdministrationInv
<1>1. CASE user' = user
  BY <1>0, <1>1 DEF AdministrationInv, AdministratorRemains, Governs
<1>2. CASE AccountCommand
  <2>1. PICK a \in Users, u \in Users :
          \/ \E b \in BOOLEAN : SetActive(a, u, b)
          \/ \E r \in SystemRoles : SetSystemRole(a, u, r)
    BY <1>2 DEF AccountCommand
  <2>2. user[a] \in UserRows /\ user[u] \in UserRows BY <1>0 DEF TypeOK
  <2>3. CASE \E b \in BOOLEAN : SetActive(a, u, b)
    <3>1. PICK b \in BOOLEAN : MaySetActive(a, u, b) /\ Write(SetActiveRows(u, b))
      BY <2>3 DEF SetActive
    <3>2. user' = Put(Row(u, [user[u] EXCEPT !.active = b]), user)
      BY <3>1 DEF Write, SetActiveRows, Rows
    <3>3. user'[a] = IF a = u THEN [user[u] EXCEPT !.active = b] ELSE user[a]
      BY <1>0, <3>2, PutRow DEF TypeOK
    <3>4. user'[a].active = user[a].active /\ user'[a].role = user[a].role
      BY <2>2, <3>1, <3>3 DEF MaySetActive, Governs, UserRows
    <3> QED BY <1>0, <3>1, <3>4 DEF AdministrationInv, AdministratorRemains, MaySetActive, Governs
  <2>4. CASE \E r \in SystemRoles : SetSystemRole(a, u, r)
    <3>1. PICK r \in SystemRoles : MaySetSystemRole(a, u, r) /\ Write(SetSystemRoleRows(u, r))
      BY <2>4 DEF SetSystemRole
    <3>2. user' = Put(Row(u, [user[u] EXCEPT !.role = r]), user)
      BY <3>1 DEF Write, SetSystemRoleRows, Rows
    <3>3. user'[a] = IF a = u THEN [user[u] EXCEPT !.role = r] ELSE user[a]
      BY <1>0, <3>2, PutRow DEF TypeOK
    <3>4. user'[a].active = user[a].active /\ user'[a].role = user[a].role
      BY <2>2, <3>1, <3>3 DEF MaySetSystemRole, MayGovernInstance, Governs, UserRows
    <3> QED BY <1>0, <3>1, <3>4 DEF AdministrationInv, AdministratorRemains, MaySetSystemRole, Governs
  <2> QED BY <2>1, <2>3, <2>4
<1>3. CASE Next /\ ~AccountCommand BY <1>0, <1>1, <1>3, AccountsUnchanged
<1>4. CASE UNCHANGED vars BY <1>1, <1>4 DEF vars
<1> QED BY <1>2, <1>3, <1>4

\* The instance never loses its last active administrator: administrators may
\* demote and deactivate each other, never themselves.
THEOREM AdministratorStays == Spec => []AdministratorRemains
<1>1. Init => AdministrationInv
  <2>1. Init => AdministratorRemains
    BY DEF Init, AdministratorRemains, Governs, MayGovernInstance
  <2> QED BY <2>1, InitType DEF AdministrationInv
<1>2. AdministrationInv => AdministratorRemains BY DEF AdministrationInv
<1> QED BY <1>1, <1>2, NextAdministration, PTL DEF Spec

-------------------------------------------------------------------------------
(* Memberships and invitations.  NoInvitedMember, OnePending and            *)
(* SeatsOfMembers hold because every step is orderly: whoever is admitted   *)
(* has no invitation left, whoever is invited is no member and has no other *)
(* invitation, and selections stay with current memberships.                *)

SamePair(x, y) == x[1] = y[1] /\ x[2] = y[2]
Pending(i) == invite[i].status = "pending"

NothingAskedBeforeCreation == \A i \in InviteIds :
  space[i[1]].state = "absent" => invite[i].status = "unused"

MembershipInv ==
  /\ OwnershipInv
  /\ NothingAskedBeforeCreation /\ NoInvitedMember /\ OnePending /\ SeatsOfMembers

Orderly ==
  /\ \A w \in Workspaces : space'[w].state = "absent" => space[w].state = "absent"
  /\ \A i \in InviteIds : invite[i].status = "unused" /\ invite'[i].status # "unused" =>
       space'[i[1]].state # "absent"
  /\ \A m \in MemberIds : Current(m)' /\ ~Current(m) =>
       \A i \in InviteIds : SamePair(i, m) => ~Pending(i)'
  /\ \A i \in InviteIds : Pending(i)' /\ ~Pending(i) =>
       /\ \A m \in MemberIds : SamePair(i, m) => ~Current(m)'
       /\ \A j \in InviteIds : Pending(j)' /\ SamePair(i, j) => j = i
  /\ \A m \in MemberIds : seat'[m] => Current(m)'

LEMMA InviteParts == ASSUME NEW i \in InviteIds PROVE i[1] \in Workspaces /\ i[2] \in Users
BY DEF InviteIds

LEMMA InPairInvites == ASSUME NEW w \in Workspaces, NEW u \in Users, NEW i
  PROVE i \in {w} \X {u} \X Serials <=> i \in InviteIds /\ i[1] = w /\ i[2] = u
BY DEF InviteIds

LEMMA OrderlyInv ==
  MembershipInv /\ OwnershipInv' /\ Orderly => MembershipInv'
<1> SUFFICES ASSUME MembershipInv, OwnershipInv', Orderly PROVE MembershipInv' OBVIOUS
<1>1. NothingAskedBeforeCreation'
  BY InviteParts DEF NothingAskedBeforeCreation, Orderly, MembershipInv
<1>2. NoInvitedMember'
  <2> SUFFICES ASSUME NEW i \in InviteIds, Pending(i)', NEW m \in CurrentOf(i[1], i[2])'
               PROVE  FALSE
    BY DEF NoInvitedMember, Pending
  <2>1. m \in MemberIds /\ SamePair(i, m) /\ Current(m)'
    BY InPair, InviteParts DEF CurrentOf, SamePair
  <2>2. Current(m) BY <2>1 DEF Orderly, SamePair
  <2>3. Pending(i) BY <2>1 DEF Orderly
  <2>4. m \in CurrentOf(i[1], i[2]) BY <2>1, <2>2, InPair, InviteParts DEF CurrentOf, SamePair
  <2> QED BY <2>3, <2>4 DEF MembershipInv, NoInvitedMember, Pending
<1>3. OnePending'
  BY DEF OnePending, Orderly, MembershipInv, Pending, SamePair
<1>4. SeatsOfMembers' BY DEF SeatsOfMembers, Orderly
<1> QED BY <1>1, <1>2, <1>3, <1>4 DEF MembershipInv

\* How the tables read after a write.
LEMMA Written ==
  ASSUME TypeOK, NEW r, Write(r)
  PROVE  /\ \A w \in Workspaces :
              space'[w] = IF w \in DOMAIN r.space THEN r.space[w] ELSE space[w]
         /\ \A m \in MemberIds :
              member'[m] = IF m \in DOMAIN r.member THEN r.member[m] ELSE member[m]
         /\ \A i \in InviteIds :
              invite'[i] = IF i \in DOMAIN r.invite THEN r.invite[i] ELSE invite[i]
         /\ \A m \in MemberIds :
              seat'[m] = IF m \in DOMAIN r.seat THEN r.seat[m] ELSE seat[m]
BY DEF Write, Put, TypeOK

LEMMA RowsParts ==
  /\ \A u, s, m, i, t : /\ Rows(u, s, m, i, t).space = s /\ Rows(u, s, m, i, t).member = m
                        /\ Rows(u, s, m, i, t).invite = i /\ Rows(u, s, m, i, t).seat = t
                        /\ Rows(u, s, m, i, t).user = u
  /\ DOMAIN NoRows = {}
  /\ \A x, image : DOMAIN Row(x, image) = {x} /\ Row(x, image)[x] = image
  /\ \A ids : /\ DOMAIN Revoked(ids) = ids
              /\ \A i \in ids : Revoked(ids)[i] = [invite[i] EXCEPT !.status = "revoked"]
BY DEF Rows, NoRows, Row, Revoked

LEMMA StatusSet ==
  ASSUME TypeOK
  PROVE  /\ \A m \in MemberIds : \A s : /\ [member[m] EXCEPT !.status = s].status = s
                                        /\ [member[m] EXCEPT !.status = s].role = member[m].role
         /\ \A m \in MemberIds : \A r : /\ [member[m] EXCEPT !.role = r].status = member[m].status
                                        /\ [member[m] EXCEPT !.role = r].role = r
         /\ \A i \in InviteIds : \A s : [invite[i] EXCEPT !.status = s].status = s
         /\ \A w \in Workspaces : \A s : /\ [space[w] EXCEPT !.state = s].state = s
                                         /\ [space[w] EXCEPT !.state = s].frozen = space[w].frozen
         /\ \A w \in Workspaces : \A b : /\ [space[w] EXCEPT !.frozen = b].state = space[w].state
                                         /\ [space[w] EXCEPT !.frozen = b].frozen = b
<1>1. ASSUME NEW m \in MemberIds PROVE member[m] \in MemberRows BY DEF TypeOK
<1>2. ASSUME NEW i \in InviteIds PROVE invite[i] \in InviteRows BY DEF TypeOK
<1>3. ASSUME NEW w \in Workspaces PROVE space[w] \in SpaceRows BY DEF TypeOK
<1>4. \A m \in MemberIds : \A s : /\ [member[m] EXCEPT !.status = s].status = s
                                  /\ [member[m] EXCEPT !.status = s].role = member[m].role
  BY <1>1 DEF MemberRows
<1>5. \A m \in MemberIds : \A r : /\ [member[m] EXCEPT !.role = r].status = member[m].status
                                  /\ [member[m] EXCEPT !.role = r].role = r
  BY <1>1 DEF MemberRows
<1>6. \A i \in InviteIds : \A s : [invite[i] EXCEPT !.status = s].status = s
  BY <1>2 DEF InviteRows
<1>7. \A w \in Workspaces : \A s : /\ [space[w] EXCEPT !.state = s].state = s
                                   /\ [space[w] EXCEPT !.state = s].frozen = space[w].frozen
  BY <1>3 DEF SpaceRows
<1>8. \A w \in Workspaces : \A b : /\ [space[w] EXCEPT !.frozen = b].state = space[w].state
                                   /\ [space[w] EXCEPT !.frozen = b].frozen = b
  BY <1>3 DEF SpaceRows
<1> QED BY <1>4, <1>5, <1>6, <1>7, <1>8

\* A write that closes invitations at most, where nobody is admitted.
Closing ==
  /\ \A i \in InviteIds : \/ invite'[i] = invite[i]
                          \/ invite[i].status # "unused" /\ invite'[i].status \in {"revoked", "gone"}
  /\ \A m \in MemberIds : Current(m)' => Current(m)
  /\ \A m \in MemberIds : seat'[m] => Current(m)'
  /\ \A w \in Workspaces : space'[w].state = "absent" => space[w].state = "absent"

LEMMA ClosingIsOrderly == MembershipInv /\ Closing => Orderly
BY DEF Closing, Orderly, Pending

\* A write that stays within one Workspace.
Within(r, w) ==
  /\ DOMAIN r.space \subseteq {w}
  /\ \A m \in DOMAIN r.member \cup DOMAIN r.seat : m[1] = w
  /\ \A i \in DOMAIN r.invite : i[1] = w

OnlyIn(w) ==
  /\ \A v \in Workspaces : v # w => space'[v] = space[v]
  /\ \A m \in MemberIds : m[1] # w => member'[m] = member[m] /\ seat'[m] = seat[m]
  /\ \A i \in InviteIds : i[1] # w => invite'[i] = invite[i]

LEMMA WithinOnly ==
  ASSUME TypeOK, NEW r, NEW w, Write(r), Within(r, w) PROVE OnlyIn(w)
BY Written DEF Within, OnlyIn

LEMMA WithinRows ==
  /\ \A w : Within(NoChange, w)
  /\ \A m \in MemberIds :
       /\ \A r : Within(SetRoleRows(m, r), m[1])
       /\ Within(SuspendRows(m), m[1])
       /\ Within(ReactivateRows(m), m[1])
       /\ Within(EndRows(m), m[1])
       /\ \A b : Within(SelectRows(m, b), m[1])
  /\ \A w : /\ \A b : Within(SetFrozenRows(w, b), w)
            /\ \A s : Within(StateRows(w, s), w)
            /\ \A o : Within(CreateRows(w, o), w)
            /\ Within(DeleteRows(w), w)
  /\ \A i \in InviteIds : Within(RevokeRows(i), i[1])
<1>1. \A w : Within(NoChange, w)
  BY DEF Rows, NoRows, Row, Revoked, Within, NoChange
<1>2. \A w, u : \A i \in PendingOf(w, u) : i[1] = w
  BY DEF PendingOf
<1>3. ASSUME NEW m \in MemberIds
      PROVE  /\ \A r : Within(SetRoleRows(m, r), m[1])
             /\ Within(SuspendRows(m), m[1])
             /\ Within(ReactivateRows(m), m[1])
             /\ Within(EndRows(m), m[1])
             /\ \A b : Within(SelectRows(m, b), m[1])
  <2>1. ASSUME NEW image, NEW t, DOMAIN t \subseteq {m}
        PROVE  /\ Within(Rows(NoRows, NoRows, Row(m, image), NoRows, t), m[1])
               /\ Within(Rows(NoRows, NoRows, Row(m, image), Revoked(PendingOf(m[1], m[2])), t), m[1])
    BY <1>2, <2>1 DEF Rows, NoRows, Row, Revoked, Within
  <2>2. \A b : Within(SelectRows(m, b), m[1])
    BY DEF Rows, NoRows, Row, Revoked, Within, SelectRows
  <2>3. DOMAIN NoRows \subseteq {m} /\ DOMAIN Row(m, FALSE) \subseteq {m}
    BY DEF NoRows, Row
  <2> QED BY <1>1, <2>1, <2>2, <2>3 DEF SetRoleRows, SuspendRows, ReactivateRows, EndRows
<1>4. ASSUME NEW w
      PROVE  /\ \A b : Within(SetFrozenRows(w, b), w)
             /\ \A s : Within(StateRows(w, s), w)
             /\ \A o : Within(CreateRows(w, o), w)
             /\ Within(DeleteRows(w), w)
  <2>1. \A b : Within(SetFrozenRows(w, b), w)
    BY DEF Rows, NoRows, Row, Revoked, Within, SetFrozenRows
  <2>2. \A s : Within(StateRows(w, s), w)
    BY DEF Rows, NoRows, Row, Revoked, Within, StateRows
  <2>3. \A o : Within(CreateRows(w, o), w)
    BY DEF Rows, NoRows, Row, Revoked, Within, CreateRows
  <2>4. Within(DeleteRows(w), w)
    BY DEF Rows, NoRows, Row, Revoked, Within, DeleteRows
  <2> QED BY <2>1, <2>2, <2>3, <2>4
<1>5. \A i \in InviteIds : Within(RevokeRows(i), i[1])
  BY <1>1 DEF Rows, NoRows, Row, Revoked, Within, RevokeRows
<1> QED BY <1>1, <1>3, <1>4, <1>5

\* What has ended stays as it is or is retired.
HistoryKept ==
  /\ \A m \in MemberIds : member[m].status \in {"ended", "gone"} =>
       member'[m] = member[m] \/ member'[m].status = "gone"
  /\ \A i \in InviteIds : invite[i].status \in {"accepted", "revoked", "gone"} =>
       invite'[i] = invite[i] \/ invite'[i].status = "gone"

\* One membership row is written and invitations are revoked.
LEMMA MemberRowWritten ==
  ASSUME TypeOK, NEW m \in MemberIds, NEW image, NEW ids, NEW t,
         ids = {} \/ ids = PendingOf(m[1], m[2]), DOMAIN t \subseteq {m},
         Write(Rows(NoRows, NoRows, Row(m, image), Revoked(ids), t))
  PROVE  /\ \A x \in MemberIds : member'[x] = IF x = m THEN image ELSE member[x]
         /\ \A w \in Workspaces : space'[w] = space[w]
         /\ \A i \in InviteIds : \/ invite'[i] = invite[i]
                                 \/ Pending(i) /\ invite'[i].status = "revoked"
         /\ \A i \in ids : invite'[i].status = "revoked"
         /\ \A x \in MemberIds : x # m => seat'[x] = seat[x]
         /\ seat'[m] = IF m \in DOMAIN t THEN t[m] ELSE seat[m]
<1> DEFINE r == Rows(NoRows, NoRows, Row(m, image), Revoked(ids), t)
<1>1. /\ r.space = NoRows /\ r.member = Row(m, image) /\ r.invite = Revoked(ids) /\ r.seat = t
  BY RowsParts
<1>2. ids \in SUBSET InviteIds /\ \A i \in ids : Pending(i)
  BY MemberIdParts, PendingType DEF PendingOf, Pending
<1> HIDE DEF r
<1>3. Write(r) BY DEF r
<1>4. ASSUME NEW i \in ids PROVE invite'[i].status = "revoked"
  <2>1. invite'[i] = [invite[i] EXCEPT !.status = "revoked"]
    BY <1>1, <1>2, <1>3, Written DEF Revoked
  <2>2. i \in InviteIds BY <1>2
  <2> QED BY <2>1, <2>2, StatusSet
<1>5. \A w \in Workspaces : space'[w] = space[w]
  BY <1>1, <1>3, Written DEF NoRows
<1>6. \A x \in MemberIds : member'[x] = IF x = m THEN image ELSE member[x]
  BY <1>1, <1>3, Written DEF Row
<1>7. \A i \in InviteIds : i \notin ids => invite'[i] = invite[i]
  BY <1>1, <1>3, Written DEF Revoked
<1>8. /\ \A x \in MemberIds : x # m => seat'[x] = seat[x]
      /\ seat'[m] = IF m \in DOMAIN t THEN t[m] ELSE seat[m]
  BY <1>1, <1>3, Written
<1> QED BY <1>2, <1>4, <1>5, <1>6, <1>7, <1>8

LEMMA NobodyRevoked == NoRows = Revoked({})
BY DEF NoRows, Revoked

\* A frozen Workspace grants reading only.
LEMMA FrozenGrants ==
  ASSUME NEW grade, NEW action, NEW relation, Allowed(grade, action, "frozen", relation)
  PROVE  action \in {"private_annotation.read", "project_annotation.read", "workspace.export",
                     "workspace.read", "project_annotation.review", "project_governance.read"}
<1> DEFINE reads == {"private_annotation.read", "project_annotation.read", "workspace.export",
                     "workspace.read", "project_annotation.review", "project_governance.read"}
<1>1. PICK base \in Roles : <<action, "frozen", relation>> \in Grants[base]
  BY DEF Allowed
<1>2. ASSUME NEW actions, NEW lifecycles, NEW relations,
             <<action, "frozen", relation>> \in Grant(actions, lifecycles, relations)
      PROVE  "frozen" \in lifecycles /\ action \in actions
  BY <1>2 DEF Grant
<1>3. <<action, "frozen", relation>> \in ViewerGrants => action \in reads
  BY <1>2 DEF ViewerGrants
<1>4. <<action, "frozen", relation>> \in ReviewerGrants => action \in reads
  BY <1>2 DEF ReviewerGrants
<1>5. <<action, "frozen", relation>> \in EditorGrants => action \in reads
  BY <1>2 DEF EditorGrants
<1>6. <<action, "frozen", relation>> \in AdminGrants => action \in reads
  BY <1>2 DEF AdminGrants
<1>7. <<action, "frozen", relation>> \in OwnerGrants => action \in reads
  BY <1>2 DEF OwnerGrants
<1> QED BY <1>1, <1>3, <1>4, <1>5, <1>6, <1>7 DEF Grants, Roles

LEMMA FrozenForbids ==
  ASSUME TypeOK, NEW a, NEW w \in Workspaces, NEW action, NEW relation,
         Authorized(a, w, action, relation),
         action \in {"workspace_member.promote", "workspace_member.change_role",
                     "workspace_member.suspend", "workspace_member.reactivate",
                     "workspace_member.terminate", "workspace_member.leave",
                     "workspace_member.transfer_ownership", "workspace.archive",
                     "workspace.restore", "workspace.delete", "workspace_invitation.create",
                     "workspace_invitation.revoke", "project_participation.join",
                     "project_participation.leave"}
  PROVE  ~space[w].frozen
BY FrozenGrants DEF Authorized, Lifecycle

\* Commands on one membership close at most, and leave history alone.
LEMMA MemberCommandsClose ==
  ASSUME MembershipInv, NEW a \in Users, NEW m \in MemberIds,
         \/ \E r \in AskRoles : SetRole(a, m, r)
         \/ Suspend(a, m)
         \/ Reactivate(a, m)
         \/ Terminate(a, m)
         \/ Leave(a, m)
         \/ \E b \in BOOLEAN : Select(a, m, b)
  PROVE  Closing /\ OnlyIn(m[1]) /\ HistoryKept /\ ~space[m[1]].frozen
<1>0. /\ TypeOK /\ member[m] \in MemberRows /\ m[1] \in Workspaces /\ m[2] \in Users
      /\ \A x \in MemberIds : seat[x] => Current(x)
  BY MemberIdParts DEF MembershipInv, OwnershipInv, TypeOK, SeatsOfMembers
<1>1. ASSUME NEW image, NEW ids, NEW t, Current(m),
             image.status \in {"active", "suspended"} \/ (m \in DOMAIN t /\ ~t[m]),
             DOMAIN t = {} \/ (DOMAIN t = {m} /\ ~t[m]),
             ids = {} \/ ids = PendingOf(m[1], m[2]),
             Write(Rows(NoRows, NoRows, Row(m, image), Revoked(ids), t))
      PROVE  Closing /\ HistoryKept
  <2>1. /\ \A x \in MemberIds : member'[x] = IF x = m THEN image ELSE member[x]
        /\ \A w \in Workspaces : space'[w] = space[w]
        /\ \A i \in InviteIds : \/ invite'[i] = invite[i]
                                \/ Pending(i) /\ invite'[i].status = "revoked"
        /\ \A x \in MemberIds : x # m => seat'[x] = seat[x]
        /\ seat'[m] = IF m \in DOMAIN t THEN t[m] ELSE seat[m]
    BY <1>0, <1>1, MemberRowWritten
  <2>2. \A x \in MemberIds : Current(x)' => Current(x) BY <1>1, <2>1 DEF Current
  <2>3. \A x \in MemberIds : seat'[x] => Current(x)' BY <1>0, <1>1, <2>1 DEF Current
  <2>4. Closing BY <2>1, <2>2, <2>3 DEF Closing, Pending
  <2>5. HistoryKept BY <1>1, <2>1 DEF HistoryKept, Current, Pending
  <2> QED BY <2>4, <2>5
<1>2. ASSUME NEW r, Write(r), Within(r, m[1]) PROVE OnlyIn(m[1])
  BY <1>0, <1>2, WithinOnly
<1>3. DOMAIN NoRows = {} /\ DOMAIN Row(m, FALSE) = {m} /\ Row(m, FALSE)[m] = FALSE
  BY DEF NoRows, Row
<1>4. CASE \E r \in AskRoles : SetRole(a, m, r)
  <2>1. PICK r \in AskRoles : MaySetRole(a, m, r) /\ Write(SetRoleRows(m, r))
    BY <1>4 DEF SetRole
  <2>2. ~space[m[1]].frozen
    BY <1>0, <2>1, FrozenForbids DEF MaySetRole, RoleAction
  <2>3. Current(m) BY <2>1 DEF MaySetRole
  <2> DEFINE image == [member[m] EXCEPT !.role = r]
  <2>4. image.status = member[m].status BY <1>0 DEF MemberRows
  <2>5. Write(Rows(NoRows, NoRows, Row(m, image), Revoked({}), NoRows))
    BY <2>1, NobodyRevoked DEF SetRoleRows
  <2> HIDE DEF image
  <2>6. Closing /\ HistoryKept BY <1>1, <1>3, <2>3, <2>4, <2>5 DEF Current
  <2> QED BY <1>2, <2>1, <2>2, <2>6, WithinRows
<1>5. CASE Suspend(a, m)
  <2>1. Current(m) /\ Write(SuspendRows(m)) /\ ~space[m[1]].frozen
    BY <1>0, <1>5, FrozenForbids DEF Suspend, MaySuspend
  <2>2. CASE member[m].status = "suspended"
    <3>1. /\ \A x \in MemberIds : member'[x] = member[x] /\ seat'[x] = seat[x]
          /\ \A w \in Workspaces : space'[w] = space[w]
          /\ \A i \in InviteIds : invite'[i] = invite[i]
      BY <1>0, <2>1, <2>2, Written DEF SuspendRows, NoChange, Rows, NoRows
    <3>2. Closing BY <1>0, <3>1 DEF Closing, Current
    <3>3. HistoryKept BY <3>1 DEF HistoryKept
    <3> QED BY <1>2, <2>1, <3>2, <3>3, WithinRows
  <2>3. CASE member[m].status # "suspended"
    <3>1. [member[m] EXCEPT !.status = "suspended"].status = "suspended" BY <1>0, StatusSet
    <3>2. Write(Rows(NoRows, NoRows, Row(m, [member[m] EXCEPT !.status = "suspended"]),
                     Revoked(PendingOf(m[1], m[2])), NoRows))
      BY <2>1, <2>3 DEF SuspendRows
    <3>3. Closing /\ HistoryKept BY <1>1, <1>3, <2>1, <3>1, <3>2
    <3> QED BY <1>2, <2>1, <3>3, WithinRows
  <2> QED BY <2>2, <2>3
<1>6. CASE Reactivate(a, m)
  <2>1. Current(m) /\ Write(ReactivateRows(m)) /\ ~space[m[1]].frozen
    BY <1>0, <1>6, FrozenForbids DEF Reactivate, MayReactivate
  <2>2. [member[m] EXCEPT !.status = "active"].status = "active" BY <1>0, StatusSet
  <2>3. Write(Rows(NoRows, NoRows, Row(m, [member[m] EXCEPT !.status = "active"]),
                   Revoked({}), NoRows))
    BY <2>1, NobodyRevoked DEF ReactivateRows
  <2>4. Closing /\ HistoryKept BY <1>1, <1>3, <2>1, <2>2, <2>3
  <2> QED BY <1>2, <2>1, <2>4, WithinRows
<1>7. CASE Terminate(a, m) \/ Leave(a, m)
  <2>1. Current(m) /\ Write(EndRows(m)) /\ ~space[m[1]].frozen
    BY <1>0, <1>7, FrozenForbids DEF Terminate, MayTerminate, Leave, MayLeave, Current
  <2>2. Write(Rows(NoRows, NoRows, Row(m, [member[m] EXCEPT !.status = "ended"]),
                   Revoked(PendingOf(m[1], m[2])), Row(m, FALSE)))
    BY <2>1 DEF EndRows
  <2>3. Closing /\ HistoryKept BY <1>1, <1>3, <2>1, <2>2
  <2> QED BY <1>2, <2>1, <2>3, WithinRows
<1>8. CASE \E b \in BOOLEAN : Select(a, m, b)
  <2>1. PICK b \in BOOLEAN : MaySelect(a, m, b) /\ Write(SelectRows(m, b))
    BY <1>8 DEF Select
  <2>2. ~space[m[1]].frozen
    BY <1>0, <2>1, FrozenForbids DEF MaySelect, SelectAction
  <2>3. /\ \A x \in MemberIds : member'[x] = member[x] /\ (x # m => seat'[x] = seat[x])
        /\ \A w \in Workspaces : space'[w] = space[w]
        /\ \A i \in InviteIds : invite'[i] = invite[i]
    BY <1>0, <2>1, Written DEF SelectRows, Rows, NoRows, Row
  <2>4. Current(m)' BY <2>1, <2>3 DEF MaySelect, Current
  <2>5. Closing BY <1>0, <2>3, <2>4 DEF Closing, Current
  <2>6. HistoryKept BY <2>3 DEF HistoryKept
  <2> QED BY <1>2, <2>1, <2>2, <2>5, <2>6, WithinRows
<1> QED BY <1>4, <1>5, <1>6, <1>7, <1>8

\* Commands on the root close at most; deletion takes everything along.
LEMMA SpaceCommandsClose ==
  ASSUME MembershipInv, NEW a \in Users, NEW w \in Workspaces,
         \/ Freeze(a, w)
         \/ Unfreeze(a, w)
         \/ Archive(a, w)
         \/ Restore(a, w)
         \/ Delete(a, w)
  PROVE  /\ Closing /\ OnlyIn(w) /\ HistoryKept
         /\ space[w].frozen /\ space'[w].frozen =>
              /\ space'[w] = space[w]
              /\ \A m \in MemberIds : member'[m] = member[m] /\ seat'[m] = seat[m]
              /\ \A i \in InviteIds : invite'[i] = invite[i]
<1>0. /\ TypeOK /\ space[w] \in SpaceRows /\ \A x \in MemberIds : seat[x] => Current(x)
  BY DEF MembershipInv, OwnershipInv, TypeOK, SeatsOfMembers
<1>1. ASSUME NEW image, Write(Rows(NoRows, Row(w, image), NoRows, NoRows, NoRows)),
             Exists(w), image.state # "absent"
      PROVE  /\ Closing /\ HistoryKept /\ space'[w] = image
             /\ \A m \in MemberIds : member'[m] = member[m] /\ seat'[m] = seat[m]
             /\ \A i \in InviteIds : invite'[i] = invite[i]
  <2>1. /\ \A x \in MemberIds : member'[x] = member[x] /\ seat'[x] = seat[x]
        /\ \A v \in Workspaces : space'[v] = IF v = w THEN image ELSE space[v]
        /\ \A i \in InviteIds : invite'[i] = invite[i]
    BY <1>0, <1>1, Written DEF Rows, NoRows, Row
  <2>2. Closing BY <1>0, <1>1, <2>1 DEF Closing, Current
  <2>3. HistoryKept BY <2>1 DEF HistoryKept
  <2> QED BY <2>1, <2>2, <2>3
<1>2. ASSUME NEW r, Write(r), Within(r, w) PROVE OnlyIn(w)
  BY <1>0, <1>2, WithinOnly
<1>3. CASE Freeze(a, w) \/ Unfreeze(a, w)
  <2>1. PICK b \in BOOLEAN : Exists(w) /\ Write(SetFrozenRows(w, b))
    BY <1>3 DEF Freeze, Unfreeze, MaySetFrozen
  <2> DEFINE image == [space[w] EXCEPT !.frozen = b]
  <2>2. image.state # "absent" /\ image.frozen = b BY <1>0, <2>1, StatusSet DEF Exists
  <2>3. space[w].frozen /\ b => image = space[w] BY <1>0 DEF SpaceRows
  <2>4. Write(Rows(NoRows, Row(w, image), NoRows, NoRows, NoRows)) BY <2>1 DEF SetFrozenRows
  <2> HIDE DEF image
  <2>5. /\ Closing /\ HistoryKept /\ space'[w] = image
        /\ \A m \in MemberIds : member'[m] = member[m] /\ seat'[m] = seat[m]
        /\ \A i \in InviteIds : invite'[i] = invite[i]
    BY <1>1, <2>1, <2>2, <2>4
  <2> QED BY <1>2, <2>1, <2>2, <2>3, <2>5, WithinRows
<1>4. CASE Archive(a, w) \/ Restore(a, w)
  <2>1. PICK s \in {"active", "archived"} : Exists(w) /\ ~space[w].frozen /\ Write(StateRows(w, s))
    BY <1>0, <1>4, FrozenForbids DEF Archive, MayArchive, Restore, MayRestore, Authorized
  <2> DEFINE image == [space[w] EXCEPT !.state = s]
  <2>2. image.state # "absent" BY <1>0, <2>1, StatusSet
  <2>3. Write(Rows(NoRows, Row(w, image), NoRows, NoRows, NoRows)) BY <2>1 DEF StateRows
  <2> HIDE DEF image
  <2>4. Closing /\ HistoryKept BY <1>1, <2>1, <2>2, <2>3
  <2> QED BY <1>2, <2>1, <2>4, WithinRows
<1>5. CASE Delete(a, w)
  <2>1. ~space[w].frozen /\ Write(DeleteRows(w)) BY <1>5 DEF Delete, MayDelete
  <2>2. /\ space'[w].state = "deleted"
        /\ \A v \in Workspaces : v # w => space'[v] = space[v]
    <3>1. /\ space'[w] = [space[w] EXCEPT !.state = "deleted"]
          /\ \A v \in Workspaces : v # w => space'[v] = space[v]
      BY <1>0, <2>1, Written DEF DeleteRows, Rows, Row
    <3> QED BY <1>0, <3>1, StatusSet
  <2>a. \A m \in DOMAIN DeleteRows(w).member :
          DeleteRows(w).member[m] = [member[m] EXCEPT !.status = "gone"]
    BY DEF DeleteRows, Rows
  <2>b. \A i \in DOMAIN DeleteRows(w).invite :
          /\ invite[i].status # "unused"
          /\ DeleteRows(w).invite[i] = [invite[i] EXCEPT !.status = "gone"]
    BY DEF DeleteRows, Rows
  <2>3. ASSUME NEW m \in MemberIds
        PROVE  member'[m] = member[m] \/ member'[m].status = "gone"
    <3>1. member'[m] = member[m] \/ member'[m] = [member[m] EXCEPT !.status = "gone"]
      BY <1>0, <2>1, <2>a, Written
    <3>2. member[m] \in MemberRows BY <1>0 DEF TypeOK
    <3> QED BY <3>1, <3>2 DEF MemberRows
  <2>4. ASSUME NEW i \in InviteIds
        PROVE  \/ invite'[i] = invite[i]
               \/ invite[i].status # "unused" /\ invite'[i].status = "gone"
    <3>1. \/ invite'[i] = invite[i]
          \/ /\ invite[i].status # "unused"
             /\ invite'[i] = [invite[i] EXCEPT !.status = "gone"]
      BY <1>0, <2>1, <2>b, Written
    <3>2. invite[i] \in InviteRows BY <1>0 DEF TypeOK
    <3> QED BY <3>1, <3>2 DEF InviteRows
  <2>5. \A m \in MemberIds : IF m[1] = w THEN ~seat'[m]
                             ELSE member'[m] = member[m] /\ seat'[m] = seat[m]
    BY <1>0, <2>1, Written, InSpace DEF DeleteRows, Rows
  <2>6. Closing BY <1>0, <2>2, <2>3, <2>4, <2>5 DEF Closing, Current
  <2>7. HistoryKept BY <2>3, <2>4 DEF HistoryKept
  <2> QED BY <1>2, <2>1, <2>6, <2>7, WithinRows
<1> QED BY <1>3, <1>4, <1>5

\* The rows of a hand-over of ownership from o to t, where o keeps its status.
LEMMA HandOverWritten ==
  ASSUME TypeOK, NEW o \in MemberIds, NEW t \in MemberIds, NEW closed,
         Write(Rows(NoRows, NoRows, HandOver(o, t), closed, NoRows))
  PROVE  /\ member'[t] = [role |-> "owner", status |-> "active"]
         /\ \A x \in MemberIds : x # t => member'[x].status = member[x].status
         /\ \A x \in MemberIds : x \notin {o, t} => member'[x] = member[x]
         /\ \A x \in MemberIds : seat'[x] = seat[x]
         /\ \A w \in Workspaces : space'[w] = space[w]
         /\ \A i \in InviteIds :
              invite'[i] = IF i \in DOMAIN closed THEN closed[i] ELSE invite[i]
<1> DEFINE r == Rows(NoRows, NoRows, HandOver(o, t), closed, NoRows)
<1>1. /\ r.space = NoRows /\ r.seat = NoRows /\ r.invite = closed /\ r.member = HandOver(o, t)
      /\ DOMAIN NoRows = {} /\ Write(r)
  BY DEF Rows, NoRows
<1>2. /\ DOMAIN HandOver(o, t) = {o, t}
      /\ HandOver(o, t)[t] = [role |-> "owner", status |-> "active"]
      /\ o # t => HandOver(o, t)[o] = [member[o] EXCEPT !.role = "admin"]
  BY DEF HandOver
<1>3. [member[o] EXCEPT !.role = "admin"].status = member[o].status
  BY DEF TypeOK, MemberRows
<1> HIDE DEF r
<1>4. \A x \in MemberIds :
        member'[x] = IF x \in {o, t} THEN HandOver(o, t)[x] ELSE member[x]
  BY <1>1, <1>2, Written
<1>5. /\ \A x \in MemberIds : seat'[x] = seat[x]
      /\ \A w \in Workspaces : space'[w] = space[w]
      /\ \A i \in InviteIds :
           invite'[i] = IF i \in DOMAIN closed THEN closed[i] ELSE invite[i]
  BY <1>1, Written
<1> QED BY <1>2, <1>3, <1>4, <1>5

\* A transfer moves the roles of two members of the Workspace.
LEMMA TransferCloses ==
  ASSUME MembershipInv, NEW a \in Users, NEW m \in MemberIds, Transfer(a, m)
  PROVE  Closing /\ OnlyIn(m[1]) /\ HistoryKept /\ ~space[m[1]].frozen
<1> DEFINE o == CHOOSE x \in OwnersOf(m[1]) : TRUE
<1>0. /\ TypeOK /\ m[1] \in Workspaces
      /\ \A x \in MemberIds : seat[x] => Current(x)
  BY MemberIdParts DEF MembershipInv, OwnershipInv, SeatsOfMembers
<1>1. /\ member[m].status = "active" /\ OwnersOf(m[1]) # {} /\ ~space[m[1]].frozen
      /\ Write(Rows(NoRows, NoRows, HandOver(o, m), NoRows, NoRows))
  BY <1>0, FrozenForbids DEF Transfer, MayTransfer, TransferRows
<1>2. o \in OwnersOf(m[1]) BY <1>1, ChosenElement
<1>3. o \in MemberIds /\ o[1] = m[1] /\ Current(o)
  BY <1>0, <1>2, InSpace DEF OwnersOf
<1> HIDE DEF o
<1>4. /\ member'[m].status = "active"
      /\ \A x \in MemberIds : x # m => member'[x].status = member[x].status
      /\ \A x \in MemberIds : x \notin {o, m} => member'[x] = member[x]
      /\ \A x \in MemberIds : seat'[x] = seat[x]
      /\ \A w \in Workspaces : space'[w] = space[w]
      /\ \A i \in InviteIds : invite'[i] = invite[i]
  BY <1>0, <1>1, <1>3, HandOverWritten DEF NoRows
<1>5. Closing BY <1>0, <1>1, <1>4 DEF Closing, Current
<1>6. OnlyIn(m[1]) BY <1>3, <1>4 DEF OnlyIn
<1>7. HistoryKept BY <1>1, <1>3, <1>4 DEF HistoryKept, Current
<1> QED BY <1>1, <1>5, <1>6, <1>7

\* Generation t is admitted: it is no earlier generation that ended, whoever it
\* is for has no pending invitation left, and nothing else opens.
Admission(t) ==
  /\ member[t].status \in {"unused", "active", "suspended"}
  /\ \A m \in MemberIds : m # t => member'[m].status = member[m].status
  /\ \A m \in MemberIds : m # t /\ ~Current(m) => member'[m] = member[m]
  /\ \A m \in MemberIds : seat'[m] = seat[m]
  /\ Current(t)'
  /\ \A i \in InviteIds : invite'[i] = invite[i] \/ Pending(i)
  /\ \A i \in InviteIds : Pending(i)' => Pending(i) /\ ~SamePair(i, t)
  /\ \A w \in Workspaces : space'[w].state = "absent" => space[w].state = "absent"

LEMMA AdmissionIsOrderly ==
  ASSUME MembershipInv, NEW t \in MemberIds, Admission(t) PROVE Orderly /\ HistoryKept
<1>1. \A m \in MemberIds : Current(m)' /\ ~Current(m) => m = t
  BY DEF Admission, Current
<1>2. \A m \in MemberIds : seat'[m] => Current(m)'
  BY DEF Admission, Current, MembershipInv, SeatsOfMembers
<1>3. \A i \in InviteIds : invite[i].status = "unused" => invite'[i] = invite[i]
  BY DEF Admission, Pending
<1>4. Orderly BY <1>1, <1>2, <1>3 DEF Orderly, Admission
<1>5. HistoryKept BY DEF HistoryKept, Admission, Current, Pending
<1> QED BY <1>4, <1>5

\* The steps that FreezeHolds and AdmissionIsGranted allow.
FreezeStep == \A w \in Workspaces : space[w].frozen /\ space'[w].frozen =>
  /\ space'[w] = space[w]
  /\ \A m \in {w} \X Users \X Gens :
       /\ Current(m) \/ Current(m)' => member'[m] = member[m]
       /\ seat'[m] = seat[m]
  /\ \A i \in {w} \X Users \X Serials :
       invite'[i] # invite[i] => invite'[i].status = "gone" /\ i \in TerminalInvites

AdmissionStep == \A w \in Workspaces, u \in Users :
  CurrentOf(w, u) = {} /\ CurrentOf(w, u)' # {} =>
    \/ OwnersOf(w)' \cap CurrentOf(w, u)' # {}
    \/ /\ Writable(w)
       /\ \E i \in PendingOf(w, u) \ lapsed : invite'[i].status = "accepted"

LEMMA InvitesInSpace == ASSUME NEW w \in Workspaces, NEW i
  PROVE i \in {w} \X Users \X Serials <=> i \in InviteIds /\ i[1] = w
BY DEF InviteIds

\* A command on one Workspace that is not frozen all along disturbs no freeze.
LEMMA OnlyInHolds ==
  ASSUME NEW w \in Workspaces, OnlyIn(w), ~(space[w].frozen /\ space'[w].frozen)
  PROVE  FreezeStep
BY InSpace, InvitesInSpace DEF OnlyIn, FreezeStep

LEMMA ClosingAdmitsNobody == Closing => AdmissionStep
<1> SUFFICES ASSUME Closing, NEW w \in Workspaces, NEW u \in Users,
                    CurrentOf(w, u) = {}, NEW m \in CurrentOf(w, u)'
             PROVE  FALSE
  BY DEF AdmissionStep
<1>1. m \in MemberIds /\ m \in {w} \X {u} \X Gens /\ Current(m)'
  BY InPair DEF CurrentOf
<1>2. m \in CurrentOf(w, u) BY <1>1 DEF Closing, CurrentOf
<1> QED BY <1>2

\* Whoever a step admits is t alone.
LEMMA AdmittedAlone ==
  ASSUME NEW t \in MemberIds, Admission(t), NEW w \in Workspaces, NEW u \in Users,
         CurrentOf(w, u) = {}, CurrentOf(w, u)' # {}
  PROVE  t[1] = w /\ t[2] = u /\ t \in CurrentOf(w, u)'
<1>1. PICK m \in CurrentOf(w, u)' : TRUE OBVIOUS
<1>2. m \in MemberIds /\ m \in {w} \X {u} \X Gens /\ m[1] = w /\ m[2] = u /\ Current(m)'
  BY <1>1, InPair DEF CurrentOf
<1>3. ~Current(m) BY <1>2 DEF CurrentOf
<1>4. m = t BY <1>2, <1>3 DEF Admission, Current
<1> QED BY <1>1, <1>2, <1>4

LEMMA OwnerAdmitted ==
  ASSUME NEW t \in MemberIds, Admission(t), member'[t].role = "owner" PROVE AdmissionStep
<1> SUFFICES ASSUME NEW w \in Workspaces, NEW u \in Users,
                    CurrentOf(w, u) = {}, CurrentOf(w, u)' # {}
             PROVE  OwnersOf(w)' \cap CurrentOf(w, u)' # {}
  BY DEF AdmissionStep
<1>1. t[1] = w /\ t \in CurrentOf(w, u)' BY AdmittedAlone
<1>2. t \in {w} \X Users \X Gens BY <1>1, InSpace
<1>3. t \in OwnersOf(w)' BY <1>2 DEF OwnersOf, Admission
<1> QED BY <1>1, <1>3

LEMMA ReassignAdmits ==
  ASSUME MembershipInv, NEW a \in Users, NEW w \in Workspaces, NEW n \in Users,
         NEW expected \in Users, Reassign(a, w, n, expected)
  PROVE  Orderly /\ HistoryKept /\ FreezeStep /\ AdmissionStep
<1> DEFINE candidates == IF CurrentOf(w, n) = {} THEN FreshMembers(w, n) ELSE CurrentOf(w, n)
<1>o. PICK o : o = CHOOSE x \in OwnersOf(w) : TRUE OBVIOUS
<1>t. PICK t : t = CHOOSE x \in candidates : TRUE OBVIOUS
<1> DEFINE closed == IF member[t].status = "active" THEN NoRows ELSE Revoked(PendingOf(w, n))
<1>0. /\ TypeOK /\ \A x \in MemberIds : seat[x] => Current(x)
      /\ NoInvitedMember
  BY DEF MembershipInv, OwnershipInv, SeatsOfMembers
<1>1. /\ Exists(w) /\ ~space[w].frozen /\ OwnersOf(w) # {} /\ candidates # {}
      /\ Write(ReassignRows(w, n))
  BY DEF Reassign, MayReassign
<1>2. o \in MemberIds /\ o[1] = w /\ Current(o)
  BY <1>1, <1>o, ChosenElement, InSpace DEF OwnersOf
<1>3. t \in candidates BY <1>1, <1>t, ChosenElement
<1>4. t \in MemberIds /\ t[1] = w /\ t[2] = n
  BY <1>3, InPair DEF CurrentOf, FreshMembers
<1>5. member[t].status \in {"unused", "active", "suspended"}
  <2>1. CASE CurrentOf(w, n) = {}
    <3>1. t \in FreshMembers(w, n) BY <1>3, <2>1
    <3>2. PICK g \in Gens : t = <<w, n, g>> BY <3>1 DEF FreshMembers
    <3>3. member[<<w, n, g>>].status = "unused" <=> g >= g BY <3>1, <3>2 DEF FreshMembers
    <3>4. g >= g BY BoundsAssumption DEF Gens
    <3> QED BY <3>2, <3>3, <3>4
  <2>2. CASE CurrentOf(w, n) # {} BY <1>3, <2>2 DEF CurrentOf, Current
  <2> QED BY <2>1, <2>2
<1>6. CASE o[2] = n
  <2>1. Write(NoChange) BY <1>1, <1>6, <1>o DEF ReassignRows
  <2>2. /\ \A x \in MemberIds : member'[x] = member[x] /\ seat'[x] = seat[x]
        /\ \A v \in Workspaces : space'[v] = space[v]
        /\ \A i \in InviteIds : invite'[i] = invite[i]
    BY <1>0, <2>1, Written DEF NoChange, Rows, NoRows
  <2>3. Closing BY <1>0, <2>2 DEF Closing, Current
  <2>4. HistoryKept BY <2>2 DEF HistoryKept
  <2>5. OnlyIn(w) BY <2>2 DEF OnlyIn
  <2> QED BY <1>1, <2>3, <2>4, <2>5, ClosingIsOrderly, ClosingAdmitsNobody, OnlyInHolds
<1>7. CASE o[2] # n
  <2>1. Write(Rows(NoRows, NoRows, HandOver(o, t), closed, NoRows))
    BY <1>1, <1>7, <1>o, <1>t DEF ReassignRows
  <2> HIDE DEF closed, candidates
  <2>2. /\ member'[t] = [role |-> "owner", status |-> "active"]
        /\ \A x \in MemberIds : x # t => member'[x].status = member[x].status
        /\ \A x \in MemberIds : x \notin {o, t} => member'[x] = member[x]
        /\ \A x \in MemberIds : seat'[x] = seat[x]
        /\ \A v \in Workspaces : space'[v] = space[v]
        /\ \A i \in InviteIds :
             invite'[i] = IF i \in DOMAIN closed THEN closed[i] ELSE invite[i]
    BY <1>0, <1>2, <1>4, <2>1, HandOverWritten
  <2>3. ASSUME NEW i \in InviteIds
        PROVE  /\ i[1] # w => invite'[i] = invite[i]
               /\ invite'[i] = invite[i] \/ Pending(i)
               /\ Pending(i)' => Pending(i) /\ ~SamePair(i, t)
    <3>1. i \in PendingOf(w, n) <=> Pending(i) /\ SamePair(i, t)
      BY <1>4, InPairInvites DEF PendingOf, Pending, SamePair
    <3>2. CASE member[t].status = "active"
      <4>1. invite'[i] = invite[i] BY <2>2, <3>2 DEF closed, NoRows
      <4>2. SamePair(i, t) => t \in CurrentOf(i[1], i[2])
        BY <1>4, <3>2, InPair, InviteParts DEF CurrentOf, Current, SamePair
      <4> QED BY <1>0, <4>1, <4>2 DEF NoInvitedMember, Pending
    <3>3. CASE member[t].status # "active"
      <4>1. i \in DOMAIN closed <=> Pending(i) /\ SamePair(i, t)
        BY <3>1, <3>3 DEF closed, Revoked
      <4>2. CASE i \in DOMAIN closed
        <5>1. closed[i] = [invite[i] EXCEPT !.status = "revoked"]
          BY <3>3, <4>2 DEF closed, Revoked
        <5>2. closed[i].status = "revoked" BY <1>0, <5>1 DEF TypeOK, InviteRows
        <5> QED BY <1>4, <2>2, <4>1, <4>2, <5>2 DEF Pending, SamePair
      <4>3. CASE i \notin DOMAIN closed
        BY <2>2, <4>1, <4>3 DEF Pending
      <4> QED BY <4>2, <4>3
    <3> QED BY <3>2, <3>3
  <2>4. Admission(t)
    <3>1. Current(t)' BY <2>2 DEF Current
    <3>2. \A x \in MemberIds : x # t /\ ~Current(x) => member'[x] = member[x]
      BY <1>2, <2>2
    <3> QED BY <1>5, <2>2, <2>3, <3>1, <3>2 DEF Admission
  <2>5. OnlyIn(w) BY <1>2, <1>4, <2>2, <2>3 DEF OnlyIn
  <2> QED BY <1>1, <1>4, <2>2, <2>4, <2>5, AdmissionIsOrderly, OnlyInHolds, OwnerAdmitted
<1> QED BY <1>6, <1>7

LEMMA CreateAdmits ==
  ASSUME MembershipInv, OwnershipInv', NEW a \in Users, NEW w \in Workspaces, NEW o \in Users,
         Create(a, w, o)
  PROVE  Orderly /\ HistoryKept /\ FreezeStep /\ AdmissionStep
<1> DEFINE t == <<w, o, 1>>
<1>0. /\ TypeOK /\ NothingAskedBeforeCreation
      /\ \A x \in MemberIds : seat[x] => Current(x)
  BY DEF MembershipInv, OwnershipInv, SeatsOfMembers
<1>1. space[w].state = "absent" /\ Write(CreateRows(w, o)) BY DEF Create, MayCreate
<1>2. t \in MemberIds /\ t[1] = w /\ t[2] = o BY BoundsAssumption DEF MemberIds, Gens
<1>3. /\ member'[t] = [role |-> "owner", status |-> "active"]
      /\ \A x \in MemberIds : x # t => member'[x] = member[x]
      /\ \A x \in MemberIds : seat'[x] = seat[x]
      /\ space'[w] = [state |-> "active", frozen |-> FALSE]
      /\ \A v \in Workspaces : v # w => space'[v] = space[v]
      /\ \A i \in InviteIds : invite'[i] = invite[i]
  <2>1. /\ DOMAIN CreateRows(w, o).member = {t}
        /\ CreateRows(w, o).member[t] = [role |-> "owner", status |-> "active"]
        /\ DOMAIN CreateRows(w, o).space = {w}
        /\ CreateRows(w, o).space[w] = [state |-> "active", frozen |-> FALSE]
        /\ DOMAIN CreateRows(w, o).invite = {} /\ DOMAIN CreateRows(w, o).seat = {}
    BY DEF CreateRows, Rows, NoRows, Row
  <2> HIDE DEF t
  <2> QED BY <1>0, <1>1, <1>2, <2>1, Written
<1>4. member[t].status = "unused"
  BY <1>1, <1>2 DEF MembershipInv, OwnershipInv, NothingBeforeCreation
<1>5. \A i \in InviteIds : Pending(i) => ~SamePair(i, t)
  BY <1>0, <1>1, <1>2 DEF NothingAskedBeforeCreation, Pending, SamePair
<1>6. Admission(t) BY <1>3, <1>4, <1>5 DEF Admission, Current, Pending
<1>7. OnlyIn(w) BY <1>2, <1>3 DEF OnlyIn
<1> HIDE DEF t
<1> QED BY <1>2, <1>3, <1>6, <1>7, AdmissionIsOrderly, OnlyInHolds, OwnerAdmitted

LEMMA AcceptAdmits ==
  ASSUME MembershipInv, NEW a \in Users, NEW i \in InviteIds,
         MayAcceptLate(a, i), Write(AcceptRows(i))
  PROVE  Orderly /\ HistoryKept /\ FreezeStep /\ (i \notin lapsed => AdmissionStep)
<1>t. PICK t : t = CHOOSE m \in FreshMembers(i[1], i[2]) : TRUE OBVIOUS
<1> DEFINE invited == PendingOf(i[1], i[2])
<1>0. TypeOK BY DEF MembershipInv, OwnershipInv
<1>1. /\ i[1] \in Workspaces /\ i[2] \in Users /\ i[2] = a
      /\ Writable(i[1]) /\ Pending(i)
      /\ FreshMembers(i[1], i[2]) # {} /\ Write(AcceptRows(i))
  BY InviteParts DEF MayAcceptLate, Pending
<1>2. t \in FreshMembers(i[1], i[2]) BY <1>1, <1>t, ChosenElement
<1>3. t \in MemberIds /\ t[1] = i[1] /\ t[2] = i[2]
  BY <1>1, <1>2, InPair DEF FreshMembers
<1>4. member[t].status = "unused"
  <2>1. PICK g \in Gens : t = <<i[1], i[2], g>> BY <1>2 DEF FreshMembers
  <2>2. member[<<i[1], i[2], g>>].status = "unused" <=> g >= g BY <1>2, <2>1 DEF FreshMembers
  <2>3. g >= g BY BoundsAssumption DEF Gens
  <2> QED BY <2>1, <2>2, <2>3
<1>5. /\ DOMAIN AcceptRows(i).member = {t}
      /\ AcceptRows(i).member[t] = [role |-> invite[i].role, status |-> "active"]
      /\ DOMAIN AcceptRows(i).space = {} /\ DOMAIN AcceptRows(i).seat = {}
      /\ DOMAIN AcceptRows(i).invite = invited
      /\ \A x \in invited : AcceptRows(i).invite[x] =
           [invite[x] EXCEPT !.status = IF x = i THEN "accepted" ELSE "revoked"]
  BY <1>t DEF AcceptRows, Rows, NoRows, Row
<1>6. /\ member'[t].status = "active"
      /\ \A x \in MemberIds : x # t => member'[x] = member[x]
      /\ \A x \in MemberIds : seat'[x] = seat[x]
      /\ \A v \in Workspaces : space'[v] = space[v]
      /\ \A x \in InviteIds : invite'[x] = IF x \in invited THEN AcceptRows(i).invite[x] ELSE invite[x]
  BY <1>0, <1>1, <1>3, <1>5, Written
<1>7. \A x \in InviteIds : x \in invited <=> Pending(x) /\ SamePair(x, t)
  BY <1>1, <1>3, InPairInvites DEF PendingOf, Pending, SamePair
<1>8. ASSUME NEW x \in InviteIds, x \in invited
      PROVE  invite'[x].status = IF x = i THEN "accepted" ELSE "revoked"
  <2>1. invite[x] \in InviteRows BY <1>0 DEF TypeOK
  <2>2. invite'[x] = [invite[x] EXCEPT !.status = IF x = i THEN "accepted" ELSE "revoked"]
    BY <1>5, <1>6, <1>8
  <2> QED BY <2>1, <2>2 DEF InviteRows
<1> HIDE DEF invited
<1>9. Admission(t)
  <2>1. \A x \in InviteIds : invite'[x] = invite[x] \/ Pending(x) BY <1>6, <1>7
  <2>2. \A x \in InviteIds : Pending(x)' => Pending(x) /\ ~SamePair(x, t)
    BY <1>6, <1>7, <1>8 DEF Pending
  <2>3. Current(t)' BY <1>6 DEF Current
  <2> QED BY <1>4, <1>6, <2>1, <2>2, <2>3 DEF Admission
<1>10. OnlyIn(i[1]) BY <1>3, <1>6, <1>7 DEF OnlyIn, SamePair
<1>11. FreezeStep BY <1>1, <1>10, OnlyInHolds DEF Writable
<1>12. ASSUME i \notin lapsed PROVE AdmissionStep
  <2> SUFFICES ASSUME NEW w \in Workspaces, NEW u \in Users,
                      CurrentOf(w, u) = {}, CurrentOf(w, u)' # {}
               PROVE  /\ Writable(w)
                      /\ \E x \in PendingOf(w, u) \ lapsed : invite'[x].status = "accepted"
    BY DEF AdmissionStep
  <2>1. t[1] = w /\ t[2] = u BY <1>3, <1>9, AdmittedAlone
  <2>2. i \in PendingOf(w, u) \ lapsed /\ i \in invited
    <3>1. i[1] = w /\ i[2] = u /\ SamePair(i, t) BY <1>3, <2>1 DEF SamePair
    <3>2. i \in invited BY <1>1, <1>7, <3>1
    <3>3. i \in {w} \X {u} \X Serials BY <3>1, InPairInvites
    <3> QED BY <1>1, <1>12, <3>2, <3>3 DEF PendingOf, Pending
  <2>3. invite'[i].status = "accepted" BY <1>8, <2>2
  <2> QED BY <1>1, <1>3, <2>1, <2>2, <2>3
<1> QED BY <1>3, <1>9, <1>11, <1>12, AdmissionIsOrderly

\* An invitation is for somebody without a membership and supersedes the others.
LEMMA InviteOrders ==
  ASSUME MembershipInv, NEW a \in Users, NEW w \in Workspaces, NEW u \in Users,
         NEW r \in AskRoles, Invite(a, w, u, r)
  PROVE  Orderly /\ HistoryKept /\ FreezeStep /\ AdmissionStep
<1>n. PICK new : new = CHOOSE i \in FreshInvites(w, u) : TRUE OBVIOUS
<1> DEFINE invited == PendingOf(w, u)
<1>0. TypeOK /\ \A x \in MemberIds : seat[x] => Current(x)
  BY DEF MembershipInv, OwnershipInv, SeatsOfMembers
<1>1. /\ Exists(w) /\ ~space[w].frozen /\ CurrentOf(w, u) = {} /\ FreshInvites(w, u) # {}
      /\ Write(InviteRow(a, w, u, r))
  BY <1>0, FrozenForbids DEF Invite, MayInvite, Authorized
<1>2. new \in FreshInvites(w, u) BY <1>1, <1>n, ChosenElement
<1>3. new \in InviteIds /\ new[1] = w /\ new[2] = u
  BY <1>2, InPairInvites DEF FreshInvites
<1>4. invite[new].status = "unused"
  <2>1. PICK g \in Serials : new = <<w, u, g>> BY <1>2 DEF FreshInvites
  <2>2. invite[<<w, u, g>>].status = "unused" <=> g >= g BY <1>2, <2>1 DEF FreshInvites
  <2>3. g >= g BY BoundsAssumption DEF Serials
  <2> QED BY <2>1, <2>2, <2>3
<1>5. /\ DOMAIN InviteRow(a, w, u, r).invite = invited \cup {new}
      /\ \A i \in invited \cup {new} : InviteRow(a, w, u, r).invite[i] =
           IF i = new THEN [role |-> r, by |-> a, status |-> "pending"]
           ELSE [invite[i] EXCEPT !.status = "revoked"]
      /\ DOMAIN InviteRow(a, w, u, r).member = {} /\ DOMAIN InviteRow(a, w, u, r).space = {}
      /\ DOMAIN InviteRow(a, w, u, r).seat = {}
  BY <1>n DEF InviteRow, Rows, NoRows
<1>6. /\ \A x \in MemberIds : member'[x] = member[x] /\ seat'[x] = seat[x]
      /\ \A v \in Workspaces : space'[v] = space[v]
      /\ \A x \in InviteIds : invite'[x] =
           IF x \in invited \cup {new} THEN InviteRow(a, w, u, r).invite[x] ELSE invite[x]
  BY <1>0, <1>1, <1>5, Written
<1>7. \A x \in InviteIds : x \in invited <=> Pending(x) /\ SamePair(x, new)
  BY <1>3, InPairInvites DEF PendingOf, Pending, SamePair
<1>8. ASSUME NEW x \in InviteIds, x \in invited, x # new PROVE invite'[x].status = "revoked"
  <2>1. invite[x] \in InviteRows BY <1>0 DEF TypeOK
  <2>2. invite'[x] = [invite[x] EXCEPT !.status = "revoked"] BY <1>5, <1>6, <1>8
  <2> QED BY <2>1, <2>2 DEF InviteRows
<1> HIDE DEF invited
<1>9. \A x \in InviteIds : x \notin invited /\ x # new => invite'[x] = invite[x]
  BY <1>6
<1>10. \A m \in MemberIds : SamePair(new, m) => ~Current(m)'
  <2> SUFFICES ASSUME NEW m \in MemberIds, SamePair(new, m), Current(m)' PROVE FALSE
    OBVIOUS
  <2>1. Current(m) BY <1>6 DEF Current
  <2>2. m[1] = w /\ m[2] = u BY <1>3 DEF SamePair
  <2>3. m \in {w} \X {u} \X Gens BY <2>2, InPair
  <2>4. m \in CurrentOf(w, u) BY <2>1, <2>3 DEF CurrentOf
  <2> QED BY <1>1, <2>4
<1>11. \A j \in InviteIds : Pending(j)' /\ SamePair(new, j) => j = new
  BY <1>7, <1>8, <1>9 DEF Pending, SamePair
<1>12. Orderly
  <2>1. \A i \in InviteIds : Pending(i)' /\ ~Pending(i) => i = new
    BY <1>7, <1>8, <1>9 DEF Pending
  <2>2. \A i \in InviteIds : invite[i].status = "unused" /\ invite'[i].status # "unused" => i = new
    BY <1>7, <1>9 DEF Pending
  <2>3. \A m \in MemberIds : (Current(m)' <=> Current(m)) /\ (seat'[m] => Current(m)')
    BY <1>0, <1>6 DEF Current
  <2>4. space'[w].state # "absent" BY <1>1, <1>6 DEF Exists
  <2> QED BY <1>3, <1>6, <1>10, <1>11, <2>1, <2>2, <2>3, <2>4 DEF Orderly
<1>13. HistoryKept
  BY <1>4, <1>6, <1>7, <1>9 DEF HistoryKept, Pending
<1>14. OnlyIn(w) BY <1>3, <1>6, <1>7, <1>9 DEF OnlyIn, SamePair
<1>15. AdmissionStep
  <2>1. \A m \in MemberIds : Current(m)' => Current(m) BY <1>6 DEF Current
  <2> SUFFICES ASSUME NEW v \in Workspaces, NEW x \in Users,
                      CurrentOf(v, x) = {}, NEW m \in CurrentOf(v, x)'
               PROVE  FALSE
    BY DEF AdmissionStep
  <2>2. m \in MemberIds /\ m \in {v} \X {x} \X Gens /\ Current(m)'
    BY InPair DEF CurrentOf
  <2>3. m \in CurrentOf(v, x) BY <2>1, <2>2 DEF CurrentOf
  <2> QED BY <2>3
<1> QED BY <1>1, <1>12, <1>13, <1>14, <1>15, OnlyInHolds

\* What a revocation of an unexpired invitation writes.
RevokedRow(i) == Rows(NoRows, NoRows, NoRows, Revoked({i}), NoRows)

LEMMA RevokeCloses ==
  ASSUME MembershipInv, NEW a \in Users, NEW i \in InviteIds, MayRevoke(a, i),
         NEW rows \in {NoChange, RevokedRow(i)}, Write(rows)
  PROVE  Closing /\ HistoryKept /\ FreezeStep
<1>0. /\ TypeOK /\ i[1] \in Workspaces /\ \A x \in MemberIds : seat[x] => Current(x)
      /\ invite[i] \in InviteRows
  BY InviteParts DEF MembershipInv, OwnershipInv, SeatsOfMembers, TypeOK
<1>1. /\ invite[i].status \in {"pending", "revoked"} /\ ~space[i[1]].frozen
  BY <1>0, FrozenForbids DEF MayRevoke
<1>2. /\ DOMAIN rows.member = {} /\ DOMAIN rows.space = {}
      /\ DOMAIN rows.seat = {} /\ DOMAIN rows.invite \subseteq {i}
      /\ \A x \in DOMAIN rows.invite :
           rows.invite[x] = [invite[x] EXCEPT !.status = "revoked"]
  BY DEF RevokedRow, NoChange, Rows, NoRows, Revoked
<1>3. /\ \A x \in MemberIds : member'[x] = member[x] /\ seat'[x] = seat[x]
      /\ \A v \in Workspaces : space'[v] = space[v]
      /\ \A x \in InviteIds : x # i => invite'[x] = invite[x]
      /\ invite'[i] = invite[i] \/ invite'[i] = [invite[i] EXCEPT !.status = "revoked"]
  BY <1>0, <1>1, <1>2, Written
<1>4. invite'[i] = invite[i] \/ (Pending(i) /\ invite'[i].status = "revoked")
  BY <1>0, <1>1, <1>3 DEF InviteRows, Pending
<1>5. Closing BY <1>0, <1>3, <1>4 DEF Closing, Current, Pending
<1>6. HistoryKept BY <1>3, <1>4 DEF HistoryKept, Pending
<1>7. OnlyIn(i[1]) BY <1>3 DEF OnlyIn
<1> QED BY <1>0, <1>1, <1>5, <1>6, <1>7, OnlyInHolds

\* Retention removes what is over, in frozen Workspaces too.
LEMMA PurgeCloses ==
  ASSUME MembershipInv, PurgeHistory PROVE Closing /\ HistoryKept /\ FreezeStep
<1>0. TypeOK /\ \A x \in MemberIds : seat[x] => Current(x)
  BY DEF MembershipInv, OwnershipInv, SeatsOfMembers
<1>1. PICK oldInvites \in SUBSET TerminalInvites, oldMembers \in SUBSET EndedMembers :
        Write(Rows(NoRows, NoRows,
                   [m \in oldMembers |-> [member[m] EXCEPT !.status = "gone"]],
                   [i \in oldInvites |-> [invite[i] EXCEPT !.status = "gone"]],
                   NoRows))
  BY DEF PurgeHistory
<1>2. /\ \A v \in Workspaces : space'[v] = space[v]
      /\ \A x \in MemberIds : seat'[x] = seat[x]
      /\ \A x \in MemberIds : member'[x] =
           IF x \in oldMembers THEN [member[x] EXCEPT !.status = "gone"] ELSE member[x]
      /\ \A x \in InviteIds : invite'[x] =
           IF x \in oldInvites THEN [invite[x] EXCEPT !.status = "gone"] ELSE invite[x]
  BY <1>0, <1>1, Written DEF Rows, NoRows
<1>3. ASSUME NEW x \in MemberIds
      PROVE  member'[x] = member[x] \/ (member[x].status = "ended" /\ member'[x].status = "gone")
  <2>1. member[x] \in MemberRows BY <1>0 DEF TypeOK
  <2> QED BY <1>2, <2>1 DEF EndedMembers, MemberRows
<1>4. ASSUME NEW x \in InviteIds
      PROVE  \/ invite'[x] = invite[x]
             \/ x \in TerminalInvites /\ invite[x].status # "unused" /\ invite'[x].status = "gone"
  <2>1. invite[x] \in InviteRows BY <1>0 DEF TypeOK
  <2> QED BY <1>2, <2>1 DEF TerminalInvites, InviteRows
<1>5. Closing BY <1>0, <1>2, <1>3, <1>4 DEF Closing, Current
<1>6. HistoryKept BY <1>3, <1>4 DEF HistoryKept
<1>7. FreezeStep BY <1>2, <1>3, <1>4, InSpace, InvitesInSpace DEF FreezeStep, Current
<1> QED BY <1>5, <1>6, <1>7

\* Accounts, time and stuttering leave memberships and invitations as they are.
LEMMA RestCloses ==
  ASSUME MembershipInv,
         \/ AccountCommand
         \/ \E i \in InviteIds : Lapse(i)
         \/ UNCHANGED vars
  PROVE  Closing /\ HistoryKept /\ FreezeStep
<1>0. TypeOK /\ \A x \in MemberIds : seat[x] => Current(x)
  BY DEF MembershipInv, OwnershipInv, SeatsOfMembers
<1>1. /\ \A v \in Workspaces : space'[v] = space[v]
      /\ \A x \in MemberIds : member'[x] = member[x] /\ seat'[x] = seat[x]
      /\ \A x \in InviteIds : invite'[x] = invite[x]
  <2>1. ASSUME NEW rows, Write(Rows(rows, NoRows, NoRows, NoRows, NoRows))
        PROVE  /\ \A v \in Workspaces : space'[v] = space[v]
               /\ \A x \in MemberIds : member'[x] = member[x] /\ seat'[x] = seat[x]
               /\ \A x \in InviteIds : invite'[x] = invite[x]
    BY <1>0, <2>1, Written DEF Rows, NoRows
  <2>2. CASE AccountCommand
    BY <2>1, <2>2 DEF AccountCommand, SetActive, SetActiveRows, SetSystemRole, SetSystemRoleRows
  <2>3. CASE \E i \in InviteIds : Lapse(i) BY <2>3 DEF Lapse
  <2>4. CASE UNCHANGED vars BY <2>4 DEF vars
  <2> QED BY <2>2, <2>3, <2>4
<1>2. Closing BY <1>0, <1>1 DEF Closing, Current
<1>3. HistoryKept BY <1>1 DEF HistoryKept
<1>4. FreezeStep BY <1>1, InSpace, InvitesInSpace DEF FreezeStep
<1> QED BY <1>2, <1>3, <1>4

LEMMA StepEffects ==
  MembershipInv /\ OwnershipInv' /\ [Next]_vars
    => Orderly /\ HistoryKept /\ FreezeStep /\ AdmissionStep
<1> DEFINE Goal == Orderly /\ HistoryKept /\ FreezeStep /\ AdmissionStep
<1> SUFFICES ASSUME MembershipInv, OwnershipInv', [Next]_vars PROVE Goal OBVIOUS
<1>1. ASSUME Closing, HistoryKept, FreezeStep PROVE Goal
  BY <1>1, ClosingIsOrderly, ClosingAdmitsNobody
<1> HIDE DEF Goal
<1>2. CASE MemberCommand
  <2>1. PICK a \in Users, m \in MemberIds :
          \/ \E r \in AskRoles : SetRole(a, m, r)
          \/ Suspend(a, m)
          \/ Reactivate(a, m)
          \/ Terminate(a, m)
          \/ Leave(a, m)
          \/ Transfer(a, m)
          \/ \E b \in BOOLEAN : Select(a, m, b)
    BY <1>2 DEF MemberCommand
  <2>2. Closing /\ OnlyIn(m[1]) /\ HistoryKept /\ ~space[m[1]].frozen
    BY <2>1, MemberCommandsClose, TransferCloses
  <2>3. FreezeStep BY <2>2, OnlyInHolds, MemberIdParts
  <2> QED BY <1>1, <2>2, <2>3
<1>3. CASE WorkspaceCommand
  <2>1. PICK a \in Users, w \in Workspaces :
          \/ \E n, expected \in Users : Reassign(a, w, n, expected)
          \/ Freeze(a, w)
          \/ Unfreeze(a, w)
          \/ Archive(a, w)
          \/ Restore(a, w)
          \/ Delete(a, w)
          \/ \E o \in Users : Create(a, w, o)
    BY <1>3 DEF WorkspaceCommand
  <2>2. CASE \E n, expected \in Users : Reassign(a, w, n, expected)
    BY <2>2, ReassignAdmits DEF Goal
  <2>3. CASE Freeze(a, w) \/ Unfreeze(a, w) \/ Archive(a, w) \/ Restore(a, w) \/ Delete(a, w)
    <3>1. /\ Closing /\ OnlyIn(w) /\ HistoryKept
          /\ space[w].frozen /\ space'[w].frozen =>
               /\ space'[w] = space[w]
               /\ \A m \in MemberIds : member'[m] = member[m] /\ seat'[m] = seat[m]
               /\ \A i \in InviteIds : invite'[i] = invite[i]
      BY <2>3, SpaceCommandsClose
    <3>2. CASE ~(space[w].frozen /\ space'[w].frozen)
      BY <1>1, <3>1, <3>2, OnlyInHolds
    <3>3. CASE space[w].frozen /\ space'[w].frozen
      <4>1. FreezeStep BY <3>1, <3>3, InSpace, InvitesInSpace DEF FreezeStep, OnlyIn
      <4> QED BY <1>1, <3>1, <4>1
    <3> QED BY <3>2, <3>3
  <2>4. CASE \E o \in Users : Create(a, w, o) BY <2>4, CreateAdmits DEF Goal
  <2> QED BY <2>1, <2>2, <2>3, <2>4
<1>4. CASE InvitationCommand
  <2>1. ASSUME NEW a \in Users, NEW w \in Workspaces, NEW u \in Users, NEW r \in AskRoles,
               Invite(a, w, u, r)
        PROVE  Goal
    BY <2>1, InviteOrders DEF Goal
  <2>2. ASSUME NEW a \in Users, NEW i \in InviteIds, Accept(a, i) PROVE Goal
    BY <2>2, AcceptAdmits DEF Goal, Accept, MayAccept, MayAcceptLate
  <2>3. ASSUME NEW a \in Users, NEW i \in InviteIds, Revoke(a, i) PROVE Goal
    <3>1. MayRevoke(a, i) /\ Write(RevokeRows(i)) /\ RevokeRows(i) \in {NoChange, RevokedRow(i)}
      BY <2>3 DEF Revoke, RevokeRows, RevokedRow
    <3> QED BY <1>1, <3>1, RevokeCloses
  <2> QED BY <1>4, <2>1, <2>2, <2>3 DEF InvitationCommand
<1>5. CASE AccountCommand BY <1>1, <1>5, RestCloses
<1>6. CASE PurgeHistory BY <1>1, <1>6, PurgeCloses
<1>7. CASE \E i \in InviteIds : Lapse(i) BY <1>1, <1>7, RestCloses
<1>8. CASE UNCHANGED vars BY <1>1, <1>8, RestCloses
<1> QED BY <1>2, <1>3, <1>4, <1>5, <1>6, <1>7, <1>8 DEF Next

LEMMA NextMembership == MembershipInv /\ [Next]_vars => MembershipInv'
<1>1. MembershipInv => OwnershipInv BY DEF MembershipInv
<1> QED BY <1>1, NextOwnership, StepEffects, OrderlyInv

LEMMA InitMembership == Init => MembershipInv
<1> SUFFICES ASSUME Init PROVE MembershipInv OBVIOUS
<1>1. \A i \in InviteIds : invite[i].status = "unused" BY DEF Init
<1>2. \A m \in MemberIds : seat[m] = FALSE BY DEF Init
<1> QED BY <1>1, <1>2, InitOwnership
        DEF MembershipInv, NothingAskedBeforeCreation, NoInvitedMember, OnePending, SeatsOfMembers

\* The owner an administrator has seen is there as long as the Workspace exists.
LEMMA OwnerIsThere == OwnershipInv => NeverStranded
<1> SUFFICES ASSUME OwnershipInv, NEW w \in Workspaces, NEW a \in Users, NEW n \in Users,
                    Exists(w) /\ ~space[w].frozen /\ Governs(a) /\ user[n].active,
                    CurrentOf(w, n) \cup FreshMembers(w, n) # {}
             PROVE  \E expected \in Users : MayReassign(a, w, n, expected)
  BY DEF NeverStranded
<1>1. PICK o \in OwnersOf(w) : member[o].status = "active" BY DEF OwnershipInv, OneOwner
<1>2. o[2] \in Users BY InSpace, MemberIdParts DEF OwnersOf
<1>3. CurrentOf(w, n) = {} => FreshMembers(w, n) # {} OBVIOUS
<1>4. MayReassign(a, w, n, o[2]) BY <1>1, <1>3 DEF MayReassign
<1> QED BY <1>2, <1>4

\* The memberships of a Workspace agree with its invitations and selections,
\* and no Workspace is left without somebody an administrator can replace.
THEOREM MembershipsAreSound == Spec => []MembershipsSound
<1>1. MembershipInv => MembershipsSound
  BY OwnerIsThere DEF MembershipInv, OwnershipInv, MembershipsSound
<1> QED BY <1>1, InitMembership, NextMembership, PTL DEF Spec

\* A freeze holds, nobody is admitted without an invitation or ownership, and
\* what has ended never comes back to life.
THEOREM ChangesAreSound == Spec => ChangesStand
<1>1. MembershipInv /\ MembershipInv' /\ [Next]_vars =>
        [\A w \in Workspaces : space[w].frozen /\ space[w]'.frozen =>
           /\ space[w]' = space[w]
           /\ \A m \in {w} \X Users \X Gens :
                /\ Current(m) \/ Current(m)' => member[m]' = member[m]
                /\ seat[m]' = seat[m]
           /\ \A i \in {w} \X Users \X Serials :
                invite[i]' # invite[i] => invite[i]'.status = "gone" /\ i \in TerminalInvites]_vars
  BY StepEffects DEF MembershipInv, FreezeStep
<1>2. MembershipInv /\ MembershipInv' /\ [Next]_vars =>
        [\A w \in Workspaces, u \in Users :
           CurrentOf(w, u) = {} /\ CurrentOf(w, u)' # {} =>
             \/ OwnersOf(w)' \cap CurrentOf(w, u)' # {}
             \/ /\ Writable(w)
                /\ \E i \in PendingOf(w, u) \ lapsed : invite[i]'.status = "accepted"]_vars
  BY StepEffects DEF MembershipInv, AdmissionStep
<1>3. MembershipInv /\ MembershipInv' /\ [Next]_vars =>
        [/\ \A m \in MemberIds : member[m].status \in {"ended", "gone"} =>
              member[m]' = member[m] \/ member[m]'.status = "gone"
         /\ \A i \in InviteIds : invite[i].status \in {"accepted", "revoked", "gone"} =>
              invite[i]' = invite[i] \/ invite[i]'.status = "gone"]_vars
  BY StepEffects DEF MembershipInv, HistoryKept
<1> QED BY <1>1, <1>2, <1>3, InitMembership, NextMembership, PTL
        DEF Spec, ChangesStand, FreezeHolds, AdmissionIsGranted, HistoryIsFinal

-------------------------------------------------------------------------------
(* The pages of Directory.  What they read has no existence of its own: a     *)
(* Workspace that is gone left no membership, and cannot be frozen, so that   *)
(* its lifecycle is one that the policy grants nothing in.                    *)

\* A Workspace cannot be deleted while it is frozen, nor frozen afterwards.
GoneIsNotFrozen == \A w \in Workspaces : space[w].state = "deleted" => ~space[w].frozen
PagesInv == MembershipInv /\ GoneIsNotFrozen

\* Grants are for Workspaces that exist.
LEMMA GrantedLifecycles ==
  ASSUME NEW grade, NEW action, NEW phase, NEW relation,
         Allowed(grade, action, phase, relation)
  PROVE  phase \in Lifecycles
<1>1. PICK base \in Roles : <<action, phase, relation>> \in Grants[base]
  BY DEF Allowed
<1>2. ASSUME NEW actions, NEW lifecycles, NEW relations,
             <<action, phase, relation>> \in Grant(actions, lifecycles, relations)
      PROVE  phase \in lifecycles
  BY <1>2 DEF Grant
<1>3. <<action, phase, relation>> \in ViewerGrants => phase \in Lifecycles
  BY <1>2 DEF ViewerGrants, Readable, Lifecycles
<1>4. <<action, phase, relation>> \in ReviewerGrants => phase \in Lifecycles
  BY <1>2 DEF ReviewerGrants, Lifecycles
<1>5. <<action, phase, relation>> \in EditorGrants => phase \in Lifecycles
  BY <1>2 DEF EditorGrants, Lifecycles
<1>6. <<action, phase, relation>> \in AdminGrants => phase \in Lifecycles
  BY <1>2 DEF AdminGrants, Readable, Lifecycles
<1>7. <<action, phase, relation>> \in OwnerGrants => phase \in Lifecycles
  BY <1>2 DEF OwnerGrants, Lifecycles
<1> QED BY <1>1, <1>3, <1>4, <1>5, <1>6, <1>7 DEF Grants, Roles

\* Every role reads the Workspace, in each of its lifecycles.
LEMMA EverybodyReads ==
  \A grade \in Roles, phase \in Lifecycles : Allowed(grade, "workspace.read", phase, "any")
<1> SUFFICES ASSUME NEW grade \in Roles, NEW phase \in Lifecycles
             PROVE  Allowed(grade, "workspace.read", phase, "any")
  OBVIOUS
<1>1. Inherits(grade, "viewer") BY DEF Inherits, Rank, Roles
<1>2. <<"workspace.read", phase, "any">> \in
        Grant({"workspace.export", "workspace.read"}, Readable, {"any"})
  BY DEF Grant, Readable
<1>3. <<"workspace.read", phase, "any">> \in Grants["viewer"]
  BY <1>2 DEF Grants, ViewerGrants
<1> QED BY <1>1, <1>3 DEF Allowed, Roles

\* Leaving is asked with the relation to the caller's own membership.
LEMMA LeavingIsRelative ==
  \A grade, phase : ~Allowed(grade, "workspace_member.leave", phase, "any")
<1> SUFFICES ASSUME NEW base \in Roles, NEW phase,
                    <<"workspace_member.leave", phase, "any">> \in Grants[base]
             PROVE  FALSE
  BY DEF Allowed
<1>1. ASSUME NEW actions, NEW lifecycles, NEW relations,
             <<"workspace_member.leave", phase, "any">> \in Grant(actions, lifecycles, relations)
      PROVE  "workspace_member.leave" \in actions /\ "any" \in relations
  BY <1>1 DEF Grant
<1>2. <<"workspace_member.leave", phase, "any">> \notin ViewerGrants BY <1>1 DEF ViewerGrants
<1>3. <<"workspace_member.leave", phase, "any">> \notin ReviewerGrants
  BY <1>1 DEF ReviewerGrants
<1>4. <<"workspace_member.leave", phase, "any">> \notin EditorGrants BY <1>1 DEF EditorGrants
<1>5. <<"workspace_member.leave", phase, "any">> \notin AdminGrants BY <1>1 DEF AdminGrants
<1>6. <<"workspace_member.leave", phase, "any">> \notin OwnerGrants BY <1>1 DEF OwnerGrants
<1> QED BY <1>2, <1>3, <1>4, <1>5, <1>6 DEF Grants, Roles

LEMMA OffersToMembers ==
  ASSUME MembershipInv, NEW a \in Users, NEW m \in MemberIds, Current(m)
  PROVE  LET offers == MemberDecisions(a, m) IN
         /\ "workspace_member.terminate" \in offers <=> MayTerminate(a, m)
         /\ "workspace_member.suspend" \in offers
              <=> MaySuspend(a, m) /\ SuspendRows(m) # NoChange
         /\ "workspace_member.reactivate" \in offers
              <=> MayReactivate(a, m) /\ member[m].status = "suspended"
         /\ MayTransfer(a, m)
              <=> "workspace_member.transfer_ownership" \in offers /\ user[m[2]].active
         /\ \A r \in Roles \ {member[m].role} :
              r \in MemberRolesOffered(a, m) <=> MaySetRole(a, m, r)
         /\ m[2] = a => (OnWorkspacePage(a, m[1], "workspace_member.leave") <=> MayLeave(a, m))
<1> DEFINE relation == MemberRelation(member[m].role)
           Granted(action) == Authorized(a, m[1], action, relation)
           offers == MemberDecisions(a, m)
<1>1. member[m].status \in {"active", "suspended"} BY DEF Current
<1>2. m[1] \in Workspaces BY MemberIdParts
<1>3. \A action : Granted(action) => member[m].role # "owner"
  BY NobodyOnOwner DEF Authorized, MemberRelation
<1>4. /\ "workspace_member.terminate" \in offers <=> Granted("workspace_member.terminate")
      /\ "workspace_member.suspend" \in offers
           <=> member[m].status = "active" /\ Granted("workspace_member.suspend")
      /\ "workspace_member.reactivate" \in offers
           <=> member[m].status # "active" /\ Granted("workspace_member.reactivate")
      /\ "workspace_member.transfer_ownership" \in offers
           <=> member[m].status = "active" /\ Granted("workspace_member.transfer_ownership")
  BY DEF MemberDecisions
<1>5. "workspace_member.terminate" \in offers <=> MayTerminate(a, m)
  BY <1>3, <1>4 DEF MayTerminate
<1>6. SuspendRows(m) # NoChange <=> member[m].status # "suspended"
  <2>1. CASE member[m].status = "suspended" BY <2>1 DEF SuspendRows
  <2>2. CASE member[m].status # "suspended"
    <3> DEFINE status == [member[m] EXCEPT !.status = "suspended"]
           image == Row(m, status)
    <3>1. SuspendRows(m) = Rows(NoRows, NoRows, image, Revoked(PendingOf(m[1], m[2])), NoRows)
      BY <2>2 DEF SuspendRows
    <3> HIDE DEF status
    <3>2. m \in DOMAIN image BY DEF Row
    <3> HIDE DEF image
    <3>3. SuspendRows(m).member = image BY <3>1 DEF Rows
    <3>4. NoChange.member = NoRows BY DEF NoChange, Rows
    <3>5. m \notin DOMAIN NoRows BY DEF NoRows
    <3>6. CASE SuspendRows(m) = NoChange BY <3>2, <3>3, <3>4, <3>5, <3>6
    <3> QED BY <3>6, <2>2
  <2> QED BY <2>1, <2>2
<1>7. "workspace_member.suspend" \in offers <=> MaySuspend(a, m) /\ SuspendRows(m) # NoChange
  BY <1>1, <1>3, <1>4, <1>6 DEF MaySuspend
<1>8. "workspace_member.reactivate" \in offers
        <=> MayReactivate(a, m) /\ member[m].status = "suspended"
  BY <1>1, <1>4 DEF MayReactivate
<1>9. Granted("workspace_member.transfer_ownership") => OwnersOf(m[1]) # {}
  <2>1. Granted("workspace_member.transfer_ownership") => Exists(m[1]) BY DEF Authorized
  <2> QED BY <1>2, <2>1 DEF MembershipInv, OwnershipInv, OneOwner
<1>10. MayTransfer(a, m)
         <=> "workspace_member.transfer_ownership" \in offers /\ user[m[2]].active
  BY <1>4, <1>9 DEF MayTransfer
<1>11. \A r \in Roles \ {member[m].role} :
         r \in MemberRolesOffered(a, m) <=> MaySetRole(a, m, r)
  BY DEF MemberRolesOffered, MaySetRole, InvitationRoles
<1>12. m[2] = a => (OnWorkspacePage(a, m[1], "workspace_member.leave") <=> MayLeave(a, m))
  <2> SUFFICES ASSUME m[2] = a
               PROVE  OnWorkspacePage(a, m[1], "workspace_member.leave") <=> MayLeave(a, m)
    OBVIOUS
  <2>1. ~Authorized(a, m[1], "workspace_member.leave", "any")
    BY LeavingIsRelative DEF Authorized
  <2>2. \A x \in {m[1]} \X {a} \X Gens : member[x].status = "active" => x = m
    <3> SUFFICES ASSUME NEW x \in {m[1]} \X {a} \X Gens, member[x].status = "active" PROVE x = m
      OBVIOUS
    <3>1. x \in MemberIds /\ x[1] = m[1] /\ x[2] = m[2] BY <1>2, InPair
    <3> QED BY <3>1 DEF MembershipInv, OwnershipInv, OneMembership, Current
  <2>3. m \in {m[1]} \X {a} \X Gens BY <1>2, InPair
  <2> QED BY <2>1, <2>2, <2>3 DEF OnWorkspacePage, MayLeave
<1> QED BY <1>5, <1>7, <1>8, <1>10, <1>11, <1>12

\* Who is a current member belongs to a Workspace that exists, as does who reads.
LEMMA ReadersExist ==
  ASSUME PagesInv, NEW m \in MemberIds, Current(m), NEW action, NEW relation,
         Allowed(member[m].role, action, Lifecycle(m[1]), relation)
  PROVE  Exists(m[1])
<1>1. m[1] \in Workspaces BY MemberIdParts
<1>2. space[m[1]].state \in SpaceStates /\ space[m[1]].frozen \in BOOLEAN
  BY <1>1 DEF PagesInv, MembershipInv, OwnershipInv, TypeOK, SpaceRows
<1>3. space[m[1]].state # "absent"
  BY DEF PagesInv, MembershipInv, OwnershipInv, NothingBeforeCreation, Current
<1>4. space[m[1]].state # "deleted"
  BY <1>1, GrantedLifecycles DEF PagesInv, GoneIsNotFrozen, Lifecycle, Lifecycles
<1> QED BY <1>2, <1>3, <1>4 DEF Exists, SpaceStates

LEMMA InvitationsAsShown ==
  ASSUME PagesInv, NEW i \in InviteIds
  PROVE  LET w == i[1] u == i[2] IN
         /\ MayAccept(u, i) => CanAccept(u, i) /\ i \in ReceivedInvitations(u) /\ ShownByToken(i)
         /\ ShownByToken(i) /\ user[u].active => CanAccept(u, i)
         /\ CanAccept(u, i) /\ FreshMembers(w, u) # {} => MayAccept(u, i)
         /\ CanOpen(u, i) => w \in ListedWorkspaces(u)
         /\ \A a \in Users : OnWorkspacePage(a, w, "workspace_invitation.revoke")
              => \A x \in ListedInvitations(a, w) : MayRevoke(a, x)
         /\ \A a \in Users, r \in InvitationRoles : FreshInvites(w, u) # {} =>
              (MayInvite(a, w, u, r) <=> /\ r \in InvitationRolesOffered(a, w)
                                         /\ user[u].active /\ CurrentOf(w, u) = {})
<1> DEFINE w == i[1]
           u == i[2]
<1>1. w \in Workspaces /\ u \in Users BY InviteParts
<1>2. MayAccept(u, i) => CanAccept(u, i) /\ i \in ReceivedInvitations(u) /\ ShownByToken(i)
  BY DEF MayAccept, CanAccept, ReceivedInvitations, ShownByToken, Unanswered
<1>3. ShownByToken(i) /\ user[u].active => CanAccept(u, i)
  BY DEF ShownByToken, CanAccept, Unanswered, PagesInv, MembershipInv, NoInvitedMember
<1>4. CanAccept(u, i) /\ FreshMembers(w, u) # {} => MayAccept(u, i)
  BY DEF CanAccept, MayAccept, Unanswered
<1>5. CanOpen(u, i) => w \in ListedWorkspaces(u)
  <2> SUFFICES ASSUME CanOpen(u, i) PROVE w \in ListedWorkspaces(u) OBVIOUS
  <2>1. PICK m \in CurrentOf(w, u) :
          /\ member[m].status = "active"
          /\ Allowed(member[m].role, "workspace.read", Lifecycle(w), "any")
    BY DEF CanOpen
  <2>2. m \in MemberIds /\ m[1] = w /\ m \in {w} \X {u} \X Gens
    BY <1>1, InPair DEF CurrentOf
  <2>3. Exists(w) BY <2>1, <2>2, ReadersExist DEF Current
  <2> QED BY <1>1, <2>1, <2>2, <2>3 DEF ListedWorkspaces, CanOpen
<1>6. \A a \in Users : OnWorkspacePage(a, w, "workspace_invitation.revoke")
        => \A x \in ListedInvitations(a, w) : MayRevoke(a, x)
  BY DEF OnWorkspacePage, ListedInvitations, Unanswered, MayRevoke
<1>7. \A a \in Users, r \in InvitationRoles : FreshInvites(w, u) # {} =>
        (MayInvite(a, w, u, r) <=> /\ r \in InvitationRolesOffered(a, w)
                                   /\ user[u].active /\ CurrentOf(w, u) = {})
  BY DEF MayInvite, InvitationRolesOffered
<1> QED BY <1>2, <1>3, <1>4, <1>5, <1>6, <1>7

LEMMA OwnerAsShown ==
  ASSUME PagesInv, NEW w \in Workspaces, Exists(w)
  PROVE  \E o \in OwnersOf(w) :
           /\ member[o].status = "active" /\ OwnersOf(w) = {o}
           /\ o[2] \in Users /\ StructuralOwner(w) = {o[2]}
<1>1. PICK o \in OwnersOf(w) : member[o].status = "active" /\ OwnersOf(w) = {o}
  BY DEF PagesInv, MembershipInv, OwnershipInv, OneOwner
<1>2. o[2] \in Users BY InSpace, MemberIdParts DEF OwnersOf
<1>3. {x \in OwnersOf(w) : member[x].status = "active" /\ \A y \in OwnersOf(w) : y = x} = {o}
  BY <1>1
<1>4. StructuralOwner(w) = {o[2]} BY <1>3 DEF StructuralOwner
<1> QED BY <1>1, <1>2, <1>4

LEMMA OwnersAsShown == ASSUME PagesInv PROVE OwnersAreShown
<1>1. Reported = {} BY OwnerAsShown DEF Reported
<1>2. ASSUME NEW a \in Users, Governs(a), NEW w \in Workspaces, Exists(w)
      PROVE  \E o \in Users :
        /\ <<w, o>> \in GovernedWorkspaces(a)
        /\ \A n, expected \in Users : user[n].active /\ ~space[w].frozen
             /\ CurrentOf(w, n) \cup FreshMembers(w, n) # {}
             => (MayReassign(a, w, n, expected) <=> expected = o)
  <2>1. PICK o \in OwnersOf(w) :
          /\ member[o].status = "active" /\ OwnersOf(w) = {o}
          /\ o[2] \in Users /\ StructuralOwner(w) = {o[2]}
    BY <1>2, OwnerAsShown
  <2>2. <<w, o[2]>> \in GovernedWorkspaces(a) BY <1>2, <2>1 DEF GovernedWorkspaces
  <2>3. \A n, expected \in Users : user[n].active /\ ~space[w].frozen
             /\ CurrentOf(w, n) \cup FreshMembers(w, n) # {}
             => (MayReassign(a, w, n, expected) <=> expected = o[2])
    BY <1>2, <2>1 DEF MayReassign
  <2> QED BY <2>1, <2>2, <2>3
<1>3. ASSUME NEW a \in Users, NEW w \in Workspaces
      PROVE  w \in ListedWorkspaces(a) <=> OnWorkspacePage(a, w, "workspace.read")
  <2>1. OnWorkspacePage(a, w, "workspace.read") <=> Authorized(a, w, "workspace.read", "any")
    BY DEF OnWorkspacePage
  <2>2. Exists(w) => Lifecycle(w) \in Lifecycles BY DEF Exists, Lifecycle, Lifecycles
  <2>3. \A m \in {w} \X {a} \X Gens : member[m].role \in Roles
    BY InPair DEF PagesInv, MembershipInv, OwnershipInv, TypeOK, MemberRows
  <2> QED BY <2>1, <2>2, <2>3, EverybodyReads DEF ListedWorkspaces, Authorized
<1>4. ASSUME NEW a \in Users, NEW w \in Workspaces, w \in ListedWorkspaces(a)
      PROVE  \E m \in ListedMembers(a, w) : m[2] = a
  <2>1. PICK m \in {w} \X {a} \X Gens : member[m].status = "active"
    BY <1>4 DEF ListedWorkspaces
  <2>2. m \in {w} \X Users \X Gens /\ m[2] = a BY <2>1
  <2>3. Authorized(a, w, "workspace.read", "any") BY <1>3, <1>4 DEF OnWorkspacePage
  <2>4. user[a].active BY <1>4 DEF ListedWorkspaces
  <2> QED BY <2>1, <2>2, <2>3, <2>4 DEF ListedMembers
<1>5. ASSUME NEW a \in Users, NEW w \in Workspaces, GovernedMembers(a, w) # {}
      PROVE  ListedMembers(a, w) \subseteq GovernedMembers(a, w)
  BY <1>5 DEF ListedMembers, GovernedMembers, Current
<1> QED BY <1>1, <1>2, <1>3, <1>4, <1>5 DEF OwnersAreShown

-------------------------------------------------------------------------------
(* Only the commands on the Workspace itself write its lifecycle. *)

LEMMA SpaceUnwritten ==
  ASSUME TypeOK, NEW u, NEW m, NEW i, NEW t, Write(Rows(u, NoRows, m, i, t))
  PROVE  space' = space
BY PutNothing DEF Write, Rows, TypeOK

LEMMA SpaceOfMembers == ASSUME TypeOK, MemberCommand PROVE space' = space
<1>1. PICK a \in Users, m \in MemberIds :
        \/ \E r \in AskRoles : SetRole(a, m, r)
        \/ Suspend(a, m)
        \/ Reactivate(a, m)
        \/ Terminate(a, m)
        \/ Leave(a, m)
        \/ Transfer(a, m)
        \/ \E b \in BOOLEAN : Select(a, m, b)
  BY DEF MemberCommand
<1>2. CASE \E r \in AskRoles : SetRole(a, m, r)
  BY <1>2, SpaceUnwritten DEF SetRole, SetRoleRows
<1>3. CASE Suspend(a, m)
  <2>1. CASE member[m].status = "suspended"
    BY <1>3, <2>1, SpaceUnwritten DEF Suspend, SuspendRows, NoChange
  <2>2. CASE member[m].status # "suspended"
    BY <1>3, <2>2, SpaceUnwritten DEF Suspend, SuspendRows
  <2> QED BY <2>1, <2>2
<1>4. CASE Reactivate(a, m) BY <1>4, SpaceUnwritten DEF Reactivate, ReactivateRows
<1>5. CASE Terminate(a, m) BY <1>5, SpaceUnwritten DEF Terminate, EndRows
<1>6. CASE Leave(a, m) BY <1>6, SpaceUnwritten DEF Leave, EndRows
<1>7. CASE Transfer(a, m) BY <1>7, SpaceUnwritten DEF Transfer, TransferRows
<1>8. CASE \E b \in BOOLEAN : Select(a, m, b)
  BY <1>8, SpaceUnwritten DEF Select, SelectRows
<1> QED BY <1>1, <1>2, <1>3, <1>4, <1>5, <1>6, <1>7, <1>8

LEMMA SpaceOfInvitations == ASSUME TypeOK, InvitationCommand PROVE space' = space
<1>1. PICK a \in Users :
        \/ \E w \in Workspaces, u \in Users, r \in AskRoles : Invite(a, w, u, r)
        \/ \E i \in InviteIds : Accept(a, i)
        \/ \E i \in InviteIds : Revoke(a, i)
  BY DEF InvitationCommand
<1>2. CASE \E w \in Workspaces, u \in Users, r \in AskRoles : Invite(a, w, u, r)
  BY <1>2, SpaceUnwritten DEF Invite, InviteRow
<1>3. CASE \E i \in InviteIds : Accept(a, i) BY <1>3, SpaceUnwritten DEF Accept, AcceptRows
<1>4. ASSUME NEW i \in InviteIds, Revoke(a, i) PROVE space' = space
  BY <1>4, SpaceUnwritten DEF Revoke, RevokeRows, NoChange
<1> QED BY <1>1, <1>2, <1>3, <1>4

LEMMA SpaceOfReassignment ==
  ASSUME TypeOK, NEW a \in Users, NEW w \in Workspaces, NEW n \in Users, NEW expected \in Users,
         Reassign(a, w, n, expected)
  PROVE  space' = space
<1> DEFINE owner == CHOOSE o \in OwnersOf(w) : TRUE
           target == CHOOSE m \in (IF CurrentOf(w, n) = {} THEN FreshMembers(w, n)
                                   ELSE CurrentOf(w, n)) : TRUE
           closed == IF member[target].status = "active" THEN NoRows
                     ELSE Revoked(PendingOf(w, n))
<1>1. \/ ReassignRows(w, n) = NoChange
      \/ ReassignRows(w, n) = Rows(NoRows, NoRows, HandOver(owner, target), closed, NoRows)
  BY DEF ReassignRows
<1> HIDE DEF owner, target, closed
<1>2. Write(ReassignRows(w, n)) BY DEF Reassign
<1> QED BY <1>1, <1>2, SpaceUnwritten DEF NoChange

LEMMA NextPages == PagesInv /\ [Next]_vars => PagesInv'
<1> SUFFICES ASSUME PagesInv, [Next]_vars PROVE GoneIsNotFrozen'
  BY NextMembership DEF PagesInv
<1>0. TypeOK BY DEF PagesInv, MembershipInv, OwnershipInv
<1>1. ASSUME space' = space PROVE GoneIsNotFrozen' BY <1>1 DEF PagesInv, GoneIsNotFrozen
\* One Workspace is written, either while it goes on or, not frozen, to its end.
<1>2. ASSUME NEW w \in Workspaces, NEW image, space' = Put(Row(w, image), space),
             image.state = "deleted" => ~image.frozen
      PROVE  GoneIsNotFrozen'
  <2> SUFFICES ASSUME NEW v \in Workspaces, space'[v].state = "deleted"
               PROVE  ~space'[v].frozen
    BY DEF GoneIsNotFrozen
  <2>1. space'[v] = IF v = w THEN image ELSE space[v] BY <1>0, <1>2, PutRow DEF TypeOK
  <2> QED BY <1>2, <2>1 DEF PagesInv, GoneIsNotFrozen
<1>3. ASSUME NEW m, NEW i, NEW t, NEW w, NEW image, Write(Rows(NoRows, Row(w, image), m, i, t))
      PROVE  space' = Put(Row(w, image), space)
  BY <1>3 DEF Write, Rows
<1>4. CASE MemberCommand BY <1>0, <1>1, <1>4, SpaceOfMembers
<1>5. CASE WorkspaceCommand
  <2>1. PICK a \in Users, w \in Workspaces :
          \/ \E n, expected \in Users : Reassign(a, w, n, expected)
          \/ Freeze(a, w)
          \/ Unfreeze(a, w)
          \/ Archive(a, w)
          \/ Restore(a, w)
          \/ Delete(a, w)
          \/ \E o \in Users : Create(a, w, o)
    BY <1>5 DEF WorkspaceCommand
  <2>2. CASE \E n, expected \in Users : Reassign(a, w, n, expected)
    BY <1>0, <1>1, <2>2, SpaceOfReassignment
  <2>3. CASE Freeze(a, w) \/ Unfreeze(a, w)
    <3>1. PICK b \in BOOLEAN : Exists(w) /\ Write(SetFrozenRows(w, b))
      BY <2>3 DEF Freeze, Unfreeze, MaySetFrozen
    <3> DEFINE image == [space[w] EXCEPT !.frozen = b]
    <3>2. image.state # "deleted" BY <1>0, <3>1, StatusSet DEF Exists
    <3>3. Write(Rows(NoRows, Row(w, image), NoRows, NoRows, NoRows)) BY <3>1 DEF SetFrozenRows
    <3> HIDE DEF image
    <3> QED BY <1>2, <1>3, <3>2, <3>3
  <2>4. CASE Archive(a, w) \/ Restore(a, w)
    <3>1. PICK s \in {"active", "archived"} : Write(StateRows(w, s))
      BY <2>4 DEF Archive, Restore
    <3> DEFINE image == [space[w] EXCEPT !.state = s]
    <3>2. image.state # "deleted" BY <1>0, <3>1, StatusSet
    <3>3. Write(Rows(NoRows, Row(w, image), NoRows, NoRows, NoRows)) BY <3>1 DEF StateRows
    <3> HIDE DEF image
    <3> QED BY <1>2, <1>3, <3>2, <3>3
  <2>5. CASE Delete(a, w)
    <3>1. ~space[w].frozen /\ Write(DeleteRows(w)) BY <2>5 DEF Delete, MayDelete
    <3> DEFINE image == [space[w] EXCEPT !.state = "deleted"]
    <3>2. ~image.frozen BY <1>0, <3>1, StatusSet
    <3>3. space' = Put(Row(w, image), space) BY <3>1 DEF Write, DeleteRows, Rows
    <3> HIDE DEF image
    <3> QED BY <1>2, <3>2, <3>3
  <2>6. CASE \E o \in Users : Create(a, w, o)
    <3>1. PICK o \in Users : Write(CreateRows(w, o)) BY <2>6 DEF Create
    <3> DEFINE image == [state |-> "active", frozen |-> FALSE]
    <3>2. image.state # "deleted" OBVIOUS
    <3>3. space' = Put(Row(w, image), space) BY <3>1 DEF Write, CreateRows, Rows
    <3> HIDE DEF image
    <3> QED BY <1>2, <3>2, <3>3
  <2> QED BY <2>1, <2>2, <2>3, <2>4, <2>5, <2>6
<1>6. CASE InvitationCommand BY <1>0, <1>1, <1>6, SpaceOfInvitations
<1>7. CASE AccountCommand
  BY <1>0, <1>1, <1>7, SpaceUnwritten
     DEF AccountCommand, SetActive, SetActiveRows, SetSystemRole, SetSystemRoleRows
<1>8. CASE PurgeHistory BY <1>0, <1>1, <1>8, SpaceUnwritten DEF PurgeHistory
<1>9. CASE \E i \in InviteIds : Lapse(i) BY <1>1, <1>9 DEF Lapse
<1>10. CASE UNCHANGED vars BY <1>1, <1>10 DEF vars
<1> QED BY <1>4, <1>5, <1>6, <1>7, <1>8, <1>9, <1>10 DEF Next

LEMMA InitPages == Init => PagesInv
<1> SUFFICES ASSUME Init PROVE GoneIsNotFrozen BY InitMembership DEF PagesInv
<1> QED BY DEF Init, GoneIsNotFrozen

LEMMA DirectoryMeets == PagesInv => PagesMeetCommands
<1>1. ASSUME PagesInv PROVE MemberRowsAgree
  BY <1>1, OffersToMembers DEF MemberRowsAgree, PagesInv
<1>2. ASSUME PagesInv PROVE InvitationPagesAgree
  BY <1>2, InvitationsAsShown DEF InvitationPagesAgree
<1> QED BY <1>1, <1>2, OwnersAsShown DEF PagesMeetCommands

-------------------------------------------------------------------------------
(* The policy of AccessRequest, read off its rules role by role.               *)

LEMMA GrantParts ==
  \A a, l, r, actions, lifecycles, relations :
    <<a, l, r>> \in Grant(actions, lifecycles, relations)
      <=> a \in actions /\ l \in lifecycles /\ r \in relations
BY DEF Grant

\* What a rule grants in a closed Workspace it grants for reading in an active one
\* too, restoring and deleting an archived one apart.
StandsStill(base, a, l, r) ==
  <<a, l, r>> \in Grants[base] /\ l # "active" =>
    \/ ~Mutating(a) /\ <<a, "active", r>> \in Grants[base]
    \/ l = "archived" /\ a \in {"workspace.restore", "workspace.delete"}

LEMMA GrantsStandStill ==
  ASSUME NEW base \in Roles, NEW a, NEW l, NEW r PROVE StandsStill(base, a, l, r)
<1>1. <<a, l, r>> \in ViewerGrants /\ l # "active" =>
        ~Mutating(a) /\ <<a, "active", r>> \in ViewerGrants
  BY GrantParts DEF ViewerGrants, Readable, Lifecycles, Mutating, ReadActions
<1>2. <<a, l, r>> \in ReviewerGrants => l = "active" BY GrantParts DEF ReviewerGrants
<1>3. <<a, l, r>> \in EditorGrants => l = "active" BY GrantParts DEF EditorGrants
<1>4. <<a, l, r>> \in AdminGrants /\ l # "active" =>
        \/ ~Mutating(a) /\ <<a, "active", r>> \in AdminGrants
        \/ l = "archived" /\ a = "workspace.restore"
  BY GrantParts DEF AdminGrants, Readable, Lifecycles, Mutating, ReadActions
<1>5. <<a, l, r>> \in OwnerGrants /\ l # "active" => l = "archived" /\ a = "workspace.delete"
  BY GrantParts DEF OwnerGrants
<1> QED BY <1>1, <1>2, <1>3, <1>4, <1>5 DEF StandsStill, Grants, Roles

\* Commands on another membership are granted from admin on over members, and to
\* the owner over admins.
LEMMA CommandGrants ==
  ASSUME NEW base \in Roles, NEW a \in MemberCommands \ {"workspace_member.leave"}, NEW l, NEW r,
         <<a, l, r>> \in Grants[base]
  PROVE  \/ base = "admin" /\ r = "member"
         \/ base = "owner" /\ r \in {"admin", "member"}
<1>1. <<a, l, r>> \notin ViewerGrants BY GrantParts DEF ViewerGrants, MemberCommands
<1>2. <<a, l, r>> \notin ReviewerGrants BY GrantParts DEF ReviewerGrants, MemberCommands
<1>3. <<a, l, r>> \notin EditorGrants BY GrantParts DEF EditorGrants, MemberCommands
<1>4. <<a, l, r>> \in AdminGrants => r = "member"
  BY GrantParts DEF AdminGrants, MemberCommands
<1>5. <<a, l, r>> \in OwnerGrants => r \in {"admin", "member"}
  BY GrantParts DEF OwnerGrants, MemberCommands
<1> QED BY <1>1, <1>2, <1>3, <1>4, <1>5 DEF Grants, Roles

VerdictStands ==
  /\ role \in Roles /\ lifecycle \in Lifecycles /\ asked \in Questions
  /\ verdict = Allowed(role, asked.action, lifecycle, asked.relation)

LEMMA VerdictIsSound == VerdictStands => GrantsSound
<1> SUFFICES ASSUME VerdictStands, verdict PROVE GrantsSound
  BY DEF GrantsSound, ClosedStandsStill, AuthorityReachesDown
<1>1. PICK base \in Roles :
        Inherits(role, base) /\ <<asked.action, lifecycle, asked.relation>> \in Grants[base]
  BY DEF VerdictStands, Allowed
<1>2. ClosedStandsStill
  <2> SUFFICES ASSUME lifecycle # "active"
               PROVE  \/ /\ ~Mutating(asked.action)
                         /\ Allowed(role, asked.action, "active", asked.relation)
                      \/ /\ lifecycle = "archived"
                         /\ asked.action \in {"workspace.restore", "workspace.delete"}
    BY DEF ClosedStandsStill
  <2>1. StandsStill(base, asked.action, lifecycle, asked.relation) BY GrantsStandStill
  <2> QED BY <1>1, <2>1 DEF StandsStill, Allowed
<1>3. AuthorityReachesDown
  <2> SUFFICES ASSUME asked.action \in MemberCommands \ {"workspace_member.leave"},
                      NEW target \in Roles, MemberRelation(target) = asked.relation
               PROVE  Rank[role] > Rank[target]
    BY DEF AuthorityReachesDown
  <2>1. \/ base = "admin" /\ asked.relation = "member"
        \/ base = "owner" /\ asked.relation \in {"admin", "member"}
    BY <1>1, CommandGrants
  <2>2. role \in Roles BY DEF VerdictStands
  <2> QED BY <1>1, <2>1, <2>2 DEF Inherits, Rank, Roles, MemberRelation
<1> QED BY <1>2, <1>3 DEF GrantsSound

\* A closed Workspace stands still, and authority over memberships reaches strictly
\* down the hierarchy, whatever is asked (access/policy/policy.csv).
THEOREM GrantsAreSound == RequestSpec => []GrantsSound
<1>1. RequestInit => VerdictStands BY DEF RequestInit, VerdictStands
<1>2. VerdictStands /\ [RequestNext]_requestVars => VerdictStands'
  <2> SUFFICES ASSUME VerdictStands, [RequestNext]_requestVars PROVE VerdictStands' OBVIOUS
  <2>1. ASSUME NEW r \in Roles, NEW l \in Lifecycles, Ask(r, l, asked) PROVE VerdictStands'
    BY <2>1 DEF Ask, VerdictStands
  <2>2. CASE RequestNext BY <2>1, <2>2 DEF RequestNext, Promote, Demote, Move, VerdictStands
  <2>3. CASE UNCHANGED requestVars BY <2>3 DEF requestVars, VerdictStands
  <2> QED BY <2>2, <2>3
<1> QED BY <1>1, <1>2, VerdictIsSound, PTL DEF RequestSpec
===============================================================================
