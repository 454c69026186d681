-------------------------------- MODULE Listings --------------------------------
(***************************************************************************)
(* Listings of workflows by pages, each page a query of its own, while     *)
(* workflows are enqueued, end, are resumed and are purged                 *)
(* (list_active_workflows and DBOSAdapter.list of core/workflows.py).      *)
(*                                                                         *)
(* What active workflows have reserved is protected from deletion, so that *)
(* nothing that is active all along may be missed.                         *)
(***************************************************************************)
EXTENDS Naturals, Sequences, FiniteSets

CONSTANTS PageSize,   \* 10 000 of list_active_workflows
          ScanSize,   \* the least page of the local scan, 100
          MaxOld,     \* bound: workflows that are there before
          MaxChanges  \* bound: what happens during the listing

SizesAssumption == PageSize \in Nat \ {0} /\ ScanSize \in Nat \ {0}
BoundsAssumption == MaxOld \in Nat /\ MaxChanges \in Nat

VARIABLES rows,     \* workflow_status, newest first
          listing,
          standing, \* history: active since the listing began
          ended,    \* history: an active workflow ended since then
          changes   \* history: how often something changed since then

listings == <<rows, listing, standing, ended, changes>>

Listed == 1..(MaxOld + MaxChanges)

\* RETIRING stands for a status this version does not know.  A listing tells no
\* more of them apart than three: PENDING is also ENQUEUED and DELAYED, SUCCESS
\* also CANCELLED, RETIRING also ERROR.
Visible(raw) ==
  CASE raw \in {"ENQUEUED", "DELAYED"} -> "pending"
    [] raw = "PENDING"                -> "running"
    [] raw = "SUCCESS"                -> "succeeded"
    [] raw = "CANCELLED"              -> "cancelled"
    [] OTHER                          -> "failed"
ActiveRaw == {"PENDING"}
TerminalRaw == {"SUCCESS", "RETIRING"}

\* rows[offset : offset + limit]
Slice(s, offset, limit) ==
  SubSeq(s, offset + 1, IF offset + limit < Len(s) THEN offset + limit ELSE Len(s))
IsActive(row) == row.raw \in ActiveRaw
HasFailed(row) == Visible(row.raw) = "failed"
Ids(s) == {s[i].id : i \in 1..Len(s)}

TypeOK ==
  /\ rows \in Seq([id : Listed, raw : ActiveRaw \cup TerminalRaw])
  /\ listing.kind \in {"none", "active", "failed"} /\ listing.done \in BOOLEAN
  /\ standing \in SUBSET Listed /\ ended \in BOOLEAN /\ changes \in 0..MaxChanges

NoListing == [kind |-> "none", done |-> FALSE, scan |-> 0, got |-> <<>>,
              offset |-> 0, limit |-> 0]
Underway == listing.kind # "none" /\ ~listing.done

-------------------------------------------------------------------------------
(* The workflows.                                                           *)

Changes(new) ==
  /\ rows' = new /\ changes < MaxChanges /\ changes' = changes + 1
  /\ standing' = standing \cap Ids(SelectSeq(new, IsActive))
  /\ ended' = (ended \/ ~(Ids(SelectSeq(rows, IsActive)) \subseteq Ids(SelectSeq(new, IsActive))))
  /\ UNCHANGED listing

Enqueue == Changes(<<[id |-> MaxOld + changes + 1, raw |-> "PENDING"]>> \o rows)
Ends(i, raw) == IsActive(rows[i]) /\ Changes([rows EXCEPT ![i].raw = raw])
Resume(i) ==
  /\ ~IsActive(rows[i])
  /\ Changes([rows EXCEPT ![i].raw = "PENDING"])
Purge(i) ==
  /\ ~IsActive(rows[i])
  /\ Changes(SubSeq(rows, 1, i - 1) \o SubSeq(rows, i + 1, Len(rows)))

-------------------------------------------------------------------------------
(* The listings.                                                            *)

Begin(kind, offset, limit) ==
  /\ listing.kind = "none"
  /\ listing' = [NoListing EXCEPT !.kind = kind, !.offset = offset, !.limit = limit]
  /\ standing' = Ids(SelectSeq(rows, IsActive)) /\ ended' = FALSE /\ changes' = 0
  /\ UNCHANGED rows
ListActive == Begin("active", 0, 0)
ListFailed(offset, limit) == Begin("failed", offset, limit)

\* Mutant: a full page ends the listing too.
ReadActiveOnce ==
  /\ listing.kind = "active" /\ Underway
  /\ LET page == Slice(SelectSeq(rows, IsActive), listing.scan, PageSize) IN
     listing' = [listing EXCEPT !.got = @ \o page, !.scan = @ + Len(page), !.done = TRUE]
  /\ UNCHANGED <<rows, standing, ended, changes>>
ReadActive ==
  /\ listing.kind = "active" /\ Underway
  /\ LET page == Slice(SelectSeq(rows, IsActive), listing.scan, PageSize) IN
     listing' = [listing EXCEPT !.got = @ \o page, !.scan = @ + Len(page),
                   !.done = Len(page) < PageSize]
  /\ UNCHANGED <<rows, standing, ended, changes>>

\* Statuses unknown to this version are failures, which DBOS cannot filter.
PageOfScan == IF listing.limit > ScanSize THEN listing.limit ELSE ScanSize
\* Mutant: the scan goes on from what matched.
ScanFailedByMatches ==
  /\ listing.kind = "failed" /\ Underway
  /\ LET page    == Slice(rows, listing.scan, PageOfScan)
         matched == listing.got \o SelectSeq(page, HasFailed)
     IN listing' = [listing EXCEPT !.got = matched, !.scan = Len(matched),
                      !.done = \/ Len(page) < PageOfScan
                               \/ Len(matched) >= listing.offset + listing.limit]
  /\ UNCHANGED <<rows, standing, ended, changes>>
ScanFailed ==
  /\ listing.kind = "failed" /\ Underway
  /\ LET page    == Slice(rows, listing.scan, PageOfScan)
         matched == listing.got \o SelectSeq(page, HasFailed)
     IN listing' = [listing EXCEPT !.got = matched, !.scan = @ + Len(page),
                      !.done = \/ Len(page) < PageOfScan
                               \/ Len(matched) >= listing.offset + listing.limit]
  /\ UNCHANGED <<rows, standing, ended, changes>>
Result ==
  IF listing.kind = "failed" THEN Slice(listing.got, listing.offset, listing.limit)
  ELSE listing.got

-------------------------------------------------------------------------------
Init ==
  /\ \E n \in 0..MaxOld : \E raw \in [1..n -> ActiveRaw \cup TerminalRaw] :
       rows = [i \in 1..n |-> [id |-> n + 1 - i, raw |-> raw[i]]]
  /\ listing = NoListing
  /\ standing = {} /\ ended = FALSE /\ changes = 0

Workflows ==
  \/ Enqueue
  \/ \E i \in 1..Len(rows) :
       Resume(i) \/ Purge(i) \/ \E raw \in TerminalRaw : Ends(i, raw)
Listing ==
  \/ ListActive \/ ReadActive \/ ScanFailed
  \/ \E offset \in 0..1, limit \in 1..(ScanSize + 1) : ListFailed(offset, limit)
Next == (Underway /\ Workflows) \/ Listing

-------------------------------------------------------------------------------
\* A workflow that is active all the while is missed only if more than a page
\* were active and one of those ended between two pages: then the next page
\* begins too far.  Workflows that are enqueued meanwhile are only listed twice.
NothingMissed ==
  listing.kind = "active" /\ listing.done =>
    standing \subseteq Ids(Result) \/ (ended /\ Len(listing.got) >= PageSize)

\* The failed workflows are those of that place in their order, if nothing
\* changes between the pages of the scan, whatever the sizes.
FailedIsExact ==
  listing.kind = "failed" /\ listing.done /\ changes = 0 =>
    Result = Slice(SelectSeq(rows, HasFailed), listing.offset, listing.limit)

ListingsHold == NothingMissed /\ FailedIsExact
===============================================================================
