# Quirebase: models, checks and proofs

Quirebase is a self-hosted, multi-workspace reference manager: a FastAPI backend on
PostgreSQL (or SQLite) and an object store, durable workflows (DBOS), a Svelte client and
an MCP server. The backend's correctness rests on a concurrency contract
(`docs/architecture/business-concurrency.md`): READ COMMITTED transactions, explicit
row locks taken in a fixed order, facts read again under those locks, conditional
updates instead of retries, and durable workflows with checkpointed steps. These
modules say what that contract promises and check, or prove, that the code keeps it.

Paths below are relative to `src/quirebase/` unless they start with `docs/`, `tests/` or
`packages/`.

## 1. The system

| Component | State | Operations | Hard behaviour | What makes it correct |
|---|---|---|---|---|
| Workspace policy (`access/workspace_policy.py`, `access/policy/`) | none; a Casbin bundle | decide one action from role, lifecycle, relation | grants composed through five levels of inheritance | closed Workspaces stay as they are; authority reaches strictly down |
| Access contexts (`access/context.py`, `projections.py`, `project_scope.py`) | none | resolve membership and lifecycle, lock roots, project decisions to pages | facts read before a lock wait; pages decide from their own queries | commands use fresh facts; pages offer what commands accept |
| Workspaces (`workspaces/`) | workspaces, workspace_members, workspace_invitations | roles, suspension, leaving, transfer, reassignment, freeze, archive, delete, create, invite, accept, revoke, retention, listings | authority that changes while a command waits for a lock; lock order over Users and Workspace roots | one owner, one membership, a last administrator, freeze holds, no admission without a valid invitation, no deadlock |
| Account administration (`accounts/administration.py`) | users | status, system role, password reset, session revocation | fences the target's running commands in all its Workspaces | nobody acts with authority that a commit has taken away |
| Login (`accounts/authentication.py`, `sessions.py`, `throttling.py`, `retention.py`) | login_sessions, login_throttles, password hashes | login, logout, password change, throttling, cleanup | hashes verified between two transactions; expiring throttle windows | no session from an obsolete credential, bounded overshoot, no lost failure count |
| Registration (`accounts/registration.py`, `invitations.py`) | instance invitations, users | create, revoke, reissue, accept, register, purge | conditional updates and unique keys as arbiters, waits for uncommitted rows | an accepted invitation is its account; a revoked link admits nobody |
| Projects (`projects/`) | projects, project_participants, project_items | join, leave, add, remove, settings, lifecycle, working sets | a statement that waited sees one row as of now and the rest as of its start; unique-key waits | selections of current members only, read-only Projects stand still, counts are true |
| Import batches (`library/imports.py`, `library/workflows.py`) | import_batches, candidates, durable executions, staged objects | stage, prepare, look up, publish, preview, retry, confirm, discard, retire, converge | executions that outlive their batch; cleanup against retry and confirmation | no owned PDF deleted, no result lost, each PDF confirmed once, nothing pending for ever |
| Lookups (`library/workflows.py`, `packages/inquiro/`) | the outcomes of one call | batch, split, retry | answers too large, short, reordered, late | each source keeps an answer to its own identifier; splitting ends |
| Document objects (`documents/objects.py`, `revisions.py`, `workflows.py`, `exports.py`, `copying.py`) | file_revisions, attachments, export_artifacts, objects, reservations | reserve, upload, inspect, retry, publish, delete, export, copy, collect | rows and objects live in different systems; receipts, crashes, superseded inspections | every named object exists, every object is owned or goes, outcomes are the owner's |
| Downloads (`documents/bundles.py`, `revisions.py`, `core/storage.py`, `web/api/`) | a request, a temporary copy | content, thumbnails, ranges, links, archives | nothing is locked between check, look and read | what stands is served whole, links work until they end, nothing is held |
| Annotations (`documents/annotations.py`, `access/annotations.py`) | annotations, replies, versions | create, edit, delete, restore, moderate, reply, detach, purge | versions against moderation, detachment and retention | no lost update; replies only where readers are; undo holds |
| Library items (`library/item_metadata.py`, `tags.py`, `discussions.py`, `bulk_items.py`) | items, tags, links, messages | edit, synchronize, assign, select, merge, discuss | bulk commands in different orders; authority asked again behind a lock | own keys stay, merges lose nothing, messages under authority |
| Tag recommendations, search (`library/tag_recommendations.py`, `search/`) | recommendations, projections | request, generate, store, rebuild | results computed from inputs that have changed | what is derived says what the Item says |
| Durable operations, maintenance (`core/workflows.py`, `core/workflow_storage.py`, `operations/`) | DBOS rows, snapshot, backups | enqueue, recover, list, purge, scan, back up, restore, compact | history retired under a resumed workflow; interrupted restores; listings by pages | work is done once, histories leave whole, a restore is the backup |
| API tokens (`accounts/api_tokens.py`, `web/api/auth.py`, `mcp/`) | api_tokens | authenticate, issue, revoke, retire | several statements between authentication and command, twice for a tool call | commands of active accounts, on their own tokens, with tokens that live |
| Audit, web, MCP, providers, frontend | logs, none | record, serve | mostly I/O | see section 8 |

How they interact:

- Every Workspace command resolves an access context (`access/context.py`): an active
  membership, its role, the lifecycle, then the policy. Content commands hold the
  Workspace root FOR SHARE, governance FOR UPDATE.
- Commands that depend on a User (transfer, invite, accept, reassign, freeze, create,
  account commands) lock User rows in id order before the Workspace root; deactivation
  then locks every Workspace of its target.
- A request authenticates statement by statement and then resolves its context; what it
  authenticated with may have ended by then, and only the locks of its command count.
- A Project command holds the Workspace root shared, then the Project row, then the
  association rows in one order. A Document command holds the Item root against the
  others of its Item.
- Ending a membership deletes its Project selections; returning makes a new membership.
- A business row and the workflow that works for it are committed together; from then on
  they meet only through that row, through the workflow's observed state and through the
  object keys it has reserved. Object deletion asks several places, at several times,
  whether anything still names the key.
- The requests that serve objects lock nothing. They check, look and read, and every
  other command may commit in between.

## 2. Modules

| Module | Stands for |
|---|---|
| `AccessPolicy` | `policy.csv`, the matcher of `model.conf`, the relation facts of `workspace_policy.py`. A grant is `<<action, lifecycle, relation>>`; roles inherit by rank. |
| `AccessRequest` | one request whose actor's role and Workspace's lifecycle move while it is decided. |
| `Governance` | the **abstract specification** of Workspaces and account administration: each command is one step on committed tables. `MayX` is the command's checks, `XRows` the images of the rows it writes, `X` both. |
| `GovernanceTx` | the same commands as concurrent transactions: `Plan` is the lock order, `Acquire`, `Decide…`, `Fence`, `Commit`, `Rollback`, `Victim` the steps. It reuses `MayX` and `XRows`, so both levels decide with the same definitions. |
| `Directory` | the pages of a Workspace (listings of Workspaces, members and invitations, and the commands they offer) as functions of the tables of `Governance`; beside them, in an instance `Work`, those of `Offers`. |
| `Login` | requests that span several transactions: throttle check, capture of the hash, verification outside, User lock, signing; and all that revokes. |
| `Registration` | how one username becomes an account: instance invitations and open registration, with the waits at conditional updates and unique keys. |
| `Tokens` | requests that authenticate with an API token, a session or from the CLI, a tool call at two servers, and then issue or revoke a token. |
| `Projects` | the **abstract specification** of the Projects of one Workspace; the Workspace is its environment, which may do whatever `Governance` could. |
| `ProjectsTx` | Project commands as transactions: lookup with a snapshot, wait for the row, fresh recheck, decision, one association lock at a time, commit. |
| `Offers` | the pages of a Project and of a document, and the Annotations they show to whom, as functions of the tables of `Projects`. |
| `ImportBatch` | one PDF batch with its durable executions (one per generation), the cleanup queue, reconciliation and one client's preview. |
| `Lookups` | one call that identifies several sources, with its batches, splits and tasks, and the attempts and waits of an import around it. |
| `Documents` | the Documents of one Item and their objects: uploads, inspections, attachments, exports, copies, deletion, collection, faults. |
| `Downloads`, `Ranges` | one reader's request against `Documents`, whose variables it takes; the byte ranges of a response. |
| `Reading` | `Documents` with the reader of `Downloads`, whose Documents change around the request, and `Annotations` beside them. |
| `Annotations` | one Annotation and one Reply, requests of authors, moderators and repliers, the detachment of their ProjectItem, retention. |
| `Items` | the metadata of one Item, its citation key, search rows and recommendation. |
| `Tags` | Tags and their links as transactions that take rows and keys one by one. |
| `Discussions` | messages on an Item and a Project; commands that decide, lock and decide again. |
| `Operations` | workflow history and its retirement, integrity scans and the maintenance snapshot. |
| `Listings` | listings of workflows by pages while workflows come, end, resume and go. |
| `Backups` | an operator's backup, restore and compaction, file operation by file operation. |
| `Accounts`, `Intake`, `Maintenance` | components that share no state, side by side for the runs and the theorems: `Login` with `Registration`; `ImportBatch` with `Lookups` and `Tokens`; `Operations` with `Backups`. |
| `Library` | the same for `Items`, `Tags` and `Discussions`. |
| `GovernanceProofs`, `GovernanceTxProofs`, `ProjectsProofs`, `DocumentsProofs`, `ImportBatchProofs`, `LoginProofs`, `ItemsProofs`, `MaintenanceProofs` | theorems. |
| `MC…` | instances for TLC: constants, and the scenes or casts of section 4. |

Correspondence of state:

- A membership is `<<workspace, user, generation>>` (in `Projects` `<<user, generation>>`):
  the generation stands for the UUID of the row, so that a member who returns is told
  apart from the member who left. Invitations likewise.
- `lapsed` are pending invitations past their expiry; `seat` says whether a membership
  holds a Project selection.
- In `GovernanceTx`, `ProjectsTx` and `Tags`, `tx[p]` is a process's transaction: locks
  held, locks to take, images not published. `ForeignUsers` are the FOR KEY SHARE locks
  that PostgreSQL takes for foreign keys at the flush. `talk[p]` in `Discussions` and
  `req[c]` in `Registration` are the same.
- In `ProjectsTx` a transaction also keeps what its lookup `found`: the snapshot its
  statement reads on with after it has waited for a row.
- In `Login`, a hash is its password, a salt serial and whether its cost is dated;
  `floor` and the serial kept in a session are history for the properties.
- In `Tokens`, `at` is the moment a command took under its lock and writes at its commit;
  `late` is history: the token had ended when the request arrived.
- In `ImportBatch`, `batch.gen` is the workflow id, `wf[g]` an execution with its
  reserved keys and checkpointed outcomes, `seen` the unlocked observation that it has
  ended, `sweep` the deletion between its reads, `reviewed` the preview a client holds.
- In `Documents`, an object key is the producer and the number of the execution that
  wrote it; `job` are the durable executions, `dead` those reported terminal whose step
  still runs, `mail` the upload receipts.
- In `Annotations`, `known[c]` is the version a client last saw, which its request names.
- In `Items`, texts are numbered by the version that wrote them, so that "computed from
  older inputs" is a comparison; `lost` says a notice of a change was given up by DBOS.
- In `Backups`, a database is the set of keys its rows name; `journal` is the file SQLite
  reads on top of the main one.

In the transactional modules a wait is modelled where PostgreSQL waits: at a row lock, at
a conditional UPDATE of a row another transaction has written, and at a unique key
another transaction has inserted and not committed. What waited then reads as READ
COMMITTED does: the row it waited for as it is now, the rest of its statement as of its
start.

## 3. Refinement

`GovernanceTx` implements `Governance` and `ProjectsTx` implements `Projects`, checked as
properties (`ImplementsGovernance`, `ImplementsProjects`) and proved (section 6). The mapping is the identity on
the tables: a commit must be the command its actor asked for, with its checks holding *at
the commit*, and everything else a stutter. This is what locks are for, and dropping a
fence or a recheck breaks it. Two places need care. An invitation that expires between
the check and the commit of its acceptance counts as expiring just after it
(`lapsed <- lapsed \ Carried`; the code reads the clock once). Partial unique indexes are
not modelled, so the locks alone must do.

`Directory` and `Offers` relate two more levels, the pages and the commands: they extend
the abstract specifications, and `PagesHold` (in `Directory`) compares both in every reachable
state. The tables of `Projects` are not tied to those of `Governance` there: the
environment of `Projects` covers whatever `Governance` does to a Workspace and its
memberships.
`Downloads` and `Documents` share variables: the one reads what the other writes.

## 4. Runs

| Run | Instance | Shows |
|---|---|---|
| `governance` | 2 accounts, 1 Workspace, up to 2 memberships and invitations each, from an empty database; 1 Project; the whole policy | atomic commands, the pages, and every question to the policy |
| `commands` | 3 accounts, 3 processes, 3 commands | handover, content and administrator families: refinement, no cycle of waits |
| `admission` | 3 accounts, 2 Workspaces, 2 processes, 3 commands | invitations, acceptance and creation: refinement, every command ends |
| `accounts` | administrator and member, 2 clients, limit 1, 1 reset or change; 1 username, 2 invitations, 2 callers | credentials, throttle, liveness of logins; instance invitations |
| `project_commands` | 2 members, 2 Projects, 2 Items, 2 processes, 4 commands | refinement, counts, joins, lock order, bulk commands that name the same rows in opposite orders |
| `imports` | 2 PDFs, 2 preparations; 5 sources of 2 providers, 3 attempts, 1 crash; 2 accounts, 2 tokens, 2 requests, clock to 3 | safety of imports; lookups; requests with tokens |
| `settles` | 1 PDF, 2 preparations; a workflow and its child; 2 scanners, 3 scans; 2 stored objects; 3 to 5 workflows on pages of 2 | liveness of imports and of retirement, scans, backups, listings |
| `documents` | up to 2 uploads, 2 attachments, an export or a copy, 2 faults, 1 retry; 1 reader, clock to 5; 2 sessions of an author, a moderator and 2 repliers, 3 versions | objects, downloads, Annotations |
| `library` | 1 Item, 3 versions, 2 Documents, 3 generations; 2 processes, 2 Items, 3 Tags, 3 commands; 2 accounts, 2 messages, 2 commands, 2 changes | derived data, synchronization, Tags, discussions |
| `cycle`, `tag_cycle`, `discussion_cycle` | 2 processes, 2 commands | the findings of section 7 |

Composite properties, and what they are made of:

| Property | Parts |
|---|---|
| `GrantsSound` | `ClosedStandsStill`, `AuthorityReachesDown` |
| `MembershipsSound` | `OneMembership`, `NoInvitedMember`, `OnePending`, `SeatsOfMembers`, `NeverStranded` |
| `ChangesStand` | `FreezeHolds`, `HistoryIsFinal`, `AdmissionIsGranted` |
| `PagesHold` | `PagesMeetCommands` (`MemberRowsAgree`, `InvitationPagesAgree`, `OwnersAreShown`), `OffersStand` (`ProjectPagesAgree`, `AnnotationPagesAgree`) |
| `SessionsSound` | `InactiveHasNoSession`, `NoObsoleteSession`, `ThrottleBound` |
| `CredentialsStand` | `WindowHolds`, `PasswordMoves` |
| `InvitationsStand` | `AcceptedMeansAccount`, `RevokedStaysOut` |
| `SeatsSound` | `ImplicitIsEmpty`, `SeatsAreCurrent`, `CountsStand` |
| `SeatingStands` | `ReadOnlyStands`, `CurationHasCurator`, `JoinersAreSeated` |
| `AnnotationsStand` | `ReplacedIsSeen`, `RepliesMeetReaders`, `UndoHolds` |
| `ProjectionsAgree` | `ReadyIsCurrent`, `IndexAgrees` |
| `EverythingSettles` | `PendingSettles`, `OrphansGo` of imports, `RecordsGo` |
| `LookupsHold` | `AnswersStand`, `SplitsShrink` |
| `DownloadsHold` | `WhatStandsIsServed`, `ArchiveIsWhole`, `LinkWorks`, `NothingIsHeld` |
| `BackupsHold` | `BackupIsWhole`, `RestoredIsSaved`, `RowsHaveObjects` |
| `ListingsHold` | `NothingMissed`, `FailedIsExact` |
| `MaintenanceStands` | `ResumedRunsOn`, `ScansStand` |

Several runs check more than one part of the system: each behaviour chooses a *scene* or
*cast* in its first state and keeps it. Casts of different modules share no state, so a
product of them would show nothing more; what does share state (Documents and their
readers, a Workspace and its pages) is composed within one cast. Casts of one module are
groups of actors that meet on the same rows:

- `MCGovernance`: every command with each account admitted once; admissions only, with
  returns; the commands and pages of a Project; questions to the policy.
- `MCGovernanceTx`, `MCProjectsTx`: families of commands that touch the same rows and mix
  freely within the family. Commands of different families meet at most at the Workspace
  root.
- `MCDocuments`: a PDF with its retry; two graphical abstracts; a PDF with an export; a
  PDF or an attachment with a copy; a reader of two PDFs and an attachment, or of one, or
  of an artifact; pairs and triples of sessions over the Annotation. A reader meets
  Documents that are there from the start and are only removed; two PDFs to choose from
  have failed inspections and no thumbnails.
- `MCImportBatch`: a batch; lookups; requests with API tokens, either before any token is
  issued, or with a live token of one account, one about to expire of the other and one
  login or change of status.
- `MCLibrary`: edits against generations, against a rebuild, against synchronizations;
  Tags; discussions.

Why the bounds are enough to be of use:

- *Two generations* are the least that tell a returning member from the one who left and
  a retried preparation from the first; a third adds nothing that the second does not.
  For ownership, membership and the import properties the proofs remove the bound.
- *Three processes* show a pair of conflicting commands with a third one in the way;
  cycles of waits in this code need two or three resources.
- *Two PDFs* let one be identified while another fails, is deferred or is skipped, and an
  archive lose one member and keep another. *Two faults* let a repeated step meet a
  failed deletion, or a commit whose answer is lost.
- *Three versions* of a text or an Annotation: the one seen, the one that replaced it,
  and one more, so that "not newer" differs from "not current".
- `Limit = 1` with two clients is the least instance in which attempts overshoot.
- *Pages of two* with up to five workflows need up to three pages; the scan for failed
  workflows covers limits below and above its least page.
- In `Tokens` a token lives one day, retention is one day and the clock counts three: a
  token issued at the start expires and is retired while a request that has read it runs.
  One change is enough to take the account away from a request, or its session.
- The clock of `Downloads` runs one past the last instant a link or artifact can live.
- `MaxAsked`, `MaxCommands`, `Budget`, `MaxGens`, `MaxInvites`, `MaxInvitations`,
  `MaxRetries`, `MaxFaults`, `MaxVersion`, `MaxDocs`, `MaxToken`, `MaxDemands`,
  `MaxMoves`, `MaxDays`, `Retention`, `MaxScans`, `MaxPaths`, `MaxClock`, `MaxOld`, `MaxChanges`, `MaxAttempts`
  and `MaxLosses` are the only bounds on counters, and all sit in guards. (`MaxAttempts`
  and the wait budget of `Lookups` are the code's own.)

Symmetry is used for server processes, PDFs and requests only, in runs without liveness.
`CHECK_DEADLOCK FALSE` is said for `imports`, `settles`, `documents` and `library`, whose
systems do stop: once a batch and its objects are gone, a request is answered or a text
has had its last version, nothing is left to do. The transactional runs have an explicit
`Finished` step, so that every other standstill is reported.

## 5. Fairness

- `GovernanceTx`: weak fairness of a process's own steps. A server process executes its
  next statement; PostgreSQL grants a free lock and aborts a process of a cycle. New
  commands, rollbacks, expiry and retention are not fair.
- `Login`: weak fairness of steps that wait for nobody, strong fairness of lock grants,
  because a row lock is granted from a queue and cannot be overtaken for ever.
- `ImportBatch`: weak fairness of each execution (DBOS runs it, recovers it after a
  crash, or gives it up), the end of the upload request, the cleanup queue,
  reconciliation and retention, which are scheduled for as long as the server runs. No
  client is assumed to preview, retry or confirm, and no provider to answer.
- `Documents`: weak fairness of the orphan scan, which is periodic, and of deletions,
  which are durable steps. Uploads, inspections and copies may stop anywhere.
- `Items`: weak fairness of what waits in the DBOS queues and of rebuilds; a generation that
  is asked answers, with candidates or with the `ValueError` of section 7. Edits,
  failures and repetitions are not fair, and are bounded.
- `Operations`: weak fairness of workers, of the passing of the retention horizon and of
  the steps of the hourly round. Cancelling and resuming are not fair.

The other modules state safety only, for which no fairness is assumed.

## 6. Proofs

Proved by TLAPS, for all values of the constants.

*Governance* (`GovernanceProofs`; assumptions: users are a finite set of naturals, the
bounds are positive, a Workspace that exists at the start has one owner):

- `TypeCorrect`: one lemma per group of commands; row images have the types of the rows.
- `OwnershipIsUnique`, `MembershipIsUnique`: neither invariant is inductive. Creation
  adds an owner membership, harmless only because a Workspace that was never created has
  no membership rows; a handover keeps one owner only if the previous owner and the
  target are the only current rows concerned. The inductive invariant is
  `OwnershipInv == TypeOK /\ NothingBeforeCreation /\ OneMembership /\ OneOwner`. Most
  commands leave owners alone (`Kept`): they name a membership that is not an owner's, or
  act under a relation that the policy grants nobody on an owner (`NobodyOnOwner`, a
  lemma about `policy.csv`). Transfers and reassignments go through `HandOverKeepsInv`,
  acceptance through `AdmissionKeepsInv`, creation through `CreationKeepsInv`.
- `AdministratorStays`: the actor of an account command is an active administrator and
  never its own target when it takes authority away.
- `MembershipsAreSound`: all of `MembershipsSound`. The inductive invariant
  `MembershipInv` adds `OwnershipInv` and that nobody was invited to a Workspace before its
  creation, without which a creation could meet a pending invitation of its own owner. A
  step that is `Orderly` keeps it: most commands are, because they only close what is open
  (`Closing`), admissions and invitations because of what they check.
- `ChangesAreSound`: `ChangesStand`, the three action properties. Each group of commands
  is shown to keep what has ended (`HistoryKept`), to leave a frozen Workspace alone
  (`FreezeStep`), and to admit nobody except by ownership or by an invitation that was
  pending and unexpired (`AdmissionStep`); that a write stays `Within` one Workspace
  reduces the second to the Workspace the command names.

*Pages* (`GovernanceProofs`, over `Directory`; `ProjectsProofs`, over `Offers`; both together
at the end of `GovernanceTxProofs`; no assumptions beyond those on the constants of
`Governance` and `Projects`): `PagesAreTrue` states `PagesHold`. A page decides from queries
of its own and from the projections of `access/projections.py`; a command decides from a
context it resolves. What relates them:

- for members, invitations and owners, `MembershipInv` and that a Workspace which is gone is
  not frozen (`GoneIsNotFrozen`). Without it the effective lifecycle of a deleted Workspace,
  which the code reads as frozen first, would be one the policy grants reading in, and pages
  would list it. Leaving is the one grant that another relation decides
  (`LeavingIsRelative`).
- for Projects and Annotations, `OffersAreTrue` from sound tables (`TablesOK`) and that a
  membership begins only when the earlier ones of its User have ended
  (`GenerationsInOrder`), so that selections by membership and participants by User
  agree. The rest is about the policy: which grants come together. Whoever may change
  participation sees every Project (`AdminsOnly`, `GoverningSees`), and so finds the one it
  creates or changes; whoever may moderate may review, and so finds what is hidden
  (`ModerationIsGoverning`).

`WorkProofs` is the instance of `ProjectsProofs` over the tables of `Work`;
`SameStart`, `SameCommands` and `SameOffers` say that `Work` and it are one specification,
by expanding both.

*Policy* (`GovernanceProofs`, over `AccessRequest`; no assumptions): `GrantsAreSound` states
`GrantsSound`, by the rules of `policy.csv` role by role. `GrantsStandStill` says of each
rule that what it grants in a Workspace that is not active is reading, which it grants in an
active one as well, or restores or deletes an archived one; `CommandGrants` says which roles
the rules on other memberships belong to. Inheritance adds no further cases because both
are closed under a rise in rank.

*Transactions* (`GovernanceTxProofs`; any set of processes; assumptions: Workspaces have
an order, as UUIDs have; a request names a row by its Workspace; no two clients draw the
same id for a new Workspace): `TransactionsImplementGovernance`, **the refinement**, for
every number of accounts, Workspaces, processes and requests. The inductive invariant is
`TxInv`, and `DecisionsOutliveOthers` states it: no two processes hold conflicting locks
(`Exclusive`); a transaction has or waits for the locks of its plan (`PlanKept`) and, when
it deactivates an account, for every Workspace its target is in, including any it could
have entered since they were listed (`FenceStands`); and what it has decided is right for
the tables as they are now (`DecisionsStand`). The heart is that the last survives the
commits of others: each `MayX` and `XRows` depends on the rows of one Workspace and of
some Users, the plan of the command locks these, and whoever commits a change to them
holds a conflicting lock. Where a command reads less than it locks or locks less than it
reads, the lemma for the pair says why that does no harm. `TransactionsKeepMemberships`
then carries ownership, memberships and the last administrator over to the tables that
transactions share, late acceptances included.

*Import batches* (`ImportBatchProofs`; assumption: at least one preparation; any set of
PDFs): **all three safety properties of the run `imports`** that are about batches, and
`PreparedIsKept`, from three invariants.

- `FilesStay` from `FilesInv == TypeOK /\ NothingBeforeUpload /\ DoomedIsUnowned /\
  FilesPresent`. A deletion reads its three sources at three times. It is safe because
  ownership only moves one way: once the upload has ended nothing becomes staged, only
  staged PDFs become File Revisions (`ShiftsOwners`), and the code reads staging before
  File Revisions. Reading them in the other order breaks the run.
- `FailedAreStopped` from `StoppedInv`: an execution seen to have ended stays so
  (`SeenHasStopped`), and an observation fails only the generation it was made of.
- `PreparedIsKept` and `ConfirmsThePreview` from `ReviewInv`: outcomes belong to PDFs
  that have no record yet (`OwnOutcomes`), records to PDFs still staged
  (`RecordsAreStaged`), and a preview of the batch's generation shows its records
  (`ReviewIsCurrent`).

*Login* (`LoginProofs`; finitely many clients, a positive limit): `TypeCorrect` and
`SessionsAreSound`, the three invariants of the run `accounts` about sessions and the
throttle, and `CredentialsStay`, its two action properties. What a login verified long ago is safe to sign with because the call that holds
the User row has compared it under its lock (`GrantedIsCurrent`), nobody else writes the
row meanwhile (`Exclusive`), and a reset installs a newer hash than any a session rests on
(`SerialsGrow`). `ThrottleBound` needs the attempts in flight counted in: failures of a
running window and the logins that may still add to them stay below the limit plus the
number of clients (`FewAttempts`); in a lapsed window they need not, since the first
failure counted there starts a window of its own. That a login never brings an old
password back follows from `GrantedIsCurrent`: the hash it upgrades is still its User's.

*Documents* (`DocumentsProofs`; assumptions: producers of different kinds differ, and so do
their ids from the cleanup's; any number of uploads, attachments, exports, retries and
faults): **the safety properties of the run `documents` that are about objects**,
`NamedObjectsStay`, `OutcomesAreTheOwners`, `AbstractsAreOne` and `CopiesAreCurrent`. A key
goes through four stages: it is *awaited* while a row may come to name it, *promised* once
the object is stored and an execution is about to name it, *named*, and given up. The
inductive invariant says that what is named or promised is stored and what is stored was
begun (`StoreInv`); that whatever a deletion was asked for is no longer awaited, and what
it has decided on is not named either (`SweptIsOver`), so that a recheck stays true however
late the deletion comes; that executions and rows agree on who owns a revision (`RunsInv`);
and that a copy holds objects of its snapshot (`CopyInv`). Each action is
then shown to move keys forwards through the stages only (`KeysMove`), to store nothing
that was not begun, and to delete nothing named or promised (`StoreMoves`).

The byte ranges of a response are in the same module: `RangesAreExact` (sizes are natural
numbers) compares the arithmetic of `Ranges` with the bytes a range names.

*Annotations* (`DocumentsProofs`, over `Reading`; assumptions: authors, moderators and
repliers are different clients, at least one version): `AnnotationsAreSound` states the
action properties `AnnotationsStand`. Every step is shown to move the rows, the requests
and what clients know in one of a few ways (`NotesMove`), and from these alone follows
`NotesInv`. What a client was shown is a row as it was at the time (`SeenIsPast`): versions
only rise, and a row with the same version has the same content, so an edit that finds its
version replaces what its author has seen. An author who was checked with the present
version finds the row neither veiled nor locked (`CheckedIsClear`), since each moderation
raises the version. Whoever holds locks is admitted by an active Workspace and Project
(`HoldersAreIn`), and a reply that has passed its fence answers an Annotation that stays as it was
(`FencedIsFirm`).

*Downloads* (the same modules; assumptions: `ExpiresAt` and `MaxClock` are natural, the
lifetime of a link is positive): `DownloadsAreSound` states `DownloadsHold` of `ReadSpec`,
in which the Documents take every step of `Documents` before the request, and while it is
under way every step by which nothing appears that was not there when it began (what
appears meanwhile may or may not be served). Artifacts expire by the reader's clock. The
invariant is that of `Documents`, at most one graphical abstract, and `ReadInv`. Of a
search: what it has still to look at covers what the Item shows (`SearchCovers`). Of an
archive: the PDFs asked for that still have a row are in its manifest or still to come, the
manifest lists what is inside, and the member in hand is one that was still to come
(`MembersCover`). Of a link: its artifact is live until `ExpiresAt`, whose end the link does
not pass (`ArtifactStays`). Of bodies and temporary copies: only the phases that end them
hold any (`BodiesAreHeld`). That a request fails only for what is gone (`AbsenceHolds`)
then needs `NamedIsStored`: rows go before their objects.

*Projects* (`ProjectsProofs`; assumptions: finitely many processes; Items and links have
an order, as UUIDs have; a request names the rows its parser admits). For the abstract
specification, `CommandsAreSound`: selections in a restricted Project are those of current
members, an implicit one has none, read-only working sets stand still, and only a curator
moves a managed one; each command is shown to be `Proper` in this sense. For the
transactions the inductive invariant is `TxInv`: the tables are sound, no two processes
hold conflicting locks (`Exclusive`), a transaction is in the phase its plan says (`Phase`,
`Acts`), its actor was permitted what it asked (`Permitted`), and what it still has to
write is right for the tables as they are now, one conjunct for each kind of row (`SeatWork`, `SeatFound`, `LinkWork`, `LinkFound`, `LinkPlan`,
`RootWork`). That decision survives other commits because whoever could change what it
depends on needs a lock that conflicts with one it holds; where a statement reads on
with an old snapshot after a wait, the recheck behind the lock is what the proof rests
on. Hence `CommandsAreAtomic`, **the refinement**: a commit is the command its actor asked
for with its checks holding at the commit, every other step a stutter; and with it
`TransactionsSound`, `ParticipationHolds` and `SeatingHolds` for the tables that
transactions share. `NoDeadlock` is proved for any number of processes: a Project lock is
taken before association locks; only bulk commands of one kind wait for an association,
and each takes them in the order of their rank, so that of those in a cycle the one that
has come farthest waits for nobody.

*Items* (`ItemsProofs`; a positive number of Documents and of versions):
`DerivedFollowsTheItem` states `ProjectionsAgree` and `OwnKeysStay` the action property
`OwnKeyStays`. The inductive invariant `ItemsInv` has three parts. A recommendation that
is ready was computed from what is current, because whatever makes it old also takes its
state away, and a generation that reads keeps the inputs it will be compared with
(`Derived`). The search rows say what the Item says, and a rebuild that is under way has
read everything that changed before it took its place (`Projected`). A synchronization
never claims to know more than has been written, and a renewal of the citation key
replaces only generated ones (`Synchronized`).

*Discussions* (`ItemsProofs`, over `Library`; assumptions: each message is on the Item or
the Project and has an author, a command is one of those modelled):
`MessagesUnderAuthority` states the action property `SpokenWithAuthority`. `TalkInv` says
what a command has still to do (`Stages`), which locks it then holds (`Behind`) and that no
two processes hold conflicting ones. Behind its last check the command may do what it is
about to do, and the Project is active (`Stands`). This survives the steps of others
because roles, lifecycles and deletions are changed only by steps that a lock it holds keeps
waiting (`StandsUndisturbed`); the cascade of a deleted Workspace runs while nobody else
holds the root (`CascadeAlone`). The check that was made before the lock counts for
nothing in the proof.

*Durable operations and maintenance* (`MaintenanceProofs`; assumptions: a child has one
parent, as `core/workflows.py` derives ids; at least one path; any set of objects, any
number of interruptions). `EffectsAreOnce` states `WorkDoneOnce`: a step that took effect
is found in the operation record or in its receipt, so a resumed or recovered workflow
does not repeat it, and a record is retired only when its children are gone
(`OperationsInv`). `MaintenanceTakesNothingBack` states `MaintenanceStands`.
`RestoresAreWhole` states `BackupsHold`, which is not inductive either. `BackupsInv` adds
what each phase of a command relies on: a restore marks the installation as torn before it
changes it and no process starts on a torn one (`Alone`), what a backup has copied of the
database stays covered by the objects while nothing runs (`SavedHasObjects`), the archive
is not called kept while it is written (`NotYetKept`), a restore replaces with what it has
extracted (`ExtractedIsKept`, `Replacing`), and an installation that is not torn has an
object for every row (`WholeUnlessTorn`).

*Registration* (`LoginProofs`, over `Accounts`): `AcceptedInvitationsAreAccounts` states
`InvitationsStand`. An invitation that a request has claimed stays pending until that
request ends, and one request at a time writes an invitation or holds a username
(`RegistrationInv`); an account that came by an invitation has the role it offered, and
the two are committed together. A revoked link admits nobody because claiming it is a
conditional update, which reads the row again behind its wait.

*Tokens* (`ImportBatchProofs`, over `Intake`): `RequestsActWithAuthority` states
`ActsWithAuthority`. `TokensInv`: a token keeps its owner, what has ended stays ended, a
request that came after its token had ended is turned away at its first look, and an
account whose row a command has locked stays active until it commits.

*Lookups* (the same modules; assumptions: a call's sources and their kinds are finite,
and the paper is not one of the kinds of identifier): `EverySourceKeepsItsAnswer` states `LookupsHold`. `LookupsInv` says
of the tasks that they ask for different keys and hold their permits (`TasksInv`), of the
batches that they are disjoint and that splitting one leaves halves of it (`GroupsInv`,
with the lemma `HalvesSplit`), and of the results that what is kept fits its identifier,
later batches have nothing yet, and every source that is known is answered or still due
(`ResultsInv`).

TLC checked each inductive invariant before it was proved.

Only model-checked:

- liveness (`EveryCommandEnds`, `EveryLoginEnds`, `EverythingSettles`, `OrphansGo`,
  `RecommendationSettles`), which the installed prover cannot do;
- the absence of wait cycles in `GovernanceTx` (`NoLockCycle`), which some pairs of
  commands do not have (section 7) and which is checked for the families that do;
- `ListingsHold`, whose pages are selected and cut from sequences, and `MergeLosesNothing`,
  whose links are sorted, flattened and selected as sequences: what these compute for every
  sequence needs induction over data.

## 7. Findings

Three pairs of commands wait for each other. Nothing is corrupted: PostgreSQL aborts one
of the two, and `docs/adr/0011-unified-business-concurrency.md` rejects transparent
retries, so that the client sees the error.

- `cycle`: `create_workspace` (`workspaces/creation.py:143`) locks two User rows FOR
  UPDATE. `invite_workspace_member` holds its target's row FOR SHARE and then inserts a
  row whose foreign key to the inviter takes FOR KEY SHARE. FOR UPDATE conflicts with
  both, so a creation whose actor and owner are the inviter and the target of that
  invitation can hold the inviter's row and wait for the target's, while the invitation
  holds the target's and waits for the inviter's. `tests/concurrency_cases.json:12` says
  that these mutations serialize without a User/Workspace lock cycle. The run `admission`
  shows that every command ends and the refinement holds, aborts included. FOR NO KEY
  UPDATE would not conflict with the foreign keys.
- `tag_cycle`: `merge_tags` (`library/tags.py:461`) inserts the target's links before it
  deletes the source's, whatever their ids; the selection of an Item's Tags works in the
  order of ids (`tags.py:250`). Where the source has the smaller id the two meet in
  opposite orders. `tags.py:240` and `docs/architecture/business-concurrency.md:70` say
  one order is followed.
- `discussion_cycle`: `delete_discussion_message` (`library/discussions.py:74`) locks its
  message and then the Workspace root; the deletion of the Workspace holds the root and
  cascades to the message. `docs/architecture/business-concurrency.md:70-71` says no
  command acquires a child row and then goes back to lock its parent.

Smaller remarks, which are in the models as the code has them:

- `delete_project_discussion_message` never locks the message, so a removal that a
  moderator has already made is recorded a second time.
- `revoke_api_token` (`accounts/api_tokens.py:130-146`) looks at the token before it waits
  for its User row, which two revocations share, and not again behind it: the later of two
  overwrites `revoked_at`, by the time between them. `accounts/retention.py:29-30` says
  that repeating a revocation does not extend the recovery window; a revocation that comes
  after the first has committed does not. No property of the runs is about this.
- A download or archive member that is closed before its body is opened leaves its
  temporary copy on disk (`Downloads`; `NothingIsHeld` speaks of opened bodies).
- A backup that fails with an error has overwritten an earlier archive at its destination
  and closes the new one, which `verify-backup` then accepts although objects are missing.
  `Backups` restores only archives whose backup reported success.
- `generate_item_tag_recommendation_step` (`library/workflows.py:399-403`) takes every
  `ValueError` for the deletion of the Item, "a normal race" by its comment. The engine
  raises one too for a text with words and no phrases
  (`packages/excerpo/src/excerpo/engine.py:241`), as an Item with a one-word title has it.
  The workflow then ends well, reports the Item as deleted and stores nothing, so that
  `item_tag_recommendation_status` says "pending" until a changed text gives phrases.
  `Items` has the step (`MakeNothing`); `RecommendationSettles` names the exception.
- A thumbnail that is resolved and then deleted answers an error although another exists.
- If more than a page of workflows (10 000) are active, one that ends while they are
  listed can hide another's reservation (`NothingMissed` states the exception).

## 8. Not modelled, and why

- The other handlers of the Web API and of the MCP server, whose authentication is in
  `Tokens`, the frontend, the mapping of provider
  records to metadata, PDF parsing and rendering, citation rendering, discovery queries,
  text normalization: I/O, parsing and formatting around the modelled commands.
- Audit rows: appended in the transaction they describe; they matter here only through
  the foreign-key lock on their actor, which is modelled.
- Renaming a Tag or a Workspace, Item sections, the break-glass read, settings and
  statistics: one statement under locks that other commands of the same module take.
- The deletion of a whole Workspace beside uploads and downloads: `Documents` and
  `Downloads` know the deletion of Documents and of the Item, not the cascade to artifacts.
- In `ProjectsTx`, the rows of one bulk insert are added one by one; the code sends them in
  batches (`projects/workspaces.py:399-431`), which changes no order and no wait.
- Archives of several Items and remote files: a loop of the modelled archive, and a
  download that becomes an upload.
- Ink, XFDF and cursors of Annotations; the packaging of an export.
- Within modelled parts: names, descriptions, tokens, reasons, diagnostics other than the
  retryable one; session expiry by time (an expired session is gone).
- One batch at a time in `ImportBatch`, one Item in `Documents` and `Items`: others share
  nothing but the cleanup queue.

Assumptions the models make:

- Object keys, client-chosen ids of Annotations and messages, and Tag names of a deleted
  Tag are not used a second time.
- One attempt of a durable step, and one upload request, are shorter than the retention of
  orphan objects.
- One process at a time runs a durable execution that has not ended. (The `put_object` of a
  second one that fails deletes the object it shares with the first,
  `core/storage.py:191-194`.)
- SQLite serializes writers; the transactional modules are about PostgreSQL.
- An operator reruns an interrupted restore before starting the processes, and runs
  backups and restores with the processes stopped, as `docs/DEPLOYMENT.md:156` asks.
- DBOS, PostgreSQL and the object store do what `src/` relies on: enqueueing inside a
  transaction, steps executed at least once and recorded once, terminal states that stay.

## 9. Plan

Next theorem: `MergeLosesNothing` of `Tags`, after its plans are sets with an order rather
than sorted sequences.

Next models: the renaming of a Tag against merges, and archives of several Items whose
Workspaces change while they are streamed.

## Running

    tlc -workers 2 -config MCImportBatch.cfg MCImportBatch
    tlapm ImportBatchProofs.tla

`PROJECT.json` lists components, runs, mutants (for each property a plausible bug that
breaks it), the map from definitions to source lines, hazards and theorems.
