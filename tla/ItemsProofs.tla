------------------------------ MODULE ItemsProofs ------------------------------
(***************************************************************************)
(* What is derived from an Item follows it, for any number of versions,    *)
(* File Revisions, generations, sessions and faults, and what is said      *)
(* about Items and Projects is said with authority, for any number of      *)
(* Users, messages and processes.                                          *)
(***************************************************************************)
EXTENDS Library, Sequences, WellFoundedInduction, TLAPS

-------------------------------------------------------------------------------
(* The inductive invariant.                                                  *)

\* A pending notice has a generation left to request.
HasRoom == rec.token + notices <= MaxToken
\* Nothing is derived from an Item that is not there.
NoneIsBlank == ~Exists => item = NoItem /\ rec = NoRecord /\ Ready = {} /\ rebuild.held = {}
\* What the latest generation has read is what the Item says, unless a notice of a
\* change is on its way or was given up.
ReadingIsCurrent == \A t \in Tokens : t = rec.token =>
  /\ flow[t].phase = "read" => flow[t].seen[1] = item.text
  /\ flow[t].phase = "made" => flow[t].seen = <<item.text, Newest>> \/ notices > 0 \/ lost

\* A rebuild has read the rows it holds as they are.
HeldIsCurrent ==
  /\ 0 \in rebuild.held => rebuild.text = item.text
  /\ rebuild.docs = rebuild.held \cap Ready
\* What a rebuild has still to do covers what is not indexed.
Ahead == rebuild.todo \cup rebuild.held
RebuildCovers == Ahead # {} =>
  /\ Ready \ Ahead \subseteq index.docs
  /\ 0 \in Ahead \/ index.item = item.text

\* Sessions have seen versions of this Item, none of another in its place.
KnownIsPast ==
  IF Exists THEN \A c \in Clients : client[c].known <= item.version
  ELSE (\A d \in Docs : docs[d] = "gone") \/ (\A c \in Clients : client[c].known = 0)
\* A synchronization that would still write, and would renew the key, finds one that
\* was generated, or none.
RenewalsRenew == \A c \in Clients :
  /\ client[c].sync # "none" => client[c].known > 0
  /\ client[c].sync = "renews" /\ client[c].known = item.version => item.key \in {"none", "current"}

Derived == HasRoom /\ ReadingIsCurrent /\ ReadyIsCurrent
Projected == HeldIsCurrent /\ RebuildCovers /\ IndexAgrees
Synchronized == KnownIsPast /\ RenewalsRenew
ItemsInv == TypeOK /\ NoneIsBlank /\ Derived /\ Projected /\ Synchronized

-------------------------------------------------------------------------------
(* Operators.                                                                *)

\* Finitely many numbers have a greatest.
LEMMA HighestExists ==
  ASSUME NEW n \in Nat, NEW S \in SUBSET (0..n), S # {}
  PROVE  \E x \in S : \A y \in S : x >= y
<1> DEFINE Less == OpToRel(<, Nat)
           Gaps == {n - x : x \in S}
<1>1. \A i, j \in Nat : i < j => <<i, j>> \in Less BY DEF OpToRel
<1>2. Gaps \subseteq Nat /\ Gaps # {}
  <2>1. \A x \in S : n - x \in Nat OBVIOUS
  <2> QED BY <2>1
<1>3. IsWellFoundedOn(Less, Nat) BY NatLessThanWellFounded
<1> HIDE DEF Less
<1>4. PICK i \in Gaps : \A j \in Gaps : <<j, i>> \notin Less BY <1>2, <1>3, WFMin
<1>5. PICK x \in S : i = n - x OBVIOUS
<1>6. ASSUME NEW y \in S PROVE x >= y
  <2>1. n - y \in Gaps /\ ~(n - y < n - x) BY <1>1, <1>2, <1>4, <1>5
  <2> QED BY <2>1
<1> QED BY <1>6

LEMMA NewestIsDocument ==
  ASSUME docs \in [Docs -> {"new", "ready", "gone"}]
  PROVE  Newest \in 0..MaxDocs
<1>1. {0} \cup Ready \in SUBSET (0..MaxDocs) /\ MaxDocs \in Nat
  BY BoundsAssumption DEF Ready, Docs
<1>2. \E x \in {0} \cup Ready : \A y \in {0} \cup Ready : x >= y BY <1>1, HighestExists
<1> QED BY <1>1, <1>2 DEF Newest, Max

LEMMA DocsStay ==
  ASSUME docs' = docs
  PROVE  Ready' = Ready /\ Newest' = Newest
BY DEF Ready, Newest

LEMMA Bounds ==
  /\ MaxVersion \in Nat /\ MaxVersion > 0 /\ MaxDocs \in Nat /\ MaxDocs > 0 /\ MaxToken \in Nat
  /\ MaxFaults \in Nat /\ 1 \in Docs /\ 0 \notin Docs
BY BoundsAssumption DEF Docs

-------------------------------------------------------------------------------
(* Types.                                                                    *)

\* A generation that is requested is the latest, and has read nothing.
LEMMA RequestParts ==
  ASSUME TypeOK, rec.token < MaxToken, Request
  PROVE  /\ rec' \in [token : 0..MaxToken, ready : BOOLEAN, seen : Texts]
         /\ flow' \in [Tokens -> [phase : {"none", "queued", "current", "read", "made",
                                           "ended", "empty", "failed"}, seen : Texts]]
         /\ rec'.token = rec.token + 1 /\ ~rec'.ready
         /\ flow'[rec'.token].phase = "queued"
<1>1. rec.token \in Nat /\ rec.token + 1 \in Tokens /\ rec.token + 1 \in 0..MaxToken
  BY Bounds DEF TypeOK, Tokens
<1>2. <<0, 0>> \in Texts BY Bounds DEF Texts
<1>3. rec' = [token |-> rec.token + 1, ready |-> FALSE, seen |-> <<0, 0>>] BY DEF Request
<1>4. flow' = [flow EXCEPT ![rec.token + 1].phase = "queued"] BY DEF Request
<1> QED BY <1>1, <1>2, <1>3, <1>4 DEF TypeOK

LEMMA MovesParts ==
  ASSUME TypeOK, NEW t \in Tokens,
         NEW phase \in {"none", "queued", "current", "read", "made", "ended", "empty", "failed"}, NEW s \in Texts,
         flow' = [flow EXCEPT ![t] = [phase |-> phase, seen |-> s]]
  PROVE  /\ flow' \in [Tokens -> [phase : {"none", "queued", "current", "read", "made",
                                           "ended", "empty", "failed"}, seen : Texts]]
         /\ flow'[t].phase = phase /\ flow'[t].seen = s
         /\ \A u \in Tokens : u # t => flow'[u] = flow[u]
BY DEF TypeOK

\* New metadata is a version of its own.
LEMMA WritesTypes ==
  ASSUME TypeOK, CanWrite, NEW key, key \in Preserved \cup {"own", "none", "current"}, Writes(key)
  PROVE  /\ item' = [version |-> item.version + 1, text |-> item.version + 1, key |-> key]
         /\ item' \in [version : 0..MaxVersion, text : 0..MaxVersion, key : CitationKeys]
         /\ index' = [index EXCEPT !.item = item.version + 1]
         /\ index' \in [item : 0..MaxVersion, docs : SUBSET Docs]
         /\ item.version + 1 \in 0..MaxVersion
<1>1. item.version + 1 \in 0..MaxVersion BY Bounds DEF TypeOK, CanWrite
<1>2. key \in CitationKeys BY DEF TypeOK, Preserved, CitationKeys
<1>3. item' = [version |-> item.version + 1, text |-> item.version + 1, key |-> key]
  BY DEF Writes, NextText
<1>4. index' = [index EXCEPT !.item = item.version + 1] BY DEF Writes, NextText, Indexed
<1>5. index' \in [item : 0..MaxVersion, docs : SUBSET Docs] BY <1>1, <1>4 DEF TypeOK
<1> QED BY <1>1, <1>2, <1>3, <1>4, <1>5

\* A client's own record.
LEMMA ClientParts ==
  ASSUME TypeOK, NEW c \in Clients, NEW k \in 0..MaxVersion, NEW s \in {"none", "renews", "keeps"},
         \/ client' = [client EXCEPT ![c] = [known |-> k, sync |-> s]]
         \/ client' = [client EXCEPT ![c].known = k] /\ s = client[c].sync
         \/ client' = [client EXCEPT ![c].sync = s] /\ k = client[c].known
  PROVE  /\ client' \in [Clients -> [known : 0..MaxVersion, sync : {"none", "renews", "keeps"}]]
         /\ client'[c].known = k /\ client'[c].sync = s
         /\ \A d \in Clients : d # c => client'[d] = client[d]
BY DEF TypeOK

LEMMA EditTypes ==
  ASSUME TypeOK, HasRoom, Edit
  PROVE  TypeOK' /\ HasRoom'
<1>0. /\ item.version \in 0..MaxVersion /\ rec.token \in 0..MaxToken /\ notices \in 0..MaxToken
      /\ MaxToken \in Nat /\ rec.token + notices <= MaxToken /\ rec.token + 1 \in Nat
      /\ Room => rec.token < MaxToken /\ rec.token + 1 + notices <= MaxToken
  BY Bounds DEF TypeOK, HasRoom, Room
<1>1. ASSUME NEW key \in {"own", "none"}, NEW requests \in BOOLEAN, Create(key, requests)
      PROVE  TypeOK' /\ HasRoom'
  <2>1. /\ item' = [version |-> 1, text |-> 1, key |-> key] /\ index' = [index EXCEPT !.item = 1]
        /\ whole' = TRUE /\ UNCHANGED <<docs, may, client, notices, lost, rebuild, faults>>
    BY <1>1 DEF Create, Indexed
  <2>2. item' \in [version : 0..MaxVersion, text : 0..MaxVersion, key : CitationKeys]
    BY <2>1, Bounds DEF CitationKeys
  <2>3. index' \in [item : 0..MaxVersion, docs : SUBSET Docs] BY <2>1, Bounds DEF TypeOK
  <2>4. CASE requests
    <3>1. Room /\ Request BY <1>1, <2>4 DEF Create
    <3>2. rec.token < MaxToken BY <1>0, <3>1
    <3> QED BY <1>0, <2>1, <2>2, <2>3, <3>1, <3>2, RequestParts DEF TypeOK, HasRoom
  <2>5. CASE ~requests
    <3>1. UNCHANGED <<rec, flow>> BY <1>1, <2>5 DEF Create
    <3> QED BY <2>1, <2>2, <2>3, <3>1 DEF TypeOK, HasRoom
  <2> QED BY <2>4, <2>5
<1>2. ASSUME NEW c \in Clients, Look(c) PROVE TypeOK' /\ HasRoom'
  <2>1. client' = [client EXCEPT ![c].known = item.version]
        /\ UNCHANGED <<item, docs, may, derived, search, faults>>
    BY <1>2 DEF Look
  <2>2. client' \in [Clients -> [known : 0..MaxVersion, sync : {"none", "renews", "keeps"}]]
    BY <1>0, <2>1 DEF TypeOK
  <2> QED BY <2>1, <2>2 DEF TypeOK, HasRoom, derived, search
<1>3. ASSUME NEW c \in Clients, Revise(c) PROVE TypeOK' /\ HasRoom'
  <2>1. PICK key \in Preserved \cup {"own", "none"} : Writes(key) BY <1>3 DEF Revise
  <2>2. /\ client' = [client EXCEPT ![c].known = item.version + 1]
        /\ UNCHANGED <<docs, may, notices, lost, rebuild, whole, faults>> /\ CanWrite
    BY <1>3 DEF Revise
  <2>3. /\ item' \in [version : 0..MaxVersion, text : 0..MaxVersion, key : CitationKeys]
        /\ index' \in [item : 0..MaxVersion, docs : SUBSET Docs] /\ item.version + 1 \in 0..MaxVersion
    BY <1>0, <2>1, <2>2, WritesTypes DEF Revise
  <2>4. client' \in [Clients -> [known : 0..MaxVersion, sync : {"none", "renews", "keeps"}]]
    BY <2>2, <2>3 DEF TypeOK
  <2>5. Room /\ Request BY <2>1 DEF Writes
  <2>6. rec.token < MaxToken BY <1>0, <2>5
  <2> QED BY <1>0, <2>2, <2>3, <2>4, <2>5, <2>6, RequestParts DEF TypeOK, HasRoom
<1>4. CASE Regenerate
  <2>1. Room /\ Request /\ UNCHANGED <<base, notices, lost, search, faults>> BY <1>4 DEF Regenerate
  <2>2. rec.token < MaxToken BY <1>0, <2>1
  <2> QED BY <1>0, <2>1, <2>2, RequestParts DEF TypeOK, HasRoom, base, search
<1>5. CASE Delete
  <2>1. /\ item' = NoItem /\ rec' = NoRecord /\ docs' = [d \in Docs |-> "gone"]
        /\ index' = [item |-> 0, docs |-> {}]
        /\ UNCHANGED <<may, client, notices, lost, flow, rebuild, whole, faults>>
    BY <1>5 DEF Delete
  <2>2. /\ item' \in [version : 0..MaxVersion, text : 0..MaxVersion, key : CitationKeys]
        /\ index' \in [item : 0..MaxVersion, docs : SUBSET Docs]
    BY <2>1, Bounds DEF NoItem, CitationKeys
  <2>3. rec' \in [token : 0..MaxToken, ready : BOOLEAN, seen : Texts] /\ rec'.token = 0
    BY <2>1, Bounds DEF NoRecord, Texts
  <2>4. docs' \in [Docs -> {"new", "ready", "gone"}] BY <2>1
  <2> QED BY <1>0, <2>1, <2>2, <2>3, <2>4 DEF TypeOK, HasRoom
<1>6. ASSUME NEW d \in Docs, PublishDocument(d) \/ DeleteDocument(d) PROVE TypeOK' /\ HasRoom'
  <2>1. /\ Room /\ notices' = notices + 1
        /\ UNCHANGED <<item, may, client, rec, lost, flow, rebuild, whole, faults>>
        /\ \/ docs' = [docs EXCEPT ![d] = "ready"] /\ index' = [index EXCEPT !.docs = @ \cup {d}]
           \/ docs' = [docs EXCEPT ![d] = "gone"] /\ index' = [index EXCEPT !.docs = @ \ {d}]
    BY <1>6 DEF PublishDocument, DeleteDocument
  <2>2. docs' \in [Docs -> {"new", "ready", "gone"}] BY <2>1 DEF TypeOK
  <2>3. index' \in [item : 0..MaxVersion, docs : SUBSET Docs] BY <2>1 DEF TypeOK
  <2>4. notices' \in 0..MaxToken /\ rec'.token + notices' <= MaxToken BY <1>0, <2>1, Bounds DEF Room
  <2> QED BY <2>1, <2>2, <2>3, <2>4 DEF TypeOK, HasRoom
<1> QED BY <1>1, <1>2, <1>3, <1>4, <1>5, <1>6 DEF Edit

LEMMA KeysTypes ==
  ASSUME TypeOK, HasRoom, Keys
  PROVE  TypeOK' /\ HasRoom'
<1>0. /\ item.version \in 0..MaxVersion /\ rec.token \in 0..MaxToken /\ notices \in 0..MaxToken
      /\ MaxToken \in Nat /\ rec.token + notices <= MaxToken /\ rec.token + 1 \in Nat
      /\ Room => rec.token < MaxToken /\ rec.token + 1 + notices <= MaxToken
  BY Bounds DEF TypeOK, HasRoom, Room
<1>1. CASE RegenerateKey
  <2>1. /\ item' = [item EXCEPT !.version = item.version + 1, !.key = "current"]
        /\ index' = [index EXCEPT !.item = item.text] /\ item.version < MaxVersion
        /\ UNCHANGED <<docs, may, client, derived, rebuild, whole, faults>>
    BY <1>1 DEF RegenerateKey, Indexed, CanWrite
  <2>2. item.version + 1 \in 0..MaxVersion BY <1>0, <2>1, Bounds
  <2>3. item' \in [version : 0..MaxVersion, text : 0..MaxVersion, key : CitationKeys]
    BY <2>1, <2>2 DEF TypeOK, CitationKeys
  <2>4. index' \in [item : 0..MaxVersion, docs : SUBSET Docs] BY <2>1 DEF TypeOK
  <2> QED BY <2>1, <2>3, <2>4 DEF TypeOK, HasRoom, derived
<1>2. ASSUME NEW c \in Clients, StartSync(c) \/ RefuseSync(c) PROVE TypeOK' /\ HasRoom'
  <2>1. PICK s \in {"none", "renews", "keeps"} : client' = [client EXCEPT ![c].sync = s]
    BY <1>2 DEF StartSync, RefuseSync
  <2>2. UNCHANGED <<item, docs, may, derived, search, faults>> BY <1>2 DEF StartSync, RefuseSync
  <2>3. client[c].known \in 0..MaxVersion BY DEF TypeOK
  <2>4. client' \in [Clients -> [known : 0..MaxVersion, sync : {"none", "renews", "keeps"}]]
    BY <2>1, <2>3, ClientParts
  <2> QED BY <2>2, <2>4 DEF TypeOK, HasRoom, derived, search
<1>3. ASSUME NEW c \in Clients, CommitSync(c) PROVE TypeOK' /\ HasRoom'
  <2>1. PICK key \in Preserved \cup {"current"} : Writes(key) BY <1>3 DEF CommitSync
  <2>2. /\ client' = [client EXCEPT ![c] = [known |-> item.version + 1, sync |-> "none"]]
        /\ UNCHANGED <<docs, may, notices, lost, rebuild, whole, faults>> /\ CanWrite
    BY <1>3 DEF CommitSync
  <2>3. /\ item' \in [version : 0..MaxVersion, text : 0..MaxVersion, key : CitationKeys]
        /\ index' \in [item : 0..MaxVersion, docs : SUBSET Docs] /\ item.version + 1 \in 0..MaxVersion
    BY <2>1, <2>2, WritesTypes
  <2>4. client' \in [Clients -> [known : 0..MaxVersion, sync : {"none", "renews", "keeps"}]]
    BY <2>2, <2>3, ClientParts
  <2>5. Room /\ Request BY <2>1 DEF Writes
  <2>6. rec.token < MaxToken BY <1>0, <2>5
  <2> QED BY <1>0, <2>2, <2>3, <2>4, <2>5, <2>6, RequestParts DEF TypeOK, HasRoom
<1> QED BY <1>1, <1>2, <1>3 DEF Keys

LEMMA GenerationTypes ==
  ASSUME TypeOK, HasRoom, Generation
  PROVE  TypeOK' /\ HasRoom'
<1>0. /\ rec.token \in 0..MaxToken /\ notices \in 0..MaxToken /\ MaxToken \in Nat
      /\ rec.token + notices <= MaxToken /\ rec.token + 1 \in Nat
      /\ Room => rec.token < MaxToken /\ rec.token + 1 + notices <= MaxToken
      /\ faults \in 0..MaxFaults /\ (faults < MaxFaults => faults + 1 \in 0..MaxFaults)
      /\ notices > 0 => /\ rec.token < MaxToken /\ notices - 1 \in 0..MaxToken
                        /\ rec.token + (notices - 1) <= MaxToken
                        /\ rec.token + 1 + (notices - 1) <= MaxToken
  BY Bounds DEF TypeOK, HasRoom, Room
<1>1. CASE Notice
  <2>1. notices > 0 /\ notices' = notices - 1 /\ UNCHANGED <<base, lost, search, faults>>
    BY <1>1 DEF Notice
  <2>2. Request \/ UNCHANGED <<rec, flow>> BY <1>1 DEF Notice
  <2> QED BY <1>0, <2>1, <2>2, RequestParts DEF TypeOK, HasRoom, base, search
<1>2. CASE NoticeAgain
  <2>1. /\ Room /\ Request /\ faults < MaxFaults /\ faults' = faults + 1
        /\ UNCHANGED <<base, notices, lost, search>>
    BY <1>2 DEF NoticeAgain
  <2>2. rec.token < MaxToken BY <1>0, <2>1
  <2> QED BY <1>0, <2>1, <2>2, RequestParts DEF TypeOK, HasRoom, base, search
<1>3. CASE NoticeRefused \/ NoticeBreaks
  <2>1. /\ notices > 0 /\ notices' = notices - 1 /\ lost' = TRUE
        /\ UNCHANGED <<base, rec, flow, search>> /\ faults' \in 0..MaxFaults
    BY <1>0, <1>3 DEF NoticeRefused, NoticeBreaks
  <2> QED BY <1>0, <2>1 DEF TypeOK, HasRoom, base, search
<1>4. ASSUME NEW t \in Tokens, FlowStep(t) PROVE TypeOK' /\ HasRoom'
  <2>1. <<0, 0>> \in Texts /\ <<item.text, 0>> \in Texts /\ <<flow[t].seen[1], Newest>> \in Texts
    BY Bounds, NewestIsDocument DEF TypeOK, Texts
  <2>2. flow' \in [Tokens -> [phase : {"none", "queued", "current", "read", "made",
                                        "ended", "empty", "failed"}, seen : Texts]]
    BY <1>4, <2>1, MovesParts DEF FlowStep, CheckCurrent, ReadItem, ReadDocument, MakeNothing, Store, FlowBreaks, Moves
  <2>3. rec' \in [token : 0..MaxToken, ready : BOOLEAN, seen : Texts] /\ rec'.token = rec.token
    BY <1>4 DEF TypeOK, FlowStep, CheckCurrent, ReadItem, ReadDocument, MakeNothing, Store, FlowBreaks
  <2>4. faults' \in 0..MaxFaults /\ UNCHANGED <<base, notices, lost, search>>
    BY <1>0, <1>4 DEF FlowStep, CheckCurrent, ReadItem, ReadDocument, MakeNothing, Store, FlowBreaks
  <2> QED BY <2>2, <2>3, <2>4 DEF TypeOK, HasRoom, base, search
<1> QED BY <1>1, <1>2, <1>3, <1>4 DEF Generation

LEMMA RebuildTypes ==
  ASSUME TypeOK, HasRoom, Rebuild \/ Authority
  PROVE  TypeOK' /\ HasRoom'
<1>0. /\ faults \in 0..MaxFaults /\ (faults < MaxFaults => faults + 1 \in 0..MaxFaults)
      /\ Rows \in SUBSET Targets /\ Ready \in SUBSET Docs /\ Docs \subseteq Targets
  BY Bounds DEF TypeOK, Rows, Ready, Targets
<1>1. CASE StartRebuild
  <2>1. rebuild' = [NoRebuild EXCEPT !.todo = Rows] /\ UNCHANGED <<base, derived, index, whole, faults>>
    BY <1>1 DEF StartRebuild
  <2>2. rebuild' \in [todo : SUBSET Targets, held : SUBSET Targets, text : 0..MaxVersion, docs : SUBSET Docs]
    BY <1>0, <2>1, Bounds DEF NoRebuild
  <2> QED BY <2>1, <2>2 DEF TypeOK, HasRoom, base, derived
<1>2. ASSUME NEW t \in Targets, Visit(t) PROVE TypeOK' /\ HasRoom'
  <2>1. /\ rebuild' = [todo |-> rebuild.todo \ {t}, held |-> rebuild.held \cup ({t} \cap Rows),
                       text |-> IF t = 0 THEN item.text ELSE rebuild.text,
                       docs |-> rebuild.docs \cup ({t} \cap Ready)]
        /\ UNCHANGED <<base, derived, index, whole, faults>>
    BY <1>2 DEF Visit
  <2>2. rebuild' \in [todo : SUBSET Targets, held : SUBSET Targets, text : 0..MaxVersion, docs : SUBSET Docs]
    BY <1>0, <2>1 DEF TypeOK
  <2> QED BY <2>1, <2>2 DEF TypeOK, HasRoom, base, derived
<1>3. CASE CommitPage
  <2>1. /\ index' = [item |-> IF 0 \in rebuild.held THEN rebuild.text ELSE index.item,
                     docs |-> (index.docs \ rebuild.held) \cup rebuild.docs]
        /\ rebuild' = [NoRebuild EXCEPT !.todo = rebuild.todo]
        /\ whole' = (whole \/ rebuild.todo = {}) /\ UNCHANGED <<base, derived, faults>>
    BY <1>3 DEF CommitPage
  <2>2. rebuild' \in [todo : SUBSET Targets, held : SUBSET Targets, text : 0..MaxVersion, docs : SUBSET Docs]
    BY <2>1, Bounds DEF NoRebuild, TypeOK
  <2>3. index' \in [item : 0..MaxVersion, docs : SUBSET Docs] /\ whole' \in BOOLEAN
    BY <2>1 DEF TypeOK
  <2> QED BY <2>1, <2>2, <2>3 DEF TypeOK, HasRoom, base, derived
<1>4. CASE AbortRebuild
  <2>1. rebuild' = NoRebuild /\ faults' \in 0..MaxFaults /\ UNCHANGED <<base, derived, index, whole>>
    BY <1>0, <1>4 DEF AbortRebuild
  <2>2. rebuild' \in [todo : SUBSET Targets, held : SUBSET Targets, text : 0..MaxVersion, docs : SUBSET Docs]
    BY <2>1, Bounds DEF NoRebuild
  <2> QED BY <2>1, <2>2 DEF TypeOK, HasRoom, base, derived
<1>5. CASE Authority
  <2>1. may' \in BOOLEAN /\ faults' \in 0..MaxFaults /\ UNCHANGED <<item, docs, client, derived, search>>
    BY <1>0, <1>5 DEF Authority
  <2> QED BY <2>1 DEF TypeOK, HasRoom, derived, search
<1> QED BY <1>1, <1>2, <1>3, <1>4, <1>5 DEF Rebuild

-------------------------------------------------------------------------------
(* Recommendations.                                                          *)

\* A new generation has read nothing yet.
LEMMA RequestIsCurrent ==
  ASSUME TypeOK, rec.token < MaxToken, Request
  PROVE  ReadingIsCurrent' /\ ReadyIsCurrent'
BY RequestParts DEF ReadingIsCurrent, ReadyIsCurrent

\* Nothing is read, and what the Item says is as before.
LEMMA TextStays ==
  ASSUME ReadingIsCurrent, ReadyIsCurrent, item'.text = item.text,
         UNCHANGED <<docs, rec, flow, notices, lost>>
  PROVE  ReadingIsCurrent' /\ ReadyIsCurrent'
<1>1. Newest' = Newest BY DocsStay
<1> QED BY <1>1 DEF ReadingIsCurrent, ReadyIsCurrent

LEMMA DerivedKeeps ==
  ASSUME ItemsInv, Next
  PROVE  ReadingIsCurrent' /\ ReadyIsCurrent'
<1>0. /\ TypeOK /\ HasRoom /\ ReadingIsCurrent /\ ReadyIsCurrent
      /\ rec.token \in Nat /\ notices \in Nat /\ MaxToken \in Nat /\ 0 \notin Tokens
      /\ Room => rec.token < MaxToken
      /\ notices > 0 => rec.token < MaxToken
  BY Bounds DEF ItemsInv, TypeOK, Derived, HasRoom, Room, Tokens
<1>1. ASSUME Request, Room \/ notices > 0 PROVE ReadingIsCurrent' /\ ReadyIsCurrent'
  BY <1>0, <1>1, RequestIsCurrent
<1>2. ASSUME NEW key, NEW requests, Create(key, requests) PROVE ReadingIsCurrent' /\ ReadyIsCurrent'
  <2>1. CASE requests BY <1>1, <1>2, <2>1 DEF Create
  <2>2. CASE ~requests
    <3>1. rec' = rec /\ rec = NoRecord
      BY <1>2, <2>2 DEF Create, ItemsInv, NoneIsBlank, Exists, NoItem
    <3> QED BY <1>0, <3>1 DEF ReadingIsCurrent, ReadyIsCurrent, NoRecord
  <2> QED BY <2>1, <2>2
<1>3. ASSUME NEW key, Writes(key) PROVE ReadingIsCurrent' /\ ReadyIsCurrent'
  BY <1>1, <1>3 DEF Writes
<1>4. CASE Edit
  <2>1. ASSUME NEW c \in Clients, Look(c) PROVE ReadingIsCurrent' /\ ReadyIsCurrent'
    BY <1>0, <2>1, TextStays DEF Look, derived
  <2>2. ASSUME NEW c \in Clients, Revise(c) PROVE ReadingIsCurrent' /\ ReadyIsCurrent'
    BY <1>3, <2>2 DEF Revise
  <2>3. CASE Regenerate BY <1>1, <2>3 DEF Regenerate
  <2>4. CASE Delete
    <3>1. rec'.token = 0 /\ ~rec'.ready BY <2>4 DEF Delete, NoRecord
    <3> QED BY <1>0, <3>1 DEF ReadingIsCurrent, ReadyIsCurrent
  <2>5. ASSUME NEW d \in Docs, PublishDocument(d) \/ DeleteDocument(d)
        PROVE  ReadingIsCurrent' /\ ReadyIsCurrent'
    <3>1. notices' > 0 /\ UNCHANGED <<item, rec, flow>>
      BY <1>0, <2>5 DEF PublishDocument, DeleteDocument
    <3> QED BY <1>0, <3>1 DEF ReadingIsCurrent, ReadyIsCurrent
  <2> QED BY <1>2, <1>4, <2>1, <2>2, <2>3, <2>4, <2>5 DEF Edit
<1>5. CASE Keys
  <2>1. CASE RegenerateKey
    <3>1. item'.text = item.text BY <1>0, <2>1 DEF RegenerateKey, TypeOK
    <3> QED BY <1>0, <2>1, <3>1, TextStays DEF RegenerateKey, derived
  <2>2. ASSUME NEW c \in Clients, StartSync(c) \/ RefuseSync(c)
        PROVE  ReadingIsCurrent' /\ ReadyIsCurrent'
    BY <1>0, <2>2, TextStays DEF StartSync, RefuseSync, derived
  <2>3. ASSUME NEW c \in Clients, CommitSync(c) PROVE ReadingIsCurrent' /\ ReadyIsCurrent'
    BY <1>3, <2>3 DEF CommitSync
  <2> QED BY <1>5, <2>1, <2>2, <2>3 DEF Keys
<1>6. CASE Generation
  <2>1. CASE Notice
    <3>1. CASE Exists BY <1>1, <2>1, <3>1 DEF Notice
    <3>2. CASE ~Exists
      <4>1. rec' = rec /\ rec = NoRecord BY <2>1, <3>2 DEF Notice, ItemsInv, NoneIsBlank
      <4> QED BY <1>0, <4>1 DEF ReadingIsCurrent, ReadyIsCurrent, NoRecord
    <3> QED BY <3>1, <3>2
  <2>2. CASE NoticeAgain BY <1>1, <2>2 DEF NoticeAgain
  <2>3. CASE NoticeRefused \/ NoticeBreaks
    <3>1. lost' /\ UNCHANGED <<item, rec, flow>> BY <2>3 DEF NoticeRefused, NoticeBreaks, base
    <3> QED BY <1>0, <3>1 DEF ReadingIsCurrent, ReadyIsCurrent
  <2>4. ASSUME NEW t \in Tokens, FlowStep(t) PROVE ReadingIsCurrent' /\ ReadyIsCurrent'
    <3>0. UNCHANGED <<item, docs, notices, lost>> /\ Newest' = Newest
      BY <2>4, DocsStay DEF FlowStep, CheckCurrent, ReadItem, ReadDocument, MakeNothing, Store, FlowBreaks, base
    <3>1. CASE ReadItem(t) /\ Exists
      <4>1. /\ \A u \in Tokens : u # t => flow'[u] = flow[u]
            /\ flow'[t].phase = "read" /\ flow'[t].seen = <<item.text, 0>> /\ rec' = rec
        BY <1>0, <3>1 DEF ReadItem, TypeOK
      <4> QED BY <1>0, <3>0, <4>1 DEF ReadingIsCurrent, ReadyIsCurrent
    <3>2. CASE ReadDocument(t)
      <4>1. /\ \A u \in Tokens : u # t => flow'[u] = flow[u]
            /\ flow'[t].phase = "made" /\ flow'[t].seen = <<flow[t].seen[1], Newest>>
            /\ rec' = rec /\ flow[t].phase = "read"
        BY <1>0, <3>2 DEF ReadDocument, TypeOK
      <4> QED BY <1>0, <3>0, <4>1 DEF ReadingIsCurrent, ReadyIsCurrent
    <3>3. CASE Store(t)
      <4>1. /\ \A u \in Tokens : u # t => flow'[u] = flow[u]
            /\ flow'[t].phase \in {"failed", "ended"} /\ flow[t].phase = "made"
        BY <1>0, <3>3 DEF Store, Moves, TypeOK
      <4>2. \/ rec' = rec
            \/ rec.token = t /\ rec'.token = t /\ rec'.seen = flow[t].seen
        BY <1>0, <3>3 DEF Store, IsOurs, TypeOK
      <4> QED BY <1>0, <3>0, <4>1, <4>2 DEF ReadingIsCurrent, ReadyIsCurrent
    <3>4. CASE CheckCurrent(t) \/ MakeNothing(t) \/ FlowBreaks(t) \/ (ReadItem(t) /\ ~Exists)
      <4>1. /\ \A u \in Tokens : u # t => flow'[u] = flow[u]
            /\ flow'[t].phase \in {"current", "ended", "empty", "failed"} /\ rec' = rec
        BY <1>0, <3>4 DEF CheckCurrent, MakeNothing, FlowBreaks, ReadItem, Moves, TypeOK
      <4> QED BY <1>0, <3>0, <4>1 DEF ReadingIsCurrent, ReadyIsCurrent
    <3> QED BY <2>4, <3>1, <3>2, <3>3, <3>4 DEF FlowStep
  <2> QED BY <1>6, <2>1, <2>2, <2>3, <2>4 DEF Generation
<1>7. CASE Rebuild \/ Authority
  BY <1>0, <1>7, TextStays
  DEF Rebuild, StartRebuild, Visit, CommitPage, AbortRebuild, Authority, base, derived
<1> QED BY <1>4, <1>5, <1>6, <1>7 DEF Next

-------------------------------------------------------------------------------
(* Search projections.                                                       *)

\* Neither the Item's text and Documents nor the projections move.
LEMMA SearchStays ==
  ASSUME NoneIsBlank, Projected, item'.text = item.text, UNCHANGED <<docs, search>>
  PROVE  Projected'
<1>1. Ready' = Ready BY DocsStay
<1> QED BY <1>1 DEF Projected, HeldIsCurrent, RebuildCovers, Ahead, IndexAgrees, search

\* The Item's text moves with its projection, outside a rebuild's lock.
LEMMA IndexedText ==
  ASSUME TypeOK, Projected, 0 \notin rebuild.held, index' = [index EXCEPT !.item = item'.text],
         UNCHANGED <<docs, rebuild, whole>>
  PROVE  Projected'
<1>1. Ready' = Ready BY DocsStay
<1>2. index'.item = item'.text /\ index'.docs = index.docs BY DEF TypeOK
<1>3. whole => index' = [item |-> item'.text, docs |-> Ready]
  BY <1>2 DEF TypeOK, Projected, IndexAgrees
<1> QED BY <1>1, <1>2, <1>3 DEF Projected, HeldIsCurrent, RebuildCovers, Ahead, IndexAgrees

\* So does a Document.
LEMMA IndexedDocument ==
  ASSUME TypeOK, Projected, NEW d \in Docs, d \notin rebuild.held, item' = item,
         \/ docs' = [docs EXCEPT ![d] = "ready"] /\ index' = [index EXCEPT !.docs = @ \cup {d}]
         \/ docs' = [docs EXCEPT ![d] = "gone"] /\ index' = [index EXCEPT !.docs = @ \ {d}],
         UNCHANGED <<rebuild, whole>>
  PROVE  Projected'
<1>1. CASE docs' = [docs EXCEPT ![d] = "ready"] /\ index' = [index EXCEPT !.docs = @ \cup {d}]
  <2>1. Ready' = Ready \cup {d} BY <1>1 DEF TypeOK, Ready
  <2>2. index'.item = index.item /\ index'.docs = index.docs \cup {d} BY <1>1 DEF TypeOK
  <2>3. index' = [item |-> index.item, docs |-> index.docs \cup {d}] BY <1>1 DEF TypeOK
  <2>4. whole => index.item = item.text /\ index.docs = Ready BY DEF Projected, IndexAgrees
  <2>5. HeldIsCurrent' BY <2>1 DEF Projected, HeldIsCurrent
  <2>6. RebuildCovers' BY <2>1, <2>2 DEF Projected, RebuildCovers, Ahead
  <2>7. IndexAgrees' BY <2>1, <2>2, <2>3, <2>4 DEF Projected, IndexAgrees
  <2> QED BY <2>5, <2>6, <2>7 DEF Projected
<1>2. CASE docs' = [docs EXCEPT ![d] = "gone"] /\ index' = [index EXCEPT !.docs = @ \ {d}]
  <2>1. Ready' = Ready \ {d} BY <1>2 DEF TypeOK, Ready
  <2>2. index'.item = index.item /\ index'.docs = index.docs \ {d} BY <1>2 DEF TypeOK
  <2>3. index' = [item |-> index.item, docs |-> index.docs \ {d}] BY <1>2 DEF TypeOK
  <2>4. whole => index.item = item.text /\ index.docs = Ready BY DEF Projected, IndexAgrees
  <2>5. HeldIsCurrent' BY <2>1 DEF Projected, HeldIsCurrent
  <2>6. RebuildCovers' BY <2>1, <2>2 DEF Projected, RebuildCovers, Ahead
  <2>7. IndexAgrees' BY <2>1, <2>2, <2>3, <2>4 DEF Projected, IndexAgrees
  <2> QED BY <2>5, <2>6, <2>7 DEF Projected
<1> QED BY <1>1, <1>2

LEMMA ProjectedKeeps ==
  ASSUME ItemsInv, Next
  PROVE  Projected'
<1>0. TypeOK /\ NoneIsBlank /\ Projected /\ HeldIsCurrent /\ RebuildCovers /\ IndexAgrees
  BY DEF ItemsInv, Projected
<1>1. ASSUME NEW key, NEW requests, Create(key, requests) PROVE Projected'
  <2>1. /\ ~Exists /\ item'.text = 1 /\ index' = [index EXCEPT !.item = 1] /\ whole' = TRUE
        /\ UNCHANGED <<docs, rebuild>>
    BY <1>1 DEF Create, Indexed, Exists, NoItem
  <2>2. Ready' = Ready /\ Ready = {} /\ rebuild.held = {} /\ index.docs = {}
    BY <1>0, <2>1, DocsStay DEF NoneIsBlank, IndexAgrees
  <2>3. index' = [item |-> 1, docs |-> {}] BY <1>0, <2>1, <2>2 DEF TypeOK
  <2> QED BY <1>0, <2>1, <2>2, <2>3 DEF Projected, HeldIsCurrent, RebuildCovers, Ahead, IndexAgrees
<1>2. ASSUME NEW key \in Preserved \cup {"own", "none", "current"}, CanWrite, Writes(key),
             UNCHANGED <<docs, rebuild, whole>>
      PROVE  Projected'
  <2>1. item'.text = item.version + 1 /\ index' = [index EXCEPT !.item = item.version + 1]
    BY <1>0, <1>2, WritesTypes
  <2>2. 0 \notin rebuild.held BY <1>2 DEF CanWrite, Held
  <2> QED BY <1>0, <1>2, <2>1, <2>2, IndexedText
<1>3. CASE Edit
  <2>1. ASSUME NEW c \in Clients, Look(c) PROVE Projected'
    BY <1>0, <2>1, SearchStays DEF Look
  <2>2. ASSUME NEW c \in Clients, Revise(c) PROVE Projected' BY <1>2, <2>2 DEF Revise
  <2>3. CASE Regenerate BY <1>0, <2>3, SearchStays DEF Regenerate, base
  <2>4. CASE Delete
    <3>1. /\ rebuild.held = {} /\ item'.text = 0 /\ index'.item = 0 /\ index'.docs = {}
          /\ index' = [item |-> 0, docs |-> {}] /\ UNCHANGED <<rebuild, whole>>
      BY <2>4 DEF Delete, NoItem
    <3>2. Ready' = {} BY <2>4 DEF Delete, Ready
    <3> QED BY <1>0, <3>1, <3>2 DEF Projected, HeldIsCurrent, RebuildCovers, Ahead, IndexAgrees
  <2>5. ASSUME NEW d \in Docs, PublishDocument(d) \/ DeleteDocument(d) PROVE Projected'
    BY <1>0, <2>5, IndexedDocument DEF PublishDocument, DeleteDocument, Held
  <2> QED BY <1>1, <1>3, <2>1, <2>2, <2>3, <2>4, <2>5 DEF Edit
<1>4. CASE Keys
  <2>1. CASE RegenerateKey
    <3>1. /\ item'.text = item.text /\ index' = [index EXCEPT !.item = item.text]
          /\ 0 \notin rebuild.held /\ UNCHANGED <<docs, rebuild, whole>>
      BY <1>0, <2>1 DEF RegenerateKey, TypeOK, CanWrite, Held, Indexed
    <3> QED BY <1>0, <3>1, IndexedText
  <2>2. ASSUME NEW c \in Clients, StartSync(c) \/ RefuseSync(c) PROVE Projected'
    BY <1>0, <2>2, SearchStays DEF StartSync, RefuseSync
  <2>3. ASSUME NEW c \in Clients, CommitSync(c) PROVE Projected' BY <1>2, <2>3 DEF CommitSync
  <2> QED BY <1>4, <2>1, <2>2, <2>3 DEF Keys
<1>5. CASE Generation
  BY <1>0, <1>5, SearchStays
  DEF Generation, Notice, NoticeAgain, NoticeRefused, NoticeBreaks, FlowStep, CheckCurrent,
      ReadItem, ReadDocument, MakeNothing, Store, FlowBreaks, base
<1>6. CASE Rebuild
  <2>0. Ready' = Ready /\ item' = item /\ docs' = docs /\ 0 \notin Ready
        /\ Ready \subseteq Rows \cup (Ready \ Rows) /\ (Exists => Ready \subseteq Rows /\ 0 \in Rows)
        /\ (~Exists => Ready = {} /\ item.text = 0 /\ rebuild.held = {} /\ index.item = 0)
    BY <1>0, <1>6, DocsStay, Bounds
    DEF Rebuild, StartRebuild, Visit, CommitPage, AbortRebuild, base, Ready, Rows, NoneIsBlank,
        NoItem, IndexAgrees
  <2>1. CASE StartRebuild
    <3>1. /\ rebuild'.todo = Rows /\ rebuild'.held = {} /\ rebuild'.docs = {} /\ Exists
          /\ UNCHANGED <<index, whole>>
      BY <2>1 DEF StartRebuild, NoRebuild
    <3> QED BY <1>0, <2>0, <3>1 DEF Projected, HeldIsCurrent, RebuildCovers, Ahead, IndexAgrees
  <2>2. ASSUME NEW t \in Targets, Visit(t) PROVE Projected'
    <3>1. /\ rebuild'.todo = rebuild.todo \ {t} /\ rebuild'.held = rebuild.held \cup ({t} \cap Rows)
          /\ rebuild'.text = (IF t = 0 THEN item.text ELSE rebuild.text)
          /\ rebuild'.docs = rebuild.docs \cup ({t} \cap Ready)
          /\ t \in rebuild.todo /\ UNCHANGED <<index, whole>>
      BY <2>2 DEF Visit
    <3>2. HeldIsCurrent' BY <1>0, <2>0, <3>1 DEF HeldIsCurrent
    <3>3. RebuildCovers' BY <1>0, <2>0, <3>1 DEF RebuildCovers, Ahead
    <3>4. IndexAgrees' BY <1>0, <2>0, <3>1 DEF IndexAgrees
    <3> QED BY <3>2, <3>3, <3>4 DEF Projected
  <2>3. CASE CommitPage
    <3>1. /\ index'.item = (IF 0 \in rebuild.held THEN rebuild.text ELSE index.item)
          /\ index'.docs = (index.docs \ rebuild.held) \cup rebuild.docs
          /\ index' = [item |-> index'.item, docs |-> index'.docs]
          /\ rebuild'.todo = rebuild.todo /\ rebuild'.held = {} /\ rebuild'.docs = {}
          /\ rebuild.held # {} /\ (whole' <=> whole \/ rebuild.todo = {})
      BY <2>3 DEF CommitPage, NoRebuild
    <3>2. HeldIsCurrent' BY <3>1 DEF HeldIsCurrent
    <3>3. /\ Ready \ rebuild.todo \subseteq index'.docs /\ index'.docs \subseteq Ready
          /\ 0 \in rebuild.todo \/ index'.item = item.text
          /\ index'.item \in {0, item.text}
      BY <1>0, <3>1 DEF HeldIsCurrent, RebuildCovers, Ahead, IndexAgrees
    <3>4. RebuildCovers' BY <2>0, <3>1, <3>3 DEF RebuildCovers, Ahead
    <3>5. whole => index'.item = item.text /\ index'.docs = Ready
      BY <1>0, <3>1, <3>3 DEF HeldIsCurrent, IndexAgrees
    <3>6. IndexAgrees' BY <2>0, <3>1, <3>3, <3>5 DEF IndexAgrees
    <3> QED BY <3>2, <3>4, <3>6 DEF Projected
  <2>4. CASE AbortRebuild
    <3>1. rebuild'.todo = {} /\ rebuild'.held = {} /\ rebuild'.docs = {} /\ UNCHANGED <<index, whole>>
      BY <2>4 DEF AbortRebuild, NoRebuild
    <3> QED BY <1>0, <2>0, <3>1 DEF Projected, HeldIsCurrent, RebuildCovers, Ahead, IndexAgrees
  <2> QED BY <1>6, <2>1, <2>2, <2>3, <2>4 DEF Rebuild
<1>7. CASE Authority BY <1>0, <1>7, SearchStays DEF Authority
<1> QED BY <1>3, <1>4, <1>5, <1>6, <1>7 DEF Next

-------------------------------------------------------------------------------
(* The Item, and synchronizations with a provider.                           *)

LEMMA BlankKeeps ==
  ASSUME ItemsInv, Next
  PROVE  NoneIsBlank'
<1>0. TypeOK /\ NoneIsBlank /\ item.version \in Nat /\ 0 \notin Tokens BY Bounds DEF ItemsInv, TypeOK, Tokens
<1>1. ASSUME item'.version > 0 PROVE NoneIsBlank' BY <1>1 DEF NoneIsBlank, Exists
<1>2. ASSUME item' = item, docs' = docs, rec' = rec, rebuild' = rebuild PROVE NoneIsBlank'
  BY <1>0, <1>2, DocsStay DEF NoneIsBlank, Exists
<1>3. CASE Edit
  <2>1. ASSUME NEW key, NEW requests, Create(key, requests) PROVE NoneIsBlank'
    BY <1>1, <2>1 DEF Create
  <2>2. ASSUME NEW c \in Clients, Look(c) PROVE NoneIsBlank' BY <1>2, <2>2 DEF Look, derived, search
  <2>3. ASSUME NEW c \in Clients, Revise(c) PROVE NoneIsBlank'
    BY <1>0, <1>1, <2>3 DEF Revise, Writes
  <2>4. CASE Regenerate BY <1>0, <1>1, <2>4 DEF Regenerate, base, Exists
  <2>5. CASE Delete
    <3>1. Ready' = {} BY <2>5 DEF Delete, Ready
    <3> QED BY <2>5, <3>1 DEF Delete, NoneIsBlank
  <2>6. ASSUME NEW d \in Docs, PublishDocument(d) \/ DeleteDocument(d) PROVE NoneIsBlank'
    BY <1>0, <1>1, <2>6 DEF PublishDocument, DeleteDocument, Exists
  <2> QED BY <1>3, <2>1, <2>2, <2>3, <2>4, <2>5, <2>6 DEF Edit
<1>4. CASE Keys
  <2>1. CASE RegenerateKey
    <3>1. item'.version = item.version + 1 BY <1>0, <2>1 DEF RegenerateKey, TypeOK
    <3> QED BY <1>0, <1>1, <3>1
  <2>2. ASSUME NEW c \in Clients, StartSync(c) \/ RefuseSync(c) PROVE NoneIsBlank'
    BY <1>2, <2>2 DEF StartSync, RefuseSync, derived, search
  <2>3. ASSUME NEW c \in Clients, CommitSync(c) PROVE NoneIsBlank'
    BY <1>0, <1>1, <2>3 DEF CommitSync, Writes
  <2> QED BY <1>4, <2>1, <2>2, <2>3 DEF Keys
<1>5. CASE Generation
  <2>1. UNCHANGED <<item, docs, rebuild>>
    BY <1>5 DEF Generation, Notice, NoticeAgain, NoticeRefused, NoticeBreaks, FlowStep, CheckCurrent,
                ReadItem, ReadDocument, MakeNothing, Store, FlowBreaks, base, search
  <2>2. rec' = rec \/ Exists
    BY <1>5 DEF Generation, Notice, NoticeAgain, NoticeRefused, NoticeBreaks, FlowStep, CheckCurrent,
                ReadItem, ReadDocument, MakeNothing, Store, FlowBreaks
  <2> QED BY <1>0, <1>1, <1>2, <2>1, <2>2 DEF Exists
<1>6. CASE Rebuild
  <2>1. UNCHANGED <<item, docs, rec>>
    BY <1>6 DEF Rebuild, StartRebuild, Visit, CommitPage, AbortRebuild, base, derived
  <2>2. rebuild'.held = {} \/ rebuild' = rebuild \/ \E t \in Targets : Visit(t)
    BY <1>6 DEF Rebuild, StartRebuild, CommitPage, AbortRebuild, NoRebuild
  <2>3. ASSUME NEW t \in Targets, Visit(t), ~Exists PROVE rebuild'.held = rebuild.held
    BY <2>3 DEF Visit, Rows
  <2> QED BY <1>0, <2>1, <2>2, <2>3, DocsStay DEF NoneIsBlank, Exists
<1>7. CASE Authority BY <1>2, <1>7 DEF Authority, derived, search
<1> QED BY <1>3, <1>4, <1>5, <1>6, <1>7 DEF Next

\* A new version of the Item, seen by the session that wrote it, if any.
LEMMA VersionSynchronized ==
  ASSUME TypeOK, Synchronized, Exists, item'.version = item.version + 1,
         \A c \in Clients : \/ client'[c] = client[c]
                            \/ client'[c].known = item'.version /\ client'[c].sync = "none"
  PROVE  Synchronized'
<1>0. item.version \in Nat /\ \A c \in Clients : client[c].known \in Nat BY Bounds DEF TypeOK
<1>1. \A c \in Clients : client[c].known <= item.version BY DEF Synchronized, KnownIsPast
<1>2. KnownIsPast' BY <1>0, <1>1 DEF KnownIsPast, Exists
<1>3. RenewalsRenew' BY <1>0, <1>1 DEF Synchronized, RenewalsRenew
<1> QED BY <1>2, <1>3 DEF Synchronized

LEMMA SynchronizedKeeps ==
  ASSUME ItemsInv, Next
  PROVE  Synchronized'
<1>0. /\ TypeOK /\ NoneIsBlank /\ Synchronized /\ KnownIsPast /\ RenewalsRenew
      /\ item.version \in Nat /\ \A c \in Clients : client[c].known \in Nat
  BY Bounds DEF ItemsInv, Synchronized, TypeOK
<1>1. ASSUME item' = item, client' = client, docs' = docs \/ Exists PROVE Synchronized'
  BY <1>0, <1>1 DEF Synchronized, KnownIsPast, RenewalsRenew, Exists
<1>2. ASSUME NEW c \in Clients, client' = [client EXCEPT ![c] = [known |-> item.version + 1, sync |-> "none"]]
             \/ (client' = [client EXCEPT ![c].known = item.version + 1] /\ client[c].sync = "none"),
             CanWrite, NEW key, Writes(key)
      PROVE  Synchronized'
  <2>1. item'.version = item.version + 1 BY <1>2 DEF Writes
  <2>2. \A d \in Clients : \/ client'[d] = client[d]
                           \/ client'[d].known = item'.version /\ client'[d].sync = "none"
    BY <1>0, <1>2, <2>1 DEF TypeOK
  <2> QED BY <1>0, <1>2, <2>1, <2>2, VersionSynchronized DEF CanWrite
<1>3. CASE Edit
  <2>1. ASSUME NEW key, NEW requests, Create(key, requests) PROVE Synchronized'
    <3>1. ~Exists /\ docs[1] = "new" /\ 1 \in Docs /\ client' = client /\ item'.version = 1
      BY <2>1, Bounds DEF Create, Exists, NoItem
    <3>2. \A c \in Clients : client[c].known = 0 BY <1>0, <3>1 DEF KnownIsPast
    <3>3. KnownIsPast' BY <3>1, <3>2 DEF KnownIsPast, Exists
    <3>4. RenewalsRenew' BY <1>0, <3>1, <3>2 DEF RenewalsRenew
    <3> QED BY <3>3, <3>4 DEF Synchronized
  <2>2. ASSUME NEW c \in Clients, Look(c) PROVE Synchronized'
    <3>1. /\ client'[c].known = item.version /\ client'[c].sync = "none" /\ UNCHANGED <<item, docs>>
          /\ \A d \in Clients : d # c => client'[d] = client[d]
      BY <1>0, <2>2 DEF Look, TypeOK
    <3>2. KnownIsPast' BY <1>0, <3>1 DEF KnownIsPast, Exists
    <3>3. RenewalsRenew' BY <1>0, <3>1 DEF RenewalsRenew
    <3> QED BY <3>2, <3>3 DEF Synchronized
  <2>3. ASSUME NEW c \in Clients, Revise(c) PROVE Synchronized' BY <1>2, <2>3 DEF Revise
  <2>4. CASE Regenerate BY <1>1, <2>4 DEF Regenerate, base
  <2>5. CASE Delete
    <3>1. item'.version = 0 /\ client' = client /\ \A d \in Docs : docs'[d] = "gone"
      BY <2>5 DEF Delete, NoItem
    <3>2. KnownIsPast' BY <3>1 DEF KnownIsPast, Exists
    <3>3. RenewalsRenew' BY <1>0, <3>1 DEF RenewalsRenew
    <3> QED BY <3>2, <3>3 DEF Synchronized
  <2>6. ASSUME NEW d \in Docs, PublishDocument(d) \/ DeleteDocument(d) PROVE Synchronized'
    BY <1>1, <2>6 DEF PublishDocument, DeleteDocument
  <2> QED BY <1>3, <2>1, <2>2, <2>3, <2>4, <2>5, <2>6 DEF Edit
<1>4. CASE Keys
  <2>1. CASE RegenerateKey
    <3>1. item'.version = item.version + 1 /\ client' = client BY <1>0, <2>1 DEF RegenerateKey, TypeOK
    <3> QED BY <1>0, <2>1, <3>1, VersionSynchronized DEF RegenerateKey, CanWrite
  <2>2. ASSUME NEW c \in Clients, StartSync(c) \/ RefuseSync(c) PROVE Synchronized'
    <3>1. UNCHANGED <<item, docs>> BY <2>2 DEF StartSync, RefuseSync
    <3>2. /\ client'[c].known = client[c].known
          /\ \A d \in Clients : d # c => client'[d] = client[d]
      BY <1>0, <2>2 DEF StartSync, RefuseSync, TypeOK
    <3>3. /\ client'[c].sync # "none" => client[c].known > 0
          /\ client'[c].sync = "renews" => item.key \in {"none", "current"}
      BY <1>0, <2>2 DEF StartSync, RefuseSync, TypeOK
    <3>4. KnownIsPast' BY <1>0, <3>1, <3>2 DEF KnownIsPast, Exists
    <3>5. RenewalsRenew' BY <1>0, <3>1, <3>2, <3>3 DEF RenewalsRenew
    <3> QED BY <3>4, <3>5 DEF Synchronized
  <2>3. ASSUME NEW c \in Clients, CommitSync(c) PROVE Synchronized' BY <1>2, <2>3 DEF CommitSync
  <2> QED BY <1>4, <2>1, <2>2, <2>3 DEF Keys
<1>5. CASE Generation
  BY <1>1, <1>5 DEF Generation, Notice, NoticeAgain, NoticeRefused, NoticeBreaks, FlowStep, CheckCurrent,
                ReadItem, ReadDocument, MakeNothing, Store, FlowBreaks, base
<1>6. CASE Rebuild
  BY <1>1, <1>6 DEF Rebuild, StartRebuild, Visit, CommitPage, AbortRebuild, base
<1>7. CASE Authority BY <1>1, <1>7 DEF Authority
<1> QED BY <1>3, <1>4, <1>5, <1>6, <1>7 DEF Next

-------------------------------------------------------------------------------
(* The theorems.                                                             *)

LEMMA InitItems ==
  ASSUME Init
  PROVE  ItemsInv
<1>0. <<0, 0>> \in Texts BY Bounds DEF Texts
<1>1. TypeOK
  <2>1. item \in [version : 0..MaxVersion, text : 0..MaxVersion, key : CitationKeys]
    BY Bounds DEF Init, NoItem, CitationKeys
  <2>2. docs \in [Docs -> {"new", "ready", "gone"}] BY DEF Init
  <2>3. client \in [Clients -> [known : 0..MaxVersion, sync : {"none", "renews", "keeps"}]]
    BY Bounds DEF Init
  <2>4. rec \in [token : 0..MaxToken, ready : BOOLEAN, seen : Texts] BY <1>0, Bounds DEF Init, NoRecord
  <2>5. flow \in [Tokens -> [phase : {"none", "queued", "current", "read", "made",
                                      "ended", "empty", "failed"}, seen : Texts]]
    BY <1>0 DEF Init
  <2>6. /\ index \in [item : 0..MaxVersion, docs : SUBSET Docs]
        /\ rebuild \in [todo : SUBSET Targets, held : SUBSET Targets,
                        text : 0..MaxVersion, docs : SUBSET Docs]
        /\ notices \in 0..MaxToken /\ faults \in 0..MaxFaults
    BY Bounds DEF Init, NoRebuild
  <2>7. may \in BOOLEAN /\ lost \in BOOLEAN /\ whole \in BOOLEAN BY DEF Init
  <2> QED BY <2>1, <2>2, <2>3, <2>4, <2>5, <2>6, <2>7 DEF TypeOK
<1>2. rec.token = 0 /\ ~rec.ready /\ notices = 0 /\ 0 \notin Tokens /\ rebuild = NoRebuild
      /\ (\A c \in Clients : client[c] = [known |-> 0, sync |-> "none"]) /\ rec = NoRecord
  BY DEF Init, NoRecord, Tokens
<1>3. NoneIsBlank
  BY <1>2 DEF Init, NoneIsBlank, Ready, NoRebuild, Exists
<1>4. Derived BY <1>2, Bounds DEF Derived, HasRoom, ReadingIsCurrent, ReadyIsCurrent
<1>5. Projected
  <2>1. rebuild.todo = {} /\ rebuild.held = {} /\ rebuild.docs = {}
        /\ index = [item |-> 0, docs |-> {}]
    BY <1>2 DEF Init, NoRebuild
  <2>2. whole => item.text = 0 /\ Ready = {} BY <1>3 DEF Init, NoneIsBlank, NoItem, Exists
  <2> QED BY <2>1, <2>2 DEF Projected, HeldIsCurrent, RebuildCovers, Ahead, IndexAgrees
<1>6. Synchronized BY <1>2, Bounds DEF Init, Synchronized, KnownIsPast, RenewalsRenew, NoItem, Exists
<1> QED BY <1>1, <1>3, <1>4, <1>5, <1>6 DEF ItemsInv

LEMMA StepItems ==
  ASSUME ItemsInv, [Next]_vars
  PROVE  ItemsInv'
<1>1. CASE Next
  <2>1. TypeOK' /\ HasRoom'
    BY <1>1, EditTypes, KeysTypes, GenerationTypes, RebuildTypes DEF ItemsInv, Derived, Next
  <2> QED BY <1>1, <2>1, BlankKeeps, DerivedKeeps, ProjectedKeeps, SynchronizedKeeps DEF ItemsInv, Derived
<1>2. CASE UNCHANGED vars
  <2>1. Ready' = Ready /\ Newest' = Newest BY <1>2, DocsStay DEF vars, base
  <2>2. UNCHANGED <<item, docs, may, client, rec, notices, lost, flow, index, rebuild, whole, faults>>
    BY <1>2 DEF vars, base, derived, search
  <2>3. TypeOK' BY <2>2 DEF ItemsInv, TypeOK
  <2>4. NoneIsBlank' BY <2>1, <2>2 DEF ItemsInv, NoneIsBlank, Exists
  <2>5. Derived' BY <2>1, <2>2 DEF ItemsInv, Derived, HasRoom, ReadingIsCurrent, ReadyIsCurrent
  <2>6. Projected' BY <2>1, <2>2 DEF ItemsInv, Projected, HeldIsCurrent, RebuildCovers, Ahead, IndexAgrees
  <2>7. Synchronized' BY <2>2 DEF ItemsInv, Synchronized, KnownIsPast, RenewalsRenew, Exists
  <2> QED BY <2>3, <2>4, <2>5, <2>6, <2>7 DEF ItemsInv
<1> QED BY <1>1, <1>2

LEMMA ItemsInvHolds == Spec => []ItemsInv
<1> QED BY InitItems, StepItems, PTL DEF Spec

\* What is derived from an Item is what the Item says: a recommendation that is shown
\* was made from its present texts, however generations, notices, retries and edits
\* interleave, and the search projections hold its texts beside a running rebuild
\* (library/tag_recommendations.py, library/search/postgres.py).
THEOREM DerivedFollowsTheItem == Spec => []ProjectionsAgree
<1>1. ItemsInv => ProjectionsAgree BY DEF ItemsInv, Derived, Projected, ProjectionsAgree
<1> QED BY <1>1, ItemsInvHolds, PTL

\* A synchronization that ends in a write keeps the owner's key.
LEMMA SyncKeepsKey ==
  ASSUME ItemsInv, Next, NEW c \in Clients, client[c].sync # "none", client'[c].sync = "none",
         item' # item, item.key = "own"
  PROVE  item'.key = "own"
<1>0. TypeOK /\ RenewalsRenew BY DEF ItemsInv, Synchronized
<1>1. ASSUME client' = client \/ item' = item PROVE FALSE BY <1>1
<1>2. CASE Edit
  <2>1. ASSUME NEW d \in Clients, Revise(d) PROVE FALSE
    BY <1>0, <2>1 DEF Revise, TypeOK
  <2> QED BY <1>1, <1>2, <2>1 DEF Edit, Create, Look, Regenerate, Delete, PublishDocument, DeleteDocument, base
<1>3. CASE Keys
  <2>1. ASSUME NEW d \in Clients, CommitSync(d) PROVE item'.key = "own"
    <3>1. d = c BY <1>0, <2>1 DEF CommitSync, TypeOK
    <3>2. client[c].known = item.version /\ client[c].sync # "renews"
      BY <1>0, <2>1, <3>1 DEF CommitSync, RenewalsRenew
    <3>3. PICK key \in Preserved : Writes(key) BY <2>1, <3>1, <3>2 DEF CommitSync
    <3> QED BY <3>3 DEF Preserved, Writes
  <2> QED BY <1>1, <1>3, <2>1 DEF Keys, RegenerateKey, StartSync, RefuseSync
<1>4. CASE Generation
  BY <1>1, <1>4 DEF Generation, Notice, NoticeAgain, NoticeRefused, NoticeBreaks, FlowStep, CheckCurrent,
                    ReadItem, ReadDocument, MakeNothing, Store, FlowBreaks, base
<1>5. CASE Rebuild \/ Authority
  BY <1>1, <1>5 DEF Rebuild, StartRebuild, Visit, CommitPage, AbortRebuild, Authority, base
<1> QED BY <1>2, <1>3, <1>4, <1>5 DEF Next

\* Synchronizing with a provider keeps a citation key its owner chose, also one that
\* was chosen while the provider was asked (library/item_metadata.py,
\* sync_metadata_from_upstream).
THEOREM OwnKeysStay == Spec => OwnKeyStays
<1>1. ItemsInv /\ [Next]_vars => [
        \A c \in Clients : client[c].sync # "none" /\ client'[c].sync = "none"
          /\ item' # item /\ item.key = "own" => item'.key = "own"]_vars
  BY SyncKeepsKey
<1> QED BY <1>1, ItemsInvHolds, PTL DEF Spec, OwnKeyStays
-------------------------------------------------------------------------------
(* Discussions.                                                              *)

Spoken(c) == c.op \in {"add", "delete", "moderate"}
\* What the statements of a command leave to do, one after the other.
Stages(c) ==
  CASE c.op = "add" ->
         IF c.on = "item" THEN {<<"check", "root", "insert">>, <<"root", "insert">>, <<"insert">>}
         ELSE {<<"root", "project", "insert">>, <<"project", "insert">>, <<"insert">>}
    [] c.op = "delete" ->
         IF c.on = "item"
         THEN {<<"look", "message", "check", "root", "erase">>, <<"message", "check", "root", "erase">>,
               <<"check", "root", "erase">>, <<"root", "erase">>, <<"erase">>}
         ELSE {<<"look", "root", "project", "erase">>, <<"root", "project", "erase">>,
               <<"project", "erase">>, <<"erase">>}
    [] c.op = "moderate" ->
         IF c.on = "item"
         THEN {<<"look", "check", "root", "message", "erase">>, <<"check", "root", "message", "erase">>,
               <<"root", "message", "erase">>, <<"message", "erase">>, <<"erase">>}
         ELSE {<<"look", "root", "project", "message", "erase">>, <<"root", "project", "message", "erase">>,
               <<"project", "message", "erase">>, <<"message", "erase">>, <<"erase">>}
    [] c.op = "destroy" -> {<<"root", "cascade">>, <<"cascade">>}
\* Behind the lock on the Workspace, and behind the one on the Project.
Behind(c) == IF c.on = "item" THEN {<<"insert">>, <<"erase">>, <<"message", "erase">>}
             ELSE {<<"insert">>, <<"erase">>, <<"message", "erase">>, <<"project", "insert">>,
                   <<"project", "erase">>, <<"project", "message", "erase">>}
Decided == {<<"insert">>, <<"erase">>, <<"message", "erase">>}

\* The author deletes, somebody else moderates.
IsForAuthor(c) == (c.op = "moderate") <=> (Topic[c.message].by # c.by)
\* Whatever changes what a command was allowed on waits for the locks it holds.
Stands(t) ==
  /\ t.todo \in Stages(t.cmd) /\ t.answer = "none"
  /\ Head(t.todo) # "look" => IsForAuthor(t.cmd)
  /\ t.todo \in Behind(t.cmd) => Talk!Lock("workspace", "shared") \in t.held
  /\ t.todo \in Decided => Talk!MayDo(t.cmd)
  /\ t.todo \in Decided /\ t.cmd.on = "project" =>
       Talk!Lock("project", "shared") \in t.held /\ home.project = "active"
Destroys(t) ==
  /\ t.todo \in Stages(t.cmd)
  /\ t.todo = <<"cascade">> => Talk!Lock("workspace", "update") \in t.held
Locks == [row : {"workspace", "project"} \cup Messages, mode : {"shared", "update"}]
Commands == {[op |-> "none"]} \cup Demands
Todos == {<<>>} \cup UNION {Stages(c) : c \in Demands}
TalkFields == [cmd : Commands, todo : Todos, held : SUBSET Locks,
               answer : {"none", "refused", "done", "lost"}]
TalkTypes ==
  /\ talk \in [Processes -> TalkFields]
  /\ home \in [{"item", "project"} -> {"active", "archived", "gone"}] /\ home.item # "archived"
TalkExcludes == \A q, r \in Processes : q # r =>
  \A a \in talk[q].held, b \in talk[r].held : ~Talk!Conflicts(a, b)
TalkInv ==
  /\ TalkTypes /\ TalkExcludes
  /\ \A q \in Processes : Spoken(talk[q].cmd) => Stands(talk[q])
  /\ \A q \in Processes : talk[q].cmd.op = "destroy" => Destroys(talk[q])

-------------------------------------------------------------------------------
LEMMA Listed ==
  /\ \A a : Head(<<a>>) = a
  /\ \A a, b : Head(<<a, b>>) = a /\ Tail(<<a, b>>) = <<b>>
  /\ \A a, b, c : Head(<<a, b, c>>) = a /\ Tail(<<a, b, c>>) = <<b, c>>
  /\ \A a, b, c, d : Head(<<a, b, c, d>>) = a /\ Tail(<<a, b, c, d>>) = <<b, c, d>>
  /\ \A a, b, c, d, e : Head(<<a, b, c, d, e>>) = a /\ Tail(<<a, b, c, d, e>>) = <<b, c, d, e>>
OBVIOUS

LEMMA DemandParts ==
  ASSUME NEW c \in Demands
  PROVE  /\ c.op = "destroy" \/ Spoken(c)
         /\ Spoken(c) => c.on \in {"item", "project"} /\ c.message \in Messages
         /\ c.op = "add" => c.by = Topic[c.message].by
BY TalkAssumption DEF Talk!TopicAssumption, Talk!DemandsAssumption, Spoken

\* A statement leaves the rest of its command to do.
LEMMA Onward ==
  ASSUME NEW c \in Demands, Spoken(c), NEW todo \in Stages(c)
  PROVE  /\ Head(todo) \in {"look", "check", "root", "project", "message", "insert", "erase"}
         /\ Head(todo) = "insert" => c.op = "add" /\ todo \in Decided /\ todo \in Behind(c)
         /\ Head(todo) = "erase" => c.op # "add" /\ todo \in Decided /\ todo \in Behind(c)
         /\ Head(todo) = "look" => c.op # "add"
         /\ Head(todo) \notin {"insert", "erase"} =>
              /\ Tail(todo) \in Stages(c) /\ Head(Tail(todo)) # "look"
              /\ Tail(todo) \in Behind(c) => todo \in Behind(c) \/ Head(todo) = "root"
              /\ Tail(todo) \in Decided /\ todo \notin Decided =>
                   IF c.on = "item" THEN Head(todo) = "root" ELSE Head(todo) = "project"
<1>0. c.on \in {"item", "project"} BY DemandParts
<1>1. CASE c.op = "add" /\ c.on = "item"
  <2>1. CASE todo = <<"check", "root", "insert">> BY <1>1, <2>1, Listed DEF Stages, Behind, Decided
  <2>2. CASE todo = <<"root", "insert">> BY <1>1, <2>2, Listed DEF Stages, Behind, Decided
  <2>3. CASE todo = <<"insert">> BY <1>1, <2>3, Listed DEF Stages, Behind, Decided
  <2> QED BY <1>1, <2>1, <2>2, <2>3 DEF Stages
<1>2. CASE c.op = "add" /\ c.on = "project"
  <2>1. CASE todo = <<"root", "project", "insert">> BY <1>2, <2>1, Listed DEF Stages, Behind, Decided
  <2>2. CASE todo = <<"project", "insert">> BY <1>2, <2>2, Listed DEF Stages, Behind, Decided
  <2>3. CASE todo = <<"insert">> BY <1>2, <2>3, Listed DEF Stages, Behind, Decided
  <2> QED BY <1>2, <2>1, <2>2, <2>3 DEF Stages
<1>3. CASE c.op = "delete" /\ c.on = "item"
  <2>1. CASE todo = <<"look", "message", "check", "root", "erase">> BY <1>3, <2>1, Listed DEF Stages, Behind, Decided
  <2>2. CASE todo = <<"message", "check", "root", "erase">> BY <1>3, <2>2, Listed DEF Stages, Behind, Decided
  <2>3. CASE todo = <<"check", "root", "erase">> BY <1>3, <2>3, Listed DEF Stages, Behind, Decided
  <2>4. CASE todo = <<"root", "erase">> BY <1>3, <2>4, Listed DEF Stages, Behind, Decided
  <2>5. CASE todo = <<"erase">> BY <1>3, <2>5, Listed DEF Stages, Behind, Decided
  <2> QED BY <1>3, <2>1, <2>2, <2>3, <2>4, <2>5 DEF Stages
<1>4. CASE c.op = "delete" /\ c.on = "project"
  <2>1. CASE todo = <<"look", "root", "project", "erase">> BY <1>4, <2>1, Listed DEF Stages, Behind, Decided
  <2>2. CASE todo = <<"root", "project", "erase">> BY <1>4, <2>2, Listed DEF Stages, Behind, Decided
  <2>3. CASE todo = <<"project", "erase">> BY <1>4, <2>3, Listed DEF Stages, Behind, Decided
  <2>4. CASE todo = <<"erase">> BY <1>4, <2>4, Listed DEF Stages, Behind, Decided
  <2> QED BY <1>4, <2>1, <2>2, <2>3, <2>4 DEF Stages
<1>5. CASE c.op = "moderate" /\ c.on = "item"
  <2>1. CASE todo = <<"look", "check", "root", "message", "erase">> BY <1>5, <2>1, Listed DEF Stages, Behind, Decided
  <2>2. CASE todo = <<"check", "root", "message", "erase">> BY <1>5, <2>2, Listed DEF Stages, Behind, Decided
  <2>3. CASE todo = <<"root", "message", "erase">> BY <1>5, <2>3, Listed DEF Stages, Behind, Decided
  <2>4. CASE todo = <<"message", "erase">> BY <1>5, <2>4, Listed DEF Stages, Behind, Decided
  <2>5. CASE todo = <<"erase">> BY <1>5, <2>5, Listed DEF Stages, Behind, Decided
  <2> QED BY <1>5, <2>1, <2>2, <2>3, <2>4, <2>5 DEF Stages
<1>6. CASE c.op = "moderate" /\ c.on = "project"
  <2>1. CASE todo = <<"look", "root", "project", "message", "erase">> BY <1>6, <2>1, Listed DEF Stages, Behind, Decided
  <2>2. CASE todo = <<"root", "project", "message", "erase">> BY <1>6, <2>2, Listed DEF Stages, Behind, Decided
  <2>3. CASE todo = <<"project", "message", "erase">> BY <1>6, <2>3, Listed DEF Stages, Behind, Decided
  <2>4. CASE todo = <<"message", "erase">> BY <1>6, <2>4, Listed DEF Stages, Behind, Decided
  <2>5. CASE todo = <<"erase">> BY <1>6, <2>5, Listed DEF Stages, Behind, Decided
  <2> QED BY <1>6, <2>1, <2>2, <2>3, <2>4, <2>5 DEF Stages
<1> QED BY <1>0, <1>1, <1>2, <1>3, <1>4, <1>5, <1>6 DEF Spoken

\* Commands in progress have types.
LEMMA Running ==
  ASSUME TalkTypes, NEW q \in Processes, talk[q].cmd.op # "none"
  PROVE  talk[q].cmd \in Demands
BY DEF TalkTypes, TalkFields, Commands

LEMMA NowOfDestroy ==
  ASSUME NEW q \in Processes, Destroys(talk[q]), talk[q].cmd.op = "destroy"
  PROVE  /\ Talk!Now(q) \in {"root", "cascade"}
         /\ Talk!Now(q) = "root" => Tail(talk[q].todo) = <<"cascade">>
         /\ Talk!Now(q) = "cascade" => talk[q].todo = <<"cascade">>
<1>1. talk[q].todo \in {<<"root", "cascade">>, <<"cascade">>} BY DEF Destroys, Stages
<1>2. CASE talk[q].todo = <<"root", "cascade">> BY <1>2, Listed DEF Talk!Now
<1>3. CASE talk[q].todo = <<"cascade">> BY <1>3, Listed DEF Talk!Now
<1> QED BY <1>1, <1>2, <1>3

LEMMA WantsLocks ==
  ASSUME TalkInv, NEW q \in Processes PROVE Talk!Wants(q) \subseteq Locks
<1> DEFINE c == talk[q].cmd
<1>1. CASE ~Talk!Busy(q) BY <1>1 DEF Talk!Wants
<1>2. CASE Talk!Busy(q)
  <2>1. c \in Demands BY <1>2, Running DEF Talk!Busy, TalkInv
  <2>2. c.op # "destroy" => c.message \in Messages BY <2>1, DemandParts
  <2>3. CASE Talk!Now(q) \in {"message", "erase"}
    <3>1. c.op # "destroy" BY <2>3, NowOfDestroy DEF TalkInv
    <3> QED BY <1>2, <2>2, <2>3, <3>1 DEF Talk!Wants, Talk!Lock, Locks
  <2>4. CASE Talk!Now(q) \notin {"message", "erase"}
    BY <1>2, <2>4 DEF Talk!Wants, Talk!Lock, Locks
  <2> QED BY <2>3, <2>4
<1> QED BY <1>1, <1>2

\* A transaction takes no lock that another holds.
LEMMA LocksKept ==
  ASSUME TalkExcludes, NEW q \in Processes, \A r \in Processes : ~Talk!BlockedBy(q, r),
         \A r \in Processes : r # q => talk'[r] = talk[r],
         talk'[q].held \subseteq talk[q].held \cup Talk!Wants(q)
  PROVE  TalkExcludes'
<1> SUFFICES ASSUME NEW p \in Processes, NEW r \in Processes, p # r,
                    NEW a \in talk'[p].held, NEW b \in talk'[r].held, Talk!Conflicts(a, b)
             PROVE  FALSE
  BY DEF TalkExcludes, Talk!Conflicts
<1>1. \A x \in Processes : x # q => \A want \in Talk!Wants(q), held \in talk[x].held :
        ~Talk!Conflicts(want, held)
  BY DEF Talk!BlockedBy
<1>2. Talk!Conflicts(b, a) BY DEF Talk!Conflicts
<1>3. CASE p = q BY <1>1, <1>3 DEF TalkExcludes
<1>4. CASE r = q BY <1>1, <1>2, <1>4 DEF TalkExcludes
<1>5. CASE p # q /\ r # q BY <1>5 DEF TalkExcludes
<1> QED BY <1>3, <1>4, <1>5

\* What holds its locks stands while others act.
LEMMA StandsUndisturbed ==
  ASSUME NEW q \in Processes, talk'[q] = talk[q], Spoken(talk[q].cmd), talk[q].cmd \in Demands,
         Stands(talk[q]),
         Talk!Lock("workspace", "shared") \in talk[q].held =>
           standing' = standing /\ state' = state,
         {Talk!Lock("workspace", "shared"), Talk!Lock("project", "shared")}
           \subseteq talk[q].held => home'.project = home.project
  PROVE  Stands(talk[q])'
<1> DEFINE c == talk[q].cmd
<1>1. talk[q].todo \in Decided => talk[q].todo \in Behind(c)
  BY DemandParts DEF Decided, Behind
<1>2. talk[q].todo \in Decided => standing' = standing /\ state' = state BY <1>1 DEF Stands
<1>3. talk[q].todo \in Decided => (Talk!MayDo(c)' <=> Talk!MayDo(c))
  BY <1>2 DEF Talk!MayDo, Talk!May, Talk!Member, Talk!Action, Talk!RelationTo
<1>4. talk[q].todo \in Decided => Talk!MayDo(c)' BY <1>3 DEF Stands
<1>5. talk[q].todo \in Decided /\ c.on = "project" => home'.project = home.project
  BY <1>1 DEF Stands
<1>6. Talk!Lock("project", "shared")' = Talk!Lock("project", "shared")
      /\ Talk!Lock("workspace", "shared")' = Talk!Lock("workspace", "shared")
  BY DEF Talk!Lock
<1> QED BY <1>4, <1>5, <1>6 DEF Stands, IsForAuthor

\* Begin, refusals and rollbacks hold nothing; a statement that goes on takes its locks.
LEMMA BecomesEffect ==
  ASSUME TalkTypes, NEW q \in Processes, NEW t \in TalkFields, Talk!Becomes(q, t)
  PROVE  /\ talk' \in [Processes -> TalkFields] /\ talk'[q] = t
         /\ \A r \in Processes : r # q => talk'[r] = talk[r]
BY DEF TalkTypes, TalkFields, Talk!Becomes

LEMMA IdleFields ==
  \A answer \in {"none", "refused", "done", "lost"} : Talk!Idle(answer) \in TalkFields
BY DEF TalkFields, Talk!Idle, Commands, Todos

\* The statement goes on, with its locks.
Gone(q) == [cmd |-> talk[q].cmd, todo |-> Tail(talk[q].todo),
            held |-> talk[q].held \cup Talk!Wants(q), answer |-> talk[q].answer]
LEMMA Changed ==
  ASSUME NEW t \in TalkFields, NEW todo \in Todos, NEW more \in SUBSET Locks
  PROVE  [t EXCEPT !.todo = todo, !.held = more] =
           [cmd |-> t.cmd, todo |-> todo, held |-> more, answer |-> t.answer]
<1>1. PICK u : u = [t EXCEPT !.todo = todo] OBVIOUS
<1>2. u = [cmd |-> t.cmd, todo |-> todo, held |-> t.held, answer |-> t.answer]
  BY <1>1 DEF TalkFields
<1>3. [u EXCEPT !.held = more] = [cmd |-> t.cmd, todo |-> todo, held |-> more, answer |-> t.answer]
  BY <1>2
<1> QED BY <1>1, <1>3, Zenon
LEMMA GoesEffect ==
  ASSUME TalkInv, NEW q \in Processes, Tail(talk[q].todo) \in UNION {Stages(c) : c \in Demands},
         Talk!Goes(q)
  PROVE  /\ talk' \in [Processes -> TalkFields] /\ talk'[q] = Gone(q)
         /\ \A r \in Processes : r # q => talk'[r] = talk[r]
<1>1. talk[q] \in TalkFields BY DEF TalkInv, TalkTypes
<1>0. Tail(talk[q].todo) \in Todos /\ talk[q].held \cup Talk!Wants(q) \in SUBSET Locks
  BY <1>1, WantsLocks DEF Todos, TalkFields
<1>2. Gone(q) \in TalkFields BY <1>0, <1>1 DEF TalkFields, Gone
<1>3. [talk[q] EXCEPT !.todo = Tail(@), !.held = @ \cup Talk!Wants(q)] = Gone(q)
  BY <1>0, <1>1, Changed, Zenon DEF Gone
<1>4. Talk!Becomes(q, Gone(q)) BY <1>3 DEF Talk!Goes
<1> QED BY <1>2, <1>4, BecomesEffect DEF TalkInv

-------------------------------------------------------------------------------
(* Every step keeps the invariant.                                           *)

\* The step changes nothing that a transaction protects by its locks.
Undisturbed(t) ==
  /\ Talk!Lock("workspace", "shared") \in t.held => standing' = standing /\ state' = state
  /\ {Talk!Lock("workspace", "shared"), Talk!Lock("project", "shared")} \subseteq t.held =>
       home'.project = home.project
Places == [{"item", "project"} -> {"active", "archived", "gone"}]

LEMMA StepKeeps ==
  ASSUME TalkInv, NEW q \in Processes,
         talk' \in [Processes -> TalkFields], \A r \in Processes : r # q => talk'[r] = talk[r],
         TalkExcludes', home' \in Places, home'.item # "archived",
         \A r \in Processes : r # q => Undisturbed(talk[r]),
         Spoken(talk'[q].cmd) => Stands(talk[q])',
         talk'[q].cmd.op = "destroy" => Destroys(talk[q])'
  PROVE  TalkInv'
<1>1. TalkTypes' BY DEF TalkTypes, Places
<1>2. ASSUME NEW r \in Processes, Spoken(talk'[r].cmd), r # q PROVE Stands(talk[r])'
  <2>1. talk[r].cmd \in Demands BY <1>2, Running DEF TalkInv, Spoken
  <2>2. Stands(talk[r]) BY <1>2 DEF TalkInv
  <2> QED BY <1>2, <2>1, <2>2, StandsUndisturbed DEF Undisturbed
<1>3. ASSUME NEW r \in Processes, talk'[r].cmd.op = "destroy", r # q PROVE Destroys(talk[r])'
  BY <1>3 DEF TalkInv, Destroys, Talk!Lock
<1> QED BY <1>1, <1>2, <1>3 DEF TalkInv, Spoken

\* Whoever is answered, or begins, holds nothing.
LEMMA LetsGo ==
  ASSUME TalkExcludes, NEW q \in Processes, talk'[q].held = {},
         \A r \in Processes : r # q => talk'[r] = talk[r]
  PROVE  TalkExcludes'
BY DEF TalkExcludes, Talk!Conflicts

LEMMA AnswerKeeps ==
  ASSUME TalkInv, NEW q \in Processes, NEW answer \in {"refused", "done", "lost"},
         Talk!Becomes(q, Talk!Idle(answer)), home' \in Places, home'.item # "archived",
         \A r \in Processes : r # q => Undisturbed(talk[r])
  PROVE  TalkInv'
<1>1. Talk!Idle(answer) \in TalkFields BY IdleFields
<1>2. /\ talk' \in [Processes -> TalkFields] /\ talk'[q] = Talk!Idle(answer)
      /\ \A r \in Processes : r # q => talk'[r] = talk[r]
  BY <1>1, BecomesEffect DEF TalkInv
<1>3. talk'[q].cmd.op = "none" /\ talk'[q].held = {} BY <1>2 DEF Talk!Idle
<1>4. TalkExcludes' BY <1>2, <1>3, LetsGo DEF TalkInv
<1> QED BY <1>2, <1>3, <1>4, StepKeeps DEF Spoken

\* A transaction goes on, deciding behind its locks.
LEMMA GoesKeeps ==
  ASSUME TalkInv, NEW q \in Processes, Talk!Busy(q), \A r \in Processes : ~Talk!BlockedBy(q, r),
         Talk!Now(q) \in {"look", "check", "root", "project", "message"},
         Talk!Goes(q), UNCHANGED <<standing, state, home>>,
         Talk!Now(q) = "look" => IsForAuthor(talk[q].cmd),
         Talk!Now(q) = "root" /\ Spoken(talk[q].cmd) /\ talk[q].cmd.on = "item" =>
           Talk!MayDo(talk[q].cmd),
         Talk!Now(q) = "project" => Talk!MayDo(talk[q].cmd) /\ home.project = "active"
  PROVE  TalkInv'
<1> DEFINE c == talk[q].cmd
<1>1. c \in Demands BY Running DEF Talk!Busy, TalkInv
<1>2. Spoken(c) => /\ Tail(talk[q].todo) \in Stages(c) /\ Head(Tail(talk[q].todo)) # "look"
                   /\ Tail(talk[q].todo) \in Behind(c) =>
                        talk[q].todo \in Behind(c) \/ Talk!Now(q) = "root"
                   /\ Tail(talk[q].todo) \in Decided /\ talk[q].todo \notin Decided =>
                        IF c.on = "item" THEN Talk!Now(q) = "root" ELSE Talk!Now(q) = "project"
  <2> SUFFICES ASSUME Spoken(c) PROVE <1>2!2 OBVIOUS
  <2>1. talk[q].todo \in Stages(c) BY DEF TalkInv, Stands
  <2> QED BY <1>1, <2>1, Onward DEF Talk!Now
<1>3. c.op = "destroy" => Talk!Now(q) = "root" /\ Tail(talk[q].todo) = <<"cascade">>
  BY NowOfDestroy DEF TalkInv
<1>4. Tail(talk[q].todo) \in Stages(c)
  <2>1. c.op = "destroy" => <<"cascade">> \in Stages(c) BY DEF Stages
  <2> QED BY <1>1, <1>2, <1>3, <2>1, DemandParts
<1>5. /\ talk' \in [Processes -> TalkFields] /\ talk'[q] = Gone(q)
      /\ \A r \in Processes : r # q => talk'[r] = talk[r]
  BY <1>1, <1>4, GoesEffect
<1>6. /\ talk'[q].cmd = c /\ talk'[q].todo = Tail(talk[q].todo)
      /\ talk'[q].held = talk[q].held \cup Talk!Wants(q) /\ talk'[q].answer = talk[q].answer
  BY <1>5 DEF Gone
<1>7. TalkExcludes' BY <1>5, <1>6, LocksKept DEF TalkInv
<1>8. home' \in Places /\ home'.item # "archived" BY DEF TalkInv, TalkTypes, Places
<1>9. \A r \in Processes : Undisturbed(talk[r]) BY DEF Undisturbed
<1>10. c.op = "destroy" => Destroys(talk[q])'
  <2> SUFFICES ASSUME c.op = "destroy" PROVE Destroys(talk[q])' OBVIOUS
  <2>1. Talk!Lock("workspace", "update") \in Talk!Wants(q)
    BY <1>3 DEF Talk!Wants
  <2>2. <<"cascade">> \in Stages(c) BY DEF Stages
  <2> QED BY <1>3, <1>6, <2>1, <2>2 DEF Destroys, Talk!Lock
<1>11. ASSUME Spoken(c) PROVE Stands(talk[q])'
  <2>0. Stands(talk[q]) BY <1>11 DEF TalkInv
  <2>1. Talk!Now(q) = "root" => Talk!Lock("workspace", "shared") \in Talk!Wants(q)
    BY <1>11 DEF Talk!Wants, Spoken
  <2>2. Talk!Now(q) = "project" => Talk!Lock("project", "shared") \in Talk!Wants(q)
    BY DEF Talk!Wants
  <2>3. IsForAuthor(c) BY <2>0 DEF Stands, Talk!Now
  <2>4. Talk!MayDo(c)' <=> Talk!MayDo(c)
    BY <1>6 DEF Talk!MayDo, Talk!May, Talk!Member, Talk!Action, Talk!RelationTo
  <2>5. Tail(talk[q].todo) \in Behind(c) => Talk!Lock("workspace", "shared") \in talk'[q].held
    BY <1>2, <1>6, <1>11, <2>0, <2>1 DEF Stands
  <2>6. Tail(talk[q].todo) \in Decided => Talk!MayDo(c)
    BY <1>2, <1>11, <2>0 DEF Stands
  <2>7. Tail(talk[q].todo) \in Decided /\ c.on = "project" =>
          Talk!Lock("project", "shared") \in talk'[q].held /\ home.project = "active"
    BY <1>2, <1>6, <1>11, <2>0, <2>2 DEF Stands
  <2>8. IsForAuthor(c)' BY <1>6, <2>3 DEF IsForAuthor
  <2> QED BY <1>2, <1>6, <1>11, <2>0, <2>4, <2>5, <2>6, <2>7, <2>8 DEF Stands, Talk!Lock
<1> QED BY <1>5, <1>6, <1>7, <1>8, <1>9, <1>10, <1>11, StepKeeps DEF Spoken

LEMMA StatementsKeep ==
  ASSUME TalkInv, NEW q \in Processes,
         \/ Talk!Look(q) \/ Talk!Check(q) \/ Talk!Root(q) \/ Talk!Project(q)
         \/ Talk!LockMessage(q)
  PROVE  TalkInv'
<1> DEFINE c == talk[q].cmd
<1>1. Talk!Busy(q) /\ \A r \in Processes : ~Talk!BlockedBy(q, r)
  BY DEF Talk!Look, Talk!Check, Talk!Root, Talk!Project, Talk!LockMessage, Talk!Ready
<1>2. UNCHANGED <<standing, state, home>>
  BY DEF Talk!Look, Talk!Check, Talk!Root, Talk!Project, Talk!LockMessage, Talk!Only, Talk!facts
<1>3. Talk!Goes(q) \/ Talk!Refuse(q)
  BY DEF Talk!Look, Talk!Check, Talk!Root, Talk!Project, Talk!LockMessage, Talk!Only
<1>4. CASE Talk!Refuse(q)
  <2>1. home' \in Places /\ home'.item # "archived" BY <1>2 DEF TalkInv, TalkTypes, Places
  <2>2. \A r \in Processes : Undisturbed(talk[r]) BY <1>2 DEF Undisturbed
  <2> QED BY <1>4, <2>1, <2>2, AnswerKeeps DEF Talk!Refuse
<1>5. CASE Talk!Goes(q) /\ ~Talk!Refuse(q)
  <2>1. Talk!Now(q) \in {"look", "check", "root", "project", "message"}
    BY DEF Talk!Look, Talk!Check, Talk!Root, Talk!Project, Talk!LockMessage, Talk!Ready
  <2>2. Talk!Now(q) = "look" => IsForAuthor(c)
    <3> SUFFICES ASSUME Talk!Now(q) = "look" PROVE IsForAuthor(c) OBVIOUS
    <3>1. Talk!Look(q)
      BY DEF Talk!Look, Talk!Check, Talk!Root, Talk!Project, Talk!LockMessage, Talk!Ready
    <3>2. (c.op = "delete") <=> (Topic[c.message].by = c.by)
      BY <1>5, <3>1 DEF Talk!Look, Talk!Only
    <3>3. c.op # "destroy" BY NowOfDestroy DEF TalkInv
    <3>4. c \in Demands BY <1>1, Running DEF Talk!Busy, TalkInv
    <3>5. Spoken(c) BY <3>3, <3>4, DemandParts
    <3>6. c.op # "add" BY <3>4, <3>5, Onward DEF TalkInv, Stands, Talk!Now
    <3> QED BY <3>2, <3>5, <3>6 DEF IsForAuthor, Spoken
  <2>3. Talk!Now(q) = "root" /\ Spoken(c) /\ c.on = "item" => Talk!MayDo(c)
    <3> SUFFICES ASSUME Talk!Now(q) = "root", Spoken(c), c.on = "item" PROVE Talk!MayDo(c)
      OBVIOUS
    <3>1. Talk!Root(q)
      BY DEF Talk!Look, Talk!Check, Talk!Root, Talk!Project, Talk!LockMessage, Talk!Ready
    <3> QED BY <1>5, <3>1 DEF Talk!Root, Talk!Only, Talk!AllowedAtRoot, Spoken
  <2>4. Talk!Now(q) = "project" => Talk!MayDo(c) /\ home.project = "active"
    <3> SUFFICES ASSUME Talk!Now(q) = "project" PROVE Talk!MayDo(c) /\ home.project = "active"
      OBVIOUS
    <3>1. Talk!Project(q)
      BY DEF Talk!Look, Talk!Check, Talk!Root, Talk!Project, Talk!LockMessage, Talk!Ready
    <3> QED BY <1>5, <3>1 DEF Talk!Project, Talk!Only
  <2> QED BY <1>1, <1>2, <1>5, <2>1, <2>2, <2>3, <2>4, GoesKeeps
<1> QED BY <1>3, <1>4, <1>5

\* Who deletes the Workspace holds its root alone.
LEMMA CascadeAlone ==
  ASSUME TalkInv, NEW q \in Processes, Talk!Cascade(q), NEW r \in Processes, r # q
  PROVE  Talk!Lock("workspace", "shared") \notin talk[r].held
<1>1. talk[q].cmd.op # "none" /\ Talk!Now(q) = "cascade"
  BY DEF Talk!Cascade, Talk!Ready, Talk!Busy
<1>2. talk[q].cmd \in Demands BY <1>1, Running DEF TalkInv
<1>3. ~Spoken(talk[q].cmd) BY <1>1, <1>2, Onward DEF TalkInv, Stands, Talk!Now
<1>4. talk[q].cmd.op = "destroy" BY <1>2, <1>3, DemandParts
<1>5. Talk!Lock("workspace", "update") \in talk[q].held
  BY <1>1, <1>4, NowOfDestroy DEF TalkInv, Destroys
<1>6. Talk!Conflicts(Talk!Lock("workspace", "update"), Talk!Lock("workspace", "shared"))
  BY DEF Talk!Conflicts, Talk!Lock
<1> QED BY <1>5, <1>6 DEF TalkInv, TalkExcludes

LEMMA EndsKeep ==
  ASSUME TalkInv, NEW q \in Processes,
         Talk!Insert(q) \/ Talk!Erase(q) \/ Talk!Cascade(q) \/ Talk!Rollback(q)
  PROVE  TalkInv'
<1>1. \E answer \in {"refused", "done", "lost"} : Talk!Becomes(q, Talk!Idle(answer))
  BY DEF Talk!Insert, Talk!Erase, Talk!Cascade, Talk!Rollback, Talk!Refuse
<1>2. CASE Talk!Insert(q) \/ Talk!Erase(q) \/ Talk!Rollback(q)
  <2>1. UNCHANGED <<standing, state, home>>
    BY <1>2 DEF Talk!Insert, Talk!Erase, Talk!Rollback, Talk!facts
  <2>2. home' \in Places /\ home'.item # "archived" BY <2>1 DEF TalkInv, TalkTypes, Places
  <2>3. \A r \in Processes : Undisturbed(talk[r]) BY <2>1 DEF Undisturbed
  <2> QED BY <1>1, <2>2, <2>3, AnswerKeeps
<1>3. CASE Talk!Cascade(q)
  <2>1. home' = [home EXCEPT !.item = "gone", !.project = "gone"] BY <1>3 DEF Talk!Cascade
  <2>2. home \in Places BY DEF TalkInv, TalkTypes, Places
  <2>3. home' \in Places /\ home'.item # "archived" BY <2>1, <2>2 DEF Places
  <2>4. \A r \in Processes : r # q => Undisturbed(talk[r])
    BY <1>3, CascadeAlone DEF Undisturbed
  <2> QED BY <1>1, <2>3, <2>4, AnswerKeeps
<1> QED BY <1>2, <1>3

\* The first statement of a command decides nothing yet.
LEMMA PlanStages ==
  ASSUME NEW c \in Demands
  PROVE  /\ Talk!Plan(c) \in Stages(c) /\ Talk!Plan(c) # <<"cascade">>
         /\ Spoken(c) => /\ Talk!Plan(c) \notin Behind(c) /\ Talk!Plan(c) \notin Decided
                         /\ c.op # "add" => Head(Talk!Plan(c)) = "look"
<1>1. CASE c.op = "destroy" BY <1>1 DEF Talk!Plan, Stages, Spoken
<1>2. CASE c.op = "add" BY <1>2 DEF Talk!Plan, Stages, Behind, Decided
<1>3. CASE c.op = "delete" BY <1>3, Listed DEF Talk!Plan, Stages, Behind, Decided
<1>4. CASE c.op = "moderate" BY <1>4, Listed DEF Talk!Plan, Stages, Behind, Decided
<1> QED BY <1>1, <1>2, <1>3, <1>4, DemandParts DEF Spoken

LEMMA Opened ==
  ASSUME NEW c \in Demands, NEW todo \in Todos
  PROVE  [Talk!Idle("none") EXCEPT !.cmd = c, !.todo = todo] =
           [cmd |-> c, todo |-> todo, held |-> {}, answer |-> "none"]
<1>1. PICK idle \in TalkFields : idle = Talk!Idle("none") BY IdleFields
<1>2. PICK u : u = [idle EXCEPT !.cmd = c] OBVIOUS
<1>3. idle.held = {} /\ idle.answer = "none" BY <1>1 DEF Talk!Idle
<1>4. u \in TalkFields /\ u.cmd = c /\ u.held = {} /\ u.answer = "none"
  BY <1>2, <1>3 DEF TalkFields, Commands
<1>5. [u EXCEPT !.todo = todo] = [cmd |-> c, todo |-> todo, held |-> {}, answer |-> "none"]
  BY <1>4 DEF TalkFields
<1> QED BY <1>1, <1>2, <1>5, Zenon

LEMMA BeginKeeps ==
  ASSUME TalkInv, NEW q \in Processes, NEW c \in Demands, Talk!Begin(q, c)
  PROVE  TalkInv'
<1> DEFINE t == [cmd |-> c, todo |-> Talk!Plan(c), held |-> {}, answer |-> "none"]
<1>1. t \in TalkFields BY PlanStages DEF TalkFields, Todos, Commands
<1>0. Talk!Plan(c) \in Todos BY PlanStages DEF Todos
<1>2. Talk!Becomes(q, t) BY <1>0, Opened, Zenon DEF Talk!Begin
<1>3. /\ talk' \in [Processes -> TalkFields] /\ talk'[q] = t
      /\ \A r \in Processes : r # q => talk'[r] = talk[r]
  BY <1>1, <1>2, BecomesEffect DEF TalkInv
<1>4. /\ talk'[q].cmd = c /\ talk'[q].todo = Talk!Plan(c)
      /\ talk'[q].held = {} /\ talk'[q].answer = "none"
  BY <1>3
<1>5. TalkExcludes' BY <1>3, <1>4, LetsGo DEF TalkInv
<1>6. UNCHANGED <<standing, state, home>> BY DEF Talk!Begin, Talk!facts
<1>7. home' \in Places /\ home'.item # "archived" BY <1>6 DEF TalkInv, TalkTypes, Places
<1>8. \A r \in Processes : Undisturbed(talk[r]) BY <1>6 DEF Undisturbed
<1>9. Spoken(c) => Stands(talk[q])'
  <2>1. c.op = "add" => IsForAuthor(c) BY DemandParts DEF IsForAuthor
  <2> QED BY <1>4, <2>1, PlanStages DEF Stands, IsForAuthor, Spoken
<1>10. c.op = "destroy" => Destroys(talk[q])' BY <1>4, PlanStages DEF Destroys
<1> HIDE DEF t
<1> QED BY <1>3, <1>4, <1>5, <1>7, <1>8, <1>9, <1>10, StepKeeps DEF Spoken

\* Commands of other modules wait for the locks they find.
LEMMA MovesKeep == ASSUME TalkInv, Talk!Move PROVE TalkInv'
<1> USE DEF Talk!Move
<1>1. talk' = talk BY DEF Talk!Moves
<1>2. \A r \in Processes : Talk!Free("workspace", "update") =>
        Talk!Lock("workspace", "shared") \notin talk[r].held
  BY DEF Talk!Free, Talk!Conflicts, Talk!Lock
<1>3. \A r \in Processes : Talk!Free("project", "update") =>
        Talk!Lock("project", "shared") \notin talk[r].held
  BY DEF Talk!Free, Talk!Conflicts, Talk!Lock
<1>4. home \in Places /\ home.item # "archived" BY DEF TalkInv, TalkTypes, Places
<1>5. /\ home' \in Places /\ home'.item # "archived"
      /\ \A r \in Processes : Undisturbed(talk[r])
  <2>1. CASE Talk!SetStanding \/ Talk!SetState
    BY <1>2, <1>4, <2>1 DEF Talk!SetStanding, Talk!SetState, Undisturbed
  <2>2. CASE Talk!SetProject
    <3>1. home' = [home EXCEPT !.project = IF @ = "active" THEN "archived" ELSE "active"]
      BY <2>2 DEF Talk!SetProject
    <3> QED BY <1>3, <1>4, <2>2, <3>1 DEF Talk!SetProject, Undisturbed, Places
  <2>3. CASE Talk!Part BY <1>4, <2>3 DEF Talk!Part, Undisturbed
  <2>4. CASE Talk!DeleteHome
    <3>1. PICK on \in {"item", "project"} :
            Talk!Free(on, "update") /\ home' = [home EXCEPT ![on] = "gone"]
      BY <2>4 DEF Talk!DeleteHome
    <3>2. UNCHANGED <<standing, state>> BY <2>4 DEF Talk!DeleteHome
    <3>3. home' \in Places /\ home'.item # "archived" BY <1>4, <3>1 DEF Places
    <3>4. on = "item" => home'.project = home.project BY <1>4, <3>1 DEF Places
    <3> QED BY <1>3, <3>1, <3>2, <3>3, <3>4 DEF Undisturbed
  <2> QED BY <2>1, <2>2, <2>3, <2>4
<1>6. TalkTypes' BY <1>1, <1>5 DEF TalkInv, TalkTypes, Places
<1>7. TalkExcludes' BY <1>1 DEF TalkInv, TalkExcludes, Talk!Conflicts
<1>8. ASSUME NEW r \in Processes, Spoken(talk'[r].cmd) PROVE Stands(talk[r])'
  <2>1. talk[r].cmd \in Demands BY <1>1, <1>8, Running DEF TalkInv, Spoken
  <2>2. Stands(talk[r]) BY <1>1, <1>8 DEF TalkInv
  <2> QED BY <1>1, <1>5, <1>8, <2>1, <2>2, StandsUndisturbed DEF Undisturbed
<1>9. ASSUME NEW r \in Processes, talk'[r].cmd.op = "destroy" PROVE Destroys(talk[r])'
  BY <1>1, <1>9 DEF TalkInv, Destroys, Talk!Lock
<1> QED BY <1>6, <1>7, <1>8, <1>9 DEF TalkInv, Spoken

LEMMA TalkUnchanged == ASSUME TalkInv, UNCHANGED Talk!vars PROVE TalkInv'
<1>1. UNCHANGED <<standing, state, home, talk>> BY DEF Talk!vars, Talk!facts
<1>2. TalkTypes' BY <1>1 DEF TalkInv, TalkTypes, Places
<1>3. TalkExcludes' BY <1>1 DEF TalkInv, TalkExcludes, Talk!Conflicts
<1>4. ASSUME NEW r \in Processes, Spoken(talk'[r].cmd) PROVE Stands(talk[r])'
  <2>1. talk[r].cmd \in Demands BY <1>1, <1>4, Running DEF TalkInv, Spoken
  <2>2. Stands(talk[r]) BY <1>1, <1>4 DEF TalkInv
  <2> QED BY <1>1, <1>4, <2>1, <2>2, StandsUndisturbed DEF Undisturbed
<1>5. ASSUME NEW r \in Processes, talk'[r].cmd.op = "destroy" PROVE Destroys(talk[r])'
  BY <1>1, <1>5 DEF TalkInv, Destroys, Talk!Lock
<1> QED BY <1>2, <1>3, <1>4, <1>5 DEF TalkInv, Spoken

LEMMA InitTalk == Talk!Init => TalkInv
<1> SUFFICES ASSUME Talk!Init PROVE TalkInv OBVIOUS
<1>1. talk \in [Processes -> TalkFields] BY IdleFields DEF Talk!Init
<1>2. \A q \in Processes : talk[q].cmd.op = "none" /\ talk[q].held = {}
  BY DEF Talk!Init, Talk!Idle
<1>3. home \in Places /\ home.item # "archived" BY DEF Talk!Init, Places
<1> QED BY <1>1, <1>2, <1>3 DEF TalkInv, TalkTypes, TalkExcludes, Places, Spoken

LEMMA NextTalk == TalkInv /\ [Talk!Next]_(Talk!vars) => TalkInv'
<1> SUFFICES ASSUME TalkInv, [Talk!Next]_(Talk!vars) PROVE TalkInv' OBVIOUS
<1>1. CASE UNCHANGED Talk!vars BY <1>1, TalkUnchanged
<1>2. CASE Talk!Next
  <2>1. ASSUME NEW q \in Processes, Talk!Statement(q) PROVE TalkInv'
    BY <2>1, StatementsKeep, EndsKeep DEF Talk!Statement
  <2>2. ASSUME NEW q \in Processes, Talk!Rollback(q) PROVE TalkInv' BY <2>2, EndsKeep
  <2>3. ASSUME NEW q \in Processes, NEW c \in Demands, Talk!Begin(q, c) PROVE TalkInv'
    BY <2>3, BeginKeeps
  <2>4. CASE Talk!Move BY <2>4, MovesKeep
  <2>5. CASE Talk!Finished BY <2>5, TalkUnchanged DEF Talk!Finished
  <2> QED BY <1>2, <2>1, <2>2, <2>3, <2>4, <2>5 DEF Talk!Next
<1> QED BY <1>1, <1>2

\* Only the last statement of a command answers that it is done.
LEMMA DoneLast ==
  ASSUME TalkInv, Talk!Next, NEW q \in Processes, Spoken(talk[q].cmd),
         talk'[q].answer = "done"
  PROVE  (Talk!Insert(q) /\ home[talk[q].cmd.on] # "gone") \/ Talk!Erase(q)
<1>1. talk[q].cmd \in Demands /\ talk[q].cmd.op # "none" BY Running DEF TalkInv, Spoken
<1>2. Stands(talk[q]) /\ talk[q].answer # "done" BY DEF TalkInv, Stands
<1>3. \A r \in Processes : \A t : Talk!Becomes(r, t) => talk'[q] = IF q = r THEN t ELSE talk[q]
  BY DEF TalkInv, TalkTypes, Talk!Becomes
<1>4. \A answer : Talk!Idle(answer).answer = answer BY DEF Talk!Idle
<1>5. \A r \in Processes : ~Talk!Refuse(r) /\ ~Talk!Rollback(r)
  BY <1>2, <1>3, <1>4 DEF Talk!Refuse, Talk!Rollback
<1>6. \A r \in Processes : Talk!Goes(r) => talk'[q].answer = talk[q].answer
  <2> SUFFICES ASSUME NEW r \in Processes, Talk!Goes(r) PROVE talk'[q].answer = talk[q].answer
    OBVIOUS
  <2> DEFINE t == [talk[r] EXCEPT !.todo = Tail(@), !.held = @ \cup Talk!Wants(r)]
  <2>1. t.answer = talk[r].answer BY Zenon DEF TalkInv, TalkTypes, TalkFields
  <2> QED BY <1>3, <2>1 DEF Talk!Goes
<1>7. ~Talk!Move /\ ~Talk!Finished
  BY <1>2 DEF Talk!Move, Talk!Moves, Talk!Finished, Talk!vars
<1>8. \A r \in Processes, c \in Demands : ~Talk!Begin(r, c)
  <2> SUFFICES ASSUME NEW r \in Processes, NEW c \in Demands, Talk!Begin(r, c) PROVE FALSE
    OBVIOUS
  <2>1. Talk!Plan(c) \in Todos BY PlanStages DEF Todos
  <2>2. Talk!Becomes(r, [cmd |-> c, todo |-> Talk!Plan(c), held |-> {}, answer |-> "none"])
    BY <2>1, Opened, Zenon DEF Talk!Begin
  <2> QED BY <1>2, <1>3, <2>2
<1>9. \A r \in Processes : Talk!Statement(r) => Talk!Insert(r) \/ Talk!Erase(r) \/ Talk!Cascade(r)
  BY <1>2, <1>5, <1>6
     DEF Talk!Statement, Talk!Look, Talk!Check, Talk!Root, Talk!Project, Talk!LockMessage, Talk!Only
<1>10. PICK r \in Processes : Talk!Insert(r) \/ Talk!Erase(r) \/ Talk!Cascade(r)
  BY <1>5, <1>7, <1>8, <1>9 DEF Talk!Next
<1>11. r = q
  BY <1>2, <1>3, <1>5, <1>10 DEF Talk!Insert, Talk!Erase, Talk!Cascade
<1>12. ~Talk!Cascade(q)
  BY <1>1, <1>2, Onward DEF Talk!Cascade, Talk!Ready, Talk!Now, Stands
<1> QED BY <1>5, <1>10, <1>11, <1>12 DEF Talk!Insert

\* A message is written or removed only by somebody who may do it as the role, the
\* Workspace and the Project stand at the commit, however many processes, accounts
\* and messages there are.
THEOREM MessagesUnderAuthority == Talk!Spec => SpokenWithAuthority
<1> DEFINE Spoke(q) == LET c == talk[q].cmd IN
             c.op \in {"add", "delete", "moderate"} /\ talk'[q].answer = "done" =>
               /\ Talk!MayDo(c) /\ (c.on = "project" => home.project = "active")
               /\ (c.op = "moderate") <=> (Topic[c.message].by # c.by)
               /\ c.op = "add" => home[c.on] = "active"
<1>1. ASSUME TalkInv, Talk!Next, NEW q \in Processes PROVE Spoke(q)
  <2> DEFINE c == talk[q].cmd
  <2> SUFFICES ASSUME Spoken(c), talk'[q].answer = "done"
               PROVE  /\ Talk!MayDo(c) /\ (c.on = "project" => home.project = "active")
                      /\ IsForAuthor(c)
                      /\ c.op = "add" => home[c.on] = "active"
    BY DEF Spoken, IsForAuthor
  <2>1. c \in Demands BY <1>1, Running DEF TalkInv, Spoken
  <2>2. Stands(talk[q]) BY <1>1 DEF TalkInv
  <2>3. (Talk!Insert(q) /\ home[c.on] # "gone") \/ Talk!Erase(q) BY <1>1, DoneLast
  <2>4. Talk!Now(q) \in {"insert", "erase"}
    BY <2>3 DEF Talk!Insert, Talk!Erase, Talk!Ready
  <2>5. talk[q].todo \in Decided BY <2>1, <2>2, <2>4, Onward DEF Stands, Talk!Now
  <2>6. c.op = "add" => home[c.on] # "gone"
    BY <2>1, <2>2, <2>3, Onward DEF Talk!Erase, Talk!Ready, Stands, Talk!Now
  <2>7. c.on \in {"item", "project"} BY <2>1, DemandParts
  <2>8. c.op = "add" => home[c.on] = "active"
    BY <1>1, <2>2, <2>5, <2>6, <2>7 DEF TalkInv, TalkTypes, Stands
  <2> QED BY <2>2, <2>4, <2>5, <2>8 DEF Stands, Talk!Now
<1>2. TalkInv /\ [Talk!Next]_(Talk!vars) => [\A q \in Processes : Spoke(q)]_(Talk!vars)
  BY <1>1
<1> QED BY <1>2, InitTalk, NextTalk, PTL DEF Talk!Spec, SpokenWithAuthority, Talk!SpokenWithAuthority
================================================================================
