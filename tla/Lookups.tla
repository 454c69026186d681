------------------------------- MODULE Lookups -------------------------------
(***************************************************************************)
(* Looking up the metadata of several sources: the identifiers a user      *)
(* enters, in one call, or the PDFs of an import, one call per provider    *)
(* and attempt (library/workflows.py, library/imports.py).  A call         *)
(* (inquiro's runtime.py) asks a provider that answers in batches once for *)
(* all its identifiers, splits a batch whose answer is too large, and asks *)
(* the others one by one, a few requests at a time.                        *)
(*                                                                         *)
(* Providers answer what they like: too much, too little, twice, in any    *)
(* order, or not at all.  Delays are in units of the first retry's.        *)
(***************************************************************************)
EXTENDS Integers, Sequences, FiniteSets, FiniteSetsExt

CONSTANTS Key,         \* per position: provider ("none" if unparsable), paper and
                       \* version of its identifier, 0 where it names none
          Batched,     \* providers with a batch_lookup_adapter
          Editions,    \* versions a provider may hold
          Permits,     \* requests at a time
          MaxAttempts, \* _PDF_LOOKUP_ATTEMPTS
          MaxWait,     \* _PDF_LOOKUP_WAIT_BUDGET_SECONDS
          RetryAfter,  \* retry_after_seconds, 0 where the provider gives none
          MaxLosses    \* bound: crashes during a call

\* Outcomes name their kind, or the paper of a record, which is none of these.
Kinds == {"none", "unavailable", "not_found", "invalid_request", "discarded"}
KeyAssumption ==
  /\ IsFiniteSet(DOMAIN Key) /\ DOMAIN Key \subseteq Nat
  /\ \A p \in DOMAIN Key : Key[p].version \in Nat /\ Key[p].paper \notin Kinds
BoundsAssumption ==
  /\ Permits \in Nat \ {0} /\ MaxAttempts \in Nat \ {0} /\ MaxWait \in Nat
  /\ RetryAfter \subseteq Nat

VARIABLES pdfs,      \* an import, rather than a user's identifiers
          groups,    \* positions still to be looked up, one set per call
          remaining, \* positions of this attempt
          attempt, budget,
          calling,   \* a call of lookup_many is under way
          tasks,     \* per task of the call: requests to send, and whether it waits
          outcome,   \* of the running call
          result,    \* kept for each source
          discarded, \* the batch is no longer pending, or its actor is inactive
          losses

vars == <<pdfs, groups, remaining, attempt, budget, calling, tasks, outcome, result,
          discarded, losses>>
Positions == DOMAIN Key
Providers == {Key[p].provider : p \in Positions}

Outcome(kind) == [kind |-> kind, version |-> 0, wait |-> 0]
Limited(wait) == [kind |-> "unavailable", version |-> 0, wait |-> wait]
Record(paper, version) == [kind |-> paper, version |-> version, wait |-> 0]
Papers == {Key[p].paper : p \in Positions}
Nothing == [p \in Positions |-> Outcome("none")]
NoTasks == [p \in Positions |-> [todo |-> <<>>, asking |-> FALSE]]

-------------------------------------------------------------------------------
(* Splitting a batch, and finding each identifier's record in an answer. *)

\* The first position of every key asked for.
Firsts(asked) == {p \in asked : \A q \in asked : Key[q] = Key[p] => p <= q}
\* Mutant: the lower half of the positions, rather than of the keys.
LowerPositions(asked) == {p \in asked :
  Cardinality({q \in asked : q < p}) < Cardinality(asked) \div 2}
\* Every position of a key stays with it.
LowerHalf(asked) == {p \in asked : \E f \in Firsts(asked) :
  /\ Key[f] = Key[p]
  /\ Cardinality({q \in Firsts(asked) : q < f}) < Cardinality(Firsts(asked)) \div 2}

\* An answer: for each key the edition sent for it, 0 for none and -1 for an element
\* that names no record.
Sent(feed, paper, version) ==
  {f \in DOMAIN feed : feed[f] = version /\ Key[f].paper = paper}
Newest(feed, paper) ==
  Max({0} \cup {feed[f] : f \in {g \in DOMAIN feed : Key[g].paper = paper}})
Named(feed, p) == LET k == Key[p] IN
  IF k.version = 0 THEN Newest(feed, k.paper) ELSE k.version
\* Mutant: any record of the paper will do.
FoundAnyEdition(feed, p) == LET k == Key[p] IN
  IF Newest(feed, k.paper) > 0 THEN Record(k.paper, Newest(feed, k.paper))
  ELSE Outcome("not_found")
Found(feed, p) == LET v == Named(feed, p)
                      matches == IF v = 0 THEN {} ELSE Sent(feed, Key[p].paper, v) IN
  IF Cardinality(matches) = 1 THEN Record(Key[p].paper, v)
  ELSE IF matches # {} \/ \E f \in DOMAIN feed : feed[f] = -1
       THEN Outcome("unavailable") ELSE Outcome("not_found")

-------------------------------------------------------------------------------
(* One call of lookup_many. *)

Members(t) == Head(tasks[t].todo)
Asking == {t \in Positions : tasks[t].asking}
Least(provider) == Min({p \in remaining : Key[p].provider = provider})
Todo(t) == LET k == Key[t] IN
  IF t \notin remaining \/ k.provider = "none" THEN <<>>
  ELSE IF k.provider \notin Batched THEN <<{t}>>
  ELSE IF t # Least(k.provider) THEN <<>>
  ELSE <<{p \in remaining : Key[p].provider = k.provider}>>

Call ==
  /\ ~calling /\ groups # <<>> /\ calling' = TRUE
  /\ IF pdfs /\ discarded
     THEN /\ outcome' = [p \in Positions |-> Outcome("discarded")]
          /\ UNCHANGED tasks
     ELSE /\ outcome' = [p \in Positions |-> Outcome(
               IF p \in remaining /\ Key[p].provider = "none" THEN "invalid_request" ELSE "none")]
          /\ tasks' = [t \in Positions |-> [todo |-> Todo(t), asking |-> FALSE]]
  /\ UNCHANGED <<pdfs, groups, remaining, attempt, budget, result, discarded, losses>>

calls == <<pdfs, groups, remaining, attempt, budget, calling, result, discarded, losses>>
Becomes(t, todo, asking) ==
  tasks' = [tasks EXCEPT ![t] = [todo |-> todo, asking |-> asking]]
Ask(t) ==
  /\ tasks[t].todo # <<>> /\ ~tasks[t].asking /\ Cardinality(Asking) < Permits
  /\ Becomes(t, tasks[t].todo, TRUE)
  /\ UNCHANGED <<calls, outcome>>
Answered(t, answers) ==
  /\ tasks[t].asking /\ Becomes(t, Tail(tasks[t].todo), FALSE)
  /\ outcome' = [p \in Positions |-> IF p \in Members(t) THEN answers[p] ELSE outcome[p]]
  /\ UNCHANGED calls
All(t, answer) == Answered(t, [p \in Members(t) |-> answer])

\* The halves are asked one after the other.
TooLarge(t) ==
  IF Cardinality(Firsts(Members(t))) > 1
  THEN /\ tasks[t].asking
       /\ LET lower == LowerHalf(Members(t)) IN
            Becomes(t, <<lower, Members(t) \ lower>> \o Tail(tasks[t].todo), FALSE)
       /\ UNCHANGED <<calls, outcome>>
  ELSE All(t, Outcome("unavailable"))
\* 404 and 429 from the endpoint, redirects, malformed and incomplete answers.
Fails(t) == \E w \in RetryAfter : All(t, Limited(w))
\* A record may be an error in disguise, or refused by _normalize_candidate.
Answers(t) ==
  \E feed \in [Firsts(Members(t)) -> {-1, 0} \cup Editions],
     bad \in {{}} \cup {{Key[f]} : f \in Firsts(Members(t))}, as \in {"unavailable", "not_found"} :
    Answered(t, [p \in Members(t) |->
      IF Key[p] \in bad /\ Found(feed, p).kind \in Papers THEN Outcome(as) ELSE Found(feed, p)])
Looked(t) == LET k == Key[t] IN
  \/ All(t, Outcome("not_found"))
  \/ \E e \in Editions : k.version \in {0, e} /\ All(t, Record(k.paper, e))
Answer(t) == tasks[t].asking /\
  IF Key[t].provider \in Batched THEN TooLarge(t) \/ Fails(t) \/ Answers(t)
                                 ELSE Fails(t) \/ Looked(t)

-------------------------------------------------------------------------------
(* Attempts of one group, and the groups of an import. *)

Retried == {p \in remaining : outcome[p].kind = "unavailable"}
Delay == Max({0} \cup {IF outcome[p].wait > 0 THEN outcome[p].wait ELSE 2 ^ attempt : p \in Retried})
\* Mutant: the next attempt asks for the whole group again.
WholeGroup == Head(groups)
Again == Retried
Settled == ~pdfs \/ Retried = {} \/ attempt = MaxAttempts - 1 \/ Delay > budget
Return ==
  /\ calling /\ \A t \in Positions : tasks[t].todo = <<>>
  /\ calling' = FALSE /\ outcome' = Nothing
  /\ result' = [p \in Positions |-> IF p \in remaining THEN outcome[p] ELSE result[p]]
  /\ IF Settled
     THEN /\ groups' = Tail(groups) /\ attempt' = 0
          /\ remaining' = IF Tail(groups) = <<>> THEN {} ELSE Head(Tail(groups))
          /\ UNCHANGED budget
     ELSE /\ remaining' = Again /\ attempt' = attempt + 1 /\ budget' = budget - Delay
          /\ UNCHANGED groups
  /\ UNCHANGED <<pdfs, tasks, discarded, losses>>

\* The process stops: the step of an import runs again, a user's request is lost.
Lose ==
  /\ calling /\ losses < MaxLosses /\ losses' = losses + 1
  /\ calling' = FALSE /\ tasks' = NoTasks /\ outcome' = Nothing
  /\ IF pdfs THEN UNCHANGED <<groups, remaining>> ELSE groups' = <<>> /\ remaining' = {}
  /\ UNCHANGED <<pdfs, attempt, budget, result, discarded>>
Discard ==
  /\ groups # <<>> /\ discarded' = TRUE
  /\ UNCHANGED <<pdfs, groups, remaining, attempt, budget, calling, tasks, outcome, result, losses>>

Init ==
  /\ pdfs \in BOOLEAN
  /\ IF pdfs THEN \E order \in [1..Cardinality(Providers \ {"none"}) -> Providers \ {"none"}] :
                    /\ \A i, j \in DOMAIN order : order[i] = order[j] => i = j
                    /\ groups = [i \in DOMAIN order |-> {p \in Positions : Key[p].provider = order[i]}]
     ELSE groups = <<Positions>>
  /\ remaining = Head(groups) /\ attempt = 0 /\ budget = MaxWait
  /\ calling = FALSE /\ tasks = NoTasks /\ outcome = Nothing /\ result = Nothing
  /\ discarded = FALSE /\ losses = 0
Next == Call \/ Return \/ Lose \/ Discard \/ \E t \in Positions : Ask(t) \/ Answer(t)
Spec == Init /\ [][Next]_vars

-------------------------------------------------------------------------------
\* What is kept for a source is a record of its own identifier, in the edition it
\* names; a source of an import is settled once, and neither later attempts nor
\* faults of its neighbours lose its answer; in the end every source has one.
AnswersStand ==
  /\ [](\A p \in Positions : LET r == result[p] IN
          r.kind \in Papers => r.kind = Key[p].paper /\ Key[p].version \in {0, r.version})
  /\ [][\A p \in Positions :
          result[p].kind \notin {"none", "unavailable"} => result'[p] = result[p]]_vars
  /\ [](groups = <<>> /\ (pdfs \/ losses = 0) =>
          \A p \in Positions : Key[p].provider # "none" => result[p].kind # "none")

\* However often an answer is too large, a call comes to an end: a split asks for
\* less than the request it replaces, for each identifier in one half only; and
\* neither requests nor waits exceed their bounds.
SplitsShrink ==
  /\ [](\A t \in Positions : \A i, j \in DOMAIN tasks[t].todo :
          i # j => \A p \in tasks[t].todo[i], q \in tasks[t].todo[j] : Key[p] # Key[q])
  /\ [][\A t \in Positions : Len(tasks'[t].todo) > Len(tasks[t].todo) /\ tasks[t].todo # <<>> =>
          \A i \in {1, 2} : tasks'[t].todo[i] # {} /\ tasks'[t].todo[i] # Members(t)]_vars
  /\ [](Cardinality({t \in Positions : tasks[t].asking}) <= Permits /\ budget >= 0)
LookupsHold == AnswersStand /\ SplitsShrink
================================================================================
