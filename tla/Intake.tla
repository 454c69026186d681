--------------------------------- MODULE Intake ---------------------------------
(***************************************************************************)
(* What clients send in: a batch of PDFs (ImportBatch), the sources whose  *)
(* metadata is looked up for them (Lookups), and requests that present an  *)
(* API token (Tokens).  The three share no state: the batch keeps whatever *)
(* its lookups answer, and a request is authenticated before its command.  *)
(***************************************************************************)
EXTENDS ImportBatch

CONSTANTS Key, Batched, Editions, Permits, MaxAttempts, MaxWait, RetryAfter, MaxLosses,
          Users, Tokens, Callers, MaxDays, Retention, MaxClock, MaxMoves

VARIABLES pdfs, groups, remaining, attempt, budget, calling, tasks, outcome,
          result, discarded, losses,                   \* of Lookups
          active, sessions, token, clock, moved, req   \* of Tokens

L == INSTANCE Lookups
T == INSTANCE Tokens
ASSUME LookupsAssumption == L!KeyAssumption /\ L!BoundsAssumption
ASSUME TokensAssumption == T!TimesAssumption
looking == <<pdfs, groups, remaining, attempt, budget, calling, tasks, outcome,
             result, discarded, losses>>
acting == <<active, sessions, token, clock, moved, req>>

\* Every source keeps its own answer, and asking ends: see Lookups.
LookupsHold == L!LookupsHold
\* A request that authenticated long ago still acts with authority: see Tokens.
ActsWithAuthority == T!ActsWithAuthority
=================================================================================
