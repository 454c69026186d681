----------------------------- MODULE MCImportBatch -----------------------------
(***************************************************************************)
(* Two PDFs, interchangeable, and one retry; nothing is left to do once    *)
(* the batch and its objects are gone.  Or the lookup of five sources, two *)
(* of them the same and three of one paper.  Or two requests of the API,   *)
(* interchangeable, with the tokens of two accounts: no token yet, and no  *)
(* change to come, or a token of each, and one change.                     *)
(***************************************************************************)
EXTENDS Intake, TLC

CONSTANTS a, b
VARIABLES cast

Alike == Permutations(Sources) \cup Permutations(Callers)

Of(provider, paper, version) == [provider |-> provider, paper |-> paper, version |-> version]
Five == <<Of("arxiv", "p", 0), Of("arxiv", "p", 1), Of("arxiv", "p", 0),
          Of("crossref", "d", 0), Of("none", "p", 0)>>

\* The User a token that is not issued yet would name says nothing.
Unissued == \A t \in Tokens : token[t].stage = "none" /\ token[t].user = 1
OneEach ==
  \A u \in {1, 2} : token[<<"t1", "t2">>[u]] =
    [stage |-> "issued", user |-> u, until |-> 3 - u, revoked |-> 0]

MCInit ==
  /\ Init /\ L!Init /\ T!Init
  /\ cast \in {"batch", "lookups", "tokens"}
  /\ cast # "lookups" => ~pdfs
  /\ active = {1}
  /\ \/ Unissued /\ moved = 1
     \/ OneEach /\ moved = 0 /\ cast = "tokens"
MCNext ==
  /\ \/ cast = "batch" /\ Next /\ UNCHANGED <<looking, acting>>
     \/ cast = "lookups" /\ L!Next /\ UNCHANGED <<vars, acting>>
     \/ cast = "tokens" /\ T!Next /\ UNCHANGED <<vars, looking>>
  /\ UNCHANGED cast
MCSpec == MCInit /\ [][MCNext]_<<vars, looking, acting, cast>>
===============================================================================
