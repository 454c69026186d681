--------------------------------- MODULE Library ---------------------------------
(***************************************************************************)
(* What is beside the metadata of an Item: the Tags of its Workspace       *)
(* (Tags), and what is said about Items and Projects (Discussions).        *)
(***************************************************************************)
EXTENDS Items

CONSTANTS Tagged, TagNames, Born, Requests, Budget,               \* of Tags
          Users, Messages, Topic, Demands, MaxDemands, MaxMoves,  \* of Discussions
          Processes
VARIABLES items, tags, gone, links, tx, budget,                        \* of Tags
          standing, state, home, parted, message, talk, sent, moved  \* of Discussions

Tagging == INSTANCE Tags WITH Items <- Tagged, TagIds <- TagNames
Talk == INSTANCE Discussions
ASSUME TagsAssumption == Tagging!IdsAssumption /\ Tagging!BudgetAssumption
ASSUME TalkAssumption == Talk!TopicAssumption /\ Talk!DemandsAssumption
tagging == <<items, tags, gone, links, tx, budget>>
talking == <<standing, state, home, parted, message, talk, sent, moved>>

\* Merging loses no link of the source: see Tags.
MergeLosesNothing == Tagging!MergeLosesNothing
\* Messages come and go under authority: see Discussions.
SpokenWithAuthority == Talk!SpokenWithAuthority
==================================================================================
