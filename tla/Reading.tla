-------------------------------- MODULE Reading --------------------------------
(***************************************************************************)
(* What happens to the Documents of one Item while they are made, copied   *)
(* and deleted (Documents): a reader downloads them (Downloads), sharing   *)
(* their rows and the store; and their readers annotate them               *)
(* (Annotations), sharing only the deletion of the document itself.        *)
(***************************************************************************)
EXTENDS Documents

CONSTANTS ExpiresAt, Lifetime, MaxClock, Selections,      \* of Downloads
          Authors, Moderators, Repliers, MaxVersion       \* of Annotations
VARIABLES sees, clock, req,                               \* of Downloads
          ann, reply, open, link, known, tx, purge        \* of Annotations

Reader == INSTANCE Downloads
Notes == INSTANCE Annotations
ASSUME DownloadsAssumption == Reader!ClockAssumption /\ Reader!SelectionsAssumption
ASSUME AnnotationsAssumption == Notes!ClientsAssumption /\ Notes!MaxVersionAssumption
downloading == <<sees, clock, req>>
annotating == <<ann, reply, open, link, known, tx, purge>>
producing == <<may, tgt, http, mail, job, dead, copy, sweep, faults>>

\* Nothing is uploaded or made ready anew.
NothingAppears ==
  /\ Reader!ItemPdfs' \subseteq Reader!ItemPdfs
  /\ Reader!Supplements' \subseteq Reader!Supplements
  /\ Reader!Thumbs' \subseteq Reader!Thumbs
  /\ Reader!ReadyThumbs' \subseteq Reader!ReadyThumbs
  /\ Reader!AbstractKeys' \subseteq Reader!AbstractKeys
\* Artifacts expire by the reader's clock; from the request on nothing appears.
Produces ==
  /\ Next /\ UNCHANGED downloading
  /\ clock < ExpiresAt => \A e \in Exports : ~Expire(e)
  /\ req.phase # "idle" => NothingAppears

\* Documents change as they like before the reader's request, and only by what is
\* taken away or does not show once it is under way.
ReadInit == Init /\ Reader!Init
ReadNext == Produces \/ (Reader!Step /\ UNCHANGED producing)
ReadSpec == ReadInit /\ [][ReadNext]_<<vars, downloading>>

\* Authors replace what they have seen, Replies meet readers, and what may be
\* undone is not purged: see Annotations.
AnnotationsStand == Notes!AnnotationsStand
\* What stands is served, archives are whole, links work until they end, and
\* nothing is held for a request that is over: see Downloads.
DownloadsHold == Reader!DownloadsHold
=================================================================================
