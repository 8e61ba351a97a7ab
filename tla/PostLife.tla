------------------------------- MODULE PostLife -------------------------------
(***************************************************************************)
(* What moderation promises of each post, without flags, appeals, locks or *)
(* jobs: it is shown only once approved, it comes back from a deletion to  *)
(* where its approval put it, and once a purge began nothing brings it     *)
(* back. PostModeration implements it for each step of a moderator, and    *)
(* PostBatches for the pages of a batch.                                   *)
(***************************************************************************)
CONSTANTS Posts

VARIABLES
    phase,    \* "absent", "queued", "shown", "hidden", "going" or "gone"
    approved  \* the posts somebody approved, or that needed no approval

vars == <<phase, approved>>

Init ==
    /\ phase = [p \in Posts |-> "absent"]
    /\ approved = {}

Move(p, from, to) ==
    /\ phase[p] \in from
    /\ phase' = [phase EXCEPT ![p] = to]

Queue(p)   == Move(p, {"absent"}, "queued") /\ UNCHANGED approved
Show(p)    == Move(p, {"absent", "queued"}, "shown") /\ approved' = approved \cup {p}
Return(p)  == /\ Move(p, {"hidden"}, IF p \in approved THEN "shown" ELSE "queued")
              /\ UNCHANGED approved
Condemn(p) == Move(p, {"hidden"}, "going") /\ UNCHANGED approved
Remove(p)  == Move(p, {"going"}, "gone") /\ UNCHANGED approved

\* A page of a batch is hidden at once.
Hide(S) ==
    /\ \A p \in S : phase[p] \in {"queued", "shown"}
    /\ phase' = [p \in Posts |-> IF p \in S THEN "hidden" ELSE phase[p]]
    /\ UNCHANGED approved

Next ==
    \/ \E S \in SUBSET Posts : Hide(S)
    \/ \E p \in Posts : Queue(p) \/ Show(p) \/ Return(p) \/ Condemn(p) \/ Remove(p)

Spec == Init /\ [][Next]_vars
===============================================================================
