------------------------------ MODULE PostBatches ------------------------------
(***************************************************************************)
(* Batches of post moderation: deleting every upload of a user, or purging *)
(* deleted posts (crates/db/src/post_batches.rs), started by requests      *)
(* (crates/web/src/post_batches.rs) and worked through by jobs posts.batch *)
(* (crates/jobs/src/posts.rs) over what the job queue promises             *)
(* (AtLeastOnce), while others moderate the same posts.                    *)
(*                                                                         *)
(* The uploads of one user are modelled, in the order of their ids. A      *)
(* transaction that locks the post's row is a step; whether it finds the   *)
(* status locked (and the batch may not override that), or an open appeal, *)
(* is a choice. The posts counted as failed are a set; the counts of those *)
(* done and skipped are left out.                                          *)
(***************************************************************************)
EXTENDS Naturals, FiniteSets

CONSTANTS
    Newest,        \* posts are 1..Newest
    Batches,
    Runs,          \* of the jobs posts.batch
    Allowed,       \* attempts of a batch's job
    BatchSize,     \* BATCH
    FailuresInRow, \* FAILURES_IN_A_ROW
    None

Posts == 1..Newest
Start0 == Newest + 1  \* before the first page

ASSUME NewestAssumption == Newest \in Nat
ASSUME NumbersAssumption == {BatchSize, FailuresInRow} \subseteq Nat \ {0}
ASSUME AllowedAssumption == Allowed \in [Batches -> Nat]
ASSUME NoneAssumption == None \notin Batches

VARIABLES
    \* posts
    post,        \* "unborn", "shown", "deleted", "purging" or "gone"
    \* the rows of post_batches
    kind,        \* "delete", "purge" (of the posts ticked) or "search" (a purge by search)
    targets,     \* post_ids of a purge; of a search, the posts it finds as they are now
    status,
    resume,      \* resume_before
    failed,      \* posts it counted as failed
    \* their jobs, as in AtLeastOnce
    state, begun, results,
    \* runs
    at, works,   \* where each run is, and on which batch
    before,      \* it lists posts below this one
    page, last,  \* what is left of the posts it listed, and the last of them
    streak,      \* purges in a row that failed
    result,      \* what it is about to return
    \* history
    steady,      \* posts that have been as a batch wants them since it was made
    strayed,     \* posts a batch's search stopped finding, and no run listed since
    marker,      \* the batch that marked a post as being purged, or None
    overlapped,  \* batches two runs worked on at once
    discarded    \* batches whose dead job was discarded

fixed   == <<kind, targets>>
rows    == <<fixed, status, resume, failed>>
queue   == <<state, begun, results>>
runs    == <<at, works, before, page, last, streak, result>>
history == <<steady, strayed, marker, overlapped, discarded>>
vars == <<post, rows, queue, runs, history>>

Queue == INSTANCE AtLeastOnce WITH Jobs <- Batches

Open(b)   == status[b] \in {"queued", "running"}
Active(r) == at[r] # "idle"
Places == {"idle", "begun", "opened", "listing", "deleting", "purging", "marked", "emptied",
           "counting", "ending", "refused", "done"}
Outcomes == {"ok", "retry", "permanent", "done", "skipped", "failed"}

TypeOK ==
    /\ post \in [Posts -> {"unborn", "shown", "deleted", "purging", "gone"}]
    /\ kind \in [Batches -> {"delete", "purge", "search"}]
    /\ targets \in [Batches -> SUBSET Posts]
    /\ status \in [Batches -> {"none", "queued", "running", "done", "failed"}]
    /\ resume \in [Batches -> 1..Start0]
    /\ failed \in [Batches -> SUBSET Posts]
    /\ state \in [Batches -> {"absent", "pending", "dead"}]
    /\ begun \in [Batches -> Nat]
    /\ results \in [Batches -> SUBSET {"ok", "retry", "permanent"}]
    /\ at \in [Runs -> Places]
    /\ works \in [Runs -> Batches \cup {None}]
    /\ before \in [Runs -> 1..Start0]
    /\ page \in [Runs -> SUBSET Posts]
    /\ last \in [Runs -> 1..Start0]
    /\ streak \in [Runs -> Nat]
    /\ result \in [Runs -> Outcomes]
    /\ steady \in [Batches -> SUBSET Posts]
    /\ strayed \in [Batches -> SUBSET Posts]
    /\ marker \in [Posts -> Batches \cup {None}]
    /\ overlapped \subseteq Batches /\ discarded \subseteq Batches

Init ==
    /\ post = [p \in Posts |-> "unborn"]
    /\ kind = [b \in Batches |-> "delete"]
    /\ targets = [b \in Batches |-> {}]
    /\ status = [b \in Batches |-> "none"]
    /\ resume = [b \in Batches |-> Start0]
    /\ failed = [b \in Batches |-> {}]
    /\ Queue!Init
    /\ at = [r \in Runs |-> "idle"]
    /\ works = [r \in Runs |-> None]
    /\ before = [r \in Runs |-> Start0]
    /\ page = [r \in Runs |-> {}]
    /\ last = [r \in Runs |-> Start0]
    /\ streak = [r \in Runs |-> 0]
    /\ result = [r \in Runs |-> "retry"]
    /\ steady = [b \in Batches |-> {}]
    /\ strayed = [b \in Batches |-> {}]
    /\ marker = [p \in Posts |-> None]
    /\ overlapped = {} /\ discarded = {}

-------------------------------------------------------------------------------
(* Other moderation of the posts, by their uploader and staff.             *)

\* Nobody can say any more that posts S have always been as the batches wanted them.
Unsteady(S) == steady' = [b \in Batches |-> steady[b] \ S]

Others == UNCHANGED <<rows, queue, runs, strayed, overlapped, discarded>>

Upload(p) ==
    /\ post[p] = "unborn"
    /\ \A q \in Posts : q < p => post[q] # "unborn"
    /\ post' = [post EXCEPT ![p] = "shown"]
    /\ UNCHANGED <<steady, marker>>
    /\ Others

Delete(p) ==
    /\ post[p] = "shown"
    /\ post' = [post EXCEPT ![p] = "deleted"]
    /\ Unsteady({p})
    /\ UNCHANGED marker
    /\ Others

Restore(p) ==
    /\ post[p] = "deleted"
    /\ post' = [post EXCEPT ![p] = "shown"]
    /\ Unsteady({p})
    /\ UNCHANGED marker
    /\ Others

\* start_purge and finish_purge of a job that purges this post alone. It finishes what a
\* batch has begun, too.
MarkAlone(p) ==
    /\ post[p] = "deleted"
    /\ post' = [post EXCEPT ![p] = "purging"]
    /\ marker' = [marker EXCEPT ![p] = None]
    /\ UNCHANGED steady
    /\ Others

FinishAlone(p) ==
    /\ post[p] = "purging"
    /\ post' = [post EXCEPT ![p] = "gone"]
    /\ Unsteady({p})
    /\ UNCHANGED marker
    /\ Others

-------------------------------------------------------------------------------
(* Starting a batch: its row and its job, in one transaction.              *)

Enqueue(b, what, which, wanted) ==
    /\ status[b] = "none"
    /\ status' = [status EXCEPT ![b] = "queued"]
    /\ kind' = [kind EXCEPT ![b] = what]
    /\ targets' = [targets EXCEPT ![b] = which]
    /\ steady' = [steady EXCEPT ![b] = wanted]
    /\ Queue!Submit(b)
    /\ UNCHANGED <<post, resume, failed, runs, strayed, marker, overlapped, discarded>>

Deletable == {p \in Posts : post[p] = "shown"}
Deleted   == {p \in Posts : post[p] \in {"deleted", "purging"}}

deletion_open == \E b \in Batches : kind[b] = "delete" /\ Open(b)

\* A slip: nothing keeps a second deletion out.
DeleteUploadsAgain(b) ==
    /\ Deletable # {}
    /\ Enqueue(b, "delete", {}, Deletable)

\* The user's row is locked, so deletions of one user start one after the other.
DeleteUploads(b) ==
    /\ ~deletion_open
    /\ Deletable # {}
    /\ Enqueue(b, "delete", {}, Deletable)

\* Of the deleted posts ticked: all of them.
StartPurge(b) ==
    /\ Deleted # {}
    /\ Enqueue(b, "purge", Deleted, Deleted)

\* Of the deleted posts a search finds, whenever it is made; some now.
StartSearch(b) ==
    \E which \in SUBSET Posts :
        /\ which \cap Deleted # {}
        /\ Enqueue(b, "search", which, which \cap Deleted)

\* A post is edited, voted on or grows older: a batch's search finds it no longer, or does
\* so from now on.
SearchLoses(b, p) ==
    /\ p \in targets[b]
    /\ targets' = [targets EXCEPT ![b] = @ \ {p}]
    /\ steady' = [steady EXCEPT ![b] = @ \ {p}]
    /\ strayed' = [strayed EXCEPT ![b] = @ \cup {p}]

SearchGains(b, p) ==
    /\ p \notin targets[b]
    /\ targets' = [targets EXCEPT ![b] = @ \cup {p}]
    /\ UNCHANGED <<steady, strayed>>

FindsOther(b, p) ==
    /\ kind[b] = "search"
    /\ SearchLoses(b, p) \/ SearchGains(b, p)
    /\ UNCHANGED <<post, kind, status, resume, failed, queue, runs, marker, overlapped, discarded>>

-------------------------------------------------------------------------------
(* What the queue does with a batch's job.                                 *)

Same == UNCHANGED <<post, rows>>

Begin(r, b) ==
    /\ ~Active(r)
    /\ Queue!Begin(b)
    /\ at' = [at EXCEPT ![r] = "begun"]
    /\ works' = [works EXCEPT ![r] = b]
    /\ overlapped' = IF \E other \in Runs : Active(other) /\ works[other] = b
                     THEN overlapped \cup {b}
                     ELSE overlapped
    /\ Same
    /\ UNCHANGED <<before, page, last, streak, result, steady, strayed, marker, discarded>>

\* A run and what it knew are gone.
End(r) ==
    /\ at' = [at EXCEPT ![r] = "idle"]
    /\ works' = [works EXCEPT ![r] = None]
    /\ before' = [before EXCEPT ![r] = Start0]
    /\ page' = [page EXCEPT ![r] = {}]
    /\ last' = [last EXCEPT ![r] = Start0]
    /\ streak' = [streak EXCEPT ![r] = 0]
    /\ result' = [result EXCEPT ![r] = "retry"]

Return(r) ==
    /\ at[r] = "done"
    /\ Queue!Return(works[r], result[r])
    /\ End(r)
    /\ Same
    /\ UNCHANGED history

Crash(r) ==
    /\ Active(r)
    /\ End(r)
    /\ Same
    /\ UNCHANGED <<queue, history>>

Finish(b) == Queue!Finish(b) /\ Same /\ UNCHANGED <<runs, history>>

GiveUp(b) == Queue!GiveUp({b}) /\ Same /\ UNCHANGED <<runs, history>>

Revive(b) == Queue!Revive(b) /\ Same /\ UNCHANGED <<runs, history>>

Discard(b) ==
    /\ Queue!Discard(b)
    /\ discarded' = discarded \cup {b}
    /\ Same
    /\ UNCHANGED <<runs, steady, strayed, marker, overlapped>>

-------------------------------------------------------------------------------
(* The job, one statement or transaction at a time.                        *)

Go(r, place) == at' = [at EXCEPT ![r] = place]

GiveBack(r, how) ==
    /\ Go(r, "done")
    /\ result' = [result EXCEPT ![r] = how]

\* A statement fails: the error is returned, to be retried. Within purge_post it is a
\* purge that failed.
StatementFails(r) ==
    /\ at[r] \in {"begun", "opened", "listing", "deleting", "counting", "ending", "refused"}
    /\ GiveBack(r, "retry")
    /\ Same
    /\ UNCHANGED <<queue, works, before, page, last, streak, history>>

\* A slip: only a batch that nobody began is worked on.
NotBegun(b) == status[b] = "queued"

ToBeDone(b) == Open(b)

\* by_id
ReadBatch(r) ==
    /\ at[r] = "begun"
    /\ ToBeDone(works[r])
    /\ Go(r, "opened")
    /\ before' = [before EXCEPT ![r] = resume[works[r]]]
    /\ Same
    /\ UNCHANGED <<queue, works, page, last, streak, result, history>>

FindFinished(r) ==
    /\ at[r] = "begun"
    /\ ~ToBeDone(works[r])
    /\ GiveBack(r, "ok")
    /\ Same
    /\ UNCHANGED <<queue, works, before, page, last, streak, history>>

\* start
Start(r) ==
    /\ at[r] = "opened"
    /\ status' = [status EXCEPT ![works[r]] = "running"]
    /\ Go(r, "listing")
    /\ UNCHANGED <<post, fixed, resume, failed, queue, works, before, page, last, streak,
                   result, history>>

\* What a batch is about: of the posts ticked all, whatever became of them; a search is
\* made again for every page, and finds what it finds then.
Wanted(b) ==
    CASE kind[b] = "delete" -> Deletable
      [] kind[b] = "purge"  -> targets[b]
      [] kind[b] = "search" -> targets[b] \cap Deleted

\* What a run has still to go through.
Listed(r) == {p \in Wanted(works[r]) : p < before[r]}

\* Up to BATCH of them, the newest first.
List(r) ==
    /\ at[r] = "listing"
    /\ \E oldest \in Listed(r) :
        LET found == {p \in Listed(r) : p >= oldest} IN
        /\ Cardinality(found) <= BatchSize
        /\ Cardinality(found) = BatchSize \/ \A p \in Listed(r) : p >= oldest
        /\ page' = [page EXCEPT ![r] = found]
        /\ last' = [last EXCEPT ![r] = oldest]
        /\ strayed' = [strayed EXCEPT ![works[r]] = @ \ found]
    /\ Go(r, IF kind[works[r]] = "delete" THEN "deleting" ELSE "purging")
    /\ Same
    /\ UNCHANGED <<queue, works, before, streak, result, steady, marker, overlapped, discarded>>

NoneLeft(r) ==
    /\ at[r] = "listing"
    /\ Listed(r) = {}
    /\ Go(r, "ending")
    /\ Same
    /\ UNCHANGED <<queue, works, before, page, last, streak, result, history>>

\* The search of a purge has become invalid.
Refuse(r) ==
    /\ at[r] = "listing"
    /\ kind[works[r]] = "search"
    /\ Go(r, "refused")
    /\ Same
    /\ UNCHANGED <<queue, works, before, page, last, streak, result, history>>

\* A slip: one post further than the last.
OnwardPast(r) ==
    /\ Go(r, "listing")
    /\ before' = [before EXCEPT ![r] = last[r] - 1]
    /\ page' = [page EXCEPT ![r] = {}]

\* The next page.
Onward(r) ==
    /\ Go(r, "listing")
    /\ before' = [before EXCEPT ![r] = last[r]]
    /\ page' = [page EXCEPT ![r] = {}]

\* A slip: the progress is recorded first, in a transaction of its own.
AdvanceFirst(r) ==
    /\ at[r] = "deleting"
    /\ resume' = [resume EXCEPT ![works[r]] = last[r]]
    /\ Onward(r)
    /\ UNCHANGED <<post, fixed, status, failed, queue, works, last, streak, result, history>>

\* A slip: all that were listed, whatever became of them since.
DeleteAsListed(r) ==
    /\ at[r] = "deleting"
    /\ \E held \in SUBSET page[r] :
        post' = [p \in Posts |-> IF p \in page[r] \ held THEN "deleted" ELSE post[p]]
    /\ Unsteady(page[r])
    /\ resume' = [resume EXCEPT ![works[r]] = last[r]]
    /\ Onward(r)
    /\ UNCHANGED <<fixed, status, failed, queue, works, last, streak, result, strayed, marker,
                   overlapped, discarded>>

\* delete_posts, in one transaction
DeletePage(r) ==
    /\ at[r] = "deleting"
    /\ \E held \in SUBSET page[r] :
        /\ post' = [p \in Posts |-> IF p \in (page[r] \cap Deletable) \ held
                                  THEN "deleted" ELSE post[p]]
        /\ Unsteady(page[r] \cap Deletable)
    /\ resume' = [resume EXCEPT ![works[r]] = last[r]]
    /\ Onward(r)
    /\ UNCHANGED <<fixed, status, failed, queue, works, last, streak, result, strayed, marker,
                   overlapped, discarded>>

\* Posts of a page are purged one by one, the newest first.
IsNext(r, p) == p \in page[r] /\ \A q \in page[r] : q <= p

\* How the purge of a post went, to be recorded.
WentAs(r, outcome) ==
    /\ Go(r, "counting")
    /\ result' = [result EXCEPT ![r] = outcome]
    /\ streak' = [streak EXCEPT ![r] = IF outcome = "failed" THEN streak[r] + 1 ELSE 0]

\* start_purge
Mark(r, p) ==
    /\ at[r] = "purging"
    /\ IsNext(r, p)
    /\ post[p] \in {"deleted", "purging"}
    /\ post' = [post EXCEPT ![p] = "purging"]
    /\ marker' = [marker EXCEPT ![p] = IF post[p] = "deleted" THEN works[r] ELSE @]
    /\ Go(r, "marked")
    /\ UNCHANGED <<rows, queue, works, before, page, last, streak, result, steady, strayed,
                   overlapped, discarded>>

\* start_purge, of a post that is restored, gone, locked or appealed
Skip(r, p) ==
    /\ at[r] = "purging"
    /\ IsNext(r, p)
    /\ post[p] # "purging"
    /\ WentAs(r, "skipped")
    /\ Unsteady({p})
    /\ UNCHANGED <<post, rows, queue, works, before, page, last, strayed, marker, overlapped,
                   discarded>>

\* The files go.
RemoveFiles(r) ==
    /\ at[r] = "marked"
    /\ Go(r, "emptied")
    /\ Same
    /\ UNCHANGED <<queue, works, before, page, last, streak, result, history>>

\* Storage, or a statement, fails.
PurgeFails(r, p) ==
    /\ at[r] \in {"purging", "marked", "emptied"}
    /\ IsNext(r, p)
    /\ streak[r] + 1 < FailuresInRow
    /\ WentAs(r, "failed")
    /\ Same
    /\ UNCHANGED <<queue, works, before, page, last, history>>

\* Several failures in a row end the run; the last is not counted.
StopFailing(r) ==
    /\ at[r] \in {"purging", "marked", "emptied"}
    /\ streak[r] + 1 >= FailuresInRow
    /\ GiveBack(r, "retry")
    /\ streak' = [streak EXCEPT ![r] = @ + 1]
    /\ Same
    /\ UNCHANGED <<queue, works, before, page, last, history>>

\* finish_purge
FinishPurge(r, p) ==
    /\ at[r] = "emptied"
    /\ IsNext(r, p)
    /\ post[p] = "purging"
    /\ post' = [post EXCEPT ![p] = "gone"]
    /\ Unsteady({p})
    /\ WentAs(r, "done")
    /\ UNCHANGED <<rows, queue, works, before, page, last, strayed, marker, overlapped, discarded>>

\* Somebody else finished it.
FindPurged(r, p) ==
    /\ at[r] = "emptied"
    /\ IsNext(r, p)
    /\ post[p] # "purging"
    /\ WentAs(r, "skipped")
    /\ Same
    /\ UNCHANGED <<queue, works, before, page, last, history>>

\* A slip: a purge that failed is not counted.
Uncounted(b, p, outcome) == UNCHANGED failed

Counted(b, p, outcome) ==
    failed' = [failed EXCEPT ![b] = IF outcome = "failed" THEN @ \cup {p} ELSE @]

\* record_purge
Record(r, p) ==
    /\ at[r] = "counting"
    /\ IsNext(r, p)
    /\ Counted(works[r], p, result[r])
    /\ resume' = [resume EXCEPT ![works[r]] = p]
    /\ result' = [result EXCEPT ![r] = "retry"]
    /\ UNCHANGED <<post, fixed, status, queue, works, last, streak, history>>

NextPost(r, p) ==
    /\ Record(r, p)
    /\ page[r] # {p}
    /\ Go(r, "purging")
    /\ page' = [page EXCEPT ![r] = @ \ {p}]
    /\ UNCHANGED before

NextPage(r, p) ==
    /\ Record(r, p)
    /\ page[r] = {p}
    /\ Onward(r)

\* finish, without and with an error
Complete(r) ==
    /\ at[r] = "ending"
    /\ status' = [status EXCEPT ![works[r]] = "done"]
    /\ GiveBack(r, "ok")
    /\ UNCHANGED <<post, fixed, resume, failed, queue, works, before, page, last, streak, history>>

Fail(r) ==
    /\ at[r] = "refused"
    /\ status' = [status EXCEPT ![works[r]] = "failed"]
    /\ GiveBack(r, "permanent")
    /\ UNCHANGED <<post, fixed, resume, failed, queue, works, before, page, last, streak, history>>

-------------------------------------------------------------------------------
Moderate(p) ==
    \/ Upload(p)
    \/ Delete(p)
    \/ Restore(p)
    \/ MarkAlone(p)
    \/ FinishAlone(p)

Request(b) ==
    \/ DeleteUploads(b)
    \/ StartPurge(b)
    \/ StartSearch(b)
    \/ \E p \in Posts : FindsOther(b, p)
    \/ Finish(b)
    \/ GiveUp(b)
    \/ Revive(b)
    \/ Discard(b)

Work(r) ==
    \/ \E b \in Batches : Begin(r, b)
    \/ Return(r)
    \/ Crash(r)
    \/ StatementFails(r)
    \/ ReadBatch(r)
    \/ FindFinished(r)
    \/ Start(r)
    \/ List(r)
    \/ NoneLeft(r)
    \/ Refuse(r)
    \/ DeletePage(r)
    \/ \E p \in Posts : \/ Mark(r, p)
                        \/ Skip(r, p)
                        \/ PurgeFails(r, p)
                        \/ FinishPurge(r, p)
                        \/ FindPurged(r, p)
                        \/ NextPost(r, p)
                        \/ NextPage(r, p)
    \/ RemoveFiles(r)
    \/ StopFailing(r)
    \/ Complete(r)
    \/ Fail(r)

Next ==
    \/ \E p \in Posts : Moderate(p)
    \/ \E b \in Batches : Request(b)
    \/ \E r \in Runs : Work(r)

Spec == Init /\ [][Next]_vars

-------------------------------------------------------------------------------
(* Properties.                                                             *)

\* A batch that says it is done missed none of its posts, wherever its runs stopped and
\* started again: a post that was all along as the batch wants them was deleted, or
\* purged, or counted as failed. Of a search, one it would have found all along.
DoneMissesNone ==
    \A b \in Batches : status[b] = "done" => steady[b] \subseteq failed[b]

\* A post that a batch marked as being purged, which nobody can restore any more, is not
\* left so and forgotten, wherever its runs crashed and whatever else became of the batch:
\* it is counted as failed, or the batch is still open and has it before it, or says that
\* it failed. Told apart are posts its search stopped finding before a run listed them
\* again: such a post the next run passes over, and the batch is done without it.
NoneLeftHalfway ==
    \A p \in Posts, b \in Batches \ overlapped :
        post[p] = "purging" /\ marker[p] = b =>
            \/ p \in failed[b] \cup strayed[b]
            \/ Open(b) /\ p < resume[b]
            \/ status[b] = "failed"

\* A batch that is not finished has a job, so the user's uploads are not for ever
\* "already being deleted"; unless two runs of it overlapped, and the one presumed dead
\* started it again, or the dead job was discarded.
OpenHasJob ==
    \A b \in Batches \ (overlapped \cup discarded) : Open(b) => state[b] # "absent"

\* Only one deletion of a user's uploads runs at a time, but for what such runs started
\* again.
OneDeletionAtOnce ==
    \A b, c \in Batches \ overlapped :
        kind[b] = "delete" /\ kind[c] = "delete" /\ Open(b) /\ Open(c) => b = c

\* Where a post is in its life, as PostLife tells it.
Phase(p) ==
    CASE post[p] = "unborn"  -> "absent"
      [] post[p] = "deleted" -> "hidden"
      [] post[p] = "purging" -> "going"
      [] OTHER               -> post[p]

Life == INSTANCE PostLife WITH phase    <- [p \in Posts |-> Phase(p)],
                               approved <- {p \in Posts : post[p] # "unborn"}

\* Batches, however their runs stop, repeat and overlap beside other moderation, delete
\* only posts that are shown and purge only deleted ones, and bring none back.
LivesAsPromised == Life!Spec
===============================================================================
