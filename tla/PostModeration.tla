--------------------------- MODULE PostModeration ---------------------------
(***************************************************************************)
(* The life of a post between moderators, flaggers, appellants, the job    *)
(* that expires posts left waiting and the jobs that purge posts: the      *)
(* columns status, deleted_from, purging and locks of `posts`, the open    *)
(* rows of post_flags and post_appeals (crates/db/src/{posts,flags,        *)
(* appeals,post_batches}.rs), and the requests and jobs that change them   *)
(* (crates/web/src/moderation.rs, crates/jobs/src/{posts,media}.rs).       *)
(*                                                                         *)
(* A transaction that locks the post's row first is one step: others wait  *)
(* for it. What a request reads before its transaction is a step before    *)
(* it, and so is the snapshot of the one statement that takes the row lock *)
(* and looks into another table: start_purge.                              *)
(*                                                                         *)
(* Time is abstracted to what the statements compare with now(): posts     *)
(* uploaded and flags made longer ago than the stale_posts setting allows, *)
(* flags dismissed and appeals turned down within the cooldown.            *)
(***************************************************************************)
CONSTANTS
    Posts,
    Users,     \* who flag
    Runs,      \* runs of purge jobs, of one job at once when its lock expired
    None

ASSUME NoneAssumption == None \notin {"pending", "active", "flagged"}

VARIABLES
    status,        \* "absent" before the upload, "gone" after the purge
    deleted_from,  \* the status a deleted post had
    purging,       \* posts marked by start_purge
    locked,        \* posts whose `locks` has 'status'
    overdue,       \* posts whose created_at is more than pending_days ago
    flags,         \* open flags: <<post, creator>>
    stale,         \* those of them made more than flagged_days ago
    dismissed,     \* flags dismissed within the cooldown
    appealed,      \* posts with an open appeal
    refused,       \* posts with an appeal turned down within the cooldown
    files,         \* posts whose files are in storage
    \* requests and jobs
    flagging,      \* flags whose request has passed its checks
    appealing,     \* appeals whose request has passed its checks
    found,         \* the rest of what stale() returned: <<post, status>>
    queue,         \* jobs media.purge: <<post, override_locks>>
    at,            \* where each run of one is
    task,          \* its job
    saw_appeal,    \* whether start_purge's snapshot had an open appeal
    \* history
    approved,      \* posts a moderator approved, or that needed no approval
    raced          \* posts appealed between start_purge's snapshot and its row lock

post_rows == <<status, deleted_from, purging, locked, overdue>>
reports   == <<flags, stale, dismissed, appealed, refused>>
requests  == <<flagging, appealing>>
runs      == <<queue, at, task, saw_appeal>>
history   == <<approved, raced>>
vars == <<post_rows, reports, files, requests, found, runs, history>>

Deletable == {"pending", "active", "flagged"}
Stored    == Deletable \cup {"deleted"}
Jobs      == Posts \X BOOLEAN
Places    == {"idle", "asked", "marked", "emptied"}

TypeOK ==
    /\ status \in [Posts -> Stored \cup {"absent", "gone"}]
    /\ deleted_from \in [Posts -> Deletable \cup {None}]
    /\ purging \subseteq Posts
    /\ locked \subseteq Posts
    /\ overdue \subseteq Posts
    /\ flags \subseteq Posts \X Users
    /\ stale \subseteq flags
    /\ dismissed \subseteq Posts \X Users
    /\ appealed \subseteq Posts
    /\ refused \subseteq Posts
    /\ files \subseteq Posts
    /\ flagging \subseteq Posts \X Users
    /\ appealing \subseteq Posts
    /\ found \subseteq Posts \X {"pending", "flagged"}
    /\ queue \subseteq Jobs
    /\ at \in [Runs -> Places]
    /\ task \in [Runs -> Jobs \cup {None}]
    /\ saw_appeal \in [Runs -> BOOLEAN]
    /\ approved \subseteq Posts
    /\ raced \subseteq Posts

Init ==
    /\ status = [p \in Posts |-> "absent"]
    /\ deleted_from = [p \in Posts |-> None]
    /\ purging = {}
    /\ locked = {}
    /\ overdue = {}
    /\ flags = {}
    /\ stale = {}
    /\ dismissed = {}
    /\ appealed = {}
    /\ refused = {}
    /\ files = {}
    /\ flagging = {}
    /\ appealing = {}
    /\ found = {}
    /\ queue = {}
    /\ at = [w \in Runs |-> "idle"]
    /\ task = [w \in Runs |-> None]
    /\ saw_appeal = [w \in Runs |-> FALSE]
    /\ approved = {}
    /\ raced = {}

OpenFlags(p) == {f \in flags : f[1] = p}

-------------------------------------------------------------------------------
(* What the transactions have in common.                                   *)

\* A post comes with its files; those trusted need no approval.
Upload(p, trusted) ==
    /\ status[p] = "absent"
    /\ status' = [status EXCEPT ![p] = IF trusted THEN "active" ELSE "pending"]
    /\ files' = files \cup {p}
    /\ approved' = IF trusted THEN approved \cup {p} ELSE approved
    /\ UNCHANGED <<deleted_from, purging, locked, overdue, reports, requests, found, runs, raced>>

\* A slip: without `AND NOT purging`.
SetStatusOfPurging(p, from, to) ==
    /\ status[p] \in from
    /\ status' = [status EXCEPT ![p] = to]
    /\ deleted_from' = [deleted_from EXCEPT ![p] = IF to = "deleted" THEN status[p] ELSE None]
    /\ UNCHANGED <<purging, locked, overdue>>

\* A slip: what the post was is not noted.
SetStatusForgetting(p, from, to) ==
    /\ status[p] \in from
    /\ p \notin purging
    /\ status' = [status EXCEPT ![p] = to]
    /\ UNCHANGED <<deleted_from, purging, locked, overdue>>

SetStatus(p, from, to) ==
    /\ status[p] \in from
    /\ p \notin purging
    /\ status' = [status EXCEPT ![p] = to]
    /\ deleted_from' = [deleted_from EXCEPT ![p] = IF to = "deleted" THEN status[p] ELSE None]
    /\ UNCHANGED <<purging, locked, overdue>>

\* A slip: flags that ended still count as waiting.
ResolveInPart(p) ==
    /\ flags' = flags \ OpenFlags(p)
    /\ UNCHANGED stale

\* The open flags of p end, upheld or dismissed.
Resolve(p) ==
    /\ flags' = flags \ OpenFlags(p)
    /\ stale' = stale \ OpenFlags(p)

\* A status lock binds those without the permission to lock posts.
MayAct(p, over) == p \in locked => over

-------------------------------------------------------------------------------
(* moderate: each action in one transaction, with the post locked.         *)

Approve(p, over) ==
    /\ MayAct(p, over)
    /\ SetStatus(p, {"pending"}, "active")
    /\ approved' = approved \cup {p}
    /\ UNCHANGED <<reports, files, requests, found, runs, raced>>

\* Reject, of a pending post, and Delete; both uphold the open flags.
Delete(p, over) ==
    /\ MayAct(p, over)
    /\ SetStatus(p, Deletable, "deleted")
    /\ Resolve(p)
    /\ UNCHANGED <<dismissed, appealed, refused, files, requests, found, runs, history>>

\* A slip: whatever the post was before, it is active.
RestoredActive(p) == "active"

\* A post deleted before anyone approved it goes back to the queue.
RestoredTo(p) == IF deleted_from[p] = "pending" THEN "pending" ELSE "active"

\* Restoring grants the appeal.
Restore(p, over) ==
    /\ MayAct(p, over)
    /\ SetStatus(p, {"deleted"}, RestoredTo(p))
    /\ appealed' = appealed \ {p}
    /\ raced' = raced \ {p}
    /\ UNCHANGED <<flags, stale, dismissed, refused, files, requests, found, runs, approved>>

\* Purge only enqueues the job, which may change locked posts if the moderator may.
AskPurge(p, over) ==
    /\ status[p] = "deleted"
    /\ MayAct(p, over)
    /\ p \notin appealed
    /\ queue' = queue \cup {<<p, over>>}
    /\ UNCHANGED <<post_rows, reports, files, requests, found, at, task, saw_appeal, history>>

\* Dismissing the open flags makes a flagged post active again.
Dismiss(p, over) ==
    /\ MayAct(p, over)
    /\ OpenFlags(p) # {}
    /\ Resolve(p)
    /\ dismissed' = dismissed \cup OpenFlags(p)
    /\ IF status[p] = "flagged"
       THEN SetStatus(p, {"flagged"}, "active")
       ELSE UNCHANGED post_rows
    /\ UNCHANGED <<appealed, refused, files, requests, found, runs, history>>

\* By someone who may lock posts.
SetLocks(p) ==
    /\ status[p] \in Stored
    /\ locked' = IF p \in locked THEN locked \ {p} ELSE locked \cup {p}
    /\ UNCHANGED <<status, deleted_from, purging, overdue, reports, files, requests, found, runs,
                   history>>

\* A status lock doesn't keep an appeal from being turned down.
TurnDown(p) ==
    /\ p \in appealed
    /\ appealed' = appealed \ {p}
    /\ refused' = refused \cup {p}
    /\ raced' = raced \ {p}
    /\ UNCHANGED <<post_rows, flags, stale, dismissed, files, requests, found, runs, approved>>

-------------------------------------------------------------------------------
(* Flags and appeals: the request checks the post, the lock and earlier    *)
(* ones, then a transaction locks the row and checks again, but the lock.  *)

MayFlag(p, u)  == <<p, u>> \notin flags \cup dismissed
MayAppeal(p)   == p \notin appealed \cup refused

CheckFlag(p, u, over) ==
    /\ status[p] \in Stored
    /\ MayAct(p, over)
    /\ MayFlag(p, u)
    /\ flagging' = flagging \cup {<<p, u>>}
    /\ UNCHANGED <<post_rows, reports, files, appealing, found, runs, history>>

\* A slip: whatever the post has become since.
FlagAnyway(p, u) ==
    /\ <<p, u>> \in flagging
    /\ flagging' = flagging \ {<<p, u>>}
    /\ IF MayFlag(p, u)
       THEN /\ flags' = flags \cup {<<p, u>>}
            /\ status' = [status EXCEPT ![p] = IF @ = "active" THEN "flagged" ELSE @]
       ELSE UNCHANGED <<flags, status>>
    /\ UNCHANGED <<deleted_from, purging, locked, overdue, stale, dismissed, appealed, refused,
                   files, appealing, found, runs, history>>

CreateFlag(p, u) ==
    /\ <<p, u>> \in flagging
    /\ flagging' = flagging \ {<<p, u>>}
    /\ IF status[p] \in {"active", "flagged"} /\ MayFlag(p, u)
       THEN /\ flags' = flags \cup {<<p, u>>}
            /\ status' = [status EXCEPT ![p] = "flagged"]
       ELSE UNCHANGED <<flags, status>>
    /\ UNCHANGED <<deleted_from, purging, locked, overdue, stale, dismissed, appealed, refused,
                   files, appealing, found, runs, history>>

CheckAppeal(p, over) ==
    /\ status[p] = "deleted"
    /\ MayAct(p, over)
    /\ MayAppeal(p)
    /\ appealing' = appealing \cup {p}
    /\ UNCHANGED <<post_rows, reports, files, flagging, found, runs, history>>

\* Runs whose start_purge has its snapshot, without the appeal, and waits for the row.
AskedWithoutAppeal(p) == {w \in Runs : at[w] = "asked" /\ task[w][1] = p /\ ~saw_appeal[w]}

\* A slip: a post that is being purged may be appealed.
AppealOfPurging(p) ==
    /\ p \in appealing
    /\ appealing' = appealing \ {p}
    /\ IF status[p] = "deleted" /\ MayAppeal(p)
       THEN /\ appealed' = appealed \cup {p}
            /\ raced' = IF AskedWithoutAppeal(p) # {} THEN raced \cup {p} ELSE raced
       ELSE UNCHANGED <<appealed, raced>>
    /\ UNCHANGED <<post_rows, flags, stale, dismissed, refused, files, flagging, found, runs,
                   approved>>

CreateAppeal(p) ==
    /\ p \in appealing
    /\ appealing' = appealing \ {p}
    /\ IF status[p] = "deleted" /\ p \notin purging /\ MayAppeal(p)
       THEN /\ appealed' = appealed \cup {p}
            /\ raced' = IF AskedWithoutAppeal(p) # {} THEN raced \cup {p} ELSE raced
       ELSE UNCHANGED <<appealed, raced>>
    /\ UNCHANGED <<post_rows, flags, stale, dismissed, refused, files, flagging, found, runs,
                   approved>>

-------------------------------------------------------------------------------
(* expire_stale: what stale() returned is gone through one transaction at  *)
(* a time; others act in between.                                          *)

FindStale ==
    /\ found = {}
    /\ found' =
        {<<p, "pending">> : p \in {q \in Posts : /\ status[q] = "pending"
                                                 /\ q \notin purging \cup locked
                                                 /\ q \in overdue}}
        \cup {<<p, "flagged">> : p \in {q \in Posts : /\ status[q] = "flagged"
                                                      /\ q \notin locked
                                                      /\ stale \cap OpenFlags(q) # {}}}
    /\ UNCHANGED <<post_rows, reports, files, requests, runs, history>>

\* A slip: the lock is not looked at again.
ExpireLocked(p, from) ==
    /\ <<p, from>> \in found
    /\ found' = found \ {<<p, from>>}
    /\ IF status[p] = from /\ p \notin purging
       THEN SetStatus(p, {from}, "deleted") /\ Resolve(p)
       ELSE UNCHANGED <<post_rows, flags, stale>>
    /\ UNCHANGED <<dismissed, appealed, refused, files, requests, runs, history>>

Expire(p, from) ==
    /\ <<p, from>> \in found
    /\ found' = found \ {<<p, from>>}
    /\ IF status[p] = from /\ p \notin locked \cup purging
       THEN SetStatus(p, {from}, "deleted") /\ Resolve(p)
       ELSE UNCHANGED <<post_rows, flags, stale>>
    /\ UNCHANGED <<dismissed, appealed, refused, files, requests, runs, history>>

\* A failed statement, or a worker that died.
ExpiryFails ==
    /\ found # {}
    /\ found' = {}
    /\ UNCHANGED <<post_rows, reports, files, requests, runs, history>>

-------------------------------------------------------------------------------
(* purge_post, of a job that may run again, or twice at once.              *)

\* start_purge's statement takes its snapshot and goes for the row.
Ask(w, j) ==
    /\ at[w] = "idle"
    /\ j \in queue
    /\ at' = [at EXCEPT ![w] = "asked"]
    /\ task' = [task EXCEPT ![w] = j]
    /\ saw_appeal' = [saw_appeal EXCEPT ![w] = j[1] \in appealed]
    /\ UNCHANGED <<post_rows, reports, files, requests, found, queue, history>>

Leave(w) ==
    /\ at' = [at EXCEPT ![w] = "idle"]
    /\ task' = [task EXCEPT ![w] = None]
    /\ saw_appeal' = [saw_appeal EXCEPT ![w] = FALSE]

\* Its job leaves the queue, however often it runs.
Done(w) == Leave(w) /\ queue' = queue \ {task[w]}

\* What the locked row says, and what the snapshot said of appeals.
Unblocked(w) ==
    LET p == task[w][1]
    IN /\ status[p] = "deleted"
       /\ p \in purging \/ (MayAct(p, task[w][2]) /\ ~saw_appeal[w])

\* start_purge has the row: it marks the post, or leaves it alone.
Mark(w) ==
    /\ at[w] = "asked"
    /\ IF Unblocked(w)
       THEN /\ purging' = purging \cup {task[w][1]}
            /\ at' = [at EXCEPT ![w] = "marked"]
            /\ saw_appeal' = [saw_appeal EXCEPT ![w] = FALSE]
            /\ UNCHANGED <<queue, task>>
       ELSE Done(w) /\ UNCHANGED purging
    /\ UNCHANGED <<status, deleted_from, locked, overdue, reports, files, requests, found, history>>

RemoveFiles(w) ==
    /\ at[w] = "marked"
    /\ files' = files \ {task[w][1]}
    /\ at' = [at EXCEPT ![w] = "emptied"]
    /\ UNCHANGED <<post_rows, reports, requests, found, queue, task, saw_appeal, history>>

\* finish_purge: the row goes, and its flags and appeals with it.
Finish(w) ==
    /\ at[w] = "emptied"
    /\ LET p == task[w][1]
       IN IF status[p] = "deleted" /\ p \in purging
          THEN /\ status' = [status EXCEPT ![p] = "gone"]
               /\ deleted_from' = [deleted_from EXCEPT ![p] = None]
               /\ purging' = purging \ {p}
               /\ locked' = locked \ {p}
               /\ overdue' = overdue \ {p}
               /\ Resolve(p)
               /\ dismissed' = {f \in dismissed : f[1] # p}
               /\ appealed' = appealed \ {p}
               /\ refused' = refused \ {p}
               /\ raced' = raced \ {p}
          ELSE UNCHANGED <<post_rows, reports, raced>>
    /\ Done(w)
    /\ UNCHANGED <<files, requests, found, approved>>

\* Storage refused, a statement failed or the worker died: the job runs again.
RunFails(w) ==
    /\ at[w] # "idle"
    /\ Leave(w)
    /\ UNCHANGED <<post_rows, reports, files, requests, found, queue, history>>

\* Its attempts are used up: the job is dead, whatever a late run of it does.
GiveUp(j) ==
    /\ j \in queue
    /\ queue' = queue \ {j}
    /\ UNCHANGED <<post_rows, reports, files, requests, found, at, task, saw_appeal, history>>

-------------------------------------------------------------------------------
(* The passing of time.                                                    *)

PostAges(p) ==
    /\ status[p] \in Stored
    /\ overdue' = overdue \cup {p}
    /\ UNCHANGED <<status, deleted_from, purging, locked, reports, files, requests, found, runs,
                   history>>

FlagAges(f) ==
    /\ f \in flags
    /\ stale' = stale \cup {f}
    /\ UNCHANGED <<post_rows, flags, dismissed, appealed, refused, files, requests, found, runs,
                   history>>

CooldownEnds ==
    /\ \/ \E f \in dismissed : dismissed' = dismissed \ {f} /\ UNCHANGED refused
       \/ \E p \in refused : refused' = refused \ {p} /\ UNCHANGED dismissed
    /\ UNCHANGED <<post_rows, flags, stale, appealed, files, requests, found, runs, history>>

-------------------------------------------------------------------------------
Moderate(p, over) ==
    \/ Approve(p, over)
    \/ Delete(p, over)
    \/ Restore(p, over)
    \/ AskPurge(p, over)
    \/ Dismiss(p, over)

Report(p) ==
    \/ \E u \in Users, over \in BOOLEAN : CheckFlag(p, u, over)
    \/ \E u \in Users : CreateFlag(p, u)
    \/ \E over \in BOOLEAN : CheckAppeal(p, over)
    \/ CreateAppeal(p)

Purge(w) ==
    \/ \E j \in queue : Ask(w, j)
    \/ Mark(w)
    \/ RemoveFiles(w)
    \/ Finish(w)

Next ==
    \/ \E p \in Posts, trusted \in BOOLEAN : Upload(p, trusted)
    \/ \E p \in Posts, over \in BOOLEAN : Moderate(p, over)
    \/ \E p \in Posts : SetLocks(p) \/ TurnDown(p) \/ Report(p) \/ PostAges(p)
    \/ FindStale
    \/ \E p \in Posts, from \in {"pending", "flagged"} : Expire(p, from)
    \/ ExpiryFails
    \/ \E w \in Runs : Purge(w) \/ RunFails(w)
    \/ \E j \in queue : GiveUp(j)
    \/ \E f \in flags : FlagAges(f)
    \/ CooldownEnds

Spec == Init /\ [][Next]_vars

-------------------------------------------------------------------------------
\* A post is flagged exactly while it has open flags, whoever deletes, restores,
\* dismisses, expires or flags it at once: a flagged post without flags would be
\* in no queue, an open flag on another post would never be settled
\* (flags::create, flags::resolve, set_status).
FlaggedByItsFlags == \A p \in Posts : status[p] = "flagged" <=> OpenFlags(p) # {}

\* Once a purge has marked a post it stays deleted until it is gone, and whatever
\* is not marked has its files: nobody restores a post that lost them
\* (start_purge, `NOT purging` in set_status, finish_purge).
FilesUntilPurging ==
    /\ \A p \in purging : status[p] = "deleted"
    /\ \A p \in Posts : status[p] \in Stored /\ p \notin purging => p \in files

\* A post with an open appeal is deleted and not being purged, unless the appeal
\* came between the snapshot of start_purge and its row lock (moderate,
\* appeals::create, start_purge).
AppealsWait == \A p \in appealed : status[p] = "deleted" /\ (p \in purging => p \in raced)

\* docs/src/admin/moderation.md, "deleting and restoring can't stand in for
\* approval": a post nobody approved is never shown, nor would restoring it show it.
ApprovedBeforeShown ==
    \A p \in Posts \ approved :
        /\ status[p] \notin {"active", "flagged"}
        /\ status[p] = "deleted" => deleted_from[p] = "pending"

\* Of a post whose status is locked, nobody without the permission changes it, nor
\* begins to purge it: not the expiry that found it before the lock, nor a purge
\* asked for before it. Only a flag does whose request had passed its check
\* (check_lock, stale, expire, start_purge).
LockedStatusStays ==
    [][\A p \in locked : status'[p] # status[p] \/ p \in purging' \ purging =>
          \/ p \in purging
          \/ Moderate(p, TRUE)
          \/ \E u \in Users : CreateFlag(p, u)
          \/ \E w \in Runs : task[w] = <<p, TRUE>> /\ Mark(w)]_vars

\* Where a post is in its life, as PostLife tells it.
Phase(p) ==
    CASE p \in purging -> "going"
      [] status[p] = "pending" -> "queued"
      [] status[p] \in {"active", "flagged"} -> "shown"
      [] status[p] = "deleted" /\ p \notin purging -> "hidden"
      [] OTHER -> status[p]

Life == INSTANCE PostLife WITH phase <- [p \in Posts |-> Phase(p)]

\* Moderators, expiry and purges, however they interleave, let each post live the
\* life that moderation promises: deleted_from is as good as remembering who
\* approved, and a post a purge has marked never comes back.
LivesAsPromised == Life!Spec

\* crates/jobs/src/media.rs and docs/src/admin/moderation.md: a post that has an
\* open appeal is left alone until the appeal is decided. It is not: see raced.
AppealedNotPurged == purging \cap appealed = {}
===============================================================================
