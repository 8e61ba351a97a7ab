# moekura in TLA+

moekura is a self-hosted image board: an HTTP server, a PostgreSQL database,
content-addressed file storage, and background workers that run in the server
or beside it, on one node or several. Nearly everything that can go wrong
between its parts goes wrong *between two SQL statements*: two nodes act on the
same rows, a worker dies after one of two writes, a file is deleted because of
what a query said a moment ago. The modules here state what those parts
promise, TLC checks it on small instances, and TLAPS proves the most important
of it for instances of every size.

Paths below are relative to `src/crates`. `PROJECT.json` maps each definition to
the lines it models.

| module | what it is |
| --- | --- |
| `JobQueue` | the table `jobs`, the workers, the reaper, the schedulers |
| `AtLeastOnce` | what the queue promises, without workers, locks and time |
| `TagRelations` | tag aliases and implications, the job that applies them, edits |
| `MediaFiles` | original files in storage and the rows that refer to them |
| `PostModeration` | a post's status, locks, flags, appeals, expiry and purges |
| `PostLife` | what moderation promises of one post, without all of these |
| `PostBatches` | deletions of a user's uploads and purges of many posts, as jobs |
| `Webhooks` | a webhook, its deliveries and the jobs that send them |
| `Renditions` | thumbnails and samples of a file that may be replaced meanwhile |
| `XProofs` | the theorems about module `X` |
| `MCX` | constants, bounds and symmetry of `X` for TLC |

Two abstract specifications hold the project together.

* `JobQueue` implements `AtLeastOnce`, and `PostBatches`, `Webhooks` and
  `Renditions` are composed with `AtLeastOnce` in place of the queue: each takes
  the queue's promise as its own environment, crashes and runs presumed dead
  included. That they ask no more of it is proved: each of their steps is one of
  `AtLeastOnce` or leaves it alone. So what `AtLeastOnceProofs` proves once, that
  no job dies early and none is lost, is carried over to the queue's rows, to
  batches, to deliveries and to files by instantiating that module.
* `PostModeration` and `PostBatches` both implement `PostLife`: one post between
  its moderators, and the many posts of a batch, live the same life.

## The system

| component | state | operations | interacts with |
| --- | --- | --- | --- |
| Job queue (`db/src/jobs.rs`, `jobs/src/lib.rs`) | rows `jobs`: status, attempts, run_at, locked_by, locked_until | enqueue (in the caller's transaction), enqueue_unique, claim, claim_limited, heartbeat, complete, fail, recover_abandoned, retry, discard | runs every job below; woken by NOTIFY |
| Tag relations (`db/src/tag_relations.rs`, `jobs/src/tags.rs`) | rows `tag_relations`: kind, pair, status | request, approve (with repointing), reject, remove, apply in batches | every edit, revert and upload reads the rules in force |
| Media files (`db/src/{media,staged_uploads,replacements}.rs`, `web/src/upload.rs`, `jobs/src/media.rs`) | stored keys; `media_assets`, `staged_uploads`, `post_replacements` | prepare, keep, post, stage, replace, forget, expire, remove an earlier file, purge | posts, the job queue, storage |
| Post moderation (`db/src/{posts,flags,appeals}.rs`, `web/src/moderation.rs`, `jobs/src/{posts,media}.rs`) | `posts`: status, deleted_from, purging, locks; rows of flags and appeals | upload, approve, reject, delete, restore, lock, flag, appeal, dismiss, turn down, expire stale, purge | media files (purge), job queue |
| Batches (`db/src/post_batches.rs`, `jobs/src/posts.rs`) | `post_batches`: status, resume_before, counts | delete a user's uploads, purge what is ticked or found | post moderation, job queue |
| Disapprovals | a moderator's note on a pending post | upsert, delete | none decides by it |
| Webhooks (`db/src/webhooks.rs`, `web/src/webhooks.rs`, `jobs/src/webhooks.rs`) | webhook: enabled, URL, network_failures, paused_until; deliveries: status | emit, test, edit, deliver, note, record, prune, delete | job queue (`at_most`) |
| Renditions (`db/src/media.rs`, `jobs/src/media.rs`) | variants, phash and metadata of an asset; stored renditions; working directories | process, replace, regenerate, purge | replacements, storage, job queue |
| Staged downloads (`db/src/staged_uploads.rs`, `web/src/uploads.rs`) | pending rows | claim, still_pending, stored, failed, fail_abandoned | media files, limits of an uploader |
| Mass edits, bulk updates (`db/src/{mass_updates,requests}.rs`) | progress, status | start, retag, run commands, finish | tag relations, job queue |
| Site cache (`db/src/site_cache.rs`) | each node's snapshot of settings, roles, bans | reload on NOTIFY, on reconnect, after a change | every request |
| Accounts (sessions, second factor, passkeys, keys, invites, bans) | rows with expiry and counters | single conditional statements, or a row lock over one check | every request |
| Promotion, rate limits, search, tagger, media tools, import/export, pages, APIs | see `PROJECT.json` | | |

What is hard, and what makes it right:

* **Queue.** Workers crash, stall longer than their lock, and report late;
  claims count rows they have not locked. Right means: a job leaves the queue
  only by success, discard or exhaustion; a late report changes nothing; live
  workers never share a job; limited kinds keep their limit; every job settles.
* **Tag relations.** Requests, decisions, rewrites and edits interleave. Right
  means: the rules in force never conflict, and posts obey them once they are
  applied.
* **Media files.** Storage takes part in no transaction. Right means: a file
  that some row needs stays stored, whatever is cleaned up beside it.
* **Post moderation.** A post is deleted, appealed, restored and purged by
  several moderators and jobs that decided on what they read before. Right means:
  a purge's post never comes back half, an open appeal keeps its post, flags end
  with their cause, nothing unapproved is shown, a status lock binds.
* **Batches.** A run stops anywhere, starts again from what it recorded, and may
  meet itself. Right means: no post is missed or left between two states, and a
  batch that says "running" has somebody who will finish it.
* **Webhooks.** At-least-once runs of a delivery. Right means: the queue forgets
  no delivery, the log says what happened, and only a receiver that failed is
  put on pause.
* **Renditions, downloads, cache.** Late results. Right means: the last state
  is that of the last file, download or change.

`PROJECT.json` lists these hazards at their lines, with the properties that
cover them or why none does.

## Plan

Most important behaviour first; 1 to 7 are complete, with a theorem for each
safety, action and refinement property that the runs check.

1. `JobQueue`, `AtLeastOnce`, proofs: everything asynchronous rests on it.
2. `TagRelations`, proofs: the invariants the source itself lists, and the
   job that applies them.
3. `MediaFiles`, proofs: losing originals is the worst this program can do.
4. `PostModeration`, `PostLife`, proofs: the one row that most actors change.
5. `PostBatches` over `AtLeastOnce`, proofs: progress that survives its worker.
6. `Webhooks` over `AtLeastOnce`, proofs: what the log may say.
7. `Renditions` over `AtLeastOnce`, proofs: processing against replacing.
8. Left: `TagRelations` extended by mass edits, undone edits and bulk updates,
   and what a rewrite does whose rule was removed meanwhile (`BatchesRunOut` is
   about rules in force).
9. Left: staged downloads with an uploader's limit; `WorkerWake` (NOTIFY, polls,
   lost connections); `SiteCache`.

## The job queue

**State.** `status`, `attempts`, `locked_by` are columns, `"absent"` is no row.
Time enters the statements only through comparisons with `now()`, so `due` is
the rows with `run_at <= now()`, `older` their order, and `live` the rows with
`locked_until > now()`; `BecomeDue` and `ExpireLock` are time passing. `pc`,
`job`, `attempt`, `outcome` are a worker's place in its loop, `claim_lock` the
advisory lock of limited claims, `inserting` a scheduler's uncommitted row.
`returned` is history.

**Steps.** A statement is a step; a transaction whose locks make it serial is
one too. Two are split because others act in between: a claim (`BeginClaim`
chooses and locks, `CommitClaim` shows it to others) and a scheduler's insert.
Running a handler and reporting are separate steps, since locks expire between.
`Crash` may hit a worker wherever it is, which covers nodes that die and jobs
killed after the shutdown's grace (`app/src/main.rs`); `ClaimFails`,
`ReportFails` and `SchedulerFails` are refused statements. An id is reused only
when nothing names it, so a finite set stands for an endless sequence.
Left out: NOTIFY and polls (a worker looks again at any time), wording of
errors, lengths of backoffs, and the branch for a kind without a handler, which
claims never return.

**Properties.** `OwnerRunsThePresentAttempt` is why `complete` and `fail` may
ask for nothing but `locked_by`. `LiveLockRespected` says what a step may never
do. `KeepsPromise` is refinement of `AtLeastOnce` under the mapping `Fate`.
`NeverTwice` and `LimitKept` hold of workers that keep their heartbeats
(`Stalls = FALSE`); with stalls the system promises no exclusion.

| run | bounds | shows |
| --- | --- | --- |
| `JobsFaulty` | an ordinary job and one of a kind limited to 1; 2 workers; stalls; 1 crash or failed statement; 1 retry by an administrator; 2 attempts | types and the three safety properties above, and `AtLeastOnce` |
| `JobsCalm` | 2 jobs of a kind limited to 1 and 2 of a scheduled kind; 3 workers, one of a registry without limits; 2 schedulers; no stalls; 1 fault | exclusion, limits, single scheduling |
| `JobsSettle` | 2 jobs of a limited kind whose handlers may hang and one that settles; 2 workers, no stalls, 1 fault, endless submissions | every job settles |

Two workers suffice for a stalled one and its successor; three for a pair
claiming by turns beside a third that needs no lock; two
attempts for a first and a last; one fault at a time because each property's
counterexample in a slipped model needs at most one (the mutants in
`PROJECT.json` show it). The theorems then hold for all numbers of jobs,
workers, faults and retries.

**Fairness.** Workers loop, the reaper and the clock tick, so their steps are
weakly fair. Claiming is strongly fair: another worker may take the advisory
lock again and again, but PostgreSQL queues its waiters. A handler returns only
if its kind is not `Slow`. Restarting is weakly fair because a supervisor
restarts nodes. Nothing is assumed of administrators and of those who enqueue.

**Proofs.** The inductive invariant `IInv` has the types and four agreements of
two parties: a row runs exactly when it has an owner (`RowsAgree`); a claim under
way has its queued row to itself (`ClaimsAgree`); a worker that is still its
row's owner remembers its present attempt (`RunsAgree`); a row being inserted
is new and one scheduler's (`InsertsAgree`). They are needed together: that a
report touches only the present attempt depends on `recover_abandoned` and
`fail` clearing `locked_by`, and on a worker claiming nothing before it let go.
Exclusion adds `Alive` (without stalls an executing worker owns its row and its
lock is live) and limits add a count of rows claimed or running. The refinement
is proved action by action. `DeadJobsWereTried` and `NoJobIsLost` are then the
theorems of `AtLeastOnceProofs` read through the mapping.

| theorem | holds under |
| --- | --- |
| `Typing`, `OwnersRunThePresentAttempt`, `AttemptsAreBounded`, `LiveLocksAreRespected`, `QueueKeepsItsPromise`, `DeadJobsWereTried`, `NoJobIsLost` | the named assumptions on the constants |
| `NoJobRunsTwice`, `LimitsAreKept` | and no stalls |
| `OneIsScheduled` | and no dead job put back by an administrator |

## Tag relations

**State.** A row's `status` and `rule` (kind, from, to); each post's `tags`;
for each relation the rewrite `job` with what it has `read`, what it will `add`
and the posts its batch `found`; for each post the tags of an open edit, with
aliases replaced (`resolved`) and then as it will write them (`editing`). Three
are history: the relations approved since an open edit (`overtaken`) or a rewrite
under way (`outdated`) read the rules, and the posts that such a writer wrote
since the rewrite of a relation last looked for posts (`missed`).

**Steps.** A request, approval, rejection or removal is one: approvals are
serial by an advisory lock, and what runs beside one only takes active rules
away. `RulesHold` is `check_rules`, `Repoint` and `Collides` the UPDATE of
aliases and the unique index it may meet. The recursive query is the least set
closed under the implications.

A rewrite is read by read (`ReadRelation`, `ReadImplied`) and batch by batch.
A batch is one statement, but not one step, as it waits for posts that edits hold:
`LookForPosts` is its snapshot, `PassOver` a post that it waited for and that is
no match any more, `RewriteBatch` its writing of one that is. A batch writes one
post of up to 500 and looks again, which allows more interleavings, not fewer.
One that changed nothing of what it found ends the rewrite (`FinishRewrite`),
whatever the posts it did not find are like by then. `CutShort` is its worker's
death: the queue runs it again, as `JobQueue` shows.

An edit holds the post's row over three steps: it reads the aliases
(`ReadAliases`), then the implications (`ReadImplications`), which are two
statements with a snapshot each, and commits.

**Properties.** `RulesConsistent` is the list at the head of
`tag_relations.rs`. `OpenEditsAreClosed` says that one level of aliases and one
closure are enough, whatever is approved, repointed and removed between the two
reads: an edit obeys each rule in force that was approved before it read rules of
that kind. `AppliedRulesHold` says that a rule whose rewrite is over
holds, with any number of rewrites at once, on all posts but those written, since
that rewrite last looked, by an edit or a rewrite that had read the rules before.
`BatchesRunOut` is why the loop of a rewrite ends: each batch leaves strictly
fewer posts to write.

| run | bounds | shows |
| --- | --- | --- |
| `TagRules` | 3 tags, 2 posts, 2 rewrites at a time; 3 relations on one post, or 2 with an edit or the death of a rewrite, or one on two posts with 2 of these | types, consistent rules, edits that follow them, finished rules that hold, rewrites that end |

Three tags and three relations give chains, loops, repointing and a rule that is
approved while two others are under way. `MaxWork` bounds the rows in use and the
edits and deaths together, in the guards. Two relations are an alias into an
implication, beside an edit; a rule removed between an edit's reads and the reverse
of it approved takes two rows and the edit. Two posts matter where a batch waits
for one of them and an edit overtaken writes the other: one relation and two
edits. The constraint `FewAtOnce` keeps to that: on two posts one relation and the
two tags it is about, and one rewrite at a time beside edits and deaths. The
theorems cover all of it at once and any number.
Two rewrites at a time are the default of the code, and what makes one write over
the other. The view `Seen` leaves out what a settled row remembers and nothing reads
again. Deadlock is not checked: all requests may be decided and every edit made.

**Proofs.** `RulesConsistent` with the types is inductive together with
`OpenRowsDiffer` (no two open rows say the same), which repointing needs. The
core is in the lemmas on reachability: adding one pair to a set of pairs makes a
loop only if its end already led to its start, and fewer pairs reach less. That
an approval checks loops against implications in force, while aliases move,
is why aliased tags must stay out of implications.

`EditsFollowTheRules` adds what an edit has between its reads (`ResolvedHold`): no
tag with an alias that was in force at the first. The implications of the second
read add none either, since no aliased tag is in an implication, then or later.

`AppliedRulesKeepHolding` and `RewritesRunOut` need `RInv` besides, which is about
what a rewrite knows. A rule is never approved while it is rewritten
(`OwnRuleKnown`); as long as its row is in force, the rule read is
the row's, but that an alias may have been repointed (`ReadMatches`); the rewrite
adds its consequent (`AddsConsequent`); what it writes obeys
each rule in force approved before it read its own (`RewritesSpare`); and once it
has looked, its rule holds on every post it did not find or has passed over, but
those in `missed` (`LookedHold`). The last two are the heart of it: a rewrite may
take away a tag or add some, and neither may break a rule that was applied before;
and that a rewrite ends on an old snapshot is made good by every writer since
having read the rule, if it is not in `missed`. For `BatchesRunOut`,
`RewritesSpare` is used of the rewrite's
own rule: the tags it adds never hold its antecedent, whatever was approved
between its two reads, so a written post is not matched again.

## Media files

**State.** `stored` is the set of keys in storage; `asset`, `staged`,
`replaced` are the rows; `at`, `file`, `row`, `post` a request's place; `lock`
the advisory lock of a file. `doomed`, `removing`, `purge`, `todo` are the
deletions under way. `raced` and `withdrawn` are history: files that were
recorded while an unlocked deletion had picked them, and files that a purge or
a removal deleted.

**Steps.** Every statement whose result is acted on later is a step, and so is
each deletion of a file. An upload is `Prepare` (store unless stored), `Keep`
(lock the key, check that the file is there), and a commit: `CommitPost`,
`CommitStage` or `CommitReplace`; a refusal leads to `Forget`, the clean-up
under the same lock. `post_staged` starts from `OpenStaged` and ends with
`MarkUsed`. `Expire`, `CheckOld` to `CommitOld`, and `StartPurge` to
`FinishPurge` delete without the lock, as the code does. Requests, expiries,
removals and purges may die at every step, without a bound: their
transactions roll back, their files stay as they are. `FinishPurge` includes
what the foreign keys do. A purge under way may still have its file replaced,
as `web/src/replacements.rs` does not ask.
Left out: rows that wait for a download and limits; renditions and the post's
status, flags and appeals have modules of their own.

**Properties.** `PostsKeepFiles` and `WaitingKeepFiles` say that files are lost
in one way only: recorded while an unlocked deletion had picked them. So they
state both that the lock of `keep_original` does its work against clean-ups and
where it does not reach; `FileExpiredUnderUpload` is that case by itself.

| run | bounds | shows |
| --- | --- | --- |
| `MediaFiles` | 2 files, 2 posts, 1 staged row, 1 replacement, 2 requests | types and the two properties |
| `FileExpiredUnderUpload` | 1 post, 1 request | violated: an expiry deletes a post's file (`jobs/src/media.rs:151`) |

Two files give a replacement, two posts a file that one gave up and the other
took, two requests a clean-up beside a recording. Sharing of one file by several
staged rows is beyond the run and within the theorems.

**Proofs.** The invariant says that a file on record is raced, or stored
and not picked for deletion (`PostsSafe`, `RowsSafe`), that a request between
`Keep` and its commit has the lock and its file is stored or raced
(`KeptStored`), and that the post made of a staged upload has its file or a
replacement that names it (`PostedRefer`), so that a purge, which makes the
upload wait again, cannot surprise it. `Forget` is the step
that needs it: the lock it waits for keeps every recording of the file out, and
`OriginalUsed` names every row that counts. All three theorems hold for all
sets of files, rows and processes.

## Post moderation

**State.** `status`, `deleted_from`, `purging` and `locked` are the columns of a
post; `flags` and `appealed` the open rows of `post_flags` and `post_appeals`.
Time enters through comparisons again: `overdue` posts and `stale` flags are
older than the `stale_posts` setting allows, `dismissed` and `refused` are
within their cooldown. `flagging` and `appealing` are requests that passed their
checks, `found` what is left of the list that `stale()` returned, `queue` the
jobs `media.purge` with the moderator's permission to override locks, and
`at`, `task`, `saw_appeal` their runs. `approved` and `raced` are history.

**Steps.** A transaction that locks the post's row first is one step. What a
request read before its transaction is a step before it: `CheckFlag` and
`CheckAppeal`, the expiry's `FindStale`, and `Ask`, the snapshot of
`start_purge`, the one statement that waits for the row and looks into another
table. A purge goes on with `Mark`, `RemoveFiles` and `Finish`, and may fail or
die anywhere (`RunFails`), run twice at once, or be given up with the post
marked. `over` is the permission to change locked posts.

**Properties.** `FlaggedByItsFlags` relates the status to the flags under every
order of flagging, dismissing, deleting and expiring. `FilesUntilPurging` says
that nobody gets back a post that lost its files. `AppealsWait` says that
appeals hold off purges, except those that came between snapshot and lock
(`raced`); `PurgedUnderAppeal` is that exception by itself.
`ApprovedBeforeShown` is why `deleted_from` is enough to restore a post.
`LockedStatusStays` says what a step may never do to a locked post, whatever was
found or asked for before the lock, and names the one step that does, a flag
whose request had passed its check. `LivesAsPromised` is refinement of
`PostLife`, with `purging` and `status` mapped to a phase.

| run | bounds | shows |
| --- | --- | --- |
| `PostModeration` | 1 post, 2 users, 2 runs of purges | types, the five properties, `PostLife` |
| `PurgedUnderAppeal` | the same | violated: an appealed post is purged (`db/src/posts.rs:424`) |

Posts share nothing but the tables, and every statement names its post, so one
is enough. Two users give a second flag on a flagged post; two runs a purge that
outlives its lock beside its successor, or two jobs with different permissions.
Nothing else is bounded. Deadlock is not checked, as the post may be gone.

**Proofs.** The inductive invariant has the types, the properties themselves,
and what they lean on: a run past `Mark` has its post marked or gone, so that it
deletes no other post's files (`RunsAgree`); only
posts that exist are locked (`LockedExist`); an appeal on a post that a run is
about to mark unseen is `raced` (`MissedAreRaced`); `approved` and
`deleted_from` agree (`ApprovalsAgree`). The refinement is proved action by
action from `ApprovalsAgree`.

## Batches of post moderation

**State.** `post` is where each post of one user stands, in the order of their
ids; `kind`, `status`, `resume` (`resume_before`) and `failed` are a batch's row,
`targets` the posts ticked, or that its search would find now; `state`, `begun`,
`results` its job's variables of `AtLeastOnce`. A run has its place, the batch,
the page it listed and `before`, where the next one begins. `steady` (posts that
have been as a batch wants them all along, and found by it if it is a search),
`marker` (who marked a post as being purged), `strayed` (posts a search stopped
finding, until a run lists them again), `overlapped` and `discarded` are history.

**Steps.** Starting a batch is one transaction with its job. The job is read by
read: the batch's row, `start`, a page (`List`), then either the whole page in one
transaction (`DeletePage`), which also records the progress, or post by post, with
`start_purge`, the deletion of its files, `finish_purge` and `record_purge` as
steps of their own. The posts ticked are kept; a search is made again for each run
and page, and what it finds depends on tags, ages and votes: any post may come to
be found or not found at any moment (`FindsOther`). Locks and appeals are a choice
here, since `PostModeration` has them. Several failures in a row end the run
uncounted (`StopFailing`). Anybody may upload, delete or restore a post in
between, and a job that purges this post alone may mark it (`MarkAlone`) or finish
what it or a batch began (`FinishAlone`).

**Properties.** `DoneMissesNone` is what a user reads in "done": no post that
stayed as the batch wanted it was left out, whatever crashed. For a search that
includes being found. `NoneLeftHalfway` says that each post a batch marked as
being purged is counted as failed, or still before the open batch, or that the
batch says it failed. It names those it is false of: posts the search stopped
finding before a run listed them again (`strayed`), and batches with two runs at
once. `OpenHasJob` and `OneDeletionAtOnce` guard against a user whose uploads are
"already being deleted" for ever, or by two at once. They, too, except batches
with two runs at once or a discarded job, and *Found without a run* says why.
`LivesAsPromised` is refinement of `PostLife` under `Phase`: no overlap and no
crash makes a batch purge a post that is not deleted, or bring one back.

| run | bounds | shows |
| --- | --- | --- |
| `PostBatches` | 3 posts, 2 batches, 2 runs, pages of up to 2 posts, 2 failures in a row, 2 attempts | types, the four properties, `PostLife` |

The constraint `FewAtOnce` keeps to two batches over one post, neither of which is
dead, failed, discarded or run twice; or one batch, with all of that, over one
post, which may be purged alone as well (a search without that and a dead job); or
one over two posts without a dead job, and with two runs if it is a deletion; or
one over three ticked posts without a dead job or a second run. Each
counterexample of a slipped model lies in one of these, and the theorems have no
bounds. Three posts on pages of two give a next post on the page and a next page.

**Proofs.** `NoneMissed` carries `DoneMissesNone`: every steady post of a batch
nobody ran twice is below where its run, or its row, will look next, or on the
page, or counted. `AloneAgrees` ties such a run to its row; `SteadyAgrees` ties
`steady` to what posts are. `NoneLeftHalfway` needs `MarkersKnown`, and that
what such a run's batch has marked is still on its page, or ahead, or counted, or
strayed (in `AloneAgrees`); `OpenHasJob` needs `ContentWhenFinished`: the queue
may let go of a job only after a result that the handler gives with the batch
closed. The same lemma and `AtLeastOnceProofs` give `StoppedBatchesWereTried`: a
batch that stands still half done, and never ran twice at once, was tried as often
as allowed. The refinement is proved step by step and needs only the types.

## Webhooks

**State.** One webhook's row (`there`, `enabled`, `public`, `failures`,
`paused`), the `status` of its deliveries, their jobs as in `AtLeastOnce`, and
each run's place, answer and result. History: deliveries a receiver `accepted`,
those `closed` (nobody is to have them), those two runs `overlapped` on, runs
that read the webhook before its URL changed (`strays`), and failures of the
present URL (`own`).

**Steps.** Each statement of `deliver()` is a step: reading the delivery, reading
the webhook, the request, the note on the webhook and the record in the log. The
request may be taken and not answered, or answered and cut off. Administrators
edit, delete, prune and test at any moment; pauses end at any moment.

**Properties.** `NothingForgotten` says that a delivery that nobody got is still
somebody's job. `DeliveredWasAccepted` says the log does not lie, and
`DeliveredStays` that it does not change its mind. `PausedFairly` says that a new
URL is not paused for its predecessor's failures, but for those of the runs that
were on their way to it.

| run | bounds | shows |
| --- | --- | --- |
| `Webhooks` | 1 delivery, 2 runs, 2 attempts, a pause after 3 failures | types and the four properties |

Deliveries meet only in the counter of failures, which one delivery's runs reach
as well. Failures are told apart up to the pause.

**Proofs.** The inductive invariant ties each run to its delivery's job and row
(`RunsAgree`, `RowsKnown`), says that the run of a delivery that never overlapped
is the only one that can change it (`DeliveredAlone`), that a job may end only
with its delivery settled (`ContentWhenSettled`), that answers held in memory
were given (`AnswersAreTrue`), and counts failures against `own` and the strays
(`Counted`), which is arithmetic on finite sets. No answer of a receiver fails a
job for good, so `DeadDeliveriesWereTried`, from `AtLeastOnceProofs`, needs no
exception: a dead delivery was tried as often as allowed.

## Renditions

**State.** One asset: its present `file`, and `variants`, `phash`, `metadata`,
each as the file it was made from, so that a late result is visible. `stored` is
what lies under each key, `due` what requests have yet to delete, `scratch` the
working directory `job-media-<asset>` of each process, which its runs share.
`enqueued` and `ordered` number the jobs. `crossed` is history: the present file
came while a run of an earlier one was under way, or while renditions under its
own name were still to be deleted.

**Steps.** A replacement clears the row and enqueues in one transaction, then
deletes rendition by rendition, and may die doing so. A run reads the row,
empties the directory and fetches the original, reads metadata, then makes and
records each kind, and marks the file processed. A run that finds its original
gone takes it for damage. The purge, `regenerate-media` and the queue act in
between; `Crash` ends all runs of a process.

**Properties.** `UnprocessedHasJob` says that no file waits for nothing.
`RenditionsOfTheFile` and `ProcessedInFull` say that pages show what was made of
the present file, all of it and only that, unless the file `crossed`;
`StaleRendition` is what may happen then.

| run | bounds | shows |
| --- | --- | --- |
| `Renditions` | 2 files, one too small for a sample; 2 runs in one process; 3 jobs of 1 attempt | types and the three properties |
| `StaleRendition` | 2 jobs | violated: a sample of the replaced file is shown for good (`jobs/src/media.rs:392`) |

Two files show a change and, in turn, a return to the first; one process has the
shared directory, which is what makes two runs interesting. Three jobs allow two
replacements, one after the other. `FewAtOnce` keeps dead and discarded jobs to
the first.

**Proofs.** `CalmIsRight` says of a file that did not cross that everything
written is its own, down to what runs hold and what their directory has;
`JobToDo` that the job ordered with the file is there until it is processed.
`StuckFilesWereTried`, from `AtLeastOnceProofs`, says of a file whose job is dead
that all its attempts were made or one found it damaged.

## What is only model-checked, and what is not modelled

Liveness (`EveryJobSettles`) is checked by TLC and not proved: the proof system
has no rules for fairness over these actions that its backends could use. Only
the queue claims liveness: what the other modules promise in the end follows
from a job that is run until it ends, and retries may be used up, so no fairness
is stated for them. The three properties that fail are shown by their
counterexamples. What recursive queries compute is defined as a least set and
proved about as such; the recursion of PostgreSQL itself is taken for that set.

`PostBatches`, `Renditions` and `TagRules` run under a constraint and a view that
leaves out history nothing will read. With both, and symmetry, TLC may keep one of
several states that look alike, and which one depends on the order of its workers:
the count of states varies a little between runs. A view leaves out only what
neither later steps nor the properties depend on.

PostgreSQL is taken at its word: statements are atomic, READ COMMITTED sees
what was committed, row and advisory locks are exclusive and end with their
transaction, unique indexes refuse. A statement that waits for a row lock goes
on with the row as committed, and with its old snapshot of every other row.
Storage is a set with atomic put and delete. Users are not deleted.
Everything listed as `not_modelled` in `PROJECT.json` is outside the modules,
with the reason given there. Much of that code has no protocol: parsers, pages,
formats, and single statements, for which a test is the better tool.

### Found without a run

Divergences met while modelling, each at its line, besides the three that the
violated runs show:

* A heartbeat that comes after its lock expired, and before the reaper, revives
  the lock; meanwhile a limited kind's slot was taken (`db/src/jobs.rs:185`).
* With two rewrites at a time, the default, a batch of the older can undo what a
  finished rule had applied (`jobs/src/tags.rs:103`): these are posts in `missed`.
* An alias may be removed between the two reads of its rewrite, and the
  implication from its consequent back to its antecedent approved: then the
  rewrite adds the tag it takes away and writes the same posts for ever
  (`jobs/src/tags.rs:69-83`, `103`). Hence `BatchesRunOut` is about rules in
  force.
* A batch of a rewrite that waits for a post an edit holds goes on with its
  snapshot of the others. If the edit takes the tag away, the batch changes
  nothing and the rewrite is over (`jobs/src/tags.rs:114`), though an edit that
  read the rules before the approval gave another post the tag meanwhile
  (`db/src/tag_relations.rs:512-527`): that post keeps it. It is in `missed` too,
  since the rewrite had looked.
* A purge by search is retried with the search made again
  (`jobs/src/posts.rs:155`, `176`). A post that a run marked before it crashed,
  and that was retagged since, is not found: it is passed over, not counted as
  failed, and the batch is done with the post still marked as being purged, which
  nobody can restore and only a purge of the post alone, or another batch, ends.
  These are posts in `strayed`.
* Approving an alias repoints others into the unique index, which then refuses
  the approval that all checks had passed (`db/src/tag_relations.rs:431`).
* The expiry of staged uploads does not count the files of `post_replacements`
  as used (`db/src/staged_uploads.rs:457`).
* `jobs/src/posts.rs:22-24` says that after failures in a row the batch is
  retried "from the first of them"; `record_purge` has counted all but the last,
  and the retry starts after those.
* The expiry looks at status and lock again, but not at age or flags
  (`db/src/post_batches.rs:313-319`): a post flagged anew, or approved and flagged
  again, since the list was made is deleted with it.
* A post restored to the queue keeps its `created_at`, so that the next hourly
  expiry deletes it again.
* `flag_post` and `appeal_post` look at the status lock only before their
  transaction (`web/src/moderation.rs:321`, `585`).
* `start` sets any batch to "running" (`db/src/post_batches.rs:158-164`): a run
  presumed dead reopens a batch that is done. A discarded dead job leaves its
  batch "running" for ever too. Either way no deletion of that user's uploads can
  be started again. A crash between `finish_purge` and `record_purge` counts a
  purged post as skipped.
* Two runs of one delivery: the later can write "failed" over "delivered"; and
  failures of a URL already changed count against the new one, one for each run.

## Running

```
tlc -workers 2 -config JobsFaulty.cfg MCJobQueue.tla
tlapm JobQueueProofs.tla
```

The first line of each `.cfg` says what it asks; `PROJECT.json` names the module
of each. Each run takes one to two minutes with two workers; of the
proofs, `PostBatchesProofs` takes seven and the others one to three.
