------------------------------- MODULE JobQueue -------------------------------
(***************************************************************************)
(* The background job queue: the rows of the PostgreSQL table `jobs`       *)
(* (crates/db/src/jobs.rs) and the worker loops, reaper and schedulers of  *)
(* every node that works on it (crates/jobs/src/lib.rs).                   *)
(*                                                                         *)
(* One SQL statement, or one transaction whose locks make it serial, is    *)
(* one step. The claim is two steps, because its row lock and its advisory *)
(* lock are held from the SELECT to the COMMIT and other workers act in    *)
(* between; so is a scheduler's insert. Running a handler and writing its  *)
(* result are two steps, because the row's lock can expire in between.     *)
(*                                                                         *)
(* Time is abstracted to what the statements compare with now(): `due` is  *)
(* the rows with run_at <= now(), `older` orders them by run_at, `live` is *)
(* the rows with locked_until > now(). The passing of time is the actions  *)
(* BecomeDue and ExpireLock.                                               *)
(***************************************************************************)
EXTENDS Naturals, FiniteSets

CONSTANTS
    Jobs,         \* ids of rows; an id is reused only once nothing refers to it
    Kinds,        \* job kinds
    Kind,         \* [Jobs -> Kinds]
    MaxAttempts,  \* [Jobs -> Nat \ {0}], the column max_attempts
    Workers,      \* worker ids, `host-pid-n`, of every node
    Handles,      \* [Workers -> SUBSET Kinds], the kinds of the worker's registry
    Limited,      \* kinds with an `at_most`
    Most,         \* [Limited -> Nat \ {0}], how many of them run at once
    Slow,         \* kinds whose handlers may never return
    Scheduled,    \* kinds with an `every`
    Schedulers,   \* nodes that schedule them
    None,         \* SQL's NULL
    Stalls,       \* whether a live worker may miss its heartbeats for a lock's length
    MaxFaults,    \* bound: crashes, shutdowns and failed statements in a behaviour
    MaxRetries    \* bound: dead jobs an administrator puts back

ASSUME JobsAssumption ==
    /\ IsFiniteSet(Jobs)
    /\ Kind \in [Jobs -> Kinds]
    /\ MaxAttempts \in [Jobs -> Nat \ {0}]
    /\ None \notin Jobs \cup Workers \cup Schedulers
ASSUME WorkersAssumption ==
    /\ Handles \in [Workers -> SUBSET Kinds]
    /\ Limited \subseteq Kinds
    /\ Most \in [Limited -> Nat \ {0}]
    /\ Scheduled \subseteq Kinds
    /\ Slow \subseteq Kinds
ASSUME BoundsAssumption ==
    /\ Stalls \in BOOLEAN
    /\ MaxFaults \in Nat
    /\ MaxRetries \in Nat

VARIABLES
    \* the table
    status,       \* "absent" where there is no row
    attempts,     \* runs begun, including the present one
    locked_by,    \* the worker that claimed the row, or None
    live,         \* rows whose locked_until is in the future
    due,          \* rows whose run_at has passed
    older,        \* <<i, j>>: i comes before j in ORDER BY run_at, id
    \* the processes
    pc,           \* where each worker is
    job,          \* the row each worker has claimed, or None
    attempt,      \* the `attempts` its claim returned
    outcome,      \* what its handler returned, or None
    claim_lock,   \* the worker that holds the advisory lock of limited claims
    inserting,    \* the row each scheduler has inserted and not committed
    \* bookkeeping of the model
    faults, retries,
    returned      \* history: what the runs of the row since it was queued returned

rows    == <<status, attempts, locked_by, live, due, older>>
workers == <<pc, job, attempt, outcome>>
vars    == <<rows, workers, claim_lock, inserting, faults, retries, returned>>

Statuses == {"absent", "queued", "running", "dead"}
Outcomes == {"ok", "retry", "permanent"}
PCs      == {"idle", "claiming", "running", "reporting", "down"}

\* The types, and that only a claiming worker holds the lock of limited claims:
\* it is a transaction's, so it never outlives a worker that crashed.
TypeOK ==
    /\ status \in [Jobs -> Statuses]
    /\ attempts \in [Jobs -> Nat]
    /\ locked_by \in [Jobs -> Workers \cup {None}]
    /\ live \subseteq Jobs
    /\ due \subseteq Jobs
    /\ older \subseteq Jobs \X Jobs
    /\ pc \in [Workers -> PCs]
    /\ job \in [Workers -> Jobs \cup {None}]
    /\ attempt \in [Workers -> Nat]
    /\ outcome \in [Workers -> Outcomes \cup {None}]
    /\ claim_lock \in {w \in Workers : pc[w] = "claiming"} \cup {None}
    /\ inserting \in [Schedulers -> Jobs \cup {None}]
    /\ faults \in Nat
    /\ retries \in Nat
    /\ returned \in [Jobs -> SUBSET Outcomes]

Init ==
    /\ status = [j \in Jobs |-> "absent"]
    /\ attempts = [j \in Jobs |-> 0]
    /\ locked_by = [j \in Jobs |-> None]
    /\ live = {}
    /\ due = {}
    /\ older = {}
    /\ pc = [w \in Workers |-> "idle"]
    /\ job = [w \in Workers |-> None]
    /\ attempt = [w \in Workers |-> 0]
    /\ outcome = [w \in Workers |-> None]
    /\ claim_lock = None
    /\ inserting = [n \in Schedulers |-> None]
    /\ faults = 0
    /\ retries = 0
    /\ returned = [j \in Jobs |-> {}]

-------------------------------------------------------------------------------
(* run_at: a row that becomes due is the latest of the rows that are due.  *)

WithoutRank(S) == {p \in older : p[1] \notin S /\ p[2] \notin S}

StampDue(j) ==
    /\ due' = due \cup {j}
    /\ older' = WithoutRank({j}) \cup {<<i, j>> : i \in due \ {j}}

\* The rows of S leave the order: deleted, dead, or with run_at in the future.
Unstamp(S) ==
    /\ due' = due \ S
    /\ older' = WithoutRank(S)

\* No process holds the id, so a new row may take it.
Unused(j) ==
    /\ status[j] = "absent"
    /\ \A w \in Workers : job[w] # j
    /\ \A n \in Schedulers : inserting[n] # j

\* A row of its columns' defaults.
InsertRow(j) ==
    /\ status' = [status EXCEPT ![j] = "queued"]
    /\ attempts' = [attempts EXCEPT ![j] = 0]
    /\ returned' = [returned EXCEPT ![j] = {}]

\* enqueue, or enqueue_at with a delay when `later`.
Enqueue(j, later) ==
    /\ Unused(j)
    /\ Kind[j] \notin Scheduled
    /\ InsertRow(j)
    /\ IF later THEN UNCHANGED <<due, older>> ELSE StampDue(j)
    /\ UNCHANGED <<locked_by, live, workers, claim_lock, inserting, faults, retries>>

\* A slip: without the advisory lock of the kind.
SchedulerInsertsUnlocked(n, j) ==
    /\ inserting[n] = None
    /\ Kind[j] \in Scheduled
    /\ Unused(j)
    /\ \A i \in Jobs : Kind[i] = Kind[j] => status[i] \notin {"queued", "running"}
    /\ inserting' = [inserting EXCEPT ![n] = j]
    /\ UNCHANGED <<rows, workers, claim_lock, faults, retries, returned>>

\* enqueue_unique up to its INSERT: the advisory lock of the kind is free, and
\* no committed row of the kind is waiting or running.
SchedulerInserts(n, j) ==
    /\ inserting[n] = None
    /\ Kind[j] \in Scheduled
    /\ Unused(j)
    /\ \A m \in Schedulers : inserting[m] # None => Kind[inserting[m]] # Kind[j]
    /\ \A i \in Jobs : Kind[i] = Kind[j] => status[i] \notin {"queued", "running"}
    /\ inserting' = [inserting EXCEPT ![n] = j]
    /\ UNCHANGED <<rows, workers, claim_lock, faults, retries, returned>>

SchedulerCommits(n) ==
    /\ inserting[n] # None
    /\ InsertRow(inserting[n])
    /\ StampDue(inserting[n])
    /\ inserting' = [inserting EXCEPT ![n] = None]
    /\ UNCHANGED <<locked_by, live, workers, claim_lock, faults, retries>>

-------------------------------------------------------------------------------
(* Claiming.                                                               *)

\* The limits of the worker's registry; without any it claims without the lock.
LimitsOf(w) == Limited \cap Handles[w]

RunningNow(k) == {r \in Jobs : status[r] = "running" /\ Kind[r] = k /\ r \in live}

\* A slip: one too many.
AboveLimit(k) == Cardinality(RunningNow(k)) > Most[k]

AtLimit(k) == Cardinality(RunningNow(k)) >= Most[k]

\* Rows under another claim's row lock are skipped.
Claimable(w) ==
    {j \in due : /\ status[j] = "queued"
                 /\ Kind[j] \in Handles[w]
                 /\ ~ (Kind[j] \in LimitsOf(w) /\ AtLimit(Kind[j]))
                 /\ \A v \in Workers : pc[v] = "claiming" => job[v] # j}

\* The next row of the worker's kinds.
Choose(w) ==
    \E j \in Claimable(w) :
        /\ \A i \in Claimable(w) \ {j} : <<j, i>> \in older
        /\ job' = [job EXCEPT ![w] = j]

\* A slip: limited claims do not take turns.
BeginClaimOutOfTurn(w) ==
    /\ pc[w] = "idle"
    /\ Choose(w)
    /\ pc' = [pc EXCEPT ![w] = "claiming"]
    /\ UNCHANGED <<rows, attempt, outcome, claim_lock, inserting, faults, retries,
                   returned>>

\* A claim that finds nothing changes nothing, and the worker looks again when
\* it is woken or its poll is due.
BeginClaim(w) ==
    /\ pc[w] = "idle"
    /\ LimitsOf(w) # {} => claim_lock = None
    /\ Choose(w)
    /\ pc' = [pc EXCEPT ![w] = "claiming"]
    /\ claim_lock' = IF LimitsOf(w) # {} THEN w ELSE claim_lock
    /\ UNCHANGED <<rows, attempt, outcome, inserting, faults, retries, returned>>

ReleaseClaimLock(w) == claim_lock' = IF claim_lock = w THEN None ELSE claim_lock

CommitClaim(w) ==
    /\ pc[w] = "claiming"
    /\ status' = [status EXCEPT ![job[w]] = "running"]
    /\ attempts' = [attempts EXCEPT ![job[w]] = @ + 1]
    /\ locked_by' = [locked_by EXCEPT ![job[w]] = w]
    /\ live' = live \cup {job[w]}
    /\ attempt' = [attempt EXCEPT ![w] = attempts[job[w]] + 1]
    /\ pc' = [pc EXCEPT ![w] = "running"]
    /\ ReleaseClaimLock(w)
    /\ UNCHANGED <<due, older, job, outcome, inserting, faults, retries, returned>>

-------------------------------------------------------------------------------
(* Executing.                                                              *)

Executing(w) == pc[w] \in {"running", "reporting"}

\* Every third of the lock's length; that the lock had expired does not matter.
Heartbeat(w) ==
    /\ pc[w] = "running"
    /\ locked_by[job[w]] = w
    /\ status[job[w]] = "running"
    /\ live' = live \cup {job[w]}
    /\ UNCHANGED <<status, attempts, locked_by, due, older, workers, claim_lock,
                   inserting, faults, retries, returned>>

\* Ok, an error to retry (a panic is one), or a permanent error.
HandlerReturns(w, result) ==
    /\ pc[w] = "running"
    /\ pc' = [pc EXCEPT ![w] = "reporting"]
    /\ outcome' = [outcome EXCEPT ![w] = result]
    /\ returned' = [returned EXCEPT ![job[w]] = @ \cup {result}]
    /\ UNCHANGED <<rows, job, attempt, claim_lock, inserting, faults, retries>>

HandlerEnds(w) == \E result \in Outcomes : HandlerReturns(w, result)

\* The worker forgets its job, for the pc it goes on with.
LetGo(w, next) ==
    /\ pc' = [pc EXCEPT ![w] = next]
    /\ job' = [job EXCEPT ![w] = None]
    /\ attempt' = [attempt EXCEPT ![w] = 0]
    /\ outcome' = [outcome EXCEPT ![w] = None]

\* A slip: off by one.
ExhaustedEarly(j) == attempts[j] + 1 >= MaxAttempts[j]

Exhausted(j) == attempts[j] >= MaxAttempts[j]

ClearLocks(S) ==
    /\ locked_by' = [j \in Jobs |-> IF j \in S THEN None ELSE locked_by[j]]
    /\ live' = live \ S

\* A slip: WHERE id = $1 AND status = 'running'.
RowIsRunning(w) == status[job[w]] = "running"

\* WHERE id = $1 AND locked_by = $2, of `complete` and `fail`.
Owns(w) == locked_by[job[w]] = w

\* A deleted row's columns go with it.
Complete(w) ==
    /\ pc[w] = "reporting" /\ outcome[w] = "ok"
    /\ IF Owns(w)
       THEN /\ status' = [status EXCEPT ![job[w]] = "absent"]
            /\ attempts' = [attempts EXCEPT ![job[w]] = 0]
            /\ ClearLocks({job[w]})
            /\ Unstamp({job[w]})
       ELSE UNCHANGED rows
    /\ LetGo(w, "idle")
    /\ UNCHANGED <<claim_lock, inserting, faults, retries, returned>>

\* The retry waits: its run_at is in the future.
Fail(w) ==
    /\ pc[w] = "reporting" /\ outcome[w] # "ok"
    /\ IF Owns(w)
       THEN /\ status' = [status EXCEPT ![job[w]] =
                            IF outcome[w] = "permanent" \/ Exhausted(job[w])
                            THEN "dead" ELSE "queued"]
            /\ ClearLocks({job[w]})
            /\ Unstamp({job[w]})
            /\ UNCHANGED attempts
       ELSE UNCHANGED rows
    /\ LetGo(w, "idle")
    /\ UNCHANGED <<claim_lock, inserting, faults, retries, returned>>

Report(w) == Complete(w) \/ Fail(w)

-------------------------------------------------------------------------------
(* Time, the reaper, and the administrator.                                *)

BecomeDue(j) ==
    /\ status[j] = "queued"
    /\ j \notin due
    /\ StampDue(j)
    /\ UNCHANGED <<status, attempts, locked_by, live, workers, claim_lock,
                   inserting, faults, retries, returned>>

\* Some worker lives that runs the row as its owner, and so sends heartbeats.
KeptAlive(j) == \E w \in Workers : Executing(w) /\ job[w] = j /\ Owns(w)

\* No heartbeat came for the length of the lock.
ExpireLock(j) ==
    /\ j \in live
    /\ Stalls \/ ~ KeptAlive(j)
    /\ live' = live \ {j}
    /\ UNCHANGED <<status, attempts, locked_by, due, older, workers, claim_lock,
                   inserting, faults, retries, returned>>

\* The expiry that is bound to come.
LockRunsOut(j) == ~ KeptAlive(j) /\ ExpireLock(j)

\* A slip: every running row, whatever its lock.
AnyRunning == {j \in Jobs : status[j] = "running"}

Abandoned == {j \in Jobs : status[j] = "running" /\ j \notin live}

Recovered == [j \in Jobs |-> IF j \in Abandoned
                              THEN IF Exhausted(j) THEN "dead" ELSE "queued"
                              ELSE status[j]]

\* A slip: locked_by stays.
RecoverKeepsOwner ==
    /\ Abandoned # {}
    /\ status' = Recovered
    /\ Unstamp({j \in Abandoned : Exhausted(j)})
    /\ UNCHANGED <<attempts, locked_by, live, workers, claim_lock, inserting, faults,
                   retries, returned>>

\* A slip: a job whose last attempt was abandoned is tried once more.
RecoverForEver ==
    /\ Abandoned # {}
    /\ status' = [j \in Jobs |-> IF j \in Abandoned THEN "queued" ELSE status[j]]
    /\ ClearLocks(Abandoned)
    /\ UNCHANGED <<attempts, due, older, workers, claim_lock, inserting, faults,
                   retries, returned>>

\* One UPDATE of every abandoned row. run_at stays, so a requeued row keeps its
\* place; a dead one has none.
RecoverAbandoned ==
    /\ Abandoned # {}
    /\ status' = Recovered
    /\ ClearLocks(Abandoned)
    /\ Unstamp({j \in Abandoned : Exhausted(j)})
    /\ UNCHANGED <<attempts, workers, claim_lock, inserting, faults, retries, returned>>

Retry(j) ==
    /\ status[j] = "dead"
    /\ retries < MaxRetries
    /\ retries' = retries + 1
    /\ InsertRow(j)
    /\ StampDue(j)
    /\ UNCHANGED <<locked_by, live, workers, claim_lock, inserting, faults>>

Discard(j) ==
    /\ status[j] = "dead"
    /\ status' = [status EXCEPT ![j] = "absent"]
    /\ attempts' = [attempts EXCEPT ![j] = 0]
    /\ UNCHANGED <<locked_by, live, due, older, workers, claim_lock, inserting,
                   faults, retries, returned>>

-------------------------------------------------------------------------------
(* Faults.                                                                 *)

Fault == faults < MaxFaults /\ faults' = faults + 1

\* A slip: the lock of limited claims is the session's, and the pooled connection
\* lives on.
CrashKeepsLock(w) ==
    /\ Fault
    /\ pc[w] \notin {"idle", "down"}
    /\ LetGo(w, "down")
    /\ UNCHANGED <<rows, claim_lock, inserting, retries, returned>>

\* The process dies, or is killed when its jobs outlast the shutdown's grace;
\* an open transaction is rolled back.
Crash(w) ==
    /\ Fault
    /\ pc[w] \notin {"idle", "down"}
    /\ LetGo(w, "down")
    /\ ReleaseClaimLock(w)
    /\ UNCHANGED <<rows, inserting, retries, returned>>

\* Shutdown, seen between two jobs.
Stop(w) ==
    /\ Fault
    /\ pc[w] = "idle"
    /\ LetGo(w, "down")
    /\ UNCHANGED <<rows, claim_lock, inserting, retries, returned>>

Restart(w) ==
    /\ pc[w] = "down"
    /\ pc' = [pc EXCEPT ![w] = "idle"]
    /\ UNCHANGED <<rows, job, attempt, outcome, claim_lock, inserting, faults,
                   retries, returned>>

\* The claim's transaction fails; the worker sleeps and goes on.
ClaimFails(w) ==
    /\ Fault
    /\ pc[w] = "claiming"
    /\ LetGo(w, "idle")
    /\ ReleaseClaimLock(w)
    /\ UNCHANGED <<rows, inserting, retries, returned>>

\* The database refuses the result, which is only logged.
ReportFails(w) ==
    /\ Fault
    /\ pc[w] = "reporting"
    /\ LetGo(w, "idle")
    /\ UNCHANGED <<rows, claim_lock, inserting, retries, returned>>

\* A scheduling node dies before its commit, or its commit fails.
SchedulerFails(n) ==
    /\ Fault
    /\ inserting[n] # None
    /\ inserting' = [inserting EXCEPT ![n] = None]
    /\ UNCHANGED <<rows, workers, claim_lock, retries, returned>>

-------------------------------------------------------------------------------
Next ==
    \/ \E j \in Jobs, later \in BOOLEAN : Enqueue(j, later)
    \/ \E n \in Schedulers :
        \/ \E j \in Jobs : SchedulerInserts(n, j)
        \/ SchedulerCommits(n)
        \/ SchedulerFails(n)
    \/ \E w \in Workers :
        \/ BeginClaim(w)
        \/ CommitClaim(w)
        \/ ClaimFails(w)
        \/ Heartbeat(w)
        \/ HandlerEnds(w)
        \/ Complete(w)
        \/ Fail(w)
        \/ ReportFails(w)
        \/ Crash(w)
        \/ Stop(w)
        \/ Restart(w)
    \/ \E j \in Jobs :
        \/ BecomeDue(j)
        \/ ExpireLock(j)
        \/ Retry(j)
        \/ Discard(j)
    \/ RecoverAbandoned

Spec == Init /\ [][Next]_vars

\* Workers, the reaper, the clock and the restarts go on; a handler returns
\* unless its kind is Slow. PostgreSQL queues the waiters of an advisory lock,
\* so a worker that keeps finding it taken gets it in the end.
Fairness ==
    /\ \A w \in Workers :
        /\ SF_vars(BeginClaim(w))
        /\ WF_vars(CommitClaim(w))
        /\ WF_vars(pc[w] = "running" /\ Kind[job[w]] \notin Slow /\ HandlerEnds(w))
        /\ WF_vars(Report(w))
        /\ WF_vars(Restart(w))
    /\ \A j \in Jobs : WF_vars(BecomeDue(j)) /\ WF_vars(LockRunsOut(j))
    /\ WF_vars(RecoverAbandoned)

FairSpec == Spec /\ Fairness

-------------------------------------------------------------------------------
(* Properties.                                                             *)

\* A worker whose id is still in locked_by runs that row's present attempt, and
\* the row is running. `complete` and `fail` (jobs.rs:198, 216) look at neither
\* the status nor the attempt, so they are right only because of this.
OwnerRunsThePresentAttempt ==
    \A w \in Workers : Executing(w) /\ Owns(w) =>
        /\ status[job[w]] = "running"
        /\ attempts[job[w]] = attempt[w]

\* No job is begun more often than max_attempts, and one that waits has an
\* attempt left, whether its last run failed, crashed or was presumed dead.
AttemptsBounded ==
    \A j \in Jobs : /\ attempts[j] <= MaxAttempts[j]
                    /\ status[j] = "queued" => attempts[j] < MaxAttempts[j]

\* While the lock of a running row is live, only a report of the run that
\* claimed it ends the row's run: a worker that comes back after its row was
\* claimed again neither deletes nor fails the new run (jobs.rs:197-231).
LiveLockRespected ==
    [][\A j \in live :
        status[j] = "running" /\ status'[j] # "running" =>
            \E w \in Workers : /\ pc[w] = "reporting" /\ job[w] = j
                              /\ locked_by[j] = w /\ attempt[w] = attempts[j]]_vars

\* What became of each job, as those who enqueued it see it.
Fate == [j \in Jobs |-> IF status[j] \in {"queued", "running"}
                        THEN "pending" ELSE status[j]]

Promise == INSTANCE AtLeastOnce WITH
    Allowed <- MaxAttempts, state <- Fate, begun <- attempts, results <- returned

\* The queue is an AtLeastOnce: no job leaves it unless one of its runs returned
\* Ok or an administrator discards it, and none dies with attempts left unless a
\* run failed for good, whatever crashes, stalls and late reports come between.
KeepsPromise == Promise!Spec

\* As long as workers that live keep their heartbeats, no two run the same job
\* ("Concurrent workers never get the same job", jobs.rs:89), through crashes,
\* lost results and the reaper.
NeverTwice ==
    \A v, w \in Workers :
        v # w /\ Executing(v) /\ Executing(w) => job[v] # job[w]

\* ... and at most Most[k] workers run jobs of a limited kind at once, though
\* the claims count rows in their snapshot and commit later (jobs.rs:102-106).
LimitKept ==
    \A k \in Limited :
        Cardinality({w \in Workers : Executing(w) /\ Kind[job[w]] = k}) <= Most[k]

\* Schedulers of several nodes together keep one job of a kind waiting or
\* running (jobs.rs:19-21), where no administrator puts back a dead one.
OneOfEachScheduled ==
    \A i, j \in Jobs :
        /\ i # j
        /\ Kind[i] = Kind[j] /\ Kind[i] \in Scheduled
        /\ status[i] \in {"queued", "running"}
        => status[j] \notin {"queued", "running"}

\* A job that waits, of a kind whose handler returns, is done or dead in the
\* end, in spite of crashes, lost results, jobs enqueued for ever and handlers
\* of limited kinds that never return.
EveryJobSettles ==
    \A j \in Jobs : status[j] = "queued" /\ Kind[j] \notin Slow
                    ~> status[j] \in {"absent", "dead"}
===============================================================================
