---------------------------- MODULE JobQueueProofs ----------------------------
(***************************************************************************)
(* Theorems about JobQueue, for any jobs, workers, kinds and bounds.       *)
(***************************************************************************)
EXTENDS JobQueue, FiniteSetTheorems, TLAPS

\* A row is locked exactly while it runs, which none of the guards of
\* `complete`, `fail` and `recover_abandoned` states in full.
RowsAgree ==
    \A j \in Jobs : /\ status[j] = "running" <=> locked_by[j] # None
                    /\ j \in live => status[j] = "running"
                    /\ attempts[j] <= MaxAttempts[j]
                    /\ status[j] = "queued" => attempts[j] < MaxAttempts[j]

\* A worker between a claim's SELECT and its report has a row; the row it is
\* claiming still waits, and no other worker is claiming it.
ClaimsAgree ==
    \A w \in Workers :
        /\ pc[w] \in {"claiming", "running", "reporting"} <=> job[w] # None
        /\ pc[w] = "claiming" =>
            /\ status[job[w]] = "queued"
            /\ \A v \in Workers : pc[v] = "claiming" /\ v # w => job[v] # job[w]

\* What a worker remembers of its run is what the row says, if the row is its own.
RunsAgree ==
    \A w \in Workers : Executing(w) /\ Owns(w) =>
        /\ attempt[w] = attempts[job[w]]
        /\ pc[w] = "reporting" => outcome[w] \in returned[job[w]]

\* Rows being inserted are new, and each scheduler's is its own.
InsertsAgree ==
    \A n \in Schedulers : inserting[n] # None =>
        /\ status[inserting[n]] = "absent"
        /\ \A m \in Schedulers : m # n => inserting[m] # inserting[n]

IInv == TypeOK /\ RowsAgree /\ ClaimsAgree /\ RunsAgree /\ InsertsAgree

USE JobsAssumption, WorkersAssumption, BoundsAssumption

LEMMA InitHolds == Init => IInv
  BY DEF Init, IInv, TypeOK, RowsAgree, ClaimsAgree, RunsAgree, InsertsAgree,
         Statuses, PCs, Executing

LEMMA StepHolds == IInv /\ [Next]_vars => IInv'
<1> SUFFICES ASSUME IInv, [Next]_vars
             PROVE  IInv'
  OBVIOUS
<1> USE DEF IInv, TypeOK, RowsAgree, ClaimsAgree, RunsAgree, InsertsAgree,
            Statuses, PCs, Outcomes, Executing, Owns, rows, workers
<1>1. ASSUME NEW j \in Jobs, NEW later \in BOOLEAN, Enqueue(j, later)
      PROVE  IInv'
  BY <1>1 DEF Enqueue, Unused, InsertRow, StampDue, WithoutRank
<1>2. ASSUME NEW n \in Schedulers, NEW j \in Jobs, SchedulerInserts(n, j)
      PROVE  IInv'
  BY <1>2 DEF SchedulerInserts, Unused
<1>3. ASSUME NEW n \in Schedulers, SchedulerCommits(n)
      PROVE  IInv'
  BY <1>3 DEF SchedulerCommits, InsertRow, StampDue, WithoutRank
<1>4. ASSUME NEW n \in Schedulers, SchedulerFails(n)
      PROVE  IInv'
  BY <1>4 DEF SchedulerFails, Fault
<1>5. ASSUME NEW w \in Workers, BeginClaim(w)
      PROVE  IInv'
  BY <1>5 DEF BeginClaim, Choose, Claimable
<1>6. ASSUME NEW w \in Workers, CommitClaim(w)
      PROVE  IInv'
  BY <1>6 DEF CommitClaim, ReleaseClaimLock
<1>7. ASSUME NEW w \in Workers, ClaimFails(w)
      PROVE  IInv'
  BY <1>7 DEF ClaimFails, Fault, LetGo, ReleaseClaimLock
<1>8. ASSUME NEW w \in Workers, Heartbeat(w)
      PROVE  IInv'
  BY <1>8 DEF Heartbeat
<1>9. ASSUME NEW w \in Workers, HandlerEnds(w)
      PROVE  IInv'
  BY <1>9 DEF HandlerEnds, HandlerReturns
<1>10. ASSUME NEW w \in Workers, Complete(w)
      PROVE  IInv'
  BY SMTT(30), <1>10 DEF Complete, LetGo, ClearLocks, Unstamp, WithoutRank
<1>11. ASSUME NEW w \in Workers, Fail(w)
      PROVE  IInv'
  BY <1>11 DEF Fail, LetGo, ClearLocks, Unstamp, WithoutRank, Exhausted
<1>12. ASSUME NEW w \in Workers, ReportFails(w)
      PROVE  IInv'
  BY <1>12 DEF ReportFails, Fault, LetGo
<1>13. ASSUME NEW w \in Workers, Crash(w)
      PROVE  IInv'
  BY <1>13 DEF Crash, Fault, LetGo, ReleaseClaimLock
<1>14. ASSUME NEW w \in Workers, Stop(w)
      PROVE  IInv'
  BY <1>14 DEF Stop, Fault, LetGo
<1>15. ASSUME NEW w \in Workers, Restart(w)
      PROVE  IInv'
  BY <1>15 DEF Restart
<1>16. ASSUME NEW j \in Jobs, BecomeDue(j)
      PROVE  IInv'
  BY <1>16 DEF BecomeDue, StampDue, WithoutRank
<1>17. ASSUME NEW j \in Jobs, ExpireLock(j)
      PROVE  IInv'
  BY <1>17 DEF ExpireLock
<1>18. ASSUME NEW j \in Jobs, Retry(j)
      PROVE  IInv'
  BY <1>18 DEF Retry, InsertRow, StampDue, WithoutRank
<1>19. ASSUME NEW j \in Jobs, Discard(j)
      PROVE  IInv'
  BY <1>19 DEF Discard
<1>20. ASSUME RecoverAbandoned
      PROVE  IInv'
  BY <1>20 DEF RecoverAbandoned, Abandoned, Recovered, ClearLocks, Unstamp, WithoutRank, Exhausted
<1>21. CASE UNCHANGED vars
  BY <1>21 DEF vars
<1> HIDE DEF IInv, TypeOK, RowsAgree, ClaimsAgree, RunsAgree, InsertsAgree
<1> QED
  BY <1>1, <1>2, <1>3, <1>4, <1>5, <1>6, <1>7, <1>8, <1>9, <1>10, <1>11, <1>12, <1>13,
     <1>14, <1>15, <1>16, <1>17, <1>18, <1>19, <1>20, <1>21 DEF Next

LEMMA Invariance == Spec => []IInv
  BY InitHolds, StepHolds, PTL DEF Spec

\* In every reachable state the variables have their types, and the lock of
\* limited claims is held by a worker that is claiming.
THEOREM Typing == Spec => []TypeOK
  BY Invariance, PTL DEF IInv

\* A worker named in locked_by runs the present attempt of a running row: the
\* guard `locked_by = $2` of `complete` and `fail` is enough.
THEOREM OwnersRunThePresentAttempt == Spec => []OwnerRunsThePresentAttempt
<1>1. IInv => OwnerRunsThePresentAttempt
  BY DEF IInv, TypeOK, RowsAgree, ClaimsAgree, RunsAgree, OwnerRunsThePresentAttempt,
         Executing, Owns, PCs
<1> QED
  BY <1>1, Invariance, PTL

\* No job is begun more often than max_attempts, whatever crashes and stalls.
THEOREM AttemptsAreBounded == Spec => []AttemptsBounded
<1>1. IInv => AttemptsBounded
  BY DEF IInv, RowsAgree, AttemptsBounded
<1> QED
  BY <1>1, Invariance, PTL

\* No worker ends a run that another worker's live lock protects.
THEOREM LiveLocksAreRespected == Spec => LiveLockRespected
<1> DEFINE Respected ==
        \A j \in live :
            status[j] = "running" /\ status'[j] # "running" =>
                \E w \in Workers : /\ pc[w] = "reporting" /\ job[w] = j
                                  /\ locked_by[j] = w /\ attempt[w] = attempts[j]
<1>1. IInv /\ [Next]_vars => [Respected]_vars
  <2> SUFFICES ASSUME IInv, Next, NEW j \in live,
                      status[j] = "running", status'[j] # "running"
               PROVE  \E w \in Workers : /\ pc[w] = "reporting" /\ job[w] = j
                                        /\ locked_by[j] = w
                                        /\ attempt[w] = attempts[j]
    BY DEF vars, rows
  <2> USE DEF IInv, TypeOK, RowsAgree, ClaimsAgree, RunsAgree, InsertsAgree, PCs,
              Executing, Owns, rows
  <2>1. \E w \in Workers : Complete(w) \/ Fail(w)
    <3>1. ASSUME NEW i \in Jobs, NEW later \in BOOLEAN, Enqueue(i, later)
          PROVE  FALSE
      BY <3>1 DEF Enqueue, Unused, InsertRow
    <3>2. ASSUME NEW n \in Schedulers, SchedulerCommits(n)
          PROVE  FALSE
      BY <3>2 DEF SchedulerCommits, InsertRow
    <3>3. ASSUME NEW w \in Workers, CommitClaim(w)
          PROVE  FALSE
      BY <3>3 DEF CommitClaim
    <3>4. ASSUME NEW i \in Jobs, Retry(i) \/ Discard(i)
          PROVE  FALSE
      BY <3>4 DEF Retry, InsertRow, Discard
    <3>5. ASSUME RecoverAbandoned
          PROVE  FALSE
      BY <3>5 DEF RecoverAbandoned, Abandoned, Recovered
    <3> QED
      BY <3>1, <3>2, <3>3, <3>4, <3>5
         DEF Next, SchedulerInserts, SchedulerFails, BeginClaim, ClaimFails, Heartbeat,
             HandlerEnds, HandlerReturns, ReportFails, Crash, Stop, Restart, BecomeDue,
             ExpireLock
  <2> QED
    BY <2>1 DEF Complete, Fail
<1> QED
  BY <1>1, Invariance, PTL DEF Spec, LiveLockRespected

-------------------------------------------------------------------------------
(* The queue keeps the promise of AtLeastOnce. A claim's commit begins a   *)
(* run; a handler's return is the run's; a report or the reaper ends the   *)
(* job or leaves it pending; all else stutters.                            *)

LEMMA PromiseInit == Init => Promise!Init
  BY DEF Init, Promise!Init, Fate

LEMMA PromiseStep == IInv /\ [Next]_vars => [Promise!Next]_(Promise!vars)
<1> SUFFICES ASSUME IInv, [Next]_vars
             PROVE  Promise!Next \/ UNCHANGED Promise!vars
  OBVIOUS
<1> USE DEF Promise!vars
<1>1. ASSUME NEW j \in Jobs, InsertRow(j), status[j] \in {"absent", "dead"}
      PROVE  Promise!BecomePending(j)
  <2>1. Fate' = [Fate EXCEPT ![j] = "pending"]
    BY <1>1 DEF InsertRow, Fate, IInv, TypeOK
  <2> QED
    BY <1>1, <2>1 DEF InsertRow, Promise!BecomePending
<1>2. ASSUME NEW j \in Jobs, status[j] = "dead",
             status' = [status EXCEPT ![j] = "absent"],
             attempts' = [attempts EXCEPT ![j] = 0], UNCHANGED returned
      PROVE  Promise!Discard(j)
  <2>1. Fate' = [Fate EXCEPT ![j] = "absent"] /\ Fate[j] = "dead"
    BY <1>2 DEF Fate, IInv, TypeOK
  <2> QED
    BY <1>2, <2>1 DEF Promise!Discard, Promise!Leave
<1>3. ASSUME NEW j \in Jobs, NEW later \in BOOLEAN, Enqueue(j, later)
      PROVE  Promise!Submit(j)
  <2>1. InsertRow(j) /\ status[j] = "absent"
    BY <1>3 DEF Enqueue, Unused
  <2>2. Promise!BecomePending(j) /\ Fate[j] = "absent"
    BY <2>1, <1>1 DEF Fate
  <2> QED
    BY <2>2 DEF Promise!Submit
<1>4. ASSUME NEW n \in Schedulers, NEW j \in Jobs, inserting[n] = j, SchedulerCommits(n)
      PROVE  Promise!Submit(j)
  <2>1. InsertRow(j) /\ status[j] = "absent"
    BY <1>4 DEF SchedulerCommits, IInv, TypeOK, InsertsAgree
  <2>2. Promise!BecomePending(j) /\ Fate[j] = "absent"
    BY <2>1, <1>1 DEF Fate
  <2> QED
    BY <2>2 DEF Promise!Submit
<1>5. ASSUME NEW w \in Workers, CommitClaim(w)
      PROVE  job[w] \in Jobs /\ Promise!Begin(job[w])
  BY <1>5 DEF CommitClaim, Promise!Begin, Fate, IInv, TypeOK, RowsAgree, ClaimsAgree
<1>6. ASSUME NEW w \in Workers, NEW result \in Outcomes, HandlerReturns(w, result)
      PROVE  job[w] \in Jobs /\ Promise!Return(job[w], result)
  BY <1>6 DEF HandlerReturns, rows, Promise!Return, Fate, IInv, TypeOK, ClaimsAgree
<1>7. ASSUME NEW w \in Workers, Complete(w)
      PROVE  job[w] \in Jobs /\ (Promise!Finish(job[w]) \/ UNCHANGED Promise!vars)
  <2>1. CASE Owns(w)
    <3>1. /\ job[w] \in Jobs
          /\ status[job[w]] = "running"
          /\ "ok" \in returned[job[w]]
      BY <1>7, <2>1 DEF Complete, Owns, Executing, IInv, TypeOK, RowsAgree,
                        ClaimsAgree, RunsAgree
    <3>2. Fate' = [Fate EXCEPT ![job[w]] = "absent"] /\ Fate[job[w]] = "pending"
      BY <1>7, <2>1, <3>1 DEF Complete, Fate, IInv, TypeOK
    <3> QED
      BY <1>7, <2>1, <3>1, <3>2 DEF Complete, Promise!Finish, Promise!Leave
  <2>2. CASE ~ Owns(w)
    BY <1>7, <2>2 DEF Complete, rows, Fate, IInv, TypeOK, ClaimsAgree
  <2> QED
    BY <2>1, <2>2
<1>8. ASSUME NEW w \in Workers, Fail(w)
      PROVE  job[w] \in Jobs /\ (Promise!GiveUp({job[w]}) \/ UNCHANGED Promise!vars)
  <2>1. CASE Owns(w)
    <3>1. /\ job[w] \in Jobs
          /\ status[job[w]] = "running"
          /\ attempts[job[w]] <= MaxAttempts[job[w]]
          /\ outcome[w] \in returned[job[w]]
      BY <1>8, <2>1 DEF Fail, Owns, Executing, IInv, TypeOK, RowsAgree, ClaimsAgree,
                        RunsAgree
    <3>2. CASE outcome[w] = "permanent" \/ Exhausted(job[w])
      BY <1>8, <2>1, <3>1, <3>2
         DEF Fail, Exhausted, Fate, IInv, TypeOK, Promise!GiveUp
    <3>3. CASE ~ (outcome[w] = "permanent" \/ Exhausted(job[w]))
      BY <1>8, <2>1, <3>1, <3>3 DEF Fail, Fate, IInv, TypeOK
    <3> QED
      BY <3>1, <3>2, <3>3
  <2>2. CASE ~ Owns(w)
    BY <1>8, <2>2 DEF Fail, rows, Fate, IInv, TypeOK, ClaimsAgree
  <2> QED
    BY <2>1, <2>2
<1>9. ASSUME RecoverAbandoned
      PROVE  Promise!GiveUp({j \in Abandoned : Exhausted(j)})
  BY <1>9 DEF RecoverAbandoned, Recovered, Abandoned, Exhausted, Fate, IInv, TypeOK,
              RowsAgree, Promise!GiveUp
<1>10. ASSUME NEW j \in Jobs, Retry(j)
       PROVE  Promise!Revive(j)
  BY <1>10, <1>1 DEF Retry, Fate, Promise!Revive
<1>11. ASSUME NEW j \in Jobs, Discard(j)
       PROVE  Promise!Discard(j)
  BY <1>11, <1>2 DEF Discard
<1>12. ASSUME NEW w \in Workers,
              \/ BeginClaim(w) \/ ClaimFails(w) \/ Heartbeat(w) \/ ReportFails(w)
              \/ Crash(w) \/ Stop(w) \/ Restart(w)
       PROVE  UNCHANGED Promise!vars
  BY <1>12 DEF BeginClaim, ClaimFails, Heartbeat, ReportFails, Crash, Stop, Restart,
               rows, Fate
<1>13. ASSUME NEW n \in Schedulers, NEW j \in Jobs, SchedulerInserts(n, j)
       PROVE  UNCHANGED Promise!vars
  BY <1>13 DEF SchedulerInserts, rows, Fate
<1>14. ASSUME NEW n \in Schedulers, SchedulerFails(n)
       PROVE  UNCHANGED Promise!vars
  BY <1>14 DEF SchedulerFails, rows, Fate
<1>15. ASSUME NEW j \in Jobs, BecomeDue(j) \/ ExpireLock(j)
       PROVE  UNCHANGED Promise!vars
  BY <1>15 DEF BecomeDue, ExpireLock, Fate
<1>16. CASE UNCHANGED vars
  BY <1>16 DEF vars, rows, Fate
<1>17. ASSUME NEW S \in SUBSET Jobs, Promise!GiveUp(S)
       PROVE  Promise!Next
  BY <1>17 DEF Promise!Next
<1>18. {j \in Abandoned : Exhausted(j)} \in SUBSET Jobs
  BY DEF Abandoned
<1>19. ASSUME NEW j \in Jobs,
              \/ Promise!Submit(j) \/ Promise!Revive(j) \/ Promise!Begin(j)
              \/ Promise!Finish(j) \/ Promise!Discard(j)
       PROVE  Promise!Next
  BY <1>19 DEF Promise!Next
<1>20. ASSUME NEW j \in Jobs, NEW result \in Outcomes, Promise!Return(j, result)
       PROVE  Promise!Next
  BY <1>20 DEF Promise!Next, Outcomes
<1>21. ASSUME NEW w \in Workers, HandlerEnds(w)
       PROVE  Promise!Next
  BY <1>21, <1>6, <1>20 DEF HandlerEnds
<1>22. ASSUME NEW w \in Workers, Complete(w) \/ Fail(w)
       PROVE  Promise!Next \/ UNCHANGED Promise!vars
  BY <1>22, <1>7, <1>8, <1>17, <1>19
<1>23. ASSUME NEW n \in Schedulers, SchedulerCommits(n)
       PROVE  Promise!Next
  BY <1>23, <1>4, <1>19 DEF SchedulerCommits, IInv, TypeOK
<1> QED
  BY <1>3, <1>23, <1>5, <1>9, <1>10, <1>11, <1>12, <1>13, <1>14, <1>15, <1>16, <1>17,
     <1>18, <1>19, <1>21, <1>22 DEF Next

\* The queue implements AtLeastOnce: nothing leaves it unless one of its runs
\* succeeded, nothing dies with attempts left unless a run failed for good.
THEOREM QueueKeepsItsPromise == Spec => KeepsPromise
<1> QED
  BY Invariance, PromiseInit, PromiseStep, PTL DEF Spec, KeepsPromise, Promise!Spec

-------------------------------------------------------------------------------
(* What follows from the promise, by the theorems about AtLeastOnce.       *)

Promised == INSTANCE AtLeastOnceProofs WITH
    Allowed <- MaxAttempts, state <- Fate, begun <- attempts, results <- returned

LEMMA PromisedToo == Spec => Promised!Spec
<1>1. Init => Promised!Init
  BY PromiseInit DEF Promise!Init, Promised!Init
<1>2. IInv /\ [Next]_vars => [Promised!Next]_(Promised!vars)
  BY PromiseStep DEF Promise!vars, Promised!vars, Promise!Next, Promised!Next,
      Promise!Submit, Promised!Submit, Promise!Revive, Promised!Revive, Promise!Begin,
      Promised!Begin, Promise!Return, Promised!Return, Promise!Finish, Promised!Finish,
      Promise!Discard, Promised!Discard, Promise!GiveUp, Promised!GiveUp,
      Promise!BecomePending, Promised!BecomePending, Promise!Leave, Promised!Leave
<1> QED
  BY <1>1, <1>2, Invariance, PTL DEF Spec, Promised!Spec

\* A job is dead only after its last attempt began, or when a handler failed for good:
\* no crash, lost result or presumed death of a worker spends attempts that were not made.
DeadWasTried ==
    \A j \in Jobs : status[j] = "dead" =>
        attempts[j] = MaxAttempts[j] \/ "permanent" \in returned[j]

\* Dead jobs were tried as often as they may be, or failed for good.
THEOREM DeadJobsWereTried == Spec => []DeadWasTried
<1>1. Promised!Spec => []Promised!DeadForAReason
  BY JobsAssumption, Promised!NoneDiesEarly
<1>2. Promised!DeadForAReason => DeadWasTried
  BY DEF Promised!DeadForAReason, DeadWasTried, Fate
<1> QED
  BY <1>1, <1>2, PromisedToo, PTL

\* Unless an administrator discards a dead job, or one of its handlers returned Ok since
\* it was enqueued or retried, its row stays, whatever crashes and late reports come.
RowStays ==
    \A j \in Jobs : status[j] # "absent" /\ status'[j] = "absent" =>
        status[j] = "dead" \/ "ok" \in returned[j]

\* No job is lost.
THEOREM NoJobIsLost == Spec => [][RowStays]_vars
<1>1. Promised!Spec => Promised!LeavesForAReason
  BY JobsAssumption, Promised!NoneIsLost
<1>2. Promised!LeavesForAReason <=> [][Promised!Reason]_(Promised!vars)
  BY PTL DEF Promised!LeavesForAReason, Promised!Reason
<1>3. IInv /\ IInv' /\ [Promised!Reason]_(Promised!vars) => [RowStays]_vars
  <2> SUFFICES ASSUME IInv, IInv', [Promised!Reason]_(Promised!vars)
               PROVE  RowStays
    OBVIOUS
  <2>1. \A j \in Jobs : /\ Fate[j] = "absent" <=> status[j] = "absent"
                        /\ Fate'[j] = "absent" <=> status'[j] = "absent"
                        /\ Fate[j] = "dead" <=> status[j] = "dead"
    BY DEF IInv, TypeOK, Fate
  <2>2. CASE Promised!Reason
    BY <2>1, <2>2 DEF Promised!Reason, RowStays
  <2>3. CASE UNCHANGED Promised!vars
    BY <2>1, <2>3 DEF Promised!vars, RowStays
  <2> QED
    BY <2>2, <2>3
<1> QED
  BY <1>1, <1>2, <1>3, PromisedToo, Invariance, PTL

-------------------------------------------------------------------------------
(* Workers that keep their heartbeats.                                     *)

\* A run in progress owns its row, whose lock is live.
Alive == \A w \in Workers : Executing(w) => Owns(w) /\ job[w] \in live

\* The rows with a live lock never exceed a kind's limit, and a claim that has
\* counted them, which holds the lock until its commit, has a place left.
PlacesKept ==
    \A k \in Limited :
        /\ Cardinality(RunningNow(k)) <= Most[k]
        /\ \A w \in Workers : pc[w] = "claiming" /\ Kind[job[w]] = k =>
             claim_lock = w /\ Cardinality(RunningNow(k)) < Most[k]

LEMMA AliveStep == ASSUME ~ Stalls PROVE IInv /\ Alive /\ [Next]_vars => Alive'
<1> SUFFICES ASSUME IInv, Alive, [Next]_vars
             PROVE  Alive'
  OBVIOUS
<1> USE DEF IInv, TypeOK, RowsAgree, ClaimsAgree, PCs, Executing, Owns, Alive, rows, workers
<1>1. ASSUME NEW w \in Workers, CommitClaim(w)
      PROVE  Alive'
  BY <1>1 DEF CommitClaim
<1>2. ASSUME NEW w \in Workers, Heartbeat(w) \/ HandlerEnds(w)
      PROVE  Alive'
  BY <1>2 DEF Heartbeat, HandlerEnds, HandlerReturns
<1>3. ASSUME NEW w \in Workers, Complete(w) \/ Fail(w)
      PROVE  Alive'
  BY <1>3 DEF Complete, Fail, LetGo, ClearLocks
<1>4. ASSUME NEW w \in Workers,
             \/ BeginClaim(w) \/ ClaimFails(w) \/ ReportFails(w) \/ Crash(w)
             \/ Stop(w) \/ Restart(w)
      PROVE  Alive'
  BY <1>4 DEF BeginClaim, Choose, Claimable, ClaimFails, ReportFails, Crash, Stop,
              Restart, LetGo
<1>5. ASSUME NEW j \in Jobs, ExpireLock(j)
      PROVE  Alive'
  BY <1>5 DEF ExpireLock, KeptAlive
<1>6. CASE RecoverAbandoned
  BY <1>6 DEF RecoverAbandoned, Abandoned, ClearLocks
<1>7. ASSUME NEW j \in Jobs,
             \/ \E later \in BOOLEAN : Enqueue(j, later)
             \/ BecomeDue(j) \/ Retry(j) \/ Discard(j)
      PROVE  Alive'
  BY <1>7 DEF Enqueue, BecomeDue, Retry, Discard
<1>8. ASSUME NEW n \in Schedulers,
             \/ \E j \in Jobs : SchedulerInserts(n, j)
             \/ SchedulerCommits(n) \/ SchedulerFails(n)
      PROVE  Alive'
  BY <1>8 DEF SchedulerInserts, SchedulerCommits, SchedulerFails
<1>9. CASE UNCHANGED vars
  BY <1>9 DEF vars
<1> QED
  BY <1>1, <1>2, <1>3, <1>4, <1>5, <1>6, <1>7, <1>8, <1>9 DEF Next

LEMMA AliveAlways == ASSUME ~ Stalls PROVE Spec => []Alive
<1>1. Init => Alive
  BY DEF Init, Alive, Executing
<1>2. IInv /\ Alive /\ [Next]_vars => Alive'
  BY AliveStep
<1> QED
  BY <1>1, <1>2, Invariance, PTL DEF Spec

\* Where heartbeats are kept, no two workers run the same job, though any may
\* crash, lose its result or find its job reaped.
THEOREM NoJobRunsTwice == ASSUME ~ Stalls PROVE Spec => []NeverTwice
<1>1. Alive => NeverTwice
  BY DEF Alive, NeverTwice, Owns
<1> QED
  BY <1>1, AliveAlways, PTL

LEMMA RunningNowFinite ==
    \A k \in Kinds : /\ IsFiniteSet(RunningNow(k))
                    /\ Cardinality(RunningNow(k)) \in Nat
<1> SUFFICES ASSUME NEW k \in Kinds
             PROVE  /\ IsFiniteSet(RunningNow(k))
                    /\ Cardinality(RunningNow(k)) \in Nat
  OBVIOUS
<1>1. RunningNow(k) \in SUBSET Jobs
  BY DEF RunningNow
<1>2. IsFiniteSet(RunningNow(k))
  BY <1>1, FS_Subset
<1> QED
  BY <1>2, FS_CardinalityType

\* Any step but a claim's SELECT and COMMIT: no more rows run, and no worker
\* begins to claim or loses the lock of its claim.
LEMMA PlacesLeft ==
    ASSUME PlacesKept,
           \A k \in Limited : RunningNow(k)' \subseteq RunningNow(k),
           \A w \in Workers : pc'[w] = "claiming" =>
               /\ pc[w] = "claiming" /\ job'[w] = job[w]
               /\ claim_lock = w => claim_lock' = w
    PROVE  PlacesKept'
<1> SUFFICES ASSUME NEW k \in Limited
             PROVE  /\ Cardinality(RunningNow(k)') <= Most[k]
                    /\ \A w \in Workers : pc'[w] = "claiming" /\ Kind[job'[w]] = k =>
                         claim_lock' = w /\ Cardinality(RunningNow(k)') < Most[k]
  BY DEF PlacesKept
<1>1. IsFiniteSet(RunningNow(k)) /\ Cardinality(RunningNow(k)) \in Nat
  BY RunningNowFinite
<1>2. RunningNow(k)' \in SUBSET RunningNow(k)
  OBVIOUS
<1>3. IsFiniteSet(RunningNow(k)') /\ Cardinality(RunningNow(k)') <= Cardinality(RunningNow(k))
  BY <1>1, <1>2, FS_Subset
<1>4. Cardinality(RunningNow(k)') \in Nat
  BY <1>3, FS_CardinalityType
<1>5. Most[k] \in Nat
  OBVIOUS
<1> QED
  BY <1>1, <1>3, <1>4, <1>5 DEF PlacesKept

LEMMA PlacesStep ==
    ASSUME ~ Stalls
    PROVE  IInv /\ Alive /\ PlacesKept /\ [Next]_vars => PlacesKept'
<1> SUFFICES ASSUME IInv, Alive, PlacesKept, [Next]_vars
             PROVE  PlacesKept'
  OBVIOUS
<1> DEFINE Shrinks == \A k \in Limited : RunningNow(k)' \subseteq RunningNow(k)
           Holds   == \A w \in Workers : pc'[w] = "claiming" =>
                        /\ pc[w] = "claiming" /\ job'[w] = job[w]
                        /\ claim_lock = w => claim_lock' = w
<1> USE DEF IInv, TypeOK, PCs, rows, workers
<1>1. ASSUME NEW w \in Workers, BeginClaim(w)
      PROVE  PlacesKept'
  <2> SUFFICES ASSUME NEW k \in Limited
               PROVE  /\ Cardinality(RunningNow(k)') <= Most[k]
                      /\ \A v \in Workers : pc'[v] = "claiming" /\ Kind[job'[v]] = k =>
                           claim_lock' = v /\ Cardinality(RunningNow(k)') < Most[k]
    BY DEF PlacesKept
  <2>1. RunningNow(k)' = RunningNow(k)
    BY <1>1 DEF BeginClaim, RunningNow
  <2>2. Cardinality(RunningNow(k)) \in Nat /\ Most[k] \in Nat
    BY RunningNowFinite
  <2>3. ASSUME Kind[job'[w]] = k
        PROVE  claim_lock' = w /\ Cardinality(RunningNow(k)) < Most[k]
    BY <1>1, <2>2, <2>3 DEF BeginClaim, Choose, Claimable, LimitsOf, AtLimit
  <2>4. ASSUME NEW v \in Workers, v # w, pc'[v] = "claiming", Kind[job'[v]] = k
        PROVE  claim_lock' = v /\ Cardinality(RunningNow(k)) < Most[k]
    BY <1>1, <2>4 DEF BeginClaim, Choose, PlacesKept
  <2> QED
    BY <2>1, <2>3, <2>4 DEF PlacesKept
<1>2. ASSUME NEW w \in Workers, CommitClaim(w)
      PROVE  PlacesKept'
  <2> SUFFICES ASSUME NEW k \in Limited
               PROVE  /\ Cardinality(RunningNow(k)') <= Most[k]
                      /\ \A v \in Workers : pc'[v] = "claiming" /\ Kind[job'[v]] = k =>
                           claim_lock' = v /\ Cardinality(RunningNow(k)') < Most[k]
    BY DEF PlacesKept
  <2>1. /\ IsFiniteSet(RunningNow(k)) /\ Cardinality(RunningNow(k)) \in Nat
        /\ Most[k] \in Nat
    BY RunningNowFinite
  <2>2. ASSUME NEW v \in Workers, pc'[v] = "claiming"
        PROVE  v # w /\ pc[v] = "claiming" /\ job'[v] = job[v]
    BY <1>2, <2>2 DEF CommitClaim
  <2>3. CASE Kind[job[w]] = k
    <3>1. RunningNow(k)' \subseteq RunningNow(k) \cup {job[w]}
      BY <1>2 DEF CommitClaim, RunningNow
    <3>2. /\ IsFiniteSet(RunningNow(k) \cup {job[w]})
          /\ Cardinality(RunningNow(k) \cup {job[w]}) \in Nat
          /\ Cardinality(RunningNow(k) \cup {job[w]}) <= Cardinality(RunningNow(k)) + 1
      <4>1. /\ IsFiniteSet(RunningNow(k) \cup {job[w]})
            /\ Cardinality(RunningNow(k) \cup {job[w]}) =
                 IF job[w] \in RunningNow(k) THEN Cardinality(RunningNow(k))
                                            ELSE Cardinality(RunningNow(k)) + 1
        BY <2>1, FS_AddElement
      <4> QED
        BY <4>1, <2>1
    <3>3. /\ IsFiniteSet(RunningNow(k)')
          /\ Cardinality(RunningNow(k)') <= Cardinality(RunningNow(k) \cup {job[w]})
      BY <3>1, <3>2, FS_Subset
    <3>4. Cardinality(RunningNow(k)') \in Nat
      BY <3>3, FS_CardinalityType
    <3>5. claim_lock = w /\ Cardinality(RunningNow(k)) < Most[k]
      BY <1>2, <2>3 DEF CommitClaim, PlacesKept
    <3>6. \A v \in Workers : ~ (pc'[v] = "claiming" /\ Kind[job'[v]] = k)
      BY <2>2, <3>5 DEF PlacesKept
    <3> QED
      BY <2>1, <3>2, <3>3, <3>4, <3>5, <3>6
  <2>4. CASE Kind[job[w]] # k
    <3>1. RunningNow(k)' = RunningNow(k)
      BY <1>2, <2>4 DEF CommitClaim, RunningNow, ClaimsAgree
    <3>2. ASSUME NEW v \in Workers, pc'[v] = "claiming", Kind[job'[v]] = k
          PROVE  claim_lock' = v /\ Cardinality(RunningNow(k)) < Most[k]
      BY <1>2, <2>2, <3>2 DEF CommitClaim, ReleaseClaimLock, PlacesKept
    <3> QED
      BY <3>1, <3>2 DEF PlacesKept
  <2> QED
    BY <2>3, <2>4
<1>3. ASSUME NEW w \in Workers, Heartbeat(w) \/ HandlerEnds(w)
      PROVE  Shrinks /\ Holds
  BY <1>3 DEF Heartbeat, HandlerEnds, HandlerReturns, RunningNow, Alive, Executing
<1>4. ASSUME NEW w \in Workers, Complete(w) \/ Fail(w)
      PROVE  Shrinks /\ Holds
  BY <1>4 DEF Complete, Fail, LetGo, ClearLocks, RunningNow
<1>5. ASSUME NEW w \in Workers,
             \/ ClaimFails(w) \/ ReportFails(w) \/ Crash(w) \/ Stop(w) \/ Restart(w)
      PROVE  Shrinks /\ Holds
  BY <1>5 DEF ClaimFails, ReportFails, Crash, Stop, Restart, LetGo, ReleaseClaimLock,
              RunningNow
<1>6. ASSUME NEW j \in Jobs,
             \/ \E later \in BOOLEAN : Enqueue(j, later)
             \/ BecomeDue(j) \/ ExpireLock(j) \/ Retry(j) \/ Discard(j)
      PROVE  Shrinks /\ Holds
  BY <1>6 DEF Enqueue, BecomeDue, ExpireLock, Retry, Discard, InsertRow, RunningNow
<1>7. ASSUME RecoverAbandoned
      PROVE  Shrinks /\ Holds
  BY <1>7 DEF RecoverAbandoned, Recovered, ClearLocks, RunningNow
<1>8. ASSUME NEW n \in Schedulers,
             \/ \E j \in Jobs : SchedulerInserts(n, j)
             \/ SchedulerCommits(n) \/ SchedulerFails(n)
      PROVE  Shrinks /\ Holds
  BY <1>8 DEF SchedulerInserts, SchedulerCommits, SchedulerFails, InsertRow, RunningNow
<1>9. ASSUME UNCHANGED vars
      PROVE  Shrinks /\ Holds
  BY <1>9 DEF vars, RunningNow
<1>10. Shrinks /\ Holds => PlacesKept'
  BY PlacesLeft
<1> QED
  BY <1>1, <1>2, <1>3, <1>4, <1>5, <1>6, <1>7, <1>8, <1>9, <1>10 DEF Next

LEMMA PlacesAlways == ASSUME ~ Stalls PROVE Spec => []PlacesKept
<1>1. Init => PlacesKept
  <2> SUFFICES ASSUME Init, NEW k \in Limited
               PROVE  Cardinality(RunningNow(k)) <= Most[k]
    BY DEF Init, PlacesKept
  <2>1. RunningNow(k) = {}
    BY DEF Init, RunningNow
  <2> QED
    BY <2>1, FS_EmptySet
<1>2. IInv /\ Alive /\ PlacesKept /\ [Next]_vars => PlacesKept'
  BY PlacesStep
<1>3. Spec => []Alive
  BY AliveAlways
<1> QED
  BY <1>1, <1>2, <1>3, Invariance, PTL DEF Spec

\* Where heartbeats are kept, at_most keeps its word: no more workers run jobs
\* of a limited kind than its limit.
THEOREM LimitsAreKept == ASSUME ~ Stalls PROVE Spec => []LimitKept
<1>1. IInv /\ Alive /\ PlacesKept => LimitKept
  <2> SUFFICES ASSUME IInv, Alive, PlacesKept, NEW k \in Limited
               PROVE  Cardinality({w \in Workers : Executing(w) /\ Kind[job[w]] = k})
                        <= Most[k]
    BY DEF LimitKept
  <2> DEFINE E == {w \in Workers : Executing(w) /\ Kind[job[w]] = k}
             f == [w \in E |-> job[w]]
  <2>1. f \in Injection(E, RunningNow(k))
    <3>1. f \in [E -> RunningNow(k)]
      BY DEF IInv, TypeOK, RowsAgree, ClaimsAgree, Alive, Owns, RunningNow, Executing
    <3>2. \A v, w \in E : f[v] = f[w] => v = w
      BY DEF Alive, Owns
    <3> QED
      BY <3>1, <3>2 DEF Injection, IsInjective
  <2>2. /\ IsFiniteSet(RunningNow(k)) /\ Cardinality(RunningNow(k)) \in Nat
        /\ Most[k] \in Nat
    BY RunningNowFinite
  <2>3. IsFiniteSet(E) /\ Cardinality(E) <= Cardinality(RunningNow(k))
    BY <2>1, <2>2, FS_Injection
  <2>4. Cardinality(E) \in Nat
    BY <2>3, FS_CardinalityType
  <2> QED
    BY <2>2, <2>3, <2>4 DEF PlacesKept
<1>2. Spec => []Alive /\ []PlacesKept
  BY AliveAlways, PlacesAlways
<1> QED
  BY <1>1, <1>2, Invariance, PTL

-------------------------------------------------------------------------------
(* Scheduled kinds.                                                        *)

Waits(j) == status[j] \in {"queued", "running"}

\* While a scheduler inserts a row, no other of its kind waits, runs or is
\* being inserted.
Singles ==
    /\ OneOfEachScheduled
    /\ \A n \in Schedulers : inserting[n] # None =>
         /\ Kind[inserting[n]] \in Scheduled
         /\ \A i \in Jobs : Kind[i] = Kind[inserting[n]] => ~ Waits(i)
         /\ \A m \in Schedulers : m # n /\ inserting[m] # None =>
              Kind[inserting[m]] # Kind[inserting[n]]

LEMMA SinglesStep ==
    ASSUME MaxRetries = 0
    PROVE  IInv /\ Singles /\ [Next]_vars => Singles'
<1> SUFFICES ASSUME IInv, Singles, [Next]_vars
             PROVE  Singles'
  OBVIOUS
<1> USE DEF IInv, TypeOK, Statuses, rows, Singles, OneOfEachScheduled, Waits
<1>1. ASSUME NEW j \in Jobs, NEW later \in BOOLEAN, Enqueue(j, later)
      PROVE  Singles'
  BY <1>1 DEF Enqueue, InsertRow
<1>2. ASSUME NEW n \in Schedulers, NEW j \in Jobs, SchedulerInserts(n, j)
      PROVE  Singles'
  BY <1>2 DEF SchedulerInserts
<1>3. ASSUME NEW n \in Schedulers, SchedulerCommits(n)
      PROVE  Singles'
  BY <1>3 DEF SchedulerCommits, InsertRow, InsertsAgree
<1>4. ASSUME NEW n \in Schedulers, SchedulerFails(n)
      PROVE  Singles'
  BY <1>4 DEF SchedulerFails
<1>5. ASSUME NEW w \in Workers, CommitClaim(w)
      PROVE  Singles'
  BY <1>5 DEF CommitClaim, ClaimsAgree
<1>6. ASSUME NEW w \in Workers, Complete(w) \/ Fail(w)
      PROVE  Singles'
  BY <1>6 DEF Complete, Fail, Owns, RowsAgree, ClaimsAgree
<1>7. ASSUME NEW w \in Workers,
             \/ BeginClaim(w) \/ ClaimFails(w) \/ Heartbeat(w) \/ HandlerEnds(w)
             \/ ReportFails(w) \/ Crash(w) \/ Stop(w) \/ Restart(w)
      PROVE  Singles'
  BY <1>7 DEF BeginClaim, ClaimFails, Heartbeat, HandlerEnds, HandlerReturns,
              ReportFails, Crash, Stop, Restart
<1>8. ASSUME NEW j \in Jobs,
             BecomeDue(j) \/ ExpireLock(j) \/ Retry(j) \/ Discard(j)
      PROVE  Singles'
  BY <1>8 DEF BecomeDue, ExpireLock, Retry, Discard
<1>9. CASE RecoverAbandoned
  BY <1>9 DEF RecoverAbandoned, Recovered, Abandoned
<1>10. CASE UNCHANGED vars
  BY <1>10 DEF vars
<1> QED
  BY <1>1, <1>2, <1>3, <1>4, <1>5, <1>6, <1>7, <1>8, <1>9, <1>10 DEF Next

\* Until an administrator puts a dead job back, schedulers on any number of
\* nodes keep one job of each scheduled kind at most.
THEOREM OneIsScheduled == ASSUME MaxRetries = 0 PROVE Spec => []OneOfEachScheduled
<1>1. Init => Singles
  BY DEF Init, Singles, OneOfEachScheduled
<1>2. IInv /\ Singles /\ [Next]_vars => Singles'
  BY SinglesStep
<1>3. Singles => OneOfEachScheduled
  BY DEF Singles
<1> QED
  BY <1>1, <1>2, <1>3, Invariance, PTL DEF Spec
===============================================================================
