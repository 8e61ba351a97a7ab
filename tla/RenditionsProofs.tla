--------------------------- MODULE RenditionsProofs ---------------------------
(***************************************************************************)
(* Theorems about Renditions, for any files, kinds, runs, processes and    *)
(* attempts, and any bound on the jobs.                                    *)
(***************************************************************************)
EXTENDS Renditions, TLAPS

\* Runs are of jobs there have been, and make renditions of a kind.
RunsAgree ==
    /\ \A r \in Runs : Active(r) => works[r] \in 1..enqueued
    /\ \A r \in Runs : at[r] = "rendering" => making[r] \in Kinds
    /\ \A j \in Jobs : state[j] # "absent" => j \in 1..enqueued

\* The job of a file that is not processed has had no success.
JobToDo ==
    post # "gone" /\ phash = None =>
        /\ state[ordered] # "absent" \/ ordered \in discarded
        /\ "ok" \notin results[ordered]
        /\ \A r \in Runs : at[r] = "done" => works[r] # ordered

\* A run knows the present file, works on it and has saved what it need not do any more.
RunIsRight(r) ==
    /\ HasRead(r) => /\ reads[r] = file
                     /\ todo[r] \subseteq Wanted[file]
                     /\ \A k \in Wanted[file] \ todo[r] : variants[k] = file
    /\ AtWork(r) => scratch[On[r]] \in {None, file}
    /\ at[r] = "rendering" => /\ making[r] \in Wanted[file]
                              /\ stored[<<making[r], file>>] = file

RunsRight == \A r \in Runs : RunIsRight(r)

\* The rows tell of the present file, and none of its renditions is about to be deleted.
RowsRight ==
    /\ \A d \in due : d[2][2] # file
    /\ \A k \in Kinds : Some(variants[k]) => k \in Wanted[file] /\ Shows(k, file)
    /\ metadata \in {file, None}
    /\ Some(phash) => phash = file /\ \A k \in Wanted[file] : variants[k] = file

Calm == post = "there" /\ ~crossed

CalmIsRight == Calm => RunsRight /\ RowsRight

IInv == TypeOK /\ RunsAgree /\ JobToDo /\ CalmIsRight

USE NoneAssumption, MaxJobsAssumption, AllowedAssumption, WantedAssumption, OnAssumption

-------------------------------------------------------------------------------

\* Every step keeps the types.
LEMMA TypesStep == TypeOK /\ RunsAgree /\ [Next]_vars => TypeOK'
<1> SUFFICES ASSUME TypeOK, RunsAgree, [Next]_vars
             PROVE  TypeOK'
  OBVIOUS
<1> USE DEF TypeOK, RunsAgree, Jobs, Keys, Active, HasRead, AtWork, Places, Some,
    row, storage, queue, orders, runs, history
<1>1. ASSUME NEW f \in Files, Replace(f)
      PROVE  TypeOK'
  BY <1>1 DEF Replace, Enqueue, Named, Queue!Submit, Queue!BecomePending
<1>2. ASSUME NEW d \in due, DeleteOld(d)
      PROVE  TypeOK'
  BY <1>2 DEF DeleteOld
<1>3. ASSUME Regenerate
      PROVE  TypeOK'
  <2> DEFINE next == enqueued + 1
  <2>1. enqueued' = next /\ next \in Jobs /\ ordered' \in 1..next
    BY <1>3 DEF Regenerate, Enqueue
  <2>2. /\ state' = [state EXCEPT ![next] = "pending"]
        /\ begun' = [begun EXCEPT ![next] = 0]
        /\ results' = [results EXCEPT ![next] = {}]
    BY <1>3 DEF Regenerate, Enqueue, Queue!Submit, Queue!BecomePending
  <2>3. UNCHANGED <<row, storage, scratch, runs, history>>
    BY <1>3 DEF Regenerate
  <2> QED
    BY <2>1, <2>2, <2>3
<1>4. ASSUME StartPurge
      PROVE  TypeOK'
  BY <1>4 DEF StartPurge
<1>5. ASSUME RemoveFiles
      PROVE  TypeOK'
  BY <1>5 DEF RemoveFiles
<1>6. ASSUME FinishPurge
      PROVE  TypeOK'
  BY <1>6 DEF FinishPurge
<1>7. ASSUME NEW r \in Runs, NEW j \in Jobs, Begin(r, j)
      PROVE  TypeOK'
  <2>1. begun' \in [Jobs -> Nat] /\ works' \in [Runs -> Jobs \cup {None}]
    BY SMTT(30), <1>7 DEF Begin, Queue!Begin
  <2>2. UNCHANGED <<row, storage, scratch, orders, making, history, state, results>>
    BY <1>7 DEF Begin, Queue!Begin
  <2>3. /\ at' \in [Runs -> Places]
        /\ reads' \in [Runs -> Files \cup {None}]
        /\ todo' \in [Runs -> SUBSET Kinds]
    <3>1. CASE post = "gone"
      BY <1>7, <3>1 DEF Begin
    <3>2. CASE post # "gone"
      <4>1. /\ at' = [at EXCEPT ![r] = "found"]
            /\ reads' = [reads EXCEPT ![r] = file]
            /\ todo' = [todo EXCEPT ![r] = Wanted[file]]
        BY <1>7, <3>2 DEF Begin
      <4>2. file \in Files /\ Wanted[file] \in SUBSET Kinds
        OBVIOUS
      <4> QED
        BY <4>1, <4>2
    <3> QED
      BY <3>1, <3>2
  <2> QED
    BY <2>1, <2>2, <2>3
<1>8. ASSUME NEW r \in Runs, Return(r)
      PROVE  TypeOK'
  BY <1>8 DEF Return, End, Queue!Return
<1>9. ASSUME NEW r \in Runs, NEW how \in {"retry", "permanent"}, Fail(r, how)
      PROVE  TypeOK'
  BY <1>9 DEF Fail, DropScratch, End, Queue!Return
<1>10. ASSUME NEW p \in Processes, Crash(p)
      PROVE  TypeOK'
  BY <1>10 DEF Crash, End
<1>11. ASSUME NEW j \in Jobs, Finish(j)
      PROVE  TypeOK'
  BY <1>11 DEF Finish, Queue!Finish, Queue!Leave
<1>12. ASSUME NEW j \in Jobs, GiveUp(j)
      PROVE  TypeOK'
  BY <1>12 DEF GiveUp, Queue!GiveUp
<1>13. ASSUME NEW j \in Jobs, Revive(j)
      PROVE  TypeOK'
  BY <1>13 DEF Revive, Queue!Revive, Queue!BecomePending
<1>14. ASSUME NEW j \in Jobs, Discard(j)
      PROVE  TypeOK'
  BY <1>14 DEF Discard, Queue!Discard, Queue!Leave
<1>15. ASSUME NEW r \in Runs, Load(r)
      PROVE  TypeOK'
  BY <1>15 DEF Load, Go
<1>16. ASSUME NEW r \in Runs, Describe(r)
      PROVE  TypeOK'
  BY <1>16 DEF Describe, Go
<1>17. ASSUME NEW r \in Runs, NEW k \in Kinds, Render(r, k)
      PROVE  TypeOK'
  BY <1>17 DEF Render, Go
<1>18. ASSUME NEW r \in Runs, Save(r)
      PROVE  TypeOK'
  BY <1>18 DEF Save, Go
<1>19. ASSUME NEW r \in Runs, MarkProcessed(r)
      PROVE  TypeOK'
  BY SMTT(30), <1>19 DEF MarkProcessed, DropScratch, Go
<1>20. CASE UNCHANGED vars
  BY <1>20 DEF vars
<1> HIDE DEF TypeOK, RunsAgree, Jobs, Keys, Active, HasRead, AtWork, Places, Some,
    row, storage, queue, orders, runs, history
<1> QED
  BY <1>1, <1>2, <1>3, <1>4, <1>5, <1>6, <1>7, <1>8, <1>9, <1>10, <1>11, <1>12,
      <1>13, <1>14, <1>15, <1>16, <1>17, <1>18, <1>19, <1>20
  DEF Next, Request, Purge, Schedule, Process

\* Every step keeps runs with their jobs.
LEMMA RunsStep == TypeOK /\ RunsAgree /\ [Next]_vars => RunsAgree'
<1> SUFFICES ASSUME TypeOK, RunsAgree, [Next]_vars
             PROVE  RunsAgree'
  OBVIOUS
<1> USE DEF TypeOK, RunsAgree, Jobs, Keys, Active, HasRead, AtWork, Places, Some,
    row, storage, queue, orders, runs, history
<1>1. ASSUME NEW f \in Files, Replace(f)
      PROVE  RunsAgree'
  BY <1>1 DEF Replace, Enqueue, Named, Queue!Submit, Queue!BecomePending
<1>2. ASSUME NEW d \in due, DeleteOld(d)
      PROVE  RunsAgree'
  BY <1>2 DEF DeleteOld
<1>3. ASSUME Regenerate
      PROVE  RunsAgree'
  BY SMTT(30), <1>3 DEF Regenerate, Enqueue, Queue!Submit, Queue!BecomePending
<1>4. ASSUME StartPurge
      PROVE  RunsAgree'
  BY <1>4 DEF StartPurge
<1>5. ASSUME RemoveFiles
      PROVE  RunsAgree'
  BY <1>5 DEF RemoveFiles
<1>6. ASSUME FinishPurge
      PROVE  RunsAgree'
  BY <1>6 DEF FinishPurge
<1>7. ASSUME NEW r \in Runs, NEW j \in Jobs, Begin(r, j)
      PROVE  RunsAgree'
  BY <1>7 DEF Begin, Queue!Begin
<1>8. ASSUME NEW r \in Runs, Return(r)
      PROVE  RunsAgree'
  BY <1>8 DEF Return, End, Queue!Return
<1>9. ASSUME NEW r \in Runs, NEW how \in {"retry", "permanent"}, Fail(r, how)
      PROVE  RunsAgree'
  BY <1>9 DEF Fail, DropScratch, End, Queue!Return
<1>10. ASSUME NEW p \in Processes, Crash(p)
      PROVE  RunsAgree'
  BY <1>10 DEF Crash, End
<1>11. ASSUME NEW j \in Jobs, Finish(j)
      PROVE  RunsAgree'
  BY <1>11 DEF Finish, Queue!Finish, Queue!Leave
<1>12. ASSUME NEW j \in Jobs, GiveUp(j)
      PROVE  RunsAgree'
  BY <1>12 DEF GiveUp, Queue!GiveUp
<1>13. ASSUME NEW j \in Jobs, Revive(j)
      PROVE  RunsAgree'
  BY <1>13 DEF Revive, Queue!Revive, Queue!BecomePending
<1>14. ASSUME NEW j \in Jobs, Discard(j)
      PROVE  RunsAgree'
  BY <1>14 DEF Discard, Queue!Discard, Queue!Leave
<1>15. ASSUME NEW r \in Runs, Load(r)
      PROVE  RunsAgree'
  BY <1>15 DEF Load, Go
<1>16. ASSUME NEW r \in Runs, Describe(r)
      PROVE  RunsAgree'
  BY <1>16 DEF Describe, Go
<1>17. ASSUME NEW r \in Runs, NEW k \in Kinds, Render(r, k)
      PROVE  RunsAgree'
  BY <1>17 DEF Render, Go
<1>18. ASSUME NEW r \in Runs, Save(r)
      PROVE  RunsAgree'
  BY <1>18 DEF Save, Go
<1>19. ASSUME NEW r \in Runs, MarkProcessed(r)
      PROVE  RunsAgree'
  BY <1>19 DEF MarkProcessed, DropScratch, Go
<1>20. CASE UNCHANGED vars
  BY <1>20 DEF vars
<1> HIDE DEF TypeOK, RunsAgree, Jobs, Keys, Active, HasRead, AtWork, Places, Some,
    row, storage, queue, orders, runs, history
<1> QED
  BY <1>1, <1>2, <1>3, <1>4, <1>5, <1>6, <1>7, <1>8, <1>9, <1>10, <1>11, <1>12,
      <1>13, <1>14, <1>15, <1>16, <1>17, <1>18, <1>19, <1>20
  DEF Next, Request, Purge, Schedule, Process

\* A success of the job of a file comes after the file is processed.
LEMMA JobStep == TypeOK /\ RunsAgree /\ JobToDo /\ [Next]_vars => JobToDo'
<1> SUFFICES ASSUME TypeOK, RunsAgree, JobToDo, [Next]_vars
             PROVE  JobToDo'
  OBVIOUS
<1> USE DEF JobToDo, TypeOK, RunsAgree, Jobs, Keys, Active, HasRead, AtWork, Places,
    Some, row, storage, queue, orders, runs, history
<1>1. ASSUME NEW f \in Files, Replace(f)
      PROVE  JobToDo'
  <2> DEFINE next == enqueued + 1
  <2>1. ordered' = next /\ next \in Jobs
    BY <1>1 DEF Replace, Enqueue
  <2>2. /\ state' = [state EXCEPT ![next] = "pending"]
        /\ results' = [results EXCEPT ![next] = {}]
    BY <1>1 DEF Replace, Enqueue, Queue!Submit, Queue!BecomePending
  <2>3. \A r \in Runs : at[r] = "done" => works[r] # next
    <3>1. \A i \in 1..enqueued : i # next
      OBVIOUS
    <3> QED
      BY <3>1
  <2>4. UNCHANGED <<at, works>>
    BY <1>1 DEF Replace
  <2> QED
    BY <2>1, <2>2, <2>3, <2>4
<1>2. ASSUME NEW d \in due, DeleteOld(d)
      PROVE  JobToDo'
  BY <1>2 DEF DeleteOld
<1>3. ASSUME Regenerate
      PROVE  JobToDo'
  BY <1>3 DEF Regenerate, Enqueue, Queue!Submit, Queue!BecomePending
<1>4. ASSUME StartPurge
      PROVE  JobToDo'
  BY <1>4 DEF StartPurge
<1>5. ASSUME RemoveFiles
      PROVE  JobToDo'
  BY <1>5 DEF RemoveFiles
<1>6. ASSUME FinishPurge
      PROVE  JobToDo'
  BY <1>6 DEF FinishPurge
<1>7. ASSUME NEW r \in Runs, NEW j \in Jobs, Begin(r, j)
      PROVE  JobToDo'
  BY <1>7 DEF Begin, Queue!Begin
<1>8. ASSUME NEW r \in Runs, Return(r)
      PROVE  JobToDo'
  BY <1>8 DEF Return, End, Queue!Return
<1>9. ASSUME NEW r \in Runs, NEW how \in {"retry", "permanent"}, Fail(r, how)
      PROVE  JobToDo'
  BY <1>9 DEF Fail, DropScratch, End, Queue!Return
<1>10. ASSUME NEW p \in Processes, Crash(p)
      PROVE  JobToDo'
  BY <1>10 DEF Crash, End
<1>11. ASSUME NEW j \in Jobs, Finish(j)
      PROVE  JobToDo'
  BY <1>11 DEF Finish, Queue!Finish, Queue!Leave
<1>12. ASSUME NEW j \in Jobs, GiveUp(j)
      PROVE  JobToDo'
  BY <1>12 DEF GiveUp, Queue!GiveUp
<1>13. ASSUME NEW j \in Jobs, Revive(j)
      PROVE  JobToDo'
  BY <1>13 DEF Revive, Queue!Revive, Queue!BecomePending
<1>14. ASSUME NEW j \in Jobs, Discard(j)
      PROVE  JobToDo'
  BY <1>14 DEF Discard, Queue!Discard, Queue!Leave
<1>15. ASSUME NEW r \in Runs, Load(r)
      PROVE  JobToDo'
  BY <1>15 DEF Load, Go
<1>16. ASSUME NEW r \in Runs, Describe(r)
      PROVE  JobToDo'
  BY <1>16 DEF Describe, Go
<1>17. ASSUME NEW r \in Runs, NEW k \in Kinds, Render(r, k)
      PROVE  JobToDo'
  BY <1>17 DEF Render, Go
<1>18. ASSUME NEW r \in Runs, Save(r)
      PROVE  JobToDo'
  BY <1>18 DEF Save, Go
<1>19. ASSUME NEW r \in Runs, MarkProcessed(r)
      PROVE  JobToDo'
  BY <1>19 DEF MarkProcessed, DropScratch, Go
<1>20. CASE UNCHANGED vars
  BY <1>20 DEF vars
<1> HIDE DEF JobToDo, TypeOK, RunsAgree, Jobs, Keys, Active, HasRead, AtWork, Places,
    Some, row, storage, queue, orders, runs, history
<1> QED
  BY <1>1, <1>2, <1>3, <1>4, <1>5, <1>6, <1>7, <1>8, <1>9, <1>10, <1>11, <1>12,
      <1>13, <1>14, <1>15, <1>16, <1>17, <1>18, <1>19, <1>20
  DEF Next, Request, Purge, Schedule, Process

\* Runs keep to the present file until another one crosses them.
LEMMA CalmRunsStep == TypeOK /\ RunsAgree /\ CalmIsRight /\ [Next]_vars => (Calm =>
    RunsRight)'
<1> SUFFICES ASSUME TypeOK, RunsAgree, CalmIsRight, [Next]_vars
             PROVE  (Calm => RunsRight)'
  OBVIOUS
<1> USE DEF CalmIsRight, Calm, RunsRight, RunIsRight, RowsRight, Shows, TypeOK,
    RunsAgree, Jobs, Keys, Active, HasRead, AtWork, Places, Some, row, storage,
        queue, orders, runs, history
<1>1. ASSUME NEW f \in Files, Replace(f)
      PROVE  (Calm => RunsRight)'
  BY <1>1 DEF Replace, Enqueue, Named, Queue!Submit, Queue!BecomePending
<1>2. ASSUME NEW d \in due, DeleteOld(d)
      PROVE  (Calm => RunsRight)'
  BY <1>2 DEF DeleteOld
<1>3. ASSUME Regenerate
      PROVE  (Calm => RunsRight)'
  BY <1>3 DEF Regenerate, Enqueue, Queue!Submit, Queue!BecomePending
<1>4. ASSUME StartPurge
      PROVE  (Calm => RunsRight)'
  BY <1>4 DEF StartPurge
<1>5. ASSUME RemoveFiles
      PROVE  (Calm => RunsRight)'
  BY <1>5 DEF RemoveFiles
<1>6. ASSUME FinishPurge
      PROVE  (Calm => RunsRight)'
  BY <1>6 DEF FinishPurge
<1>7. ASSUME NEW r \in Runs, NEW j \in Jobs, Begin(r, j)
      PROVE  (Calm => RunsRight)'
  BY <1>7 DEF Begin, Queue!Begin
<1>8. ASSUME NEW r \in Runs, Return(r)
      PROVE  (Calm => RunsRight)'
  BY <1>8 DEF Return, End, Queue!Return
<1>9. ASSUME NEW r \in Runs, NEW how \in {"retry", "permanent"}, Fail(r, how)
      PROVE  (Calm => RunsRight)'
  BY <1>9 DEF Fail, DropScratch, End, Queue!Return
<1>10. ASSUME NEW p \in Processes, Crash(p)
      PROVE  (Calm => RunsRight)'
  BY <1>10 DEF Crash, End
<1>11. ASSUME NEW j \in Jobs, Finish(j)
      PROVE  (Calm => RunsRight)'
  BY <1>11 DEF Finish, Queue!Finish, Queue!Leave
<1>12. ASSUME NEW j \in Jobs, GiveUp(j)
      PROVE  (Calm => RunsRight)'
  BY <1>12 DEF GiveUp, Queue!GiveUp
<1>13. ASSUME NEW j \in Jobs, Revive(j)
      PROVE  (Calm => RunsRight)'
  BY <1>13 DEF Revive, Queue!Revive, Queue!BecomePending
<1>14. ASSUME NEW j \in Jobs, Discard(j)
      PROVE  (Calm => RunsRight)'
  BY <1>14 DEF Discard, Queue!Discard, Queue!Leave
<1>15. ASSUME NEW r \in Runs, Load(r)
      PROVE  (Calm => RunsRight)'
  BY ZenonT(30), <1>15 DEF Load, Go
<1>16. ASSUME NEW r \in Runs, Describe(r)
      PROVE  (Calm => RunsRight)'
  BY <1>16 DEF Describe, Go
<1>17. ASSUME NEW r \in Runs, NEW k \in Kinds, Render(r, k)
      PROVE  (Calm => RunsRight)'
  BY ZenonT(30), <1>17 DEF Render, Go
<1>18. ASSUME NEW r \in Runs, Save(r)
      PROVE  (Calm => RunsRight)'
  BY ZenonT(30), <1>18 DEF Save, Go
<1>19. ASSUME NEW r \in Runs, MarkProcessed(r)
      PROVE  (Calm => RunsRight)'
  BY <1>19 DEF MarkProcessed, DropScratch, Go
<1>20. CASE UNCHANGED vars
  BY <1>20 DEF vars
<1> HIDE DEF CalmIsRight, Calm, RunsRight, RunIsRight, RowsRight, Shows, TypeOK,
    RunsAgree, Jobs, Keys, Active, HasRead, AtWork, Places, Some, row, storage,
        queue, orders, runs, history
<1> QED
  BY <1>1, <1>2, <1>3, <1>4, <1>5, <1>6, <1>7, <1>8, <1>9, <1>10, <1>11, <1>12,
      <1>13, <1>14, <1>15, <1>16, <1>17, <1>18, <1>19, <1>20
  DEF Next, Request, Purge, Schedule, Process

\* So the rows do, and the files they name.
LEMMA CalmRowsStep == TypeOK /\ RunsAgree /\ CalmIsRight /\ [Next]_vars => (Calm =>
    RowsRight)'
<1> SUFFICES ASSUME TypeOK, RunsAgree, CalmIsRight, [Next]_vars
             PROVE  (Calm => RowsRight)'
  OBVIOUS
<1> USE DEF CalmIsRight, Calm, RunsRight, RunIsRight, RowsRight, Shows, TypeOK,
    RunsAgree, Jobs, Keys, Active, HasRead, AtWork, Places, Some, row, storage,
        queue, orders, runs, history
<1>1. ASSUME NEW f \in Files, Replace(f)
      PROVE  (Calm => RowsRight)'
  BY <1>1 DEF Replace, Enqueue, Named, Queue!Submit, Queue!BecomePending
<1>2. ASSUME NEW d \in due, DeleteOld(d)
      PROVE  (Calm => RowsRight)'
  BY <1>2 DEF DeleteOld
<1>3. ASSUME Regenerate
      PROVE  (Calm => RowsRight)'
  BY <1>3 DEF Regenerate, Enqueue, Queue!Submit, Queue!BecomePending
<1>4. ASSUME StartPurge
      PROVE  (Calm => RowsRight)'
  BY <1>4 DEF StartPurge
<1>5. ASSUME RemoveFiles
      PROVE  (Calm => RowsRight)'
  BY <1>5 DEF RemoveFiles
<1>6. ASSUME FinishPurge
      PROVE  (Calm => RowsRight)'
  BY <1>6 DEF FinishPurge
<1>7. ASSUME NEW r \in Runs, NEW j \in Jobs, Begin(r, j)
      PROVE  (Calm => RowsRight)'
  BY <1>7 DEF Begin, Queue!Begin
<1>8. ASSUME NEW r \in Runs, Return(r)
      PROVE  (Calm => RowsRight)'
  BY <1>8 DEF Return, End, Queue!Return
<1>9. ASSUME NEW r \in Runs, NEW how \in {"retry", "permanent"}, Fail(r, how)
      PROVE  (Calm => RowsRight)'
  BY <1>9 DEF Fail, DropScratch, End, Queue!Return
<1>10. ASSUME NEW p \in Processes, Crash(p)
      PROVE  (Calm => RowsRight)'
  BY <1>10 DEF Crash, End
<1>11. ASSUME NEW j \in Jobs, Finish(j)
      PROVE  (Calm => RowsRight)'
  BY <1>11 DEF Finish, Queue!Finish, Queue!Leave
<1>12. ASSUME NEW j \in Jobs, GiveUp(j)
      PROVE  (Calm => RowsRight)'
  BY <1>12 DEF GiveUp, Queue!GiveUp
<1>13. ASSUME NEW j \in Jobs, Revive(j)
      PROVE  (Calm => RowsRight)'
  BY <1>13 DEF Revive, Queue!Revive, Queue!BecomePending
<1>14. ASSUME NEW j \in Jobs, Discard(j)
      PROVE  (Calm => RowsRight)'
  BY <1>14 DEF Discard, Queue!Discard, Queue!Leave
<1>15. ASSUME NEW r \in Runs, Load(r)
      PROVE  (Calm => RowsRight)'
  BY <1>15 DEF Load, Go
<1>16. ASSUME NEW r \in Runs, Describe(r)
      PROVE  (Calm => RowsRight)'
  BY <1>16 DEF Describe, Go
<1>17. ASSUME NEW r \in Runs, NEW k \in Kinds, Render(r, k)
      PROVE  (Calm => RowsRight)'
  BY <1>17 DEF Render, Go
<1>18. ASSUME NEW r \in Runs, Save(r)
      PROVE  (Calm => RowsRight)'
  <2> SUFFICES ASSUME Calm'
               PROVE  RowsRight'
    OBVIOUS
  <2> DEFINE k == making[r]
  <2>1. /\ UNCHANGED <<post, file, metadata, phash, stored, due, crossed>>
        /\ at[r] = "rendering"
        /\ variants' = [variants EXCEPT ![k] = reads[r]]
    BY <1>18 DEF Save
  <2>2. RowsRight /\ RunIsRight(r)
    BY <2>1
  <2>3. reads[r] = file /\ k \in Wanted[file] /\ stored[<<k, file>>] = file /\ k \in
      Kinds
    BY <2>1, <2>2
  <2>4. variants' = [variants EXCEPT ![k] = file]
    BY <2>1, <2>3
  <2> HIDE DEF k
  <2>5. \A i \in Kinds : variants'[i] = IF i = k THEN file ELSE variants[i]
    BY <2>4
  <2>6. ASSUME NEW i \in Kinds, Some(variants'[i])
        PROVE  i \in Wanted[file] /\ variants'[i] = file /\ stored[<<i, file>>] = file
    <3>1. CASE i = k
      BY <2>3, <2>5, <3>1
    <3>2. CASE i # k
      BY <2>2, <2>5, <2>6, <3>2
    <3> QED
      BY <3>1, <3>2
  <2>7. \A i \in Wanted[file] : variants[i] = file => variants'[i] = file
    BY <2>3, <2>5
  <2> QED
    BY <2>1, <2>2, <2>6, <2>7
<1>19. ASSUME NEW r \in Runs, MarkProcessed(r)
      PROVE  (Calm => RowsRight)'
  BY <1>19 DEF MarkProcessed, DropScratch, Go
<1>20. CASE UNCHANGED vars
  BY <1>20 DEF vars
<1> HIDE DEF CalmIsRight, Calm, RunsRight, RunIsRight, RowsRight, Shows, TypeOK,
    RunsAgree, Jobs, Keys, Active, HasRead, AtWork, Places, Some, row, storage,
        queue, orders, runs, history
<1> QED
  BY <1>1, <1>2, <1>3, <1>4, <1>5, <1>6, <1>7, <1>8, <1>9, <1>10, <1>11, <1>12,
      <1>13, <1>14, <1>15, <1>16, <1>17, <1>18, <1>19, <1>20
  DEF Next, Request, Purge, Schedule, Process

LEMMA InitRight == Init => IInv
<1> SUFFICES ASSUME Init
             PROVE  IInv
  OBVIOUS
<1>1. TypeOK
  <2>1. 1 \in Jobs /\ state \in [Jobs -> {"absent", "pending", "dead"}]
    BY DEF Init, Jobs
  <2>2. stored \in [Keys -> Files \cup {None}]
    BY DEF Init, Keys
  <2>3. begun \in [Jobs -> Nat] /\ results \in [Jobs -> SUBSET {"ok", "retry", "permanent"}]
    BY DEF Init
  <2>4. /\ at \in [Runs -> Places] /\ works \in [Runs -> Jobs \cup {None}]
        /\ reads \in [Runs -> Files \cup {None}] /\ todo \in [Runs -> SUBSET Kinds]
        /\ making \in [Runs -> Kinds \cup {None}]
    BY DEF Init, Places
  <2>5. /\ variants \in [Kinds -> Files \cup {None}]
        /\ scratch \in [Processes -> Files \cup {None}]
        /\ due \subseteq Jobs \X Keys
    BY DEF Init
  <2>6. enqueued \in Jobs /\ ordered \in 1..enqueued
    BY <2>1 DEF Init
  <2>7. /\ post \in {"there", "purging", "gone"}
        /\ file \in Files /\ {metadata, phash} \subseteq Files \cup {None}
        /\ discarded \subseteq Jobs /\ crossed \in BOOLEAN
    BY DEF Init
  <2> QED
    BY <2>1, <2>2, <2>3, <2>4, <2>5, <2>6, <2>7 DEF TypeOK
<1>2. RunsAgree
  BY DEF Init, RunsAgree, Jobs, Active
<1>3. JobToDo
  BY DEF Init, JobToDo, Jobs
<1>4. RunsRight /\ RowsRight
  BY DEF Init, RunsRight, RunIsRight, RowsRight, HasRead, AtWork, Some
<1> QED
  BY <1>1, <1>2, <1>3, <1>4 DEF IInv, CalmIsRight

LEMMA StepRight == IInv /\ [Next]_vars => IInv'
BY TypesStep, RunsStep, JobStep, CalmRunsStep, CalmRowsStep DEF IInv, CalmIsRight

LEMMA AlwaysRight == Spec => []IInv
BY InitRight, StepRight, PTL DEF Spec

-------------------------------------------------------------------------------

\* Every variable keeps its type.
THEOREM TypeCorrect == Spec => []TypeOK
<1>1. IInv => TypeOK
  BY DEF IInv
<1> QED
  BY AlwaysRight, <1>1, PTL

\* The file of a post is processed, or its job is waiting, running or dead, or was
\* discarded, whatever the runs of earlier files write after the file was replaced
\* (replacements::replace, MediaJobs::process).
THEOREM FileHasJob == Spec => []UnprocessedHasJob
<1>1. IInv => UnprocessedHasJob
  BY DEF IInv, JobToDo, UnprocessedHasJob
<1> QED
  BY AlwaysRight, <1>1, PTL

\* The renditions pages show are stored and of the present file, whatever crashes, is
\* retried or runs twice, unless the file came while a run of another was under way or
\* renditions of the same file were still being deleted (MediaJobs::process, record).
THEOREM RenditionsRight == Spec => []RenditionsOfTheFile
<1>1. IInv => RenditionsOfTheFile
  BY DEF IInv, CalmIsRight, Calm, RowsRight, RenditionsOfTheFile
<1> QED
  BY AlwaysRight, <1>1, PTL

\* A file that counts as processed has every rendition that is made of it, no other, and
\* its own hash and metadata, with the same reservation (MediaJobs::process).
THEOREM FullWhenProcessed == Spec => []ProcessedInFull
<1>1. IInv => ProcessedInFull
  <2> SUFFICES ASSUME IInv, post = "there", ~crossed, Some(phash)
               PROVE  /\ phash = file
                      /\ metadata \in {file, None}
                      /\ {k \in Kinds : Some(variants[k])} = Wanted[file]
    BY DEF ProcessedInFull
  <2>1. RowsRight /\ file \in Files
    BY DEF IInv, CalmIsRight, Calm, TypeOK
  <2>2. Wanted[file] \subseteq Kinds
    BY <2>1
  <2>3. \A k \in Wanted[file] : Some(variants[k])
    BY <2>1 DEF RowsRight, Some
  <2> QED
    BY <2>1, <2>2, <2>3 DEF RowsRight
<1> QED
  BY AlwaysRight, <1>1, PTL
-------------------------------------------------------------------------------
(* Files ask no more of the queue than AtLeastOnce promises: but for the   *)
(* job of the post's first file, which is there from the start.            *)

LEMMA QueueStep == IInv /\ [Next]_vars => [Queue!Next]_(Queue!vars)
<1> SUFFICES ASSUME IInv, [Next]_vars
             PROVE  Queue!Next \/ UNCHANGED queue
  BY DEF Queue!vars, queue
<1>1. enqueued \in Jobs /\ Jobs = 1..MaxJobs
  BY DEF IInv, TypeOK, Jobs
<1>2. ASSUME Enqueue
      PROVE  Queue!Next
  <2>1. enqueued + 1 \in Jobs /\ Queue!Submit(enqueued + 1)
    BY <1>1, <1>2 DEF Enqueue
  <2> QED
    BY <2>1 DEF Queue!Next
<1>3. ASSUME NEW f \in Files, Replace(f)
      PROVE  Queue!Next
  BY <1>2, <1>3 DEF Replace
<1>4. CASE Regenerate
  BY <1>2, <1>4 DEF Regenerate
<1>5. ASSUME NEW r \in Runs, NEW j \in Jobs, Begin(r, j)
      PROVE  Queue!Next
  BY <1>5 DEF Begin, Queue!Next
<1>6. ASSUME NEW r \in Runs, NEW how \in {"retry", "permanent"}, Return(r) \/ Fail(r, how)
      PROVE  Queue!Next
  <2>1. works[r] \in Jobs
    BY <1>1, <1>6 DEF Return, Fail, HasRead, IInv, RunsAgree, Active
  <2>2. \E result \in {"ok", "retry", "permanent"} : Queue!Return(works[r], result)
    BY <1>6 DEF Return, Fail
  <2> QED
    BY <2>1, <2>2 DEF Queue!Next
<1>7. ASSUME NEW j \in Jobs, Finish(j) \/ Revive(j) \/ Discard(j)
      PROVE  Queue!Next
  BY <1>7 DEF Finish, Revive, Discard, Queue!Next
<1>8. ASSUME NEW j \in Jobs, GiveUp(j)
      PROVE  Queue!Next
  <2>1. {j} \in SUBSET Jobs /\ Queue!GiveUp({j})
    BY <1>8 DEF GiveUp
  <2> QED
    BY <2>1 DEF Queue!Next
<1>9. ASSUME NEW d \in due, DeleteOld(d)
      PROVE  UNCHANGED queue
  BY <1>9 DEF DeleteOld
<1>10. CASE Purge
  BY <1>10 DEF Purge, StartPurge, RemoveFiles, FinishPurge
<1>11. ASSUME NEW p \in Processes, Crash(p)
       PROVE  UNCHANGED queue
  BY <1>11 DEF Crash
<1>12. ASSUME NEW r \in Runs, Process(r)
       PROVE  UNCHANGED queue
  BY <1>12 DEF Process, Load, Describe, Render, Save, MarkProcessed
<1>13. CASE UNCHANGED vars
  BY <1>13 DEF vars
<1> QED
  BY <1>3, <1>4, <1>5, <1>6, <1>7, <1>8, <1>9, <1>10, <1>11, <1>12, <1>13
  DEF Next, Request, Schedule

\* However files are replaced, processed, crashed on and retried, each step is one the
\* queue may take with their jobs (and JobQueue does).
THEOREM RenditionsTrustTheQueue == Spec => [][Queue!Next]_(Queue!vars)
BY QueueStep, AlwaysRight, PTL DEF Spec

Promised == INSTANCE AtLeastOnceProofs

\* A file without its renditions is given up, its job dead, only after as many attempts as
\* there may be, or when a tool said that the file is damaged.
StuckWasTried ==
    state[ordered] = "dead" => begun[ordered] = Allowed[ordered]
                                 \/ "permanent" \in results[ordered]

\* No crash or failure of the storage gives a file up before it was tried.
THEOREM StuckFilesWereTried == Spec => []StuckWasTried
<1>1. Init => Promised!IInv
  BY DEF Init, Promised!IInv, Promised!Types, Promised!DeadForAReason
<1>2. IInv /\ [Next]_vars => [Promised!Next]_(Promised!vars)
  BY QueueStep DEF Queue!vars, Promised!vars, Queue!Next, Promised!Next, Queue!Submit,
      Promised!Submit, Queue!Revive, Promised!Revive, Queue!Begin, Promised!Begin,
      Queue!Return, Promised!Return, Queue!Finish, Promised!Finish, Queue!Discard,
      Promised!Discard, Queue!GiveUp, Promised!GiveUp, Queue!BecomePending,
      Promised!BecomePending, Queue!Leave, Promised!Leave
<1>3. Promised!IInv /\ [Promised!Next]_(Promised!vars) => Promised!IInv'
  BY AllowedAssumption, Promised!Inductive
<1>4. IInv /\ Promised!IInv => StuckWasTried
  <2> SUFFICES ASSUME IInv, Promised!IInv
               PROVE  StuckWasTried
    OBVIOUS
  <2>1. ordered \in Jobs
    BY DEF IInv, TypeOK, Jobs
  <2> QED
    BY <2>1 DEF Promised!IInv, Promised!DeadForAReason, StuckWasTried
<1> QED
  BY <1>1, <1>2, <1>3, <1>4, AlwaysRight, PTL DEF Spec
===============================================================================
