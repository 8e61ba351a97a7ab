------------------------ MODULE PostModerationProofs ------------------------
(***************************************************************************)
(* Theorems about PostModeration, for any posts, flaggers and purge runs.  *)
(***************************************************************************)
EXTENDS PostModeration, TLAPS

\* A run has a job, and one past start_purge has its post marked, or gone already.
RunsAgree ==
    \A w \in Runs :
        /\ at[w] # "idle" => task[w] \in Jobs
        /\ at[w] \in {"marked", "emptied"} =>
              task[w][1] \in purging \/ status[task[w][1]] = "gone"

\* An appeal that start_purge's snapshot misses came after it.
MissedAreRaced ==
    \A w \in Runs : at[w] = "asked" /\ ~saw_appeal[w] /\ task[w][1] \in appealed =>
        task[w][1] \in raced

\* A post's status and deleted_from tell whether anyone approved it.
ApprovalsAgree ==
    \A p \in Posts :
        /\ p \notin approved => /\ status[p] \notin {"active", "flagged"}
                                /\ status[p] = "deleted" => deleted_from[p] = "pending"
        /\ p \in approved => /\ status[p] \notin {"absent", "pending"}
                             /\ status[p] = "deleted" => deleted_from[p] # "pending"

\* Only a post that is there has locks.
LockedExist == \A p \in locked : status[p] \in Stored

IInv ==
    /\ TypeOK
    /\ FlaggedByItsFlags
    /\ RunsAgree
    /\ FilesUntilPurging
    /\ LockedExist
    /\ AppealsWait
    /\ MissedAreRaced
    /\ ApprovalsAgree

USE NoneAssumption

-------------------------------------------------------------------------------
\* Every step keeps the types.
LEMMA TypesStep == TypeOK /\ RunsAgree /\ [Next]_vars => TypeOK'
<1> SUFFICES ASSUME TypeOK, RunsAgree, [Next]_vars
             PROVE  TypeOK'
  OBVIOUS
<1> USE DEF TypeOK, RunsAgree, Deletable, Stored, Jobs, Places, post_rows, reports,
    requests, runs, history
<1>1. ASSUME NEW p \in Posts, NEW trusted \in BOOLEAN, Upload(p, trusted)
      PROVE  TypeOK'
  BY <1>1 DEF Upload
<1>2. ASSUME NEW p \in Posts, NEW over \in BOOLEAN, Approve(p, over)
      PROVE  TypeOK'
  BY <1>2 DEF Approve, SetStatus
<1>3. ASSUME NEW p \in Posts, NEW over \in BOOLEAN, Delete(p, over)
      PROVE  TypeOK'
  BY <1>3 DEF Delete, SetStatus, Resolve, OpenFlags
<1>4. ASSUME NEW p \in Posts, NEW over \in BOOLEAN, Restore(p, over)
      PROVE  TypeOK'
  BY <1>4 DEF Restore, SetStatus, RestoredTo
<1>5. ASSUME NEW p \in Posts, NEW over \in BOOLEAN, AskPurge(p, over)
      PROVE  TypeOK'
  BY <1>5 DEF AskPurge
<1>6. ASSUME NEW p \in Posts, NEW over \in BOOLEAN, Dismiss(p, over)
      PROVE  TypeOK'
  BY <1>6 DEF Dismiss, SetStatus, Resolve, OpenFlags
<1>7. ASSUME NEW p \in Posts, SetLocks(p)
      PROVE  TypeOK'
  BY <1>7 DEF SetLocks
<1>8. ASSUME NEW p \in Posts, TurnDown(p)
      PROVE  TypeOK'
  BY <1>8 DEF TurnDown
<1>9. ASSUME NEW p \in Posts, NEW u \in Users, NEW over \in BOOLEAN, CheckFlag(p, u,
    over)
      PROVE  TypeOK'
  BY <1>9 DEF CheckFlag
<1>10. ASSUME NEW p \in Posts, NEW u \in Users, CreateFlag(p, u)
      PROVE  TypeOK'
  BY <1>10 DEF CreateFlag, OpenFlags
<1>11. ASSUME NEW p \in Posts, NEW over \in BOOLEAN, CheckAppeal(p, over)
      PROVE  TypeOK'
  BY <1>11 DEF CheckAppeal
<1>12. ASSUME NEW p \in Posts, CreateAppeal(p)
      PROVE  TypeOK'
  BY <1>12 DEF CreateAppeal, AskedWithoutAppeal
<1>13. ASSUME FindStale
      PROVE  TypeOK'
  BY <1>13 DEF FindStale
<1>14. ASSUME NEW p \in Posts, NEW from \in {"pending", "flagged"}, Expire(p, from)
      PROVE  TypeOK'
  BY <1>14 DEF Expire, SetStatus, Resolve, OpenFlags
<1>15. ASSUME ExpiryFails
      PROVE  TypeOK'
  BY <1>15 DEF ExpiryFails
<1>16. ASSUME NEW w \in Runs, NEW j \in queue, Ask(w, j)
      PROVE  TypeOK'
  BY <1>16 DEF Ask
<1>17. ASSUME NEW w \in Runs, Mark(w)
      PROVE  TypeOK'
  <2>1. task[w] \in Jobs /\ task[w][1] \in Posts
    BY <1>17 DEF Mark
  <2>2. purging' \subseteq Posts
    BY <1>17, <2>1 DEF Mark
  <2>3. /\ at' \in [Runs -> Places]
        /\ task' \in [Runs -> Jobs \cup {None}]
        /\ saw_appeal' \in [Runs -> BOOLEAN]
        /\ queue' \subseteq Jobs
    BY <1>17 DEF Mark, Done, Leave
  <2> QED
    BY <1>17, <2>2, <2>3 DEF Mark
<1>18. ASSUME NEW w \in Runs, RemoveFiles(w)
      PROVE  TypeOK'
  BY <1>18 DEF RemoveFiles
<1>19. ASSUME NEW w \in Runs, Finish(w)
      PROVE  TypeOK'
  BY <1>19 DEF Finish, Done, Leave, Resolve, OpenFlags
<1>20. ASSUME NEW w \in Runs, RunFails(w)
      PROVE  TypeOK'
  BY <1>20 DEF RunFails, Leave
<1>21. ASSUME NEW j \in queue, GiveUp(j)
      PROVE  TypeOK'
  BY <1>21 DEF GiveUp
<1>22. ASSUME NEW p \in Posts, PostAges(p)
      PROVE  TypeOK'
  BY <1>22 DEF PostAges
<1>23. ASSUME NEW f \in flags, FlagAges(f)
      PROVE  TypeOK'
  BY <1>23 DEF FlagAges
<1>24. ASSUME CooldownEnds
      PROVE  TypeOK'
  BY <1>24 DEF CooldownEnds
<1>25. CASE UNCHANGED vars
  BY <1>25 DEF vars
<1> HIDE DEF TypeOK, RunsAgree, Deletable, Stored, Jobs, Places, post_rows, reports,
    requests, runs, history
<1> QED
  BY <1>1, <1>2, <1>3, <1>4, <1>5, <1>6, <1>7, <1>8, <1>9, <1>10, <1>11, <1>12,
      <1>13, <1>14, <1>15, <1>16, <1>17, <1>18, <1>19, <1>20, <1>21, <1>22, <1>23,
          <1>24, <1>25
  DEF Next, Moderate, Report, Purge

\* Every transaction that changes a status or a flag leaves them agreeing.
LEMMA FlagsStep == TypeOK /\ FlaggedByItsFlags /\ [Next]_vars => FlaggedByItsFlags'
<1> SUFFICES ASSUME TypeOK, FlaggedByItsFlags, [Next]_vars
             PROVE  FlaggedByItsFlags'
  OBVIOUS
<1> USE DEF TypeOK, FlaggedByItsFlags, OpenFlags, FilesUntilPurging, Deletable,
    Stored, Jobs, Places, post_rows, reports, requests, runs, history
<1>1. ASSUME NEW p \in Posts, NEW trusted \in BOOLEAN, Upload(p, trusted)
      PROVE  FlaggedByItsFlags'
  BY <1>1 DEF Upload
<1>2. ASSUME NEW p \in Posts, NEW over \in BOOLEAN, Approve(p, over)
      PROVE  FlaggedByItsFlags'
  BY <1>2 DEF Approve, SetStatus
<1>3. ASSUME NEW p \in Posts, NEW over \in BOOLEAN, Delete(p, over)
      PROVE  FlaggedByItsFlags'
  BY <1>3 DEF Delete, SetStatus, Resolve, OpenFlags
<1>4. ASSUME NEW p \in Posts, NEW over \in BOOLEAN, Restore(p, over)
      PROVE  FlaggedByItsFlags'
  BY <1>4 DEF Restore, SetStatus, RestoredTo
<1>5. ASSUME NEW p \in Posts, NEW over \in BOOLEAN, AskPurge(p, over)
      PROVE  FlaggedByItsFlags'
  BY <1>5 DEF AskPurge
<1>6. ASSUME NEW p \in Posts, NEW over \in BOOLEAN, Dismiss(p, over)
      PROVE  FlaggedByItsFlags'
  BY <1>6 DEF Dismiss, SetStatus, Resolve, OpenFlags
<1>7. ASSUME NEW p \in Posts, SetLocks(p)
      PROVE  FlaggedByItsFlags'
  BY <1>7 DEF SetLocks
<1>8. ASSUME NEW p \in Posts, TurnDown(p)
      PROVE  FlaggedByItsFlags'
  BY <1>8 DEF TurnDown
<1>9. ASSUME NEW p \in Posts, NEW u \in Users, NEW over \in BOOLEAN, CheckFlag(p, u,
    over)
      PROVE  FlaggedByItsFlags'
  BY <1>9 DEF CheckFlag
<1>10. ASSUME NEW p \in Posts, NEW u \in Users, CreateFlag(p, u)
      PROVE  FlaggedByItsFlags'
  BY <1>10 DEF CreateFlag, OpenFlags
<1>11. ASSUME NEW p \in Posts, NEW over \in BOOLEAN, CheckAppeal(p, over)
      PROVE  FlaggedByItsFlags'
  BY <1>11 DEF CheckAppeal
<1>12. ASSUME NEW p \in Posts, CreateAppeal(p)
      PROVE  FlaggedByItsFlags'
  BY <1>12 DEF CreateAppeal, AskedWithoutAppeal
<1>13. ASSUME FindStale
      PROVE  FlaggedByItsFlags'
  BY <1>13 DEF FindStale
<1>14. ASSUME NEW p \in Posts, NEW from \in {"pending", "flagged"}, Expire(p, from)
      PROVE  FlaggedByItsFlags'
  BY <1>14 DEF Expire, SetStatus, Resolve, OpenFlags
<1>15. ASSUME ExpiryFails
      PROVE  FlaggedByItsFlags'
  BY <1>15 DEF ExpiryFails
<1>16. ASSUME NEW w \in Runs, NEW j \in queue, Ask(w, j)
      PROVE  FlaggedByItsFlags'
  BY <1>16 DEF Ask
<1>17. ASSUME NEW w \in Runs, Mark(w)
      PROVE  FlaggedByItsFlags'
  BY <1>17 DEF Mark, Unblocked, Done, Leave
<1>18. ASSUME NEW w \in Runs, RemoveFiles(w)
      PROVE  FlaggedByItsFlags'
  BY <1>18 DEF RemoveFiles
<1>19. ASSUME NEW w \in Runs, Finish(w)
      PROVE  FlaggedByItsFlags'
  BY <1>19 DEF Finish, Done, Leave, Resolve, OpenFlags
<1>20. ASSUME NEW w \in Runs, RunFails(w)
      PROVE  FlaggedByItsFlags'
  BY <1>20 DEF RunFails, Leave
<1>21. ASSUME NEW j \in queue, GiveUp(j)
      PROVE  FlaggedByItsFlags'
  BY <1>21 DEF GiveUp
<1>22. ASSUME NEW p \in Posts, PostAges(p)
      PROVE  FlaggedByItsFlags'
  BY <1>22 DEF PostAges
<1>23. ASSUME NEW f \in flags, FlagAges(f)
      PROVE  FlaggedByItsFlags'
  BY <1>23 DEF FlagAges
<1>24. ASSUME CooldownEnds
      PROVE  FlaggedByItsFlags'
  BY <1>24 DEF CooldownEnds
<1>25. CASE UNCHANGED vars
  BY <1>25 DEF vars
<1> QED
  BY <1>1, <1>2, <1>3, <1>4, <1>5, <1>6, <1>7, <1>8, <1>9, <1>10, <1>11, <1>12,
      <1>13, <1>14, <1>15, <1>16, <1>17, <1>18, <1>19, <1>20, <1>21, <1>22, <1>23,
          <1>24, <1>25
  DEF Next, Moderate, Report, Purge

\* A mark outlasts every run but the one that removes the post.
LEMMA RunsStep == TypeOK /\ RunsAgree /\ FilesUntilPurging /\ [Next]_vars => RunsAgree'
<1> SUFFICES ASSUME TypeOK, RunsAgree, FilesUntilPurging, [Next]_vars
             PROVE  RunsAgree'
  OBVIOUS
<1> USE DEF TypeOK, RunsAgree, FilesUntilPurging, Deletable, Stored, Jobs, Places,
    post_rows, reports, requests, runs, history
<1>1. ASSUME NEW p \in Posts, NEW trusted \in BOOLEAN, Upload(p, trusted)
      PROVE  RunsAgree'
  BY <1>1 DEF Upload
<1>2. ASSUME NEW p \in Posts, NEW over \in BOOLEAN, Approve(p, over)
      PROVE  RunsAgree'
  BY <1>2 DEF Approve, SetStatus
<1>3. ASSUME NEW p \in Posts, NEW over \in BOOLEAN, Delete(p, over)
      PROVE  RunsAgree'
  BY <1>3 DEF Delete, SetStatus, Resolve, OpenFlags
<1>4. ASSUME NEW p \in Posts, NEW over \in BOOLEAN, Restore(p, over)
      PROVE  RunsAgree'
  BY <1>4 DEF Restore, SetStatus, RestoredTo
<1>5. ASSUME NEW p \in Posts, NEW over \in BOOLEAN, AskPurge(p, over)
      PROVE  RunsAgree'
  BY <1>5 DEF AskPurge
<1>6. ASSUME NEW p \in Posts, NEW over \in BOOLEAN, Dismiss(p, over)
      PROVE  RunsAgree'
  BY <1>6 DEF Dismiss, SetStatus, Resolve, OpenFlags
<1>7. ASSUME NEW p \in Posts, SetLocks(p)
      PROVE  RunsAgree'
  BY <1>7 DEF SetLocks
<1>8. ASSUME NEW p \in Posts, TurnDown(p)
      PROVE  RunsAgree'
  BY <1>8 DEF TurnDown
<1>9. ASSUME NEW p \in Posts, NEW u \in Users, NEW over \in BOOLEAN, CheckFlag(p, u,
    over)
      PROVE  RunsAgree'
  BY <1>9 DEF CheckFlag
<1>10. ASSUME NEW p \in Posts, NEW u \in Users, CreateFlag(p, u)
      PROVE  RunsAgree'
  BY <1>10 DEF CreateFlag, OpenFlags
<1>11. ASSUME NEW p \in Posts, NEW over \in BOOLEAN, CheckAppeal(p, over)
      PROVE  RunsAgree'
  BY <1>11 DEF CheckAppeal
<1>12. ASSUME NEW p \in Posts, CreateAppeal(p)
      PROVE  RunsAgree'
  BY <1>12 DEF CreateAppeal, AskedWithoutAppeal
<1>13. ASSUME FindStale
      PROVE  RunsAgree'
  BY <1>13 DEF FindStale
<1>14. ASSUME NEW p \in Posts, NEW from \in {"pending", "flagged"}, Expire(p, from)
      PROVE  RunsAgree'
  BY <1>14 DEF Expire, SetStatus, Resolve, OpenFlags
<1>15. ASSUME ExpiryFails
      PROVE  RunsAgree'
  BY <1>15 DEF ExpiryFails
<1>16. ASSUME NEW w \in Runs, NEW j \in queue, Ask(w, j)
      PROVE  RunsAgree'
  BY <1>16 DEF Ask
<1>17. ASSUME NEW w \in Runs, Mark(w)
      PROVE  RunsAgree'
  BY <1>17 DEF Mark, Unblocked, Done, Leave
<1>18. ASSUME NEW w \in Runs, RemoveFiles(w)
      PROVE  RunsAgree'
  BY <1>18 DEF RemoveFiles
<1>19. ASSUME NEW w \in Runs, Finish(w)
      PROVE  RunsAgree'
  BY <1>19 DEF Finish, Done, Leave, Resolve, OpenFlags
<1>20. ASSUME NEW w \in Runs, RunFails(w)
      PROVE  RunsAgree'
  BY <1>20 DEF RunFails, Leave
<1>21. ASSUME NEW j \in queue, GiveUp(j)
      PROVE  RunsAgree'
  BY <1>21 DEF GiveUp
<1>22. ASSUME NEW p \in Posts, PostAges(p)
      PROVE  RunsAgree'
  BY <1>22 DEF PostAges
<1>23. ASSUME NEW f \in flags, FlagAges(f)
      PROVE  RunsAgree'
  BY <1>23 DEF FlagAges
<1>24. ASSUME CooldownEnds
      PROVE  RunsAgree'
  BY <1>24 DEF CooldownEnds
<1>25. CASE UNCHANGED vars
  BY <1>25 DEF vars
<1> QED
  BY <1>1, <1>2, <1>3, <1>4, <1>5, <1>6, <1>7, <1>8, <1>9, <1>10, <1>11, <1>12,
      <1>13, <1>14, <1>15, <1>16, <1>17, <1>18, <1>19, <1>20, <1>21, <1>22, <1>23,
          <1>24, <1>25
  DEF Next, Moderate, Report, Purge

\* Nothing changes the status of a marked post before it is gone, and only runs
\* that have marked a post remove its files.
LEMMA FilesStep == TypeOK /\ RunsAgree /\ FilesUntilPurging /\ LockedExist /\
    [Next]_vars => FilesUntilPurging' /\ LockedExist'
<1> SUFFICES ASSUME TypeOK, RunsAgree, FilesUntilPurging, LockedExist, [Next]_vars
             PROVE  FilesUntilPurging' /\ LockedExist'
  OBVIOUS
<1> USE DEF TypeOK, RunsAgree, FilesUntilPurging, LockedExist, Deletable, Stored,
    Jobs, Places, post_rows, reports, requests, runs, history
<1>1. ASSUME NEW p \in Posts, NEW trusted \in BOOLEAN, Upload(p, trusted)
      PROVE  FilesUntilPurging' /\ LockedExist'
  BY <1>1 DEF Upload
<1>2. ASSUME NEW p \in Posts, NEW over \in BOOLEAN, Approve(p, over)
      PROVE  FilesUntilPurging' /\ LockedExist'
  BY <1>2 DEF Approve, SetStatus
<1>3. ASSUME NEW p \in Posts, NEW over \in BOOLEAN, Delete(p, over)
      PROVE  FilesUntilPurging' /\ LockedExist'
  BY <1>3 DEF Delete, SetStatus, Resolve, OpenFlags
<1>4. ASSUME NEW p \in Posts, NEW over \in BOOLEAN, Restore(p, over)
      PROVE  FilesUntilPurging' /\ LockedExist'
  BY <1>4 DEF Restore, SetStatus, RestoredTo
<1>5. ASSUME NEW p \in Posts, NEW over \in BOOLEAN, AskPurge(p, over)
      PROVE  FilesUntilPurging' /\ LockedExist'
  BY <1>5 DEF AskPurge
<1>6. ASSUME NEW p \in Posts, NEW over \in BOOLEAN, Dismiss(p, over)
      PROVE  FilesUntilPurging' /\ LockedExist'
  BY <1>6 DEF Dismiss, SetStatus, Resolve, OpenFlags
<1>7. ASSUME NEW p \in Posts, SetLocks(p)
      PROVE  FilesUntilPurging' /\ LockedExist'
  BY <1>7 DEF SetLocks
<1>8. ASSUME NEW p \in Posts, TurnDown(p)
      PROVE  FilesUntilPurging' /\ LockedExist'
  BY <1>8 DEF TurnDown
<1>9. ASSUME NEW p \in Posts, NEW u \in Users, NEW over \in BOOLEAN, CheckFlag(p, u,
    over)
      PROVE  FilesUntilPurging' /\ LockedExist'
  BY <1>9 DEF CheckFlag
<1>10. ASSUME NEW p \in Posts, NEW u \in Users, CreateFlag(p, u)
      PROVE  FilesUntilPurging' /\ LockedExist'
  BY <1>10 DEF CreateFlag, OpenFlags
<1>11. ASSUME NEW p \in Posts, NEW over \in BOOLEAN, CheckAppeal(p, over)
      PROVE  FilesUntilPurging' /\ LockedExist'
  BY <1>11 DEF CheckAppeal
<1>12. ASSUME NEW p \in Posts, CreateAppeal(p)
      PROVE  FilesUntilPurging' /\ LockedExist'
  BY <1>12 DEF CreateAppeal, AskedWithoutAppeal
<1>13. ASSUME FindStale
      PROVE  FilesUntilPurging' /\ LockedExist'
  BY <1>13 DEF FindStale
<1>14. ASSUME NEW p \in Posts, NEW from \in {"pending", "flagged"}, Expire(p, from)
      PROVE  FilesUntilPurging' /\ LockedExist'
  BY <1>14 DEF Expire, SetStatus, Resolve, OpenFlags
<1>15. ASSUME ExpiryFails
      PROVE  FilesUntilPurging' /\ LockedExist'
  BY <1>15 DEF ExpiryFails
<1>16. ASSUME NEW w \in Runs, NEW j \in queue, Ask(w, j)
      PROVE  FilesUntilPurging' /\ LockedExist'
  BY <1>16 DEF Ask
<1>17. ASSUME NEW w \in Runs, Mark(w)
      PROVE  FilesUntilPurging' /\ LockedExist'
  BY <1>17 DEF Mark, Unblocked, Done, Leave
<1>18. ASSUME NEW w \in Runs, RemoveFiles(w)
      PROVE  FilesUntilPurging' /\ LockedExist'
  BY <1>18 DEF RemoveFiles
<1>19. ASSUME NEW w \in Runs, Finish(w)
      PROVE  FilesUntilPurging' /\ LockedExist'
  BY <1>19 DEF Finish, Done, Leave, Resolve, OpenFlags
<1>20. ASSUME NEW w \in Runs, RunFails(w)
      PROVE  FilesUntilPurging' /\ LockedExist'
  BY <1>20 DEF RunFails, Leave
<1>21. ASSUME NEW j \in queue, GiveUp(j)
      PROVE  FilesUntilPurging' /\ LockedExist'
  BY <1>21 DEF GiveUp
<1>22. ASSUME NEW p \in Posts, PostAges(p)
      PROVE  FilesUntilPurging' /\ LockedExist'
  BY <1>22 DEF PostAges
<1>23. ASSUME NEW f \in flags, FlagAges(f)
      PROVE  FilesUntilPurging' /\ LockedExist'
  BY <1>23 DEF FlagAges
<1>24. ASSUME CooldownEnds
      PROVE  FilesUntilPurging' /\ LockedExist'
  BY <1>24 DEF CooldownEnds
<1>25. CASE UNCHANGED vars
  BY <1>25 DEF vars
<1> QED
  BY <1>1, <1>2, <1>3, <1>4, <1>5, <1>6, <1>7, <1>8, <1>9, <1>10, <1>11, <1>12,
      <1>13, <1>14, <1>15, <1>16, <1>17, <1>18, <1>19, <1>20, <1>21, <1>22, <1>23,
          <1>24, <1>25
  DEF Next, Moderate, Report, Purge

\* An appeal keeps its post from being marked, if start_purge can see it.
LEMMA AppealsStep == TypeOK /\ FilesUntilPurging /\ AppealsWait /\ MissedAreRaced /\
    [Next]_vars => AppealsWait' /\ MissedAreRaced'
<1> SUFFICES ASSUME TypeOK, FilesUntilPurging, AppealsWait, MissedAreRaced, [Next]_vars
             PROVE  AppealsWait' /\ MissedAreRaced'
  OBVIOUS
<1> USE DEF TypeOK, FilesUntilPurging, AppealsWait, MissedAreRaced, Deletable,
    Stored, Jobs, Places, post_rows, reports, requests, runs, history
<1>1. ASSUME NEW p \in Posts, NEW trusted \in BOOLEAN, Upload(p, trusted)
      PROVE  AppealsWait' /\ MissedAreRaced'
  BY <1>1 DEF Upload
<1>2. ASSUME NEW p \in Posts, NEW over \in BOOLEAN, Approve(p, over)
      PROVE  AppealsWait' /\ MissedAreRaced'
  BY <1>2 DEF Approve, SetStatus
<1>3. ASSUME NEW p \in Posts, NEW over \in BOOLEAN, Delete(p, over)
      PROVE  AppealsWait' /\ MissedAreRaced'
  BY <1>3 DEF Delete, SetStatus, Resolve, OpenFlags
<1>4. ASSUME NEW p \in Posts, NEW over \in BOOLEAN, Restore(p, over)
      PROVE  AppealsWait' /\ MissedAreRaced'
  BY <1>4 DEF Restore, SetStatus, RestoredTo
<1>5. ASSUME NEW p \in Posts, NEW over \in BOOLEAN, AskPurge(p, over)
      PROVE  AppealsWait' /\ MissedAreRaced'
  BY <1>5 DEF AskPurge
<1>6. ASSUME NEW p \in Posts, NEW over \in BOOLEAN, Dismiss(p, over)
      PROVE  AppealsWait' /\ MissedAreRaced'
  BY <1>6 DEF Dismiss, SetStatus, Resolve, OpenFlags
<1>7. ASSUME NEW p \in Posts, SetLocks(p)
      PROVE  AppealsWait' /\ MissedAreRaced'
  BY <1>7 DEF SetLocks
<1>8. ASSUME NEW p \in Posts, TurnDown(p)
      PROVE  AppealsWait' /\ MissedAreRaced'
  BY <1>8 DEF TurnDown
<1>9. ASSUME NEW p \in Posts, NEW u \in Users, NEW over \in BOOLEAN, CheckFlag(p, u,
    over)
      PROVE  AppealsWait' /\ MissedAreRaced'
  BY <1>9 DEF CheckFlag
<1>10. ASSUME NEW p \in Posts, NEW u \in Users, CreateFlag(p, u)
      PROVE  AppealsWait' /\ MissedAreRaced'
  BY <1>10 DEF CreateFlag, OpenFlags
<1>11. ASSUME NEW p \in Posts, NEW over \in BOOLEAN, CheckAppeal(p, over)
      PROVE  AppealsWait' /\ MissedAreRaced'
  BY <1>11 DEF CheckAppeal
<1>12. ASSUME NEW p \in Posts, CreateAppeal(p)
      PROVE  AppealsWait' /\ MissedAreRaced'
  BY <1>12 DEF CreateAppeal, AskedWithoutAppeal
<1>13. ASSUME FindStale
      PROVE  AppealsWait' /\ MissedAreRaced'
  BY <1>13 DEF FindStale
<1>14. ASSUME NEW p \in Posts, NEW from \in {"pending", "flagged"}, Expire(p, from)
      PROVE  AppealsWait' /\ MissedAreRaced'
  BY <1>14 DEF Expire, SetStatus, Resolve, OpenFlags
<1>15. ASSUME ExpiryFails
      PROVE  AppealsWait' /\ MissedAreRaced'
  BY <1>15 DEF ExpiryFails
<1>16. ASSUME NEW w \in Runs, NEW j \in queue, Ask(w, j)
      PROVE  AppealsWait' /\ MissedAreRaced'
  BY <1>16 DEF Ask
<1>17. ASSUME NEW w \in Runs, Mark(w)
      PROVE  AppealsWait' /\ MissedAreRaced'
  BY <1>17 DEF Mark, Unblocked, Done, Leave
<1>18. ASSUME NEW w \in Runs, RemoveFiles(w)
      PROVE  AppealsWait' /\ MissedAreRaced'
  BY <1>18 DEF RemoveFiles
<1>19. ASSUME NEW w \in Runs, Finish(w)
      PROVE  AppealsWait' /\ MissedAreRaced'
  BY <1>19 DEF Finish, Done, Leave, Resolve, OpenFlags
<1>20. ASSUME NEW w \in Runs, RunFails(w)
      PROVE  AppealsWait' /\ MissedAreRaced'
  BY <1>20 DEF RunFails, Leave
<1>21. ASSUME NEW j \in queue, GiveUp(j)
      PROVE  AppealsWait' /\ MissedAreRaced'
  BY <1>21 DEF GiveUp
<1>22. ASSUME NEW p \in Posts, PostAges(p)
      PROVE  AppealsWait' /\ MissedAreRaced'
  BY <1>22 DEF PostAges
<1>23. ASSUME NEW f \in flags, FlagAges(f)
      PROVE  AppealsWait' /\ MissedAreRaced'
  BY <1>23 DEF FlagAges
<1>24. ASSUME CooldownEnds
      PROVE  AppealsWait' /\ MissedAreRaced'
  BY <1>24 DEF CooldownEnds
<1>25. CASE UNCHANGED vars
  BY <1>25 DEF vars
<1> QED
  BY <1>1, <1>2, <1>3, <1>4, <1>5, <1>6, <1>7, <1>8, <1>9, <1>10, <1>11, <1>12,
      <1>13, <1>14, <1>15, <1>16, <1>17, <1>18, <1>19, <1>20, <1>21, <1>22, <1>23,
          <1>24, <1>25
  DEF Next, Moderate, Report, Purge

\* deleted_from carries the approval across a deletion.
LEMMA ApprovalsStep == TypeOK /\ FilesUntilPurging /\ ApprovalsAgree /\ [Next]_vars
    => ApprovalsAgree'
<1> SUFFICES ASSUME TypeOK, FilesUntilPurging, ApprovalsAgree, [Next]_vars
             PROVE  ApprovalsAgree'
  OBVIOUS
<1> USE DEF TypeOK, FilesUntilPurging, ApprovalsAgree, Deletable, Stored, Jobs,
    Places, post_rows, reports, requests, runs, history
<1>1. ASSUME NEW p \in Posts, NEW trusted \in BOOLEAN, Upload(p, trusted)
      PROVE  ApprovalsAgree'
  BY <1>1 DEF Upload
<1>2. ASSUME NEW p \in Posts, NEW over \in BOOLEAN, Approve(p, over)
      PROVE  ApprovalsAgree'
  BY <1>2 DEF Approve, SetStatus
<1>3. ASSUME NEW p \in Posts, NEW over \in BOOLEAN, Delete(p, over)
      PROVE  ApprovalsAgree'
  BY <1>3 DEF Delete, SetStatus, Resolve, OpenFlags
<1>4. ASSUME NEW p \in Posts, NEW over \in BOOLEAN, Restore(p, over)
      PROVE  ApprovalsAgree'
  BY <1>4 DEF Restore, SetStatus, RestoredTo
<1>5. ASSUME NEW p \in Posts, NEW over \in BOOLEAN, AskPurge(p, over)
      PROVE  ApprovalsAgree'
  BY <1>5 DEF AskPurge
<1>6. ASSUME NEW p \in Posts, NEW over \in BOOLEAN, Dismiss(p, over)
      PROVE  ApprovalsAgree'
  BY <1>6 DEF Dismiss, SetStatus, Resolve, OpenFlags
<1>7. ASSUME NEW p \in Posts, SetLocks(p)
      PROVE  ApprovalsAgree'
  BY <1>7 DEF SetLocks
<1>8. ASSUME NEW p \in Posts, TurnDown(p)
      PROVE  ApprovalsAgree'
  BY <1>8 DEF TurnDown
<1>9. ASSUME NEW p \in Posts, NEW u \in Users, NEW over \in BOOLEAN, CheckFlag(p, u,
    over)
      PROVE  ApprovalsAgree'
  BY <1>9 DEF CheckFlag
<1>10. ASSUME NEW p \in Posts, NEW u \in Users, CreateFlag(p, u)
      PROVE  ApprovalsAgree'
  BY <1>10 DEF CreateFlag, OpenFlags
<1>11. ASSUME NEW p \in Posts, NEW over \in BOOLEAN, CheckAppeal(p, over)
      PROVE  ApprovalsAgree'
  BY <1>11 DEF CheckAppeal
<1>12. ASSUME NEW p \in Posts, CreateAppeal(p)
      PROVE  ApprovalsAgree'
  BY <1>12 DEF CreateAppeal, AskedWithoutAppeal
<1>13. ASSUME FindStale
      PROVE  ApprovalsAgree'
  BY <1>13 DEF FindStale
<1>14. ASSUME NEW p \in Posts, NEW from \in {"pending", "flagged"}, Expire(p, from)
      PROVE  ApprovalsAgree'
  BY <1>14 DEF Expire, SetStatus, Resolve, OpenFlags
<1>15. ASSUME ExpiryFails
      PROVE  ApprovalsAgree'
  BY <1>15 DEF ExpiryFails
<1>16. ASSUME NEW w \in Runs, NEW j \in queue, Ask(w, j)
      PROVE  ApprovalsAgree'
  BY <1>16 DEF Ask
<1>17. ASSUME NEW w \in Runs, Mark(w)
      PROVE  ApprovalsAgree'
  BY <1>17 DEF Mark, Unblocked, Done, Leave
<1>18. ASSUME NEW w \in Runs, RemoveFiles(w)
      PROVE  ApprovalsAgree'
  BY <1>18 DEF RemoveFiles
<1>19. ASSUME NEW w \in Runs, Finish(w)
      PROVE  ApprovalsAgree'
  BY <1>19 DEF Finish, Done, Leave, Resolve, OpenFlags
<1>20. ASSUME NEW w \in Runs, RunFails(w)
      PROVE  ApprovalsAgree'
  BY <1>20 DEF RunFails, Leave
<1>21. ASSUME NEW j \in queue, GiveUp(j)
      PROVE  ApprovalsAgree'
  BY <1>21 DEF GiveUp
<1>22. ASSUME NEW p \in Posts, PostAges(p)
      PROVE  ApprovalsAgree'
  BY <1>22 DEF PostAges
<1>23. ASSUME NEW f \in flags, FlagAges(f)
      PROVE  ApprovalsAgree'
  BY <1>23 DEF FlagAges
<1>24. ASSUME CooldownEnds
      PROVE  ApprovalsAgree'
  BY <1>24 DEF CooldownEnds
<1>25. CASE UNCHANGED vars
  BY <1>25 DEF vars
<1> QED
  BY <1>1, <1>2, <1>3, <1>4, <1>5, <1>6, <1>7, <1>8, <1>9, <1>10, <1>11, <1>12,
      <1>13, <1>14, <1>15, <1>16, <1>17, <1>18, <1>19, <1>20, <1>21, <1>22, <1>23,
          <1>24, <1>25
  DEF Next, Moderate, Report, Purge

LEMMA Invariant == Spec => []IInv
<1>1. Init => IInv
  BY DEF Init, IInv, TypeOK, FlaggedByItsFlags, RunsAgree, FilesUntilPurging, AppealsWait,
         LockedExist, MissedAreRaced, ApprovalsAgree, OpenFlags, Deletable, Stored, Jobs, Places
<1>2. IInv /\ [Next]_vars => IInv'
  BY TypesStep, FlagsStep, RunsStep, FilesStep, AppealsStep, ApprovalsStep DEF IInv
<1> QED
  BY <1>1, <1>2, PTL DEF Spec

-------------------------------------------------------------------------------
\* The columns, the requests and the runs keep their types.
THEOREM TypeCorrect == Spec => []TypeOK
<1>1. IInv => TypeOK
  BY DEF IInv
<1> QED
  BY <1>1, Invariant, PTL

\* A post is flagged exactly while it has open flags.
THEOREM FlagsAgree == Spec => []FlaggedByItsFlags
<1>1. IInv => FlaggedByItsFlags
  BY DEF IInv
<1> QED
  BY <1>1, Invariant, PTL

\* A post that a purge marked stays deleted, and others keep their files.
THEOREM NoPurgeHalfway == Spec => []FilesUntilPurging
<1>1. IInv => FilesUntilPurging
  BY DEF IInv
<1> QED
  BY <1>1, Invariant, PTL

\* An open appeal that start_purge can see keeps the post from being purged.
THEOREM AppealsKeepPosts == Spec => []AppealsWait
<1>1. IInv => AppealsWait
  BY DEF IInv
<1> QED
  BY <1>1, Invariant, PTL

\* Only approved posts are ever shown.
THEOREM OnlyApprovedShown == Spec => []ApprovedBeforeShown
<1>1. IInv => ApprovedBeforeShown
  BY DEF IInv, ApprovalsAgree, ApprovedBeforeShown
<1> QED
  BY <1>1, Invariant, PTL

-------------------------------------------------------------------------------
\* The phase of one post moves, and only its.
LEMMA PhaseMoves ==
    ASSUME NEW p \in Posts, NEW to,
           Phase(p)' = to,
           \A q \in Posts \ {p} : Phase(q)' = Phase(q)
    PROVE  [q \in Posts |-> Phase(q)]' = [[q \in Posts |-> Phase(q)] EXCEPT ![p] = to]
OBVIOUS

\* One post alone is hidden.
LEMMA OneHides ==
    ASSUME NEW p \in Posts,
           Phase(p) \in {"queued", "shown"}, Phase(p)' = "hidden",
           \A q \in Posts \ {p} : Phase(q)' = Phase(q),
           approved' = approved
    PROVE  Life!Next
<1> DEFINE before == [q \in Posts |-> Phase(q)]
<1>1. before' = [q \in Posts |-> IF q \in {p} THEN "hidden" ELSE before[q]]
  OBVIOUS
<1>2. Life!Hide({p})
  BY <1>1 DEF Life!Hide
<1> QED
  BY <1>2 DEF Life!Next

LEMMA PhasesStay ==
    ASSUME \A q \in Posts : status'[q] = status[q]
                            \/ {status[q], status'[q]} \subseteq {"active", "flagged"},
           purging' = purging, approved' = approved
    PROVE  UNCHANGED Life!vars
<1>1. \A q \in Posts : Phase(q)' = Phase(q)
  BY DEF Phase
<1>2. [q \in Posts |-> Phase(q)]' = [q \in Posts |-> Phase(q)]
  BY <1>1
<1> QED
  BY <1>2 DEF Life!vars

\* Every step of a post's columns is one of its life, or none.
LEMMA LifeStep == IInv /\ [Next]_vars => [Life!Next]_(Life!vars)
<1> SUFFICES ASSUME IInv, [Next]_vars
             PROVE  [Life!Next]_(Life!vars)
  OBVIOUS
<1> USE DEF IInv, TypeOK, FilesUntilPurging, post_rows, history, runs
<1>1. ASSUME NEW p \in Posts, NEW trusted \in BOOLEAN, Upload(p, trusted)
      PROVE  [Life!Next]_(Life!vars)
  <2>1. CASE trusted
    <3>1. Phase(p) \in {"absent", "queued"} /\ Phase(p)' = "shown"
      BY <1>1, <2>1 DEF Upload, Phase
    <3>2. \A q \in Posts \ {p} : Phase(q)' = Phase(q)
      BY <1>1, <2>1 DEF Upload, Phase
    <3>3. [q \in Posts |-> Phase(q)]' = [[q \in Posts |-> Phase(q)] EXCEPT ![p] =
        "shown"]
      BY <3>1, <3>2, PhaseMoves
    <3> QED
      BY <1>1, <2>1, <3>1, <3>3 DEF Upload, Life!Next, Life!Show, Life!Move
  <2>2. CASE ~trusted
    <3>1. Phase(p) \in {"absent"} /\ Phase(p)' = "queued"
      BY <1>1, <2>2 DEF Upload, Phase
    <3>2. \A q \in Posts \ {p} : Phase(q)' = Phase(q)
      BY <1>1, <2>2 DEF Upload, Phase
    <3>3. [q \in Posts |-> Phase(q)]' = [[q \in Posts |-> Phase(q)] EXCEPT ![p] =
        "queued"]
      BY <3>1, <3>2, PhaseMoves
    <3> QED
      BY <1>1, <2>2, <3>1, <3>3 DEF Upload, Life!Next, Life!Queue, Life!Move
  <2> QED
    BY <2>1, <2>2
<1>2. ASSUME NEW p \in Posts, NEW over \in BOOLEAN, Approve(p, over)
      PROVE  [Life!Next]_(Life!vars)
  <2>1. Phase(p) \in {"absent", "queued"} /\ Phase(p)' = "shown"
    BY <1>2 DEF Approve, SetStatus, Phase
  <2>2. \A q \in Posts \ {p} : Phase(q)' = Phase(q)
    BY <1>2 DEF Approve, SetStatus, Phase
  <2>3. [q \in Posts |-> Phase(q)]' = [[q \in Posts |-> Phase(q)] EXCEPT ![p] = "shown"]
    BY <2>1, <2>2, PhaseMoves
  <2> QED
    BY <1>2, <2>1, <2>3 DEF Approve, SetStatus, Life!Next, Life!Show, Life!Move
<1>3. ASSUME NEW p \in Posts, NEW over \in BOOLEAN, Delete(p, over)
      PROVE  [Life!Next]_(Life!vars)
  <2>1. Phase(p) \in {"queued", "shown"} /\ Phase(p)' = "hidden"
    BY <1>3 DEF Delete, SetStatus, Deletable, Phase
  <2>2. \A q \in Posts \ {p} : Phase(q)' = Phase(q)
    BY <1>3 DEF Delete, SetStatus, Deletable, Phase
  <2>3. approved' = approved
    BY <1>3 DEF Delete
  <2> QED
    BY <2>1, <2>2, <2>3, OneHides
<1>4. ASSUME NEW p \in Posts, NEW over \in BOOLEAN, Restore(p, over)
      PROVE  [Life!Next]_(Life!vars)
  <2> DEFINE to == IF p \in approved THEN "shown" ELSE "queued"
  <2>1. Phase(p) \in {"hidden"} /\ Phase(p)' = to
    BY <1>4 DEF Restore, SetStatus, RestoredTo, ApprovalsAgree, Phase
  <2>2. \A q \in Posts \ {p} : Phase(q)' = Phase(q)
    BY <1>4 DEF Restore, SetStatus, RestoredTo, ApprovalsAgree, Phase
  <2>3. [q \in Posts |-> Phase(q)]' = [[q \in Posts |-> Phase(q)] EXCEPT ![p] = to]
    BY <2>1, <2>2, PhaseMoves
  <2> QED
    BY <1>4, <2>1, <2>3 DEF Restore, SetStatus, RestoredTo, ApprovalsAgree,
        Life!Next, Life!Return, Life!Move
<1>5. ASSUME NEW p \in Posts, NEW over \in BOOLEAN, AskPurge(p, over)
      PROVE  [Life!Next]_(Life!vars)
  BY <1>5, PhasesStay DEF AskPurge
<1>6. ASSUME NEW p \in Posts, NEW over \in BOOLEAN, Dismiss(p, over)
      PROVE  [Life!Next]_(Life!vars)
  BY <1>6, PhasesStay DEF Dismiss, SetStatus, Resolve, OpenFlags
<1>7. ASSUME NEW p \in Posts, SetLocks(p)
      PROVE  [Life!Next]_(Life!vars)
  BY <1>7, PhasesStay DEF SetLocks
<1>8. ASSUME NEW p \in Posts, TurnDown(p)
      PROVE  [Life!Next]_(Life!vars)
  BY <1>8, PhasesStay DEF TurnDown
<1>9. ASSUME NEW p \in Posts, NEW u \in Users, NEW over \in BOOLEAN, CheckFlag(p, u,
    over)
      PROVE  [Life!Next]_(Life!vars)
  BY <1>9, PhasesStay DEF CheckFlag
<1>10. ASSUME NEW p \in Posts, NEW u \in Users, CreateFlag(p, u)
      PROVE  [Life!Next]_(Life!vars)
  BY <1>10, PhasesStay DEF CreateFlag, OpenFlags
<1>11. ASSUME NEW p \in Posts, NEW over \in BOOLEAN, CheckAppeal(p, over)
      PROVE  [Life!Next]_(Life!vars)
  BY <1>11, PhasesStay DEF CheckAppeal
<1>12. ASSUME NEW p \in Posts, CreateAppeal(p)
      PROVE  [Life!Next]_(Life!vars)
  BY <1>12, PhasesStay DEF CreateAppeal, AskedWithoutAppeal
<1>13. ASSUME FindStale
      PROVE  [Life!Next]_(Life!vars)
  BY <1>13, PhasesStay DEF FindStale
<1>14. ASSUME NEW p \in Posts, NEW from \in {"pending", "flagged"}, Expire(p, from)
      PROVE  [Life!Next]_(Life!vars)
  <2>1. CASE status[p] = from /\ p \notin locked \cup purging
    <3>1. Phase(p) \in {"queued", "shown"} /\ Phase(p)' = "hidden"
      BY <1>14, <2>1 DEF Expire, SetStatus, Phase
    <3>2. \A q \in Posts \ {p} : Phase(q)' = Phase(q)
      BY <1>14, <2>1 DEF Expire, SetStatus, Phase
    <3>3. approved' = approved
      BY <1>14, <2>1 DEF Expire
    <3> QED
      BY <3>1, <3>2, <3>3, OneHides
  <2>2. CASE ~(status[p] = from /\ p \notin locked \cup purging)
    BY <1>14, <2>2, PhasesStay DEF Expire
  <2> QED
    BY <2>1, <2>2
<1>15. ASSUME ExpiryFails
      PROVE  [Life!Next]_(Life!vars)
  BY <1>15, PhasesStay DEF ExpiryFails
<1>16. ASSUME NEW w \in Runs, NEW j \in queue, Ask(w, j)
      PROVE  [Life!Next]_(Life!vars)
  BY <1>16, PhasesStay DEF Ask
<1>17. ASSUME NEW w \in Runs, Mark(w)
      PROVE  [Life!Next]_(Life!vars)
  <2>1. PICK p \in Posts : p = task[w][1]
    BY <1>17 DEF Mark, RunsAgree, Jobs
  <2>2. CASE Unblocked(w) /\ p \notin purging
    <3>1. Phase(p) \in {"hidden"} /\ Phase(p)' = "going"
      BY <1>17, <2>1, <2>2 DEF Mark, Unblocked, Phase
    <3>2. \A q \in Posts \ {p} : Phase(q)' = Phase(q)
      BY <1>17, <2>1, <2>2 DEF Mark, Unblocked, Phase
    <3>3. [q \in Posts |-> Phase(q)]' = [[q \in Posts |-> Phase(q)] EXCEPT ![p] =
        "going"]
      BY <3>1, <3>2, PhaseMoves
    <3> QED
      BY <1>17, <2>1, <2>2, <3>1, <3>3 DEF Mark, Unblocked, Life!Next, Life!Condemn,
          Life!Move
  <2>3. CASE ~(Unblocked(w) /\ p \notin purging)
    <3>1. purging' = purging
      BY SMTT(30), <1>17, <2>1, <2>3 DEF Mark
    <3> QED
      BY <1>17, <3>1, PhasesStay DEF Mark
  <2> QED
    BY <2>2, <2>3
<1>18. ASSUME NEW w \in Runs, RemoveFiles(w)
      PROVE  [Life!Next]_(Life!vars)
  BY <1>18, PhasesStay DEF RemoveFiles
<1>19. ASSUME NEW w \in Runs, Finish(w)
      PROVE  [Life!Next]_(Life!vars)
  <2>1. PICK p \in Posts : p = task[w][1]
    BY <1>19 DEF Finish, RunsAgree, Jobs
  <2>2. CASE status[p] = "deleted" /\ p \in purging
    <3>1. Phase(p) \in {"going"} /\ Phase(p)' = "gone"
      BY <1>19, <2>1, <2>2 DEF Finish, Phase
    <3>2. \A q \in Posts \ {p} : Phase(q)' = Phase(q)
      BY <1>19, <2>1, <2>2 DEF Finish, Phase
    <3>3. [q \in Posts |-> Phase(q)]' = [[q \in Posts |-> Phase(q)] EXCEPT ![p] =
        "gone"]
      BY <3>1, <3>2, PhaseMoves
    <3> QED
      BY <1>19, <2>1, <2>2, <3>1, <3>3 DEF Finish, Life!Next, Life!Remove, Life!Move
  <2>3. CASE ~(status[p] = "deleted" /\ p \in purging)
    BY <1>19, <2>1, <2>3, PhasesStay DEF Finish
  <2> QED
    BY <2>2, <2>3
<1>20. ASSUME NEW w \in Runs, RunFails(w)
      PROVE  [Life!Next]_(Life!vars)
  BY <1>20, PhasesStay DEF RunFails, Leave
<1>21. ASSUME NEW j \in queue, GiveUp(j)
      PROVE  [Life!Next]_(Life!vars)
  BY <1>21, PhasesStay DEF GiveUp
<1>22. ASSUME NEW p \in Posts, PostAges(p)
      PROVE  [Life!Next]_(Life!vars)
  BY <1>22, PhasesStay DEF PostAges
<1>23. ASSUME NEW f \in flags, FlagAges(f)
      PROVE  [Life!Next]_(Life!vars)
  BY <1>23, PhasesStay DEF FlagAges
<1>24. ASSUME CooldownEnds
      PROVE  [Life!Next]_(Life!vars)
  BY <1>24, PhasesStay DEF CooldownEnds
<1>25. CASE UNCHANGED vars
  BY <1>25, PhasesStay DEF vars
<1> HIDE DEF IInv
<1> QED
  BY <1>1, <1>2, <1>3, <1>4, <1>5, <1>6, <1>7, <1>8, <1>9, <1>10, <1>11, <1>12,
      <1>13, <1>14, <1>15, <1>16, <1>17, <1>18, <1>19, <1>20, <1>21, <1>22, <1>23,
          <1>24, <1>25
  DEF Next, Moderate, Report, Purge

\* Whatever moderators, expiry and purges do, each post lives the life that
\* moderation promises (PostLife).
THEOREM PostsLiveAsPromised == Spec => LivesAsPromised
<1>1. Init => Life!Init
  BY DEF Init, Life!Init, Phase
<1>2. IInv /\ [Next]_vars => [Life!Next]_(Life!vars)
  BY LifeStep
<1> QED
  BY <1>1, <1>2, Invariant, PTL DEF Spec, LivesAsPromised, Life!Spec

\* What LockedStatusStays says of one step.
LockKept ==
    \A p \in locked : status'[p] # status[p] \/ p \in purging' \ purging =>
        \/ p \in purging
        \/ Moderate(p, TRUE)
        \/ \E u \in Users : CreateFlag(p, u)
        \/ \E w \in Runs : task[w] = <<p, TRUE>> /\ Mark(w)

\* A status lock is looked at in the transaction that changes the status.
LEMMA LockStep == IInv /\ [Next]_vars => LockKept
<1> SUFFICES ASSUME IInv, [Next]_vars
             PROVE  LockKept
  OBVIOUS
<1> USE DEF IInv, TypeOK, RunsAgree, FilesUntilPurging, LockedExist, LockKept,
    Deletable, Stored, Jobs, Places, post_rows, reports, requests, runs, history
<1>1. ASSUME NEW p \in Posts, NEW trusted \in BOOLEAN, Upload(p, trusted)
      PROVE  LockKept
  BY <1>1 DEF Upload
<1>2. ASSUME NEW p \in Posts, NEW over \in BOOLEAN, Approve(p, over)
      PROVE  LockKept
  BY <1>2 DEF Approve, SetStatus, MayAct, Moderate
<1>3. ASSUME NEW p \in Posts, NEW over \in BOOLEAN, Delete(p, over)
      PROVE  LockKept
  BY <1>3 DEF Delete, SetStatus, MayAct, Moderate
<1>4. ASSUME NEW p \in Posts, NEW over \in BOOLEAN, Restore(p, over)
      PROVE  LockKept
  BY <1>4 DEF Restore, SetStatus, MayAct, Moderate
<1>5. ASSUME NEW p \in Posts, NEW over \in BOOLEAN, AskPurge(p, over)
      PROVE  LockKept
  BY <1>5 DEF AskPurge
<1>6. ASSUME NEW p \in Posts, NEW over \in BOOLEAN, Dismiss(p, over)
      PROVE  LockKept
  BY ZenonT(30), <1>6 DEF Dismiss, SetStatus, MayAct, Moderate
<1>7. ASSUME NEW p \in Posts, SetLocks(p)
      PROVE  LockKept
  BY <1>7 DEF SetLocks
<1>8. ASSUME NEW p \in Posts, TurnDown(p)
      PROVE  LockKept
  BY <1>8 DEF TurnDown
<1>9. ASSUME NEW p \in Posts, NEW u \in Users, NEW over \in BOOLEAN, CheckFlag(p, u,
    over)
      PROVE  LockKept
  BY <1>9 DEF CheckFlag
<1>10. ASSUME NEW p \in Posts, NEW u \in Users, CreateFlag(p, u)
      PROVE  LockKept
  BY ZenonT(30), <1>10 DEF CreateFlag, OpenFlags
<1>11. ASSUME NEW p \in Posts, NEW over \in BOOLEAN, CheckAppeal(p, over)
      PROVE  LockKept
  BY <1>11 DEF CheckAppeal
<1>12. ASSUME NEW p \in Posts, CreateAppeal(p)
      PROVE  LockKept
  BY <1>12 DEF CreateAppeal, AskedWithoutAppeal
<1>13. ASSUME FindStale
      PROVE  LockKept
  BY <1>13 DEF FindStale
<1>14. ASSUME NEW p \in Posts, NEW from \in {"pending", "flagged"}, Expire(p, from)
      PROVE  LockKept
  BY <1>14 DEF Expire, SetStatus, Resolve, OpenFlags
<1>15. ASSUME ExpiryFails
      PROVE  LockKept
  BY <1>15 DEF ExpiryFails
<1>16. ASSUME NEW w \in Runs, NEW j \in queue, Ask(w, j)
      PROVE  LockKept
  BY <1>16 DEF Ask
<1>17. ASSUME NEW w \in Runs, Mark(w)
      PROVE  LockKept
  <2>1. PICK p \in Posts, over \in BOOLEAN : task[w] = <<p, over>>
    BY <1>17 DEF Mark
  <2>2. CASE p \in locked /\ purging' # purging
    <3>1. Unblocked(w)
      BY <1>17, <2>2 DEF Mark
    <3>2. purging' = purging \cup {task[w][1]} /\ task[w][1] = p
      BY <1>17, <2>1, <3>1 DEF Mark
    <3>3. purging' = purging \cup {p} /\ p \notin purging
      BY <2>2, <3>2
    <3>4. over = TRUE
      BY <2>1, <2>2, <3>1, <3>3 DEF Unblocked, MayAct
    <3> QED
      BY <1>17, <2>1, <3>3, <3>4 DEF Mark
  <2>3. CASE ~(p \in locked /\ purging' # purging)
    <3>1. \A q \in locked : q \in purging' => q \in purging
      BY <1>17, <2>1, <2>3 DEF Mark
    <3> QED
      BY <1>17, <3>1 DEF Mark
  <2> QED
    BY <2>2, <2>3
<1>18. ASSUME NEW w \in Runs, RemoveFiles(w)
      PROVE  LockKept
  BY <1>18 DEF RemoveFiles
<1>19. ASSUME NEW w \in Runs, Finish(w)
      PROVE  LockKept
  BY <1>19 DEF Finish, Done, Leave, Resolve, OpenFlags
<1>20. ASSUME NEW w \in Runs, RunFails(w)
      PROVE  LockKept
  BY <1>20 DEF RunFails, Leave
<1>21. ASSUME NEW j \in queue, GiveUp(j)
      PROVE  LockKept
  BY <1>21 DEF GiveUp
<1>22. ASSUME NEW p \in Posts, PostAges(p)
      PROVE  LockKept
  BY <1>22 DEF PostAges
<1>23. ASSUME NEW f \in flags, FlagAges(f)
      PROVE  LockKept
  BY <1>23 DEF FlagAges
<1>24. ASSUME CooldownEnds
      PROVE  LockKept
  BY <1>24 DEF CooldownEnds
<1>25. CASE UNCHANGED vars
  BY <1>25 DEF vars
<1> HIDE DEF IInv, TypeOK, RunsAgree, FilesUntilPurging, LockedExist, LockKept,
    Deletable, Stored, Jobs, Places, post_rows, reports, requests, runs, history
<1> QED
  BY <1>1, <1>2, <1>3, <1>4, <1>5, <1>6, <1>7, <1>8, <1>9, <1>10, <1>11, <1>12,
      <1>13, <1>14, <1>15, <1>16, <1>17, <1>18, <1>19, <1>20, <1>21, <1>22, <1>23,
          <1>24, <1>25
  DEF Next, Moderate, Report, Purge

\* Nobody without the permission changes a post whose status is locked, but with a
\* flag checked before.
THEOREM LocksHold == Spec => LockedStatusStays
<1>1. IInv /\ [Next]_vars => [LockKept]_vars
  BY LockStep
<1> QED
  BY <1>1, Invariant, PTL DEF Spec, LockedStatusStays, LockKept
===============================================================================
