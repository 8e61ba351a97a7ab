--------------------------- MODULE PostBatchesProofs ---------------------------
(***************************************************************************)
(* Theorems about PostBatches, for any number of posts, batches, runs and  *)
(* attempts, and any BatchSize and FailuresInRow.                          *)
(***************************************************************************)
EXTENDS PostBatches, TLAPS

InPage(r)  == at[r] \in {"deleting", "purging", "marked", "emptied", "counting"}
\* A run that has read its batch and has something left to do.
Under(r)   == Active(r) /\ at[r] \notin {"begun", "done"}

\* A batch that has a job or a run has a row, and one that has none is new.
RowsKnown ==
    /\ \A b \in Batches : state[b] # "absent" => status[b] # "none"
    /\ \A r \in Runs : Active(r) => works[r] \in Batches /\ status[works[r]] # "none"
    /\ \A b \in Batches : status[b] = "none" =>
          resume[b] = Start0 /\ steady[b] = {} /\ kind[b] = "delete"

\* A run of a deletion deletes, one of a purge purges, and both go through a page.
RunAgrees(r) ==
    /\ at[r] \in {"idle", "begun"} => before[r] = Start0
    /\ at[r] = "deleting" => kind[works[r]] = "delete"
    /\ at[r] \in {"purging", "marked", "emptied", "counting"} =>
          /\ kind[works[r]] # "delete"
          /\ page[r] \subseteq targets[works[r]] \cup strayed[works[r]]
          /\ last[r] \in page[r]
          /\ \A p \in page[r] : p >= last[r]
    /\ at[r] \in {"marked", "emptied"} =>
          \A p \in Posts : IsNext(r, p) => post[p] \in {"purging", "gone"}
    /\ at[r] = "counting" => result[r] \in {"done", "skipped", "failed"}
    /\ at[r] = "done" => result[r] \in {"ok", "retry", "permanent"}

RunsAgree == \A r \in Runs : RunAgrees(r)

\* A post that is steady is one the batch would list.
SteadyAgrees ==
    \A b \in Batches : \A p \in steady[b] :
        IF kind[b] = "delete" THEN post[p] = "shown"
        ELSE p \in targets[b] /\ post[p] \in {"deleted", "purging"}

\* From post n up, the batch misses none.
Visited(b, n) == \A p \in steady[b] : p >= n => p \in failed[b]

RunMissesNone(r) ==
    /\ Active(r) => Visited(works[r], before[r])
    /\ InPage(r) => \A p \in steady[works[r]] :
          p >= last[r] => p \in page[r] \cup failed[works[r]]
    /\ at[r] = "counting" /\ result[r] # "failed" =>
          \A p \in steady[works[r]] : ~IsNext(r, p)
    /\ at[r] = "ending" => steady[works[r]] \subseteq failed[works[r]]

NoneMissed ==
    /\ \A b \in Batches : Visited(b, resume[b])
    /\ \A r \in Runs : RunMissesNone(r)

\* Two runs of a batch at once are noted.
OverlapsNoted ==
    \A r, s \in Runs :
        r # s /\ Active(r) /\ Active(s) /\ works[r] = works[s] => works[r] \in overlapped

\* What a run alone with its batch can rely on: the batch is open, its page is to be counted
\* next and has what this batch marked there (unless its search strayed), a post it has let
\* go of is not marked by it, and once nothing is left, it has marked only what failed or
\* its search strayed from.
RunAlone(r) ==
    Under(r) /\ works[r] \notin overlapped =>
        LET b == works[r] IN
        /\ Open(b)
        /\ at[r] \in {"opened", "listing"} => before[r] = resume[b]
        /\ InPage(r) => \A p \in page[r] : p < resume[b]
        /\ at[r] \in {"purging", "marked", "emptied", "counting"} =>
              \A p \in Posts : /\ post[p] = "purging" /\ marker[p] = b
                               /\ last[r] <= p /\ p < resume[b]
                              => p \in page[r] \cup strayed[b]
        /\ at[r] = "counting" /\ result[r] # "failed" =>
              \A p \in Posts : IsNext(r, p) => ~(post[p] = "purging" /\ marker[p] = b)
        /\ at[r] = "ending" =>
              \A p \in Posts : post[p] = "purging" /\ marker[p] = b
                                => p \in failed[b] \cup strayed[b]

AloneAgrees == \A r \in Runs : RunAlone(r)

\* A run wants no other after it only of a batch that is finished.
Closed(b)  == ~Open(b) \/ b \in overlapped
Content(r) == at[r] = "done" /\ result[r] # "retry" => Closed(works[r])

ContentWhenFinished ==
    /\ \A r \in Runs : Content(r)
    /\ \A b \in Batches : results[b] \subseteq {"retry"} \/ Closed(b)

\* A batch that marked a post is a purge the post is a target of, or was.
MarkersKnown ==
    \A p \in Posts : post[p] = "purging" /\ marker[p] # None =>
        /\ marker[p] \in Batches /\ kind[marker[p]] # "delete"
        /\ p \in targets[marker[p]] \cup strayed[marker[p]]

IInv ==
    /\ TypeOK
    /\ RowsKnown
    /\ RunsAgree
    /\ SteadyAgrees
    /\ NoneMissed
    /\ DoneMissesNone
    /\ OverlapsNoted
    /\ AloneAgrees
    /\ ContentWhenFinished
    /\ OpenHasJob
    /\ OneDeletionAtOnce
    /\ MarkersKnown
    /\ NoneLeftHalfway

USE NoneAssumption, NewestAssumption, NumbersAssumption, AllowedAssumption

-------------------------------------------------------------------------------
\* A search that finds other posts: nothing but what the batch wants changes.
LEMMA FindsOtherDoes ==
    ASSUME TypeOK, NEW b \in Batches, NEW p \in Posts, FindsOther(b, p)
    PROVE  /\ kind[b] = "search"
           /\ UNCHANGED <<post, kind, status, resume, failed, state, begun, results,
                          at, works, before, page, last, streak, result,
                          marker, overlapped, discarded>>
           /\ \A c \in Batches : c # b => targets'[c] = targets[c]
           /\ \A c \in Batches : /\ steady'[c] \subseteq steady[c]
                                 /\ strayed[c] \subseteq strayed'[c]
                                 /\ targets[c] \subseteq targets'[c] \cup strayed'[c]
                                 /\ targets[c] \cap steady'[c] \subseteq targets'[c]
           /\ targets' \in [Batches -> SUBSET Posts]
           /\ steady' \in [Batches -> SUBSET Posts]
           /\ strayed' \in [Batches -> SUBSET Posts]
<1>1. CASE SearchLoses(b, p)
  BY <1>1 DEF FindsOther, SearchLoses, TypeOK, queue, runs
<1>2. CASE SearchGains(b, p)
  BY <1>2 DEF FindsOther, SearchGains, TypeOK, queue, runs
<1> QED
  BY <1>1, <1>2 DEF FindsOther

\* Every step keeps the types.
LEMMA TypesStep == TypeOK /\ RowsKnown /\ RunsAgree /\ [Next]_vars => TypeOK'
<1> SUFFICES ASSUME TypeOK, RowsKnown, RunsAgree, [Next]_vars
             PROVE  TypeOK'
  OBVIOUS
<1>1. ASSUME NEW p \in Posts, Moderate(p)
      PROVE  TypeOK'
  <2> USE DEF RowsKnown, RunsAgree, RunAgrees, TypeOK, Active, Open, Places,
      Outcomes, Posts, Start0, fixed, rows, queue, runs, history
  <2>1. CASE Upload(p)
    BY <2>1 DEF Upload, Others, Unsteady
  <2>2. CASE Delete(p)
    BY <2>2 DEF Delete, Others, Unsteady
  <2>3. CASE Restore(p)
    BY <2>3 DEF Restore, Others, Unsteady
  <2>4. CASE MarkAlone(p)
    BY <2>4 DEF MarkAlone, Others
  <2>5. CASE FinishAlone(p)
    BY <2>5 DEF FinishAlone, Others, Unsteady
  <2> HIDE DEF RowsKnown, RunsAgree, RunAgrees, TypeOK, Active, Open, Places,
      Outcomes, Posts, Start0, fixed, rows, queue, runs, history
  <2> QED
    BY <1>1, <2>1, <2>2, <2>3, <2>4, <2>5 DEF Moderate
<1>2. ASSUME NEW b \in Batches, Request(b)
      PROVE  TypeOK'
  <2> USE DEF RowsKnown, RunsAgree, RunAgrees, TypeOK, Active, Open, Places,
      Outcomes, Posts, Start0, fixed, rows, queue, runs, history
  <2>1. CASE DeleteUploads(b)
    BY <2>1 DEF DeleteUploads, Enqueue, Deletable, Queue!Submit, Queue!BecomePending
  <2>2. CASE StartPurge(b)
    BY <2>2 DEF StartPurge, Enqueue, Deleted, Queue!Submit, Queue!BecomePending
  <2>3. CASE StartSearch(b)
    BY <2>3 DEF StartSearch, Enqueue, Deleted, Queue!Submit, Queue!BecomePending
  <2>4. CASE Finish(b)
    BY <2>4 DEF Finish, Same, Queue!Finish, Queue!Leave
  <2>5. CASE GiveUp(b)
    BY SMTT(30), <2>5 DEF GiveUp, Same, Queue!GiveUp
  <2>6. CASE Revive(b)
    BY <2>6 DEF Revive, Same, Queue!Revive, Queue!BecomePending
  <2>7. CASE Discard(b)
    BY SMTT(30), <2>7 DEF Discard, Same, Queue!Discard, Queue!Leave
  <2> HIDE DEF RowsKnown, RunsAgree, RunAgrees, TypeOK, Active, Open, Places,
      Outcomes, Posts, Start0, fixed, rows, queue, runs, history
  <2>8. ASSUME NEW p \in Posts, FindsOther(b, p)
        PROVE  TypeOK'
    BY <2>8, FindsOtherDoes DEF TypeOK
  <2> QED
    BY <1>2, <2>1, <2>2, <2>3, <2>4, <2>5, <2>6, <2>7, <2>8 DEF Request
<1>3. ASSUME NEW r \in Runs, Work(r)
      PROVE  TypeOK'
  <2> USE DEF RowsKnown, RunsAgree, RunAgrees, TypeOK, Active, Open, Places,
      Outcomes, Posts, Start0, fixed, rows, queue, runs, history
  <2>1. ASSUME NEW b \in Batches, Begin(r, b)
        PROVE  TypeOK'
    <3>1. at' \in [Runs -> Places]
      BY <2>1 DEF Begin, Same, Queue!Begin
    <3>2. works' \in [Runs -> Batches \cup {None}]
      BY <2>1 DEF Begin, Same, Queue!Begin
    <3>3. begun' \in [Batches -> Nat]
      BY SMTT(30), <2>1 DEF Begin, Same, Queue!Begin
    <3>4. overlapped' \subseteq Batches
      BY SMTT(30), <2>1 DEF Begin, Same, Queue!Begin
    <3> QED
      BY <2>1, <3>1, <3>2, <3>3, <3>4 DEF Begin, Same, Queue!Begin
  <2>2. CASE Return(r)
    <3>1. at' \in [Runs -> Places] /\ works' \in [Runs -> Batches \cup {None}]
      BY <2>2 DEF Return, Same, End, Queue!Return
    <3>2. before' \in [Runs -> 1..Start0] /\ page' \in [Runs -> SUBSET Posts]
      BY <2>2 DEF Return, Same, End, Queue!Return
    <3>3. last' \in [Runs -> 1..Start0] /\ streak' \in [Runs -> Nat]
      BY <2>2 DEF Return, Same, End, Queue!Return
    <3>4. result' \in [Runs -> Outcomes]
      BY <2>2 DEF Return, Same, End, Queue!Return
    <3>5. results' \in [Batches -> SUBSET {"ok", "retry", "permanent"}]
      BY <2>2 DEF Return, Same, End, Queue!Return
    <3> QED
      BY <2>2, <3>1, <3>2, <3>3, <3>4, <3>5 DEF Return, Same, End, Queue!Return
  <2>3. CASE ReadBatch(r)
    <3>1. at' \in [Runs -> Places]
      BY <2>3 DEF ReadBatch, ToBeDone, Same, Go
    <3>2. before' \in [Runs -> 1..Start0]
      BY <2>3 DEF ReadBatch, ToBeDone, Same, Go
    <3> QED
      BY <2>3, <3>1, <3>2 DEF ReadBatch, ToBeDone, Same, Go
  <2>4. CASE List(r)
    <3>1. PICK oldest \in Listed(r) :
             /\ page' = [page EXCEPT ![r] = {p \in Listed(r) : p >= oldest}]
             /\ last' = [last EXCEPT ![r] = oldest]
      BY <2>4 DEF List
    <3>2. Listed(r) \subseteq Posts /\ Posts \subseteq 1..Start0
      BY <2>4 DEF List, Listed, Wanted, Deletable, Deleted
    <3>3. page' \in [Runs -> SUBSET Posts] /\ last' \in [Runs -> 1..Start0]
      BY <3>1, <3>2
    <3>4. at' \in [Runs -> Places]
      BY <2>4 DEF List, Go
    <3>5. strayed' \in [Batches -> SUBSET Posts]
      BY <2>4 DEF List
    <3> QED
      BY <2>4, <3>3, <3>4, <3>5 DEF List, Same
  <2>5. CASE DeletePage(r)
    <3>1. post' \in [Posts -> {"unborn", "shown", "deleted", "purging", "gone"}]
      BY <2>5 DEF DeletePage, Deletable, Unsteady, Onward, Go
    <3>2. steady' \in [Batches -> SUBSET Posts] /\ resume' \in [Batches -> 1..Start0]
      BY <2>5 DEF DeletePage, Deletable, Unsteady, Onward, Go
    <3>3. at' \in [Runs -> Places] /\ before' \in [Runs -> 1..Start0]
      BY <2>5 DEF DeletePage, Deletable, Unsteady, Onward, Go
    <3>4. page' \in [Runs -> SUBSET Posts]
      BY <2>5 DEF DeletePage, Deletable, Unsteady, Onward, Go
    <3> QED
      BY <2>5, <3>1, <3>2, <3>3, <3>4 DEF DeletePage, Deletable, Unsteady, Onward, Go
  <2>6. ASSUME NEW p \in Posts, FinishPurge(r, p)
        PROVE  TypeOK'
    <3>1. post' \in [Posts -> {"unborn", "shown", "deleted", "purging", "gone"}]
      BY <2>6 DEF FinishPurge, IsNext, WentAs, Unsteady, Go
    <3>2. steady' \in [Batches -> SUBSET Posts]
      BY <2>6 DEF FinishPurge, IsNext, WentAs, Unsteady, Go
    <3>3. at' \in [Runs -> Places] /\ result' \in [Runs -> Outcomes]
      BY <2>6 DEF FinishPurge, IsNext, WentAs, Unsteady, Go
    <3>4. streak' \in [Runs -> Nat]
      BY <2>6 DEF FinishPurge, IsNext, WentAs, Unsteady, Go
    <3> QED
      BY <2>6, <3>1, <3>2, <3>3, <3>4 DEF FinishPurge, IsNext, WentAs, Unsteady, Go
  <2>7. ASSUME NEW p \in Posts, NextPost(r, p)
        PROVE  TypeOK'
    <3>1. failed' \in [Batches -> SUBSET Posts] /\ resume' \in [Batches -> 1..Start0]
      BY SMTT(30), <2>7 DEF NextPost, Record, Counted, IsNext, Go
    <3>2. at' \in [Runs -> Places] /\ result' \in [Runs -> Outcomes]
      BY <2>7 DEF NextPost, Record, Counted, IsNext, Go
    <3>3. page' \in [Runs -> SUBSET Posts] /\ before' \in [Runs -> 1..Start0]
      BY <2>7 DEF NextPost, Record, Counted, IsNext, Go
    <3> QED
      BY <2>7, <3>1, <3>2, <3>3 DEF NextPost, Record, Counted, IsNext, Go
  <2>8. ASSUME NEW p \in Posts, NextPage(r, p)
        PROVE  TypeOK'
    <3>1. failed' \in [Batches -> SUBSET Posts] /\ resume' \in [Batches -> 1..Start0]
      BY <2>8 DEF NextPage, Record, Counted, IsNext, Onward, Go
    <3>2. at' \in [Runs -> Places] /\ result' \in [Runs -> Outcomes]
      BY <2>8 DEF NextPage, Record, Counted, IsNext, Onward, Go
    <3>3. page' \in [Runs -> SUBSET Posts] /\ before' \in [Runs -> 1..Start0]
      BY <2>8 DEF NextPage, Record, Counted, IsNext, Onward, Go
    <3> QED
      BY <2>8, <3>1, <3>2, <3>3 DEF NextPage, Record, Counted, IsNext, Onward, Go
  <2>9. CASE Crash(r)
    BY SMTT(30), <2>9 DEF Crash, Same, End
  <2>10. CASE StatementFails(r)
    BY <2>10 DEF StatementFails, Same, GiveBack, Go
  <2>11. CASE FindFinished(r)
    BY <2>11 DEF FindFinished, ToBeDone, Same, GiveBack, Go
  <2>12. CASE Start(r)
    BY <2>12 DEF Start, Go
  <2>13. CASE NoneLeft(r)
    BY <2>13 DEF NoneLeft, Listed, Wanted, Deletable, Deleted, Same, Go
  <2>14. CASE Refuse(r)
    BY <2>14 DEF Refuse, Same, Go
  <2>15. ASSUME NEW p \in Posts, Mark(r, p)
        PROVE  TypeOK'
    BY <2>15 DEF Mark, IsNext, Go
  <2>16. ASSUME NEW p \in Posts, Skip(r, p)
        PROVE  TypeOK'
    BY <2>16 DEF Skip, IsNext, WentAs, Unsteady, Go
  <2>17. ASSUME NEW p \in Posts, PurgeFails(r, p)
        PROVE  TypeOK'
    BY SMTT(30), <2>17 DEF PurgeFails, IsNext, WentAs, Same, Go
  <2>18. ASSUME NEW p \in Posts, FindPurged(r, p)
        PROVE  TypeOK'
    BY <2>18 DEF FindPurged, IsNext, WentAs, Same, Go
  <2>19. CASE RemoveFiles(r)
    BY <2>19 DEF RemoveFiles, Same, Go
  <2>20. CASE StopFailing(r)
    BY SMTT(30), <2>20 DEF StopFailing, Same, GiveBack, Go
  <2>21. CASE Complete(r)
    BY <2>21 DEF Complete, GiveBack, Go
  <2>22. CASE Fail(r)
    BY <2>22 DEF Fail, GiveBack, Go
  <2> HIDE DEF RowsKnown, RunsAgree, RunAgrees, TypeOK, Active, Open, Places,
      Outcomes, Posts, Start0, fixed, rows, queue, runs, history
  <2> QED
    BY <1>3, <2>1, <2>2, <2>3, <2>4, <2>5, <2>6, <2>7, <2>8, <2>9, <2>10, <2>11,
        <2>12, <2>13, <2>14, <2>15, <2>16, <2>17, <2>18, <2>19, <2>20, <2>21, <2>22
            DEF Work
<1>4. CASE UNCHANGED vars
  BY <1>4 DEF vars, RowsKnown, RunsAgree, RunAgrees, TypeOK, Active, Open, Places,
      Outcomes, Posts, Start0, fixed, rows, queue, runs, history
<1> QED
  BY <1>1, <1>2, <1>3, <1>4 DEF Next

\* The types of what a run works with.
LEMMA RunTypes ==
    ASSUME TypeOK, RowsKnown, NEW r \in Runs
    PROVE  /\ page[r] \subseteq Posts
           /\ last[r] \in 1..(Newest + 1) /\ before[r] \in 1..(Newest + 1)
           /\ Active(r) => works[r] \in Batches
           /\ Active(r) => kind[works[r]] \in {"delete", "purge", "search"}
           /\ \A b \in Batches : /\ resume[b] \in 1..(Newest + 1)
                                 /\ steady[b] \subseteq Posts /\ targets[b] \subseteq Posts
           /\ Posts \subseteq Nat
BY DEF TypeOK, RowsKnown, Active, Posts, Start0

\* What each step of a run does: to the run, and to what runs share.

LEMMA BeginDoes ==
    ASSUME TypeOK, RowsKnown, NEW r \in Runs, NEW b \in Batches, Begin(r, b)
    PROVE  /\ ~Active(r) /\ state[b] = "pending" /\ at'[r] = "begun" /\ works'[r] = b
           /\ UNCHANGED <<before[r], page[r], last[r], streak[r], result[r],
                          post, kind, targets, status, resume, failed, state, results,
                          steady, strayed, marker, discarded>>
           /\ overlapped \subseteq overlapped' /\ overlapped' \subseteq overlapped \cup {b}
           /\ \A s \in Runs : Active(s) /\ works[s] = b => b \in overlapped'
BY DEF Begin, Same, Queue!Begin, RowsKnown, TypeOK, Active, Open, Places, Outcomes,
    Posts, Start0, fixed, rows, queue, runs, history

LEMMA ReturnDoes ==
    ASSUME TypeOK, RowsKnown, NEW r \in Runs, Return(r)
    PROVE  /\ at[r] = "done" /\ at'[r] = "idle" /\ before'[r] = Start0
           /\ UNCHANGED <<post, kind, targets, status, resume, failed,
                          state, begun, steady, strayed, marker, overlapped, discarded>>
           /\ results'[works[r]] = results[works[r]] \cup {result[r]}
           /\ \A c \in Batches : c # works[r] => results'[c] = results[c]
BY DEF Return, Same, End, Queue!Return, RowsKnown, TypeOK, Active, Open, Places,
    Outcomes, Posts, Start0, fixed, rows, queue, runs, history

LEMMA CrashDoes ==
    ASSUME TypeOK, RowsKnown, NEW r \in Runs, Crash(r)
    PROVE  /\ Active(r) /\ at'[r] = "idle" /\ before'[r] = Start0
           /\ UNCHANGED <<post, kind, targets, status, resume, failed,
                          state, begun, results, steady, strayed, marker, overlapped, discarded>>
BY DEF Crash, Same, End, RowsKnown, TypeOK, Active, Open, Places, Outcomes, Posts,
    Start0, fixed, rows, queue, runs, history

LEMMA StatementFailsDoes ==
    ASSUME TypeOK, RowsKnown, NEW r \in Runs, StatementFails(r)
    PROVE  /\ at[r] \in {"begun", "opened", "listing", "deleting", "counting", "ending", "refused"}
           /\ at'[r] = "done" /\ result'[r] = "retry"
           /\ UNCHANGED <<works[r], before[r], page[r], last[r], streak[r],
                          post, kind, targets, status, resume, failed, state, begun,
                          results, steady, strayed, marker, overlapped, discarded>>
BY DEF StatementFails, Same, GiveBack, Go, RowsKnown, TypeOK, Active, Open, Places,
    Outcomes, Posts, Start0, fixed, rows, queue, runs, history

LEMMA ReadBatchDoes ==
    ASSUME TypeOK, RowsKnown, NEW r \in Runs, ReadBatch(r)
    PROVE  /\ at[r] = "begun" /\ Open(works[r]) /\ at'[r] = "opened"
           /\ before'[r] = resume[works[r]]
           /\ UNCHANGED <<works[r], page[r], last[r], streak[r], result[r],
                          post, kind, targets, status, resume, failed, state, begun,
                          results, steady, strayed, marker, overlapped, discarded>>
BY DEF ReadBatch, ToBeDone, Same, Go, RowsKnown, TypeOK, Active, Open, Places, Outcomes,
    Posts, Start0, fixed, rows, queue, runs, history

LEMMA FindFinishedDoes ==
    ASSUME TypeOK, RowsKnown, NEW r \in Runs, FindFinished(r)
    PROVE  /\ at[r] = "begun" /\ ~Open(works[r]) /\ at'[r] = "done"
           /\ result'[r] = "ok"
           /\ UNCHANGED <<works[r], before[r], page[r], last[r], streak[r],
                          post, kind, targets, status, resume, failed, state, begun,
                          results, steady, strayed, marker, overlapped, discarded>>
BY DEF FindFinished, ToBeDone, Same, GiveBack, Go, RowsKnown, TypeOK, Active, Open,
    Places, Outcomes, Posts, Start0, fixed, rows, queue, runs, history

LEMMA StartDoes ==
    ASSUME TypeOK, RowsKnown, NEW r \in Runs, Start(r)
    PROVE  /\ at[r] = "opened" /\ at'[r] = "listing"
           /\ UNCHANGED <<works[r], before[r], page[r], last[r], streak[r],
                          result[r], post, kind, targets, resume, failed, state, begun,
                          results, steady, strayed, marker, overlapped, discarded>>
           /\ status'[works[r]] = "running"
           /\ \A c \in Batches : c # works[r] => status'[c] = status[c]
BY DEF Start, Go, RowsKnown, TypeOK, Active, Open, Places, Outcomes, Posts, Start0,
    fixed, rows, queue, runs, history

LEMMA ListDoes ==
    ASSUME TypeOK, RowsKnown, NEW r \in Runs, List(r)
    PROVE  /\ at[r] = "listing" /\ last'[r] \in Posts /\ last'[r] \in page'[r]
           /\ last'[r] < before[r]
           /\ page'[r] = {q \in Posts : q \in Wanted(works[r]) /\ q < before[r] /\ q >= last'[r]}
           /\ at'[r] = (IF kind[works[r]] = "delete" THEN "deleting" ELSE "purging")
           /\ UNCHANGED <<works[r], before[r], streak[r], result[r], post,
                          kind, targets, status, resume, failed, state, begun, results,
                          steady, marker, overlapped, discarded>>
           /\ \A c \in Batches : c # works[r] => strayed'[c] = strayed[c]
           /\ \A q \in Posts : q \in strayed[works[r]] =>
                 q \in page'[r] \/ q \in strayed'[works[r]]
           /\ \A c \in Batches : strayed'[c] \subseteq strayed[c]
BY DEF List, Listed, Wanted, Deletable, Deleted, Same, Go, RowsKnown, TypeOK, Active,
    Open, Places, Outcomes, Posts, Start0, fixed, rows, queue, runs, history

LEMMA NoneLeftDoes ==
    ASSUME TypeOK, RowsKnown, NEW r \in Runs, NoneLeft(r)
    PROVE  /\ at[r] = "listing"
           /\ \A q \in Posts : q \in Wanted(works[r]) => q >= before[r]
           /\ at'[r] = "ending"
           /\ UNCHANGED <<works[r], before[r], page[r], last[r], streak[r],
                          result[r], post, kind, targets, status, resume, failed, state,
                          begun, results, steady, strayed, marker, overlapped, discarded>>
<1>1. \A q \in Posts : q \in Wanted(works[r]) => q >= before[r]
  BY RunTypes DEF NoneLeft, Listed
<1> QED
  BY <1>1 DEF NoneLeft, Same, Go, RowsKnown, TypeOK, Active, Open, Places, Outcomes,
      Posts, Start0, fixed, rows, queue, runs, history

LEMMA RefuseDoes ==
    ASSUME TypeOK, RowsKnown, NEW r \in Runs, Refuse(r)
    PROVE  /\ at[r] = "listing" /\ at'[r] = "refused"
           /\ UNCHANGED <<works[r], before[r], page[r], last[r], streak[r],
                          result[r], post, kind, targets, status, resume, failed, state,
                          begun, results, steady, strayed, marker, overlapped, discarded>>
BY DEF Refuse, Same, Go, RowsKnown, TypeOK, Active, Open, Places, Outcomes, Posts,
    Start0, fixed, rows, queue, runs, history

LEMMA DeletePageDoes ==
    ASSUME TypeOK, RowsKnown, NEW r \in Runs, DeletePage(r)
    PROVE  /\ at[r] = "deleting" /\ at'[r] = "listing" /\ before'[r] = last[r]
           /\ page'[r] = {}
           /\ UNCHANGED <<works[r], last[r], streak[r], result[r], kind,
                          targets, status, failed, state, begun, results, strayed, marker,
                          overlapped, discarded>>
           /\ resume'[works[r]] = last[r]
           /\ \A c \in Batches : c # works[r] => resume'[c] = resume[c]
           /\ \A c \in Batches : steady'[c] = steady[c] \ (page[r] \cap Deletable)
           /\ \A q \in Posts :
                 post'[q] = post[q] \/ (q \in page[r] /\ post[q] = "shown" /\ post'[q] = "deleted")
BY DEF DeletePage, Deletable, Unsteady, Onward, Go, RowsKnown, TypeOK, Active, Open,
    Places, Outcomes, Posts, Start0, fixed, rows, queue, runs, history

LEMMA MarkDoes ==
    ASSUME TypeOK, RowsKnown, NEW r \in Runs, NEW p \in Posts, Mark(r, p)
    PROVE  /\ at[r] = "purging"
           /\ p \in page[r] /\ \A q \in page[r] : q <= p
           /\ post[p] \in {"deleted", "purging"} /\ at'[r] = "marked"
           /\ UNCHANGED <<works[r], before[r], page[r], last[r], streak[r],
                          result[r], kind, targets, status, resume, failed, state,
                          begun, results, steady, strayed, overlapped, discarded>>
           /\ post'[p] = "purging"
           /\ \A q \in Posts : q # p => post'[q] = post[q]
           /\ marker'[p] = (IF post[p] = "deleted" THEN works[r] ELSE marker[p])
           /\ \A q \in Posts : q # p => marker'[q] = marker[q]
BY DEF Mark, IsNext, Go, RowsKnown, TypeOK, Active, Open, Places, Outcomes, Posts,
    Start0, fixed, rows, queue, runs, history

LEMMA SkipDoes ==
    ASSUME TypeOK, RowsKnown, NEW r \in Runs, NEW p \in Posts, Skip(r, p)
    PROVE  /\ at[r] = "purging"
           /\ p \in page[r] /\ \A q \in page[r] : q <= p
           /\ post[p] # "purging" /\ at'[r] = "counting" /\ streak'[r] = 0
           /\ result'[r] = "skipped"
           /\ UNCHANGED <<works[r], before[r], page[r], last[r], post, kind,
                          targets, status, resume, failed, state, begun, results,
                          strayed, marker, overlapped, discarded>>
           /\ \A c \in Batches : steady'[c] = steady[c] \ {p}
BY DEF Skip, IsNext, WentAs, Unsteady, Go, RowsKnown, TypeOK, Active, Open, Places,
    Outcomes, Posts, Start0, fixed, rows, queue, runs, history

LEMMA PurgeFailsDoes ==
    ASSUME TypeOK, RowsKnown, NEW r \in Runs, NEW p \in Posts, PurgeFails(r, p)
    PROVE  /\ at[r] \in {"purging", "marked", "emptied"}
           /\ p \in page[r] /\ \A q \in page[r] : q <= p
           /\ at'[r] = "counting" /\ streak'[r] = streak[r] + 1
           /\ result'[r] = "failed"
           /\ UNCHANGED <<works[r], before[r], page[r], last[r], post, kind,
                          targets, status, resume, failed, state, begun, results,
                          steady, strayed, marker, overlapped, discarded>>
BY DEF PurgeFails, IsNext, WentAs, Same, Go, RowsKnown, TypeOK, Active, Open, Places,
    Outcomes, Posts, Start0, fixed, rows, queue, runs, history

LEMMA FinishPurgeDoes ==
    ASSUME TypeOK, RowsKnown, NEW r \in Runs, NEW p \in Posts, FinishPurge(r, p)
    PROVE  /\ at[r] = "emptied"
           /\ p \in page[r] /\ \A q \in page[r] : q <= p
           /\ post[p] = "purging" /\ at'[r] = "counting" /\ streak'[r] = 0
           /\ result'[r] = "done"
           /\ UNCHANGED <<works[r], before[r], page[r], last[r], kind,
                          targets, status, resume, failed, state, begun, results,
                          strayed, marker, overlapped, discarded>>
           /\ post'[p] = "gone"
           /\ \A q \in Posts : q # p => post'[q] = post[q]
           /\ \A c \in Batches : steady'[c] = steady[c] \ {p}
BY DEF FinishPurge, IsNext, WentAs, Unsteady, Go, RowsKnown, TypeOK, Active, Open,
    Places, Outcomes, Posts, Start0, fixed, rows, queue, runs, history

LEMMA FindPurgedDoes ==
    ASSUME TypeOK, RowsKnown, NEW r \in Runs, NEW p \in Posts, FindPurged(r, p)
    PROVE  /\ at[r] = "emptied"
           /\ p \in page[r] /\ \A q \in page[r] : q <= p
           /\ post[p] # "purging" /\ at'[r] = "counting" /\ streak'[r] = 0
           /\ result'[r] = "skipped"
           /\ UNCHANGED <<works[r], before[r], page[r], last[r], post, kind,
                          targets, status, resume, failed, state, begun, results,
                          steady, strayed, marker, overlapped, discarded>>
BY DEF FindPurged, IsNext, WentAs, Same, Go, RowsKnown, TypeOK, Active, Open, Places,
    Outcomes, Posts, Start0, fixed, rows, queue, runs, history

LEMMA NextPostDoes ==
    ASSUME TypeOK, RowsKnown, NEW r \in Runs, NEW p \in Posts, NextPost(r, p)
    PROVE  /\ at[r] = "counting"
           /\ p \in page[r] /\ \A q \in page[r] : q <= p
           /\ at'[r] = "purging" /\ page'[r] = page[r] \ {p} /\ result'[r] = "retry"
           /\ UNCHANGED <<works[r], before[r], last[r], streak[r], post,
                          kind, targets, status, state, begun, results, steady, strayed, marker,
                          overlapped, discarded>>
           /\ resume'[works[r]] = p
           /\ \A c \in Batches : c # works[r] => resume'[c] = resume[c]
           /\ failed'[works[r]] = (IF result[r] = "failed" THEN failed[works[r]] \cup {p}
                                                          ELSE failed[works[r]])
           /\ \A c \in Batches : c # works[r] => failed'[c] = failed[c]
BY ZenonT(30) DEF NextPost, Record, Counted, IsNext, Go, RowsKnown, TypeOK, Active, Open, Places,
    Outcomes, Posts, Start0, fixed, rows, queue, runs, history

LEMMA NextPageDoes ==
    ASSUME TypeOK, RowsKnown, NEW r \in Runs, NEW p \in Posts, NextPage(r, p)
    PROVE  /\ at[r] = "counting" /\ page[r] = {p}
           /\ p \in page[r] /\ \A q \in page[r] : q <= p
           /\ at'[r] = "listing" /\ before'[r] = last[r] /\ page'[r] = {}
           /\ result'[r] = "retry"
           /\ UNCHANGED <<works[r], last[r], streak[r], post, kind, targets,
                          status, state, begun, results, steady, strayed, marker, overlapped,
                          discarded>>
           /\ resume'[works[r]] = p
           /\ \A c \in Batches : c # works[r] => resume'[c] = resume[c]
           /\ failed'[works[r]] = (IF result[r] = "failed" THEN failed[works[r]] \cup {p}
                                                          ELSE failed[works[r]])
           /\ \A c \in Batches : c # works[r] => failed'[c] = failed[c]
BY ZenonT(30) DEF NextPage, Record, Counted, IsNext, Onward, Go, RowsKnown, TypeOK, Active, Open,
    Places, Outcomes, Posts, Start0, fixed, rows, queue, runs, history

LEMMA RemoveFilesDoes ==
    ASSUME TypeOK, RowsKnown, NEW r \in Runs, RemoveFiles(r)
    PROVE  /\ at[r] = "marked" /\ at'[r] = "emptied"
           /\ UNCHANGED <<works[r], before[r], page[r], last[r], streak[r],
                          result[r], post, kind, targets, status, resume, failed, state,
                          begun, results, steady, strayed, marker, overlapped, discarded>>
BY DEF RemoveFiles, Same, Go, RowsKnown, TypeOK, Active, Open, Places, Outcomes, Posts,
    Start0, fixed, rows, queue, runs, history

LEMMA StopFailingDoes ==
    ASSUME TypeOK, RowsKnown, NEW r \in Runs, StopFailing(r)
    PROVE  /\ at[r] \in {"purging", "marked", "emptied"}
           /\ at'[r] = "done" /\ streak'[r] = streak[r] + 1 /\ result'[r] = "retry"
           /\ UNCHANGED <<works[r], before[r], page[r], last[r], post, kind,
                          targets, status, resume, failed, state, begun, results,
                          steady, strayed, marker, overlapped, discarded>>
BY DEF StopFailing, Same, GiveBack, Go, RowsKnown, TypeOK, Active, Open, Places,
    Outcomes, Posts, Start0, fixed, rows, queue, runs, history

LEMMA CompleteDoes ==
    ASSUME TypeOK, RowsKnown, NEW r \in Runs, Complete(r)
    PROVE  /\ at[r] = "ending" /\ at'[r] = "done" /\ result'[r] = "ok"
           /\ UNCHANGED <<works[r], before[r], page[r], last[r], streak[r],
                          post, kind, targets, resume, failed, state, begun, results,
                          steady, strayed, marker, overlapped, discarded>>
           /\ status'[works[r]] = "done"
           /\ \A c \in Batches : c # works[r] => status'[c] = status[c]
BY DEF Complete, GiveBack, Go, RowsKnown, TypeOK, Active, Open, Places, Outcomes, Posts,
    Start0, fixed, rows, queue, runs, history

LEMMA FailDoes ==
    ASSUME TypeOK, RowsKnown, NEW r \in Runs, Fail(r)
    PROVE  /\ at[r] = "refused" /\ at'[r] = "done" /\ result'[r] = "permanent"
           /\ UNCHANGED <<works[r], before[r], page[r], last[r], streak[r],
                          post, kind, targets, resume, failed, state, begun, results,
                          steady, strayed, marker, overlapped, discarded>>
           /\ status'[works[r]] = "failed"
           /\ \A c \in Batches : c # works[r] => status'[c] = status[c]
BY DEF Fail, GiveBack, Go, RowsKnown, TypeOK, Active, Open, Places, Outcomes, Posts,
    Start0, fixed, rows, queue, runs, history

\* What a step of run r leaves to others: their runs, and their batches.
Frame(r) ==
    /\ \A s \in Runs : s # r =>
          /\ at'[s] = at[s] /\ works'[s] = works[s] /\ result'[s] = result[s]
          /\ before'[s] = before[s] /\ page'[s] = page[s] /\ last'[s] = last[s]
    /\ kind' = kind /\ targets' = targets
    /\ overlapped \subseteq overlapped'
    /\ \A b \in Batches :
          /\ steady'[b] \subseteq steady[b]
          /\ failed[b] \subseteq failed'[b]
          /\ kind[b] # "delete" => strayed[b] \subseteq targets[b] \cup strayed'[b]
          /\ ~(Active(r) /\ works[r] = b) =>
                /\ status'[b] = status[b] /\ resume'[b] = resume[b]
                /\ failed'[b] = failed[b] /\ strayed'[b] = strayed[b]
    /\ \A p \in Posts :
          /\ post[p] \in {"purging", "gone"} => post'[p] \in {"purging", "gone"}
          /\ post'[p] = "purging" =>
                \/ post[p] = "purging" /\ marker'[p] = marker[p]
                \/ Active(r) /\ post[p] = "deleted" /\ marker'[p] = works[r]

LEMMA WorkFrames ==
    ASSUME TypeOK, RowsKnown, NEW r \in Runs, Work(r)
    PROVE  Frame(r)
<1> USE DEF TypeOK, Active, Open, Places, Outcomes, Posts, Start0, fixed, rows,
    queue, runs, history
<1>1. ASSUME NEW b \in Batches, Begin(r, b)
      PROVE  Frame(r)
  BY <1>1 DEF Frame, RowsKnown, Begin, Same, Queue!Begin
<1>2. ASSUME Return(r)
      PROVE  Frame(r)
  BY <1>2 DEF Frame, RowsKnown, Return, Same, End, Queue!Return
<1>3. ASSUME Crash(r)
      PROVE  Frame(r)
  BY <1>3 DEF Frame, RowsKnown, Crash, Same, End
<1>4. ASSUME StatementFails(r)
      PROVE  Frame(r)
  BY <1>4 DEF Frame, RowsKnown, StatementFails, Same, GiveBack, Go
<1>5. ASSUME ReadBatch(r)
      PROVE  Frame(r)
  BY <1>5 DEF Frame, RowsKnown, ReadBatch, ToBeDone, Same, Go
<1>6. ASSUME FindFinished(r)
      PROVE  Frame(r)
  BY <1>6 DEF Frame, RowsKnown, FindFinished, ToBeDone, Same, GiveBack, Go
<1>7. ASSUME Start(r)
      PROVE  Frame(r)
  BY <1>7 DEF Frame, RowsKnown, Start, Go
<1>8. ASSUME List(r)
      PROVE  Frame(r)
  <2>1. works[r] \in Batches /\ Active(r)
    BY <1>8 DEF RowsKnown, List
  <2>2. kind[works[r]] # "delete" => strayed[works[r]] \subseteq targets[works[r]] \cup strayed'[works[r]]
    <3> SUFFICES ASSUME kind[works[r]] # "delete", NEW q \in strayed[works[r]]
                 PROVE  q \in targets[works[r]] \cup strayed'[works[r]]
      OBVIOUS
    <3>1. q \in Posts
      BY <2>1
    <3>2. q \in page'[r] \/ q \in strayed'[works[r]]
      BY <1>8, <3>1, ListDoes
    <3>3. q \in page'[r] => q \in Wanted(works[r])
      BY <1>8, ListDoes
    <3>4. Wanted(works[r]) \subseteq targets[works[r]]
      BY <2>1 DEF Wanted
    <3> QED
      BY <3>2, <3>3, <3>4
  <2>3. \A b \in Batches : b # works[r] => strayed'[b] = strayed[b]
    BY <1>8, ListDoes
  <2> QED
    BY <1>8, <2>1, <2>2, <2>3 DEF Frame, RowsKnown, List, Same, Go
<1>9. ASSUME NoneLeft(r)
      PROVE  Frame(r)
  BY <1>9 DEF Frame, RowsKnown, NoneLeft, Listed, Wanted, Deletable, Deleted, Same, Go
<1>10. ASSUME Refuse(r)
      PROVE  Frame(r)
  BY <1>10 DEF Frame, RowsKnown, Refuse, Same, Go
<1>11. ASSUME DeletePage(r)
      PROVE  Frame(r)
  BY <1>11 DEF Frame, RowsKnown, DeletePage, Deletable, Unsteady, Onward, Go
<1>12. ASSUME NEW p \in Posts, Mark(r, p)
      PROVE  Frame(r)
  BY <1>12 DEF Frame, RowsKnown, Mark, IsNext, Go
<1>13. ASSUME NEW p \in Posts, Skip(r, p)
      PROVE  Frame(r)
  BY <1>13 DEF Frame, RowsKnown, Skip, IsNext, WentAs, Unsteady, Go
<1>14. ASSUME NEW p \in Posts, PurgeFails(r, p)
      PROVE  Frame(r)
  BY <1>14 DEF Frame, RowsKnown, PurgeFails, IsNext, WentAs, Same, Go
<1>15. ASSUME NEW p \in Posts, FinishPurge(r, p)
      PROVE  Frame(r)
  BY <1>15 DEF Frame, RowsKnown, FinishPurge, IsNext, WentAs, Unsteady, Go
<1>16. ASSUME NEW p \in Posts, FindPurged(r, p)
      PROVE  Frame(r)
  BY <1>16 DEF Frame, RowsKnown, FindPurged, IsNext, WentAs, Same, Go
<1>17. ASSUME NEW p \in Posts, NextPost(r, p)
      PROVE  Frame(r)
  BY <1>17 DEF Frame, RowsKnown, NextPost, Record, Counted, IsNext, Go
<1>18. ASSUME NEW p \in Posts, NextPage(r, p)
      PROVE  Frame(r)
  BY <1>18 DEF Frame, RowsKnown, NextPage, Record, Counted, IsNext, Onward, Go
<1>19. ASSUME RemoveFiles(r)
      PROVE  Frame(r)
  BY <1>19 DEF Frame, RowsKnown, RemoveFiles, Same, Go
<1>20. ASSUME StopFailing(r)
      PROVE  Frame(r)
  BY <1>20 DEF Frame, RowsKnown, StopFailing, Same, GiveBack, Go
<1>21. ASSUME Complete(r)
      PROVE  Frame(r)
  BY <1>21 DEF Frame, RowsKnown, Complete, GiveBack, Go
<1>22. ASSUME Fail(r)
      PROVE  Frame(r)
  BY <1>22 DEF Frame, RowsKnown, Fail, GiveBack, Go
<1> HIDE DEF TypeOK, Active, Open, Places, Outcomes, Posts, Start0, fixed, rows,
    queue, runs, history
<1> QED
  BY <1>1, <1>2, <1>3, <1>4, <1>5, <1>6, <1>7, <1>8, <1>9, <1>10, <1>11, <1>12,
      <1>13, <1>14, <1>15, <1>16, <1>17, <1>18, <1>19, <1>20, <1>21, <1>22 DEF Work
\* Every step keeps rows, jobs and runs together.
LEMMA RowsStep == TypeOK /\ RowsKnown /\ [Next]_vars => RowsKnown'
<1> SUFFICES ASSUME TypeOK, RowsKnown, [Next]_vars
             PROVE  RowsKnown'
  OBVIOUS
<1>1. ASSUME NEW p \in Posts, Moderate(p)
      PROVE  RowsKnown'
  <2> USE DEF RowsKnown, TypeOK, Active, Open, Places, Outcomes, Posts, Start0,
      fixed, rows, queue, runs, history
  <2>1. CASE Upload(p)
    BY <2>1 DEF Upload, Others, Unsteady
  <2>2. CASE Delete(p)
    BY <2>2 DEF Delete, Others, Unsteady
  <2>3. CASE Restore(p)
    BY <2>3 DEF Restore, Others, Unsteady
  <2>4. CASE MarkAlone(p)
    BY <2>4 DEF MarkAlone, Others
  <2>5. CASE FinishAlone(p)
    BY <2>5 DEF FinishAlone, Others, Unsteady
  <2> HIDE DEF RowsKnown, TypeOK, Active, Open, Places, Outcomes, Posts, Start0,
      fixed, rows, queue, runs, history
  <2> QED
    BY <1>1, <2>1, <2>2, <2>3, <2>4, <2>5 DEF Moderate
<1>2. ASSUME NEW b \in Batches, Request(b)
      PROVE  RowsKnown'
  <2> USE DEF RowsKnown, TypeOK, Active, Open, Places, Outcomes, Posts, Start0,
      fixed, rows, queue, runs, history
  <2>1. CASE DeleteUploads(b)
    BY <2>1 DEF DeleteUploads, Enqueue, Deletable, Queue!Submit, Queue!BecomePending
  <2>2. CASE StartPurge(b)
    BY <2>2 DEF StartPurge, Enqueue, Deleted, Queue!Submit, Queue!BecomePending
  <2>3. CASE StartSearch(b)
    BY <2>3 DEF StartSearch, Enqueue, Deleted, Queue!Submit, Queue!BecomePending
  <2>4. CASE Finish(b)
    BY <2>4 DEF Finish, Same, Queue!Finish, Queue!Leave
  <2>5. CASE GiveUp(b)
    BY <2>5 DEF GiveUp, Same, Queue!GiveUp
  <2>6. CASE Revive(b)
    BY <2>6 DEF Revive, Same, Queue!Revive, Queue!BecomePending
  <2>7. CASE Discard(b)
    BY <2>7 DEF Discard, Same, Queue!Discard, Queue!Leave
  <2> HIDE DEF RowsKnown, TypeOK, Active, Open, Places, Outcomes, Posts, Start0,
      fixed, rows, queue, runs, history
  <2>8. ASSUME NEW p \in Posts, FindsOther(b, p)
        PROVE  RowsKnown'
    BY <2>8, FindsOtherDoes DEF RowsKnown, Active
  <2> QED
    BY <1>2, <2>1, <2>2, <2>3, <2>4, <2>5, <2>6, <2>7, <2>8 DEF Request
<1>3. ASSUME NEW r \in Runs, Work(r)
      PROVE  RowsKnown'
  <2>1. ASSUME NEW b \in Batches, Begin(r, b)
        PROVE  RowsKnown'
    <3>1. state[b] # "absent" /\ status[b] # "none"
      BY <2>1, BeginDoes DEF RowsKnown
    <3>2. \A s \in Runs : Active(s)' => works'[s] \in Batches /\ status[works'[s]] #
        "none"
      BY <2>1, <3>1, BeginDoes, WorkFrames DEF Work, Frame, RowsKnown, Active
    <3>3. state' = state /\ status' = status /\ resume' = resume /\ steady' = steady
        /\ kind' = kind
      BY <2>1, BeginDoes
    <3> QED
      BY <3>1, <3>2, <3>3 DEF RowsKnown
  <2> USE DEF RowsKnown, TypeOK, Active, Open, Places, Outcomes, Posts, Start0,
      fixed, rows, queue, runs, history
  <2>2. CASE Return(r)
    BY SMTT(30), <2>2 DEF Return, Same, End, Queue!Return
  <2>3. CASE Crash(r)
    BY <2>3 DEF Crash, Same, End
  <2>4. CASE StatementFails(r)
    BY SMTT(30), <2>4 DEF StatementFails, Same, GiveBack, Go
  <2>5. CASE ReadBatch(r)
    BY SMTT(30), <2>5 DEF ReadBatch, ToBeDone, Same, Go
  <2>6. CASE FindFinished(r)
    BY SMTT(30), <2>6 DEF FindFinished, ToBeDone, Same, GiveBack, Go
  <2>7. CASE Start(r)
    BY <2>7 DEF Start, Go
  <2>8. CASE List(r)
    BY <2>8 DEF List, Listed, Wanted, Deletable, Deleted, Same, Go
  <2>9. CASE NoneLeft(r)
    BY <2>9 DEF NoneLeft, Listed, Wanted, Deletable, Deleted, Same, Go
  <2>10. CASE Refuse(r)
    BY <2>10 DEF Refuse, Same, Go
  <2>11. CASE DeletePage(r)
    BY SMTT(30), <2>11 DEF DeletePage, Deletable, Unsteady, Onward, Go
  <2>12. ASSUME NEW p \in Posts, Mark(r, p)
        PROVE  RowsKnown'
    BY <2>12 DEF Mark, IsNext, Go
  <2>13. ASSUME NEW p \in Posts, Skip(r, p)
        PROVE  RowsKnown'
    BY <2>13 DEF Skip, IsNext, WentAs, Unsteady, Go
  <2>14. ASSUME NEW p \in Posts, PurgeFails(r, p)
        PROVE  RowsKnown'
    BY SMTT(30), <2>14 DEF PurgeFails, IsNext, WentAs, Same, Go
  <2>15. ASSUME NEW p \in Posts, FinishPurge(r, p)
        PROVE  RowsKnown'
    BY <2>15 DEF FinishPurge, IsNext, WentAs, Unsteady, Go
  <2>16. ASSUME NEW p \in Posts, FindPurged(r, p)
        PROVE  RowsKnown'
    BY SMTT(30), <2>16 DEF FindPurged, IsNext, WentAs, Same, Go
  <2>17. ASSUME NEW p \in Posts, NextPost(r, p)
        PROVE  RowsKnown'
    BY SMTT(30), <2>17 DEF NextPost, Record, Counted, IsNext, Go
  <2>18. ASSUME NEW p \in Posts, NextPage(r, p)
        PROVE  RowsKnown'
    BY SMTT(30), <2>18 DEF NextPage, Record, Counted, IsNext, Onward, Go
  <2>19. CASE RemoveFiles(r)
    BY <2>19 DEF RemoveFiles, Same, Go
  <2>20. CASE StopFailing(r)
    BY <2>20 DEF StopFailing, Same, GiveBack, Go
  <2>21. CASE Complete(r)
    BY <2>21 DEF Complete, GiveBack, Go
  <2>22. CASE Fail(r)
    BY <2>22 DEF Fail, GiveBack, Go
  <2> HIDE DEF RowsKnown, TypeOK, Active, Open, Places, Outcomes, Posts, Start0,
      fixed, rows, queue, runs, history
  <2> QED
    BY <1>3, <2>1, <2>2, <2>3, <2>4, <2>5, <2>6, <2>7, <2>8, <2>9, <2>10, <2>11,
        <2>12, <2>13, <2>14, <2>15, <2>16, <2>17, <2>18, <2>19, <2>20, <2>21, <2>22
            DEF Work
<1>4. CASE UNCHANGED vars
  BY <1>4 DEF vars, RowsKnown, TypeOK, Active, Open, Places, Outcomes, Posts, Start0,
      fixed, rows, queue, runs, history
<1> QED
  BY <1>1, <1>2, <1>3, <1>4 DEF Next

LEMMA FramesOfRuns ==
    ASSUME TypeOK, RowsKnown, NEW r \in Runs, NEW s \in Runs, s # r, Frame(r)
    PROVE  /\ at'[s] = at[s] /\ works'[s] = works[s] /\ result'[s] = result[s]
           /\ before'[s] = before[s] /\ page'[s] = page[s] /\ last'[s] = last[s]
           /\ Active(s) => works[s] \in Batches
BY DEF Frame, RowsKnown, Active

\* What holds of the other runs still does.
LEMMA OthersAgree ==
    ASSUME TypeOK, RowsKnown, RunsAgree, NEW r \in Runs, Frame(r)
    PROVE  \A s \in Runs : s # r => RunAgrees(s)'
<1> SUFFICES ASSUME NEW s \in Runs, s # r
             PROVE  RunAgrees(s)'
  OBVIOUS
<1>1. RunAgrees(s)
  BY DEF RunsAgree
<1>2. /\ kind' = kind /\ targets' = targets
      /\ \A b \in Batches : kind[b] # "delete" => strayed[b] \subseteq targets[b] \cup strayed'[b]
  BY DEF Frame
<1>3. \A p \in Posts : post[p] \in {"purging", "gone"} => post'[p] \in {"purging", "gone"}
  BY DEF Frame
<1>4. at[s] \in {"purging", "marked", "emptied", "counting"} =>
        page[s] \subseteq targets'[works[s]] \cup strayed'[works[s]]
  BY <1>1, <1>2, FramesOfRuns DEF RunAgrees, Active
<1> QED
  BY <1>1, <1>2, <1>3, <1>4, FramesOfRuns DEF RunAgrees, IsNext

LEMMA OthersMissNone ==
    ASSUME TypeOK, RowsKnown, NoneMissed, NEW r \in Runs, Frame(r)
    PROVE  \A s \in Runs : s # r => RunMissesNone(s)'
<1> SUFFICES ASSUME NEW s \in Runs, s # r
             PROVE  RunMissesNone(s)'
  OBVIOUS
<1>1. RunMissesNone(s)
  BY DEF NoneMissed
<1>2. Active(s) => /\ works[s] \in Batches
                   /\ steady'[works[s]] \subseteq steady[works[s]]
                   /\ failed[works[s]] \subseteq failed'[works[s]]
  BY FramesOfRuns DEF Frame
<1> QED
  BY <1>1, <1>2, FramesOfRuns DEF RunMissesNone, Visited, InPage, IsNext, Active

LEMMA OthersAlone ==
    ASSUME TypeOK, RowsKnown, OverlapsNoted, AloneAgrees, NEW r \in Runs, Frame(r)
    PROVE  \A s \in Runs : s # r => RunAlone(s)'
<1> SUFFICES ASSUME NEW s \in Runs, s # r, Under(s)', works'[s] \notin overlapped'
             PROVE  RunAlone(s)'
  BY DEF RunAlone
<1>1. Under(s) /\ Active(s) /\ works'[s] = works[s] /\ works[s] \in Batches
  BY FramesOfRuns DEF Under, Active
<1>2. works[s] \notin overlapped /\ ~(Active(r) /\ works[r] = works[s])
  BY <1>1 DEF Frame, OverlapsNoted
<1>3. RunAlone(s)
  BY DEF AloneAgrees
<1>4. UNCHANGED <<status[works[s]], resume[works[s]], failed[works[s]], strayed[works[s]]>>
  BY <1>1, <1>2 DEF Frame
<1>5. \A p \in Posts : post'[p] = "purging" /\ marker'[p] = works[s] =>
                       post[p] = "purging" /\ marker[p] = works[s]
  BY <1>1, <1>2 DEF Frame
<1> QED
  BY <1>1, <1>2, <1>3, <1>4, <1>5, FramesOfRuns DEF RunAlone, InPage, IsNext, Open

\* A run that goes on with its batch makes no new overlap.
LEMMA NoNewOverlap ==
    ASSUME TypeOK, RowsKnown, OverlapsNoted, NEW r \in Runs, Frame(r),
           Active(r)' => Active(r) /\ works'[r] = works[r]
    PROVE  OverlapsNoted'
<1> SUFFICES ASSUME NEW s \in Runs, NEW u \in Runs, s # u, Active(s)', Active(u)',
                    works'[s] = works'[u]
             PROVE  works'[s] \in overlapped'
  BY DEF OverlapsNoted
<1>1. Active(s) /\ Active(u) /\ works'[s] = works[s] /\ works'[u] = works[u]
  BY FramesOfRuns DEF Active
<1> QED
  BY <1>1 DEF OverlapsNoted, Frame

LEMMA RunAgreesAfterList ==
    ASSUME TypeOK, RowsKnown, RunsAgree, NEW r \in Runs, List(r)
    PROVE  RunAgrees(r)'
<1>1. \A p \in page'[r] : p >= last'[r]
  BY ListDoes
<1>2. /\ at'[r] = (IF kind[works[r]] = "delete" THEN "deleting" ELSE "purging")
      /\ UNCHANGED <<works[r], kind, targets>>
  BY ListDoes
<1>3. kind[works[r]] \in {"delete", "purge", "search"} /\ Active(r)
  BY ListDoes, RunTypes DEF Active
<1>4. kind[works[r]] # "delete" => page'[r] \subseteq targets[works[r]]
  BY <1>3, ListDoes DEF Wanted
<1>5. kind[works[r]] # "delete" => last'[r] \in page'[r]
  BY <1>3, ListDoes, RunTypes DEF List
<1> QED
  BY <1>1, <1>2, <1>3, <1>4, <1>5 DEF RunAgrees

LEMMA RunAgreesAfterNextPost ==
    ASSUME TypeOK, RowsKnown, RunsAgree, NEW r \in Runs, NEW p \in Posts, NextPost(r, p)
    PROVE  RunAgrees(r)'
<1>1. /\ page'[r] = page[r] \ {p} /\ at'[r] = "purging"
      /\ UNCHANGED <<works[r], kind, targets, strayed, last[r]>>
  BY NextPostDoes
<1>2. /\ kind[works[r]] # "delete" /\ page[r] \subseteq targets[works[r]] \cup strayed[works[r]]
      /\ last[r] \in page[r] /\ \A q \in page[r] : q >= last[r]
  BY NextPostDoes DEF RunsAgree, RunAgrees
<1>3. \A q \in page[r] : q <= p
  BY NextPostDoes
<1>4. p # last[r]
  BY <1>2, <1>3, RunTypes DEF NextPost
<1> QED
  BY <1>1, <1>2, <1>4 DEF RunAgrees

\* Every step keeps runs to their kind of work.
LEMMA RunsStep == TypeOK /\ RowsKnown /\ RunsAgree /\ [Next]_vars => RunsAgree'
<1> SUFFICES ASSUME TypeOK, RowsKnown, RunsAgree, [Next]_vars
             PROVE  RunsAgree'
  OBVIOUS
<1>1. ASSUME NEW p \in Posts, Moderate(p)
      PROVE  RunsAgree'
  <2> USE DEF RowsKnown, RunsAgree, RunAgrees, IsNext, TypeOK, Active, Open, Places,
      Outcomes, Posts, Start0, fixed, rows, queue, runs, history
  <2>1. CASE Upload(p)
    BY SMTT(30), <2>1 DEF Upload, Others, Unsteady
  <2>2. CASE Delete(p)
    BY <2>2 DEF Delete, Others, Unsteady
  <2>3. CASE Restore(p)
    BY <2>3 DEF Restore, Others, Unsteady
  <2>4. CASE MarkAlone(p)
    BY <2>4 DEF MarkAlone, Others
  <2>5. CASE FinishAlone(p)
    BY <2>5 DEF FinishAlone, Others, Unsteady
  <2> HIDE DEF RowsKnown, RunsAgree, RunAgrees, IsNext, TypeOK, Active, Open, Places,
      Outcomes, Posts, Start0, fixed, rows, queue, runs, history
  <2> QED
    BY <1>1, <2>1, <2>2, <2>3, <2>4, <2>5 DEF Moderate
<1>2. ASSUME NEW b \in Batches, Request(b)
      PROVE  RunsAgree'
  <2> USE DEF RowsKnown, RunsAgree, RunAgrees, IsNext, TypeOK, Active, Open, Places,
      Outcomes, Posts, Start0, fixed, rows, queue, runs, history
  <2>1. CASE DeleteUploads(b)
    BY SMTT(30), <2>1 DEF DeleteUploads, Enqueue, Deletable, Queue!Submit, Queue!BecomePending
  <2>2. CASE StartPurge(b)
    BY SMTT(30), <2>2 DEF StartPurge, Enqueue, Deleted, Queue!Submit, Queue!BecomePending
  <2>3. CASE StartSearch(b)
    BY SMTT(30), <2>3 DEF StartSearch, Enqueue, Deleted, Queue!Submit, Queue!BecomePending
  <2>4. CASE Finish(b)
    BY <2>4 DEF Finish, Same, Queue!Finish, Queue!Leave
  <2>5. CASE GiveUp(b)
    BY <2>5 DEF GiveUp, Same, Queue!GiveUp
  <2>6. CASE Revive(b)
    BY <2>6 DEF Revive, Same, Queue!Revive, Queue!BecomePending
  <2>7. CASE Discard(b)
    BY <2>7 DEF Discard, Same, Queue!Discard, Queue!Leave
  <2> HIDE DEF RowsKnown, RunsAgree, RunAgrees, IsNext, TypeOK, Active, Open, Places,
      Outcomes, Posts, Start0, fixed, rows, queue, runs, history
  <2>8. ASSUME NEW p \in Posts, FindsOther(b, p)
        PROVE  RunsAgree'
    BY <2>8, FindsOtherDoes DEF RowsKnown, RunsAgree, RunAgrees, IsNext, Active
  <2> QED
    BY <1>2, <2>1, <2>2, <2>3, <2>4, <2>5, <2>6, <2>7, <2>8 DEF Request
<1>3. ASSUME NEW r \in Runs, Work(r)
      PROVE  RunsAgree'
  <2>1. \A s \in Runs : s # r => RunAgrees(s)'
    BY <1>3, WorkFrames, OthersAgree
  <2>2. RunAgrees(r)'
    <3>1. ASSUME NEW b \in Batches, Begin(r, b)
          PROVE  RunAgrees(r)'
      BY <3>1, BeginDoes, RunTypes DEF RunsAgree, RunAgrees, IsNext, Active
    <3>2. CASE Return(r)
      BY <3>2, ReturnDoes, RunTypes DEF RunsAgree, RunAgrees, IsNext, Active
    <3>3. CASE Crash(r)
      BY <3>3, CrashDoes, RunTypes DEF RunsAgree, RunAgrees, IsNext, Active
    <3>4. CASE StatementFails(r)
      BY <3>4, StatementFailsDoes, RunTypes DEF RunsAgree, RunAgrees, IsNext, Active
    <3>5. CASE ReadBatch(r)
      BY <3>5, ReadBatchDoes, RunTypes DEF RunsAgree, RunAgrees, IsNext, Active
    <3>6. CASE FindFinished(r)
      BY <3>6, FindFinishedDoes, RunTypes DEF RunsAgree, RunAgrees, IsNext, Active
    <3>7. CASE Start(r)
      BY <3>7, StartDoes, RunTypes DEF RunsAgree, RunAgrees, IsNext, Active
    <3>8. CASE List(r)
      BY <3>8, RunAgreesAfterList
    <3>9. CASE NoneLeft(r)
      BY <3>9, NoneLeftDoes, RunTypes DEF RunsAgree, RunAgrees, IsNext, Active
    <3>10. CASE Refuse(r)
      BY <3>10, RefuseDoes, RunTypes DEF RunsAgree, RunAgrees, IsNext, Active
    <3>11. CASE DeletePage(r)
      BY <3>11, DeletePageDoes, RunTypes DEF RunsAgree, RunAgrees, IsNext, Active
    <3>12. ASSUME NEW p \in Posts, Mark(r, p)
          PROVE  RunAgrees(r)'
      BY <3>12, MarkDoes, RunTypes DEF RunsAgree, RunAgrees, IsNext, Active
    <3>13. ASSUME NEW p \in Posts, Skip(r, p)
          PROVE  RunAgrees(r)'
      BY <3>13, SkipDoes, RunTypes DEF RunsAgree, RunAgrees, IsNext, Active
    <3>14. ASSUME NEW p \in Posts, PurgeFails(r, p)
          PROVE  RunAgrees(r)'
      BY <3>14, PurgeFailsDoes, RunTypes DEF RunsAgree, RunAgrees, IsNext, Active
    <3>15. ASSUME NEW p \in Posts, FinishPurge(r, p)
          PROVE  RunAgrees(r)'
      BY <3>15, FinishPurgeDoes, RunTypes DEF RunsAgree, RunAgrees, IsNext, Active
    <3>16. ASSUME NEW p \in Posts, FindPurged(r, p)
          PROVE  RunAgrees(r)'
      BY <3>16, FindPurgedDoes, RunTypes DEF RunsAgree, RunAgrees, IsNext, Active
    <3>17. ASSUME NEW p \in Posts, NextPost(r, p)
          PROVE  RunAgrees(r)'
      BY <3>17, RunAgreesAfterNextPost
    <3>18. ASSUME NEW p \in Posts, NextPage(r, p)
          PROVE  RunAgrees(r)'
      BY <3>18, NextPageDoes, RunTypes DEF RunsAgree, RunAgrees, IsNext, Active
    <3>19. CASE RemoveFiles(r)
      BY <3>19, RemoveFilesDoes, RunTypes DEF RunsAgree, RunAgrees, IsNext, Active
    <3>20. CASE StopFailing(r)
      BY <3>20, StopFailingDoes, RunTypes DEF RunsAgree, RunAgrees, IsNext, Active
    <3>21. CASE Complete(r)
      BY <3>21, CompleteDoes, RunTypes DEF RunsAgree, RunAgrees, IsNext, Active
    <3>22. CASE Fail(r)
      BY <3>22, FailDoes, RunTypes DEF RunsAgree, RunAgrees, IsNext, Active
    <3> QED
      BY <1>3, <3>1, <3>2, <3>3, <3>4, <3>5, <3>6, <3>7, <3>8, <3>9, <3>10, <3>11,
          <3>12, <3>13, <3>14, <3>15, <3>16, <3>17, <3>18, <3>19, <3>20, <3>21, <3>22
              DEF Work
  <2> QED
    BY <2>1, <2>2 DEF RunsAgree
<1>4. CASE UNCHANGED vars
  BY <1>4 DEF vars, RowsKnown, RunsAgree, RunAgrees, IsNext, TypeOK, Active, Open,
      Places, Outcomes, Posts, Start0, fixed, rows, queue, runs, history
<1> QED
  BY <1>1, <1>2, <1>3, <1>4 DEF Next
\* What changes a post unsteadies it.
LEMMA SteadyStep == TypeOK /\ RowsKnown /\ RunsAgree /\ SteadyAgrees /\ [Next]_vars
    => SteadyAgrees'
<1> SUFFICES ASSUME TypeOK, RowsKnown, RunsAgree, SteadyAgrees, [Next]_vars
             PROVE  SteadyAgrees'
  OBVIOUS
<1>1. ASSUME NEW p \in Posts, Moderate(p)
      PROVE  SteadyAgrees'
  <2> USE DEF RowsKnown, RunsAgree, RunAgrees, SteadyAgrees, TypeOK, Active, Open,
      Places, Outcomes, Posts, Start0, fixed, rows, queue, runs, history
  <2>1. CASE Upload(p)
    BY <2>1 DEF Upload, Others, Unsteady
  <2>2. CASE Delete(p)
    BY <2>2 DEF Delete, Others, Unsteady
  <2>3. CASE Restore(p)
    BY <2>3 DEF Restore, Others, Unsteady
  <2>4. CASE MarkAlone(p)
    BY <2>4 DEF MarkAlone, Others
  <2>5. CASE FinishAlone(p)
    BY <2>5 DEF FinishAlone, Others, Unsteady
  <2> HIDE DEF RowsKnown, RunsAgree, RunAgrees, SteadyAgrees, TypeOK, Active, Open,
      Places, Outcomes, Posts, Start0, fixed, rows, queue, runs, history
  <2> QED
    BY <1>1, <2>1, <2>2, <2>3, <2>4, <2>5 DEF Moderate
<1>2. ASSUME NEW b \in Batches, Request(b)
      PROVE  SteadyAgrees'
  <2> USE DEF RowsKnown, RunsAgree, RunAgrees, SteadyAgrees, TypeOK, Active, Open,
      Places, Outcomes, Posts, Start0, fixed, rows, queue, runs, history
  <2>1. CASE DeleteUploads(b)
    BY <2>1 DEF DeleteUploads, Enqueue, Deletable, Queue!Submit, Queue!BecomePending
  <2>2. CASE StartPurge(b)
    BY <2>2 DEF StartPurge, Enqueue, Deleted, Queue!Submit, Queue!BecomePending
  <2>3. CASE StartSearch(b)
    BY <2>3 DEF StartSearch, Enqueue, Deleted, Queue!Submit, Queue!BecomePending
  <2>4. CASE Finish(b)
    BY <2>4 DEF Finish, Same, Queue!Finish, Queue!Leave
  <2>5. CASE GiveUp(b)
    BY <2>5 DEF GiveUp, Same, Queue!GiveUp
  <2>6. CASE Revive(b)
    BY <2>6 DEF Revive, Same, Queue!Revive, Queue!BecomePending
  <2>7. CASE Discard(b)
    BY <2>7 DEF Discard, Same, Queue!Discard, Queue!Leave
  <2> HIDE DEF RowsKnown, RunsAgree, RunAgrees, SteadyAgrees, TypeOK, Active, Open,
      Places, Outcomes, Posts, Start0, fixed, rows, queue, runs, history
  <2>8. ASSUME NEW p \in Posts, FindsOther(b, p)
        PROVE  SteadyAgrees'
    BY <2>8, FindsOtherDoes DEF SteadyAgrees
  <2> QED
    BY <1>2, <2>1, <2>2, <2>3, <2>4, <2>5, <2>6, <2>7, <2>8 DEF Request
<1>3. ASSUME NEW r \in Runs, Work(r)
      PROVE  SteadyAgrees'
  <2> USE DEF RowsKnown, RunsAgree, RunAgrees, SteadyAgrees, TypeOK, Active, Open,
      Places, Outcomes, Posts, Start0, fixed, rows, queue, runs, history
  <2>1. ASSUME NEW b \in Batches, Begin(r, b)
        PROVE  SteadyAgrees'
    BY <2>1 DEF Begin, Same, Queue!Begin
  <2>2. CASE Return(r)
    BY <2>2 DEF Return, Same, End, Queue!Return
  <2>3. CASE Crash(r)
    BY <2>3 DEF Crash, Same, End
  <2>4. CASE StatementFails(r)
    BY <2>4 DEF StatementFails, Same, GiveBack, Go
  <2>5. CASE ReadBatch(r)
    BY <2>5 DEF ReadBatch, ToBeDone, Same, Go
  <2>6. CASE FindFinished(r)
    BY <2>6 DEF FindFinished, ToBeDone, Same, GiveBack, Go
  <2>7. CASE Start(r)
    BY <2>7 DEF Start, Go
  <2>8. CASE List(r)
    BY <2>8 DEF List, Listed, Wanted, Deletable, Deleted, Same, Go
  <2>9. CASE NoneLeft(r)
    BY <2>9 DEF NoneLeft, Listed, Wanted, Deletable, Deleted, Same, Go
  <2>10. CASE Refuse(r)
    BY <2>10 DEF Refuse, Same, Go
  <2>11. CASE DeletePage(r)
    BY <2>11 DEF DeletePage, Deletable, Unsteady, Onward, Go
  <2>12. ASSUME NEW p \in Posts, Mark(r, p)
        PROVE  SteadyAgrees'
    BY <2>12 DEF Mark, IsNext, Go
  <2>13. ASSUME NEW p \in Posts, Skip(r, p)
        PROVE  SteadyAgrees'
    BY <2>13 DEF Skip, IsNext, WentAs, Unsteady, Go
  <2>14. ASSUME NEW p \in Posts, PurgeFails(r, p)
        PROVE  SteadyAgrees'
    BY <2>14 DEF PurgeFails, IsNext, WentAs, Same, Go
  <2>15. ASSUME NEW p \in Posts, FinishPurge(r, p)
        PROVE  SteadyAgrees'
    BY <2>15 DEF FinishPurge, IsNext, WentAs, Unsteady, Go
  <2>16. ASSUME NEW p \in Posts, FindPurged(r, p)
        PROVE  SteadyAgrees'
    BY <2>16 DEF FindPurged, IsNext, WentAs, Same, Go
  <2>17. ASSUME NEW p \in Posts, NextPost(r, p)
        PROVE  SteadyAgrees'
    BY <2>17 DEF NextPost, Record, Counted, IsNext, Go
  <2>18. ASSUME NEW p \in Posts, NextPage(r, p)
        PROVE  SteadyAgrees'
    BY <2>18 DEF NextPage, Record, Counted, IsNext, Onward, Go
  <2>19. CASE RemoveFiles(r)
    BY <2>19 DEF RemoveFiles, Same, Go
  <2>20. CASE StopFailing(r)
    BY <2>20 DEF StopFailing, Same, GiveBack, Go
  <2>21. CASE Complete(r)
    BY <2>21 DEF Complete, GiveBack, Go
  <2>22. CASE Fail(r)
    BY <2>22 DEF Fail, GiveBack, Go
  <2> HIDE DEF RowsKnown, RunsAgree, RunAgrees, SteadyAgrees, TypeOK, Active, Open,
      Places, Outcomes, Posts, Start0, fixed, rows, queue, runs, history
  <2> QED
    BY <1>3, <2>1, <2>2, <2>3, <2>4, <2>5, <2>6, <2>7, <2>8, <2>9, <2>10, <2>11,
        <2>12, <2>13, <2>14, <2>15, <2>16, <2>17, <2>18, <2>19, <2>20, <2>21, <2>22
            DEF Work
<1>4. CASE UNCHANGED vars
  BY <1>4 DEF vars, RowsKnown, RunsAgree, RunAgrees, SteadyAgrees, TypeOK, Active,
      Open, Places, Outcomes, Posts, Start0, fixed, rows, queue, runs, history
<1> QED
  BY <1>1, <1>2, <1>3, <1>4 DEF Next

\* What counting the next post does, whether the page goes on or not.
LEMMA RecordDoes ==
    ASSUME TypeOK, RowsKnown, NEW r \in Runs, NEW p \in Posts, Record(r, p)
    PROVE  /\ at[r] = "counting" /\ IsNext(r, p) /\ resume'[works[r]] = p
           /\ works'[r] = works[r] /\ last'[r] = last[r]
           /\ post' = post /\ kind' = kind /\ targets' = targets /\ marker' = marker
           /\ status' = status /\ steady' = steady /\ strayed' = strayed
           /\ overlapped' = overlapped
           /\ failed'[works[r]] = (IF result[r] = "failed" THEN failed[works[r]] \cup {p}
                                                          ELSE failed[works[r]])
           /\ \A c \in Batches : c # works[r] => resume'[c] = resume[c] /\ failed'[c] = failed[c]
BY DEF Record, Counted, IsNext, TypeOK, RowsKnown, Active, fixed, history

\* Once the next post is counted, all from it up are.
LEMMA RecordMissesNone ==
    ASSUME TypeOK, RowsKnown, RunsAgree, NoneMissed, NEW r \in Runs, NEW p \in Posts,
           Record(r, p)
    PROVE  /\ Active(r) /\ steady' = steady /\ failed[works[r]] \subseteq failed'[works[r]]
           /\ \A q \in steady[works[r]] : q >= p => q \in failed'[works[r]]
           /\ \A q \in steady[works[r]] : q >= last[r] => q \in (page[r] \ {p}) \cup failed'[works[r]]
           /\ \A q \in steady[works[r]] : q >= before[r] => q \in failed'[works[r]]
           /\ \A c \in Batches : c # works[r] => resume'[c] = resume[c] /\ failed'[c] = failed[c]
           /\ resume'[works[r]] = p
<1>1. /\ at[r] = "counting" /\ IsNext(r, p) /\ steady' = steady /\ resume'[works[r]] = p
      /\ failed'[works[r]] = (IF result[r] = "failed" THEN failed[works[r]] \cup {p}
                                                     ELSE failed[works[r]])
      /\ \A c \in Batches : c # works[r] => resume'[c] = resume[c] /\ failed'[c] = failed[c]
  BY RecordDoes
<1>2. Active(r) /\ InPage(r)
  BY <1>1 DEF Active, InPage
<1>3. RunMissesNone(r) /\ RunAgrees(r)
  BY DEF NoneMissed, RunsAgree
<1>4. failed[works[r]] \subseteq failed'[works[r]]
  BY <1>1
<1>5. p \in steady[works[r]] => p \in failed'[works[r]]
  BY <1>1, <1>3 DEF RunMissesNone
<1>6. \A q \in steady[works[r]] : q >= last[r] => q \in page[r] \cup failed[works[r]]
  BY <1>2, <1>3 DEF RunMissesNone
<1>7. \A q \in steady[works[r]] : q >= last[r] => q \in (page[r] \ {p}) \cup failed'[works[r]]
  BY <1>4, <1>5, <1>6
<1>8. p >= last[r]
  BY <1>1, <1>3 DEF RunAgrees, IsNext
<1>9. \A q \in steady[works[r]] : q >= p => q \in failed'[works[r]]
  <2> SUFFICES ASSUME NEW q \in steady[works[r]], q >= p
               PROVE  q \in failed'[works[r]]
    OBVIOUS
  <2>1. q \in Nat /\ p \in Nat /\ last[r] \in Nat
    BY <1>2, RunTypes
  <2>2. q \in (page[r] \ {p}) \cup failed'[works[r]]
    BY <1>7, <1>8, <2>1
  <2>3. q \in page[r] => q = p
    BY <1>1, <2>1 DEF IsNext
  <2> QED
    BY <2>2, <2>3
<1>10. \A q \in steady[works[r]] : q >= before[r] => q \in failed'[works[r]]
  BY <1>2, <1>3, <1>4 DEF RunMissesNone, Visited
<1> QED
  BY <1>1, <1>2, <1>4, <1>7, <1>9, <1>10

LEMMA AfterNextPost ==
    ASSUME TypeOK, RowsKnown, RunsAgree, NoneMissed, NEW r \in Runs, NEW p \in Posts,
           NextPost(r, p)
    PROVE  RunMissesNone(r)'
<1>1. /\ at'[r] = "purging" /\ page'[r] = page[r] \ {p}
      /\ works'[r] = works[r] /\ last'[r] = last[r] /\ before'[r] = before[r]
  BY NextPostDoes
<1>2. /\ steady' = steady
      /\ \A q \in steady[works[r]] : q >= last[r] => q \in (page[r] \ {p}) \cup failed'[works[r]]
      /\ \A q \in steady[works[r]] : q >= before[r] => q \in failed'[works[r]]
  BY RecordMissesNone DEF NextPost
<1> QED
  BY <1>1, <1>2 DEF RunMissesNone, Visited, InPage

LEMMA AfterNextPage ==
    ASSUME TypeOK, RowsKnown, RunsAgree, NoneMissed, NEW r \in Runs, NEW p \in Posts,
           NextPage(r, p)
    PROVE  RunMissesNone(r)'
<1>1. /\ at'[r] = "listing" /\ page[r] = {p}
      /\ works'[r] = works[r] /\ before'[r] = last[r]
  BY NextPageDoes
<1>2. /\ steady' = steady
      /\ \A q \in steady[works[r]] : q >= last[r] => q \in (page[r] \ {p}) \cup failed'[works[r]]
  BY RecordMissesNone DEF NextPage
<1> QED
  BY <1>1, <1>2 DEF RunMissesNone, Visited, InPage

LEMMA ListMissesNone ==
    ASSUME TypeOK, RowsKnown, SteadyAgrees, NoneMissed, NEW r \in Runs, List(r)
    PROVE  RunMissesNone(r)'
<1>1. /\ Active(r) /\ at'[r] \in {"deleting", "purging"}
      /\ UNCHANGED <<works[r], before[r], steady, failed>>
  BY ListDoes DEF Active
<1>2. Visited(works[r], before[r])
  BY <1>1 DEF NoneMissed, RunMissesNone
<1>3. \A p \in steady[works[r]] : p >= last'[r] => p \in page'[r] \cup failed[works[r]]
  <2> SUFFICES ASSUME NEW p \in steady[works[r]], p >= last'[r], p \notin failed[works[r]]
               PROVE  p \in page'[r]
    OBVIOUS
  <2>1. p \in Posts /\ p \in Nat /\ before[r] \in Nat
    BY <1>1, RunTypes
  <2>2. p < before[r]
    BY <1>2, <2>1 DEF Visited
  <2>3. p \in Wanted(works[r])
    BY <1>1, <2>1, RunTypes DEF SteadyAgrees, Wanted, Deletable, Deleted, Active
  <2> QED
    BY <2>1, <2>2, <2>3, ListDoes
<1> QED
  BY <1>1, <1>2, <1>3 DEF RunMissesNone, Visited, InPage

\* No step lets a batch go past a post it wants.
LEMMA MissedStep == TypeOK /\ RowsKnown /\ RunsAgree /\ SteadyAgrees /\ NoneMissed /\
    [Next]_vars => NoneMissed'
<1> SUFFICES ASSUME TypeOK, RowsKnown, RunsAgree, SteadyAgrees, NoneMissed, [Next]_vars
             PROVE  NoneMissed'
  OBVIOUS
<1>1. ASSUME NEW p \in Posts, Moderate(p)
      PROVE  NoneMissed'
  <2> USE DEF RowsKnown, RunsAgree, RunAgrees, SteadyAgrees, NoneMissed,
      RunMissesNone, Visited, InPage, IsNext, TypeOK, Active, Open, Places, Outcomes,
          Posts, Start0, fixed, rows, queue, runs, history
  <2>1. CASE Upload(p)
    BY <2>1 DEF Upload, Others, Unsteady
  <2>2. CASE Delete(p)
    BY <2>2 DEF Delete, Others, Unsteady
  <2>3. CASE Restore(p)
    BY <2>3 DEF Restore, Others, Unsteady
  <2>4. CASE MarkAlone(p)
    BY <2>4 DEF MarkAlone, Others
  <2>5. CASE FinishAlone(p)
    BY <2>5 DEF FinishAlone, Others, Unsteady
  <2> HIDE DEF RowsKnown, RunsAgree, RunAgrees, SteadyAgrees, NoneMissed,
      RunMissesNone, Visited, InPage, IsNext, TypeOK, Active, Open, Places, Outcomes,
          Posts, Start0, fixed, rows, queue, runs, history
  <2> QED
    BY <1>1, <2>1, <2>2, <2>3, <2>4, <2>5 DEF Moderate
<1>2. ASSUME NEW b \in Batches, Request(b)
      PROVE  NoneMissed'
  <2> USE DEF RowsKnown, RunsAgree, RunAgrees, SteadyAgrees, NoneMissed,
      RunMissesNone, Visited, InPage, IsNext, TypeOK, Active, Open, Places, Outcomes,
          Posts, Start0, fixed, rows, queue, runs, history
  <2>1. CASE DeleteUploads(b)
    BY SMTT(30), <2>1 DEF DeleteUploads, Enqueue, Deletable, Queue!Submit, Queue!BecomePending
  <2>2. CASE StartPurge(b)
    BY SMTT(30), <2>2 DEF StartPurge, Enqueue, Deleted, Queue!Submit, Queue!BecomePending
  <2>3. CASE StartSearch(b)
    BY SMTT(30), <2>3 DEF StartSearch, Enqueue, Deleted, Queue!Submit, Queue!BecomePending
  <2>4. CASE Finish(b)
    BY <2>4 DEF Finish, Same, Queue!Finish, Queue!Leave
  <2>5. CASE GiveUp(b)
    BY <2>5 DEF GiveUp, Same, Queue!GiveUp
  <2>6. CASE Revive(b)
    BY <2>6 DEF Revive, Same, Queue!Revive, Queue!BecomePending
  <2>7. CASE Discard(b)
    BY <2>7 DEF Discard, Same, Queue!Discard, Queue!Leave
  <2> HIDE DEF RowsKnown, RunsAgree, RunAgrees, SteadyAgrees, NoneMissed,
      RunMissesNone, Visited, InPage, IsNext, TypeOK, Active, Open, Places, Outcomes,
          Posts, Start0, fixed, rows, queue, runs, history
  <2>8. ASSUME NEW p \in Posts, FindsOther(b, p)
        PROVE  NoneMissed'
    <3>1. \A c \in Batches : Visited(c, resume[c])'
      BY <2>8, FindsOtherDoes DEF NoneMissed, Visited
    <3>2. ASSUME NEW r \in Runs
          PROVE  RunMissesNone(r)'
      <4>1. RunMissesNone(r) /\ (Active(r) => works[r] \in Batches)
        BY DEF NoneMissed, RowsKnown
      <4>2. /\ UNCHANGED <<failed, at, works, before, page, last, result>>
            /\ Active(r) => steady'[works[r]] \subseteq steady[works[r]]
        BY <2>8, <4>1, FindsOtherDoes
      <4> QED
        BY <4>1, <4>2 DEF RunMissesNone, Visited, InPage, IsNext, Active
    <3> QED
      BY <3>1, <3>2 DEF NoneMissed
  <2> QED
    BY <1>2, <2>1, <2>2, <2>3, <2>4, <2>5, <2>6, <2>7, <2>8 DEF Request
<1>3. ASSUME NEW r \in Runs, Work(r)
      PROVE  NoneMissed'
  <2>1. \A s \in Runs : s # r => RunMissesNone(s)'
    BY <1>3, WorkFrames, OthersMissNone
  <2>2. RunMissesNone(r)'
    <3>1. ASSUME NEW b \in Batches, Begin(r, b)
          PROVE  RunMissesNone(r)'
      BY <3>1, BeginDoes, RunTypes DEF NoneMissed, RunMissesNone, Visited, RunsAgree,
          RunAgrees, SteadyAgrees, Wanted, Deletable, Deleted, InPage, IsNext,
              Active, Start0, Posts
    <3>2. CASE Return(r)
      BY <3>2, ReturnDoes, RunTypes DEF NoneMissed, RunMissesNone, Visited,
          RunsAgree, RunAgrees, SteadyAgrees, Wanted, Deletable, Deleted, InPage,
              IsNext, Active, Start0, Posts
    <3>3. CASE Crash(r)
      BY <3>3, CrashDoes, RunTypes DEF NoneMissed, RunMissesNone, Visited, RunsAgree,
          RunAgrees, SteadyAgrees, Wanted, Deletable, Deleted, InPage, IsNext,
              Active, Start0, Posts
    <3>4. CASE StatementFails(r)
      BY <3>4, StatementFailsDoes, RunTypes DEF NoneMissed, RunMissesNone, Visited,
          RunsAgree, RunAgrees, SteadyAgrees, Wanted, Deletable, Deleted, InPage,
              IsNext, Active, Start0, Posts
    <3>5. CASE ReadBatch(r)
      BY <3>5, ReadBatchDoes, RunTypes DEF NoneMissed, RunMissesNone, Visited,
          RunsAgree, RunAgrees, SteadyAgrees, Wanted, Deletable, Deleted, InPage,
              IsNext, Active, Start0, Posts
    <3>6. CASE FindFinished(r)
      BY <3>6, FindFinishedDoes, RunTypes DEF NoneMissed, RunMissesNone, Visited,
          RunsAgree, RunAgrees, SteadyAgrees, Wanted, Deletable, Deleted, InPage,
              IsNext, Active, Start0, Posts
    <3>7. CASE Start(r)
      BY <3>7, StartDoes, RunTypes DEF NoneMissed, RunMissesNone, Visited, RunsAgree,
          RunAgrees, SteadyAgrees, Wanted, Deletable, Deleted, InPage, IsNext,
              Active, Start0, Posts
    <3>8. CASE List(r)
      BY <3>8, ListMissesNone
    <3>9. CASE NoneLeft(r)
      BY <3>9, NoneLeftDoes, RunTypes DEF NoneMissed, RunMissesNone, Visited,
          RunsAgree, RunAgrees, SteadyAgrees, Wanted, Deletable, Deleted, InPage,
              IsNext, Active, Start0, Posts
    <3>10. CASE Refuse(r)
      BY <3>10, RefuseDoes, RunTypes DEF NoneMissed, RunMissesNone, Visited,
          RunsAgree, RunAgrees, SteadyAgrees, Wanted, Deletable, Deleted, InPage,
              IsNext, Active, Start0, Posts
    <3>11. CASE DeletePage(r)
      BY <3>11, DeletePageDoes, RunTypes DEF NoneMissed, RunMissesNone, Visited,
          RunsAgree, RunAgrees, SteadyAgrees, Wanted, Deletable, Deleted, InPage,
              IsNext, Active, Start0, Posts
    <3>12. ASSUME NEW p \in Posts, Mark(r, p)
          PROVE  RunMissesNone(r)'
      BY <3>12, MarkDoes, RunTypes DEF NoneMissed, RunMissesNone, Visited, RunsAgree,
          RunAgrees, SteadyAgrees, Wanted, Deletable, Deleted, InPage, IsNext,
              Active, Start0, Posts
    <3>13. ASSUME NEW p \in Posts, Skip(r, p)
          PROVE  RunMissesNone(r)'
      BY <3>13, SkipDoes, RunTypes DEF NoneMissed, RunMissesNone, Visited, RunsAgree,
          RunAgrees, SteadyAgrees, Wanted, Deletable, Deleted, InPage, IsNext,
              Active, Start0, Posts
    <3>14. ASSUME NEW p \in Posts, PurgeFails(r, p)
          PROVE  RunMissesNone(r)'
      BY <3>14, PurgeFailsDoes, RunTypes DEF NoneMissed, RunMissesNone, Visited,
          RunsAgree, RunAgrees, SteadyAgrees, Wanted, Deletable, Deleted, InPage,
              IsNext, Active, Start0, Posts
    <3>15. ASSUME NEW p \in Posts, FinishPurge(r, p)
          PROVE  RunMissesNone(r)'
      BY <3>15, FinishPurgeDoes, RunTypes DEF NoneMissed, RunMissesNone, Visited,
          RunsAgree, RunAgrees, SteadyAgrees, Wanted, Deletable, Deleted, InPage,
              IsNext, Active, Start0, Posts
    <3>16. ASSUME NEW p \in Posts, FindPurged(r, p)
          PROVE  RunMissesNone(r)'
      BY <3>16, FindPurgedDoes, RunTypes DEF NoneMissed, RunMissesNone, Visited,
          RunsAgree, RunAgrees, SteadyAgrees, Wanted, Deletable, Deleted, InPage,
              IsNext, Active, Start0, Posts
    <3>17. ASSUME NEW p \in Posts, NextPost(r, p)
          PROVE  RunMissesNone(r)'
      BY <3>17, AfterNextPost
    <3>18. ASSUME NEW p \in Posts, NextPage(r, p)
          PROVE  RunMissesNone(r)'
      BY <3>18, AfterNextPage
    <3>19. CASE RemoveFiles(r)
      BY <3>19, RemoveFilesDoes, RunTypes DEF NoneMissed, RunMissesNone, Visited,
          RunsAgree, RunAgrees, SteadyAgrees, Wanted, Deletable, Deleted, InPage,
              IsNext, Active, Start0, Posts
    <3>20. CASE StopFailing(r)
      BY <3>20, StopFailingDoes, RunTypes DEF NoneMissed, RunMissesNone, Visited,
          RunsAgree, RunAgrees, SteadyAgrees, Wanted, Deletable, Deleted, InPage,
              IsNext, Active, Start0, Posts
    <3>21. CASE Complete(r)
      BY <3>21, CompleteDoes, RunTypes DEF NoneMissed, RunMissesNone, Visited,
          RunsAgree, RunAgrees, SteadyAgrees, Wanted, Deletable, Deleted, InPage,
              IsNext, Active, Start0, Posts
    <3>22. CASE Fail(r)
      BY <3>22, FailDoes, RunTypes DEF NoneMissed, RunMissesNone, Visited, RunsAgree,
          RunAgrees, SteadyAgrees, Wanted, Deletable, Deleted, InPage, IsNext,
              Active, Start0, Posts
    <3> QED
      BY <1>3, <3>1, <3>2, <3>3, <3>4, <3>5, <3>6, <3>7, <3>8, <3>9, <3>10, <3>11,
          <3>12, <3>13, <3>14, <3>15, <3>16, <3>17, <3>18, <3>19, <3>20, <3>21, <3>22
              DEF Work
  <2>3. \A c \in Batches : Visited(c, resume[c])'
    <3>1. ASSUME NEW b \in Batches, Begin(r, b)
          PROVE  \A c \in Batches : Visited(c, resume[c])'
      BY <3>1, BeginDoes, RunTypes DEF NoneMissed, RunMissesNone, Visited, RunsAgree,
          RunAgrees, SteadyAgrees, Wanted, Deletable, Deleted, InPage, IsNext,
              Active, Start0, Posts
    <3>2. CASE Return(r)
      BY <3>2, ReturnDoes, RunTypes DEF NoneMissed, RunMissesNone, Visited,
          RunsAgree, RunAgrees, SteadyAgrees, Wanted, Deletable, Deleted, InPage,
              IsNext, Active, Start0, Posts
    <3>3. CASE Crash(r)
      BY <3>3, CrashDoes, RunTypes DEF NoneMissed, RunMissesNone, Visited, RunsAgree,
          RunAgrees, SteadyAgrees, Wanted, Deletable, Deleted, InPage, IsNext,
              Active, Start0, Posts
    <3>4. CASE StatementFails(r)
      BY <3>4, StatementFailsDoes, RunTypes DEF NoneMissed, RunMissesNone, Visited,
          RunsAgree, RunAgrees, SteadyAgrees, Wanted, Deletable, Deleted, InPage,
              IsNext, Active, Start0, Posts
    <3>5. CASE ReadBatch(r)
      BY <3>5, ReadBatchDoes, RunTypes DEF NoneMissed, RunMissesNone, Visited,
          RunsAgree, RunAgrees, SteadyAgrees, Wanted, Deletable, Deleted, InPage,
              IsNext, Active, Start0, Posts
    <3>6. CASE FindFinished(r)
      BY <3>6, FindFinishedDoes, RunTypes DEF NoneMissed, RunMissesNone, Visited,
          RunsAgree, RunAgrees, SteadyAgrees, Wanted, Deletable, Deleted, InPage,
              IsNext, Active, Start0, Posts
    <3>7. CASE Start(r)
      BY <3>7, StartDoes, RunTypes DEF NoneMissed, RunMissesNone, Visited, RunsAgree,
          RunAgrees, SteadyAgrees, Wanted, Deletable, Deleted, InPage, IsNext,
              Active, Start0, Posts
    <3>8. CASE List(r)
      BY <3>8, ListDoes, RunTypes DEF NoneMissed, RunMissesNone, Visited, RunsAgree,
          RunAgrees, SteadyAgrees, Wanted, Deletable, Deleted, InPage, IsNext,
              Active, Start0, Posts
    <3>9. CASE NoneLeft(r)
      BY <3>9, NoneLeftDoes, RunTypes DEF NoneMissed, RunMissesNone, Visited,
          RunsAgree, RunAgrees, SteadyAgrees, Wanted, Deletable, Deleted, InPage,
              IsNext, Active, Start0, Posts
    <3>10. CASE Refuse(r)
      BY <3>10, RefuseDoes, RunTypes DEF NoneMissed, RunMissesNone, Visited,
          RunsAgree, RunAgrees, SteadyAgrees, Wanted, Deletable, Deleted, InPage,
              IsNext, Active, Start0, Posts
    <3>11. CASE DeletePage(r)
      BY <3>11, DeletePageDoes, RunTypes DEF NoneMissed, RunMissesNone, Visited,
          RunsAgree, RunAgrees, SteadyAgrees, Wanted, Deletable, Deleted, InPage,
              IsNext, Active, Start0, Posts
    <3>12. ASSUME NEW p \in Posts, Mark(r, p)
          PROVE  \A c \in Batches : Visited(c, resume[c])'
      BY <3>12, MarkDoes, RunTypes DEF NoneMissed, RunMissesNone, Visited, RunsAgree,
          RunAgrees, SteadyAgrees, Wanted, Deletable, Deleted, InPage, IsNext,
              Active, Start0, Posts
    <3>13. ASSUME NEW p \in Posts, Skip(r, p)
          PROVE  \A c \in Batches : Visited(c, resume[c])'
      BY <3>13, SkipDoes, RunTypes DEF NoneMissed, RunMissesNone, Visited, RunsAgree,
          RunAgrees, SteadyAgrees, Wanted, Deletable, Deleted, InPage, IsNext,
              Active, Start0, Posts
    <3>14. ASSUME NEW p \in Posts, PurgeFails(r, p)
          PROVE  \A c \in Batches : Visited(c, resume[c])'
      BY <3>14, PurgeFailsDoes, RunTypes DEF NoneMissed, RunMissesNone, Visited,
          RunsAgree, RunAgrees, SteadyAgrees, Wanted, Deletable, Deleted, InPage,
              IsNext, Active, Start0, Posts
    <3>15. ASSUME NEW p \in Posts, FinishPurge(r, p)
          PROVE  \A c \in Batches : Visited(c, resume[c])'
      BY <3>15, FinishPurgeDoes, RunTypes DEF NoneMissed, RunMissesNone, Visited,
          RunsAgree, RunAgrees, SteadyAgrees, Wanted, Deletable, Deleted, InPage,
              IsNext, Active, Start0, Posts
    <3>16. ASSUME NEW p \in Posts, FindPurged(r, p)
          PROVE  \A c \in Batches : Visited(c, resume[c])'
      BY <3>16, FindPurgedDoes, RunTypes DEF NoneMissed, RunMissesNone, Visited,
          RunsAgree, RunAgrees, SteadyAgrees, Wanted, Deletable, Deleted, InPage,
              IsNext, Active, Start0, Posts
    <3>17. ASSUME NEW p \in Posts, NextPost(r, p)
          PROVE  \A c \in Batches : Visited(c, resume[c])'
      BY <3>17, RecordMissesNone DEF NextPost, NextPage, NoneMissed, Visited
    <3>18. ASSUME NEW p \in Posts, NextPage(r, p)
          PROVE  \A c \in Batches : Visited(c, resume[c])'
      BY <3>18, RecordMissesNone DEF NextPost, NextPage, NoneMissed, Visited
    <3>19. CASE RemoveFiles(r)
      BY <3>19, RemoveFilesDoes, RunTypes DEF NoneMissed, RunMissesNone, Visited,
          RunsAgree, RunAgrees, SteadyAgrees, Wanted, Deletable, Deleted, InPage,
              IsNext, Active, Start0, Posts
    <3>20. CASE StopFailing(r)
      BY <3>20, StopFailingDoes, RunTypes DEF NoneMissed, RunMissesNone, Visited,
          RunsAgree, RunAgrees, SteadyAgrees, Wanted, Deletable, Deleted, InPage,
              IsNext, Active, Start0, Posts
    <3>21. CASE Complete(r)
      BY <3>21, CompleteDoes, RunTypes DEF NoneMissed, RunMissesNone, Visited,
          RunsAgree, RunAgrees, SteadyAgrees, Wanted, Deletable, Deleted, InPage,
              IsNext, Active, Start0, Posts
    <3>22. CASE Fail(r)
      BY <3>22, FailDoes, RunTypes DEF NoneMissed, RunMissesNone, Visited, RunsAgree,
          RunAgrees, SteadyAgrees, Wanted, Deletable, Deleted, InPage, IsNext,
              Active, Start0, Posts
    <3> QED
      BY <1>3, <3>1, <3>2, <3>3, <3>4, <3>5, <3>6, <3>7, <3>8, <3>9, <3>10, <3>11,
          <3>12, <3>13, <3>14, <3>15, <3>16, <3>17, <3>18, <3>19, <3>20, <3>21, <3>22
              DEF Work
  <2> QED
    BY <2>1, <2>2, <2>3 DEF NoneMissed
<1>4. CASE UNCHANGED vars
  BY <1>4 DEF vars, RowsKnown, RunsAgree, RunAgrees, SteadyAgrees, NoneMissed,
      RunMissesNone, Visited, InPage, IsNext, TypeOK, Active, Open, Places, Outcomes,
          Posts, Start0, fixed, rows, queue, runs, history
<1> QED
  BY <1>1, <1>2, <1>3, <1>4 DEF Next
\* A batch says it is done when it is.
LEMMA DoneStep == TypeOK /\ RowsKnown /\ NoneMissed /\ DoneMissesNone /\ [Next]_vars
    => DoneMissesNone'
<1> SUFFICES ASSUME TypeOK, RowsKnown, NoneMissed, DoneMissesNone, [Next]_vars
             PROVE  DoneMissesNone'
  OBVIOUS
<1>1. ASSUME NEW p \in Posts, Moderate(p)
      PROVE  DoneMissesNone'
  <2> USE DEF RowsKnown, NoneMissed, RunMissesNone, DoneMissesNone, TypeOK, Active,
      Open, Places, Outcomes, Posts, Start0, fixed, rows, queue, runs, history
  <2>1. CASE Upload(p)
    BY <2>1 DEF Upload, Others, Unsteady
  <2>2. CASE Delete(p)
    BY <2>2 DEF Delete, Others, Unsteady
  <2>3. CASE Restore(p)
    BY <2>3 DEF Restore, Others, Unsteady
  <2>4. CASE MarkAlone(p)
    BY <2>4 DEF MarkAlone, Others
  <2>5. CASE FinishAlone(p)
    BY <2>5 DEF FinishAlone, Others, Unsteady
  <2> HIDE DEF RowsKnown, NoneMissed, RunMissesNone, DoneMissesNone, TypeOK, Active,
      Open, Places, Outcomes, Posts, Start0, fixed, rows, queue, runs, history
  <2> QED
    BY <1>1, <2>1, <2>2, <2>3, <2>4, <2>5 DEF Moderate
<1>2. ASSUME NEW b \in Batches, Request(b)
      PROVE  DoneMissesNone'
  <2> USE DEF RowsKnown, NoneMissed, RunMissesNone, DoneMissesNone, TypeOK, Active,
      Open, Places, Outcomes, Posts, Start0, fixed, rows, queue, runs, history
  <2>1. CASE DeleteUploads(b)
    BY <2>1 DEF DeleteUploads, Enqueue, Deletable, Queue!Submit, Queue!BecomePending
  <2>2. CASE StartPurge(b)
    BY <2>2 DEF StartPurge, Enqueue, Deleted, Queue!Submit, Queue!BecomePending
  <2>3. CASE StartSearch(b)
    BY <2>3 DEF StartSearch, Enqueue, Deleted, Queue!Submit, Queue!BecomePending
  <2>4. CASE Finish(b)
    BY <2>4 DEF Finish, Same, Queue!Finish, Queue!Leave
  <2>5. CASE GiveUp(b)
    BY <2>5 DEF GiveUp, Same, Queue!GiveUp
  <2>6. CASE Revive(b)
    BY <2>6 DEF Revive, Same, Queue!Revive, Queue!BecomePending
  <2>7. CASE Discard(b)
    BY <2>7 DEF Discard, Same, Queue!Discard, Queue!Leave
  <2> HIDE DEF RowsKnown, NoneMissed, RunMissesNone, DoneMissesNone, TypeOK, Active,
      Open, Places, Outcomes, Posts, Start0, fixed, rows, queue, runs, history
  <2>8. ASSUME NEW p \in Posts, FindsOther(b, p)
        PROVE  DoneMissesNone'
    BY <2>8, FindsOtherDoes DEF DoneMissesNone
  <2> QED
    BY <1>2, <2>1, <2>2, <2>3, <2>4, <2>5, <2>6, <2>7, <2>8 DEF Request
<1>3. ASSUME NEW r \in Runs, Work(r)
      PROVE  DoneMissesNone'
  <2> USE DEF RowsKnown, NoneMissed, RunMissesNone, DoneMissesNone, TypeOK, Active,
      Open, Places, Outcomes, Posts, Start0, fixed, rows, queue, runs, history
  <2>1. ASSUME NEW b \in Batches, Begin(r, b)
        PROVE  DoneMissesNone'
    BY <2>1 DEF Begin, Same, Queue!Begin
  <2>2. CASE Return(r)
    BY <2>2 DEF Return, Same, End, Queue!Return
  <2>3. CASE Crash(r)
    BY <2>3 DEF Crash, Same, End
  <2>4. CASE StatementFails(r)
    BY <2>4 DEF StatementFails, Same, GiveBack, Go
  <2>5. CASE ReadBatch(r)
    BY <2>5 DEF ReadBatch, ToBeDone, Same, Go
  <2>6. CASE FindFinished(r)
    BY <2>6 DEF FindFinished, ToBeDone, Same, GiveBack, Go
  <2>7. CASE Start(r)
    BY <2>7 DEF Start, Go
  <2>8. CASE List(r)
    BY <2>8 DEF List, Listed, Wanted, Deletable, Deleted, Same, Go
  <2>9. CASE NoneLeft(r)
    BY <2>9 DEF NoneLeft, Listed, Wanted, Deletable, Deleted, Same, Go
  <2>10. CASE Refuse(r)
    BY <2>10 DEF Refuse, Same, Go
  <2>11. CASE DeletePage(r)
    BY <2>11 DEF DeletePage, Deletable, Unsteady, Onward, Go
  <2>12. ASSUME NEW p \in Posts, Mark(r, p)
        PROVE  DoneMissesNone'
    BY <2>12 DEF Mark, IsNext, Go
  <2>13. ASSUME NEW p \in Posts, Skip(r, p)
        PROVE  DoneMissesNone'
    BY <2>13 DEF Skip, IsNext, WentAs, Unsteady, Go
  <2>14. ASSUME NEW p \in Posts, PurgeFails(r, p)
        PROVE  DoneMissesNone'
    BY <2>14 DEF PurgeFails, IsNext, WentAs, Same, Go
  <2>15. ASSUME NEW p \in Posts, FinishPurge(r, p)
        PROVE  DoneMissesNone'
    BY <2>15 DEF FinishPurge, IsNext, WentAs, Unsteady, Go
  <2>16. ASSUME NEW p \in Posts, FindPurged(r, p)
        PROVE  DoneMissesNone'
    BY <2>16 DEF FindPurged, IsNext, WentAs, Same, Go
  <2>17. ASSUME NEW p \in Posts, NextPost(r, p)
        PROVE  DoneMissesNone'
    BY <2>17 DEF NextPost, Record, Counted, IsNext, Go
  <2>18. ASSUME NEW p \in Posts, NextPage(r, p)
        PROVE  DoneMissesNone'
    BY <2>18 DEF NextPage, Record, Counted, IsNext, Onward, Go
  <2>19. CASE RemoveFiles(r)
    BY <2>19 DEF RemoveFiles, Same, Go
  <2>20. CASE StopFailing(r)
    BY <2>20 DEF StopFailing, Same, GiveBack, Go
  <2>21. CASE Complete(r)
    BY <2>21 DEF Complete, GiveBack, Go
  <2>22. CASE Fail(r)
    BY <2>22 DEF Fail, GiveBack, Go
  <2> HIDE DEF RowsKnown, NoneMissed, RunMissesNone, DoneMissesNone, TypeOK, Active,
      Open, Places, Outcomes, Posts, Start0, fixed, rows, queue, runs, history
  <2> QED
    BY <1>3, <2>1, <2>2, <2>3, <2>4, <2>5, <2>6, <2>7, <2>8, <2>9, <2>10, <2>11,
        <2>12, <2>13, <2>14, <2>15, <2>16, <2>17, <2>18, <2>19, <2>20, <2>21, <2>22
            DEF Work
<1>4. CASE UNCHANGED vars
  BY <1>4 DEF vars, RowsKnown, NoneMissed, RunMissesNone, DoneMissesNone, TypeOK,
      Active, Open, Places, Outcomes, Posts, Start0, fixed, rows, queue, runs, history
<1> QED
  BY <1>1, <1>2, <1>3, <1>4 DEF Next
\* Every step notes the overlaps.
LEMMA OverlapsStep == TypeOK /\ RowsKnown /\ OverlapsNoted /\ [Next]_vars =>
    OverlapsNoted'
<1> SUFFICES ASSUME TypeOK, RowsKnown, OverlapsNoted, [Next]_vars
             PROVE  OverlapsNoted'
  OBVIOUS
<1>1. ASSUME NEW p \in Posts, Moderate(p)
      PROVE  OverlapsNoted'
  <2> USE DEF RowsKnown, OverlapsNoted, TypeOK, Active, Open, Places, Outcomes,
      Posts, Start0, fixed, rows, queue, runs, history
  <2>1. CASE Upload(p)
    BY <2>1 DEF Upload, Others, Unsteady
  <2>2. CASE Delete(p)
    BY <2>2 DEF Delete, Others, Unsteady
  <2>3. CASE Restore(p)
    BY <2>3 DEF Restore, Others, Unsteady
  <2>4. CASE MarkAlone(p)
    BY <2>4 DEF MarkAlone, Others
  <2>5. CASE FinishAlone(p)
    BY <2>5 DEF FinishAlone, Others, Unsteady
  <2> HIDE DEF RowsKnown, OverlapsNoted, TypeOK, Active, Open, Places, Outcomes,
      Posts, Start0, fixed, rows, queue, runs, history
  <2> QED
    BY <1>1, <2>1, <2>2, <2>3, <2>4, <2>5 DEF Moderate
<1>2. ASSUME NEW b \in Batches, Request(b)
      PROVE  OverlapsNoted'
  <2> USE DEF RowsKnown, OverlapsNoted, TypeOK, Active, Open, Places, Outcomes,
      Posts, Start0, fixed, rows, queue, runs, history
  <2>1. CASE DeleteUploads(b)
    BY <2>1 DEF DeleteUploads, Enqueue, Deletable, Queue!Submit, Queue!BecomePending
  <2>2. CASE StartPurge(b)
    BY <2>2 DEF StartPurge, Enqueue, Deleted, Queue!Submit, Queue!BecomePending
  <2>3. CASE StartSearch(b)
    BY <2>3 DEF StartSearch, Enqueue, Deleted, Queue!Submit, Queue!BecomePending
  <2>4. CASE Finish(b)
    BY <2>4 DEF Finish, Same, Queue!Finish, Queue!Leave
  <2>5. CASE GiveUp(b)
    BY <2>5 DEF GiveUp, Same, Queue!GiveUp
  <2>6. CASE Revive(b)
    BY <2>6 DEF Revive, Same, Queue!Revive, Queue!BecomePending
  <2>7. CASE Discard(b)
    BY <2>7 DEF Discard, Same, Queue!Discard, Queue!Leave
  <2> HIDE DEF RowsKnown, OverlapsNoted, TypeOK, Active, Open, Places, Outcomes,
      Posts, Start0, fixed, rows, queue, runs, history
  <2>8. ASSUME NEW p \in Posts, FindsOther(b, p)
        PROVE  OverlapsNoted'
    BY <2>8, FindsOtherDoes DEF OverlapsNoted, Active
  <2> QED
    BY <1>2, <2>1, <2>2, <2>3, <2>4, <2>5, <2>6, <2>7, <2>8 DEF Request
<1>3. ASSUME NEW r \in Runs, Work(r)
      PROVE  OverlapsNoted'
  <2>1. ASSUME NEW b \in Batches, Begin(r, b)
        PROVE  OverlapsNoted'
    <3>1. Frame(r)
      BY <1>3, WorkFrames
    <3>2. \A s \in Runs : s # r /\ Active(s)' => Active(s) /\ works'[s] = works[s]
      BY <3>1, FramesOfRuns DEF Active
    <3>3. \A s \in Runs : Active(s) /\ works[s] = b => b \in overlapped'
      BY <2>1, BeginDoes
    <3>4. works'[r] = b /\ overlapped \subseteq overlapped'
      BY <2>1, BeginDoes
    <3> QED
      BY <3>2, <3>3, <3>4 DEF OverlapsNoted
  <2>2. CASE Return(r)
    BY <1>3, <2>2, ReturnDoes, WorkFrames, NoNewOverlap DEF Active
  <2>3. CASE Crash(r)
    BY <1>3, <2>3, CrashDoes, WorkFrames, NoNewOverlap DEF Active
  <2>4. CASE StatementFails(r)
    BY <1>3, <2>4, StatementFailsDoes, WorkFrames, NoNewOverlap DEF Active
  <2>5. CASE ReadBatch(r)
    BY <1>3, <2>5, ReadBatchDoes, WorkFrames, NoNewOverlap DEF Active
  <2>6. CASE FindFinished(r)
    BY <1>3, <2>6, FindFinishedDoes, WorkFrames, NoNewOverlap DEF Active
  <2>7. CASE Start(r)
    BY <1>3, <2>7, StartDoes, WorkFrames, NoNewOverlap DEF Active
  <2>8. CASE List(r)
    BY <1>3, <2>8, ListDoes, WorkFrames, NoNewOverlap DEF Active
  <2>9. CASE NoneLeft(r)
    BY <1>3, <2>9, NoneLeftDoes, WorkFrames, NoNewOverlap DEF Active
  <2>10. CASE Refuse(r)
    BY <1>3, <2>10, RefuseDoes, WorkFrames, NoNewOverlap DEF Active
  <2>11. CASE DeletePage(r)
    BY <1>3, <2>11, DeletePageDoes, WorkFrames, NoNewOverlap DEF Active
  <2>12. ASSUME NEW p \in Posts, Mark(r, p)
        PROVE  OverlapsNoted'
    BY <1>3, <2>12, MarkDoes, WorkFrames, NoNewOverlap DEF Active
  <2>13. ASSUME NEW p \in Posts, Skip(r, p)
        PROVE  OverlapsNoted'
    BY <1>3, <2>13, SkipDoes, WorkFrames, NoNewOverlap DEF Active
  <2>14. ASSUME NEW p \in Posts, PurgeFails(r, p)
        PROVE  OverlapsNoted'
    BY <1>3, <2>14, PurgeFailsDoes, WorkFrames, NoNewOverlap DEF Active
  <2>15. ASSUME NEW p \in Posts, FinishPurge(r, p)
        PROVE  OverlapsNoted'
    BY <1>3, <2>15, FinishPurgeDoes, WorkFrames, NoNewOverlap DEF Active
  <2>16. ASSUME NEW p \in Posts, FindPurged(r, p)
        PROVE  OverlapsNoted'
    BY <1>3, <2>16, FindPurgedDoes, WorkFrames, NoNewOverlap DEF Active
  <2>17. ASSUME NEW p \in Posts, NextPost(r, p)
        PROVE  OverlapsNoted'
    BY <1>3, <2>17, NextPostDoes, WorkFrames, NoNewOverlap DEF Active
  <2>18. ASSUME NEW p \in Posts, NextPage(r, p)
        PROVE  OverlapsNoted'
    BY <1>3, <2>18, NextPageDoes, WorkFrames, NoNewOverlap DEF Active
  <2>19. CASE RemoveFiles(r)
    BY <1>3, <2>19, RemoveFilesDoes, WorkFrames, NoNewOverlap DEF Active
  <2>20. CASE StopFailing(r)
    BY <1>3, <2>20, StopFailingDoes, WorkFrames, NoNewOverlap DEF Active
  <2>21. CASE Complete(r)
    BY <1>3, <2>21, CompleteDoes, WorkFrames, NoNewOverlap DEF Active
  <2>22. CASE Fail(r)
    BY <1>3, <2>22, FailDoes, WorkFrames, NoNewOverlap DEF Active
  <2> QED
    BY <1>3, <2>1, <2>2, <2>3, <2>4, <2>5, <2>6, <2>7, <2>8, <2>9, <2>10, <2>11,
        <2>12, <2>13, <2>14, <2>15, <2>16, <2>17, <2>18, <2>19, <2>20, <2>21, <2>22
            DEF Work
<1>4. CASE UNCHANGED vars
  BY <1>4 DEF vars, RowsKnown, OverlapsNoted, TypeOK, Active, Open, Places, Outcomes,
      Posts, Start0, fixed, rows, queue, runs, history
<1> QED
  BY <1>1, <1>2, <1>3, <1>4 DEF Next

\* Once a run alone has counted the next post, its page is what there is below it.
LEMMA AloneAfterRecord ==
    ASSUME TypeOK, RowsKnown, RunsAgree, AloneAgrees, NEW r \in Runs, NEW p \in Posts,
           NextPost(r, p) \/ NextPage(r, p)
    PROVE  RunAlone(r)'
<1> SUFFICES ASSUME Under(r)', works'[r] \notin overlapped'
             PROVE  RunAlone(r)'
  BY DEF RunAlone
<1>1. /\ at[r] = "counting" /\ Under(r) /\ resume'[works[r]] = p
      /\ UNCHANGED <<works[r], last[r], status, post, strayed, marker, overlapped>>
      /\ \A q \in page[r] : q <= p
      /\ p \in page[r]
  BY RecordDoes DEF NextPost, NextPage, Under, Active, IsNext
<1>2. Open(works[r]) /\ p < resume[works[r]]
  BY <1>1 DEF AloneAgrees, RunAlone, InPage
<1>3. \A q \in Posts : /\ post[q] = "purging" /\ marker[q] = works[r]
                     /\ last[r] <= q /\ q < resume[works[r]]
                    => q \in page[r] \cup strayed[works[r]]
  BY <1>1 DEF AloneAgrees, RunAlone
<1>4. /\ last[r] \in page[r] /\ \A q \in page[r] : q >= last[r]
      /\ page[r] \subseteq Nat /\ last[r] \in Nat /\ resume[works[r]] \in Nat
      /\ Posts \subseteq Nat /\ p \in Nat
  BY <1>1, RunTypes DEF RunsAgree, RunAgrees, Under
<1>5. CASE NextPost(r, p)
  <2>1. at'[r] = "purging" /\ page'[r] = page[r] \ {p}
    BY <1>5, NextPostDoes
  <2>2. \A q \in page'[r] : q < p
    BY <1>1, <1>4, <2>1
  <2>3. \A q \in Posts : /\ post[q] = "purging" /\ marker[q] = works[r]
                       /\ last[r] <= q /\ q < p
                      => q \in page'[r] \cup strayed[works[r]]
    <3> SUFFICES ASSUME NEW q \in Posts, post[q] = "purging", marker[q] = works[r],
                        last[r] <= q, q < p
                 PROVE  q \in (page[r] \ {p}) \cup strayed[works[r]]
      BY <2>1
    <3>1. q \in Nat /\ q < resume[works[r]] /\ q # p
      BY <1>2, <1>4
    <3> QED
      BY <1>3, <3>1
  <2> QED
    BY <1>1, <1>2, <2>1, <2>2, <2>3 DEF RunAlone, Open
<1>6. CASE NextPage(r, p)
  <2>1. at'[r] = "listing" /\ page'[r] = {} /\ before'[r] = last[r] /\ page[r] = {p}
    BY <1>6, NextPageDoes
  <2>2. last[r] = p
    BY <1>4, <2>1
  <2> QED
    BY <1>1, <1>2, <2>1, <2>2 DEF RunAlone, Open, InPage
<1> QED
  BY <1>5, <1>6

\* Once a run alone has purged the next post, its batch marks that one no more.
LEMMA AloneAfterPurge ==
    ASSUME TypeOK, RowsKnown, RunsAgree, AloneAgrees, NEW r \in Runs, NEW p \in Posts,
           FinishPurge(r, p)
    PROVE  RunAlone(r)'
<1> SUFFICES ASSUME works'[r] \notin overlapped'
             PROVE  RunAlone(r)'
  BY DEF RunAlone
<1>1. /\ at[r] = "emptied" /\ at'[r] = "counting" /\ Under(r)
      /\ UNCHANGED <<works[r], page[r], last[r], status, resume, strayed, marker, overlapped>>
      /\ p \in page[r] /\ \A q \in page[r] : q <= p
      /\ post'[p] = "gone" /\ \A q \in Posts : q # p => post'[q] = post[q]
  BY FinishPurgeDoes DEF Under, Active
<1>2. /\ Open(works[r]) /\ \A q \in page[r] : q < resume[works[r]]
      /\ \A q \in Posts : /\ post[q] = "purging" /\ marker[q] = works[r]
                         /\ last[r] <= q /\ q < resume[works[r]]
                        => q \in page[r] \cup strayed[works[r]]
  BY <1>1 DEF AloneAgrees, RunAlone, InPage
<1>3. \A q \in Posts : post'[q] = "purging" => post[q] = "purging"
  BY <1>1
<1>4. \A q \in Posts : IsNext(r, q)' => q = p
  BY <1>1, RunTypes DEF IsNext
<1> QED
  BY <1>1, <1>2, <1>3, <1>4 DEF RunAlone, Open

\* What a run alone lists is to be counted next, and holds what its batch marked there that
\* its search still finds.
LEMMA AloneAfterList ==
    ASSUME TypeOK, RowsKnown, MarkersKnown, AloneAgrees, NEW r \in Runs, List(r)
    PROVE  RunAlone(r)'
<1> SUFFICES ASSUME works'[r] \notin overlapped'
             PROVE  RunAlone(r)'
  BY DEF RunAlone
<1> DEFINE b == works[r]
<1>1. /\ at[r] = "listing" /\ Under(r) /\ b \in Batches \ overlapped
      /\ last'[r] \in Posts /\ last'[r] \in Nat /\ before[r] \in Nat
      /\ page'[r] = {q \in Posts : q \in Wanted(b) /\ q < before[r] /\ q >= last'[r]}
      /\ at'[r] = (IF kind[b] = "delete" THEN "deleting" ELSE "purging")
      /\ UNCHANGED <<works[r], post, marker, status, resume, overlapped>>
      /\ \A q \in Posts : q \in strayed[b] => q \in page'[r] \/ q \in strayed'[b]
  BY ListDoes, RunTypes DEF Under, Active
<1>2. Open(b) /\ before[r] = resume[b]
  BY <1>1 DEF AloneAgrees, RunAlone
<1>3. \A p \in page'[r] : p < resume[b]
  BY <1>1, <1>2
<1>4. ASSUME NEW p \in Posts, post[p] = "purging", marker[p] = b, last'[r] <= p, p < resume[b]
      PROVE  p \in page'[r] \cup strayed'[b]
  <2>1. kind[b] # "delete" /\ p \in targets[b] \cup strayed[b]
    BY <1>1, <1>4, NoneAssumption DEF MarkersKnown
  <2>2. CASE p \in strayed[b]
    BY <1>1, <2>2
  <2>3. CASE p \in targets[b]
    <3>1. p \in Wanted(b)
      BY <1>1, <1>4, <2>1, <2>3 DEF Wanted, Deleted, TypeOK
    <3>2. p \in Nat
      BY <1>1, RunTypes
    <3> QED
      BY <1>1, <1>2, <1>4, <3>1, <3>2
  <2> QED
    BY <2>1, <2>2, <2>3
<1> QED
  BY <1>1, <1>2, <1>3, <1>4 DEF RunAlone, Open, InPage

\* When nothing is left to a run alone, what its batch marked failed, or strayed.
LEMMA AloneAfterAll ==
    ASSUME TypeOK, RowsKnown, MarkersKnown, NoneLeftHalfway, AloneAgrees, NEW r \in Runs,
           NoneLeft(r)
    PROVE  RunAlone(r)'
<1> SUFFICES ASSUME works'[r] \notin overlapped'
             PROVE  RunAlone(r)'
  BY DEF RunAlone
<1> DEFINE b == works[r]
<1>1. /\ at[r] = "listing" /\ at'[r] = "ending" /\ Under(r) /\ b \in Batches \ overlapped
      /\ \A q \in Posts : q \in Wanted(b) => q >= before[r]
      /\ UNCHANGED <<works[r], post, marker, status, failed, strayed, overlapped>>
  BY NoneLeftDoes, RunTypes DEF Under, Active
<1>2. Open(b) /\ before[r] = resume[b]
  BY <1>1 DEF AloneAgrees, RunAlone
<1>3. ASSUME NEW p \in Posts, post[p] = "purging", marker[p] = b, p \notin failed[b] \cup strayed[b]
      PROVE  FALSE
  <2>1. p < resume[b]
    BY <1>1, <1>2, <1>3 DEF NoneLeftHalfway, Open
  <2>2. kind[b] # "delete" /\ p \in targets[b]
    BY <1>1, <1>3, NoneAssumption DEF MarkersKnown
  <2>3. p \in Wanted(b)
    BY <1>1, <1>3, <2>2 DEF Wanted, Deleted, TypeOK
  <2>4. p \in Nat /\ resume[b] \in Nat
    BY <1>1, RunTypes
  <2> QED
    BY <1>1, <1>2, <2>1, <2>3, <2>4
<1> QED
  BY <1>1, <1>2, <1>3 DEF RunAlone, Open, InPage

\* Nobody but its run changes a batch.
LEMMA AloneStep == TypeOK /\ RowsKnown /\ RunsAgree /\ OverlapsNoted /\ MarkersKnown
    /\ NoneLeftHalfway /\ AloneAgrees /\ [Next]_vars => AloneAgrees'
<1> SUFFICES ASSUME TypeOK, RowsKnown, RunsAgree, OverlapsNoted, MarkersKnown,
    NoneLeftHalfway, AloneAgrees, [Next]_vars
             PROVE  AloneAgrees'
  OBVIOUS
<1>1. ASSUME NEW p \in Posts, Moderate(p)
      PROVE  AloneAgrees'
  <2> USE DEF RowsKnown, RunsAgree, RunAgrees, OverlapsNoted, MarkersKnown,
      AloneAgrees, RunAlone, Under, InPage, IsNext, TypeOK, Active, Open, Places,
          Outcomes, Posts, Start0, fixed, rows, queue, runs, history
  <2>1. CASE Upload(p)
    BY SMTT(30), <2>1 DEF Upload, Others, Unsteady
  <2>2. CASE Delete(p)
    BY <2>2 DEF Delete, Others, Unsteady
  <2>3. CASE Restore(p)
    BY SMTT(30), <2>3 DEF Restore, Others, Unsteady
  <2>4. CASE MarkAlone(p)
    BY SMTT(30), <2>4 DEF MarkAlone, Others
  <2>5. CASE FinishAlone(p)
    BY SMTT(30), <2>5 DEF FinishAlone, Others, Unsteady
  <2> HIDE DEF RowsKnown, RunsAgree, RunAgrees, OverlapsNoted, MarkersKnown,
      AloneAgrees, RunAlone, Under, InPage, IsNext, TypeOK, Active, Open, Places,
          Outcomes, Posts, Start0, fixed, rows, queue, runs, history
  <2> QED
    BY <1>1, <2>1, <2>2, <2>3, <2>4, <2>5 DEF Moderate
<1>2. ASSUME NEW b \in Batches, Request(b)
      PROVE  AloneAgrees'
  <2>1. CASE DeleteUploads(b)
    <3> SUFFICES ASSUME NEW r \in Runs, Under(r), works[r] \notin overlapped
                 PROVE  RunAlone(r)'
      BY <2>1 DEF AloneAgrees, RunAlone, Under, Active, DeleteUploads, Enqueue, runs
    <3>1. works[r] \in Batches /\ works[r] # b /\ RunAlone(r)
      BY <2>1 DEF DeleteUploads, Enqueue, RowsKnown, Under, AloneAgrees
    <3>2. /\ UNCHANGED <<post, resume, failed, runs, strayed, marker, overlapped>>
          /\ status'[works[r]] = status[works[r]]
      BY <2>1, <3>1 DEF DeleteUploads, Enqueue, TypeOK
    <3> QED
      BY <3>1, <3>2 DEF RunAlone, Under, Active, InPage, IsNext, Open, runs
  <2>2. CASE StartPurge(b)
    <3> SUFFICES ASSUME NEW r \in Runs, Under(r), works[r] \notin overlapped
                 PROVE  RunAlone(r)'
      BY <2>2 DEF AloneAgrees, RunAlone, Under, Active, StartPurge, Enqueue, runs
    <3>1. works[r] \in Batches /\ works[r] # b /\ RunAlone(r)
      BY <2>2 DEF StartPurge, Enqueue, RowsKnown, Under, AloneAgrees
    <3>2. /\ UNCHANGED <<post, resume, failed, runs, strayed, marker, overlapped>>
          /\ status'[works[r]] = status[works[r]]
      BY <2>2, <3>1 DEF StartPurge, Enqueue, TypeOK
    <3> QED
      BY <3>1, <3>2 DEF RunAlone, Under, Active, InPage, IsNext, Open, runs
  <2>3. CASE StartSearch(b)
    <3> SUFFICES ASSUME NEW r \in Runs, Under(r), works[r] \notin overlapped
                 PROVE  RunAlone(r)'
      BY <2>3 DEF AloneAgrees, RunAlone, Under, Active, StartSearch, Enqueue, runs
    <3>1. works[r] \in Batches /\ works[r] # b /\ RunAlone(r)
      BY <2>3 DEF StartSearch, Enqueue, RowsKnown, Under, AloneAgrees
    <3>2. /\ UNCHANGED <<post, resume, failed, runs, strayed, marker, overlapped>>
          /\ status'[works[r]] = status[works[r]]
      BY <2>3, <3>1 DEF StartSearch, Enqueue, TypeOK
    <3> QED
      BY <3>1, <3>2 DEF RunAlone, Under, Active, InPage, IsNext, Open, runs
  <2> USE DEF RowsKnown, RunsAgree, RunAgrees, OverlapsNoted, MarkersKnown,
      AloneAgrees, RunAlone, Under, InPage, IsNext, TypeOK, Active, Open, Places,
          Outcomes, Posts, Start0, fixed, rows, queue, runs, history
  <2>4. CASE Finish(b)
    BY SMTT(30), <2>4 DEF Finish, Same, Queue!Finish, Queue!Leave
  <2>5. CASE GiveUp(b)
    BY SMTT(30), <2>5 DEF GiveUp, Same, Queue!GiveUp
  <2>6. CASE Revive(b)
    BY SMTT(30), <2>6 DEF Revive, Same, Queue!Revive, Queue!BecomePending
  <2>7. CASE Discard(b)
    BY SMTT(30), <2>7 DEF Discard, Same, Queue!Discard, Queue!Leave
  <2> HIDE DEF RowsKnown, RunsAgree, RunAgrees, OverlapsNoted, MarkersKnown,
      AloneAgrees, RunAlone, Under, InPage, IsNext, TypeOK, Active, Open, Places,
          Outcomes, Posts, Start0, fixed, rows, queue, runs, history
  <2>8. ASSUME NEW p \in Posts, FindsOther(b, p)
        PROVE  AloneAgrees'
    BY <2>8, FindsOtherDoes DEF AloneAgrees, RunAlone, RowsKnown, Under, InPage, IsNext, Active, Open
  <2> QED
    BY <1>2, <2>1, <2>2, <2>3, <2>4, <2>5, <2>6, <2>7, <2>8 DEF Request
<1>3. ASSUME NEW r \in Runs, Work(r)
      PROVE  AloneAgrees'
  <2>1. \A s \in Runs : s # r => RunAlone(s)'
    BY <1>3, WorkFrames, OthersAlone
  <2>2. RunAlone(r)'
    <3>1. ASSUME NEW b \in Batches, Begin(r, b)
          PROVE  RunAlone(r)'
      BY <3>1, BeginDoes, RunTypes DEF AloneAgrees, RunAlone, MarkersKnown, Wanted,
          Deleted, RunsAgree, RunAgrees, Open, Under, InPage, IsNext, Active
    <3>2. CASE Return(r)
      BY <3>2, ReturnDoes, RunTypes DEF AloneAgrees, RunAlone, MarkersKnown, Wanted,
          Deleted, RunsAgree, RunAgrees, Open, Under, InPage, IsNext, Active
    <3>3. CASE Crash(r)
      BY <3>3, CrashDoes, RunTypes DEF AloneAgrees, RunAlone, MarkersKnown, Wanted,
          Deleted, RunsAgree, RunAgrees, Open, Under, InPage, IsNext, Active
    <3>4. CASE StatementFails(r)
      BY <3>4, StatementFailsDoes, RunTypes DEF AloneAgrees, RunAlone, MarkersKnown,
          Wanted, Deleted, RunsAgree, RunAgrees, Open, Under, InPage, IsNext, Active
    <3>5. CASE ReadBatch(r)
      BY <3>5, ReadBatchDoes, RunTypes DEF AloneAgrees, RunAlone, MarkersKnown,
          Wanted, Deleted, RunsAgree, RunAgrees, Open, Under, InPage, IsNext, Active
    <3>6. CASE FindFinished(r)
      BY <3>6, FindFinishedDoes, RunTypes DEF AloneAgrees, RunAlone, MarkersKnown,
          Wanted, Deleted, RunsAgree, RunAgrees, Open, Under, InPage, IsNext, Active
    <3>7. CASE Start(r)
      BY <3>7, StartDoes, RunTypes DEF AloneAgrees, RunAlone, MarkersKnown, Wanted,
          Deleted, RunsAgree, RunAgrees, Open, Under, InPage, IsNext, Active
    <3>8. CASE List(r)
      BY <3>8, AloneAfterList
    <3>9. CASE NoneLeft(r)
      BY <3>9, AloneAfterAll
    <3>10. CASE Refuse(r)
      BY <3>10, RefuseDoes, RunTypes DEF AloneAgrees, RunAlone, MarkersKnown, Wanted,
          Deleted, RunsAgree, RunAgrees, Open, Under, InPage, IsNext, Active
    <3>11. CASE DeletePage(r)
      BY <3>11, DeletePageDoes, RunTypes DEF AloneAgrees, RunAlone, MarkersKnown,
          Wanted, Deleted, RunsAgree, RunAgrees, Open, Under, InPage, IsNext, Active
    <3>12. ASSUME NEW p \in Posts, Mark(r, p)
          PROVE  RunAlone(r)'
      BY <3>12, MarkDoes, RunTypes DEF AloneAgrees, RunAlone, MarkersKnown, Wanted,
          Deleted, RunsAgree, RunAgrees, Open, Under, InPage, IsNext, Active
    <3>13. ASSUME NEW p \in Posts, Skip(r, p)
          PROVE  RunAlone(r)'
      BY <3>13, SkipDoes, RunTypes DEF AloneAgrees, RunAlone, MarkersKnown, Wanted,
          Deleted, RunsAgree, RunAgrees, Open, Under, InPage, IsNext, Active
    <3>14. ASSUME NEW p \in Posts, PurgeFails(r, p)
          PROVE  RunAlone(r)'
      BY <3>14, PurgeFailsDoes, RunTypes DEF AloneAgrees, RunAlone, MarkersKnown,
          Wanted, Deleted, RunsAgree, RunAgrees, Open, Under, InPage, IsNext, Active
    <3>15. ASSUME NEW p \in Posts, FinishPurge(r, p)
          PROVE  RunAlone(r)'
      BY <3>15, AloneAfterPurge
    <3>16. ASSUME NEW p \in Posts, FindPurged(r, p)
          PROVE  RunAlone(r)'
      BY <3>16, FindPurgedDoes, RunTypes DEF AloneAgrees, RunAlone, MarkersKnown,
          Wanted, Deleted, RunsAgree, RunAgrees, Open, Under, InPage, IsNext, Active
    <3>17. ASSUME NEW p \in Posts, NextPost(r, p)
          PROVE  RunAlone(r)'
      BY <3>17, AloneAfterRecord
    <3>18. ASSUME NEW p \in Posts, NextPage(r, p)
          PROVE  RunAlone(r)'
      BY <3>18, AloneAfterRecord
    <3>19. CASE RemoveFiles(r)
      BY <3>19, RemoveFilesDoes, RunTypes DEF AloneAgrees, RunAlone, MarkersKnown,
          Wanted, Deleted, RunsAgree, RunAgrees, Open, Under, InPage, IsNext, Active
    <3>20. CASE StopFailing(r)
      BY <3>20, StopFailingDoes, RunTypes DEF AloneAgrees, RunAlone, MarkersKnown,
          Wanted, Deleted, RunsAgree, RunAgrees, Open, Under, InPage, IsNext, Active
    <3>21. CASE Complete(r)
      BY <3>21, CompleteDoes, RunTypes DEF AloneAgrees, RunAlone, MarkersKnown,
          Wanted, Deleted, RunsAgree, RunAgrees, Open, Under, InPage, IsNext, Active
    <3>22. CASE Fail(r)
      BY <3>22, FailDoes, RunTypes DEF AloneAgrees, RunAlone, MarkersKnown, Wanted,
          Deleted, RunsAgree, RunAgrees, Open, Under, InPage, IsNext, Active
    <3> QED
      BY <1>3, <3>1, <3>2, <3>3, <3>4, <3>5, <3>6, <3>7, <3>8, <3>9, <3>10, <3>11,
          <3>12, <3>13, <3>14, <3>15, <3>16, <3>17, <3>18, <3>19, <3>20, <3>21, <3>22
              DEF Work
  <2> QED
    BY <2>1, <2>2 DEF AloneAgrees
<1>4. CASE UNCHANGED vars
  BY SMTT(30), <1>4 DEF vars, RowsKnown, RunsAgree, RunAgrees, OverlapsNoted, MarkersKnown,
      AloneAgrees, RunAlone, Under, InPage, IsNext, TypeOK, Active, Open, Places,
          Outcomes, Posts, Start0, fixed, rows, queue, runs, history
<1> QED
  BY <1>1, <1>2, <1>3, <1>4 DEF Next

\* A batch that is finished, or that two runs worked on, is not opened again, or was
\* worked on by two runs.
LEMMA OthersContent ==
    ASSUME TypeOK, RowsKnown, NEW r \in Runs, Frame(r), ContentWhenFinished,
           \A b \in Batches : Closed(b) => Closed(b)'
    PROVE  \A s \in Runs : s # r => Content(s)'
BY FramesOfRuns DEF ContentWhenFinished, Content, Active

\* A batch is opened again only by a second run.
LEMMA ClosedStays ==
    ASSUME TypeOK, RowsKnown, AloneAgrees, NEW r \in Runs, Work(r)
    PROVE  \A c \in Batches : Closed(c) => Closed(c)'
<1>1. ASSUME NEW b \in Batches, Begin(r, b)
      PROVE  \A c \in Batches : Closed(c) => Closed(c)'
  BY <1>1, BeginDoes, RunTypes DEF Closed, Open, Active
<1>2. CASE Return(r)
  BY <1>2, ReturnDoes, RunTypes DEF Closed, Open, Active
<1>3. CASE Crash(r)
  BY <1>3, CrashDoes, RunTypes DEF Closed, Open, Active
<1>4. CASE StatementFails(r)
  BY <1>4, StatementFailsDoes, RunTypes DEF Closed, Open, Active
<1>5. CASE ReadBatch(r)
  BY <1>5, ReadBatchDoes, RunTypes DEF Closed, Open, Active
<1>6. CASE FindFinished(r)
  BY <1>6, FindFinishedDoes, RunTypes DEF Closed, Open, Active
<1>7. CASE Start(r)
  BY <1>7, StartDoes, RunTypes DEF Closed, Open, Active, AloneAgrees, RunAlone, Under
<1>8. CASE List(r)
  BY <1>8, ListDoes, RunTypes DEF Closed, Open, Active
<1>9. CASE NoneLeft(r)
  BY <1>9, NoneLeftDoes, RunTypes DEF Closed, Open, Active
<1>10. CASE Refuse(r)
  BY <1>10, RefuseDoes, RunTypes DEF Closed, Open, Active
<1>11. CASE DeletePage(r)
  BY <1>11, DeletePageDoes, RunTypes DEF Closed, Open, Active
<1>12. ASSUME NEW p \in Posts, Mark(r, p)
      PROVE  \A c \in Batches : Closed(c) => Closed(c)'
  BY <1>12, MarkDoes, RunTypes DEF Closed, Open, Active
<1>13. ASSUME NEW p \in Posts, Skip(r, p)
      PROVE  \A c \in Batches : Closed(c) => Closed(c)'
  BY <1>13, SkipDoes, RunTypes DEF Closed, Open, Active
<1>14. ASSUME NEW p \in Posts, PurgeFails(r, p)
      PROVE  \A c \in Batches : Closed(c) => Closed(c)'
  BY <1>14, PurgeFailsDoes, RunTypes DEF Closed, Open, Active
<1>15. ASSUME NEW p \in Posts, FinishPurge(r, p)
      PROVE  \A c \in Batches : Closed(c) => Closed(c)'
  BY <1>15, FinishPurgeDoes, RunTypes DEF Closed, Open, Active
<1>16. ASSUME NEW p \in Posts, FindPurged(r, p)
      PROVE  \A c \in Batches : Closed(c) => Closed(c)'
  BY <1>16, FindPurgedDoes, RunTypes DEF Closed, Open, Active
<1>17. ASSUME NEW p \in Posts, NextPost(r, p)
      PROVE  \A c \in Batches : Closed(c) => Closed(c)'
  BY <1>17, NextPostDoes, RunTypes DEF Closed, Open, Active
<1>18. ASSUME NEW p \in Posts, NextPage(r, p)
      PROVE  \A c \in Batches : Closed(c) => Closed(c)'
  BY <1>18, NextPageDoes, RunTypes DEF Closed, Open, Active
<1>19. CASE RemoveFiles(r)
  BY <1>19, RemoveFilesDoes, RunTypes DEF Closed, Open, Active
<1>20. CASE StopFailing(r)
  BY <1>20, StopFailingDoes, RunTypes DEF Closed, Open, Active
<1>21. CASE Complete(r)
  BY <1>21, CompleteDoes, RunTypes DEF Closed, Open, Active
<1>22. CASE Fail(r)
  BY <1>22, FailDoes, RunTypes DEF Closed, Open, Active
<1> QED
  BY <1>1, <1>2, <1>3, <1>4, <1>5, <1>6, <1>7, <1>8, <1>9, <1>10, <1>11, <1>12,
      <1>13, <1>14, <1>15, <1>16, <1>17, <1>18, <1>19, <1>20, <1>21, <1>22 DEF Work

\* What a run returned, if not to be retried, was of a finished batch.
LEMMA ReturnsContent ==
    ASSUME TypeOK, RowsKnown, ContentWhenFinished, NEW r \in Runs, Return(r)
    PROVE  \A c \in Batches : results'[c] \subseteq {"retry"} \/ Closed(c)'
<1>1. /\ at[r] = "done" /\ works[r] \in Batches
      /\ results'[works[r]] = results[works[r]] \cup {result[r]}
      /\ \A c \in Batches : c # works[r] => results'[c] = results[c]
  BY ReturnDoes, RunTypes DEF Active
<1>2. \A c \in Batches : Closed(c) => Closed(c)'
  BY ReturnDoes DEF Closed, Open
<1>3. result[r] # "retry" => Closed(works[r])
  BY <1>1 DEF ContentWhenFinished, Content
<1>4. \A c \in Batches : results[c] \subseteq {"retry"} \/ Closed(c)
  BY DEF ContentWhenFinished
<1> QED
  BY <1>1, <1>2, <1>3, <1>4

\* A run asks to be retried unless its batch is finished, and that stays so.
LEMMA ContentStep == TypeOK /\ RowsKnown /\ OverlapsNoted /\ AloneAgrees /\
    ContentWhenFinished /\ [Next]_vars => ContentWhenFinished'
<1> SUFFICES ASSUME TypeOK, RowsKnown, OverlapsNoted, AloneAgrees,
    ContentWhenFinished, [Next]_vars
             PROVE  ContentWhenFinished'
  OBVIOUS
<1>1. ASSUME NEW p \in Posts, Moderate(p)
      PROVE  ContentWhenFinished'
  <2> USE DEF RowsKnown, OverlapsNoted, AloneAgrees, RunAlone, ContentWhenFinished,
      Content, Closed, Under, TypeOK, Active, Open, Places, Outcomes, Posts, Start0,
          fixed, rows, queue, runs, history
  <2>1. CASE Upload(p)
    BY <2>1 DEF Upload, Others, Unsteady
  <2>2. CASE Delete(p)
    BY <2>2 DEF Delete, Others, Unsteady
  <2>3. CASE Restore(p)
    BY <2>3 DEF Restore, Others, Unsteady
  <2>4. CASE MarkAlone(p)
    BY <2>4 DEF MarkAlone, Others
  <2>5. CASE FinishAlone(p)
    BY <2>5 DEF FinishAlone, Others, Unsteady
  <2> HIDE DEF RowsKnown, OverlapsNoted, AloneAgrees, RunAlone, ContentWhenFinished,
      Content, Closed, Under, TypeOK, Active, Open, Places, Outcomes, Posts, Start0,
          fixed, rows, queue, runs, history
  <2> QED
    BY <1>1, <2>1, <2>2, <2>3, <2>4, <2>5 DEF Moderate
<1>2. ASSUME NEW b \in Batches, Request(b)
      PROVE  ContentWhenFinished'
  <2> USE DEF RowsKnown, OverlapsNoted, AloneAgrees, RunAlone, ContentWhenFinished,
      Content, Closed, Under, TypeOK, Active, Open, Places, Outcomes, Posts, Start0,
          fixed, rows, queue, runs, history
  <2>1. CASE DeleteUploads(b)
    BY SMTT(30), <2>1 DEF DeleteUploads, Enqueue, Deletable, Queue!Submit, Queue!BecomePending
  <2>2. CASE StartPurge(b)
    BY SMTT(30), <2>2 DEF StartPurge, Enqueue, Deleted, Queue!Submit, Queue!BecomePending
  <2>3. CASE StartSearch(b)
    BY SMTT(30), <2>3 DEF StartSearch, Enqueue, Deleted, Queue!Submit, Queue!BecomePending
  <2>4. CASE Finish(b)
    BY <2>4 DEF Finish, Same, Queue!Finish, Queue!Leave
  <2>5. CASE GiveUp(b)
    BY <2>5 DEF GiveUp, Same, Queue!GiveUp
  <2>6. CASE Revive(b)
    BY <2>6 DEF Revive, Same, Queue!Revive, Queue!BecomePending
  <2>7. CASE Discard(b)
    BY <2>7 DEF Discard, Same, Queue!Discard, Queue!Leave
  <2> HIDE DEF RowsKnown, OverlapsNoted, AloneAgrees, RunAlone, ContentWhenFinished,
      Content, Closed, Under, TypeOK, Active, Open, Places, Outcomes, Posts, Start0,
          fixed, rows, queue, runs, history
  <2>8. ASSUME NEW p \in Posts, FindsOther(b, p)
        PROVE  ContentWhenFinished'
    BY <2>8, FindsOtherDoes DEF ContentWhenFinished, Content, Closed, Open
  <2> QED
    BY <1>2, <2>1, <2>2, <2>3, <2>4, <2>5, <2>6, <2>7, <2>8 DEF Request
<1>3. ASSUME NEW r \in Runs, Work(r)
      PROVE  ContentWhenFinished'
  <2>1. \A s \in Runs : s # r => Content(s)'
    BY <1>3, WorkFrames, ClosedStays, OthersContent
  <2>2. Content(r)'
    <3>1. ASSUME NEW b \in Batches, Begin(r, b)
          PROVE  Content(r)'
      BY <3>1, <1>3, ClosedStays, BeginDoes, RunTypes DEF ContentWhenFinished,
          Content, Closed, Open, Active
    <3>2. CASE Return(r)
      BY <3>2, <1>3, ClosedStays, ReturnDoes, RunTypes DEF ContentWhenFinished,
          Content, Closed, Open, Active
    <3>3. CASE Crash(r)
      BY <3>3, <1>3, ClosedStays, CrashDoes, RunTypes DEF ContentWhenFinished,
          Content, Closed, Open, Active
    <3>4. CASE StatementFails(r)
      BY <3>4, <1>3, ClosedStays, StatementFailsDoes, RunTypes DEF
          ContentWhenFinished, Content, Closed, Open, Active
    <3>5. CASE ReadBatch(r)
      BY <3>5, <1>3, ClosedStays, ReadBatchDoes, RunTypes DEF ContentWhenFinished,
          Content, Closed, Open, Active
    <3>6. CASE FindFinished(r)
      BY <3>6, <1>3, ClosedStays, FindFinishedDoes, RunTypes DEF ContentWhenFinished,
          Content, Closed, Open, Active
    <3>7. CASE Start(r)
      BY <3>7, <1>3, ClosedStays, StartDoes, RunTypes DEF ContentWhenFinished,
          Content, Closed, Open, Active
    <3>8. CASE List(r)
      BY <3>8, <1>3, ClosedStays, ListDoes, RunTypes DEF ContentWhenFinished,
          Content, Closed, Open, Active
    <3>9. CASE NoneLeft(r)
      BY <3>9, <1>3, ClosedStays, NoneLeftDoes, RunTypes DEF ContentWhenFinished,
          Content, Closed, Open, Active
    <3>10. CASE Refuse(r)
      BY <3>10, <1>3, ClosedStays, RefuseDoes, RunTypes DEF ContentWhenFinished,
          Content, Closed, Open, Active
    <3>11. CASE DeletePage(r)
      BY <3>11, <1>3, ClosedStays, DeletePageDoes, RunTypes DEF ContentWhenFinished,
          Content, Closed, Open, Active
    <3>12. ASSUME NEW p \in Posts, Mark(r, p)
          PROVE  Content(r)'
      BY <3>12, <1>3, ClosedStays, MarkDoes, RunTypes DEF ContentWhenFinished,
          Content, Closed, Open, Active
    <3>13. ASSUME NEW p \in Posts, Skip(r, p)
          PROVE  Content(r)'
      BY <3>13, <1>3, ClosedStays, SkipDoes, RunTypes DEF ContentWhenFinished,
          Content, Closed, Open, Active
    <3>14. ASSUME NEW p \in Posts, PurgeFails(r, p)
          PROVE  Content(r)'
      BY <3>14, <1>3, ClosedStays, PurgeFailsDoes, RunTypes DEF ContentWhenFinished,
          Content, Closed, Open, Active
    <3>15. ASSUME NEW p \in Posts, FinishPurge(r, p)
          PROVE  Content(r)'
      BY <3>15, <1>3, ClosedStays, FinishPurgeDoes, RunTypes DEF ContentWhenFinished,
          Content, Closed, Open, Active
    <3>16. ASSUME NEW p \in Posts, FindPurged(r, p)
          PROVE  Content(r)'
      BY <3>16, <1>3, ClosedStays, FindPurgedDoes, RunTypes DEF ContentWhenFinished,
          Content, Closed, Open, Active
    <3>17. ASSUME NEW p \in Posts, NextPost(r, p)
          PROVE  Content(r)'
      BY <3>17, <1>3, ClosedStays, NextPostDoes, RunTypes DEF ContentWhenFinished,
          Content, Closed, Open, Active
    <3>18. ASSUME NEW p \in Posts, NextPage(r, p)
          PROVE  Content(r)'
      BY <3>18, <1>3, ClosedStays, NextPageDoes, RunTypes DEF ContentWhenFinished,
          Content, Closed, Open, Active
    <3>19. CASE RemoveFiles(r)
      BY <3>19, <1>3, ClosedStays, RemoveFilesDoes, RunTypes DEF ContentWhenFinished,
          Content, Closed, Open, Active
    <3>20. CASE StopFailing(r)
      BY <3>20, <1>3, ClosedStays, StopFailingDoes, RunTypes DEF ContentWhenFinished,
          Content, Closed, Open, Active
    <3>21. CASE Complete(r)
      BY <3>21, <1>3, ClosedStays, CompleteDoes, RunTypes DEF ContentWhenFinished,
          Content, Closed, Open, Active
    <3>22. CASE Fail(r)
      BY <3>22, <1>3, ClosedStays, FailDoes, RunTypes DEF ContentWhenFinished,
          Content, Closed, Open, Active
    <3> QED
      BY <1>3, <3>1, <3>2, <3>3, <3>4, <3>5, <3>6, <3>7, <3>8, <3>9, <3>10, <3>11,
          <3>12, <3>13, <3>14, <3>15, <3>16, <3>17, <3>18, <3>19, <3>20, <3>21, <3>22
              DEF Work
  <2>3. \A c \in Batches : results'[c] \subseteq {"retry"} \/ Closed(c)'
    <3>1. ASSUME NEW b \in Batches, Begin(r, b)
          PROVE  \A c \in Batches : results'[c] \subseteq {"retry"} \/ Closed(c)'
      BY <3>1, <1>3, ClosedStays, BeginDoes, RunTypes DEF ContentWhenFinished,
          Content, Active
    <3>2. CASE Return(r)
      BY <3>2, ReturnsContent
    <3>3. CASE Crash(r)
      BY <3>3, <1>3, ClosedStays, CrashDoes, RunTypes DEF ContentWhenFinished,
          Content, Active
    <3>4. CASE StatementFails(r)
      BY <3>4, <1>3, ClosedStays, StatementFailsDoes, RunTypes DEF
          ContentWhenFinished, Content, Active
    <3>5. CASE ReadBatch(r)
      BY <3>5, <1>3, ClosedStays, ReadBatchDoes, RunTypes DEF ContentWhenFinished,
          Content, Active
    <3>6. CASE FindFinished(r)
      BY <3>6, <1>3, ClosedStays, FindFinishedDoes, RunTypes DEF ContentWhenFinished,
          Content, Active
    <3>7. CASE Start(r)
      BY <3>7, <1>3, ClosedStays, StartDoes, RunTypes DEF ContentWhenFinished,
          Content, Active
    <3>8. CASE List(r)
      BY <3>8, <1>3, ClosedStays, ListDoes, RunTypes DEF ContentWhenFinished,
          Content, Active
    <3>9. CASE NoneLeft(r)
      BY <3>9, <1>3, ClosedStays, NoneLeftDoes, RunTypes DEF ContentWhenFinished,
          Content, Active
    <3>10. CASE Refuse(r)
      BY <3>10, <1>3, ClosedStays, RefuseDoes, RunTypes DEF ContentWhenFinished,
          Content, Active
    <3>11. CASE DeletePage(r)
      BY <3>11, <1>3, ClosedStays, DeletePageDoes, RunTypes DEF ContentWhenFinished,
          Content, Active
    <3>12. ASSUME NEW p \in Posts, Mark(r, p)
          PROVE  \A c \in Batches : results'[c] \subseteq {"retry"} \/ Closed(c)'
      BY <3>12, <1>3, ClosedStays, MarkDoes, RunTypes DEF ContentWhenFinished,
          Content, Active
    <3>13. ASSUME NEW p \in Posts, Skip(r, p)
          PROVE  \A c \in Batches : results'[c] \subseteq {"retry"} \/ Closed(c)'
      BY <3>13, <1>3, ClosedStays, SkipDoes, RunTypes DEF ContentWhenFinished,
          Content, Active
    <3>14. ASSUME NEW p \in Posts, PurgeFails(r, p)
          PROVE  \A c \in Batches : results'[c] \subseteq {"retry"} \/ Closed(c)'
      BY <3>14, <1>3, ClosedStays, PurgeFailsDoes, RunTypes DEF ContentWhenFinished,
          Content, Active
    <3>15. ASSUME NEW p \in Posts, FinishPurge(r, p)
          PROVE  \A c \in Batches : results'[c] \subseteq {"retry"} \/ Closed(c)'
      BY <3>15, <1>3, ClosedStays, FinishPurgeDoes, RunTypes DEF ContentWhenFinished,
          Content, Active
    <3>16. ASSUME NEW p \in Posts, FindPurged(r, p)
          PROVE  \A c \in Batches : results'[c] \subseteq {"retry"} \/ Closed(c)'
      BY <3>16, <1>3, ClosedStays, FindPurgedDoes, RunTypes DEF ContentWhenFinished,
          Content, Active
    <3>17. ASSUME NEW p \in Posts, NextPost(r, p)
          PROVE  \A c \in Batches : results'[c] \subseteq {"retry"} \/ Closed(c)'
      BY <3>17, <1>3, ClosedStays, NextPostDoes, RunTypes DEF ContentWhenFinished,
          Content, Active
    <3>18. ASSUME NEW p \in Posts, NextPage(r, p)
          PROVE  \A c \in Batches : results'[c] \subseteq {"retry"} \/ Closed(c)'
      BY <3>18, <1>3, ClosedStays, NextPageDoes, RunTypes DEF ContentWhenFinished,
          Content, Active
    <3>19. CASE RemoveFiles(r)
      BY <3>19, <1>3, ClosedStays, RemoveFilesDoes, RunTypes DEF ContentWhenFinished,
          Content, Active
    <3>20. CASE StopFailing(r)
      BY <3>20, <1>3, ClosedStays, StopFailingDoes, RunTypes DEF ContentWhenFinished,
          Content, Active
    <3>21. CASE Complete(r)
      BY <3>21, <1>3, ClosedStays, CompleteDoes, RunTypes DEF ContentWhenFinished,
          Content, Active
    <3>22. CASE Fail(r)
      BY <3>22, <1>3, ClosedStays, FailDoes, RunTypes DEF ContentWhenFinished,
          Content, Active
    <3> QED
      BY <1>3, <3>1, <3>2, <3>3, <3>4, <3>5, <3>6, <3>7, <3>8, <3>9, <3>10, <3>11,
          <3>12, <3>13, <3>14, <3>15, <3>16, <3>17, <3>18, <3>19, <3>20, <3>21, <3>22
              DEF Work
  <2> QED
    BY <2>1, <2>2, <2>3 DEF ContentWhenFinished
<1>4. CASE UNCHANGED vars
  BY <1>4 DEF vars, RowsKnown, OverlapsNoted, AloneAgrees, RunAlone,
      ContentWhenFinished, Content, Closed, Under, TypeOK, Active, Open, Places,
          Outcomes, Posts, Start0, fixed, rows, queue, runs, history
<1> QED
  BY <1>1, <1>2, <1>3, <1>4 DEF Next
\* An open batch keeps its job.
LEMMA JobStep == TypeOK /\ RowsKnown /\ AloneAgrees /\ ContentWhenFinished /\
    OpenHasJob /\ [Next]_vars => OpenHasJob'
<1> SUFFICES ASSUME TypeOK, RowsKnown, AloneAgrees, ContentWhenFinished, OpenHasJob,
    [Next]_vars
             PROVE  OpenHasJob'
  OBVIOUS
<1>1. ASSUME NEW p \in Posts, Moderate(p)
      PROVE  OpenHasJob'
  <2> USE DEF RowsKnown, AloneAgrees, RunAlone, ContentWhenFinished, Content, Closed,
      OpenHasJob, Under, TypeOK, Active, Open, Places, Outcomes, Posts, Start0,
          fixed, rows, queue, runs, history
  <2>1. CASE Upload(p)
    BY <2>1 DEF Upload, Others, Unsteady
  <2>2. CASE Delete(p)
    BY <2>2 DEF Delete, Others, Unsteady
  <2>3. CASE Restore(p)
    BY <2>3 DEF Restore, Others, Unsteady
  <2>4. CASE MarkAlone(p)
    BY <2>4 DEF MarkAlone, Others
  <2>5. CASE FinishAlone(p)
    BY <2>5 DEF FinishAlone, Others, Unsteady
  <2> HIDE DEF RowsKnown, AloneAgrees, RunAlone, ContentWhenFinished, Content,
      Closed, OpenHasJob, Under, TypeOK, Active, Open, Places, Outcomes, Posts,
          Start0, fixed, rows, queue, runs, history
  <2> QED
    BY <1>1, <2>1, <2>2, <2>3, <2>4, <2>5 DEF Moderate
<1>2. ASSUME NEW b \in Batches, Request(b)
      PROVE  OpenHasJob'
  <2> USE DEF RowsKnown, AloneAgrees, RunAlone, ContentWhenFinished, Content, Closed,
      OpenHasJob, Under, TypeOK, Active, Open, Places, Outcomes, Posts, Start0,
          fixed, rows, queue, runs, history
  <2>1. CASE DeleteUploads(b)
    BY <2>1 DEF DeleteUploads, Enqueue, Deletable, Queue!Submit, Queue!BecomePending
  <2>2. CASE StartPurge(b)
    BY <2>2 DEF StartPurge, Enqueue, Deleted, Queue!Submit, Queue!BecomePending
  <2>3. CASE StartSearch(b)
    BY <2>3 DEF StartSearch, Enqueue, Deleted, Queue!Submit, Queue!BecomePending
  <2>4. CASE Finish(b)
    BY <2>4 DEF Finish, Same, Queue!Finish, Queue!Leave
  <2>5. CASE GiveUp(b)
    BY <2>5 DEF GiveUp, Same, Queue!GiveUp
  <2>6. CASE Revive(b)
    BY <2>6 DEF Revive, Same, Queue!Revive, Queue!BecomePending
  <2>7. CASE Discard(b)
    BY <2>7 DEF Discard, Same, Queue!Discard, Queue!Leave
  <2> HIDE DEF RowsKnown, AloneAgrees, RunAlone, ContentWhenFinished, Content,
      Closed, OpenHasJob, Under, TypeOK, Active, Open, Places, Outcomes, Posts,
          Start0, fixed, rows, queue, runs, history
  <2>8. ASSUME NEW p \in Posts, FindsOther(b, p)
        PROVE  OpenHasJob'
    BY <2>8, FindsOtherDoes DEF OpenHasJob, Open
  <2> QED
    BY <1>2, <2>1, <2>2, <2>3, <2>4, <2>5, <2>6, <2>7, <2>8 DEF Request
<1>3. ASSUME NEW r \in Runs, Work(r)
      PROVE  OpenHasJob'
  <2>1. CASE Start(r)
    BY <1>3, <2>1, StartDoes, RunTypes DEF AloneAgrees, RunAlone, OpenHasJob, Open,
        Under, Active
  <2> USE DEF RowsKnown, AloneAgrees, RunAlone, ContentWhenFinished, Content, Closed,
      OpenHasJob, Under, TypeOK, Active, Open, Places, Outcomes, Posts, Start0,
          fixed, rows, queue, runs, history
  <2>2. ASSUME NEW b \in Batches, Begin(r, b)
        PROVE  OpenHasJob'
    BY <2>2 DEF Begin, Same, Queue!Begin
  <2>3. CASE Return(r)
    BY <2>3 DEF Return, Same, End, Queue!Return
  <2>4. CASE Crash(r)
    BY <2>4 DEF Crash, Same, End
  <2>5. CASE StatementFails(r)
    BY <2>5 DEF StatementFails, Same, GiveBack, Go
  <2>6. CASE ReadBatch(r)
    BY <2>6 DEF ReadBatch, ToBeDone, Same, Go
  <2>7. CASE FindFinished(r)
    BY <2>7 DEF FindFinished, ToBeDone, Same, GiveBack, Go
  <2>8. CASE List(r)
    BY <2>8 DEF List, Listed, Wanted, Deletable, Deleted, Same, Go
  <2>9. CASE NoneLeft(r)
    BY <2>9 DEF NoneLeft, Listed, Wanted, Deletable, Deleted, Same, Go
  <2>10. CASE Refuse(r)
    BY <2>10 DEF Refuse, Same, Go
  <2>11. CASE DeletePage(r)
    BY <2>11 DEF DeletePage, Deletable, Unsteady, Onward, Go
  <2>12. ASSUME NEW p \in Posts, Mark(r, p)
        PROVE  OpenHasJob'
    BY <2>12 DEF Mark, IsNext, Go
  <2>13. ASSUME NEW p \in Posts, Skip(r, p)
        PROVE  OpenHasJob'
    BY <2>13 DEF Skip, IsNext, WentAs, Unsteady, Go
  <2>14. ASSUME NEW p \in Posts, PurgeFails(r, p)
        PROVE  OpenHasJob'
    BY <2>14 DEF PurgeFails, IsNext, WentAs, Same, Go
  <2>15. ASSUME NEW p \in Posts, FinishPurge(r, p)
        PROVE  OpenHasJob'
    BY <2>15 DEF FinishPurge, IsNext, WentAs, Unsteady, Go
  <2>16. ASSUME NEW p \in Posts, FindPurged(r, p)
        PROVE  OpenHasJob'
    BY <2>16 DEF FindPurged, IsNext, WentAs, Same, Go
  <2>17. ASSUME NEW p \in Posts, NextPost(r, p)
        PROVE  OpenHasJob'
    BY <2>17 DEF NextPost, Record, Counted, IsNext, Go
  <2>18. ASSUME NEW p \in Posts, NextPage(r, p)
        PROVE  OpenHasJob'
    BY <2>18 DEF NextPage, Record, Counted, IsNext, Onward, Go
  <2>19. CASE RemoveFiles(r)
    BY <2>19 DEF RemoveFiles, Same, Go
  <2>20. CASE StopFailing(r)
    BY <2>20 DEF StopFailing, Same, GiveBack, Go
  <2>21. CASE Complete(r)
    BY <2>21 DEF Complete, GiveBack, Go
  <2>22. CASE Fail(r)
    BY <2>22 DEF Fail, GiveBack, Go
  <2> HIDE DEF RowsKnown, AloneAgrees, RunAlone, ContentWhenFinished, Content,
      Closed, OpenHasJob, Under, TypeOK, Active, Open, Places, Outcomes, Posts,
          Start0, fixed, rows, queue, runs, history
  <2> QED
    BY <1>3, <2>1, <2>2, <2>3, <2>4, <2>5, <2>6, <2>7, <2>8, <2>9, <2>10, <2>11,
        <2>12, <2>13, <2>14, <2>15, <2>16, <2>17, <2>18, <2>19, <2>20, <2>21, <2>22
            DEF Work
<1>4. CASE UNCHANGED vars
  BY <1>4 DEF vars, RowsKnown, AloneAgrees, RunAlone, ContentWhenFinished, Content,
      Closed, OpenHasJob, Under, TypeOK, Active, Open, Places, Outcomes, Posts,
          Start0, fixed, rows, queue, runs, history
<1> QED
  BY <1>1, <1>2, <1>3, <1>4 DEF Next
\* No second deletion opens.
LEMMA DeletionsStep == TypeOK /\ RowsKnown /\ AloneAgrees /\ OneDeletionAtOnce /\
    [Next]_vars => OneDeletionAtOnce'
<1> SUFFICES ASSUME TypeOK, RowsKnown, AloneAgrees, OneDeletionAtOnce, [Next]_vars
             PROVE  OneDeletionAtOnce'
  OBVIOUS
<1>1. ASSUME NEW p \in Posts, Moderate(p)
      PROVE  OneDeletionAtOnce'
  <2> USE DEF RowsKnown, AloneAgrees, RunAlone, OneDeletionAtOnce, deletion_open,
      Under, TypeOK, Active, Open, Places, Outcomes, Posts, Start0, fixed, rows,
          queue, runs, history
  <2>1. CASE Upload(p)
    BY <2>1 DEF Upload, Others, Unsteady
  <2>2. CASE Delete(p)
    BY <2>2 DEF Delete, Others, Unsteady
  <2>3. CASE Restore(p)
    BY <2>3 DEF Restore, Others, Unsteady
  <2>4. CASE MarkAlone(p)
    BY <2>4 DEF MarkAlone, Others
  <2>5. CASE FinishAlone(p)
    BY <2>5 DEF FinishAlone, Others, Unsteady
  <2> HIDE DEF RowsKnown, AloneAgrees, RunAlone, OneDeletionAtOnce, deletion_open,
      Under, TypeOK, Active, Open, Places, Outcomes, Posts, Start0, fixed, rows,
          queue, runs, history
  <2> QED
    BY <1>1, <2>1, <2>2, <2>3, <2>4, <2>5 DEF Moderate
<1>2. ASSUME NEW b \in Batches, Request(b)
      PROVE  OneDeletionAtOnce'
  <2> USE DEF RowsKnown, AloneAgrees, RunAlone, OneDeletionAtOnce, deletion_open,
      Under, TypeOK, Active, Open, Places, Outcomes, Posts, Start0, fixed, rows,
          queue, runs, history
  <2>1. CASE DeleteUploads(b)
    BY <2>1 DEF DeleteUploads, Enqueue, Deletable, Queue!Submit, Queue!BecomePending
  <2>2. CASE StartPurge(b)
    BY <2>2 DEF StartPurge, Enqueue, Deleted, Queue!Submit, Queue!BecomePending
  <2>3. CASE StartSearch(b)
    BY <2>3 DEF StartSearch, Enqueue, Deleted, Queue!Submit, Queue!BecomePending
  <2>4. CASE Finish(b)
    BY <2>4 DEF Finish, Same, Queue!Finish, Queue!Leave
  <2>5. CASE GiveUp(b)
    BY <2>5 DEF GiveUp, Same, Queue!GiveUp
  <2>6. CASE Revive(b)
    BY <2>6 DEF Revive, Same, Queue!Revive, Queue!BecomePending
  <2>7. CASE Discard(b)
    BY <2>7 DEF Discard, Same, Queue!Discard, Queue!Leave
  <2> HIDE DEF RowsKnown, AloneAgrees, RunAlone, OneDeletionAtOnce, deletion_open,
      Under, TypeOK, Active, Open, Places, Outcomes, Posts, Start0, fixed, rows,
          queue, runs, history
  <2>8. ASSUME NEW p \in Posts, FindsOther(b, p)
        PROVE  OneDeletionAtOnce'
    BY <2>8, FindsOtherDoes DEF OneDeletionAtOnce, Open
  <2> QED
    BY <1>2, <2>1, <2>2, <2>3, <2>4, <2>5, <2>6, <2>7, <2>8 DEF Request
<1>3. ASSUME NEW r \in Runs, Work(r)
      PROVE  OneDeletionAtOnce'
  <2>1. CASE Start(r)
    BY <1>3, <2>1, StartDoes, RunTypes DEF AloneAgrees, RunAlone, OneDeletionAtOnce,
        Open, Under, Active
  <2> USE DEF RowsKnown, AloneAgrees, RunAlone, OneDeletionAtOnce, deletion_open,
      Under, TypeOK, Active, Open, Places, Outcomes, Posts, Start0, fixed, rows,
          queue, runs, history
  <2>2. ASSUME NEW b \in Batches, Begin(r, b)
        PROVE  OneDeletionAtOnce'
    BY SMTT(30), <2>2 DEF Begin, Same, Queue!Begin
  <2>3. CASE Return(r)
    BY <2>3 DEF Return, Same, End, Queue!Return
  <2>4. CASE Crash(r)
    BY SMTT(30), <2>4 DEF Crash, Same, End
  <2>5. CASE StatementFails(r)
    BY <2>5 DEF StatementFails, Same, GiveBack, Go
  <2>6. CASE ReadBatch(r)
    BY <2>6 DEF ReadBatch, ToBeDone, Same, Go
  <2>7. CASE FindFinished(r)
    BY <2>7 DEF FindFinished, ToBeDone, Same, GiveBack, Go
  <2>8. CASE List(r)
    BY <2>8 DEF List, Listed, Wanted, Deletable, Deleted, Same, Go
  <2>9. CASE NoneLeft(r)
    BY <2>9 DEF NoneLeft, Listed, Wanted, Deletable, Deleted, Same, Go
  <2>10. CASE Refuse(r)
    BY <2>10 DEF Refuse, Same, Go
  <2>11. CASE DeletePage(r)
    BY <2>11 DEF DeletePage, Deletable, Unsteady, Onward, Go
  <2>12. ASSUME NEW p \in Posts, Mark(r, p)
        PROVE  OneDeletionAtOnce'
    BY SMTT(30), <2>12 DEF Mark, IsNext, Go
  <2>13. ASSUME NEW p \in Posts, Skip(r, p)
        PROVE  OneDeletionAtOnce'
    BY SMTT(30), <2>13 DEF Skip, IsNext, WentAs, Unsteady, Go
  <2>14. ASSUME NEW p \in Posts, PurgeFails(r, p)
        PROVE  OneDeletionAtOnce'
    BY SMTT(30), <2>14 DEF PurgeFails, IsNext, WentAs, Same, Go
  <2>15. ASSUME NEW p \in Posts, FinishPurge(r, p)
        PROVE  OneDeletionAtOnce'
    BY SMTT(30), <2>15 DEF FinishPurge, IsNext, WentAs, Unsteady, Go
  <2>16. ASSUME NEW p \in Posts, FindPurged(r, p)
        PROVE  OneDeletionAtOnce'
    BY SMTT(30), <2>16 DEF FindPurged, IsNext, WentAs, Same, Go
  <2>17. ASSUME NEW p \in Posts, NextPost(r, p)
        PROVE  OneDeletionAtOnce'
    BY SMTT(30), <2>17 DEF NextPost, Record, Counted, IsNext, Go
  <2>18. ASSUME NEW p \in Posts, NextPage(r, p)
        PROVE  OneDeletionAtOnce'
    BY <2>18 DEF NextPage, Record, Counted, IsNext, Onward, Go
  <2>19. CASE RemoveFiles(r)
    BY <2>19 DEF RemoveFiles, Same, Go
  <2>20. CASE StopFailing(r)
    BY <2>20 DEF StopFailing, Same, GiveBack, Go
  <2>21. CASE Complete(r)
    BY <2>21 DEF Complete, GiveBack, Go
  <2>22. CASE Fail(r)
    BY <2>22 DEF Fail, GiveBack, Go
  <2> HIDE DEF RowsKnown, AloneAgrees, RunAlone, OneDeletionAtOnce, deletion_open,
      Under, TypeOK, Active, Open, Places, Outcomes, Posts, Start0, fixed, rows,
          queue, runs, history
  <2> QED
    BY <1>3, <2>1, <2>2, <2>3, <2>4, <2>5, <2>6, <2>7, <2>8, <2>9, <2>10, <2>11,
        <2>12, <2>13, <2>14, <2>15, <2>16, <2>17, <2>18, <2>19, <2>20, <2>21, <2>22
            DEF Work
<1>4. CASE UNCHANGED vars
  BY <1>4 DEF vars, RowsKnown, AloneAgrees, RunAlone, OneDeletionAtOnce,
      deletion_open, Under, TypeOK, Active, Open, Places, Outcomes, Posts, Start0,
          fixed, rows, queue, runs, history
<1> QED
  BY <1>1, <1>2, <1>3, <1>4 DEF Next

\* Counting the next post lets go of no other that the batch marked.
LEMMA RecordForgetsNone ==
    ASSUME TypeOK, RowsKnown, RunsAgree, AloneAgrees, MarkersKnown, NoneLeftHalfway,
           NEW r \in Runs, NEW p \in Posts, Record(r, p)
    PROVE  (MarkersKnown /\ NoneLeftHalfway)'
<1>1. /\ at[r] = "counting" /\ IsNext(r, p) /\ resume'[works[r]] = p
      /\ UNCHANGED <<post, kind, targets, status, strayed, marker, overlapped>>
      /\ failed'[works[r]] = (IF result[r] = "failed" THEN failed[works[r]] \cup {p}
                                                     ELSE failed[works[r]])
      /\ \A c \in Batches : c # works[r] => resume'[c] = resume[c] /\ failed'[c] = failed[c]
  BY RecordDoes
<1>2. MarkersKnown'
  BY <1>1 DEF MarkersKnown
<1>3. ASSUME NEW q \in Posts, NEW b \in Batches \ overlapped,
             post[q] = "purging", marker[q] = b
      PROVE  \/ q \in failed'[b] \cup strayed[b]
             \/ Open(b) /\ q < resume'[b]
             \/ status[b] = "failed"
  <2>1. \/ q \in failed[b] \cup strayed[b]
        \/ Open(b) /\ q < resume[b]
        \/ status[b] = "failed"
    BY <1>3 DEF NoneLeftHalfway
  <2>2. CASE b # works[r]
    BY <1>1, <2>1, <2>2
  <2>3. CASE b = works[r] /\ q \in failed[b] \cup strayed[b]
    BY <1>1, <2>3
  <2>4. CASE b = works[r] /\ q \notin failed[b] \cup strayed[b]
    <3>1. Active(r) /\ Under(r) /\ RunAlone(r) /\ RunAgrees(r)
      BY <1>1 DEF Under, Active, AloneAgrees, RunsAgree
    <3>2. q \in Nat /\ p \in Nat /\ last[r] \in Nat /\ resume[works[r]] \in Nat
      BY <3>1, RunTypes
    <3>3. p >= last[r]
      BY <1>1, <3>1 DEF RunAgrees, IsNext
    <3>4. Open(b)
      BY <1>3, <2>4, <3>1 DEF RunAlone
    <3>5. q < resume[b]
      BY <2>1, <2>4, <3>4 DEF Open
    <3>6. CASE q < p
      BY <1>1, <2>4, <3>4, <3>6
    <3>7. CASE q >= p
      <4>1. q \in page[r]
        BY <1>1, <1>3, <2>4, <3>1, <3>2, <3>3, <3>5, <3>7 DEF RunAlone
      <4>2. q = p
        BY <1>1, <3>2, <3>7, <4>1 DEF IsNext
      <4>3. result[r] = "failed"
        BY <1>1, <1>3, <2>4, <3>1, <4>2 DEF RunAlone
      <4> QED
        BY <1>1, <2>4, <4>2, <4>3
    <3> QED
      BY <3>2, <3>6, <3>7
  <2> QED
    BY <2>2, <2>3, <2>4
<1> QED
  BY <1>1, <1>2, <1>3 DEF NoneLeftHalfway, Open

\* A run lists again, of what its search had strayed from, posts it comes to.
LEMMA ListForgetsNone ==
    ASSUME TypeOK, RowsKnown, AloneAgrees, MarkersKnown, NoneLeftHalfway,
           NEW r \in Runs, List(r)
    PROVE  (MarkersKnown /\ NoneLeftHalfway)'
<1> DEFINE b == works[r]
<1>1. /\ at[r] = "listing" /\ Under(r) /\ b \in Batches
      /\ page'[r] = {q \in Posts : q \in Wanted(b) /\ q < before[r] /\ q >= last'[r]}
      /\ UNCHANGED <<post, kind, targets, status, resume, failed, marker, overlapped>>
      /\ \A c \in Batches : c # b => strayed'[c] = strayed[c]
      /\ \A q \in Posts : q \in strayed[b] => q \in page'[r] \/ q \in strayed'[b]
  BY ListDoes, RunTypes DEF Under, Active
<1>2. kind[b] # "delete" => Wanted(b) \subseteq targets[b]
  BY <1>1 DEF Wanted, TypeOK
<1>3. MarkersKnown'
  BY <1>1, <1>2 DEF MarkersKnown
<1>4. b \notin overlapped => \A q \in page'[r] : Open(b) /\ q < resume[b]
  BY <1>1 DEF AloneAgrees, RunAlone
<1>5. NoneLeftHalfway'
  BY <1>1, <1>4 DEF NoneLeftHalfway, Open
<1> QED
  BY <1>3, <1>5

\* No step forgets what a batch marked.
LEMMA HalfwayStep == TypeOK /\ RowsKnown /\ RunsAgree /\ OverlapsNoted /\ AloneAgrees
    /\ MarkersKnown /\ NoneLeftHalfway /\ [Next]_vars => (MarkersKnown /\
        NoneLeftHalfway)'
<1> SUFFICES ASSUME TypeOK, RowsKnown, RunsAgree, OverlapsNoted, AloneAgrees,
    MarkersKnown, NoneLeftHalfway, [Next]_vars
             PROVE  (MarkersKnown /\ NoneLeftHalfway)'
  OBVIOUS
<1>1. ASSUME NEW p \in Posts, Moderate(p)
      PROVE  (MarkersKnown /\ NoneLeftHalfway)'
  <2> USE DEF RowsKnown, RunsAgree, RunAgrees, OverlapsNoted, AloneAgrees, RunAlone,
      MarkersKnown, NoneLeftHalfway, Under, InPage, IsNext, TypeOK, Active, Open,
          Places, Outcomes, Posts, Start0, fixed, rows, queue, runs, history
  <2>1. CASE Upload(p)
    BY <2>1 DEF Upload, Others, Unsteady
  <2>2. CASE Delete(p)
    BY <2>2 DEF Delete, Others, Unsteady
  <2>3. CASE Restore(p)
    BY <2>3 DEF Restore, Others, Unsteady
  <2>4. CASE MarkAlone(p)
    BY <2>4 DEF MarkAlone, Others
  <2>5. CASE FinishAlone(p)
    BY <2>5 DEF FinishAlone, Others, Unsteady
  <2> HIDE DEF RowsKnown, RunsAgree, RunAgrees, OverlapsNoted, AloneAgrees, RunAlone,
      MarkersKnown, NoneLeftHalfway, Under, InPage, IsNext, TypeOK, Active, Open,
          Places, Outcomes, Posts, Start0, fixed, rows, queue, runs, history
  <2> QED
    BY <1>1, <2>1, <2>2, <2>3, <2>4, <2>5 DEF Moderate
<1>2. ASSUME NEW b \in Batches, Request(b)
      PROVE  (MarkersKnown /\ NoneLeftHalfway)'
  <2> USE DEF RowsKnown, RunsAgree, RunAgrees, OverlapsNoted, AloneAgrees, RunAlone,
      MarkersKnown, NoneLeftHalfway, Under, InPage, IsNext, TypeOK, Active, Open,
          Places, Outcomes, Posts, Start0, fixed, rows, queue, runs, history
  <2>1. CASE DeleteUploads(b)
    BY <2>1 DEF DeleteUploads, Enqueue, Deletable, Queue!Submit, Queue!BecomePending
  <2>2. CASE StartPurge(b)
    BY <2>2 DEF StartPurge, Enqueue, Deleted, Queue!Submit, Queue!BecomePending
  <2>3. CASE StartSearch(b)
    BY <2>3 DEF StartSearch, Enqueue, Deleted, Queue!Submit, Queue!BecomePending
  <2>4. CASE Finish(b)
    BY <2>4 DEF Finish, Same, Queue!Finish, Queue!Leave
  <2>5. CASE GiveUp(b)
    BY <2>5 DEF GiveUp, Same, Queue!GiveUp
  <2>6. CASE Revive(b)
    BY <2>6 DEF Revive, Same, Queue!Revive, Queue!BecomePending
  <2>7. CASE Discard(b)
    BY <2>7 DEF Discard, Same, Queue!Discard, Queue!Leave
  <2> HIDE DEF RowsKnown, RunsAgree, RunAgrees, OverlapsNoted, AloneAgrees, RunAlone,
      MarkersKnown, NoneLeftHalfway, Under, InPage, IsNext, TypeOK, Active, Open,
          Places, Outcomes, Posts, Start0, fixed, rows, queue, runs, history
  <2>8. ASSUME NEW p \in Posts, FindsOther(b, p)
        PROVE  (MarkersKnown /\ NoneLeftHalfway)'
    BY <2>8, FindsOtherDoes DEF MarkersKnown, NoneLeftHalfway, Open
  <2> QED
    BY <1>2, <2>1, <2>2, <2>3, <2>4, <2>5, <2>6, <2>7, <2>8 DEF Request
<1>3. ASSUME NEW r \in Runs, Work(r)
      PROVE  (MarkersKnown /\ NoneLeftHalfway)'
  <2>1. CASE DeletePage(r)
    <3>1. MarkersKnown'
      BY <2>1, DeletePageDoes, RunTypes DEF MarkersKnown, Active, RunsAgree, RunAgrees
    <3>2. NoneLeftHalfway'
      <4> SUFFICES ASSUME NEW q \in Posts, NEW c \in Batches \ overlapped,
                          post[q] = "purging", marker[q] = c
                   PROVE  \/ q \in failed[c] \cup strayed[c]
                          \/ Open(c) /\ q < resume'[c]
                          \/ status[c] = "failed"
        BY <2>1, DeletePageDoes DEF NoneLeftHalfway, Open
      <4>1. kind[c] # "delete" /\ kind[works[r]] = "delete" /\ works[r] \in Batches
        BY <2>1, DeletePageDoes, RunTypes DEF MarkersKnown, RunsAgree, RunAgrees, Active
      <4>2. resume'[c] = resume[c]
        BY <2>1, <4>1, DeletePageDoes
      <4> QED
        BY <4>2 DEF NoneLeftHalfway
    <3> QED
      BY <3>1, <3>2
  <2>2. ASSUME NEW p \in Posts, Mark(r, p)
        PROVE  (MarkersKnown /\ NoneLeftHalfway)'
    <3>1. MarkersKnown'
      BY <2>2, MarkDoes, RunTypes DEF MarkersKnown, Active, RunsAgree, RunAgrees
    <3>2. NoneLeftHalfway'
      <4>1. /\ at[r] = "purging" /\ p \in page[r] /\ post[p] \in {"deleted", "purging"}
            /\ UNCHANGED <<status, resume, failed, strayed, overlapped>>
            /\ \A q \in Posts : q # p => post'[q] = post[q] /\ marker'[q] = marker[q]
            /\ marker'[p] = (IF post[p] = "deleted" THEN works[r] ELSE marker[p])
        BY <2>2, MarkDoes
      <4>2. works[r] \notin overlapped => Open(works[r]) /\ p < resume[works[r]]
        BY <4>1 DEF AloneAgrees, RunAlone, Under, InPage, Active
      <4> SUFFICES ASSUME NEW q \in Posts, NEW c \in Batches \ overlapped,
                          post'[q] = "purging", marker'[q] = c
                   PROVE  \/ q \in failed[c] \cup strayed[c]
                          \/ Open(c) /\ q < resume[c]
                          \/ status[c] = "failed"
        BY <4>1 DEF NoneLeftHalfway, Open
      <4>3. CASE post[q] = "purging" /\ marker[q] = c
        BY <4>3 DEF NoneLeftHalfway
      <4>4. CASE q = p /\ c = works[r]
        BY <4>2, <4>4
      <4> QED
        BY <4>1, <4>3, <4>4
    <3> QED
      BY <3>1, <3>2
  <2>3. ASSUME NEW p \in Posts, FinishPurge(r, p)
        PROVE  (MarkersKnown /\ NoneLeftHalfway)'
    <3>1. MarkersKnown'
      BY <2>3, FinishPurgeDoes, RunTypes DEF MarkersKnown, Active, RunsAgree, RunAgrees
    <3>2. NoneLeftHalfway'
      BY <2>3, FinishPurgeDoes DEF NoneLeftHalfway, Open
    <3> QED
      BY <3>1, <3>2
  <2>4. ASSUME NEW p \in Posts, NextPost(r, p)
        PROVE  (MarkersKnown /\ NoneLeftHalfway)'
    BY <2>4, RecordForgetsNone DEF NextPost, NextPage
  <2>5. ASSUME NEW p \in Posts, NextPage(r, p)
        PROVE  (MarkersKnown /\ NoneLeftHalfway)'
    BY <2>5, RecordForgetsNone DEF NextPost, NextPage
  <2>12. CASE Start(r)
    <3>1. /\ Under(r) /\ status'[works[r]] = "running"
          /\ UNCHANGED <<post, kind, targets, resume, failed, strayed, marker, overlapped>>
          /\ \A c \in Batches : c # works[r] => status'[c] = status[c]
      BY <2>12, StartDoes DEF Under, Active
    <3>2. works[r] \notin overlapped => Open(works[r])
      BY <3>1 DEF AloneAgrees, RunAlone
    <3>3. MarkersKnown'
      BY <3>1 DEF MarkersKnown
    <3>4. NoneLeftHalfway'
      BY <3>1, <3>2 DEF NoneLeftHalfway, Open
    <3> QED
      BY <3>3, <3>4
  <2>13. CASE List(r)
    BY <2>13, ListForgetsNone
  <2> USE DEF RowsKnown, RunsAgree, RunAgrees, OverlapsNoted, AloneAgrees, RunAlone,
      MarkersKnown, NoneLeftHalfway, Under, InPage, IsNext, TypeOK, Active, Open,
          Places, Outcomes, Posts, Start0, fixed, rows, queue, runs, history
  <2>6. ASSUME NEW b \in Batches, Begin(r, b)
        PROVE  (MarkersKnown /\ NoneLeftHalfway)'
    BY <2>6 DEF Begin, Same, Queue!Begin
  <2>7. CASE Return(r)
    BY <2>7 DEF Return, Same, End, Queue!Return
  <2>8. CASE Crash(r)
    BY <2>8 DEF Crash, Same, End
  <2>9. CASE StatementFails(r)
    BY <2>9 DEF StatementFails, Same, GiveBack, Go
  <2>10. CASE ReadBatch(r)
    BY <2>10 DEF ReadBatch, ToBeDone, Same, Go
  <2>11. CASE FindFinished(r)
    BY <2>11 DEF FindFinished, ToBeDone, Same, GiveBack, Go
  <2>14. CASE NoneLeft(r)
    BY <2>14 DEF NoneLeft, Listed, Wanted, Deletable, Deleted, Same, Go
  <2>15. CASE Refuse(r)
    BY <2>15 DEF Refuse, Same, Go
  <2>16. ASSUME NEW p \in Posts, Skip(r, p)
        PROVE  (MarkersKnown /\ NoneLeftHalfway)'
    BY <2>16 DEF Skip, IsNext, WentAs, Unsteady, Go
  <2>17. ASSUME NEW p \in Posts, PurgeFails(r, p)
        PROVE  (MarkersKnown /\ NoneLeftHalfway)'
    BY <2>17 DEF PurgeFails, IsNext, WentAs, Same, Go
  <2>18. ASSUME NEW p \in Posts, FindPurged(r, p)
        PROVE  (MarkersKnown /\ NoneLeftHalfway)'
    BY <2>18 DEF FindPurged, IsNext, WentAs, Same, Go
  <2>19. CASE RemoveFiles(r)
    BY <2>19 DEF RemoveFiles, Same, Go
  <2>20. CASE StopFailing(r)
    BY <2>20 DEF StopFailing, Same, GiveBack, Go
  <2>21. CASE Complete(r)
    BY <2>21 DEF Complete, GiveBack, Go
  <2>22. CASE Fail(r)
    BY <2>22 DEF Fail, GiveBack, Go
  <2> HIDE DEF RowsKnown, RunsAgree, RunAgrees, OverlapsNoted, AloneAgrees, RunAlone,
      MarkersKnown, NoneLeftHalfway, Under, InPage, IsNext, TypeOK, Active, Open,
          Places, Outcomes, Posts, Start0, fixed, rows, queue, runs, history
  <2> QED
    BY <1>3, <2>1, <2>2, <2>3, <2>4, <2>5, <2>6, <2>7, <2>8, <2>9, <2>10, <2>11,
        <2>12, <2>13, <2>14, <2>15, <2>16, <2>17, <2>18, <2>19, <2>20, <2>21, <2>22
            DEF Work
<1>4. CASE UNCHANGED vars
  BY <1>4 DEF vars, RowsKnown, RunsAgree, RunAgrees, OverlapsNoted, AloneAgrees,
      RunAlone, MarkersKnown, NoneLeftHalfway, Under, InPage, IsNext, TypeOK, Active,
          Open, Places, Outcomes, Posts, Start0, fixed, rows, queue, runs, history
<1> QED
  BY <1>1, <1>2, <1>3, <1>4 DEF Next

LEMMA Inductive == IInv /\ [Next]_vars => IInv'
BY TypesStep, RowsStep, RunsStep, SteadyStep, MissedStep, DoneStep, OverlapsStep, AloneStep,
   ContentStep, JobStep, DeletionsStep, HalfwayStep DEF IInv

LEMMA Initially == Init => IInv
<1> SUFFICES ASSUME Init
             PROVE  IInv
  OBVIOUS
<1>1. TypeOK
  BY DEF Init, Queue!Init, TypeOK, Places, Outcomes, Posts, Start0
<1>2. RowsKnown /\ RunsAgree /\ SteadyAgrees /\ NoneMissed
  BY DEF Init, Queue!Init, RowsKnown, RunsAgree, SteadyAgrees, NoneMissed, RunAgrees,
    RunMissesNone, Visited, Active, InPage
<1>3. DoneMissesNone /\ OverlapsNoted /\ AloneAgrees /\ ContentWhenFinished
  BY DEF Init, Queue!Init, DoneMissesNone, OverlapsNoted, AloneAgrees, RunAlone, ContentWhenFinished,
    Content, Closed, RunAlone, Active, Under
<1>4. OpenHasJob /\ OneDeletionAtOnce /\ MarkersKnown /\ NoneLeftHalfway
  BY DEF Init, OpenHasJob, OneDeletionAtOnce, MarkersKnown, NoneLeftHalfway, Open
<1> QED
  BY <1>1, <1>2, <1>3, <1>4 DEF IInv

LEMMA Invariant == Spec => []IInv
BY Initially, Inductive, PTL DEF Spec

\* Posts, batches, jobs and runs keep their types.
THEOREM TypeCorrect == Spec => []TypeOK
BY Invariant, PTL DEF IInv

\* A batch that is done missed no post that was all along as it wants them, however
\* many runs, crashes and overlaps it took.
THEOREM BatchesMissNone == Spec => []DoneMissesNone
BY Invariant, PTL DEF IInv

\* A post marked by a batch is counted as failed, or still before the open batch, or the
\* batch says it failed; unless its search strayed from the post, or runs overlapped.
THEOREM NoPostHalfway == Spec => []NoneLeftHalfway
BY Invariant, PTL DEF IInv

\* A batch that is not finished has a job.
THEOREM OpenBatchesHaveJobs == Spec => []OpenHasJob
BY Invariant, PTL DEF IInv

\* Deletions of one user's uploads come one after the other.
THEOREM DeletionsInTurn == Spec => []OneDeletionAtOnce
BY Invariant, PTL DEF IInv
-------------------------------------------------------------------------------
(* Batches implement PostLife.                                             *)

\* The phase of one post moves, and only its.
LEMMA PhaseMoves ==
    ASSUME TypeOK, NEW p \in Posts, NEW to, post' = [post EXCEPT ![p] = to]
    PROVE  [q \in Posts |-> Phase(q)]' = [[q \in Posts |-> Phase(q)] EXCEPT ![p] = Phase(p)']
<1>1. \A q \in Posts \ {p} : Phase(q)' = Phase(q)
  BY DEF TypeOK, Phase
<1> QED
  BY <1>1

\* Of a post that is born already, nothing is approved that was not.
LEMMA ApprovedStay ==
    ASSUME TypeOK, \A p \in Posts : post'[p] = "unborn" <=> post[p] = "unborn"
    PROVE  {p \in Posts : post[p] # "unborn"}' = {p \in Posts : post[p] # "unborn"}
OBVIOUS

\* Posts that are shown are hidden, one of them or several.
LEMMA Hides ==
    ASSUME TypeOK, NEW S \in SUBSET Posts, \A p \in S : post[p] = "shown",
           post' = [p \in Posts |-> IF p \in S THEN "deleted" ELSE post[p]]
    PROVE  Life!Next
<1> DEFINE phases == [q \in Posts |-> Phase(q)]
<1>1. \A p \in S : phases[p] \in {"queued", "shown"}
  BY DEF Phase
<1>2. phases' = [q \in Posts |-> IF q \in S THEN "hidden" ELSE phases[q]]
  BY DEF Phase
<1>3. {p \in Posts : post[p] # "unborn"}' = {p \in Posts : post[p] # "unborn"}
  BY ApprovedStay
<1>4. Life!Hide(S)
  BY <1>1, <1>2, <1>3 DEF Life!Hide
<1> QED
  BY <1>4 DEF Life!Next

\* start_purge, of the job of one post or of a batch
LEMMA Marks ==
    ASSUME TypeOK, NEW p \in Posts, post[p] = "deleted",
           post' = [post EXCEPT ![p] = "purging"]
    PROVE  Life!Next
<1>1. Phase(p) = "hidden" /\ Phase(p)' = "going"
  BY DEF TypeOK, Phase
<1>2. {q \in Posts : post[q] # "unborn"}' = {q \in Posts : post[q] # "unborn"}
  BY ApprovedStay DEF TypeOK
<1>3. Life!Condemn(p)
  BY <1>1, <1>2, PhaseMoves DEF Life!Condemn, Life!Move
<1> QED
  BY <1>3 DEF Life!Next

\* finish_purge, of the job of one post or of a batch
LEMMA Finishes ==
    ASSUME TypeOK, NEW p \in Posts, post[p] = "purging",
           post' = [post EXCEPT ![p] = "gone"]
    PROVE  Life!Next
<1>1. Phase(p) = "going" /\ Phase(p)' = "gone"
  BY DEF TypeOK, Phase
<1>2. {q \in Posts : post[q] # "unborn"}' = {q \in Posts : post[q] # "unborn"}
  BY ApprovedStay DEF TypeOK
<1>3. Life!Remove(p)
  BY <1>1, <1>2, PhaseMoves DEF Life!Remove, Life!Move
<1> QED
  BY <1>3 DEF Life!Next

LEMMA PostsStay == ASSUME post' = post PROVE UNCHANGED Life!vars
<1>1. [p \in Posts |-> Phase(p)]' = [p \in Posts |-> Phase(p)]
  BY DEF Phase
<1>2. {p \in Posts : post[p] # "unborn"}' = {p \in Posts : post[p] # "unborn"}
  OBVIOUS
<1> QED
  BY <1>1, <1>2 DEF Life!vars

\* Every step of a batch, and of those beside it, is one of the posts' lives, or none.
LEMMA LifeStep == TypeOK /\ [Next]_vars => [Life!Next]_(Life!vars)
<1> SUFFICES ASSUME TypeOK, [Next]_vars
             PROVE  [Life!Next]_(Life!vars)
  OBVIOUS
<1>1. ASSUME NEW p \in Posts, Moderate(p)
      PROVE  Life!Next
  <2>1. CASE Upload(p)
    <3>1. Phase(p) = "absent" /\ Phase(p)' = "shown"
      BY <2>1 DEF Upload, TypeOK, Phase
    <3>2. [q \in Posts |-> Phase(q)]' = [[q \in Posts |-> Phase(q)] EXCEPT ![p] = "shown"]
      BY <2>1, <3>1, PhaseMoves DEF Upload
    <3>3. {q \in Posts : post[q] # "unborn"}' = {q \in Posts : post[q] # "unborn"} \cup {p}
      BY <2>1 DEF Upload, TypeOK
    <3>4. Life!Show(p)
      BY <3>1, <3>2, <3>3 DEF Life!Show, Life!Move
    <3> QED
      BY <3>4 DEF Life!Next
  <2>2. CASE Delete(p)
    <3>1. post' = [q \in Posts |-> IF q \in {p} THEN "deleted" ELSE post[q]]
      BY <2>2 DEF Delete, TypeOK
    <3>2. {p} \in SUBSET Posts /\ \A q \in {p} : post[q] = "shown"
      BY <2>2 DEF Delete
    <3> QED
      BY <3>1, <3>2, Hides
  <2>3. CASE Restore(p)
    <3>1. Phase(p) = "hidden" /\ Phase(p)' = "shown"
      BY <2>3 DEF Restore, TypeOK, Phase
    <3>2. [q \in Posts |-> Phase(q)]' = [[q \in Posts |-> Phase(q)] EXCEPT ![p] = "shown"]
      BY <2>3, <3>1, PhaseMoves DEF Restore
    <3>3. /\ {q \in Posts : post[q] # "unborn"}' = {q \in Posts : post[q] # "unborn"}
          /\ p \in {q \in Posts : post[q] # "unborn"}
      BY <2>3, ApprovedStay DEF Restore, TypeOK
    <3>4. Life!Return(p)
      BY <3>1, <3>2, <3>3 DEF Life!Return, Life!Move
    <3> QED
      BY <3>4 DEF Life!Next
  <2>4. CASE MarkAlone(p)
    BY <2>4, Marks DEF MarkAlone
  <2>5. CASE FinishAlone(p)
    BY <2>5, Finishes DEF FinishAlone
  <2> QED
    BY <1>1, <2>1, <2>2, <2>3, <2>4, <2>5 DEF Moderate
<1>2. ASSUME NEW b \in Batches, Request(b)
      PROVE  post' = post
  BY <1>2 DEF Request, DeleteUploads, StartPurge, StartSearch, Enqueue, FindsOther, Finish,
      GiveUp, Revive, Discard, Same
<1>3. ASSUME NEW r \in Runs, Work(r)
      PROVE  Life!Next \/ post' = post
  <2>1. CASE DeletePage(r)
    <3>1. PICK held \in SUBSET page[r] :
            post' = [p \in Posts |-> IF p \in (page[r] \cap Deletable) \ held
                                     THEN "deleted" ELSE post[p]]
      BY <2>1 DEF DeletePage
    <3> DEFINE hidden == (page[r] \cap Deletable) \ held
    <3>2. hidden \in SUBSET Posts /\ \A p \in hidden : post[p] = "shown"
      BY DEF Deletable
    <3> QED
      BY <3>1, <3>2, Hides
  <2>2. ASSUME NEW p \in Posts, Mark(r, p)
        PROVE  Life!Next \/ post' = post
    <3>1. CASE post[p] = "deleted"
      BY <2>2, <3>1, Marks DEF Mark
    <3>2. CASE post[p] = "purging"
      BY <2>2, <3>2 DEF Mark, TypeOK
    <3> QED
      BY <2>2, <3>1, <3>2 DEF Mark
  <2>3. ASSUME NEW p \in Posts, FinishPurge(r, p)
        PROVE  Life!Next
    BY <2>3, Finishes DEF FinishPurge
  <2>4. ASSUME NEW p \in Posts,
               Skip(r, p) \/ PurgeFails(r, p) \/ FindPurged(r, p) \/ NextPost(r, p)
                 \/ NextPage(r, p)
        PROVE  post' = post
    BY <2>4 DEF Skip, PurgeFails, FindPurged, NextPost, NextPage, Record, Same
  <2>5. ASSUME NEW b \in Batches, Begin(r, b)
        PROVE  post' = post
    BY <2>5 DEF Begin, Same
  <2>6. ASSUME \/ Return(r) \/ Crash(r) \/ StatementFails(r) \/ ReadBatch(r)
               \/ FindFinished(r) \/ Start(r) \/ List(r) \/ NoneLeft(r) \/ Refuse(r)
               \/ RemoveFiles(r) \/ StopFailing(r) \/ Complete(r) \/ Fail(r)
        PROVE  post' = post
    BY <2>6 DEF Return, Crash, StatementFails, ReadBatch, FindFinished, Start, List,
        NoneLeft, Refuse, RemoveFiles, StopFailing, Complete, Fail, Same
  <2> QED
    BY <1>3, <2>1, <2>2, <2>3, <2>4, <2>5, <2>6 DEF Work
<1>4. CASE UNCHANGED vars
  BY <1>4, PostsStay DEF vars
<1> QED
  BY <1>1, <1>2, <1>3, <1>4, PostsStay DEF Next

\* Batches, however their runs stop, repeat and overlap, and those who moderate the same
\* posts beside them, let each post live the life that moderation promises (PostLife).
THEOREM PostsLiveAsPromised == Spec => LivesAsPromised
<1>1. Init => Life!Init
  BY DEF Init, Life!Init, Phase
<1>2. TypeOK /\ [Next]_vars => [Life!Next]_(Life!vars)
  BY LifeStep
<1> QED
  BY <1>1, <1>2, TypeCorrect, PTL DEF Spec, LivesAsPromised, Life!Spec
-------------------------------------------------------------------------------
(* Batches ask no more of the queue than AtLeastOnce promises.             *)

LEMMA QueueStep == IInv /\ [Next]_vars => [Queue!Next]_(Queue!vars)
<1> SUFFICES ASSUME IInv, [Next]_vars
             PROVE  Queue!Next \/ UNCHANGED queue
  BY DEF Queue!vars, queue
<1>1. ASSUME NEW p \in Posts, Moderate(p)
      PROVE  UNCHANGED queue
  BY <1>1 DEF Moderate, Upload, Delete, Restore, MarkAlone, FinishAlone, Others
<1>2. ASSUME NEW b \in Batches, Request(b)
      PROVE  Queue!Next \/ UNCHANGED queue
  <2>1. \/ Queue!Submit(b) \/ Queue!Finish(b) \/ Queue!GiveUp({b}) \/ Queue!Revive(b)
        \/ Queue!Discard(b) \/ UNCHANGED queue
    BY <1>2 DEF Request, DeleteUploads, StartPurge, StartSearch, Enqueue, FindsOther, Finish,
        GiveUp, Revive, Discard
  <2>2. {b} \in SUBSET Batches
    OBVIOUS
  <2> QED
    BY <2>1, <2>2 DEF Queue!Next
<1>3. ASSUME NEW r \in Runs, Work(r)
      PROVE  Queue!Next \/ UNCHANGED queue
  <2>1. ASSUME NEW b \in Batches, Begin(r, b)
        PROVE  Queue!Next
    BY <2>1 DEF Begin, Queue!Next
  <2>2. CASE Return(r)
    <3>1. works[r] \in Batches /\ result[r] \in {"ok", "retry", "permanent"}
      BY <2>2 DEF Return, IInv, RowsKnown, RunsAgree, RunAgrees, Active
    <3> QED
      BY <2>2, <3>1 DEF Return, Queue!Next
  <2>3. ASSUME NEW p \in Posts,
               \/ Mark(r, p) \/ Skip(r, p) \/ PurgeFails(r, p) \/ FinishPurge(r, p)
               \/ FindPurged(r, p) \/ NextPost(r, p) \/ NextPage(r, p)
        PROVE  UNCHANGED queue
    BY <2>3 DEF Mark, Skip, PurgeFails, FinishPurge, FindPurged, NextPost, NextPage, Record
  <2>4. ASSUME \/ Crash(r) \/ StatementFails(r) \/ ReadBatch(r) \/ FindFinished(r)
               \/ Start(r) \/ List(r) \/ NoneLeft(r) \/ Refuse(r) \/ DeletePage(r)
               \/ RemoveFiles(r) \/ StopFailing(r) \/ Complete(r) \/ Fail(r)
        PROVE  UNCHANGED queue
    BY <2>4 DEF Crash, StatementFails, ReadBatch, FindFinished, Start, List, NoneLeft,
        Refuse, DeletePage, RemoveFiles, StopFailing, Complete, Fail
  <2> QED
    BY <1>3, <2>1, <2>2, <2>3, <2>4 DEF Work
<1>4. CASE UNCHANGED vars
  BY <1>4 DEF vars
<1> QED
  BY <1>1, <1>2, <1>3, <1>4 DEF Next

\* However batches are requested, worked on, crashed and retried, what they see of their
\* jobs is what the queue promises (and JobQueue keeps).
THEOREM BatchesTrustTheQueue == Spec => Queue!Spec
<1>1. Init => Queue!Init
  BY DEF Init
<1> QED
  BY <1>1, QueueStep, Invariant, PTL DEF Spec, Queue!Spec

Promised == INSTANCE AtLeastOnceProofs WITH Jobs <- Batches

LEMMA PromisedToo == Spec => Promised!Spec
<1>1. Init => Promised!Init
  BY DEF Init, Queue!Init, Promised!Init
<1>2. IInv /\ [Next]_vars => [Promised!Next]_(Promised!vars)
  BY QueueStep DEF Queue!vars, Promised!vars, Queue!Next, Promised!Next, Queue!Submit,
      Promised!Submit, Queue!Revive, Promised!Revive, Queue!Begin, Promised!Begin,
      Queue!Return, Promised!Return, Queue!Finish, Promised!Finish, Queue!Discard,
      Promised!Discard, Queue!GiveUp, Promised!GiveUp, Queue!BecomePending,
      Promised!BecomePending, Queue!Leave, Promised!Leave
<1> QED
  BY <1>1, <1>2, Invariant, PTL DEF Spec, Promised!Spec

\* A batch that is not finished is given up for dead only when it was begun as often as it
\* may be: only one with an invalid search, which is marked as failed first, fails for good.
StoppedWasTried ==
    \A b \in Batches \ overlapped : Open(b) /\ state[b] = "dead" => begun[b] = Allowed[b]

\* No error stops a batch half-way before its last attempt.
THEOREM StoppedBatchesWereTried == Spec => []StoppedWasTried
<1>1. Promised!Spec => []Promised!DeadForAReason
  BY AllowedAssumption, Promised!NoneDiesEarly
<1>2. IInv /\ Promised!DeadForAReason => StoppedWasTried
  BY DEF Promised!DeadForAReason, IInv, ContentWhenFinished, Closed, StoppedWasTried
<1> QED
  BY <1>1, <1>2, PromisedToo, Invariant, PTL
===============================================================================
