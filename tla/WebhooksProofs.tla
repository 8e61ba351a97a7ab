---------------------------- MODULE WebhooksProofs ----------------------------
(***************************************************************************)
(* Theorems about Webhooks, for any deliveries, runs, attempts and         *)
(* PauseAfter.                                                             *)
(***************************************************************************)
EXTENDS Webhooks, FiniteSetTheorems, TLAPS

\* A run that is going on has a delivery; one whose webhook moved has read it.
RunsAgree ==
    /\ \A r \in Runs : Active(r) => sends[r] \in Deliveries
    /\ \A r \in strays : HasRead(r)

\* Two runs of a delivery at once are noted.
OverlapsNoted ==
    \A r, s \in Runs :
        r # s /\ Active(r) /\ Active(s) /\ sends[r] = sends[s] => sends[r] \in overlapped

\* A delivery that has a job or a run had a row, and lost it only for good.
RowsKnown ==
    /\ \A d \in Deliveries : state[d] # "absent" => status[d] # "none" \/ d \in closed
    /\ \A r \in Runs : Active(r) => status[sends[r]] # "none" \/ sends[r] \in closed
    /\ ~there => \A d \in Deliveries : status[d] = "none"

\* Past its look at the delivery, and before it has recorded what came of it.
Under(r) == Active(r) /\ at[r] \notin {"begun", "done"}

\* Nothing is under way for a delivery that was made.
DeliveredAlone ==
    \A r \in Runs : Under(r) /\ status[sends[r]] = "delivered" => sends[r] \in overlapped

Settled(d) == status[d] = "delivered" \/ d \in closed \cup overlapped

\* A run is content only with a delivery that is settled.
ContentWhenSettled ==
    /\ \A r \in Runs : at[r] = "done" /\ result[r] = "ok" => Settled(sends[r])
    /\ \A d \in Deliveries : "ok" \in results[d] => Settled(d)

AnswersAreTrue ==
    \A r \in Runs : answer[r].reply = "success" => Active(r) /\ sends[r] \in accepted

\* What was ever counted against the receiver was its own, or a stray's.
Counted ==
    /\ paused => failures >= PauseAfter
    /\ failures + Cardinality(strays) <= own + Cardinality(Runs)

IInv ==
    /\ TypeOK
    /\ RunsAgree
    /\ OverlapsNoted
    /\ RowsKnown
    /\ DeliveredAlone
    /\ ContentWhenSettled
    /\ NothingForgotten
    /\ AnswersAreTrue
    /\ DeliveredWasAccepted
    /\ Counted

USE NoneAssumption, PauseAfterAssumption, AllowedAssumption

-------------------------------------------------------------------------------

\* What a note changes.
LEMMA NoteCases ==
    ASSUME TypeOK, NEW r \in Runs, Note(r)
    PROVE  \/ paused' = FALSE /\ failures' = 0 /\ own' \in {0, own}
           \/ paused' = paused /\ failures' = failures /\ own' = own
           \/ /\ failures' = failures + 1
              /\ own' = IF r \in strays THEN own ELSE own + 1
              /\ paused' <=> failures' >= PauseAfter
              /\ paused' \in BOOLEAN
<1>1. CASE ~there
  BY <1>1 DEF Note
<1>2. CASE there /\ answer[r].whole
  BY <1>2 DEF Note
<1>3. CASE there /\ ~answer[r].whole
  <2>1. failures' = failures + 1 /\ paused' = (failures + 1 >= PauseAfter)
    BY <1>3 DEF Note
  <2>2. own' = IF r \in strays THEN own ELSE own + 1
    BY <1>3 DEF Note
  <2>3. (failures + 1 >= PauseAfter) \in BOOLEAN
    OBVIOUS
  <2>4. paused' \in BOOLEAN /\ (paused' <=> failures' >= PauseAfter)
    BY <2>1, <2>3, Zenon
  <2> QED
    BY <2>1, <2>2, <2>4
<1> QED
  BY <1>1, <1>2, <1>3

\* Every step keeps the types.
LEMMA TypesStep == TypeOK /\ RunsAgree /\ [Next]_vars => TypeOK'
<1> SUFFICES ASSUME TypeOK, RunsAgree, [Next]_vars
             PROVE  TypeOK'
  OBVIOUS
<1> USE DEF TypeOK, RunsAgree, Active, HasRead, Replies, Results, Places, NoAnswer,
    hook, deliveries, queue, runs, history
<1>1. ASSUME NEW d \in Deliveries, NEW ping \in BOOLEAN, Emit(d, ping)
      PROVE  TypeOK'
  BY <1>1 DEF Emit, Queue!Submit, Queue!BecomePending
<1>2. ASSUME NEW on \in BOOLEAN, NEW moves \in BOOLEAN, NEW to \in BOOLEAN, Edit(on,
    moves, to)
      PROVE  TypeOK'
  <2>1. enabled' \in BOOLEAN /\ public' \in BOOLEAN
    BY <1>2 DEF Edit
  <2>2. paused' \in BOOLEAN
    BY <1>2 DEF Edit
  <2>3. failures' \in Nat /\ own' \in Nat
    BY <1>2 DEF Edit
  <2>4. strays' \subseteq Runs
    BY <1>2 DEF Edit
  <2> QED
    BY <1>2, <2>1, <2>2, <2>3, <2>4 DEF Edit
<1>3. ASSUME Delete
      PROVE  TypeOK'
  BY ZenonT(30), <1>3 DEF Delete
<1>4. ASSUME NEW d \in Deliveries, Prune(d)
      PROVE  TypeOK'
  BY <1>4 DEF Prune
<1>5. ASSUME PauseEnds
      PROVE  TypeOK'
  BY <1>5 DEF PauseEnds
<1>6. ASSUME NEW r \in Runs, NEW d \in Deliveries, Begin(r, d)
      PROVE  TypeOK'
  BY <1>6 DEF Begin, Queue!Begin
<1>7. ASSUME NEW r \in Runs, Return(r)
      PROVE  TypeOK'
  BY <1>7 DEF Return, End, Queue!Return
<1>8. ASSUME NEW r \in Runs, StatementFails(r)
      PROVE  TypeOK'
  BY <1>8 DEF StatementFails
<1>9. ASSUME NEW r \in Runs, Crash(r)
      PROVE  TypeOK'
  BY <1>9 DEF Crash, End
<1>10. ASSUME NEW d \in Deliveries, Finish(d)
      PROVE  TypeOK'
  BY <1>10 DEF Finish, Queue!Finish, Queue!Leave
<1>11. ASSUME NEW d \in Deliveries, GiveUp(d)
      PROVE  TypeOK'
  BY <1>11 DEF GiveUp, Queue!GiveUp
<1>12. ASSUME NEW d \in Deliveries, Revive(d)
      PROVE  TypeOK'
  BY <1>12 DEF Revive, Queue!Revive, Queue!BecomePending
<1>13. ASSUME NEW d \in Deliveries, Discard(d)
      PROVE  TypeOK'
  BY <1>13 DEF Discard, Queue!Discard, Queue!Leave
<1>14. ASSUME NEW r \in Runs, ReadDelivery(r)
      PROVE  TypeOK'
  <2>1. CASE status[sends[r]] \in {"none", "delivered"}
    BY SMTT(30), <1>14, <2>1 DEF ReadDelivery, GiveBack, Go
  <2>2. CASE status[sends[r]] \notin {"none", "delivered"}
    BY <1>14, <2>2 DEF ReadDelivery, GiveBack, Go
  <2> QED
    BY <2>1, <2>2
<1>15. ASSUME NEW r \in Runs, ReadHook(r)
      PROVE  TypeOK'
  BY ZenonT(30), <1>15 DEF ReadHook, GiveBack, Go, Course
<1>16. ASSUME NEW r \in Runs, Send(r)
      PROVE  TypeOK'
  BY <1>16 DEF Send, Go
<1>17. ASSUME NEW r \in Runs, Note(r)
      PROVE  TypeOK'
  <2>1. failures' \in Nat /\ own' \in Nat
    BY <1>17 DEF Note, Go
  <2>2. paused' \in BOOLEAN
    BY <1>17, NoteCases 
  <2>3. at' \in [Runs -> Places] /\ strays' \subseteq Runs
    BY <1>17 DEF Note, Go
  <2> QED
    BY <1>17, <2>1, <2>2, <2>3 DEF Note, Go
<1>18. ASSUME NEW r \in Runs, Record(r)
      PROVE  TypeOK'
  BY <1>18 DEF Record, Write, GiveBack, Go, Taken, Returned
<1>19. ASSUME NEW r \in Runs, RecordOff(r)
      PROVE  TypeOK'
  BY <1>19 DEF RecordOff, Write, GiveBack, Go
<1>20. ASSUME NEW r \in Runs, RecordPause(r)
      PROVE  TypeOK'
  BY <1>20 DEF RecordPause, Write, GiveBack, Go
<1>21. CASE UNCHANGED vars
  BY <1>21 DEF vars
<1> HIDE DEF TypeOK, RunsAgree, Active, HasRead, Replies, Results, Places, NoAnswer,
    hook, deliveries, queue, runs, history
<1> QED
  BY <1>1, <1>2, <1>3, <1>4, <1>5, <1>6, <1>7, <1>8, <1>9, <1>10, <1>11, <1>12,
      <1>13, <1>14, <1>15, <1>16, <1>17, <1>18, <1>19, <1>20, <1>21
  DEF Next, Manage, Schedule, Deliver
\* Every step keeps runs with their deliveries.
LEMMA RunsStep == TypeOK /\ RunsAgree /\ [Next]_vars => RunsAgree'
<1> SUFFICES ASSUME TypeOK, RunsAgree, [Next]_vars
             PROVE  RunsAgree'
  OBVIOUS
<1> USE DEF TypeOK, RunsAgree, Active, HasRead, Replies, Results, Places, NoAnswer,
    hook, deliveries, queue, runs, history
<1>1. ASSUME NEW d \in Deliveries, NEW ping \in BOOLEAN, Emit(d, ping)
      PROVE  RunsAgree'
  BY <1>1 DEF Emit, Queue!Submit, Queue!BecomePending
<1>2. ASSUME NEW on \in BOOLEAN, NEW moves \in BOOLEAN, NEW to \in BOOLEAN, Edit(on,
    moves, to)
      PROVE  RunsAgree'
  BY <1>2 DEF Edit
<1>3. ASSUME Delete
      PROVE  RunsAgree'
  BY <1>3 DEF Delete
<1>4. ASSUME NEW d \in Deliveries, Prune(d)
      PROVE  RunsAgree'
  BY <1>4 DEF Prune
<1>5. ASSUME PauseEnds
      PROVE  RunsAgree'
  BY <1>5 DEF PauseEnds
<1>6. ASSUME NEW r \in Runs, NEW d \in Deliveries, Begin(r, d)
      PROVE  RunsAgree'
  BY <1>6 DEF Begin, Queue!Begin
<1>7. ASSUME NEW r \in Runs, Return(r)
      PROVE  RunsAgree'
  BY <1>7 DEF Return, End, Queue!Return
<1>8. ASSUME NEW r \in Runs, StatementFails(r)
      PROVE  RunsAgree'
  BY <1>8 DEF StatementFails
<1>9. ASSUME NEW r \in Runs, Crash(r)
      PROVE  RunsAgree'
  BY <1>9 DEF Crash, End
<1>10. ASSUME NEW d \in Deliveries, Finish(d)
      PROVE  RunsAgree'
  BY <1>10 DEF Finish, Queue!Finish, Queue!Leave
<1>11. ASSUME NEW d \in Deliveries, GiveUp(d)
      PROVE  RunsAgree'
  BY <1>11 DEF GiveUp, Queue!GiveUp
<1>12. ASSUME NEW d \in Deliveries, Revive(d)
      PROVE  RunsAgree'
  BY <1>12 DEF Revive, Queue!Revive, Queue!BecomePending
<1>13. ASSUME NEW d \in Deliveries, Discard(d)
      PROVE  RunsAgree'
  BY <1>13 DEF Discard, Queue!Discard, Queue!Leave
<1>14. ASSUME NEW r \in Runs, ReadDelivery(r)
      PROVE  RunsAgree'
  BY <1>14 DEF ReadDelivery, GiveBack, Go
<1>15. ASSUME NEW r \in Runs, ReadHook(r)
      PROVE  RunsAgree'
  BY <1>15 DEF ReadHook, GiveBack, Go, Course
<1>16. ASSUME NEW r \in Runs, Send(r)
      PROVE  RunsAgree'
  BY <1>16 DEF Send, Go
<1>17. ASSUME NEW r \in Runs, Note(r)
      PROVE  RunsAgree'
  BY <1>17 DEF Note, Go
<1>18. ASSUME NEW r \in Runs, Record(r)
      PROVE  RunsAgree'
  BY <1>18 DEF Record, Write, GiveBack, Go, Taken, Returned
<1>19. ASSUME NEW r \in Runs, RecordOff(r)
      PROVE  RunsAgree'
  BY <1>19 DEF RecordOff, Write, GiveBack, Go
<1>20. ASSUME NEW r \in Runs, RecordPause(r)
      PROVE  RunsAgree'
  BY <1>20 DEF RecordPause, Write, GiveBack, Go
<1>21. CASE UNCHANGED vars
  BY <1>21 DEF vars
<1> HIDE DEF TypeOK, RunsAgree, Active, HasRead, Replies, Results, Places, NoAnswer,
    hook, deliveries, queue, runs, history
<1> QED
  BY <1>1, <1>2, <1>3, <1>4, <1>5, <1>6, <1>7, <1>8, <1>9, <1>10, <1>11, <1>12,
      <1>13, <1>14, <1>15, <1>16, <1>17, <1>18, <1>19, <1>20, <1>21
  DEF Next, Manage, Schedule, Deliver
\* Every step notes the overlaps.
LEMMA OverlapsStep == TypeOK /\ RunsAgree /\ OverlapsNoted /\ [Next]_vars =>
    OverlapsNoted'
<1> SUFFICES ASSUME TypeOK, RunsAgree, OverlapsNoted, [Next]_vars
             PROVE  OverlapsNoted'
  OBVIOUS
<1> USE DEF OverlapsNoted, TypeOK, RunsAgree, Active, HasRead, Replies, Results,
    Places, NoAnswer, hook, deliveries, queue, runs, history
<1>1. ASSUME NEW d \in Deliveries, NEW ping \in BOOLEAN, Emit(d, ping)
      PROVE  OverlapsNoted'
  BY <1>1 DEF Emit, Queue!Submit, Queue!BecomePending
<1>2. ASSUME NEW on \in BOOLEAN, NEW moves \in BOOLEAN, NEW to \in BOOLEAN, Edit(on,
    moves, to)
      PROVE  OverlapsNoted'
  BY <1>2 DEF Edit
<1>3. ASSUME Delete
      PROVE  OverlapsNoted'
  BY <1>3 DEF Delete
<1>4. ASSUME NEW d \in Deliveries, Prune(d)
      PROVE  OverlapsNoted'
  BY <1>4 DEF Prune
<1>5. ASSUME PauseEnds
      PROVE  OverlapsNoted'
  BY <1>5 DEF PauseEnds
<1>6. ASSUME NEW r \in Runs, NEW d \in Deliveries, Begin(r, d)
      PROVE  OverlapsNoted'
  BY <1>6 DEF Begin, Queue!Begin
<1>7. ASSUME NEW r \in Runs, Return(r)
      PROVE  OverlapsNoted'
  BY <1>7 DEF Return, End, Queue!Return
<1>8. ASSUME NEW r \in Runs, StatementFails(r)
      PROVE  OverlapsNoted'
  BY <1>8 DEF StatementFails
<1>9. ASSUME NEW r \in Runs, Crash(r)
      PROVE  OverlapsNoted'
  BY <1>9 DEF Crash, End
<1>10. ASSUME NEW d \in Deliveries, Finish(d)
      PROVE  OverlapsNoted'
  BY <1>10 DEF Finish, Queue!Finish, Queue!Leave
<1>11. ASSUME NEW d \in Deliveries, GiveUp(d)
      PROVE  OverlapsNoted'
  BY <1>11 DEF GiveUp, Queue!GiveUp
<1>12. ASSUME NEW d \in Deliveries, Revive(d)
      PROVE  OverlapsNoted'
  BY <1>12 DEF Revive, Queue!Revive, Queue!BecomePending
<1>13. ASSUME NEW d \in Deliveries, Discard(d)
      PROVE  OverlapsNoted'
  BY <1>13 DEF Discard, Queue!Discard, Queue!Leave
<1>14. ASSUME NEW r \in Runs, ReadDelivery(r)
      PROVE  OverlapsNoted'
  BY <1>14 DEF ReadDelivery, GiveBack, Go
<1>15. ASSUME NEW r \in Runs, ReadHook(r)
      PROVE  OverlapsNoted'
  BY <1>15 DEF ReadHook, GiveBack, Go, Course
<1>16. ASSUME NEW r \in Runs, Send(r)
      PROVE  OverlapsNoted'
  BY <1>16 DEF Send, Go
<1>17. ASSUME NEW r \in Runs, Note(r)
      PROVE  OverlapsNoted'
  BY <1>17 DEF Note, Go
<1>18. ASSUME NEW r \in Runs, Record(r)
      PROVE  OverlapsNoted'
  BY <1>18 DEF Record, Write, GiveBack, Go, Taken, Returned
<1>19. ASSUME NEW r \in Runs, RecordOff(r)
      PROVE  OverlapsNoted'
  BY <1>19 DEF RecordOff, Write, GiveBack, Go
<1>20. ASSUME NEW r \in Runs, RecordPause(r)
      PROVE  OverlapsNoted'
  BY <1>20 DEF RecordPause, Write, GiveBack, Go
<1>21. CASE UNCHANGED vars
  BY <1>21 DEF vars
<1> HIDE DEF OverlapsNoted, TypeOK, RunsAgree, Active, HasRead, Replies, Results,
    Places, NoAnswer, hook, deliveries, queue, runs, history
<1> QED
  BY <1>1, <1>2, <1>3, <1>4, <1>5, <1>6, <1>7, <1>8, <1>9, <1>10, <1>11, <1>12,
      <1>13, <1>14, <1>15, <1>16, <1>17, <1>18, <1>19, <1>20, <1>21
  DEF Next, Manage, Schedule, Deliver
\* Rows end for good.
LEMMA RowsStep == TypeOK /\ RunsAgree /\ RowsKnown /\ [Next]_vars => RowsKnown'
<1> SUFFICES ASSUME TypeOK, RunsAgree, RowsKnown, [Next]_vars
             PROVE  RowsKnown'
  OBVIOUS
<1> USE DEF RowsKnown, TypeOK, RunsAgree, Active, HasRead, Replies, Results, Places,
    NoAnswer, hook, deliveries, queue, runs, history
<1>1. ASSUME NEW d \in Deliveries, NEW ping \in BOOLEAN, Emit(d, ping)
      PROVE  RowsKnown'
  BY <1>1 DEF Emit, Queue!Submit, Queue!BecomePending
<1>2. ASSUME NEW on \in BOOLEAN, NEW moves \in BOOLEAN, NEW to \in BOOLEAN, Edit(on,
    moves, to)
      PROVE  RowsKnown'
  BY <1>2 DEF Edit
<1>3. ASSUME Delete
      PROVE  RowsKnown'
  BY <1>3 DEF Delete
<1>4. ASSUME NEW d \in Deliveries, Prune(d)
      PROVE  RowsKnown'
  BY <1>4 DEF Prune
<1>5. ASSUME PauseEnds
      PROVE  RowsKnown'
  BY <1>5 DEF PauseEnds
<1>6. ASSUME NEW r \in Runs, NEW d \in Deliveries, Begin(r, d)
      PROVE  RowsKnown'
  BY <1>6 DEF Begin, Queue!Begin
<1>7. ASSUME NEW r \in Runs, Return(r)
      PROVE  RowsKnown'
  BY <1>7 DEF Return, End, Queue!Return
<1>8. ASSUME NEW r \in Runs, StatementFails(r)
      PROVE  RowsKnown'
  BY <1>8 DEF StatementFails
<1>9. ASSUME NEW r \in Runs, Crash(r)
      PROVE  RowsKnown'
  BY <1>9 DEF Crash, End
<1>10. ASSUME NEW d \in Deliveries, Finish(d)
      PROVE  RowsKnown'
  BY <1>10 DEF Finish, Queue!Finish, Queue!Leave
<1>11. ASSUME NEW d \in Deliveries, GiveUp(d)
      PROVE  RowsKnown'
  BY <1>11 DEF GiveUp, Queue!GiveUp
<1>12. ASSUME NEW d \in Deliveries, Revive(d)
      PROVE  RowsKnown'
  BY <1>12 DEF Revive, Queue!Revive, Queue!BecomePending
<1>13. ASSUME NEW d \in Deliveries, Discard(d)
      PROVE  RowsKnown'
  BY <1>13 DEF Discard, Queue!Discard, Queue!Leave
<1>14. ASSUME NEW r \in Runs, ReadDelivery(r)
      PROVE  RowsKnown'
  BY <1>14 DEF ReadDelivery, GiveBack, Go
<1>15. ASSUME NEW r \in Runs, ReadHook(r)
      PROVE  RowsKnown'
  BY <1>15 DEF ReadHook, GiveBack, Go, Course
<1>16. ASSUME NEW r \in Runs, Send(r)
      PROVE  RowsKnown'
  BY <1>16 DEF Send, Go
<1>17. ASSUME NEW r \in Runs, Note(r)
      PROVE  RowsKnown'
  BY <1>17 DEF Note, Go
<1>18. ASSUME NEW r \in Runs, Record(r)
      PROVE  RowsKnown'
  BY <1>18 DEF Record, Write, GiveBack, Go, Taken, Returned
<1>19. ASSUME NEW r \in Runs, RecordOff(r)
      PROVE  RowsKnown'
  BY <1>19 DEF RecordOff, Write, GiveBack, Go
<1>20. ASSUME NEW r \in Runs, RecordPause(r)
      PROVE  RowsKnown'
  BY <1>20 DEF RecordPause, Write, GiveBack, Go
<1>21. CASE UNCHANGED vars
  BY <1>21 DEF vars
<1> HIDE DEF RowsKnown, TypeOK, RunsAgree, Active, HasRead, Replies, Results, Places,
    NoAnswer, hook, deliveries, queue, runs, history
<1> QED
  BY <1>1, <1>2, <1>3, <1>4, <1>5, <1>6, <1>7, <1>8, <1>9, <1>10, <1>11, <1>12,
      <1>13, <1>14, <1>15, <1>16, <1>17, <1>18, <1>19, <1>20, <1>21
  DEF Next, Manage, Schedule, Deliver
\* What was made is not made again.
LEMMA AloneStep == TypeOK /\ RunsAgree /\ OverlapsNoted /\ DeliveredAlone /\
    [Next]_vars => DeliveredAlone'
<1> SUFFICES ASSUME TypeOK, RunsAgree, OverlapsNoted, DeliveredAlone, [Next]_vars
             PROVE  DeliveredAlone'
  OBVIOUS
<1> USE DEF DeliveredAlone, OverlapsNoted, Under, TypeOK, RunsAgree, Active, HasRead,
    Replies, Results, Places, NoAnswer, hook, deliveries, queue, runs, history
<1>1. ASSUME NEW d \in Deliveries, NEW ping \in BOOLEAN, Emit(d, ping)
      PROVE  DeliveredAlone'
  BY <1>1 DEF Emit, Queue!Submit, Queue!BecomePending
<1>2. ASSUME NEW on \in BOOLEAN, NEW moves \in BOOLEAN, NEW to \in BOOLEAN, Edit(on,
    moves, to)
      PROVE  DeliveredAlone'
  BY <1>2 DEF Edit
<1>3. ASSUME Delete
      PROVE  DeliveredAlone'
  BY <1>3 DEF Delete
<1>4. ASSUME NEW d \in Deliveries, Prune(d)
      PROVE  DeliveredAlone'
  BY <1>4 DEF Prune
<1>5. ASSUME PauseEnds
      PROVE  DeliveredAlone'
  BY <1>5 DEF PauseEnds
<1>6. ASSUME NEW r \in Runs, NEW d \in Deliveries, Begin(r, d)
      PROVE  DeliveredAlone'
  BY <1>6 DEF Begin, Queue!Begin
<1>7. ASSUME NEW r \in Runs, Return(r)
      PROVE  DeliveredAlone'
  BY <1>7 DEF Return, End, Queue!Return
<1>8. ASSUME NEW r \in Runs, StatementFails(r)
      PROVE  DeliveredAlone'
  BY <1>8 DEF StatementFails
<1>9. ASSUME NEW r \in Runs, Crash(r)
      PROVE  DeliveredAlone'
  BY <1>9 DEF Crash, End
<1>10. ASSUME NEW d \in Deliveries, Finish(d)
      PROVE  DeliveredAlone'
  BY <1>10 DEF Finish, Queue!Finish, Queue!Leave
<1>11. ASSUME NEW d \in Deliveries, GiveUp(d)
      PROVE  DeliveredAlone'
  BY <1>11 DEF GiveUp, Queue!GiveUp
<1>12. ASSUME NEW d \in Deliveries, Revive(d)
      PROVE  DeliveredAlone'
  BY <1>12 DEF Revive, Queue!Revive, Queue!BecomePending
<1>13. ASSUME NEW d \in Deliveries, Discard(d)
      PROVE  DeliveredAlone'
  BY <1>13 DEF Discard, Queue!Discard, Queue!Leave
<1>14. ASSUME NEW r \in Runs, ReadDelivery(r)
      PROVE  DeliveredAlone'
  BY <1>14 DEF ReadDelivery, GiveBack, Go
<1>15. ASSUME NEW r \in Runs, ReadHook(r)
      PROVE  DeliveredAlone'
  BY <1>15 DEF ReadHook, GiveBack, Go, Course
<1>16. ASSUME NEW r \in Runs, Send(r)
      PROVE  DeliveredAlone'
  BY <1>16 DEF Send, Go
<1>17. ASSUME NEW r \in Runs, Note(r)
      PROVE  DeliveredAlone'
  BY <1>17 DEF Note, Go
<1>18. ASSUME NEW r \in Runs, Record(r)
      PROVE  DeliveredAlone'
  BY <1>18 DEF Record, Write, GiveBack, Go, Taken, Returned
<1>19. ASSUME NEW r \in Runs, RecordOff(r)
      PROVE  DeliveredAlone'
  BY <1>19 DEF RecordOff, Write, GiveBack, Go
<1>20. ASSUME NEW r \in Runs, RecordPause(r)
      PROVE  DeliveredAlone'
  BY <1>20 DEF RecordPause, Write, GiveBack, Go
<1>21. CASE UNCHANGED vars
  BY <1>21 DEF vars
<1> HIDE DEF DeliveredAlone, OverlapsNoted, Under, TypeOK, RunsAgree, Active,
    HasRead, Replies, Results, Places, NoAnswer, hook, deliveries, queue, runs, history
<1> QED
  BY <1>1, <1>2, <1>3, <1>4, <1>5, <1>6, <1>7, <1>8, <1>9, <1>10, <1>11, <1>12,
      <1>13, <1>14, <1>15, <1>16, <1>17, <1>18, <1>19, <1>20, <1>21
  DEF Next, Manage, Schedule, Deliver
\* A run returns ok only of what is settled, and that stays so.
LEMMA ContentStep == TypeOK /\ RunsAgree /\ RowsKnown /\ DeliveredAlone /\
    ContentWhenSettled /\ [Next]_vars => ContentWhenSettled'
<1> SUFFICES ASSUME TypeOK, RunsAgree, RowsKnown, DeliveredAlone, ContentWhenSettled,
    [Next]_vars
             PROVE  ContentWhenSettled'
  OBVIOUS
<1> USE DEF RowsKnown, DeliveredAlone, ContentWhenSettled, Settled, Under, TypeOK,
    RunsAgree, Active, HasRead, Replies, Results, Places, NoAnswer, hook, deliveries,
        queue, runs, history
<1>1. ASSUME NEW d \in Deliveries, NEW ping \in BOOLEAN, Emit(d, ping)
      PROVE  ContentWhenSettled'
  BY <1>1 DEF Emit, Queue!Submit, Queue!BecomePending
<1>2. ASSUME NEW on \in BOOLEAN, NEW moves \in BOOLEAN, NEW to \in BOOLEAN, Edit(on,
    moves, to)
      PROVE  ContentWhenSettled'
  BY <1>2 DEF Edit
<1>3. ASSUME Delete
      PROVE  ContentWhenSettled'
  BY <1>3 DEF Delete
<1>4. ASSUME NEW d \in Deliveries, Prune(d)
      PROVE  ContentWhenSettled'
  BY <1>4 DEF Prune
<1>5. ASSUME PauseEnds
      PROVE  ContentWhenSettled'
  BY <1>5 DEF PauseEnds
<1>6. ASSUME NEW r \in Runs, NEW d \in Deliveries, Begin(r, d)
      PROVE  ContentWhenSettled'
  BY <1>6 DEF Begin, Queue!Begin
<1>7. ASSUME NEW r \in Runs, Return(r)
      PROVE  ContentWhenSettled'
  BY <1>7 DEF Return, End, Queue!Return
<1>8. ASSUME NEW r \in Runs, StatementFails(r)
      PROVE  ContentWhenSettled'
  BY <1>8 DEF StatementFails
<1>9. ASSUME NEW r \in Runs, Crash(r)
      PROVE  ContentWhenSettled'
  BY <1>9 DEF Crash, End
<1>10. ASSUME NEW d \in Deliveries, Finish(d)
      PROVE  ContentWhenSettled'
  BY <1>10 DEF Finish, Queue!Finish, Queue!Leave
<1>11. ASSUME NEW d \in Deliveries, GiveUp(d)
      PROVE  ContentWhenSettled'
  BY <1>11 DEF GiveUp, Queue!GiveUp
<1>12. ASSUME NEW d \in Deliveries, Revive(d)
      PROVE  ContentWhenSettled'
  BY <1>12 DEF Revive, Queue!Revive, Queue!BecomePending
<1>13. ASSUME NEW d \in Deliveries, Discard(d)
      PROVE  ContentWhenSettled'
  BY <1>13 DEF Discard, Queue!Discard, Queue!Leave
<1>14. ASSUME NEW r \in Runs, ReadDelivery(r)
      PROVE  ContentWhenSettled'
  BY <1>14 DEF ReadDelivery, GiveBack, Go
<1>15. ASSUME NEW r \in Runs, ReadHook(r)
      PROVE  ContentWhenSettled'
  BY <1>15 DEF ReadHook, GiveBack, Go, Course
<1>16. ASSUME NEW r \in Runs, Send(r)
      PROVE  ContentWhenSettled'
  BY <1>16 DEF Send, Go
<1>17. ASSUME NEW r \in Runs, Note(r)
      PROVE  ContentWhenSettled'
  BY <1>17 DEF Note, Go
<1>18. ASSUME NEW r \in Runs, Record(r)
      PROVE  ContentWhenSettled'
  BY <1>18 DEF Record, Write, GiveBack, Go, Taken, Returned
<1>19. ASSUME NEW r \in Runs, RecordOff(r)
      PROVE  ContentWhenSettled'
  BY <1>19 DEF RecordOff, Write, GiveBack, Go
<1>20. ASSUME NEW r \in Runs, RecordPause(r)
      PROVE  ContentWhenSettled'
  BY <1>20 DEF RecordPause, Write, GiveBack, Go
<1>21. CASE UNCHANGED vars
  BY <1>21 DEF vars
<1> HIDE DEF RowsKnown, DeliveredAlone, ContentWhenSettled, Settled, Under, TypeOK,
    RunsAgree, Active, HasRead, Replies, Results, Places, NoAnswer, hook, deliveries,
        queue, runs, history
<1> QED
  BY <1>1, <1>2, <1>3, <1>4, <1>5, <1>6, <1>7, <1>8, <1>9, <1>10, <1>11, <1>12,
      <1>13, <1>14, <1>15, <1>16, <1>17, <1>18, <1>19, <1>20, <1>21
  DEF Next, Manage, Schedule, Deliver
\* Every step keeps hold of what is not settled.
LEMMA ForgottenStep == TypeOK /\ RunsAgree /\ RowsKnown /\ DeliveredAlone /\
    ContentWhenSettled /\ NothingForgotten /\ [Next]_vars => NothingForgotten'
<1> SUFFICES ASSUME TypeOK, RunsAgree, RowsKnown, DeliveredAlone, ContentWhenSettled,
    NothingForgotten, [Next]_vars
             PROVE  NothingForgotten'
  OBVIOUS
<1> USE DEF RowsKnown, DeliveredAlone, ContentWhenSettled, Settled, NothingForgotten,
    Under, TypeOK, RunsAgree, Active, HasRead, Replies, Results, Places, NoAnswer,
        hook, deliveries, queue, runs, history
<1>1. ASSUME NEW d \in Deliveries, NEW ping \in BOOLEAN, Emit(d, ping)
      PROVE  NothingForgotten'
  BY <1>1 DEF Emit, Queue!Submit, Queue!BecomePending
<1>2. ASSUME NEW on \in BOOLEAN, NEW moves \in BOOLEAN, NEW to \in BOOLEAN, Edit(on,
    moves, to)
      PROVE  NothingForgotten'
  BY <1>2 DEF Edit
<1>3. ASSUME Delete
      PROVE  NothingForgotten'
  BY <1>3 DEF Delete
<1>4. ASSUME NEW d \in Deliveries, Prune(d)
      PROVE  NothingForgotten'
  BY <1>4 DEF Prune
<1>5. ASSUME PauseEnds
      PROVE  NothingForgotten'
  BY <1>5 DEF PauseEnds
<1>6. ASSUME NEW r \in Runs, NEW d \in Deliveries, Begin(r, d)
      PROVE  NothingForgotten'
  BY <1>6 DEF Begin, Queue!Begin
<1>7. ASSUME NEW r \in Runs, Return(r)
      PROVE  NothingForgotten'
  BY <1>7 DEF Return, End, Queue!Return
<1>8. ASSUME NEW r \in Runs, StatementFails(r)
      PROVE  NothingForgotten'
  BY <1>8 DEF StatementFails
<1>9. ASSUME NEW r \in Runs, Crash(r)
      PROVE  NothingForgotten'
  BY <1>9 DEF Crash, End
<1>10. ASSUME NEW d \in Deliveries, Finish(d)
      PROVE  NothingForgotten'
  BY <1>10 DEF Finish, Queue!Finish, Queue!Leave
<1>11. ASSUME NEW d \in Deliveries, GiveUp(d)
      PROVE  NothingForgotten'
  BY <1>11 DEF GiveUp, Queue!GiveUp
<1>12. ASSUME NEW d \in Deliveries, Revive(d)
      PROVE  NothingForgotten'
  BY <1>12 DEF Revive, Queue!Revive, Queue!BecomePending
<1>13. ASSUME NEW d \in Deliveries, Discard(d)
      PROVE  NothingForgotten'
  BY <1>13 DEF Discard, Queue!Discard, Queue!Leave
<1>14. ASSUME NEW r \in Runs, ReadDelivery(r)
      PROVE  NothingForgotten'
  BY <1>14 DEF ReadDelivery, GiveBack, Go
<1>15. ASSUME NEW r \in Runs, ReadHook(r)
      PROVE  NothingForgotten'
  BY <1>15 DEF ReadHook, GiveBack, Go, Course
<1>16. ASSUME NEW r \in Runs, Send(r)
      PROVE  NothingForgotten'
  BY <1>16 DEF Send, Go
<1>17. ASSUME NEW r \in Runs, Note(r)
      PROVE  NothingForgotten'
  BY <1>17 DEF Note, Go
<1>18. ASSUME NEW r \in Runs, Record(r)
      PROVE  NothingForgotten'
  BY SMTT(30), <1>18 DEF Record, Write, GiveBack, Go, Taken, Returned
<1>19. ASSUME NEW r \in Runs, RecordOff(r)
      PROVE  NothingForgotten'
  BY <1>19 DEF RecordOff, Write, GiveBack, Go
<1>20. ASSUME NEW r \in Runs, RecordPause(r)
      PROVE  NothingForgotten'
  BY <1>20 DEF RecordPause, Write, GiveBack, Go
<1>21. CASE UNCHANGED vars
  BY <1>21 DEF vars
<1> HIDE DEF RowsKnown, DeliveredAlone, ContentWhenSettled, Settled,
    NothingForgotten, Under, TypeOK, RunsAgree, Active, HasRead, Replies, Results,
        Places, NoAnswer, hook, deliveries, queue, runs, history
<1> QED
  BY <1>1, <1>2, <1>3, <1>4, <1>5, <1>6, <1>7, <1>8, <1>9, <1>10, <1>11, <1>12,
      <1>13, <1>14, <1>15, <1>16, <1>17, <1>18, <1>19, <1>20, <1>21
  DEF Next, Manage, Schedule, Deliver
\* Answers and the log tell what the receivers took.
LEMMA AnswersStep == TypeOK /\ RunsAgree /\ AnswersAreTrue /\ DeliveredWasAccepted /\
    [Next]_vars => (AnswersAreTrue /\ DeliveredWasAccepted)'
<1> SUFFICES ASSUME TypeOK, RunsAgree, AnswersAreTrue, DeliveredWasAccepted, [Next]_vars
             PROVE  (AnswersAreTrue /\ DeliveredWasAccepted)'
  OBVIOUS
<1> USE DEF AnswersAreTrue, DeliveredWasAccepted, TypeOK, RunsAgree, Active, HasRead,
    Replies, Results, Places, NoAnswer, hook, deliveries, queue, runs, history
<1>1. ASSUME NEW d \in Deliveries, NEW ping \in BOOLEAN, Emit(d, ping)
      PROVE  (AnswersAreTrue /\ DeliveredWasAccepted)'
  BY <1>1 DEF Emit, Queue!Submit, Queue!BecomePending
<1>2. ASSUME NEW on \in BOOLEAN, NEW moves \in BOOLEAN, NEW to \in BOOLEAN, Edit(on,
    moves, to)
      PROVE  (AnswersAreTrue /\ DeliveredWasAccepted)'
  BY <1>2 DEF Edit
<1>3. ASSUME Delete
      PROVE  (AnswersAreTrue /\ DeliveredWasAccepted)'
  BY <1>3 DEF Delete
<1>4. ASSUME NEW d \in Deliveries, Prune(d)
      PROVE  (AnswersAreTrue /\ DeliveredWasAccepted)'
  BY <1>4 DEF Prune
<1>5. ASSUME PauseEnds
      PROVE  (AnswersAreTrue /\ DeliveredWasAccepted)'
  BY <1>5 DEF PauseEnds
<1>6. ASSUME NEW r \in Runs, NEW d \in Deliveries, Begin(r, d)
      PROVE  (AnswersAreTrue /\ DeliveredWasAccepted)'
  BY <1>6 DEF Begin, Queue!Begin
<1>7. ASSUME NEW r \in Runs, Return(r)
      PROVE  (AnswersAreTrue /\ DeliveredWasAccepted)'
  BY <1>7 DEF Return, End, Queue!Return
<1>8. ASSUME NEW r \in Runs, StatementFails(r)
      PROVE  (AnswersAreTrue /\ DeliveredWasAccepted)'
  BY <1>8 DEF StatementFails
<1>9. ASSUME NEW r \in Runs, Crash(r)
      PROVE  (AnswersAreTrue /\ DeliveredWasAccepted)'
  BY <1>9 DEF Crash, End
<1>10. ASSUME NEW d \in Deliveries, Finish(d)
      PROVE  (AnswersAreTrue /\ DeliveredWasAccepted)'
  BY <1>10 DEF Finish, Queue!Finish, Queue!Leave
<1>11. ASSUME NEW d \in Deliveries, GiveUp(d)
      PROVE  (AnswersAreTrue /\ DeliveredWasAccepted)'
  BY <1>11 DEF GiveUp, Queue!GiveUp
<1>12. ASSUME NEW d \in Deliveries, Revive(d)
      PROVE  (AnswersAreTrue /\ DeliveredWasAccepted)'
  BY <1>12 DEF Revive, Queue!Revive, Queue!BecomePending
<1>13. ASSUME NEW d \in Deliveries, Discard(d)
      PROVE  (AnswersAreTrue /\ DeliveredWasAccepted)'
  BY <1>13 DEF Discard, Queue!Discard, Queue!Leave
<1>14. ASSUME NEW r \in Runs, ReadDelivery(r)
      PROVE  (AnswersAreTrue /\ DeliveredWasAccepted)'
  BY <1>14 DEF ReadDelivery, GiveBack, Go
<1>15. ASSUME NEW r \in Runs, ReadHook(r)
      PROVE  (AnswersAreTrue /\ DeliveredWasAccepted)'
  BY <1>15 DEF ReadHook, GiveBack, Go, Course
<1>16. ASSUME NEW r \in Runs, Send(r)
      PROVE  (AnswersAreTrue /\ DeliveredWasAccepted)'
  BY <1>16 DEF Send, Go
<1>17. ASSUME NEW r \in Runs, Note(r)
      PROVE  (AnswersAreTrue /\ DeliveredWasAccepted)'
  BY <1>17 DEF Note, Go
<1>18. ASSUME NEW r \in Runs, Record(r)
      PROVE  (AnswersAreTrue /\ DeliveredWasAccepted)'
  BY <1>18 DEF Record, Write, GiveBack, Go, Taken, Returned
<1>19. ASSUME NEW r \in Runs, RecordOff(r)
      PROVE  (AnswersAreTrue /\ DeliveredWasAccepted)'
  BY <1>19 DEF RecordOff, Write, GiveBack, Go
<1>20. ASSUME NEW r \in Runs, RecordPause(r)
      PROVE  (AnswersAreTrue /\ DeliveredWasAccepted)'
  BY <1>20 DEF RecordPause, Write, GiveBack, Go
<1>21. CASE UNCHANGED vars
  BY <1>21 DEF vars
<1> HIDE DEF AnswersAreTrue, DeliveredWasAccepted, TypeOK, RunsAgree, Active,
    HasRead, Replies, Results, Places, NoAnswer, hook, deliveries, queue, runs, history
<1> QED
  BY <1>1, <1>2, <1>3, <1>4, <1>5, <1>6, <1>7, <1>8, <1>9, <1>10, <1>11, <1>12,
      <1>13, <1>14, <1>15, <1>16, <1>17, <1>18, <1>19, <1>20, <1>21
  DEF Next, Manage, Schedule, Deliver

LEMMA RunsCounted == Cardinality(Runs) \in Nat
BY RunsAssumption, FS_CardinalityType

\* Strays are runs, and as many as they are.
LEMMA CountOfStrays ==
    ASSUME strays \subseteq Runs
    PROVE  /\ Cardinality(strays) \in Nat
           /\ Cardinality(strays) <= Cardinality(Runs)
           /\ \A S \in SUBSET Runs : /\ Cardinality(S) \in Nat
                                     /\ Cardinality(S) <= Cardinality(Runs)
           /\ \A S \in SUBSET strays : Cardinality(S) <= Cardinality(strays)
           /\ \A r \in strays : Cardinality(strays \ {r}) = Cardinality(strays) - 1
<1>1. IsFiniteSet(strays)
  BY RunsAssumption, FS_Subset
<1>2. \A S \in SUBSET Runs : Cardinality(S) \in Nat /\ Cardinality(S) <= Cardinality(Runs)
  BY RunsAssumption, FS_Subset, FS_CardinalityType
<1>3. \A S \in SUBSET strays : Cardinality(S) <= Cardinality(strays)
  BY <1>1, FS_Subset
<1>4. \A r \in strays : Cardinality(strays \ {r}) = Cardinality(strays) - 1
  BY <1>1, FS_RemoveElement
<1> QED
  BY <1>2, <1>3, <1>4

\* Nothing else is counted against the receiver.
LEMMA CountedStep == TypeOK /\ RunsAgree /\ Counted /\ [Next]_vars => Counted'
<1> SUFFICES ASSUME TypeOK, RunsAgree, Counted, [Next]_vars
             PROVE  Counted'
  OBVIOUS
<1> USE DEF Counted, TypeOK, RunsAgree, Active, HasRead, Replies, Results, Places,
    NoAnswer, hook, deliveries, queue, runs, history
<1>1. ASSUME NEW d \in Deliveries, NEW ping \in BOOLEAN, Emit(d, ping)
      PROVE  Counted'
  BY <1>1 DEF Emit, Queue!Submit, Queue!BecomePending
<1>2. ASSUME NEW on \in BOOLEAN, NEW moves \in BOOLEAN, NEW to \in BOOLEAN, Edit(on,
    moves, to)
      PROVE  Counted'
  <2>1. CASE moves
    <3>1. strays' \subseteq Runs
      BY <1>2, <2>1 DEF Edit
    <3>2. Cardinality(strays') <= Cardinality(Runs)
      BY <3>1, CountOfStrays
    <3>3. failures' = 0 /\ own' = 0 /\ ~paused' /\ Cardinality(strays') \in Nat
      BY <1>2, <2>1, <3>1, CountOfStrays DEF Edit
    <3> QED
      BY <3>2, <3>3, RunsCounted
  <2>2. CASE ~moves
    BY <1>2, <2>2 DEF Edit
  <2> QED
    BY <2>1, <2>2
<1>3. ASSUME Delete
      PROVE  Counted'
  BY <1>3 DEF Delete
<1>4. ASSUME NEW d \in Deliveries, Prune(d)
      PROVE  Counted'
  BY <1>4 DEF Prune
<1>5. ASSUME PauseEnds
      PROVE  Counted'
  BY <1>5 DEF PauseEnds
<1>6. ASSUME NEW r \in Runs, NEW d \in Deliveries, Begin(r, d)
      PROVE  Counted'
  BY <1>6 DEF Begin, Queue!Begin
<1>7. ASSUME NEW r \in Runs, Return(r)
      PROVE  Counted'
  <2>1. strays' \subseteq strays /\ UNCHANGED <<failures, paused, own>>
    BY <1>7 DEF Return, End, Queue!Return
  <2>2. Cardinality(strays') <= Cardinality(strays)
    BY <2>1, CountOfStrays
  <2> QED
    BY <2>1, <2>2, CountOfStrays, RunsCounted
<1>8. ASSUME NEW r \in Runs, StatementFails(r)
      PROVE  Counted'
  <2>1. strays' \subseteq strays /\ UNCHANGED <<failures, paused, own>>
    BY <1>8 DEF StatementFails
  <2>2. Cardinality(strays') <= Cardinality(strays)
    BY <2>1, CountOfStrays
  <2> QED
    BY <2>1, <2>2, CountOfStrays, RunsCounted
<1>9. ASSUME NEW r \in Runs, Crash(r)
      PROVE  Counted'
  <2>1. strays' \subseteq strays /\ UNCHANGED <<failures, paused, own>>
    BY <1>9 DEF Crash, End
  <2>2. Cardinality(strays') <= Cardinality(strays)
    BY <2>1, CountOfStrays
  <2> QED
    BY <2>1, <2>2, CountOfStrays, RunsCounted
<1>10. ASSUME NEW d \in Deliveries, Finish(d)
      PROVE  Counted'
  BY <1>10 DEF Finish, Queue!Finish, Queue!Leave
<1>11. ASSUME NEW d \in Deliveries, GiveUp(d)
      PROVE  Counted'
  BY <1>11 DEF GiveUp, Queue!GiveUp
<1>12. ASSUME NEW d \in Deliveries, Revive(d)
      PROVE  Counted'
  BY <1>12 DEF Revive, Queue!Revive, Queue!BecomePending
<1>13. ASSUME NEW d \in Deliveries, Discard(d)
      PROVE  Counted'
  BY <1>13 DEF Discard, Queue!Discard, Queue!Leave
<1>14. ASSUME NEW r \in Runs, ReadDelivery(r)
      PROVE  Counted'
  BY <1>14 DEF ReadDelivery, GiveBack, Go
<1>15. ASSUME NEW r \in Runs, ReadHook(r)
      PROVE  Counted'
  <2>1. strays' \subseteq strays /\ UNCHANGED <<failures, paused, own>>
    BY <1>15 DEF ReadHook, GiveBack, Go, Course
  <2>2. Cardinality(strays') <= Cardinality(strays)
    BY <2>1, CountOfStrays
  <2> QED
    BY <2>1, <2>2, CountOfStrays, RunsCounted
<1>16. ASSUME NEW r \in Runs, Send(r)
      PROVE  Counted'
  BY <1>16 DEF Send, Go
<1>17. ASSUME NEW r \in Runs, Note(r)
      PROVE  Counted'
  <2>1. strays' = strays \ {r}
    BY <1>17 DEF Note
  <2>2. Cardinality(strays') <= Cardinality(Runs)
    BY <2>1, CountOfStrays
  <2>3. r \in strays => Cardinality(strays') = Cardinality(strays) - 1
    BY <2>1, CountOfStrays
  <2>4. r \notin strays => strays' = strays
    BY <2>1
  <2>5. Cardinality(strays) \in Nat /\ Cardinality(strays') \in Nat /\ own' \in Nat
    BY <1>17, <2>1, CountOfStrays, TypesStep, NoteCases
  <2>6. CASE paused' = FALSE /\ failures' = 0 /\ own' \in {0, own}
    BY <2>2, <2>5, <2>6, RunsCounted
  <2>7. CASE paused' = paused /\ failures' = failures /\ own' = own
    <3>1. Cardinality(strays') <= Cardinality(strays)
      BY <2>3, <2>4, <2>5
    <3> QED
      BY <2>5, <2>7, <3>1, RunsCounted
  <2>8. CASE /\ failures' = failures + 1
             /\ own' = IF r \in strays THEN own ELSE own + 1
             /\ paused' <=> failures' >= PauseAfter
    BY <2>3, <2>4, <2>5, <2>8, RunsCounted
  <2> QED
    BY <1>17, <2>6, <2>7, <2>8, NoteCases
<1>18. ASSUME NEW r \in Runs, Record(r)
      PROVE  Counted'
  BY <1>18 DEF Record, Write, GiveBack, Go, Taken, Returned
<1>19. ASSUME NEW r \in Runs, RecordOff(r)
      PROVE  Counted'
  BY <1>19 DEF RecordOff, Write, GiveBack, Go
<1>20. ASSUME NEW r \in Runs, RecordPause(r)
      PROVE  Counted'
  <2>1. strays' \subseteq strays /\ UNCHANGED <<failures, paused, own>>
    BY <1>20 DEF RecordPause, Write, GiveBack, Go
  <2>2. Cardinality(strays') <= Cardinality(strays)
    BY <2>1, CountOfStrays
  <2> QED
    BY <2>1, <2>2, CountOfStrays, RunsCounted
<1>21. CASE UNCHANGED vars
  BY <1>21 DEF vars
<1> HIDE DEF Counted, TypeOK, RunsAgree, Active, HasRead, Replies, Results, Places,
    NoAnswer, hook, deliveries, queue, runs, history
<1> QED
  BY <1>1, <1>2, <1>3, <1>4, <1>5, <1>6, <1>7, <1>8, <1>9, <1>10, <1>11, <1>12,
      <1>13, <1>14, <1>15, <1>16, <1>17, <1>18, <1>19, <1>20, <1>21
  DEF Next, Manage, Schedule, Deliver

LEMMA Inductive == IInv /\ [Next]_vars => IInv'
BY TypesStep, RunsStep, OverlapsStep, RowsStep, AloneStep, ContentStep, ForgottenStep,
   AnswersStep, CountedStep DEF IInv

LEMMA Initially == Init => IInv
<1> SUFFICES ASSUME Init
             PROVE  IInv
  OBVIOUS
<1>1. Cardinality(strays) = 0
  BY FS_EmptySet DEF Init
<1>2. Counted
  <2>1. failures = 0 /\ own = 0 /\ ~paused
    BY DEF Init
  <2> QED
    BY <1>1, <2>1, RunsCounted DEF Counted
<1>3. TypeOK
  BY DEF Init, Queue!Init, TypeOK, Replies, Results, Places, NoAnswer
<1> QED
  BY <1>2, <1>3 DEF Init, Queue!Init, IInv, TypeOK, RunsAgree, OverlapsNoted, RowsKnown,
    DeliveredAlone, Under, ContentWhenSettled, NothingForgotten, AnswersAreTrue,
    DeliveredWasAccepted, Active, HasRead, Replies, Results, Places, NoAnswer

LEMMA Invariant == Spec => []IInv
BY Initially, Inductive, PTL DEF Spec

\* The rows, jobs and runs of a webhook's deliveries keep their types.
THEOREM TypeCorrect == Spec => []TypeOK
BY Invariant, PTL DEF IInv

\* No delivery leaves the queue unsettled, however its runs crash and are retried.
THEOREM NoneForgotten == Spec => []NothingForgotten
BY Invariant, PTL DEF IInv

\* The log says "delivered" only of what a receiver took.
THEOREM LogIsTrue == Spec => []DeliveredWasAccepted
BY Invariant, PTL DEF IInv

\* A webhook is paused only for tries of its own receiver, but for one each run that
\* was under way when its URL changed.
THEOREM PausesAreFair == Spec => []PausedFairly
<1>1. IInv => PausedFairly
  <2> SUFFICES ASSUME IInv, paused
               PROVE  own + Cardinality(Runs) >= PauseAfter
    BY DEF PausedFairly
  <2>1. failures >= PauseAfter /\ failures + Cardinality(strays) <= own + Cardinality(Runs)
    BY DEF IInv, Counted
  <2>2. failures \in Nat /\ own \in Nat /\ strays \subseteq Runs
    BY DEF IInv, TypeOK
  <2> QED
    BY <2>1, <2>2, CountOfStrays, RunsCounted
<1> QED
  BY <1>1, Invariant, PTL

\* What DeliveredStays says of one step.
Kept == \A d \in Deliveries \ overlapped' : status[d] = "delivered" => status'[d] # "failed"

\* A run that is alone with its delivery records no failure of what was made.
LEMMA KeptStep == IInv /\ [Next]_vars => Kept
<1> SUFFICES ASSUME IInv, [Next]_vars
             PROVE  Kept
  OBVIOUS
<1> USE DEF Kept, IInv, DeliveredAlone, OverlapsNoted, RowsKnown, Under, TypeOK,
    RunsAgree, Active, HasRead, Replies, Results, Places, NoAnswer, hook, deliveries,
        queue, runs, history
<1>1. ASSUME NEW d \in Deliveries, NEW ping \in BOOLEAN, Emit(d, ping)
      PROVE  Kept
  BY <1>1 DEF Emit, Queue!Submit, Queue!BecomePending
<1>2. ASSUME NEW on \in BOOLEAN, NEW moves \in BOOLEAN, NEW to \in BOOLEAN, Edit(on,
    moves, to)
      PROVE  Kept
  BY <1>2 DEF Edit
<1>3. ASSUME Delete
      PROVE  Kept
  BY <1>3 DEF Delete
<1>4. ASSUME NEW d \in Deliveries, Prune(d)
      PROVE  Kept
  BY <1>4 DEF Prune
<1>5. ASSUME PauseEnds
      PROVE  Kept
  BY <1>5 DEF PauseEnds
<1>6. ASSUME NEW r \in Runs, NEW d \in Deliveries, Begin(r, d)
      PROVE  Kept
  BY <1>6 DEF Begin, Queue!Begin
<1>7. ASSUME NEW r \in Runs, Return(r)
      PROVE  Kept
  BY <1>7 DEF Return, End, Queue!Return
<1>8. ASSUME NEW r \in Runs, StatementFails(r)
      PROVE  Kept
  BY <1>8 DEF StatementFails
<1>9. ASSUME NEW r \in Runs, Crash(r)
      PROVE  Kept
  BY <1>9 DEF Crash, End
<1>10. ASSUME NEW d \in Deliveries, Finish(d)
      PROVE  Kept
  BY <1>10 DEF Finish, Queue!Finish, Queue!Leave
<1>11. ASSUME NEW d \in Deliveries, GiveUp(d)
      PROVE  Kept
  BY <1>11 DEF GiveUp, Queue!GiveUp
<1>12. ASSUME NEW d \in Deliveries, Revive(d)
      PROVE  Kept
  BY <1>12 DEF Revive, Queue!Revive, Queue!BecomePending
<1>13. ASSUME NEW d \in Deliveries, Discard(d)
      PROVE  Kept
  BY <1>13 DEF Discard, Queue!Discard, Queue!Leave
<1>14. ASSUME NEW r \in Runs, ReadDelivery(r)
      PROVE  Kept
  BY <1>14 DEF ReadDelivery, GiveBack, Go
<1>15. ASSUME NEW r \in Runs, ReadHook(r)
      PROVE  Kept
  BY <1>15 DEF ReadHook, GiveBack, Go, Course
<1>16. ASSUME NEW r \in Runs, Send(r)
      PROVE  Kept
  BY <1>16 DEF Send, Go
<1>17. ASSUME NEW r \in Runs, Note(r)
      PROVE  Kept
  BY <1>17 DEF Note, Go
<1>18. ASSUME NEW r \in Runs, Record(r)
      PROVE  Kept
  BY <1>18 DEF Record, Write, GiveBack, Go, Taken, Returned
<1>19. ASSUME NEW r \in Runs, RecordOff(r)
      PROVE  Kept
  BY <1>19 DEF RecordOff, Write, GiveBack, Go
<1>20. ASSUME NEW r \in Runs, RecordPause(r)
      PROVE  Kept
  BY <1>20 DEF RecordPause, Write, GiveBack, Go
<1>21. CASE UNCHANGED vars
  BY <1>21 DEF vars
<1> HIDE DEF Kept, IInv, DeliveredAlone, OverlapsNoted, RowsKnown, Under, TypeOK,
    RunsAgree, Active, HasRead, Replies, Results, Places, NoAnswer, hook, deliveries,
        queue, runs, history
<1> QED
  BY <1>1, <1>2, <1>3, <1>4, <1>5, <1>6, <1>7, <1>8, <1>9, <1>10, <1>11, <1>12,
      <1>13, <1>14, <1>15, <1>16, <1>17, <1>18, <1>19, <1>20, <1>21
  DEF Next, Manage, Schedule, Deliver

\* A delivery once made stays so, unless two runs of it overlapped.
THEOREM DeliveredForGood == Spec => DeliveredStays
<1>1. IInv /\ [Next]_vars => [Kept]_vars
  BY KeptStep
<1> QED
  BY <1>1, Invariant, PTL DEF Spec, DeliveredStays, Kept
-------------------------------------------------------------------------------
(* Deliveries ask no more of the queue than AtLeastOnce promises.          *)

LEMMA QueueStep == IInv /\ [Next]_vars => [Queue!Next]_(Queue!vars)
<1> SUFFICES ASSUME IInv, [Next]_vars
             PROVE  Queue!Next \/ UNCHANGED queue
  BY DEF Queue!vars, queue
<1>1. ASSUME NEW d \in Deliveries, NEW ping \in BOOLEAN, Emit(d, ping)
      PROVE  Queue!Next
  BY <1>1 DEF Emit, Queue!Next
<1>2. ASSUME NEW r \in Runs, NEW d \in Deliveries, Begin(r, d)
      PROVE  Queue!Next
  BY <1>2 DEF Begin, Queue!Next
<1>3. ASSUME NEW r \in Runs, Return(r)
      PROVE  Queue!Next
  <2>1. sends[r] \in Deliveries /\ result[r] \in {"ok", "retry", "permanent"}
    BY <1>3 DEF Return, IInv, TypeOK, RunsAgree, Active, Results
  <2> QED
    BY <1>3, <2>1 DEF Return, Queue!Next
<1>4. ASSUME NEW d \in Deliveries, Finish(d) \/ Revive(d) \/ Discard(d)
      PROVE  Queue!Next
  BY <1>4 DEF Finish, Revive, Discard, Queue!Next
<1>5. ASSUME NEW d \in Deliveries, GiveUp(d)
      PROVE  Queue!Next
  <2>1. {d} \in SUBSET Deliveries /\ Queue!GiveUp({d})
    BY <1>5 DEF GiveUp
  <2> QED
    BY <2>1 DEF Queue!Next
<1>6. ASSUME NEW on \in BOOLEAN, NEW moves \in BOOLEAN, NEW to \in BOOLEAN, Edit(on, moves, to)
      PROVE  UNCHANGED queue
  BY <1>6 DEF Edit
<1>7. ASSUME NEW d \in Deliveries, Prune(d)
      PROVE  UNCHANGED queue
  BY <1>7 DEF Prune
<1>8. ASSUME Delete \/ PauseEnds
      PROVE  UNCHANGED queue
  BY <1>8 DEF Delete, PauseEnds
<1>9. ASSUME NEW r \in Runs, StatementFails(r) \/ Crash(r) \/ Deliver(r)
      PROVE  UNCHANGED queue
  BY <1>9 DEF StatementFails, Crash, Deliver, ReadDelivery, ReadHook, Send, Note, Record,
      RecordOff, RecordPause
<1>10. CASE UNCHANGED vars
  BY <1>10 DEF vars
<1> QED
  BY <1>1, <1>2, <1>3, <1>4, <1>5, <1>6, <1>7, <1>8, <1>9, <1>10
  DEF Next, Manage, Schedule

\* However deliveries are emitted, tried, crashed and retried, what they see of their jobs
\* is what the queue promises (and JobQueue keeps).
THEOREM DeliveriesTrustTheQueue == Spec => Queue!Spec
<1>1. Init => Queue!Init
  BY DEF Init
<1> QED
  BY <1>1, QueueStep, Invariant, PTL DEF Spec, Queue!Spec

Promised == INSTANCE AtLeastOnceProofs WITH Jobs <- Deliveries

LEMMA PromisedToo == Spec => Promised!Spec
<1>1. Init => Promised!Init
  BY DEF Init, Queue!Init, Promised!Init
<1>2. IInv /\ [Next]_vars => [Promised!Next]_(Promised!vars)
  BY QueueStep DEF Queue!vars, Promised!vars, Queue!Next, Promised!Next, Queue!Submit,
      Promised!Submit, Queue!Revive, Promised!Revive, Queue!Begin, Promised!Begin,
      Queue!Return, Promised!Return, Queue!Finish, Promised!Finish, Queue!Discard,
      Promised!Discard, Queue!GiveUp, Promised!GiveUp, Queue!BecomePending,
      Promised!BecomePending, Queue!Leave, Promised!Leave
<1> QED
  BY <1>1, <1>2, Invariant, PTL DEF Spec, Promised!Spec

\* No answer of a receiver, not even a refusal, gives a delivery up before it was tried as
\* often as it may be.
DeadWasTried == \A d \in Deliveries : state[d] = "dead" => begun[d] = Allowed[d]

\* A delivery whose job is dead was tried as often as it may be.
THEOREM DeadDeliveriesWereTried == Spec => []DeadWasTried
<1>1. Promised!Spec => []Promised!DeadForAReason
  BY AllowedAssumption, Promised!NoneDiesEarly
<1>2. IInv /\ Promised!DeadForAReason => DeadWasTried
  BY DEF Promised!DeadForAReason, IInv, TypeOK, Results, DeadWasTried
<1> QED
  BY <1>1, <1>2, PromisedToo, Invariant, PTL
===============================================================================
