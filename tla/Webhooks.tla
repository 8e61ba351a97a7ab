------------------------------- MODULE Webhooks -------------------------------
(***************************************************************************)
(* A webhook and its deliveries (crates/db/src/webhooks.rs), the requests  *)
(* of its administrators (crates/web/src/webhooks.rs) and the jobs that    *)
(* send its deliveries (crates/jobs/src/webhooks.rs), over what the job    *)
(* queue promises (AtLeastOnce): a job can be run again after a crash, and *)
(* while an earlier run of it, presumed dead, still goes on.               *)
(*                                                                         *)
(* Webhooks have nothing in common, so one is modelled. Each statement of  *)
(* deliver() is a step. Time is abstracted: a pause ends, and a delivery   *)
(* is old enough to be pruned, at any moment.                              *)
(***************************************************************************)
EXTENDS Naturals, FiniteSets

CONSTANTS
    Deliveries,
    Runs,        \* of the jobs webhooks.deliver
    Allowed,     \* attempts of a delivery's job
    PauseAfter,  \* PAUSE_AFTER
    None

ASSUME PauseAfterAssumption == PauseAfter \in Nat \ {0}
ASSUME RunsAssumption == IsFiniteSet(Runs)
ASSUME AllowedAssumption == Allowed \in [Deliveries -> Nat]
ASSUME NoneAssumption == None \notin Deliveries

VARIABLES
    \* the row of `webhooks`
    there,      \* whether it is
    enabled,    \* is_enabled
    public,     \* whether its URL is one that deliveries may go to
    failures,   \* network_failures
    paused,     \* whether paused_until is to come
    \* the rows of `webhook_deliveries`
    status,     \* "queued", "delivered" or "failed"; "none" without a row
    pings,      \* those that are tests
    \* their jobs, as in AtLeastOnce
    state, begun, results,
    \* runs
    at,         \* what each has done last
    sends,      \* the delivery it is about
    answer,     \* what the receiver answered, and whether in full
    result,     \* what it is about to return
    \* history
    accepted,   \* deliveries a receiver answered with success
    closed,     \* refused for good, not to be sent, or their job discarded
    overlapped, \* with two runs at once
    strays,     \* runs that read the webhook before its URL changed
    own         \* tries of this URL that failed since one was answered

hook       == <<there, enabled, public, failures, paused>>
deliveries == <<status, pings>>
queue      == <<state, begun, results>>
runs       == <<at, sends, answer, result>>
history    == <<accepted, closed, overlapped, strays, own>>
vars == <<hook, deliveries, queue, runs, history>>

Queue == INSTANCE AtLeastOnce WITH Jobs <- Deliveries

\* Any 2xx; one to retry (5xx, 408 and 429); any other; or none in time.
Replies == {"success", "again", "refused", "none"}
Results == {"ok", "retry"}
Places  == {"idle", "begun", "found", "off", "waiting", "sending", "answered", "noted", "done"}

NoAnswer == [reply |-> "none", whole |-> FALSE]

Active(r) == at[r] # "idle"

TypeOK ==
    /\ there \in BOOLEAN /\ enabled \in BOOLEAN /\ public \in BOOLEAN /\ paused \in BOOLEAN
    /\ failures \in Nat /\ own \in Nat
    /\ status \in [Deliveries -> {"none", "queued", "delivered", "failed"}]
    /\ state \in [Deliveries -> {"absent", "pending", "dead"}]
    /\ begun \in [Deliveries -> Nat]
    /\ results \in [Deliveries -> SUBSET Results]
    /\ at \in [Runs -> Places]
    /\ sends \in [Runs -> Deliveries \cup {None}]
    /\ answer \in [Runs -> [reply : Replies, whole : BOOLEAN]]
    /\ result \in [Runs -> Results]
    /\ UNION {pings, accepted, closed, overlapped} \subseteq Deliveries
    /\ strays \subseteq Runs

Init ==
    /\ there = TRUE
    /\ enabled = TRUE
    /\ public = TRUE
    /\ failures = 0
    /\ paused = FALSE
    /\ status = [d \in Deliveries |-> "none"]
    /\ pings = {}
    /\ Queue!Init
    /\ at = [r \in Runs |-> "idle"]
    /\ sends = [r \in Runs |-> None]
    /\ answer = [r \in Runs |-> NoAnswer]
    /\ result = [r \in Runs |-> "retry"]
    /\ accepted = {}
    /\ closed = {}
    /\ overlapped = {}
    /\ strays = {}
    /\ own = 0

-------------------------------------------------------------------------------
(* Events and administrators.                                              *)

\* The delivery's row and its job, in one transaction.
Emit(d, ping) ==
    /\ there
    /\ ping \/ enabled
    /\ status[d] = "none"
    /\ Queue!Submit(d)
    /\ d \notin closed  \* a row's id is not used again
    /\ status' = [status EXCEPT ![d] = "queued"]
    /\ pings' = IF ping THEN pings \cup {d} ELSE pings
    /\ UNCHANGED <<hook, runs, history>>

\* A run that has read the webhook sends to the URL it had then.
HasRead(r) == at[r] \in {"waiting", "sending", "answered"}

\* A slip: the failures of the receiver before stay.
EditForgetting(on, moves, to) ==
    /\ there
    /\ enabled' = on
    /\ public' = IF moves THEN to ELSE public
    /\ IF moves THEN /\ own' = 0
                     /\ strays' = {r \in Runs : HasRead(r)}
                ELSE UNCHANGED <<own, strays>>
    /\ UNCHANGED <<there, failures, paused, deliveries, queue, runs, accepted, closed, overlapped>>

Edit(on, moves, to) ==
    /\ there
    /\ enabled' = on
    /\ public' = IF moves THEN to ELSE public
    /\ IF moves THEN /\ failures' = 0
                     /\ paused' = FALSE
                     /\ own' = 0
                     /\ strays' = {r \in Runs : HasRead(r)}
                ELSE UNCHANGED <<failures, paused, own, strays>>
    /\ UNCHANGED <<there, deliveries, queue, runs, accepted, closed, overlapped>>

\* Its deliveries go with it.
Delete ==
    /\ there
    /\ there' = FALSE
    /\ status' = [d \in Deliveries |-> "none"]
    /\ closed' = closed \cup {d \in Deliveries : status[d] # "none"}
    /\ UNCHANGED <<enabled, public, failures, paused, pings, queue, runs, accepted, overlapped, strays, own>>

Prune(d) ==
    /\ status[d] # "none"
    /\ status' = [status EXCEPT ![d] = "none"]
    /\ closed' = closed \cup {d}
    /\ UNCHANGED <<hook, pings, queue, runs, accepted, overlapped, strays, own>>

PauseEnds ==
    /\ paused
    /\ paused' = FALSE
    /\ UNCHANGED <<there, enabled, public, failures, deliveries, queue, runs, history>>

-------------------------------------------------------------------------------
(* What the queue does with a delivery's job.                              *)

Begin(r, d) ==
    /\ ~Active(r)
    /\ Queue!Begin(d)
    /\ at' = [at EXCEPT ![r] = "begun"]
    /\ sends' = [sends EXCEPT ![r] = d]
    /\ overlapped' = IF \E other \in Runs : Active(other) /\ sends[other] = d
                     THEN overlapped \cup {d}
                     ELSE overlapped
    /\ UNCHANGED <<hook, deliveries, answer, result, accepted, closed, strays, own>>

\* A run and what it knew are gone.
End(r) ==
    /\ at' = [at EXCEPT ![r] = "idle"]
    /\ sends' = [sends EXCEPT ![r] = None]
    /\ answer' = [answer EXCEPT ![r] = NoAnswer]
    /\ result' = [result EXCEPT ![r] = "retry"]
    /\ strays' = strays \ {r}

Return(r) ==
    /\ at[r] = "done"
    /\ Queue!Return(sends[r], result[r])
    /\ End(r)
    /\ UNCHANGED <<hook, deliveries, accepted, closed, overlapped, own>>

\* A statement fails: the error is returned, to be retried.
StatementFails(r) ==
    /\ at[r] \in Places \ {"idle", "sending", "done"}
    /\ at' = [at EXCEPT ![r] = "done"]
    /\ result' = [result EXCEPT ![r] = "retry"]
    /\ answer' = [answer EXCEPT ![r] = NoAnswer]
    /\ strays' = strays \ {r}
    /\ UNCHANGED <<hook, deliveries, queue, sends, accepted, closed, overlapped, own>>

Crash(r) ==
    /\ Active(r)
    /\ End(r)
    /\ UNCHANGED <<hook, deliveries, queue, accepted, closed, overlapped, own>>

Finish(d) == Queue!Finish(d) /\ UNCHANGED <<hook, deliveries, runs, history>>

GiveUp(d) == Queue!GiveUp({d}) /\ UNCHANGED <<hook, deliveries, runs, history>>

Revive(d) == Queue!Revive(d) /\ UNCHANGED <<hook, deliveries, runs, history>>

Discard(d) ==
    /\ Queue!Discard(d)
    /\ closed' = closed \cup {d}
    /\ UNCHANGED <<hook, deliveries, runs, accepted, overlapped, strays, own>>

-------------------------------------------------------------------------------
(* deliver, one statement at a time.                                       *)

Go(r, place) == at' = [at EXCEPT ![r] = place]

GiveBack(r, how) ==
    /\ Go(r, "done")
    /\ result' = [result EXCEPT ![r] = how]

\* A slip: a delivery made before is made again.
ReadAnyDelivery(r) ==
    /\ at[r] = "begun"
    /\ IF status[sends[r]] = "none"
       THEN GiveBack(r, "ok")
       ELSE Go(r, "found") /\ UNCHANGED result
    /\ UNCHANGED <<hook, deliveries, queue, sends, answer, history>>

\* webhooks::delivery
ReadDelivery(r) ==
    /\ at[r] = "begun"
    /\ IF status[sends[r]] \in {"none", "delivered"}
       THEN GiveBack(r, "ok")
       ELSE Go(r, "found") /\ UNCHANGED result
    /\ UNCHANGED <<hook, deliveries, queue, sends, answer, history>>

\* What is to become of a delivery. A test goes even while deliveries are turned off, or
\* wait.
Course(ping) ==
    IF ~public \/ (~enabled /\ ~ping) THEN "off"
    ELSE IF paused /\ ~ping THEN "waiting" ELSE "sending"

\* webhooks::by_id
ReadHook(r) ==
    /\ at[r] = "found"
    /\ strays' = strays \ {r}
    /\ IF there
       THEN Go(r, Course(sends[r] \in pings)) /\ UNCHANGED result
       ELSE GiveBack(r, "ok")
    /\ UNCHANGED <<hook, deliveries, queue, sends, answer, accepted, closed, overlapped, own>>

\* The receiver may have taken what it never answered, or not in full.
Send(r) ==
    /\ at[r] = "sending"
    /\ Go(r, "answered")
    /\ \E reply \in Replies, whole \in BOOLEAN :
        /\ reply = "none" => ~whole
        /\ answer' = [answer EXCEPT ![r] = [reply |-> reply, whole |-> whole]]
        /\ accepted' = IF reply = "success" THEN accepted \cup {sends[r]} ELSE accepted
    /\ UNCHANGED <<hook, deliveries, queue, sends, result, closed, overlapped, strays, own>>

\* note_unreachable, also of an answer that broke off; note_reachable
Note(r) ==
    /\ at[r] = "answered"
    /\ Go(r, "noted")
    /\ IF there
       THEN IF answer[r].whole
            THEN /\ failures' = 0
                 /\ paused' = FALSE
                 /\ own' = IF r \in strays THEN own ELSE 0
            ELSE /\ failures' = failures + 1
                 /\ paused' = (failures + 1 >= PauseAfter)
                 /\ own' = IF r \in strays THEN own ELSE own + 1
       ELSE UNCHANGED <<failures, paused, own>>
    /\ strays' = strays \ {r}
    /\ UNCHANGED <<there, enabled, public, deliveries, queue, sends, answer, result,
                   accepted, closed, overlapped>>

Write(d, to) == status' = [status EXCEPT ![d] = IF @ = "none" THEN "none" ELSE to]

\* A slip: a refused delivery's job fails for good, as no delivery's may.
ReturnedForGood(reply) ==
    IF reply = "success" THEN "ok" ELSE IF reply = "refused" THEN "permanent" ELSE "retry"

\* A slip: an answer to be retried is returned as final.
ReturnOk(reply) == "ok"

Returned(reply) == IF reply \in {"success", "refused"} THEN "ok" ELSE "retry"

\* A slip: an answer that is to be retried counts as made.
TakenToLog(reply) == reply \in {"success", "again"}

Taken(reply) == reply = "success"

\* record_attempt, of a delivery that was answered, or wasn't
Record(r) ==
    LET d == sends[r] IN
    /\ at[r] = "noted"
    /\ Write(d, IF Taken(answer[r].reply) THEN "delivered" ELSE "failed")
    /\ closed' = IF answer[r].reply = "refused" THEN closed \cup {d} ELSE closed
    /\ GiveBack(r, Returned(answer[r].reply))
    /\ answer' = [answer EXCEPT ![r] = NoAnswer]
    /\ UNCHANGED <<hook, pings, queue, sends, accepted, overlapped, strays, own>>

\* record_attempt, of one not to be sent
RecordOff(r) ==
    /\ at[r] = "off"
    /\ Write(sends[r], "failed")
    /\ closed' = closed \cup {sends[r]}
    /\ GiveBack(r, "ok")
    /\ UNCHANGED <<hook, pings, queue, sends, answer, accepted, overlapped, strays, own>>

\* record_attempt, of one put off by the pause
RecordPause(r) ==
    /\ at[r] = "waiting"
    /\ Write(sends[r], "failed")
    /\ GiveBack(r, "retry")
    /\ strays' = strays \ {r}
    /\ UNCHANGED <<hook, pings, queue, sends, answer, accepted, closed, overlapped, own>>

-------------------------------------------------------------------------------
Manage ==
    \/ \E d \in Deliveries, ping \in BOOLEAN : Emit(d, ping)
    \/ \E on, moves, to \in BOOLEAN : Edit(on, moves, to)
    \/ Delete
    \/ \E d \in Deliveries : Prune(d)
    \/ PauseEnds

Schedule ==
    \/ \E r \in Runs, d \in Deliveries : Begin(r, d)
    \/ \E r \in Runs : Return(r) \/ StatementFails(r) \/ Crash(r)
    \/ \E d \in Deliveries : Finish(d) \/ GiveUp(d) \/ Revive(d) \/ Discard(d)

Deliver(r) ==
    \/ ReadDelivery(r)
    \/ ReadHook(r)
    \/ Send(r)
    \/ Note(r)
    \/ Record(r)
    \/ RecordOff(r)
    \/ RecordPause(r)

Next == Manage \/ Schedule \/ \E r \in Runs : Deliver(r)

Spec == Init /\ [][Next]_vars

-------------------------------------------------------------------------------
(* Properties.                                                             *)

\* The queue lets go of a delivery only when it is delivered or nobody is to have it:
\* refused, turned off, or removed with its webhook, its row or its job. Only when two
\* runs of it overlapped may the log say otherwise.
NothingForgotten ==
    \A d \in Deliveries :
        status[d] \in {"queued", "failed"} /\ state[d] = "absent" => d \in closed \cup overlapped

\* What the log says was delivered, a receiver took.
DeliveredWasAccepted == \A d \in Deliveries : status[d] = "delivered" => d \in accepted

\* A delivery once made is neither made again nor logged as failed, whatever crashes and
\* is retried, unless two runs of it overlapped.
DeliveredStays ==
    [][\A d \in Deliveries \ overlapped' : status[d] = "delivered" => status'[d] # "failed"]_vars

\* Only a receiver that failed itself is put on pause: tries of the URL before count
\* against it at most once for each run that was under way when it changed.
PausedFairly == paused => own + Cardinality(Runs) >= PauseAfter
===============================================================================
