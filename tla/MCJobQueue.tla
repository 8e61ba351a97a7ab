------------------------------ MODULE MCJobQueue ------------------------------
(***************************************************************************)
(* Instances of JobQueue for TLC.                                          *)
(***************************************************************************)
EXTENDS JobQueue, TLC

CONSTANTS j1, j2, j3, j4, w1, w2, w3, n1, n2

AllKinds == {"mail", "webhook", "stats"}

\* With faults and stalls: an ordinary job and a limited one, two attempts each.
FaultyJobs == {j1, j2}
FaultyKind == (j1 :> "mail") @@ (j2 :> "webhook")
Twice      == [j \in Jobs |-> 2]

\* No stalls: two webhook deliveries, one at once, for two workers and a third
\* of a pool that has no limited kinds; two nodes that schedule "stats".
CalmJobs     == {j1, j2, j3, j4}
CalmKind     == (j1 :> "webhook") @@ (j2 :> "webhook") @@ (j3 :> "stats") @@ (j4 :> "stats")
CalmAttempts == [j \in Jobs |-> IF Kind[j] = "webhook" THEN 2 ELSE 1]
TwoPools     == (w1 :> {"webhook"}) @@ (w2 :> {"webhook", "stats"}) @@ (w3 :> {"stats"})

\* Liveness: two deliveries that may never return, one at once, and a mail.
SlowJobs == {j1, j2, j3}
SlowAttempts == [j \in Jobs |-> IF Kind[j] = "mail" THEN 2 ELSE 1]
SlowKind == (j1 :> "webhook") @@ (j2 :> "webhook") @@ (j3 :> "mail")

LimitedKind == [j \in Jobs |-> "webhook"]

AllHandle  == [w \in Workers |-> AllKinds]
OneWebhook == [k \in {"webhook"} |-> 1]

AnyWorker == Permutations(Workers)
AnyTwin   == Permutations({j1, j2}) \cup Permutations({j3, j4}) \cup Permutations(Schedulers)
===============================================================================
