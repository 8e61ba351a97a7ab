----------------------------- MODULE MCRenditions -----------------------------
EXTENDS Renditions, TLC
CONSTANTS large, small, thumb, sample, p1
\* A sample is made of large files only.
Made     == (large :> {thumb, sample}) @@ (small :> {thumb})
Together == [r \in Runs |-> p1]
Attempts == [j \in Jobs |-> 1]
AnyRun   == Permutations(Runs)

Going == Cardinality({r \in Runs : Active(r)})
Dead  == {j \in Jobs : state[j] = "dead"}
\* A job that a run, perhaps its only one, works on.
Minded == \A r \in Runs : Active(r) =>
              state[works[r]] = "pending" /\ \A s \in Runs \ {r} : works[s] # works[r]
\* One job, run twice at once, dead, revived or discarded, or its post purged; two jobs, of
\* one file or two, run at once; or three, the file replaced twice, one after the other.
FewAtOnce ==
    \/ enqueued = 1 /\ (Going <= 1 \/ post = "there")
    \/ /\ post = "there" /\ discarded = {} /\ Dead = {} /\ Minded
       /\ \/ enqueued = 2
          \/ enqueued = 3 /\ Going <= 1 /\ ordered = 3 /\ state[1] = "absent" /\ ~crossed

\* What later steps and the properties depend on.
Seen == <<row, storage, state, begun, orders, runs, history,
          [j \in Jobs |-> IF state[j] = "pending" THEN results[j] \ {"retry"} ELSE {}],
          [p \in Processes |-> IF \E r \in Runs : On[r] = p /\ AtWork(r) THEN scratch[p] ELSE None]>>
===============================================================================
