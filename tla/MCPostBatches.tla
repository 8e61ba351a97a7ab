----------------------------- MODULE MCPostBatches -----------------------------
EXTENDS PostBatches, TLC
Interchangeable == Permutations(Batches) \cup Permutations(Runs)
Attempts == [b \in Batches |-> 2]

Going    == Cardinality({r \in Runs : Active(r)})
Made     == {b \in Batches : status[b] # "none"}
Uploaded == Cardinality({p \in Posts : post[p] # "unborn"})
Alone    == \E p \in Posts : post[p] = "purging" /\ marker[p] = None
Dead     == \E b \in Batches : state[b] = "dead"
Calm     == Going <= 1 /\ overlapped = {} /\ ~Dead
Kept     == discarded = {} /\ \A b \in Batches : status[b] # "failed"
Kinds(K) == \A b \in Made : kind[b] \in K

\* Two batches over one post, neither dead, discarded, failed or run twice. Or one batch:
\* over one post, which may be purged alone (a search, without that and a dead job); over
\* two, without a dead job and, but for a deletion, without a second run; or over three
\* ticked ones, on two pages, calm all along.
FewAtOnce ==
    /\ Alone => Uploaded <= 1 /\ Cardinality(Made) <= 1
    /\ \/ Uploaded <= 1 /\ Calm /\ Kept
       \/ /\ Uploaded <= 1 /\ Cardinality(Made) <= 1
          /\ ~Kinds({"delete", "purge"}) => ~Dead /\ ~Alone
       \/ Uploaded <= 2 /\ Cardinality(Made) <= 1 /\ ~Dead /\ (Going <= 1 \/ Kinds({"delete"}))
       \/ Cardinality(Made) <= 1 /\ Calm /\ Kinds({"purge"})

\* What later steps and the properties depend on. Nothing changes a batch any more that is
\* finished, whose job is gone and which nobody runs; what a run knows, it needs for posts.
\* Whether a search matches a post matters, and can be chosen, while the post is deleted; that
\* it once strayed, while a run has it on its page or the batch has marked it.
Worked(b)  == {r \in Runs : works[r] = b}
Marked(b)  == {p \in Posts : post[p] = "purging" /\ marker[p] = b}
Found(b)   == IF kind[b] = "search" THEN targets[b] \cap Deleted ELSE targets[b]
Settled(b) == ~Open(b) /\ status[b] # "none" /\ state[b] = "absent" /\ Worked(b) = {}

SeenBatch(b) ==
    IF Settled(b) THEN <<kind[b], status[b], b \in overlapped, b \in discarded>>
    ELSE <<kind[b], status[b], resume[b], failed[b], state[b], steady[b],
           b \in overlapped, b \in discarded,
           IF Open(b) \/ Worked(b) # {} THEN Found(b) ELSE {},
           IF state[b] = "pending" THEN <<begun[b], results[b] \ {"retry"}>> ELSE None,
           Marked(b), strayed[b] \cap (Marked(b) \cup UNION {page[r] : r \in Worked(b)})>>

SeenRun(r) ==
    IF at[r] \in {"ending", "refused", "done"} THEN <<at[r], works[r], result[r]>>
    ELSE <<at[r], works[r], before[r], page[r], last[r], streak[r], result[r]>>

Seen == <<post, {p \in Posts : post[p] = "purging" /\ marker[p] = None},
          [b \in Batches |-> SeenBatch(b)], [r \in Runs |-> SeenRun(r)]>>
===============================================================================
