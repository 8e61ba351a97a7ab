------------------------------ MODULE MCWebhooks -------------------------------
EXTENDS Webhooks, TLC
Interchangeable == Permutations(Deliveries) \cup Permutations(Runs)
Attempts == [d \in Deliveries |-> 2]
\* Failures in a row that are told apart.
FewFailures == failures <= PauseAfter /\ own <= 2
===============================================================================
