--------------------------- MODULE MCPostModeration ---------------------------
EXTENDS PostModeration, TLC
Interchangeable == Permutations(Users) \cup Permutations(Runs)
===============================================================================
