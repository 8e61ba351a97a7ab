----------------------------- MODULE MCMediaFiles -----------------------------
(* MediaFiles for TLC: files, ids and requests are interchangeable.         *)
EXTENDS MediaFiles, TLC

Interchangeable == Permutations(Files) \cup Permutations(Posts) \cup Permutations(Rows)
                   \cup Permutations(Replacements) \cup Permutations(Requests)
===============================================================================
