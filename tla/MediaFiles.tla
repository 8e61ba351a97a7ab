------------------------------ MODULE MediaFiles ------------------------------
(***************************************************************************)
(* Originals in content-addressed storage and the rows that refer to them: *)
(* the posts' media_assets, the staged_uploads and the post_replacements   *)
(* (crates/db/src/{media,staged_uploads,replacements,posts}.rs). Storage   *)
(* takes part in no transaction. Uploads store a file before they record   *)
(* it (crates/web/src/upload.rs); a failed upload, the expiry of staged    *)
(* uploads, the removal of a replaced file and the purge of a post delete  *)
(* files that nothing refers to (crates/jobs/src/media.rs,                 *)
(* crates/web/src/replacements.rs).                                        *)
(*                                                                         *)
(* Every statement whose result is acted upon later is a step of its own,  *)
(* and so is every deletion of a file. A failed upload's clean-up is one   *)
(* step: no recording transaction runs between its query and its commit.   *)
(***************************************************************************)
CONSTANTS
    Files,         \* contents, and so storage keys: the SHA-256 names the key
    Posts, Rows, Replacements,  \* ids, reused once nothing refers to the row
    Requests,      \* uploads, posts of staged files and replacements under way
    None

Staged      == [file : Files, post : Posts \cup {None}]
Replacement == [post : Posts, old : Files, new : Files, removed : BOOLEAN]

ASSUME FilesAssumption ==
    /\ None \notin Files \cup Posts \cup Rows \cup Requests
    /\ \A S \in SUBSET Files : None # S
    /\ None \notin Staged
    /\ None \notin Replacement

VARIABLES
    stored,     \* the files in storage
    asset,      \* each post's file; None where there is no post
    staged,     \* the staged uploads
    replaced,   \* the replacements
    \* requests
    at,         \* where each request is
    file,       \* its Prepared
    row,        \* the staged upload it posts, or None
    post,       \* the post it made of that, or None
    lock,       \* the request that holds the advisory lock of a file
    \* deletions
    doomed,     \* the keys the expiry goes through
    removing,   \* of each replacement, the keys its removal deletes, or None
    purge,      \* where the purge of each post is
    todo,       \* the keys it goes through
    \* bookkeeping
    raced,      \* history: files recorded while an unlocked deletion had them picked
    withdrawn   \* history: files a purge or a removal deleted

tables    == <<asset, staged, replaced>>
requests  == <<at, file, row, post, lock>>
deletions == <<doomed, removing, purge, todo>>
history   == <<raced, withdrawn>>
vars == <<stored, tables, requests, deletions, history>>

Places      == {"idle", "prepared", "kept", "failed", "posted"}
PurgeStages == {"none", "marked", "old", "asset"}

\* The types, and that only a transaction that records a file holds its lock.
TypeOK ==
    /\ stored \subseteq Files
    /\ asset \in [Posts -> Files \cup {None}]
    /\ staged \in [Rows -> Staged \cup {None}]
    /\ replaced \in [Replacements -> Replacement \cup {None}]
    /\ at \in [Requests -> Places]
    /\ file \in [Requests -> Files \cup {None}]
    /\ row \in [Requests -> Rows \cup {None}]
    /\ post \in [Requests -> Posts \cup {None}]
    /\ lock \in [Files -> {r \in Requests : at[r] = "kept"} \cup {None}]
    /\ doomed \subseteq Files
    /\ removing \in [Replacements -> (SUBSET Files) \cup {None}]
    /\ purge \in [Posts -> PurgeStages]
    /\ todo \in [Posts -> SUBSET Files]
    /\ raced \subseteq Files
    /\ withdrawn \subseteq Files

Init ==
    /\ stored = {}
    /\ asset = [p \in Posts |-> None]
    /\ staged = [s \in Rows |-> None]
    /\ replaced = [i \in Replacements |-> None]
    /\ at = [r \in Requests |-> "idle"]
    /\ file = [r \in Requests |-> None]
    /\ row = [r \in Requests |-> None]
    /\ post = [r \in Requests |-> None]
    /\ lock = [f \in Files |-> None]
    /\ doomed = {}
    /\ removing = [i \in Replacements |-> None]
    /\ purge = [p \in Posts |-> "none"]
    /\ todo = [p \in Posts |-> {}]
    /\ raced = {}
    /\ withdrawn = {}

-------------------------------------------------------------------------------
(* Who refers to a file.                                                   *)

HasPost(f) == \E p \in Posts : asset[p] = f

Waiting == {s \in Rows : staged[s] # None /\ staged[s].post = None}

\* Replacements of S that still keep their earlier file.
Keeping(S, f) == {i \in S : replaced[i] # None /\ replaced[i].old = f /\ ~replaced[i].removed}

\* A slip: staged uploads are forgotten.
OriginalUsedByPosts(f) ==
    \/ HasPost(f)
    \/ \E i \in Replacements : replaced[i] # None /\ f \in {replaced[i].old, replaced[i].new}

\* Of a replacement either file counts, removed or not.
OriginalUsed(f) ==
    \/ HasPost(f)
    \/ \E s \in Waiting : staged[s].file = f
    \/ \E i \in Replacements : replaced[i] # None /\ f \in {replaced[i].old, replaced[i].new}

\* The keys an unlocked deletion goes through.
Picked == {f \in Files :
    \/ f \in doomed
    \/ \E p \in Posts : f \in todo[p]
    \/ \E i \in Replacements : removing[i] # None /\ f \in removing[i]}

-------------------------------------------------------------------------------
(* Uploads.                                                                *)

\* `prepare`: no post has the file, which is stored unless it is there already.
\* A file that became a post's between the two is refused when it is recorded.
Prepare(r, f) ==
    /\ at[r] = "idle"
    /\ ~HasPost(f)
    /\ at' = [at EXCEPT ![r] = "prepared"]
    /\ file' = [file EXCEPT ![r] = f]
    /\ stored' = stored \cup {f}
    /\ IF f \in stored \cup Picked
       THEN UNCHANGED history
       ELSE /\ raced' = raced \ {f}
            /\ withdrawn' = withdrawn \ {f}
    /\ UNCHANGED <<tables, row, post, lock, deletions>>

\* `post_staged`: what the row names is prepared already.
OpenStaged(r, s) ==
    /\ at[r] = "idle"
    /\ s \in Waiting
    /\ at' = [at EXCEPT ![r] = "prepared"]
    /\ file' = [file EXCEPT ![r] = staged[s].file]
    /\ row' = [row EXCEPT ![r] = s]
    /\ UNCHANGED <<stored, tables, post, lock, deletions, history>>

\* A slip: without the lock of the file.
KeepUnlocked(r) ==
    /\ at[r] = "prepared"
    /\ at' = [at EXCEPT ![r] = IF file[r] \in stored THEN "kept" ELSE "failed"]
    /\ UNCHANGED <<stored, tables, file, row, post, lock, deletions, history>>

\* keep_original, in the transaction that goes on to record the file.
Keep(r) ==
    /\ at[r] = "prepared"
    /\ lock[file[r]] = None
    /\ IF file[r] \in stored
       THEN /\ at' = [at EXCEPT ![r] = "kept"]
            /\ lock' = [lock EXCEPT ![file[r]] = r]
       ELSE /\ at' = [at EXCEPT ![r] = "failed"]
            /\ UNCHANGED lock
    /\ UNCHANGED <<stored, tables, file, row, post, deletions, history>>

\* The transaction ends, and the locks it holds.
Release(r) == lock' = [f \in Files |-> IF lock[f] = r THEN None ELSE lock[f]]

\* The request is over.
Done(r) ==
    /\ at' = [at EXCEPT ![r] = "idle"]
    /\ file' = [file EXCEPT ![r] = None]
    /\ row' = [row EXCEPT ![r] = None]
    /\ post' = [post EXCEPT ![r] = None]

\* Bookkeeping of a commit that refers to f.
Recorded(f) == raced' = IF f \in Picked THEN raced \cup {f} ELSE raced

UnusedPost(p) == asset[p] = None /\ \A r \in Requests : post[r] # p
UnusedRow(s)  == staged[s] = None /\ \A r \in Requests : row[r] # s

\* insert_post; of a staged upload, its row is told afterwards.
CommitPost(r, p) ==
    /\ at[r] = "kept"
    /\ ~HasPost(file[r])
    /\ UnusedPost(p)
    /\ asset' = [asset EXCEPT ![p] = file[r]]
    /\ IF row[r] = None
       THEN Done(r)
       ELSE /\ at' = [at EXCEPT ![r] = "posted"]
            /\ post' = [post EXCEPT ![r] = p]
            /\ UNCHANGED <<file, row>>
    /\ Release(r)
    /\ Recorded(file[r])
    /\ UNCHANGED <<stored, staged, replaced, deletions, withdrawn>>

CommitStage(r, s) ==
    /\ at[r] = "kept"
    /\ row[r] = None
    /\ UnusedRow(s)
    /\ staged' = [staged EXCEPT ![s] = [file |-> file[r], post |-> None]]
    /\ Done(r)
    /\ Release(r)
    /\ Recorded(file[r])
    /\ UNCHANGED <<stored, asset, replaced, deletions, withdrawn>>

\* The post's present file becomes the earlier one of replacement i. The post
\* may be in the middle of its purge.
CommitReplace(r, p, i) ==
    /\ at[r] = "kept"
    /\ row[r] = None
    /\ asset[p] # None
    /\ ~HasPost(file[r])
    /\ replaced[i] = None
    /\ replaced' = [replaced EXCEPT ![i] =
                    [post |-> p, old |-> asset[p], new |-> file[r], removed |-> FALSE]]
    /\ asset' = [asset EXCEPT ![p] = file[r]]
    /\ Done(r)
    /\ Release(r)
    /\ Recorded(file[r])
    /\ UNCHANGED <<stored, staged, deletions, withdrawn>>

\* Refused before or after keep_original: a limit, a banned artist, a file that
\* is a post's by now, an error.
Refuse(r) ==
    /\ at[r] \in {"prepared", "kept"}
    /\ at' = [at EXCEPT ![r] = "failed"]
    /\ Release(r)
    /\ UNCHANGED <<stored, tables, file, row, post, deletions, history>>

\* forget_original; a staged upload that could not be posted waits on.
Forget(r) ==
    /\ at[r] = "failed"
    /\ IF row[r] = None
       THEN /\ lock[file[r]] = None
            /\ stored' = IF OriginalUsed(file[r]) THEN stored ELSE stored \ {file[r]}
       ELSE UNCHANGED stored
    /\ Done(r)
    /\ UNCHANGED <<tables, lock, deletions, history>>

\* `used`, unless another request was first or the post is purged already.
MarkUsed(r) ==
    /\ at[r] = "posted"
    /\ staged' = IF row[r] \in Waiting /\ asset[post[r]] # None
                 THEN [staged EXCEPT ![row[r]].post = post[r]] ELSE staged
    /\ Done(r)
    /\ UNCHANGED <<stored, asset, replaced, lock, deletions, history>>

-------------------------------------------------------------------------------
(* Deletions that take no lock of the file.                                *)

\* Bookkeeping of one: a file goes under a transaction that has checked it.
Deleted(f) ==
    /\ stored' = stored \ {f}
    /\ raced' = IF lock[f] # None THEN raced \cup {f} ELSE raced

\* The keys that no post and no other staged upload has.
Expirable(S) == {f \in {staged[s].file : s \in S} :
    /\ ~HasPost(f)
    /\ ~\E s \in Rows \ S : staged[s] # None /\ staged[s].file = f}

\* `expire`, of the rows that have waited for too long.
Expire(S) ==
    /\ doomed = {}
    /\ S # {} /\ S \subseteq Waiting
    /\ doomed' = Expirable(S)
    /\ staged' = [s \in Rows |-> IF s \in S THEN None ELSE staged[s]]
    /\ UNCHANGED <<stored, asset, replaced, requests, removing, purge, todo, history>>

DeleteExpired(f) ==
    /\ f \in doomed
    /\ doomed' = doomed \ {f}
    /\ Deleted(f)
    /\ UNCHANGED <<tables, requests, removing, purge, todo, withdrawn>>

\* remove_old up to its query; the mark on the row is not committed.
CheckOld(i) ==
    /\ replaced[i] # None
    /\ ~replaced[i].removed
    /\ removing[i] = None
    /\ removing' = [removing EXCEPT ![i] =
            LET f == replaced[i].old
            IN  IF HasPost(f) \/ Keeping(Replacements \ {i}, f) # {} THEN {} ELSE {f}]
    /\ UNCHANGED <<stored, tables, requests, doomed, purge, todo, history>>

DeleteOld(i) ==
    /\ removing[i] # None
    /\ \E f \in removing[i] :
        /\ Deleted(f)
        /\ withdrawn' = withdrawn \cup {f}
        /\ removing' = [removing EXCEPT ![i] = @ \ {f}]
    /\ UNCHANGED <<tables, requests, doomed, purge, todo>>

CommitOld(i) ==
    /\ removing[i] = {}
    /\ replaced' = [replaced EXCEPT ![i].removed = TRUE]
    /\ removing' = [removing EXCEPT ![i] = None]
    /\ UNCHANGED <<stored, asset, staged, requests, doomed, purge, todo, history>>

\* start_purge, of a deleted post.
StartPurge(p) ==
    /\ asset[p] # None
    /\ purge[p] = "none"
    /\ purge' = [purge EXCEPT ![p] = "marked"]
    /\ UNCHANGED <<stored, tables, requests, doomed, removing, todo, history>>

\* old_keys.
ListOld(p) ==
    /\ purge[p] = "marked"
    /\ purge' = [purge EXCEPT ![p] = "old"]
    /\ todo' = [todo EXCEPT ![p] =
            {f \in Files : ~HasPost(f) /\ \E i \in Keeping(Replacements, f) : replaced[i].post = p}]
    /\ UNCHANGED <<stored, tables, requests, doomed, removing, history>>

ListAsset(p) ==
    /\ purge[p] = "old"
    /\ todo[p] = {}
    /\ purge' = [purge EXCEPT ![p] = "asset"]
    /\ todo' = [todo EXCEPT ![p] = {asset[p]}]
    /\ UNCHANGED <<stored, tables, requests, doomed, removing, history>>

DeletePurged(p) ==
    /\ \E f \in todo[p] :
        /\ Deleted(f)
        /\ withdrawn' = withdrawn \cup {f}
        /\ todo' = [todo EXCEPT ![p] = @ \ {f}]
    /\ UNCHANGED <<tables, requests, doomed, removing, purge>>

\* finish_purge, with what the foreign keys of the post do. The row of a
\* replacement whose removal is under way is locked.
FinishPurge(p) ==
    /\ purge[p] = "asset"
    /\ todo[p] = {}
    /\ \A i \in Replacements :
        replaced[i] # None /\ replaced[i].post = p => removing[i] = None
    /\ purge' = [purge EXCEPT ![p] = "none"]
    /\ asset' = [asset EXCEPT ![p] = None]
    /\ staged' = [s \in Rows |-> IF staged[s] # None /\ staged[s].post = p
                                  THEN [staged[s] EXCEPT !.post = None] ELSE staged[s]]
    /\ replaced' = [i \in Replacements |-> IF replaced[i] # None /\ replaced[i].post = p
                                            THEN None ELSE replaced[i]]
    /\ UNCHANGED <<stored, requests, doomed, removing, todo, history>>

-------------------------------------------------------------------------------
(* Processes that die.                                                     *)

\* A slip: the lock is the session's.
RequestDiesHolding(r) ==
    /\ at[r] # "idle"
    /\ Done(r)
    /\ UNCHANGED <<stored, tables, lock, deletions, history>>

RequestDies(r) ==
    /\ at[r] # "idle"
    /\ Done(r)
    /\ Release(r)
    /\ UNCHANGED <<stored, tables, deletions, history>>

\* The retry of the job expires other rows.
ExpiryDies ==
    /\ doomed # {}
    /\ doomed' = {}
    /\ UNCHANGED <<stored, tables, requests, removing, purge, todo, history>>

RemovalDies(i) ==
    /\ removing[i] # None
    /\ removing' = [removing EXCEPT ![i] = None]
    /\ UNCHANGED <<stored, tables, requests, doomed, purge, todo, history>>

\* The retry finds the post marked.
PurgeDies(p) ==
    /\ purge[p] \in {"old", "asset"}
    /\ purge' = [purge EXCEPT ![p] = "marked"]
    /\ todo' = [todo EXCEPT ![p] = {}]
    /\ UNCHANGED <<stored, tables, requests, doomed, removing, history>>

-------------------------------------------------------------------------------
Upload(r) ==
    \/ \E f \in Files : Prepare(r, f)
    \/ \E s \in Rows : OpenStaged(r, s)
    \/ Keep(r)
    \/ \E p \in Posts : CommitPost(r, p)
    \/ \E s \in Rows : CommitStage(r, s)
    \/ \E p \in Posts, i \in Replacements : CommitReplace(r, p, i)
    \/ Refuse(r)
    \/ Forget(r)
    \/ MarkUsed(r)
    \/ RequestDies(r)

Expiry ==
    \/ \E S \in SUBSET Rows : Expire(S)
    \/ \E f \in Files : DeleteExpired(f)
    \/ ExpiryDies

Removal(i) == CheckOld(i) \/ DeleteOld(i) \/ CommitOld(i) \/ RemovalDies(i)

Purge(p) ==
    \/ StartPurge(p)
    \/ ListOld(p)
    \/ ListAsset(p)
    \/ DeletePurged(p)
    \/ FinishPurge(p)
    \/ PurgeDies(p)

Next ==
    \/ \E r \in Requests : Upload(r)
    \/ Expiry
    \/ \E i \in Replacements : Removal(i)
    \/ \E p \in Posts : Purge(p)

Spec == Init /\ [][Next]_vars

-------------------------------------------------------------------------------
(* What must not get lost.                                                 *)

Kept(p) == asset[p] # None /\ purge[p] = "none"

\* The file of a post that is not being purged is in storage.
PostsHaveFiles == \A p \in Posts : Kept(p) => asset[p] \in stored

\* ... unless it was recorded while an expiry, a removal or a purge had picked
\* it: that is the only way to lose a post's file, whatever uploads of the same
\* file fail, are cleaned up, replaced, staged and posted beside it.
PostsKeepFiles == \A p \in Posts : Kept(p) => asset[p] \in stored \cup raced

\* A staged upload that waits to be posted loses its file only that way, or to
\* a purge or removal of the same file; not to the expiry of another's staged
\* upload of it, nor to a failed upload's clean-up.
WaitingKeepFiles == \A s \in Waiting : staged[s].file \in stored \cup raced \cup withdrawn
===============================================================================
