--------------------------- MODULE MediaFilesProofs ---------------------------
(***************************************************************************)
(* Theorems about MediaFiles, for any files, ids and number of requests.   *)
(***************************************************************************)
EXTENDS MediaFiles, TLAPS

\* Post p has the file, or a replacement of p names it.
Refers(p, f) ==
    \/ asset[p] = f
    \/ \E i \in Replacements : /\ replaced[i] # None
                              /\ replaced[i].post = p
                              /\ f \in {replaced[i].old, replaced[i].new}

\* What the foreign keys and the unique index of media_assets see to, and that
\* nothing but a purge's own steps has a place in a purge.
RowsAgree ==
    /\ \A p, q \in Posts : asset[p] # None /\ asset[p] = asset[q] => p = q
    /\ \A p \in Posts : purge[p] # "none" => asset[p] # None
    /\ \A i \in Replacements : replaced[i] # None => asset[replaced[i].post] # None
    /\ \A i \in Replacements : removing[i] # None => replaced[i] # None

\* A request knows its file, which is the one of the row it posts.
RequestsAgree ==
    \A r \in Requests :
        /\ at[r] # "idle" => file[r] # None
        /\ at[r] = "idle" => row[r] = None
        /\ at[r] = "posted" => row[r] # None /\ post[r] # None
        /\ row[r] # None /\ staged[row[r]] # None => staged[row[r]].file = file[r]

\* A staged upload's post has its file, or had it: so does the post a request
\* has made, unless it is purged already.
PostedRefer ==
    /\ \A s \in Rows : staged[s] # None /\ staged[s].post # None =>
            /\ asset[staged[s].post] # None
            /\ Refers(staged[s].post, staged[s].file)
    /\ \A r \in Requests : at[r] = "posted" /\ asset[post[r]] # None =>
            Refers(post[r], file[r])

\* A file being recorded is locked and in storage.
KeptStored ==
    \A r \in Requests : at[r] = "kept" =>
        /\ lock[file[r]] = r
        /\ file[r] \in stored \cup raced

\* A post's file is in storage, and nothing is about to delete it.
PostsSafe ==
    \A p \in Posts : Kept(p) /\ asset[p] \notin raced =>
        /\ asset[p] \in stored
        /\ asset[p] \notin Picked

\* So is a staged upload's, posted or not, as far as the expiry goes.
RowsSafe ==
    \A s \in Rows : staged[s] # None /\ staged[s].file \notin raced \cup withdrawn =>
        /\ staged[s].file \in stored
        /\ staged[s].file \notin doomed

TInv == TypeOK /\ RowsAgree /\ RequestsAgree
IInv == TInv /\ PostedRefer /\ KeptStored /\ PostsSafe /\ RowsSafe

USE FilesAssumption

-------------------------------------------------------------------------------
\* Every step keeps the types, the foreign keys and what a request knows.
LEMMA TypesStep == TInv /\ [Next]_vars => TInv'
<1> SUFFICES ASSUME TInv, [Next]_vars
             PROVE  TInv'
  OBVIOUS
<1> USE DEF TInv, TypeOK, RowsAgree, RequestsAgree, Places, PurgeStages, Staged,
            Replacement, tables, requests, deletions, history
<1>1. ASSUME NEW r \in Requests, NEW f \in Files, Prepare(r, f)
      PROVE  TInv'
  BY <1>1 DEF Prepare
<1>2. ASSUME NEW r \in Requests, NEW s \in Rows, OpenStaged(r, s)
      PROVE  TInv'
  BY <1>2 DEF OpenStaged, Waiting
<1>3. ASSUME NEW r \in Requests, Keep(r)
      PROVE  TInv'
  BY SMTT(30), <1>3 DEF Keep
<1>4. ASSUME NEW r \in Requests, NEW p \in Posts, CommitPost(r, p)
      PROVE  TInv'
  BY SMTT(30), <1>4 DEF CommitPost, HasPost, UnusedPost, Done, Release, Recorded
<1>5. ASSUME NEW r \in Requests, NEW s \in Rows, CommitStage(r, s)
      PROVE  TInv'
  BY <1>5 DEF CommitStage, UnusedRow, Done, Release, Recorded
<1>6. ASSUME NEW r \in Requests, NEW p \in Posts, NEW i \in Replacements,
             CommitReplace(r, p, i)
      PROVE  TInv'
  BY <1>6 DEF CommitReplace, HasPost, Done, Release, Recorded
<1>7. ASSUME NEW r \in Requests, Refuse(r)
      PROVE  TInv'
  BY <1>7 DEF Refuse, Release
<1>8. ASSUME NEW r \in Requests, Forget(r)
      PROVE  TInv'
  BY <1>8 DEF Forget, Done
<1>9. ASSUME NEW r \in Requests, MarkUsed(r)
      PROVE  TInv'
  BY <1>9 DEF MarkUsed, Done, Waiting
<1>10. ASSUME NEW r \in Requests, RequestDies(r)
      PROVE  TInv'
  BY <1>10 DEF RequestDies, Done, Release
<1>11. ASSUME NEW S \in SUBSET Rows, Expire(S)
      PROVE  TInv'
  BY <1>11 DEF Expire, Expirable, Waiting
<1>12. ASSUME NEW f \in Files, DeleteExpired(f)
      PROVE  TInv'
  BY <1>12 DEF DeleteExpired, Deleted
<1>13. ASSUME ExpiryDies
      PROVE  TInv'
  BY <1>13 DEF ExpiryDies
<1>14. ASSUME NEW i \in Replacements, CheckOld(i)
      PROVE  TInv'
  BY <1>14 DEF CheckOld
<1>15. ASSUME NEW i \in Replacements, DeleteOld(i)
      PROVE  TInv'
  BY <1>15 DEF DeleteOld, Deleted
<1>16. ASSUME NEW i \in Replacements, CommitOld(i)
      PROVE  TInv'
  <2>1. removing[i] # None
    BY <1>16, {} \in SUBSET Files DEF CommitOld
  <2>2. replaced[i] \in Replacement
    BY <2>1
  <2>3. [replaced[i] EXCEPT !.removed = TRUE] \in Replacement
    BY <2>2
  <2>4. replaced' = [replaced EXCEPT ![i] = [replaced[i] EXCEPT !.removed = TRUE]]
    BY <1>16 DEF CommitOld
  <2>5. TypeOK'
    BY <1>16, <2>2, <2>3, <2>4 DEF CommitOld
  <2>6. RowsAgree'
    BY <1>16, <2>2, <2>3, <2>4 DEF CommitOld
  <2> QED
    BY <1>16, <2>5, <2>6 DEF CommitOld
<1>17. ASSUME NEW i \in Replacements, RemovalDies(i)
      PROVE  TInv'
  BY <1>17 DEF RemovalDies
<1>18. ASSUME NEW p \in Posts, StartPurge(p)
      PROVE  TInv'
  BY <1>18 DEF StartPurge
<1>19. ASSUME NEW p \in Posts, ListOld(p)
      PROVE  TInv'
  BY <1>19 DEF ListOld
<1>20. ASSUME NEW p \in Posts, ListAsset(p)
      PROVE  TInv'
  BY <1>20 DEF ListAsset
<1>21. ASSUME NEW p \in Posts, DeletePurged(p)
      PROVE  TInv'
  BY <1>21 DEF DeletePurged, Deleted
<1>22. ASSUME NEW p \in Posts, FinishPurge(p)
      PROVE  TInv'
  BY <1>22 DEF FinishPurge
<1>23. ASSUME NEW p \in Posts, PurgeDies(p)
      PROVE  TInv'
  BY <1>23 DEF PurgeDies
<1>24. CASE UNCHANGED vars
  BY <1>24 DEF vars
<1> QED
    BY <1>1, <1>2, <1>3, <1>4, <1>5, <1>6, <1>7, <1>8, <1>9, <1>10, <1>11, <1>12,
     <1>13, <1>14, <1>15, <1>16, <1>17, <1>18, <1>19, <1>20, <1>21, <1>22, <1>23,
     <1>24
  DEF Next, Upload, Expiry, Removal, Purge

\* Every step keeps what a posted staged upload's post refers to: a replacement
\* moves the file to its own row, and a purge takes row and reference together.
LEMMA ReferencesStep == IInv /\ TInv' /\ [Next]_vars => PostedRefer'
<1> SUFFICES ASSUME IInv, TInv', [Next]_vars
             PROVE  PostedRefer'
  OBVIOUS
<1> USE DEF IInv, TInv, TypeOK, RowsAgree, RequestsAgree, Places, PurgeStages, Staged,
            Replacement, tables, requests, deletions, history, PostedRefer, Refers,
            HasPost, Waiting, UnusedPost, UnusedRow
<1>1. ASSUME NEW r \in Requests, NEW f \in Files, Prepare(r, f)
      PROVE  PostedRefer'
  BY <1>1 DEF Prepare
<1>2. ASSUME NEW r \in Requests, NEW s \in Rows, OpenStaged(r, s)
      PROVE  PostedRefer'
  BY <1>2 DEF OpenStaged, Waiting
<1>3. ASSUME NEW r \in Requests, Keep(r)
      PROVE  PostedRefer'
  BY <1>3 DEF Keep
<1>4. ASSUME NEW r \in Requests, NEW p \in Posts, CommitPost(r, p)
      PROVE  PostedRefer'
  BY SMTT(30), <1>4 DEF CommitPost, HasPost, UnusedPost, Done, Release, Recorded
<1>5. ASSUME NEW r \in Requests, NEW s \in Rows, CommitStage(r, s)
      PROVE  PostedRefer'
  BY SMTT(30), <1>5 DEF CommitStage, UnusedRow, Done, Release, Recorded
<1>6. ASSUME NEW r \in Requests, NEW p \in Posts, NEW i \in Replacements,
             CommitReplace(r, p, i)
      PROVE  PostedRefer'
  <2>1. replaced[i] = None /\ asset[p] # None
    BY <1>6 DEF CommitReplace
  <2>2. /\ replaced'[i] # None
        /\ replaced'[i].post = p /\ replaced'[i].old = asset[p]
    <3> DEFINE new == [post |-> p, old |-> asset[p], new |-> file[r], removed |-> FALSE]
    <3>1. new \in Replacement
      BY <1>6 DEF CommitReplace
    <3>2. replaced'[i] = new
      BY <1>6 DEF CommitReplace
    <3>3. replaced'[i].post = p /\ replaced'[i].old = asset[p]
      BY <3>2
    <3> HIDE DEF new
    <3> QED
      BY <3>1, <3>2, <3>3
  <2>3. ASSUME NEW q \in Posts, NEW g \in Files, Refers(q, g)
        PROVE  Refers(q, g)'
    <3>1. CASE asset[q] = g /\ q = p
      BY <2>2, <3>1
    <3>2. CASE asset[q] = g /\ q # p
      BY <1>6, <3>2 DEF CommitReplace
    <3>3. CASE asset[q] # g
      BY <1>6, <2>1, <2>3, <3>3 DEF CommitReplace
    <3> QED
      BY <3>1, <3>2, <3>3
  <2>4. \A q \in Posts : asset'[q] # None => asset[q] # None
    BY <1>6, <2>1 DEF CommitReplace
  <2>5. \A q \in Posts : asset[q] # None => asset'[q] # None
    BY <1>6 DEF CommitReplace
  <2>6. staged' = staged /\ at' = [at EXCEPT ![r] = "idle"]
    BY <1>6 DEF CommitReplace, Done
  <2>7. \A u \in Requests \ {r} : post'[u] = post[u] /\ file'[u] = file[u]
    BY <1>6 DEF CommitReplace, Done
  <2>8. \A s \in Rows : staged[s] # None /\ staged[s].post # None =>
          staged[s].post \in Posts /\ staged[s].file \in Files
    OBVIOUS
  <2> HIDE DEF Refers
  <2> QED
    BY <2>3, <2>4, <2>5, <2>6, <2>7, <2>8
<1>7. ASSUME NEW r \in Requests, Refuse(r)
      PROVE  PostedRefer'
  BY <1>7 DEF Refuse, Release
<1>8. ASSUME NEW r \in Requests, Forget(r)
      PROVE  PostedRefer'
  BY <1>8 DEF Forget, Done
<1>9. ASSUME NEW r \in Requests, MarkUsed(r)
      PROVE  PostedRefer'
  BY SMTT(60), <1>9 DEF MarkUsed, Done, Waiting
<1>10. ASSUME NEW r \in Requests, RequestDies(r)
      PROVE  PostedRefer'
  BY <1>10 DEF RequestDies, Done, Release
<1>11. ASSUME NEW S \in SUBSET Rows, Expire(S)
      PROVE  PostedRefer'
  BY <1>11 DEF Expire, Expirable, Waiting
<1>12. ASSUME NEW f \in Files, DeleteExpired(f)
      PROVE  PostedRefer'
  BY <1>12 DEF DeleteExpired, Deleted
<1>13. ASSUME ExpiryDies
      PROVE  PostedRefer'
  BY <1>13 DEF ExpiryDies
<1>14. ASSUME NEW i \in Replacements, CheckOld(i)
      PROVE  PostedRefer'
  BY <1>14 DEF CheckOld
<1>15. ASSUME NEW i \in Replacements, DeleteOld(i)
      PROVE  PostedRefer'
  BY <1>15 DEF DeleteOld, Deleted
<1>16. ASSUME NEW i \in Replacements, CommitOld(i)
      PROVE  PostedRefer'
  <2>1. replaced[i] \in Replacement
    BY <1>16, {} \in SUBSET Files DEF CommitOld
  <2>2. /\ replaced'[i] # None
        /\ replaced'[i].post = replaced[i].post
        /\ {replaced'[i].old, replaced'[i].new} = {replaced[i].old, replaced[i].new}
    <3>1. replaced'[i] = [replaced[i] EXCEPT !.removed = TRUE]
      BY <1>16 DEF CommitOld
    <3>2. replaced'[i] \in Replacement
      BY <2>1, <3>1
    <3> QED
      BY <2>1, <3>1, <3>2
  <2>3. \A j \in Replacements \ {i} : replaced'[j] = replaced[j]
    BY <1>16 DEF CommitOld
  <2>4. ASSUME NEW q, NEW g, Refers(q, g)
        PROVE  Refers(q, g)'
    <3>1. asset' = asset
      BY <1>16 DEF CommitOld
    <3>2. CASE asset[q] = g
      BY <3>1, <3>2
    <3>3. CASE asset[q] # g
      <4>1. PICK j \in Replacements : /\ replaced[j] # None
                                      /\ replaced[j].post = q
                                      /\ g \in {replaced[j].old, replaced[j].new}
        BY <2>4, <3>3
      <4>2. CASE j = i
        BY <2>2, <4>1, <4>2
      <4>3. CASE j # i
        BY <2>3, <4>1, <4>3
      <4> QED
        BY <4>2, <4>3
    <3> QED
      BY <3>2, <3>3
  <2> HIDE DEF Refers
  <2> QED
    BY <1>16, <2>4 DEF CommitOld
<1>17. ASSUME NEW i \in Replacements, RemovalDies(i)
      PROVE  PostedRefer'
  BY <1>17 DEF RemovalDies
<1>18. ASSUME NEW p \in Posts, StartPurge(p)
      PROVE  PostedRefer'
  BY <1>18 DEF StartPurge
<1>19. ASSUME NEW p \in Posts, ListOld(p)
      PROVE  PostedRefer'
  BY <1>19 DEF ListOld
<1>20. ASSUME NEW p \in Posts, ListAsset(p)
      PROVE  PostedRefer'
  BY <1>20 DEF ListAsset
<1>21. ASSUME NEW p \in Posts, DeletePurged(p)
      PROVE  PostedRefer'
  BY <1>21 DEF DeletePurged, Deleted
<1>22. ASSUME NEW p \in Posts, FinishPurge(p)
      PROVE  PostedRefer'
  BY SMTT(30), <1>22 DEF FinishPurge
<1>23. ASSUME NEW p \in Posts, PurgeDies(p)
      PROVE  PostedRefer'
  BY <1>23 DEF PurgeDies
<1>24. CASE UNCHANGED vars
  BY <1>24 DEF vars
<1> QED
    BY <1>1, <1>2, <1>3, <1>4, <1>5, <1>6, <1>7, <1>8, <1>9, <1>10, <1>11, <1>12,
     <1>13, <1>14, <1>15, <1>16, <1>17, <1>18, <1>19, <1>20, <1>21, <1>22, <1>23,
     <1>24
  DEF Next, Upload, Expiry, Removal, Purge

\* Every step keeps a checked file in storage, or marks it raced: the clean-up of
\* a failed upload finds the file locked.
LEMMA KeptStep == IInv /\ TInv' /\ [Next]_vars => KeptStored'
<1> SUFFICES ASSUME IInv, TInv', [Next]_vars
             PROVE  KeptStored'
  OBVIOUS
<1> USE DEF IInv, TInv, TypeOK, RowsAgree, RequestsAgree, Places, PurgeStages, Staged,
            Replacement, tables, requests, deletions, history, KeptStored
<1>1. ASSUME NEW r \in Requests, NEW f \in Files, Prepare(r, f)
      PROVE  KeptStored'
  BY <1>1 DEF Prepare
<1>2. ASSUME NEW r \in Requests, NEW s \in Rows, OpenStaged(r, s)
      PROVE  KeptStored'
  BY <1>2 DEF OpenStaged, Waiting
<1>3. ASSUME NEW r \in Requests, Keep(r)
      PROVE  KeptStored'
  BY <1>3 DEF Keep
<1>4. ASSUME NEW r \in Requests, NEW p \in Posts, CommitPost(r, p)
      PROVE  KeptStored'
  BY <1>4 DEF CommitPost, HasPost, UnusedPost, Done, Release, Recorded
<1>5. ASSUME NEW r \in Requests, NEW s \in Rows, CommitStage(r, s)
      PROVE  KeptStored'
  BY <1>5 DEF CommitStage, UnusedRow, Done, Release, Recorded
<1>6. ASSUME NEW r \in Requests, NEW p \in Posts, NEW i \in Replacements,
             CommitReplace(r, p, i)
      PROVE  KeptStored'
  BY <1>6 DEF CommitReplace, HasPost, Done, Release, Recorded
<1>7. ASSUME NEW r \in Requests, Refuse(r)
      PROVE  KeptStored'
  BY <1>7 DEF Refuse, Release
<1>8. ASSUME NEW r \in Requests, Forget(r)
      PROVE  KeptStored'
  BY <1>8 DEF Forget, Done
<1>9. ASSUME NEW r \in Requests, MarkUsed(r)
      PROVE  KeptStored'
  BY <1>9 DEF MarkUsed, Done, Waiting
<1>10. ASSUME NEW r \in Requests, RequestDies(r)
      PROVE  KeptStored'
  BY <1>10 DEF RequestDies, Done, Release
<1>11. ASSUME NEW S \in SUBSET Rows, Expire(S)
      PROVE  KeptStored'
  BY <1>11 DEF Expire, Expirable, Waiting
<1>12. ASSUME NEW f \in Files, DeleteExpired(f)
      PROVE  KeptStored'
  BY <1>12 DEF DeleteExpired, Deleted
<1>13. ASSUME ExpiryDies
      PROVE  KeptStored'
  BY <1>13 DEF ExpiryDies
<1>14. ASSUME NEW i \in Replacements, CheckOld(i)
      PROVE  KeptStored'
  BY <1>14 DEF CheckOld
<1>15. ASSUME NEW i \in Replacements, DeleteOld(i)
      PROVE  KeptStored'
  BY <1>15 DEF DeleteOld, Deleted
<1>16. ASSUME NEW i \in Replacements, CommitOld(i)
      PROVE  KeptStored'
  BY <1>16 DEF CommitOld
<1>17. ASSUME NEW i \in Replacements, RemovalDies(i)
      PROVE  KeptStored'
  BY <1>17 DEF RemovalDies
<1>18. ASSUME NEW p \in Posts, StartPurge(p)
      PROVE  KeptStored'
  BY <1>18 DEF StartPurge
<1>19. ASSUME NEW p \in Posts, ListOld(p)
      PROVE  KeptStored'
  BY <1>19 DEF ListOld
<1>20. ASSUME NEW p \in Posts, ListAsset(p)
      PROVE  KeptStored'
  BY <1>20 DEF ListAsset
<1>21. ASSUME NEW p \in Posts, DeletePurged(p)
      PROVE  KeptStored'
  BY <1>21 DEF DeletePurged, Deleted
<1>22. ASSUME NEW p \in Posts, FinishPurge(p)
      PROVE  KeptStored'
  BY <1>22 DEF FinishPurge
<1>23. ASSUME NEW p \in Posts, PurgeDies(p)
      PROVE  KeptStored'
  BY <1>23 DEF PurgeDies
<1>24. CASE UNCHANGED vars
  BY <1>24 DEF vars
<1> QED
    BY <1>1, <1>2, <1>3, <1>4, <1>5, <1>6, <1>7, <1>8, <1>9, <1>10, <1>11, <1>12,
     <1>13, <1>14, <1>15, <1>16, <1>17, <1>18, <1>19, <1>20, <1>21, <1>22, <1>23,
     <1>24
  DEF Next, Upload, Expiry, Removal, Purge

\* Every step keeps the posts' files safe: whoever picks a file to delete has
\* looked for a post with it.
LEMMA PostsStep == IInv /\ TInv' /\ [Next]_vars => PostsSafe'
<1> SUFFICES ASSUME IInv, TInv', [Next]_vars
             PROVE  PostsSafe'
  OBVIOUS
<1> USE DEF IInv, TInv, TypeOK, RowsAgree, RequestsAgree, Places, PurgeStages, Staged,
            Replacement, tables, requests, deletions, history, PostsSafe, KeptStored,
            Kept, HasPost, Picked, OriginalUsed
<1>1. ASSUME NEW r \in Requests, NEW f \in Files, Prepare(r, f)
      PROVE  PostsSafe'
  BY <1>1 DEF Prepare
<1>2. ASSUME NEW r \in Requests, NEW s \in Rows, OpenStaged(r, s)
      PROVE  PostsSafe'
  BY <1>2 DEF OpenStaged, Waiting
<1>3. ASSUME NEW r \in Requests, Keep(r)
      PROVE  PostsSafe'
  BY <1>3 DEF Keep
<1>4. ASSUME NEW r \in Requests, NEW p \in Posts, CommitPost(r, p)
      PROVE  PostsSafe'
  BY <1>4 DEF CommitPost, HasPost, UnusedPost, Done, Release, Recorded
<1>5. ASSUME NEW r \in Requests, NEW s \in Rows, CommitStage(r, s)
      PROVE  PostsSafe'
  BY <1>5 DEF CommitStage, UnusedRow, Done, Release, Recorded
<1>6. ASSUME NEW r \in Requests, NEW p \in Posts, NEW i \in Replacements,
             CommitReplace(r, p, i)
      PROVE  PostsSafe'
  BY <1>6 DEF CommitReplace, HasPost, Done, Release, Recorded
<1>7. ASSUME NEW r \in Requests, Refuse(r)
      PROVE  PostsSafe'
  BY <1>7 DEF Refuse, Release
<1>8. ASSUME NEW r \in Requests, Forget(r)
      PROVE  PostsSafe'
  BY <1>8 DEF Forget, Done
<1>9. ASSUME NEW r \in Requests, MarkUsed(r)
      PROVE  PostsSafe'
  BY <1>9 DEF MarkUsed, Done, Waiting
<1>10. ASSUME NEW r \in Requests, RequestDies(r)
      PROVE  PostsSafe'
  BY <1>10 DEF RequestDies, Done, Release
<1>11. ASSUME NEW S \in SUBSET Rows, Expire(S)
      PROVE  PostsSafe'
  BY <1>11 DEF Expire, Expirable, Waiting
<1>12. ASSUME NEW f \in Files, DeleteExpired(f)
      PROVE  PostsSafe'
  BY <1>12 DEF DeleteExpired, Deleted
<1>13. ASSUME ExpiryDies
      PROVE  PostsSafe'
  BY <1>13 DEF ExpiryDies
<1>14. ASSUME NEW i \in Replacements, CheckOld(i)
      PROVE  PostsSafe'
  <2>1. \A f \in Picked' : f \in Picked \/ ~HasPost(f)
    BY <1>14 DEF CheckOld
  <2> HIDE DEF Picked
  <2> QED
    BY <1>14, <2>1 DEF CheckOld
<1>15. ASSUME NEW i \in Replacements, DeleteOld(i)
      PROVE  PostsSafe'
  <2>1. PICK f \in removing[i] : /\ Deleted(f)
                                 /\ removing' = [removing EXCEPT ![i] = @ \ {f}]
    BY <1>15 DEF DeleteOld
  <2>2. removing[i] # None
    BY <1>15 DEF DeleteOld
  <2>3. f \in Picked
    BY <2>1, <2>2
  <2>4. removing'[i] = removing[i] \ {f}
    BY <2>1
  <2>5. Picked' \subseteq Picked
    BY <1>15, <2>1, <2>2, <2>4 DEF DeleteOld
  <2> HIDE DEF Picked
  <2> QED
    BY <1>15, <2>1, <2>3, <2>5 DEF DeleteOld, Deleted
<1>16. ASSUME NEW i \in Replacements, CommitOld(i)
      PROVE  PostsSafe'
  BY <1>16 DEF CommitOld
<1>17. ASSUME NEW i \in Replacements, RemovalDies(i)
      PROVE  PostsSafe'
  BY <1>17 DEF RemovalDies
<1>18. ASSUME NEW p \in Posts, StartPurge(p)
      PROVE  PostsSafe'
  BY <1>18 DEF StartPurge
<1>19. ASSUME NEW p \in Posts, ListOld(p)
      PROVE  PostsSafe'
  BY <1>19 DEF ListOld
<1>20. ASSUME NEW p \in Posts, ListAsset(p)
      PROVE  PostsSafe'
  BY <1>20 DEF ListAsset
<1>21. ASSUME NEW p \in Posts, DeletePurged(p)
      PROVE  PostsSafe'
  BY <1>21 DEF DeletePurged, Deleted
<1>22. ASSUME NEW p \in Posts, FinishPurge(p)
      PROVE  PostsSafe'
  BY <1>22 DEF FinishPurge
<1>23. ASSUME NEW p \in Posts, PurgeDies(p)
      PROVE  PostsSafe'
  BY <1>23 DEF PurgeDies
<1>24. CASE UNCHANGED vars
  BY <1>24 DEF vars
<1> QED
    BY <1>1, <1>2, <1>3, <1>4, <1>5, <1>6, <1>7, <1>8, <1>9, <1>10, <1>11, <1>12,
     <1>13, <1>14, <1>15, <1>16, <1>17, <1>18, <1>19, <1>20, <1>21, <1>22, <1>23,
     <1>24
  DEF Next, Upload, Expiry, Removal, Purge

\* Every step keeps the staged uploads' files safe. The clean-up asks only for
\* staged uploads that wait; those that are posted are safe by PostedRefer.
LEMMA RowsStep == IInv /\ TInv' /\ [Next]_vars => RowsSafe'
<1> SUFFICES ASSUME IInv, TInv', [Next]_vars
             PROVE  RowsSafe'
  OBVIOUS
<1> USE DEF IInv, TInv, TypeOK, RowsAgree, RequestsAgree, Places, PurgeStages, Staged,
            Replacement, tables, requests, deletions, history, RowsSafe, KeptStored,
            PostedRefer, Refers, HasPost, Picked, OriginalUsed, Waiting
<1>1. ASSUME NEW r \in Requests, NEW f \in Files, Prepare(r, f)
      PROVE  RowsSafe'
  BY <1>1 DEF Prepare
<1>2. ASSUME NEW r \in Requests, NEW s \in Rows, OpenStaged(r, s)
      PROVE  RowsSafe'
  BY <1>2 DEF OpenStaged, Waiting
<1>3. ASSUME NEW r \in Requests, Keep(r)
      PROVE  RowsSafe'
  BY <1>3 DEF Keep
<1>4. ASSUME NEW r \in Requests, NEW p \in Posts, CommitPost(r, p)
      PROVE  RowsSafe'
  BY <1>4 DEF CommitPost, HasPost, UnusedPost, Done, Release, Recorded
<1>5. ASSUME NEW r \in Requests, NEW s \in Rows, CommitStage(r, s)
      PROVE  RowsSafe'
  BY <1>5 DEF CommitStage, UnusedRow, Done, Release, Recorded
<1>6. ASSUME NEW r \in Requests, NEW p \in Posts, NEW i \in Replacements,
             CommitReplace(r, p, i)
      PROVE  RowsSafe'
  BY <1>6 DEF CommitReplace, HasPost, Done, Release, Recorded
<1>7. ASSUME NEW r \in Requests, Refuse(r)
      PROVE  RowsSafe'
  BY <1>7 DEF Refuse, Release
<1>8. ASSUME NEW r \in Requests, Forget(r)
      PROVE  RowsSafe'
  BY <1>8 DEF Forget, Done
<1>9. ASSUME NEW r \in Requests, MarkUsed(r)
      PROVE  RowsSafe'
  BY <1>9 DEF MarkUsed, Done, Waiting
<1>10. ASSUME NEW r \in Requests, RequestDies(r)
      PROVE  RowsSafe'
  BY <1>10 DEF RequestDies, Done, Release
<1>11. ASSUME NEW S \in SUBSET Rows, Expire(S)
      PROVE  RowsSafe'
  BY <1>11 DEF Expire, Expirable, Waiting
<1>12. ASSUME NEW f \in Files, DeleteExpired(f)
      PROVE  RowsSafe'
  BY <1>12 DEF DeleteExpired, Deleted
<1>13. ASSUME ExpiryDies
      PROVE  RowsSafe'
  BY <1>13 DEF ExpiryDies
<1>14. ASSUME NEW i \in Replacements, CheckOld(i)
      PROVE  RowsSafe'
  BY <1>14 DEF CheckOld
<1>15. ASSUME NEW i \in Replacements, DeleteOld(i)
      PROVE  RowsSafe'
  BY <1>15 DEF DeleteOld, Deleted
<1>16. ASSUME NEW i \in Replacements, CommitOld(i)
      PROVE  RowsSafe'
  BY <1>16 DEF CommitOld
<1>17. ASSUME NEW i \in Replacements, RemovalDies(i)
      PROVE  RowsSafe'
  BY <1>17 DEF RemovalDies
<1>18. ASSUME NEW p \in Posts, StartPurge(p)
      PROVE  RowsSafe'
  BY <1>18 DEF StartPurge
<1>19. ASSUME NEW p \in Posts, ListOld(p)
      PROVE  RowsSafe'
  BY <1>19 DEF ListOld
<1>20. ASSUME NEW p \in Posts, ListAsset(p)
      PROVE  RowsSafe'
  BY <1>20 DEF ListAsset
<1>21. ASSUME NEW p \in Posts, DeletePurged(p)
      PROVE  RowsSafe'
  BY <1>21 DEF DeletePurged, Deleted
<1>22. ASSUME NEW p \in Posts, FinishPurge(p)
      PROVE  RowsSafe'
  BY <1>22 DEF FinishPurge
<1>23. ASSUME NEW p \in Posts, PurgeDies(p)
      PROVE  RowsSafe'
  BY <1>23 DEF PurgeDies
<1>24. CASE UNCHANGED vars
  BY <1>24 DEF vars
<1> QED
    BY <1>1, <1>2, <1>3, <1>4, <1>5, <1>6, <1>7, <1>8, <1>9, <1>10, <1>11, <1>12,
     <1>13, <1>14, <1>15, <1>16, <1>17, <1>18, <1>19, <1>20, <1>21, <1>22, <1>23,
     <1>24
  DEF Next, Upload, Expiry, Removal, Purge

\* Nothing is stored and nothing refers to anything at first.
LEMMA InitHolds == Init => IInv
  BY DEF Init, IInv, TInv, TypeOK, RowsAgree, RequestsAgree, PostedRefer, KeptStored,
         PostsSafe, RowsSafe, Kept, Places, PurgeStages

\* The inductive invariant.
LEMMA Invariance == Spec => []IInv
<1>1. IInv /\ [Next]_vars => IInv'
  <2> SUFFICES ASSUME IInv, [Next]_vars
               PROVE  IInv'
    OBVIOUS
  <2>1. TInv'
    BY TypesStep DEF IInv
  <2> QED
    BY <2>1, ReferencesStep, KeptStep, PostsStep, RowsStep DEF IInv
<1> QED
  BY <1>1, InitHolds, PTL DEF Spec

-------------------------------------------------------------------------------
\* The variables have their types, and the advisory lock of a file is held by a
\* request whose transaction has checked the file (lock_file, keep_original).
THEOREM Typing == Spec => []TypeOK
  BY Invariance, PTL DEF IInv, TInv

\* However many requests upload, stage, post and replace the same files, fail, are
\* cleaned up after or die, a post keeps its file unless an expiry, a removal or
\* a purge had picked it when the post recorded it (keep_original).
THEOREM PostsKeepTheirFiles == Spec => []PostsKeepFiles
<1>1. IInv => PostsKeepFiles
  BY DEF IInv, PostsSafe, PostsKeepFiles
<1> QED
  BY <1>1, Invariance, PTL

\* A staged upload that waits keeps its file through the expiry of other staged
\* uploads of it and through failed uploads of it (expire, original_used).
THEOREM WaitingUploadsKeepTheirFiles == Spec => []WaitingKeepFiles
<1>1. IInv => WaitingKeepFiles
  BY DEF IInv, RowsSafe, WaitingKeepFiles, Waiting
<1> QED
  BY <1>1, Invariance, PTL
===============================================================================
