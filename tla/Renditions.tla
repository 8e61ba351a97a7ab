------------------------------ MODULE Renditions ------------------------------
(***************************************************************************)
(* The renditions of a post's file: what jobs media.process make of it     *)
(* (crates/jobs/src/media.rs), statement by statement, while the file is   *)
(* replaced (crates/web/src/replacements.rs, crates/db/src/replacements.rs)*)
(* and the post purged, over what the job queue promises (AtLeastOnce).    *)
(*                                                                         *)
(* One post is modelled; files are told apart by what is in them, and all  *)
(* have the same type, so the same name in a working directory. Reading    *)
(* that directory and storing what a tool made of it is one step. The      *)
(* perceptual hash, written with processed_at, stands for both. Kinds of   *)
(* rendition are made in any order.                                        *)
(***************************************************************************)
EXTENDS Naturals, FiniteSets

CONSTANTS
    Files,
    Kinds,      \* of renditions
    Wanted,     \* those made of each file
    Runs,       \* of the jobs media.process
    Processes,  \* of the program: all workers of one share their directories
    On,         \* the process of each run
    MaxJobs,    \* bound on the jobs enqueued
    Allowed,    \* attempts of each
    None

Jobs == 1..MaxJobs

ASSUME MaxJobsAssumption == MaxJobs \in Nat \ {0}
ASSUME AllowedAssumption == Allowed \in [Jobs -> Nat]
ASSUME WantedAssumption == Wanted \in [Files -> SUBSET Kinds]
ASSUME OnAssumption == On \in [Runs -> Processes]
ASSUME NoneAssumption == None \notin Files \cup Kinds

VARIABLES
    \* the rows of the post, its media_assets and media_variants
    post,       \* "there", "purging" or "gone"
    file,       \* sha256 and storage_key
    metadata,   \* the file it was read from
    phash,      \* the file it was made from; None until it is processed
    variants,   \* for each kind, the file whose rendition the row names
    \* storage
    stored,     \* by kind and file, what a rendition was made from
    due,        \* renditions of files before that requests have yet to delete
    \* working directories
    scratch,    \* the original in job-media-<asset> of each process
    \* jobs, as in AtLeastOnce
    state, begun, results,
    enqueued,   \* how many there have been
    ordered,    \* the one enqueued with the present file
    \* runs
    at, works,  \* where each run is, and for which job
    reads,      \* the file it found in the row
    todo,       \* kinds it has yet to make
    making,     \* the kind it has stored but not recorded
    \* history
    discarded,  \* jobs
    crossed     \* the file came while a run of an earlier one was under way,
                \* or the same file's renditions were still to be deleted

row     == <<post, file, metadata, phash, variants>>
storage == <<stored, due>>
queue   == <<state, begun, results>>
orders  == <<enqueued, ordered>>
runs    == <<at, works, reads, todo, making>>
history == <<discarded, crossed>>
vars == <<row, storage, scratch, queue, orders, runs, history>>

Queue == INSTANCE AtLeastOnce

Keys   == Kinds \X Files
Places == {"idle", "found", "loaded", "described", "rendering", "done"}

\* What may be where an original should be: nothing.
Some(f) == f # None

Active(r) == at[r] # "idle"

\* Runs that read the row and may write again.
HasRead(r) == at[r] \in {"found", "loaded", "described", "rendering"}

\* Runs that use the working directory.
AtWork(r) == at[r] \in {"loaded", "described", "rendering"}

TypeOK ==
    /\ post \in {"there", "purging", "gone"}
    /\ file \in Files
    /\ {metadata, phash} \subseteq Files \cup {None}
    /\ variants \in [Kinds -> Files \cup {None}]
    /\ stored \in [Keys -> Files \cup {None}]
    /\ due \subseteq Jobs \X Keys
    /\ scratch \in [Processes -> Files \cup {None}]
    /\ state \in [Jobs -> {"absent", "pending", "dead"}]
    /\ begun \in [Jobs -> Nat]
    /\ results \in [Jobs -> SUBSET {"ok", "retry", "permanent"}]
    /\ enqueued \in Jobs /\ ordered \in 1..enqueued
    /\ at \in [Runs -> Places]
    /\ works \in [Runs -> Jobs \cup {None}]
    /\ reads \in [Runs -> Files \cup {None}]
    /\ todo \in [Runs -> SUBSET Kinds]
    /\ making \in [Runs -> Kinds \cup {None}]
    /\ discarded \subseteq Jobs
    /\ crossed \in BOOLEAN

Init ==
    /\ post = "there"
    /\ file \in Files
    /\ metadata = None
    /\ phash = None
    /\ variants = [k \in Kinds |-> None]
    /\ stored = [key \in Keys |-> None]
    /\ due = {}
    /\ scratch = [p \in Processes |-> None]
    /\ state = [j \in Jobs |-> IF j = 1 THEN "pending" ELSE "absent"]
    /\ begun = [j \in Jobs |-> 0]
    /\ results = [j \in Jobs |-> {}]
    /\ enqueued = 1
    /\ ordered = 1
    /\ at = [r \in Runs |-> "idle"]
    /\ works = [r \in Runs |-> None]
    /\ reads = [r \in Runs |-> None]
    /\ todo = [r \in Runs |-> {}]
    /\ making = [r \in Runs |-> None]
    /\ discarded = {}
    /\ crossed = FALSE

-------------------------------------------------------------------------------
(* Requests, and the purge.                                                *)

Enqueue ==
    /\ enqueued < MaxJobs
    /\ enqueued' = enqueued + 1
    /\ Queue!Submit(enqueued + 1)

\* A slip: also those there is no row for.
NamedOrNot == {<<enqueued', <<k, variants[k]>>>> : k \in Kinds}

\* Renditions the rows name, for this request to delete.
Named == {<<enqueued', <<k, variants[k]>>>> : k \in {k \in Kinds : Some(variants[k])}}

\* A slip: the rows of the renditions stay until they are made again.
ReplaceKeeping(f) ==
    /\ post # "gone"
    /\ f # file
    /\ Enqueue
    /\ ordered' = enqueued'
    /\ file' = f
    /\ metadata' = None
    /\ phash' = None
    /\ due' = due \cup Named
    /\ crossed' = ((\E r \in Runs : HasRead(r)) \/ (\E d \in due' : d[2][2] = f))
    /\ UNCHANGED <<post, variants, stored, scratch, runs, discarded>>

\* A slip: a job that is in the queue already is to do.
ReplaceQueued(f) ==
    /\ post # "gone"
    /\ f # file
    /\ IF state[enqueued] = "pending" THEN UNCHANGED <<queue, enqueued>> ELSE Enqueue
    /\ ordered' = enqueued'
    /\ file' = f
    /\ metadata' = None
    /\ phash' = None
    /\ variants' = [k \in Kinds |-> None]
    /\ due' = due \cup Named
    /\ crossed' = ((\E r \in Runs : HasRead(r)) \/ (\E d \in due' : d[2][2] = f))
    /\ UNCHANGED <<post, stored, scratch, runs, discarded>>

\* replacements::replace and the job, in one transaction
Replace(f) ==
    /\ post # "gone"
    /\ f # file
    /\ Enqueue
    /\ ordered' = enqueued'
    /\ file' = f
    /\ metadata' = None
    /\ phash' = None
    /\ variants' = [k \in Kinds |-> None]
    /\ due' = due \cup Named
    /\ crossed' = ((\E r \in Runs : HasRead(r)) \/ (\E d \in due' : d[2][2] = f))
    /\ UNCHANGED <<post, stored, scratch, runs, discarded>>

\* The request goes on to delete what it replaced; it may fail or die doing so.
DeleteOld(d) ==
    /\ d \in due
    /\ due' = due \ {d}
    /\ \/ stored' = [stored EXCEPT ![d[2]] = None]
       \/ UNCHANGED stored
    /\ UNCHANGED <<row, scratch, queue, orders, runs, history>>

\* moekura admin regenerate-media
Regenerate ==
    /\ post # "gone"
    /\ Enqueue
    /\ UNCHANGED <<row, storage, scratch, ordered, runs, history>>

StartPurge ==
    /\ post = "there"
    /\ post' = "purging"
    /\ UNCHANGED <<file, metadata, phash, variants, storage, scratch, queue, orders, runs, history>>

RemoveFiles ==
    /\ post = "purging"
    /\ stored' = [key \in Keys |-> IF variants[key[1]] = key[2] THEN None ELSE stored[key]]
    /\ UNCHANGED <<row, due, scratch, queue, orders, runs, history>>

FinishPurge ==
    /\ post = "purging"
    /\ post' = "gone"
    /\ variants' = [k \in Kinds |-> None]
    /\ UNCHANGED <<file, metadata, phash, storage, scratch, queue, orders, runs, history>>

-------------------------------------------------------------------------------
(* What the queue does with a job.                                         *)

\* Its claim and media::by_id
Begin(r, j) ==
    /\ ~Active(r)
    /\ Queue!Begin(j)
    /\ works' = [works EXCEPT ![r] = j]
    /\ IF post = "gone"
       THEN /\ at' = [at EXCEPT ![r] = "done"]
            /\ UNCHANGED <<reads, todo>>
       ELSE /\ at' = [at EXCEPT ![r] = "found"]
            /\ reads' = [reads EXCEPT ![r] = file]
            /\ todo' = [todo EXCEPT ![r] = Wanted[file]]
    /\ UNCHANGED <<row, storage, scratch, orders, making, history>>

\* What runs in S knew is gone.
End(S) ==
    /\ at' = [r \in Runs |-> IF r \in S THEN "idle" ELSE at[r]]
    /\ works' = [r \in Runs |-> IF r \in S THEN None ELSE works[r]]
    /\ reads' = [r \in Runs |-> IF r \in S THEN None ELSE reads[r]]
    /\ todo' = [r \in Runs |-> IF r \in S THEN {} ELSE todo[r]]
    /\ making' = [r \in Runs |-> IF r \in S THEN None ELSE making[r]]

\* The working directory, if the run made one, goes before the job returns.
DropScratch(r) == scratch' = IF AtWork(r) THEN [scratch EXCEPT ![On[r]] = None] ELSE scratch

Return(r) ==
    /\ at[r] = "done"
    /\ Queue!Return(works[r], "ok")
    /\ End({r})
    /\ UNCHANGED <<row, storage, scratch, orders, history>>

\* A statement or the storage fails, to be retried (the row a rendition belongs to is gone,
\* say), or a tool says that the file is damaged (the original is not there, say).
Fail(r, how) ==
    /\ HasRead(r)
    /\ how = "permanent" => AtWork(r)
    /\ Queue!Return(works[r], how)
    /\ DropScratch(r)
    /\ End({r})
    /\ UNCHANGED <<row, storage, orders, history>>

\* The directory stays, until the next run there.
Crash(p) ==
    /\ \E r \in Runs : On[r] = p /\ Active(r)
    /\ End({r \in Runs : On[r] = p})
    /\ UNCHANGED <<row, storage, scratch, queue, orders, history>>

Finish(j) == Queue!Finish(j) /\ UNCHANGED <<row, storage, scratch, orders, runs, history>>

GiveUp(j) == Queue!GiveUp({j}) /\ UNCHANGED <<row, storage, scratch, orders, runs, history>>

Revive(j) == Queue!Revive(j) /\ UNCHANGED <<row, storage, scratch, orders, runs, history>>

Discard(j) ==
    /\ Queue!Discard(j)
    /\ discarded' = discarded \cup {j}
    /\ UNCHANGED <<row, storage, scratch, orders, runs, crossed>>

-------------------------------------------------------------------------------
(* process, one statement at a time.                                       *)

Go(r, place) == at' = [at EXCEPT ![r] = place]

\* ScratchDir::create, which empties the directory another run may be using, and the
\* download
Load(r) ==
    /\ at[r] = "found"
    /\ Go(r, "loaded")
    /\ scratch' = [scratch EXCEPT ![On[r]] = reads[r]]
    /\ UNCHANGED <<row, storage, queue, orders, works, reads, todo, making, history>>

\* set_metadata, if it could be read
Describe(r) ==
    /\ at[r] = "loaded"
    /\ Go(r, "described")
    /\ \/ /\ Some(scratch[On[r]])
          /\ metadata' = IF post = "gone" THEN metadata ELSE scratch[On[r]]
       \/ UNCHANGED metadata
    /\ UNCHANGED <<post, file, phash, variants, storage, scratch, queue, orders, works, reads,
                   todo, making, history>>

\* fit_within and put_file
Render(r, k) ==
    /\ at[r] = "described"
    /\ k \in todo[r]
    /\ Some(scratch[On[r]])
    /\ Go(r, "rendering")
    /\ making' = [making EXCEPT ![r] = k]
    /\ stored' = [stored EXCEPT ![<<k, reads[r]>>] = scratch[On[r]]]
    /\ UNCHANGED <<row, due, scratch, queue, orders, works, reads, todo, history>>

\* save_variant
Save(r) ==
    /\ at[r] = "rendering"
    /\ post # "gone"
    /\ Go(r, "described")
    /\ variants' = [variants EXCEPT ![making[r]] = reads[r]]
    /\ todo' = [todo EXCEPT ![r] = @ \ {making[r]}]
    /\ making' = [making EXCEPT ![r] = None]
    /\ UNCHANGED <<post, file, metadata, phash, storage, scratch, queue, orders, works, reads,
                   history>>

\* A slip: the file counts as processed before all kinds are made.
MarkEarly(r) ==
    /\ at[r] = "described"
    /\ Some(scratch[On[r]])
    /\ phash' = IF post = "gone" THEN phash ELSE scratch[On[r]]
    /\ Go(r, "done")
    /\ DropScratch(r)
    /\ UNCHANGED <<post, file, metadata, variants, storage, queue, orders, works, reads, todo,
                   making, history>>

\* perceptual_hash and mark_processed
MarkProcessed(r) ==
    /\ at[r] = "described"
    /\ todo[r] = {}
    /\ Some(scratch[On[r]])
    /\ phash' = IF post = "gone" THEN phash ELSE scratch[On[r]]
    /\ Go(r, "done")
    /\ DropScratch(r)
    /\ UNCHANGED <<post, file, metadata, variants, storage, queue, orders, works, reads, todo,
                   making, history>>

-------------------------------------------------------------------------------
Request ==
    \/ \E f \in Files : Replace(f)
    \/ \E d \in due : DeleteOld(d)
    \/ Regenerate

Purge == StartPurge \/ RemoveFiles \/ FinishPurge

Schedule ==
    \/ \E r \in Runs, j \in Jobs : Begin(r, j)
    \/ \E r \in Runs : Return(r) \/ \E how \in {"retry", "permanent"} : Fail(r, how)
    \/ \E p \in Processes : Crash(p)
    \/ \E j \in Jobs : Finish(j) \/ GiveUp(j) \/ Revive(j) \/ Discard(j)

Process(r) ==
    \/ Load(r)
    \/ Describe(r)
    \/ \E k \in Kinds : Render(r, k)
    \/ Save(r)
    \/ MarkProcessed(r)

Next == Request \/ Purge \/ Schedule \/ \E r \in Runs : Process(r)

Spec == Init /\ [][Next]_vars

-------------------------------------------------------------------------------
(* Properties.                                                             *)

\* A file that is not processed has its job, waiting, running or dead, unless an
\* administrator discarded it, whatever runs of earlier files write.
UnprocessedHasJob ==
    post # "gone" /\ phash = None => state[ordered] # "absent" \/ ordered \in discarded

Shows(k, f) == variants[k] = f /\ stored[<<k, f>>] = f

\* What pages show instead of the file is made from it, and in storage, also while it is
\* being made, by several runs at once and after crashes, unless it came at a bad moment.
RenditionsOfTheFile ==
    post = "there" /\ ~crossed => \A k \in Kinds : Some(variants[k]) => Shows(k, file)

\* A processed file has every rendition that is made of it and no other, and its own
\* perceptual hash and metadata, if any.
ProcessedInFull ==
    post = "there" /\ ~crossed /\ Some(phash) =>
        /\ phash = file
        /\ metadata \in {file, None}
        /\ {k \in Kinds : Some(variants[k])} = Wanted[file]

\* docs/src/using/posts.md: "its thumbnails and metadata are made again from the new file"
\* -- once nothing is under way any more, the renditions shown are of the present file.
MadeAgainFromTheNewFile ==
    /\ post = "there" /\ Some(phash)
    /\ \A r \in Runs : ~Active(r)
    /\ discarded = {} /\ \A j \in Jobs : state[j] = "absent"
    => \A k \in Kinds : variants[k] \in {file, None}
===============================================================================
