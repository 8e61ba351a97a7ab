----------------------------- MODULE TagRelations -----------------------------
(***************************************************************************)
(* Tag aliases and implications: the table `tag_relations` with its        *)
(* requests, approvals and removals (crates/db/src/tag_relations.rs), the  *)
(* job that rewrites the posts after an approval (crates/jobs/src/tags.rs) *)
(* and the edits that read the rules (tags::for_post, under the lock of    *)
(* the post's row).                                                        *)
(*                                                                         *)
(* A request, an approval, a rejection and a removal are one step each:    *)
(* approvals are serial (APPROVAL_LOCK), and what runs beside one can only *)
(* take active rules away, which fails no check that passed. A rewrite is  *)
(* a step for each of its reads, for the look of each batch and for what   *)
(* the batch does with a post it found; an edit is three: it reads the     *)
(* aliases, then the implications, then it commits its tags.               *)
(***************************************************************************)
EXTENDS Naturals, FiniteSets

CONSTANTS
    Tags,
    Posts,
    Ids,        \* of rows of tag_relations, reused once nothing reads the row
    Workers,    \* how many rewrites run at once
    Wanted,     \* the sets of tags that posts are given
    MaxWork,    \* bound: rows in use, and edits begun and rewrites cut short so far
    None

ASSUME RelationsAssumption ==
    /\ IsFiniteSet(Ids)
    /\ Workers \in Nat
    /\ Wanted \subseteq SUBSET Tags
    /\ MaxWork \in Nat

VARIABLES
    status,     \* "absent" where there is no row
    rule,       \* the row's kind, antecedent and consequent
    tags,       \* of each post, posted before any rule or {} before its upload
    job,        \* where the rewrite of each relation is
    read,       \* the row as its rewrite read it
    add,        \* the tags it adds
    found,      \* the posts its batch found and has not come to yet
    resolved,   \* the tags of an open edit that has read the aliases only, or None
    editing,    \* the tags an open edit will write, or None
    \* history
    overtaken,  \* of each post, the relations approved since its open edit read such rules
    outdated,   \* of each rewrite, the relations approved since it read its row
    missed,     \* of each relation, the posts such a writer wrote since its rewrite last looked
    events      \* bookkeeping of the bound

table  == <<status, rule>>
jobs   == <<job, read, add, found>>
drafts == <<resolved, editing, overtaken>>
vars   == <<table, tags, jobs, outdated, drafts, missed, events>>

Kinds    == {"alias", "implication"}
Statuses == {"absent", "pending", "active", "rejected", "deleted"}
Stages   == {"none", "queued", "planning", "running", "looking", "done"}
Rules    == [kind : Kinds, from : Tags, to : Tags]

\* The types, and that a row has its rule, a request no rewrite yet, a rewrite the rule it
\* read, and that only a look has found posts.
TypeOK ==
    /\ status \in [Ids -> Statuses]
    /\ rule \in [Ids -> Rules \cup {None}]
    /\ \A i \in Ids : status[i] # "absent" => rule[i] \in Rules
    /\ tags \in [Posts -> SUBSET Tags]
    /\ job \in [Ids -> Stages]
    /\ \A i \in Ids : status[i] = "pending" => job[i] = "none"
    /\ read \in [Ids -> Rules \cup {None}]
    /\ \A i \in Ids : job[i] \in {"planning", "running", "looking"} => read[i] \in Rules
    /\ add \in [Ids -> SUBSET Tags]
    /\ found \in [Ids -> SUBSET Posts]
    /\ \A i \in Ids : found[i] # {} => job[i] = "looking"
    /\ resolved \in [Posts -> (SUBSET Tags) \cup {None}]
    /\ editing \in [Posts -> (SUBSET Tags) \cup {None}]
    /\ overtaken \in [Posts -> SUBSET Ids]
    /\ outdated \in [Ids -> SUBSET Ids]
    /\ missed \in [Ids -> SUBSET Posts]
    /\ events \in Nat

Init ==
    /\ status = [i \in Ids |-> "absent"]
    /\ rule = [i \in Ids |-> None]
    /\ tags \in [Posts -> Wanted \cup {{}}]
    /\ job = [i \in Ids |-> "none"]
    /\ read = [i \in Ids |-> None]
    /\ add = [i \in Ids |-> {}]
    /\ found = [i \in Ids |-> {}]
    /\ resolved = [p \in Posts |-> None]
    /\ editing = [p \in Posts |-> None]
    /\ overtaken = [p \in Posts |-> {}]
    /\ outdated = [i \in Ids |-> {}]
    /\ missed = [i \in Ids |-> {}]
    /\ events = 0

-------------------------------------------------------------------------------
(* The rules in force, and what follows from them.                         *)

InForce(k) == {i \in Ids : status[i] = "active" /\ rule[i].kind = k}
Pairs(k)   == {<<rule[i].from, rule[i].to>> : i \in InForce(k)}

Aliases      == Pairs("alias")
Implications == Pairs("implication")

Aliased(t) == \E e \in Aliases : e[1] = t

\* C holds what the pairs of E lead to from S and from C itself.
Follows(C, S, E) == \A e \in E : e[1] \in S \cup C => e[2] \in C

\* The recursive query with UNION: the least set of that kind.
Reached(S, E) == {t \in Tags : \A C \in SUBSET Tags : Follows(C, S, E) => t \in C}

\* A slip: only what S implies itself.
ImpliedOnce(S) == {u \in Tags : \E t \in S : <<t, u>> \in Implications} \ S

ImpliedBy(S) == Reached(S, Implications) \ S

\* One alias deep.
Resolved(W) == {t \in W : ~Aliased(t)} \cup {e[2] : e \in {d \in Aliases : d[1] \in W}}

Open(i)   == status[i] \in {"pending", "active"}
Unused(i) == ~Open(i) /\ job[i] \in {"none", "done"}

\* check_rules for the row i, ignoring i itself.
RulesHold(i, r) ==
    /\ ~\E j \in Ids \ {i} : Open(j) /\ rule[j] = r
    /\ ~Aliased(r.from)
    /\ ~Aliased(r.to)
    /\ r.kind = "alias" =>
            \A e \in Implications : r.from \notin {e[1], e[2]}
    /\ r.kind = "implication" =>
            /\ r.from \notin ImpliedBy({r.to})
            /\ r.to \notin ImpliedBy({r.from})

\* The aliases an approval of r repoints, and the table after it.
Repointed(r) == {j \in InForce("alias") : r.kind = "alias" /\ rule[j].to = r.from}
Repoint(r)   == [j \in Ids |-> IF j \in Repointed(r) THEN [rule[j] EXCEPT !.to = r.to]
                                                     ELSE rule[j]]

\* The unique index of open pairs refuses a repointed alias.
Collides(r) == \E j \in Repointed(r), k \in Ids : k # j /\ Open(k) /\ rule[k] = Repoint(r)[j]

-------------------------------------------------------------------------------
(* Requests and decisions.                                                 *)

InUse == {i \in Ids : ~Unused(i)}

\* The bound, of the rows in use and n events.
Bounded(rows, n) == Cardinality(rows) + n <= MaxWork

Request(i, r) ==
    /\ Unused(i)
    /\ Bounded(InUse \cup {i}, events)
    /\ r.from # r.to
    /\ RulesHold(i, r)
    /\ status' = [status EXCEPT ![i] = "pending"]
    /\ rule' = [rule EXCEPT ![i] = r]
    /\ job' = [job EXCEPT ![i] = "none"]
    /\ UNCHANGED <<tags, read, add, found, outdated, drafts, missed, events>>

Running == {i \in Ids : job[i] \in {"planning", "running", "looking"}}

\* An edit of p, which holds the post's row.
Edited(p) == resolved[p] # None \/ editing[p] # None

\* Whoever has read the rules did so before i was one of them.
Overtake(i) ==
    /\ overtaken' = [p \in Posts |-> IF Edited(p) THEN overtaken[p] \cup {i}
                                                      ELSE overtaken[p]]
    /\ outdated' = [j \in Ids |-> IF j \in Running THEN outdated[j] \cup {i} ELSE outdated[j]]
    /\ missed' = [missed EXCEPT ![i] = {}]

\* A slip: what was checked for the request is not checked again.
ApproveUnchecked(i) ==
    /\ status[i] = "pending"
    /\ ~Collides(rule[i])
    /\ rule' = Repoint(rule[i])
    /\ status' = [status EXCEPT ![i] = "active"]
    /\ job' = [job EXCEPT ![i] = "queued"]
    /\ Overtake(i)
    /\ UNCHANGED <<tags, read, add, found, resolved, editing, events>>

\* A collision fails the UPDATE, and with it the whole approval.
Approve(i) ==
    /\ status[i] = "pending"
    /\ RulesHold(i, rule[i])
    /\ ~Collides(rule[i])
    /\ rule' = Repoint(rule[i])
    /\ status' = [status EXCEPT ![i] = "active"]
    /\ job' = [job EXCEPT ![i] = "queued"]
    /\ Overtake(i)
    /\ UNCHANGED <<tags, read, add, found, resolved, editing, events>>

Reject(i) ==
    /\ status[i] = "pending"
    /\ status' = [status EXCEPT ![i] = "rejected"]
    /\ UNCHANGED <<rule, tags, jobs, outdated, drafts, missed, events>>

\* By a tag manager; a requester's withdrawal is the case of a pending row.
Remove(i) ==
    /\ Open(i)
    /\ status' = [status EXCEPT ![i] = "deleted"]
    /\ UNCHANGED <<rule, tags, jobs, outdated, drafts, missed, events>>

-------------------------------------------------------------------------------
(* The job tags.apply_relation.                                            *)

\* What a run has read ends with it.
Forget(i) ==
    /\ read' = [read EXCEPT ![i] = None]
    /\ add' = [add EXCEPT ![i] = {}]
    /\ found' = [found EXCEPT ![i] = {}]
    /\ outdated' = [outdated EXCEPT ![i] = {}]

\* The row, unless it was removed before the job ran.
ReadRelation(i) ==
    /\ job[i] = "queued"
    /\ Cardinality(Running) < Workers
    /\ IF status[i] = "active"
       THEN /\ job' = [job EXCEPT ![i] = "planning"]
            /\ read' = [read EXCEPT ![i] = rule[i]]
       ELSE /\ job' = [job EXCEPT ![i] = "done"]
            /\ UNCHANGED read
    /\ UNCHANGED <<table, tags, add, found, outdated, drafts, missed, events>>

\* The consequent and what it implies.
ReadImplied(i) ==
    /\ job[i] = "planning"
    /\ add' = [add EXCEPT ![i] = {read[i].to} \cup ImpliedBy({read[i].to})]
    /\ job' = [job EXCEPT ![i] = "running"]
    /\ UNCHANGED <<table, tags, read, found, outdated, drafts, missed, events>>

\* A slip: a post that has what an implication adds is written again.
TargetsSatisfied(i) == {p \in Posts : read[i].from \in tags[p]}

Targets(i) ==
    {p \in Posts : /\ read[i].from \in tags[p]
                   /\ read[i].kind = "implication" => ~(add[i] \subseteq tags[p])}

\* Relations whose rewrite will not look again, if their batch changes nothing.
Looked == {i \in Ids : job[i] \in {"looking", "done"}}

\* A slip: SKIP LOCKED.
LookPastLocked(i) ==
    /\ job[i] = "running"
    /\ job' = [job EXCEPT ![i] = "looking"]
    /\ found' = [found EXCEPT ![i] = {p \in Targets(i) : ~Edited(p)}]
    /\ missed' = [missed EXCEPT ![i] = {}]
    /\ UNCHANGED <<table, tags, read, add, outdated, drafts, events>>

\* The batch's SELECT finds its posts once, before it waits for the rows.
LookForPosts(i) ==
    /\ job[i] = "running"
    /\ job' = [job EXCEPT ![i] = "looking"]
    /\ found' = [found EXCEPT ![i] = Targets(i)]
    /\ missed' = [missed EXCEPT ![i] = {}]
    /\ UNCHANGED <<table, tags, read, add, outdated, drafts, events>>

\* Locked at last, a post found is looked at once more, and left if it is no match now.
PassOver(i) ==
    /\ job[i] = "looking"
    /\ \E p \in found[i] \ Targets(i) :
        /\ ~Edited(p)
        /\ found' = [found EXCEPT ![i] = @ \ {p}]
    /\ UNCHANGED <<table, tags, job, read, add, outdated, drafts, missed, events>>

\* A batch of one post, which changed something: there will be another.
RewriteBatch(i) ==
    /\ job[i] = "looking"
    /\ \E p \in found[i] \cap Targets(i) :
        /\ ~Edited(p)
        /\ tags' = [tags EXCEPT ![p] =
                (IF read[i].kind = "alias" THEN @ \ {read[i].from} ELSE @) \cup add[i]]
        /\ missed' = [k \in Ids |-> IF k \in Looked \cap outdated[i] THEN missed[k] \cup {p}
                                                                 ELSE missed[k]]
    /\ job' = [job EXCEPT ![i] = "running"]
    /\ found' = [found EXCEPT ![i] = {}]
    /\ UNCHANGED <<table, read, add, outdated, drafts, events>>

\* A batch that changed nothing, of what it found.
FinishRewrite(i) ==
    /\ job[i] = "looking"
    /\ found[i] = {}
    /\ job' = [job EXCEPT ![i] = "done"]
    /\ Forget(i)
    /\ UNCHANGED <<table, tags, drafts, missed, events>>

\* A slip: the run starts over without reading the rule again.
CutShortInPlace(i) ==
    /\ i \in Running
    /\ Bounded(InUse, events + 1)
    /\ events' = events + 1
    /\ Forget(i)
    /\ UNCHANGED <<table, tags, job, drafts, missed>>

\* Its worker dies or a query fails; the queue runs it again.
CutShort(i) ==
    /\ i \in Running
    /\ Bounded(InUse, events + 1)
    /\ events' = events + 1
    /\ job' = [job EXCEPT ![i] = "queued"]
    /\ Forget(i)
    /\ UNCHANGED <<table, tags, drafts, missed>>

-------------------------------------------------------------------------------
(* Edits, reverts and uploads of posts.                                    *)

\* The row is locked and the aliases of the tags W wanted are read.
ReadAliases(p, W) ==
    /\ ~Edited(p)
    /\ Bounded(InUse, events + 1)
    /\ events' = events + 1
    /\ resolved' = [resolved EXCEPT ![p] = Resolved(W)]
    /\ UNCHANGED <<table, tags, jobs, outdated, editing, overtaken, missed>>

\* What the tags imply by now: an implication approved since the first read is read too.
ReadImplications(p) ==
    /\ resolved[p] # None
    /\ editing' = [editing EXCEPT ![p] = resolved[p] \cup ImpliedBy(resolved[p])]
    /\ resolved' = [resolved EXCEPT ![p] = None]
    /\ overtaken' = [overtaken EXCEPT ![p] = {i \in @ : rule[i].kind = "alias"}]
    /\ UNCHANGED <<table, tags, jobs, outdated, missed, events>>

CommitEdit(p) ==
    /\ editing[p] # None
    /\ tags' = [tags EXCEPT ![p] = editing[p]]
    /\ editing' = [editing EXCEPT ![p] = None]
    /\ missed' = [i \in Ids |-> IF i \in Looked \cap overtaken[p] THEN missed[i] \cup {p}
                                                               ELSE missed[i] \ {p}]
    /\ overtaken' = [overtaken EXCEPT ![p] = {}]
    /\ UNCHANGED <<table, jobs, outdated, resolved, events>>

\* Refused after all: locked tags, a banned artist, an error.
DropEdit(p) ==
    /\ Edited(p)
    /\ resolved' = [resolved EXCEPT ![p] = None]
    /\ editing' = [editing EXCEPT ![p] = None]
    /\ overtaken' = [overtaken EXCEPT ![p] = {}]
    /\ UNCHANGED <<table, tags, jobs, outdated, missed, events>>

-------------------------------------------------------------------------------
Decide ==
    \E i \in Ids :
        \/ \E r \in Rules : Request(i, r)
        \/ Approve(i)
        \/ Reject(i)
        \/ Remove(i)

Rewrite ==
    \E i \in Ids :
        \/ ReadRelation(i)
        \/ ReadImplied(i)
        \/ LookForPosts(i)
        \/ PassOver(i)
        \/ RewriteBatch(i)
        \/ FinishRewrite(i)
        \/ CutShort(i)

Edit ==
    \E p \in Posts :
        \/ \E W \in Wanted : ReadAliases(p, W)
        \/ ReadImplications(p)
        \/ CommitEdit(p)
        \/ DropEdit(p)

Next == Decide \/ Rewrite \/ Edit

Spec == Init /\ [][Next]_vars

-------------------------------------------------------------------------------
(* What the rules promise.                                                 *)

\* An alias leads to no alias, so one look-up resolves a tag.
NoAliasChains == \A e \in Aliases : ~Aliased(e[2])

\* A tag is aliased to one tag.
OneTarget == \A d, e \in Aliases : d[1] = e[1] => d[2] = e[2]

\* An aliased tag neither implies a tag nor is implied.
NoAliasedImplication == \A e \in Implications : ~Aliased(e[1]) /\ ~Aliased(e[2])

\* No tag implies itself through others.
LoopFree(E) == \A t \in Tags : t \notin Reached({t}, E)
NoLoops     == LoopFree(Implications)

\* The rules in force are consistent whatever is approved and removed beside
\* each other: no alias chains, one target for each alias, no aliased tag in an
\* implication, no implication loops (the header of tag_relations.rs).
RulesConsistent == NoAliasChains /\ OneTarget /\ NoAliasedImplication /\ NoLoops

\* Tags S are as the rule r wants them.
Obeys(S, r) == r.from \in S => r.kind = "implication" /\ r.to \in S

\* The tags an open edit will write obey each rule in force that was approved before
\* the edit read rules of its kind, whatever was approved, repointed and removed between
\* its two reads: the aliases one level deep and the implications of what that gives,
\* each looked up once, are enough (for_post).
OpenEditsAreClosed ==
    \A p \in Posts, i \in Ids : editing[p] # None /\ status[i] = "active" =>
        i \in overtaken[p] \/ Obeys(editing[p], rule[i])

\* A rule in force whose rewrite is over holds on every post, those aside that an
\* edit or another rewrite wrote since that rewrite last looked for posts, which had read
\* the rules before this one was approved (TagJobs::apply, apply_batch, for_post).
AppliedRulesHold ==
    \A i \in Ids : status[i] = "active" /\ job[i] = "done" =>
        \A p \in Posts : p \in missed[i] \/ Obeys(tags[p], rule[i])

\* A rewrite of a rule in force comes to its end: each batch leaves fewer posts to
\* rewrite, since the tags it adds never hold the one it takes away, whatever was
\* approved and removed between its reads (TagJobs::apply's loop).
BatchesRunOut ==
    [][\A i \in Ids : status[i] = "active" /\ RewriteBatch(i) =>
           Targets(i)' \subseteq Targets(i) /\ Targets(i)' # Targets(i)]_vars
===============================================================================
