-------------------------- MODULE TagRelationsProofs --------------------------
(***************************************************************************)
(* Whatever is requested, approved and removed, and in whatever order, the *)
(* rules in force stay consistent: for any tags and any number of rows.    *)
(*                                                                         *)
(* The invariant is RulesConsistent with TypeOK and with OpenRowsDiffer,   *)
(* that the two sides of an open row differ. An approval adds one pair;    *)
(* that a new implication closes no loop is AddPair, a fact of least sets  *)
(* that needs no induction: for each tag it names a set that holds all     *)
(* that tag now leads to and not the tag.                                  *)
(***************************************************************************)
EXTENDS TagRelations, FiniteSetTheorems, TLAPS

OpenRowsDiffer == \A i \in Ids : Open(i) => rule[i].from # rule[i].to

-------------------------------------------------------------------------------
(* Least sets.                                                             *)

\* What S reaches follows from S.
LEMMA ReachedFollows ==
    ASSUME NEW S, NEW E \in SUBSET (Tags \X Tags)
    PROVE  Follows(Reached(S, E), S, E)
<1> SUFFICES ASSUME NEW e \in E, e[1] \in S \cup Reached(S, E)
             PROVE  e[2] \in Reached(S, E)
    BY DEF Follows
<1>1. e[2] \in Tags
    OBVIOUS
<1>2. ASSUME NEW C \in SUBSET Tags, Follows(C, S, E)
      PROVE  e[2] \in C
    <2>1. e[1] \in S \cup C
        BY <1>2 DEF Reached
    <2>2. QED
        BY <2>1, <1>2 DEF Follows
<1>3. QED
    BY <1>1, <1>2 DEF Reached

\* It is in every set of tags that does.
LEMMA ReachedLeast ==
    ASSUME NEW S, NEW E, NEW C \in SUBSET Tags, Follows(C, S, E)
    PROVE  Reached(S, E) \subseteq C
BY DEF Reached

\* Fewer pairs lead to no more.
LEMMA ReachedGrows ==
    ASSUME NEW S, NEW F \in SUBSET (Tags \X Tags), NEW E \in SUBSET F
    PROVE  Reached(S, E) \subseteq Reached(S, F)
<1>1. Follows(Reached(S, F), S, E)
    BY ReachedFollows DEF Follows
<1>2. Reached(S, F) \in SUBSET Tags
    BY DEF Reached
<1>3. QED
    BY <1>1, <1>2, ReachedLeast

\* A pair whose target does not lead back to its source closes no loop.
LEMMA AddPair ==
    ASSUME NEW E \in SUBSET (Tags \X Tags), LoopFree(E),
           NEW a \in Tags, NEW b \in Tags, a # b, a \notin Reached({b}, E)
    PROVE  LoopFree(E \cup {<<a, b>>})
<1> DEFINE F == E \cup {<<a, b>>}
<1> SUFFICES ASSUME NEW t \in Tags
             PROVE  t \notin Reached({t}, F)
    BY DEF LoopFree
<1> DEFINE B == {b} \cup Reached({b}, E)
           R == Reached({t}, E)
<1>1. R \in SUBSET Tags /\ B \in SUBSET Tags
    BY DEF Reached
<1>2. t \notin R
    BY DEF LoopFree
<1>3. Follows(R, {t}, E) /\ Follows(Reached({b}, E), {b}, E)
    BY ReachedFollows
<1>4. CASE t # a /\ a \notin R
    <2>1. Follows(R, {t}, F)
        BY <1>3, <1>4 DEF Follows
    <2>2. QED
        BY <2>1, <1>1, <1>2, ReachedLeast
<1>5. CASE t = a \/ a \in R
    <2>1. Follows(R \cup B, {t}, F)
        <3> SUFFICES ASSUME NEW e \in F, e[1] \in {t} \cup (R \cup B)
                     PROVE  e[2] \in R \cup B
            BY DEF Follows
        <3>1. CASE e = <<a, b>>
            BY <3>1
        <3>2. CASE e \in E
            BY <3>2, <1>3 DEF Follows
        <3>3. QED
            BY <3>1, <3>2
    <2>2. t \notin B
        <3>1. CASE t = a
            BY <3>1
        <3>2. CASE t # a /\ a \in R
            <4>1. SUFFICES ASSUME t \in B
                           PROVE  FALSE
                OBVIOUS
            <4>2. Follows(Reached({b}, E), {t}, E)
                BY <1>3, <4>1 DEF Follows
            <4>3. R \subseteq Reached({b}, E)
                BY <4>2, ReachedLeast DEF Reached
            <4>4. QED
                BY <4>3, <3>2
        <3>3. QED
            BY <3>1, <3>2, <1>5
    <2>3. Reached({t}, F) \subseteq R \cup B
        <3>1. R \cup B \in SUBSET Tags
            BY <1>1
        <3> HIDE DEF F, R, B
        <3>2. QED
            BY <2>1, <3>1, ReachedLeast
    <2>4. QED
        BY <2>2, <2>3, <1>2
<1>6. QED
    BY <1>4, <1>5

-------------------------------------------------------------------------------
(* Types.                                                                  *)

LEMMA PairsTyped ==
    ASSUME TypeOK, NEW k
    PROVE  Pairs(k) \in SUBSET (Tags \X Tags)
BY DEF TypeOK, Pairs, InForce, Statuses, Rules

LEMMA ResolvedTyped ==
    ASSUME TypeOK, NEW W \in SUBSET Tags
    PROVE  Resolved(W) \in SUBSET Tags
<1>1. Aliases \in SUBSET (Tags \X Tags)
    BY PairsTyped DEF Aliases
<1>2. QED
    BY <1>1 DEF Resolved

LEMMA RepointTyped ==
    ASSUME TypeOK, NEW r \in Rules
    PROVE  /\ Repoint(r) \in [Ids -> Rules \cup {None}]
           /\ \A i \in Ids : status[i] # "absent" => Repoint(r)[i] \in Rules
<1>1. \A i \in Ids : Repoint(r)[i] = rule[i]
            \/ /\ status[i] = "active"
               /\ Repoint(r)[i] = [rule[i] EXCEPT !.to = r.to]
    BY DEF Repoint, Repointed, InForce
<1>2. \A i \in Ids : status[i] = "active" => [rule[i] EXCEPT !.to = r.to] \in Rules
    BY DEF TypeOK, Rules
<1>3. QED
    BY <1>1, <1>2 DEF TypeOK, Repoint

LEMMA InitTyped == Init => TypeOK
BY RelationsAssumption DEF Init, TypeOK, Statuses, Stages

LEMMA StepTyped == TypeOK /\ [Next]_vars => TypeOK'
<1> SUFFICES ASSUME TypeOK, [Next]_vars
             PROVE  TypeOK'
    OBVIOUS
<1> USE DEF TypeOK, Statuses, Stages
<1>1. ASSUME NEW i \in Ids, NEW r \in Rules, Request(i, r)
      PROVE  TypeOK'
    BY <1>1 DEF Request, Unused, drafts
<1>2. ASSUME NEW i \in Ids, Approve(i)
      PROVE  TypeOK'
    <2>1. rule[i] \in Rules
        BY <1>2 DEF Approve
    <2>2. /\ rule' \in [Ids -> Rules \cup {None}]
          /\ \A j \in Ids : status'[j] # "absent" => rule'[j] \in Rules
        BY <1>2, <2>1, RepointTyped DEF Approve
    <2>3. QED
        BY <1>2, <2>2 DEF Approve, Overtake
<1>3. ASSUME NEW i \in Ids, Reject(i)
      PROVE  TypeOK'
    BY <1>3 DEF Reject, jobs, drafts
<1>4. ASSUME NEW i \in Ids, Remove(i)
      PROVE  TypeOK'
    BY <1>4 DEF Remove, Open, jobs, drafts
<1>5. ASSUME NEW i \in Ids, ReadRelation(i)
      PROVE  TypeOK'
    BY <1>5 DEF ReadRelation, table, drafts
<1>6. ASSUME NEW i \in Ids, ReadImplied(i)
      PROVE  TypeOK'
    <2>1. {read[i].to} \cup ImpliedBy({read[i].to}) \in SUBSET Tags
        BY <1>6 DEF ReadImplied, ImpliedBy, Reached, Rules
    <2>2. QED
        BY <1>6, <2>1 DEF ReadImplied, table, drafts
<1>7. ASSUME NEW i \in Ids, LookForPosts(i)
      PROVE  TypeOK'
    <2>1. Targets(i) \in SUBSET Posts
        BY DEF Targets
    <2>2. QED
        BY <1>7, <2>1 DEF LookForPosts, table, drafts
<1>8. ASSUME NEW i \in Ids, PassOver(i)
      PROVE  TypeOK'
    <2>1. PICK p : found' = [found EXCEPT ![i] = @ \ {p}]
        BY <1>8 DEF PassOver
    <2>2. QED
        BY <1>8, <2>1 DEF PassOver, table, drafts
<1>9. ASSUME NEW i \in Ids, RewriteBatch(i)
      PROVE  TypeOK'
    <2>1. tags' \in [Posts -> SUBSET Tags] /\ missed' \in [Ids -> SUBSET Posts]
        BY <1>9 DEF RewriteBatch, Targets
    <2>2. QED
        BY <1>9, <2>1 DEF RewriteBatch, table, drafts
<1>10. ASSUME NEW i \in Ids, FinishRewrite(i)
       PROVE  TypeOK'
    BY <1>10 DEF FinishRewrite, Forget, table, drafts
<1>11. ASSUME NEW i \in Ids, CutShort(i)
       PROVE  TypeOK'
    BY <1>11 DEF CutShort, Running, Forget, table, drafts
<1>12. ASSUME NEW p \in Posts, NEW W \in Wanted, ReadAliases(p, W)
       PROVE  TypeOK'
    BY <1>12, ResolvedTyped, RelationsAssumption DEF ReadAliases, table, jobs
<1>13. ASSUME NEW p \in Posts, ReadImplications(p)
       PROVE  TypeOK'
    <2>1. resolved[p] \cup ImpliedBy(resolved[p]) \in SUBSET Tags
        BY <1>13 DEF ReadImplications, ImpliedBy, Reached
    <2>2. QED
        BY <1>13, <2>1 DEF ReadImplications, table, jobs
<1>14. ASSUME NEW p \in Posts, CommitEdit(p)
       PROVE  TypeOK'
    BY <1>14 DEF CommitEdit, table, jobs
<1>15. ASSUME NEW p \in Posts, DropEdit(p)
       PROVE  TypeOK'
    BY <1>15 DEF DropEdit, table, jobs
<1>16. CASE UNCHANGED vars
    BY <1>16 DEF vars, table, jobs, drafts
<1>17. QED
    BY <1>1, <1>2, <1>3, <1>4, <1>5, <1>6, <1>7, <1>8, <1>9, <1>10, <1>11, <1>12, <1>13,
       <1>14, <1>15, <1>16 DEF Next, Decide, Rewrite, Edit

\* The variables keep their types, an open row has its rule and a rewrite the
\* rule it read (crates/db/src/tag_relations.rs, crates/jobs/src/tags.rs).
THEOREM Typing == Spec => []TypeOK
<1>1. QED
    BY InitTyped, StepTyped, PTL DEF Spec

-------------------------------------------------------------------------------
(* The rules in force.                                                     *)

IInv == TypeOK /\ OpenRowsDiffer /\ RulesConsistent

\* Consistent rules stay so when some of them are taken away.
LEMMA FewerRules ==
    ASSUME TypeOK, RulesConsistent,
           Aliases' \subseteq Aliases, Implications' \subseteq Implications
    PROVE  RulesConsistent'
<1>1. \A t : Aliased(t)' => Aliased(t)
    BY DEF Aliased
<1>2. NoAliasChains'
    BY <1>1 DEF RulesConsistent, NoAliasChains
<1>3. OneTarget'
    BY DEF RulesConsistent, OneTarget
<1>4. NoAliasedImplication'
    BY <1>1 DEF RulesConsistent, NoAliasedImplication
<1>5. NoLoops'
    <2>1. Implications \in SUBSET (Tags \X Tags)
        BY PairsTyped DEF Implications
    <2>2. \A t : Reached({t}, Implications') \subseteq Reached({t}, Implications)
        BY <2>1, ReachedGrows
    <2>3. QED
        BY <2>2 DEF RulesConsistent, NoLoops, LoopFree
<1>6. QED
    BY <1>2, <1>3, <1>4, <1>5 DEF RulesConsistent

\* The pairs in force after a step that leaves the active rows as they are, or
\* takes some away.
LEMMA PairsFewer ==
    ASSUME NEW k,
           \A j \in Ids : status'[j] = "active" => status[j] = "active" /\ rule'[j] = rule[j]
    PROVE  Pairs(k)' \subseteq Pairs(k)
BY DEF Pairs, InForce

\* The approval of an alias sends its antecedent and the aliases of that to its
\* consequent, and leaves the implications.
LEMMA ApprovedAlias ==
    ASSUME TypeOK, NEW i \in Ids, Approve(i), rule[i].kind = "alias"
    PROVE  /\ Implications' = Implications
           /\ \A e \in Aliases' :
                \/ e = <<rule[i].from, rule[i].to>>
                \/ e \in Aliases /\ e[2] # rule[i].from
                \/ e[2] = rule[i].to /\ <<e[1], rule[i].from>> \in Aliases
<1> DEFINE r == rule[i]
<1>1. /\ status[i] = "pending"
      /\ rule' = Repoint(r)
      /\ status' = [status EXCEPT ![i] = "active"]
      /\ r \in Rules
    BY DEF Approve, TypeOK
<1>2. \A j \in Ids : status'[j] = "active" <=> (j = i \/ status[j] = "active")
    BY <1>1 DEF TypeOK
<1>3. \A j \in Ids : j \in Repointed(r) =>
        /\ status[j] = "active"
        /\ rule[j] \in Rules
        /\ rule[j].kind = "alias"
        /\ rule[j].to = r.from
        /\ rule'[j].kind = "alias"
        /\ rule'[j].from = rule[j].from
        /\ rule'[j].to = r.to
    BY <1>1 DEF Repointed, Repoint, InForce, TypeOK, Rules
<1>4. \A j \in Ids : j \notin Repointed(r) => rule'[j] = rule[j]
    BY <1>1 DEF Repoint
<1>5. \A j \in Ids : status[j] = "active" /\ rule[j].kind = "alias" /\ j \notin Repointed(r)
                        => rule[j].to # r.from
    BY DEF Repointed, InForce
<1>6. i \notin Repointed(r)
    BY <1>1 DEF Repointed, InForce
<1>7. Implications' = Implications
    <2>1. InForce("implication")' = InForce("implication")
        BY <1>2, <1>3, <1>4, <1>6 DEF InForce
    <2>2. \A j \in InForce("implication") : rule'[j] = rule[j]
        BY <1>3, <1>4 DEF InForce
    <2>3. QED
        BY <2>1, <2>2 DEF Implications, Pairs
<1>8. ASSUME NEW e \in Aliases'
      PROVE  \/ e = <<r.from, r.to>>
             \/ e \in Aliases /\ e[2] # r.from
             \/ e[2] = r.to /\ <<e[1], r.from>> \in Aliases
    <2>1. PICK j \in Ids : /\ status'[j] = "active"
                           /\ rule'[j].kind = "alias"
                           /\ e = <<rule'[j].from, rule'[j].to>>
        BY <1>8 DEF Aliases, Pairs, InForce
    <2>2. CASE j = i
        BY <2>1, <2>2, <1>4, <1>6
    <2>3. CASE j # i /\ j \in Repointed(r)
        <3>1. j \in InForce("alias") /\ <<e[1], r.from>> = <<rule[j].from, rule[j].to>>
            BY <2>1, <2>3, <1>3 DEF InForce
        <3>2. QED
            BY <3>1, <2>1, <2>3, <1>3 DEF Aliases, Pairs
    <2>4. CASE j # i /\ j \notin Repointed(r)
        <3>1. j \in InForce("alias") /\ rule'[j] = rule[j] /\ rule[j].to # r.from
            BY <2>1, <2>4, <1>2, <1>4, <1>5 DEF InForce
        <3>2. QED
            BY <3>1, <2>1 DEF Aliases, Pairs
    <2>5. QED
        BY <2>2, <2>3, <2>4
<1>9. QED
    BY <1>7, <1>8

LEMMA ApproveAliasKeeps ==
    ASSUME IInv, NEW i \in Ids, Approve(i), rule[i].kind = "alias"
    PROVE  RulesConsistent'
<1> DEFINE a == rule[i].from
           b == rule[i].to
<1>1. /\ a # b
      /\ ~Aliased(a)
      /\ ~Aliased(b)
      /\ \A e \in Implications : a \notin {e[1], e[2]}
    BY DEF IInv, OpenRowsDiffer, Open, Approve, RulesHold
<1>2. /\ Implications' = Implications
      /\ \A e \in Aliases' : \/ e = <<a, b>>
                             \/ e \in Aliases /\ e[2] # a
                             \/ e[2] = b /\ <<e[1], a>> \in Aliases
    BY ApprovedAlias DEF IInv
<1>3. a \in Tags /\ b \in Tags /\ Aliases \in SUBSET (Tags \X Tags)
      /\ Implications \in SUBSET (Tags \X Tags)
    BY PairsTyped DEF IInv, TypeOK, Approve, Rules, Aliases, Implications
<1> HIDE DEF a, b
<1>4. \A t : Aliased(t)' => t = a \/ Aliased(t)
    <2> SUFFICES ASSUME NEW e \in Aliases'
                 PROVE  e[1] = a \/ Aliased(e[1])
        BY DEF Aliased
    <2>1. CASE <<e[1], a>> \in Aliases
        <3>1. <<e[1], a>>[1] = e[1]
            OBVIOUS
        <3>2. QED
            BY <2>1, <3>1 DEF Aliased
    <2>2. CASE e \in Aliases \/ e = <<a, b>>
        BY <2>2 DEF Aliased
    <2>3. QED
        BY <2>1, <2>2, <1>2
<1>5. NoAliasChains'
    <2> SUFFICES ASSUME NEW e \in Aliases'
                 PROVE  ~Aliased(e[2])'
        BY DEF NoAliasChains
    <2>0. <<a, b>>[2] = b
        OBVIOUS
    <2>1. e[2] # a
        BY <1>1, <1>2, <2>0
    <2>2. ~Aliased(e[2])
        BY <1>1, <1>2, <2>0 DEF IInv, RulesConsistent, NoAliasChains
    <2>3. QED
        BY <2>1, <2>2, <1>4
<1>6. OneTarget'
    <2> SUFFICES ASSUME NEW d \in Aliases', NEW e \in Aliases', d[1] = e[1]
                 PROVE  d[2] = e[2]
        BY DEF OneTarget
    <2>1. \A t, u : <<t, u>> \in Aliases => Aliased(t)
        <3>1. \A t, u : <<t, u>>[1] = t
            OBVIOUS
        <3>2. QED
            BY <3>1 DEF Aliased
    <2>2. \A f \in Aliases : Aliased(f[1])
        BY DEF Aliased
    <2>3. \A f, g \in Aliases : f[1] = g[1] => f[2] = g[2]
        BY DEF IInv, RulesConsistent, OneTarget
    <2>4. \A f \in Aliases' : f[1] = a => f = <<a, b>>
        BY <1>1, <1>2, <2>1, <2>2
    <2>5. \A f \in Aliases : \A t : <<f[1], t>> \in Aliases => f[2] = t
        <3>1. \A t, u : <<t, u>>[1] = t /\ <<t, u>>[2] = u
            OBVIOUS
        <3>2. QED
            BY <2>3, <3>1
    <2>6. CASE d[1] = a
        BY <2>4, <2>6
    <2>7. CASE d[1] # a
        <3>0. <<a, b>>[1] = a
            OBVIOUS
        <3>1. /\ (d \in Aliases /\ d[2] # a) \/ (d[2] = b /\ <<d[1], a>> \in Aliases)
              /\ (e \in Aliases /\ e[2] # a) \/ (e[2] = b /\ <<e[1], a>> \in Aliases)
            BY <1>2, <2>7, <3>0
        <3>2. QED
            BY <3>1, <2>3, <2>5
    <2>8. QED
        BY <2>6, <2>7
<1>7. NoAliasedImplication'
    BY <1>1, <1>2, <1>4 DEF IInv, RulesConsistent, NoAliasedImplication
<1>8. NoLoops'
    BY <1>2 DEF IInv, RulesConsistent, NoLoops
<1>9. QED
    BY <1>5, <1>6, <1>7, <1>8 DEF RulesConsistent

LEMMA ApproveImplicationKeeps ==
    ASSUME IInv, NEW i \in Ids, Approve(i), rule[i].kind = "implication"
    PROVE  RulesConsistent'
<1> DEFINE a == rule[i].from
           b == rule[i].to
<1>1. /\ a \in Tags /\ b \in Tags /\ a # b
      /\ ~Aliased(a)
      /\ ~Aliased(b)
      /\ a \notin Reached({b}, Implications)
    BY DEF IInv, OpenRowsDiffer, Open, TypeOK, Rules, Approve, RulesHold, ImpliedBy
<1>2. rule' = rule
    BY DEF IInv, TypeOK, Approve, Repoint, Repointed
<1>3. Aliases' = Aliases /\ Implications' = Implications \cup {<<a, b>>}
    <2>1. /\ InForce("alias")' = InForce("alias")
          /\ InForce("implication")' = InForce("implication") \cup {i}
        BY <1>2 DEF IInv, TypeOK, Approve, InForce
    <2>2. QED
        BY <2>1, <1>2 DEF Aliases, Implications, Pairs
<1> HIDE DEF a, b
<1>4. NoAliasChains' /\ OneTarget'
    BY <1>3 DEF IInv, RulesConsistent, NoAliasChains, OneTarget, Aliased
<1>5. NoAliasedImplication'
    BY SMTT(30), <1>1, <1>3 DEF IInv, RulesConsistent, NoAliasedImplication, Aliased
<1>6. NoLoops'
    <2>1. Implications \in SUBSET (Tags \X Tags)
        BY PairsTyped DEF IInv, Implications
    <2>2. LoopFree(Implications)
        BY DEF IInv, RulesConsistent, NoLoops
    <2>3. LoopFree(Implications \cup {<<a, b>>})
        BY <2>1, <2>2, <1>1, AddPair
    <2>4. QED
        BY <2>3, <1>3 DEF NoLoops
<1>7. QED
    BY <1>4, <1>5, <1>6 DEF RulesConsistent

LEMMA InitHolds == Init => IInv
<1> SUFFICES ASSUME Init
             PROVE  OpenRowsDiffer /\ RulesConsistent
    BY InitTyped DEF IInv
<1>1. Aliases = {} /\ Implications = {}
    BY DEF Init, Aliases, Implications, Pairs, InForce
<1>2. \A t : Reached({t}, {}) = {}
    BY ReachedLeast DEF Follows
<1>3. QED
    BY <1>1, <1>2 DEF Init, OpenRowsDiffer, Open, RulesConsistent, NoAliasChains, OneTarget,
                      NoAliasedImplication, NoLoops, LoopFree, Aliased

LEMMA StepHolds == IInv /\ [Next]_vars => IInv'
<1> SUFFICES ASSUME IInv, [Next]_vars
             PROVE  OpenRowsDiffer' /\ RulesConsistent'
    BY StepTyped DEF IInv
<1>0. ASSUME \A j \in Ids : status'[j] = "active" => status[j] = "active" /\ rule'[j] = rule[j]
      PROVE  RulesConsistent'
    <2>1. Aliases' \subseteq Aliases /\ Implications' \subseteq Implications
        BY <1>0, PairsFewer DEF Aliases, Implications
    <2>2. QED
        BY <2>1, FewerRules DEF IInv
<1>1. ASSUME NEW i \in Ids, NEW r \in Rules, Request(i, r)
      PROVE  OpenRowsDiffer' /\ RulesConsistent'
    <2>1. OpenRowsDiffer'
        BY <1>1 DEF Request, IInv, TypeOK, OpenRowsDiffer, Open
    <2>2. \A j \in Ids : status'[j] = "active" => status[j] = "active" /\ rule'[j] = rule[j]
        BY <1>1 DEF Request, IInv, TypeOK
    <2>3. QED
        BY <2>1, <2>2, <1>0
<1>2. ASSUME NEW i \in Ids, Approve(i)
      PROVE  OpenRowsDiffer' /\ RulesConsistent'
    <2>1. OpenRowsDiffer'
        <3> SUFFICES ASSUME NEW j \in Ids, Open(j)'
                     PROVE  rule'[j].from # rule'[j].to
            BY DEF OpenRowsDiffer
        <3>1. Open(j) /\ rule[i] \in Rules /\ rule[j] \in Rules
            BY <1>2 DEF Approve, IInv, TypeOK, Open
        <3>2. CASE j \in Repointed(rule[i])
            <4>1. rule'[j].from = rule[j].from /\ rule'[j].to = rule[i].to
                BY <1>2, <3>1, <3>2 DEF Approve, Repoint, Rules
            <4>2. rule[j].kind = "alias" /\ status[j] = "active"
                BY <3>2 DEF Repointed, InForce
            <4>3. <<rule[j].from, rule[j].to>> \in Aliases
                BY <4>2 DEF Aliases, Pairs, InForce
            <4>4. Aliased(rule[j].from)
                BY <4>3, <3>1 DEF Aliased, Rules
            <4>5. ~Aliased(rule[i].to)
                BY <1>2 DEF Approve, RulesHold
            <4>6. QED
                BY <4>1, <4>4, <4>5
        <3>3. CASE j \notin Repointed(rule[i])
            BY <1>2, <3>1, <3>3 DEF Approve, Repoint, IInv, OpenRowsDiffer
        <3>4. QED
            BY <3>2, <3>3
    <2>2. rule[i].kind \in Kinds
        BY <1>2 DEF Approve, IInv, TypeOK, Rules
    <2>3. RulesConsistent'
        BY <1>2, <2>2, ApproveAliasKeeps, ApproveImplicationKeeps DEF Kinds
    <2>4. QED
        BY <2>1, <2>3
<1>3. ASSUME NEW i \in Ids, Reject(i) \/ Remove(i)
      PROVE  OpenRowsDiffer' /\ RulesConsistent'
    <2>1. OpenRowsDiffer'
        BY <1>3 DEF Reject, Remove, IInv, TypeOK, OpenRowsDiffer, Open
    <2>2. \A j \in Ids : status'[j] = "active" => status[j] = "active" /\ rule'[j] = rule[j]
        BY <1>3 DEF Reject, Remove, IInv, TypeOK
    <2>3. QED
        BY <2>1, <2>2, <1>0
<1>4. ASSUME UNCHANGED table
      PROVE  OpenRowsDiffer' /\ RulesConsistent'
    <2>1. OpenRowsDiffer'
        BY <1>4 DEF table, IInv, OpenRowsDiffer, Open
    <2>2. QED
        BY <2>1, <1>0, <1>4 DEF table
<1>5. CASE Rewrite
    <2>1. UNCHANGED table
        BY <1>5 DEF Rewrite, ReadRelation, ReadImplied, LookForPosts, PassOver,
                   RewriteBatch, FinishRewrite, CutShort
    <2>2. QED
        BY <2>1, <1>4
<1>6. CASE Edit
    <2>1. UNCHANGED table
        BY <1>6 DEF Edit, ReadAliases, ReadImplications, CommitEdit, DropEdit
    <2>2. QED
        BY <2>1, <1>4
<1>7. CASE UNCHANGED vars
    BY <1>7, <1>4 DEF vars
<1>8. QED
    BY <1>1, <1>2, <1>3, <1>5, <1>6, <1>7 DEF Next, Decide

LEMMA Invariance == Spec => []IInv
<1>1. QED
    BY InitHolds, StepHolds, PTL DEF Spec

\* The rules in force are consistent in every state: no alias leads to an alias,
\* a tag is aliased to one tag, no aliased tag is in an implication, and no tag
\* implies itself (check_rules, request, approve, reject, remove).
THEOREM RulesStayConsistent == Spec => []RulesConsistent
<1>1. IInv => RulesConsistent
    BY DEF IInv
<1>2. QED
    BY <1>1, Invariance, PTL

-------------------------------------------------------------------------------
(* Edits.                                                                  *)

\* Only targets of pairs are reached.
LEMMA ReachedTargets ==
    ASSUME NEW S, NEW E \in SUBSET (Tags \X Tags)
    PROVE  \A t \in Reached(S, E) : \E e \in E : e[2] = t
<1> DEFINE C == {t \in Tags : \E e \in E : e[2] = t}
<1>1. Follows(C, S, E)
    BY DEF Follows
<1>2. C \in SUBSET Tags
    OBVIOUS
<1>3. Reached(S, E) \subseteq C
    BY <1>1, <1>2, ReachedLeast
<1>4. QED
    BY <1>3

LEMMA ImpliedIsClosed ==
    ASSUME IInv, NEW S
    PROVE  /\ \A t \in ImpliedBy(S) : ~Aliased(t)
           /\ \A e \in Implications :
                e[1] \in S \cup ImpliedBy(S) => e[2] \in S \cup ImpliedBy(S)
<1>1. Implications \in SUBSET (Tags \X Tags)
    BY PairsTyped DEF IInv, Implications
<1>2. \A t \in ImpliedBy(S) : ~Aliased(t)
    BY <1>1, ReachedTargets DEF ImpliedBy, IInv, RulesConsistent, NoAliasedImplication
<1>3. Follows(Reached(S, Implications), S, Implications)
    BY <1>1, ReachedFollows
<1>4. S \cup ImpliedBy(S) = S \cup Reached(S, Implications)
    BY DEF ImpliedBy
<1>5. QED
    BY <1>2, <1>3, <1>4 DEF Follows

\* S holds no aliased tag and all that its tags imply.
Closed(S) ==
    /\ \A t \in S : ~Aliased(t)
    /\ \A e \in Implications : e[1] \in S => e[2] \in S

\* One look-up leaves no aliased tag.
LEMMA ResolvedUnaliased ==
    ASSUME IInv, NEW W
    PROVE  \A t \in Resolved(W) : ~Aliased(t)
BY DEF Resolved, IInv, RulesConsistent, NoAliasChains

\* A rule in force has its pair.
LEMMA InForcePairs ==
    ASSUME TypeOK, NEW i \in Ids, status[i] = "active"
    PROVE  /\ rule[i] \in Rules
           /\ rule[i].kind = "alias" => Aliased(rule[i].from)
           /\ rule[i].kind = "implication" => <<rule[i].from, rule[i].to>> \in Implications
<1>1. rule[i] \in Rules
    BY DEF TypeOK
<1>2. \A k : rule[i].kind = k => <<rule[i].from, rule[i].to>> \in Pairs(k)
    BY DEF Pairs, InForce
<1>3. QED
    BY <1>1, <1>2 DEF Aliased, Aliases, Implications, Rules

\* Closed tags are as each rule in force wants them.
LEMMA ClosedObeys ==
    ASSUME IInv, NEW S, Closed(S), NEW k \in Ids, status[k] = "active"
    PROVE  Obeys(S, rule[k])
<1>1. /\ rule[k] \in Rules
      /\ rule[k].kind = "alias" => Aliased(rule[k].from)
      /\ rule[k].kind = "implication" => <<rule[k].from, rule[k].to>> \in Implications
    BY InForcePairs DEF IInv
<1>2. QED
    BY <1>1 DEF Closed, Obeys, Rules, Kinds

\* A step that is no approval takes active rules away at most.
LEMMA OtherSteps ==
    ASSUME IInv, [Next]_vars, ~\E i \in Ids : Approve(i)
    PROVE  \A j \in Ids : status'[j] = "active" => status[j] = "active" /\ rule'[j] = rule[j]
<1>1. ASSUME NEW i \in Ids, NEW r \in Rules, Request(i, r)
      PROVE  \A j \in Ids : status'[j] = "active" => status[j] = "active" /\ rule'[j] = rule[j]
    BY <1>1 DEF Request, IInv, TypeOK
<1>2. ASSUME NEW i \in Ids, Reject(i) \/ Remove(i)
      PROVE  \A j \in Ids : status'[j] = "active" => status[j] = "active" /\ rule'[j] = rule[j]
    BY <1>2 DEF Reject, Remove, IInv, TypeOK
<1>3. CASE Rewrite
    BY <1>3 DEF Rewrite, ReadRelation, ReadImplied, LookForPosts, PassOver,
                   RewriteBatch, FinishRewrite, CutShort, table
<1>4. CASE Edit
    BY <1>4 DEF Edit, ReadAliases, ReadImplications, CommitEdit, DropEdit, table
<1>5. CASE UNCHANGED vars
    BY <1>5 DEF vars, table
<1>6. QED
    BY <1>1, <1>2, <1>3, <1>4, <1>5 DEF Next, Decide

\* An approval leaves the kind and the antecedent of each rule in force, and the
\* implications.
LEMMA ApproveSpares ==
    ASSUME IInv, NEW i \in Ids, Approve(i), NEW j \in Ids, status[j] = "active"
    PROVE  /\ rule'[j].from = rule[j].from
           /\ rule'[j].kind = rule[j].kind
           /\ rule[j].kind = "implication" => rule'[j] = rule[j]
<1>1. rule[j] \in Rules
    BY DEF IInv, TypeOK
<1>2. rule' = Repoint(rule[i])
    BY DEF Approve
<1>3. QED
    BY <1>1, <1>2 DEF Repoint, Repointed, InForce, Rules

\* What obeyed a rule in force obeys it after an approval.
LEMMA ApproveObeyed ==
    ASSUME IInv, NEW i \in Ids, Approve(i), NEW j \in Ids, status[j] = "active",
           NEW S, Obeys(S, rule[j])
    PROVE  Obeys(S, rule'[j])
BY ApproveSpares DEF Obeys

\* What an approval makes stale.
LEMMA ApproveOvertakes ==
    ASSUME IInv, NEW i \in Ids, Approve(i)
    PROVE  /\ \A p \in Posts : IF Edited(p) THEN overtaken'[p] = overtaken[p] \cup {i}
                                            ELSE overtaken'[p] = overtaken[p]
           /\ \A j \in Ids : IF j \in Running THEN outdated'[j] = outdated[j] \cup {i}
                                              ELSE outdated'[j] = outdated[j]
           /\ \A k \in Ids \ {i} : missed'[k] = missed[k]
           /\ \A k \in Ids : status'[k] = "active" => k = i \/ status[k] = "active"
BY DEF Approve, Overtake, IInv, TypeOK

\* Between its reads an edit holds no tag with an alias that was in force at the first.
ResolvedHold ==
    \A p \in Posts, k \in Ids :
        resolved[p] # None /\ status[k] = "active" /\ rule[k].kind = "alias" =>
            k \in overtaken[p] \/ rule[k].from \notin resolved[p]

OnePhase == \A p \in Posts : resolved[p] = None \/ editing[p] = None

EditsHold == OnePhase /\ ResolvedHold /\ OpenEditsAreClosed

\* What an edit adds for the implications of now obeys them all, and of the aliases
\* those that its resolved tags obey.
LEMMA ImpliedObeys ==
    ASSUME IInv, NEW S, NEW k \in Ids, status[k] = "active",
           rule[k].kind = "alias" => rule[k].from \notin S
    PROVE  Obeys(S \cup ImpliedBy(S), rule[k])
<1>1. /\ rule[k] \in Rules
      /\ rule[k].kind = "alias" => Aliased(rule[k].from)
      /\ rule[k].kind = "implication" => <<rule[k].from, rule[k].to>> \in Implications
    BY InForcePairs DEF IInv
<1>2. CASE rule[k].kind = "alias"
    <2>1. rule[k].from \notin ImpliedBy(S)
        BY <1>1, <1>2, ImpliedIsClosed
    <2>2. QED
        BY <1>2, <2>1 DEF Obeys
<1>3. CASE rule[k].kind = "implication"
    <2>1. rule[k].from \in S \cup ImpliedBy(S) => rule[k].to \in S \cup ImpliedBy(S)
        BY <1>1, <1>3, ImpliedIsClosed
    <2>2. QED
        BY <1>3, <2>1 DEF Obeys
<1>4. QED
    BY <1>1, <1>2, <1>3 DEF Rules, Kinds

LEMMA ApproveEdits ==
    ASSUME IInv, EditsHold, NEW i \in Ids, Approve(i)
    PROVE  EditsHold'
<1>1. UNCHANGED <<resolved, editing>>
    BY DEF Approve
<1>2. ASSUME NEW p \in Posts, Edited(p), NEW k \in Ids, status'[k] = "active",
             k \notin overtaken'[p]
      PROVE  status[k] = "active" /\ k \notin overtaken[p]
    BY <1>2, ApproveOvertakes
<1>3. ResolvedHold'
    <2> SUFFICES ASSUME NEW p \in Posts, resolved[p] # None,
                        NEW k \in Ids, status'[k] = "active", rule'[k].kind = "alias",
                        k \notin overtaken'[p]
                 PROVE  rule'[k].from \notin resolved[p]
        BY <1>1 DEF ResolvedHold
    <2>1. status[k] = "active" /\ k \notin overtaken[p]
        BY <1>2 DEF Edited
    <2>2. rule'[k].from = rule[k].from /\ rule'[k].kind = rule[k].kind
        BY <2>1, ApproveSpares
    <2>3. QED
        BY <2>1, <2>2 DEF EditsHold, ResolvedHold
<1>4. OpenEditsAreClosed'
    <2> SUFFICES ASSUME NEW p \in Posts, editing[p] # None,
                        NEW k \in Ids, status'[k] = "active", k \notin overtaken'[p]
                 PROVE  Obeys(editing[p], rule'[k])
        BY <1>1 DEF OpenEditsAreClosed, Obeys
    <2>1. status[k] = "active" /\ k \notin overtaken[p]
        BY <1>2 DEF Edited
    <2>2. Obeys(editing[p], rule[k])
        BY <2>1 DEF EditsHold, OpenEditsAreClosed
    <2>3. QED
        BY <2>1, <2>2, ApproveObeyed
<1>5. QED
    BY <1>1, <1>3, <1>4 DEF EditsHold, OnePhase

LEMMA ReadAliasesEdits ==
    ASSUME IInv, EditsHold, NEW p \in Posts, NEW W \in Wanted, ReadAliases(p, W)
    PROVE  EditsHold'
<1>1. UNCHANGED <<table, editing, overtaken>>
    BY DEF ReadAliases
<1>2. resolved'[p] = Resolved(W) /\ \A q \in Posts \ {p} : resolved'[q] = resolved[q]
    BY DEF ReadAliases, IInv, TypeOK
<1>3. \A k \in Ids : status[k] = "active" /\ rule[k].kind = "alias" =>
        rule[k].from \notin Resolved(W)
    BY InForcePairs, ResolvedUnaliased DEF IInv
<1>4. ResolvedHold'
    BY <1>1, <1>2, <1>3 DEF EditsHold, ResolvedHold, table
<1>5. OpenEditsAreClosed'
    BY <1>1 DEF EditsHold, OpenEditsAreClosed, Obeys, table
<1>6. OnePhase'
    BY <1>1, <1>2 DEF ReadAliases, Edited, EditsHold, OnePhase
<1>7. QED
    BY <1>4, <1>5, <1>6 DEF EditsHold

LEMMA ReadImplicationsEdits ==
    ASSUME IInv, EditsHold, NEW p \in Posts, ReadImplications(p)
    PROVE  EditsHold'
<1>1. UNCHANGED table /\ resolved[p] # None /\ resolved'[p] = None
    BY DEF ReadImplications, IInv, TypeOK
<1>2. /\ editing'[p] = resolved[p] \cup ImpliedBy(resolved[p])
      /\ overtaken'[p] = {i \in overtaken[p] : rule[i].kind = "alias"}
      /\ \A q \in Posts \ {p} : /\ resolved'[q] = resolved[q] /\ editing'[q] = editing[q]
                                /\ overtaken'[q] = overtaken[q]
    BY DEF ReadImplications, IInv, TypeOK
<1>3. ASSUME NEW k \in Ids, status[k] = "active", k \notin overtaken'[p]
      PROVE  Obeys(editing'[p], rule[k])
    <2>1. rule[k].kind = "alias" => rule[k].from \notin resolved[p]
        BY <1>1, <1>2, <1>3 DEF EditsHold, ResolvedHold
    <2>2. Obeys(resolved[p] \cup ImpliedBy(resolved[p]), rule[k])
        BY <1>3, <2>1, ImpliedObeys
    <2>3. QED
        BY <1>2, <2>2
<1>4. ResolvedHold'
    BY <1>1, <1>2 DEF EditsHold, ResolvedHold, table
<1>5. OpenEditsAreClosed'
    <2> SUFFICES ASSUME NEW q \in Posts, editing'[q] # None,
                        NEW k \in Ids, status[k] = "active", k \notin overtaken'[q]
                 PROVE  Obeys(editing'[q], rule[k])
        BY <1>1 DEF OpenEditsAreClosed, Obeys, table
    <2>1. CASE q = p
        BY <1>3, <2>1
    <2>2. CASE q # p
        BY <1>2, <2>2 DEF EditsHold, OpenEditsAreClosed
    <2>3. QED
        BY <2>1, <2>2
<1>6. OnePhase'
    BY <1>1, <1>2 DEF EditsHold, OnePhase
<1>7. QED
    BY <1>4, <1>5, <1>6 DEF EditsHold

LEMMA EditsStep == IInv /\ EditsHold /\ [Next]_vars => EditsHold'
<1> SUFFICES ASSUME IInv, EditsHold, [Next]_vars
             PROVE  EditsHold'
    OBVIOUS
<1>1. ASSUME NEW i \in Ids, Approve(i)
      PROVE  EditsHold'
    BY <1>1, ApproveEdits
<1>2. ASSUME NEW p \in Posts, NEW W \in Wanted, ReadAliases(p, W)
      PROVE  EditsHold'
    BY <1>2, ReadAliasesEdits
<1>3. ASSUME NEW p \in Posts, ReadImplications(p)
      PROVE  EditsHold'
    BY <1>3, ReadImplicationsEdits
<1>4. ASSUME NEW p \in Posts, CommitEdit(p) \/ DropEdit(p)
      PROVE  EditsHold'
    <2>1. /\ UNCHANGED table
          /\ editing'[p] = None /\ resolved'[p] = None
          /\ \A q \in Posts \ {p} : /\ resolved'[q] = resolved[q] /\ editing'[q] = editing[q]
                                    /\ overtaken'[q] = overtaken[q]
        BY <1>4 DEF CommitEdit, DropEdit, EditsHold, OnePhase, IInv, TypeOK
    <2>2. QED
        BY <2>1 DEF EditsHold, OnePhase, ResolvedHold, OpenEditsAreClosed, Obeys, table
<1>5. ASSUME UNCHANGED drafts, ~\E i \in Ids : Approve(i)
      PROVE  EditsHold'
    <2>1. \A j \in Ids : status'[j] = "active" => status[j] = "active" /\ rule'[j] = rule[j]
        BY <1>5, OtherSteps
    <2>2. QED
        BY <1>5, <2>1 DEF EditsHold, OnePhase, ResolvedHold, OpenEditsAreClosed, Obeys, drafts
<1>6. QED
    BY <1>1, <1>2, <1>3, <1>4, <1>5
       DEF Next, Decide, Rewrite, Edit, Request, Reject, Remove, ReadRelation,
           ReadImplied, LookForPosts, PassOver, RewriteBatch, FinishRewrite, CutShort, vars

LEMMA EditsAlwaysHold == Spec => []EditsHold
<1>1. Init => EditsHold
    BY DEF Init, EditsHold, OnePhase, ResolvedHold, OpenEditsAreClosed
<1>2. QED
    BY <1>1, EditsStep, Invariance, PTL DEF Spec

\* An edit writes tags that obey each rule in force that was approved before it read the
\* rules of that kind, whatever was approved and removed between its two reads: looking
\* up the aliases once and then the implications of what they give is enough
\* (tags::for_post).
THEOREM EditsFollowTheRules == Spec => []OpenEditsAreClosed
<1>1. EditsHold => OpenEditsAreClosed
    BY DEF EditsHold
<1>2. QED
    BY <1>1, EditsAlwaysHold, PTL

-------------------------------------------------------------------------------
(***************************************************************************)
(* Rewrites, any number at a time. What makes the rules hold on the posts  *)
(* is that a rewrite spares each rule that was in force when it read its   *)
(* own: it takes away no tag such a rule wants and adds no tag it takes    *)
(* away, nor one of its tags without what that implies. The rules may      *)
(* change between its two reads: what it adds is then closed under the     *)
(* rules of the second and still spares those of the first. Its own rule   *)
(* is one of them, so that no batch gives a tag back that it takes away.   *)
(***************************************************************************)

\* A rule is not approved while it is rewritten.
OwnRuleKnown == \A i \in Ids : i \notin outdated[i]

\* A row that is still active is the one read, but that an alias may be
\* repointed.
ReadMatches ==
    \A j \in Running : status[j] = "active" =>
        /\ rule[j].kind = read[j].kind
        /\ rule[j].from = read[j].from
        /\ read[j].kind = "implication" => rule[j].to = read[j].to

\* A running rewrite adds the consequent it read.
AddsConsequent == \A j \in Ids : job[j] \in {"running", "looking"} => read[j].to \in add[j]

Spares(j, r) ==
    /\ r.kind = "alias" =>
        /\ job[j] = "planning" => read[j].to # r.from
        /\ job[j] \in {"running", "looking"} => r.from \notin add[j]
    /\ r.kind = "implication" =>
        /\ read[j].kind = "alias" => read[j].from # r.to
        /\ job[j] \in {"running", "looking"} => (r.from \in add[j] => r.to \in add[j])

RewritesSpare ==
    \A j \in Running, i \in Ids : status[i] = "active" =>
        i \in outdated[j] \/ Spares(j, rule[i])

\* Once a rewrite has looked for posts, its rule holds on those it did not find or has
\* passed over, those aside that a writer with older rules has written since.
LookedHold ==
    \A i \in Looked : status[i] = "active" =>
        \A p \in Posts : p \in found[i] \cup missed[i] \/ Obeys(tags[p], rule[i])

RInv ==
    /\ OwnRuleKnown
    /\ ReadMatches
    /\ AddsConsequent
    /\ RewritesSpare
    /\ LookedHold

LEMMA InitRewrites == Init => RInv
BY DEF Init, RInv, OwnRuleKnown, ReadMatches, AddsConsequent, RewritesSpare,
       LookedHold, Looked, Running

\* Requests, rejections and removals touch no rewrite and no post.
LEMMA TableStep ==
    ASSUME IInv, RInv, UNCHANGED <<tags, read, add, found, outdated, missed>>,
           \A j \in Ids : j \in Running \cup Running' => job'[j] = job[j],
           \A j \in Ids : status'[j] = "active"
                            => status[j] = "active" /\ rule'[j] = rule[j] /\ job'[j] = job[j]
    PROVE  RInv'
<1>1. Running' = Running
    BY DEF Running
<1>2. \A j \in Running : job'[j] = job[j]
    BY DEF Running
<1>3. OwnRuleKnown' /\ ReadMatches' /\ AddsConsequent'
    BY <1>1 DEF RInv, OwnRuleKnown, ReadMatches, AddsConsequent, Running
<1>4. RewritesSpare'
    BY <1>1, <1>2 DEF RInv, RewritesSpare, Spares
<1>5. LookedHold'
    BY DEF RInv, LookedHold, Looked, Obeys
<1>6. QED
    BY <1>3, <1>4, <1>5 DEF RInv

LEMMA RequestStep ==
    ASSUME IInv, RInv, NEW i \in Ids, NEW r \in Rules, Request(i, r)
    PROVE  RInv'
<1>1. /\ UNCHANGED <<tags, read, add, found, outdated, missed>>
      /\ job' = [job EXCEPT ![i] = "none"]
      /\ status' = [status EXCEPT ![i] = "pending"]
      /\ rule' = [rule EXCEPT ![i] = r]
      /\ job[i] \in {"none", "done"}
    BY DEF Request, Unused
<1>2. QED
    BY <1>1, TableStep DEF IInv, TypeOK, Running

LEMMA CloseStep ==
    ASSUME IInv, RInv, NEW i \in Ids, Reject(i) \/ Remove(i)
    PROVE  RInv'
<1>1. /\ UNCHANGED <<rule, job, tags, read, add, found, outdated, missed>>
      /\ \A j \in Ids : status'[j] = "active" => status[j] = "active"
    BY DEF Reject, Remove, jobs, IInv, TypeOK
<1>2. QED
    BY <1>1, TableStep

\* An approval is remembered by the rewrites that run, and leaves the antecedents of
\* the rules in force before it.
LEMMA ApproveStep ==
    ASSUME IInv, RInv, NEW i \in Ids, Approve(i)
    PROVE  RInv'
<1>1. /\ status' = [status EXCEPT ![i] = "active"]
      /\ job' = [job EXCEPT ![i] = "queued"]
      /\ status[i] = "pending" /\ job[i] = "none"
      /\ UNCHANGED <<tags, read, add, found>>
    BY DEF Approve, IInv, TypeOK
<1>2. Running' = Running /\ i \notin Running
    BY <1>1 DEF Running, IInv, TypeOK
<1>3. \A j \in Running : j # i /\ job'[j] = job[j] /\ status'[j] = status[j]
    BY <1>1 DEF Running, IInv, TypeOK
<1>4. OwnRuleKnown'
    BY <1>2, ApproveOvertakes DEF RInv, OwnRuleKnown
<1>5. ReadMatches'
    BY <1>1, <1>2, <1>3, ApproveSpares DEF RInv, ReadMatches, Running
<1>6. AddsConsequent'
    BY <1>1 DEF RInv, AddsConsequent, IInv, TypeOK
<1>7. RewritesSpare'
    <2> SUFFICES ASSUME NEW j \in Running, NEW k \in Ids, status'[k] = "active",
                        k \notin outdated'[j]
                 PROVE  Spares(j, rule[k])'
        BY <1>2 DEF RewritesSpare
    <2>1. status[k] = "active" /\ k \notin outdated[j]
        BY ApproveOvertakes DEF Running
    <2>2. Spares(j, rule[k])
        BY <2>1 DEF RInv, RewritesSpare
    <2>3. QED
        BY <1>1, <1>3, <2>1, <2>2, ApproveSpares DEF Spares
<1>8. LookedHold'
    <2> SUFFICES ASSUME NEW k \in Looked', status'[k] = "active",
                        NEW p \in Posts, p \notin found[k] \cup missed'[k]
                 PROVE  Obeys(tags[p], rule'[k])
        BY <1>1 DEF LookedHold, Obeys
    <2>1. k # i /\ status[k] = "active" /\ k \in Looked /\ p \notin missed[k]
        BY <1>1, ApproveOvertakes DEF IInv, TypeOK, Looked
    <2>2. k \in Ids /\ Obeys(tags[p], rule[k])
        BY <2>1 DEF RInv, LookedHold, Looked
    <2>3. QED
        BY <2>1, <2>2, ApproveObeyed
<1>9. QED
    BY <1>4, <1>5, <1>6, <1>7, <1>8 DEF RInv

\* A rewrite that begins spares the rules in force, its own among them.
LEMMA ReadSpares ==
    ASSUME IInv, NEW i \in Ids, status[i] = "active", NEW k \in Ids, status[k] = "active"
    PROVE  /\ rule[k].kind = "alias" => rule[i].to # rule[k].from
           /\ rule[k].kind = "implication" /\ rule[i].kind = "alias" => rule[i].from # rule[k].to
<1>1. /\ rule[i] \in Rules
      /\ rule[k].kind = "alias" => Aliased(rule[k].from)
      /\ rule[k].kind = "implication" => <<rule[k].from, rule[k].to>> \in Implications
    BY InForcePairs DEF IInv
<1>2. /\ rule[i].kind = "alias" =>
            Aliased(rule[i].from) /\ <<rule[i].from, rule[i].to>> \in Aliases
      /\ rule[i].kind = "implication" => <<rule[i].from, rule[i].to>> \in Implications
    BY InForcePairs DEF Aliases, Pairs, InForce, IInv
<1>3. ~Aliased(rule[i].to)
    BY <1>1, <1>2 DEF IInv, RulesConsistent, NoAliasChains, NoAliasedImplication, Rules, Kinds
<1>4. rule[k].kind = "implication" => ~Aliased(rule[k].to)
    BY <1>1 DEF IInv, RulesConsistent, NoAliasedImplication
<1>5. QED
    BY <1>1, <1>2, <1>3, <1>4

LEMMA ReadRelationStep ==
    ASSUME IInv, RInv, NEW i \in Ids, ReadRelation(i)
    PROVE  RInv'
<1>1. UNCHANGED <<table, tags, add, found, outdated, missed>> /\ job[i] = "queued"
    BY DEF ReadRelation
<1>2. CASE status[i] = "active"
    <2>1. job' = [job EXCEPT ![i] = "planning"] /\ read' = [read EXCEPT ![i] = rule[i]]
        BY <1>2 DEF ReadRelation
    <2>2. Running' = Running \cup {i} /\ i \notin Running
        BY <2>1, <1>1 DEF Running, IInv, TypeOK
    <2>3. /\ read'[i] = rule[i] /\ job'[i] = "planning"
          /\ \A j \in Ids \ {i} : read'[j] = read[j] /\ job'[j] = job[j]
        BY <2>1 DEF IInv, TypeOK
    <2>4. OwnRuleKnown'
        BY <2>1, <1>1, <1>2 DEF RInv, OwnRuleKnown, IInv, TypeOK, table
    <2>5. ReadMatches'
        BY <1>1, <2>2, <2>3 DEF RInv, ReadMatches, Running, table
    <2>6. AddsConsequent'
        BY <1>1, <2>3 DEF RInv, AddsConsequent
    <2>7. RewritesSpare'
        <3> SUFFICES ASSUME NEW j \in Running', NEW k \in Ids, status[k] = "active",
                            k \notin outdated[j]
                     PROVE  Spares(j, rule[k])'
            BY <1>1 DEF RewritesSpare, table
        <3>1. CASE j = i
            BY <1>1, <1>2, <2>3, <3>1, ReadSpares DEF Spares, table
        <3>2. CASE j # i
            BY <1>1, <2>2, <2>3, <3>2 DEF RInv, RewritesSpare, Spares, Running, table
        <3>3. QED
            BY <3>1, <3>2
    <2>8. LookedHold'
        BY <1>1, <2>3 DEF RInv, LookedHold, Looked, Obeys, table
    <2>9. QED
        BY <2>4, <2>5, <2>6, <2>7, <2>8 DEF RInv
<1>3. CASE status[i] # "active"
    <2>1. job' = [job EXCEPT ![i] = "done"] /\ read' = read
        BY <1>3 DEF ReadRelation
    <2>2. QED
        BY <2>1, <1>1, <1>3, TableStep DEF IInv, TypeOK, Running, table
<1>4. QED
    BY <1>2, <1>3

\* What a rewrite adds is closed under the rules in force when it reads them.
LEMMA ReadImpliedStep ==
    ASSUME IInv, RInv, NEW i \in Ids, ReadImplied(i)
    PROVE  RInv'
<1> DEFINE A == {read[i].to} \cup ImpliedBy({read[i].to})
<1>1. /\ UNCHANGED <<table, tags, read, found, outdated, missed>>
      /\ job[i] = "planning" /\ job' = [job EXCEPT ![i] = "running"]
      /\ add' = [add EXCEPT ![i] = A]
    BY DEF ReadImplied
<1>2. Running' = Running /\ i \in Running
    BY <1>1 DEF Running, IInv, TypeOK
<1>3. /\ job'[i] = "running" /\ add'[i] = A
      /\ \A j \in Ids \ {i} : job'[j] = job[j] /\ add'[j] = add[j]
    BY <1>1 DEF IInv, TypeOK
<1>4. OwnRuleKnown' /\ ReadMatches'
    BY <1>1, <1>2 DEF RInv, OwnRuleKnown, ReadMatches, IInv, TypeOK, table
<1>5. AddsConsequent'
    BY <1>1 DEF RInv, AddsConsequent, IInv, TypeOK
<1>6. RewritesSpare'
    <2> SUFFICES ASSUME NEW j \in Running, NEW k \in Ids, status[k] = "active",
                        k \notin outdated[j]
                 PROVE  Spares(j, rule[k])'
        BY <1>1, <1>2 DEF RewritesSpare, table
    <2>1. Spares(j, rule[k])
        BY DEF RInv, RewritesSpare
    <2>2. CASE j # i
        BY <1>1, <1>3, <2>1, <2>2 DEF Spares, Running, table
    <2>3. CASE j = i
        <3>1. /\ rule[k].kind = "alias" => Aliased(rule[k].from) /\ read[i].to # rule[k].from
              /\ rule[k].kind = "implication" =>
                    /\ <<rule[k].from, rule[k].to>> \in Implications
                    /\ read[i].kind = "alias" => read[i].from # rule[k].to
            BY <1>1, <2>1, <2>3, InForcePairs DEF IInv, Spares
        <3>2. /\ rule[k].kind = "alias" => rule[k].from \notin A
              /\ rule[k].kind = "implication" => (rule[k].from \in A => rule[k].to \in A)
            BY <3>1, ImpliedIsClosed
        <3> HIDE DEF A
        <3>3. QED
            BY <1>1, <1>3, <2>3, <3>1, <3>2 DEF Spares, table
    <2>4. QED
        BY <2>2, <2>3
<1>7. LookedHold'
    BY <1>1, <1>3 DEF RInv, LookedHold, Looked, Obeys, table
<1>8. QED
    BY <1>4, <1>5, <1>6, <1>7 DEF RInv

\* What a rewrite of i is at when only its own look, its posts and its writes change.
LEMMA BatchKeeps ==
    ASSUME IInv, RInv, NEW i \in Ids, UNCHANGED <<table, read, add, outdated>>,
           job[i] \in {"running", "looking"}, NEW s \in {"running", "looking"},
           job' = [job EXCEPT ![i] = s]
    PROVE  OwnRuleKnown' /\ ReadMatches' /\ AddsConsequent' /\ RewritesSpare'
<1>1. Running' = Running /\ \A j \in Ids \ {i} : job'[j] = job[j]
    BY DEF Running, IInv, TypeOK
<1>2. job'[i] = s
    BY DEF IInv, TypeOK
<1>3. OwnRuleKnown' /\ ReadMatches'
    BY <1>1, <1>2 DEF RInv, OwnRuleKnown, ReadMatches, table
<1>4. AddsConsequent'
    BY <1>1, <1>2 DEF RInv, AddsConsequent
<1>5. RewritesSpare'
    <2> SUFFICES ASSUME NEW j \in Running, NEW k \in Ids, status[k] = "active",
                        k \notin outdated[j]
                 PROVE  Spares(j, rule[k])'
        BY <1>1 DEF RewritesSpare, table
    <2>1. Spares(j, rule[k])
        BY DEF RInv, RewritesSpare
    <2>2. QED
        BY <1>1, <1>2, <2>1 DEF Spares, Running, table
<1>6. QED
    BY <1>3, <1>4, <1>5

\* A post that a rewrite has no reason to write is as its rule wants it.
LEMMA NoTargetObeys ==
    ASSUME IInv, RInv, NEW i \in Ids, status[i] = "active", job[i] \in {"running", "looking"},
           NEW p \in Posts, p \notin Targets(i)
    PROVE  Obeys(tags[p], rule[i])
<1>1. /\ rule[i].kind = read[i].kind
      /\ rule[i].from = read[i].from
      /\ read[i].kind = "implication" => rule[i].to = read[i].to
      /\ read[i].to \in add[i]
      /\ rule[i].kind \in Kinds
    BY DEF RInv, ReadMatches, AddsConsequent, IInv, TypeOK, Rules, Running
<1>2. /\ rule[i].kind = "alias" => rule[i].from \notin tags[p]
      /\ rule[i].kind = "implication" =>
            (rule[i].from \in tags[p] => rule[i].to \in tags[p])
    BY <1>1 DEF Targets
<1>3. QED
    BY <1>1, <1>2 DEF Obeys, Kinds

LEMMA LookForPostsStep ==
    ASSUME IInv, RInv, NEW i \in Ids, LookForPosts(i)
    PROVE  RInv'
<1>1. /\ UNCHANGED <<table, tags, read, add, outdated>>
      /\ job[i] = "running" /\ job' = [job EXCEPT ![i] = "looking"]
    BY DEF LookForPosts
<1>2. /\ found'[i] = Targets(i)
      /\ \A k \in Ids \ {i} : /\ job'[k] = job[k] /\ found'[k] = found[k]
                               /\ missed'[k] = missed[k]
    BY DEF LookForPosts, IInv, TypeOK
<1>3. OwnRuleKnown' /\ ReadMatches' /\ AddsConsequent' /\ RewritesSpare'
    BY <1>1, BatchKeeps
<1>4. LookedHold'
    <2> SUFFICES ASSUME NEW k \in Looked', status[k] = "active",
                        NEW p \in Posts, p \notin found'[k] \cup missed'[k]
                 PROVE  Obeys(tags[p], rule[k])
        BY <1>1 DEF LookedHold, Obeys, table
    <2>1. k \in Ids
        BY DEF Looked
    <2>2. CASE k = i
        BY <1>1, <1>2, <2>2, NoTargetObeys
    <2>3. CASE k # i
        BY <1>2, <2>1, <2>3 DEF RInv, LookedHold, Looked
    <2>4. QED
        BY <2>2, <2>3
<1>5. QED
    BY <1>3, <1>4 DEF RInv

LEMMA PassOverStep ==
    ASSUME IInv, RInv, NEW i \in Ids, PassOver(i)
    PROVE  RInv'
<1>1. UNCHANGED <<table, tags, job, read, add, outdated, missed>> /\ job[i] = "looking"
    BY DEF PassOver
<1>2. PICK q \in Posts : q \notin Targets(i) /\ found' = [found EXCEPT ![i] = @ \ {q}]
    BY DEF PassOver, IInv, TypeOK
<1>3. OwnRuleKnown' /\ ReadMatches' /\ AddsConsequent' /\ RewritesSpare'
    <2>1. job' = [job EXCEPT ![i] = "looking"]
        BY <1>1 DEF IInv, TypeOK
    <2>2. QED
        BY <1>1, <2>1, BatchKeeps
<1>4. LookedHold'
    <2> SUFFICES ASSUME NEW k \in Looked, status[k] = "active",
                        NEW p \in Posts, p \notin found'[k] \cup missed[k]
                 PROVE  Obeys(tags[p], rule[k])
        BY <1>1 DEF LookedHold, Looked, Obeys, table
    <2>1. k \in Ids
        BY DEF Looked
    <2>2. CASE k = i /\ p = q
        BY <1>1, <1>2, <2>2, NoTargetObeys
    <2>3. CASE k # i \/ p # q
        <3>1. p \notin found[k]
            BY <1>2, <2>1, <2>3 DEF IInv, TypeOK
        <3>2. QED
            BY <3>1 DEF RInv, LookedHold
    <2>4. QED
        BY <2>2, <2>3
<1>5. QED
    BY <1>3, <1>4 DEF RInv

\* A batch keeps the rules it spares, and those approved since are remembered.
LEMMA RewriteBatchStep ==
    ASSUME IInv, RInv, NEW i \in Ids, RewriteBatch(i)
    PROVE  RInv'
<1>1. /\ UNCHANGED <<table, read, add, outdated>>
      /\ job[i] = "looking" /\ job' = [job EXCEPT ![i] = "running"] /\ i \in Running
    BY DEF RewriteBatch, Running
<1>2. \A k \in Ids \ {i} : job'[k] = job[k] /\ found'[k] = found[k]
    BY DEF RewriteBatch, IInv, TypeOK
<1>3. OwnRuleKnown' /\ ReadMatches' /\ AddsConsequent' /\ RewritesSpare'
    BY <1>1, BatchKeeps
<1>4. LookedHold'
    <2>1. PICK p \in Posts :
            /\ tags' = [tags EXCEPT ![p] =
                    (IF read[i].kind = "alias" THEN @ \ {read[i].from} ELSE @) \cup add[i]]
            /\ missed' = [k \in Ids |-> IF k \in Looked \cap outdated[i] THEN missed[k] \cup {p}
                                                                         ELSE missed[k]]
        BY DEF RewriteBatch, Targets
    <2> SUFFICES ASSUME NEW k \in Looked', status[k] = "active",
                        NEW q \in Posts, q \notin found'[k] \cup missed'[k]
                 PROVE  Obeys(tags'[q], rule[k])
        BY <1>1 DEF LookedHold, Obeys, table
    <2>2. k \in Ids /\ k # i /\ k \in Looked
        BY <1>1, <1>2 DEF Looked, IInv, TypeOK
    <2>3. q \notin missed[k] /\ q \notin found[k] /\ (q = p => k \notin outdated[i])
        BY <2>1, <2>2, <1>2
    <2>4. Obeys(tags[q], rule[k]) /\ rule[k].kind \in Kinds
        BY <2>2, <2>3 DEF RInv, LookedHold, IInv, TypeOK, Rules
    <2>5. CASE q # p
        BY <2>1, <2>4, <2>5 DEF IInv, TypeOK
    <2>6. CASE q = p
        <3>1. /\ rule[k].kind = "alias" => rule[k].from \notin add[i]
              /\ rule[k].kind = "implication" =>
                    /\ read[i].kind = "alias" => read[i].from # rule[k].to
                    /\ rule[k].from \in add[i] => rule[k].to \in add[i]
            BY <1>1, <2>2, <2>3, <2>6 DEF RInv, RewritesSpare, Spares
        <3>2. \/ /\ read[i].kind = "alias"
                 /\ tags'[p] = (tags[p] \ {read[i].from}) \cup add[i]
              \/ tags'[p] = tags[p] \cup add[i]
            BY <2>1 DEF IInv, TypeOK
        <3>3. QED
            BY <2>4, <2>6, <3>1, <3>2 DEF Obeys, Kinds
    <2>7. QED
        BY <2>5, <2>6
<1>5. QED
    BY <1>3, <1>4 DEF RInv

\* A run that ends leaves the others as they are.
LEMMA EndStep ==
    ASSUME IInv, RInv, NEW i \in Ids, Forget(i), UNCHANGED <<table, tags, missed>>,
           i \in Running, NEW s \in {"queued", "done"}, job' = [job EXCEPT ![i] = s]
    PROVE  OwnRuleKnown' /\ ReadMatches' /\ AddsConsequent' /\ RewritesSpare'
<1>1. Running' = Running \ {i}
    BY DEF Running, IInv, TypeOK
<1>2. \A j \in Ids \ {i} : /\ job'[j] = job[j] /\ read'[j] = read[j]
                           /\ add'[j] = add[j] /\ outdated'[j] = outdated[j]
    BY DEF Forget, IInv, TypeOK
<1>3. job'[i] = s /\ outdated'[i] = {}
    BY DEF Forget, IInv, TypeOK
<1>4. OwnRuleKnown'
    BY <1>2, <1>3 DEF RInv, OwnRuleKnown
<1>5. ReadMatches'
    BY <1>1, <1>2 DEF RInv, ReadMatches, Running, table
<1>6. AddsConsequent'
    BY <1>2, <1>3 DEF RInv, AddsConsequent
<1>7. RewritesSpare'
    BY <1>1, <1>2 DEF RInv, RewritesSpare, Spares, Running, table
<1>8. QED
    BY <1>4, <1>5, <1>6, <1>7

\* A rewrite whose batch came to nothing has applied its rule.
LEMMA FinishRewriteStep ==
    ASSUME IInv, RInv, NEW i \in Ids, FinishRewrite(i)
    PROVE  RInv'
<1>1. /\ UNCHANGED <<table, tags, missed>>
      /\ job[i] = "looking" /\ job' = [job EXCEPT ![i] = "done"]
      /\ found[i] = {} /\ Forget(i) /\ i \in Running
    BY DEF FinishRewrite, Running
<1>2. OwnRuleKnown' /\ ReadMatches' /\ AddsConsequent' /\ RewritesSpare'
    BY <1>1, EndStep
<1>3. LookedHold'
    <2>1. found' = found /\ Looked' = Looked
        BY <1>1 DEF Forget, Looked, IInv, TypeOK
    <2>2. QED
        BY <1>1, <2>1 DEF RInv, LookedHold, Obeys, table
<1>4. QED
    BY <1>2, <1>3 DEF RInv

LEMMA CutShortStep ==
    ASSUME IInv, RInv, NEW i \in Ids, CutShort(i)
    PROVE  RInv'
<1>1. /\ UNCHANGED <<table, tags, missed>>
      /\ i \in Running /\ job' = [job EXCEPT ![i] = "queued"] /\ Forget(i)
    BY DEF CutShort
<1>2. OwnRuleKnown' /\ ReadMatches' /\ AddsConsequent' /\ RewritesSpare'
    BY <1>1, EndStep
<1>3. LookedHold'
    <2>1. Looked' = Looked \ {i} /\ \A k \in Ids \ {i} : found'[k] = found[k]
        BY <1>1 DEF Forget, Looked, IInv, TypeOK
    <2>2. QED
        BY <1>1, <2>1 DEF RInv, LookedHold, Looked, Obeys, table
<1>4. QED
    BY <1>2, <1>3 DEF RInv

\* An edit writes tags that obey the rules it read, and those approved since are
\* remembered.
LEMMA EditStep ==
    ASSUME IInv, RInv, OpenEditsAreClosed, NEW p \in Posts,
           \/ \E W \in Wanted : ReadAliases(p, W)
           \/ ReadImplications(p) \/ CommitEdit(p) \/ DropEdit(p)
    PROVE  RInv'
<1>1. UNCHANGED <<table, jobs, outdated>>
    BY DEF ReadAliases, ReadImplications, CommitEdit, DropEdit
<1>2. Running' = Running
    BY <1>1 DEF Running, jobs
<1>3. OwnRuleKnown' /\ ReadMatches' /\ AddsConsequent' /\ RewritesSpare'
    BY <1>1, <1>2 DEF RInv, OwnRuleKnown, ReadMatches, AddsConsequent,
                      RewritesSpare, Spares, table, jobs
<1>4. LookedHold'
    <2>1. CASE UNCHANGED <<tags, missed>>
        BY <2>1, <1>1 DEF RInv, LookedHold, Looked, Obeys, table, jobs
    <2>2. CASE CommitEdit(p)
        <3> SUFFICES ASSUME NEW k \in Looked, status[k] = "active",
                            NEW q \in Posts, q \notin found[k] \cup missed'[k]
                     PROVE  Obeys(tags'[q], rule[k])
            BY <1>1 DEF LookedHold, Looked, Obeys, table, jobs
        <3>0. k \in Ids
            BY DEF Looked
        <3>1. CASE q # p
            <4>1. tags'[q] = tags[q] /\ q \notin missed[k]
                BY <2>2, <3>0, <3>1 DEF CommitEdit, IInv, TypeOK
            <4>2. QED
                BY <4>1 DEF RInv, LookedHold
        <3>2. CASE q = p
            <4>1. tags'[p] = editing[p] /\ editing[p] # None
                BY <2>2 DEF CommitEdit, IInv, TypeOK
            <4>2. k \notin overtaken[p]
                BY <2>2, <3>0, <3>2 DEF CommitEdit
            <4>3. QED
                BY <3>0, <3>2, <4>1, <4>2 DEF OpenEditsAreClosed
        <3>3. QED
            BY <3>1, <3>2
    <2>3. QED
        BY <2>1, <2>2 DEF ReadAliases, ReadImplications, DropEdit
<1>5. QED
    BY <1>3, <1>4 DEF RInv

LEMMA RewritesStep == IInv /\ OpenEditsAreClosed /\ RInv /\ [Next]_vars => RInv'
<1> SUFFICES ASSUME IInv, OpenEditsAreClosed, RInv, [Next]_vars
             PROVE  RInv'
    OBVIOUS
<1>1. CASE Decide
    BY <1>1, RequestStep, ApproveStep, CloseStep DEF Decide
<1>2. CASE Rewrite
    BY <1>2, ReadRelationStep, ReadImpliedStep, LookForPostsStep, PassOverStep,
       RewriteBatchStep, FinishRewriteStep, CutShortStep DEF Rewrite
<1>3. CASE Edit
    BY <1>3, EditStep DEF Edit
<1>4. CASE UNCHANGED vars
    BY <1>4 DEF vars, table, jobs, RInv, OwnRuleKnown, ReadMatches,
                AddsConsequent, RewritesSpare, Spares, Running, LookedHold, Looked, Obeys
<1>5. QED
    BY <1>1, <1>2, <1>3, <1>4 DEF Next

LEMMA RewritesHold == Spec => []RInv
<1>1. QED
    BY RewritesStep, InitRewrites, Invariance, EditsFollowTheRules, PTL DEF Spec

\* With any number of rewrites at once, a rule in force whose rewrite is over holds
\* on every post but those last written by an edit or a rewrite that had read the
\* rules before its approval, and wrote since that rewrite last looked for posts
\* (TagJobs::apply, apply_batch, tags::for_post).
THEOREM AppliedRulesKeepHolding == Spec => []AppliedRulesHold
<1>1. IInv /\ RInv => AppliedRulesHold
    BY DEF IInv, TypeOK, RInv, LookedHold, Looked, AppliedRulesHold
<1>2. QED
    BY <1>1, Invariance, RewritesHold, PTL

\* Each batch of the rewrite of a rule in force leaves strictly fewer posts to
\* rewrite, so that its loop ends (TagJobs::apply).
THEOREM RewritesRunOut == Spec => BatchesRunOut
<1>1. ASSUME IInv, RInv, NEW i \in Ids, status[i] = "active", RewriteBatch(i)
      PROVE  Targets(i)' \subseteq Targets(i) /\ Targets(i)' # Targets(i)
    <2>1. PICK p \in Targets(i) :
            tags' = [tags EXCEPT ![p] =
                (IF read[i].kind = "alias" THEN @ \ {read[i].from} ELSE @) \cup add[i]]
        BY <1>1 DEF RewriteBatch
    <2>2. UNCHANGED <<read, add>> /\ job[i] = "looking" /\ i \in Running
        BY <1>1 DEF RewriteBatch, Running
    <2>3. /\ p \in Posts /\ \A q \in Posts \ {p} : tags'[q] = tags[q]
          /\ tags'[p] = (IF read[i].kind = "alias" THEN tags[p] \ {read[i].from} ELSE tags[p])
                            \cup add[i]
        BY <1>1, <2>1 DEF Targets, IInv, TypeOK
    <2>4. \A q \in Posts \ {p} : q \in Targets(i)' <=> q \in Targets(i)
        BY <2>2, <2>3 DEF Targets
    <2>5. p \notin Targets(i)'
        <3>1. CASE read[i].kind = "alias"
            <4>1. tags'[p] = (tags[p] \ {read[i].from}) \cup add[i]
                BY <2>3, <3>1
            <4>2. rule[i].kind = "alias" /\ rule[i].from = read[i].from
                BY <1>1, <2>2, <3>1 DEF RInv, ReadMatches
            <4>3. read[i].from \notin add[i]
                BY <1>1, <2>2, <4>2 DEF RInv, RewritesSpare, OwnRuleKnown, Spares
            <4>4. QED
                BY <2>2, <4>1, <4>3 DEF Targets
        <3>2. CASE read[i].kind # "alias"
            <4>1. read[i].kind = "implication"
                BY <1>1, <2>2, <3>2 DEF IInv, TypeOK, Rules, Kinds, Running
            <4>2. tags'[p] = tags[p] \cup add[i]
                BY <2>3, <3>2
            <4>3. QED
                BY <2>2, <4>1, <4>2 DEF Targets
        <3>3. QED
            BY <3>1, <3>2
    <2>6. Targets(i)' \subseteq Posts
        BY DEF Targets
    <2>7. QED
        BY <2>1, <2>4, <2>5, <2>6
<1>2. IInv /\ RInv /\ [Next]_vars =>
        [\A i \in Ids : status[i] = "active" /\ RewriteBatch(i) =>
             Targets(i)' \subseteq Targets(i) /\ Targets(i)' # Targets(i)]_vars
    BY <1>1
<1>3. QED
    BY <1>2, Invariance, RewritesHold, PTL DEF Spec, BatchesRunOut
===============================================================================
