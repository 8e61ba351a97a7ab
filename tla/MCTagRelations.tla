---------------------------- MODULE MCTagRelations ----------------------------
(* TagRelations for TLC: tags and rows are interchangeable, and what a row   *)
(* holds that nothing reads again tells no states apart.                     *)
EXTENDS TagRelations, TLC

Interchangeable == Permutations(Tags) \cup Permutations(Ids)
Singles         == {{t} : t \in Tags}

Ends(i) == {rule[i].from, rule[i].to}
Named   == UNION ({tags[p] : p \in Posts} \cup {Ends(i) : i \in InUse}
                    \cup (({resolved[p] : p \in Posts} \cup {editing[p] : p \in Posts}) \ {None}))

\* Posts are given tags one after the other, all the same which.
InPlay  == {p \in Posts : tags[p] # {} \/ Edited(p)}
InOrder == InPlay # {} => (CHOOSE p \in Posts : TRUE) \in InPlay

\* One post: three relations, or two beside an edit or a death and one rewrite at a time;
\* a rule removed under its rewrite is one of two, or alone beside an edit or a death.
\* Two posts: one relation and two tags, beside two edits or deaths.
FewAtOnce ==
    /\ (\E i \in InUse : ~Open(i)) => Cardinality(InUse) + events <= 2
    /\ events > 0 => Cardinality(Running) <= 1
    /\ Cardinality(InPlay) > 1 => /\ Cardinality(InUse) <= 1
                                  /\ Cardinality(Named) <= 2
                                  /\ events > 0 => InUse # {} /\ \A i \in InUse : Open(i)
    /\ InOrder

Row(i)  == IF Unused(i) THEN None ELSE <<status[i], rule[i], job[i], read[i], add[i], found[i]>>
Active  == {i \in Ids : status[i] = "active"}
Seen    == <<[i \in Ids |-> Row(i)], tags, resolved, editing, events,
             [p \in Posts |-> overtaken[p] \cap Active],
             [i \in Ids |-> outdated[i] \cap Active],
             [i \in Active \cap Looked |-> missed[i]]>>
===============================================================================
