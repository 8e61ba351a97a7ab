--------------------------- MODULE AtLeastOnceProofs ---------------------------
(***************************************************************************)
(* Theorems about AtLeastOnce, for any jobs and any number of attempts, to *)
(* be had wherever a specification implements it.                          *)
(***************************************************************************)
EXTENDS AtLeastOnce, TLAPS

Types ==
    /\ state \in [Jobs -> {"absent", "pending", "dead"}]
    /\ begun \in [Jobs -> Nat]
    /\ results \in [Jobs -> SUBSET {"ok", "retry", "permanent"}]

IInv == Types /\ DeadForAReason

LEMMA Inductive == ASSUME Allowed \in [Jobs -> Nat]
                   PROVE  IInv /\ [Next]_vars => IInv'
<1> SUFFICES ASSUME IInv, [Next]_vars
             PROVE  IInv'
  OBVIOUS
<1> USE DEF IInv, Types, DeadForAReason, BecomePending, Leave
<1>1. ASSUME NEW j \in Jobs, Submit(j) \/ Revive(j)
      PROVE  IInv'
  BY <1>1 DEF Submit, Revive
<1>2. ASSUME NEW j \in Jobs, Begin(j)
      PROVE  IInv'
  BY <1>2 DEF Begin
<1>3. ASSUME NEW j \in Jobs, NEW result \in {"ok", "retry", "permanent"}, Return(j, result)
      PROVE  IInv'
  BY <1>3 DEF Return
<1>4. ASSUME NEW j \in Jobs, Finish(j) \/ Discard(j)
      PROVE  IInv'
  BY <1>4 DEF Finish, Discard
<1>5. ASSUME NEW S \in SUBSET Jobs, GiveUp(S)
      PROVE  IInv'
  BY <1>5 DEF GiveUp
<1>6. CASE UNCHANGED vars
  BY <1>6 DEF vars
<1> HIDE DEF IInv, Types, DeadForAReason, BecomePending, Leave
<1> QED
  BY <1>1, <1>2, <1>3, <1>4, <1>5, <1>6 DEF Next

\* No job dies with attempts left unless it failed for good.
THEOREM NoneDiesEarly == ASSUME Allowed \in [Jobs -> Nat]
                         PROVE  Spec => []DeadForAReason
<1>1. Init => IInv
  BY DEF Init, IInv, Types, DeadForAReason
<1>2. IInv /\ [Next]_vars => IInv'
  BY Inductive
<1>3. IInv => DeadForAReason
  BY DEF IInv
<1> QED
  BY <1>1, <1>2, <1>3, PTL DEF Spec

\* What LeavesForAReason says of one step.
Reason ==
    \A j \in Jobs : state[j] # "absent" /\ state'[j] = "absent" =>
        state[j] = "dead" \/ "ok" \in results[j]

\* No job leaves before one of its runs succeeded.
THEOREM NoneIsLost == ASSUME Allowed \in [Jobs -> Nat]
                      PROVE  Spec => LeavesForAReason
<1>1. Init => IInv
  BY DEF Init, IInv, Types, DeadForAReason
<1>2. IInv /\ [Next]_vars => IInv'
  BY Inductive
<1>3. IInv /\ [Next]_vars => [Reason]_vars
  BY DEF IInv, Types, Next, Submit, Revive, BecomePending, Begin, Return, Finish, Discard,
      Leave, GiveUp, Reason, vars
<1> QED
  BY <1>1, <1>2, <1>3, PTL DEF Spec, LeavesForAReason, Reason
===============================================================================
