----------------------------- MODULE MCKeySync -----------------------------
(***************************************************************************)
(* Small instances of KeySync: an admin, a friend the admin invited, and a  *)
(* friend of that friend.                                                   *)
(***************************************************************************)
EXTENDS KeySync, TLC

CONSTANTS admin, ann, bob, k1, k2, k3

MCInviter == [u \in Users |->
    CASE u = bob -> ann [] u = ann /\ admin \in Users -> admin [] OTHER -> None]
MCTree == [u \in Users |-> IF u = bob THEN {bob} ELSE IF u = ann THEN Users \ {admin} ELSE Users]
\* k3 belongs to bob in the instances that have him, every other key to ann.
MCOwner == [k \in Keys |-> IF k = k3 /\ bob \in Users THEN bob ELSE ann]

Running(S) == Cardinality({t \in S : pc[t] # "idle"})

\* Bound: at most two tasks run at the same time; once something has failed, one or
\* two syncs; one while a call is late or a webhook is about to repeat its POST.
FewTasks ==
    /\ Running(Tasks) <= 2
    /\ faults < MaxFaults => Running(Handlers) = 0 \/ Running(Tasks) = 1
    /\ late # {} \/ (\E t \in HookSyncs : pc[t] # "idle" /\ t[1] \in hooks) => Running(Tasks) <= 1

\* Handlers are interchangeable, and so are the requests of a webhook: used with
\* invariants and the steps of the ledger, which names no task.
TaskSymmetry == Permutations(Handlers) \cup Permutations(Attempts)
=============================================================================
