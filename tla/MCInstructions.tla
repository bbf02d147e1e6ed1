--------------------------- MODULE MCInstructions ---------------------------
(***************************************************************************)
(* A small instance of Instructions: two instructions, two updates of the   *)
(* admin and an album.                                                      *)
(***************************************************************************)
EXTENDS Instructions, TLC

CONSTANTS
    MaxOpen,    \* bound: transactions open at the same time, before all ids are used
    MaxWaiting  \* bound: updates that wait for the admin's row

FewTasks ==
    /\ Cardinality({t \in Tasks : op[t] # "none"}) <= IF used = Ids THEN 1 ELSE MaxOpen
    /\ Cardinality({t \in Updates : pc[t] = "enter"}) <= MaxWaiting

\* Bound: once all ids are used there is room for a new submission of photos.
FewPhotos == used = Ids => \E f \in Files : Unknown(f)

MCSymmetry == Permutations(Updates) \cup Permutations(Ids) \cup Permutations(Files)
=============================================================================
