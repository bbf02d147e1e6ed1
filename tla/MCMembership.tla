---------------------------- MODULE MCMembership ----------------------------
(***************************************************************************)
(* A small instance of Membership: two users besides the admin, two codes   *)
(* and two updates at a time.                                               *)
(***************************************************************************)
EXTENDS UserTree, TLC

CONSTANTS admin, ann, bob

MCNameWidth == [p \in People |-> 2]

\* People but the admin are interchangeable, and so are codes and handlers.
MCSymmetry ==
    Permutations(People \ {Admin}) \cup Permutations(Codes) \cup Permutations(Handlers)
=============================================================================
