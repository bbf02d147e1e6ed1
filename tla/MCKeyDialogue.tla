---------------------------- MODULE MCKeyDialogue ----------------------------
(***************************************************************************)
(* A small instance of KeyDialogue: an admin, a user who writes in a        *)
(* private chat and in a group, a limit of two and a key that is older than *)
(* the dialogue.                                                            *)
(***************************************************************************)
EXTENDS KeyDialogue, TLC

CONSTANTS admin, ann, private, group, k0

MCChats == [u \in Users |-> IF u = ann THEN {private, group} ELSE {private}]
MCMigrated == {[id |-> k0, owner |-> ann, whitelist |-> FALSE]}

\* Ids and updates are interchangeable: used with safety properties only.
IdSymmetry == Permutations(Keys \ {k0}) \cup Permutations(Updates)
=============================================================================
