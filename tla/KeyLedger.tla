------------------------------ MODULE KeyLedger ------------------------------
(***************************************************************************)
(* The rows of keys and users as everybody who reads them may think of      *)
(* them: each operation happens at one moment and as a whole, whatever ran  *)
(* beside it.  Keys are issued to users who are there, one at a time, and   *)
(* once; a key that was revoked stays so.  Only its user, the user's        *)
(* inviter or an admin takes a key away.  Deletion takes a user, everybody  *)
(* invited below the user and every key that any of them has at that        *)
(* moment.  What it does not promise is that a user whose access is         *)
(* revoked loses every key: RevokeFriend takes those that were read before. *)
(***************************************************************************)
CONSTANTS Users, Admins, Inviter, Tree, Keys, Owner, LegacyKeys

VARIABLES row, user

KeysOf(U) == {k \in Keys : Owner[k] \in U}

\* The rows after the keys of S were revoked.
Without(S) == [k \in Keys |-> IF k \in S /\ row[k] = "active" THEN "revoked" ELSE row[k]]

Init ==
    /\ row = [k \in Keys |-> IF k \in LegacyKeys THEN "active" ELSE "none"]
    /\ user = [u \in Users |-> "active"]

Issue(k) ==
    /\ row[k] = "none" /\ user[Owner[k]] # "deleted"
    /\ row' = [row EXCEPT ![k] = "active"]
    /\ UNCHANGED user

\* Keys of u, by u or by an admin.
Revoke(c, u, S) ==
    /\ c \in Admins \cup {u}
    /\ row' = Without(S)
    /\ UNCHANGED user

\* Keys of u and the access of u, by the inviter of u.
RevokeFriend(c, u, S) ==
    /\ Inviter[u] = c
    /\ row' = Without(S)
    /\ user' = [user EXCEPT ![u] = IF @ = "active" THEN "inactive" ELSE @]

Readmit(u) ==
    /\ user[u] = "inactive"
    /\ user' = [user EXCEPT ![u] = "active"]
    /\ UNCHANGED row

Delete(c, u) ==
    /\ c \in Admins /\ u \notin Admins
    /\ row' = Without(KeysOf(Tree[u]))
    /\ user' = [v \in Users |-> IF v \in Tree[u] THEN "deleted" ELSE user[v]]

Next ==
    \/ \E k \in Keys : Issue(k)
    \/ \E u \in Users : Readmit(u)
    \/ \E c, u \in Users :
           \/ \E S \in SUBSET KeysOf({u}) : Revoke(c, u, S) \/ RevokeFriend(c, u, S)
           \/ Delete(c, u)

Spec == Init /\ [][Next]_<<row, user>>
=============================================================================
