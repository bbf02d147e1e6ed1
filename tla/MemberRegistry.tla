--------------------------- MODULE MemberRegistry ---------------------------
(***************************************************************************)
(* The members and the invitations as everybody who reads the two tables    *)
(* may think of them: each operation happens at one moment and as a whole.  *)
(* The admin is the first member and the only one whom nobody has invited.  *)
(* Everybody else is let in by a member who is there at that moment, and    *)
(* goes when that member goes; inviter and role never change.  At most one  *)
(* code is closed for each user who is let in, and a code is a member's.    *)
(* What it does not promise is that this code is the one the user has sent: *)
(* it may be deleted, and drawn by somebody else, before it is closed.      *)
(***************************************************************************)
CONSTANTS People, Admin, Codes, None

VARIABLES
    users,  \* members: role, inviter, active
    codes   \* invitations: creator, role, use

Members == DOMAIN users

\* p uses the codes of S, none or one.
Uses(p, S) ==
    /\ \A c, d \in S : c = d
    /\ codes' = [c \in DOMAIN codes |->
                    IF c \in S THEN [codes[c] EXCEPT !.used = TRUE, !.usedBy = p] ELSE codes[c]]

Admit(p, r, i) ==
    /\ p \notin Members
    /\ users' = [q \in Members \cup {p} |->
                    IF q = p THEN [role |-> r, by |-> i, active |-> TRUE] ELSE users[q]]

Init ==
    /\ users = [p \in {} |-> None]
    /\ codes = [c \in {} |-> None]

Found == Admit(Admin, "admin", None) /\ UNCHANGED codes

Join(p, r, i, S) ==
    /\ p # Admin /\ i \in Members
    /\ r = "l1" => i = Admin
    /\ Admit(p, r, i) /\ Uses(p, S)

\* A member who was shut out is let in again, or sends a code for nothing.
Return(p, S) ==
    /\ p \in Members \ {Admin}
    /\ users' = [users EXCEPT ![p].active = TRUE] \/ UNCHANGED users
    /\ Uses(p, S)

Invite(p, r, c) ==
    /\ p \in Members /\ c \notin DOMAIN codes
    /\ r = "l1" => p = Admin
    /\ codes' = [d \in DOMAIN codes \cup {c} |->
                    IF d = c THEN [by |-> p, role |-> r, used |-> FALSE, usedBy |-> None]
                    ELSE codes[d]]
    /\ UNCHANGED users

ShutOut(p) ==
    /\ p \in Members \ {Admin}
    /\ users' = [users EXCEPT ![p].active = FALSE]
    /\ UNCHANGED codes

\* Whoever a member of D has invited is in D.
Remove(D) ==
    /\ Admin \notin D
    /\ \A p \in Members : users[p].by \in D => p \in D
    /\ users' = [p \in Members \ D |-> users[p]]
    /\ codes' = [c \in {d \in DOMAIN codes : codes[d].by \notin D} |->
                    IF codes[c].usedBy \in D THEN [codes[c] EXCEPT !.usedBy = None] ELSE codes[c]]

Next ==
    \/ Found
    \/ \E p \in People :
           \/ \E S \in SUBSET DOMAIN codes :
                  Return(p, S) \/ \E r \in {"l1", "l2"}, i \in Members : Join(p, r, i, S)
           \/ \E r \in {"l1", "l2"}, c \in Codes : Invite(p, r, c)
           \/ ShutOut(p)
    \/ \E D \in SUBSET Members : Remove(D)

Spec == Init /\ [][Next]_<<users, codes>>
=============================================================================
