----------------------------- MODULE Membership -----------------------------
(***************************************************************************)
(* Who is a member: the tables users and invitations, the handlers that     *)
(* change them (/start, /invite, the revocation of a friend, the deletion   *)
(* of a user and of everybody below), each in one transaction, and          *)
(* PostgreSQL's foreign keys and row locks, which decide what concurrent    *)
(* transactions do to each other:                                           *)
(*   - an UPDATE of a row waits for a transaction that changed or deleted   *)
(*     it; so does the INSERT of a primary key another one has inserted;    *)
(*   - an INSERT or UPDATE that refers to a user locks that user's row      *)
(*     against deletion only (KEY SHARE), and fails when there is no user;  *)
(*   - a DELETE of users waits for all of these, and fails when a row that  *)
(*     it does not delete refers to one of them.                            *)
(* Keys are the business of KeySync and left out.                           *)
(***************************************************************************)
EXTENDS Naturals, FiniteSets

CONSTANTS
    People,    \* Telegram users
    Admin,     \* settings.ADMIN_TELEGRAM_ID
    Codes,     \* the codes generate_code can draw
    Handlers,  \* updates that aiogram handles at the same time
    None

ASSUME PeopleAssumption == Admin \in People /\ None \notin People \cup Codes
ASSUME HandlersAssumption == IsFiniteSet(Handlers)

VARIABLES
    users,     \* committed rows of users: telegram_id -> role, inviter, active
    codes,     \* committed rows of invitations: code -> creator, role, use
    letIn,     \* history: how many users a code has let in since it was drawn
    pc, op,    \* where a handler is, and which one it is
    caller,    \* from_user of its update
    seen,      \* the caller's row as the middleware read it
    rows,      \* the users whose rows its transaction has changed
    code, inv, \* the code it works on; the row it read, or is to insert
    ids,       \* the users it revokes or deletes
    held       \* the codes whose rows its transaction has changed

tables == <<users, codes, letIn>>
session == <<caller, seen, rows>>
work == <<op, code, inv, ids>>
vars == <<users, codes, letIn, pc, op, caller, seen, rows, code, inv, ids, held>>

Roles == {"admin", "l1", "l2"}
Members == DOMAIN users
UserRows == [role : Roles, by : People \cup {None}, active : BOOLEAN]
CodeRows == [by : People \cup {None}, role : Roles, used : BOOLEAN,
             usedBy : People \cup {None}]

TypeOK ==
    /\ Members \subseteq People /\ users \in [Members -> UserRows]
    /\ DOMAIN codes \subseteq Codes /\ codes \in [DOMAIN codes -> CodeRows]
    /\ letIn \in [Codes -> Nat]
    /\ pc \in [Handlers -> {"idle", "profile", "handler", "insert", "reactivate", "mark",
                            "draw", "revoke", "codes", "detach", "nullify", "users", "commit"}]
    /\ op \in [Handlers -> {"none", "join", "return", "invite", "revoke", "delete"}]
    /\ caller \in [Handlers -> People \cup {None}]
    /\ seen \in [Handlers -> UserRows \cup {None}]
    /\ rows \in [Handlers -> SUBSET People]
    /\ code \in [Handlers -> Codes \cup {None}]
    /\ inv \in [Handlers -> CodeRows \cup {None}]
    /\ ids \in [Handlers -> SUBSET People]
    /\ held \in [Handlers -> SUBSET Codes]

\* An empty database; the first /start of the admin makes the first user.
Init ==
    /\ users = [p \in {} |-> None]
    /\ codes = [c \in {} |-> None]
    /\ letIn = [c \in Codes |-> 0]
    /\ pc = [t \in Handlers |-> "idle"]
    /\ op = [t \in Handlers |-> "none"]
    /\ caller = [t \in Handlers |-> None]
    /\ seen = [t \in Handlers |-> None]
    /\ rows = [t \in Handlers |-> {}]
    /\ code = [t \in Handlers |-> None]
    /\ inv = [t \in Handlers |-> None]
    /\ ids = [t \in Handlers |-> {}]
    /\ held = [t \in Handlers |-> {}]

-----------------------------------------------------------------------------
(***************************************************************************)
(* Locks.                                                                   *)
(***************************************************************************)
\* s has inserted the row of its caller, or is to commit its deletion of ids.
Inserted(s) == op[s] = "join" /\ pc[s] \in {"mark", "commit"}
Deleted(s, u) == op[s] = "delete" /\ pc[s] = "commit" /\ u \in ids[s]

\* s has inserted or updated a row that refers to u.
Refers(s, u) ==
    \/ Inserted(s) /\ inv[s].by = u
    \/ op[s] = "invite" /\ pc[s] = "commit" /\ caller[s] = u
    \/ op[s] = "return" /\ held[s] # {} /\ caller[s] = u

\* The rows of invitations that the next statement of t matches.
MatchedCodes(t) ==
    {c \in DOMAIN codes :
        \/ pc[t] = "mark" /\ c = code[t]
        \/ pc[t] = "codes" /\ codes[c].by \in ids[t]
        \/ pc[t] = "detach" /\ codes[c].usedBy \in ids[t]
        \/ pc[t] = "draw" /\ c = code[t]}

\* The transactions the next statement of t waits for.
WaitsFor(t) ==
    {s \in Handlers \ {t} :
        \/ pc[t] \in {"profile", "reactivate"} /\ caller[t] \in rows[s]
        \/ pc[t] = "insert" /\ Inserted(s) /\ caller[s] = caller[t]
        \/ pc[t] = "insert" /\ Deleted(s, caller[t])
        \/ pc[t] = "insert" /\ Deleted(s, inv[t].by)
        \/ pc[t] = "draw" /\ Deleted(s, caller[t])
        \/ op[t] = "return" /\ MatchedCodes(t) # {} /\ Deleted(s, caller[t])
        \/ pc[t] = "draw" /\ op[s] = "invite" /\ pc[s] = "commit" /\ code[s] = code[t]
        \/ pc[t] \in {"revoke", "nullify", "users"} /\ ids[t] \cap rows[s] # {}
        \/ pc[t] = "users" /\ \E u \in ids[t] : Refers(s, u)
        \/ held[s] \cap MatchedCodes(t) # {}}

Goto(t, p) == pc' = [pc EXCEPT ![t] = p]

\* The handler returns or raises, and its session is closed.
Finish(t) ==
    /\ pc' = [pc EXCEPT ![t] = "idle"]
    /\ op' = [op EXCEPT ![t] = "none"]
    /\ caller' = [caller EXCEPT ![t] = None]
    /\ seen' = [seen EXCEPT ![t] = None]
    /\ rows' = [rows EXCEPT ![t] = {}]
    /\ code' = [code EXCEPT ![t] = None]
    /\ inv' = [inv EXCEPT ![t] = None]
    /\ ids' = [ids EXCEPT ![t] = {}]
    /\ held' = [held EXCEPT ![t] = {}]

\* The next statement of t violates a constraint: the handler raises.
Refused(t) == Finish(t) /\ UNCHANGED tables

-----------------------------------------------------------------------------
(***************************************************************************)
(* The middleware.                                                          *)
(***************************************************************************)
Arrive(t, p) ==
    /\ pc[t] = "idle"
    /\ caller' = [caller EXCEPT ![t] = p]
    /\ seen' = [seen EXCEPT ![t] = IF p \in Members THEN users[p] ELSE None]
    /\ Goto(t, IF p \in Members THEN "profile" ELSE "handler")
    /\ UNCHANGED <<tables, work, rows, held>>

\* update_user_profile; the row may be gone after the wait.
Profile(t) ==
    /\ pc[t] = "profile" /\ WaitsFor(t) = {}
    /\ rows' = [rows EXCEPT ![t] = @ \cup (Members \cap {caller[t]})]
    /\ Goto(t, "handler")
    /\ UNCHANGED <<tables, work, caller, seen, held>>

\* get_user in a handler: the object the middleware loaded, if it found one,
\* and a query otherwise.
Existing(t) ==
    IF seen[t] # None \/ caller[t] \notin Members THEN seen[t] ELSE users[caller[t]]

\* The middleware lets the updates of an inactive user through to /start only.
Allowed(t) == pc[t] = "handler" /\ (seen[t] # None => seen[t].active)
HasRole(t, roles) == Existing(t) # None /\ Existing(t).role \in roles

\* A handler that only answers: a menu, a list, a refusal, a /start of a member
\* or with a code that is missing, unknown or used.
Answered(t) ==
    /\ pc[t] = "handler"
    /\ Finish(t)
    /\ UNCHANGED tables

-----------------------------------------------------------------------------
(***************************************************************************)
(* /start.                                                                  *)
(***************************************************************************)
Inactive(t) == ~(Existing(t) # None /\ Existing(t).active)

StartAdmin(t) ==
    /\ pc[t] = "handler" /\ Inactive(t) /\ caller[t] = Admin
    /\ op' = [op EXCEPT ![t] = "join"]
    /\ inv' = [inv EXCEPT ![t] = [by |-> None, role |-> "admin", used |-> FALSE, usedBy |-> None]]
    /\ Goto(t, "insert")
    /\ UNCHANGED <<tables, session, code, ids, held>>

\* Mutant: the handler does not ask whether the code was used.
StartWithAnyCode(t, c) ==
    /\ pc[t] = "handler" /\ Inactive(t) /\ caller[t] # Admin
    /\ c \in DOMAIN codes
    /\ op' = [op EXCEPT ![t] = IF Existing(t) = None THEN "join" ELSE "return"]
    /\ code' = [code EXCEPT ![t] = c]
    /\ inv' = [inv EXCEPT ![t] = codes[c]]
    /\ Goto(t, IF Existing(t) = None THEN "insert" ELSE "reactivate")
    /\ UNCHANGED <<tables, session, ids, held>>

\* get_invitation reads the row and locks nothing.
StartWithCode(t, c) ==
    /\ pc[t] = "handler" /\ Inactive(t) /\ caller[t] # Admin
    /\ c \in DOMAIN codes /\ ~codes[c].used
    /\ op' = [op EXCEPT ![t] = IF Existing(t) = None THEN "join" ELSE "return"]
    /\ code' = [code EXCEPT ![t] = c]
    /\ inv' = [inv EXCEPT ![t] = codes[c]]
    /\ Goto(t, IF Existing(t) = None THEN "insert" ELSE "reactivate")
    /\ UNCHANGED <<tables, session, ids, held>>

\* Mutant: invited_by is no foreign key.
CreateUserUnchecked(t) ==
    /\ pc[t] = "insert" /\ WaitsFor(t) = {}
    /\ IF caller[t] \notin Members
       THEN /\ Goto(t, IF code[t] = None THEN "commit" ELSE "mark")
            /\ UNCHANGED <<tables, session, work, held>>
       ELSE Refused(t)

\* create_user: the primary key, and the foreign key to the inviter.
CreateUser(t) ==
    /\ pc[t] = "insert" /\ WaitsFor(t) = {}
    /\ IF caller[t] \notin Members /\ inv[t].by \in Members \cup {None}
       THEN /\ Goto(t, IF code[t] = None THEN "commit" ELSE "mark")
            /\ UNCHANGED <<tables, session, work, held>>
       ELSE Refused(t)

\* reactivate_user and update_user_profile: no row when the caller was deleted.
Reactivate(t) ==
    /\ pc[t] = "reactivate" /\ WaitsFor(t) = {}
    /\ rows' = [rows EXCEPT ![t] = @ \cup (Members \cap {caller[t]})]
    /\ Goto(t, "mark")
    /\ UNCHANGED <<tables, work, caller, seen, held>>

\* mark_invitation_used, whoever used the code in the meantime; used_by is a
\* foreign key, and no row is updated when the code was deleted.
MarkUsed(t) ==
    /\ pc[t] = "mark" /\ WaitsFor(t) = {}
    /\ IF MatchedCodes(t) = {} \/ op[t] = "join" \/ caller[t] \in Members
       THEN /\ held' = [held EXCEPT ![t] = MatchedCodes(t)]
            /\ Goto(t, "commit")
            /\ UNCHANGED <<tables, session, work>>
       ELSE Refused(t)

-----------------------------------------------------------------------------
(***************************************************************************)
(* Invitations.                                                             *)
(***************************************************************************)
\* An invitation of an admin or an l1 user, with a code that nobody has checked.
\* As a mutant: invite_role_callback does not ask who invites to l1.
GenerateAndSend(t, c, r) ==
    /\ Allowed(t) /\ HasRole(t, {"admin", "l1"})
    /\ op' = [op EXCEPT ![t] = "invite"]
    /\ code' = [code EXCEPT ![t] = c]
    /\ inv' = [inv EXCEPT ![t] = [by |-> caller[t], role |-> r, used |-> FALSE, usedBy |-> None]]
    /\ Goto(t, "draw")
    /\ UNCHANGED <<tables, session, ids, held>>

InviteRoleCallback(t, c, r) ==
    /\ r = "l1" => HasRole(t, {"admin"})
    /\ GenerateAndSend(t, c, r)

\* cmd_invite and menu_friends_invite ask the admin for the role first.
CmdInvite(t, c) ==
    /\ HasRole(t, {"l1"})
    /\ GenerateAndSend(t, c, "l2")

\* create_invitation: the primary key, and the foreign key to the creator.
CreateInvitation(t) ==
    /\ pc[t] = "draw" /\ WaitsFor(t) = {}
    /\ IF code[t] \notin DOMAIN codes /\ caller[t] \in Members
       THEN Goto(t, "commit") /\ UNCHANGED <<tables, session, work, held>>
       ELSE Refused(t)

-----------------------------------------------------------------------------
(***************************************************************************)
(* Revocation of a friend, deletion of a user with all below.               *)
(***************************************************************************)
FriendsRevokeConfirm(t, u) ==
    /\ Allowed(t) /\ HasRole(t, {"admin", "l1"})
    /\ u \in Members /\ users[u].by = caller[t] /\ users[u].active
    /\ op' = [op EXCEPT ![t] = "revoke"]
    /\ ids' = [ids EXCEPT ![t] = {u}]
    /\ Goto(t, "revoke")
    /\ UNCHANGED <<tables, session, code, inv, held>>

DeactivateUser(t) ==
    /\ pc[t] = "revoke" /\ WaitsFor(t) = {}
    /\ ids' = [ids EXCEPT ![t] = {u \in @ \cap Members : users[u].active}]
    /\ rows' = [rows EXCEPT ![t] = @ \cup ids'[t]]
    /\ Goto(t, "commit")
    /\ UNCHANGED <<tables, caller, seen, op, code, inv, held>>

\* The recursive query: the least set with u in it and everybody its members
\* have invited.
Tree(u) ==
    LET Closed(S) == \A p \in Members : users[p].by \in S => p \in S
    IN {v \in Members : \A S \in SUBSET Members : u \in S /\ Closed(S) => v \in S}

\* user_list_keyboard has no button for an admin; delete_confirm does not ask.
Deletable == {u \in Members : users[u].role # "admin"}

DeleteConfirm(t, u) ==
    /\ Allowed(t) /\ HasRole(t, {"admin"})
    /\ u \in Deletable
    /\ op' = [op EXCEPT ![t] = "delete"]
    /\ ids' = [ids EXCEPT ![t] = Tree(u)]
    /\ Goto(t, "codes")
    /\ UNCHANGED <<tables, session, code, inv, held>>

\* DELETE of the codes that the tree has created.
DeleteCodes(t) ==
    /\ pc[t] = "codes" /\ WaitsFor(t) = {}
    /\ held' = [held EXCEPT ![t] = MatchedCodes(t)]
    /\ Goto(t, "detach")
    /\ UNCHANGED <<tables, session, work>>

\* UPDATE of the codes that the tree has used.
DetachCodes(t) ==
    /\ pc[t] = "detach" /\ WaitsFor(t) = {}
    /\ held' = [held EXCEPT ![t] = @ \cup MatchedCodes(t)]
    /\ Goto(t, "nullify")
    /\ UNCHANGED <<tables, session, work>>

\* UPDATE that empties invited_by of the users of the tree.
NullifyInviters(t) ==
    /\ pc[t] = "nullify" /\ WaitsFor(t) = {}
    /\ rows' = [rows EXCEPT ![t] = @ \cup (ids[t] \cap Members)]
    /\ Goto(t, "users")
    /\ UNCHANGED <<tables, caller, seen, work, held>>

\* A row that t neither deletes nor has changed refers to a user of the tree.
StillReferred(t) ==
    \/ \E p \in Members \ ids[t] : users[p].by \in ids[t]
    \/ \E c \in DOMAIN codes \ held[t] : codes[c].by \in ids[t] \/ codes[c].usedBy \in ids[t]

\* Mutant: the foreign keys are dropped.
DeleteUsersUnchecked(t) ==
    /\ pc[t] = "users"
    /\ ids' = [ids EXCEPT ![t] = @ \cap Members]
    /\ rows' = [rows EXCEPT ![t] = @ \cup ids'[t]]
    /\ Goto(t, "commit")
    /\ UNCHANGED <<tables, caller, seen, op, code, inv, held>>

\* DELETE of the users; the rows that refer to them are looked for at its end.
DeleteUsers(t) ==
    /\ pc[t] = "users" /\ WaitsFor(t) = {}
    /\ IF StillReferred(t)
       THEN Refused(t)
       ELSE /\ ids' = [ids EXCEPT ![t] = @ \cap Members]
            /\ rows' = [rows EXCEPT ![t] = @ \cup ids'[t]]
            /\ Goto(t, "commit")
            /\ UNCHANGED <<tables, caller, seen, op, code, inv, held>>

-----------------------------------------------------------------------------
(***************************************************************************)
(* The end of a transaction.                                                *)
(***************************************************************************)
\* Mutant: the code is stored as the inviter.
NewUserOfCode(t) == [role |-> inv[t].role, by |-> code[t], active |-> TRUE]

NewUser(t) == [role |-> inv[t].role, by |-> inv[t].by, active |-> TRUE]

CommitJoin(t) ==
    /\ users' = [p \in Members \cup {caller[t]} |-> IF p = caller[t] THEN NewUser(t) ELSE users[p]]
    /\ codes' = [c \in DOMAIN codes |->
                    IF c \in held[t] THEN [codes[c] EXCEPT !.used = TRUE, !.usedBy = caller[t]]
                    ELSE codes[c]]
    /\ letIn' = [c \in Codes |-> IF c \in held[t] THEN letIn[c] + 1 ELSE letIn[c]]

\* Mutant: a user who comes back gets the inviter and the role of the new code.
CommitReturnAsNew(t) ==
    /\ users' = [p \in Members |->
                    IF p = caller[t] /\ p \in rows[t] THEN NewUser(t) ELSE users[p]]
    /\ codes' = [c \in DOMAIN codes |->
                    IF c \in held[t] THEN [codes[c] EXCEPT !.used = TRUE, !.usedBy = caller[t]]
                    ELSE codes[c]]
    /\ letIn' = [c \in Codes |-> IF c \in held[t] THEN letIn[c] + 1 ELSE letIn[c]]

CommitReturn(t) ==
    /\ users' = [p \in Members |->
                    IF p = caller[t] /\ p \in rows[t] THEN [users[p] EXCEPT !.active = TRUE] ELSE users[p]]
    /\ codes' = [c \in DOMAIN codes |->
                    IF c \in held[t] THEN [codes[c] EXCEPT !.used = TRUE, !.usedBy = caller[t]]
                    ELSE codes[c]]
    /\ letIn' = [c \in Codes |-> IF c \in held[t] THEN letIn[c] + 1 ELSE letIn[c]]

CommitInvite(t) ==
    /\ codes' = [c \in DOMAIN codes \cup {code[t]} |-> IF c = code[t] THEN inv[t] ELSE codes[c]]
    /\ letIn' = [letIn EXCEPT ![code[t]] = 0]
    /\ UNCHANGED users

CommitRevoke(t) ==
    /\ users' = [p \in Members |->
                    IF p \in ids[t] THEN [users[p] EXCEPT !.active = FALSE] ELSE users[p]]
    /\ UNCHANGED <<codes, letIn>>

CommitDelete(t) ==
    LET kept == {c \in DOMAIN codes : c \in held[t] => codes[c].by \notin ids[t]}
    IN /\ users' = [p \in Members \ ids[t] |-> users[p]]
       /\ codes' = [c \in kept |->
                       IF c \in held[t] THEN [codes[c] EXCEPT !.usedBy = None] ELSE codes[c]]
       /\ letIn' = [c \in Codes |-> IF c \in kept THEN letIn[c] ELSE 0]

Commit(t) ==
    /\ pc[t] = "commit"
    /\ \/ op[t] = "join" /\ CommitJoin(t)
       \/ op[t] = "return" /\ CommitReturn(t)
       \/ op[t] = "invite" /\ CommitInvite(t)
       \/ op[t] = "revoke" /\ CommitRevoke(t)
       \/ op[t] = "delete" /\ CommitDelete(t)
    /\ Finish(t)

\* A call to Telegram or a statement fails, PostgreSQL aborts the transaction
\* of a deadlock, or the bot goes down: the transaction is rolled back.
HandlerRaises(t) ==
    /\ pc[t] # "idle"
    /\ Finish(t)
    /\ UNCHANGED tables

-----------------------------------------------------------------------------
Start(t) ==
    \/ StartAdmin(t) \/ CreateUser(t) \/ Reactivate(t) \/ MarkUsed(t)
    \/ \E c \in Codes : StartWithCode(t, c)

Invitation(t) ==
    \/ CreateInvitation(t)
    \/ \E c \in Codes : CmdInvite(t, c) \/ \E r \in {"l1", "l2"} : InviteRoleCallback(t, c, r)

Removal(t) ==
    \/ \E u \in People : FriendsRevokeConfirm(t, u) \/ DeleteConfirm(t, u)
    \/ DeactivateUser(t)
    \/ DeleteCodes(t) \/ DetachCodes(t) \/ NullifyInviters(t) \/ DeleteUsers(t)

Next ==
    \E t \in Handlers :
        \/ \E p \in People : Arrive(t, p)
        \/ Profile(t) \/ Answered(t)
        \/ Start(t) \/ Invitation(t) \/ Removal(t)
        \/ Commit(t) \/ HandlerRaises(t)

Spec == Init /\ [][Next]_vars

-----------------------------------------------------------------------------
(***************************************************************************)
(* Properties.                                                              *)
(***************************************************************************)
\* Nobody's inviter is missing, and the users form a forest: otherwise the walk
\* of _build_tree_text, which goes down from those without an inviter, would not
\* meet everybody, and the UNION ALL query of delete_user_tree might not end.
\* Users who register with a code of somebody who is being deleted, or who were
\* deleted and come back, are what could break it.
InviterForest ==
    /\ \A p \in Members : users[p].by \in Members \cup {None}
    /\ \A S \in (SUBSET Members) \ {{}} : \E p \in S : users[p].by \notin S

\* Only the admin has let in l1 users: neither a code nor a row outlives what
\* its creator was allowed to do.
L1ByAdmin ==
    /\ \A p \in Members : users[p].role = "l1" => users[p].by = Admin
    /\ \A c \in DOMAIN codes : codes[c].role = "l1" => codes[c].by = Admin

\* A code may let in two users who open it at the same time, but a used code is
\* closed: never more than the updates that are handled at the same time.
CodeClosesAfterUse == \A c \in DOMAIN codes : letIn[c] <= Cardinality(Handlers)

\* When a deletion commits, everybody below the users it deletes goes with them,
\* the ones who registered after it had read the tree included, and no code of
\* theirs or used by them is left.
DeletionIsWhole ==
    [][\A u \in Members : u \notin DOMAIN users' =>
         /\ \A p \in Tree(u) : p \notin DOMAIN users'
         /\ \A c \in DOMAIN codes' : u \notin {codes'[c].by, codes'[c].usedBy}]_vars

\* However the statements of handlers interleave, and whichever of them fail,
\* the tables change only as MemberRegistry allows: one whole operation at a
\* time, on users who are there; and nobody shuts out or deletes the admin.
Registry == INSTANCE MemberRegistry
KeepsRegistry == Registry!Spec
=============================================================================
