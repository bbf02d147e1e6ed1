------------------------------ MODULE KeySync ------------------------------
(***************************************************************************)
(* Keys (subscriptions) live in PostgreSQL; the relays hold copies: a VLESS *)
(* client in the memory of every Xray server and a credential in the file   *)
(* of every Hysteria server.  This module models the tasks that move keys   *)
(* between the two, with every await at which they interleave:              *)
(*   - the handlers of Telegram updates that issue a key or revoke some,    *)
(*     each inside one database transaction that the middleware commits;    *)
(*   - the synchronisation run at start, periodically, and by the webhook   *)
(*     of a relay whose Xray restarted;                                     *)
(*   - lost calls, failing handlers, restarts of the bot and of Xray.       *)
(* PostgreSQL runs at READ COMMITTED: a statement sees committed rows only, *)
(* and an UPDATE waits for the transaction that changed the row before it.  *)
(***************************************************************************)
EXTENDS Naturals, FiniteSets

CONSTANTS
    Users, Admins,        \* registered users; the ones whose role is admin
    Inviter,              \* User.invited_by (None for the admin)
    Tree,                 \* u |-> u and every user invited below u
    Keys, Owner,          \* subscription ids; Subscription.user_telegram_id
    LegacyKeys,           \* keys issued before the change of the Xray e-mail
    XrayEndpoints,        \* settings.xray_grpc_endpoint_list
    HysteriaEndpoints,    \* settings.hysteria_sync_endpoint_list
    Handlers,             \* updates that aiogram handles at the same time
    Attempts,             \* bound: requests of a relay's webhook served at the same time
    Periodic,             \* the task of _periodic_sync
    None,
    MaxFaults             \* bound: failures and restarts in a behaviour

\* The syncs that the requests of the webhooks run; a relay may have several.
HookSyncs == XrayEndpoints \X Attempts
Syncers == {Periodic} \cup HookSyncs
Tasks == Handlers \cup Syncers

ASSUME UserAssumption ==
    /\ Admins \subseteq Users
    /\ Inviter \in [Users -> Users \cup {None}]
    /\ Tree \in [Users -> SUBSET Users]
    /\ \A u \in Users : u \in Tree[u]
    /\ None \notin Users \cup Keys
ASSUME KeyAssumption == Owner \in [Keys -> Users] /\ LegacyKeys \subseteq Keys
ASSUME EndpointAssumption == XrayEndpoints # {} /\ HysteriaEndpoints # {}
ASSUME TaskAssumption ==
    /\ Periodic \notin HookSyncs
    /\ Handlers \cap Syncers = {}
    /\ IsFiniteSet(Handlers)
ASSUME FaultAssumption == MaxFaults \in Nat

VARIABLES
    row,        \* committed Subscription rows
    user,       \* committed User rows
    generated,  \* keys whose uuid4 was drawn (a rollback does not give it back)
    xray,       \* clients in the memory of each Xray server
    userpass,   \* credentials each Hysteria server accepts
    late,       \* calls the bot has given up that may still reach their relay
    pc, op,     \* where a task is, and which handler it runs
    caller,     \* the user whose update a handler serves
    keys, who,  \* the keys (active_subs) and the users the handler changes
    left,       \* users of a tree whose keys the deletion has not read yet
    todo, cur,  \* the keys its loop has left, the key it is at
    calls,      \* the endpoints the current fan-out or POST loop has left
    payload,    \* the credentials read for the POSTs
    open,       \* the handler's transaction holds locks
    booting,    \* main() is still in the initial sync
    hooks,      \* relays whose webhook owes the bot a POST
    faults      \* failures left

db == <<row, user>>
relays == <<xray, userpass, late>>
locals == <<op, caller, keys, who, left>>
loopState == <<todo, cur>>
world == <<generated, booting, hooks, faults>>
vars == <<row, user, generated, xray, userpass, late, pc, op, caller, keys, who, left,
          todo, cur, calls, payload, open, booting, hooks, faults>>

Clients == Keys \X {"current", "legacy"}
Revocations == {"self", "admin", "all", "delete", "friend"}
Ops == Revocations \cup {"issue", "none"}
Points == {"idle", "enter", "select", "update", "users", "rows", "loop", "rm_legacy", "rm_current",
           "add", "hyst", "push", "done", "reply", "commit"}

\* A call to relay "to": the point of its loop, and the keys it is about.  Each
\* failure has a number, that of the faults there were left.
CallPoints == {"rm_legacy", "rm_current", "add", "push"}
LateCalls == [nr : 1..MaxFaults, to : XrayEndpoints \cup HysteriaEndpoints,
              point : CallPoints, about : SUBSET Keys]

TypeOK ==
    /\ row \in [Keys -> {"none", "active", "revoked"}]
    /\ user \in [Users -> {"active", "inactive", "deleted"}]
    /\ generated \in SUBSET Keys
    /\ xray \in [XrayEndpoints -> SUBSET Clients]
    /\ userpass \in [HysteriaEndpoints -> SUBSET Keys]
    /\ late \in SUBSET LateCalls
    /\ pc \in [Tasks -> Points]
    /\ op \in [Tasks -> Ops]
    /\ caller \in [Tasks -> Users \cup {None}]
    /\ keys \in [Tasks -> SUBSET Keys]
    /\ who \in [Tasks -> SUBSET Users]
    /\ left \in [Tasks -> SUBSET Users]
    /\ todo \in [Tasks -> SUBSET Keys]
    /\ cur \in [Tasks -> Keys \cup {None}]
    /\ calls \in [Tasks -> SUBSET (XrayEndpoints \cup HysteriaEndpoints)]
    /\ payload \in [Tasks -> SUBSET Keys]
    /\ open \in [Tasks -> BOOLEAN]
    /\ booting \in BOOLEAN
    /\ hooks \in SUBSET XrayEndpoints
    /\ faults \in 0..MaxFaults

\* list_all_active_subscriptions and list_user_subscriptions.
ActiveKeys == {k \in Keys : row[k] = "active"}
ActiveKeysOf(u) == {k \in ActiveKeys : Owner[k] = u}
ActiveKeysIn(U) == {k \in ActiveKeys : Owner[k] \in U}

(***************************************************************************)
(* The bot starts beside a database that may hold keys issued by the        *)
(* previous release, whose clients the relays know by their old e-mail.     *)
(***************************************************************************)
Init ==
    /\ row = [k \in Keys |-> IF k \in LegacyKeys THEN "active" ELSE "none"]
    /\ user = [u \in Users |-> "active"]
    /\ generated = LegacyKeys
    /\ xray = [e \in XrayEndpoints |-> LegacyKeys \X {"legacy"}]
    /\ userpass = [e \in HysteriaEndpoints |-> LegacyKeys]
    /\ late = {}
    /\ pc = [t \in Tasks |-> "idle"]
    /\ op = [t \in Tasks |-> "none"]
    /\ caller = [t \in Tasks |-> None]
    /\ keys = [t \in Tasks |-> {}]
    /\ who = [t \in Tasks |-> {}]
    /\ left = [t \in Tasks |-> {}]
    /\ todo = [t \in Tasks |-> {}]
    /\ cur = [t \in Tasks |-> None]
    /\ calls = [t \in Tasks |-> {}]
    /\ payload = [t \in Tasks |-> {}]
    /\ open = [t \in Tasks |-> FALSE]
    /\ booting = TRUE
    /\ hooks = {}
    /\ faults = MaxFaults

-----------------------------------------------------------------------------
(***************************************************************************)
(* Row locks.  The middleware's UPDATE of the caller's profile locks the    *)
(* caller's row until the transaction ends; deactivate_* lock the rows of   *)
(* keys; deactivate_user and the deletion of a tree lock rows of users.     *)
(***************************************************************************)
BeforeUsers == {"enter", "select", "update", "users"}

HoldsUser(s, u) ==
    /\ open[s]
    /\ \/ caller[s] = u
       \/ pc[s] \notin BeforeUsers /\ u \in who[s]

\* The rows an UPDATE of the keys S matches: deactivate_subscription asks for
\* active = true, deactivate_user_subscriptions takes the ids it has read.
Matched(t, S) == IF op[t] \in {"self", "admin"} THEN S \cap ActiveKeys ELSE S

\* A deletion updates the keys of one user after the other's, and takes the rows
\* of all keys of the tree in the end.
HoldsKey(s, k) ==
    /\ open[s]
    /\ op[s] \in Revocations
    /\ \/ pc[s] \notin {"enter", "update"} /\ k \in Matched(s, keys[s])
       \/ pc[s] = "update" /\ k \in keys[s] \ todo[s]
       \/ op[s] = "delete" /\ pc[s] \notin BeforeUsers \cup {"rows"} /\ Owner[k] \in who[s]

\* The handlers whose transactions the next statement of t waits for.
WaitsFor(t) ==
    {s \in Handlers \ {t} :
        \/ pc[t] = "enter" /\ HoldsUser(s, caller[t])
        \/ pc[t] = "update" /\ \E k \in Matched(t, todo[t]) : HoldsKey(s, k)
        \/ pc[t] = "users" /\ \E u \in who[t] : HoldsUser(s, u)
        \/ pc[t] = "rows" /\ \E k \in Keys : Owner[k] \in who[t] /\ HoldsKey(s, k)}

\* t is on a cycle of waiting transactions.
Deadlocked(t) ==
    \E C \in SUBSET Handlers :
        /\ t \in C
        /\ \A s \in C : WaitsFor(s) \cap C # {} /\ \E r \in C : s \in WaitsFor(r)

Goto(t, p) ==
    /\ pc' = [pc EXCEPT ![t] = p]
    /\ calls' = [calls EXCEPT ![t] =
                    IF p \in {"rm_legacy", "rm_current", "add"} THEN XrayEndpoints
                    ELSE IF p = "push" THEN HysteriaEndpoints ELSE {}]

\* Mutant: a handler that raises leaves its session open.
FinishKeepsSession(t) ==
    /\ pc' = [pc EXCEPT ![t] = "idle"]
    /\ op' = [op EXCEPT ![t] = "none"]
    /\ caller' = [caller EXCEPT ![t] = IF open[t] THEN @ ELSE None]
    /\ keys' = [keys EXCEPT ![t] = {}]
    /\ who' = [who EXCEPT ![t] = {}]
    /\ left' = [left EXCEPT ![t] = {}]
    /\ todo' = [todo EXCEPT ![t] = {}]
    /\ cur' = [cur EXCEPT ![t] = None]
    /\ calls' = [calls EXCEPT ![t] = {}]
    /\ payload' = [payload EXCEPT ![t] = {}]
    /\ UNCHANGED open

\* The task returns, or raises out of the middleware: its locals and its
\* session are gone.
Finish(t) ==
    /\ pc' = [pc EXCEPT ![t] = "idle"]
    /\ op' = [op EXCEPT ![t] = "none"]
    /\ caller' = [caller EXCEPT ![t] = None]
    /\ keys' = [keys EXCEPT ![t] = {}]
    /\ who' = [who EXCEPT ![t] = {}]
    /\ left' = [left EXCEPT ![t] = {}]
    /\ todo' = [todo EXCEPT ![t] = {}]
    /\ cur' = [cur EXCEPT ![t] = None]
    /\ calls' = [calls EXCEPT ![t] = {}]
    /\ payload' = [payload EXCEPT ![t] = {}]
    /\ open' = [open EXCEPT ![t] = FALSE]

-----------------------------------------------------------------------------
(***************************************************************************)
(* Handlers.  UpdateUserMiddleware reads the caller and turns an inactive   *)
(* one away; what it read stays in the session, so nothing notices that the *)
(* caller was revoked or deleted while the next UPDATE waited.              *)
(***************************************************************************)
Arrive(t, u) ==
    /\ pc[t] = "idle" /\ ~booting /\ user[u] = "active"
    /\ Goto(t, "enter")
    /\ caller' = [caller EXCEPT ![t] = u]
    /\ UNCHANGED <<db, relays, op, keys, who, left, loopState, payload, open, world>>

\* create_subscription: the row of k is flushed, then add_vless_client.  The
\* choice of a label, the limit and the whitelist are another module's.
Issue(t, k) ==
    /\ pc[t] = "enter" /\ WaitsFor(t) = {}
    /\ k \notin generated /\ Owner[k] = caller[t]
    /\ user[caller[t]] # "deleted"
    /\ generated' = generated \cup {k}
    /\ op' = [op EXCEPT ![t] = "issue"]
    /\ keys' = [keys EXCEPT ![t] = {k}]
    /\ cur' = [cur EXCEPT ![t] = k]
    /\ open' = [open EXCEPT ![t] = TRUE]
    /\ Goto(t, "add")
    /\ UNCHANGED <<db, relays, caller, who, left, todo, payload, booting, hooks, faults>>

\* The INSERT of a deleted user's key violates the foreign key.
IssueRefused(t) ==
    /\ pc[t] = "enter" /\ WaitsFor(t) = {}
    /\ user[caller[t]] = "deleted"
    /\ Finish(t)
    /\ UNCHANGED <<db, relays, world>>

\* A handler o that revokes the keys S and changes the users U, after its reads.
Revoke(t, o, S, U) ==
    /\ pc[t] = "enter" /\ WaitsFor(t) = {}
    /\ op' = [op EXCEPT ![t] = o]
    /\ keys' = [keys EXCEPT ![t] = S]
    /\ who' = [who EXCEPT ![t] = U]
    /\ left' = [left EXCEPT ![t] = IF o = "delete" THEN U ELSE {}]
    /\ todo' = [todo EXCEPT ![t] = S]
    /\ open' = [open EXCEPT ![t] = TRUE]
    /\ Goto(t, IF o = "delete" THEN "select" ELSE "update")
    /\ UNCHANGED <<db, relays, caller, cur, payload, world>>

SubDelete(t, k) ==
    /\ row[k] = "active" /\ Owner[k] = caller[t]
    /\ Revoke(t, "self", {k}, {})

AdminSubRevokeConfirm(t, k) ==
    /\ caller[t] \in Admins /\ row[k] = "active"
    /\ Revoke(t, "admin", {k}, {})

AdminSubRevokeAll(t, u) ==
    /\ caller[t] \in Admins
    /\ Revoke(t, "all", ActiveKeysOf(u), {})

\* user_list_keyboard has no button for an admin; delete_confirm does not ask.
Deletable == {u \in Users \ Admins : user[u] # "deleted"}

\* Mutant: the tree is read without the members whose access was revoked.
DeleteConfirmActive(t, u) ==
    /\ caller[t] \in Admins /\ u \in Deletable
    /\ Revoke(t, "delete", {}, {v \in Tree[u] : user[v] = "active"})

\* delete_confirm, to the first statement of delete_user_tree: the ids of the tree.
DeleteConfirm(t, u) ==
    /\ caller[t] \in Admins /\ u \in Deletable
    /\ Revoke(t, "delete", {}, {v \in Tree[u] : user[v] # "deleted"})

FriendsRevokeConfirm(t, u) ==
    /\ Inviter[u] = caller[t] /\ user[u] = "active"
    /\ Revoke(t, "friend", ActiveKeysOf(u), {u})

\* /start of a user whose access was revoked, with a link: reactivate_user, once
\* the row of u is free.  The keys of u stay as they are; the rest of the handler,
\* which keeps that row to its commit, is another module's.
Reinvite(u) ==
    /\ ~booting /\ user[u] = "inactive"
    /\ \A s \in Handlers : ~HoldsUser(s, u)
    /\ user' = [user EXCEPT ![u] = "active"]
    /\ UNCHANGED <<row, relays, pc, calls, locals, loopState, payload, open, world>>

\* What delete_user_tree does after it has dealt with the keys of a user.
NextOfTree(t) == IF left[t] = {} THEN "users" ELSE "select"

\* The SELECT of the keys of the next user of a tree, inviters first.
SelectKeys(t, u) ==
    /\ pc[t] = "select" /\ u \in left[t] /\ Inviter[u] \notin left[t]
    /\ left' = [left EXCEPT ![t] = @ \ {u}]
    /\ keys' = [keys EXCEPT ![t] = @ \cup ActiveKeysOf(u)]
    /\ todo' = [todo EXCEPT ![t] = ActiveKeysOf(u)]
    /\ Goto(t, IF ActiveKeysOf(u) # {} THEN "update" ELSE NextOfTree(t)')
    /\ UNCHANGED <<db, relays, op, caller, who, cur, payload, open, world>>

\* The UPDATE of deactivate_subscription or deactivate_user_subscriptions.
Deactivate(t) ==
    /\ pc[t] = "update" /\ WaitsFor(t) = {}
    /\ Goto(t, IF op[t] = "friend" THEN "users" ELSE IF op[t] = "delete" THEN NextOfTree(t) ELSE "loop")
    /\ todo' = IF op[t] = "delete" THEN [todo EXCEPT ![t] = {}] ELSE todo
    /\ UNCHANGED <<db, relays, locals, cur, payload, open, world>>

\* Mutant: friends_revoke_confirm leaves its commit to the middleware.
ChangeUsersUncommitted(t) ==
    /\ pc[t] = "users" /\ WaitsFor(t) = {}
    /\ Goto(t, IF op[t] = "friend" THEN "loop" ELSE "rows")
    /\ UNCHANGED <<db, relays, locals, loopState, payload, open, world>>

\* The UPDATE of deactivate_user, or the one by which delete_user_tree detaches
\* the users of the tree from their inviters.
ChangeUsers(t) ==
    /\ pc[t] = "users" /\ WaitsFor(t) = {}
    /\ Goto(t, IF op[t] = "friend" THEN "commit" ELSE "rows")
    /\ UNCHANGED <<db, relays, locals, loopState, payload, open, world>>

\* The DELETE of the keys of the tree.  The DELETE of its users, which follows,
\* waits for nobody: their rows are locked.
DeleteRows(t) ==
    /\ pc[t] = "rows" /\ WaitsFor(t) = {}
    /\ todo' = [todo EXCEPT ![t] = keys[t]]
    /\ Goto(t, "loop")
    /\ UNCHANGED <<db, relays, locals, cur, payload, open, world>>

\* PostgreSQL aborts a transaction of the cycle; the handler raises.
DeadlockAbort(t) ==
    /\ Deadlocked(t)
    /\ Finish(t)
    /\ UNCHANGED <<db, relays, world>>

\* The handler tells the caller it is done.  friends_revoke_confirm has
\* committed before; the others are committed by the middleware after.
Reply(t) ==
    /\ pc[t] = "reply"
    /\ IF op[t] = "friend"
       THEN Finish(t)
       ELSE /\ Goto(t, "commit")
            /\ UNCHANGED <<locals, loopState, payload, open>>
    /\ UNCHANGED <<db, relays, world>>

\* Mutant: the deletion of a tree forgets the keys it did not deactivate.
PublishRead(t) ==
    /\ row' = [k \in Keys |->
         IF k \notin keys[t] THEN row[k]
         ELSE IF op[t] = "issue" THEN "active"
         ELSE IF row[k] = "active" THEN "revoked" ELSE row[k]]
    /\ user' = [u \in Users |->
         IF u \notin who[t] THEN user[u]
         ELSE IF op[t] = "delete" THEN "deleted"
         ELSE IF user[u] = "active" THEN "inactive" ELSE user[u]]

\* What COMMIT makes visible.  delete_user_tree removes the rows of every key
\* of the tree, the ones committed after it read active_subs included.
Publish(t) ==
    /\ row' = [k \in Keys |->
         IF op[t] = "issue" /\ k \in keys[t] THEN "active"
         ELSE IF row[k] = "active" /\ op[t] # "issue"
                 /\ (k \in keys[t] \/ (op[t] = "delete" /\ Owner[k] \in who[t]))
              THEN "revoked" ELSE row[k]]
    /\ user' = [u \in Users |->
         IF u \notin who[t] THEN user[u]
         ELSE IF op[t] = "delete" THEN "deleted"
         ELSE IF user[u] = "active" THEN "inactive" ELSE user[u]]

\* friends_revoke_confirm commits before it touches a relay.
CommitEarly(t) ==
    /\ pc[t] = "commit" /\ op[t] = "friend"
    /\ Publish(t)
    /\ open' = [open EXCEPT ![t] = FALSE]
    /\ Goto(t, "loop")
    /\ UNCHANGED <<relays, locals, loopState, payload, world>>

CommitAndEnd(t) ==
    /\ pc[t] = "commit" /\ op[t] # "friend"
    /\ Publish(t)
    /\ Finish(t)
    /\ UNCHANGED <<relays, world>>

-----------------------------------------------------------------------------
(***************************************************************************)
(* sync_all_subscriptions, run by main(), _periodic_sync or a webhook.      *)
(***************************************************************************)
\* Mutant: only the start of the bot and the webhooks sync.
SyncDueOnce(t) ==
    /\ pc[t] = "idle"
    /\ IF t = Periodic THEN booting ELSE t[1] \in hooks /\ ~booting

SyncDue(t) ==
    /\ pc[t] = "idle"
    /\ t # Periodic => t[1] \in hooks /\ ~booting

\* The POST of a webhook has been taken.
Received(t) == hooks' = IF t = Periodic THEN hooks ELSE hooks \ {t[1]}

SyncStart(t) ==
    /\ SyncDue(t) /\ ActiveKeys # {}
    /\ todo' = [todo EXCEPT ![t] = ActiveKeys]
    /\ Received(t)
    /\ Goto(t, "loop")
    /\ UNCHANGED <<db, relays, locals, cur, payload, open, generated, booting, faults>>

\* "No active subscriptions to sync": nothing is pushed, to Hysteria neither.
SyncNothing(t) ==
    /\ SyncDue(t) /\ ActiveKeys = {}
    /\ Received(t)
    /\ booting' = (booting /\ t # Periodic)
    /\ UNCHANGED <<db, relays, pc, calls, locals, loopState, payload, open, generated, faults>>

\* curl --max-time 120: the webhook of a relay sends its POST again, while the
\* sync of the one it has given up goes on.  Bound: as often as Attempts allows.
HookTimesOut(t) ==
    /\ pc[t] # "idle"
    /\ \E s \in HookSyncs : s[1] = t[1] /\ pc[s] = "idle"
    /\ hooks' = hooks \cup {t[1]}
    /\ UNCHANGED <<db, relays, pc, calls, locals, loopState, payload, open, generated, booting, faults>>

-----------------------------------------------------------------------------
(***************************************************************************)
(* The loop over keys and the calls to the relays, shared by all tasks.     *)
(***************************************************************************)
\* Mutant: the sync adds a client beside the one of the old name.
NextKeyUnmigrated(t, k) ==
    /\ pc[t] = "loop" /\ k \in todo[t]
    /\ todo' = [todo EXCEPT ![t] = @ \ {k}]
    /\ cur' = [cur EXCEPT ![t] = k]
    /\ Goto(t, IF t \in Syncers THEN "add" ELSE "rm_legacy")
    /\ UNCHANGED <<db, relays, locals, payload, open, world>>

NextKey(t, k) ==
    /\ pc[t] = "loop" /\ k \in todo[t]
    /\ todo' = [todo EXCEPT ![t] = @ \ {k}]
    /\ cur' = [cur EXCEPT ![t] = k]
    /\ Goto(t, "rm_legacy")
    /\ UNCHANGED <<db, relays, locals, payload, open, world>>

\* Mutant: the periodic sync is about Xray only.
LoopDoneXrayOnly(t) ==
    /\ pc[t] = "loop" /\ todo[t] = {}
    /\ Goto(t, IF t \in Syncers THEN "done" ELSE "reply")
    /\ UNCHANGED <<db, relays, locals, loopState, payload, open, world>>

LoopDone(t) ==
    /\ pc[t] = "loop" /\ todo[t] = {}
    /\ Goto(t, IF t \in Syncers THEN "hyst" ELSE "reply")
    /\ UNCHANGED <<db, relays, locals, loopState, payload, open, world>>

\* Mutant: the sync takes a key whose old client it removed for done.
AfterCallsMigrated(t) ==
    CASE pc[t] = "rm_legacy"  -> IF t \in Syncers THEN "loop" ELSE "rm_current"
      [] pc[t] = "rm_current" -> "hyst"
      [] pc[t] = "add"        -> IF t \in Syncers THEN "loop" ELSE "hyst"
      [] pc[t] = "push"       -> IF t \in Syncers THEN "done"
                                 ELSE IF op[t] = "issue" THEN "reply" ELSE "loop"

\* What a task does after the last call of a fan-out or of a POST loop; what the
\* calls returned changes nothing of it.
AfterCalls(t) ==
    CASE pc[t] = "rm_legacy"  -> IF t \in Syncers THEN "add" ELSE "rm_current"
      [] pc[t] = "rm_current" -> "hyst"
      [] pc[t] = "add"        -> IF t \in Syncers THEN "loop" ELSE "hyst"
      [] pc[t] = "push"       -> IF t \in Syncers THEN "done"
                                 ELSE IF op[t] = "issue" THEN "reply" ELSE "loop"

\* The call of t to endpoint e is over.
CallReturns(t, e) ==
    /\ e \in calls[t]
    /\ IF calls[t] = {e}
       THEN /\ Goto(t, AfterCalls(t))
            /\ cur' = IF pc[t] = "rm_legacy" THEN cur ELSE [cur EXCEPT ![t] = None]
            /\ payload' = [payload EXCEPT ![t] = {}]
       ELSE /\ calls' = [calls EXCEPT ![t] = @ \ {e}]
            /\ UNCHANGED <<pc, cur, payload>>
    /\ UNCHANGED <<db, locals, todo, open, generated, booting, hooks>>

\* One call of a _fan_out: at some moment before it returns the Xray server
\* applies it.
CallXray(t, e, p, clients) ==
    /\ pc[t] = p
    /\ CallReturns(t, e)
    /\ xray' = [xray EXCEPT ![e] = clients]
    /\ UNCHANGED <<userpass, late, faults>>

RemoveLegacy(t, e) ==
    CallXray(t, e, "rm_legacy", xray[e] \ {<<cur[t], "legacy">>})
RemoveCurrent(t, e) ==
    CallXray(t, e, "rm_current", xray[e] \ {<<cur[t], "current">>})
AddClient(t, e) ==
    CallXray(t, e, "add", xray[e] \cup {<<cur[t], "current">>})

\* Mutant: the credentials are read in the handler's own session.
ReadInOwnSession(t) ==
    /\ pc[t] = "hyst"
    /\ payload' = [payload EXCEPT ![t] =
                      IF op[t] = "issue" THEN ActiveKeys \cup keys[t] ELSE ActiveKeys \ keys[t]]
    /\ Goto(t, "push")
    /\ UNCHANGED <<db, relays, locals, loopState, open, world>>

\* Mutant: the POST names the owners of the keys, not the keys.
ReadOwners(t) ==
    /\ pc[t] = "hyst"
    /\ payload' = [payload EXCEPT ![t] = {Owner[k] : k \in ActiveKeys}]
    /\ Goto(t, "push")
    /\ UNCHANGED <<db, relays, locals, loopState, open, world>>

\* sync_hysteria_credentials reads in a session of its own: a handler's
\* uncommitted changes are not in what it posts.
ReadCredentials(t) ==
    /\ pc[t] = "hyst"
    /\ payload' = [payload EXCEPT ![t] = ActiveKeys]
    /\ Goto(t, "push")
    /\ UNCHANGED <<db, relays, locals, loopState, open, world>>

\* The sync server of e replaces the whole list and restarts Hysteria.  When the
\* restart fails it answers 500, and Hysteria goes on with the list it had: see
\* CallFails.
DoPost(e, users) == userpass' = [userpass EXCEPT ![e] = users]

PushCredentials(t, e) ==
    /\ pc[t] = "push"
    /\ CallReturns(t, e)
    /\ DoPost(e, payload[t])
    /\ UNCHANGED <<xray, late, faults>>

\* The sync is over; main() goes on to serve requests after the first one.
SyncDone(t) ==
    /\ pc[t] = "done"
    /\ Finish(t)
    /\ booting' = (booting /\ t # Periodic)
    /\ UNCHANGED <<db, relays, generated, hooks, faults>>

-----------------------------------------------------------------------------
(***************************************************************************)
(* Failures, MaxFaults in a behaviour.                                      *)
(***************************************************************************)
Fault == faults > 0 /\ faults' = faults - 1

\* An Xray or Hysteria server refuses or misses a call; it is only logged.
CallFails(t, e) == Fault /\ CallReturns(t, e) /\ UNCHANGED relays

\* The call times out, and the relay may yet act on it.
CallTimesOut(t, e) ==
    /\ Fault /\ CallReturns(t, e)
    /\ late' = late \cup {[nr |-> faults, to |-> e, point |-> pc[t],
                           about |-> IF pc[t] = "push" THEN payload[t] ELSE {cur[t]}]}
    /\ UNCHANGED <<xray, userpass>>

\* A relay acts on a call that the bot has given up.
LateCall(c) ==
    /\ late' = late \ {c}
    /\ CASE c.point = "rm_legacy"  -> /\ xray' = [xray EXCEPT ![c.to] = @ \ (c.about \X {"legacy"})]
                                     /\ UNCHANGED userpass
         [] c.point = "rm_current" -> /\ xray' = [xray EXCEPT ![c.to] = @ \ (c.about \X {"current"})]
                                     /\ UNCHANGED userpass
         [] c.point = "add"        -> /\ xray' = [xray EXCEPT ![c.to] = @ \cup (c.about \X {"current"})]
                                     /\ UNCHANGED userpass
         [] c.point = "push"       -> DoPost(c.to, c.about) /\ UNCHANGED xray
    /\ UNCHANGED <<db, pc, calls, locals, loopState, payload, open, world>>

\* sync_hysteria_credentials gets no connection from the pool; only logged.
ReadFails(t) ==
    /\ Fault
    /\ pc[t] = "hyst"
    /\ Goto(t, IF t \in Syncers THEN "done" ELSE IF op[t] = "issue" THEN "reply" ELSE "loop")
    /\ UNCHANGED <<db, relays, locals, loopState, payload, open, generated, booting, hooks>>

\* A statement, a call to Telegram or the commit fails: rollback.
HandlerRaises(t) ==
    /\ Fault
    /\ pc[t] \in {"enter", "select", "update", "users", "rows", "reply", "commit"}
    /\ Finish(t)
    /\ UNCHANGED <<db, relays, generated, booting, hooks>>

\* Every task of the process is gone; the script of a relay whose request
\* was being served gets no answer and tries again.
BotRestart ==
    /\ Fault
    /\ pc' = [t \in Tasks |-> "idle"]
    /\ op' = [t \in Tasks |-> "none"]
    /\ caller' = [t \in Tasks |-> None]
    /\ keys' = [t \in Tasks |-> {}]
    /\ who' = [t \in Tasks |-> {}]
    /\ left' = [t \in Tasks |-> {}]
    /\ todo' = [t \in Tasks |-> {}]
    /\ cur' = [t \in Tasks |-> None]
    /\ calls' = [t \in Tasks |-> {}]
    /\ payload' = [t \in Tasks |-> {}]
    /\ open' = [t \in Tasks |-> FALSE]
    /\ booting' = TRUE
    /\ hooks' = hooks \cup {t[1] : t \in {s \in HookSyncs : pc[s] # "idle"}}
    /\ UNCHANGED <<db, relays, generated>>

\* The container of relay e starts anew, with no client in memory.
XrayRestart(e) ==
    /\ Fault
    /\ xray' = [xray EXCEPT ![e] = {}]
    /\ late' = {c \in late : c.to # e}
    /\ hooks' = hooks \cup {e}
    /\ UNCHANGED <<db, userpass, pc, calls, locals, loopState, payload, open, generated, booting>>

\* Fifteen attempts met no answer.
HookGivesUp(e) ==
    /\ booting /\ e \in hooks
    /\ hooks' = hooks \ {e}
    /\ UNCHANGED <<db, relays, pc, calls, locals, loopState, payload, open, generated, booting, faults>>

-----------------------------------------------------------------------------
HandlerStarts(t) ==
    \/ \E u \in Users : Arrive(t, u)
    \/ \E k \in Keys : Issue(t, k) \/ SubDelete(t, k) \/ AdminSubRevokeConfirm(t, k)
    \/ \E u \in Users : \/ AdminSubRevokeAll(t, u)
                        \/ DeleteConfirm(t, u)
                        \/ FriendsRevokeConfirm(t, u)

HandlerStep(t) ==
    \/ IssueRefused(t) \/ \E u \in Users : SelectKeys(t, u)
    \/ Deactivate(t) \/ ChangeUsers(t) \/ DeleteRows(t) \/ DeadlockAbort(t)
    \/ Reply(t) \/ CommitEarly(t) \/ CommitAndEnd(t)

SyncStep(t) == SyncStart(t) \/ SyncNothing(t) \/ SyncDone(t)

RelayStep(t) ==
    \/ \E k \in Keys : NextKey(t, k)
    \/ LoopDone(t)
    \/ \E e \in XrayEndpoints : RemoveLegacy(t, e) \/ RemoveCurrent(t, e) \/ AddClient(t, e)
    \/ ReadCredentials(t)
    \/ \E e \in HysteriaEndpoints : PushCredentials(t, e)

Failure ==
    \/ \E t \in Tasks : \/ \E e \in XrayEndpoints \cup HysteriaEndpoints :
                               CallFails(t, e) \/ CallTimesOut(t, e)
                        \/ ReadFails(t)
    \/ \E c \in late : LateCall(c)
    \/ \E t \in Handlers : HandlerRaises(t)
    \/ BotRestart
    \/ \E e \in XrayEndpoints : XrayRestart(e) \/ HookGivesUp(e)

Next ==
    \/ \E t \in Handlers : HandlerStarts(t) \/ HandlerStep(t)
    \/ \E u \in Users : Reinvite(u)
    \/ \E t \in Syncers : SyncStep(t)
    \/ \E t \in HookSyncs : HookTimesOut(t)
    \/ \E t \in Tasks : RelayStep(t)
    \/ Failure

Spec == Init /\ [][Next]_vars

\* asyncio runs every task that is ready, _periodic_sync never ends, and the
\* lock queues of PostgreSQL let no UPDATE wait for ever (SF).  No fairness is
\* asked of users, of failures, nor of the start of a webhook.
Fairness ==
    /\ \A t \in Handlers : /\ WF_vars(HandlerStep(t) \/ RelayStep(t))
                        /\ SF_vars(Deactivate(t)) /\ SF_vars(ChangeUsers(t)) /\ SF_vars(DeleteRows(t))
    /\ \A t \in Syncers : WF_vars(SyncDone(t) \/ RelayStep(t))
    /\ WF_vars(SyncStep(Periodic))

FairSpec == Spec /\ Fairness

-----------------------------------------------------------------------------
(***************************************************************************)
(* Properties.                                                              *)
(***************************************************************************)
Committed == {k \in Keys : row[k] # "none"}

\* No Hysteria server ever accepts a key whose row was not committed, although
\* the handler that creates it posts before its commit: a handler that rolls
\* back leaves no credential behind (sync_hysteria_credentials reads in a
\* session of its own).
HysteriaOnlyCommitted ==
    /\ \A e \in HysteriaEndpoints : userpass[e] \subseteq Committed
    /\ \A t \in Tasks : payload[t] \subseteq Committed

\* The lists that friends_revoke_confirm posts never hold a key it revokes:
\* that is what its early commit is for.
FriendRevokeNotRepublished ==
    \A t \in Handlers :
        op[t] = "friend" /\ pc[t] = "push" => payload[t] \cap keys[t] = {}

\* No key survives the deletion of its user, not even one that was being
\* issued while delete_user_tree ran.
DeletedUserHasNoKey ==
    \A u \in Users : user[u] = "deleted" => ActiveKeysOf(u) = {}

\* The handlers t waits for, those that they wait for, and so on.
Awaited(t) ==
    {s \in Handlers : \A S \in SUBSET Handlers :
        WaitsFor(t) \subseteq S /\ (\A r \in S : WaitsFor(r) \subseteq S) => s \in S}

\* Nobody waits for a lock that nobody will release: behind whatever a handler
\* waits for there is one that goes on by itself, or a deadlock, which
\* PostgreSQL resolves.  A session that stays open without its handler, or is
\* waited for before it has begun, would hold up every update of its user.
NobodyWaitsInVain ==
    \A t \in Handlers : WaitsFor(t) # {} =>
        \E s \in Awaited(t) :
            Deadlocked(s) \/ (pc[s] \notin {"idle", "enter"} /\ WaitsFor(s) = {})

\* However the transactions of handlers interleave, wait for each other and
\* fail, the rows change only as KeyLedger allows: one whole operation at a time.
Ledger == INSTANCE KeyLedger
KeepsLedger == Ledger!Spec

\* A handler is taking k away, from its relays or for good.
BeingRevoked(k) ==
    \E t \in Handlers : op[t] \in Revocations /\ k \in keys[t]

\* A sync is replacing the client of k by one of the new name.
BeingMigrated(k) ==
    \E t \in Syncers : cur[t] = k /\ pc[t] \in {"rm_legacy", "add"}

\* While nothing has failed, an active key can be used on every relay, however
\* handlers and syncs interleave.
NoFaultServed ==
    faults = MaxFaults =>
        \A k \in ActiveKeys, e \in XrayEndpoints :
            \/ <<k, "current">> \in xray[e]
            \/ <<k, "legacy">> \in xray[e]
            \/ BeingRevoked(k)
            \/ BeingMigrated(k)

\* A key that stays active ends up on every Xray server for good, whatever
\* failed before: the periodic sync repairs what handlers and restarts left.
ActiveKeysServed ==
    \A k \in Keys, e \in XrayEndpoints :
        <>[](row[k] = "active") => <>[](<<k, "current">> \in xray[e])

\* ... and its client of the old name disappears.
LegacyClientsRetired ==
    \A k \in LegacyKeys, e \in XrayEndpoints :
        <>[](row[k] = "active") => <>[](<<k, "legacy">> \notin xray[e])

\* Hysteria follows the database once the database rests, in whatever order
\* the posts of handlers and syncs arrived - if some key is active.
HysteriaFollows ==
    \A S \in (SUBSET Keys) \ {{}}, e \in HysteriaEndpoints :
        <>[](ActiveKeys = S) => <>[](userpass[e] = S)

-----------------------------------------------------------------------------
(***************************************************************************)
(* What the program says of itself and does not keep.                       *)
(***************************************************************************)
OnRelay(k) ==
    \/ \E e \in XrayEndpoints : \E c \in xray[e] : c[1] = k
    \/ \E e \in HysteriaEndpoints : k \in userpass[e]

\* admin_sub_revoke_confirm has just answered that access is blocked.
BlockedWhenAnswered ==
    \A t \in Handlers : \A k \in keys[t] :
        op[t] = "admin" /\ pc[t] = "commit" => ~OnRelay(k)

\* A revoked key's VLESS clients are removed.
RevokedClientsRemoved ==
    \A k \in Keys, e \in XrayEndpoints :
        row[k] = "revoked" ~> \A c \in xray[e] : c[1] # k

\* The userpass list matches the database once the database rests.
HysteriaMatchesDatabase ==
    \A S \in SUBSET Keys, e \in HysteriaEndpoints :
        <>[](ActiveKeys = S) => <>[](userpass[e] = S)

\* A user whose access was revoked has no key that works.
InactiveUserHasNoKey ==
    \A u \in Users : user[u] = "inactive" => ActiveKeysOf(u) = {}
=============================================================================
