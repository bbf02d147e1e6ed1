----------------------------- MODULE KeyDialogue -----------------------------
(***************************************************************************)
(* The dialogue in which a user creates a key: choose a label, answer       *)
(* whether the key may use the whitelist servers, get the key.  aiogram     *)
(* handles the updates of a user as concurrent tasks and keeps the state of *)
(* the dialogue in memory, one for each chat the user writes in; the rows   *)
(* are in PostgreSQL and belong to the user.  What orders two updates of a  *)
(* user, of whatever chats, is the row lock that UpdateUserMiddleware takes *)
(* on the user's row and keeps until the transaction ends.  Users are       *)
(* registered and stay so: KeySync has the deletion of users.               *)
(***************************************************************************)
EXTENDS Naturals, FiniteSets

CONSTANTS
    Users, Admins,   \* registered users, the ones whose role is admin
    Chats,           \* u |-> the chats with the bot that u writes in
    Keys,            \* ids, one for each row ever inserted
    Migrated,        \* the active rows of the release before this dialogue
    MaxActive,       \* MAX_ACTIVE_SUBSCRIPTIONS
    Updates,         \* updates that are handled at the same time
    None

ASSUME UserAssumption == Admins \subseteq Users
ASSUME LimitAssumption == MaxActive \in Nat
ASSUME ChatAssumption == \A u \in Users : IsFiniteSet(Chats[u])

Rows == [id : Keys, owner : Users, whitelist : BOOLEAN]

\* Migration 004 gives the rows there are no is_whitelist: NULL, which is not TRUE.
ASSUME MigratedAssumption ==
    /\ Migrated \subseteq Rows /\ IsFiniteSet(Migrated)
    /\ \A j, k \in Migrated : j.id = k.id => j = k
    /\ \A k \in Migrated : k.whitelist = FALSE

\* The key of aiogram's storage: no handler asks what kind of chat it serves.
Dialogues == UNION {{u} \X Chats[u] : u \in Users}

VARIABLES
    active,    \* committed rows of active keys
    drawn,     \* ids of rows ever inserted
    state,     \* FSM state of each dialogue
    pc,        \* where an update is
    from,      \* the user and the chat an update comes from
    what,      \* what the user did
    whitelist, \* is_whitelist of the key to be created
    new        \* the row the update has inserted, not committed

locals == <<from, what, whitelist, new>>
vars == <<active, drawn, state, pc, from, what, whitelist, new>>

States == {"none", "waiting_for_label", "waiting_for_whitelist_choice"}
Acts == {"menu", "custom", "preset", "typed", "yes", "no"}

TypeOK ==
    /\ active \in SUBSET Rows
    /\ drawn \in SUBSET Keys
    /\ state \in [Dialogues -> States]
    /\ pc \in [Updates -> {"idle", "enter", "has_whitelist", "count", "created", "answered"}]
    /\ from \in [Updates -> Dialogues \cup {None}]
    /\ what \in [Updates -> Acts \cup {None}]
    /\ whitelist \in [Updates -> BOOLEAN]
    /\ new \in [Updates -> SUBSET Rows]

KeysOf(u) == {k \in active : k.owner = u}
WhitelistKeysOf(u) == {k \in KeysOf(u) : k.whitelist}

UserOf(t) == from[t][1]

Init ==
    /\ active = Migrated
    /\ drawn = {k.id : k \in Migrated}
    /\ state = [d \in Dialogues |-> "none"]
    /\ pc = [t \in Updates |-> "idle"]
    /\ from = [t \in Updates |-> None]
    /\ what = [t \in Updates |-> None]
    /\ whitelist = [t \in Updates |-> FALSE]
    /\ new = [t \in Updates |-> {}]

Goto(t, p) == pc' = [pc EXCEPT ![t] = p]

SetState(t, s) == state' = [state EXCEPT ![from[t]] = s]

Finish(t) ==
    /\ Goto(t, "idle")
    /\ from' = [from EXCEPT ![t] = None]
    /\ what' = [what EXCEPT ![t] = None]
    /\ whitelist' = [whitelist EXCEPT ![t] = FALSE]
    /\ new' = [new EXCEPT ![t] = {}]

-----------------------------------------------------------------------------
\* An update comes in.  The filter of sub_label_typed is evaluated now, before
\* the middleware waits for the user's row.
Arrive(t, d, a) ==
    /\ pc[t] = "idle"
    /\ a = "typed" => state[d] = "waiting_for_label"
    /\ Goto(t, "enter")
    /\ from' = [from EXCEPT ![t] = d]
    /\ what' = [what EXCEPT ![t] = a]
    /\ UNCHANGED <<active, drawn, state, whitelist, new>>

\* Mutant: the middleware updates a profile in a transaction of its own.
HandledAlways(t, a) == pc[t] = "enter" /\ what[t] \in a

\* The middleware's UPDATE has the row of the user, and the handler begins.
Handled(t, a) ==
    /\ pc[t] = "enter" /\ what[t] \in a
    /\ \A s \in Updates \ {t} : pc[s] \notin {"idle", "enter"} => UserOf(s) # UserOf(t)

\* cmd_sub_add and menu_keys_add.
MenuKeysAdd(t) ==
    /\ Handled(t, {"menu"})
    /\ SetState(t, "none")
    /\ Goto(t, "answered")
    /\ UNCHANGED <<active, drawn, locals>>

\* Mutant: the state is the kind of the callback, no state of the group.
LabelCustomKind(t) ==
    /\ Handled(t, {"custom"})
    /\ SetState(t, what[t])
    /\ Goto(t, "answered")
    /\ UNCHANGED <<active, drawn, locals>>

\* The user wants to type a label.
LabelCustom(t) ==
    /\ Handled(t, {"custom"})
    /\ SetState(t, "waiting_for_label")
    /\ Goto(t, "answered")
    /\ UNCHANGED <<active, drawn, locals>>

\* The text is no label: the user may try again.
LabelRefused(t) ==
    /\ Handled(t, {"typed"})
    /\ Goto(t, "answered")
    /\ UNCHANGED <<active, drawn, state, locals>>

\* _resolve_whitelist_or_prompt, to its first statement.
LabelChosen(t) ==
    /\ Handled(t, {"preset", "typed"})
    /\ IF UserOf(t) \in Admins
       THEN /\ SetState(t, "none")
            /\ whitelist' = [whitelist EXCEPT ![t] = TRUE]
            /\ Goto(t, "count")
       ELSE /\ Goto(t, "has_whitelist")
            /\ UNCHANGED <<state, whitelist>>
    /\ UNCHANGED <<active, drawn, from, what, new>>

\* Mutant: everybody is asked, whatever keys there are.
ResolvePrompt(t) ==
    /\ pc[t] = "has_whitelist"
    /\ SetState(t, "waiting_for_whitelist_choice")
    /\ Goto(t, "answered")
    /\ UNCHANGED <<active, drawn, locals>>

\* user_has_active_whitelist_subscription has answered.
Resolve(t) ==
    /\ pc[t] = "has_whitelist"
    /\ IF WhitelistKeysOf(UserOf(t)) # {}
       THEN /\ SetState(t, "none")
            /\ Goto(t, "count")
       ELSE /\ SetState(t, "waiting_for_whitelist_choice")
            /\ Goto(t, "answered")
    /\ UNCHANGED <<active, drawn, locals>>

\* sub_whitelist_chosen; the answer to a prompt of a dialogue that is over, or
\* that the bot forgot when it restarted, is refused.  The handler knows the chat
\* of its callback, and asks neither what another chat has come to nor what keys
\* the user has by now.
WhitelistChosen(t) ==
    /\ Handled(t, {"yes", "no"})
    /\ IF state[from[t]] = "waiting_for_whitelist_choice"
       THEN /\ SetState(t, "none")
            /\ whitelist' = [whitelist EXCEPT ![t] = (what[t] = "yes")]
            /\ Goto(t, "count")
       ELSE /\ Goto(t, "answered")
            /\ UNCHANGED <<state, whitelist>>
    /\ UNCHANGED <<active, drawn, from, what, new>>

AtLimit(u) == u \notin Admins /\ Cardinality(KeysOf(u)) >= MaxActive

LimitReached(t) ==
    /\ pc[t] = "count" /\ AtLimit(UserOf(t))
    /\ Goto(t, "answered")
    /\ UNCHANGED <<active, drawn, state, locals>>

CreateSubscription(t, id) ==
    /\ pc[t] = "count" /\ ~AtLimit(UserOf(t))
    /\ id \notin drawn
    /\ drawn' = drawn \cup {id}
    /\ new' = [new EXCEPT ![t] =
                  {[id |-> id, owner |-> UserOf(t), whitelist |-> whitelist[t]]}]
    /\ Goto(t, "created")
    /\ UNCHANGED <<active, state, from, what, whitelist>>

\* The relays are called, the user is answered, the middleware commits.
Commit(t) ==
    /\ pc[t] \in {"created", "answered"}
    /\ active' = active \cup new[t]
    /\ Finish(t)
    /\ UNCHANGED <<drawn, state>>

\* A statement or a call to Telegram fails: rollback.  The state of the chat,
\* which is no part of the transaction, stays as the handler set it.
HandlerRaises(t) ==
    /\ pc[t] # "idle"
    /\ Finish(t)
    /\ UNCHANGED <<active, drawn, state>>

\* Another handler's transaction, of this user or not, revokes a key.
Revoked(k) ==
    /\ active' = active \ {k}
    /\ UNCHANGED <<drawn, state, pc, locals>>

\* The tasks and the states are in the memory of the process.
BotRestart ==
    /\ state' = [d \in Dialogues |-> "none"]
    /\ pc' = [t \in Updates |-> "idle"]
    /\ from' = [t \in Updates |-> None]
    /\ what' = [t \in Updates |-> None]
    /\ whitelist' = [t \in Updates |-> FALSE]
    /\ new' = [t \in Updates |-> {}]
    /\ UNCHANGED <<active, drawn>>

HandlerStep(t) ==
    \/ MenuKeysAdd(t) \/ LabelCustom(t) \/ LabelRefused(t) \/ LabelChosen(t)
    \/ Resolve(t) \/ WhitelistChosen(t) \/ LimitReached(t)
    \/ \E id \in Keys : CreateSubscription(t, id)
    \/ Commit(t)

Next ==
    \/ \E t \in Updates :
           \/ \E d \in Dialogues, a \in Acts : Arrive(t, d, a)
           \/ HandlerStep(t)
           \/ HandlerRaises(t)
    \/ \E k \in active : Revoked(k)
    \/ BotRestart

Spec == Init /\ [][Next]_vars

-----------------------------------------------------------------------------
(***************************************************************************)
(* Properties.                                                              *)
(***************************************************************************)
\* The question is open in d.
Prompted(d) == state[d] = "waiting_for_whitelist_choice"

\* It is open, or "yes" has been answered and the key is not committed.
Questions ==
    {d \in Dialogues : d[1] \notin Admins /\
        \/ Prompted(d)
        \/ \E t \in Updates : from[t] = d /\ pc[t] \in {"count", "created"} /\ whitelist[t]}

\* Whatever a user clicks, how often, how fast and in how many chats, the rows
\* change only as KeyQuota allows: no new key above MaxActive, and none for the
\* whitelist servers but for a question asked when the user had no such key.
Quota == INSTANCE KeyQuota WITH questions <- Questions
KeepsQuota == Quota!Spec

PromptsOf(u) == {d \in Dialogues : d[1] = u /\ Prompted(d)}

\* The whitelist keys of a user who is no admin, and the questions that may still
\* give one, are never more than the chats the user writes in.  A user with one
\* chat who is asked has no whitelist key: sub_whitelist_chosen need not look.
WhitelistKeysPerChat ==
    \A u \in Users \ Admins :
        Cardinality(WhitelistKeysOf(u)) + Cardinality(PromptsOf(u)) <= Cardinality(Chats[u])

-----------------------------------------------------------------------------
(***************************************************************************)
(* What the program says of itself and does not keep.                       *)
(***************************************************************************)
\* WHITELIST_PROMPT_RU tells the user that only one key for the whitelist servers
\* can be issued.
OneWhitelistKey ==
    \A u \in Users \ Admins : Cardinality(WhitelistKeysOf(u)) <= 1
=============================================================================
