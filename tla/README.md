# Verification of the Rhino VPN bot

The repository deploys a VPN service: a Telegram bot (`bot/app`, Python, aiogram,
SQLAlchemy, PostgreSQL) that issues keys to invited users, relays that run Xray
(VLESS) and Hysteria servers, and the Ansible roles that install all of them.
The relays hold copies of what the database says; nearly everything that is hard
in this program is about those copies and about several Telegram updates, the
periodic tasks and the webhooks changing them at the same time.

## 1. Inventory

| component | state | operations | talks to |
|---|---|---|---|
| Key synchronisation (`xray/sync.py`, `hysteria/sync.py`, `xray/grpc_client.py`, revocation and issue in `handlers/*`) | `subscriptions` rows; the clients in the memory of each Xray; the userpass list of each Hysteria | issue, five kinds of revocation, sync at start, every interval and by webhook | gRPC and HTTP calls to every relay; PostgreSQL |
| Sessions and middlewares (`middlewares/*`) | one transaction for each update; a row lock on the caller | open, read the caller, `UPDATE` its profile, commit or roll back | every handler |
| Connection limiter (`xray/connection_limiter.py`) | none kept; a map of active keys for one round | reads online IPs, removes and adds clients over the limit | the same Xray clients |
| Key creation dialogue (`handlers/subscription.py`) | FSM state and data of each user in each chat; rows | label, whitelist answer, limit of four, whitelist keys | key synchronisation |
| Registration, invitations, roles, deletion (`handlers/start.py`, `invite.py`, `delete.py`) | `users`, `invitations` | start with a code, create a code, revoke a friend, delete a tree | key synchronisation |
| Broadcast (`handlers/broadcast.py`) | FSM state, table of cancel events, album buffers, background tasks | compose, send one by one, cancel, report | Telegram |
| Instructions (`handlers/instructions.py`) | `instructions`, `instruction_photos`, FSM state and data of a chat, album buffers, background tasks | add, change title, replace content, delete | Telegram, PostgreSQL |
| Hysteria sync server (`roles/hysteria/files/hysteria_sync_server.py`) | the userpass file, the running server | replace the file, restart | the bot's POST |
| Xray webhook script (`roles/xray/files/xray-sync-webhook.sh`) | number of attempts | POST to the bot, wait, retry | the bot's HTTP server |
| Subscription links, HTTP endpoint (`subscription_http.py`, `subscription_format.py`, `vless.py`) | none | build the text of a subscription | clients |
| gRPC wire format (`xray/grpc_client.py`) | none | encode, decode varints and messages | Xray |
| User tree text (`handlers/users.py`) | none | build the tree, cut it in chunks | Telegram |
| Menus, migrations, mapping exporter | none that matters here | presentation, schema, export | - |

What makes these hard:

* **Concurrency.** aiogram handles updates as concurrent tasks; two syncs (the
  periodic one and a webhook's) and the handlers await between any two calls to
  relays. The state filters of a dialogue are evaluated before the update waits
  for the caller's row.
* **Two memories.** The state of a dialogue belongs to a user in a chat, the rows it leads to
  belong to the user: aiogram's `Dispatcher()` keys its storage by both, and no handler asks
  what kind of chat it serves. A user may have several dialogues about the same keys.
* **Two sessions.** A handler changes rows in its own transaction, committed by
  the middleware after the handler returns, while `sync_hysteria_credentials`
  reads in a session of its own.
* **Partial failure.** Every call to a relay is logged and forgotten when it
  fails or times out, and may still reach the relay after that; a handler that raises rolls the rows back but not the relays.
* **Restarts.** The bot, Xray and Hysteria restart independently. Xray loses its
  clients; the bot loses its tasks.

What makes each component correct:

* *Key synchronisation*: an active key ends up on every relay; a key is on
  Hysteria only if its row was committed; a revoked key leaves the relays; rows change
  by whole operations; nobody waits for a lock that nobody will release.
* *Limiter*: a key over the limit is reset, and an active one is on the relay again in the end.
* *Key creation*: no user gets a fifth key, nor a whitelist key but for a question that was asked
  when the user had none. The prompt promises more, one whitelist key, which the code does
  not keep for a user with two chats.
* *Registration*: a used code is closed (two users who open it at the same moment
  both get in); the inviter relation is a forest; nobody but the admin makes an l1
  user; deleted users leave nothing behind, also when somebody below them registers
  meanwhile.
* *Broadcast*: an album is sent once; the cancel button finds the broadcast it stands
  under; what the admin is told adds up.
* *Instructions*: sort orders are distinct; an instruction has the photos of one
  submission; it is not emptied by a race; a dialogue knows its title or instruction.
* *Pure code*: decode after encode is the identity; chunks cut a text without
  loss and within the limit of Telegram.

The hazards, each at its line, are in `PROJECT.json`.

## 2. Modules

| module | models | composed with |
|---|---|---|
| `KeyLedger` | abstract: what readers of the rows of keys and users may rely on | - |
| `KeySync` | rows of keys, relays, handlers, syncs, webhooks, failures | refines `KeyLedger` |
| `KeySync_proofs` | theorems, the refinement among them | extends `KeySync`, `SequenceLemmas` |
| `ConnectionLimiter` | the limit of addresses: removes and adds clients on the relays of `KeySync` | extends `KeySync`, `ProtoWire` |
| `ProtoWire` | the protobuf messages, written and read by hand | - |
| `ConnectionLimiter_proofs` | theorems of the wire format and of the keys beside the limiter | extends `ConnectionLimiter`, `KeySync_proofs` |
| `KeyQuota` | abstract: the limit of keys, and what a whitelist key takes | - |
| `KeyDialogue` | the dialogues that create keys, one in each chat of a user, under the caller's row lock | refines `KeyQuota` |
| `KeyDialogue_proofs` | theorems, the refinement among them | extends `KeyDialogue` |
| `MemberRegistry` | abstract: what readers of the users and invitations may rely on | - |
| `Membership` | invitations, registration, roles, revocation of a friend, deletion of a tree, with foreign keys and row locks | refines `MemberRegistry` |
| `Membership_proofs` | theorems, the refinement among them | extends `Membership` |
| `UserTree` | the list of users and its cutting into messages | extends `Membership` |
| `UserTree_proofs` | theorems | extends `UserTree`, `Membership_proofs`, `SequenceLemmas` |
| `SequenceLemmas` | lemmas on sequences, least counterexamples and recursive functions | - |
| `Broadcast` | dialogue, albums and timers, sending, cancel, the admin's row lock | - |
| `Broadcast_proofs` | theorems | extends `Broadcast` |
| `Catalogue` | abstract: what readers of the instructions may rely on | - |
| `Instructions` | the handlers and album tasks of the instructions | refines `Catalogue` |
| `Instructions_proofs` | theorems, the refinement among them | extends `Instructions` |

Each `MC` module gives a component the small sets of its runs. A definition marked
*Mutant* is a wrong version of its neighbour, kept to show that a property can tell the
two apart; no specification uses it.

What could still be added: an abstract specification of the broadcasts (each recipient is tried once, until the
event is set), which `Broadcast` would refine; the links of a subscription, which are pure text.

## 3. The model of the keys

### State

| variable | code |
|---|---|
| `row` | the `subscriptions` table as committed: none, `active`, or revoked (`active = false` or deleted) |
| `user` | the `users` table as committed |
| `generated` | uuid4 values drawn; a rollback does not give one back |
| `xray[e]` | clients of Xray endpoint `e`, under the current e-mail or the one of the previous release |
| `userpass[e]` | the list Hysteria server `e` accepts |
| `late` | calls that timed out at the bot and may still reach their relay |
| `pc, op, caller, keys, who, left, todo, cur, calls, payload, open` | the locals of each task: which handler, the keys and users it changes, the users of a tree whose keys it has not read yet, what its loop has left, the calls in flight, the list it read, whether its transaction holds locks |
| `booting` | `main()` is in its first sync and polls no updates |
| `hooks` | relays whose webhook script owes the bot a POST |
| `faults` | failures and restarts left |

### Tasks and actions

A handler starts at `Arrive` (the middleware has read the caller and found it
active) and waits there for the caller's row, which the middleware's `UPDATE`
locks. Then it takes one of six operations: `Issue` (`create_subscription`),
`SubDelete`, `AdminSubRevokeConfirm`, `AdminSubRevokeAll`, `DeleteConfirm`,
`FriendsRevokeConfirm`. A revocation reads its keys, executes its `UPDATE`
(`Deactivate`), for one of them changes the user (`ChangeUsers`), and goes through
its loop. A deletion reads the ids of the tree (`DeleteConfirm`), then for each user of it, inviters
first, reads the active keys (`SelectKeys`) and deactivates them (`Deactivate`), detaches the users
(`ChangeUsers`) and deletes the rows of their keys (`DeleteRows`), where each statement keeps what it has
locked while the next one waits; then it has the same loop: for each key a fan-out that removes the old client, one that removes
the current client, and a post of the list to the Hysteria servers. Then it
answers (`Reply`) and the middleware commits (`CommitAndEnd`);
`friends_revoke_confirm` alone commits before its loop (`CommitEarly`).

PostgreSQL is at READ COMMITTED. `WaitsFor(t)` is the set of handlers whose
uncommitted rows the next statement of `t` touches; a statement is enabled when it
is empty. A cycle is a deadlock, and PostgreSQL aborts one transaction of it
(`DeadlockAbort`). `Publish` is what a commit makes visible; a deletion also takes
the rows that were committed after it had read which keys to take off the relays.

`KeyLedger` is the abstract specification: the rows of keys and users alone, changed by one whole
operation at a time (`Issue`, `Revoke`, `RevokeFriend`, `Readmit`, `Delete`), each with the users who may ask
for it. A deletion takes the tree and all keys that are active in it at that moment, although the code
collects them several statements earlier. A friend's revocation promises less: it takes the keys that were read
before (see `InactiveUserHasNoKey` below). A user whose access was revoked comes back by `/start` with a link;
`Reinvite` is that `UPDATE`, one action once the row is free, and the rest of `/start` is in `Membership`.

A sync (`SyncStart` to `SyncDone`) is `sync_all_subscriptions`: it reads the active
keys once, replaces the client of each on every relay, reads the list for Hysteria
in a new session and posts it. A webhook's sync runs under the name of its relay and the number of its
request: the script gives a request up after 120 seconds and sends the next one (`HookTimesOut`), while the
first goes on.

A call that fails (`CallFails`) may be one that has only timed out (`CallTimesOut`): it stays in `late`, and the
relay acts on it whenever it likes (`LateCall`), beside whatever the bot does then.

A fan-out calls all endpoints concurrently; each call is one action that takes
effect and returns, in any order. The posts to Hysteria servers, which the code
sends one after another, are also taken in any order. What the code reads and does
between two awaits is one action.

### Left out

Calls that are in flight when the bot dies are dropped: that the relay acts on one after the restart is what `CallTimesOut`
and a restart give with a second failure. The label, the limit, the whitelist and the choice of a dialogue (`KeyDialogue`);
the text of answers; the content of a credential. `DoPost`, the handler of the Hysteria
sync server, is its effect: the list is replaced, or the call fails. An Xray that
runs since before the bot was started for the first time is in the initial state;
a database with revoked keys at start is reached by behaviours.

## 4. The model of the dialogue that creates keys

`KeyQuota` is the abstract specification of the active keys and of the questions that may still give a whitelist key.
A key of a user who is no admin may be added below the limit only; a whitelist key, moreover, only by using up a question that
was asked in one of the user's dialogues when the user had no such key; any key may be removed. `KeyDialogue` is the code.

| variable | code |
|---|---|
| `active` | rows with `active = true`, as committed: id, owner, and whether `is_whitelist` is true |
| `drawn` | ids of rows ever inserted; a rollback does not give one back |
| `state` | the FSM state of each dialogue, that is of each user in each chat, in the memory of the bot and outside the transaction |
| `pc, from, what, whitelist, new` | the locals of each update: its user and chat, what the user did, `is_whitelist`, the row it has inserted |

A dialogue is a user and a chat, the key of aiogram's storage (`Dispatcher()` in `__main__.py:49`); `Chats` says which
chats each user writes in, private or not. Handlers see the state of their own chat, and the rows of
the user, whatever chat they came from.

`Arrive` is the moment aiogram takes the update and, for a typed label, evaluates the
filter on the state. `Handled`, the guard of every first step of a handler, is the row
lock that the `UPDATE` of `UpdateUserMiddleware` takes: no other update of the user is
between that statement and the end of its transaction. From there a handler is
`MenuKeysAdd`, `LabelCustom`, `LabelRefused`, `LabelChosen` with `Resolve` (the query of
`user_has_active_whitelist_subscription`), or `WhitelistChosen`; a creation goes on with the
count (`LimitReached`) or the insert (`CreateSubscription`) and ends with `Commit`. The
count and the insert are one action: what either could see of other transactions of
the user the lock excludes, and other users' rows are not counted. Any update may
fail at any point (`HandlerRaises`) and leaves the state as it was set;
`BotRestart` forgets states and updates; `Revoked` is any other handler's revocation.

An admin skips the question; the prompt of a dialogue that is over, clicked again, is
refused; two clicks on "yes" and two typed labels are in the model, and two typed labels do
create two keys. Questions may be open in several chats at once, and each "yes" gives a whitelist
key: `WhitelistKeysPerChat` is what is left of the promise of the prompt, and run
`second_whitelist_key` shows that the promise is not kept.

The database may be older than the dialogue: `Migrated` are the active rows that migration 004 found. Its new column is
nullable and has no default, so `is_whitelist` is NULL there, which `user_has_active_whitelist_subscription`
(`repositories.py:360`) does not count as true. `docs/06-bot-and-subs.md:36` says otherwise: "New subscriptions and migrated
existing rows use `subscriptions.is_whitelist = true` until an operator updates the row". Neither half is
what the code does. A migrated row has NULL, which does give access to every server, as `true` would
(`subscription_format.py:60` restricts a key only if it is false), but leaves its user entitled to a whitelist
key; and a new key has what the dialogue decided, false after "no" or when the user has a whitelist key already. The models follow the
code and the migration. Users are registered throughout: what their deletion does to keys
is in `KeySync`. The text of a label is left out, valid or not is a choice.

## 5. The model of the broadcasts

One admin in one chat: the tables and the FSM state are keyed by chat or admin, and two admins share
nothing but the recipients. A text or single photo is sent by the handler itself
(`RunBroadcast`, `ReadUsers`, `SendOne`, `SendDone`, `Report`), inside its transaction. A photo
of an album (`AlbumPhoto`) goes into a bucket and restarts its timer; the timer
(`TakeAlbum`) takes the bucket, asks for the state of the chat and goes on with the same
steps, as a task without a transaction.

| variable | code |
|---|---|
| `state` | FSM state of the admin's chat; `"none"` also stands for dialogues that neither a broadcast nor `/cancel` asks about |
| `bucket` | `_broadcast_album_buffers`: the timer task of each album's bucket; the photos are left out |
| `entry` | `_broadcast_cancel_events[admin]`: which broadcast's event is in the table |
| `cancelled` | the events that are set |
| `pc, what` | where each update and timer is; what the admin did |
| `left, ok, failed` | recipients not yet tried by each broadcast, and the two counts of `_send_broadcast` |

The recipients are a number: nothing depends on who they are. The lock of the middleware
is `Handled`, as in `KeyDialogue`, and holds while a handler sends. The filters are
evaluated at `Arrive`, so a text that waits behind Back or behind another broadcast is
sent all the same, as in the code. `Ends` is the `finally`: it pops whatever event is in
the table. `Raises` is a failed announcement, report or query; a failed message is
counted. `Timers` bounds how many albums are pending or being sent.

## 6. The models of limiter and wire format

`ConnectionLimiter` extends `KeySync`, so the limiter's calls meet every step of handlers,
syncs and failures on the same relays. `LoadActiveSubscriptions` reads the active keys
once, with both names of each; the relays are asked one after another (`NothingToReset`,
`SomeOver`); a client over the limit is removed and added again (`Reset`, `AddAgain`), where
each call may fail and a call that timed out may have had its effect. The limiter
does not come back to a client that it could not add again; the next sync does. A client may be
reset after its key was revoked meanwhile: the limiter then adds a revoked client, one
more way to what `revoke_removed` shows. A round counts as one of `MaxFaults`.

`ProtoWire` is byte by byte what `grpc_client.py` does to varints, fields and messages. The
strings are runs of one byte that differ between clients; their lengths are those of the
code (the names of types, a uuid, an e-mail with a telegram id), because lengths are
what the encoding depends on: the length of a request passes 127 where that of its parts
does not. `QueryStatsResponse` and `ReadAlterInboundRequest` are Xray's side. A truncated
message, on which `DecodeVarint` raises, is left out: gRPC delivers whole ones.

## 7. The model of the members

| variable | code |
|---|---|
| `users`, `codes` | the tables `users` and `invitations` as committed |
| `letIn` | history: how many users a code has let in |
| `pc, op` | where a handler is, and which one it is |
| `caller, seen` | the sender of its update, and its row as the middleware read it |
| `rows, held` | rows of users and of codes that its transaction has changed |
| `code, inv` | the code it works on, and the row it read of it or is to insert |
| `ids` | the users it revokes or deletes |

One action is one statement; it executes at the end of its wait, and sees what is committed then. What a
transaction has written is applied by `Commit`, `rows`, `held` and `ids` say until then what it has
locked. `WaitsFor` is PostgreSQL: an `UPDATE` waits for one that changed the row, an `INSERT` for
one that inserted the same primary key, both for the deletion of the user they refer to,
and a deletion of users for everybody who refers to one of them. A statement whose foreign key or
primary key does not hold raises (`Refused`). The two queries of `cmd_start` that only read
are one action with the decision they lead to. `HandlerRaises` also stands for
the transaction that PostgreSQL aborts in a deadlock and for a restart of the bot.

`existing` is what the middleware loaded when it found a row, because the session keeps it:
an update that arrives before a commit goes on with the old role. `/start` reads the code, and
`mark_invitation_used` writes it without asking again whether it is used; two users who open one
code at once both get in, and `CodeClosesAfterUse` says that this is all that can happen.
A user who comes back keeps the first inviter and role.

`DeleteConfirm` reads the tree; the rest of `delete_user_tree` is five statements
(`DeleteCodes`, `DetachCodes`, `NullifyInviters`, `DeleteUsers`, the commit). A user who registers below the
tree after it was read makes `DeleteUsers` wait and then fail, or fails itself:
`DeletionIsWhole`.

`MemberRegistry` is the abstract specification of the two tables: each of `Found`, `Join`, `Return`, `Invite`,
`ShutOut` and `Remove` happens at one moment and as a whole. Whoever joins is let in by somebody who is a member then, with
a role that the inviter may give, and goes with the inviter; inviter and role never change; one code at most is closed
for each user. What it does not promise, because the code does not keep it, is that the code that is
closed is the one the user has sent: between the query and the `UPDATE` an inviter may delete
it, and somebody else draw the same one.

`UserTree` is evaluated in every state in which no handler runs: the walk of
`_build_tree_text` over the users that `Membership` reaches, and the loop of `_chunk_text` over the widths of the
lines, for all limits up to `MaxLen`, the smaller one of the first message included.

Keys are left out (`KeySync` has what deletion and revocation do to them), and so are the lists, menus and
buttons that only read (`Answered`).

## 8. The model of the instructions

`Catalogue` says what a reader may rely on: an instruction appears whole and under an order of its own, a
deleted one does not come back, and a replacement, which is not atomic, takes away
only photos that were there when it began and gives new ones only to an instruction without others.
`Instructions` is the code.

| variable | code |
|---|---|
| `inst` | `instructions` with `instruction_photos`, as committed; a submission of photos is one value |
| `used` | ids drawn |
| `state, title, target` | FSM state and data of one admin in one chat, outside the transactions |
| `bucket` | `_album_buffers`: the task, photos and caption of an album |
| `pc, what` | where an update or an album task is, and which handler it belongs to |
| `op, id, num, name, text, files, read, removed, wrote` | the locals of a transaction and what it has written |

An update arrives (its filter sees the state), waits for the admin's row as in `KeyDialogue`, and runs statement
by statement. An album task has no such lock: after its pause it takes the bucket, looks at the chat again and
writes in a session of its own. The handlers clear the state after their last statement and before the
middleware's commit; the tasks commit and close their session first (`Written`, `Commit`) and clear the state in a step of their
own (`AlbumDone`), when the chat may already be about something else.

The statements of `replace_instruction_photos` are separate: the row is read (`GetInstruction`), the photos that
are there are deleted (`DeletePhotos` begins, `PhotosDeleted` ends its wait), the caption is written only if it differs from the
one read (`UpdateCaption`), the photos are inserted (`InsertPhotos`). The unique index on positions makes one of
two replacements fail; a `Refused` transaction leaves the chat as it is.

Behaviour that surprises and that the model has:

* The comment at `repositories.py:376` calls an instruction "text-only and/or up to 10 photos". A typed text that equals
  the one read is not written, and its deletion of photos may take those of an album that
  came between: the instruction is empty. `EmptiedByOvertakenText` says that this is
  the only way, and the theorem that it is so for any number of tasks.
* An album is stored under the title, or in the instruction, that the chat is about when the task ends.
* One dialogue can make two instructions: an album and a text that overlap.
* A second typed title replaces the first; a late photo of an album makes a second bucket, which is dropped
  when the state has moved on.

Left out: `instr_open`, which reads in two statements and writes nothing; the order of photos within a
submission; the length limits of texts (valid or not is a choice).

## 9. Runs

| run | instance | shows |
|---|---|---|
| `races` | admin, a friend, a friend's friend; a key of the previous release and one not issued; two updates and the syncs, two of them at a time; one relay, whose webhook may have two requests; one failure of any kind, after which one handler or two syncs run (356 thousand states) | `TypeOK`, and with the interleavings of two handlers, or of a handler and a sync: `FriendRevokeNotRepublished`, `DeletedUserHasNoKey`, `NoFaultServed`, `NobodyWaitsInVain` (behind every wait is somebody who works, or a deadlock); `KeepsLedger`, the refinement of `KeyLedger` |
| `repair` | one user, two keys, one handler, one failure of any kind or one round of the limiter, webhook (one request at a time) and periodic sync (171 thousand states) | `HysteriaOnlyCommitted`, `WireUnderstood`; `ActiveKeysServed`, `LegacyClientsRetired`, `HysteriaFollows` under fairness |
| `dialogue` | an admin, and a user with two chats and a key older than the dialogue; four ids, a limit of two, two updates at a time (571 thousand states) | `KeepsQuota`, the refinement of `KeyQuota`; `WhitelistKeysPerChat`; `TypeOK` |
| `broadcast` | two updates, two timers, two albums, two recipients | `OneTimerPerAlbum`, `EntryOfRunning`, `OneDirectBroadcast`, `ReportAddsUp`, `TypeOK` |
| `membership` | admin and two people, two codes, two updates at a time, no other bound (191 thousand states) | `InviterForest`, `L1ByAdmin`, `CodeClosesAfterUse`, `DeletionIsWhole`, `TypeOK`; `KeepsRegistry`, the refinement of `MemberRegistry`; `TreeListsEveryone`, `ChunksFit` |
| `instructions` | two updates, an album and its task, two instructions, three submissions of photos, one text, one title (348 thousand states) | `KeepsCatalogue`, the refinement of `Catalogue`; `PhotosOfOneSubmission`, `OrdersDistinct`, `DialogueHasSubject`, `EmptiedByOvertakenText`, `TypeOK` |
| `second_whitelist_key` | as `dialogue` | violated: `OneWhitelistKey` |
| `cancel_button` | as `broadcast` | violated: `CancelButtonWorks` |
| `revoke_answered` | one handler | violated: `BlockedWhenAnswered` |
| `revoke_removed` | one handler and a sync | violated: `RevokedClientsRemoved` |
| `last_key` | one handler and a sync | violated: `HysteriaMatchesDatabase` |
| `friend_revoked` | two handlers | violated: `InactiveUserHasNoKey` |

Two handlers are enough for the row locks, which relate two transactions: the
deadlock of two is the shortest cycle. `FewTasks` lets two tasks run in `races`, any two
until the failure and then a handler alone or two syncs: an aborted transaction leaves the other
alone, and rows, which are what this run is about, do not depend on relays. `repair` has a handler beside the
syncs after a failure. While a call is late, or a webhook is about to repeat its request, one task
runs; in `repair` everything overlaps a late call. `Attempts` is how many requests of a relay's webhook are served at a time: two in `races`,
one in `repair`, where the periodic sync is the second one. Three users give each of the relations the handlers ask for: an admin and
another, an inviter and a friend, a user in the tree of another. `MaxFaults` is one
in `races` and `repair`, so each failure meets every interleaving; a second failure starts from
a state the first one may leave. The limiter is no failure, but what it does to a relay is: one
round is enough for its calls to meet every step of a sync and of a revocation. `IpCounts` has a count
that is left out of the message (0), one over the limit in one byte and one that needs two. In `dialogue` two updates race for the last
free key, or one moves the state that the other has read, and two chats let a question stay open in one while a key is made in the other; four ids are
two more than the limit, one of them that of the older row, and revocations free places for the last. In `broadcast` two timers and two updates let a broadcast
of a handler, one of an album and a click overlap, and two albums; two recipients are
enough for a loop that is cancelled between two messages.

In `membership` three people give a chain of three, the shortest in which the deletion of a user in the middle meets a registration below; two codes are enough for two updates that use one, that draw the same, and for a code of
somebody below a user who is deleted. The user names have width 2 and `MaxLen` is 9, so that lines are shorter than, equal to and longer than the limits. In `instructions`, `MaxOpen` lets two transactions be open, one once all ids are
drawn, and `MaxWaiting` one update wait for the row, which two updates have only one of. Two replacements of one instruction,
a creation beside a creation, and a deletion beside either are thus all met; three submissions are the content there is and two that replace it (`FewPhotos` leaves one of the three aside once both ids are drawn). The theorems
of section 10 have none of these bounds.

Symmetry is used in `races`, `dialogue`, `broadcast`, `cancel_button`, `membership` and `instructions`, which
check safety only. Deadlock is checked in every run: some task can always move.

### Fairness

`WF` for the steps of each task: asyncio runs every ready task, and gRPC and HTTP
calls have timeouts; the limiter's task is one of them (`WF` on `LimiterStep`). `SF` for a handler's statements that wait for locks:
PostgreSQL serves lock queues in order. `WF` for the start of the periodic sync,
whose loop never ends. None is assumed of users, of failures, of the start of the limiter's rounds or of webhooks, whose
script may give up. The liveness properties ask that the database comes to rest
(`<>[]`): while users keep changing a key nothing is promised.

### What the violated runs say

1. `BlockedWhenAnswered`: every revocation but the friend's reads the list for Hysteria
   before its own commit, and so puts the key it revokes back in the list. The
   answer to the admin says that access is blocked; it is until the next sync.
2. `RevokedClientsRemoved`: a sync that read the keys before the revocation adds the
   client again, and no sync removes clients. The key works on that Xray until it
   restarts. The same holds after a failed removal, and after a rolled back issue.
3. `HysteriaMatchesDatabase`: with no active key left the sync returns before it posts,
   so the list keeps the last key revoked.
4. `InactiveUserHasNoKey`: the middleware checks `active` before it waits for the row
   and `friends_revoke_confirm` reads the keys before it waits; either order leaves an
   inactive user with an active key.
5. `CancelButtonWorks`: a click on the button is an update of the admin, and the middleware
   makes it wait for the row that the broadcast's own handler has locked. A text or a
   single photo cannot be cancelled: the click is answered when all is sent. An album
   can, but a second broadcast meanwhile overwrites its event in the table or pops it.
6. `OneWhitelistKey`: `sub_whitelist_chosen` asks for the state of its own chat only and
   `create_subscription` counts keys of any kind. A user who has the question open in a private
   chat and in a group and answers "yes" in both has two whitelist keys, though the question
   says that only one can be issued (`subscription.py:96`).

## 10. Proofs

Every invariant and every refinement of section 9 that a passing run checks is a theorem, too. The constants of `KeySync`
are any sets that satisfy its named assumptions: any users with any inviters and trees that contain their
root, any keys and owners, at least one relay of each kind, any failures, and finitely many handlers
(which only the theorem about waiting uses).

* `TypeCorrect` (`KeySync_proofs`). `TypeInv` adds to `TypeOK` that a task with calls
  left is at a fan-out or a post, so `AfterCalls` is defined, and that a fan-out has a
  key: without it `AddClient` could add the client of `None`.
* The rows (`KeySync_proofs`): one inductive invariant, `RowInv`, of nine named parts. The
  parts that are not properties themselves say what the uncommitted state of handlers
  rules out: an issued key is not committed and is of no other handler
  (`IssuedKeys`), a revoked key was committed (`RevokedKeys`), every handler but the
  friend's revocation keeps its transaction open (`Transactional`), a deletion past
  its locks excludes the issue of keys to its users (`NoIssueToDeleted`). Steps that
  change no row and start no statement share the lemma `QuietStep`; `PublishRows` and
  `PublishOthers` say what a commit does to rows and to other handlers.
  From it: `FriendRevokeSafe`, `DeletionComplete`. `HysteriaCommitted` needs in
  addition that a committed row stays (`RowSteps`) and that what a task posts, in time or
  late, is what it has read (`CredentialSteps`).

* The ledger: `LedgerKept` is the refinement of `KeyLedger`. `Intents` says of every handler that what it is about to
  commit is one operation of the ledger, asked for by a user who may; by `RowsMove` only commits and `Reinvite`
  change rows, and the other steps stutter. The deletion is the hard
  case: it commits the keys it read and the rows of its tree, and the ledger wants all keys that are active then. That
  is `DeletedUserHasNoKey` after the step, which `RowInv` proves from the locks. `LedgerPromises`
  goes the other way: whatever keeps the ledger never leaves a deleted user a key, brings nobody deleted back, and
  makes no revoked key active again.

* Waiting: `WaitsAreForWork` is `NobodyWaitsInVain` for any finite number of handlers, the safety half of "every handler ends". A transaction that is open belongs
  to a handler that has begun (`OpenWorks`), so whoever is waited for has an operation. If all that a handler waits for, directly or
  through others, waited too, they would be a set that waits for nobody outside; a least such
  set (`LeastStuck`) is a deadlock in the sense of `DeadlockAbort` (`StuckDeadlocked`).

* The relays: `NoFaultServed` (`ServedWithoutFault`) follows from `ServedInv`, which
  relates every fan-out to the clients while nothing has failed. An active key that is on a relay under neither name
  is either of a handler past its statements (`Removing`), which only its commit can end, and that commit revokes the key, or
  the key of the periodic sync, whose call that adds it to this relay is still to come (`Migrating`). No other sync
  runs (`OneSync`): a webhook needs a relay that restarted. The key a handler issues is on every relay it has called
  (`IssuedOnRelays`), and nobody takes it from there because no revocation has read its row; so it is served
  from its commit on. `HandlerCalls` and `SyncCalls` are the lemmas for a step of a handler and of the sync.

* `ConnectionLimiter_proofs` assumes in addition finitely many clients, e-mails that are not empty, and a positive limit of
  addresses. First the wire, without any state: `VarintRoundTrip` says that `DecodeVarint` after `EncodeVarint`
  gives back every number and goes on where it ends, whatever bytes stand before and after it; the lemmas on fields
  build on it, and `RemovalRead`, `AdditionRead` and `AnswerRead` say that what one side writes the other side reads, for texts of
  any length and any number of counters. `RequestsUnderstood` is `WireUnderstood` in every state. Then the composition: a step of the limiter changes clients
  and its own variables and nothing else, and while a round has begun a fault is spent (`LimiterMoves`); so `AllInv`, all that `KeySync` keeps, is kept beside it,
  and `CredentialsBesideLimiter`, `KeysBesideLimiter` and `LedgerBesideLimiter` restate the theorems for the
  composition.

* `KeyDialogue_proofs` assumes that admins are users, that the limit is a natural
  number, that each user writes in finitely many chats, and that the migrated rows are finitely many, have ids of their own
  and are not whitelist keys. Its invariant `Inv` has six named parts. `OneUpdatePerUser` is the row lock,
  and everything else rests on it: while an update is between its check and its commit
  no other changes the rows of its user, from whatever chat, so the count (`CreatedRows`, `Addable`) still holds at the commit. The
  states of other chats are not the lock's business, and nothing is said of them but that an admin is never asked. `AddableFewer` shows that revocations can only help (subsets of a finite set have no
  more elements), `FewerRows` and `MovesInv` carry the steps that insert nothing. `QuotaKept`
  is the refinement: an open question, or a "yes" that is not committed yet, is one of the quota's questions (`Questions`);
  a question is `Ask`, a "no", a failure or a restart `Forget`, the commit of a row `Add`, a revocation `Remove`, and the rest
  stutters. `QuotaPromises` says what the quota comes to, from `KeyQuota` alone and with `QuotaKept` for the dialogues:
  ids are unique, a user who is no admin has at most `MaxActive` active keys or only migrated ones, whitelist keys and questions
  are together at most the user's chats (the question of a chat replaces the one before, and is used up by the key), and an admin
  gets only whitelist keys. `WhitelistBound` is that bound for the code, and `OneChatEnough` what follows for a user with one chat: the one key
  that the prompt promises.

* `Broadcast_proofs` assumes that tasks are distinct and that the number of recipients is a
  natural number. `Inv` adds to the properties that one update at a time is in its handler
  (`OneUpdate`), that updates do not sleep, and that the counts add up while sending. A timer
  that is cancelled is one of a bucket, and by `OneTimerPerAlbum` it sleeps; so no step of an
  update can end a running broadcast, and `EntryOfRunning` survives the clearing of buckets.
  The five theorems are its parts.

* `Instructions_proofs` assumes that tasks, ids and the rest of the data are not `None` and that updates and album tasks
  differ; any numbers of each. `Inv` has a part for each idea: what the locals of a task are at each label (`TaskOK`), that a
  bucket is that of a sleeping task (`BucketOK`), that the chat has what its state asks for (`ChatOK`), and what the
  locks say of every pair of transactions: an order that is inserted is nobody else's (`OrderOf`), photos that are
  inserted or deleted are (`InsertedOf`, `DeletedOf`). With them an instruction has one submission (`OnePhoto`). `Fresh`
  says that the photos of a message are in no other place: without it a commit could not tell its
  photos from those it deletes. `StepKeeps` is the lemma for a step that commits nothing,
  `FreshKept` and `CommitLess` those for commits. `CatalogueKept` maps `CommitCreate` to `Add`, `GetInstruction` to `Begin`,
  `CommitReplace` to `Replace` or, when the row is gone, to `GiveUp`, `CommitTitle` to `Retitle`, `CommitRemove` to `Remove`, every
  other end and a restart to `GiveUp`, and the rest to a stutter. `CataloguePromises` derives from `Catalogue` alone that orders are distinct, that an instruction
  has the photos of one submission at most, and that a deleted id does not come back.

* `Membership_proofs` assumes that the admin is one of the people, that `None` is neither a person nor a code, and that finitely many updates
  are handled at the same time. `HandlerOK` is what holds of every handler and of every pair: what its locals are (`Shape`), that rows and codes it
  has changed exist and are nobody else's (`RowLocks`, `CodeLocks`), that a user or code that is to be
  committed is still missing and what it refers to is there (`NewMember`, `NewCode`), and that nothing refers to
  users who are to be deleted, in the tables (`DeletionReady`) or in another transaction (`Apart`). These are
  what the waits establish, and they are why a commit, which checks nothing, keeps the foreign keys. `RolesOf` and
  `AdminsKnown` carry the roles from the code that was read to the row that is committed. `UsesBounded` counts, with the users a code has let in, those who
  have read it while it was unused: the sum does not grow after the code was used, so `CodesClose`. `EarlyInv` is the lemma for statements that others cannot
  see, `StepInv` for the others, `CommitKeeps` for commits, where `OwedTo` is what new tables owe to each open transaction.
  `DeletionsAreWhole` needs no induction over the tree: by `DeletionReady` the set that is deleted is closed under "has invited", and
  `Tree` is the least such set.

  `RegistryKept` is the refinement of `MemberRegistry`. `RegistryInv` adds to `Inv` that only the admin has no inviter and that what
  codes refer to is there (`References`), and what the locals of each handler are up to (`Purpose`), for instance that whom the handler
  of a revocation shuts out is one user and never the admin. With it each commit is one operation, and everything else a
  stutter. `RegistryPromises` derives from the registry alone the forest, the roles, `OneTree` and that inviter, role and the
  use of a code last. `EverybodyBelowTheAdmin` is `OneTree` for the code: a forest in which only
  the admin has no inviter is one tree, so deletion and the list of users reach everybody.

* `UserTree_proofs` assumes that names are not empty and that the limit is positive. The walk and the cutting are recursive
  functions, and the installed provers cannot instantiate an induction rule; each induction is instead made by the least counterexample (`NatLeast`, and `SomeoneWithoutFriends` along
  the forest: among any members somebody has invited none of them). That a recursive definition defines what it says is
  `ChainExists`, for any function that goes down along a measure. `EveryoneIsListedOnce`: the walk from a user lists the tree of that user, each once
  (`WalkListsTree`), because trees of different friends are apart. `ChunksCorrect` has the loop of `_chunk_text` as an
  invariant (`ChunkInv`): the chunks so far keep to their limits, and chunks and buffer together are the lines so far. It holds
  for any lines that are not empty and any two limits of which the first is not the larger one; `ChunksFitTheirMessages` applies it to the text of the tree.

* `SequenceLemmas` has what the modules that extend it need of least numbers, `FlattenSeq`, `SetToSeq` and recursive functions.

Only model-checked: `ActiveKeysServed`, `LegacyClientsRetired` and `HysteriaFollows`. They are liveness
properties under fairness, which is out of the prover's reach.

## 11. Not modelled

* Subscription links and the HTTP endpoint that serves them: one key is read and turned into text; no state, and the repository's own tests reach what there is.
* Menus and keyboards: presentation. Whether a button may be pressed after what it shows has changed is in the models, whose buttons are never removed.
* Migrations and the mapping exporter: run before the bot, or only read. The constraints the migrations create are used by the models.
* Hysteria's sync server beyond the replacement of its list: that somebody restarts the container later and it takes up a file whose restart had failed, and requests that the bot does not send.
* `html.escape` in the user tree, which lengthens a message after it was cut; the order of siblings in the tree.
* Wrong bytes from Xray, and a message that is cut off.
* An admin who composes broadcasts or instructions in several chats at once: `Broadcast` and `Instructions` have one admin in one chat. Dialogues of several chats share the recipients, the table of cancel events, and the rows of instructions, for which a second update or album task of the one chat stands.
