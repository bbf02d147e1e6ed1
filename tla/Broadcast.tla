------------------------------ MODULE Broadcast ------------------------------
(***************************************************************************)
(* The broadcasts of one admin.  A text or a single photo is sent to the    *)
(* active users by the handler of the update, inside its transaction, which *)
(* holds the lock on the admin's row from the middleware to its end.  The   *)
(* photos of an album are collected in a bucket; a timer that each photo    *)
(* restarts takes the bucket and sends it, in a task of its own, without a  *)
(* lock.  The state of the chat, the buckets and the table of cancel events *)
(* are in the memory of the bot.  The admin stays an admin.                 *)
(***************************************************************************)
EXTENDS Naturals, FiniteSets

CONSTANTS
    Updates,     \* updates of the admin that are handled at the same time
    Timers,      \* tasks that finish an album, the bound on those there are at a time
    Albums,      \* media groups
    Recipients,  \* how many active users there are besides the admin
    None

ASSUME TaskAssumption == None \notin Updates \cup Timers /\ Updates \cap Timers = {}
ASSUME ActAssumption ==
    /\ None \notin Albums
    /\ Albums \cap {"broadcast", "back", "/cancel", "cancel", "other", "message"} = {}
ASSUME RecipientsAssumption == Recipients \in Nat

VARIABLES
    state,     \* FSM state of the admin's chat
    pc,        \* where a task is
    what,      \* what the admin did
    bucket,    \* _broadcast_album_buffers: the timer of an album's bucket
    entry,     \* _broadcast_cancel_events: the broadcast whose event is in the table
    cancelled, \* broadcasts whose event is set
    left,      \* recipients a broadcast has not tried
    ok, failed \* what _send_broadcast counts

counts == <<left, ok, failed>>
vars == <<state, pc, what, bucket, entry, cancelled, left, ok, failed>>

Tasks == Updates \cup Timers
\* "none" is any state but those of a broadcast and of an instruction ("other").
States == {"none", "waiting_content", "other"}
Acts == {"broadcast", "back", "/cancel", "cancel", "other", "message"} \cup Albums
Running == {"users", "sending", "report"}

TypeOK ==
    /\ state \in States
    /\ pc \in [Tasks -> {"idle", "enter", "sleeping", "answered"} \cup Running]
    /\ what \in [Updates -> Acts \cup {None}]
    /\ bucket \in [Albums -> Timers \cup {None}]
    /\ entry \in Tasks \cup {None}
    /\ cancelled \in SUBSET Tasks
    /\ left \in [Tasks -> 0..Recipients]
    /\ ok \in [Tasks -> 0..Recipients]
    /\ failed \in [Tasks -> 0..Recipients]

Init ==
    /\ state = "none"
    /\ pc = [p \in Tasks |-> "idle"]
    /\ what = [t \in Updates |-> None]
    /\ bucket = [g \in Albums |-> None]
    /\ entry = None
    /\ cancelled = {}
    /\ left = [p \in Tasks |-> 0]
    /\ ok = [p \in Tasks |-> 0]
    /\ failed = [p \in Tasks |-> 0]

Goto(p, l) == pc' = [pc EXCEPT ![p] = l]

\* The filters on the state are evaluated when the update comes in.
Arrive(t, a) ==
    /\ pc[t] = "idle"
    /\ a \in {"message"} \cup Albums => state = "waiting_content"
    /\ Goto(t, "enter")
    /\ what' = [what EXCEPT ![t] = a]
    /\ UNCHANGED <<state, bucket, entry, cancelled, counts>>

\* Mutant: the middleware does not keep the row locked.
HandledAlways(t, a) == pc[t] = "enter" /\ what[t] \in a

\* The middleware's UPDATE has the admin's row, and the handler begins.
Handled(t, a) ==
    /\ pc[t] = "enter" /\ what[t] \in a
    /\ \A s \in Updates \ {t} : pc[s] \in {"idle", "enter"}

\* cmd_broadcast and menu_broadcast.
MenuBroadcast(t) ==
    /\ Handled(t, {"broadcast"})
    /\ state' = "waiting_content"
    /\ Goto(t, "answered")
    /\ UNCHANGED <<what, bucket, entry, cancelled, counts>>

\* clear_broadcast_album_pending_for_chat: the buckets go, their timers are
\* cancelled; t is the update that does it.
ClearPending(t) ==
    /\ bucket' = [g \in Albums |-> None]
    /\ pc' = [p \in Tasks |-> IF p = t THEN "answered"
                              ELSE IF \E g \in Albums : bucket[g] = p THEN "idle"
                              ELSE pc[p]]

\* broadcast_prompt_back.
Back(t) ==
    /\ Handled(t, {"back"})
    /\ IF state = "waiting_content"
       THEN state' = "none" /\ ClearPending(t)
       ELSE Goto(t, "answered") /\ UNCHANGED <<state, bucket>>
    /\ UNCHANGED <<what, entry, cancelled, counts>>

\* cmd_cancel, in the dialogues of broadcasts and of instructions.
CmdCancel(t) ==
    /\ Handled(t, {"/cancel"})
    /\ IF state # "none"
       THEN state' = "none" /\ ClearPending(t)
       ELSE Goto(t, "answered") /\ UNCHANGED <<state, bucket>>
    /\ UNCHANGED <<what, entry, cancelled, counts>>

\* A handler of another dialogue ends this one, or begins one that /cancel ends.
OtherDialogue(t) ==
    /\ Handled(t, {"other"})
    /\ state' \in {"none", "other"}
    /\ Goto(t, "answered")
    /\ UNCHANGED <<what, bucket, entry, cancelled, counts>>

\* broadcast_cancel_click.
CancelClick(t) ==
    /\ Handled(t, {"cancel"})
    /\ cancelled' = cancelled \cup ({entry} \ {None})
    /\ Goto(t, "answered")
    /\ UNCHANGED <<state, what, bucket, entry, counts>>

\* The text or the caption is not valid.
ContentRefused(t) ==
    /\ Handled(t, {"message"})
    /\ Goto(t, "answered")
    /\ UNCHANGED <<state, what, bucket, entry, cancelled, counts>>

\* A broadcast puts a new event into the table.
Register(p) ==
    /\ entry' = p
    /\ cancelled' = cancelled \ {p}

RunBroadcast(t) ==
    /\ Handled(t, {"message"})
    /\ Register(t)
    /\ Goto(t, "users")
    /\ UNCHANGED <<state, what, bucket, counts>>

\* Mutant: the timer of the photo before is not cancelled.
AlbumPhotoNoCancel(t) ==
    /\ \E g \in Albums :
           /\ Handled(t, {g})
           /\ \E f \in Timers :
                  /\ pc[f] = "idle"
                  /\ bucket' = [bucket EXCEPT ![g] = f]
                  /\ pc' = [pc EXCEPT ![t] = "answered", ![f] = "sleeping"]
    /\ UNCHANGED <<state, what, entry, cancelled, counts>>

\* A photo of an album: a new timer, and the one of the photo before is cancelled.
AlbumPhoto(t) ==
    /\ \E g \in Albums :
           /\ Handled(t, {g})
           /\ \E f \in Timers :
                  /\ pc[f] = "idle"
                  /\ bucket' = [bucket EXCEPT ![g] = f]
                  /\ pc' = [p \in Tasks |-> IF p = t THEN "answered"
                                            ELSE IF p = f THEN "sleeping"
                                            ELSE IF p = bucket[g] THEN "idle"
                                            ELSE pc[p]]
    /\ UNCHANGED <<state, what, entry, cancelled, counts>>

\* The pause is over: the timer takes the bucket; the dialogue may be over, or
\* the album refused.
TakeAlbum(f) ==
    /\ pc[f] = "sleeping"
    /\ bucket' = [g \in Albums |-> IF bucket[g] = f THEN None ELSE bucket[g]]
    /\ \/ /\ state = "waiting_content"
          /\ Register(f)
          /\ Goto(f, "users")
       \/ /\ Goto(f, "idle")
          /\ UNCHANGED <<entry, cancelled>>
    /\ UNCHANGED <<state, what, counts>>

\* Mutant: the message goes to the admin as well.
ReadUsersAndAdmin(p) ==
    /\ pc[p] = "users"
    /\ state' = "none"
    /\ Goto(p, "sending")
    /\ left' = [left EXCEPT ![p] = Recipients + 1]
    /\ ok' = [ok EXCEPT ![p] = 0]
    /\ failed' = [failed EXCEPT ![p] = 0]
    /\ UNCHANGED <<what, bucket, entry, cancelled>>

\* list_active_users has answered; the dialogue ends and the admin is told.
ReadUsers(p) ==
    /\ pc[p] = "users"
    /\ state' = "none"
    /\ Goto(p, "sending")
    /\ left' = [left EXCEPT ![p] = Recipients]
    /\ ok' = [ok EXCEPT ![p] = 0]
    /\ failed' = [failed EXCEPT ![p] = 0]
    /\ UNCHANGED <<what, bucket, entry, cancelled>>

\* The locals of a broadcast that is over.
Forget(p) ==
    /\ Goto(p, IF p \in Updates THEN "answered" ELSE "idle")
    /\ cancelled' = cancelled \ {p}
    /\ left' = [left EXCEPT ![p] = 0]
    /\ ok' = [ok EXCEPT ![p] = 0]
    /\ failed' = [failed EXCEPT ![p] = 0]

\* Mutant: the event is popped only when the broadcast was reported.
EndsWithoutFinally(p) ==
    /\ entry' = IF pc[p] = "report" THEN None ELSE entry
    /\ Forget(p)

\* finally: whatever event is in the table is popped.
Ends(p) ==
    /\ entry' = None
    /\ Forget(p)

\* _run_broadcast finds the text too long after it has registered its event.
TooLong(t) ==
    /\ pc[t] = "users"
    /\ Ends(t)
    /\ UNCHANGED <<state, what, bucket>>

\* Mutant: only what was delivered is counted.
SendOneUncounted(p) ==
    /\ pc[p] = "sending" /\ left[p] > 0 /\ p \notin cancelled
    /\ left' = [left EXCEPT ![p] = @ - 1]
    /\ ok' \in {ok, [ok EXCEPT ![p] = @ + 1]} /\ UNCHANGED failed
    /\ UNCHANGED <<state, pc, what, bucket, entry, cancelled>>

\* One turn of the loop of _send_broadcast; a message that fails is counted.
SendOne(p) ==
    /\ pc[p] = "sending" /\ left[p] > 0 /\ p \notin cancelled
    /\ left' = [left EXCEPT ![p] = @ - 1]
    /\ \/ ok' = [ok EXCEPT ![p] = @ + 1] /\ UNCHANGED failed
       \/ failed' = [failed EXCEPT ![p] = @ + 1] /\ UNCHANGED ok
    /\ UNCHANGED <<state, pc, what, bucket, entry, cancelled>>

\* The loop is over, or it meets its event.
SendDone(p) ==
    /\ pc[p] = "sending" /\ (left[p] = 0 \/ p \in cancelled)
    /\ Goto(p, "report")
    /\ UNCHANGED <<state, what, bucket, entry, cancelled, counts>>

\* _finish_broadcast_ui, and what _finish has instead of it.
Report(p) ==
    /\ pc[p] = "report"
    /\ Ends(p)
    /\ UNCHANGED <<state, what, bucket>>

\* The middleware commits.
Commit(t) ==
    /\ pc[t] = "answered"
    /\ Goto(t, "idle")
    /\ what' = [what EXCEPT ![t] = None]
    /\ UNCHANGED <<state, bucket, entry, cancelled, counts>>

\* A call to Telegram or a statement fails: finally, and rollback.  The loop
\* itself lets no failure through, only the message that announces it.
Raises(p) ==
    /\ \/ /\ pc[p] \in Running
          /\ pc[p] = "sending" => left[p] = Recipients
          /\ Ends(p)
          /\ UNCHANGED what
       \/ /\ p \in Updates /\ pc[p] = "enter"
          /\ Goto(p, "idle")
          /\ what' = [what EXCEPT ![p] = None]
          /\ UNCHANGED <<entry, cancelled, counts>>
    /\ UNCHANGED <<state, bucket>>

BotRestart ==
    /\ state' = "none"
    /\ pc' = [p \in Tasks |-> "idle"]
    /\ what' = [t \in Updates |-> None]
    /\ bucket' = [g \in Albums |-> None]
    /\ entry' = None
    /\ cancelled' = {}
    /\ left' = [p \in Tasks |-> 0]
    /\ ok' = [p \in Tasks |-> 0]
    /\ failed' = [p \in Tasks |-> 0]

Begin(t) ==
    \/ MenuBroadcast(t) \/ Back(t) \/ CmdCancel(t) \/ OtherDialogue(t)
    \/ CancelClick(t) \/ ContentRefused(t) \/ RunBroadcast(t) \/ AlbumPhoto(t)

Continue(p) == ReadUsers(p) \/ SendOne(p) \/ SendDone(p) \/ Report(p)

Next ==
    \/ \E t \in Updates :
           \/ \E a \in Acts : Arrive(t, a)
           \/ Begin(t) \/ TooLong(t) \/ Commit(t)
    \/ \E f \in Timers : TakeAlbum(f)
    \/ \E p \in Tasks : Continue(p) \/ Raises(p)
    \/ BotRestart

Spec == Init /\ [][Next]_vars

-----------------------------------------------------------------------------
(***************************************************************************)
(* Properties.                                                              *)
(***************************************************************************)
\* However fast the photos come and whatever ends the dialogue, the timers
\* that sleep are those of the buckets, one each: an album is not sent twice,
\* and cancelling the timer of a bucket never kills a broadcast that runs.
OneTimerPerAlbum ==
    \A f \in Timers :
        /\ pc[f] = "sleeping" <=> \E g \in Albums : bucket[g] = f
        /\ \A g, h \in Albums : bucket[g] = f /\ bucket[h] = f => g = h

\* An event in the table is that of a broadcast that runs, failures included:
\* the answer that the broadcast is being stopped is true of one.
EntryOfRunning == entry # None => pc[entry] \in Running

\* Two messages sent in a hurry are broadcast one after the other.
OneDirectBroadcast ==
    \A s, t \in Updates : pc[s] \in Running /\ pc[t] \in Running => s = t

\* What the admin is told adds up, for broadcasts that were stopped too.
ReportAddsUp ==
    \A p \in Tasks : pc[p] = "report" =>
        /\ ok[p] + failed[p] + left[p] = Recipients
        /\ left[p] > 0 => p \in cancelled

\* "The button that cancels during a broadcast" (keyboards/menus.py:36): a click
\* that comes while a broadcast sends finds the event of that broadcast, and
\* need not wait for the row that the broadcast's own transaction has locked.
CancelButtonWorks ==
    [][\A t \in Updates, p \in Tasks :
           Arrive(t, "cancel") /\ pc[p] = "sending" => entry = p /\ p \notin Updates]_vars
=============================================================================
