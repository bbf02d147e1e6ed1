-------------------------- MODULE Broadcast_proofs --------------------------
(***************************************************************************)
(* The safety properties of Broadcast, for any number of updates, timers,   *)
(* albums and recipients.                                                   *)
(***************************************************************************)
EXTENDS Broadcast, TLAPS

\* The lock on the admin's row.
OneUpdate ==
    \A s, t \in Updates :
        pc[s] \notin {"idle", "enter"} /\ pc[t] \notin {"idle", "enter"} => s = t

\* Only timers sleep, and only while they do is their album in a bucket.
UpdatesAwake == \A t \in Updates : pc[t] # "sleeping"

\* Every recipient is counted once.
CountsAddUp ==
    \A p \in Tasks :
        /\ pc[p] \in {"sending", "report"} => ok[p] + failed[p] + left[p] = Recipients
        /\ pc[p] = "report" /\ left[p] > 0 => p \in cancelled

Inv ==
    /\ TypeOK
    /\ OneTimerPerAlbum
    /\ EntryOfRunning
    /\ OneUpdate
    /\ UpdatesAwake
    /\ CountsAddUp

-----------------------------------------------------------------------------
(* One lemma for each kind of step.                                         *)

LEMMA NoneIsNoTask == None \notin Tasks /\ (\A t \in Updates : t \notin Timers)
  BY TaskAssumption DEF Tasks

LEMMA InitInv == Init => Inv
  <1> SUFFICES ASSUME Init PROVE Inv
    OBVIOUS
  <1>1. TypeOK
    BY RecipientsAssumption DEF Init, TypeOK, States, Running
  <1>2. OneTimerPerAlbum
    BY TaskAssumption DEF Init, OneTimerPerAlbum, Tasks
  <1>3. EntryOfRunning /\ OneUpdate /\ UpdatesAwake /\ CountsAddUp
    BY DEF Init, EntryOfRunning, OneUpdate, UpdatesAwake, CountsAddUp, Tasks
  <1> QED
    BY <1>1, <1>2, <1>3 DEF Inv

\* An update comes in, fails before its handler begins, or is committed.
LEMMA UpdateMoves ==
    ASSUME Inv, NEW t \in Updates, NEW l \in {"idle", "enter"},
           pc[t] \in {"idle", "enter", "answered"}, Goto(t, l),
           what' \in [Updates -> Acts \cup {None}],
           UNCHANGED <<state, bucket, entry, cancelled, counts>>
    PROVE  Inv'
  <1> USE DEF counts
  <1>1. TypeOK'
    BY DEF Inv, TypeOK, Goto
  <1>2. OneTimerPerAlbum'
    BY NoneIsNoTask DEF Inv, TypeOK, OneTimerPerAlbum, Goto, Tasks
  <1>3. EntryOfRunning'
    BY DEF Inv, TypeOK, EntryOfRunning, Goto, Running, Tasks
  <1>4. OneUpdate' /\ UpdatesAwake'
    BY DEF Inv, TypeOK, OneUpdate, UpdatesAwake, Goto, Tasks
  <1>5. CountsAddUp'
    BY DEF Inv, TypeOK, CountsAddUp, Goto, Tasks
  <1> QED
    BY <1>1, <1>2, <1>3, <1>4, <1>5 DEF Inv

\* A handler that leaves buckets and timers alone: it answers, or begins a
\* broadcast.
LEMMA HandlerBegins ==
    ASSUME Inv, NEW t \in Updates, NEW a, Handled(t, a),
           NEW l \in {"answered", "users"}, Goto(t, l),
           state' \in States,
           l = "answered" => entry' = entry /\ cancelled \subseteq cancelled'
                             /\ cancelled' \subseteq Tasks,
           l = "users" => Register(t),
           UNCHANGED <<what, bucket, counts>>
    PROVE  Inv'
  <1> USE DEF counts
  <1>0. pc[t] = "enter" /\ t \in Tasks /\ (\A s \in Updates \ {t} : pc[s] \in {"idle", "enter"})
    BY DEF Handled, Tasks
  <1>1. TypeOK'
    BY <1>0 DEF Inv, TypeOK, Goto, Register, Running
  <1>2. OneTimerPerAlbum'
    BY <1>0, NoneIsNoTask DEF Inv, TypeOK, OneTimerPerAlbum, Goto, Tasks
  <1>3. EntryOfRunning'
    BY <1>0 DEF Inv, TypeOK, EntryOfRunning, Goto, Running, Register
  <1>4. OneUpdate' /\ UpdatesAwake'
    BY <1>0 DEF Inv, TypeOK, OneUpdate, UpdatesAwake, Goto, Tasks
  <1>5. CountsAddUp'
    BY <1>0 DEF Inv, TypeOK, CountsAddUp, Goto, Register
  <1> QED
    BY <1>1, <1>2, <1>3, <1>4, <1>5 DEF Inv

\* Back and /cancel, when there is something to clear.
LEMMA ClearInv ==
    ASSUME Inv, NEW t \in Updates, NEW a, Handled(t, a), ClearPending(t),
           state' \in States, UNCHANGED <<what, entry, cancelled, counts>>
    PROVE  Inv'
  <1> USE DEF counts
  <1>0. pc[t] = "enter" /\ t \in Tasks /\ (\A s \in Updates \ {t} : pc[s] \in {"idle", "enter"})
    BY DEF Handled, Tasks
  <1>1. TypeOK'
    BY <1>0 DEF Inv, TypeOK, ClearPending
  <1>2. \A p \in Tasks : \/ pc'[p] = pc[p]
                         \/ p = t /\ pc'[p] = "answered"
                         \/ pc[p] = "sleeping" /\ pc'[p] = "idle"
    <2> SUFFICES ASSUME NEW p \in Tasks, p # t, pc'[p] # pc[p]
                 PROVE  pc[p] = "sleeping" /\ pc'[p] = "idle"
      BY <1>0 DEF ClearPending
    <2>1. (\E g \in Albums : bucket[g] = p) /\ pc'[p] = "idle"
      BY DEF ClearPending
    <2>2. p \in Timers
      BY <2>1, NoneIsNoTask DEF Inv, TypeOK
    <2> QED
      BY <2>1, <2>2 DEF Inv, OneTimerPerAlbum
  <1>3. OneTimerPerAlbum'
    BY <1>0, NoneIsNoTask DEF Inv, TypeOK, OneTimerPerAlbum, ClearPending, Tasks
  <1>4. EntryOfRunning'
    BY <1>0, <1>2 DEF Inv, TypeOK, EntryOfRunning, Running
  <1>5. OneUpdate' /\ UpdatesAwake'
    BY <1>0, <1>2 DEF Inv, OneUpdate, UpdatesAwake, Tasks
  <1>6. CountsAddUp'
    BY <1>0, <1>2 DEF Inv, CountsAddUp
  <1> QED
    BY <1>1, <1>3, <1>4, <1>5, <1>6 DEF Inv

LEMMA AlbumPhotoInv ==
    ASSUME Inv, NEW t \in Updates, AlbumPhoto(t)
    PROVE  Inv'
  <1> USE DEF counts
  <1>0. PICK g \in Albums, f \in Timers :
            /\ Handled(t, {g}) /\ pc[f] = "idle"
            /\ bucket' = [bucket EXCEPT ![g] = f]
            /\ pc' = [p \in Tasks |-> IF p = t THEN "answered"
                                      ELSE IF p = f THEN "sleeping"
                                      ELSE IF p = bucket[g] THEN "idle"
                                      ELSE pc[p]]
    BY DEF AlbumPhoto
  <1>1. /\ pc[t] = "enter" /\ t \in Tasks /\ f \in Tasks /\ t \notin Timers
        /\ \A s \in Updates \ {t} : pc[s] \in {"idle", "enter"}
    BY <1>0, NoneIsNoTask DEF Handled, Tasks
  <1>2. UNCHANGED <<state, what, entry, cancelled, counts>>
    BY DEF AlbumPhoto
  <1>3. bucket[g] \in Timers => pc[bucket[g]] = "sleeping"
    BY DEF Inv, OneTimerPerAlbum
  <1>4. \A h \in Albums : bucket[h] # f
    BY <1>0 DEF Inv, OneTimerPerAlbum
  <1>5. TypeOK'
    BY <1>0, <1>1, <1>2 DEF Inv, TypeOK
  <1>6. \A p \in Tasks : \/ pc'[p] = pc[p]
                         \/ p = t /\ pc'[p] = "answered"
                         \/ p \in Timers /\ pc[p] \in {"idle", "sleeping"}
                            /\ pc'[p] \in {"idle", "sleeping"}
    BY <1>0, <1>1, <1>3, NoneIsNoTask DEF Inv, TypeOK
  <1>7. OneTimerPerAlbum'
    <2> SUFFICES ASSUME NEW d \in Timers
                 PROVE  /\ pc'[d] = "sleeping" <=> \E h \in Albums : bucket'[h] = d
                        /\ \A h, j \in Albums : bucket'[h] = d /\ bucket'[j] = d => h = j
      BY DEF OneTimerPerAlbum
    <2>1. d \in Tasks /\ d # t /\ bucket'[g] = f
          /\ (\A h \in Albums \ {g} : bucket'[h] = bucket[h])
      BY <1>0, <1>1 DEF Tasks, Inv, TypeOK
    <2>2. CASE d = f
      BY <1>0, <1>4, <2>1, <2>2
    <2>3. CASE d # f /\ d = bucket[g]
      BY <1>0, <2>1, <2>3 DEF Inv, OneTimerPerAlbum
    <2>4. CASE d # f /\ d # bucket[g]
      BY <1>0, <2>1, <2>4 DEF Inv, OneTimerPerAlbum
    <2> QED
      BY <2>2, <2>3, <2>4
  <1>8. EntryOfRunning'
    BY <1>1, <1>2, <1>6 DEF Inv, TypeOK, EntryOfRunning, Running
  <1>9. OneUpdate' /\ UpdatesAwake'
    BY <1>1, <1>6, NoneIsNoTask DEF Inv, OneUpdate, UpdatesAwake, Tasks
  <1>10. CountsAddUp'
    BY <1>2, <1>6 DEF Inv, CountsAddUp
  <1> QED
    BY <1>5, <1>7, <1>8, <1>9, <1>10 DEF Inv

LEMMA TakeAlbumInv ==
    ASSUME Inv, NEW f \in Timers, TakeAlbum(f)
    PROVE  Inv'
  <1> USE DEF counts
  <1>0. /\ pc[f] = "sleeping" /\ f \in Tasks /\ f \notin Updates
        /\ bucket' = [g \in Albums |-> IF bucket[g] = f THEN None ELSE bucket[g]]
        /\ UNCHANGED <<state, what, counts>>
    BY NoneIsNoTask DEF TakeAlbum, Tasks
  <1>1. PICK l \in {"users", "idle"} :
            /\ pc' = [pc EXCEPT ![f] = l]
            /\ l = "users" => Register(f)
            /\ l = "idle" => UNCHANGED <<entry, cancelled>>
    BY DEF TakeAlbum, Goto
  <1>2. TypeOK'
    BY <1>0, <1>1 DEF Inv, TypeOK, Register, Running
  <1>3. OneTimerPerAlbum'
    <2> SUFFICES ASSUME NEW d \in Timers
                 PROVE  /\ pc'[d] = "sleeping" <=> \E h \in Albums : bucket'[h] = d
                        /\ \A h, j \in Albums : bucket'[h] = d /\ bucket'[j] = d => h = j
      BY DEF OneTimerPerAlbum
    <2>1. CASE d = f
      BY <1>0, <1>1, <2>1, NoneIsNoTask DEF Inv, TypeOK
    <2>2. CASE d # f
      BY <1>0, <1>1, <2>2, NoneIsNoTask DEF Inv, TypeOK, OneTimerPerAlbum, Tasks
    <2> QED
      BY <2>1, <2>2
  <1>4. EntryOfRunning'
    BY <1>0, <1>1 DEF Inv, TypeOK, EntryOfRunning, Running, Register
  <1>5. OneUpdate' /\ UpdatesAwake'
    BY <1>0, <1>1 DEF Inv, TypeOK, OneUpdate, UpdatesAwake, Tasks
  <1>6. CountsAddUp'
    BY <1>0, <1>1 DEF Inv, TypeOK, CountsAddUp, Register
  <1> QED
    BY <1>2, <1>3, <1>4, <1>5, <1>6 DEF Inv

\* A running broadcast that goes on running.
LEMMA StillRunning ==
    ASSUME Inv, NEW p \in Tasks, pc[p] \in Running,
           NEW l \in Running, Goto(p, l), TypeOK', UNCHANGED <<what, bucket, entry>>
    PROVE  OneTimerPerAlbum' /\ EntryOfRunning' /\ OneUpdate' /\ UpdatesAwake'
  <1>1. OneTimerPerAlbum'
    BY DEF Inv, TypeOK, OneTimerPerAlbum, Goto, Running, Tasks
  <1>2. EntryOfRunning'
    BY DEF Inv, TypeOK, EntryOfRunning, Goto, Running
  <1>3. OneUpdate' /\ UpdatesAwake'
    BY DEF Inv, TypeOK, OneUpdate, UpdatesAwake, Goto, Running, Tasks
  <1> QED
    BY <1>1, <1>2, <1>3

LEMMA ContinueInv ==
    ASSUME Inv, NEW p \in Tasks, ReadUsers(p) \/ SendOne(p) \/ SendDone(p)
    PROVE  Inv'
  <1> USE DEF counts
  <1>1. CASE ReadUsers(p)
    <2>1. TypeOK'
      BY <1>1, RecipientsAssumption DEF ReadUsers, Goto, Inv, TypeOK, States, Running
    <2>2. CountsAddUp'
      BY <1>1, RecipientsAssumption DEF ReadUsers, Goto, Inv, TypeOK, CountsAddUp
    <2>3. pc[p] \in Running /\ Goto(p, "sending") /\ UNCHANGED <<what, bucket, entry>>
      BY <1>1 DEF ReadUsers, Running
    <2>4. "sending" \in Running
      BY DEF Running
    <2> QED
      BY <2>1, <2>2, <2>3, <2>4, StillRunning DEF Inv
  <1>2. CASE SendOne(p)
    <2>0. /\ left[p] \in Nat /\ ok[p] \in Nat /\ failed[p] \in Nat /\ left[p] > 0
          /\ ok[p] + failed[p] + left[p] = Recipients /\ pc[p] = "sending"
      BY <1>2 DEF SendOne, Inv, TypeOK, CountsAddUp
    <2>1. TypeOK'
      <3>1. left' \in [Tasks -> 0..Recipients]
        BY <1>2, <2>0, RecipientsAssumption DEF SendOne, Inv, TypeOK
      <3>2. ok[p] + 1 \in 0..Recipients /\ failed[p] + 1 \in 0..Recipients
        BY <2>0, RecipientsAssumption
      <3>3. ok' \in [Tasks -> 0..Recipients] /\ failed' \in [Tasks -> 0..Recipients]
        BY <1>2, <3>2 DEF SendOne, Inv, TypeOK
      <3> QED
        BY <1>2, <3>1, <3>3 DEF SendOne, Inv, TypeOK
    <2>2. ok'[p] + failed'[p] + left'[p] = Recipients
      BY <1>2, <2>0 DEF SendOne, Inv, TypeOK
    <2>3. \A q \in Tasks \ {p} : ok'[q] = ok[q] /\ failed'[q] = failed[q] /\ left'[q] = left[q]
      BY <1>2 DEF SendOne, Inv, TypeOK
    <2>4. CountsAddUp'
      BY <1>2, <2>0, <2>2, <2>3 DEF SendOne, Inv, CountsAddUp
    <2>5. OneTimerPerAlbum' /\ EntryOfRunning' /\ OneUpdate' /\ UpdatesAwake'
      BY <1>2 DEF SendOne, Inv, OneTimerPerAlbum, EntryOfRunning, OneUpdate, UpdatesAwake
    <2> QED
      BY <2>1, <2>4, <2>5 DEF Inv
  <1>3. CASE SendDone(p)
    <2>1. TypeOK'
      BY <1>3 DEF SendDone, Goto, Inv, TypeOK, Running
    <2>2. CountsAddUp'
      BY <1>3 DEF SendDone, Goto, Inv, TypeOK, CountsAddUp
    <2>3. pc[p] \in Running /\ Goto(p, "report") /\ UNCHANGED <<what, bucket, entry>>
      BY <1>3 DEF SendDone, Running
    <2>4. "report" \in Running
      BY DEF Running
    <2> QED
      BY <2>1, <2>2, <2>3, <2>4, StillRunning DEF Inv
  <1> QED
    BY <1>1, <1>2, <1>3

\* A broadcast ends, reported or not.
LEMMA EndsInv ==
    ASSUME Inv, NEW p \in Tasks, pc[p] \in Running, Ends(p),
           UNCHANGED <<state, what, bucket>>
    PROVE  Inv'
  <1>0. PICK l \in {"answered", "idle"} :
            pc' = [pc EXCEPT ![p] = l] /\ (p \notin Updates => l = "idle")
    BY DEF Ends, Forget, Goto
  <1>1. TypeOK'
    BY <1>0, RecipientsAssumption DEF Ends, Forget, Inv, TypeOK
  <1>2. OneTimerPerAlbum'
    BY <1>0 DEF Inv, TypeOK, OneTimerPerAlbum, Running, Tasks
  <1>3. EntryOfRunning'
    BY DEF Ends, EntryOfRunning
  <1>4. OneUpdate' /\ UpdatesAwake'
    BY <1>0 DEF Inv, TypeOK, OneUpdate, UpdatesAwake, Running, Tasks
  <1>5. CountsAddUp'
    BY <1>0 DEF Ends, Forget, Inv, TypeOK, CountsAddUp
  <1> QED
    BY <1>1, <1>2, <1>3, <1>4, <1>5 DEF Inv

LEMMA RestartInv ==
    ASSUME Inv, BotRestart
    PROVE  Inv'
  <1>1. TypeOK'
    BY RecipientsAssumption DEF BotRestart, TypeOK, States
  <1>2. OneTimerPerAlbum'
    BY NoneIsNoTask DEF BotRestart, OneTimerPerAlbum, Tasks
  <1>3. EntryOfRunning' /\ OneUpdate' /\ UpdatesAwake' /\ CountsAddUp'
    BY DEF BotRestart, EntryOfRunning, OneUpdate, UpdatesAwake, CountsAddUp, Tasks
  <1> QED
    BY <1>1, <1>2, <1>3 DEF Inv

-----------------------------------------------------------------------------
(* The invariant, and what follows from it.                                 *)

\* What a handler does in its first step.
LEMMA BeginInv ==
    ASSUME Inv, NEW t \in Updates, Begin(t)
    PROVE  Inv'
  <1>0. state \in States /\ cancelled \subseteq Tasks /\ entry \in Tasks \cup {None}
        /\ {"none", "waiting_content", "other"} \subseteq States
    BY DEF Inv, TypeOK, States
  <1>1. CASE MenuBroadcast(t)
    BY <1>0, <1>1, HandlerBegins DEF MenuBroadcast
  <1>2. CASE Back(t)
    <2>1. CASE state = "waiting_content"
      BY <1>0, <1>2, <2>1, ClearInv DEF Back
    <2>2. CASE state # "waiting_content"
      BY <1>0, <1>2, <2>2, HandlerBegins DEF Back
    <2> QED
      BY <2>1, <2>2
  <1>3. CASE CmdCancel(t)
    <2>1. CASE state # "none"
      BY <1>0, <1>3, <2>1, ClearInv DEF CmdCancel
    <2>2. CASE state = "none"
      BY <1>0, <1>3, <2>2, HandlerBegins DEF CmdCancel
    <2> QED
      BY <2>1, <2>2
  <1>4. CASE OtherDialogue(t)
    BY <1>0, <1>4, HandlerBegins DEF OtherDialogue
  <1>5. CASE CancelClick(t)
    <2>1. cancelled' \subseteq Tasks /\ cancelled \subseteq cancelled'
      BY <1>0, <1>5 DEF CancelClick
    <2> QED
      BY <1>0, <1>5, <2>1, HandlerBegins DEF CancelClick
  <1>6. CASE ContentRefused(t)
    BY <1>0, <1>6, HandlerBegins DEF ContentRefused
  <1>7. CASE RunBroadcast(t)
    BY <1>0, <1>7, HandlerBegins DEF RunBroadcast
  <1>8. CASE AlbumPhoto(t)
    BY <1>8, AlbumPhotoInv
  <1> QED
    BY <1>1, <1>2, <1>3, <1>4, <1>5, <1>6, <1>7, <1>8 DEF Begin

LEMMA NextInv == Inv /\ [Next]_vars => Inv'
  <1> SUFFICES ASSUME Inv, [Next]_vars PROVE Inv'
    OBVIOUS
  <1>0. what \in [Updates -> Acts \cup {None}]
    BY DEF Inv, TypeOK
  <1>1. ASSUME NEW t \in Updates, NEW a \in Acts, Arrive(t, a)
        PROVE  Inv'
    <2>1. what' \in [Updates -> Acts \cup {None}]
      BY <1>0, <1>1 DEF Arrive
    <2> QED
      BY <1>1, <2>1, UpdateMoves DEF Arrive
  <1>2. ASSUME NEW t \in Updates, Begin(t)
        PROVE  Inv'
    BY <1>2, BeginInv
  <1>3. ASSUME NEW t \in Updates, Commit(t)
        PROVE  Inv'
    <2>1. what' \in [Updates -> Acts \cup {None}]
      BY <1>0, <1>3 DEF Commit
    <2> QED
      BY <1>3, <2>1, UpdateMoves DEF Commit
  <1>4. ASSUME NEW p \in Tasks, TooLong(p) \/ Report(p)
        PROVE  Inv'
    BY <1>4, EndsInv DEF TooLong, Report, Running
  <1>5. ASSUME NEW f \in Timers, TakeAlbum(f)
        PROVE  Inv'
    BY <1>5, TakeAlbumInv
  <1>6. ASSUME NEW p \in Tasks, Continue(p)
        PROVE  Inv'
    BY <1>4, <1>6, ContinueInv DEF Continue
  <1>7. ASSUME NEW p \in Tasks, Raises(p)
        PROVE  Inv'
    <2>1. CASE pc[p] \in Running
      BY <1>7, <2>1, EndsInv DEF Raises, Running
    <2>2. CASE pc[p] = "enter"
      <3>1. p \in Updates
        BY <1>7, <2>2 DEF Raises, Running
      <3>2. what' \in [Updates -> Acts \cup {None}]
        BY <1>0, <1>7, <2>2 DEF Raises, Running
      <3> QED
        BY <1>7, <2>2, <3>1, <3>2, UpdateMoves DEF Raises, Running
    <2> QED
      BY <1>7, <2>1, <2>2 DEF Raises
  <1>8. CASE BotRestart
    BY <1>8, RestartInv
  <1>9. CASE UNCHANGED vars
    BY <1>9 DEF vars, counts, Inv, TypeOK, OneTimerPerAlbum, EntryOfRunning, OneUpdate,
                UpdatesAwake, CountsAddUp
  <1> QED
    BY <1>1, <1>2, <1>3, <1>4, <1>5, <1>6, <1>7, <1>8, <1>9 DEF Next, Tasks

LEMMA AlwaysInv == Spec => []Inv
  BY InitInv, NextInv, PTL DEF Spec

\* The variables have their types, so the counts stay within the recipients.
THEOREM BroadcastTypeCorrect == Spec => []TypeOK
  <1>1. Inv => TypeOK
    BY DEF Inv
  <1> QED
    BY <1>1, AlwaysInv, PTL

\* Exactly the timers of the buckets sleep, whatever comes in between.
THEOREM AlbumSentOnce == Spec => []OneTimerPerAlbum
  <1>1. Inv => OneTimerPerAlbum
    BY DEF Inv
  <1> QED
    BY <1>1, AlwaysInv, PTL

\* The table of cancel events names no broadcast that is over.
THEOREM EntryIsLive == Spec => []EntryOfRunning
  <1>1. Inv => EntryOfRunning
    BY DEF Inv
  <1> QED
    BY <1>1, AlwaysInv, PTL

\* The lock on the admin's row keeps the broadcasts of handlers apart.
THEOREM DirectBroadcastsExclude == Spec => []OneDirectBroadcast
  <1>1. Inv => OneDirectBroadcast
    BY DEF Inv, OneUpdate, OneDirectBroadcast, Running
  <1> QED
    BY <1>1, AlwaysInv, PTL

\* The numbers an admin is told add up to the number of recipients.
THEOREM ReportIsComplete == Spec => []ReportAddsUp
  <1>1. Inv => ReportAddsUp
    BY DEF Inv, CountsAddUp, ReportAddsUp
  <1> QED
    BY <1>1, AlwaysInv, PTL
=============================================================================
